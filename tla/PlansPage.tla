----------------------------- MODULE PlansPage -----------------------------
(***************************************************************************)
(* The pages on which a user of the browser UI makes and manages backup    *)
(* plans: views/myAccount/backupPlans and views/myAccount/myPlans, with    *)
(* what FS3 does of their requests (cmd/web-handlers.go).                  *)
(*                                                                         *)
(* A plan is its status and its duration.  Durations are typed in days and *)
(* stored in epochs; NaN is what JavaScript makes of a text that is no     *)
(* number.  The list is masked while the page is loading and the dialogs   *)
(* cover the page, but the pager is never masked.                          *)
(***************************************************************************)
EXTENDS Session, FiniteSetsExt

CONSTANTS PlanLimit,   \* plans on a page of the list (10 in the code)
          MaxPlans,    \* bound: plans in the database
          Days         \* the durations users type, besides a text that is no number

NaN == -1
ASSUME PlanBounds == /\ PlanLimit \in Nat \ {0} /\ MaxPlans \in Nat
                     /\ Days \subseteq Nat \ {0}

VARIABLES plans,       \* psql_volume_backup_plans, by ID
          asked        \* what the user has asked for, and of which plan (history)

planVars == <<plans, asked>>
\* asked.mixed: a dialog has been given another plan than the user chose.
\* asked.raced: a form has been edited after it was validated.
keepSession == <<token, account, secret, since>>

Pages(total, limit) == Max({1, (total + limit - 1) \div limit})
\* Order, Limit, Offset(offset * limit) of the queries.
PageOf(s, offset, limit) ==
    LET from == Min({offset * limit, Len(s)}) to == Min({from + limit, Len(s)})
    IN  [k \in 1..(to - from) |-> s[from + k]]

----------------------------------------------------------------------------
(* What FS3 does.                                                          *)

EpochsPerDay == 24 * 60 * 2

ListedOf(ps) ==
    LET Row(p) == [ID |-> p, Status |-> ps[p].Status]
        listed == {p \in DOMAIN ps : ps[p].Status \in {"Enabled", "Disabled"}}
    IN  Only([p \in DOMAIN ps |-> Row(p)], listed)
ListedPlans == ListedOf(plans)

\* A write that no page waits for any more leaves the list behind, if it is
\* the list that is shown (history).
Unseen(i) == IF calls[i].live \/ page # "myPlans" THEN UNCHANGED view
             ELSE view' = [view EXCEPT !.behind = TRUE]
ReplyIfLive(i, data) == IF calls[i].live THEN Reply(i, data) ELSE Done(i, <<>>)

\* The total counts the deleted plans as well.
PsqlBackupVolumeGetPlans(i) ==
    /\ IsSent(i, "ListPlans") /\ Authorised(i)
    /\ Reply(i, [total |-> Len(plans),
                 list |-> PageOf(ListedPlans, calls[i].arg.Offset, PlanLimit)])
    /\ UNCHANGED <<page, view, plans>>

\* The duration is stored as it comes, in a plan that runs at once.
PsqlBackupVolumeAddPlan(i) ==
    /\ IsSent(i, "AddPlan") /\ Authorised(i)
    /\ Len(plans) < MaxPlans
    /\ plans' = Append(plans, [Status |-> "Enabled", Duration |-> calls[i].arg.Duration])
    /\ Unseen(i)
    /\ ReplyIfLive(i, [ok |-> TRUE])
    /\ UNCHANGED page

\* Whatever the status was.
PsqlBackupVolumeUpdatePlan(i) ==
    /\ IsSent(i, "UpdatePlan") /\ Authorised(i)
    /\ LET p == calls[i].arg.ID status == calls[i].arg.Status IN
         /\ plans' = [plans EXCEPT ![p].Status = status]
         /\ ReplyIfLive(i, [ID |-> p, Status |-> status])
    /\ Unseen(i)
    /\ UNCHANGED page

----------------------------------------------------------------------------
(* My Plans (myPlans/index.vue).                                           *)

NoRow == [ID |-> 0, Status |-> "none"]
ListPlans(offset) == Call("ListPlans", [Offset |-> offset - 1])

\* data() and mounted().
MyPlansView == [plan_list |-> <<>>, ruleForm |-> NoRow, dialogVisible |-> FALSE,
                deleteConfirm |-> FALSE, loading |-> TRUE, offset |-> 1, total |-> 0,
                timers |-> 0, chosen |-> 0, behind |-> FALSE]
VisitMyPlans == Visit("myPlans", MyPlansView, <<ListPlans(1)>>)

onMyPlans == page = "myPlans"
planDialog == view.dialogVisible \/ view.deleteConfirm

\* getData: the page is loading, and a list is on its way.
Loading(v, offset) == [v EXCEPT !.loading = TRUE, !.offset = offset, !.behind = FALSE]

\* The cards of the list; its mask takes the clicks while the page is loading.
PlanCards == IF view.loading THEN {} ELSE DOMAIN view.plan_list

\* View details.
planSubmit(k) ==
    /\ view' = [view EXCEPT !.dialogVisible = TRUE, !.ruleForm = view.plan_list[k],
                            !.chosen = view.plan_list[k].ID]
    /\ UNCHANGED <<calls, sent, asked>>

handleClose ==
    /\ view.dialogVisible
    /\ view' = [view EXCEPT !.dialogVisible = FALSE]
    /\ UNCHANGED <<calls, sent, asked>>

deleteAct(k) ==
    /\ view' = [view EXCEPT !.deleteConfirm = TRUE, !.ruleForm = view.plan_list[k],
                            !.chosen = view.plan_list[k].ID]
    /\ UNCHANGED <<calls, sent, asked>>

closeDelete ==
    /\ view.deleteConfirm
    /\ view' = [view EXCEPT !.deleteConfirm = FALSE]
    /\ UNCHANGED <<calls, sent, asked>>

\* Mutant: the dialog that deletes is not told from the other.
NewStatusUnasked(row, delete) == IF row.Status = "Enabled" THEN "Disabled" ELSE "Enabled"
NewStatus(row, delete) == IF delete THEN "Deleted"
                          ELSE IF row.Status = "Enabled" THEN "Disabled" ELSE "Enabled"

planStatus(row, delete) ==
    /\ view' = [view EXCEPT !.deleteConfirm = FALSE, !.dialogVisible = FALSE,
                            !.loading = TRUE]
    /\ UserSends(<<Call("UpdatePlan", [ID |-> row.ID, Status |-> NewStatus(row, delete)])>>)

AsksFor(status) == asked' = [asked EXCEPT !.of = @ \cup {<<view.chosen, status>>}]

\* The buttons of the dialogs.  STOP can be pressed if the plan is enabled,
\* START if it is not.
PlanDialogs ==
    \/ /\ view.dialogVisible
       /\ planStatus(view.ruleForm, FALSE)
       /\ AsksFor(IF view.ruleForm.Status = "Enabled" THEN "Disabled" ELSE "Enabled")
    \/ /\ view.deleteConfirm
       /\ planStatus(view.ruleForm, TRUE)
       /\ AsksFor("Deleted")
    \/ handleClose
    \/ closeDelete

handleCurrentChange(val) ==
    /\ view' = Loading(view, val)
    /\ UserSends(<<ListPlans(val)>>)
    /\ UNCHANGED asked

\* The pager, which hides when there is one page.
PlanPager == \E val \in 1..Pages(view.total, PlanLimit) :
    val # view.offset /\ handleCurrentChange(val)

\* The list is shown, masked until the timer ends; the pager may ask for the
\* last page when the one shown is beyond it.
PlansListed(i) ==
    LET answer == Answer(i)
        last == Pages(answer.total, PlanLimit)
        shown == [view EXCEPT !.total = answer.total, !.plan_list = answer.list,
                              !.timers = @ + 1, !.behind = @ \/ Earlier(i) # {}]
    IN  /\ IsAnswered(i, "ListPlans")
        /\ \/ view' = shown /\ Done(i, <<>>)
           \/ /\ view.offset > last
              /\ view' = Loading(shown, last) /\ Done(i, <<ListPlans(last)>>)
        /\ UNCHANGED <<sent, asked>>

\* 500 ms later.  (The server has sorted the list already.)
PlansTimer ==
    /\ view.timers > 0
    /\ view' = [view EXCEPT !.timers = @ - 1, !.loading = FALSE]
    /\ UNCHANGED <<calls, sent, asked>>

\* Mutant: the list is not asked for again.
PlanUpdatedUnlisted(i) ==
    /\ IsAnswered(i, "UpdatePlan")
    /\ view' = [view EXCEPT !.loading = FALSE, !.ruleForm = Answer(i)]
    /\ Done(i, <<>>)
    /\ UNCHANGED <<sent, asked>>

\* The answer is the plan as it is now, for whatever dialog is open.
PlanUpdated(i) ==
    /\ IsAnswered(i, "UpdatePlan")
    /\ view' = [Loading(view, view.offset) EXCEPT !.ruleForm = Answer(i)]
    /\ asked' = [asked EXCEPT !.mixed = @ \/ (planDialog /\ Answer(i).ID # view.chosen)]
    /\ Done(i, <<ListPlans(view.offset)>>)
    /\ UNCHANGED sent

\* An error, or no answer: the catch of both requests.
PlansFailed(i) ==
    /\ i \in Outstanding({"ListPlans", "UpdatePlan"}) /\ calls[i].live
    /\ view' = [view EXCEPT !.loading = FALSE, !.behind = TRUE]
    /\ IF calls[i].op = "UpdatePlan" THEN GivenUp(i) ELSE Done(i, <<>>)
    /\ UNCHANGED <<sent, asked>>

MyPlansUser ==
    /\ onMyPlans
    /\ \/ ~planDialog /\ \E k \in PlanCards : planSubmit(k) \/ deleteAct(k)
       \/ ~planDialog /\ PlanPager
       \/ PlanDialogs
    /\ UNCHANGED <<page, plans>>

MyPlansHandler ==
    /\ onMyPlans
    /\ \/ PlansTimer
       \/ \E i \in DOMAIN calls : PlansListed(i) \/ PlanUpdated(i) \/ PlansFailed(i)
    /\ UNCHANGED <<page, plans>>

----------------------------------------------------------------------------
(* Backup Plans (backupPlans/index.vue).                                   *)

BackupPlansView == [duration |-> 0, checking |-> <<>>, loading |-> FALSE,
                    dialogVisible |-> FALSE, dialogConfirm |-> FALSE, edited |-> FALSE]
VisitBackupPlans == Visit("backupPlans", BackupPlansView, <<>>)

onBackupPlans == page = "backupPlans"
formFree == ~view.loading /\ ~view.dialogVisible /\ ~view.dialogConfirm

\* A field of the form changes.
TypeDuration(d) ==
    /\ formFree
    /\ view' = [view EXCEPT !.duration = d,
                            !.edited = Outstanding({"AddPlan"}) # {}]
    /\ UNCHANGED <<calls, sent, asked>>

\* Create: the validators look at the form now, and say so 100 ms later.
submitForm ==
    /\ formFree
    /\ view.duration # 0 /\ sent < MaxSent
    /\ sent' = sent + 1
    /\ view' = [view EXCEPT !.checking = Append(@, view.duration)]
    /\ UNCHANGED <<calls, asked>>

\* Mutant: off by one.
validateDurationLoose(value) == value = NaN \/ value >= 179
\* NaN < 180 is false.
validateDuration(value) == value = NaN \/ value >= 180

Epochs(days) == IF days = NaN THEN NaN ELSE days * EpochsPerDay

\* What is sent is what is in the form by then.
Validated ==
    /\ view.checking # <<>>
    /\ LET value == Head(view.checking)
           rest == [view EXCEPT !.checking = Tail(@)] IN
         IF validateDuration(value)
           THEN /\ view' = [rest EXCEPT !.loading = TRUE]
                /\ calls' = Append(calls, Call("AddPlan", [Duration |-> Epochs(view.duration)]))
                /\ asked' = [asked EXCEPT !.raced = @ \/ view.duration # value]
           ELSE view' = rest /\ UNCHANGED <<calls, asked>>
    /\ UNCHANGED sent

PlanAdded(i) ==
    /\ IsAnswered(i, "AddPlan")
    /\ view' = [view EXCEPT !.loading = FALSE, !.dialogVisible = TRUE]
    /\ Done(i, <<>>)
    /\ UNCHANGED <<sent, asked>>

\* Mutant: the summary opens with an error as well.
AddFailedShown(i) ==
    /\ i \in Outstanding({"AddPlan"}) /\ calls[i].live
    /\ view' = [view EXCEPT !.loading = FALSE, !.dialogVisible = TRUE]
    /\ GivenUp(i)
    /\ UNCHANGED <<sent, asked>>

AddFailed(i) ==
    /\ i \in Outstanding({"AddPlan"}) /\ calls[i].live
    /\ view' = [view EXCEPT !.loading = FALSE]
    /\ GivenUp(i)
    /\ UNCHANGED <<sent, asked>>

\* The summary shows the form; its OK opens the other dialog.
confirmPlan ==
    /\ view.dialogVisible
    /\ \E ok \in BOOLEAN :
         view' = [view EXCEPT !.dialogVisible = FALSE, !.dialogConfirm = @ \/ ok]
    /\ UNCHANGED <<calls, sent, asked>>

\* VIEW is a link to My Plans.
closeCreated ==
    /\ view.dialogConfirm
    /\ view' = [view EXCEPT !.dialogConfirm = FALSE]
    /\ UNCHANGED <<calls, sent, asked>>

BackupPlansUser ==
    /\ onBackupPlans
    /\ \/ \E d \in Days \cup {NaN} : TypeDuration(d)
       \/ submitForm \/ confirmPlan \/ closeCreated
    /\ UNCHANGED <<page, plans>>

BackupPlansHandler ==
    /\ onBackupPlans
    /\ \/ Validated
       \/ \E i \in DOMAIN calls : PlanAdded(i) \/ AddFailed(i)
    /\ UNCHANGED <<page, plans>>

----------------------------------------------------------------------------

\* Two plans, of ordinary durations, have been made before.
PlansInit == /\ plans = [p \in 1..2 |-> [Status |-> "Enabled", Duration |-> Epochs(180)]]
             /\ asked = [of |-> {}, mixed |-> FALSE, raced |-> FALSE]

\* A request nobody waits for is lost before it is served.
Dropped(i) == /\ i \in DOMAIN calls /\ ~calls[i].live
              /\ calls[i].op \notin SessionOps
              /\ Done(i, <<>>)
              /\ UNCHANGED <<page, view, sent, plans, asked>>

PlansServer == \E i \in DOMAIN calls :
    /\ \/ PsqlBackupVolumeGetPlans(i)
       \/ PsqlBackupVolumeAddPlan(i)
       \/ PsqlBackupVolumeUpdatePlan(i)
    /\ UNCHANGED <<sent, asked>>

PlansPages == VisitMyPlans \/ VisitBackupPlans

PlansNext ==
    /\ \/ MyPlansUser \/ MyPlansHandler
       \/ BackupPlansUser \/ BackupPlansHandler
       \/ PlansServer \/ \E i \in DOMAIN calls : Dropped(i)
    /\ UNCHANGED keepSession

----------------------------------------------------------------------------
(* Properties.                                                             *)

\* A plan is stopped, started or deleted only if the user has pressed that
\* button for that plan, unless the answer to an earlier update came while its
\* dialog was open and put another plan in it (myPlans/index.vue:178).
PlansAsAsked ==
    [][\A p \in DOMAIN plans : LET status == plans'[p].Status IN
         status # plans[p].Status => asked.mixed \/ <<p, status>> \in asked.of]_planVars

\* With nothing under way, My Plans shows the page of the plans it is on,
\* unless an answer was lost or came after a later one's: an update is
\* followed by a new list, whichever page the user has gone to.
PlansAreCurrent ==
    (onMyPlans /\ Outstanding({"ListPlans", "UpdatePlan"}) = {} /\ ~view.behind)
        => view.plan_list = PageOf(ListedPlans, view.offset - 1, PlanLimit)

\* Every plan lasts 180 days at least, unless its form was edited while it was
\* being validated, or what was typed is no number (backupPlans/index.vue).
PlansLastLong ==
    asked.raced \/ \A p \in DOMAIN plans :
        plans[p].Duration = NaN \/ plans[p].Duration >= 180 * EpochsPerDay

\* The summary of a plan just made shows a plan that was made, unless Create
\* was pressed twice and the form edited when the first request had failed.
SummaryShowsPlan ==
    (onBackupPlans /\ view.dialogVisible /\ ~view.edited)
        => \E p \in DOMAIN plans : plans[p].Duration = Epochs(view.duration)
=============================================================================
