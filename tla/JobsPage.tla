------------------------------ MODULE JobsPage ------------------------------
(***************************************************************************)
(* The page of the browser UI that shows the backup jobs and the rebuild   *)
(* jobs, and asks for a rebuild (views/myAccount/myJobs), with what FS3    *)
(* does of its requests (cmd/web-handlers.go).  DetailsPage extends it     *)
(* with the pages that are made of the same parts.                         *)
(*                                                                         *)
(* Each kind of job has a table, a pager and a list request of its own.  A *)
(* table is masked while its page is loading, the pagers never are.        *)
(***************************************************************************)
EXTENDS Session, FiniteSetsExt

CONSTANTS JobLimit,     \* jobs on a page of a table (10 in the code)
          MaxRebuilds,  \* bound: rebuild jobs in the database
          Decimals,     \* digits behind the point of a price (18 in the code)
          Costs         \* what each of the jobs costs: the digits, in attoFIL

ASSUME JobBounds == /\ JobLimit \in Nat \ {0} /\ {MaxRebuilds, Decimals} \subseteq Nat
                    /\ Costs \in Seq(Seq(0..9)) /\ Len(Costs) > 1
\* They are numbers, which do not begin with a zero.
ASSUME CostDigits == \A b \in DOMAIN Costs : Len(Costs[b]) > 1 => Costs[b][1] # 0

VARIABLES backups,      \* psql_volume_backup_jobs, by ID
          rebuilds,     \* psql_volume_rebuild_jobs, by ID
          confirmed     \* the rebuilds the user has confirmed (history)

jobVars == <<backups, rebuilds, confirmed>>
\* confirmed.mixed: a dialog has been given another job than the user chose.

----------------------------------------------------------------------------
(* What FS3 does.                                                          *)

JobPages(total) == Max({1, (total + JobLimit - 1) \div JobLimit})
JobPage(s, offset) ==
    LET from == Min({offset * JobLimit, Len(s)}) to == Min({from + JobLimit, Len(s)})
    IN  [k \in 1..(to - from) |-> s[from + k]]

BackupRows == [b \in DOMAIN backups |->
    [ID |-> b, Status |-> backups[b].Status, Cost |-> backups[b].Cost]]
RebuildRows == [r \in DOMAIN rebuilds |-> [ID |-> r, BackupJobId |-> rebuilds[r].BackupJobId]]

PsqlBackupVolumeGetJobs(i) ==
    /\ IsSent(i, "ListBackups") /\ Authorised(i)
    /\ Reply(i, [total |-> Len(backups), list |-> JobPage(BackupRows, calls[i].arg.Offset)])
    /\ UNCHANGED rebuilds

PsqlRebuildGetJobs(i) ==
    /\ IsSent(i, "ListRebuilds") /\ Authorised(i)
    /\ Reply(i, [total |-> Len(rebuilds), list |-> JobPage(RebuildRows, calls[i].arg.Offset)])
    /\ UNCHANGED rebuilds

\* The backup job is neither looked for nor checked.
PsqlRebuildAddJob(i) ==
    /\ IsSent(i, "AddRebuild") /\ Authorised(i)
    /\ Len(rebuilds) < MaxRebuilds
    /\ rebuilds' = Append(rebuilds, [BackupJobId |-> calls[i].arg.BackupTaskId,
                                     Status |-> "Created"])
    /\ IF calls[i].live
         THEN Reply(i, [ID |-> Len(rebuilds) + 1, BackupJobId |-> calls[i].arg.BackupTaskId])
         ELSE Done(i, <<>>)

\* The backup scheduler completes a job.
BackupCompleted(b) ==
    /\ backups[b].Status = "Running"
    /\ backups' = [backups EXCEPT ![b].Status = "Completed"]
    /\ UNCHANGED <<page, view, calls, sent, rebuilds, confirmed>>

\* The rebuild scheduler completes a job.
RebuildCompleted(r) ==
    /\ rebuilds[r].Status = "Created"
    /\ rebuilds' = [rebuilds EXCEPT ![r].Status = "Completed"]
    /\ UNCHANGED <<page, view, calls, sent, backups, confirmed>>

----------------------------------------------------------------------------
(* The table of backup jobs.                                               *)

\* Mutant: no zero is left.
TrimZerosAll(digits) == SelectSeq(digits, LAMBDA d : d # 0)
\* Without the zeros at its end.
TrimZeros(digits) == SubSeq(digits, 1, Max({0} \cup {k \in DOMAIN digits : digits[k] # 0}))

\* The filter that shows a number of attoFIL in FIL; Dot is the point.
Dot == 10
NumFormatPrice(value) ==
    LET n == Len(value)
        v1 == SubSeq(value, 1, n - Decimals)
        v3 == TrimZeros(SubSeq(value, n - Decimals + 1, n))
    IN  IF \A k \in 1..n : value[k] = 0 THEN <<0>>
        ELSE IF n > Decimals THEN IF v3 = <<>> THEN v1 ELSE v1 \o <<Dot>> \o v3
        ELSE <<0, Dot>> \o TrimZeros([k \in 1..(Decimals - n) |-> 0] \o value)

\* Mutant: every row has the button that asks for a rebuild.
BackupTableOpen(v) ==
    [k \in DOMAIN v.tableData |->
       [ID |-> v.tableData[k].ID, price |-> NumFormatPrice(v.tableData[k].Cost),
        button |-> "detailFun"]]
\* What a row shows that is not just its data, and what its button calls: the
\* buttons of the jobs that are not completed explain why there is no rebuild.
BackupTable(v) ==
    [k \in DOMAIN v.tableData |->
       [ID |-> v.tableData[k].ID,
        price |-> NumFormatPrice(v.tableData[k].Cost),
        button |-> IF v.tableData[k].Status = "Completed" THEN "detailFun" ELSE "dialogDis"]]

\* The table of rebuild jobs has no buttons that change anything.
RebuildTable(v) == [k \in DOMAIN v.tableData_2 |->
    [ID |-> v.tableData_2[k].ID, BackupJobId |-> v.tableData_2[k].BackupJobId]]

\* What the dialog shows of the job that has been made.
ResultDialog(v) == [ID |-> v.backupPlan.ID, BackupJobId |-> v.backupPlan.BackupJobId]

----------------------------------------------------------------------------
(* The page.  onJobs is where its handlers run; the page of details has a  *)
(* single mask for both tables.                                            *)

NoJob == [ID |-> 0, BackupJobId |-> 0]
NotPaged == [offset |-> 1, total |-> 0]

JobsView(active) == [activeName |-> active, tableData |-> <<>>, tableData_2 |-> <<>>,
                     backupPlan |-> NoJob, dialogVisible |-> FALSE,
                     dialogConfirm |-> FALSE, dialogDis |-> FALSE,
                     loading |-> FALSE, loading_rebuild |-> FALSE,
                     parma |-> NotPaged, parmaRebuild |-> NotPaged,
                     timers |-> [ListBackups |-> 0, ListRebuilds |-> 0],
                     behind |-> {}, chosen |-> 0]
\* behind holds the tables whose list was lost or overtaken (history).

onJobs == page \in {"myJobs", "details"}
jobDialog == view.dialogVisible \/ view.dialogConfirm \/ view.dialogDis

\* The mask that a list request sets, and the pager it belongs to.
MaskOf(op) == IF op = "ListBackups" \/ page = "details" THEN "loading" ELSE "loading_rebuild"
PagerOf(op) == IF op = "ListBackups" THEN "parma" ELSE "parmaRebuild"
TableOf(op) == IF op = "ListBackups" THEN "tableData" ELSE "tableData_2"
ListOps == {"ListBackups", "ListRebuilds"}

\* getData: the view while the list op is on its way.
getData(v, op, offset) == [v EXCEPT ![MaskOf(op)] = TRUE, ![PagerOf(op)].offset = offset,
                                    !.behind = @ \ {op}]
\* Mutant: offsets are pages.
ListCallNext(op, offset) == Call(op, [Offset |-> offset])
ListCall(op, offset) == Call(op, [Offset |-> offset - 1])

\* Both lists, when the page is mounted.
MyJobsView == [JobsView("ListBackups") EXCEPT !.loading = TRUE, !.loading_rebuild = TRUE]
MyJobsCalls == <<ListCall("ListRebuilds", 1), ListCall("ListBackups", 1)>>
VisitMyJobs == Visit("myJobs", MyJobsView, MyJobsCalls)

\* The tabs.
handleClick ==
    /\ page = "myJobs" /\ ~jobDialog
    /\ \E op \in ListOps \ {view.activeName} : view' = [view EXCEPT !.activeName = op]
    /\ UNCHANGED <<calls, sent, confirmed>>

\* The button of a row of the table of backup jobs.
detailFun(k) ==
    view' = [view EXCEPT !.backupPlan.ID = view.tableData[k].ID, !.dialogVisible = TRUE,
                         !.chosen = view.tableData[k].ID]

RowButton(k) ==
    /\ view.activeName = "ListBackups" /\ ~view.loading /\ ~jobDialog
    /\ IF BackupTable(view)[k].button = "detailFun"
         THEN detailFun(k)
         ELSE view' = [view EXCEPT !.dialogDis = TRUE]
    /\ UNCHANGED <<calls, sent, confirmed>>
RebuildButton == \E k \in DOMAIN view.tableData : RowButton(k)

\* The OK of the dialog that asks; it masks the table of backup jobs.
confirm ==
    /\ view.dialogVisible /\ ~view.dialogConfirm
    /\ view' = [view EXCEPT !.dialogVisible = FALSE, !.loading = TRUE]
    /\ UserSends(<<Call("AddRebuild", [BackupTaskId |-> view.backupPlan.ID])>>)
    /\ confirmed' = [confirmed EXCEPT !.of = @ \cup {view.chosen}]

\* Cancel, and the OK of the other dialogs, of which the last is on top.
closeAsk == /\ view.dialogVisible /\ ~view.dialogConfirm
            /\ view' = [view EXCEPT !.dialogVisible = FALSE]
            /\ UNCHANGED <<calls, sent, confirmed>>
closeResult == /\ view.dialogConfirm
               /\ view' = [view EXCEPT !.dialogConfirm = FALSE]
               /\ UNCHANGED <<calls, sent, confirmed>>
closeDis == /\ view.dialogDis /\ ~view.dialogConfirm
            /\ view' = [view EXCEPT !.dialogDis = FALSE]
            /\ UNCHANGED <<calls, sent, confirmed>>

\* The pagers, which hide when there is one page.
changePage(op, val) ==
    /\ view' = getData(view, op, val)
    /\ UserSends(<<ListCall(op, val)>>)
    /\ UNCHANGED confirmed
backupChange(val) == changePage("ListBackups", val)
rebuildChange(val) == changePage("ListRebuilds", val)

OtherPages(op) ==
    IF view.activeName = op /\ ~jobDialog
      THEN 1..JobPages(view[PagerOf(op)].total) \ {view[PagerOf(op)].offset} ELSE {}
BackupPager == \E val \in OtherPages("ListBackups") : backupChange(val)
RebuildPager == \E val \in OtherPages("ListRebuilds") : rebuildChange(val)

\* A list has come: it is shown, masked until its timer ends.
JobsListed(i, op) ==
    /\ IsAnswered(i, op)
    /\ view' = [view EXCEPT ![TableOf(op)] = Answer(i).list,
                            ![PagerOf(op)].total = Answer(i).total,
                            !.timers[op] = @ + 1,
                            !.behind = IF Earlier(i) # {} THEN @ \cup {op} ELSE @]
    /\ Done(i, <<>>)
    /\ UNCHANGED <<sent, confirmed>>

\* 500 ms later.  (The server has sorted the list already.)
JobsTimer(op) ==
    /\ view.timers[op] > 0
    /\ view' = [view EXCEPT ![MaskOf(op)] = FALSE, !.timers[op] = @ - 1]
    /\ UNCHANGED <<calls, sent, confirmed>>

\* Mutant: what the dialog shows stays the backup job.
RebuildAddedUnshown(i) ==
    /\ IsAnswered(i, "AddRebuild")
    /\ view' = [view EXCEPT !.loading = FALSE, !.dialogConfirm = TRUE]
    /\ Done(i, <<>>)
    /\ UNCHANGED <<sent, confirmed>>

\* The rebuild job replaces whatever backupPlan is by then.
RebuildAdded(i) ==
    /\ IsAnswered(i, "AddRebuild")
    /\ view' = [view EXCEPT !.loading = FALSE, !.backupPlan = Answer(i),
                            !.dialogConfirm = TRUE]
    /\ confirmed' = [confirmed EXCEPT !.mixed = @ \/ view.dialogVisible]
    /\ Done(i, <<>>)
    /\ UNCHANGED sent

\* Mutant: nothing catches an error.
JobsFailedUncaught(i) ==
    /\ i \in Outstanding(ListOps \cup {"AddRebuild"}) /\ calls[i].live
    /\ Done(i, <<>>)
    /\ UNCHANGED <<view, sent, confirmed>>

\* An error, or no answer: the catch of the three requests.
JobsFailed(i) ==
    /\ i \in Outstanding(ListOps \cup {"AddRebuild"}) /\ calls[i].live
    /\ LET op == calls[i].op IN
         IF op = "AddRebuild"
           THEN view' = [view EXCEPT !.loading = FALSE] /\ GivenUp(i)
           ELSE /\ view' = [view EXCEPT ![MaskOf(op)] = FALSE, !.behind = @ \cup {op}]
                /\ Done(i, <<>>)
    /\ UNCHANGED <<sent, confirmed>>

JobsUser ==
    /\ page = "myJobs"
    /\ \/ handleClick \/ RebuildButton \/ BackupPager \/ RebuildPager
       \/ confirm \/ closeAsk \/ closeResult \/ closeDis
    /\ UNCHANGED <<page, backups, rebuilds>>

\* The answers to the requests for backup jobs, and to those for rebuild jobs.
BackupsListed(i) == JobsListed(i, "ListBackups")
RebuildsListed(i) == JobsListed(i, "ListRebuilds")

JobsHandler ==
    /\ page = "myJobs"
    /\ \/ \E op \in ListOps : JobsTimer(op)
       \/ \E i \in DOMAIN calls :
            BackupsListed(i) \/ RebuildsListed(i) \/ RebuildAdded(i) \/ JobsFailed(i)
    /\ UNCHANGED <<page, backups, rebuilds>>

JobsServer ==
    /\ \E i \in DOMAIN calls :
         PsqlBackupVolumeGetJobs(i) \/ PsqlRebuildGetJobs(i) \/ PsqlRebuildAddJob(i)
    /\ UNCHANGED <<page, view, sent, backups, confirmed>>

----------------------------------------------------------------------------

\* A backup is running, the others are completed; the last of them has been
\* rebuilt, and is to be rebuilt again.
JobsInit == /\ backups = [b \in DOMAIN Costs |->
                            [Status |-> IF b = 1 THEN "Running" ELSE "Completed",
                             Cost |-> Costs[b]]]
            /\ rebuilds = <<[BackupJobId |-> Len(Costs), Status |-> "Completed"],
                            [BackupJobId |-> Len(Costs), Status |-> "Created"]>>
            /\ confirmed = [of |-> {Len(Costs)}, mixed |-> FALSE]

JobsNext ==
    /\ \/ JobsUser \/ JobsHandler \/ JobsServer
       \/ \E b \in DOMAIN backups : BackupCompleted(b)
       \/ \E r \in DOMAIN rebuilds : RebuildCompleted(r)
    /\ UNCHANGED <<token, account, secret, since>>

----------------------------------------------------------------------------
(* Properties.                                                             *)

\* A rebuild is of a completed backup that the user chose and confirmed,
\* unless the answer to an earlier rebuild came while the dialog was open and
\* put its own ID in (myJobs/index.vue:360); FS3 itself checks nothing.
RebuildsAsConfirmed ==
    confirmed.mixed \/ \A r \in DOMAIN rebuilds :
        LET b == rebuilds[r].BackupJobId IN
          b \in confirmed.of /\ backups[b].Status = "Completed"

\* What the dialog shows as created is a rebuild job, not the backup job that
\* backupPlan held when the rebuild was asked for.
ConfirmShowsRebuild ==
    (onJobs /\ view.dialogConfirm)
        => ResultDialog(view) \in {[ID |-> r, BackupJobId |-> rebuilds[r].BackupJobId] :
                                      r \in DOMAIN rebuilds}

\* With no list of it under way, a table holds the page its pager is on,
\* unless a list was lost or came after a later one's.
TablesFollowPagers ==
    LET Follows(op, rows) ==
          LET before == (view[PagerOf(op)].offset - 1) * JobLimit
          IN  \/ Outstanding({op}) # {} \/ op \in view.behind
              \/ \A k \in DOMAIN rows : rows[k].ID = before + k
    IN  onJobs => /\ Follows("ListBackups", BackupTable(view))
                  /\ Follows("ListRebuilds", RebuildTable(view))
=============================================================================
