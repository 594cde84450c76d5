------------------------------ MODULE Account ------------------------------
(***************************************************************************)
(* The browser UI outside the object browser: a session (Session), the     *)
(* pages of backup plans (PlansPage) and those of jobs (JobsPage,          *)
(* DetailsPage).  One page is mounted at a time and its data goes with it; *)
(* the requests under way stay when the user goes on to another page, and  *)
(* the session and the database outlive all of them.                       *)
(***************************************************************************)
EXTENDS PlansPage, DetailsPage

vars == <<sessionVars, planVars, jobVars>>

\* A plan that the user has just asked for, before going on to My Plans.
JustAsked == [Call("AddPlan", [Duration |-> Epochs(180)]) EXCEPT !.live = FALSE]

\* Opened at any page, by a user who may have logged in before.
Init ==
    /\ SessionInit /\ PlansInit /\ JobsInit
    /\ \/ SessionStart
       \/ /\ token # None
          /\ \/ StartAt("myPlans", MyPlansView, <<ListPlans(1)>>)
             \/ StartAt("myPlans", MyPlansView, <<JustAsked, ListPlans(1)>>)
             \/ StartAt("backupPlans", BackupPlansView, <<>>)
             \/ StartAt("myJobs", MyJobsView, MyJobsCalls)
             \/ StartAt("dashboard", DashboardView, DashboardCalls)

Go == (SessionNext \/ PlansPages \/ VisitMyJobs \/ DetailsPages)
        /\ UNCHANGED <<planVars, jobVars>>

Next == \/ Go
        \/ PlansNext /\ UNCHANGED jobVars
        \/ (JobsNext \/ DetailsNext) /\ UNCHANGED planVars

Spec == Init /\ [][Next]_vars

----------------------------------------------------------------------------
(* Properties.                                                             *)

Waits(ops) == \E i \in Outstanding(ops) : calls[i].live
TimerRuns(ops) == \E op \in ops : view.timers[op] > 0

\* No page stays masked for good: under a mask there is always a request whose
\* answer or error, or a timer whose end, takes it off (the handlers of every
\* request, of the pages login.vue, myPlans, backupPlans, myJobs and details).
MasksEnd ==
    CASE page = "login" -> view.loginLoad => Waits({"Login"})
      [] page = "myPlans" ->
           view.loading => view.timers > 0 \/ Waits({"ListPlans", "UpdatePlan"})
      [] page = "backupPlans" -> view.loading => Waits({"AddPlan"})
      [] page = "myJobs" ->
           /\ view.loading => \/ TimerRuns({"ListBackups"})
                              \/ Waits({"ListBackups", "AddRebuild"})
           /\ view.loading_rebuild => TimerRuns({"ListRebuilds"}) \/ Waits({"ListRebuilds"})
      [] page = "details" ->
           view.loading => TimerRuns(ListOps) \/ Waits(ListOps \cup {"AddRebuild"})
      [] OTHER -> TRUE
=============================================================================
