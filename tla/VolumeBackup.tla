--------------------------- MODULE VolumeBackup ---------------------------
(***************************************************************************)
(* Scheduled backups of the FS3 volume: the cron jobs of                   *)
(* scheduler/backup.go (BackupVolumeScheduler, every two minutes) and      *)
(* scheduler/autobid.go (SendAutobidDealScheduler, every three), and the   *)
(* web handlers that write the same PostgreSQL tables (cmd/                *)
(* web-handlers.go).  cron starts every tick in a goroutine of its own, so *)
(* ticks overlap each other and the requests; nothing is locked and no     *)
(* transaction spans two queries.  Every query is one step of the model;   *)
(* gorm's Save writes back a whole row that was read some steps before.    *)
(*                                                                         *)
(* Swan (the task market) and the Filecoin deals are external: a published *)
(* task is assigned to a miner, its deal is sent by an autobid tick, and   *)
(* the deal becomes active, some time or never.                            *)
(*                                                                         *)
(* Row ids are positions in a table, 0 is the empty uuid or deal cid.      *)
(* Tables nobody reads back (car, metadata and task csv) are left out, and *)
(* the database does not fail.                                             *)
(***************************************************************************)
EXTENDS Naturals, Sequences, FiniteSets

CONSTANTS Ticks,        \* goroutines of the backup cron job
          Bids,         \* goroutines of the autobid cron job
          Requests,     \* requests to update a plan, each served once
          Interval,     \* BackupInterval of every plan, in clock units
          MaxActive,    \* bound: goroutines that run at the same time
          MaxPlans, MaxJobs, MaxTasks, MaxClock, MaxCrashes   \* bounds

ASSUME IntervalAssumption == Interval \in Nat \ {0}
ASSUME BoundAssumption ==
    /\ {MaxActive, MaxPlans, MaxJobs, MaxTasks, MaxClock, MaxCrashes} \subseteq Nat
    /\ 0 \notin {MaxPlans, MaxJobs, MaxClock}
ASSUME FiniteAssumption ==
    IsFiniteSet(Ticks) /\ IsFiniteSet(Bids) /\ IsFiniteSet(Requests)

VARIABLES
    clock,       \* time.Now()
    plans,       \* psql_volume_backup_plans
    jobs,        \* psql_volume_backup_jobs
    tasks,       \* the tasks on Swan, in the order of their uuids
    tick,        \* the local state of each backup tick
    bid,         \* the local state of each autobid tick
    request,     \* the local state of each update-plan request
    crashes,     \* how often the process has died
    overlapped   \* whether two of these ever ran at the same time

vars == <<clock, plans, jobs, tasks, tick, bid, request, crashes, overlapped>>

PlanIds == 1..MaxPlans
JobIds == 1..MaxJobs
Uuids == 1..MaxTasks
PlanStatus == {"Enabled", "Disabled"}
JobStatus == {"Created", "Running", "Completed"}
TaskState == {"open", "assigned", "sent", "active"}

Plan == [status : PlanStatus, createdOn : 1..MaxClock, lastBackupOn : 0..MaxClock]
Job == [plan : PlanIds, status : JobStatus, uuid : 0..MaxTasks, dealCid : 0..MaxTasks]
Task == [plan : PlanIds, state : TaskState]

NoPlan == [status |-> "Disabled", createdOn |-> 1, lastBackupOn |-> 0]
NoJob == [plan |-> 1, status |-> "Created", uuid |-> 0, dealCid |-> 0]

IdleTick == [pc |-> "idle", due |-> {}, left |-> {}, plan |-> 1, row |-> NoPlan,
             backups |-> {}, job |-> 0, uuid |-> 0]
IdleBid == [pc |-> "idle", left |-> {}, job |-> 1, row |-> NoJob, found |-> <<>>]
NewRequest == [pc |-> "new", plan |-> 1, status |-> "Enabled", row |-> NoPlan]
Served == [NewRequest EXCEPT !.pc = "served"]

Init ==
    /\ clock = 1
    /\ plans = <<>>
    /\ jobs = <<>>
    /\ tasks = <<>>
    /\ tick = [t \in Ticks |-> IdleTick]
    /\ bid = [b \in Bids |-> IdleBid]
    /\ request = [r \in Requests |-> NewRequest]
    /\ crashes = 0
    /\ overlapped = FALSE

AllIdle ==
    /\ \A t \in Ticks : tick[t] = IdleTick
    /\ \A b \in Bids : bid[b] = IdleBid
    /\ \A r \in Requests : request[r].pc # "save"

Active ==
    Cardinality({t \in Ticks : tick[t].pc # "idle"})
      + Cardinality({b \in Bids : bid[b].pc # "idle"})
      + Cardinality({r \in Requests : request[r].pc = "save"})

\* A goroutine starts; nothing waits for the ones that are running.
Starts == Active < MaxActive /\ overlapped' = (overlapped \/ Active > 0)

----------------------------------------------------------------------------
(* BackupVolumeScheduler.                                                  *)

\* Enabled, and an interval has passed since the last backup (or since the
\* plan was created, before the first one).
Due(p) ==
    LET since == IF plans[p].lastBackupOn # 0 THEN plans[p].lastBackupOn
                 ELSE plans[p].createdOn
    IN  plans[p].status = "Enabled" /\ clock >= since + Interval

DuePlans == {p \in DOMAIN plans : Due(p)}

\* GetRunningBackupPlans, and the ids of the plans to execute.
ScanPlans(t) ==
    /\ tick[t].pc = "idle"
    /\ DuePlans # {}
    /\ tick' = [tick EXCEPT ![t].pc = "touch", ![t].due = DuePlans, ![t].left = DuePlans]
    /\ Starts
    /\ UNCHANGED <<clock, plans, jobs, tasks, bid, request, crashes>>

\* UpdateLastBackupTime: First ...
ReadPlan(t) ==
    /\ tick[t].pc = "touch"
    /\ \E p \in tick[t].left :
         tick' = [tick EXCEPT ![t].pc = "save", ![t].plan = p, ![t].row = plans[p]]
    /\ UNCHANGED <<clock, plans, jobs, tasks, bid, request, crashes, overlapped>>

\* The next loop begins once the current one has seen every plan.
Advance(tk, again, then) ==
    IF tk.left = {tk.plan} THEN [then EXCEPT !.backups = tk.backups]
    ELSE [tk EXCEPT !.pc = again, !.left = @ \ {tk.plan}, !.plan = 1, !.row = NoPlan]

\* Mutant: the time of the next backup instead of this one.
SavePlanNext(t) ==
    /\ tick[t].pc = "save"
    /\ plans' = [plans EXCEPT ![tick[t].plan] =
                   [tick[t].row EXCEPT !.lastBackupOn = clock + Interval]]
    /\ tick' = [tick EXCEPT ![t] = Advance(@, "touch",
                  [IdleTick EXCEPT !.pc = "add", !.due = tick[t].due, !.left = tick[t].due])]
    /\ UNCHANGED <<clock, jobs, tasks, bid, request, crashes, overlapped>>

\* Mutant: LastBackupOn is not set.
SavePlanStale(t) ==
    /\ tick[t].pc = "save"
    /\ plans' = [plans EXCEPT ![tick[t].plan] = tick[t].row]
    /\ tick' = [tick EXCEPT ![t] = Advance(@, "touch",
                  [IdleTick EXCEPT !.pc = "add", !.due = tick[t].due, !.left = tick[t].due])]
    /\ UNCHANGED <<clock, jobs, tasks, bid, request, crashes, overlapped>>

\* ... and Save, of the whole row.
SavePlan(t) ==
    /\ tick[t].pc = "save"
    /\ plans' = [plans EXCEPT ![tick[t].plan] =
                   [tick[t].row EXCEPT !.lastBackupOn = clock]]
    /\ tick' = [tick EXCEPT ![t] = Advance(@, "touch",
                  [IdleTick EXCEPT !.pc = "add", !.due = tick[t].due, !.left = tick[t].due])]
    /\ UNCHANGED <<clock, jobs, tasks, bid, request, crashes, overlapped>>

\* AddBackupVolumeJobs: Create a job ...
CreateJob(t) ==
    /\ tick[t].pc = "add"
    /\ Len(jobs) < MaxJobs
    /\ \E p \in tick[t].left :
         /\ jobs' = Append(jobs, [NoJob EXCEPT !.plan = p])
         /\ tick' = [tick EXCEPT ![t].pc = "last", ![t].plan = p]
    /\ UNCHANGED <<clock, plans, tasks, bid, request, crashes, overlapped>>

\* Mutant: First instead of Last.
FirstJob(t) ==
    LET next == Advance(tick[t], "add", [IdleTick EXCEPT !.pc = "backup"])
        backup == [job |-> 1, plan |-> tick[t].plan]
    IN  /\ tick[t].pc = "last"
        /\ tick' = [tick EXCEPT ![t] = [next EXCEPT !.backups = @ \cup {backup}]]
        /\ UNCHANGED <<clock, plans, jobs, tasks, bid, request, crashes, overlapped>>

\* ... and take the job with the highest id for it.
LastJob(t) ==
    LET next == Advance(tick[t], "add", [IdleTick EXCEPT !.pc = "backup"])
        backup == [job |-> Len(jobs), plan |-> tick[t].plan]
    IN  /\ tick[t].pc = "last"
        /\ tick' = [tick EXCEPT ![t] = [next EXCEPT !.backups = @ \cup {backup}]]
        /\ UNCHANGED <<clock, plans, jobs, tasks, bid, request, crashes, overlapped>>

\* BackupVolumeJobs, one request: car file, upload and CreateTask on Swan.
CreateTask(t) ==
    /\ tick[t].pc = "backup"
    /\ Len(tasks) < MaxTasks
    /\ \E b \in tick[t].backups :
         /\ tasks' = Append(tasks, [plan |-> b.plan, state |-> "open"])
         /\ tick' = [tick EXCEPT ![t].pc = "task", ![t].backups = @ \ {b},
                                 ![t].job = b.job, ![t].uuid = Len(tasks) + 1]
    /\ UNCHANGED <<clock, plans, jobs, bid, request, crashes, overlapped>>

\* An error of any step before that: the tick returns, and the requests
\* that are left are dropped with it.
BackupFails(t) ==
    /\ tick[t].pc = "backup"
    /\ tick' = [tick EXCEPT ![t] = IdleTick]
    /\ UNCHANGED <<clock, plans, jobs, tasks, bid, request, crashes, overlapped>>

\* Mutant: saves the uuid of the latest task, as db.Last would find it.
SaveLatestTask(t) ==
    /\ tick[t].pc = "task"
    /\ jobs' = [jobs EXCEPT ![tick[t].job] =
                  [@ EXCEPT !.status = "Running", !.uuid = Len(tasks), !.dealCid = 0]]
    /\ tick' = [tick EXCEPT ![t] =
                  IF @.backups = {} THEN IdleTick
                  ELSE [@ EXCEPT !.pc = "backup", !.job = 0, !.uuid = 0]]
    /\ UNCHANGED <<clock, plans, tasks, bid, request, crashes, overlapped>>

\* Mutant: the uuid is not saved.
SaveTaskWithoutUuid(t) ==
    /\ tick[t].pc = "task"
    /\ jobs' = [jobs EXCEPT ![tick[t].job] = [@ EXCEPT !.status = "Running", !.dealCid = 0]]
    /\ tick' = [tick EXCEPT ![t] =
                  IF @.backups = {} THEN IdleTick
                  ELSE [@ EXCEPT !.pc = "backup", !.job = 0, !.uuid = 0]]
    /\ UNCHANGED <<clock, plans, tasks, bid, request, crashes, overlapped>>

\* SaveBackupTaskToDb.  It sets every column a job ever changes, so it does
\* not matter that First and Save are two queries here.
SaveBackupTask(t) ==
    /\ tick[t].pc = "task"
    /\ jobs' = [jobs EXCEPT ![tick[t].job] =
                  [@ EXCEPT !.status = "Running", !.uuid = tick[t].uuid, !.dealCid = 0]]
    /\ tick' = [tick EXCEPT ![t] =
                  IF @.backups = {} THEN IdleTick
                  ELSE [@ EXCEPT !.pc = "backup", !.job = 0, !.uuid = 0]]
    /\ UNCHANGED <<clock, plans, tasks, bid, request, crashes, overlapped>>

----------------------------------------------------------------------------
(* SendAutobidDealScheduler.                                               *)

\* SendAutoBidDeals (external) sends the deals of the assigned tasks.
SendAutoBidDeals(b) ==
    LET assigned == {u \in DOMAIN tasks : tasks[u].state = "assigned"}
    IN  /\ bid[b].pc = "idle"
        /\ tasks' = [u \in DOMAIN tasks |->
                       IF u \in assigned THEN [tasks[u] EXCEPT !.state = "sent"]
                       ELSE tasks[u]]
        /\ bid' = [bid EXCEPT ![b].pc = "record", ![b].left = assigned]
        /\ Starts
        /\ UNCHANGED <<clock, plans, jobs, tick, request, crashes>>

WithUuid(u) == {j \in DOMAIN jobs : jobs[j].uuid = u}

\* UpdateSentBackupTasksInDb: First by uuid.  Without such a job an empty
\* row is saved, which the foreign key to the plans refuses.
FindSentJob(b) ==
    /\ bid[b].pc = "record"
    /\ \E u \in bid[b].left :
         \/ /\ WithUuid(u) = {}
            /\ bid' = [bid EXCEPT ![b].left = @ \ {u}]
         \/ \E j \in WithUuid(u) :
              /\ \A i \in WithUuid(u) : j <= i
              /\ bid' = [bid EXCEPT ![b].pc = "save", ![b].left = @ \ {u}, ![b].job = j,
                           ![b].row = [jobs[j] EXCEPT !.status = "Running", !.dealCid = u]]
    /\ UNCHANGED <<clock, plans, jobs, tasks, tick, request, crashes, overlapped>>

SaveSentJob(b) ==
    /\ bid[b].pc = "save"
    /\ jobs' = [jobs EXCEPT ![bid[b].job] = bid[b].row]
    /\ bid' = [bid EXCEPT ![b].pc = "record", ![b].job = 1, ![b].row = NoJob]
    /\ UNCHANGED <<clock, plans, tasks, tick, request, crashes, overlapped>>

\* UpdateActiveBackupTasksInDb: Find all the jobs ...
FindJobs(b) ==
    LET sent == {j \in DOMAIN jobs : jobs[j].status = "Running" /\ jobs[j].dealCid # 0}
    IN  /\ bid[b].pc = "record"
        /\ bid[b].left = {}
        /\ bid' = [bid EXCEPT ![b] =
                     IF sent = {} THEN IdleBid
                     ELSE [@ EXCEPT !.pc = "check", !.left = sent, !.found = jobs]]
        /\ UNCHANGED <<clock, plans, jobs, tasks, tick, request, crashes, overlapped>>

\* Mutant: updates the status of the row as it is now.
CheckDealUpdates(b) ==
    /\ bid[b].pc = "check"
    /\ \E j \in bid[b].left :
         /\ jobs' = IF tasks[bid[b].found[j].dealCid].state = "active"
                    THEN [jobs EXCEPT ![j].status = "Completed"] ELSE jobs
         /\ bid' = [bid EXCEPT ![b] = IF @.left = {j} THEN IdleBid
                                      ELSE [bid[b] EXCEPT !.left = @ \ {j}]]
    /\ UNCHANGED <<clock, plans, tasks, tick, request, crashes, overlapped>>

\* Mutant: a deal that is not active puts its job back.
CheckDealResets(b) ==
    /\ bid[b].pc = "check"
    /\ \E j \in bid[b].left :
         LET found == bid[b].found[j]
             status == IF tasks[found.dealCid].state = "active" THEN "Completed" ELSE "Created"
         IN  /\ jobs' = [jobs EXCEPT ![j] = [found EXCEPT !.status = status]]
             /\ bid' = [bid EXCEPT ![b] = IF @.left = {j} THEN IdleBid
                                          ELSE [bid[b] EXCEPT !.left = @ \ {j}]]
    /\ UNCHANGED <<clock, plans, tasks, tick, request, crashes, overlapped>>

\* ... and save each one, as it was found, whose deal is active by now.
CheckDealStatus(b) ==
    /\ bid[b].pc = "check"
    /\ \E j \in bid[b].left :
         LET found == bid[b].found[j]
         IN  /\ jobs' = IF tasks[found.dealCid].state = "active"
                        THEN [jobs EXCEPT ![j] = [found EXCEPT !.status = "Completed"]]
                        ELSE jobs
             /\ bid' = [bid EXCEPT ![b] = IF @.left = {j} THEN IdleBid
                                          ELSE [bid[b] EXCEPT !.left = @ \ {j}]]
    /\ UNCHANGED <<clock, plans, tasks, tick, request, crashes, overlapped>>

\* Lotus does not answer: the tick returns, the other jobs are not looked at.
CheckDealFails(b) ==
    /\ bid[b].pc = "check"
    /\ bid' = [bid EXCEPT ![b] = IdleBid]
    /\ UNCHANGED <<clock, plans, jobs, tasks, tick, request, crashes, overlapped>>

----------------------------------------------------------------------------
(* The web handlers.                                                       *)

PsqlBackupVolumeAddPlan ==
    /\ Len(plans) < MaxPlans
    /\ plans' = Append(plans, [status |-> "Enabled", createdOn |-> clock, lastBackupOn |-> 0])
    /\ UNCHANGED <<clock, jobs, tasks, tick, bid, request, crashes, overlapped>>

\* A job nobody will run: only a tick that takes it for its own does.
PsqlBackupAddJob ==
    /\ Len(jobs) < MaxJobs
    /\ \E p \in DOMAIN plans : jobs' = Append(jobs, [NoJob EXCEPT !.plan = p])
    /\ Starts
    /\ UNCHANGED <<clock, plans, tasks, tick, bid, request, crashes>>

\* PsqlBackupVolumeUpdatePlan: First ...
UpdatePlanFirst(r) ==
    /\ request[r].pc = "new"
    /\ \E p \in DOMAIN plans, s \in PlanStatus :
         request' = [request EXCEPT ![r] =
                       [pc |-> "save", plan |-> p, status |-> s, row |-> plans[p]]]
    /\ Starts
    /\ UNCHANGED <<clock, plans, jobs, tasks, tick, bid, crashes>>

\* ... and Save.
UpdatePlanSave(r) ==
    /\ request[r].pc = "save"
    /\ plans' = [plans EXCEPT ![request[r].plan] =
                   [request[r].row EXCEPT !.status = request[r].status]]
    /\ request' = [request EXCEPT ![r] = Served]
    /\ UNCHANGED <<clock, jobs, tasks, tick, bid, crashes, overlapped>>

----------------------------------------------------------------------------
(* The environment.                                                        *)

ClockTick ==
    /\ clock < MaxClock
    /\ clock' = clock + 1
    /\ UNCHANGED <<plans, jobs, tasks, tick, bid, request, crashes, overlapped>>

\* Swan assigns a task to a miner; the deal of a sent task becomes active.
TaskMoves(from, to) ==
    /\ \E u \in DOMAIN tasks :
         /\ tasks[u].state = from
         /\ tasks' = [tasks EXCEPT ![u].state = to]
    /\ UNCHANGED <<clock, plans, jobs, tick, bid, request, crashes, overlapped>>

SwanAssigns == TaskMoves("open", "assigned")
DealActivates == TaskMoves("sent", "active")

\* The process dies and is started again: the database is what is left.
Crash ==
    /\ crashes < MaxCrashes
    /\ ~AllIdle
    /\ crashes' = crashes + 1
    /\ tick' = [t \in Ticks |-> IdleTick]
    /\ bid' = [b \in Bids |-> IdleBid]
    /\ request' = [r \in Requests |-> IF request[r].pc = "save" THEN Served ELSE request[r]]
    /\ UNCHANGED <<clock, plans, jobs, tasks, overlapped>>

TickStep(t) ==
    \/ ScanPlans(t) \/ ReadPlan(t) \/ SavePlan(t) \/ CreateJob(t) \/ LastJob(t)
    \/ CreateTask(t) \/ BackupFails(t) \/ SaveBackupTask(t)

BidStep(b) ==
    \/ SendAutoBidDeals(b) \/ FindSentJob(b) \/ SaveSentJob(b) \/ FindJobs(b)
    \/ CheckDealStatus(b) \/ CheckDealFails(b)

Next ==
    \/ \E t \in Ticks : TickStep(t)
    \/ \E b \in Bids : BidStep(b)
    \/ \E r \in Requests : UpdatePlanFirst(r) \/ UpdatePlanSave(r)
    \/ PsqlBackupVolumeAddPlan \/ PsqlBackupAddJob
    \/ ClockTick \/ SwanAssigns \/ DealActivates \/ Crash

Spec == Init /\ [][Next]_vars

----------------------------------------------------------------------------
(* Properties.                                                             *)

(* Every table holds rows of its type and the local state of every         *)
(* goroutine points at rows that exist.                                    *)
TypeOK ==
    /\ clock \in 1..MaxClock
    /\ plans \in Seq(Plan) /\ Len(plans) <= MaxPlans
    /\ jobs \in Seq(Job) /\ Len(jobs) <= MaxJobs
    /\ tasks \in Seq(Task) /\ Len(tasks) <= MaxTasks
    /\ tick \in [Ticks -> [pc : {"idle", "touch", "save", "add", "last", "backup", "task"},
                           due : SUBSET PlanIds, left : SUBSET PlanIds, plan : PlanIds,
                           row : Plan, backups : SUBSET [job : JobIds, plan : PlanIds],
                           job : 0..MaxJobs, uuid : 0..MaxTasks]]
    /\ \A b \in Bids :
         /\ bid[b].pc \in {"idle", "record", "save", "check"}
         /\ bid[b].row \in Job
         /\ bid[b].job \in JobIds
    /\ request \in [Requests -> [pc : {"new", "save", "served"}, plan : PlanIds,
                                 status : PlanStatus, row : Plan]]
    /\ crashes \in 0..MaxCrashes
    /\ overlapped \in BOOLEAN

(* A Swan task belongs to at most one job, however the ticks that number   *)
(* jobs with db.Last and write back stale rows interleave: the uuid lookup *)
(* of UpdateSentBackupTasksInDb is never ambiguous.                        *)
UniqueUuid ==
    \A i, j \in DOMAIN jobs : jobs[i].uuid = jobs[j].uuid /\ jobs[i].uuid # 0 => i = j

(* A job is reported Completed only when the deal it names is active and   *)
(* is the deal of its own task, although UpdateActiveBackupTasksInDb       *)
(* writes back a row that may have changed since it was read.              *)
CompletedIsActive ==
    \A j \in DOMAIN jobs :
       jobs[j].status = "Completed" =>
          /\ jobs[j].dealCid = jobs[j].uuid
          /\ jobs[j].dealCid # 0 /\ tasks[jobs[j].dealCid].state = "active"

(* As long as no two goroutines overlapped, the task of a job was created  *)
(* for the plan of that job: db.Last numbered it right.                    *)
JobMatchesTask ==
    ~overlapped =>
       \A j \in DOMAIN jobs : jobs[j].uuid # 0 => tasks[jobs[j].uuid].plan = jobs[j].plan

(* As long as no two goroutines overlapped, a plan is backed up at most    *)
(* once per interval since its creation, crashes included: LastBackupOn is *)
(* written before the job is created.                                      *)
NoExtraBackups ==
    ~overlapped =>
       \A p \in DOMAIN plans :
          Cardinality({u \in DOMAIN tasks : tasks[u].plan = p}) * Interval
            <= clock - plans[p].createdOn

Rank(status) == CASE status = "Created" -> 0 [] status = "Running" -> 1
                  [] status = "Completed" -> 2

(* As long as no two goroutines overlapped, a job never falls back from    *)
(* Completed or Running, and the status of a plan changes only by a        *)
(* request to update it.                                                   *)
StatusOnlyAdvances ==
    [][~overlapped' =>
         /\ \A j \in DOMAIN jobs : Rank(jobs'[j].status) >= Rank(jobs[j].status)
         /\ \A p \in DOMAIN plans : plans'[p].status # plans[p].status
              => \E r \in Requests : request[r].pc = "save" /\ request[r].plan = p]_vars

Sent(u) == tasks[u].state \in {"sent", "active"}

Recorded(u) == \E j \in DOMAIN jobs : jobs[j].uuid = u /\ jobs[j].dealCid = u

(* As long as no two goroutines overlapped and the process did not die,    *)
(* every deal sent is on record in a job once the tick is over.            *)
DealsRecordedAlone ==
    AllIdle /\ ~overlapped /\ crashes = 0 => \A u \in DOMAIN tasks : Sent(u) => Recorded(u)

(* "Save all the deals information into PostgreSQL database" (README.md:   *)
(* 24): once every tick and request is over, every deal sent is on record. *)
DealsRecorded ==
    AllIdle /\ crashes = 0 => \A u \in DOMAIN tasks : Sent(u) => Recorded(u)

============================================================================
