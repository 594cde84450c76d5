------------------------- MODULE VolumeBackupProof -------------------------
(***************************************************************************)
(* What overlapping backup ticks, autobid ticks and requests keep, for any *)
(* number of them, any interval and any bounds: a task belongs to one job, *)
(* and a job is Completed with an active deal of its own only.  Then what  *)
(* holds as long as no two goroutines overlap: a job gets the task of its  *)
(* own plan, every deal sent is found in a job once the tick is over, and  *)
(* a plan has at most one task for each interval.                          *)
(***************************************************************************)
EXTENDS VolumeBackup, SequenceTheorems, FiniteSetTheorems, TLAPS

----------------------------------------------------------------------------
(* The inductive invariant.                                                *)

TickStates == [pc : {"idle", "touch", "save", "add", "last", "backup", "task"},
               due : SUBSET PlanIds, left : SUBSET PlanIds, plan : PlanIds,
               row : Plan, backups : SUBSET [job : JobIds, plan : PlanIds],
               job : 0..MaxJobs, uuid : 0..MaxTasks]
BidStates == [pc : {"idle", "record", "save", "check"}, left : SUBSET Nat,
              job : JobIds, row : Job, found : Seq(Job)]
RequestStates == [pc : {"new", "save", "served"}, plan : PlanIds,
                  status : PlanStatus, row : Plan]

\* What the local states refer to is there, in tables of p plans, n jobs, u tasks.
TickRefers(s, p, n, u) ==
    /\ s.pc \in {"touch", "save"} => s.due \cup s.left \subseteq 1..p
    /\ s.pc = "save" => s.plan \in 1..p
    /\ s.pc = "last" => n > 0
    /\ \A b \in s.backups : b.job \in 1..n
    /\ s.pc = "task" => s.job \in 1..n /\ s.uuid \in 1..u
BidRefers(s, n, u) ==
    /\ s.pc \in {"record", "save"} => s.left \subseteq 1..u
    /\ s.pc = "save" => s.job \in 1..n
    /\ Len(s.found) <= n
    /\ s.pc = "check" => /\ s.left \subseteq 1..Len(s.found)
                         /\ \A j \in s.left : s.found[j].dealCid # 0
RequestRefers(s, p) == s.pc = "save" => s.plan \in 1..p

Tables == /\ clock \in 1..MaxClock
          /\ plans \in Seq(Plan) /\ Len(plans) <= MaxPlans
          /\ jobs \in Seq(Job) /\ Len(jobs) <= MaxJobs
          /\ tasks \in Seq(Task) /\ Len(tasks) <= MaxTasks
          /\ crashes \in 0..MaxCrashes
          /\ overlapped \in BOOLEAN
TicksOK == /\ tick \in [Ticks -> TickStates]
           /\ \A t \in Ticks : TickRefers(tick[t], Len(plans), Len(jobs), Len(tasks))
BidsOK == /\ bid \in [Bids -> BidStates]
          /\ \A b \in Bids : BidRefers(bid[b], Len(jobs), Len(tasks))
RequestsOK == /\ request \in [Requests -> RequestStates]
              /\ \A r \in Requests : RequestRefers(request[r], Len(plans))

Typed == Tables /\ TicksOK /\ BidsOK /\ RequestsOK

\* A row of the table of jobs, or one that will be: its deal is that of its
\* task, and active if the row says so.
RowOK(r, ts) == /\ r.uuid <= Len(ts)
                /\ r.dealCid \in {0, r.uuid}
                /\ r.status = "Completed" => r.dealCid # 0 /\ ts[r.dealCid].state = "active"
RowsOK == /\ \A j \in DOMAIN jobs : RowOK(jobs[j], tasks)
          /\ \A b \in Bids : /\ bid[b].pc = "save" => RowOK(bid[b].row, tasks)
                             /\ \A j \in DOMAIN bid[b].found : RowOK(bid[b].found[j], tasks)

\* The job j has the task u, or a goroutine will write that it has.
Has(j, u) == \/ j \in DOMAIN jobs /\ jobs[j].uuid = u
             \/ \E t \in Ticks : tick[t].pc = "task" /\ tick[t].job = j /\ tick[t].uuid = u
             \/ \E b \in Bids : bid[b].pc = "save" /\ bid[b].job = j /\ bid[b].row.uuid = u
             \/ \E b \in Bids : j \in DOMAIN bid[b].found /\ bid[b].found[j].uuid = u
OneJob == \A u \in Uuids, i, j \in JobIds : Has(i, u) /\ Has(j, u) => i = j

----------------------------------------------------------------------------
(* Types.                                                                  *)

LEMMA Bounds ==
  /\ MaxPlans \in Nat \ {0} /\ MaxJobs \in Nat \ {0} /\ MaxClock \in Nat \ {0}
  /\ MaxTasks \in Nat /\ MaxCrashes \in Nat
  /\ 1 \in PlanIds /\ 1 \in JobIds
  /\ NoPlan \in Plan /\ NoJob \in Job
<1>1. /\ MaxPlans \in Nat \ {0} /\ MaxJobs \in Nat \ {0} /\ MaxClock \in Nat \ {0}
      /\ MaxTasks \in Nat /\ MaxCrashes \in Nat
  BY BoundAssumption
<1>2. QED
  BY <1>1 DEF PlanIds, JobIds, NoPlan, NoJob, Plan, Job, PlanStatus, JobStatus

LEMMA IdleStates ==
  /\ IdleTick \in TickStates /\ IdleBid \in BidStates
  /\ NewRequest \in RequestStates /\ Served \in RequestStates
  /\ \A p, n, u \in Nat : /\ TickRefers(IdleTick, p, n, u) /\ BidRefers(IdleBid, n, u)
                          /\ RequestRefers(NewRequest, p) /\ RequestRefers(Served, p)
<1>1. IdleTick \in TickStates
  BY Bounds DEF IdleTick, TickStates
<1>2. IdleBid \in BidStates
  BY Bounds DEF IdleBid, BidStates
<1>3. NewRequest \in RequestStates /\ Served \in RequestStates
  BY Bounds DEF NewRequest, Served, RequestStates, PlanStatus
<1>4. QED
  BY <1>1, <1>2, <1>3 DEF IdleTick, IdleBid, NewRequest, Served, TickRefers, BidRefers, RequestRefers

LEMMA TypedInit == Init => Typed
<1> SUFFICES ASSUME Init PROVE Typed
  OBVIOUS
<1>1. /\ plans = <<>> /\ jobs = <<>> /\ tasks = <<>>
      /\ Len(plans) = 0 /\ Len(jobs) = 0 /\ Len(tasks) = 0
  BY DEF Init
<1>2. plans \in Seq(Plan) /\ jobs \in Seq(Job) /\ tasks \in Seq(Task)
  BY <1>1
<1>3. overlapped \in BOOLEAN
  BY DEF Init
<1>4. Tables
  BY <1>1, <1>2, <1>3, Bounds DEF Init, Tables
<1>5. TicksOK
  BY <1>1, IdleStates DEF Init, TicksOK
<1>6. BidsOK
  BY <1>1, IdleStates DEF Init, BidsOK
<1>7. RequestsOK
  BY <1>1, IdleStates DEF Init, RequestsOK
<1>8. QED
  BY <1>4, <1>5, <1>6, <1>7 DEF Typed

Grows == Len(plans) <= Len(plans') /\ Len(jobs) <= Len(jobs') /\ Len(tasks) <= Len(tasks')

LEMMA Lengths ==
  ASSUME Tables
  PROVE  /\ Len(plans) \in Nat /\ DOMAIN plans = 1..Len(plans) /\ DOMAIN plans \subseteq PlanIds
         /\ Len(jobs) \in Nat /\ DOMAIN jobs = 1..Len(jobs) /\ DOMAIN jobs \subseteq JobIds
         /\ Len(tasks) \in Nat /\ DOMAIN tasks = 1..Len(tasks) /\ DOMAIN tasks \subseteq Uuids
BY Bounds DEF Tables, PlanIds, JobIds, Uuids

\* The goroutines that do not move refer to what is still there.
LEMMA OthersStay ==
  ASSUME Typed, Tables', Grows
  PROVE  /\ \A t \in Ticks : TickRefers(tick[t], Len(plans'), Len(jobs'), Len(tasks'))
         /\ \A b \in Bids : BidRefers(bid[b], Len(jobs'), Len(tasks'))
         /\ \A r \in Requests : RequestRefers(request[r], Len(plans'))
<1>1. Len(plans) \in Nat /\ Len(jobs) \in Nat /\ Len(tasks) \in Nat
  BY Lengths DEF Typed
<1>2. Len(plans') \in Nat /\ Len(jobs') \in Nat /\ Len(tasks') \in Nat
  BY DEF Tables
<1>3. Len(plans) <= Len(plans') /\ Len(jobs) <= Len(jobs') /\ Len(tasks) <= Len(tasks')
  BY DEF Grows
<1>4. /\ 1..Len(plans) \subseteq 1..Len(plans')
      /\ 1..Len(jobs) \subseteq 1..Len(jobs') /\ (Len(jobs) > 0 => Len(jobs') > 0)
      /\ 1..Len(tasks) \subseteq 1..Len(tasks')
  BY <1>1, <1>2, <1>3
<1>5. ASSUME NEW t \in Ticks
      PROVE  TickRefers(tick[t], Len(plans'), Len(jobs'), Len(tasks'))
  BY <1>4 DEF Typed, TicksOK, TickRefers
<1>6. ASSUME NEW b \in Bids PROVE BidRefers(bid[b], Len(jobs'), Len(tasks'))
  <2>1. Len(bid[b].found) \in Nat /\ BidRefers(bid[b], Len(jobs), Len(tasks))
    BY DEF Typed, BidsOK, BidStates
  <2>2. QED
    BY <1>1, <1>2, <1>3, <1>4, <2>1 DEF BidRefers
<1>7. ASSUME NEW r \in Requests PROVE RequestRefers(request[r], Len(plans'))
  BY <1>4 DEF Typed, RequestsOK, RequestRefers
<1>8. QED
  BY <1>5, <1>6, <1>7

LEMMA NoneMoves ==
  ASSUME Typed, Tables', Grows, UNCHANGED <<tick, bid, request>>
  PROVE  Typed'
BY OthersStay DEF Typed, TicksOK, BidsOK, RequestsOK

LEMMA TickMoves ==
  ASSUME Typed, Tables', Grows, UNCHANGED <<bid, request>>,
         NEW t \in Ticks, NEW s \in TickStates, tick' = [tick EXCEPT ![t] = s],
         TickRefers(s, Len(plans'), Len(jobs'), Len(tasks'))
  PROVE  Typed'
<1>1. TicksOK'
  <2>1. tick' \in [Ticks -> TickStates]
    BY DEF Typed, TicksOK
  <2>2. \A k \in Ticks : tick'[k] = IF k = t THEN s ELSE tick[k]
    BY DEF Typed, TicksOK
  <2>3. QED
    BY <2>1, <2>2, OthersStay DEF TicksOK
<1>2. QED
  BY <1>1, OthersStay DEF Typed, BidsOK, RequestsOK

LEMMA BidMoves ==
  ASSUME Typed, Tables', Grows, UNCHANGED <<tick, request>>,
         NEW b \in Bids, NEW s \in BidStates, bid' = [bid EXCEPT ![b] = s],
         BidRefers(s, Len(jobs'), Len(tasks'))
  PROVE  Typed'
<1>1. BidsOK'
  <2>1. bid' \in [Bids -> BidStates]
    BY DEF Typed, BidsOK
  <2>2. \A k \in Bids : bid'[k] = IF k = b THEN s ELSE bid[k]
    BY DEF Typed, BidsOK
  <2>3. QED
    BY <2>1, <2>2, OthersStay DEF BidsOK
<1>2. QED
  BY <1>1, OthersStay DEF Typed, TicksOK, RequestsOK

LEMMA RequestMoves ==
  ASSUME Typed, Tables', Grows, UNCHANGED <<tick, bid>>,
         NEW r \in Requests, NEW s \in RequestStates, request' = [request EXCEPT ![r] = s],
         RequestRefers(s, Len(plans'))
  PROVE  Typed'
<1>1. RequestsOK'
  <2>1. request' \in [Requests -> RequestStates]
    BY DEF Typed, RequestsOK
  <2>2. \A k \in Requests : request'[k] = IF k = r THEN s ELSE request[k]
    BY DEF Typed, RequestsOK
  <2>3. QED
    BY <2>1, <2>2, OthersStay DEF RequestsOK
<1>2. QED
  BY <1>1, OthersStay DEF Typed, TicksOK, BidsOK

----------------------------------------------------------------------------
(* What the steps do to the tables.                                        *)

LEMMA StartsTyped == ASSUME Tables, Starts PROVE overlapped' \in BOOLEAN
<1>1. overlapped' = (overlapped \/ Active > 0)
  BY DEF Starts
<1>2. QED
  BY <1>1, Zenon

LEMMA SameTables ==
  ASSUME Typed, UNCHANGED <<clock, plans, jobs, tasks, crashes>>, overlapped' \in BOOLEAN
  PROVE  Tables' /\ Grows
BY Lengths DEF Typed, Tables, Grows

\* One of the tables has a row more, or another row in the place of one.
LEMMA PlansChange ==
  ASSUME Typed, UNCHANGED <<clock, jobs, tasks, crashes>>, overlapped' \in BOOLEAN,
         NEW row \in Plan,
         \/ Len(plans) < MaxPlans /\ plans' = Append(plans, row)
         \/ \E p \in DOMAIN plans : plans' = [plans EXCEPT ![p] = row]
  PROVE  Tables' /\ Grows
<1>1. /\ plans \in Seq(Plan) /\ Len(plans) \in Nat /\ DOMAIN plans = 1..Len(plans)
      /\ Len(jobs) \in Nat /\ Len(tasks) \in Nat /\ Len(plans) <= MaxPlans /\ MaxPlans \in Nat
  BY Lengths, Bounds DEF Typed, Tables
<1>2. /\ plans' \in Seq(Plan) /\ Len(plans') <= MaxPlans /\ Len(plans) <= Len(plans')
  <2>1. ASSUME Len(plans) < MaxPlans, plans' = Append(plans, row)
        PROVE  plans' \in Seq(Plan) /\ Len(plans') = Len(plans) + 1
    BY <1>1, <2>1, AppendProperties
  <2>2. ASSUME NEW p \in DOMAIN plans, plans' = [plans EXCEPT ![p] = row]
        PROVE  plans' \in Seq(Plan) /\ Len(plans') = Len(plans)
    BY <1>1, <2>2, ExceptSeq
  <2>3. QED
    BY <1>1, <2>1, <2>2
<1>3. QED
  BY <1>1, <1>2 DEF Typed, Tables, Grows

LEMMA JobsChange ==
  ASSUME Typed, UNCHANGED <<clock, plans, tasks, crashes>>, overlapped' \in BOOLEAN,
         NEW row \in Job,
         \/ Len(jobs) < MaxJobs /\ jobs' = Append(jobs, row)
         \/ \E j \in DOMAIN jobs : jobs' = [jobs EXCEPT ![j] = row]
  PROVE  Tables' /\ Grows
<1>1. /\ jobs \in Seq(Job) /\ Len(jobs) \in Nat /\ DOMAIN jobs = 1..Len(jobs)
      /\ Len(plans) \in Nat /\ Len(tasks) \in Nat /\ Len(jobs) <= MaxJobs /\ MaxJobs \in Nat
  BY Lengths, Bounds DEF Typed, Tables
<1>2. /\ jobs' \in Seq(Job) /\ Len(jobs') <= MaxJobs /\ Len(jobs) <= Len(jobs')
  <2>1. ASSUME Len(jobs) < MaxJobs, jobs' = Append(jobs, row)
        PROVE  jobs' \in Seq(Job) /\ Len(jobs') = Len(jobs) + 1
    BY <1>1, <2>1, AppendProperties
  <2>2. ASSUME NEW j \in DOMAIN jobs, jobs' = [jobs EXCEPT ![j] = row]
        PROVE  jobs' \in Seq(Job) /\ Len(jobs') = Len(jobs)
    BY <1>1, <2>2, ExceptSeq
  <2>3. QED
    BY <1>1, <2>1, <2>2
<1>3. QED
  BY <1>1, <1>2 DEF Typed, Tables, Grows

\* Tasks move on; one that is sent stays so until it is active for ever.
Later(t1, t2) == /\ t2.plan = t1.plan
                 /\ t1.state = "active" => t2.state = "active"
                 /\ t1.state = "sent" => t2.state \in {"sent", "active"}
Moved(ts) == /\ ts \in Seq(Task) /\ Len(ts) = Len(tasks)
             /\ \A u \in DOMAIN tasks : Later(tasks[u], ts[u])

LEMMA TasksChange ==
  ASSUME Typed, UNCHANGED <<clock, plans, jobs, crashes>>, overlapped' \in BOOLEAN,
         \/ Len(tasks) < MaxTasks /\ \E row \in Task : tasks' = Append(tasks, row)
         \/ Moved(tasks')
  PROVE  Tables' /\ Grows
<1>1. /\ tasks \in Seq(Task) /\ Len(tasks) \in Nat /\ DOMAIN tasks = 1..Len(tasks)
      /\ Len(plans) \in Nat /\ Len(jobs) \in Nat /\ Len(tasks) <= MaxTasks /\ MaxTasks \in Nat
  BY Lengths, Bounds DEF Typed, Tables
<1>2. /\ tasks' \in Seq(Task) /\ Len(tasks') <= MaxTasks /\ Len(tasks) <= Len(tasks')
  <2>1. ASSUME Len(tasks) < MaxTasks, NEW row \in Task, tasks' = Append(tasks, row)
        PROVE  tasks' \in Seq(Task) /\ Len(tasks') = Len(tasks) + 1
    BY <1>1, <2>1, AppendProperties
  <2>2. CASE Moved(tasks')
    BY <1>1, <2>2 DEF Moved
  <2>3. QED
    BY <1>1, <2>1, <2>2
<1>3. QED
  BY <1>1, <1>2 DEF Typed, Tables, Grows

----------------------------------------------------------------------------
(* Each step keeps the types.                                              *)

LEMMA TickFacts ==
  ASSUME Typed, NEW t \in Ticks
  PROVE  /\ tick \in [Ticks -> TickStates] /\ tick[t] \in TickStates
         /\ TickRefers(tick[t], Len(plans), Len(jobs), Len(tasks))
BY DEF Typed, TicksOK

LEMMA BidFacts ==
  ASSUME Typed, NEW b \in Bids
  PROVE  /\ bid \in [Bids -> BidStates] /\ bid[b] \in BidStates
         /\ BidRefers(bid[b], Len(jobs), Len(tasks))
BY DEF Typed, BidsOK

\* A loop over the plans goes on, or the next one begins.
LEMMA AdvanceTyped ==
  ASSUME NEW tk \in TickStates, NEW then \in TickStates,
         NEW again \in {"touch", "add"},
         NEW p \in Nat, NEW n \in Nat, NEW u \in Nat, TickRefers(tk, p, n, u),
         again = "touch" => tk.pc = "save",
         then.pc \in {"add", "backup"}
  PROVE  /\ Advance(tk, again, then) \in TickStates
         /\ TickRefers(Advance(tk, again, then), p, n, u)
         /\ Advance(tk, again, then).backups = tk.backups
         /\ Advance(tk, again, then).pc \in {"touch", "add", "backup"}
<1>1. CASE tk.left = {tk.plan}
  <2> DEFINE s == [then EXCEPT !.backups = tk.backups]
  <2>1. Advance(tk, again, then) = s
    BY <1>1 DEF Advance
  <2>2. s \in TickStates /\ s.pc = then.pc /\ s.backups = tk.backups
    BY DEF TickStates
  <2>3. QED
    BY <2>1, <2>2 DEF TickRefers
<1>2. CASE tk.left # {tk.plan}
  <2> DEFINE s == [tk EXCEPT !.pc = again, !.left = tk.left \ {tk.plan}, !.plan = 1, !.row = NoPlan]
  <2>1. Advance(tk, again, then) = s
    BY <1>2 DEF Advance
  <2>2. /\ s \in TickStates
        /\ s.pc = again /\ s.left \subseteq tk.left /\ s.due = tk.due /\ s.backups = tk.backups
    BY Bounds DEF TickStates
  <2>3. QED
    BY <2>1, <2>2 DEF TickRefers
<1>3. QED
  BY <1>1, <1>2

LEMMA TypedScanPlans == ASSUME Typed, NEW t \in Ticks, ScanPlans(t) PROVE Typed'
<1> DEFINE s == [tick[t] EXCEPT !.pc = "touch", !.due = DuePlans, !.left = DuePlans]
<1>1. DuePlans \subseteq 1..Len(plans) /\ DuePlans \subseteq PlanIds
  BY Lengths DEF DuePlans, Typed
<1>2. s \in TickStates /\ tick' = [tick EXCEPT ![t] = s]
  BY <1>1, TickFacts DEF ScanPlans, TickStates
<1>3. TickRefers(s, Len(plans), Len(jobs), Len(tasks))
  BY <1>1, TickFacts DEF TickRefers, TickStates
<1>4. Tables' /\ Grows
  BY StartsTyped, SameTables DEF ScanPlans, Typed
<1>5. QED
  BY <1>2, <1>3, <1>4, TickMoves DEF ScanPlans

LEMMA TypedReadPlan == ASSUME Typed, NEW t \in Ticks, ReadPlan(t) PROVE Typed'
<1>1. PICK p \in tick[t].left :
        tick' = [tick EXCEPT ![t].pc = "save", ![t].plan = p, ![t].row = plans[p]]
  BY DEF ReadPlan
<1> DEFINE s == [tick[t] EXCEPT !.pc = "save", !.plan = p, !.row = plans[p]]
<1>2. p \in 1..Len(plans) /\ p \in PlanIds /\ tick[t].pc = "touch"
  BY TickFacts, Lengths DEF ReadPlan, TickRefers, Typed
<1>3. plans[p] \in Plan
  BY <1>2, Lengths DEF Typed, Tables
<1>4. s \in TickStates /\ tick' = [tick EXCEPT ![t] = s]
  BY <1>1, <1>2, <1>3, TickFacts DEF TickStates
<1>5. TickRefers(s, Len(plans), Len(jobs), Len(tasks))
  BY <1>2, TickFacts DEF TickRefers, TickStates
<1>6. Tables' /\ Grows
  BY SameTables DEF ReadPlan, Typed, Tables
<1>7. QED
  BY <1>4, <1>5, <1>6, TickMoves DEF ReadPlan

LEMMA TypedSavePlan == ASSUME Typed, NEW t \in Ticks, SavePlan(t) PROVE Typed'
<1> DEFINE row == [tick[t].row EXCEPT !.lastBackupOn = clock]
           then == [IdleTick EXCEPT !.pc = "add", !.due = tick[t].due, !.left = tick[t].due]
           s == Advance(tick[t], "touch", then)
<1>1. tick[t].plan \in DOMAIN plans
  BY TickFacts, Lengths DEF SavePlan, TickRefers, Typed
<1>2. row \in Plan
  <2>1. tick[t].row \in Plan
    BY TickFacts DEF TickStates
  <2>2. clock \in 0..MaxClock
    BY Bounds DEF Typed, Tables
  <2>3. QED
    BY <2>1, <2>2 DEF Plan
<1>3. Tables' /\ Grows
  BY <1>1, <1>2, PlansChange DEF SavePlan, Typed, Tables
<1>4. then \in TickStates /\ then.pc = "add"
  BY TickFacts, IdleStates DEF TickStates
<1>5. Len(plans') = Len(plans)
  BY <1>1, <1>2, ExceptSeq, Lengths DEF SavePlan, Typed, Tables
<1>6. s \in TickStates /\ TickRefers(s, Len(plans), Len(jobs), Len(tasks))
  BY <1>4, TickFacts, AdvanceTyped, Lengths DEF SavePlan, Typed
<1>7. QED
  BY <1>3, <1>5, <1>6, TickMoves DEF SavePlan

LEMMA TypedCreateJob == ASSUME Typed, NEW t \in Ticks, CreateJob(t) PROVE Typed'
<1>1. PICK p \in tick[t].left : /\ jobs' = Append(jobs, [NoJob EXCEPT !.plan = p])
                                /\ tick' = [tick EXCEPT ![t].pc = "last", ![t].plan = p]
  BY DEF CreateJob
<1> DEFINE s == [tick[t] EXCEPT !.pc = "last", !.plan = p]
<1>2. p \in PlanIds /\ [NoJob EXCEPT !.plan = p] \in Job
  BY TickFacts, Bounds DEF TickStates, Job
<1>3. Tables' /\ Grows
  BY <1>1, <1>2, JobsChange DEF CreateJob, Typed, Tables
<1>4. s \in TickStates /\ tick' = [tick EXCEPT ![t] = s]
  BY <1>1, <1>2, TickFacts DEF TickStates
<1>5. Len(jobs') = Len(jobs) + 1
  BY <1>1, <1>2, AppendProperties DEF Typed, Tables
<1>6. TickRefers(s, Len(plans), Len(jobs'), Len(tasks))
  <2>1. Len(jobs) \in Nat
    BY Lengths DEF Typed
  <2>2. s.pc = "last" /\ s.backups = tick[t].backups
    BY TickFacts DEF TickStates
  <2>3. 1..Len(jobs) \subseteq 1..Len(jobs') /\ Len(jobs') > 0
    BY <1>5, <2>1
  <2>4. QED
    BY <2>2, <2>3, TickFacts DEF TickRefers
<1>7. QED
  BY <1>3, <1>4, <1>6, TickMoves DEF CreateJob

LEMMA TypedLastJob == ASSUME Typed, NEW t \in Ticks, LastJob(t) PROVE Typed'
<1> DEFINE then == [IdleTick EXCEPT !.pc = "backup"]
           a == Advance(tick[t], "add", then)
           backup == [job |-> Len(jobs), plan |-> tick[t].plan]
           s == [a EXCEPT !.backups = @ \cup {backup}]
<1>1. then \in TickStates /\ then.pc = "backup"
  BY IdleStates DEF TickStates
<1>2. a \in TickStates /\ TickRefers(a, Len(plans), Len(jobs), Len(tasks))
  BY <1>1, TickFacts, AdvanceTyped, Lengths DEF Typed
<1>3. a.pc \notin {"task", "save", "last"}
  BY <1>1, TickFacts, AdvanceTyped, Lengths DEF Typed
<1>4. Len(jobs) \in 1..Len(jobs) /\ Len(jobs) \in JobIds
  BY TickFacts, Lengths DEF LastJob, TickRefers, Typed
<1>5. backup \in [job : JobIds, plan : PlanIds] /\ backup.job \in 1..Len(jobs)
  BY <1>4, TickFacts DEF TickStates
<1>10. tick' = [tick EXCEPT ![t] = s]
  BY DEF LastJob
<1> HIDE DEF a, backup
<1>6. s \in TickStates
  BY <1>2, <1>5 DEF TickStates
<1>7. s.pc = a.pc /\ s.due = a.due /\ s.left = a.left /\ s.backups = a.backups \cup {backup}
  BY <1>2 DEF TickStates
<1>8. TickRefers(s, Len(plans), Len(jobs), Len(tasks))
  BY <1>2, <1>3, <1>5, <1>7 DEF TickRefers
<1>9. Tables' /\ Grows
  BY SameTables DEF LastJob, Typed, Tables
<1>11. QED
  BY <1>6, <1>8, <1>9, <1>10, TickMoves DEF LastJob

LEMMA TypedCreateTask == ASSUME Typed, NEW t \in Ticks, CreateTask(t) PROVE Typed'
<1>1. PICK b \in tick[t].backups :
        /\ tasks' = Append(tasks, [plan |-> b.plan, state |-> "open"])
        /\ tick' = [tick EXCEPT ![t].pc = "task", ![t].backups = @ \ {b},
                                ![t].job = b.job, ![t].uuid = Len(tasks) + 1]
  BY DEF CreateTask
<1> DEFINE s == [tick[t] EXCEPT !.pc = "task", !.backups = tick[t].backups \ {b},
                                !.job = b.job, !.uuid = Len(tasks) + 1]
           task == [plan |-> b.plan, state |-> "open"]
<1>2. b \in [job : JobIds, plan : PlanIds] /\ b.job \in 1..Len(jobs)
  BY TickFacts DEF TickStates, TickRefers
<1>3. task \in Task
  BY <1>2 DEF Task, TaskState
<1>4. Tables' /\ Grows
  BY <1>1, <1>3, TasksChange DEF CreateTask, Typed, Tables
<1>5. Len(tasks) \in Nat /\ Len(tasks) < MaxTasks /\ MaxTasks \in Nat
      /\ b.job \in 0..MaxJobs /\ Len(tasks) + 1 \in 0..MaxTasks
  BY <1>2, Lengths, Bounds DEF CreateTask, Typed, JobIds
<1>6. Len(tasks') = Len(tasks) + 1
  BY <1>1, <1>3, AppendProperties DEF Typed, Tables
<1>7. s \in TickStates /\ tick' = [tick EXCEPT ![t] = s]
  BY <1>1, <1>5, TickFacts DEF TickStates
<1>8. /\ s.pc = "task" /\ s.backups \subseteq tick[t].backups
      /\ s.job = b.job /\ s.uuid = Len(tasks) + 1
  BY <1>5, TickFacts DEF TickStates
<1>9. TickRefers(s, Len(plans), Len(jobs), Len(tasks'))
  BY <1>2, <1>5, <1>6, <1>8, TickFacts DEF TickRefers
<1>10. QED
  BY <1>4, <1>7, <1>9, TickMoves DEF CreateTask

LEMMA TypedBackupFails == ASSUME Typed, NEW t \in Ticks, BackupFails(t) PROVE Typed'
<1>1. Tables' /\ Grows
  BY SameTables DEF BackupFails, Typed, Tables
<1>2. TickRefers(IdleTick, Len(plans), Len(jobs), Len(tasks))
  BY IdleStates, Lengths DEF Typed
<1>3. QED
  BY <1>1, <1>2, IdleStates, TickMoves DEF BackupFails

LEMMA TypedSaveBackupTask == ASSUME Typed, NEW t \in Ticks, SaveBackupTask(t) PROVE Typed'
<1> DEFINE j == tick[t].job
           row == [jobs[j] EXCEPT !.status = "Running", !.uuid = tick[t].uuid, !.dealCid = 0]
           s == IF tick[t].backups = {} THEN IdleTick
                ELSE [tick[t] EXCEPT !.pc = "backup", !.job = 0, !.uuid = 0]
<1>1. j \in 1..Len(jobs) /\ j \in DOMAIN jobs /\ tick[t].uuid \in 0..MaxTasks
  BY TickFacts, Lengths DEF SaveBackupTask, TickRefers, TickStates, Typed
<1>2. jobs[j] \in Job
  BY <1>1 DEF Typed, Tables
<1>0. 0 \in 0..MaxTasks /\ 0 \in 0..MaxJobs /\ "Running" \in JobStatus
  BY Bounds DEF JobStatus
<1>3. row \in Job
  BY <1>1, <1>2, <1>0 DEF Job
<1>4. Tables' /\ Grows /\ Len(jobs') = Len(jobs)
  <2>1. jobs' = [jobs EXCEPT ![j] = row]
    BY DEF SaveBackupTask
  <2>2. Tables' /\ Grows
    BY <1>1, <1>3, <2>1, JobsChange DEF SaveBackupTask, Typed, Tables
  <2>3. QED
    BY <1>1, <1>3, <2>1, <2>2, ExceptSeq DEF Typed, Tables
<1>5. s \in TickStates /\ TickRefers(s, Len(plans), Len(jobs), Len(tasks))
  <2>1. CASE tick[t].backups = {}
    BY <2>1, IdleStates, Lengths DEF Typed
  <2>2. CASE tick[t].backups # {}
    <3>1. s = [tick[t] EXCEPT !.pc = "backup", !.job = 0, !.uuid = 0]
      BY <2>2
    <3>2. s \in TickStates /\ s.pc = "backup" /\ s.backups = tick[t].backups
      BY <1>0, <3>1, TickFacts DEF TickStates
    <3>3. QED
      BY <3>2, TickFacts DEF TickRefers
  <2>3. QED
    BY <2>1, <2>2
<1>6. tick' = [tick EXCEPT ![t] = s]
  BY DEF SaveBackupTask
<1>7. QED
  BY <1>4, <1>5, <1>6, TickMoves DEF SaveBackupTask

\* The deals of the assigned tasks are sent; no task goes back.
LEMMA SentTasks ==
  ASSUME Typed, NEW b \in Bids, SendAutoBidDeals(b)
  PROVE  Moved(tasks')
<1>1. /\ tasks \in Seq(Task) /\ DOMAIN tasks = 1..Len(tasks) /\ Len(tasks) \in Nat
  BY Lengths DEF Typed, Tables
<1> DEFINE assigned == {u \in DOMAIN tasks : tasks[u].state = "assigned"}
           now(u) == IF u \in assigned THEN [tasks[u] EXCEPT !.state = "sent"] ELSE tasks[u]
<1>2. tasks' = [u \in DOMAIN tasks |-> now(u)]
  BY DEF SendAutoBidDeals
<1>3. ASSUME NEW u \in DOMAIN tasks
      PROVE  now(u) \in Task /\ Later(tasks[u], now(u))
  <2>1. tasks[u] \in Task
    BY <1>1
  <2>2. QED
    BY <2>1 DEF Task, TaskState, Later
<1> HIDE DEF now
<1>4. tasks' \in [1..Len(tasks) -> Task]
  BY <1>1, <1>2, <1>3
<1>5. tasks' \in Seq(Task) /\ Len(tasks') = Len(tasks)
  BY <1>1, <1>4
<1>6. QED
  BY <1>2, <1>3, <1>5 DEF Moved

LEMMA MovedTasks ==
  ASSUME Typed, NEW from, NEW to \in TaskState, from # "active",
         from = "sent" => to = "active", TaskMoves(from, to)
  PROVE  Moved(tasks')
<1>1. PICK u \in DOMAIN tasks : /\ tasks[u].state = from
                                /\ tasks' = [tasks EXCEPT ![u].state = to]
  BY DEF TaskMoves
<1>2. /\ tasks \in Seq(Task) /\ DOMAIN tasks = 1..Len(tasks) /\ Len(tasks) \in Nat
  BY Lengths DEF Typed, Tables
<1> DEFINE row == [tasks[u] EXCEPT !.state = to]
<1>3. tasks[u] \in Task
  BY <1>2
<1>4. row \in Task
  BY <1>3 DEF Task
<1>5. tasks' = [tasks EXCEPT ![u] = row]
  BY <1>1
<1>6. /\ tasks' \in Seq(Task) /\ Len(tasks') = Len(tasks)
      /\ \A k \in 1..Len(tasks) : tasks'[k] = IF k = u THEN row ELSE tasks[k]
  BY <1>2, <1>4, <1>5, ExceptSeq
<1>7. /\ row.plan = tasks[u].plan /\ tasks[u].state # "active"
      /\ tasks[u].state = "sent" => row.state = "active"
  BY <1>1, <1>3 DEF Task
<1>8. \A k \in DOMAIN tasks : Later(tasks[k], tasks'[k])
  BY <1>2, <1>6, <1>7 DEF Later
<1>9. QED
  BY <1>6, <1>8 DEF Moved

LEMMA TypedSendAutoBidDeals == ASSUME Typed, NEW b \in Bids, SendAutoBidDeals(b) PROVE Typed'
<1> DEFINE assigned == {u \in DOMAIN tasks : tasks[u].state = "assigned"}
           s == [bid[b] EXCEPT !.pc = "record", !.left = assigned]
<1>1. overlapped' \in BOOLEAN
  BY StartsTyped DEF SendAutoBidDeals, Typed
<1>2. Tables' /\ Grows
  BY <1>1, SentTasks, TasksChange DEF SendAutoBidDeals
<1>3. Len(tasks') = Len(tasks) /\ assigned \subseteq 1..Len(tasks) /\ assigned \subseteq Nat
  BY SentTasks, Lengths DEF Moved, Typed
<1>4. s \in BidStates /\ bid' = [bid EXCEPT ![b] = s]
  BY <1>3, BidFacts DEF SendAutoBidDeals, BidStates
<1>5. s.pc = "record" /\ s.left = assigned /\ s.found = bid[b].found
  BY BidFacts DEF BidStates
<1>6. BidRefers(s, Len(jobs), Len(tasks'))
  BY <1>3, <1>5, BidFacts DEF BidRefers
<1>7. QED
  BY <1>2, <1>4, <1>6, BidMoves DEF SendAutoBidDeals

LEMMA SentRow ==
  ASSUME Typed, NEW u \in Uuids, NEW j \in WithUuid(u)
  PROVE  LET row == [jobs[j] EXCEPT !.status = "Running", !.dealCid = u]
         IN  /\ j \in DOMAIN jobs /\ j \in JobIds /\ jobs[j] \in Job /\ jobs[j].uuid = u
             /\ row \in Job /\ row.status = "Running" /\ row.dealCid = u /\ row.uuid = u
<1>1. j \in DOMAIN jobs /\ j \in JobIds /\ jobs[j] \in Job /\ jobs[j].uuid = u
  BY Lengths DEF WithUuid, Typed, Tables
<1>2. u \in 0..MaxTasks /\ "Running" \in JobStatus
  BY Bounds DEF Uuids, JobStatus
<1>3. QED
  BY <1>1, <1>2 DEF Job

LEMMA TypedFindSentJob == ASSUME Typed, NEW b \in Bids, FindSentJob(b) PROVE Typed'
<1>1. Tables' /\ Grows
  BY SameTables DEF FindSentJob, Typed, Tables
<1>2. bid[b].pc = "record" /\ bid[b].left \subseteq Uuids
  BY BidFacts, Lengths DEF FindSentJob, BidRefers, Typed
<1>3. ASSUME NEW u \in bid[b].left, bid' = [bid EXCEPT ![b].left = @ \ {u}]
      PROVE  Typed'
  <2> DEFINE s == [bid[b] EXCEPT !.left = @ \ {u}]
  <2>1. s \in BidStates /\ bid' = [bid EXCEPT ![b] = s]
    BY <1>3, BidFacts DEF BidStates
  <2>2. s.pc = "record" /\ s.left \subseteq bid[b].left /\ s.found = bid[b].found
    BY <1>2, BidFacts DEF BidStates
  <2>3. BidRefers(s, Len(jobs), Len(tasks))
    BY <1>2, <2>2, BidFacts DEF BidRefers
  <2>4. QED
    BY <1>1, <2>1, <2>3, BidMoves DEF FindSentJob
<1>4. ASSUME NEW u \in bid[b].left, NEW j \in WithUuid(u),
             bid' = [bid EXCEPT ![b].pc = "save", ![b].left = @ \ {u}, ![b].job = j,
                       ![b].row = [jobs[j] EXCEPT !.status = "Running", !.dealCid = u]]
      PROVE  Typed'
  <2> DEFINE row == [jobs[j] EXCEPT !.status = "Running", !.dealCid = u]
             s == [bid[b] EXCEPT !.pc = "save", !.left = @ \ {u}, !.job = j, !.row = row]
  <2>1. row \in Job /\ j \in JobIds /\ j \in DOMAIN jobs
    BY <1>2, SentRow
  <2> HIDE DEF row
  <2>2. s \in BidStates
    BY <2>1, BidFacts DEF BidStates
  <2>3. bid' = [bid EXCEPT ![b] = s]
    BY <1>4, BidFacts DEF BidStates, row
  <2>4. s.pc = "save" /\ s.job = j /\ s.found = bid[b].found /\ s.left \subseteq bid[b].left
    BY BidFacts DEF BidStates
  <2>5. BidRefers(s, Len(jobs), Len(tasks))
    BY <1>2, <2>1, <2>4, BidFacts, Lengths DEF BidRefers, Typed
  <2>6. QED
    BY <1>1, <2>2, <2>3, <2>5, BidMoves DEF FindSentJob
<1>5. QED
  BY <1>3, <1>4 DEF FindSentJob

LEMMA TypedSaveSentJob == ASSUME Typed, NEW b \in Bids, SaveSentJob(b) PROVE Typed'
<1> DEFINE s == [bid[b] EXCEPT !.pc = "record", !.job = 1, !.row = NoJob]
<1>1. bid[b].job \in DOMAIN jobs /\ bid[b].row \in Job
  BY BidFacts, Lengths DEF SaveSentJob, BidRefers, BidStates, Typed
<1>2. Tables' /\ Grows
  BY <1>1, JobsChange DEF SaveSentJob, Typed, Tables
<1>3. Len(jobs') = Len(jobs)
  BY <1>1, ExceptSeq DEF SaveSentJob, Typed, Tables
<1>4. s \in BidStates /\ bid' = [bid EXCEPT ![b] = s]
  BY Bounds, BidFacts DEF SaveSentJob, BidStates
<1>5. s.pc = "record" /\ s.left = bid[b].left /\ s.found = bid[b].found
  BY BidFacts DEF BidStates
<1>6. BidRefers(s, Len(jobs), Len(tasks))
  BY <1>5, BidFacts DEF SaveSentJob, BidRefers
<1>7. QED
  BY <1>2, <1>3, <1>4, <1>6, BidMoves DEF SaveSentJob

LEMMA TypedFindJobs == ASSUME Typed, NEW b \in Bids, FindJobs(b) PROVE Typed'
<1> DEFINE sent == {j \in DOMAIN jobs : jobs[j].status = "Running" /\ jobs[j].dealCid # 0}
           s == IF sent = {} THEN IdleBid
                ELSE [bid[b] EXCEPT !.pc = "check", !.left = sent, !.found = jobs]
<1>1. Tables' /\ Grows
  BY SameTables DEF FindJobs, Typed, Tables
<1>2. s \in BidStates /\ BidRefers(s, Len(jobs), Len(tasks))
  <2>1. CASE sent = {}
    BY <2>1, IdleStates, Lengths DEF Typed
  <2>2. CASE sent # {}
    <3>1. s = [bid[b] EXCEPT !.pc = "check", !.left = sent, !.found = jobs]
      BY <2>2
    <3>2. /\ jobs \in Seq(Job) /\ Len(jobs) \in Nat
          /\ sent \subseteq 1..Len(jobs) /\ sent \subseteq Nat
      BY Lengths DEF Typed, Tables
    <3>3. s \in BidStates /\ s.pc = "check" /\ s.left = sent /\ s.found = jobs
      BY <3>1, <3>2, BidFacts DEF BidStates
    <3>4. QED
      BY <3>2, <3>3 DEF BidRefers
  <2>3. QED
    BY <2>1, <2>2
<1>3. bid' = [bid EXCEPT ![b] = s]
  BY DEF FindJobs
<1>4. QED
  BY <1>1, <1>2, <1>3, BidMoves DEF FindJobs

\* The row that is checked, and what it becomes.
LEMMA FoundRow ==
  ASSUME Typed, NEW b \in Bids, bid[b].pc = "check", NEW j \in bid[b].left
  PROVE  LET found == bid[b].found[j]
             row == [found EXCEPT !.status = "Completed"]
         IN  /\ j \in DOMAIN jobs /\ j \in DOMAIN bid[b].found /\ found \in Job /\ found.dealCid # 0
             /\ row \in Job /\ row.status = "Completed"
             /\ row.uuid = found.uuid /\ row.dealCid = found.dealCid
<1>1. /\ bid[b].found \in Seq(Job) /\ Len(bid[b].found) \in Nat
      /\ DOMAIN bid[b].found = 1..Len(bid[b].found)
  BY BidFacts DEF BidStates
<1>2. /\ j \in 1..Len(bid[b].found) /\ Len(bid[b].found) <= Len(jobs)
      /\ bid[b].found[j].dealCid # 0
  BY BidFacts DEF BidRefers
<1>3. j \in DOMAIN jobs
  BY <1>1, <1>2, Lengths DEF Typed
<1>4. bid[b].found[j] \in Job
  BY <1>1, <1>2
<1>5. QED
  BY <1>1, <1>2, <1>3, <1>4 DEF Job, JobStatus

LEMMA TypedCheckDealStatus == ASSUME Typed, NEW b \in Bids, CheckDealStatus(b) PROVE Typed'
<1>1. PICK j \in bid[b].left :
        /\ jobs' = IF tasks[bid[b].found[j].dealCid].state = "active"
                   THEN [jobs EXCEPT ![j] = [bid[b].found[j] EXCEPT !.status = "Completed"]]
                   ELSE jobs
        /\ bid' = [bid EXCEPT ![b] = IF bid[b].left = {j} THEN IdleBid
                                     ELSE [bid[b] EXCEPT !.left = @ \ {j}]]
  BY DEF CheckDealStatus
<1> DEFINE row == [bid[b].found[j] EXCEPT !.status = "Completed"]
           s == IF bid[b].left = {j} THEN IdleBid ELSE [bid[b] EXCEPT !.left = @ \ {j}]
<1>2. j \in DOMAIN jobs /\ row \in Job
  BY FoundRow DEF CheckDealStatus
<1>3. Tables' /\ Grows /\ Len(jobs') = Len(jobs)
  <2>1. CASE jobs' = jobs
    BY <2>1, SameTables DEF CheckDealStatus, Typed, Tables
  <2>2. CASE jobs' = [jobs EXCEPT ![j] = row]
    <3>1. Tables' /\ Grows
      BY <1>2, <2>2, JobsChange DEF CheckDealStatus, Typed, Tables
    <3>2. QED
      BY <1>2, <2>2, <3>1, ExceptSeq DEF Typed, Tables
  <2>3. QED
    BY <1>1, <2>1, <2>2
<1>4. s \in BidStates /\ BidRefers(s, Len(jobs), Len(tasks))
  <2>1. CASE bid[b].left = {j}
    BY <2>1, IdleStates, Lengths DEF Typed
  <2>2. CASE bid[b].left # {j}
    <3>1. s = [bid[b] EXCEPT !.left = @ \ {j}]
      BY <2>2
    <3>2. /\ s \in BidStates /\ s.pc = bid[b].pc
          /\ s.left \subseteq bid[b].left /\ s.found = bid[b].found /\ s.job = bid[b].job
      BY <3>1, BidFacts DEF BidStates
    <3>3. QED
      BY <3>2, BidFacts DEF BidRefers
  <2>3. QED
    BY <2>1, <2>2
<1>5. QED
  BY <1>1, <1>3, <1>4, BidMoves DEF CheckDealStatus

LEMMA TypedCheckDealFails == ASSUME Typed, NEW b \in Bids, CheckDealFails(b) PROVE Typed'
<1>1. Tables' /\ Grows
  BY SameTables DEF CheckDealFails, Typed, Tables
<1>2. BidRefers(IdleBid, Len(jobs), Len(tasks))
  BY IdleStates, Lengths DEF Typed
<1>3. QED
  BY <1>1, <1>2, IdleStates, BidMoves DEF CheckDealFails

\* The web handlers.
LEMMA TypedRequests ==
  ASSUME Typed,
         \/ PsqlBackupVolumeAddPlan \/ PsqlBackupAddJob
         \/ \E r \in Requests : UpdatePlanFirst(r) \/ UpdatePlanSave(r)
  PROVE  Typed'
<1>1. CASE PsqlBackupVolumeAddPlan
  <2> DEFINE row == [status |-> "Enabled", createdOn |-> clock, lastBackupOn |-> 0]
  <2>1. row \in Plan
    <3>1. clock \in 1..MaxClock /\ 0 \in 0..MaxClock /\ "Enabled" \in PlanStatus
      BY Bounds DEF Typed, Tables, PlanStatus
    <3>2. QED
      BY <3>1 DEF Plan
  <2>2. Tables' /\ Grows
    BY <1>1, <2>1, PlansChange DEF PsqlBackupVolumeAddPlan, Typed, Tables
  <2>3. QED
    BY <1>1, <2>2, NoneMoves DEF PsqlBackupVolumeAddPlan
<1>2. CASE PsqlBackupAddJob
  <2>1. PICK p \in DOMAIN plans : jobs' = Append(jobs, [NoJob EXCEPT !.plan = p])
    BY <1>2 DEF PsqlBackupAddJob
  <2>2. [NoJob EXCEPT !.plan = p] \in Job
    BY Lengths, Bounds DEF Typed, Job
  <2>3. overlapped' \in BOOLEAN
    BY <1>2, StartsTyped DEF PsqlBackupAddJob, Typed
  <2>4. Tables' /\ Grows
    BY <1>2, <2>1, <2>2, <2>3, JobsChange DEF PsqlBackupAddJob
  <2>5. QED
    BY <1>2, <2>4, NoneMoves DEF PsqlBackupAddJob
<1>3. ASSUME NEW r \in Requests, UpdatePlanFirst(r) PROVE Typed'
  <2>1. PICK p \in DOMAIN plans, st \in PlanStatus :
          request' = [request EXCEPT ![r] =
                        [pc |-> "save", plan |-> p, status |-> st, row |-> plans[p]]]
    BY <1>3 DEF UpdatePlanFirst
  <2> DEFINE s == [pc |-> "save", plan |-> p, status |-> st, row |-> plans[p]]
  <2>2. p \in 1..Len(plans) /\ p \in PlanIds /\ plans[p] \in Plan
    BY Lengths DEF Typed, Tables
  <2>3. s \in RequestStates /\ RequestRefers(s, Len(plans))
    BY <2>2 DEF RequestStates, RequestRefers
  <2>4. overlapped' \in BOOLEAN
    BY <1>3, StartsTyped DEF UpdatePlanFirst, Typed
  <2>5. Tables' /\ Grows
    BY <1>3, <2>4, SameTables DEF UpdatePlanFirst
  <2>6. QED
    BY <1>3, <2>1, <2>3, <2>5, RequestMoves DEF UpdatePlanFirst
<1>4. ASSUME NEW r \in Requests, UpdatePlanSave(r) PROVE Typed'
  <2> DEFINE row == [request[r].row EXCEPT !.status = request[r].status]
  <2>1. /\ request[r] \in RequestStates /\ request[r].plan \in DOMAIN plans
    BY <1>4, Lengths DEF Typed, RequestsOK, RequestRefers, UpdatePlanSave
  <2>2. row \in Plan
    BY <2>1 DEF RequestStates, Plan
  <2>3. Tables' /\ Grows
    BY <1>4, <2>1, <2>2, PlansChange DEF UpdatePlanSave, Typed, Tables
  <2>4. RequestRefers(Served, Len(plans'))
    BY <2>3, IdleStates DEF Tables
  <2>5. QED
    BY <1>4, <2>3, <2>4, IdleStates, RequestMoves DEF UpdatePlanSave
<1>5. QED
  BY <1>1, <1>2, <1>3, <1>4

LEMMA TypedEnvironment ==
  ASSUME Typed, ClockTick \/ SwanAssigns \/ DealActivates \/ Crash
  PROVE  Typed'
<1>1. CASE ClockTick
  <2>1. Tables' /\ Grows
    BY <1>1, Bounds, Lengths DEF ClockTick, Typed, Tables, Grows
  <2>2. QED
    BY <1>1, <2>1, NoneMoves DEF ClockTick
<1>2. ASSUME NEW from, NEW to \in TaskState, from # "active",
             from = "sent" => to = "active", TaskMoves(from, to)
      PROVE  Typed'
  <2>1. Tables' /\ Grows
    BY <1>2, MovedTasks, TasksChange DEF TaskMoves, Typed, Tables
  <2>2. QED
    BY <1>2, <2>1, NoneMoves DEF TaskMoves
<1>3. CASE Crash
  <2>1. Tables' /\ Grows
    BY <1>3, Bounds, Lengths DEF Crash, Typed, Tables, Grows
  <2>2. TicksOK'
    BY <1>3, IdleStates, Lengths DEF Crash, TicksOK, Typed
  <2>3. BidsOK'
    BY <1>3, IdleStates, Lengths DEF Crash, BidsOK, Typed
  <2>4. RequestsOK'
    BY <1>3, IdleStates, Lengths DEF Crash, RequestsOK, Typed
  <2>5. QED
    BY <2>1, <2>2, <2>3, <2>4 DEF Typed
<1>4. QED
  BY <1>1, <1>2, <1>3 DEF SwanAssigns, DealActivates, TaskState

LEMMA TypedStep == Typed /\ [Next]_vars => Typed'
<1> SUFFICES ASSUME Typed, [Next]_vars PROVE Typed'
  OBVIOUS
<1>1. ASSUME NEW t \in Ticks, TickStep(t) PROVE Typed'
  BY <1>1, TypedScanPlans, TypedReadPlan, TypedSavePlan, TypedCreateJob, TypedLastJob,
     TypedCreateTask, TypedBackupFails, TypedSaveBackupTask DEF TickStep
<1>2. ASSUME NEW b \in Bids, BidStep(b) PROVE Typed'
  BY <1>2, TypedSendAutoBidDeals, TypedFindSentJob, TypedSaveSentJob, TypedFindJobs,
     TypedCheckDealStatus, TypedCheckDealFails DEF BidStep
<1>3. CASE UNCHANGED vars
  <2>1. Tables' /\ Grows
    BY <1>3, SameTables DEF vars, Typed, Tables
  <2>2. QED
    BY <1>3, <2>1, NoneMoves DEF vars
<1>4. QED
  BY <1>1, <1>2, <1>3, TypedRequests, TypedEnvironment DEF Next

\* Tables hold rows of their types, and every goroutine refers to rows that
\* exist, however their steps and a crash fall.
THEOREM BackupTypes == Spec => []TypeOK
<1>1. Typed => TypeOK
  BY DEF Typed, Tables, TicksOK, BidsOK, RequestsOK, TypeOK, TickStates, BidStates, RequestStates
<1>2. QED
  BY TypedInit, TypedStep, <1>1, PTL DEF Spec

----------------------------------------------------------------------------
(* Where rows come from.                                                   *)

\* Tasks are only added and advance; the deal of one that is active stays so.
LEMMA TasksAdvance ==
  ASSUME Typed, [Next]_vars
  PROVE  /\ Len(tasks) <= Len(tasks')
         /\ \A u \in DOMAIN tasks : Later(tasks[u], tasks'[u])
<1>1. CASE UNCHANGED tasks
  BY <1>1, Lengths DEF Typed, Later
<1>2. ASSUME NEW t \in Ticks, CreateTask(t)
      PROVE  /\ Len(tasks') = Len(tasks) + 1
             /\ \A u \in DOMAIN tasks : tasks'[u] = tasks[u]
  <2>1. PICK b \in tick[t].backups : tasks' = Append(tasks, [plan |-> b.plan, state |-> "open"])
    BY <1>2 DEF CreateTask
  <2>2. [plan |-> b.plan, state |-> "open"] \in Task
    BY TickFacts DEF TickStates, Task, TaskState
  <2>3. QED
    BY <2>1, <2>2, AppendProperties, Lengths DEF Typed, Tables
<1>3. CASE Moved(tasks')
  BY <1>3, Lengths DEF Moved, Typed
<1>4. \/ UNCHANGED tasks \/ Moved(tasks')
      \/ \E t \in Ticks : CreateTask(t)
  <2>1. ASSUME NEW b \in Bids, SendAutoBidDeals(b) PROVE Moved(tasks')
    BY <2>1, SentTasks
  <2>2. ASSUME SwanAssigns \/ DealActivates PROVE Moved(tasks')
    BY <2>2, MovedTasks DEF SwanAssigns, DealActivates, TaskState
  <2>3. QED
    BY <2>1, <2>2 DEF Next, vars, TickStep, BidStep, ScanPlans, ReadPlan, SavePlan, CreateJob,
       LastJob, BackupFails, SaveBackupTask, FindSentJob, SaveSentJob, FindJobs,
       CheckDealStatus, CheckDealFails, UpdatePlanFirst, UpdatePlanSave,
       PsqlBackupVolumeAddPlan, PsqlBackupAddJob, ClockTick, Crash
<1>5. QED
  BY <1>1, <1>2, <1>3, <1>4, Lengths DEF Typed, Later

LEMMA RowKept ==
  ASSUME Typed, [Next]_vars, NEW r \in Job, RowOK(r, tasks)
  PROVE  RowOK(r, tasks')
<1>1. /\ r.uuid \in Nat /\ r.dealCid \in Nat
      /\ Len(tasks) \in Nat /\ DOMAIN tasks = 1..Len(tasks)
  BY Bounds, Lengths DEF Typed, Job
<1>2. Len(tasks') \in Nat
  BY TypedStep, Lengths DEF Typed, Tables
<1>3. r.dealCid # 0 => r.dealCid \in DOMAIN tasks
  BY <1>1 DEF RowOK
<1>4. QED
  BY <1>1, <1>2, <1>3, TasksAdvance DEF RowOK, Later

NewRow(r) == r.status = "Created" /\ r.uuid = 0 /\ r.dealCid = 0
TaskRow(r, t) == /\ r.status = "Running" /\ r.uuid = tick[t].uuid /\ r.dealCid = 0
                 /\ r.plan = jobs[tick[t].job].plan
FoundActive(b, j) == /\ bid[b].pc = "check" /\ j \in bid[b].left
                     /\ tasks[bid[b].found[j].dealCid].state = "active"

\* A row of the table of jobs stays, or is new, or is written by a goroutine
\* that has kept it.
LEMMA JobsCome ==
  ASSUME Typed, [Next]_vars, NEW j \in DOMAIN jobs'
  PROVE  \/ j \in DOMAIN jobs /\ jobs'[j] = jobs[j]
         \/ j \notin DOMAIN jobs /\ NewRow(jobs'[j])
         \/ \E t \in Ticks : /\ SaveBackupTask(t) /\ tick[t].pc = "task" /\ tick[t].job = j
                             /\ TaskRow(jobs'[j], t)
         \/ \E b \in Bids : /\ SaveSentJob(b) /\ bid[b].pc = "save" /\ bid[b].job = j
                            /\ jobs'[j] = bid[b].row
         \/ \E b \in Bids : /\ CheckDealStatus(b) /\ FoundActive(b, j)
                            /\ jobs'[j] = [bid[b].found[j] EXCEPT !.status = "Completed"]
<1>0. /\ jobs \in Seq(Job) /\ Len(jobs) \in Nat /\ DOMAIN jobs = 1..Len(jobs)
  BY Lengths DEF Typed, Tables
<1>1. ASSUME NEW p \in PlanIds, jobs' = Append(jobs, [NoJob EXCEPT !.plan = p])
      PROVE  IF j \in DOMAIN jobs THEN jobs'[j] = jobs[j] ELSE NewRow(jobs'[j])
  <2> DEFINE row == [NoJob EXCEPT !.plan = p]
  <2>1. row \in Job /\ NewRow(row)
    BY Bounds DEF Job, NoJob, NewRow
  <2> HIDE DEF row
  <2>2. /\ jobs' \in Seq(Job) /\ Len(jobs') = Len(jobs) + 1
        /\ \A i \in 1..Len(jobs) : jobs'[i] = jobs[i]
        /\ jobs'[Len(jobs) + 1] = row
    BY <1>1, <1>0, <2>1, AppendProperties DEF row
  <2>3. j \in 1..Len(jobs) \/ j = Len(jobs) + 1
    BY <1>0, <2>2
  <2>4. QED
    BY <1>0, <2>1, <2>2, <2>3
\* One row has been replaced.
<1>2. ASSUME NEW k \in DOMAIN jobs, NEW row \in Job, jobs' = [jobs EXCEPT ![k] = row]
      PROVE  j \in DOMAIN jobs /\ jobs'[j] = IF j = k THEN row ELSE jobs[j]
  BY <1>0, <1>2
<1>3. ASSUME NEW t \in Ticks, CreateJob(t)
      PROVE  IF j \in DOMAIN jobs THEN jobs'[j] = jobs[j] ELSE NewRow(jobs'[j])
  <2>1. PICK p \in tick[t].left : jobs' = Append(jobs, [NoJob EXCEPT !.plan = p])
    BY <1>3 DEF CreateJob
  <2>2. p \in PlanIds
    BY TickFacts DEF TickStates
  <2>3. QED
    BY <1>1, <2>1, <2>2
<1>4. ASSUME PsqlBackupAddJob
      PROVE  IF j \in DOMAIN jobs THEN jobs'[j] = jobs[j] ELSE NewRow(jobs'[j])
  <2>1. PICK p \in DOMAIN plans : jobs' = Append(jobs, [NoJob EXCEPT !.plan = p])
    BY <1>4 DEF PsqlBackupAddJob
  <2>2. p \in PlanIds
    BY Lengths DEF Typed
  <2>3. QED
    BY <1>1, <2>1, <2>2
<1>5. ASSUME NEW t \in Ticks, SaveBackupTask(t)
      PROVE  \/ j \in DOMAIN jobs /\ jobs'[j] = jobs[j]
             \/ tick[t].pc = "task" /\ tick[t].job = j /\ TaskRow(jobs'[j], t)
  <2> DEFINE k == tick[t].job
             row == [jobs[k] EXCEPT !.status = "Running", !.uuid = tick[t].uuid, !.dealCid = 0]
  <2>1. k \in DOMAIN jobs /\ tick[t].uuid \in 0..MaxTasks /\ tick[t].pc = "task"
    BY <1>5, TickFacts, Lengths DEF SaveBackupTask, TickRefers, TickStates, Typed
  <2>2. jobs[k] \in Job /\ 0 \in 0..MaxTasks /\ "Running" \in JobStatus
    BY <1>0, <2>1, Bounds DEF JobStatus
  <2>3. row \in Job /\ TaskRow(row, t)
    BY <2>1, <2>2 DEF Job, TaskRow
  <2>4. jobs' = [jobs EXCEPT ![k] = row]
    BY <1>5 DEF SaveBackupTask
  <2> HIDE DEF row
  <2>5. QED
    BY <1>2, <2>1, <2>3, <2>4
<1>6. ASSUME NEW b \in Bids, SaveSentJob(b)
      PROVE  \/ j \in DOMAIN jobs /\ jobs'[j] = jobs[j]
             \/ bid[b].pc = "save" /\ bid[b].job = j /\ jobs'[j] = bid[b].row
  <2>1. /\ bid[b].pc = "save" /\ bid[b].job \in DOMAIN jobs /\ bid[b].row \in Job
        /\ jobs' = [jobs EXCEPT ![bid[b].job] = bid[b].row]
    BY <1>6, BidFacts, Lengths DEF SaveSentJob, BidRefers, BidStates, Typed
  <2>2. QED
    BY <1>2, <2>1
<1>7. ASSUME NEW b \in Bids, CheckDealStatus(b)
      PROVE  \/ j \in DOMAIN jobs /\ jobs'[j] = jobs[j]
             \/ FoundActive(b, j) /\ jobs'[j] = [bid[b].found[j] EXCEPT !.status = "Completed"]
  <2>1. PICK k \in bid[b].left :
          jobs' = IF tasks[bid[b].found[k].dealCid].state = "active"
                  THEN [jobs EXCEPT ![k] = [bid[b].found[k] EXCEPT !.status = "Completed"]]
                  ELSE jobs
    BY <1>7 DEF CheckDealStatus
  <2> DEFINE row == [bid[b].found[k] EXCEPT !.status = "Completed"]
  <2>2. bid[b].pc = "check" /\ k \in DOMAIN jobs /\ row \in Job
    BY <1>7, FoundRow DEF CheckDealStatus
  <2>3. CASE tasks[bid[b].found[k].dealCid].state = "active"
    <3>1. j \in DOMAIN jobs /\ jobs'[j] = IF j = k THEN row ELSE jobs[j]
      BY <1>2, <2>1, <2>2, <2>3
    <3>2. QED
      BY <2>2, <2>3, <3>1 DEF FoundActive
  <2>4. CASE tasks[bid[b].found[k].dealCid].state # "active"
    BY <2>1, <2>4
  <2>5. QED
    BY <2>3, <2>4
<1>8. CASE UNCHANGED jobs
  BY <1>8
<1>9. \/ UNCHANGED jobs \/ PsqlBackupAddJob
      \/ \E t \in Ticks : CreateJob(t) \/ SaveBackupTask(t)
      \/ \E b \in Bids : SaveSentJob(b) \/ CheckDealStatus(b)
  BY DEF Next, vars, TickStep, BidStep, ScanPlans, ReadPlan, SavePlan, LastJob, CreateTask,
     BackupFails, SendAutoBidDeals, FindSentJob, FindJobs, CheckDealFails, UpdatePlanFirst,
     UpdatePlanSave, PsqlBackupVolumeAddPlan, ClockTick, SwanAssigns, DealActivates,
     TaskMoves, Crash
<1>10. QED
  BY <1>3, <1>4, <1>5, <1>6, <1>7, <1>8, <1>9

\* A tick gets its task when it creates it, and no other moves then.
NewTask(t) == /\ tick'[t].uuid = Len(tasks) + 1
              /\ \A k \in Ticks \ {t} : tick'[k] = tick[k]
LEMMA TicksCome ==
  ASSUME Typed, [Next]_vars, NEW t \in Ticks, tick'[t].pc = "task"
  PROVE  tick'[t] = tick[t] \/ NewTask(t)
<1>1. ASSUME NEW k \in Ticks, NEW s, tick' = [tick EXCEPT ![k] = s], s.pc # "task"
      PROVE  tick'[t] = tick[t]
  BY <1>1, TickFacts
<1>2. ASSUME NEW k \in Ticks, TickStep(k), ~CreateTask(k) PROVE tick'[t] = tick[t]
  <2>0. tick \in [Ticks -> TickStates] /\ tick[k] \in TickStates
    BY TickFacts
  <2>1. ASSUME SavePlan(k) PROVE tick'[t] = tick[t]
    <3> DEFINE then == [IdleTick EXCEPT !.pc = "add", !.due = tick[k].due, !.left = tick[k].due]
    <3>1. then \in TickStates /\ then.pc = "add"
      BY <2>0, IdleStates DEF TickStates
    <3>2. Advance(tick[k], "touch", then).pc # "task"
      BY <2>1, <2>0, <3>1, TickFacts, AdvanceTyped, Lengths DEF SavePlan, Typed
    <3>3. QED
      BY <1>1, <2>1, <3>2 DEF SavePlan
  <2>2. ASSUME LastJob(k) PROVE tick'[t] = tick[t]
    <3> DEFINE then == [IdleTick EXCEPT !.pc = "backup"]
               next == Advance(tick[k], "add", then)
               backup == [job |-> Len(jobs), plan |-> tick[k].plan]
               s == [next EXCEPT !.backups = @ \cup {backup}]
    <3>1. then \in TickStates /\ then.pc = "backup"
      BY IdleStates DEF TickStates
    <3>2. next \in TickStates /\ next.pc # "task"
      BY <2>0, <3>1, TickFacts, AdvanceTyped, Lengths DEF Typed
    <3>3. tick' = [tick EXCEPT ![k] = s]
      BY <2>2 DEF LastJob
    <3> HIDE DEF next, backup
    <3>4. s.pc # "task"
      BY <3>2 DEF TickStates
    <3>5. QED
      BY <1>1, <3>3, <3>4
  <2>3. ASSUME ScanPlans(k) \/ ReadPlan(k) \/ CreateJob(k) PROVE tick'[t] = tick[t]
    BY <2>3, <2>0 DEF ScanPlans, ReadPlan, CreateJob, TickStates
  <2>4. ASSUME BackupFails(k) PROVE tick'[t] = tick[t]
    BY <1>1, <2>4 DEF BackupFails, IdleTick
  <2>5. ASSUME SaveBackupTask(k) PROVE tick'[t] = tick[t]
    BY <2>5, <2>0 DEF SaveBackupTask, IdleTick, TickStates
  <2>6. QED
    BY <1>2, <2>1, <2>2, <2>3, <2>4, <2>5 DEF TickStep
<1>3. ASSUME NEW k \in Ticks, CreateTask(k)
      PROVE  tick'[t] = tick[t] \/ NewTask(t)
  BY <1>3, TickFacts DEF CreateTask, TickStates, NewTask
<1>4. CASE Crash
  BY <1>4 DEF Crash, IdleTick
<1>5. CASE UNCHANGED tick
  BY <1>5
<1>6. (\E k \in Ticks : TickStep(k)) \/ Crash \/ UNCHANGED tick
  BY DEF Next, vars, BidStep, SendAutoBidDeals, FindSentJob, SaveSentJob, FindJobs,
     CheckDealStatus, CheckDealFails, UpdatePlanFirst, UpdatePlanSave,
     PsqlBackupVolumeAddPlan, PsqlBackupAddJob, ClockTick, SwanAssigns, DealActivates, TaskMoves
<1>7. QED
  BY <1>2, <1>3, <1>4, <1>5, <1>6

\* The row a bid will save is one of the table that it has found.
SentRowOf(b, u, j) ==
    /\ u \in 1..Len(tasks) /\ j \in WithUuid(u) /\ bid'[b].job = j
    /\ bid'[b].row = [jobs[j] EXCEPT !.status = "Running", !.dealCid = u]

LEMMA BidsCome ==
  ASSUME Typed, [Next]_vars, NEW b \in Bids
  PROVE  /\ bid'[b].pc = "save" =>
              \/ bid[b].pc = "save" /\ bid'[b].job = bid[b].job /\ bid'[b].row = bid[b].row
              \/ \E u \in Uuids, j \in JobIds : SentRowOf(b, u, j)
         /\ bid'[b].found \in {bid[b].found, jobs, <<>>}
<1>0. bid \in [Bids -> BidStates] /\ \A k \in Bids : bid[k] \in BidStates
  BY BidFacts
<1>1. ASSUME NEW k \in Bids, k # b, BidStep(k) PROVE bid'[b] = bid[b]
  BY <1>1, <1>0 DEF BidStep, SendAutoBidDeals, FindSentJob, SaveSentJob, FindJobs,
     CheckDealStatus, CheckDealFails
<1>2. ASSUME BidStep(b)
      PROVE  /\ bid'[b].pc = "save" => \E u \in Uuids, j \in JobIds : SentRowOf(b, u, j)
             /\ bid'[b].found \in {bid[b].found, jobs, <<>>}
  <2>1. CASE SendAutoBidDeals(b)
    BY <2>1, <1>0 DEF SendAutoBidDeals, BidStates
  <2>2. CASE FindSentJob(b)
    <3>1. bid[b].pc = "record" /\ bid[b].left \subseteq 1..Len(tasks) /\ bid[b].left \subseteq Uuids
      BY <2>2, BidFacts, Lengths DEF FindSentJob, BidRefers, Typed
    <3>2. ASSUME NEW u \in bid[b].left, bid' = [bid EXCEPT ![b].left = @ \ {u}]
          PROVE  bid'[b].pc # "save" /\ bid'[b].found = bid[b].found
      BY <1>0, <3>1, <3>2 DEF BidStates
    <3>3. ASSUME NEW u \in bid[b].left, NEW j \in WithUuid(u),
                 bid' = [bid EXCEPT ![b].pc = "save", ![b].left = @ \ {u}, ![b].job = j,
                           ![b].row = [jobs[j] EXCEPT !.status = "Running", !.dealCid = u]]
          PROVE  j \in JobIds /\ SentRowOf(b, u, j) /\ bid'[b].found = bid[b].found
      <4>1. j \in JobIds
        BY <3>1, SentRow
      <4>2. QED
        BY <1>0, <3>1, <3>3, <4>1 DEF BidStates, SentRowOf
    <3>4. QED
      BY <2>2, <3>1, <3>2, <3>3 DEF FindSentJob
  <2>3. CASE SaveSentJob(b)
    BY <2>3, <1>0 DEF SaveSentJob, BidStates
  <2>4. CASE FindJobs(b)
    BY <2>4, <1>0 DEF FindJobs, IdleBid, BidStates
  <2>5. CASE CheckDealStatus(b)
    BY <2>5, <1>0 DEF CheckDealStatus, IdleBid, BidStates
  <2>6. CASE CheckDealFails(b)
    BY <2>6, <1>0 DEF CheckDealFails, IdleBid
  <2>7. QED
    BY <1>2, <2>1, <2>2, <2>3, <2>4, <2>5, <2>6 DEF BidStep
<1>3. CASE Crash
  BY <1>3 DEF Crash, IdleBid
<1>4. CASE UNCHANGED bid
  BY <1>4
<1>5. (\E k \in Bids : BidStep(k)) \/ Crash \/ UNCHANGED bid
  BY DEF Next, vars, TickStep, ScanPlans, ReadPlan, SavePlan, CreateJob, LastJob, CreateTask,
     BackupFails, SaveBackupTask, UpdatePlanFirst, UpdatePlanSave, PsqlBackupVolumeAddPlan,
     PsqlBackupAddJob, ClockTick, SwanAssigns, DealActivates, TaskMoves
<1>6. QED
  BY <1>1, <1>2, <1>3, <1>4, <1>5

----------------------------------------------------------------------------
(* Deals and tasks of jobs.                                                *)

LEMMA RowTypes ==
  ASSUME Typed
  PROVE  /\ \A j \in DOMAIN jobs : jobs[j] \in Job
         /\ \A b \in Bids : /\ bid[b].row \in Job
                            /\ \A j \in DOMAIN bid[b].found : bid[b].found[j] \in Job
<1>1. \A j \in DOMAIN jobs : jobs[j] \in Job
  BY DEF Typed, Tables
<1>2. ASSUME NEW b \in Bids
      PROVE  bid[b].row \in Job /\ \A j \in DOMAIN bid[b].found : bid[b].found[j] \in Job
  <2>1. bid[b].row \in Job /\ bid[b].found \in Seq(Job)
    BY BidFacts DEF BidStates
  <2>2. QED
    BY <2>1
<1>3. QED
  BY <1>1, <1>2

LEMMA RowsInit == Init => RowsOK
<1> SUFFICES ASSUME Init PROVE RowsOK
  OBVIOUS
<1>1. DOMAIN jobs = {}
  BY DEF Init
<1>2. \A b \in Bids : bid[b].pc = "idle" /\ DOMAIN bid[b].found = {}
  BY DEF Init, IdleBid
<1>3. QED
  BY <1>1, <1>2 DEF RowsOK

LEMMA RowsStep == Typed /\ RowsOK /\ [Next]_vars => RowsOK'
<1> SUFFICES ASSUME Typed, RowsOK, [Next]_vars PROVE RowsOK'
  OBVIOUS
<1>0. Len(tasks) \in Nat /\ Len(tasks') \in Nat /\ Len(tasks) <= Len(tasks')
  BY TypedStep, TasksAdvance, Lengths DEF Typed, Tables
<1>1. ASSUME NEW j \in DOMAIN jobs' PROVE RowOK(jobs'[j], tasks')
  <2>1. CASE j \in DOMAIN jobs /\ jobs'[j] = jobs[j]
    BY <2>1, RowTypes, RowKept DEF RowsOK
  <2>2. CASE NewRow(jobs'[j])
    BY <2>2, <1>0 DEF NewRow, RowOK
  <2>3. ASSUME NEW t \in Ticks, tick[t].pc = "task", TaskRow(jobs'[j], t)
        PROVE  RowOK(jobs'[j], tasks')
    BY <2>3, <1>0, TickFacts DEF TaskRow, RowOK, TickRefers
  <2>4. ASSUME NEW b \in Bids, bid[b].pc = "save", jobs'[j] = bid[b].row
        PROVE  RowOK(jobs'[j], tasks')
    BY <2>4, RowTypes, RowKept DEF RowsOK
  <2>5. ASSUME NEW b \in Bids, FoundActive(b, j),
               jobs'[j] = [bid[b].found[j] EXCEPT !.status = "Completed"]
        PROVE  RowOK(jobs'[j], tasks')
    <3> DEFINE found == bid[b].found[j]
               row == [found EXCEPT !.status = "Completed"]
    <3>1. /\ found.dealCid # 0 /\ j \in DOMAIN bid[b].found
          /\ row \in Job /\ row.uuid = found.uuid /\ row.dealCid = found.dealCid
      BY <2>5, FoundRow DEF FoundActive
    <3>2. RowOK(found, tasks) /\ tasks[found.dealCid].state = "active"
      BY <2>5, <3>1 DEF RowsOK, FoundActive
    <3> HIDE DEF row
    <3>3. RowOK(row, tasks)
      BY <3>1, <3>2 DEF RowOK
    <3>4. QED
      BY <2>5, <3>1, <3>3, RowKept DEF row
  <2>6. QED
    BY <2>1, <2>2, <2>3, <2>4, <2>5, JobsCome
<1>2. ASSUME NEW b \in Bids, bid'[b].pc = "save" PROVE RowOK(bid'[b].row, tasks')
  <2>1. CASE bid[b].pc = "save" /\ bid'[b].row = bid[b].row
    BY <2>1, RowTypes, RowKept DEF RowsOK
  <2>2. ASSUME NEW u \in Uuids, NEW j \in JobIds, SentRowOf(b, u, j)
        PROVE  RowOK(bid'[b].row, tasks')
    <3> DEFINE row == [jobs[j] EXCEPT !.status = "Running", !.dealCid = u]
    <3>0. j \in WithUuid(u) /\ bid'[b].row = row
      BY <2>2 DEF SentRowOf
    <3>5. row \in Job /\ row.status = "Running" /\ row.uuid = u /\ row.dealCid = u
      BY <3>0, SentRow
    <3>1. /\ bid'[b].row \in Job /\ bid'[b].row.status = "Running"
          /\ bid'[b].row.uuid = u /\ bid'[b].row.dealCid = u
      BY <3>0, <3>5
    <3>2. RowOK(bid'[b].row, tasks)
      BY <2>2, <3>1, <1>0 DEF SentRowOf, RowOK
    <3>3. QED
      BY <3>1, <3>2, RowKept
  <2>3. QED
    BY <1>2, <2>1, <2>2, BidsCome
<1>3. ASSUME NEW b \in Bids, NEW j \in DOMAIN bid'[b].found
      PROVE  RowOK(bid'[b].found[j], tasks')
  <2>1. CASE bid'[b].found = bid[b].found
    BY <2>1, RowTypes, RowKept DEF RowsOK
  <2>2. CASE bid'[b].found = jobs
    BY <2>2, RowTypes, RowKept DEF RowsOK
  <2>3. CASE bid'[b].found = <<>>
    BY <2>3
  <2>4. QED
    BY <2>1, <2>2, <2>3, BidsCome
<1>4. QED
  BY <1>1, <1>2, <1>3 DEF RowsOK

\* A job is Completed only with the deal of its own task, and that deal is
\* active, although autobid ticks write back rows that have changed since.
THEOREM CompletedHaveDeals == Spec => []CompletedIsActive
<1>1. RowsOK => CompletedIsActive
  BY DEF RowsOK, RowOK, CompletedIsActive
<1>2. QED
  BY TypedInit, TypedStep, RowsInit, RowsStep, <1>1, PTL DEF Spec

LEMMA HasKnown ==
  ASSUME Typed, RowsOK, NEW j \in JobIds, NEW u \in Uuids, Has(j, u)
  PROVE  u <= Len(tasks)
<1>1. u \in Nat /\ Len(tasks) \in Nat
  BY Lengths DEF Uuids, Typed
<1>2. ASSUME NEW t \in Ticks, tick[t].pc = "task", tick[t].uuid = u PROVE u <= Len(tasks)
  BY <1>1, <1>2, TickFacts DEF TickRefers
<1>3. QED
  BY <1>1, <1>2 DEF Has, RowsOK, RowOK

\* Who has the task u for the job j has got it from who had, or created it.
LEMMA HasComes ==
  ASSUME Typed, [Next]_vars, NEW j \in JobIds, NEW u \in Uuids, Has(j, u)'
  PROVE  \/ Has(j, u)
         \/ \E t \in Ticks : /\ NewTask(t) /\ u = Len(tasks) + 1
                             /\ tick'[t].pc = "task" /\ tick'[t].job = j
<1>0. u # 0
  BY DEF Uuids
<1>1. ASSUME j \in DOMAIN jobs', jobs'[j].uuid = u PROVE Has(j, u)
  <2>1. CASE j \in DOMAIN jobs /\ jobs'[j] = jobs[j]
    BY <1>1, <2>1 DEF Has
  <2>2. CASE NewRow(jobs'[j])
    BY <1>0, <1>1, <2>2 DEF NewRow
  <2>3. ASSUME NEW t \in Ticks, tick[t].pc = "task", tick[t].job = j, TaskRow(jobs'[j], t)
        PROVE  Has(j, u)
    BY <1>1, <2>3 DEF TaskRow, Has
  <2>4. ASSUME NEW b \in Bids, bid[b].pc = "save", bid[b].job = j, jobs'[j] = bid[b].row
        PROVE  Has(j, u)
    BY <1>1, <2>4 DEF Has
  <2>5. ASSUME NEW b \in Bids, FoundActive(b, j),
               jobs'[j] = [bid[b].found[j] EXCEPT !.status = "Completed"]
        PROVE  Has(j, u)
    <3>1. j \in DOMAIN bid[b].found /\ jobs'[j].uuid = bid[b].found[j].uuid
      BY <2>5, FoundRow DEF FoundActive
    <3>2. QED
      BY <1>1, <3>1 DEF Has
  <2>6. QED
    BY <1>1, <2>1, <2>2, <2>3, <2>4, <2>5, JobsCome
<1>2. ASSUME NEW t \in Ticks, tick'[t].pc = "task", tick'[t].job = j, tick'[t].uuid = u
      PROVE  Has(j, u) \/ (NewTask(t) /\ u = Len(tasks) + 1)
  BY <1>2, TicksCome DEF Has, NewTask
<1>3. ASSUME NEW b \in Bids, bid'[b].pc = "save", bid'[b].job = j, bid'[b].row.uuid = u
      PROVE  Has(j, u)
  <2>1. CASE bid[b].pc = "save" /\ bid'[b].job = bid[b].job /\ bid'[b].row = bid[b].row
    BY <1>3, <2>1 DEF Has
  <2>2. ASSUME NEW v \in Uuids, NEW i \in JobIds, SentRowOf(b, v, i) PROVE Has(j, u)
    <3> DEFINE row == [jobs[i] EXCEPT !.status = "Running", !.dealCid = v]
    <3>1. i \in WithUuid(v) /\ i = j /\ bid'[b].row = row
      BY <1>3, <2>2 DEF SentRowOf
    <3>2. i \in DOMAIN jobs /\ jobs[i].uuid = v /\ row.uuid = v
      BY <3>1, SentRow
    <3>3. QED
      BY <1>3, <3>1, <3>2 DEF Has
  <2>3. QED
    BY <1>3, <2>1, <2>2, BidsCome
<1>4. ASSUME NEW b \in Bids, j \in DOMAIN bid'[b].found, bid'[b].found[j].uuid = u
      PROVE  Has(j, u)
  <2>1. CASE bid'[b].found = bid[b].found
    BY <1>4, <2>1 DEF Has
  <2>2. CASE bid'[b].found = jobs
    BY <1>4, <2>2 DEF Has
  <2>3. CASE bid'[b].found = <<>>
    BY <1>4, <2>3
  <2>4. QED
    BY <2>1, <2>2, <2>3, BidsCome
<1>5. QED
  BY <1>1, <1>2, <1>3, <1>4 DEF Has

LEMMA OneJobInit == Init => OneJob
<1> SUFFICES ASSUME Init PROVE OneJob
  OBVIOUS
<1>1. DOMAIN jobs = {}
  BY DEF Init
<1>2. \A t \in Ticks : tick[t].pc = "idle"
  BY DEF Init, IdleTick
<1>3. \A b \in Bids : bid[b].pc = "idle" /\ DOMAIN bid[b].found = {}
  BY DEF Init, IdleBid
<1>4. \A j \in JobIds, u \in Uuids : ~Has(j, u)
  BY <1>1, <1>2, <1>3 DEF Has
<1>5. QED
  BY <1>4 DEF OneJob

LEMMA OneJobStep == Typed /\ RowsOK /\ OneJob /\ [Next]_vars => OneJob'
<1> SUFFICES ASSUME Typed, RowsOK, OneJob, [Next]_vars,
                    NEW u \in Uuids, NEW i \in JobIds, NEW j \in JobIds, Has(i, u)', Has(j, u)'
             PROVE  i = j
  BY DEF OneJob
<1>1. Len(tasks) \in Nat
  BY Lengths DEF Typed
<1>2. CASE Has(i, u) /\ Has(j, u)
  BY <1>2 DEF OneJob
<1>3. CASE u = Len(tasks) + 1
  <2>1. ~Has(i, u) /\ ~Has(j, u)
    BY <1>1, <1>3, HasKnown
  <2>2. PICK t \in Ticks : NewTask(t) /\ tick'[t].pc = "task" /\ tick'[t].job = i
    BY <2>1, HasComes
  <2>3. PICK k \in Ticks : NewTask(k) /\ tick'[k].pc = "task" /\ tick'[k].job = j
    BY <2>1, HasComes
  <2>4. CASE t = k
    BY <2>2, <2>3, <2>4
  <2>5. CASE t # k
    <3>1. tick'[k] = tick[k] /\ tick[k].pc = "task" /\ tick[k].uuid = Len(tasks) + 1
      BY <2>2, <2>3, <2>5 DEF NewTask
    <3>2. QED
      BY <1>1, <3>1, TickFacts DEF TickRefers
  <2>6. QED
    BY <2>4, <2>5
<1>4. QED
  BY <1>2, <1>3, HasComes

\* A task belongs to one job: ticks that take the same job for theirs, since
\* it is the one with the highest id, still save a task each, and rows that
\* are written back late name the task of their own job.
THEOREM TasksHaveOneJob == Spec => []UniqueUuid
<1>1. Typed /\ OneJob => UniqueUuid
  <2> SUFFICES ASSUME Typed, OneJob, NEW i \in DOMAIN jobs, NEW j \in DOMAIN jobs,
                      jobs[i].uuid = jobs[j].uuid, jobs[i].uuid # 0
               PROVE  i = j
    BY DEF UniqueUuid
  <2>1. i \in JobIds /\ j \in JobIds /\ jobs[i].uuid \in Uuids
    BY RowTypes, Lengths, Bounds DEF Typed, Job, Uuids
  <2>2. Has(i, jobs[i].uuid) /\ Has(j, jobs[i].uuid)
    BY DEF Has
  <2>3. QED
    BY <2>1, <2>2 DEF OneJob
<1>2. QED
  BY TypedInit, TypedStep, RowsInit, RowsStep, OneJobInit, OneJobStep, <1>1, PTL DEF Spec

(***************************************************************************)
(* What holds as long as no two goroutines overlap, for any number of      *)
(* them, any interval and any bounds: db.Last finds the job that the tick  *)
(* has just created, so a job gets the task of its own plan.               *)
(***************************************************************************)

----------------------------------------------------------------------------
(* The inductive invariant.                                                *)

\* Copies of a row have its plan: no step changes the plan of a job.
CopiesPlan ==
    \A b \in Bids :
       /\ bid[b].pc = "save" => bid[b].row.plan = jobs[bid[b].job].plan
       /\ \A j \in DOMAIN bid[b].found : bid[b].found[j].plan = jobs[j].plan

Alone ==
    ~overlapped =>
       /\ \A s, t \in Ticks : tick[s].pc # "idle" /\ tick[t].pc # "idle" => s = t
       /\ \A a, b \in Bids : bid[a].pc # "idle" /\ bid[b].pc # "idle" => a = b
       /\ \A t \in Ticks, b \in Bids : tick[t].pc = "idle" \/ bid[b].pc = "idle"
       /\ \A r \in Requests :
            request[r].pc = "save" => /\ \A t \in Ticks : tick[t].pc = "idle"
                                      /\ \A b \in Bids : bid[b].pc = "idle"

\* The job with the highest id is the one the tick has created.
OwnJobs ==
    ~overlapped =>
       \A t \in Ticks : /\ tick[t].pc = "last" => jobs[Len(jobs)].plan = tick[t].plan
                        /\ \A k \in tick[t].backups : jobs[k.job].plan = k.plan

Matches ==
    ~overlapped =>
       \A j \in JobIds, u \in Uuids : Has(j, u) => tasks[u].plan = jobs[j].plan

----------------------------------------------------------------------------
(* Nothing else runs when a goroutine starts.                              *)

LEMMA OverlapStays == ASSUME [Next]_vars, ~overlapped' PROVE ~overlapped
<1>1. ASSUME Starts PROVE ~overlapped
  BY <1>1, Zenon DEF Starts
<1>2. CASE UNCHANGED overlapped
  BY <1>2, Zenon
<1>3. Starts \/ UNCHANGED overlapped
  BY DEF Next, vars, TickStep, BidStep, ScanPlans, ReadPlan, SavePlan, CreateJob, LastJob,
     CreateTask, BackupFails, SaveBackupTask, SendAutoBidDeals, FindSentJob, SaveSentJob,
     FindJobs, CheckDealStatus, CheckDealFails, UpdatePlanFirst, UpdatePlanSave,
     PsqlBackupVolumeAddPlan, PsqlBackupAddJob, ClockTick, SwanAssigns, DealActivates,
     TaskMoves, Crash
<1>4. QED
  BY <1>1, <1>2, <1>3

LEMMA NoneActive ==
  ASSUME Starts, ~overlapped'
  PROVE  /\ \A t \in Ticks : tick[t].pc = "idle"
         /\ \A b \in Bids : bid[b].pc = "idle"
         /\ \A r \in Requests : request[r].pc # "save"
<1> DEFINE T == {t \in Ticks : tick[t].pc # "idle"}
           B == {b \in Bids : bid[b].pc # "idle"}
           R == {r \in Requests : request[r].pc = "save"}
<1>1. IsFiniteSet(T) /\ IsFiniteSet(B) /\ IsFiniteSet(R)
  BY FiniteAssumption, FS_Subset
<1>2. Cardinality(T) \in Nat /\ Cardinality(B) \in Nat /\ Cardinality(R) \in Nat
  BY <1>1, FS_CardinalityType
<1>3. ~(Active > 0)
  BY Zenon DEF Starts
<1>4. Active = Cardinality(T) + Cardinality(B) + Cardinality(R)
  BY DEF Active
<1> HIDE DEF T, B, R
<1>5. Cardinality(T) = 0 /\ Cardinality(B) = 0 /\ Cardinality(R) = 0
  BY <1>2, <1>3, <1>4
<1>6. T = {} /\ B = {} /\ R = {}
  BY <1>1, <1>5, FS_EmptySet
<1>7. QED
  BY <1>6 DEF T, B, R

\* A tick moves by a step of its own, or the process dies.
LEMMA TickComes ==
  ASSUME Typed, [Next]_vars, NEW t \in Ticks
  PROVE  tick'[t] = tick[t] \/ (Crash /\ tick'[t] = IdleTick) \/ TickStep(t)
<1>1. ASSUME NEW k \in Ticks, k # t, TickStep(k) PROVE tick'[t] = tick[t]
  <2>1. tick \in [Ticks -> TickStates]
    BY TickFacts
  <2>2. ASSUME NEW s, tick' = [tick EXCEPT ![k] = s] PROVE tick'[t] = tick[t]
    BY <1>1, <2>1, <2>2
  <2>3. CASE SavePlan(k) \/ LastJob(k) \/ BackupFails(k) \/ SaveBackupTask(k)
    BY <2>2, <2>3 DEF SavePlan, LastJob, BackupFails, SaveBackupTask
  <2>4. CASE ScanPlans(k) \/ ReadPlan(k) \/ CreateJob(k) \/ CreateTask(k)
    BY <1>1, <2>1, <2>4 DEF ScanPlans, ReadPlan, CreateJob, CreateTask
  <2>5. QED
    BY <1>1, <2>3, <2>4 DEF TickStep
<1>2. CASE Crash
  BY <1>2 DEF Crash
<1>3. CASE UNCHANGED tick
  BY <1>3
<1>4. (\E k \in Ticks : TickStep(k)) \/ Crash \/ UNCHANGED tick
  BY DEF Next, vars, BidStep, SendAutoBidDeals, FindSentJob, SaveSentJob, FindJobs,
     CheckDealStatus, CheckDealFails, UpdatePlanFirst, UpdatePlanSave,
     PsqlBackupVolumeAddPlan, PsqlBackupAddJob, ClockTick, SwanAssigns, DealActivates, TaskMoves
<1>5. QED
  BY <1>1, <1>2, <1>3, <1>4

\* An autobid tick does too.
LEMMA BidComes ==
  ASSUME Typed, [Next]_vars, NEW b \in Bids
  PROVE  bid'[b] = bid[b] \/ (Crash /\ bid'[b] = IdleBid) \/ BidStep(b)
<1>1. ASSUME NEW k \in Bids, k # b, BidStep(k) PROVE bid'[b] = bid[b]
  <2>1. bid \in [Bids -> BidStates]
    BY BidFacts
  <2>2. QED
    BY <1>1, <2>1 DEF BidStep, SendAutoBidDeals, FindSentJob, SaveSentJob, FindJobs,
       CheckDealStatus, CheckDealFails
<1>2. CASE Crash
  BY <1>2 DEF Crash
<1>3. CASE UNCHANGED bid
  BY <1>3
<1>4. (\E k \in Bids : BidStep(k)) \/ Crash \/ UNCHANGED bid
  BY DEF Next, vars, TickStep, ScanPlans, ReadPlan, SavePlan, CreateJob, LastJob, CreateTask,
     BackupFails, SaveBackupTask, UpdatePlanFirst, UpdatePlanSave, PsqlBackupVolumeAddPlan,
     PsqlBackupAddJob, ClockTick, SwanAssigns, DealActivates, TaskMoves
<1>5. QED
  BY <1>1, <1>2, <1>3, <1>4

\* Every goroutine begins with a step that finds the others idle.
LEMMA TickBegins ==
  ASSUME Typed, [Next]_vars, ~overlapped', NEW t \in Ticks,
         tick[t].pc = "idle", tick'[t].pc # "idle"
  PROVE  /\ Starts /\ UNCHANGED <<bid, request>>
         /\ \A s \in Ticks \ {t} : tick'[s] = tick[s]
<1>1. IdleTick.pc = "idle"
  BY DEF IdleTick
<1>2. TickStep(t)
  BY <1>1, TickComes
<1>3. ScanPlans(t)
  BY <1>2 DEF TickStep, ReadPlan, SavePlan, CreateJob, LastJob, CreateTask,
     BackupFails, SaveBackupTask
<1>4. QED
  BY <1>3, TickFacts DEF ScanPlans

LEMMA BidBegins ==
  ASSUME Typed, [Next]_vars, ~overlapped', NEW b \in Bids,
         bid[b].pc = "idle", bid'[b].pc # "idle"
  PROVE  /\ Starts /\ UNCHANGED <<tick, request>>
         /\ \A a \in Bids \ {b} : bid'[a] = bid[a]
<1>1. IdleBid.pc = "idle"
  BY DEF IdleBid
<1>2. BidStep(b)
  BY <1>1, BidComes
<1>3. SendAutoBidDeals(b)
  BY <1>2 DEF BidStep, FindSentJob, SaveSentJob, FindJobs, CheckDealStatus, CheckDealFails
<1>4. QED
  BY <1>3, BidFacts DEF SendAutoBidDeals

LEMMA RequestBegins ==
  ASSUME Typed, [Next]_vars, ~overlapped', NEW r \in Requests,
         request[r].pc # "save", request'[r].pc = "save"
  PROVE  Starts /\ UNCHANGED <<tick, bid>>
<1>0. request \in [Requests -> RequestStates]
  BY DEF Typed, RequestsOK
<1>1. CASE UNCHANGED request
  BY <1>1
<1>2. CASE Crash
  BY <1>2 DEF Crash, Served, NewRequest
<1>3. ASSUME NEW k \in Requests, UpdatePlanSave(k) PROVE FALSE
  BY <1>3, <1>0 DEF UpdatePlanSave, Served, NewRequest
<1>4. ASSUME NEW k \in Requests, UpdatePlanFirst(k) PROVE Starts /\ UNCHANGED <<tick, bid>>
  BY <1>4 DEF UpdatePlanFirst
<1>5. \/ UNCHANGED request \/ Crash
      \/ \E k \in Requests : UpdatePlanFirst(k) \/ UpdatePlanSave(k)
  BY DEF Next, vars, TickStep, BidStep, ScanPlans, ReadPlan, SavePlan, CreateJob, LastJob,
     CreateTask, BackupFails, SaveBackupTask, SendAutoBidDeals, FindSentJob, SaveSentJob,
     FindJobs, CheckDealStatus, CheckDealFails, PsqlBackupVolumeAddPlan, PsqlBackupAddJob,
     ClockTick, SwanAssigns, DealActivates, TaskMoves
<1>6. QED
  BY <1>1, <1>2, <1>3, <1>4, <1>5

LEMMA AloneStep == Typed /\ Alone /\ [Next]_vars => Alone'
<1> SUFFICES ASSUME Typed, Alone, [Next]_vars, ~overlapped'
             PROVE  /\ \A s, t \in Ticks : tick'[s].pc # "idle" /\ tick'[t].pc # "idle" => s = t
                    /\ \A a, b \in Bids : bid'[a].pc # "idle" /\ bid'[b].pc # "idle" => a = b
                    /\ \A t \in Ticks, b \in Bids : tick'[t].pc = "idle" \/ bid'[b].pc = "idle"
                    /\ \A r \in Requests :
                         request'[r].pc = "save" => /\ \A t \in Ticks : tick'[t].pc = "idle"
                                                    /\ \A b \in Bids : bid'[b].pc = "idle"
  BY DEF Alone
<1>1. /\ \A s, t \in Ticks : tick[s].pc # "idle" /\ tick[t].pc # "idle" => s = t
      /\ \A a, b \in Bids : bid[a].pc # "idle" /\ bid[b].pc # "idle" => a = b
      /\ \A t \in Ticks, b \in Bids : tick[t].pc = "idle" \/ bid[b].pc = "idle"
      /\ \A r \in Requests :
           request[r].pc = "save" => /\ \A t \in Ticks : tick[t].pc = "idle"
                                     /\ \A b \in Bids : bid[b].pc = "idle"
  BY OverlapStays DEF Alone
<1>2. ASSUME NEW t \in Ticks, tick[t].pc = "idle", tick'[t].pc # "idle"
      PROVE  /\ \A s \in Ticks \ {t} : tick'[s].pc = "idle"
             /\ \A b \in Bids : bid'[b].pc = "idle"
             /\ \A r \in Requests : request'[r].pc # "save"
  BY <1>2, TickBegins, NoneActive
<1>3. ASSUME NEW b \in Bids, bid[b].pc = "idle", bid'[b].pc # "idle"
      PROVE  /\ \A t \in Ticks : tick'[t].pc = "idle"
             /\ \A a \in Bids \ {b} : bid'[a].pc = "idle"
             /\ \A r \in Requests : request'[r].pc # "save"
  BY <1>3, BidBegins, NoneActive
<1>4. ASSUME NEW r \in Requests, request[r].pc # "save", request'[r].pc = "save"
      PROVE  /\ \A t \in Ticks : tick'[t].pc = "idle"
             /\ \A b \in Bids : bid'[b].pc = "idle"
  BY <1>4, RequestBegins, NoneActive
<1>5. ASSUME NEW s \in Ticks, NEW t \in Ticks, tick'[s].pc # "idle", tick'[t].pc # "idle"
      PROVE  s = t
  BY <1>1, <1>2, <1>5
<1>6. ASSUME NEW a \in Bids, NEW b \in Bids, bid'[a].pc # "idle", bid'[b].pc # "idle"
      PROVE  a = b
  BY <1>1, <1>3, <1>6
<1>7. ASSUME NEW t \in Ticks, NEW b \in Bids PROVE tick'[t].pc = "idle" \/ bid'[b].pc = "idle"
  BY <1>1, <1>2, <1>3
<1>8. ASSUME NEW r \in Requests, request'[r].pc = "save"
      PROVE  /\ \A t \in Ticks : tick'[t].pc = "idle"
             /\ \A b \in Bids : bid'[b].pc = "idle"
  BY <1>1, <1>2, <1>3, <1>4, <1>8
<1>9. QED
  BY <1>5, <1>6, <1>7, <1>8

----------------------------------------------------------------------------
(* The plan of a job.                                                      *)

LEMMA SameInterval ==
  ASSUME NEW m \in Nat, NEW n \in Nat, 1..m = 1..n
  PROVE  m = n
<1>1. m = 0 \/ m \in 1..n
  <2>1. m = 0 \/ m \in 1..m
    OBVIOUS
  <2>2. QED
    BY <2>1
<1>2. n = 0 \/ n \in 1..m
  <2>1. n = 0 \/ n \in 1..n
    OBVIOUS
  <2>2. QED
    BY <2>1
<1>3. m <= n /\ n <= m
  BY <1>1, <1>2
<1>4. QED
  BY <1>3

\* Jobs are only added, by a tick or a request.
LEMMA JobsGrow ==
  ASSUME Typed, [Next]_vars
  PROVE  /\ Len(jobs) \in Nat /\ Len(jobs') \in Nat
         /\ \/ Len(jobs') = Len(jobs)
            \/ /\ Len(jobs') = Len(jobs) + 1
               /\ PsqlBackupAddJob \/ \E t \in Ticks : CreateJob(t)
<1>1. /\ jobs \in Seq(Job) /\ Len(jobs) \in Nat /\ DOMAIN jobs = 1..Len(jobs)
      /\ jobs' \in Seq(Job) /\ Len(jobs') \in Nat /\ DOMAIN jobs' = 1..Len(jobs')
  BY TypedStep, Lengths DEF Typed, Tables
<1>2. ASSUME NEW k, NEW row, jobs' = [jobs EXCEPT ![k] = row] PROVE Len(jobs') = Len(jobs)
  <2>1. DOMAIN jobs' = DOMAIN jobs
    BY <1>2
  <2>2. 1..Len(jobs') = 1..Len(jobs)
    BY <1>1, <2>1
  <2>3. Len(jobs) \in Nat /\ Len(jobs') \in Nat
    BY <1>1
  <2>4. QED
    BY <2>2, <2>3, SameInterval
<1>3. ASSUME NEW p \in PlanIds, jobs' = Append(jobs, [NoJob EXCEPT !.plan = p])
      PROVE  Len(jobs') = Len(jobs) + 1
  <2> DEFINE row == [NoJob EXCEPT !.plan = p]
  <2>1. row \in Job /\ jobs' = Append(jobs, row)
    BY <1>3, Bounds DEF Job, NoJob
  <2> HIDE DEF row
  <2>2. QED
    BY <1>1, <2>1, AppendProperties
<1>4. ASSUME NEW t \in Ticks, CreateJob(t) PROVE Len(jobs') = Len(jobs) + 1
  <2>1. \A p \in tick[t].left : p \in PlanIds
    BY TickFacts DEF TickStates
  <2>2. QED
    BY <1>3, <1>4, <2>1 DEF CreateJob
<1>5. ASSUME PsqlBackupAddJob PROVE Len(jobs') = Len(jobs) + 1
  BY <1>3, <1>5, Lengths DEF PsqlBackupAddJob, Typed
<1>6. ASSUME NEW t \in Ticks, SaveBackupTask(t) PROVE Len(jobs') = Len(jobs)
  BY <1>2, <1>6 DEF SaveBackupTask
<1>7. ASSUME NEW b \in Bids, SaveSentJob(b) PROVE Len(jobs') = Len(jobs)
  BY <1>2, <1>7 DEF SaveSentJob
<1>8. ASSUME NEW b \in Bids, CheckDealStatus(b) PROVE Len(jobs') = Len(jobs)
  BY <1>2, <1>8 DEF CheckDealStatus
<1>9. \/ UNCHANGED jobs \/ PsqlBackupAddJob
      \/ \E t \in Ticks : CreateJob(t) \/ SaveBackupTask(t)
      \/ \E b \in Bids : SaveSentJob(b) \/ CheckDealStatus(b)
  BY DEF Next, vars, TickStep, BidStep, ScanPlans, ReadPlan, SavePlan, LastJob, CreateTask,
     BackupFails, SendAutoBidDeals, FindSentJob, FindJobs, CheckDealFails, UpdatePlanFirst,
     UpdatePlanSave, PsqlBackupVolumeAddPlan, ClockTick, SwanAssigns, DealActivates,
     TaskMoves, Crash
<1>10. QED
  BY <1>1, <1>4, <1>5, <1>6, <1>7, <1>8, <1>9

LEMMA JobPlanStays ==
  ASSUME Typed, CopiesPlan, [Next]_vars, NEW j \in DOMAIN jobs
  PROVE  j \in DOMAIN jobs' /\ jobs'[j].plan = jobs[j].plan
<1>1. j \in DOMAIN jobs'
  BY TypedStep, JobsGrow, Lengths DEF Typed
<1>2. ASSUME NEW t \in Ticks, tick[t].pc = "task", tick[t].job = j, TaskRow(jobs'[j], t)
      PROVE  jobs'[j].plan = jobs[j].plan
  BY <1>2 DEF TaskRow
<1>3. ASSUME NEW b \in Bids, bid[b].pc = "save", bid[b].job = j, jobs'[j] = bid[b].row
      PROVE  jobs'[j].plan = jobs[j].plan
  BY <1>3 DEF CopiesPlan
<1>4. ASSUME NEW b \in Bids, FoundActive(b, j),
             jobs'[j] = [bid[b].found[j] EXCEPT !.status = "Completed"]
      PROVE  jobs'[j].plan = jobs[j].plan
  <2>1. j \in DOMAIN bid[b].found /\ bid[b].found[j] \in Job
    BY <1>4, FoundRow, RowTypes DEF FoundActive
  <2>2. jobs'[j].plan = bid[b].found[j].plan
    BY <1>4, <2>1 DEF Job
  <2>3. QED
    BY <2>1, <2>2 DEF CopiesPlan
<1>5. QED
  BY <1>1, <1>2, <1>3, <1>4, JobsCome

LEMMA CopiesPlanStep == Typed /\ CopiesPlan /\ [Next]_vars => CopiesPlan'
<1> SUFFICES ASSUME Typed, CopiesPlan, [Next]_vars, NEW b \in Bids
             PROVE  /\ bid'[b].pc = "save" => bid'[b].row.plan = jobs'[bid'[b].job].plan
                    /\ \A j \in DOMAIN bid'[b].found : bid'[b].found[j].plan = jobs'[j].plan
  BY DEF CopiesPlan
<1>1. ASSUME bid'[b].pc = "save" PROVE bid'[b].row.plan = jobs'[bid'[b].job].plan
  <2>1. CASE bid[b].pc = "save" /\ bid'[b].job = bid[b].job /\ bid'[b].row = bid[b].row
    <3>1. bid[b].job \in DOMAIN jobs
      BY <2>1, BidFacts, Lengths DEF BidRefers, Typed
    <3>2. QED
      BY <2>1, <3>1, JobPlanStays DEF CopiesPlan
  <2>2. ASSUME NEW u \in Uuids, NEW j \in JobIds, SentRowOf(b, u, j)
        PROVE  bid'[b].row.plan = jobs'[bid'[b].job].plan
    <3>1. /\ j \in DOMAIN jobs /\ jobs[j] \in Job /\ bid'[b].job = j
          /\ bid'[b].row = [jobs[j] EXCEPT !.status = "Running", !.dealCid = u]
      BY <2>2, RowTypes DEF SentRowOf, WithUuid
    <3>2. bid'[b].row.plan = jobs[j].plan
      BY <3>1 DEF Job
    <3>3. QED
      BY <3>1, <3>2, JobPlanStays
  <2>3. QED
    BY <1>1, <2>1, <2>2, BidsCome
<1>2. ASSUME NEW j \in DOMAIN bid'[b].found
      PROVE  bid'[b].found[j].plan = jobs'[j].plan
  <2>1. CASE bid'[b].found = bid[b].found
    <3>1. j \in DOMAIN jobs
      <4>1. bid[b].found \in Seq(Job) /\ Len(bid[b].found) <= Len(jobs)
        BY BidFacts DEF BidStates, BidRefers
      <4>2. QED
        BY <2>1, <4>1, Lengths DEF Typed
    <3>2. QED
      BY <2>1, <3>1, JobPlanStays DEF CopiesPlan
  <2>2. CASE bid'[b].found = jobs
    BY <2>2, JobPlanStays
  <2>3. CASE bid'[b].found = <<>>
    BY <2>3
  <2>4. QED
    BY <2>1, <2>2, <2>3, BidsCome
<1>3. QED
  BY <1>1, <1>2

----------------------------------------------------------------------------
(* The jobs a tick takes for its own.                                      *)

\* Where a loop over the plans leads to, and what it keeps.
LEMMA LoopStep ==
  ASSUME Typed, NEW t \in Ticks, SavePlan(t) \/ LastJob(t)
  PROVE  /\ tick'[t].pc \in {"touch", "add", "backup"}
         /\ SavePlan(t) => tick'[t].backups = tick[t].backups
         /\ LastJob(t) => tick'[t].backups =
              tick[t].backups \cup {[job |-> Len(jobs), plan |-> tick[t].plan]}
<1>0. /\ tick \in [Ticks -> TickStates] /\ tick[t] \in TickStates
      /\ Len(plans) \in Nat /\ Len(jobs) \in Nat /\ Len(tasks) \in Nat
  BY TickFacts, Lengths DEF Typed
<1>4. SavePlan(t) => ~LastJob(t)
  BY DEF SavePlan, LastJob
<1>1. CASE SavePlan(t)
  <2> DEFINE then == [IdleTick EXCEPT !.pc = "add", !.due = tick[t].due, !.left = tick[t].due]
  <2>1. then \in TickStates /\ then.pc = "add"
    BY <1>0, IdleStates DEF TickStates
  <2>2. /\ Advance(tick[t], "touch", then).pc \in {"touch", "add", "backup"}
        /\ Advance(tick[t], "touch", then).backups = tick[t].backups
    BY <1>1, <1>0, <2>1, TickFacts, AdvanceTyped DEF SavePlan
  <2>3. tick'[t] = Advance(tick[t], "touch", then)
    BY <1>1, <1>0 DEF SavePlan
  <2>4. QED
    BY <1>1, <1>4, <2>2, <2>3
<1>2. CASE LastJob(t)
  <2> DEFINE then == [IdleTick EXCEPT !.pc = "backup"]
             next == Advance(tick[t], "add", then)
             backup == [job |-> Len(jobs), plan |-> tick[t].plan]
  <2>1. then \in TickStates /\ then.pc = "backup"
    BY IdleStates DEF TickStates
  <2>2. /\ next \in TickStates /\ next.pc \in {"touch", "add", "backup"}
        /\ next.backups = tick[t].backups
    BY <1>0, <2>1, TickFacts, AdvanceTyped
  <2>3. tick'[t] = [next EXCEPT !.backups = @ \cup {backup}]
    BY <1>2, <1>0 DEF LastJob
  <2> HIDE DEF next
  <2>4. tick'[t].pc = next.pc /\ tick'[t].backups = tick[t].backups \cup {backup}
    BY <2>2, <2>3 DEF TickStates
  <2>5. QED
    BY <1>2, <1>4, <2>2, <2>4
<1>3. QED
  BY <1>1, <1>2

LEMMA BackupsCome ==
  ASSUME Typed, NEW t \in Ticks, TickStep(t), NEW k \in tick'[t].backups
  PROVE  \/ k \in tick[t].backups
         \/ tick[t].pc = "last" /\ k.job = Len(jobs) /\ k.plan = tick[t].plan
<1>0. tick \in [Ticks -> TickStates] /\ tick[t] \in TickStates
  BY TickFacts
<1>1. CASE SavePlan(t)
  BY <1>1, LoopStep
<1>2. CASE LastJob(t)
  <2>1. tick'[t].backups = tick[t].backups \cup {[job |-> Len(jobs), plan |-> tick[t].plan]}
    BY <1>2, LoopStep
  <2>2. QED
    BY <1>2, <2>1 DEF LastJob
<1>3. CASE ScanPlans(t)
  BY <1>3, <1>0 DEF ScanPlans, TickStates
<1>4. CASE ReadPlan(t)
  BY <1>4, <1>0 DEF ReadPlan, TickStates
<1>5. CASE CreateJob(t)
  BY <1>5, <1>0 DEF CreateJob, TickStates
<1>6. CASE CreateTask(t)
  BY <1>6, <1>0 DEF CreateTask, TickStates
<1>7. CASE BackupFails(t)
  BY <1>7, <1>0 DEF BackupFails, IdleTick, TickStates
<1>8. CASE SaveBackupTask(t)
  BY <1>8, <1>0 DEF SaveBackupTask, IdleTick, TickStates
<1>9. QED
  BY <1>1, <1>2, <1>3, <1>4, <1>5, <1>6, <1>7, <1>8 DEF TickStep

\* A tick is about to take the last job once it has created it only.
LEMMA LastComes ==
  ASSUME Typed, NEW t \in Ticks, TickStep(t), tick'[t].pc = "last"
  PROVE  CreateJob(t)
<1>0. tick \in [Ticks -> TickStates] /\ tick[t] \in TickStates
  BY TickFacts
<1>1. CASE SavePlan(t)
  BY <1>1, LoopStep
<1>2. CASE LastJob(t)
  BY <1>2, LoopStep
<1>3. CASE ScanPlans(t)
  BY <1>3, <1>0 DEF ScanPlans, TickStates
<1>4. CASE ReadPlan(t)
  BY <1>4, <1>0 DEF ReadPlan, TickStates
<1>5. CASE CreateTask(t)
  BY <1>5, <1>0 DEF CreateTask, TickStates
<1>6. CASE BackupFails(t)
  BY <1>6, <1>0 DEF BackupFails, IdleTick, TickStates
<1>7. CASE SaveBackupTask(t)
  BY <1>7, <1>0 DEF SaveBackupTask, IdleTick, TickStates
<1>8. QED
  BY <1>1, <1>2, <1>3, <1>4, <1>5, <1>6, <1>7 DEF TickStep

LEMMA OwnJobsStep ==
  Typed /\ CopiesPlan /\ Alone /\ OwnJobs /\ [Next]_vars => OwnJobs'
<1> SUFFICES ASSUME Typed, CopiesPlan, Alone, OwnJobs, [Next]_vars, ~overlapped',
                    NEW t \in Ticks
             PROVE  /\ tick'[t].pc = "last" => jobs'[Len(jobs')].plan = tick'[t].plan
                    /\ \A k \in tick'[t].backups : jobs'[k.job].plan = k.plan
  BY DEF OwnJobs
<1>0. ~overlapped
  BY OverlapStays
<1>4. /\ IdleTick.pc = "idle" /\ IdleTick.backups = {}
      /\ tick \in [Ticks -> TickStates] /\ tick[t] \in TickStates
  BY TickFacts DEF IdleTick
<1>5. tick[t].pc = "last" => Len(jobs) \in DOMAIN jobs
  BY TickFacts, Lengths DEF TickRefers, Typed
<1>1. ASSUME tick'[t].pc = "last" PROVE jobs'[Len(jobs')].plan = tick'[t].plan
  <2>1. CASE tick'[t] = tick[t]
    <3>1. ~(\E k \in Ticks : CreateJob(k)) /\ ~PsqlBackupAddJob
      <4>1. ASSUME NEW k \in Ticks, CreateJob(k) PROVE FALSE
        BY <1>1, <1>0, <2>1, <4>1 DEF CreateJob, Alone
      <4>2. ASSUME PsqlBackupAddJob PROVE FALSE
        BY <1>1, <2>1, <4>2, NoneActive DEF PsqlBackupAddJob
      <4>3. QED
        BY <4>1, <4>2
    <3>2. Len(jobs') = Len(jobs)
      BY <3>1, JobsGrow
    <3>3. QED
      BY <1>1, <1>0, <1>5, <2>1, <3>2, JobPlanStays DEF OwnJobs
  <2>2. CASE TickStep(t)
    <3>1. CreateJob(t)
      BY <1>1, <2>2, LastComes
    <3>2. PICK p \in tick[t].left : /\ jobs' = Append(jobs, [NoJob EXCEPT !.plan = p])
                                    /\ tick' = [tick EXCEPT ![t].pc = "last", ![t].plan = p]
      BY <3>1 DEF CreateJob
    <3> DEFINE row == [NoJob EXCEPT !.plan = p]
    <3>3. row \in Job /\ row.plan = p /\ tick'[t].plan = p
      BY <1>4, <3>2, Bounds DEF NoJob, Job, TickStates
    <3> HIDE DEF row
    <3>4. Len(jobs') = Len(jobs) + 1 /\ jobs'[Len(jobs) + 1] = row
      BY <3>2, <3>3, AppendProperties DEF row, Typed, Tables
    <3>5. QED
      BY <3>3, <3>4
  <2>3. QED
    BY <1>1, <1>4, <2>1, <2>2, TickComes
<1>2. ASSUME NEW k \in tick'[t].backups PROVE jobs'[k.job].plan = k.plan
  <2>1. CASE k \in tick[t].backups
    <3>1. k.job \in DOMAIN jobs /\ jobs[k.job].plan = k.plan
      BY <1>0, <2>1, TickFacts, Lengths DEF TickRefers, OwnJobs, Typed
    <3>2. QED
      BY <3>1, JobPlanStays
  <2>2. CASE tick[t].pc = "last" /\ k.job = Len(jobs) /\ k.plan = tick[t].plan
    BY <1>0, <1>5, <2>2, JobPlanStays DEF OwnJobs
  <2>3. QED
    BY <1>4, <2>1, <2>2, BackupsCome, TickComes
<1>3. QED
  BY <1>1, <1>2

----------------------------------------------------------------------------
(* Jobs and tasks.                                                         *)

\* A tick is at its task once it has created it only.
LEMMA TaskComes ==
  ASSUME Typed, NEW t \in Ticks, TickStep(t), tick'[t].pc = "task"
  PROVE  CreateTask(t)
<1>0. tick \in [Ticks -> TickStates] /\ tick[t] \in TickStates
  BY TickFacts
<1>1. CASE SavePlan(t)
  BY <1>1, LoopStep
<1>2. CASE LastJob(t)
  BY <1>2, LoopStep
<1>3. CASE ScanPlans(t)
  BY <1>3, <1>0 DEF ScanPlans, TickStates
<1>4. CASE ReadPlan(t)
  BY <1>4, <1>0 DEF ReadPlan, TickStates
<1>5. CASE CreateJob(t)
  BY <1>5, <1>0 DEF CreateJob, TickStates
<1>6. CASE BackupFails(t)
  BY <1>6, <1>0 DEF BackupFails, IdleTick, TickStates
<1>7. CASE SaveBackupTask(t)
  BY <1>7, <1>0 DEF SaveBackupTask, IdleTick, TickStates
<1>8. QED
  BY <1>1, <1>2, <1>3, <1>4, <1>5, <1>6, <1>7 DEF TickStep

\* A task is created for the plan of one of the tick's backups, and the tick
\* goes on with the job of that one.
LEMMA TaskOfBackup ==
  ASSUME Typed, [Next]_vars, NEW t \in Ticks, NewTask(t), tick'[t].pc = "task"
  PROVE  \E k \in tick[t].backups : /\ tick'[t].job = k.job
                                    /\ Len(tasks) + 1 \in DOMAIN tasks'
                                    /\ tasks'[Len(tasks) + 1].plan = k.plan
<1>0. tick \in [Ticks -> TickStates] /\ tick[t] \in TickStates /\ IdleTick.pc = "idle"
  BY TickFacts DEF IdleTick
<1>9. tasks \in Seq(Task) /\ Len(tasks) \in Nat
  BY Lengths DEF Typed, Tables
<1>1. tick'[t] # tick[t]
  BY <1>9, TickFacts DEF NewTask, TickRefers
<1>2. TickStep(t)
  BY <1>1, <1>0, TickComes
<1>3. CreateTask(t)
  BY <1>1, <1>2, TaskComes
<1>4. PICK k \in tick[t].backups :
        /\ tasks' = Append(tasks, [plan |-> k.plan, state |-> "open"])
        /\ tick' = [tick EXCEPT ![t].pc = "task", ![t].backups = @ \ {k},
                                ![t].job = k.job, ![t].uuid = Len(tasks) + 1]
  BY <1>3 DEF CreateTask
<1> DEFINE row == [plan |-> k.plan, state |-> "open"]
<1>5. row \in Task /\ row.plan = k.plan /\ tasks' = Append(tasks, row)
  BY <1>0, <1>4 DEF TickStates, Task, TaskState
<1>6. tick'[t].job = k.job
  BY <1>0, <1>4 DEF TickStates
<1> HIDE DEF row
<1>7. tasks' \in Seq(Task) /\ Len(tasks') = Len(tasks) + 1 /\ tasks'[Len(tasks) + 1] = row
  BY <1>9, <1>5, AppendProperties
<1>8. QED
  BY <1>9, <1>5, <1>6, <1>7

LEMMA HasJob ==
  ASSUME Typed, NEW j \in JobIds, NEW u \in Uuids, Has(j, u)
  PROVE  j \in DOMAIN jobs
<1>1. ASSUME NEW t \in Ticks, tick[t].pc = "task", tick[t].job = j PROVE j \in DOMAIN jobs
  BY <1>1, TickFacts, Lengths DEF TickRefers, Typed
<1>2. ASSUME NEW b \in Bids, bid[b].pc = "save", bid[b].job = j PROVE j \in DOMAIN jobs
  BY <1>2, BidFacts, Lengths DEF BidRefers, Typed
<1>3. ASSUME NEW b \in Bids, j \in DOMAIN bid[b].found PROVE j \in DOMAIN jobs
  <2>1. bid[b].found \in Seq(Job) /\ Len(bid[b].found) <= Len(jobs)
    BY BidFacts DEF BidStates, BidRefers
  <2>2. QED
    BY <1>3, <2>1, Lengths DEF Typed
<1>4. QED
  BY <1>1, <1>2, <1>3 DEF Has

LEMMA MatchesStep ==
  /\ Typed /\ RowsOK /\ CopiesPlan /\ Alone /\ OwnJobs /\ Matches /\ [Next]_vars
  => Matches'
<1> SUFFICES ASSUME Typed, RowsOK, CopiesPlan, OwnJobs, Matches, [Next]_vars, ~overlapped',
                    NEW j \in JobIds, NEW u \in Uuids, Has(j, u)'
             PROVE  tasks'[u].plan = jobs'[j].plan
  BY DEF Matches
<1>0. ~overlapped
  BY OverlapStays
<1>1. CASE Has(j, u)
  <2>1. j \in DOMAIN jobs
    BY <1>1, HasJob
  <2>2. u \in DOMAIN tasks
    BY <1>1, HasKnown, Lengths DEF Typed, Uuids
  <2>3. tasks'[u].plan = tasks[u].plan
    BY <2>2, TasksAdvance DEF Later
  <2>4. QED
    BY <1>0, <1>1, <2>1, <2>3, JobPlanStays DEF Matches
<1>2. ASSUME NEW t \in Ticks, NewTask(t), u = Len(tasks) + 1,
             tick'[t].pc = "task", tick'[t].job = j
      PROVE  tasks'[u].plan = jobs'[j].plan
  <2>1. PICK k \in tick[t].backups : k.job = j /\ tasks'[u].plan = k.plan
    BY <1>2, TaskOfBackup
  <2>2. k.job \in DOMAIN jobs /\ jobs[k.job].plan = k.plan
    BY <1>0, TickFacts, Lengths DEF TickRefers, OwnJobs, Typed
  <2>3. QED
    BY <2>1, <2>2, JobPlanStays
<1>3. QED
  BY <1>1, <1>2, HasComes

LEMMA AloneInit == Init => CopiesPlan /\ Alone /\ OwnJobs /\ Matches
<1> SUFFICES ASSUME Init PROVE CopiesPlan /\ Alone /\ OwnJobs /\ Matches
  OBVIOUS
<1>1. DOMAIN jobs = {}
  BY DEF Init
<1>2. \A t \in Ticks : tick[t].pc = "idle" /\ tick[t].backups = {}
  BY DEF Init, IdleTick
<1>3. \A b \in Bids : bid[b].pc = "idle" /\ DOMAIN bid[b].found = {}
  BY DEF Init, IdleBid
<1>4. \A j \in JobIds, u \in Uuids : ~Has(j, u)
  BY <1>1, <1>2, <1>3 DEF Has
<1>5. \A r \in Requests : request[r].pc # "save"
  BY DEF Init, NewRequest
<1>6. QED
  BY <1>1, <1>2, <1>3, <1>4, <1>5 DEF CopiesPlan, Alone, OwnJobs, Matches

\* While no two goroutines have overlapped, the task of a job is one that was
\* created for the plan of that job.
THEOREM JobsMatchTasks == Spec => []JobMatchesTask
<1>1. Typed /\ Matches => JobMatchesTask
  <2> SUFFICES ASSUME Typed, Matches, ~overlapped, NEW j \in DOMAIN jobs, jobs[j].uuid # 0
               PROVE  tasks[jobs[j].uuid].plan = jobs[j].plan
    BY DEF JobMatchesTask
  <2>1. j \in JobIds /\ jobs[j].uuid \in Uuids
    BY RowTypes, Lengths, Bounds DEF Typed, Job, Uuids
  <2>2. Has(j, jobs[j].uuid)
    BY DEF Has
  <2>3. QED
    BY <2>1, <2>2 DEF Matches
<1>2. QED
  BY TypedInit, TypedStep, RowsInit, RowsStep, AloneInit, CopiesPlanStep, AloneStep,
     OwnJobsStep, MatchesStep, <1>1, PTL DEF Spec

(***************************************************************************)
(* More that holds as long as no two goroutines overlap, for any number of *)
(* them, any interval and any bounds: rows are not stale when they are     *)
(* written back, and every deal sent is found in a job once the tick is    *)
(* over.                                                                   *)
(***************************************************************************)

----------------------------------------------------------------------------
(* The inductive invariant.                                                *)

IdleHasNone == \A t \in Ticks : tick[t].pc = "idle" => tick[t].backups = {}

\* The jobs of a tick are new and all different, and the plan it is about to
\* save has not changed.
TickJobsOf(s, ps, js) ==
    /\ s.pc = "save" => s.row = ps[s.plan]
    /\ s.pc = "last" => NewRow(js[Len(js)]) /\ \A k \in s.backups : k.job # Len(js)
    /\ s.pc # "idle" => \A k \in s.backups : NewRow(js[k.job])
    /\ \A k, l \in s.backups : k.job = l.job => k = l
    /\ s.pc = "task" => NewRow(js[s.job]) /\ \A k \in s.backups : k.job # s.job
TickJobs == ~overlapped => \A t \in Ticks : TickJobsOf(tick[t], plans, jobs)

IsSent(u, ts) == u \in DOMAIN ts /\ ts[u].state \in {"sent", "active"}

\* Deals on record are sent.
RecordedAreSent ==
    ~overlapped =>
       \A j \in DOMAIN jobs : jobs[j].dealCid # 0 => IsSent(jobs[j].dealCid, tasks)

\* The deals an autobid tick has still to record are sent and on no record,
\* and the jobs it has read have not changed.
BidJobsOf(s, js, ts) ==
    /\ s.pc \in {"record", "save"} =>
         \A u \in s.left : IsSent(u, ts) /\ \A j \in DOMAIN js : js[j].dealCid # u
    /\ s.pc = "save" =>
         /\ js[s.job].dealCid = 0 /\ js[s.job].uuid \notin s.left
         /\ IsSent(js[s.job].uuid, ts)
         /\ s.row = [js[s.job] EXCEPT !.status = "Running", !.dealCid = js[s.job].uuid]
    /\ s.pc = "check" => \A j \in s.left : s.found[j] = js[j]
BidJobs == ~overlapped => \A b \in Bids : BidJobsOf(bid[b], jobs, tasks)

\* Every task is that of a job, once its tick has saved it, and every deal
\* sent is on record or in the hands of an autobid tick.
HasTask(u) == \/ \E j \in DOMAIN jobs : jobs[j].uuid = u
              \/ \E t \in Ticks : tick[t].pc = "task" /\ tick[t].uuid = u
InHand(u) == \E b \in Bids : \/ bid[b].pc \in {"record", "save"} /\ u \in bid[b].left
                             \/ bid[b].pc = "save" /\ bid[b].row.uuid = u
TasksKnown ==
    ~overlapped /\ crashes = 0 =>
       \A u \in DOMAIN tasks : HasTask(u) /\ (Sent(u) => Recorded(u) \/ InHand(u))

----------------------------------------------------------------------------
(* Nobody else writes while a goroutine runs.                              *)

LEMMA JobsWait ==
  ASSUME Typed, Alone, [Next]_vars, ~overlapped',
         \/ \E t \in Ticks : tick[t].pc # "idle" /\ tick'[t] = tick[t]
         \/ \E b \in Bids : bid[b].pc # "idle" /\ bid'[b] = bid[b]
  PROVE  UNCHANGED jobs
<1>0. ~overlapped
  BY OverlapStays
<1>1. ASSUME NEW t \in Ticks, CreateJob(t) \/ SaveBackupTask(t) PROVE FALSE
  <2>1. tick[t].pc # "idle" /\ tick'[t].pc # tick[t].pc
    <3>1. tick \in [Ticks -> TickStates] /\ tick[t] \in TickStates
      BY TickFacts
    <3>2. CASE CreateJob(t)
      BY <3>1, <3>2 DEF CreateJob, TickStates
    <3>3. CASE SaveBackupTask(t)
      BY <3>1, <3>3 DEF SaveBackupTask, IdleTick, TickStates
    <3>4. QED
      BY <1>1, <3>2, <3>3
  <2>2. QED
    BY <1>0, <2>1 DEF Alone
<1>2. ASSUME NEW b \in Bids, SaveSentJob(b) \/ CheckDealStatus(b) PROVE FALSE
  <2>1. bid[b].pc # "idle" /\ bid'[b] # bid[b]
    <3>1. bid \in [Bids -> BidStates] /\ bid[b] \in BidStates
      BY BidFacts
    <3>2. CASE SaveSentJob(b)
      BY <3>1, <3>2 DEF SaveSentJob, BidStates
    <3>3. CASE CheckDealStatus(b)
      <4>1. PICK j \in bid[b].left :
              bid' = [bid EXCEPT ![b] = IF @.left = {j} THEN IdleBid
                                        ELSE [bid[b] EXCEPT !.left = @ \ {j}]]
        BY <3>3 DEF CheckDealStatus
      <4>2. bid'[b].pc = "idle" \/ j \notin bid'[b].left
        BY <3>1, <4>1 DEF IdleBid, BidStates
      <4>3. QED
        BY <3>3, <4>2 DEF CheckDealStatus
    <3>4. QED
      BY <1>2, <3>2, <3>3
  <2>2. QED
    BY <1>0, <2>1 DEF Alone
<1>3. ~PsqlBackupAddJob
  BY NoneActive DEF PsqlBackupAddJob
<1>4. QED
  BY <1>1, <1>2, <1>3 DEF Next, vars, TickStep, BidStep, ScanPlans, ReadPlan, SavePlan, LastJob,
     CreateTask, BackupFails, SendAutoBidDeals, FindSentJob, FindJobs, CheckDealFails,
     UpdatePlanFirst, UpdatePlanSave, PsqlBackupVolumeAddPlan, ClockTick, SwanAssigns,
     DealActivates, TaskMoves, Crash

\* A plan is saved by a tick or a request, or it stays.
LEMMA PlansCome ==
  ASSUME Typed, [Next]_vars, NEW p \in DOMAIN plans
  PROVE  \/ plans'[p] = plans[p]
         \/ \E t \in Ticks : /\ SavePlan(t) /\ tick[t].plan = p
                             /\ plans'[p] = [tick[t].row EXCEPT !.lastBackupOn = clock]
         \/ \E r \in Requests :
              /\ request[r].pc = "save" /\ request[r].plan = p
              /\ plans'[p] = [request[r].row EXCEPT !.status = request[r].status]
<1>0. plans \in Seq(Plan) /\ Len(plans) \in Nat /\ DOMAIN plans = 1..Len(plans)
  BY Lengths DEF Typed, Tables
<1>1. ASSUME NEW t \in Ticks, SavePlan(t)
      PROVE  plans'[p] = IF p = tick[t].plan THEN [tick[t].row EXCEPT !.lastBackupOn = clock]
                         ELSE plans[p]
  <2> DEFINE row == [tick[t].row EXCEPT !.lastBackupOn = clock]
  <2>1. plans' = [plans EXCEPT ![tick[t].plan] = row]
    BY <1>1 DEF SavePlan
  <2> HIDE DEF row
  <2>2. QED
    BY <1>0, <2>1 DEF row
<1>2. ASSUME NEW r \in Requests, UpdatePlanSave(r)
      PROVE  \/ plans'[p] = plans[p]
             \/ /\ request[r].pc = "save" /\ request[r].plan = p
                /\ plans'[p] = [request[r].row EXCEPT !.status = request[r].status]
  <2> DEFINE row == [request[r].row EXCEPT !.status = request[r].status]
  <2>1. request[r].pc = "save" /\ plans' = [plans EXCEPT ![request[r].plan] = row]
    BY <1>2 DEF UpdatePlanSave
  <2> HIDE DEF row
  <2>2. QED
    BY <1>0, <2>1 DEF row
<1>3. ASSUME PsqlBackupVolumeAddPlan PROVE plans'[p] = plans[p]
  <2> DEFINE row == [status |-> "Enabled", createdOn |-> clock, lastBackupOn |-> 0]
  <2>1. row \in Plan /\ plans' = Append(plans, row)
    BY <1>3, Bounds DEF PsqlBackupVolumeAddPlan, Plan, PlanStatus, Typed, Tables
  <2> HIDE DEF row
  <2>2. QED
    BY <1>0, <2>1, AppendProperties
<1>4. \/ UNCHANGED plans \/ PsqlBackupVolumeAddPlan
      \/ (\E t \in Ticks : SavePlan(t)) \/ (\E r \in Requests : UpdatePlanSave(r))
  BY DEF Next, vars, TickStep, BidStep, ScanPlans, ReadPlan, CreateJob, LastJob, CreateTask,
     BackupFails, SaveBackupTask, SendAutoBidDeals, FindSentJob, SaveSentJob, FindJobs,
     CheckDealStatus, CheckDealFails, UpdatePlanFirst, PsqlBackupAddJob, ClockTick,
     SwanAssigns, DealActivates, TaskMoves, Crash
<1>5. QED
  BY <1>1, <1>2, <1>3, <1>4

LEMMA PlansWait ==
  ASSUME Typed, Alone, [Next]_vars, ~overlapped',
         NEW t \in Ticks, tick[t].pc # "idle", tick'[t] = tick[t],
         NEW p \in DOMAIN plans
  PROVE  plans'[p] = plans[p]
<1>0. ~overlapped
  BY OverlapStays
<1>1. ASSUME NEW k \in Ticks, SavePlan(k) PROVE FALSE
  <2>1. tick[k].pc = "save" /\ k = t
    BY <1>0, <1>1 DEF Alone, SavePlan
  <2> DEFINE then == [IdleTick EXCEPT !.pc = "add", !.due = tick[t].due, !.left = tick[t].due]
  <2>2. then \in TickStates /\ then.pc = "add"
    BY TickFacts, IdleStates DEF TickStates
  <2>3. Advance(tick[t], "touch", then).pc # "save"
    BY <2>1, <2>2, TickFacts, AdvanceTyped, Lengths DEF Typed
  <2>4. tick'[t] = Advance(tick[t], "touch", then)
    BY <1>1, <2>1, TickFacts DEF SavePlan
  <2>5. QED
    BY <2>1, <2>3, <2>4
<1>2. ASSUME NEW r \in Requests, request[r].pc = "save" PROVE FALSE
  BY <1>0, <1>2 DEF Alone
<1>3. QED
  BY <1>1, <1>2, PlansCome

----------------------------------------------------------------------------
(* The jobs of a backup tick.                                              *)

LEMMA AddedJob ==
  ASSUME Typed, NEW t \in Ticks, CreateJob(t)
  PROVE  /\ Len(jobs) \in Nat /\ Len(jobs') = Len(jobs) + 1
         /\ \A j \in DOMAIN jobs : jobs'[j] = jobs[j]
         /\ NewRow(jobs'[Len(jobs')])
<1>1. PICK p \in tick[t].left : jobs' = Append(jobs, [NoJob EXCEPT !.plan = p])
  BY DEF CreateJob
<1> DEFINE row == [NoJob EXCEPT !.plan = p]
<1>2. p \in PlanIds
  BY TickFacts DEF TickStates
<1>3. row \in Job /\ NewRow(row) /\ jobs' = Append(jobs, row)
  BY <1>1, <1>2, Bounds DEF Job, NoJob, NewRow
<1> HIDE DEF row
<1>4. jobs \in Seq(Job) /\ Len(jobs) \in Nat /\ DOMAIN jobs = 1..Len(jobs)
  BY Lengths DEF Typed, Tables
<1>5. QED
  BY <1>3, <1>4, AppendProperties

LEMMA IdleHasNoneStep == Typed /\ IdleHasNone /\ [Next]_vars => IdleHasNone'
<1> SUFFICES ASSUME Typed, IdleHasNone, [Next]_vars, NEW t \in Ticks, tick'[t].pc = "idle"
             PROVE  tick'[t].backups = {}
  BY DEF IdleHasNone
<1>0. tick \in [Ticks -> TickStates] /\ tick[t] \in TickStates /\ IdleTick.backups = {}
  BY TickFacts DEF IdleTick
<1>1. CASE tick'[t] = tick[t] \/ tick'[t] = IdleTick
  BY <1>1, <1>0 DEF IdleHasNone
<1>2. CASE TickStep(t)
  <2>1. ~SavePlan(t) /\ ~LastJob(t)
    BY LoopStep
  <2>2. ~ScanPlans(t)
    BY <1>0 DEF ScanPlans, TickStates
  <2>3. ~ReadPlan(t)
    BY <1>0 DEF ReadPlan, TickStates
  <2>4. ~CreateJob(t)
    BY <1>0 DEF CreateJob, TickStates
  <2>5. ASSUME CreateTask(t) PROVE FALSE
    BY <1>0, <2>5 DEF CreateTask, TickStates
  <2>6. CASE BackupFails(t)
    BY <1>0, <2>6 DEF BackupFails
  <2>7. CASE SaveBackupTask(t)
    BY <1>0, <2>7 DEF SaveBackupTask, TickStates
  <2>8. QED
    BY <1>2, <2>1, <2>2, <2>3, <2>4, <2>5, <2>6, <2>7 DEF TickStep
<1>3. QED
  BY <1>1, <1>2, TickComes

LEMMA TickJobsStep ==
  Typed /\ Alone /\ IdleHasNone /\ TickJobs /\ [Next]_vars => TickJobs'
<1> SUFFICES ASSUME Typed, Alone, IdleHasNone, TickJobs, [Next]_vars, ~overlapped',
                    NEW t \in Ticks
             PROVE  TickJobsOf(tick'[t], plans', jobs')
  BY DEF TickJobs
<1>0. /\ tick \in [Ticks -> TickStates] /\ tick[t] \in TickStates
      /\ IdleTick.pc = "idle" /\ IdleTick.backups = {}
  BY TickFacts DEF IdleTick
<1>12. TickJobsOf(tick[t], plans, jobs)
  BY OverlapStays DEF TickJobs
<1>13. \A k \in tick[t].backups : k.job \in DOMAIN jobs
  BY TickFacts, Lengths DEF TickRefers, Typed
<1>14. ASSUME NEW s, s.pc \in {"idle", "touch", "add", "backup"}, s.backups = {}
      PROVE  TickJobsOf(s, plans', jobs')
  BY <1>14 DEF TickJobsOf
<1>1. CASE tick'[t] = tick[t]
  <2>1. CASE tick[t].pc = "idle"
    BY <1>1, <1>14, <2>1 DEF IdleHasNone
  <2>2. CASE tick[t].pc # "idle"
    <3>1. jobs' = jobs
      BY <1>1, <2>2, JobsWait
    <3>2. tick[t].pc = "save" => plans'[tick[t].plan] = plans[tick[t].plan]
      BY <1>1, <2>2, TickFacts, Lengths, PlansWait DEF TickRefers, Typed
    <3>3. QED
      BY <1>1, <1>12, <3>1, <3>2 DEF TickJobsOf
  <2>3. QED
    BY <2>1, <2>2
<1>2. CASE tick'[t] = IdleTick
  BY <1>2, <1>0, <1>14
<1>3. CASE ScanPlans(t)
  <2>1. tick'[t].pc = "touch" /\ tick'[t].backups = tick[t].backups /\ tick[t].pc = "idle"
    BY <1>3, <1>0 DEF ScanPlans, TickStates
  <2>2. QED
    BY <1>14, <2>1 DEF IdleHasNone
<1>4. CASE ReadPlan(t)
  <2>1. PICK p \in tick[t].left :
          tick' = [tick EXCEPT ![t].pc = "save", ![t].plan = p, ![t].row = plans[p]]
    BY <1>4 DEF ReadPlan
  <2>2. /\ tick'[t].pc = "save" /\ tick'[t].backups = tick[t].backups
        /\ tick'[t].plan = p /\ tick'[t].row = plans[p]
    BY <1>0, <2>1 DEF TickStates
  <2>3. tick[t].pc = "touch" /\ plans' = plans /\ jobs' = jobs
    BY <1>4 DEF ReadPlan
  <2>4. QED
    BY <1>12, <2>2, <2>3 DEF TickJobsOf
<1>5. CASE SavePlan(t)
  <2>1. tick'[t].pc \in {"touch", "add", "backup"} /\ tick'[t].backups = tick[t].backups
    BY <1>5, LoopStep
  <2>2. tick[t].pc = "save" /\ jobs' = jobs
    BY <1>5 DEF SavePlan
  <2>3. QED
    BY <1>12, <2>1, <2>2 DEF TickJobsOf
<1>6. CASE CreateJob(t)
  <2>1. tick'[t].pc = "last" /\ tick'[t].backups = tick[t].backups
    BY <1>6, <1>0 DEF CreateJob, TickStates
  <2>2. \A k \in tick[t].backups : k.job \in DOMAIN jobs /\ k.job # Len(jobs')
    BY <1>6, <1>13, AddedJob, Lengths DEF Typed
  <2>3. tick[t].pc = "add"
    BY <1>6 DEF CreateJob
  <2>4. QED
    BY <1>6, <1>12, <2>1, <2>2, <2>3, AddedJob DEF TickJobsOf
<1>7. CASE LastJob(t)
  <2> DEFINE backup == [job |-> Len(jobs), plan |-> tick[t].plan]
  <2>1. /\ tick'[t].pc \in {"touch", "add", "backup"}
        /\ tick'[t].backups = tick[t].backups \cup {backup}
    BY <1>7, LoopStep
  <2>2. tick[t].pc = "last" /\ jobs' = jobs
    BY <1>7 DEF LastJob
  <2>3. backup.job = Len(jobs)
    OBVIOUS
  <2> HIDE DEF backup
  <2>4. QED
    BY <1>12, <2>1, <2>2, <2>3 DEF TickJobsOf
<1>8. CASE CreateTask(t)
  <2>1. PICK k \in tick[t].backups :
          tick' = [tick EXCEPT ![t].pc = "task", ![t].backups = @ \ {k},
                               ![t].job = k.job, ![t].uuid = Len(tasks) + 1]
    BY <1>8 DEF CreateTask
  <2>2. /\ tick'[t].pc = "task" /\ tick'[t].backups = tick[t].backups \ {k}
        /\ tick'[t].job = k.job
    BY <1>0, <2>1 DEF TickStates
  <2>3. tick[t].pc = "backup" /\ jobs' = jobs
    BY <1>8 DEF CreateTask
  <2>4. QED
    BY <1>12, <2>2, <2>3 DEF TickJobsOf
<1>9. CASE BackupFails(t)
  BY <1>9, <1>2, <1>0 DEF BackupFails
<1>10. CASE SaveBackupTask(t)
  <2>1. \/ tick'[t] = IdleTick
        \/ tick'[t].pc = "backup" /\ tick'[t].backups = tick[t].backups
    BY <1>10, <1>0 DEF SaveBackupTask, TickStates
  <2>2. \A j \in DOMAIN jobs : j # tick[t].job => jobs'[j] = jobs[j]
    BY <1>10 DEF SaveBackupTask
  <2>3. tick[t].pc = "task"
    BY <1>10 DEF SaveBackupTask
  <2>4. QED
    BY <1>2, <1>12, <1>13, <2>1, <2>2, <2>3 DEF TickJobsOf
<1>11. QED
  BY <1>1, <1>2, <1>3, <1>4, <1>5, <1>6, <1>7, <1>8, <1>9, <1>10, TickComes DEF TickStep

----------------------------------------------------------------------------
(* The jobs of an autobid tick.                                            *)

LEMMA SentStays ==
  ASSUME Typed, [Next]_vars, NEW u, IsSent(u, tasks)
  PROVE  IsSent(u, tasks')
<1>1. Len(tasks) \in Nat /\ Len(tasks') \in Nat /\ DOMAIN tasks = 1..Len(tasks)
  BY TypedStep, Lengths DEF Typed
<1>2. DOMAIN tasks' = 1..Len(tasks')
  BY TypedStep, Lengths DEF Typed
<1>3. u \in DOMAIN tasks' /\ Later(tasks[u], tasks'[u])
  BY <1>1, <1>2, TasksAdvance DEF IsSent
<1>4. QED
  BY <1>3 DEF IsSent, Later

\* Without overlap a row changes in these ways only.
LEMMA JobsAlone ==
  ASSUME Typed, RowsOK, TickJobs, BidJobs, [Next]_vars, ~overlapped', NEW j \in DOMAIN jobs
  PROVE  \/ jobs'[j] = jobs[j]
         \/ NewRow(jobs[j]) /\ jobs'[j].status = "Running" /\ jobs'[j].dealCid = 0
         \/ /\ jobs[j].dealCid = 0 /\ jobs[j].status # "Completed"
            /\ jobs'[j].status = "Running" /\ jobs'[j].uuid = jobs[j].uuid
            /\ jobs'[j].dealCid = jobs[j].uuid /\ IsSent(jobs[j].uuid, tasks)
         \/ /\ jobs'[j].status = "Completed" /\ jobs'[j].uuid = jobs[j].uuid
            /\ jobs'[j].dealCid = jobs[j].dealCid
<1>0. ~overlapped
  BY OverlapStays
<1>6. jobs[j] \in Job
  BY RowTypes
<1>1. ASSUME NEW t \in Ticks, tick[t].pc = "task", tick[t].job = j, TaskRow(jobs'[j], t)
      PROVE  NewRow(jobs[j]) /\ jobs'[j].status = "Running" /\ jobs'[j].dealCid = 0
  BY <1>0, <1>1 DEF TickJobs, TickJobsOf, TaskRow
<1>2. ASSUME NEW b \in Bids, bid[b].pc = "save", bid[b].job = j, jobs'[j] = bid[b].row
      PROVE  /\ jobs[j].dealCid = 0 /\ jobs[j].status # "Completed"
             /\ jobs'[j].status = "Running" /\ jobs'[j].uuid = jobs[j].uuid
             /\ jobs'[j].dealCid = jobs[j].uuid /\ IsSent(jobs[j].uuid, tasks)
  <2>1. BidJobsOf(bid[b], jobs, tasks)
    BY <1>0 DEF BidJobs
  <2>2. /\ jobs[j].dealCid = 0 /\ IsSent(jobs[j].uuid, tasks)
        /\ jobs'[j] = [jobs[j] EXCEPT !.status = "Running", !.dealCid = jobs[j].uuid]
    BY <1>2, <2>1 DEF BidJobsOf
  <2>3. jobs[j].status # "Completed"
    BY <2>2 DEF RowsOK, RowOK
  <2>4. QED
    BY <1>6, <2>2, <2>3 DEF Job
<1>3. ASSUME NEW b \in Bids, FoundActive(b, j),
             jobs'[j] = [bid[b].found[j] EXCEPT !.status = "Completed"]
      PROVE  /\ jobs'[j].status = "Completed" /\ jobs'[j].uuid = jobs[j].uuid
             /\ jobs'[j].dealCid = jobs[j].dealCid
  <2>1. bid[b].found[j] = jobs[j]
    BY <1>0, <1>3 DEF BidJobs, BidJobsOf, FoundActive
  <2>2. QED
    BY <1>6, <1>3, <2>1 DEF Job
<1>4. j \in DOMAIN jobs'
  BY TypedStep, JobsGrow, Lengths DEF Typed
<1>5. QED
  BY <1>1, <1>2, <1>3, <1>4, JobsCome

LEMMA RecordedAreSentStep ==
  /\ Typed /\ RowsOK /\ TickJobs /\ BidJobs /\ RecordedAreSent /\ [Next]_vars
  => RecordedAreSent'
<1> SUFFICES ASSUME Typed, RowsOK, TickJobs, BidJobs, RecordedAreSent, [Next]_vars,
                    ~overlapped', NEW j \in DOMAIN jobs', jobs'[j].dealCid # 0
             PROVE  IsSent(jobs'[j].dealCid, tasks')
  BY DEF RecordedAreSent
<1>0. ~overlapped
  BY OverlapStays
<1>1. CASE j \in DOMAIN jobs
  <2>1. \/ jobs'[j].dealCid = jobs[j].dealCid
        \/ IsSent(jobs'[j].dealCid, tasks)
    BY <1>1, JobsAlone
  <2>2. IsSent(jobs'[j].dealCid, tasks)
    BY <1>0, <1>1, <2>1 DEF RecordedAreSent
  <2>3. QED
    BY <2>2, SentStays
<1>2. CASE j \notin DOMAIN jobs
  <2>1. ASSUME NEW t \in Ticks, tick[t].pc = "task", tick[t].job = j PROVE FALSE
    BY <1>2, <2>1, TickFacts, Lengths DEF TickRefers, Typed
  <2>2. ASSUME NEW b \in Bids, bid[b].pc = "save", bid[b].job = j PROVE FALSE
    BY <1>2, <2>2, BidFacts, Lengths DEF BidRefers, Typed
  <2>3. ASSUME NEW b \in Bids, FoundActive(b, j), CheckDealStatus(b) PROVE FALSE
    BY <1>2, <2>3, FoundRow DEF FoundActive
  <2>4. NewRow(jobs'[j])
    BY <1>2, <2>1, <2>2, <2>3, JobsCome
  <2>5. QED
    BY <2>4 DEF NewRow
<1>3. QED
  BY <1>1, <1>2

LEMMA BidJobsStep ==
  /\ Typed /\ RowsOK /\ Alone /\ TickJobs /\ BidJobs /\ RecordedAreSent /\ [Next]_vars
  => BidJobs'
<1> SUFFICES ASSUME Typed, RowsOK, Alone, TickJobs, BidJobs, RecordedAreSent, [Next]_vars,
                    ~overlapped', NEW b \in Bids
             PROVE  BidJobsOf(bid'[b], jobs', tasks')
  BY DEF BidJobs
<1>0. bid \in [Bids -> BidStates] /\ bid[b] \in BidStates /\ IdleBid.pc = "idle"
  BY BidFacts DEF IdleBid
<1>10. ~overlapped /\ BidJobsOf(bid[b], jobs, tasks)
  BY OverlapStays DEF BidJobs
<1>11. ASSUME NEW s, s.pc = "idle" PROVE BidJobsOf(s, jobs', tasks')
  BY <1>11 DEF BidJobsOf
<1>1. CASE bid'[b] = bid[b]
  <2>1. CASE bid[b].pc = "idle"
    BY <1>1, <1>11, <2>1
  <2>2. CASE bid[b].pc # "idle"
    <3>1. jobs' = jobs
      BY <1>1, <2>2, JobsWait
    <3>2. QED
      BY <1>1, <1>10, <3>1, SentStays DEF BidJobsOf
  <2>3. QED
    BY <2>1, <2>2
<1>2. CASE bid'[b] = IdleBid
  BY <1>2, <1>0, <1>11
<1>3. CASE SendAutoBidDeals(b)
  <2> DEFINE assigned == {u \in DOMAIN tasks : tasks[u].state = "assigned"}
  <2>1. bid'[b].pc = "record" /\ bid'[b].left = assigned /\ jobs' = jobs
    BY <1>3, <1>0 DEF SendAutoBidDeals, BidStates
  <2>2. \A u \in assigned : IsSent(u, tasks')
    <3>1. ASSUME NEW u \in assigned PROVE IsSent(u, tasks')
      <4>1. tasks[u] \in Task
        BY DEF Typed, Tables
      <4>2. u \in DOMAIN tasks' /\ tasks'[u] = [tasks[u] EXCEPT !.state = "sent"]
        BY <1>3 DEF SendAutoBidDeals
      <4>3. QED
        BY <4>1, <4>2 DEF IsSent, Task
    <3>2. QED
      BY <3>1
  <2>3. \A u \in assigned, j \in DOMAIN jobs : jobs[j].dealCid # u
    <3>1. \A u \in assigned : u # 0 /\ ~IsSent(u, tasks)
      BY Lengths DEF IsSent, Typed
    <3>2. QED
      BY <1>10, <3>1 DEF RecordedAreSent
  <2>4. QED
    BY <2>1, <2>2, <2>3 DEF BidJobsOf
<1>4. CASE FindSentJob(b)
  <2>1. bid[b].pc = "record" /\ jobs' = jobs /\ tasks' = tasks
    BY <1>4 DEF FindSentJob
  <2>2. ASSUME NEW u \in bid[b].left, bid' = [bid EXCEPT ![b].left = @ \ {u}]
        PROVE  BidJobsOf(bid'[b], jobs', tasks')
    <3>1. bid'[b].pc = "record" /\ bid'[b].left = bid[b].left \ {u}
      BY <1>0, <2>1, <2>2 DEF BidStates
    <3>2. QED
      BY <1>10, <2>1, <3>1 DEF BidJobsOf
  <2>3. ASSUME NEW u \in bid[b].left, NEW j \in WithUuid(u),
               bid' = [bid EXCEPT ![b].pc = "save", ![b].left = @ \ {u}, ![b].job = j,
                         ![b].row = [jobs[j] EXCEPT !.status = "Running", !.dealCid = u]]
        PROVE  BidJobsOf(bid'[b], jobs', tasks')
    <3>1. /\ bid'[b].pc = "save" /\ bid'[b].left = bid[b].left \ {u} /\ bid'[b].job = j
          /\ bid'[b].row = [jobs[j] EXCEPT !.status = "Running", !.dealCid = u]
      BY <1>0, <2>1, <2>3 DEF BidStates
    <3>2. j \in DOMAIN jobs /\ jobs[j].uuid = u
      BY DEF WithUuid
    <3>3. jobs[j].dealCid = 0
      BY <1>10, <2>1, <3>2 DEF RowsOK, RowOK, BidJobsOf
    <3>4. QED
      BY <1>10, <2>1, <3>1, <3>2, <3>3 DEF BidJobsOf
  <2>4. QED
    BY <1>4, <2>2, <2>3 DEF FindSentJob
<1>5. CASE SaveSentJob(b)
  <2>1. /\ bid'[b].pc = "record" /\ bid'[b].left = bid[b].left
        /\ bid[b].pc = "save" /\ tasks' = tasks
        /\ jobs' = [jobs EXCEPT ![bid[b].job] = bid[b].row]
    BY <1>5, <1>0 DEF SaveSentJob, BidStates
  <2>2. bid[b].job \in DOMAIN jobs /\ jobs[bid[b].job] \in Job
    BY <2>1, BidFacts, Lengths, RowTypes DEF BidRefers, Typed
  <2>3. bid[b].row.dealCid = jobs[bid[b].job].uuid
    BY <1>10, <2>1, <2>2 DEF BidJobsOf, Job
  <2>4. ASSUME NEW u \in bid[b].left, NEW j \in DOMAIN jobs' PROVE jobs'[j].dealCid # u
    BY <1>10, <2>1, <2>3 DEF BidJobsOf
  <2>5. QED
    BY <1>10, <2>1, <2>4 DEF BidJobsOf
<1>6. CASE FindJobs(b)
  <2>1. jobs' = jobs
    BY <1>6 DEF FindJobs
  <2>2. \/ bid'[b] = IdleBid
        \/ bid'[b].pc = "check" /\ bid'[b].found = jobs
    BY <1>6, <1>0 DEF FindJobs, BidStates
  <2>3. QED
    BY <1>2, <2>1, <2>2 DEF BidJobsOf
<1>7. CASE CheckDealStatus(b)
  <2>1. PICK j \in bid[b].left :
          /\ jobs' = IF tasks[bid[b].found[j].dealCid].state = "active"
                     THEN [jobs EXCEPT ![j] = [bid[b].found[j] EXCEPT !.status = "Completed"]]
                     ELSE jobs
          /\ bid' = [bid EXCEPT ![b] = IF @.left = {j} THEN IdleBid
                                       ELSE [bid[b] EXCEPT !.left = @ \ {j}]]
    BY <1>7 DEF CheckDealStatus
  <2>2. bid[b].pc = "check"
    BY <1>7 DEF CheckDealStatus
  <2>3. \/ bid'[b] = IdleBid
        \/ /\ bid'[b].pc = "check" /\ bid'[b].left = bid[b].left \ {j}
           /\ bid'[b].found = bid[b].found
    BY <1>0, <2>1, <2>2 DEF BidStates
  <2>4. \A i \in bid[b].left : i \in DOMAIN jobs
    BY <2>2, FoundRow
  <2>5. \A i \in DOMAIN jobs : i # j => jobs'[i] = jobs[i]
    BY <2>1
  <2>6. QED
    BY <1>2, <1>10, <2>2, <2>3, <2>4, <2>5 DEF BidJobsOf
<1>8. CASE CheckDealFails(b)
  BY <1>8, <1>2, <1>0 DEF CheckDealFails
<1>9. QED
  BY <1>1, <1>2, <1>3, <1>4, <1>5, <1>6, <1>7, <1>8, BidComes DEF BidStep

----------------------------------------------------------------------------
(* Status.                                                                 *)

LEMMA DealsInit ==
  Init => IdleHasNone /\ TickJobs /\ RecordedAreSent /\ BidJobs /\ TasksKnown
<1> SUFFICES ASSUME Init
             PROVE  IdleHasNone /\ TickJobs /\ RecordedAreSent /\ BidJobs /\ TasksKnown
  OBVIOUS
<1>1. DOMAIN jobs = {} /\ DOMAIN tasks = {}
  BY DEF Init
<1>2. \A t \in Ticks : tick[t].pc = "idle" /\ tick[t].backups = {}
  BY DEF Init, IdleTick
<1>3. \A b \in Bids : bid[b].pc = "idle"
  BY DEF Init, IdleBid
<1>4. QED
  BY <1>1, <1>2, <1>3 DEF IdleHasNone, TickJobs, TickJobsOf, RecordedAreSent, BidJobs,
     BidJobsOf, TasksKnown

LEMMA Ranks ==
  Rank("Created") = 0 /\ Rank("Running") = 1 /\ Rank("Completed") = 2
BY DEF Rank

LEMMA RankAdvances ==
  ASSUME Typed, RowsOK, TickJobs, BidJobs, [Next]_vars, ~overlapped', NEW j \in DOMAIN jobs
  PROVE  Rank(jobs'[j].status) >= Rank(jobs[j].status)
<1>1. jobs[j].status \in {"Created", "Running", "Completed"}
  BY RowTypes DEF Job, JobStatus
<1>2. Rank(jobs[j].status) \in 0..2
  BY <1>1, Ranks
<1>3. CASE jobs'[j] = jobs[j]
  BY <1>2, <1>3
<1>4. CASE jobs'[j].status = "Running" /\ jobs[j].status # "Completed"
  BY <1>1, <1>4, Ranks
<1>5. CASE jobs'[j].status = "Completed"
  BY <1>1, <1>5, Ranks
<1>6. QED
  BY <1>3, <1>4, <1>5, JobsAlone DEF NewRow

\* While no two goroutines have overlapped, no late write takes a job back or
\* undoes what a request has made of a plan.
THEOREM StatusAdvances == Spec => StatusOnlyAdvances
<1>1. /\ Typed /\ RowsOK /\ TickJobs /\ BidJobs /\ [Next]_vars
      => [~overlapped' =>
           /\ \A j \in DOMAIN jobs : Rank(jobs'[j].status) >= Rank(jobs[j].status)
           /\ \A p \in DOMAIN plans : plans'[p].status # plans[p].status
                => \E r \in Requests : request[r].pc = "save" /\ request[r].plan = p]_vars
  <2> SUFFICES ASSUME Typed, RowsOK, TickJobs, BidJobs, [Next]_vars, ~overlapped'
               PROVE  /\ \A j \in DOMAIN jobs : Rank(jobs'[j].status) >= Rank(jobs[j].status)
                      /\ \A p \in DOMAIN plans : plans'[p].status # plans[p].status
                           => \E r \in Requests : request[r].pc = "save" /\ request[r].plan = p
    OBVIOUS
  <2>1. ASSUME NEW p \in DOMAIN plans, plans'[p].status # plans[p].status
        PROVE  \E r \in Requests : request[r].pc = "save" /\ request[r].plan = p
    <3>1. ASSUME NEW t \in Ticks, SavePlan(t), tick[t].plan = p,
                 plans'[p] = [tick[t].row EXCEPT !.lastBackupOn = clock]
          PROVE  plans'[p].status = plans[p].status
      <4>1. tick[t].row = plans[p]
        BY <3>1, OverlapStays DEF TickJobs, TickJobsOf, SavePlan
      <4>2. plans[p] \in Plan
        BY DEF Typed, Tables
      <4>3. QED
        BY <3>1, <4>1, <4>2 DEF Plan
    <3>2. QED
      BY <2>1, <3>1, PlansCome
  <2>2. QED
    BY <2>1, RankAdvances
<1>2. QED
  BY TypedInit, TypedStep, RowsInit, RowsStep, AloneInit, AloneStep, DealsInit,
     IdleHasNoneStep, TickJobsStep, RecordedAreSentStep, BidJobsStep, <1>1,
     PTL DEF Spec, StatusOnlyAdvances

----------------------------------------------------------------------------
(* Deals on record.                                                        *)

\* A task is new, or it was sent by an autobid tick, or it is no more sent
\* than before.
LEMMA TasksCome ==
  ASSUME Typed, [Next]_vars, NEW u \in DOMAIN tasks'
  PROVE  \/ \E t \in Ticks : /\ tick'[t].pc = "task" /\ tick'[t].uuid = u
                             /\ ~Sent(u)'
         \/ \E b \in Bids : /\ u \in DOMAIN tasks
                            /\ bid'[b].pc = "record" /\ u \in bid'[b].left
         \/ u \in DOMAIN tasks /\ (Sent(u)' => Sent(u))
<1>0. tasks \in Seq(Task) /\ Len(tasks) \in Nat /\ DOMAIN tasks = 1..Len(tasks)
  BY Lengths DEF Typed, Tables
<1>8. tasks' \in Seq(Task) /\ Len(tasks') \in Nat /\ DOMAIN tasks' = 1..Len(tasks')
  BY TypedStep, Lengths DEF Typed, Tables
<1>1. ASSUME NEW t \in Ticks, CreateTask(t)
      PROVE  \/ tick'[t].pc = "task" /\ tick'[t].uuid = u /\ ~Sent(u)'
             \/ u \in DOMAIN tasks /\ (Sent(u)' => Sent(u))
  <2>1. PICK k \in tick[t].backups :
          /\ tasks' = Append(tasks, [plan |-> k.plan, state |-> "open"])
          /\ tick' = [tick EXCEPT ![t].pc = "task", ![t].backups = @ \ {k},
                                  ![t].job = k.job, ![t].uuid = Len(tasks) + 1]
    BY <1>1 DEF CreateTask
  <2> DEFINE row == [plan |-> k.plan, state |-> "open"]
  <2>2. row \in Task /\ row.state = "open" /\ tasks' = Append(tasks, row)
    BY <2>1, TickFacts DEF TickStates, Task, TaskState
  <2>3. tick'[t].pc = "task" /\ tick'[t].uuid = Len(tasks) + 1
    BY <2>1, TickFacts DEF TickStates
  <2> HIDE DEF row
  <2>4. /\ Len(tasks') = Len(tasks) + 1 /\ tasks'[Len(tasks) + 1] = row
        /\ \A v \in 1..Len(tasks) : tasks'[v] = tasks[v]
    BY <1>0, <2>2, AppendProperties
  <2>5. u \in 1..Len(tasks) \/ u = Len(tasks) + 1
    BY <1>0, <1>8, <2>4
  <2>6. QED
    BY <1>0, <2>2, <2>3, <2>4, <2>5 DEF Sent
<1>2. ASSUME NEW b \in Bids, SendAutoBidDeals(b)
      PROVE  /\ u \in DOMAIN tasks
             /\ (bid'[b].pc = "record" /\ u \in bid'[b].left) \/ (Sent(u)' => Sent(u))
  <2>1. /\ bid'[b].pc = "record"
        /\ bid'[b].left = {v \in DOMAIN tasks : tasks[v].state = "assigned"}
    BY <1>2, BidFacts DEF SendAutoBidDeals, BidStates
  <2>2. /\ u \in DOMAIN tasks
        /\ u \notin {v \in DOMAIN tasks : tasks[v].state = "assigned"} => tasks'[u] = tasks[u]
    BY <1>2 DEF SendAutoBidDeals
  <2>3. QED
    BY <2>1, <2>2 DEF Sent
<1>3. ASSUME NEW from, NEW to, TaskMoves(from, to), to = "active" => from = "sent", to # "sent"
      PROVE  u \in DOMAIN tasks /\ (Sent(u)' => Sent(u))
  <2>1. PICK v \in DOMAIN tasks : /\ tasks[v].state = from
                                  /\ tasks' = [tasks EXCEPT ![v].state = to]
    BY <1>3 DEF TaskMoves
  <2>2. u \in DOMAIN tasks /\ tasks[u] \in Task
    BY <1>0, <2>1
  <2>3. tasks'[u] = IF u = v THEN [tasks[u] EXCEPT !.state = to] ELSE tasks[u]
    BY <2>1, <2>2
  <2>4. tasks'[u].state = IF u = v THEN to ELSE tasks[u].state
    BY <2>2, <2>3 DEF Task
  <2>5. QED
    BY <1>3, <2>1, <2>2, <2>4 DEF Sent
<1>4. SwanAssigns \/ DealActivates => u \in DOMAIN tasks /\ (Sent(u)' => Sent(u))
  BY <1>3 DEF SwanAssigns, DealActivates
<1>5. CASE UNCHANGED tasks
  BY <1>5 DEF Sent
<1>6. \/ UNCHANGED tasks \/ SwanAssigns \/ DealActivates
      \/ (\E t \in Ticks : CreateTask(t)) \/ (\E b \in Bids : SendAutoBidDeals(b))
  BY DEF Next, vars, TickStep, BidStep, ScanPlans, ReadPlan, SavePlan, CreateJob, LastJob,
     BackupFails, SaveBackupTask, FindSentJob, SaveSentJob, FindJobs, CheckDealStatus,
     CheckDealFails, UpdatePlanFirst, UpdatePlanSave, PsqlBackupVolumeAddPlan,
     PsqlBackupAddJob, ClockTick, Crash
<1>7. QED
  BY <1>1, <1>2, <1>4, <1>5, <1>6

LEMMA NoCrash == ASSUME Typed, [Next]_vars, crashes' = 0 PROVE crashes = 0 /\ ~Crash
<1>1. crashes \in Nat
  BY Bounds DEF Typed, Tables
<1>2. ~Crash
  BY <1>1 DEF Crash
<1>3. UNCHANGED crashes \/ Crash
  BY DEF Next, vars, TickStep, BidStep, ScanPlans, ReadPlan, SavePlan, CreateJob, LastJob,
     CreateTask, BackupFails, SaveBackupTask, SendAutoBidDeals, FindSentJob, SaveSentJob,
     FindJobs, CheckDealStatus, CheckDealFails, UpdatePlanFirst, UpdatePlanSave,
     PsqlBackupVolumeAddPlan, PsqlBackupAddJob, ClockTick, SwanAssigns, DealActivates,
     TaskMoves
<1>4. QED
  BY <1>2, <1>3

LEMMA HasTaskStays ==
  ASSUME Typed, RowsOK, TickJobs, BidJobs, [Next]_vars, ~overlapped', crashes' = 0,
         NEW u \in DOMAIN tasks, HasTask(u)
  PROVE  HasTask(u)'
<1>0. u # 0 /\ \A j \in DOMAIN jobs : j \in DOMAIN jobs'
  BY TypedStep, JobsGrow, Lengths DEF Typed
<1>1. ASSUME NEW j \in DOMAIN jobs, jobs[j].uuid = u PROVE jobs'[j].uuid = u
  BY <1>0, <1>1, JobsAlone DEF NewRow
<1>2. ASSUME NEW t \in Ticks, tick[t].pc = "task", tick[t].uuid = u
      PROVE  HasTask(u)'
  <2>1. CASE tick'[t] = tick[t]
    BY <1>2, <2>1 DEF HasTask
  <2>2. CASE TickStep(t)
    <3>1. SaveBackupTask(t)
      BY <1>2, <2>2 DEF TickStep, ScanPlans, ReadPlan, SavePlan, CreateJob, LastJob,
         CreateTask, BackupFails
    <3> DEFINE k == tick[t].job
               row == [jobs[k] EXCEPT !.status = "Running", !.uuid = tick[t].uuid, !.dealCid = 0]
    <3>2. jobs' = [jobs EXCEPT ![k] = row]
      BY <3>1 DEF SaveBackupTask
    <3>3. k \in DOMAIN jobs /\ jobs[k] \in Job
      BY <1>2, TickFacts, Lengths, RowTypes DEF TickRefers, Typed
    <3>4. row.uuid = u
      BY <1>2, <3>3 DEF Job
    <3> HIDE DEF row
    <3>5. k \in DOMAIN jobs' /\ jobs'[k].uuid = u
      BY <3>2, <3>3, <3>4
    <3>6. QED
      BY <3>5 DEF HasTask
  <2>3. QED
    BY <2>1, <2>2, TickComes, NoCrash
<1>3. QED
  BY <1>0, <1>1, <1>2 DEF HasTask

LEMMA DealStays ==
  ASSUME Typed, RowsOK, Alone, TickJobs, BidJobs, [Next]_vars, ~overlapped', crashes' = 0,
         NEW u \in DOMAIN tasks, HasTask(u), Recorded(u) \/ InHand(u)
  PROVE  (Recorded(u) \/ InHand(u))'
<1>0. u # 0 /\ \A j \in DOMAIN jobs : j \in DOMAIN jobs'
  BY TypedStep, JobsGrow, Lengths DEF Typed
<1>5. ~overlapped
  BY OverlapStays
<1>1. ASSUME NEW j \in DOMAIN jobs, jobs[j].uuid = u, jobs[j].dealCid = u
      PROVE  j \in DOMAIN jobs' /\ jobs'[j].uuid = u /\ jobs'[j].dealCid = u
  BY <1>0, <1>1, JobsAlone DEF NewRow
<1>2. ASSUME NEW b \in Bids, bid[b].pc \in {"record", "save"},
             \/ u \in bid[b].left
             \/ bid[b].pc = "save" /\ bid[b].row.uuid = u
      PROVE  (Recorded(u) \/ InHand(u))'
  <2>0. bid \in [Bids -> BidStates] /\ bid[b] \in BidStates
    BY BidFacts
  <2>1. CASE bid'[b] = bid[b]
    BY <1>2, <2>1 DEF InHand
  <2>2. CASE FindSentJob(b)
    <3>0. bid[b].pc = "record" /\ u \in bid[b].left
      BY <1>2, <2>2 DEF FindSentJob
    <3>1. WithUuid(u) # {}
      BY <1>5, <3>0 DEF HasTask, Alone, WithUuid
    <3>2. ASSUME NEW v \in bid[b].left, WithUuid(v) = {},
                 bid' = [bid EXCEPT ![b].left = @ \ {v}]
          PROVE  bid'[b].pc = "record" /\ u \in bid'[b].left
      BY <2>0, <3>0, <3>1, <3>2 DEF BidStates
    <3>3. ASSUME NEW v \in bid[b].left, NEW j \in WithUuid(v),
                 bid' = [bid EXCEPT ![b].pc = "save", ![b].left = @ \ {v}, ![b].job = j,
                           ![b].row = [jobs[j] EXCEPT !.status = "Running", !.dealCid = v]]
          PROVE  bid'[b].pc = "save" /\ (u \in bid'[b].left \/ bid'[b].row.uuid = u)
      <4>1. /\ bid'[b].pc = "save" /\ bid'[b].left = bid[b].left \ {v}
            /\ bid'[b].row = [jobs[j] EXCEPT !.status = "Running", !.dealCid = v]
        BY <2>0, <3>3 DEF BidStates
      <4>2. jobs[j] \in Job /\ jobs[j].uuid = v
        BY RowTypes DEF WithUuid
      <4>3. bid'[b].row.uuid = v
        BY <4>1, <4>2 DEF Job
      <4>4. QED
        BY <3>0, <4>1, <4>3
    <3>4. \/ bid'[b].pc = "record" /\ u \in bid'[b].left
          \/ bid'[b].pc = "save" /\ (u \in bid'[b].left \/ bid'[b].row.uuid = u)
      BY <2>2, <3>2, <3>3 DEF FindSentJob
    <3>5. QED
      BY <3>4 DEF InHand
  <2>3. CASE SaveSentJob(b)
    <3>1. /\ bid'[b].pc = "record" /\ bid'[b].left = bid[b].left /\ bid[b].pc = "save"
          /\ jobs' = [jobs EXCEPT ![bid[b].job] = bid[b].row]
      BY <2>3, <2>0 DEF SaveSentJob, BidStates
    <3>2. CASE u \in bid[b].left
      BY <3>1, <3>2 DEF InHand
    <3>3. CASE bid[b].row.uuid = u
      <4>1. bid[b].job \in DOMAIN jobs /\ jobs[bid[b].job] \in Job
        BY <3>1, BidFacts, Lengths, RowTypes DEF BidRefers, Typed
      <4>2. bid[b].row = [jobs[bid[b].job] EXCEPT !.status = "Running",
                                                  !.dealCid = jobs[bid[b].job].uuid]
        BY <1>5, <3>1 DEF BidJobs, BidJobsOf
      <4>3. bid[b].row.dealCid = u
        BY <3>3, <4>1, <4>2 DEF Job
      <4>4. bid[b].job \in DOMAIN jobs' /\ jobs'[bid[b].job] = bid[b].row
        BY <3>1, <4>1
      <4>5. QED
        BY <3>3, <4>3, <4>4 DEF Recorded
    <3>4. QED
      BY <1>2, <3>2, <3>3
  <2>4. ~SendAutoBidDeals(b) /\ ~FindJobs(b) /\ ~CheckDealStatus(b) /\ ~CheckDealFails(b)
    <3>1. ASSUME FindJobs(b) PROVE FALSE
      BY <1>2, <3>1 DEF FindJobs
    <3>2. QED
      BY <1>2, <3>1 DEF SendAutoBidDeals, CheckDealStatus, CheckDealFails
  <2>5. QED
    BY <2>1, <2>2, <2>3, <2>4, BidComes, NoCrash DEF BidStep
<1>3. CASE Recorded(u)
  BY <1>1, <1>3 DEF Recorded
<1>4. QED
  BY <1>2, <1>3 DEF InHand

LEMMA TasksKnownStep ==
  /\ Typed /\ RowsOK /\ Alone /\ TickJobs /\ BidJobs /\ TasksKnown /\ [Next]_vars
  => TasksKnown'
<1> SUFFICES ASSUME Typed, RowsOK, Alone, TickJobs, BidJobs, TasksKnown, [Next]_vars,
                    ~overlapped', crashes' = 0, NEW u \in DOMAIN tasks'
             PROVE  HasTask(u)' /\ (Sent(u)' => (Recorded(u) \/ InHand(u))')
  BY DEF TasksKnown
<1>1. ~overlapped /\ crashes = 0
  BY OverlapStays, NoCrash
<1>2. CASE u \in DOMAIN tasks /\ (Sent(u)' => Sent(u))
  BY <1>1, <1>2, HasTaskStays, DealStays DEF TasksKnown
<1>3. ASSUME NEW b \in Bids, u \in DOMAIN tasks, bid'[b].pc = "record", u \in bid'[b].left
      PROVE  HasTask(u)' /\ InHand(u)'
  BY <1>1, <1>3, HasTaskStays DEF TasksKnown, InHand
<1>4. ASSUME NEW t \in Ticks, tick'[t].pc = "task", tick'[t].uuid = u, ~Sent(u)'
      PROVE  HasTask(u)' /\ ~Sent(u)'
  BY <1>4 DEF HasTask
<1>5. QED
  BY <1>2, <1>3, <1>4, TasksCome

\* While no two goroutines have overlapped and the process has not died,
\* every deal sent is in the row of a job once nothing runs.
THEOREM DealsAreRecorded == Spec => []DealsRecordedAlone
<1>1. TasksKnown => DealsRecordedAlone
  <2> SUFFICES ASSUME TasksKnown, AllIdle, ~overlapped, crashes = 0,
                      NEW u \in DOMAIN tasks, Sent(u)
               PROVE  Recorded(u)
    BY DEF DealsRecordedAlone
  <2>1. \A b \in Bids : bid[b].pc = "idle"
    BY DEF AllIdle, IdleBid
  <2>2. QED
    BY <2>1 DEF TasksKnown, InHand
<1>2. QED
  BY TypedInit, TypedStep, RowsInit, RowsStep, AloneInit, AloneStep, DealsInit,
     IdleHasNoneStep, TickJobsStep, RecordedAreSentStep, BidJobsStep, TasksKnownStep, <1>1,
     PTL DEF Spec

(***************************************************************************)
(* As long as no two goroutines overlap, a plan has at most one task for   *)
(* each interval since it was created, for any number of goroutines, any   *)
(* interval and any bounds.                                                *)
(***************************************************************************)

----------------------------------------------------------------------------
(* The inductive invariant.                                                *)

TasksOf(p) == {u \in DOMAIN tasks : tasks[u].plan = p}
SinceOf(row) == IF row.lastBackupOn # 0 THEN row.lastBackupOn ELSE row.createdOn

\* The tick will create a task for the plan p, whose LastBackupOn it has saved.
Owes(s, p) == \/ s.pc \in {"touch", "save"} /\ p \in s.due \ s.left
              \/ s.pc \in {"add", "last"} /\ p \in s.left
              \/ \E k \in s.backups : k.plan = p

\* Plans of ticks and tasks are there.
PlansKnown ==
    /\ \A u \in DOMAIN tasks : tasks[u].plan \in DOMAIN plans
    /\ \A t \in Ticks : /\ tick[t].due \cup tick[t].left \subseteq DOMAIN plans
                        /\ \A k \in tick[t].backups : k.plan \in DOMAIN plans

\* A tick has each plan once.
PlansOnceOf(s) ==
    /\ s.pc \in {"save", "last"} => s.plan \in s.left
    /\ s.pc \in {"touch", "save"} => s.backups = {}
    /\ s.pc \in {"add", "last"} => \A k \in s.backups : k.plan \notin s.left
    /\ \A k, l \in s.backups : k.plan = l.plan => k = l
PlansOnce == \A t \in Ticks : PlansOnceOf(tick[t])

\* A request about to save has read the times that are there.
RequestTimes ==
    ~overlapped =>
       \A r \in Requests : request[r].pc = "save" =>
          /\ request[r].row.createdOn = plans[request[r].plan].createdOn
          /\ request[r].row.lastBackupOn = plans[request[r].plan].lastBackupOn

\* An interval for each task, and one more for a task to come.
OnceOf(p) ==
    LET row == plans[p]
        n == Cardinality(TasksOf(p))
    IN  /\ row.createdOn <= SinceOf(row) /\ SinceOf(row) <= clock
        /\ n * Interval <= SinceOf(row) - row.createdOn
        /\ \A t \in Ticks :
             /\ Owes(tick[t], p) => (n + 1) * Interval <= SinceOf(row) - row.createdOn
             /\ tick[t].pc \in {"touch", "save"} /\ p \in tick[t].left
                  => SinceOf(row) + Interval <= clock
Once == ~overlapped => \A p \in DOMAIN plans : OnceOf(p)

----------------------------------------------------------------------------
(* What a tick does with its plans.                                        *)

\* Where a loop over the plans leads to, in full.
LEMMA SaveLoop ==
  ASSUME Typed, NEW t \in Ticks, SavePlan(t)
  PROVE  /\ tick[t].pc = "save"
         /\ tick'[t].due = tick[t].due /\ tick'[t].backups = tick[t].backups
         /\ IF tick[t].left = {tick[t].plan}
            THEN tick'[t].pc = "add" /\ tick'[t].left = tick[t].due
            ELSE tick'[t].pc = "touch" /\ tick'[t].left = tick[t].left \ {tick[t].plan}
<1>0. tick \in [Ticks -> TickStates] /\ tick[t] \in TickStates /\ tick[t].pc = "save"
  BY TickFacts DEF SavePlan
<1> DEFINE then == [IdleTick EXCEPT !.pc = "add", !.due = tick[t].due, !.left = tick[t].due]
<1>1. tick'[t] = Advance(tick[t], "touch", then)
  BY <1>0 DEF SavePlan
<1>2. /\ then \in TickStates /\ then.pc = "add"
      /\ then.due = tick[t].due /\ then.left = tick[t].due
  BY <1>0, IdleStates DEF TickStates
<1> HIDE DEF then
<1>3. CASE tick[t].left = {tick[t].plan}
  <2>1. tick'[t] = [then EXCEPT !.backups = tick[t].backups]
    BY <1>1, <1>3 DEF Advance
  <2>2. QED
    BY <1>0, <1>2, <1>3, <2>1 DEF TickStates
<1>4. CASE tick[t].left # {tick[t].plan}
  <2>1. tick'[t] = [tick[t] EXCEPT !.pc = "touch", !.left = tick[t].left \ {tick[t].plan},
                                   !.plan = 1, !.row = NoPlan]
    BY <1>1, <1>4 DEF Advance
  <2>2. QED
    BY <1>0, <1>4, <2>1 DEF TickStates
<1>5. QED
  BY <1>3, <1>4

LEMMA LastLoop ==
  ASSUME Typed, NEW t \in Ticks, LastJob(t)
  PROVE  /\ tick[t].pc = "last"
         /\ tick'[t].backups =
              tick[t].backups \cup {[job |-> Len(jobs), plan |-> tick[t].plan]}
         /\ IF tick[t].left = {tick[t].plan}
            THEN tick'[t].pc = "backup" /\ tick'[t].left = {} /\ tick'[t].due = {}
            ELSE /\ tick'[t].pc = "add" /\ tick'[t].left = tick[t].left \ {tick[t].plan}
                 /\ tick'[t].due = tick[t].due
<1>0. tick \in [Ticks -> TickStates] /\ tick[t] \in TickStates /\ tick[t].pc = "last"
  BY TickFacts DEF LastJob
<1> DEFINE then == [IdleTick EXCEPT !.pc = "backup"]
           next == Advance(tick[t], "add", then)
           backup == [job |-> Len(jobs), plan |-> tick[t].plan]
<1>1. tick'[t] = [next EXCEPT !.backups = @ \cup {backup}]
  BY <1>0 DEF LastJob
<1>2. then \in TickStates /\ then.pc = "backup" /\ then.left = {} /\ then.due = {}
  BY IdleStates DEF TickStates, IdleTick
<1>3. /\ next \in TickStates
      /\ IF tick[t].left = {tick[t].plan}
         THEN next.pc = "backup" /\ next.left = {} /\ next.due = {}
         ELSE /\ next.pc = "add" /\ next.left = tick[t].left \ {tick[t].plan}
              /\ next.due = tick[t].due
  <2>1. next \in TickStates
    BY <1>0, <1>2, TickFacts, AdvanceTyped, Lengths DEF Typed
  <2> HIDE DEF then
  <2>2. CASE tick[t].left = {tick[t].plan}
    <3>1. next = [then EXCEPT !.backups = tick[t].backups]
      BY <2>2 DEF Advance
    <3>2. QED
      BY <1>2, <2>1, <2>2, <3>1 DEF TickStates
  <2>3. CASE tick[t].left # {tick[t].plan}
    <3>1. next = [tick[t] EXCEPT !.pc = "add", !.left = tick[t].left \ {tick[t].plan},
                                 !.plan = 1, !.row = NoPlan]
      BY <2>3 DEF Advance
    <3>2. QED
      BY <1>0, <2>1, <2>3, <3>1 DEF TickStates
  <2>4. QED
    BY <2>2, <2>3, <2>1
<1> HIDE DEF next
<1>4. /\ tick'[t].pc = next.pc /\ tick'[t].left = next.left /\ tick'[t].due = next.due
  BY <1>1, <1>3 DEF TickStates
<1>5. QED
  BY <1>0, <1>3, <1>4, LoopStep

\* What the other steps change of the plans of a tick.
LEMMA PlanSteps ==
  ASSUME Typed, NEW t \in Ticks
  PROVE  /\ ScanPlans(t) => /\ tick[t].pc = "idle" /\ tick'[t].pc = "touch"
                            /\ tick'[t].due = DuePlans /\ tick'[t].left = DuePlans
                            /\ tick'[t].backups = tick[t].backups
         /\ ReadPlan(t) => /\ tick[t].pc = "touch" /\ tick'[t].pc = "save"
                           /\ tick'[t].plan \in tick[t].left
         /\ CreateJob(t) => /\ tick[t].pc = "add" /\ tick'[t].pc = "last"
                            /\ tick'[t].plan \in tick[t].left
         /\ ReadPlan(t) \/ CreateJob(t) =>
               /\ tick'[t].due = tick[t].due /\ tick'[t].left = tick[t].left
               /\ tick'[t].backups = tick[t].backups
         /\ CreateTask(t) => /\ tick[t].pc = "backup" /\ tick'[t].pc = "task"
                             /\ tick'[t].due = tick[t].due /\ tick'[t].left = tick[t].left
                             /\ tick'[t].backups \subseteq tick[t].backups
         /\ BackupFails(t) => tick'[t] = IdleTick
         /\ SaveBackupTask(t) => /\ tick[t].pc = "task"
                                 /\ \/ tick'[t] = IdleTick
                                    \/ /\ tick'[t].pc = "backup"
                                       /\ tick'[t].due = tick[t].due
                                       /\ tick'[t].left = tick[t].left
                                       /\ tick'[t].backups = tick[t].backups
<1>0. tick \in [Ticks -> TickStates] /\ tick[t] \in TickStates
  BY TickFacts
<1>1. ASSUME ScanPlans(t)
      PROVE  /\ tick[t].pc = "idle" /\ tick'[t].pc = "touch"
             /\ tick'[t].due = DuePlans /\ tick'[t].left = DuePlans
             /\ tick'[t].backups = tick[t].backups
  BY <1>0, <1>1 DEF ScanPlans, TickStates
<1>2. ASSUME ReadPlan(t)
      PROVE  /\ tick[t].pc = "touch" /\ tick'[t].pc = "save"
             /\ tick'[t].plan \in tick[t].left
             /\ tick'[t].due = tick[t].due /\ tick'[t].left = tick[t].left
             /\ tick'[t].backups = tick[t].backups
  BY <1>0, <1>2 DEF ReadPlan, TickStates
<1>3. ASSUME CreateJob(t)
      PROVE  /\ tick[t].pc = "add" /\ tick'[t].pc = "last"
             /\ tick'[t].plan \in tick[t].left
             /\ tick'[t].due = tick[t].due /\ tick'[t].left = tick[t].left
             /\ tick'[t].backups = tick[t].backups
  BY <1>0, <1>3 DEF CreateJob, TickStates
<1>4. ASSUME CreateTask(t)
      PROVE  /\ tick[t].pc = "backup" /\ tick'[t].pc = "task"
             /\ tick'[t].due = tick[t].due /\ tick'[t].left = tick[t].left
             /\ tick'[t].backups \subseteq tick[t].backups
  BY <1>0, <1>4 DEF CreateTask, TickStates
<1>5. BackupFails(t) => tick'[t] = IdleTick
  BY <1>0 DEF BackupFails
<1>6. ASSUME SaveBackupTask(t)
      PROVE  /\ tick[t].pc = "task"
             /\ \/ tick'[t] = IdleTick
                \/ /\ tick'[t].pc = "backup"
                   /\ tick'[t].due = tick[t].due /\ tick'[t].left = tick[t].left
                   /\ tick'[t].backups = tick[t].backups
  BY <1>0, <1>6 DEF SaveBackupTask, TickStates
<1>7. QED
  BY <1>1, <1>2, <1>3, <1>4, <1>5, <1>6

LEMMA PlansOnceStep == Typed /\ IdleHasNone /\ PlansOnce /\ [Next]_vars => PlansOnce'
<1> SUFFICES ASSUME Typed, IdleHasNone, PlansOnce, [Next]_vars, NEW t \in Ticks
             PROVE  PlansOnceOf(tick'[t])
  BY DEF PlansOnce
<1>0. PlansOnceOf(tick[t])
  BY DEF PlansOnce
<1>8. PlansOnceOf(IdleTick)
  BY DEF PlansOnceOf, IdleTick
<1>1. CASE SavePlan(t)
  BY <1>1, <1>0, SaveLoop DEF PlansOnceOf
<1>2. CASE LastJob(t)
  <2> DEFINE backup == [job |-> Len(jobs), plan |-> tick[t].plan]
  <2>1. backup.plan = tick[t].plan /\ tick'[t].backups = tick[t].backups \cup {backup}
    BY <1>2, LastLoop
  <2> HIDE DEF backup
  <2>2. QED
    BY <1>2, <1>0, <2>1, LastLoop DEF PlansOnceOf
<1>3. CASE ScanPlans(t)
  BY <1>3, PlanSteps DEF PlansOnceOf, IdleHasNone
<1>4. CASE ReadPlan(t) \/ CreateJob(t)
  BY <1>4, <1>0, PlanSteps DEF PlansOnceOf
<1>5. CASE CreateTask(t)
  BY <1>5, <1>0, PlanSteps DEF PlansOnceOf
<1>6. CASE BackupFails(t) \/ SaveBackupTask(t)
  BY <1>6, <1>0, <1>8, PlanSteps DEF PlansOnceOf
<1>7. QED
  BY <1>0, <1>8, <1>1, <1>2, <1>3, <1>4, <1>5, <1>6, TickComes DEF TickStep

----------------------------------------------------------------------------
(* Plans are there, and keep their times unless a tick saves them.         *)

LEMMA PlansGrow ==
  ASSUME Typed, [Next]_vars, NEW p \in DOMAIN plans
  PROVE  p \in DOMAIN plans'
<1>0. plans \in Seq(Plan) /\ Len(plans) \in Nat /\ DOMAIN plans = 1..Len(plans)
  BY Lengths DEF Typed, Tables
<1>1. ASSUME PsqlBackupVolumeAddPlan PROVE p \in DOMAIN plans'
  <2> DEFINE row == [status |-> "Enabled", createdOn |-> clock, lastBackupOn |-> 0]
  <2>1. row \in Plan /\ plans' = Append(plans, row)
    BY <1>1, Bounds DEF PsqlBackupVolumeAddPlan, Plan, PlanStatus, Typed, Tables
  <2> HIDE DEF row
  <2>2. QED
    BY <1>0, <2>1, AppendProperties
<1>2. ASSUME NEW t \in Ticks, SavePlan(t) PROVE p \in DOMAIN plans'
  BY <1>2 DEF SavePlan
<1>3. ASSUME NEW r \in Requests, UpdatePlanSave(r) PROVE p \in DOMAIN plans'
  BY <1>3 DEF UpdatePlanSave
<1>4. \/ UNCHANGED plans \/ PsqlBackupVolumeAddPlan
      \/ (\E t \in Ticks : SavePlan(t)) \/ (\E r \in Requests : UpdatePlanSave(r))
  BY DEF Next, vars, TickStep, BidStep, ScanPlans, ReadPlan, CreateJob, LastJob, CreateTask,
     BackupFails, SaveBackupTask, SendAutoBidDeals, FindSentJob, SaveSentJob, FindJobs,
     CheckDealStatus, CheckDealFails, UpdatePlanFirst, PsqlBackupAddJob, ClockTick,
     SwanAssigns, DealActivates, TaskMoves, Crash
<1>5. QED
  BY <1>1, <1>2, <1>3, <1>4

\* A task that is new is for the plan of a backup of the tick that creates it.
LEMMA TasksGrow ==
  ASSUME Typed, [Next]_vars
  PROVE  \/ /\ DOMAIN tasks' = DOMAIN tasks
            /\ \A u \in DOMAIN tasks : tasks'[u].plan = tasks[u].plan
         \/ \E t \in Ticks : \E k \in tick[t].backups :
              /\ CreateTask(t) /\ tick'[t].backups = tick[t].backups \ {k}
              /\ DOMAIN tasks' = DOMAIN tasks \cup {Len(tasks) + 1}
              /\ \A u \in DOMAIN tasks : tasks'[u].plan = tasks[u].plan
              /\ tasks'[Len(tasks) + 1].plan = k.plan
<1>0. tasks \in Seq(Task) /\ Len(tasks) \in Nat /\ DOMAIN tasks = 1..Len(tasks)
  BY Lengths DEF Typed, Tables
<1>6. \A u \in DOMAIN tasks : tasks'[u].plan = tasks[u].plan
  BY TasksAdvance DEF Later
<1>1. ASSUME NEW t \in Ticks, CreateTask(t)
      PROVE  \E k \in tick[t].backups :
              /\ tick'[t].backups = tick[t].backups \ {k}
              /\ DOMAIN tasks' = DOMAIN tasks \cup {Len(tasks) + 1}
              /\ tasks'[Len(tasks) + 1].plan = k.plan
  <2>1. PICK k \in tick[t].backups :
          /\ tasks' = Append(tasks, [plan |-> k.plan, state |-> "open"])
          /\ tick' = [tick EXCEPT ![t].pc = "task", ![t].backups = @ \ {k},
                                  ![t].job = k.job, ![t].uuid = Len(tasks) + 1]
    BY <1>1 DEF CreateTask
  <2> DEFINE row == [plan |-> k.plan, state |-> "open"]
  <2>2. row \in Task /\ row.plan = k.plan /\ tasks' = Append(tasks, row)
    BY <2>1, TickFacts DEF TickStates, Task, TaskState
  <2>3. tick'[t].backups = tick[t].backups \ {k}
    BY <2>1, TickFacts DEF TickStates
  <2> HIDE DEF row
  <2>4. /\ tasks' \in Seq(Task) /\ Len(tasks') = Len(tasks) + 1
        /\ tasks'[Len(tasks) + 1] = row
    BY <1>0, <2>2, AppendProperties
  <2>5. DOMAIN tasks' = 1..(Len(tasks) + 1)
    BY <2>4
  <2>6. DOMAIN tasks' = DOMAIN tasks \cup {Len(tasks) + 1}
    BY <1>0, <2>5
  <2>7. QED
    BY <2>2, <2>3, <2>4, <2>6
<1>2. ASSUME NEW b \in Bids, SendAutoBidDeals(b) PROVE DOMAIN tasks' = DOMAIN tasks
  BY <1>2 DEF SendAutoBidDeals
<1>3. ASSUME NEW from, NEW to, TaskMoves(from, to) PROVE DOMAIN tasks' = DOMAIN tasks
  BY <1>3 DEF TaskMoves
<1>4. \/ UNCHANGED tasks \/ SwanAssigns \/ DealActivates
      \/ (\E t \in Ticks : CreateTask(t)) \/ (\E b \in Bids : SendAutoBidDeals(b))
  BY DEF Next, vars, TickStep, BidStep, ScanPlans, ReadPlan, SavePlan, CreateJob, LastJob,
     BackupFails, SaveBackupTask, FindSentJob, SaveSentJob, FindJobs, CheckDealStatus,
     CheckDealFails, UpdatePlanFirst, UpdatePlanSave, PsqlBackupVolumeAddPlan,
     PsqlBackupAddJob, ClockTick, Crash
<1>5. QED
  BY <1>6, <1>1, <1>2, <1>3, <1>4 DEF SwanAssigns, DealActivates

LEMMA PlansKnownStep == Typed /\ PlansOnce /\ PlansKnown /\ [Next]_vars => PlansKnown'
<1> SUFFICES ASSUME Typed, PlansOnce, PlansKnown, [Next]_vars PROVE PlansKnown'
  OBVIOUS
<1>0. DOMAIN plans \subseteq DOMAIN plans'
  BY PlansGrow
<1>1. \A u \in DOMAIN tasks' : tasks'[u].plan \in DOMAIN plans'
  BY <1>0, TasksGrow DEF PlansKnown
<1>2. ASSUME NEW t \in Ticks
      PROVE  /\ tick'[t].due \cup tick'[t].left \subseteq DOMAIN plans
             /\ \A k \in tick'[t].backups : k.plan \in DOMAIN plans
  <2>0. /\ tick[t].due \cup tick[t].left \subseteq DOMAIN plans
        /\ \A k \in tick[t].backups : k.plan \in DOMAIN plans
    BY DEF PlansKnown
  <2>8. IdleTick.due = {} /\ IdleTick.left = {} /\ IdleTick.backups = {}
    BY DEF IdleTick
  <2>1. CASE SavePlan(t)
    BY <2>1, <2>0, SaveLoop
  <2>2. CASE LastJob(t)
    <3> DEFINE backup == [job |-> Len(jobs), plan |-> tick[t].plan]
    <3>1. backup.plan = tick[t].plan /\ tick'[t].backups = tick[t].backups \cup {backup}
      BY <2>2, LastLoop
    <3>2. tick[t].plan \in DOMAIN plans
      BY <2>2, <2>0, LastLoop DEF PlansOnce, PlansOnceOf
    <3> HIDE DEF backup
    <3>3. QED
      BY <2>2, <2>0, <3>1, <3>2, LastLoop
  <2>3. CASE ScanPlans(t)
    BY <2>3, <2>0, PlanSteps DEF DuePlans
  <2>4. CASE ReadPlan(t) \/ CreateJob(t)
    BY <2>4, <2>0, PlanSteps
  <2>5. CASE CreateTask(t)
    BY <2>5, <2>0, PlanSteps
  <2>6. CASE BackupFails(t) \/ SaveBackupTask(t)
    BY <2>6, <2>0, <2>8, PlanSteps
  <2>7. QED
    BY <2>0, <2>8, <2>1, <2>2, <2>3, <2>4, <2>5, <2>6, TickComes DEF TickStep
<1>3. QED
  BY <1>0, <1>1, <1>2 DEF PlansKnown

SameTimes(p) == /\ plans'[p].createdOn = plans[p].createdOn
                /\ plans'[p].lastBackupOn = plans[p].lastBackupOn

LEMMA PlanTimes ==
  ASSUME Typed, TickJobs, RequestTimes, [Next]_vars, ~overlapped', NEW p \in DOMAIN plans
  PROVE  \/ SameTimes(p) /\ ~\E t \in Ticks : SavePlan(t) /\ tick[t].plan = p
         \/ \E t \in Ticks : /\ SavePlan(t) /\ tick[t].plan = p
                             /\ plans'[p].createdOn = plans[p].createdOn
                             /\ plans'[p].lastBackupOn = clock
<1>0. ~overlapped
  BY OverlapStays
<1>5. plans[p] \in Plan
  BY DEF Typed, Tables
<1>1. ASSUME NEW t \in Ticks, SavePlan(t), tick[t].plan = p
      PROVE  plans'[p].createdOn = plans[p].createdOn /\ plans'[p].lastBackupOn = clock
  <2>1. tick[t].row = plans[p]
    BY <1>0, <1>1 DEF TickJobs, TickJobsOf, SavePlan
  <2>2. plans'[p] = [plans[p] EXCEPT !.lastBackupOn = clock]
    BY <1>1, <2>1 DEF SavePlan
  <2>3. QED
    BY <1>5, <2>2 DEF Plan
<1>2. ASSUME NEW r \in Requests, request[r].pc = "save", request[r].plan = p,
             plans'[p] = [request[r].row EXCEPT !.status = request[r].status]
      PROVE  SameTimes(p)
  <2>1. request[r].row \in Plan
    BY DEF Typed, RequestsOK, RequestStates
  <2>2. /\ request[r].row.createdOn = plans[p].createdOn
        /\ request[r].row.lastBackupOn = plans[p].lastBackupOn
    BY <1>0, <1>2 DEF RequestTimes
  <2>3. QED
    BY <1>2, <2>1, <2>2 DEF Plan, SameTimes
<1>3. plans'[p] = plans[p] => SameTimes(p)
  BY DEF SameTimes
<1>4. QED
  BY <1>1, <1>2, <1>3, PlansCome

LEMMA RequestTimesStep ==
  Typed /\ Alone /\ TickJobs /\ RequestTimes /\ [Next]_vars => RequestTimes'
<1> SUFFICES ASSUME Typed, Alone, TickJobs, RequestTimes, [Next]_vars, ~overlapped',
                    NEW r \in Requests, request'[r].pc = "save"
             PROVE  /\ request'[r].row.createdOn = plans'[request'[r].plan].createdOn
                    /\ request'[r].row.lastBackupOn = plans'[request'[r].plan].lastBackupOn
  BY DEF RequestTimes
<1>0. ~overlapped /\ request \in [Requests -> RequestStates]
  BY OverlapStays DEF Typed, RequestsOK
<1>1. CASE request'[r] = request[r]
  <2>1. request[r].plan \in DOMAIN plans
    BY <1>1, Lengths DEF Typed, RequestsOK, RequestRefers
  <2>2. ~\E t \in Ticks : SavePlan(t)
    BY <1>0, <1>1 DEF Alone, SavePlan
  <2>3. SameTimes(request[r].plan)
    BY <2>1, <2>2, PlanTimes
  <2>4. QED
    BY <1>0, <1>1, <2>3 DEF RequestTimes, SameTimes
<1>2. CASE Crash
  BY <1>1, <1>2 DEF Crash, Served, NewRequest
<1>3. ASSUME NEW k \in Requests, UpdatePlanSave(k) PROVE request'[r] = request[r]
  BY <1>0, <1>3 DEF UpdatePlanSave, Served, NewRequest
<1>4. ASSUME NEW k \in Requests, UpdatePlanFirst(k)
      PROVE  request'[r] = request[r] \/ (UNCHANGED plans
                                          /\ request'[r].row = plans[request'[r].plan])
  BY <1>0, <1>4 DEF UpdatePlanFirst
<1>5. CASE UNCHANGED request
  BY <1>1, <1>5
<1>6. \/ UNCHANGED request \/ Crash
      \/ \E k \in Requests : UpdatePlanFirst(k) \/ UpdatePlanSave(k)
  BY DEF Next, vars, TickStep, BidStep, ScanPlans, ReadPlan, SavePlan, CreateJob, LastJob,
     CreateTask, BackupFails, SaveBackupTask, SendAutoBidDeals, FindSentJob, SaveSentJob,
     FindJobs, CheckDealStatus, CheckDealFails, PsqlBackupVolumeAddPlan, PsqlBackupAddJob,
     ClockTick, SwanAssigns, DealActivates, TaskMoves
<1>7. QED
  BY <1>1, <1>2, <1>3, <1>4, <1>5, <1>6

----------------------------------------------------------------------------
(* An interval for each task.                                              *)

LEMMA Counts ==
  ASSUME Typed, NEW p
  PROVE  /\ IsFiniteSet(TasksOf(p)) /\ Cardinality(TasksOf(p)) \in Nat
         /\ Len(tasks) + 1 \notin TasksOf(p)
<1>1. Len(tasks) \in Nat /\ DOMAIN tasks = 1..Len(tasks)
  BY Lengths DEF Typed
<1>2. IsFiniteSet(1..Len(tasks))
  BY <1>1, FS_Interval
<1>3. TasksOf(p) \in SUBSET (1..Len(tasks))
  BY <1>1 DEF TasksOf
<1>4. IsFiniteSet(TasksOf(p))
  BY <1>2, <1>3, FS_Subset
<1>5. QED
  BY <1>1, <1>3, <1>4, FS_CardinalityType

\* A tick owes a task once it has saved the plan, and not before.
LEMMA TickOwes ==
  ASSUME Typed, PlansOnce, IdleHasNone, [Next]_vars, NEW t \in Ticks, NEW p
  PROVE  /\ Owes(tick'[t], p) => Owes(tick[t], p) \/ (SavePlan(t) /\ p = tick[t].plan)
         /\ tick'[t].pc \in {"touch", "save"} /\ p \in tick'[t].left =>
              \/ /\ tick[t].pc \in {"touch", "save"} /\ p \in tick[t].left
                 /\ ~(SavePlan(t) /\ p = tick[t].plan)
              \/ ScanPlans(t) /\ p \in DuePlans
<1>0. PlansOnceOf(tick[t])
  BY DEF PlansOnce
<1>11. IdleTick.pc = "idle" /\ IdleTick.backups = {}
  BY DEF IdleTick
<1>1. CASE tick'[t] = tick[t] /\ ~SavePlan(t)
  BY <1>1
<1>2. CASE tick'[t] = IdleTick
  BY <1>2, <1>11 DEF Owes
<1>3. CASE ScanPlans(t)
  <2>1. /\ tick'[t].pc = "touch" /\ tick'[t].due = tick'[t].left
        /\ tick'[t].backups = {} /\ tick'[t].left = DuePlans
    BY <1>3, PlanSteps DEF IdleHasNone
  <2>2. QED
    BY <1>3, <2>1 DEF Owes
<1>4. CASE ReadPlan(t) \/ CreateJob(t)
  <2>1. ~SavePlan(t)
    BY <1>4, PlanSteps DEF SavePlan
  <2>2. QED
    BY <1>4, <2>1, PlanSteps DEF Owes
<1>5. CASE SavePlan(t)
  BY <1>5, <1>0, SaveLoop DEF Owes, PlansOnceOf
<1>6. CASE LastJob(t)
  <2> DEFINE backup == [job |-> Len(jobs), plan |-> tick[t].plan]
  <2>1. backup.plan = tick[t].plan /\ tick'[t].backups = tick[t].backups \cup {backup}
    BY <1>6, LastLoop
  <2> HIDE DEF backup
  <2>2. QED
    BY <1>6, <1>0, <2>1, LastLoop DEF Owes, PlansOnceOf
<1>7. CASE CreateTask(t)
  BY <1>7, PlanSteps DEF Owes
<1>8. CASE BackupFails(t) \/ SaveBackupTask(t)
  BY <1>8, <1>2, PlanSteps DEF Owes
<1>9. CASE tick'[t] = tick[t] /\ SavePlan(t)
  BY <1>5, <1>9
<1>10. QED
  BY <1>1, <1>2, <1>3, <1>4, <1>5, <1>6, <1>7, <1>8, <1>9, TickComes DEF TickStep

\* The number of tasks of a plan stays, or it is one that a tick owed.
LEMMA CountComes ==
  ASSUME Typed, Alone, IdleHasNone, PlansOnce, [Next]_vars, ~overlapped', NEW p
  PROVE  \/ Cardinality(TasksOf(p))' = Cardinality(TasksOf(p))
         \/ /\ Cardinality(TasksOf(p))' = Cardinality(TasksOf(p)) + 1
            /\ UNCHANGED <<clock, plans>>
            /\ \E t \in Ticks : Owes(tick[t], p)
            /\ \A s \in Ticks : ~Owes(tick'[s], p) /\ tick'[s].pc \notin {"touch", "save"}
<1>1. CASE /\ DOMAIN tasks' = DOMAIN tasks
           /\ \A u \in DOMAIN tasks : tasks'[u].plan = tasks[u].plan
  <2>1. TasksOf(p)' = TasksOf(p)
    BY <1>1 DEF TasksOf
  <2>2. QED
    BY <2>1
<1>2. ASSUME NEW t \in Ticks, NEW k \in tick[t].backups,
             CreateTask(t), tick'[t].backups = tick[t].backups \ {k},
             DOMAIN tasks' = DOMAIN tasks \cup {Len(tasks) + 1},
             \A u \in DOMAIN tasks : tasks'[u].plan = tasks[u].plan,
             tasks'[Len(tasks) + 1].plan = k.plan, k.plan # p
      PROVE  Cardinality(TasksOf(p))' = Cardinality(TasksOf(p))
  <2>1. TasksOf(p)' = TasksOf(p)
    BY <1>2 DEF TasksOf
  <2>2. QED
    BY <2>1
<1>3. ASSUME NEW t \in Ticks, NEW k \in tick[t].backups,
             CreateTask(t), tick'[t].backups = tick[t].backups \ {k},
             DOMAIN tasks' = DOMAIN tasks \cup {Len(tasks) + 1},
             \A u \in DOMAIN tasks : tasks'[u].plan = tasks[u].plan,
             tasks'[Len(tasks) + 1].plan = k.plan, k.plan = p
      PROVE  /\ Cardinality(TasksOf(p))' = Cardinality(TasksOf(p)) + 1
             /\ UNCHANGED <<clock, plans>> /\ Owes(tick[t], p)
             /\ \A s \in Ticks : ~Owes(tick'[s], p) /\ tick'[s].pc \notin {"touch", "save"}
  <2>1. TasksOf(p)' = TasksOf(p) \cup {Len(tasks) + 1}
    BY <1>3 DEF TasksOf
  <2>2. Cardinality(TasksOf(p) \cup {Len(tasks) + 1}) = Cardinality(TasksOf(p)) + 1
    BY Counts, FS_AddElement
  <2>3. UNCHANGED <<clock, plans>> /\ Owes(tick[t], p)
    BY <1>3 DEF CreateTask, Owes
  <2>4. tick[t].pc = "backup" /\ tick'[t].pc = "task"
    BY <1>3, PlanSteps
  <2>5. ~Owes(tick'[t], p)
    BY <1>3, <2>4 DEF Owes, PlansOnce, PlansOnceOf
  <2>6. ASSUME NEW s \in Ticks, s # t
        PROVE  ~Owes(tick'[s], p) /\ tick'[s].pc \notin {"touch", "save"}
    <3>1. tick[s].pc = "idle" /\ tick[s].backups = {}
      BY <2>4, <2>6, OverlapStays DEF Alone, IdleHasNone
    <3>2. tick'[s] = tick[s]
      BY <1>3, <2>6, TickFacts DEF CreateTask
    <3>3. QED
      BY <3>1, <3>2 DEF Owes
  <2>7. QED
    BY <2>1, <2>2, <2>3, <2>4, <2>5, <2>6
<1>4. QED
  BY <1>1, <1>2, <1>3, TasksGrow

LEMMA PlanIsNew ==
  ASSUME Typed, [Next]_vars, NEW p \in DOMAIN plans', p \notin DOMAIN plans
  PROVE  /\ UNCHANGED <<clock, tasks, tick>>
         /\ plans'[p].createdOn = clock /\ plans'[p].lastBackupOn = 0
<1>0. plans \in Seq(Plan) /\ Len(plans) \in Nat /\ DOMAIN plans = 1..Len(plans)
  BY Lengths DEF Typed, Tables
<1>1. PsqlBackupVolumeAddPlan
  <2>1. ~(\E t \in Ticks : SavePlan(t)) /\ ~(\E r \in Requests : UpdatePlanSave(r))
    BY DEF SavePlan, UpdatePlanSave
  <2>2. QED
    BY <2>1 DEF Next, vars, TickStep, BidStep, ScanPlans, ReadPlan, CreateJob, LastJob,
       CreateTask, BackupFails, SaveBackupTask, SendAutoBidDeals, FindSentJob, SaveSentJob,
       FindJobs, CheckDealStatus, CheckDealFails, UpdatePlanFirst, PsqlBackupAddJob, ClockTick,
       SwanAssigns, DealActivates, TaskMoves, Crash
<1> DEFINE row == [status |-> "Enabled", createdOn |-> clock, lastBackupOn |-> 0]
<1>2. /\ row \in Plan /\ row.createdOn = clock /\ row.lastBackupOn = 0
      /\ plans' = Append(plans, row)
  BY <1>1, Bounds DEF PsqlBackupVolumeAddPlan, Plan, PlanStatus, Typed, Tables
<1> HIDE DEF row
<1>3. /\ plans' \in Seq(Plan) /\ Len(plans') = Len(plans) + 1 /\ plans'[Len(plans) + 1] = row
  BY <1>0, <1>2, AppendProperties
<1>4. p = Len(plans) + 1
  <2>1. DOMAIN plans' = 1..(Len(plans) + 1)
    BY <1>3
  <2>2. QED
    BY <1>0, <2>1
<1>5. QED
  BY <1>1, <1>2, <1>3, <1>4 DEF PsqlBackupVolumeAddPlan

LEMMA ClockAdvances == ASSUME Typed, [Next]_vars PROVE clock' >= clock
<1>1. clock \in Nat
  BY Bounds DEF Typed, Tables
<1>2. UNCHANGED clock \/ ClockTick
  BY DEF Next, vars, TickStep, BidStep, ScanPlans, ReadPlan, SavePlan, CreateJob, LastJob,
     CreateTask, BackupFails, SaveBackupTask, SendAutoBidDeals, FindSentJob, SaveSentJob,
     FindJobs, CheckDealStatus, CheckDealFails, UpdatePlanFirst, UpdatePlanSave,
     PsqlBackupVolumeAddPlan, PsqlBackupAddJob, SwanAssigns, DealActivates, TaskMoves, Crash
<1>3. QED
  BY <1>1, <1>2 DEF ClockTick

LEMMA OneMore ==
  ASSUME NEW n \in Nat, NEW since \in Nat, NEW from \in Nat, NEW now \in Nat,
         n * Interval <= since - from, since + Interval <= now
  PROVE  (n + 1) * Interval <= now - from /\ n * Interval <= now - from
<1>1. Interval \in Nat /\ n * Interval \in Nat
  BY IntervalAssumption
<1>2. (n + 1) * Interval = n * Interval + Interval
  BY <1>1
<1>3. QED
  BY <1>1, <1>2

LEMMA OnceStep ==
  /\ Typed /\ Alone /\ IdleHasNone /\ TickJobs /\ PlansKnown /\ PlansOnce /\ RequestTimes
  /\ Once /\ [Next]_vars
  => Once'
<1> SUFFICES ASSUME Typed, Alone, IdleHasNone, TickJobs, PlansKnown, PlansOnce, RequestTimes,
                    Once, [Next]_vars, ~overlapped', NEW p \in DOMAIN plans'
             PROVE  OnceOf(p)'
  BY DEF Once
<1>0. ~overlapped /\ clock \in Nat \ {0} /\ clock' \in Nat /\ clock' >= clock
  BY OverlapStays, ClockAdvances, TypedStep, Bounds DEF Typed, Tables
<1> DEFINE n == Cardinality(TasksOf(p))
           since == SinceOf(plans[p])
           from == plans[p].createdOn
<1>4. n \in Nat /\ n' \in Nat /\ Interval \in Nat \ {0}
  BY Counts, CountComes, IntervalAssumption
<1>1. ASSUME p \in DOMAIN plans PROVE OnceOf(p)'
  <2>0. /\ plans[p].createdOn \in Nat /\ plans[p].lastBackupOn \in Nat
        /\ since \in Nat /\ from \in Nat
    <3>1. plans[p] \in Plan
      BY <1>1 DEF Typed, Tables
    <3>2. QED
      BY <3>1, Bounds DEF Plan, SinceOf
  <2>8. /\ from <= since /\ since <= clock /\ n * Interval <= since - from
        /\ \A t \in Ticks :
             /\ Owes(tick[t], p) => (n + 1) * Interval <= since - from
             /\ tick[t].pc \in {"touch", "save"} /\ p \in tick[t].left
                  => since + Interval <= clock
    BY <1>1, <1>0 DEF Once, OnceOf
  <2>1. CASE \E t \in Ticks : /\ SavePlan(t) /\ tick[t].plan = p
                              /\ plans'[p].createdOn = plans[p].createdOn
                              /\ plans'[p].lastBackupOn = clock
    <3>1. PICK t \in Ticks : /\ SavePlan(t) /\ tick[t].plan = p
                             /\ plans'[p].createdOn = from
                             /\ plans'[p].lastBackupOn = clock
      BY <2>1
    <3>2. since + Interval <= clock
      BY <2>8, <3>1, SaveLoop DEF PlansOnce, PlansOnceOf
    <3>3. n' = n /\ clock' = clock
      BY <3>1 DEF SavePlan, TasksOf
    <3>4. since' = clock /\ from' = from
      BY <1>0, <3>1 DEF SinceOf
    <3>5. ASSUME NEW s \in Ticks PROVE ~(tick'[s].pc \in {"touch", "save"} /\ p \in tick'[s].left)
      <4>1. CASE s = t
        BY <3>1, <4>1, SaveLoop
      <4>2. CASE s # t
        <5>1. tick[s].pc = "idle" /\ tick'[s] = tick[s]
          BY <1>0, <3>1, <4>2, TickFacts DEF Alone, SavePlan
        <5>2. QED
          BY <5>1
      <4>3. QED
        BY <4>1, <4>2
    <3>6. (n + 1) * Interval <= clock - from /\ n * Interval <= clock - from
      BY <1>0, <1>4, <2>0, <2>8, <3>2, OneMore
    <3>7. from <= clock
      BY <1>0, <2>0, <2>8
    <3> HIDE DEF n, since, from
    <3>8. /\ from' <= since' /\ since' <= clock' /\ n' * Interval <= since' - from'
          /\ (n' + 1) * Interval <= since' - from'
      BY <1>0, <3>3, <3>4, <3>6, <3>7
    <3>9. QED
      BY <3>5, <3>8 DEF OnceOf, n, since, from
  <2>2. CASE SameTimes(p) /\ ~\E t \in Ticks : SavePlan(t) /\ tick[t].plan = p
    <3>1. since' = since /\ from' = from
      BY <2>2 DEF SameTimes, SinceOf
    <3>2. CASE n' = n
      <4>1. ASSUME NEW t \in Ticks
            PROVE  /\ Owes(tick'[t], p) => (n + 1) * Interval <= since - from
                   /\ tick'[t].pc \in {"touch", "save"} /\ p \in tick'[t].left
                        => since + Interval <= clock
        <5>1. ScanPlans(t) /\ p \in DuePlans => since + Interval <= clock
          BY <1>0, <2>0, <1>4 DEF DuePlans, Due, SinceOf
        <5>2. /\ Owes(tick'[t], p) => Owes(tick[t], p)
              /\ tick'[t].pc \in {"touch", "save"} /\ p \in tick'[t].left =>
                   \/ tick[t].pc \in {"touch", "save"} /\ p \in tick[t].left
                   \/ ScanPlans(t) /\ p \in DuePlans
          BY <2>2, TickOwes
        <5> HIDE DEF n, since, from
        <5>3. QED
          BY <2>8, <5>1, <5>2
      <4> HIDE DEF n, since, from
      <4>2. /\ from' <= since' /\ since' <= clock' /\ n' * Interval <= since' - from'
        BY <1>0, <2>0, <2>8, <3>1, <3>2
      <4>3. ASSUME NEW t \in Ticks
            PROVE  /\ Owes(tick'[t], p) => (n' + 1) * Interval <= since' - from'
                   /\ tick'[t].pc \in {"touch", "save"} /\ p \in tick'[t].left
                        => since' + Interval <= clock'
        BY <1>0, <1>4, <2>0, <3>1, <3>2, <4>1
      <4>4. QED
        BY <4>2, <4>3 DEF OnceOf, n, since, from
    <3>3. CASE /\ n' = n + 1 /\ UNCHANGED <<clock, plans>>
               /\ \E t \in Ticks : Owes(tick[t], p)
               /\ \A s \in Ticks : ~Owes(tick'[s], p) /\ tick'[s].pc \notin {"touch", "save"}
      <4> HIDE DEF n, since, from
      <4>1. (n + 1) * Interval <= since - from
        BY <2>8, <3>3
      <4>2. from' <= since' /\ since' <= clock' /\ n' * Interval <= since' - from'
        BY <2>8, <3>1, <3>3, <4>1
      <4>3. QED
        BY <3>3, <4>2 DEF OnceOf, n, since, from
    <3>4. QED
      BY <3>2, <3>3, CountComes
  <2>3. QED
    BY <1>1, <2>1, <2>2, PlanTimes
<1>2. ASSUME p \notin DOMAIN plans PROVE OnceOf(p)'
  <2>1. /\ UNCHANGED <<clock, tasks, tick>>
        /\ plans'[p].createdOn = clock /\ plans'[p].lastBackupOn = 0
    BY <1>2, PlanIsNew
  <2>2. TasksOf(p)' = {}
    BY <1>2, <2>1 DEF TasksOf, PlansKnown
  <2>3. Cardinality(TasksOf(p))' = 0
    BY <2>2, FS_EmptySet
  <2>4. \A t \in Ticks : ~Owes(tick'[t], p) /\ p \notin tick'[t].left
    BY <1>2, <2>1 DEF PlansKnown, Owes
  <2>5. since' = clock /\ from' = clock /\ n' * Interval = 0
    BY <1>4, <2>1, <2>3 DEF SinceOf
  <2>6. from' <= since' /\ since' <= clock' /\ n' * Interval <= since' - from'
    BY <1>0, <2>1, <2>5
  <2>7. QED
    BY <2>4, <2>6 DEF OnceOf
<1>3. QED
  BY <1>1, <1>2

LEMMA OnceInit == Init => PlansKnown /\ PlansOnce /\ RequestTimes /\ Once
<1> SUFFICES ASSUME Init PROVE PlansKnown /\ PlansOnce /\ RequestTimes /\ Once
  OBVIOUS
<1>1. DOMAIN plans = {} /\ DOMAIN tasks = {}
  BY DEF Init
<1>2. \A t \in Ticks : /\ tick[t].pc = "idle" /\ tick[t].due = {} /\ tick[t].left = {}
                       /\ tick[t].backups = {}
  BY DEF Init, IdleTick
<1>3. \A r \in Requests : request[r].pc = "new"
  BY DEF Init, NewRequest
<1>4. QED
  BY <1>1, <1>2, <1>3 DEF PlansKnown, PlansOnce, PlansOnceOf, RequestTimes, Once

\* While no two goroutines have overlapped, a plan is backed up at most once
\* for each interval since it was created, whenever the process dies.
THEOREM BackupsOncePerInterval == Spec => []NoExtraBackups
<1>1. Typed /\ Once => NoExtraBackups
  <2> SUFFICES ASSUME Typed, Once, ~overlapped, NEW p \in DOMAIN plans
               PROVE  Cardinality({u \in DOMAIN tasks : tasks[u].plan = p}) * Interval
                        <= clock - plans[p].createdOn
    BY DEF NoExtraBackups
  <2> DEFINE n == Cardinality({u \in DOMAIN tasks : tasks[u].plan = p})
             since == SinceOf(plans[p])
             from == plans[p].createdOn
  <2>1. n * Interval <= since - from /\ since <= clock
    BY DEF Once, OnceOf, TasksOf
  <2>2. clock \in Nat /\ since \in Nat /\ from \in Nat /\ n * Interval \in Nat
    <3>1. plans[p] \in Plan /\ clock \in Nat
      BY Bounds DEF Typed, Tables
    <3>2. n \in Nat
      BY Counts DEF TasksOf
    <3>3. QED
      BY <3>1, <3>2, Bounds, IntervalAssumption DEF Plan, SinceOf
  <2> HIDE DEF n, since, from
  <2>3. QED
    BY <2>1, <2>2 DEF n, from
<1>2. QED
  BY TypedInit, TypedStep, AloneInit, AloneStep, DealsInit, IdleHasNoneStep, TickJobsStep,
     OnceInit, PlansKnownStep, PlansOnceStep, RequestTimesStep, OnceStep, <1>1, PTL DEF Spec
=============================================================================
