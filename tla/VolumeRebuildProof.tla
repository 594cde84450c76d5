------------------------- MODULE VolumeRebuildProof -------------------------
(***************************************************************************)
(* What rebuilds keep, for any ticks, requests, objects, backups, jobs and *)
(* crashes: no upload is lost, a job is Completed only after its payload   *)
(* was retrieved for it, and the volume is missing for a reason.           *)
(***************************************************************************)
EXTENDS VolumeRebuild, SequenceTheorems, TLAPS

----------------------------------------------------------------------------
(* The inductive invariant.                                                *)

Rows == [status : {"Created", "Completed"}, payload : Payloads]
States == [pc : {"idle", "stat", "mv", "retrieve", "save", "served"},
           job : 0..MaxJobs, payload : Payloads]

Retrievals == [job : 0..MaxJobs, payload : Payloads, by : {"cron", "request"}, objects : SUBSET Objects]

\* A worker knows a job there is, and a tick the payload of its job.
JobsKnown ==
    \A w \in Workers : worker[w].job # 0 =>
        /\ worker[w].job \in DOMAIN jobs
        /\ w \in Ticks => worker[w].payload = jobs[worker[w].job].payload

\* The job of a worker is saved after its payload has been retrieved for it.
SavesRetrieved ==
    \A w \in Workers : worker[w].pc = "save" =>
        \E c \in retrieved : /\ c.job = worker[w].job /\ InFull(c)
                             /\ c.payload = worker[w].payload /\ c.by = Maker(w)

\* A volume is missing while a worker is about to retrieve it.
MissingIsRetrieved ==
    ~failed /\ crashes = 0 /\ ~volume.dir => \E w \in Workers : worker[w].pc = "retrieve"

----------------------------------------------------------------------------
(* Types.                                                                  *)

\* Writing a row of the table of jobs back.
LEMMA SavedRow ==
  ASSUME jobs \in Seq(Rows), NEW j \in DOMAIN jobs
  PROVE  LET saved == [jobs EXCEPT ![j].status = "Completed"]
         IN  /\ saved \in Seq(Rows) /\ Len(saved) = Len(jobs)
             /\ saved[j].status = "Completed"
             /\ \A i \in DOMAIN jobs : /\ saved[i].payload = jobs[i].payload
                                       /\ i # j => saved[i] = jobs[i]
<1> DEFINE row == [jobs[j] EXCEPT !.status = "Completed"]
           saved == [jobs EXCEPT ![j] = row]
<1>1. DOMAIN jobs = 1..Len(jobs) /\ jobs[j] \in Rows
  OBVIOUS
<1>2. row \in Rows /\ row.status = "Completed" /\ row.payload = jobs[j].payload
  BY <1>1 DEF Rows
<1>3. /\ saved \in Seq(Rows) /\ Len(saved) = Len(jobs)
      /\ \A i \in 1..Len(jobs) : saved[i] = IF i = j THEN row ELSE jobs[i]
  BY <1>1, <1>2, ExceptSeq
<1>4. QED
  BY <1>1, <1>2, <1>3

LEMMA EndedTyped ==
  ASSUME NEW w \in Workers
  PROVE  Ended(w) \in States
BY BoundAssumption DEF Ended, States, Idle, Payloads

\* What Init and the steps keep of the types and of the workers' jobs.
Typed == TypeOK /\ JobsKnown

LEMMA TypedInit == Init => Typed
<1> SUFFICES ASSUME Init PROVE Typed
  OBVIOUS
<1>1. volume \in [dir : BOOLEAN, objects : SUBSET Objects]
  BY DEF Init, Dir
<1>2. worker \in [Workers -> States] /\ \A w \in Workers : worker[w].job = 0
  BY BoundAssumption DEF Init, Idle, States, Payloads
<1>3. jobs \in Seq(Rows) /\ Len(jobs) <= MaxJobs
  BY BoundAssumption DEF Init
<1>4. backups \in [Backups -> [status : {"Created", "Running", "Completed"},
                               content : SUBSET Objects]]
  BY DEF Init
<1>5. moved \subseteq SUBSET Objects /\ written \subseteq Objects
  BY DEF Init
<1>6. failed \in BOOLEAN /\ retrieved \subseteq Retrievals
  BY DEF Init
<1>7. crashes \in 0..MaxCrashes
  BY BoundAssumption DEF Init
<1>8. TypeOK
  BY <1>1, <1>2, <1>3, <1>4, <1>5, <1>6, <1>7 DEF TypeOK, States, Rows, Retrievals
<1>9. QED
  BY <1>2, <1>8 DEF Typed, JobsKnown

LEMMA TypedStep == Typed /\ [Next]_vars => Typed'
<1> SUFFICES ASSUME Typed, [Next]_vars PROVE Typed'
  OBVIOUS
<1> USE DEF Typed
<1>0. /\ jobs \in Seq(Rows) /\ DOMAIN jobs = 1..Len(jobs) /\ Len(jobs) \in Nat
      /\ worker \in [Workers -> States]
      /\ MaxJobs \in Nat /\ MaxBackups \in Nat /\ 0 \in Payloads
      /\ retrieved \subseteq Retrievals
  BY BoundAssumption DEF TypeOK, Rows, States, Payloads, Retrievals
<1>11. \A w \in Workers : Ended(w) \in States
  BY <1>0, EndedTyped
\* Where only workers change.
<1>12. ASSUME UNCHANGED <<moved, written, backups, jobs>>,
             volume' \in [dir : BOOLEAN, objects : SUBSET Objects],
             failed' \in BOOLEAN, crashes' = crashes, retrieved' \subseteq Retrievals,
             NEW w \in Workers, NEW s \in States, worker' = [worker EXCEPT ![w] = s],
             s.job # 0 => /\ s.job \in DOMAIN jobs
                          /\ w \in Ticks => s.payload = jobs[s.job].payload
      PROVE  Typed'
  <2>1. worker' \in [Workers -> States]
    BY <1>0, <1>12
  <2>2. JobsKnown'
    BY <1>0, <1>12 DEF JobsKnown
  <2>3. QED
    BY <1>12, <2>1, <2>2 DEF TypeOK, States, Retrievals
<1>1. ASSUME NEW t \in Ticks, GetOneRunningRebuildJob(t) PROVE Typed'
  <2>1. PICK j \in Unfinished :
          worker' = [worker EXCEPT ![t] = [pc |-> "stat", job |-> j, payload |-> jobs[j].payload]]
    BY <1>1 DEF GetOneRunningRebuildJob
  <2>2. j \in DOMAIN jobs /\ j \in 1..MaxJobs /\ jobs[j] \in Rows
    BY <1>0 DEF Unfinished, TypeOK
  <2>3. [pc |-> "stat", job |-> j, payload |-> jobs[j].payload] \in States
    BY <2>2 DEF States, Rows
  <2>4. QED
    BY <1>0, <1>1, <1>12, <2>1, <2>2, <2>3 DEF GetOneRunningRebuildJob, Workers, TypeOK
<1>2. ASSUME NEW r \in Requests, PsqlRebuildVolume(r) PROVE Typed'
  <2>1. PICK j \in DOMAIN jobs \cup {0}, p \in Payloads :
          worker' = [worker EXCEPT ![r] = [pc |-> "stat", job |-> j, payload |-> p]]
    BY <1>2 DEF PsqlRebuildVolume
  <2>2. [pc |-> "stat", job |-> j, payload |-> p] \in States
    BY <1>0 DEF States, TypeOK
  <2>3. r \in Workers /\ r \notin Ticks
    BY WorkerAssumption DEF Workers
  <2>4. QED
    BY <1>0, <1>2, <1>12, <2>1, <2>2, <2>3 DEF PsqlRebuildVolume, TypeOK
<1>3. ASSUME NEW w \in Workers, Rebuild(w) PROVE Typed'
  <2> DEFINE Goes(pc) == [worker[w] EXCEPT !.pc = pc]
  <2>0. \A pc \in {"mv", "retrieve", "save"} :
          /\ Goes(pc) \in States
          /\ Goes(pc).job = worker[w].job /\ Goes(pc).payload = worker[w].payload
    BY <1>0 DEF States
  <2>8. Ended(w).job = 0
    BY DEF Ended, Idle
  <2>9. worker[w].job # 0 => /\ worker[w].job \in DOMAIN jobs
                             /\ w \in Ticks => worker[w].payload = jobs[worker[w].job].payload
    BY DEF JobsKnown
  <2>10. Absent \in [dir : BOOLEAN, objects : SUBSET Objects]
    BY DEF Absent
  <2>11. ASSUME NEW some \in SUBSET Objects
        PROVE  Dir(some) \in [dir : BOOLEAN, objects : SUBSET Objects]
    BY DEF Dir
  <2>1. ASSUME StatVolume(w) PROVE Typed'
    <3>1. PICK pc \in {"mv", "retrieve"} : worker' = [worker EXCEPT ![w] = Goes(pc)]
      BY <1>0, <2>1 DEF StatVolume
    <3>2. /\ UNCHANGED <<volume, moved, written, backups, jobs, retrieved, failed, crashes>>
          /\ volume \in [dir : BOOLEAN, objects : SUBSET Objects] /\ failed \in BOOLEAN
      BY <2>1 DEF StatVolume, TypeOK
    <3> HIDE DEF Goes
    <3>3. QED
      BY <1>0, <1>12, <2>0, <2>9, <3>1, <3>2
  <2>2. ASSUME MoveVolume(w) PROVE Typed'
    <3>1. CASE volume.dir
      <4>1. /\ worker' = [worker EXCEPT ![w] = Goes("retrieve")]
            /\ volume' = Absent /\ moved' = moved \cup {volume.objects}
            /\ UNCHANGED <<written, backups, jobs, retrieved, failed, crashes>>
        BY <1>0, <2>2, <3>1 DEF MoveVolume
      <4>2. moved' \subseteq SUBSET Objects
        BY <4>1 DEF TypeOK
      <4>3. worker' \in [Workers -> States] /\ JobsKnown'
        BY <1>0, <2>0, <2>9, <4>1 DEF JobsKnown
      <4>4. QED
        BY <2>10, <4>1, <4>2, <4>3 DEF TypeOK, States
    <3>2. CASE ~volume.dir
      BY <1>0, <1>11, <1>12, <2>2, <2>8, <2>9, <3>2 DEF MoveVolume, End, TypeOK
    <3>3. QED
      BY <3>1, <3>2
  <2>3. ASSUME Retrieve(w) PROVE Typed'
    <3>1. worker' = [worker EXCEPT ![w] = Goes("save")]
      BY <1>0, <2>3 DEF Retrieve
    <3>2. worker[w].payload \in Backups
      BY <1>0, <2>3 DEF Retrieve, Retrievable, Backups, Payloads, States
    <3>3. backups[worker[w].payload].content \in SUBSET Objects
      BY <3>2 DEF TypeOK
    <3>4. /\ volume' = Dir(backups[worker[w].payload].content)
          /\ retrieved' = retrieved \cup {Retrieval(w, volume'.objects)}
          /\ UNCHANGED <<moved, written, backups, jobs, failed, crashes>>
      BY <2>3 DEF Retrieve
    <3>5. Retrieval(w, volume'.objects) \in Retrievals
      BY <1>0, <3>3, <3>4 DEF Retrieval, Maker, Retrievals, Dir, States
    <3>6. /\ volume' \in [dir : BOOLEAN, objects : SUBSET Objects]
          /\ retrieved' \subseteq Retrievals /\ failed \in BOOLEAN
      BY <1>0, <2>11, <3>3, <3>4, <3>5 DEF TypeOK
    <3> HIDE DEF Goes
    <3>7. QED
      BY <1>12, <2>0, <2>9, <3>1, <3>4, <3>6
  <2>4. ASSUME RetrieveFails(w) PROVE Typed'
    <3>1. CASE UNCHANGED volume
      BY <1>0, <1>11, <1>12, <2>4, <2>8, <2>9, <3>1 DEF RetrieveFails, End, TypeOK
    <3>2. CASE ~UNCHANGED volume
      <4>1. PICK some \in SUBSET backups[worker[w].payload].content :
              Retrievable(worker[w].payload) /\ volume' = Dir(some)
        BY <2>4, <3>2 DEF RetrieveFails
      <4>2. worker[w].payload \in Backups
        BY <1>0, <4>1 DEF Retrievable, Backups, Payloads, States
      <4>3. some \in SUBSET Objects
        BY <4>2 DEF TypeOK
      <4>4. volume' \in [dir : BOOLEAN, objects : SUBSET Objects]
        BY <2>11, <4>1, <4>3
      <4>5. QED
        BY <1>0, <1>11, <1>12, <2>4, <2>8, <2>9, <4>4 DEF RetrieveFails, End, TypeOK
    <3>3. QED
      BY <3>1, <3>2
  <2>5. ASSUME SaveRebuildJob(w) PROVE Typed'
    <3>1. CASE worker[w].job = 0
      BY <1>0, <1>11, <1>12, <2>5, <2>8, <2>9, <3>1 DEF SaveRebuildJob, End, TypeOK
    <3>2. CASE worker[w].job # 0
      <4>1. worker[w].job \in DOMAIN jobs
        BY <2>9, <3>2
      <4>2. jobs' = [jobs EXCEPT ![worker[w].job].status = "Completed"]
        BY <2>5, <3>2 DEF SaveRebuildJob
      <4>3. /\ jobs' \in Seq(Rows) /\ Len(jobs') = Len(jobs)
            /\ \A i \in DOMAIN jobs : jobs'[i].payload = jobs[i].payload
        BY <1>0, <4>1, <4>2, SavedRow
      <4>4. worker' = [worker EXCEPT ![w] = Ended(w)]
        BY <2>5 DEF SaveRebuildJob, End
      <4>5. worker' \in [Workers -> States]
        BY <1>0, <1>11, <4>4
      <4>6. DOMAIN jobs' = DOMAIN jobs
        BY <1>0, <4>3
      <4>7. JobsKnown'
        BY <1>0, <2>8, <2>9, <4>3, <4>4, <4>6 DEF JobsKnown
      <4>8. QED
        BY <2>5, <4>3, <4>5, <4>7 DEF SaveRebuildJob, TypeOK, States, Rows
    <3>3. QED
      BY <3>1, <3>2
  <2>6. QED
    BY <1>3, <2>1, <2>2, <2>3, <2>4, <2>5 DEF Rebuild
<1>4. ASSUME PsqlRebuildAddJob PROVE Typed'
  <2>1. PICK b \in Backups : jobs' = Append(jobs, [status |-> "Created",
          payload |-> IF backups[b].status = "Created" THEN 0 ELSE b])
    BY <1>4 DEF PsqlRebuildAddJob
  <2>2. [status |-> "Created", payload |-> IF backups[b].status = "Created" THEN 0 ELSE b] \in Rows
    BY <1>0 DEF Rows, Payloads, Backups
  <2>3. /\ jobs' \in Seq(Rows) /\ Len(jobs') = Len(jobs) + 1
        /\ \A i \in 1..Len(jobs) : jobs'[i] = jobs[i]
    BY <1>0, <2>1, <2>2, AppendProperties
  <2>4. DOMAIN jobs \subseteq DOMAIN jobs'
    BY <1>0, <2>3
  <2>5. JobsKnown'
    BY <1>4, <1>0, <2>3, <2>4 DEF JobsKnown, PsqlRebuildAddJob
  <2>6. Len(jobs') <= MaxJobs
    BY <1>4, <1>0, <2>3 DEF PsqlRebuildAddJob
  <2>7. QED
    BY <1>4, <2>3, <2>5, <2>6 DEF PsqlRebuildAddJob, TypeOK, Rows
<1>5. ASSUME NEW o \in Objects, PutObject(o) PROVE Typed'
  BY <1>5 DEF PutObject, TypeOK, JobsKnown
<1>6. ASSUME NEW b \in Backups, BackupVolume(b) PROVE Typed'
  BY <1>6 DEF BackupVolume, TypeOK, JobsKnown
<1>7. ASSUME NEW b \in Backups, BackupCompletes(b) PROVE Typed'
  BY <1>7 DEF BackupCompletes, TypeOK, JobsKnown
<1>8. ASSUME Crash PROVE Typed'
  <2>1. Idle \in States /\ Idle.job = 0
    BY <1>0 DEF Idle, States
  <2>2. worker' \in [Workers -> States]
    BY <1>8, <1>11, <2>1 DEF Crash
  <2>3. JobsKnown'
    BY <1>8, <1>0, <2>1 DEF Crash, JobsKnown, Ended, States
  <2>4. QED
    BY <1>8, <2>2, <2>3, BoundAssumption DEF Crash, TypeOK, States
<1>9. CASE UNCHANGED vars
  BY <1>9 DEF vars, TypeOK, JobsKnown
<1>10. QED
  BY <1>1, <1>2, <1>3, <1>4, <1>5, <1>6, <1>7, <1>8, <1>9 DEF Next

\* Worker states and rows, the volume, and what is retrieved, have their types.
LEMMA Facts ==
  ASSUME Typed
  PROVE  /\ jobs \in Seq(Rows) /\ DOMAIN jobs = 1..Len(jobs) /\ Len(jobs) \in Nat
         /\ worker \in [Workers -> States]
         /\ backups \in [Backups -> [status : {"Created", "Running", "Completed"},
                                    content : SUBSET Objects]]
         /\ \A w \in Workers : /\ Ended(w).pc \in {"idle", "served"}
                               /\ worker[w].payload # 0 => worker[w].payload \in Backups
BY BoundAssumption DEF Typed, TypeOK, Rows, States, Ended, Idle, Payloads, Backups

\* Rows refer to backups, workers to rows, and directories
\* hold uploaded objects only, whatever a failed retrieval leaves behind.
THEOREM RebuildTypes == Spec => []TypeOK
<1>1. Typed => TypeOK
  BY DEF Typed
<1>2. QED
  BY TypedInit, TypedStep, <1>1, PTL DEF Spec

----------------------------------------------------------------------------
(* Directories only grow or move.                                          *)

\* Nothing that is in some directory stops being in one.
LEMMA ContentsGrow ==
  ASSUME Typed, [Next]_vars, NEW c \in Contents
  PROVE  \E d \in Contents' : c \subseteq d
<1>1. ASSUME UNCHANGED <<volume, moved>> PROVE c \in Contents'
  BY <1>1 DEF Contents
<1>2. ASSUME UNCHANGED moved, ~volume.dir PROVE c \in Contents'
  BY <1>2 DEF Contents
<1>3. ASSUME NEW w \in Workers, MoveVolume(w) PROVE c \in Contents'
  BY <1>3 DEF MoveVolume, Contents
<1>4. ASSUME NEW w \in Workers, Rebuild(w), ~MoveVolume(w) PROVE c \in Contents'
  BY <1>1, <1>2, <1>4 DEF Rebuild, StatVolume, Retrieve, RetrieveFails, SaveRebuildJob
<1>5. ASSUME NEW o \in Objects, PutObject(o) PROVE \E d \in Contents' : c \subseteq d
  <2>1. /\ moved' = moved /\ volume.dir
        /\ volume' = [volume EXCEPT !.objects = volume.objects \cup {o}]
    BY <1>5 DEF PutObject
  <2>2. volume'.dir /\ volume'.objects = volume.objects \cup {o}
    BY <2>1 DEF Typed, TypeOK
  <2>3. QED
    BY <2>1, <2>2 DEF Contents
<1>6. ASSUME UNCHANGED <<volume, moved>> \/ (\E w \in Workers : Rebuild(w))
             \/ \E o \in Objects : PutObject(o)
      PROVE  \E d \in Contents' : c \subseteq d
  BY <1>1, <1>3, <1>4, <1>5, <1>6
<1>7. QED
  BY <1>6 DEF Next, vars, GetOneRunningRebuildJob, PsqlRebuildVolume, PsqlRebuildAddJob,
              BackupVolume, BackupCompletes, Crash

\* Every step but an upload leaves what was written.
LEMMA WrittenGrows ==
  ASSUME [Next]_vars
  PROVE  written' = written \/ \E o \in Objects : PutObject(o)
BY DEF Next, vars, GetOneRunningRebuildJob, PsqlRebuildVolume, Rebuild, StatVolume, MoveVolume,
       Retrieve, RetrieveFails, SaveRebuildJob, PsqlRebuildAddJob, BackupVolume,
       BackupCompletes, Crash

LEMMA NothingLostStep == Typed /\ NothingLost /\ [Next]_vars => NothingLost'
<1> SUFFICES ASSUME Typed, NothingLost, [Next]_vars, NEW o \in written'
             PROVE  \E c \in Contents' : o \in c
  BY DEF NothingLost
<1>1. CASE o \in written
  BY <1>1, ContentsGrow DEF NothingLost
<1>2. CASE o \notin written
  <2>1. PutObject(o)
    BY <1>2, WrittenGrows DEF PutObject
  <2>2. volume.dir /\ volume' = [volume EXCEPT !.objects = volume.objects \cup {o}]
    BY <2>1 DEF PutObject
  <2>3. volume'.dir /\ o \in volume'.objects
    BY <2>2 DEF Typed, TypeOK
  <2>4. QED
    BY <2>3 DEF Contents
<1>3. QED
  BY <1>1, <1>2

\* What users have uploaded is in the volume or in a directory moved away,
\* whatever rebuilds overlap, fail or die: a rebuild moves, never removes, and
\* retrieves only where nothing is.
THEOREM UploadsKept == Spec => []NothingLost
<1>1. Init => NothingLost
  BY DEF Init, NothingLost
<1>2. QED
  BY TypedInit, TypedStep, NothingLostStep, <1>1, PTL DEF Spec

----------------------------------------------------------------------------
(* A missing volume.                                                       *)

LEMMA MissingStep == Typed /\ MissingIsRetrieved /\ [Next]_vars => MissingIsRetrieved'
<1> SUFFICES ASSUME Typed, MissingIsRetrieved, [Next]_vars,
                    ~failed', crashes' = 0, ~volume'.dir
             PROVE  \E w \in Workers : worker'[w].pc = "retrieve"
  BY DEF MissingIsRetrieved
<1>0. /\ worker \in [Workers -> States] /\ crashes \in Nat /\ failed \in BOOLEAN
      /\ volume \in [dir : BOOLEAN, objects : SUBSET Objects]
  BY BoundAssumption, Facts DEF Typed, TypeOK
\* One worker changes, and not from "retrieve".
<1>8. ASSUME ~failed, crashes = 0, ~volume.dir,
             NEW v \in Workers, NEW s, worker' = [worker EXCEPT ![v] = s],
             worker[v].pc # "retrieve"
      PROVE  \E w \in Workers : worker'[w].pc = "retrieve"
  <2>1. PICK w \in Workers : worker[w].pc = "retrieve"
    BY <1>8 DEF MissingIsRetrieved
  <2>2. worker'[w] = worker[w]
    BY <1>0, <1>8, <2>1
  <2>3. QED
    BY <2>1, <2>2
<1>1. ASSUME NEW t \in Ticks, GetOneRunningRebuildJob(t)
      PROVE  \E w \in Workers : worker'[w].pc = "retrieve"
  BY <1>1, <1>8 DEF GetOneRunningRebuildJob, Workers
<1>2. ASSUME NEW r \in Requests, PsqlRebuildVolume(r)
      PROVE  \E w \in Workers : worker'[w].pc = "retrieve"
  BY <1>2, <1>8 DEF PsqlRebuildVolume, Workers
<1>3. ASSUME NEW v \in Workers, Rebuild(v)
      PROVE  \E w \in Workers : worker'[w].pc = "retrieve"
  <2>1. CASE StatVolume(v)
    <3>1. worker' = [worker EXCEPT ![v] = [worker[v] EXCEPT !.pc = "retrieve"]]
      BY <2>1 DEF StatVolume
    <3>2. worker'[v].pc = "retrieve"
      BY <1>0, <3>1 DEF States
    <3>3. QED
      BY <3>2
  <2>2. CASE MoveVolume(v)
    <3>1. worker' = [worker EXCEPT ![v] = [worker[v] EXCEPT !.pc = "retrieve"]]
      BY <2>2 DEF MoveVolume
    <3>2. worker'[v].pc = "retrieve"
      BY <1>0, <3>1 DEF States
    <3>3. QED
      BY <3>2
  <2>3. CASE Retrieve(v)
    BY <2>3 DEF Retrieve, Dir
  <2>4. CASE RetrieveFails(v)
    BY <2>4 DEF RetrieveFails
  <2>5. CASE SaveRebuildJob(v)
    BY <1>8, <2>5 DEF SaveRebuildJob, End
  <2>6. QED
    BY <1>3, <2>1, <2>2, <2>3, <2>4, <2>5 DEF Rebuild
<1>4. ASSUME UNCHANGED <<volume, worker, failed, crashes>>
      PROVE  \E w \in Workers : worker'[w].pc = "retrieve"
  BY <1>4 DEF MissingIsRetrieved
<1>5. ASSUME NEW o \in Objects, PutObject(o)
      PROVE  \E w \in Workers : worker'[w].pc = "retrieve"
  BY <1>5, <1>0 DEF PutObject
<1>6. ASSUME Crash PROVE FALSE
  BY <1>6, <1>0 DEF Crash
<1>7. QED
  BY <1>1, <1>2, <1>3, <1>4, <1>5, <1>6
     DEF Next, vars, PsqlRebuildAddJob, BackupVolume, BackupCompletes

\* When all rebuilds are over, and none has failed or died, there is a volume,
\* however they overlapped: whoever finds or makes it missing retrieves it.
THEOREM VolumeIsBack == Spec => []VolumeBack
<1>1. Init => MissingIsRetrieved
  BY DEF Init, MissingIsRetrieved, Dir
<1>2. MissingIsRetrieved => VolumeBack
  BY DEF MissingIsRetrieved, VolumeBack
<1>3. QED
  BY TypedInit, TypedStep, MissingStep, <1>1, <1>2, PTL DEF Spec

----------------------------------------------------------------------------
(* Completed jobs.                                                         *)

\* The retrievals of the past are kept, what they put in place stays in some
\* directory, and their backup as it is.
LEMMA InFullKept ==
  ASSUME Typed, [Next]_vars, NEW c \in retrieved, InFull(c)
  PROVE  c \in retrieved' /\ InFull(c)'
<1>1. /\ c.payload \in Backups /\ backups[c.payload].status = "Completed"
      /\ c.payload # 0
  BY BoundAssumption DEF Typed, TypeOK, InFull, Retrievable, Payloads, Backups
<1>2. backups'[c.payload] = backups[c.payload]
  <2>1. ASSUME NEW b \in Backups, BackupVolume(b) PROVE backups'[c.payload] = backups[c.payload]
    BY <1>1, <2>1, Facts DEF BackupVolume
  <2>2. ASSUME NEW b \in Backups, BackupCompletes(b) PROVE backups'[c.payload] = backups[c.payload]
    BY <1>1, <2>2, Facts DEF BackupCompletes
  <2>3. QED
    BY <2>1, <2>2 DEF Next, vars, GetOneRunningRebuildJob, PsqlRebuildVolume, Rebuild,
          StatVolume, MoveVolume, Retrieve, RetrieveFails, SaveRebuildJob,
          PsqlRebuildAddJob, PutObject, Crash
<1>3. PICK d \in Contents : c.objects \subseteq d
  BY DEF InFull
<1>4. PICK e \in Contents' : d \subseteq e
  BY ContentsGrow
<1>5. c \in retrieved'
  BY DEF Next, vars, GetOneRunningRebuildJob, PsqlRebuildVolume, Rebuild, StatVolume, MoveVolume,
         Retrieve, RetrieveFails, SaveRebuildJob, PsqlRebuildAddJob, PutObject, BackupVolume,
         BackupCompletes, Crash
<1>6. QED
  BY <1>1, <1>2, <1>3, <1>4, <1>5 DEF InFull, Retrievable

\* A worker comes to save by a retrieval only.
LEMMA ComesToSave ==
  ASSUME Typed, [Next]_vars, NEW w \in Workers, worker'[w].pc = "save", ~Retrieve(w)
  PROVE  worker'[w] = worker[w]
<1> USE Facts
<1>1. ASSUME NEW v \in Workers, NEW s, worker' = [worker EXCEPT ![v] = s], s.pc # "save"
      PROVE  worker'[w] = worker[w]
  BY <1>1
<1>2. ASSUME NEW t \in Ticks, GetOneRunningRebuildJob(t) PROVE worker'[w] = worker[w]
  BY <1>1, <1>2 DEF GetOneRunningRebuildJob, Workers
<1>3. ASSUME NEW r \in Requests, PsqlRebuildVolume(r) PROVE worker'[w] = worker[w]
  BY <1>1, <1>3 DEF PsqlRebuildVolume, Workers
<1>4. ASSUME NEW v \in Workers, Rebuild(v) PROVE worker'[w] = worker[w]
  <2>1. \A pc : [worker[v] EXCEPT !.pc = pc].pc = pc
    BY DEF States
  <2>2. CASE StatVolume(v)
    <3>1. PICK pc \in {"mv", "retrieve"} :
            worker' = [worker EXCEPT ![v] = [worker[v] EXCEPT !.pc = pc]]
      BY <2>2 DEF StatVolume
    <3>2. [worker[v] EXCEPT !.pc = pc].pc # "save"
      BY <2>1
    <3>3. QED
      BY <1>1, <3>1, <3>2
  <2>3. CASE MoveVolume(v)
    <3>1. CASE volume.dir
      <4>1. worker' = [worker EXCEPT ![v] = [worker[v] EXCEPT !.pc = "retrieve"]]
        BY <2>3, <3>1 DEF MoveVolume
      <4>2. [worker[v] EXCEPT !.pc = "retrieve"].pc # "save"
        BY <2>1
      <4>3. QED
        BY <1>1, <4>1, <4>2
    <3>2. CASE ~volume.dir
      BY <1>1, <2>3, <3>2 DEF MoveVolume, End
    <3>3. QED
      BY <3>1, <3>2
  <2>4. CASE Retrieve(v)
    BY <2>4 DEF Retrieve
  <2>5. CASE RetrieveFails(v)
    BY <1>1, <2>5 DEF RetrieveFails, End
  <2>6. CASE SaveRebuildJob(v)
    BY <1>1, <2>6 DEF SaveRebuildJob, End
  <2>7. QED
    BY <1>4, <2>2, <2>3, <2>4, <2>5, <2>6 DEF Rebuild
<1>5. ASSUME Crash PROVE FALSE
  BY <1>5 DEF Crash, Idle
<1>6. QED
  BY <1>2, <1>3, <1>4, <1>5
     DEF Next, vars, PsqlRebuildAddJob, PutObject, BackupVolume, BackupCompletes

LEMMA SavesStep == Typed /\ SavesRetrieved /\ [Next]_vars => SavesRetrieved'
<1> SUFFICES ASSUME Typed, SavesRetrieved, [Next]_vars,
                    NEW w \in Workers, worker'[w].pc = "save"
             PROVE  \E c \in retrieved' : /\ c.job = worker'[w].job /\ InFull(c)'
                                          /\ c.payload = worker'[w].payload
                                          /\ c.by = Maker(w)
  BY DEF SavesRetrieved
<1>1. CASE Retrieve(w)
  <2> DEFINE p == worker[w].payload
  <2>0. PICK c \in retrieved' : c = Retrieval(w, volume'.objects)
    BY <1>1 DEF Retrieve
  <2>1. worker'[w].payload = p /\ worker'[w].job = worker[w].job
    BY <1>1, Facts DEF Retrieve, States
  <2>2. /\ Retrievable(p) /\ volume' = Dir(backups[p].content) /\ UNCHANGED backups
    BY <1>1 DEF Retrieve
  <2>3. /\ c.job = worker[w].job /\ c.payload = p /\ c.by = Maker(w)
        /\ c.objects = backups'[p].content
    BY <2>0, <2>2 DEF Retrieval, Dir
  <2>4. c.objects \in Contents'
    BY <2>2, <2>3 DEF Contents, Dir
  <2>5. InFull(c)'
    BY <2>2, <2>3, <2>4 DEF InFull, Retrievable
  <2>6. QED
    BY <2>1, <2>2, <2>3, <2>5
<1>2. CASE ~Retrieve(w)
  <2>1. worker'[w] = worker[w]
    BY <1>2, ComesToSave
  <2>2. PICK c \in retrieved : /\ c.job = worker[w].job /\ InFull(c)
                               /\ c.payload = worker[w].payload /\ c.by = Maker(w)
    BY <2>1 DEF SavesRetrieved
  <2>3. QED
    BY <2>1, <2>2, InFullKept
<1>3. QED
  BY <1>1, <1>2

\* Rows of jobs are made as Created, and change when a worker saves them.
LEMMA JobRows ==
  ASSUME Typed, [Next]_vars, NEW j \in DOMAIN jobs', jobs'[j].status = "Completed"
  PROVE  /\ j \in DOMAIN jobs
         /\ jobs'[j].payload = jobs[j].payload /\ jobs[j].payload \in Payloads
         /\ \/ jobs[j].status = "Completed"
            \/ \E w \in Workers : SaveRebuildJob(w) /\ worker[w].job = j
<1> USE Facts
<1>0. ASSUME NEW i \in DOMAIN jobs PROVE jobs[i].payload \in Payloads
  <2>1. jobs[i] \in Rows
    OBVIOUS
  <2>2. QED
    BY <2>1 DEF Rows
<1>1. CASE UNCHANGED jobs
  BY <1>1, <1>0
<1>2. CASE PsqlRebuildAddJob
  <2>1. PICK b \in Backups : jobs' = Append(jobs, [status |-> "Created",
          payload |-> IF backups[b].status = "Created" THEN 0 ELSE b])
    BY <1>2 DEF PsqlRebuildAddJob
  <2>2. [status |-> "Created", payload |-> IF backups[b].status = "Created" THEN 0 ELSE b] \in Rows
    BY BoundAssumption DEF Rows, Payloads, Backups
  <2>3. /\ jobs' \in Seq(Rows) /\ Len(jobs') = Len(jobs) + 1
        /\ \A i \in 1..Len(jobs) : jobs'[i] = jobs[i]
        /\ jobs'[Len(jobs) + 1].status = "Created"
    BY <2>1, <2>2, AppendProperties
  <2>4. j \in 1..Len(jobs)
    BY <2>3
  <2>5. QED
    BY <1>0, <2>3, <2>4
<1>3. ASSUME NEW w \in Workers, SaveRebuildJob(w), ~UNCHANGED jobs
      PROVE  /\ j \in DOMAIN jobs
             /\ jobs'[j].payload = jobs[j].payload
             /\ jobs[j].status = "Completed" \/ worker[w].job = j
  <2>1. jobs' = [jobs EXCEPT ![worker[w].job].status = "Completed"] /\ worker[w].job # 0
    BY <1>3 DEF SaveRebuildJob
  <2>2. worker[w].job \in DOMAIN jobs
    BY <2>1 DEF Typed, JobsKnown
  <2>3. QED
    BY <2>1, <2>2, SavedRow
<1>4. UNCHANGED jobs \/ PsqlRebuildAddJob \/ \E w \in Workers : SaveRebuildJob(w)
  BY DEF Next, vars, GetOneRunningRebuildJob, PsqlRebuildVolume, Rebuild, StatVolume, MoveVolume,
         Retrieve, RetrieveFails, PutObject, BackupVolume, BackupCompletes, Crash
<1>5. CASE ~UNCHANGED jobs /\ \E w \in Workers : SaveRebuildJob(w)
  BY <1>3, <1>5, <1>0
<1>6. QED
  BY <1>1, <1>2, <1>4, <1>5

LEMMA CompletedStep ==
    Typed /\ SavesRetrieved /\ CompletedWasRebuilt /\ [Next]_vars => CompletedWasRebuilt'
<1> SUFFICES ASSUME Typed, SavesRetrieved, CompletedWasRebuilt, [Next]_vars,
                    NEW j \in DOMAIN jobs', jobs'[j].status = "Completed"
             PROVE  \E c \in retrieved' : /\ c.job = j /\ InFull(c)'
                                          /\ c.payload = jobs'[j].payload \/ c.by = "request"
  BY DEF CompletedWasRebuilt
<1>1. j \in DOMAIN jobs /\ jobs'[j].payload = jobs[j].payload
  BY JobRows
<1>2. CASE jobs[j].status = "Completed"
  <2>1. PICK c \in retrieved : /\ c.job = j /\ InFull(c)
                               /\ c.payload = jobs[j].payload \/ c.by = "request"
    BY <1>1, <1>2 DEF CompletedWasRebuilt
  <2>2. c \in retrieved' /\ InFull(c)'
    BY <2>1, InFullKept
  <2>3. QED
    BY <1>1, <2>1, <2>2
<1>3. ASSUME NEW w \in Workers, SaveRebuildJob(w), worker[w].job = j
      PROVE  \E c \in retrieved' : /\ c.job = j /\ InFull(c)'
                                   /\ c.payload = jobs'[j].payload \/ c.by = "request"
  <2>1. PICK c \in retrieved : /\ c.job = j /\ InFull(c)
                               /\ c.payload = worker[w].payload /\ c.by = Maker(w)
    BY <1>3 DEF SavesRetrieved, SaveRebuildJob
  <2>2. j # 0
    BY <1>1, Facts
  <2>3. w \in Requests \/ worker[w].payload = jobs[j].payload
    BY <1>3, <2>2 DEF Typed, JobsKnown, Workers
  <2>4. c.payload = jobs[j].payload \/ c.by = "request"
    BY <2>1, <2>3 DEF Maker
  <2>5. QED
    BY <1>1, <1>3, <2>1, <2>4, InFullKept
<1>4. QED
  BY <1>2, <1>3, JobRows

\* A job is Completed only after Lotus has retrieved for it all that the backup
\* of its payload holds, or of the payload a request named instead; the objects
\* retrieved are in the volume or in a directory moved away since.
THEOREM CompletedAreRebuilt == Spec => []CompletedWasRebuilt
<1>1. Init => SavesRetrieved
  BY DEF Init, SavesRetrieved, Idle
<1>2. Init => CompletedWasRebuilt
  BY DEF Init, CompletedWasRebuilt
<1>3. QED
  BY TypedInit, TypedStep, SavesStep, CompletedStep, <1>1, <1>2, PTL DEF Spec
=============================================================================
