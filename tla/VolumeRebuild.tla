--------------------------- MODULE VolumeRebuild ---------------------------
(***************************************************************************)
(* Rebuilding the FS3 volume from a backup: the cron job of                *)
(* scheduler/rebuild.go (every ten minutes, one job a tick) and the web    *)
(* handlers PsqlRebuildAddJob and PsqlRebuildVolume (cmd/web-handlers.go). *)
(* A rebuild moves the volume directory out of the way, has Lotus retrieve *)
(* the payload of a backup into its place and marks the job Completed.     *)
(* Ticks overlap each other, the requests, the users of the volume and the *)
(* backups; nothing is locked.                                             *)
(*                                                                         *)
(* The content of a directory is the set of the objects in it.  Payload 0  *)
(* is the empty PayloadCid.  Lotus is external: it retrieves a payload     *)
(* whose deal is active, into a directory it makes itself, or fails and    *)
(* may leave some of the objects behind.                                   *)
(***************************************************************************)
EXTENDS Naturals, Sequences, FiniteSets

CONSTANTS Ticks,        \* goroutines of the rebuild cron job
          Requests,     \* requests to /rebuild/volume, each served once
          Objects,      \* what users upload
          MaxBackups,   \* bound: backup jobs in the database
          MaxJobs,      \* bound: rebuild jobs in the database
          MaxCrashes    \* bound: crashes of the process

ASSUME BoundAssumption == {MaxBackups, MaxJobs, MaxCrashes} \subseteq Nat
ASSUME WorkerAssumption == Ticks \cap Requests = {}

VARIABLES
    volume,     \* what is at Fs3VolumeAddress
    moved,      \* the contents of the directories moved away
    written,    \* the objects users have uploaded
    backups,    \* psql_volume_backup_jobs
    jobs,       \* psql_volume_rebuild_jobs
    worker,     \* the local state of every tick and request
    retrieved,  \* history: the retrievals that succeeded, for which job
    failed,     \* whether a rebuild ever returned an error
    crashes     \* how often the process has died

vars == <<volume, moved, written, backups, jobs, worker, retrieved, failed, crashes>>

Backups == 1..MaxBackups
Payloads == 0..MaxBackups
Workers == Ticks \cup Requests
Absent == [dir |-> FALSE, objects |-> {}]
Dir(objects) == [dir |-> TRUE, objects |-> objects]

Idle == [pc |-> "idle", job |-> 0, payload |-> 0]
\* A request is served once.
Ended(w) == IF w \in Requests THEN [Idle EXCEPT !.pc = "served"] ELSE Idle

\* The backup scheduler has created its jobs, none has been run.
Init ==
    /\ volume = Dir({})
    /\ moved = {}
    /\ written = {}
    /\ backups = [b \in Backups |-> [status |-> "Created", content |-> {}]]
    /\ jobs = <<>>
    /\ worker = [w \in Workers |-> Idle]
    /\ retrieved = {}
    /\ failed = FALSE
    /\ crashes = 0

----------------------------------------------------------------------------
(* RebuildVolumeScheduler and PsqlRebuildVolume.                           *)

\* Created or Running; no code sets Running (or Failed).
Unfinished == {j \in DOMAIN jobs : jobs[j].status = "Created"}

\* First orders by the primary key.
GetOneRunningRebuildJob(t) ==
    /\ worker[t].pc = "idle"
    /\ \E j \in Unfinished :
         /\ \A i \in Unfinished : j <= i
         /\ worker' = [worker EXCEPT ![t] =
                         [pc |-> "stat", job |-> j, payload |-> jobs[j].payload]]
    /\ UNCHANGED <<volume, moved, written, backups, jobs, retrieved, failed, crashes>>

\* A request names the payload and the job itself; neither is checked.
PsqlRebuildVolume(r) ==
    /\ worker[r].pc = "idle"
    /\ \E j \in DOMAIN jobs \cup {0}, p \in Payloads :
         worker' = [worker EXCEPT ![r] = [pc |-> "stat", job |-> j, payload |-> p]]
    /\ UNCHANGED <<volume, moved, written, backups, jobs, retrieved, failed, crashes>>

\* Mutant: retrieves over a volume that is there.
StatOnly(w) ==
    /\ worker[w].pc = "stat"
    /\ worker' = [worker EXCEPT ![w].pc = "retrieve"]
    /\ UNCHANGED <<volume, moved, written, backups, jobs, retrieved, failed, crashes>>

\* os.Stat(volumePath)
StatVolume(w) ==
    /\ worker[w].pc = "stat"
    /\ worker' = [worker EXCEPT ![w].pc = IF volume.dir THEN "mv" ELSE "retrieve"]
    /\ UNCHANGED <<volume, moved, written, backups, jobs, retrieved, failed, crashes>>

End(w) == worker' = [worker EXCEPT ![w] = Ended(w)]

\* Mutant: removes the previous volume.
RemoveVolume(w) ==
    /\ worker[w].pc = "mv"
    /\ volume' = Absent
    /\ worker' = [worker EXCEPT ![w].pc = "retrieve"]
    /\ UNCHANGED <<moved, written, backups, jobs, retrieved, failed, crashes>>

\* Mutant: does not wait for the retrieval.
MoveVolumeOnly(w) ==
    /\ worker[w].pc = "mv"
    /\ volume.dir
    /\ moved' = moved \cup {volume.objects}
    /\ volume' = Absent
    /\ worker' = [worker EXCEPT ![w].pc = "save"]
    /\ UNCHANGED <<written, backups, jobs, retrieved, failed, crashes>>

\* mv volumePath to a name with a time stamp; it fails when another rebuild
\* has moved the directory since os.Stat.
MoveVolume(w) ==
    /\ worker[w].pc = "mv"
    /\ \/ /\ volume.dir
          /\ moved' = moved \cup {volume.objects}
          /\ volume' = Absent
          /\ worker' = [worker EXCEPT ![w].pc = "retrieve"]
          /\ UNCHANGED failed
       \/ /\ ~volume.dir
          /\ failed' = TRUE
          /\ End(w)
          /\ UNCHANGED <<volume, moved>>
    /\ UNCHANGED <<written, backups, jobs, retrieved, crashes>>

Retrievable(p) == p # 0 /\ backups[p].status = "Completed"

\* Lotus has put the objects of a payload in place for a job, taken by a tick of
\* the cron job or named by a request.
Maker(w) == IF w \in Requests THEN "request" ELSE "cron"
Retrieval(w, objects) == [job |-> worker[w].job, payload |-> worker[w].payload,
                          by |-> Maker(w), objects |-> objects]

\* LotusRpcClientRetrieve returns nil.
Retrieve(w) ==
    /\ worker[w].pc = "retrieve"
    /\ Retrievable(worker[w].payload)
    /\ ~volume.dir
    /\ volume' = Dir(backups[worker[w].payload].content)
    /\ retrieved' = retrieved \cup {Retrieval(w, volume'.objects)}
    /\ worker' = [worker EXCEPT ![w].pc = "save"]
    /\ UNCHANGED <<moved, written, backups, jobs, failed, crashes>>

\* Mutant: the error is logged only.
RetrieveFailsUnseen(w) ==
    /\ worker[w].pc = "retrieve"
    /\ failed' = TRUE
    /\ worker' = [worker EXCEPT ![w].pc = "save"]
    /\ UNCHANGED <<volume, moved, written, backups, jobs, retrieved, crashes>>

\* It returns an error, and the rebuild with it; the previous volume is not
\* moved back.
RetrieveFails(w) ==
    /\ worker[w].pc = "retrieve"
    /\ \/ UNCHANGED volume
       \/ /\ Retrievable(worker[w].payload)
          /\ ~volume.dir
          /\ \E some \in SUBSET backups[worker[w].payload].content : volume' = Dir(some)
    /\ failed' = TRUE
    /\ End(w)
    /\ UNCHANGED <<moved, written, backups, jobs, retrieved, crashes>>

\* Mutant: marks the job Running.
SaveRunning(w) ==
    /\ worker[w].pc = "save"
    /\ jobs' = IF worker[w].job = 0 THEN jobs
               ELSE [jobs EXCEPT ![worker[w].job].status = "Running"]
    /\ End(w)
    /\ UNCHANGED <<volume, moved, written, backups, retrieved, failed, crashes>>

\* Save.  A request for a job that does not exist saves an empty row, which
\* the foreign key to the backup jobs refuses.
SaveRebuildJob(w) ==
    /\ worker[w].pc = "save"
    /\ jobs' = IF worker[w].job = 0 THEN jobs
               ELSE [jobs EXCEPT ![worker[w].job].status = "Completed"]
    /\ End(w)
    /\ UNCHANGED <<volume, moved, written, backups, retrieved, failed, crashes>>

\* The rebuild job copies the payload of the backup job, whatever the state
\* of the backup: it is empty before the backup's task was created.
PsqlRebuildAddJob ==
    /\ Len(jobs) < MaxJobs
    /\ \E b \in Backups :
         jobs' = Append(jobs, [status |-> "Created",
                               payload |-> IF backups[b].status = "Created" THEN 0 ELSE b])
    /\ UNCHANGED <<volume, moved, written, backups, worker, retrieved, failed, crashes>>

----------------------------------------------------------------------------
(* Users, backups, crashes.                                                *)

\* An upload needs the directory of the bucket.
PutObject(o) ==
    /\ volume.dir
    /\ o \notin written
    /\ volume' = [volume EXCEPT !.objects = @ \cup {o}]
    /\ written' = written \cup {o}
    /\ UNCHANGED <<moved, backups, jobs, worker, retrieved, failed, crashes>>

\* A backup tick takes the volume as it is (IpfsAddFolder) and saves the
\* task; it fails when there is no volume.
BackupVolume(b) ==
    /\ backups[b].status = "Created"
    /\ volume.dir
    /\ backups' = [backups EXCEPT ![b] = [status |-> "Running", content |-> volume.objects]]
    /\ UNCHANGED <<volume, moved, written, jobs, worker, retrieved, failed, crashes>>

\* The deal of the backup is active and the autobid tick has seen it.
BackupCompletes(b) ==
    /\ backups[b].status = "Running"
    /\ backups' = [backups EXCEPT ![b].status = "Completed"]
    /\ UNCHANGED <<volume, moved, written, jobs, worker, retrieved, failed, crashes>>

\* The process dies and is started again.
Crash ==
    /\ crashes < MaxCrashes
    /\ \E w \in Workers : worker[w].pc \notin {"idle", "served"}
    /\ crashes' = crashes + 1
    /\ worker' = [w \in Workers |->
                    IF worker[w].pc = "idle" THEN Idle ELSE Ended(w)]
    /\ UNCHANGED <<volume, moved, written, backups, jobs, retrieved, failed>>

Rebuild(w) ==
    StatVolume(w) \/ MoveVolume(w) \/ Retrieve(w) \/ RetrieveFails(w) \/ SaveRebuildJob(w)

Next ==
    \/ \E t \in Ticks : GetOneRunningRebuildJob(t)
    \/ \E r \in Requests : PsqlRebuildVolume(r)
    \/ \E w \in Workers : Rebuild(w)
    \/ PsqlRebuildAddJob
    \/ \E o \in Objects : PutObject(o)
    \/ \E b \in Backups : BackupVolume(b) \/ BackupCompletes(b)
    \/ Crash

Spec == Init /\ [][Next]_vars

(* cron keeps starting ticks, every call of a rebuild returns, and Lotus   *)
(* does not fail every one of the attempts on an active deal.              *)
Fairness ==
    /\ \A t \in Ticks : WF_vars(GetOneRunningRebuildJob(t))
    /\ \A w \in Workers : WF_vars(Rebuild(w)) /\ SF_vars(Retrieve(w))

FairSpec == Spec /\ Fairness

----------------------------------------------------------------------------
(* Properties.                                                             *)

(* Directories hold uploaded objects only, rows and local states have      *)
(* their types.                                                            *)
TypeOK ==
    /\ volume \in [dir : BOOLEAN, objects : SUBSET Objects]
    /\ moved \subseteq SUBSET Objects
    /\ written \subseteq Objects
    /\ backups \in [Backups -> [status : {"Created", "Running", "Completed"},
                                content : SUBSET Objects]]
    /\ jobs \in Seq([status : {"Created", "Completed"}, payload : Payloads])
    /\ Len(jobs) <= MaxJobs
    /\ worker \in [Workers -> [pc : {"idle", "stat", "mv", "retrieve", "save", "served"},
                               job : 0..MaxJobs, payload : Payloads]]
    /\ retrieved \subseteq [job : 0..MaxJobs, payload : Payloads,
                             by : {"cron", "request"}, objects : SUBSET Objects]
    /\ failed \in BOOLEAN
    /\ crashes \in 0..MaxCrashes

Contents == moved \cup (IF volume.dir THEN {volume.objects} ELSE {})

(* No upload is ever lost: whatever rebuilds overlap, fail or die, an      *)
(* object is in the volume or in a directory moved away.                   *)
NothingLost == \A o \in written : \E c \in Contents : o \in c

\* A retrieval has put in place all the backup holds, and it is there or in a
\* directory moved away since.
InFull(c) ==
    /\ Retrievable(c.payload)
    /\ c.objects = backups[c.payload].content
    /\ \E d \in Contents : c.objects \subseteq d

(* A Completed job has been rebuilt: a retrieval made for this very job    *)
(* succeeded, of the job's payload unless a request named another, with    *)
(* all that the backup holds; and no rebuild has removed it since.  A      *)
(* rebuild that failed or died does not complete its job, whichever of the *)
(* ticks and requests that work on the job comes first.                    *)
CompletedWasRebuilt ==
    \A j \in DOMAIN jobs : jobs[j].status = "Completed" =>
       \E c \in retrieved : /\ c.job = j /\ InFull(c)
                            /\ c.payload = jobs[j].payload \/ c.by = "request"

(* The volume is missing only while a rebuild is at work, or after one     *)
(* that returned an error or died: rebuilds that overlap and all succeed   *)
(* leave a volume.                                                         *)
VolumeBack ==
    ~failed /\ crashes = 0 /\ (\A w \in Workers : worker[w].pc \in {"idle", "served"})
    => volume.dir

Completed(j) == j \in DOMAIN jobs /\ jobs[j].status = "Completed"

Due(j) == j \in DOMAIN jobs /\ Retrievable(jobs[j].payload)

(* A job is completed once its payload and those of the jobs before it can *)
(* be retrieved: overlapping ticks and requests do not make each other     *)
(* fail for ever, nor does a crash block the queue.                        *)
RebuildsCompleteInOrder ==
    \A j \in 1..MaxJobs :
       j \in DOMAIN jobs /\ (\A i \in 1..j : Due(i) \/ Completed(i)) ~> Completed(j)

(* "Rebuild the volume content by retrieving previous volume backup        *)
(* content specified by users" (README.md:23): a job whose payload can be  *)
(* retrieved is completed.                                                 *)
RebuildsComplete == \A j \in 1..MaxJobs : Due(j) ~> Completed(j)

============================================================================
