---------------------------- MODULE AccountProof ----------------------------
(***************************************************************************)
(* What the account pages keep, for any user, any number of plans, jobs    *)
(* and requests, pages of any size and any order of answers: the invariant *)
(* of the jobs (JobsInv) and of the masks (MasksInv), what the text of a   *)
(* price denotes, and the theorems on Account.                             *)
(***************************************************************************)
EXTENDS PlansProof, FiniteSetTheorems

----------------------------------------------------------------------------
(* The jobs.                                                               *)

JobsFields == {"activeName", "tableData", "tableData_2", "backupPlan", "dialogVisible",
               "dialogConfirm", "dialogDis", "loading", "loading_rebuild", "parma",
               "parmaRebuild", "timers", "behind", "chosen"}

\* The jobs of the database: a backup costs what it costs, and is completed once.
JobsTyped ==
    /\ Sequence(backups) /\ DOMAIN backups = DOMAIN Costs
    /\ \A b \in DOMAIN backups : /\ DOMAIN backups[b] = {"Status", "Cost"}
                                 /\ backups[b].Cost = Costs[b]
    /\ Sequence(rebuilds)
    /\ \A r \in DOMAIN rebuilds : DOMAIN rebuilds[r] = {"BackupJobId", "Status"}
    /\ DOMAIN confirmed = {"of", "mixed"}

IsCompleted(b) == b \in DOMAIN backups /\ backups[b].Status = "Completed"
\* What the dialog that asks for a rebuild is about, and what is asked for.
Agreed(b) == b \in confirmed.of /\ IsCompleted(b)

\* A row of the table of backups, which may be older than the job.
RowOK(row) == /\ row.ID \in DOMAIN backups /\ row.Cost = Costs[row.ID]
              /\ row.Status = "Completed" => IsCompleted(row.ID)
RowsOK(rows) == \A k \in DOMAIN rows : RowOK(rows[k])
\* The rows of the page at an offset.
Follow(rows, offset) == \A k \in DOMAIN rows : rows[k].ID = offset * JobLimit + k

IsRebuild(job) ==
    \E r \in DOMAIN rebuilds : job = [ID |-> r, BackupJobId |-> rebuilds[r].BackupJobId]

CompletedOf(op) == Cardinality(Completed(JobsOf(op)))
\* The counts of a card, which may be older than the jobs, and those of an
\* answer that is made in part.
Card(n, op) == /\ {n.inProcessJobs, n.completedJobs, n.there} \subseteq Nat
               /\ n.inProcessJobs + n.completedJobs >= n.there
               /\ n.completedJobs <= CompletedOf(op)
Half(n, op) == /\ {n.inProcessJobs, n.there} \subseteq Nat /\ n.completedJobs = NotCounted
               /\ n.inProcessJobs + CompletedOf(op) >= n.there

JobCall(c) ==
    /\ c.op \in ListOps => /\ c.arg.Offset \in Nat
                           /\ c.state = "answered" => /\ c.reply.total \in Nat
                                                      /\ Follow(c.reply.list, c.arg.Offset)
    /\ c.op = "ListBackups" /\ c.state = "answered" => RowsOK(c.reply.list)
    /\ c.op = "AddRebuild" => /\ confirmed.mixed \/ Agreed(c.arg.BackupTaskId)
                              /\ c.state = "answered" => IsRebuild(c.reply)
    /\ c.op \in CountOps /\ c.state = "answered" => Card(c.reply, c.op) \/ Half(c.reply, c.op)
JobCallsOK == \A c \in Of(calls) : JobCall(c)

IsPager(p) == DOMAIN p = {"offset", "total"} /\ p.offset \in Nat \ {0} /\ p.total \in Nat
JobsViewOK(v) ==
    /\ DOMAIN v = JobsFields
    /\ IsPager(v.parma) /\ IsPager(v.parmaRebuild)
    /\ DOMAIN v.timers = ListOps /\ \A op \in ListOps : v.timers[op] \in Nat
    /\ DOMAIN v.backupPlan = {"ID", "BackupJobId"}
    /\ RowsOK(v.tableData)
    /\ v.dialogConfirm => IsRebuild(v.backupPlan)
    /\ v.dialogVisible => \/ confirmed.mixed
                          \/ v.backupPlan.ID = v.chosen /\ IsCompleted(v.chosen)
CardsOK(v) == /\ DOMAIN v = {"card"} /\ DOMAIN v.card = ListOps
              /\ \A op \in ListOps : Card(v.card[op], op)

\* The last list that was asked for is that of the page the pager is on, and
\* without one the table shows that page.
PagerFollowed(op) ==
    onJobs /\ op \notin view.behind =>
      LET offset == view[PagerOf(op)].offset - 1 IN
        /\ (\A c \in Of(calls) : c.op # op) => Follow(view[TableOf(op)], offset)
        /\ \A c \in LastOf(calls, op) : c.arg.Offset = offset

JobsShown == \A v \in {view} : /\ onJobs => JobsViewOK(v)
                               /\ page = "dashboard" => CardsOK(v)

RebuildsAgreed ==
    confirmed.mixed \/ \A r \in DOMAIN rebuilds : Agreed(rebuilds[r].BackupJobId)

JobsInv == /\ JobsTyped /\ JobCallsOK /\ RebuildsAgreed /\ JobsShown
           /\ \A op \in ListOps : PagerFollowed(op)

----------------------------------------------------------------------------
(* The pages of a list.                                                    *)

LEMMA MinOfTwo ==
  ASSUME NEW a \in Int, NEW b \in Int
  PROVE  Min({a, b}) = IF a <= b THEN a ELSE b
<1> DEFINE m == IF a <= b THEN a ELSE b
<1>1. m \in {a, b} /\ \A y \in {a, b} : m <= y
  OBVIOUS
<1>2. \A x \in {a, b} : (\A y \in {a, b} : x <= y) => x = m
  OBVIOUS
<1> HIDE DEF m
<1>3. QED
  BY <1>1, <1>2 DEF Min, m

LEMMA MaxOfTwo ==
  ASSUME NEW a \in Int, NEW b \in Int
  PROVE  Max({a, b}) = IF a >= b THEN a ELSE b
<1> DEFINE m == IF a >= b THEN a ELSE b
<1>1. m \in {a, b} /\ \A y \in {a, b} : m >= y
  OBVIOUS
<1>2. \A x \in {a, b} : (\A y \in {a, b} : x >= y) => x = m
  OBVIOUS
<1> HIDE DEF m
<1>3. QED
  BY <1>1, <1>2 DEF Max, m

LEMMA JobPagesNumber ==
  ASSUME NEW total \in Nat
  PROVE  JobPages(total) \in Nat
<1>1. (total + JobLimit - 1) \div JobLimit \in Int
  BY JobBounds
<1>2. QED
  BY <1>1, MaxOfTwo DEF JobPages

LEMMA JobsOnPage ==
  ASSUME NEW s, Sequence(s), NEW offset \in Nat
  PROVE  \A k \in DOMAIN JobPage(s, offset) :
           /\ offset * JobLimit + k \in DOMAIN s
           /\ JobPage(s, offset)[k] = s[offset * JobLimit + k]
<1> DEFINE n == offset * JobLimit
           len == Len(s)
           from == Min({n, len})
           to == Min({from + JobLimit, len})
<1>1. JobLimit \in Nat /\ JobLimit > 0
  BY JobBounds
<1>2. n \in Nat
  BY <1>1
<1>3. JobPage(s, offset) = [k \in 1..(to - from) |-> s[from + k]]
  BY DEF JobPage
<1> HIDE DEF n
<1>4. len \in Nat /\ DOMAIN s = 1..len
  BY Indices
<1> HIDE DEF len
<1>5. from = IF n <= len THEN n ELSE len
  BY <1>2, <1>4, MinOfTwo
<1> HIDE DEF from
<1>6. from \in Nat /\ from + JobLimit \in Nat
  BY <1>1, <1>2, <1>4, <1>5
<1>7. to = IF from + JobLimit <= len THEN from + JobLimit ELSE len
  BY <1>4, <1>6, MinOfTwo
<1> HIDE DEF to
<1>8. ASSUME NEW k \in 1..(to - from) PROVE from = n /\ n + k \in DOMAIN s
  <2>1. to \in Nat /\ to <= len
    BY <1>4, <1>6, <1>7
  <2>2. k \in Int /\ 1 <= k /\ k <= to - from
    BY <1>6, <1>8, <2>1
  <2>3. from = n
    BY <1>2, <1>4, <1>5, <2>1, <2>2
  <2>4. n + k \in 1..len
    BY <1>2, <1>4, <2>1, <2>2, <2>3
  <2>5. QED
    BY <1>4, <2>3, <2>4
<1>9. QED
  BY <1>3, <1>8 DEF n

\* What FS3 lists of the jobs.
LEMMA ListedBackups ==
  ASSUME JobsTyped, NEW offset \in Nat
  PROVE  LET rows == JobPage(BackupRows, offset) IN RowsOK(rows) /\ Follow(rows, offset)
<1> DEFINE Row(b) == [ID |-> b, Status |-> backups[b].Status, Cost |-> backups[b].Cost]
<1>1. BackupRows = [b \in DOMAIN backups |-> Row(b)] /\ Sequence(backups)
  BY DEF BackupRows, JobsTyped
<1>2. Len(backups) \in Nat /\ DOMAIN backups = 1..Len(backups)
  BY <1>1, Indices
<1>3. Sequence(BackupRows)
  BY <1>1, <1>2, Numbered
<1>4. \A k \in DOMAIN JobPage(BackupRows, offset) :
        offset * JobLimit + k \in DOMAIN backups
        /\ JobPage(BackupRows, offset)[k] = Row(offset * JobLimit + k)
  BY <1>1, <1>3, JobsOnPage
<1>5. ASSUME NEW b \in DOMAIN backups PROVE RowOK(Row(b)) /\ Row(b).ID = b
  BY DEF RowOK, IsCompleted, JobsTyped
<1> HIDE DEF Row
<1>6. QED
  BY <1>4, <1>5 DEF RowsOK, Follow

LEMMA ListedRebuilds ==
  ASSUME JobsTyped, NEW offset \in Nat
  PROVE  Follow(JobPage(RebuildRows, offset), offset)
<1> DEFINE Row(r) == [ID |-> r, BackupJobId |-> rebuilds[r].BackupJobId]
<1>1. RebuildRows = [r \in DOMAIN rebuilds |-> Row(r)] /\ Sequence(rebuilds)
  BY DEF RebuildRows, JobsTyped
<1>2. Len(rebuilds) \in Nat /\ DOMAIN rebuilds = 1..Len(rebuilds)
  BY <1>1, Indices
<1>3. Sequence(RebuildRows)
  BY <1>1, <1>2, Numbered
<1>4. \A k \in DOMAIN JobPage(RebuildRows, offset) :
        JobPage(RebuildRows, offset)[k] = Row(offset * JobLimit + k)
  BY <1>1, <1>3, JobsOnPage
<1>5. \A r : Row(r).ID = r
  OBVIOUS
<1> HIDE DEF Row
<1>6. QED
  BY <1>4, <1>5 DEF Follow
----------------------------------------------------------------------------
(* The database.                                                           *)

LEMMA CompletedCounts ==
  ASSUME NEW jobs, Sequence(jobs)
  PROVE  /\ IsFiniteSet(Completed(jobs)) /\ Completed(jobs) \subseteq DOMAIN jobs
         /\ Cardinality(Completed(jobs)) \in Nat /\ Cardinality(InProcess(jobs)) \in Nat
         /\ Len(jobs) \in Nat
         /\ Cardinality(InProcess(jobs)) + Cardinality(Completed(jobs)) = Len(jobs)
<1> DEFINE D == DOMAIN jobs
           C == Completed(jobs)
           n == Len(jobs)
<1>1. n \in Nat /\ D = 1..n
  BY Indices
<1>2. C \subseteq D /\ D \cap C = C /\ InProcess(jobs) = D \ C
  BY DEF Completed, InProcess
<1> HIDE DEF n, D, C
<1>3. IsFiniteSet(D) /\ Cardinality(D) = n
  BY <1>1, FS_Interval
<1>4. IsFiniteSet(C) /\ Cardinality(C) \in Nat
  BY <1>2, <1>3, FS_Subset, FS_CardinalityType
<1>5. IsFiniteSet(D \ C) /\ Cardinality(D \ C) = Cardinality(D) - Cardinality(D \cap C)
  BY <1>3, FS_Difference
<1>6. Cardinality(D \ C) \in Nat
  BY <1>5, FS_CardinalityType
<1>7. Cardinality(D \ C) + Cardinality(C) = n
  <2>1. Cardinality(D \ C) = n - Cardinality(C)
    BY <1>2, <1>3, <1>5
  <2> DEFINE x == Cardinality(D \ C)
             y == Cardinality(C)
  <2>2. n \in Nat /\ x \in Nat /\ y \in Nat /\ x = n - y
    BY <1>1, <1>4, <1>6, <2>1
  <2> HIDE DEF x, y
  <2>3. x + y = n
    BY <2>2
  <2>4. QED
    BY <2>3 DEF x, y
<1>8. QED
  BY <1>1, <1>2, <1>4, <1>6, <1>7 DEF n, D, C

LEMMA MoreCompleted ==
  ASSUME NEW s, NEW t, Sequence(s), Sequence(t),
         \A j \in DOMAIN s : j \in DOMAIN t /\ (s[j].Status = "Completed" => t[j].Status = "Completed")
  PROVE  Cardinality(Completed(s)) <= Cardinality(Completed(t))
<1>1. Completed(s) \subseteq Completed(t)
  BY DEF Completed
<1>2. IsFiniteSet(Completed(t))
  BY CompletedCounts
<1>3. QED
  BY <1>1, <1>2, FS_Subset

\* The tables that the requests for counts and the cards are about.
LEMMA JobTables ==
  ASSUME JobsTyped, NEW op
  PROVE  /\ Sequence(JobsOf(op))
         /\ op = "ListBackups" \/ op = "CountBackups" => JobsOf(op) = backups
         /\ op = "ListRebuilds" \/ op = "CountRebuilds" => JobsOf(op) = rebuilds
BY DEF JobsOf, JobsTyped

\* Jobs are made and completed, and what is confirmed stays confirmed.
Grows ==
    /\ JobsTyped /\ JobsTyped' /\ DOMAIN backups' = DOMAIN backups
    /\ \A b : IsCompleted(b) => IsCompleted(b)'
    /\ \A r \in DOMAIN rebuilds :
         /\ r \in DOMAIN rebuilds' /\ rebuilds'[r].BackupJobId = rebuilds[r].BackupJobId
         /\ rebuilds[r].Status = "Completed" => rebuilds'[r].Status = "Completed"
    /\ confirmed.of \subseteq confirmed'.of
    /\ confirmed.mixed => confirmed'.mixed

LEMMA GrowKeeps ==
  ASSUME Grows
  PROVE  /\ \A rows : RowsOK(rows) => RowsOK(rows)'
         /\ \A job : IsRebuild(job) => IsRebuild(job)'
         /\ \A b : Agreed(b) => Agreed(b)'
         /\ \A n, op : Card(n, op) => Card(n, op)'
         /\ \A n, op : Half(n, op) => Half(n, op)'
         /\ \A c : JobCall(c) => JobCall(c)'
<1>1. \A rows : RowsOK(rows) => RowsOK(rows)'
  BY DEF Grows, RowsOK, RowOK
<1>2. \A job : IsRebuild(job) => IsRebuild(job)'
  BY DEF Grows, IsRebuild
<1>3. \A b : Agreed(b) => Agreed(b)'
  BY DEF Grows, Agreed
<1>4. ASSUME NEW op
      PROVE  /\ CompletedOf(op) \in Nat /\ CompletedOf(op)' \in Nat
             /\ CompletedOf(op) <= CompletedOf(op)'
  <2>1. ASSUME NEW s, NEW t, s = JobsOf(op), t = JobsOf(op)'
        PROVE  /\ Cardinality(Completed(s)) \in Nat /\ Cardinality(Completed(t)) \in Nat
               /\ Cardinality(Completed(s)) <= Cardinality(Completed(t))
    <3>1. \/ s = backups /\ t = backups'
          \/ s = rebuilds /\ t = rebuilds'
      BY <2>1 DEF JobsOf
    <3>2. Sequence(s) /\ Sequence(t)
      BY <3>1 DEF Grows, JobsTyped
    <3>3. \A j \in DOMAIN s : j \in DOMAIN t /\ (s[j].Status = "Completed" => t[j].Status = "Completed")
      BY <3>1 DEF Grows, IsCompleted
    <3>4. QED
      BY <3>2, <3>3, CompletedCounts, MoreCompleted
  <2>2. QED
    BY <2>1 DEF CompletedOf
<1>5. \A n, op : /\ Card(n, op) => Card(n, op)'
                 /\ Half(n, op) => Half(n, op)'
  <2>1. ASSUME NEW n, NEW op
        PROVE  /\ Card(n, op) => Card(n, op)'
               /\ Half(n, op) => Half(n, op)'
    <3> DEFINE x == n.completedJobs
               y == n.inProcessJobs
               z == n.there
               k == CompletedOf(op)
               l == CompletedOf(op)'
    <3>1. k \in Nat /\ l \in Nat /\ k <= l
      BY <1>4
    <3> HIDE DEF x, y, z, k, l
    <3>2. x \in Nat /\ x <= k => x <= l
      BY <3>1
    <3>3. y \in Nat /\ z \in Nat /\ y + k >= z => y + l >= z
      BY <3>1
    <3>4. QED
      BY <3>2, <3>3 DEF Card, Half, x, y, z, k, l
  <2>2. QED
    BY <2>1
<1>6. \A c : JobCall(c) => JobCall(c)'
  <2>1. ASSUME NEW c, JobCall(c) PROVE JobCall(c)'
    <3>1. /\ RowsOK(c.reply.list) => RowsOK(c.reply.list)'
          /\ IsRebuild(c.reply) => IsRebuild(c.reply)'
          /\ Agreed(c.arg.BackupTaskId) => Agreed(c.arg.BackupTaskId)'
          /\ Card(c.reply, c.op) => Card(c.reply, c.op)'
          /\ Half(c.reply, c.op) => Half(c.reply, c.op)'
          /\ confirmed.mixed => confirmed'.mixed
      BY <1>1, <1>2, <1>3, <1>5 DEF Grows
    <3>2. QED
      BY <2>1, <3>1 DEF JobCall
  <2>2. QED
    BY <2>1
<1>7. QED
  BY <1>1, <1>2, <1>3, <1>5, <1>6

LEMMA SameJobs ==
  ASSUME JobsTyped, UNCHANGED jobVars
  PROVE  Grows
BY DEF Grows, JobsTyped, IsCompleted, jobVars
LEMMA RebuildsKept ==
  ASSUME Grows, RebuildsAgreed, rebuilds' = rebuilds
  PROVE  RebuildsAgreed'
BY GrowKeeps DEF Grows, RebuildsAgreed

LEMMA ViewsGrow ==
  ASSUME Grows, NEW v
  PROVE  /\ JobsViewOK(v) => JobsViewOK(v)'
         /\ CardsOK(v) => CardsOK(v)'
<1>1. /\ RowsOK(v.tableData) => RowsOK(v.tableData)'
      /\ IsRebuild(v.backupPlan) => IsRebuild(v.backupPlan)'
      /\ \A op : Card(v.card[op], op) => Card(v.card[op], op)'
      /\ IsCompleted(v.chosen) => IsCompleted(v.chosen)'
      /\ confirmed.mixed => confirmed'.mixed
  BY GrowKeeps DEF Grows
<1>2. QED
  BY <1>1 DEF JobsViewOK, CardsOK

----------------------------------------------------------------------------
(* What the rest of the UI does.                                           *)

LEMMA JobsElsewhere ==
  ASSUME JobsInv, page' = page, UNCHANGED jobVars,
         page \in {"myJobs", "details", "dashboard"} => view' = view,
         \A c \in Of(calls') : c.op \in JobOps => c \in Of(calls),
         \A c \in Of(calls) : c.op \in ListOps => c \in Of(calls'),
         \A op \in ListOps : LastOf(calls', op) \subseteq LastOf(calls, op)
  PROVE  JobsInv'
<1>1. Grows /\ JobsTyped'
  BY SameJobs DEF JobsInv, Grows
<1>2. JobCallsOK'
  <2>1. ASSUME NEW c \in Of(calls') PROVE JobCall(c)'
    <3>1. CASE c.op \in JobOps
      BY <1>1, <3>1, GrowKeeps DEF JobsInv, JobCallsOK
    <3>2. CASE c.op \notin JobOps
      BY <3>2 DEF JobCall, JobOps, ListOps, CountOps
    <3>3. QED
      BY <3>1, <3>2
  <2>2. QED
    BY <2>1 DEF JobCallsOK
<1>3. RebuildsAgreed'
  BY <1>1, RebuildsKept DEF JobsInv, jobVars
<1>4. JobsShown'
  <2>1. onJobs \/ page = "dashboard" => view' = view
    BY DEF onJobs
  <2>2. QED
    BY <1>1, <2>1, ViewsGrow DEF JobsInv, JobsShown, onJobs
<1>5. \A op \in ListOps : PagerFollowed(op)'
  BY DEF JobsInv, PagerFollowed, onJobs, TableOf, PagerOf
<1>6. QED
  BY <1>1, <1>2, <1>3, <1>4, <1>5 DEF JobsInv

LEMMA JobsSame ==
  ASSUME JobsInv, page' = page, UNCHANGED jobVars,
         page \in {"myJobs", "details", "dashboard"} => view' = view, Same(JobOps)
  PROVE  JobsInv'
BY JobsElsewhere DEF Same, JobOps

LEMMA JobsDropped ==
  ASSUME CallsOK, JobsInv, UNCHANGED jobVars, NEW i \in DOMAIN calls, Dropped(i)
  PROVE  JobsInv'
<1>1. Done(i, <<>>) /\ ~calls[i].live /\ UNCHANGED <<page, view>>
  BY DEF Dropped
<1>2. calls[i].op \notin ListOps
  BY <1>1, Underway DEF Dropped, MayBe, Orphaned, Writes, ListOps
<1>3. Of(calls') \subseteq Of(calls) /\ \A c \in Of(calls) : c \in Of(calls') \/ c = calls[i]
  BY <1>1, FinishKeeps
<1>4. Same(ListOps)
  BY <1>1, <1>2, Finished
<1>5. QED
  BY <1>1, <1>2, <1>3, <1>4, JobsElsewhere DEF Same

LEMMA NewViews ==
  ASSUME NEW v
  PROVE  /\ v = MyJobsView => JobsViewOK(v)
         /\ \A op : v = DetailsView(op) => JobsViewOK(v)
         /\ v = MyJobsView \/ (\E op : v = DetailsView(op)) =>
              /\ v.tableData = <<>> /\ v.tableData_2 = <<>>
              /\ v.parma.offset = 1 /\ v.parmaRebuild.offset = 1
<1> DEFINE Fresh(u) == /\ DOMAIN u = JobsFields /\ u.tableData = <<>> /\ u.tableData_2 = <<>>
                       /\ u.parma = NotPaged /\ u.parmaRebuild = NotPaged /\ u.backupPlan = NoJob
                       /\ u.timers = [ListBackups |-> 0, ListRebuilds |-> 0]
                       /\ ~u.dialogVisible /\ ~u.dialogConfirm
<1>1. \A op : Fresh(JobsView(op))
  BY DEF JobsView, JobsFields
<1>2. \A u : Fresh(u) => Fresh([u EXCEPT !.loading = TRUE])
                         /\ Fresh([u EXCEPT !.loading = TRUE, !.loading_rebuild = TRUE])
  BY DEF JobsFields
<1>3. v = MyJobsView \/ (\E op : v = DetailsView(op)) => Fresh(v)
  <2> HIDE DEF Fresh
  <2>1. QED
    BY <1>1, <1>2 DEF MyJobsView, DetailsView
<1>4. Fresh(v) => JobsViewOK(v) /\ v.parma.offset = 1 /\ v.parmaRebuild.offset = 1
  BY DEF JobsViewOK, NotPaged, NoJob, IsPager, ListOps, RowsOK
<1>5. QED
  BY <1>3, <1>4

\* What a page shows when it is opened.
NewViewsOK == \A v : /\ v = MyJobsView => JobsViewOK(v)
                     /\ \A op : v = DetailsView(op) => JobsViewOK(v)
                     /\ v = DashboardView => CardsOK(v)

LEMMA NewViewsAreOK ==
  ASSUME JobsTyped
  PROVE  NewViewsOK
<1>1. ASSUME NEW op PROVE CompletedOf(op) \in Nat
  BY JobTables, CompletedCounts DEF CompletedOf
<1>2. NoJobs.inProcessJobs = 0 /\ NoJobs.completedJobs = 0 /\ NoJobs.there = 0
  BY DEF NoJobs
<1>3. ASSUME NEW op PROVE Card(NoJobs, op)
  <2>1. 0 <= CompletedOf(op) /\ 0 + 0 >= 0
    BY <1>1
  <2>2. QED
    BY <1>2, <2>1 DEF Card
<1>4. \A v : v = DashboardView => CardsOK(v)
  BY <1>3 DEF CardsOK, DashboardView, ListOps
<1>5. QED
  BY <1>4, NewViews DEF NewViewsOK

LEMMA JobsOpens ==
  ASSUME JobsInv, NEW old, Opens(old), UNCHANGED jobVars,
         \A c \in old : c.op \notin {"GetDiscoveryDoc", "ListBuckets"} => c \in Of(calls),
         \A c \in old : MayBe(c, page)
  PROVE  JobsInv'
<1>1. Grows /\ JobsTyped'
  BY SameJobs DEF JobsInv, Grows
<1> DEFINE New(d) == /\ \/ d.op \in CountOps /\ page' = "dashboard"
                        \/ \E op \in ListOps : d = ListCall(op, 1) /\ onJobs'
                     /\ d.state = "sent"
<1>2. ASSUME NEW op \in ListOps
      PROVE  LET d == ListCall(op, 1) IN
             d.op = op /\ d.state = "sent" /\ d.arg.Offset = 1 - 1 /\ op \notin PlanOps
             /\ op \notin CountOps
  BY NewCall DEF ListCall, ListOps, PlanOps, CountOps
<1>3. PICK new :
        /\ Left(old, new)
        /\ \A d \in new : d.op \in JobOps => New(d)
        /\ \/ page' = "myJobs" /\ view' = MyJobsView
              /\ new = {ListCall("ListRebuilds", 1), ListCall("ListBackups", 1)}
           \/ \E op \in ListOps : page' = "details" /\ view' = DetailsView(op)
                                  /\ new = {ListCall(op, 1)}
           \/ page' = "dashboard" /\ view' = DashboardView
           \/ page' \notin {"myJobs", "details", "dashboard"}
  <2>1. "ListPlans" \notin JobOps /\ {"ListBackups", "ListRebuilds"} = ListOps
        /\ {"CountBackups", "CountRebuilds"} = CountOps
    BY DEF JobOps, ListOps, CountOps
  <2>2. QED
    BY <1>2, <2>1, NewCall DEF Opens, ListPlans, onJobs
<1>4. ASSUME NEW d \in Of(calls'), d.op \in JobOps
      PROVE  \/ New(d) /\ d \in new
             \/ \E c \in Of(calls) : /\ d.op = c.op /\ d.arg = c.arg /\ d.state = "sent"
                                     /\ d.op = "AddRebuild"
  <2>1. d.op \notin PlanOps /\ d.op \notin {"GetDiscoveryDoc", "ListBuckets", "Login", "SetAuth"}
    BY <1>4 DEF PlanOps, JobOps, ListOps, CountOps
  <2>2. ASSUME NEW c \in old, d = Forgotten(c), Orphaned(c)
        PROVE  c \in Of(calls) /\ d.op = c.op /\ d.arg = c.arg /\ d.state = "sent"
               /\ d.op = "AddRebuild"
    BY <2>1, <2>2, ForgottenCall DEF MayBe, Orphaned, Writes, PlanOps
  <2> HIDE DEF New
  <2>3. QED
    BY <1>3, <1>4, <2>1, <2>2, HomesCall DEF Left
<1>5. JobCallsOK'
  <2>1. ASSUME NEW d \in Of(calls') PROVE JobCall(d)'
    <3>1. CASE d.op \notin JobOps
      BY <3>1 DEF JobCall, JobOps, ListOps, CountOps
    <3>2. CASE New(d)
      BY <1>2, <3>2 DEF JobCall, CountOps, ListOps
    <3>3. ASSUME NEW c \in Of(calls), d.op = c.op, d.arg = c.arg, d.state = "sent",
                 d.op = "AddRebuild"
          PROVE  JobCall(d)'
      <4>1. JobCall(c)'
        BY <1>1, GrowKeeps DEF JobsInv, JobCallsOK
      <4>2. QED
        BY <3>3, <4>1 DEF JobCall, ListOps
    <3> HIDE DEF New
    <3>4. QED
      BY <1>4, <3>1, <3>2, <3>3
  <2>2. QED
    BY <2>1 DEF JobCallsOK
<1>6. RebuildsAgreed'
  BY <1>1, RebuildsKept DEF JobsInv, jobVars
<1>7. JobsShown'
  <2>1. ASSUME NEW v, v = view'
        PROVE  /\ onJobs' => JobsViewOK(v)'
               /\ page' = "dashboard" => CardsOK(v)'
    <3>1. onJobs' => v = MyJobsView \/ \E op : v = DetailsView(op)
      BY <1>3, <2>1 DEF onJobs
    <3>2. page' = "dashboard" => v = DashboardView
      BY <1>3, <2>1
    <3>3. NewViewsOK'
      BY <1>1, NewViewsAreOK, PTL
    <3>4. QED
      BY <3>1, <3>2, <3>3 DEF NewViewsOK
  <2>2. QED
    BY <2>1 DEF JobsShown
<1>8. ASSUME NEW op \in ListOps PROVE PagerFollowed(op)'
  <2>1. SUFFICES ASSUME onJobs' PROVE PagerFollowed(op)'
    BY DEF PagerFollowed
  <2>2. view'[PagerOf(op)].offset = 1 /\ view'[TableOf(op)] = <<>>
    <3>1. view' = MyJobsView \/ \E o : view' = DetailsView(o)
      BY <1>3, <2>1 DEF onJobs
    <3>2. ASSUME NEW v, v = view'
          PROVE  v.tableData = <<>> /\ v.tableData_2 = <<>> /\ v.parma.offset = 1 /\ v.parmaRebuild.offset = 1
      BY <3>1, <3>2, NewViews
    <3>3. QED
      BY <3>2 DEF PagerOf, TableOf
  <2>3. Follow(<<>>, 0)
    BY DEF Follow
  <2>4. \A d \in LastOf(calls', op) : d.arg.Offset = 0
    <3>1. ASSUME NEW d \in LastOf(calls', op) PROVE d.arg.Offset = 0
      <4>1. d \in Of(calls') /\ d.op = op
        BY DEF LastOf, Of
      <4>2. op \in JobOps /\ op # "AddRebuild" /\ op \notin CountOps
        BY DEF JobOps, ListOps, CountOps
      <4>3. New(d)
        BY <1>4, <4>1, <4>2
      <4>4. QED
        BY <1>2, <4>1, <4>2, <4>3
    <3>2. QED
      BY <3>1
  <2>5. QED
    BY <2>2, <2>3, <2>4 DEF PagerFollowed, Follow
<1>9. QED
  BY <1>1, <1>5, <1>6, <1>7, <1>8 DEF JobsInv
----------------------------------------------------------------------------
(* What is done on the pages of jobs.                                      *)

\* A list that nothing happens to.
LEMMA PagerStays ==
  ASSUME JobsInv, onJobs, page' = page, NEW op \in ListOps,
         op \notin view'.behind => op \notin view.behind,
         view'[PagerOf(op)].offset = view[PagerOf(op)].offset,
         view'[TableOf(op)] = view[TableOf(op)],
         (\A c \in Of(calls') : c.op # op) => \A c \in Of(calls) : c.op # op,
         \A c \in LastOf(calls', op) : \E d \in LastOf(calls, op) : c.arg = d.arg
  PROVE  PagerFollowed(op)'
<1>1. PagerFollowed(op)
  BY DEF JobsInv
<1>2. QED
  BY <1>1 DEF PagerFollowed, onJobs, Follow, PagerOf, TableOf

\* A list that is asked for.
LEMMA PagerAsked ==
  ASSUME CallsOK, onJobs, page' = page, NEW op \in ListOps, NEW offset \in Nat \ {0},
         calls' = calls \o <<ListCall(op, offset)>>, view'[PagerOf(op)].offset = offset
  PROVE  /\ CallsOK' /\ Of(calls') = Of(calls) \cup {ListCall(op, offset)}
         /\ PagerFollowed(op)'
         /\ \A c : c = ListCall(op, offset) => JobCall(c)'
<1> DEFINE new == ListCall(op, offset)
<1>1. new.op = op /\ new.arg.Offset = offset - 1 /\ new.state = "sent"
  BY NewCall DEF ListCall
<1>2. CallsOK' /\ Of(calls') = Of(calls) \cup {new}
  BY SendKeeps DEF ListCall, LiveOn, onJobs
<1>3. Sequence(<<new>>) /\ Of(<<new>>) = {new}
  BY Single
<1> HIDE DEF new
<1>4. \A c \in LastOf(calls', op) : c = new
  BY <1>1, <1>3, LastOfJoined, LastOfSingle DEF CallsOK, new
<1>5. PagerFollowed(op)'
  BY <1>1, <1>2, <1>4 DEF PagerFollowed
<1>6. offset - 1 \in Nat
  OBVIOUS
<1>7. \A c : c = new => JobCall(c)'
  BY <1>1, <1>6 DEF JobCall, ListOps
<1>8. QED
  BY <1>2, <1>5, <1>7 DEF new

\* The view, of which the lists and their pagers are as they were.
LooksElsewhere ==
    /\ DOMAIN view' = JobsFields
    /\ view'.tableData = view.tableData /\ view'.tableData_2 = view.tableData_2
    /\ view'.parma = view.parma /\ view'.parmaRebuild = view.parmaRebuild
    /\ view'.timers = view.timers /\ view.behind \subseteq view'.behind
    /\ DOMAIN view'.backupPlan = {"ID", "BackupJobId"}

LEMMA LooksKeep ==
  ASSUME JobsInv, Grows, onJobs, page' = page, LooksElsewhere,
         view'.dialogConfirm => \E v \in {view'} : IsRebuild(v.backupPlan)',
         \/ ~view'.dialogVisible
         \/ confirmed'.mixed
         \/ \E v \in {view'} : v.backupPlan.ID = v.chosen /\ IsCompleted(v.chosen)'
  PROVE  JobsShown'
<1>1. JobsViewOK(view)
  BY DEF JobsInv, JobsShown
<1>2. ASSUME NEW v, v = view' PROVE JobsViewOK(v)'
  <2>1. RowsOK(v.tableData)'
    BY <1>1, <1>2, GrowKeeps DEF LooksElsewhere, JobsViewOK
  <2>2. /\ DOMAIN v = JobsFields /\ DOMAIN v.timers = ListOps
        /\ \A op \in ListOps : v.timers[op] \in Nat
        /\ DOMAIN v.backupPlan = {"ID", "BackupJobId"}
        /\ IsPager(v.parma) /\ IsPager(v.parmaRebuild)
    BY <1>1, <1>2 DEF LooksElsewhere, JobsViewOK
  <2>3. /\ v.dialogConfirm => IsRebuild(v.backupPlan)'
        /\ \/ ~v.dialogVisible \/ confirmed'.mixed
           \/ v.backupPlan.ID = v.chosen /\ IsCompleted(v.chosen)'
    BY <1>2
  <2>4. QED
    BY <2>1, <2>2, <2>3 DEF JobsViewOK
<1>3. QED
  BY <1>2 DEF JobsShown, onJobs

LEMMA PagersStay ==
  ASSUME JobsInv, onJobs, page' = page, LooksElsewhere,
         \A op \in ListOps : \/ op \in view'.behind
                             \/ /\ \A c \in Of(calls) : c.op = op => c \in Of(calls')
                                /\ LastOf(calls', op) \subseteq LastOf(calls, op)
  PROVE  \A op \in ListOps : PagerFollowed(op)'
<1>1. ASSUME NEW op \in ListOps, op \in view'.behind PROVE PagerFollowed(op)'
  BY <1>1 DEF PagerFollowed
<1>2. ASSUME NEW op \in ListOps,
             \A c \in Of(calls) : c.op = op => c \in Of(calls'),
             LastOf(calls', op) \subseteq LastOf(calls, op)
      PROVE  PagerFollowed(op)'
  BY <1>2, PagerStays DEF LooksElsewhere, PagerOf, TableOf
<1>3. QED
  BY <1>1, <1>2

\* The buttons and the dialogs that send nothing.
LEMMA JobsLooks ==
  ASSUME CallsOK, JobsInv, onJobs, page' = page, UNCHANGED <<backups, rebuilds>>,
         handleClick \/ RebuildButton \/ closeAsk \/ closeResult \/ closeDis
  PROVE  CallsOK' /\ JobsInv'
<1>1. UNCHANGED <<calls, confirmed>>
  BY DEF handleClick, RebuildButton, RowButton, closeAsk, closeResult, closeDis
<1>2. Grows /\ JobsTyped'
  BY <1>1, SameJobs DEF JobsInv, jobVars, Grows
<1>3. JobsViewOK(view)
  BY DEF JobsInv, JobsShown
<1>4. /\ LooksElsewhere
      /\ view'.dialogConfirm => view.dialogConfirm /\ view'.backupPlan = view.backupPlan
      /\ view'.dialogVisible =>
           \/ view.dialogVisible /\ view'.backupPlan = view.backupPlan /\ view'.chosen = view.chosen
           \/ view'.backupPlan.ID = view'.chosen /\ IsCompleted(view'.chosen)
  <2>1. DOMAIN view = JobsFields /\ DOMAIN view.backupPlan = {"ID", "BackupJobId"}
    BY <1>3 DEF JobsViewOK
  <2>2. ASSUME NEW op, view' = [view EXCEPT !.activeName = op] PROVE <1>4
    BY <2>1, <2>2 DEF LooksElsewhere, JobsFields
  <2>3. CASE RebuildButton
    <3>1. PICK k \in DOMAIN view.tableData : RowButton(k)
      BY <2>3 DEF RebuildButton
    <3>2. CASE view' = [view EXCEPT !.dialogDis = TRUE]
      BY <2>1, <3>2 DEF LooksElsewhere, JobsFields
    <3>3. CASE BackupTable(view)[k].button = "detailFun" /\ detailFun(k)
      <4> DEFINE ID == view.tableData[k].ID
                 job == [view.backupPlan EXCEPT !.ID = ID]
      <4>1. view.tableData[k].Status = "Completed"
        BY <3>3 DEF BackupTable
      <4>2. IsCompleted(ID)
        BY <1>3, <4>1 DEF JobsViewOK, RowsOK, RowOK
      <4>3. view' = [view EXCEPT !.backupPlan = job, !.dialogVisible = TRUE, !.chosen = ID]
        BY <3>3 DEF detailFun
      <4>4. DOMAIN job = {"ID", "BackupJobId"} /\ job.ID = ID
        BY <2>1
      <4>5. ~view.dialogConfirm
        BY <3>1 DEF RowButton, jobDialog
      <4> HIDE DEF ID, job
      <4>6. QED
        BY <2>1, <4>2, <4>3, <4>4, <4>5 DEF LooksElsewhere, JobsFields
    <3>4. QED
      BY <3>1, <3>2, <3>3 DEF RowButton
  <2>4. CASE closeAsk \/ closeResult \/ closeDis
    BY <2>1, <2>4 DEF closeAsk, closeResult, closeDis, LooksElsewhere, JobsFields
  <2>5. QED
    BY <2>2, <2>3, <2>4 DEF handleClick
<1>5. JobsShown'
  <2>1. view'.dialogConfirm => \E v \in {view'} : IsRebuild(v.backupPlan)'
    BY <1>2, <1>3, <1>4, GrowKeeps DEF JobsViewOK
  <2>2. \/ ~view'.dialogVisible
        \/ confirmed'.mixed
        \/ \E v \in {view'} : v.backupPlan.ID = v.chosen /\ IsCompleted(v.chosen)'
    BY <1>2, <1>3, <1>4 DEF JobsViewOK, Grows
  <2>3. QED
    BY <1>2, <1>4, <2>1, <2>2, LooksKeep
<1>6. \A op \in ListOps : PagerFollowed(op)'
  BY <1>1, <1>4, PagersStay
<1>7. JobCallsOK' /\ RebuildsAgreed'
  BY <1>1, <1>2, GrowKeeps, RebuildsKept DEF JobsInv, JobCallsOK
<1>8. QED
  BY <1>1, <1>2, <1>5, <1>6, <1>7 DEF JobsInv, CallsOK
\* A page of a list is asked for, of the table that is open or the other.
LEMMA JobsAsk ==
  ASSUME CallsOK, JobsInv, onJobs, page' = page, UNCHANGED jobVars,
         NEW op \in ListOps, NEW offset \in Nat \ {0},
         NEW u, u = view \/ u = [view EXCEPT !.activeName = op],
         view' = getData(u, op, offset),
         calls' = calls \o <<ListCall(op, offset)>>
  PROVE  CallsOK' /\ JobsInv'
<1>1. Grows /\ JobsTyped'
  BY SameJobs DEF JobsInv, Grows
<1>2. JobsViewOK(view)
  BY DEF JobsInv, JobsShown
<1> DEFINE other == IF op = "ListBackups" THEN "ListRebuilds" ELSE "ListBackups"
<1>3. other \in ListOps /\ other # op /\ \A o \in ListOps : o = op \/ o = other
  BY DEF ListOps
<1>4. ASSUME NEW v, v = view'
      PROVE  /\ DOMAIN v = JobsFields
             /\ v.tableData = view.tableData /\ v.tableData_2 = view.tableData_2
             /\ v.timers = view.timers /\ v.backupPlan = view.backupPlan
             /\ v.dialogVisible = view.dialogVisible /\ v.dialogConfirm = view.dialogConfirm
             /\ v.chosen = view.chosen /\ v.behind = view.behind \ {op}
             /\ v[PagerOf(op)] = [view[PagerOf(op)] EXCEPT !.offset = offset]
             /\ v[PagerOf(other)] = view[PagerOf(other)]
  <2> DEFINE mask == MaskOf(op)
             pager == PagerOf(op)
  <2>1. mask \in {"loading", "loading_rebuild"} /\ pager \in {"parma", "parmaRebuild"}
        /\ PagerOf(other) \in {"parma", "parmaRebuild"} /\ PagerOf(other) # pager
    BY DEF MaskOf, PagerOf, ListOps
  <2>2. DOMAIN view = JobsFields
    BY <1>2 DEF JobsViewOK
  <2>3. v = [u EXCEPT ![mask] = TRUE, ![pager].offset = offset, !.behind = @ \ {op}]
    BY <1>4 DEF getData
  <2> HIDE DEF mask, pager, other
  <2>4. QED
    BY <2>1, <2>2, <2>3 DEF JobsFields, pager
<1>5. PagerOf(op) \in {"parma", "parmaRebuild"} /\ PagerOf(other) \in {"parma", "parmaRebuild"}
      /\ PagerOf(other) # PagerOf(op)
  BY DEF PagerOf, ListOps
<1>6. IsPager(view[PagerOf(op)]) /\ IsPager(view[PagerOf(other)])
  BY <1>2, <1>5 DEF JobsViewOK
<1>7. ASSUME NEW p, p = [view[PagerOf(op)] EXCEPT !.offset = offset]
      PROVE  IsPager(p) /\ p.offset = offset
  BY <1>6, <1>7 DEF IsPager
<1>8. JobsShown'
  <2>1. ASSUME NEW v, v = view' PROVE JobsViewOK(v)'
    <3>1. IsPager(v[PagerOf(op)]) /\ IsPager(v[PagerOf(other)])
      BY <1>4, <1>6, <1>7, <2>1
    <3>2. IsPager(v.parma) /\ IsPager(v.parmaRebuild)
      BY <1>5, <3>1
    <3>3. JobsViewOK(view) /\ RowsOK(v.tableData)' /\ (v.dialogConfirm => IsRebuild(v.backupPlan)')
          /\ (v.dialogVisible => \/ confirmed'.mixed
                                 \/ v.backupPlan.ID = v.chosen /\ IsCompleted(v.chosen)')
      BY <1>1, <1>2, <1>4, <2>1, GrowKeeps DEF JobsViewOK, Grows
    <3>4. QED
      BY <1>4, <2>1, <3>2, <3>3 DEF JobsViewOK
  <2>2. QED
    BY <2>1 DEF JobsShown, onJobs
<1> HIDE DEF other
<1>9. /\ CallsOK' /\ Of(calls') = Of(calls) \cup {ListCall(op, offset)}
      /\ PagerFollowed(op)'
      /\ \A c : c = ListCall(op, offset) => JobCall(c)'
  <2>1. view'[PagerOf(op)].offset = offset
    BY <1>4, <1>7
  <2>2. QED
    BY <2>1, PagerAsked
<1>10. PagerFollowed(other)'
  <2>1. Sequence(<<ListCall(op, offset)>>) /\ \A c \in Of(<<ListCall(op, offset)>>) : c.op = op
    BY Single, NewCall DEF ListCall
  <2>2. Same({other})
    BY <1>3, <2>1, SameIfSent DEF CallsOK
  <2>3. view'[TableOf(other)] = view[TableOf(other)]
    BY <1>4 DEF TableOf
  <2>4. view'[PagerOf(other)] = view[PagerOf(other)]
    BY <1>4
  <2>5. other \notin view'.behind => other \notin view.behind
    BY <1>3, <1>4
  <2>6. QED
    BY <1>3, <2>2, <2>3, <2>4, <2>5, PagerStays DEF Same
<1>11. JobCallsOK' /\ RebuildsAgreed'
  BY <1>1, <1>9, GrowKeeps, RebuildsKept DEF JobsInv, JobCallsOK, jobVars
<1>12. QED
  BY <1>1, <1>3, <1>8, <1>9, <1>10, <1>11 DEF JobsInv

LEMMA JobsPaged ==
  ASSUME CallsOK, JobsInv, onJobs, page' = page, UNCHANGED <<backups, rebuilds>>,
         BackupPager \/ RebuildPager \/ \E op \in ListOps : productName(op)
  PROVE  CallsOK' /\ JobsInv'
<1>1. JobsViewOK(view)
  BY DEF JobsInv, JobsShown
<1>2. /\ DOMAIN view = JobsFields
      /\ \A op \in ListOps : view[PagerOf(op)].offset \in Nat \ {0} /\ view[PagerOf(op)].total \in Nat
  BY <1>1 DEF JobsViewOK, IsPager, PagerOf
<1>3. ASSUME NEW op \in ListOps, NEW val \in OtherPages(op), changePage(op, val)
      PROVE  CallsOK' /\ JobsInv'
  <2>1. val \in Nat \ {0}
    BY <1>2, JobPagesNumber DEF OtherPages
  <2>2. view' = getData(view, op, val) /\ calls' = calls \o <<ListCall(op, val)>>
        /\ confirmed' = confirmed
    BY <1>3 DEF changePage, UserSends
  <2>3. QED
    BY <2>1, <2>2, JobsAsk DEF jobVars
<1>4. ASSUME NEW op \in ListOps, productName(op) PROVE CallsOK' /\ JobsInv'
  <2> DEFINE offset == view[PagerOf(op)].offset
  <2>1. /\ view' = getData([view EXCEPT !.activeName = op], op, offset)
        /\ calls' = calls \o <<ListCall(op, offset)>> /\ confirmed' = confirmed
    BY <1>4 DEF productName, UserSends
  <2>2. offset \in Nat \ {0}
    BY <1>2
  <2> HIDE DEF offset
  <2>3. QED
    BY <2>1, <2>2, JobsAsk DEF jobVars
<1>5. QED
  BY <1>3, <1>4 DEF BackupPager, RebuildPager, backupChange, rebuildChange, ListOps

\* The user confirms the dialog.
LEMMA RebuildConfirmed ==
  ASSUME CallsOK, JobsInv, onJobs, page' = page, UNCHANGED <<backups, rebuilds>>, confirm
  PROVE  CallsOK' /\ JobsInv'
<1> DEFINE arg == [BackupTaskId |-> view.backupPlan.ID]
           new == Call("AddRebuild", arg)
<1>1. /\ view.dialogVisible /\ ~view.dialogConfirm
      /\ view' = [view EXCEPT !.dialogVisible = FALSE, !.loading = TRUE]
      /\ calls' = calls \o <<new>>
      /\ confirmed' = [confirmed EXCEPT !.of = @ \cup {view.chosen}]
  BY DEF confirm, UserSends
<1>2. JobsViewOK(view)
  BY DEF JobsInv, JobsShown
<1>3. /\ DOMAIN confirmed' = {"of", "mixed"} /\ confirmed'.mixed = confirmed.mixed
      /\ confirmed'.of = confirmed.of \cup {view.chosen}
  BY <1>1 DEF JobsInv, JobsTyped
<1>4. Grows /\ JobsTyped'
  BY <1>3 DEF JobsInv, JobsTyped, Grows, IsCompleted
<1>5. LooksElsewhere /\ ~view'.dialogVisible /\ ~view'.dialogConfirm
  BY <1>1, <1>2 DEF JobsViewOK, LooksElsewhere, JobsFields
<1>6. new.op = "AddRebuild" /\ new.arg.BackupTaskId = view.backupPlan.ID /\ new.state = "sent"
  BY NewCall
<1>7. CallsOK' /\ Of(calls') = Of(calls) \cup {new}
  BY <1>1, SendKeeps DEF LiveOn, onJobs
<1>8. Same(ListOps)
  <2>1. Sequence(<<new>>) /\ \A c \in Of(<<new>>) : c.op \notin ListOps
    BY <1>6, Single DEF ListOps
  <2>2. QED
    BY <1>1, <2>1, SameIfSent DEF CallsOK
<1> HIDE DEF new
<1>9. ASSUME NEW c, c = new PROVE JobCall(c)'
  <2>1. confirmed.mixed \/ (view.backupPlan.ID = view.chosen /\ IsCompleted(view.chosen))
    BY <1>1, <1>2 DEF JobsViewOK
  <2>2. ASSUME NEW b, b = view.backupPlan.ID PROVE confirmed'.mixed \/ Agreed(b)'
    <3>1. CASE confirmed.mixed
      BY <1>3, <3>1
    <3>2. CASE b = view.chosen /\ IsCompleted(b)
      BY <1>3, <1>4, <3>2 DEF Agreed, Grows
    <3>3. QED
      BY <2>1, <2>2, <3>1, <3>2
  <2>3. QED
    BY <1>6, <1>9, <2>2 DEF JobCall, ListOps
<1>10. JobCallsOK' /\ RebuildsAgreed'
  BY <1>4, <1>7, <1>9, GrowKeeps, RebuildsKept DEF JobsInv, JobCallsOK
<1>11. JobsShown'
  BY <1>4, <1>5, LooksKeep
<1>12. \A op \in ListOps : PagerFollowed(op)'
  BY <1>5, <1>8, PagersStay DEF Same
<1>13. QED
  BY <1>4, <1>7, <1>10, <1>11, <1>12 DEF JobsInv

LEMMA JobsTimed ==
  ASSUME CallsOK, JobsInv, onJobs, page' = page, UNCHANGED <<backups, rebuilds>>,
         NEW op \in ListOps, JobsTimer(op)
  PROVE  CallsOK' /\ JobsInv'
<1>1. /\ view.timers[op] > 0 /\ UNCHANGED <<calls, confirmed>>
      /\ view' = [view EXCEPT ![MaskOf(op)] = FALSE, !.timers[op] = @ - 1]
  BY DEF JobsTimer
<1>2. Grows /\ JobsTyped'
  BY <1>1, SameJobs DEF JobsInv, jobVars, Grows
<1>3. JobsViewOK(view)
  BY DEF JobsInv, JobsShown
<1>4. MaskOf(op) \in {"loading", "loading_rebuild"}
  BY DEF MaskOf
<1>5. ASSUME NEW v, v = view'
      PROVE  /\ DOMAIN v = JobsFields
             /\ v.tableData = view.tableData /\ v.tableData_2 = view.tableData_2
             /\ v.backupPlan = view.backupPlan
             /\ v.dialogVisible = view.dialogVisible /\ v.dialogConfirm = view.dialogConfirm
             /\ v.chosen = view.chosen /\ v.behind = view.behind
             /\ v.parma = view.parma /\ v.parmaRebuild = view.parmaRebuild
             /\ v.timers = [view.timers EXCEPT ![op] = @ - 1]
  BY <1>1, <1>3, <1>4, <1>5 DEF JobsViewOK, JobsFields
<1>6. ASSUME NEW t, t = [view.timers EXCEPT ![op] = @ - 1]
      PROVE  DOMAIN t = ListOps /\ \A o \in ListOps : t[o] \in Nat
  <2>1. DOMAIN view.timers = ListOps /\ \A o \in ListOps : view.timers[o] \in Nat
    BY <1>3 DEF JobsViewOK
  <2>2. view.timers[op] - 1 \in Nat
    <3>1. \A x \in Nat : x > 0 => x - 1 \in Nat
      OBVIOUS
    <3>2. QED
      BY <1>1, <2>1, <3>1
  <2>3. QED
    BY <1>6, <2>1, <2>2
<1>7. JobsShown'
  <2>1. ASSUME NEW v, v = view' PROVE JobsViewOK(v)'
    BY <1>2, <1>3, <1>5, <1>6, <2>1, GrowKeeps DEF JobsViewOK, Grows
  <2>2. QED
    BY <2>1 DEF JobsShown, onJobs
<1>8. ASSUME NEW o \in ListOps PROVE PagerFollowed(o)'
  BY <1>1, <1>5, PagerStays DEF PagerOf, TableOf
<1>9. JobCallsOK' /\ RebuildsAgreed'
  BY <1>1, <1>2, GrowKeeps, RebuildsKept DEF JobsInv, JobCallsOK
<1>10. QED
  BY <1>1, <1>2, <1>7, <1>8, <1>9 DEF JobsInv, CallsOK
\* A list has come.
LEMMA JobsAreListed ==
  ASSUME CallsOK, JobsInv, onJobs, page' = page, UNCHANGED <<backups, rebuilds>>,
         NEW i \in DOMAIN calls, NEW op \in ListOps, JobsListed(i, op)
  PROVE  CallsOK' /\ JobsInv'
<1> DEFINE answer == Answer(i)
           other == IF op = "ListBackups" THEN "ListRebuilds" ELSE "ListBackups"
<1>1. /\ calls[i].op = op /\ calls[i].state = "answered" /\ answer = calls[i].reply
      /\ view' = [view EXCEPT ![TableOf(op)] = answer.list, ![PagerOf(op)].total = answer.total,
                              !.timers[op] = @ + 1,
                              !.behind = IF Earlier(i) # {} THEN @ \cup {op} ELSE @]
      /\ Done(i, <<>>) /\ confirmed' = confirmed
  BY DEF JobsListed, IsAnswered, Answer
<1>2. Grows /\ JobsTyped'
  BY <1>1, SameJobs DEF JobsInv, jobVars, Grows
<1>3. JobsViewOK(view) /\ calls[i] \in Of(calls) /\ JobCall(calls[i])
  BY Underway DEF JobsInv, JobsShown, JobCallsOK
<1>4. /\ answer.total \in Nat /\ Follow(answer.list, calls[i].arg.Offset)
      /\ op = "ListBackups" => RowsOK(answer.list)
  BY <1>1, <1>3 DEF JobCall
<1> HIDE DEF answer
<1>5. /\ other \in ListOps /\ other # op /\ \A o \in ListOps : o = op \/ o = other
      /\ PagerOf(op) \in {"parma", "parmaRebuild"} /\ PagerOf(other) \in {"parma", "parmaRebuild"}
      /\ PagerOf(other) # PagerOf(op)
      /\ TableOf(op) \in {"tableData", "tableData_2"} /\ TableOf(other) \in {"tableData", "tableData_2"}
      /\ TableOf(other) # TableOf(op)
      /\ TableOf(op) = "tableData" => op = "ListBackups"
  BY DEF ListOps, PagerOf, TableOf
<1> HIDE DEF other
<1>6. ASSUME NEW v, v = view'
      PROVE  /\ DOMAIN v = JobsFields
             /\ v[TableOf(op)] = answer.list /\ v[TableOf(other)] = view[TableOf(other)]
             /\ v.timers = [view.timers EXCEPT ![op] = @ + 1] /\ v.backupPlan = view.backupPlan
             /\ v.dialogVisible = view.dialogVisible /\ v.dialogConfirm = view.dialogConfirm
             /\ v.chosen = view.chosen
             /\ v.behind = IF Earlier(i) # {} THEN view.behind \cup {op} ELSE view.behind
             /\ v[PagerOf(op)] = [view[PagerOf(op)] EXCEPT !.total = answer.total]
             /\ v[PagerOf(other)] = view[PagerOf(other)]
  <2> DEFINE table == TableOf(op)
             pager == PagerOf(op)
             table2 == TableOf(other)
             pager2 == PagerOf(other)
             behind == IF Earlier(i) # {} THEN view.behind \cup {op} ELSE view.behind
  <2>1. v = [view EXCEPT ![table] = answer.list, ![pager].total = answer.total,
                         !.timers[op] = @ + 1, !.behind = behind]
    BY <1>1, <1>6
  <2>2. DOMAIN view = JobsFields
    BY <1>3 DEF JobsViewOK
  <2>3. /\ pager \in {"parma", "parmaRebuild"} /\ pager2 \in {"parma", "parmaRebuild"}
        /\ pager # pager2 /\ table # table2
        /\ table \in {"tableData", "tableData_2"} /\ table2 \in {"tableData", "tableData_2"}
    BY <1>5
  <2> HIDE DEF table, pager, table2, pager2, behind
  <2>4. /\ DOMAIN v = JobsFields
        /\ v[table] = answer.list /\ v[table2] = view[table2]
        /\ v.timers = [view.timers EXCEPT ![op] = @ + 1] /\ v.backupPlan = view.backupPlan
        /\ v.dialogVisible = view.dialogVisible /\ v.dialogConfirm = view.dialogConfirm
        /\ v.chosen = view.chosen /\ v.behind = behind
        /\ v[pager] = [view[pager] EXCEPT !.total = answer.total]
        /\ v[pager2] = view[pager2]
    BY <2>1, <2>2, <2>3 DEF JobsFields
  <2>5. QED
    BY <2>4 DEF table, pager, table2, pager2, behind
<1>7. IsPager(view[PagerOf(op)]) /\ IsPager(view[PagerOf(other)])
  BY <1>3, <1>5 DEF JobsViewOK
<1>8. ASSUME NEW p, p = [view[PagerOf(op)] EXCEPT !.total = answer.total]
      PROVE  IsPager(p) /\ p.offset = view[PagerOf(op)].offset
  BY <1>4, <1>7, <1>8 DEF IsPager
<1>9. ASSUME NEW t, t = [view.timers EXCEPT ![op] = @ + 1]
      PROVE  DOMAIN t = ListOps /\ \A o \in ListOps : t[o] \in Nat
  <2>1. DOMAIN view.timers = ListOps /\ \A o \in ListOps : view.timers[o] \in Nat
    BY <1>3 DEF JobsViewOK
  <2>2. view.timers[op] + 1 \in Nat
    BY <2>1
  <2>3. QED
    BY <1>9, <2>1, <2>2
<1>10. JobsShown'
  <2>1. ASSUME NEW v, v = view' PROVE JobsViewOK(v)'
    <3>1. IsPager(v.parma) /\ IsPager(v.parmaRebuild)
      <4>1. IsPager(v[PagerOf(op)]) /\ IsPager(v[PagerOf(other)])
        BY <1>6, <1>7, <1>8, <2>1
      <4>2. QED
        BY <1>5, <4>1
    <3>2. RowsOK(v.tableData)'
      <4>1. v.tableData = view.tableData \/ (v.tableData = answer.list /\ RowsOK(answer.list))
        BY <1>4, <1>5, <1>6, <2>1
      <4>2. RowsOK(v.tableData)
        BY <1>3, <4>1 DEF JobsViewOK
      <4>3. QED
        BY <1>2, <4>2, GrowKeeps
    <3>3. (v.dialogConfirm => IsRebuild(v.backupPlan)')
          /\ (v.dialogVisible => \/ confirmed'.mixed
                                 \/ v.backupPlan.ID = v.chosen /\ IsCompleted(v.chosen)')
      BY <1>2, <1>3, <1>6, <2>1, GrowKeeps DEF JobsViewOK, Grows
    <3>4. DOMAIN v.backupPlan = {"ID", "BackupJobId"}
      BY <1>3, <1>6, <2>1 DEF JobsViewOK
    <3>5. QED
      BY <1>6, <1>9, <2>1, <3>1, <3>2, <3>3, <3>4 DEF JobsViewOK
  <2>2. QED
    BY <2>1 DEF JobsShown, onJobs
<1>11. /\ CallsOK' /\ Of(calls') \subseteq Of(calls)
  BY <1>1, FinishKeeps
<1>12. PagerFollowed(other)'
  <2>1. Same({other})
    BY <1>1, <1>5, Finished
  <2>2. other \notin view'.behind => other \notin view.behind
    BY <1>6
  <2>3. view'[PagerOf(other)].offset = view[PagerOf(other)].offset
        /\ view'[TableOf(other)] = view[TableOf(other)]
    BY <1>6
  <2>4. QED
    BY <1>5, <2>1, <2>2, <2>3, PagerStays DEF Same
<1>13. PagerFollowed(op)'
  <2> DEFINE offset == view[PagerOf(op)].offset - 1
  <2>1. SUFFICES ASSUME op \notin view'.behind
                 PROVE  /\ (\A c \in Of(calls') : c.op # op) => Follow(answer.list, offset)
                        /\ \A c \in LastOf(calls', op) : c.arg.Offset = offset
    <3>1. view'[PagerOf(op)].offset = view[PagerOf(op)].offset /\ view'[TableOf(op)] = answer.list
      BY <1>6, <1>8
    <3>2. QED
      BY <3>1 DEF PagerFollowed, Follow
  <2>2. op \notin view.behind /\ Earlier(i) = {}
    BY <1>6, <2>1
  <2>3. \A c \in LastOf(calls, op) : c.arg.Offset = offset
    BY <2>2 DEF JobsInv, PagerFollowed
  <2> HIDE DEF offset
  <2>4. Sequence(calls) /\ calls' = RemoveAt(calls, i)
    BY <1>1, Removed, ConcatEmptySeq DEF Done, CallsOK, Sequence
  <2>5. \A j \in DOMAIN calls : j < i => calls[j].op # op
    BY <1>1, <2>2 DEF Earlier, Outstanding
  <2>6. LastOf(calls', op) \subseteq LastOf(calls, op)
    BY <2>4, <2>5, LastOfRemoved
  <2>7. ASSUME \A c \in Of(calls') : c.op # op PROVE Follow(answer.list, offset)
    <3>1. \A j \in DOMAIN calls : j # i => calls[j].op # op
      BY <2>4, <2>7, Removed
    <3>2. DOMAIN calls = 1..Len(calls) /\ Len(calls) \in Nat
      BY <2>4, Indices
    <3>3. \A j \in DOMAIN calls : i < j => j # i
      BY <3>2
    <3>4. calls[i] \in LastOf(calls, op)
      BY <1>1, <3>1, <3>3 DEF LastOf
    <3>5. QED
      BY <1>4, <2>3, <3>4
  <2>8. QED
    BY <2>3, <2>6, <2>7
<1>14. JobCallsOK' /\ RebuildsAgreed'
  BY <1>1, <1>2, <1>11, GrowKeeps, RebuildsKept DEF JobsInv, JobCallsOK
<1>15. QED
  BY <1>2, <1>5, <1>10, <1>11, <1>12, <1>13, <1>14 DEF JobsInv

\* The answer to a request for a rebuild.
LEMMA JobsAreAdded ==
  ASSUME CallsOK, JobsInv, onJobs, page' = page, UNCHANGED <<backups, rebuilds>>,
         NEW i \in DOMAIN calls, RebuildAdded(i)
  PROVE  CallsOK' /\ JobsInv'
<1>1. /\ calls[i].op = "AddRebuild" /\ calls[i].state = "answered" /\ Answer(i) = calls[i].reply
      /\ view' = [view EXCEPT !.loading = FALSE, !.backupPlan = Answer(i), !.dialogConfirm = TRUE]
      /\ confirmed' = [confirmed EXCEPT !.mixed = @ \/ view.dialogVisible]
      /\ Done(i, <<>>)
  BY DEF RebuildAdded, IsAnswered, Answer
<1>2. JobsViewOK(view) /\ JobCall(calls[i])
  BY Underway DEF JobsInv, JobsShown, JobCallsOK
<1>3. /\ DOMAIN confirmed' = {"of", "mixed"} /\ confirmed'.of = confirmed.of
      /\ confirmed'.mixed = (confirmed.mixed \/ view.dialogVisible)
  BY <1>1 DEF JobsInv, JobsTyped
<1>4. Grows /\ JobsTyped'
  BY <1>3 DEF JobsInv, JobsTyped, Grows, IsCompleted
<1>5. IsRebuild(Answer(i)) /\ DOMAIN Answer(i) = {"ID", "BackupJobId"}
  <2>1. IsRebuild(Answer(i))
    BY <1>1, <1>2 DEF JobCall
  <2>2. PICK r \in DOMAIN rebuilds : Answer(i) = [ID |-> r, BackupJobId |-> rebuilds[r].BackupJobId]
    BY <2>1 DEF IsRebuild
  <2>3. QED
    BY <2>1, <2>2
<1>6. LooksElsewhere /\ view'.backupPlan = Answer(i) /\ view'.dialogVisible = view.dialogVisible
  BY <1>1, <1>2, <1>5 DEF JobsViewOK, LooksElsewhere, JobsFields
<1>7. CallsOK' /\ Of(calls') \subseteq Of(calls)
  BY <1>1, FinishKeeps
<1>8. Same(ListOps)
  BY <1>1, Finished DEF ListOps
<1>9. JobCallsOK' /\ RebuildsAgreed'
  BY <1>4, <1>7, GrowKeeps, RebuildsKept DEF JobsInv, JobCallsOK
<1>10. JobsShown'
  <2>1. ASSUME NEW v, v = view' PROVE IsRebuild(v.backupPlan)'
    BY <1>4, <1>5, <1>6, <2>1, GrowKeeps
  <2>2. ~view'.dialogVisible \/ confirmed'.mixed
    BY <1>2, <1>3, <1>6 DEF JobsViewOK
  <2>3. QED
    BY <1>4, <1>6, <2>1, <2>2, LooksKeep
<1>11. \A op \in ListOps : PagerFollowed(op)'
  BY <1>6, <1>8, PagersStay DEF Same
<1>12. QED
  BY <1>4, <1>7, <1>9, <1>10, <1>11 DEF JobsInv

LEMMA JobsAreFailed ==
  ASSUME CallsOK, JobsInv, onJobs, page' = page, UNCHANGED <<backups, rebuilds>>,
         NEW i \in DOMAIN calls, JobsFailed(i)
  PROVE  CallsOK' /\ JobsInv'
<1> DEFINE op == calls[i].op
<1>1. /\ op \in ListOps \cup {"AddRebuild"} /\ confirmed' = confirmed
      /\ \/ op = "AddRebuild" /\ view' = [view EXCEPT !.loading = FALSE] /\ GivenUp(i)
         \/ /\ op \in ListOps /\ Done(i, <<>>)
            /\ view' = [view EXCEPT ![MaskOf(op)] = FALSE, !.behind = @ \cup {op}]
  BY DEF JobsFailed, Outstanding
<1>2. Grows /\ JobsTyped'
  BY <1>1, SameJobs DEF JobsInv, jobVars, Grows
<1>3. JobsViewOK(view)
  BY DEF JobsInv, JobsShown
<1>4. /\ LooksElsewhere /\ view'.backupPlan = view.backupPlan /\ view'.chosen = view.chosen
      /\ view'.dialogVisible = view.dialogVisible /\ view'.dialogConfirm = view.dialogConfirm
      /\ op \in ListOps => op \in view'.behind
  <2>1. MaskOf(op) \in {"loading", "loading_rebuild"} /\ "AddRebuild" \notin ListOps
    BY DEF MaskOf, ListOps
  <2>2. QED
    BY <1>1, <1>3, <2>1 DEF JobsViewOK, LooksElsewhere, JobsFields
<1>5. JobsShown'
  <2>1. view'.dialogConfirm => \E v \in {view'} : IsRebuild(v.backupPlan)'
    BY <1>2, <1>3, <1>4, GrowKeeps DEF JobsViewOK
  <2>2. \/ ~view'.dialogVisible
        \/ confirmed'.mixed
        \/ \E v \in {view'} : v.backupPlan.ID = v.chosen /\ IsCompleted(v.chosen)'
    BY <1>2, <1>3, <1>4 DEF JobsViewOK, Grows
  <2>3. QED
    BY <1>2, <1>4, <2>1, <2>2, LooksKeep
<1>6. CallsOK' /\ JobCallsOK'
  <2>1. CASE Done(i, <<>>)
    BY <1>2, <2>1, FinishKeeps, GrowKeeps DEF JobsInv, JobCallsOK
  <2>2. CASE op = "AddRebuild" /\ GivenUp(i)
    <3>1. CallsOK' /\ Of(calls') \subseteq Of(calls) \cup {Forgotten(calls[i])}
      BY <2>2, GivenUpKeeps DEF Writes
    <3>2. ASSUME NEW c, c = Forgotten(calls[i]) PROVE JobCall(c)'
      <4>1. IsCall(calls[i]) /\ JobCall(calls[i])
        BY Underway DEF JobsInv, JobCallsOK
      <4>2. JobCall(c)
        BY <3>2, <4>1, ForgottenCall DEF JobCall
      <4>3. QED
        BY <1>2, <4>2, GrowKeeps
    <3>3. QED
      BY <1>2, <3>1, <3>2, GrowKeeps DEF JobsInv, JobCallsOK
  <2>3. QED
    BY <1>1, <2>1, <2>2
<1>7. ASSUME NEW o \in ListOps, o # op PROVE Same({o})
  BY <1>1, <1>7, Finished, SameIfGivenUp
<1> HIDE DEF op
<1>8. \A o \in ListOps : PagerFollowed(o)'
  BY <1>4, <1>7, PagersStay DEF Same
<1>9. RebuildsAgreed'
  BY <1>2, RebuildsKept DEF JobsInv
<1>10. QED
  BY <1>2, <1>5, <1>6, <1>8, <1>9 DEF JobsInv

\* What the user does on the pages of jobs, and what the answers do there.
LEMMA JobsUses ==
  ASSUME CallsOK, JobsInv, JobsUser \/ DetailsUser
  PROVE  CallsOK' /\ JobsInv'
<1>1. onJobs /\ page' = page /\ UNCHANGED <<backups, rebuilds>>
  BY DEF JobsUser, DetailsUser, onJobs, onDetails, productName, Details_RebuildButton,
         Details_detailFun, Details_closeDis, Details_closeAsk, Details_confirm,
         Details_closeResult, Details_backupPager, Details_rebuildPager
<1>2. \/ handleClick \/ RebuildButton \/ closeAsk \/ closeResult \/ closeDis
      \/ BackupPager \/ RebuildPager \/ (\E op \in ListOps : productName(op))
      \/ confirm
  BY DEF JobsUser, DetailsUser, Details_RebuildButton, Details_detailFun, RebuildButton,
         Details_closeDis, Details_closeAsk, Details_confirm, Details_closeResult,
         Details_backupPager, Details_rebuildPager, Details_rebuildChange, RebuildPager
<1>3. QED
  BY <1>1, <1>2, JobsLooks, JobsPaged, RebuildConfirmed

LEMMA JobsHandles ==
  ASSUME CallsOK, JobsInv, JobsHandler \/ DetailsHandler
  PROVE  CallsOK' /\ JobsInv'
<1>1. onJobs /\ page' = page /\ UNCHANGED <<backups, rebuilds>>
  BY DEF JobsHandler, DetailsHandler, onJobs, onDetails, Details_timer,
         Details_backupsListed, Details_rebuildsListed, Details_RebuildAdded, Details_failed
<1>2. \/ \E op \in ListOps : JobsTimer(op)
      \/ \E i \in DOMAIN calls : \/ JobsListed(i, "ListBackups") \/ JobsListed(i, "ListRebuilds")
                                 \/ RebuildAdded(i) \/ JobsFailed(i)
  BY DEF JobsHandler, DetailsHandler, Details_timer, Details_backupsListed,
         Details_rebuildsListed, Details_RebuildAdded, Details_failed, BackupsListed,
         RebuildsListed
<1>3. {"ListBackups", "ListRebuilds"} = ListOps
  BY DEF ListOps
<1>4. QED
  BY <1>1, <1>2, <1>3, JobsTimed, JobsAreListed, JobsAreAdded, JobsAreFailed

\* An answer is on its way, and the rest of the UI is as it was.
LEMMA ServesJob ==
  ASSUME CallsOK, JobsInv, Grows, NEW i \in DOMAIN calls, UNCHANGED <<page, view, confirmed>>,
         RebuildsAgreed', NEW data,
         \/ Reply(i, data) /\ calls[i].op \in {"CountBackups", "CountRebuilds", "ListBackups", "ListRebuilds"}
         \/ Reply(i, data) /\ calls[i].op = "AddRebuild" /\ calls[i].live
         \/ Done(i, <<>>) /\ calls[i].op \in {"AddRebuild", "CountBackups", "CountRebuilds"},
         Reply(i, data) => \A c : c = WithAnswer(calls[i], data) => JobCall(c)'
  PROVE  CallsOK' /\ JobsInv'
<1> DEFINE e == WithAnswer(calls[i], data)
<1>1. calls[i] \in Of(calls) /\ MayBe(calls[i], page) /\ IsCall(calls[i])
  BY Underway
<1>2. e.op = calls[i].op /\ e.arg = calls[i].arg
  BY <1>1, AnsweredCall
<1>3. JobsTyped' /\ \A c \in Of(calls) : JobCall(c)'
  BY GrowKeeps DEF JobsInv, JobCallsOK, Grows
<1>4. JobsShown'
  <2>1. ASSUME NEW v, v = view' PROVE /\ onJobs' => JobsViewOK(v)'
                                      /\ page' = "dashboard" => CardsOK(v)'
    BY <2>1, ViewsGrow DEF JobsInv, JobsShown, onJobs
  <2>2. QED
    BY <2>1 DEF JobsShown
<1>5. ASSUME Reply(i, data), calls[i].op \in Writes => calls[i].live
      PROVE  CallsOK' /\ JobsInv'
  <2>2. CallsOK' /\ Of(calls') \subseteq Of(calls) \cup {e} /\ e \in Of(calls')
        /\ \A c \in Of(calls) : c \in Of(calls') \/ c = calls[i]
    BY <1>5, ReplyKeeps
  <2>3. calls' = [calls EXCEPT ![i] = e]
    BY <1>5, Replied DEF CallsOK
  <2>4. \A c : c = e => JobCall(c)'
    BY <1>5
  <2> HIDE DEF e
  <2>5. JobCallsOK'
    BY <1>3, <2>2, <2>4 DEF JobCallsOK
  <2>6. ASSUME NEW op \in ListOps, onJobs PROVE PagerFollowed(op)'
    <3>1. (\A c \in Of(calls') : c.op # op) => \A c \in Of(calls) : c.op # op
      BY <1>2, <2>2
    <3>2. \A c \in LastOf(calls', op) : \E d \in LastOf(calls, op) : c.arg = d.arg
      <4>1. ASSUME NEW c \in LastOf(calls', op) PROVE \E d \in LastOf(calls, op) : c.arg = d.arg
        <5>1. c \in LastOf(calls, op) \/ (c = e /\ calls[i] \in LastOf(calls, op))
          BY <1>2, <2>3, <4>1, LastOfReplaced DEF CallsOK
        <5>2. QED
          BY <1>2, <5>1
      <4>2. QED
        BY <4>1
    <3>3. QED
      BY <2>6, <3>1, <3>2, PagerStays
  <2>7. \A op \in ListOps : PagerFollowed(op)'
    BY <2>6 DEF PagerFollowed, onJobs
  <2>8. QED
    BY <1>3, <1>4, <2>2, <2>5, <2>7 DEF JobsInv
<1>6. CASE Done(i, <<>>) /\ calls[i].op \notin ListOps
  <2>1. CallsOK' /\ Of(calls') \subseteq Of(calls)
    BY <1>6, FinishKeeps
  <2>2. Same(ListOps)
    BY <1>6, Finished
  <2>3. JobCallsOK'
    BY <1>3, <2>1 DEF JobCallsOK
  <2>4. ASSUME NEW op \in ListOps, onJobs PROVE PagerFollowed(op)'
    BY <2>2, <2>4, PagerStays DEF Same
  <2>5. \A op \in ListOps : PagerFollowed(op)'
    BY <2>4 DEF PagerFollowed, onJobs
  <2>6. QED
    BY <1>3, <1>4, <2>1, <2>3, <2>5 DEF JobsInv
<1>7. QED
  BY <1>5, <1>6 DEF ListOps, Writes

LEMMA ServesRebuild ==
  ASSUME CallsOK, JobsInv, NEW i \in DOMAIN calls, PsqlRebuildAddJob(i),
         UNCHANGED <<page, view, backups, confirmed>>
  PROVE  CallsOK' /\ JobsInv'
<1> DEFINE job == [BackupJobId |-> calls[i].arg.BackupTaskId, Status |-> "Created"]
           data == [ID |-> Len(rebuilds) + 1, BackupJobId |-> calls[i].arg.BackupTaskId]
<1>1. /\ calls[i].op = "AddRebuild" /\ rebuilds' = Append(rebuilds, job)
      /\ IF calls[i].live THEN Reply(i, data) ELSE Done(i, <<>>)
  BY DEF PsqlRebuildAddJob, IsSent
<1>2. Sequence(rebuilds) /\ Len(rebuilds) \in Nat /\ DOMAIN rebuilds = 1..Len(rebuilds)
  BY Indices DEF JobsInv, JobsTyped
<1>3. /\ Sequence(rebuilds') /\ Len(rebuilds') = Len(rebuilds) + 1
      /\ \A r \in DOMAIN rebuilds : rebuilds'[r] = rebuilds[r]
      /\ rebuilds'[Len(rebuilds) + 1] = job
  <2> HIDE DEF job
  <2>1. ASSUME NEW s, s = Append(rebuilds, job)
        PROVE  /\ Sequence(s) /\ Len(s) = Len(rebuilds) + 1
               /\ \A r \in 1..Len(rebuilds) : s[r] = rebuilds[r]
               /\ s[Len(rebuilds) + 1] = job
    <3> DEFINE l == Len(rebuilds)
    <3>1. Sequence(s) /\ s = rebuilds \o <<job>>
      BY <1>2, <2>1, Appended
    <3>2. Len(Append(rebuilds, job)) = l + 1
      BY <1>2, Appended
    <3>3. Append(rebuilds, job)[l + 1] = job
      BY <1>2, Appended
    <3>4. \A r \in 1..l : Append(rebuilds, job)[r] = rebuilds[r]
      BY <1>2, Appended
    <3>5. QED
      BY <2>1, <3>1, <3>2, <3>3, <3>4
  <2>2. rebuilds' = Append(rebuilds, job) /\ DOMAIN rebuilds = 1..Len(rebuilds)
    BY <1>1, <1>2
  <2>3. QED
    BY <2>1, <2>2
<1> DEFINE n == Len(rebuilds)
<1>4. DOMAIN rebuilds' = 1..(n + 1)
  BY <1>3, Indices
<1> HIDE DEF n
<1>5. \A r \in DOMAIN rebuilds' : r \in DOMAIN rebuilds \/ r = n + 1
  BY <1>2, <1>4 DEF n
<1>6. Grows
  <2>1. \A r \in DOMAIN rebuilds : r \in DOMAIN rebuilds'
    <3>1. n \in Nat /\ DOMAIN rebuilds = 1..n
      BY <1>2 DEF n
    <3>2. QED
      BY <1>4, <3>1
  <2>2. DOMAIN job = {"BackupJobId", "Status"}
    OBVIOUS
  <2> HIDE DEF job
  <2>3. \A r \in DOMAIN rebuilds' : DOMAIN rebuilds'[r] = {"BackupJobId", "Status"}
    BY <1>3, <1>5, <2>2 DEF JobsInv, JobsTyped, n
  <2>4. QED
    BY <1>3, <2>1, <2>3 DEF JobsInv, JobsTyped, Grows, IsCompleted
<1>7. confirmed.mixed \/ Agreed(calls[i].arg.BackupTaskId)
  BY <1>1, Underway DEF JobsInv, JobCallsOK, JobCall
<1>8. RebuildsAgreed'
  <2>1. ASSUME ~confirmed.mixed, NEW r \in DOMAIN rebuilds', NEW b, b = rebuilds'[r].BackupJobId
        PROVE  Agreed(b)'
    <3>1. Agreed(b)
      BY <1>3, <1>5, <1>7, <2>1 DEF JobsInv, RebuildsAgreed, n
    <3>2. QED
      BY <1>6, <3>1, GrowKeeps
  <2>2. QED
    BY <2>1 DEF RebuildsAgreed
<1>9. ASSUME NEW c, c = WithAnswer(calls[i], data) PROVE JobCall(c)'
  <2>1. c.op = "AddRebuild" /\ c.arg = calls[i].arg /\ c.reply = data
    BY <1>1, <1>9, Underway, AnsweredCall
  <2>2. ASSUME NEW d, d = data PROVE IsRebuild(d)'
    <3>1. n + 1 \in DOMAIN rebuilds'
      <4>1. n \in Nat
        BY <1>2 DEF n
      <4>2. QED
        BY <1>4, <4>1
    <3>2. d = [ID |-> n + 1, BackupJobId |-> rebuilds'[n + 1].BackupJobId]
      BY <1>3, <2>2 DEF n
    <3>3. QED
      BY <3>1, <3>2 DEF IsRebuild
  <2>3. ASSUME NEW b, b = calls[i].arg.BackupTaskId PROVE confirmed'.mixed \/ Agreed(b)'
    BY <1>6, <1>7, <2>3, GrowKeeps DEF Grows
  <2> HIDE DEF data
  <2>4. QED
    BY <2>1, <2>2, <2>3 DEF JobCall, ListOps, CountOps
<1> HIDE DEF data
<1>10. QED
  BY <1>1, <1>6, <1>8, <1>9, ServesJob

LEMMA ServesLists ==
  ASSUME CallsOK, JobsInv, NEW i \in DOMAIN calls, UNCHANGED <<page, view, backups, confirmed>>,
         PsqlBackupVolumeGetJobs(i) \/ PsqlRebuildGetJobs(i)
  PROVE  CallsOK' /\ JobsInv'
<1> DEFINE offset == calls[i].arg.Offset
           n == IF calls[i].op = "ListBackups" THEN Len(backups) ELSE Len(rebuilds)
           rows == IF calls[i].op = "ListBackups" THEN JobPage(BackupRows, offset)
                                                  ELSE JobPage(RebuildRows, offset)
           data == [total |-> n, list |-> rows]
<1>1. calls[i].op \in {"ListBackups", "ListRebuilds"} /\ Reply(i, data) /\ UNCHANGED jobVars
  BY DEF PsqlBackupVolumeGetJobs, PsqlRebuildGetJobs, IsSent, jobVars
<1>2. calls[i].op \in ListOps
  BY <1>1 DEF ListOps
<1>3. offset \in Nat
  BY <1>2, Underway DEF JobsInv, JobCallsOK, JobCall
<1>4. Grows
  BY <1>1, SameJobs DEF JobsInv
<1>5. RebuildsAgreed'
  BY <1>1, <1>4, RebuildsKept DEF JobsInv, jobVars
<1>6. n \in Nat
  BY Indices DEF JobsInv, JobsTyped
<1>7. Follow(rows, offset) /\ (calls[i].op = "ListBackups" => RowsOK(rows))
  BY <1>3, ListedBackups, ListedRebuilds DEF JobsInv
<1> HIDE DEF offset, n, rows
<1>8. ASSUME NEW c, c = WithAnswer(calls[i], data) PROVE JobCall(c)'
  <2>1. c.op = calls[i].op /\ c.arg = calls[i].arg /\ c.reply = data
    BY <1>8, Underway, AnsweredCall
  <2>2. c.reply.list = rows /\ c.reply.total = n /\ c.arg.Offset = offset
    BY <2>1 DEF offset
  <2>3. JobCall(c)
    BY <1>1, <1>3, <1>6, <1>7, <2>1, <2>2 DEF JobCall, ListOps, CountOps
  <2>4. QED
    BY <1>4, <2>3, GrowKeeps
<1> HIDE DEF data
<1>9. QED
  BY <1>1, <1>4, <1>5, <1>8, ServesJob

\* A backup is completed.
LEMMA JobCompletes ==
  ASSUME CallsOK, JobsInv, NEW b \in DOMAIN backups, BackupCompleted(b)
  PROVE  CallsOK' /\ JobsInv'
<1> DEFINE job == [backups[b] EXCEPT !.Status = "Completed"]
<1>1. DOMAIN backups[b] = {"Status", "Cost"} /\ backups[b].Cost = Costs[b]
      /\ Sequence(backups)
  BY DEF JobsInv, JobsTyped
<1>2. DOMAIN job = {"Status", "Cost"} /\ job.Cost = Costs[b] /\ job.Status = "Completed"
  BY <1>1
<1>3. backups' = [backups EXCEPT ![b] = job] /\ UNCHANGED <<page, view, calls, rebuilds, confirmed>>
  BY <1>1 DEF BackupCompleted, Sequence
<1> HIDE DEF job
<1>4. /\ Sequence(backups') /\ DOMAIN backups' = DOMAIN backups
      /\ \A k \in DOMAIN backups : backups'[k] = IF k = b THEN job ELSE backups[k]
  BY <1>1, <1>3, Replaced
<1>5. Grows
  BY <1>2, <1>3, <1>4 DEF JobsInv, JobsTyped, Grows, IsCompleted
<1>6. JobCallsOK' /\ RebuildsAgreed' /\ JobsTyped'
  BY <1>3, <1>5, GrowKeeps, RebuildsKept DEF JobsInv, JobCallsOK, Grows
<1>7. JobsShown'
  <2>1. ASSUME NEW v, v = view' PROVE /\ onJobs' => JobsViewOK(v)'
                                      /\ page' = "dashboard" => CardsOK(v)'
    BY <1>3, <1>5, <2>1, ViewsGrow DEF JobsInv, JobsShown, onJobs
  <2>2. QED
    BY <2>1 DEF JobsShown
<1>8. \A op \in ListOps : PagerFollowed(op)'
  BY <1>3 DEF JobsInv, PagerFollowed, onJobs, Follow, PagerOf, TableOf
<1>9. QED
  BY <1>3, <1>6, <1>7, <1>8 DEF JobsInv, CallsOK

LEMMA RebuildCompletes ==
  ASSUME CallsOK, JobsInv, NEW r \in DOMAIN rebuilds, RebuildCompleted(r)
  PROVE  CallsOK' /\ JobsInv'
<1> DEFINE job == [rebuilds[r] EXCEPT !.Status = "Completed"]
<1>1. DOMAIN rebuilds[r] = {"BackupJobId", "Status"} /\ Sequence(rebuilds)
  BY DEF JobsInv, JobsTyped
<1>2. /\ DOMAIN job = {"BackupJobId", "Status"} /\ job.Status = "Completed"
      /\ job.BackupJobId = rebuilds[r].BackupJobId
  BY <1>1
<1>3. rebuilds' = [rebuilds EXCEPT ![r] = job] /\ UNCHANGED <<page, view, calls, backups, confirmed>>
  BY <1>1 DEF RebuildCompleted, Sequence
<1> HIDE DEF job
<1>4. /\ Sequence(rebuilds') /\ DOMAIN rebuilds' = DOMAIN rebuilds
      /\ \A k \in DOMAIN rebuilds : rebuilds'[k] = IF k = r THEN job ELSE rebuilds[k]
  BY <1>1, <1>3, Replaced
<1>5. \A k \in DOMAIN rebuilds : rebuilds'[k].BackupJobId = rebuilds[k].BackupJobId
  BY <1>2, <1>4
<1>6. Grows
  BY <1>2, <1>3, <1>4, <1>5 DEF JobsInv, JobsTyped, Grows, IsCompleted
<1>7. JobCallsOK' /\ JobsTyped'
  BY <1>3, <1>6, GrowKeeps DEF JobsInv, JobCallsOK, Grows
<1>8. RebuildsAgreed'
  BY <1>3, <1>4, <1>5, <1>6, GrowKeeps DEF JobsInv, RebuildsAgreed
<1>9. JobsShown'
  <2>1. ASSUME NEW v, v = view' PROVE /\ onJobs' => JobsViewOK(v)'
                                      /\ page' = "dashboard" => CardsOK(v)'
    BY <1>3, <1>6, <2>1, ViewsGrow DEF JobsInv, JobsShown, onJobs
  <2>2. QED
    BY <2>1 DEF JobsShown
<1>10. \A op \in ListOps : PagerFollowed(op)'
  BY <1>3 DEF JobsInv, PagerFollowed, onJobs, Follow, PagerOf, TableOf
<1>11. QED
  BY <1>3, <1>7, <1>8, <1>9, <1>10 DEF JobsInv, CallsOK

\* The counts are made, in two queries, and shown on the dashboard.
LEMMA ServesCounts ==
  ASSUME CallsOK, JobsInv, NEW i \in DOMAIN calls, PsqlCounts(i),
         UNCHANGED <<page, view, backups, rebuilds, confirmed>>
  PROVE  CallsOK' /\ JobsInv'
<1>1. PICK op \in CountOps : LET jobs == JobsOf(op) IN
        \/ /\ IsSent(i, op)
           /\ Reply(i, [inProcessJobs |-> Cardinality(InProcess(jobs)), there |-> Len(jobs),
                        completedJobs |-> NotCounted])
        \/ /\ IsAnswered(i, op) /\ ~AllCounted(Answer(i))
           /\ Reply(i, [Answer(i) EXCEPT !.completedJobs = Cardinality(Completed(jobs))])
  BY DEF PsqlCounts
<1>2. calls[i].op = op /\ JobCall(calls[i])
  BY <1>1, Underway DEF IsSent, IsAnswered, JobsInv, JobCallsOK
<1> DEFINE running == Cardinality(InProcess(JobsOf(op)))
           there == Len(JobsOf(op))
           done == CompletedOf(op)
<1>3. /\ done \in Nat /\ running \in Nat /\ there \in Nat /\ running + done = there
      /\ done = Cardinality(Completed(JobsOf(op)))
  BY JobTables, CompletedCounts DEF JobsInv, CompletedOf
<1>4. PICK data : /\ Reply(i, data)
                  /\ Card(data, op) \/ Half(data, op)
  <2>1. CASE IsSent(i, op) /\ Reply(i, [inProcessJobs |-> running, there |-> there,
                                        completedJobs |-> NotCounted])
    <3> DEFINE data == [inProcessJobs |-> running, there |-> there, completedJobs |-> NotCounted]
    <3>1. /\ data.inProcessJobs = running /\ data.there = there
          /\ data.completedJobs = NotCounted
      OBVIOUS
    <3>2. running + done >= there
      <4> HIDE DEF running, done, there
      <4>1. QED
        BY <1>3
    <3>3. Half(data, op)
      <4> HIDE DEF data
      <4>1. QED
        BY <1>3, <3>1, <3>2 DEF Half
    <3>4. QED
      BY <2>1, <3>3
  <2>2. CASE /\ IsAnswered(i, op) /\ ~AllCounted(Answer(i))
             /\ Reply(i, [Answer(i) EXCEPT !.completedJobs = Cardinality(Completed(JobsOf(op)))])
    <3> DEFINE half == Answer(i)
               data == [half EXCEPT !.completedJobs = done]
    <3>1. Card(half, op) \/ Half(half, op)
      BY <1>2, <2>2 DEF JobCall, IsAnswered, Answer
    <3>2. ~Card(half, op)
      BY <2>2 DEF AllCounted, NotCounted, Card
    <3>3. Half(half, op)
      BY <3>1, <3>2
    <3>4. /\ data.inProcessJobs = half.inProcessJobs /\ data.there = half.there
          /\ data.completedJobs = done
      BY <1>2
    <3>5. Card(data, op)
      <4> HIDE DEF data, done
      <4>1. done \in Nat /\ done <= done
        BY <1>3
      <4>2. QED
        BY <3>3, <3>4, <4>1 DEF Half, Card, done
    <3>6. Reply(i, data)
      BY <1>3, <2>2
    <3>7. QED
      BY <3>5, <3>6
  <2>3. QED
    BY <1>1, <2>1, <2>2
<1>5. Grows
  BY SameJobs DEF JobsInv, jobVars
<1>6. RebuildsAgreed'
  BY <1>5, RebuildsKept DEF JobsInv
<1>7. ASSUME NEW c, c = WithAnswer(calls[i], data) PROVE JobCall(c)'
  <2>1. c.op = op /\ c.reply = data
    BY <1>2, <1>7, Underway, AnsweredCall
  <2>2. JobCall(c)
    BY <1>4, <2>1 DEF JobCall, ListOps, CountOps
  <2>3. QED
    BY <1>5, <2>2, GrowKeeps
<1>8. calls[i].op \in {"CountBackups", "CountRebuilds"}
  BY <1>2 DEF CountOps
<1>9. QED
  BY <1>4, <1>5, <1>6, <1>7, <1>8, ServesJob

LEMMA CountsHandled ==
  ASSUME CallsOK, JobsInv, NEW i \in DOMAIN calls, Counted(i) \/ CountFailed(i),
         UNCHANGED <<page, backups, rebuilds, confirmed>>
  PROVE  CallsOK' /\ JobsInv'
<1>1. calls[i].op \in {"CountBackups", "CountRebuilds"} /\ Done(i, <<>>)
  BY DEF Counted, CountFailed, IsAnswered, Outstanding, CountOps
<1>2. Grows /\ JobsTyped'
  BY SameJobs DEF JobsInv, jobVars, Grows
<1>3. RebuildsAgreed'
  BY <1>2, RebuildsKept DEF JobsInv
<1>4. CASE view' = view
  <2>1. Reply(i, Nothing) => \A c : c = WithAnswer(calls[i], Nothing) => JobCall(c)'
    <3>1. ASSUME NEW c, Reply(i, Nothing), c = WithAnswer(calls[i], Nothing) PROVE FALSE
      <4>1. Len(calls') = Len(calls)
        BY <3>1, Replied, Replaced DEF CallsOK
      <4>2. Len(calls') = Len(calls) - 1 /\ Len(calls) \in Nat
        BY <1>1, Removed, Indices, ConcatEmptySeq DEF Done, CallsOK, Sequence
      <4> DEFINE l == Len(calls)
                 m == Len(calls')
      <4> HIDE DEF l, m
      <4>3. m = l /\ m = l - 1 /\ l \in Nat
        BY <4>1, <4>2 DEF l, m
      <4>4. QED
        BY <4>3
    <3>2. QED
      BY <3>1
  <2>2. QED
    BY <1>1, <1>2, <1>3, <1>4, <2>1, ServesJob
<1>5. CASE Counted(i)
  <2>1. PICK op \in CountOps :
          /\ page = "dashboard" /\ IsAnswered(i, op) /\ AllCounted(Answer(i))
          /\ view' = [view EXCEPT !.card[CardOf(op)] = Answer(i)]
    BY <1>5 DEF Counted
  <2>2. CardsOK(view) /\ JobCall(calls[i])
    BY <2>1, Underway DEF JobsInv, JobsShown, JobCallsOK
  <2>3. ASSUME NEW n, n = Answer(i) PROVE Card(n, CardOf(op))
    <3>1. Card(n, op) \/ Half(n, op)
      BY <2>1, <2>2, <2>3 DEF JobCall, IsAnswered, Answer
    <3>2. ~Half(n, op)
      BY <2>1, <2>3 DEF Half, AllCounted
    <3>3. CompletedOf(CardOf(op)) = CompletedOf(op)
      BY DEF CompletedOf, CardOf, JobsOf, CountOps
    <3>4. QED
      BY <3>1, <3>2, <3>3 DEF Card
  <2>4. ASSUME NEW v, v = view' PROVE CardsOK(v)
    BY <2>1, <2>2, <2>3, <2>4 DEF CardsOK, ListOps
  <2>5. JobsShown'
    <3>1. ASSUME NEW v, v = view' PROVE CardsOK(v)'
      BY <1>2, <2>4, <3>1, ViewsGrow
    <3>2. QED
      BY <2>1, <3>1 DEF JobsShown, onJobs
  <2>6. CallsOK' /\ Of(calls') \subseteq Of(calls)
    BY <1>1, FinishKeeps
  <2>7. JobCallsOK'
    BY <1>2, <2>6, GrowKeeps DEF JobsInv, JobCallsOK
  <2>8. \A table \in ListOps : PagerFollowed(table)'
    BY <2>1 DEF PagerFollowed, onJobs
  <2>9. QED
    BY <1>2, <1>3, <2>5, <2>6, <2>7, <2>8 DEF JobsInv
<1>6. QED
  BY <1>4, <1>5 DEF CountFailed

\* Every step of the pages of jobs, of FS3 for them and of the scheduler.
LEMMA JobsGo ==
  ASSUME CallsOK, JobsInv, JobsStep
  PROVE  CallsOK' /\ JobsInv'
<1>1. CASE JobsServer
  BY <1>1, ServesLists, ServesRebuild DEF JobsServer, PsqlBackupVolumeGetJobs, PsqlRebuildGetJobs
<1>2. CASE DashboardNext
  BY <1>2, ServesCounts, CountsHandled DEF DashboardNext, Dashboard_keep
<1>3. QED
  BY <1>1, <1>2, JobsUses, JobsHandles, JobCompletes, RebuildCompletes DEF JobsStep, JobsNext, DetailsNext

LEMMA JobsStart ==
  ASSUME Init
  PROVE  JobsInv
<1> DEFINE n == Len(Costs)
           Job(b) == [Status |-> IF b = 1 THEN "Running" ELSE "Completed", Cost |-> Costs[b]]
           job(status) == [BackupJobId |-> n, Status |-> status]
<1>1. /\ backups = [b \in DOMAIN Costs |-> Job(b)]
      /\ rebuilds = <<job("Completed"), job("Created")>>
      /\ confirmed = [of |-> {n}, mixed |-> FALSE]
  BY DEF Init, JobsInit
<1>2. n \in Nat /\ n > 1 /\ DOMAIN Costs = 1..n
  BY JobBounds, LenProperties
<1>3. /\ \A b : DOMAIN Job(b) = {"Status", "Cost"} /\ Job(b).Cost = Costs[b]
      /\ \A b : b # 1 => Job(b).Status = "Completed"
      /\ \A status : /\ job(status).BackupJobId = n
                     /\ DOMAIN job(status) = {"BackupJobId", "Status"}
  OBVIOUS
<1> HIDE DEF n, Job, job
<1>4. Sequence(backups) /\ DOMAIN backups = DOMAIN Costs
  <2>1. Sequence([b \in 1..n |-> Job(b)])
    BY <1>2, Numbered
  <2>2. QED
    BY <1>1, <1>2, <2>1
<1>5. /\ Sequence(rebuilds)
      /\ \A r \in DOMAIN rebuilds : \E status : rebuilds[r] = job(status)
  <2>1. Sequence(rebuilds) /\ Of(rebuilds) = {job("Completed"), job("Created")}
    BY <1>1, Pair
  <2>2. QED
    BY <2>1 DEF Of
<1>6. JobsTyped
  BY <1>1, <1>3, <1>4, <1>5 DEF JobsTyped
<1>7. Agreed(n)
  <2>1. n \in DOMAIN Costs /\ n # 1
    BY <1>2
  <2>2. QED
    BY <1>1, <1>3, <1>4, <2>1 DEF Agreed, IsCompleted
<1>8. RebuildsAgreed
  BY <1>3, <1>5, <1>7 DEF RebuildsAgreed
<1> DEFINE Opened(data, cs) == view = data /\ calls = cs
<1>9. \/ page = "login" /\ Opened(LoginView, <<>>)
      \/ page = "fs3" /\ token # None /\ Opened(Fs3View, <<>>)
      \/ page = "myPlans" /\ Opened(MyPlansView, <<ListPlans(1)>>)
      \/ page = "myPlans" /\ Opened(MyPlansView, <<JustAsked, ListPlans(1)>>)
      \/ page = "backupPlans" /\ Opened(BackupPlansView, <<>>)
      \/ page = "myJobs" /\ Opened(MyJobsView, MyJobsCalls)
      \/ page = "dashboard" /\ Opened(DashboardView, DashboardCalls)
  BY DEF Init, SessionStart, StartAt
<1>10. JobsShown
  <2>1. onJobs => page = "myJobs" /\ view = MyJobsView
    BY <1>9 DEF onJobs
  <2>2. page = "dashboard" => view = DashboardView
    BY <1>9
  <2>3. QED
    BY <1>6, <2>1, <2>2, NewViewsAreOK DEF NewViewsOK, JobsShown
<1>11. JustAsked.op = "AddPlan"
  <2> DEFINE c == Call("AddPlan", [Duration |-> Epochs(180)])
  <2>1. JustAsked = Forgotten(c)
    BY DEF JustAsked, Forgotten
  <2>2. IsCall(c) /\ c.op = "AddPlan"
    BY NewCall
  <2> HIDE DEF c
  <2>3. QED
    BY <2>1, <2>2, ForgottenCall
<1>12. ListPlans(1).op = "ListPlans"
  BY NewCall DEF ListPlans
<1>13. ASSUME NEW c \in Of(calls)
       PROVE  \/ c.op \notin JobOps
              \/ c.state = "sent" /\ \E op \in ListOps : c.op = op /\ c.arg.Offset = 0 /\ page = "myJobs"
              \/ c.state = "sent" /\ c.op \in CountOps
  <2>1. CASE page = "myPlans"
    BY <1>9, <1>11, <1>12, <2>1, Single, Pair DEF JobOps, ListOps, CountOps
  <2>2. CASE calls = MyJobsCalls /\ page = "myJobs"
    <3>1. PICK op \in ListOps : c = ListCall(op, 1)
      BY <2>2, Pair DEF MyJobsCalls, ListOps
    <3>2. c.op = op /\ c.state = "sent" /\ c.arg.Offset = 0
      BY <3>1, NewCall DEF ListCall
    <3>3. QED
      BY <2>2, <3>2
  <2>3. CASE calls = DashboardCalls
    BY <2>3, Pair, NewCall DEF DashboardCalls, CountOps
  <2>4. QED
    BY <1>9, <2>1, <2>2, <2>3, Empty
<1>14. JobCallsOK
  BY <1>13 DEF JobCallsOK, JobCall, JobOps, ListOps, CountOps
<1>15. ASSUME NEW op \in ListOps PROVE PagerFollowed(op)
  <2>1. SUFFICES ASSUME onJobs PROVE PagerFollowed(op)
    BY DEF PagerFollowed
  <2>2. view = MyJobsView
    BY <1>9, <2>1 DEF onJobs
  <2>3. view[PagerOf(op)].offset = 1 /\ view[TableOf(op)] = <<>>
    <3>1. ASSUME NEW v, v = view
          PROVE  v.tableData = <<>> /\ v.tableData_2 = <<>> /\ v.parma.offset = 1 /\ v.parmaRebuild.offset = 1
      BY <2>2, <3>1, NewViews
    <3>2. QED
      BY <3>1 DEF PagerOf, TableOf
  <2>4. \A c \in LastOf(calls, op) : c.arg.Offset = 0
    <3>1. ASSUME NEW c \in LastOf(calls, op) PROVE c.arg.Offset = 0
      <4>1. c \in Of(calls) /\ c.op = op /\ op \in JobOps /\ op \notin CountOps
        BY DEF LastOf, Of, JobOps, ListOps, CountOps
      <4>2. QED
        BY <1>13, <4>1
    <3>2. QED
      BY <3>1
  <2>5. QED
    BY <2>3, <2>4 DEF PagerFollowed, Follow
<1>16. QED
  BY <1>6, <1>8, <1>10, <1>14, <1>15 DEF JobsInv

----------------------------------------------------------------------------
(* The masks.                                                              *)

\* The operations of the requests that the page waits for.
Awaited == {c.op : c \in {d \in Of(calls) : d.live}}

\* A mask is up on page p, whose data is v, only while something is awaited of
\* W, or a timer runs, that takes it off.
MasksOn(p, v, W) ==
    /\ p = "login" /\ v.loginLoad => "Login" \in W
    /\ p = "myPlans" => /\ v.timers \in Nat
                        /\ v.loading => v.timers > 0 \/ "ListPlans" \in W \/ "UpdatePlan" \in W
    /\ p = "backupPlans" /\ v.loading => "AddPlan" \in W
    /\ p = "myJobs" =>
         /\ v.loading => \/ v.timers["ListBackups"] > 0
                         \/ "ListBackups" \in W \/ "AddRebuild" \in W
         /\ v.loading_rebuild => v.timers["ListRebuilds"] > 0 \/ "ListRebuilds" \in W
    /\ p = "details" /\ v.loading =>
         \/ v.timers["ListBackups"] > 0 \/ v.timers["ListRebuilds"] > 0
         \/ "ListBackups" \in W \/ "ListRebuilds" \in W \/ "AddRebuild" \in W
MasksInv == MasksOn(page, view, Awaited)

LEMMA MasksInvEnds ==
  ASSUME MasksInv
  PROVE  MasksEnd
<1>1. ASSUME NEW op \in Awaited, NEW ops, op \in ops PROVE Waits(ops)
  <2>1. PICK i \in DOMAIN calls : calls[i].op = op /\ calls[i].live
    BY <1>1 DEF Awaited, Of
  <2>2. QED
    BY <1>1, <2>1 DEF Waits, Outstanding
<1>2. ASSUME NEW op, view.timers[op] > 0, NEW ops, op \in ops PROVE TimerRuns(ops)
  BY <1>2 DEF TimerRuns
<1>3. page = "login" => MasksEnd
  BY <1>1 DEF MasksInv, MasksOn, MasksEnd
<1>4. page = "myPlans" => MasksEnd
  BY <1>1 DEF MasksInv, MasksOn, MasksEnd
<1>5. page = "backupPlans" => MasksEnd
  BY <1>1 DEF MasksInv, MasksOn, MasksEnd
<1>6. page = "myJobs" => MasksEnd
  <2>1. ASSUME page = "myJobs", view.loading
        PROVE  TimerRuns({"ListBackups"}) \/ Waits({"ListBackups", "AddRebuild"})
    BY <1>1, <1>2, <2>1 DEF MasksInv, MasksOn
  <2>2. ASSUME page = "myJobs", view.loading_rebuild
        PROVE  TimerRuns({"ListRebuilds"}) \/ Waits({"ListRebuilds"})
    BY <1>1, <1>2, <2>2 DEF MasksInv, MasksOn
  <2>3. QED
    BY <2>1, <2>2 DEF MasksEnd
<1>7. page = "details" => MasksEnd
  <2>1. ASSUME page = "details", view.loading
        PROVE  TimerRuns(ListOps) \/ Waits(ListOps \cup {"AddRebuild"})
    <3>1. "ListBackups" \in ListOps /\ "ListRebuilds" \in ListOps
      BY DEF ListOps
    <3>2. QED
      BY <1>1, <1>2, <2>1, <3>1 DEF MasksInv, MasksOn
  <2>2. QED
    BY <2>1 DEF MasksEnd
<1>8. QED
  BY <1>3, <1>4, <1>5, <1>6, <1>7 DEF MasksEnd

\* What is awaited after a step.
LEMMA AwaitedIs == \A op : op \in Awaited <=> \E c \in Of(calls) : c.op = op /\ c.live
BY DEF Awaited

LEMMA AwaitsSame ==
  ASSUME NEW ops, Same(ops), NEW op \in ops, op \in Awaited
  PROVE  op \in Awaited'
BY DEF Awaited, Same

LEMMA AwaitsReply ==
  ASSUME CallsOK, NEW i \in DOMAIN calls, NEW data, Reply(i, data)
  PROVE  Awaited \subseteq Awaited'
<1> DEFINE e == WithAnswer(calls[i], data)
<1>1. e.op = calls[i].op /\ e.live = calls[i].live
  BY Underway, AnsweredCall
<1>2. calls' = [calls EXCEPT ![i] = e]
  BY Replied DEF CallsOK
<1> HIDE DEF e
<1>3. e \in Of(calls') /\ \A k \in DOMAIN calls : k # i => calls[k] \in Of(calls')
  BY <1>2, Replaced DEF CallsOK
<1>4. QED
  BY <1>1, <1>3 DEF Awaited, Of

LEMMA AwaitsDone ==
  ASSUME CallsOK, page' = page, NEW i \in DOMAIN calls, Done(i, <<>>)
  PROVE  /\ Awaited \subseteq Awaited' \cup {calls[i].op}
         /\ ~calls[i].live => Awaited \subseteq Awaited'
<1>1. \A c \in Of(calls) : c \in Of(calls') \/ c = calls[i]
  BY FinishKeeps
<1>2. QED
  BY <1>1 DEF Awaited

LEMMA AwaitsGivenUp ==
  ASSUME CallsOK, page' = page, NEW i \in DOMAIN calls, GivenUp(i), calls[i].op \in Writes
  PROVE  Awaited \subseteq Awaited' \cup {calls[i].op}
<1>1. \A c \in Of(calls) : c \in Of(calls') \/ c = calls[i]
  BY GivenUpKeeps
<1>2. QED
  BY <1>1 DEF Awaited

LEMMA AwaitsSent ==
  ASSUME CallsOK, NEW op, NEW arg, calls' = calls \o <<Call(op, arg)>>
  PROVE  Awaited \subseteq Awaited' /\ op \in Awaited'
<1>1. Sequence(<<Call(op, arg)>>) /\ Of(<<Call(op, arg)>>) = {Call(op, arg)}
  BY Single
<1>2. Of(calls') = Of(calls) \cup {Call(op, arg)}
  BY <1>1, Joined DEF CallsOK
<1>3. QED
  BY <1>2, NewCall DEF Awaited

\* A page that is opened awaits what it asks for.
LEMMA MasksOpen ==
  ASSUME NEW old, Opens(old)
  PROVE  MasksInv'
<1>1. PICK new :
        /\ new \subseteq Of(calls')
        /\ \/ page' = "login" /\ view' = LoginView
           \/ page' \in {"fs3", "backup", "dashboard"}
           \/ page' = "myPlans" /\ view' = MyPlansView /\ new = {ListPlans(1)}
           \/ page' = "backupPlans" /\ view' = BackupPlansView
           \/ /\ page' = "myJobs" /\ view' = MyJobsView
              /\ new = {ListCall("ListRebuilds", 1), ListCall("ListBackups", 1)}
           \/ \E op \in ListOps : /\ page' = "details" /\ new = {ListCall(op, 1)}
  BY DEF Opens, Left
<1>2. ASSUME NEW c \in new, c.live PROVE c.op \in Awaited'
  BY <1>1, <1>2 DEF Awaited
<1>3. \A op, offset : ListCall(op, offset).op = op /\ ListCall(op, offset).live
  BY NewCall DEF ListCall
<1>4. ListPlans(1).op = "ListPlans" /\ ListPlans(1).live
  BY NewCall DEF ListPlans
<1>5. CASE page' = "login" /\ view' = LoginView
  BY <1>5 DEF MasksInv, MasksOn, LoginView
<1>6. CASE page' = "myPlans" /\ view' = MyPlansView /\ new = {ListPlans(1)}
  <2>1. "ListPlans" \in Awaited' /\ view'.timers = 0
    BY <1>2, <1>4, <1>6 DEF MyPlansView
  <2>2. QED
    BY <1>6, <2>1 DEF MasksInv, MasksOn
<1>7. CASE page' = "backupPlans" /\ view' = BackupPlansView
  BY <1>7 DEF MasksInv, MasksOn, BackupPlansView
<1>8. CASE page' = "myJobs" /\ new = {ListCall("ListRebuilds", 1), ListCall("ListBackups", 1)}
  BY <1>2, <1>3, <1>8 DEF MasksInv, MasksOn
<1>9. ASSUME NEW op \in ListOps, page' = "details", new = {ListCall(op, 1)} PROVE MasksInv'
  BY <1>2, <1>3, <1>9 DEF MasksInv, MasksOn, ListOps
<1>10. CASE page' \in {"fs3", "backup", "dashboard"}
  BY <1>10 DEF MasksInv, MasksOn
<1>11. QED
  BY <1>1, <1>5, <1>6, <1>7, <1>8, <1>9, <1>10

LEMMA MasksStay ==
  ASSUME MasksInv, page' = page, view' = view, Awaited \subseteq Awaited'
  PROVE  MasksInv'
BY DEF MasksInv, MasksOn

\* On the login page.
LEMMA MasksLogin ==
  ASSUME CallsOK, SessionInv, MasksInv, SessionStays
  PROVE  MasksInv'
<1>1. /\ page' = page /\ Same(PlanOps \cup JobOps)
      /\ page \notin {"login", "fs3"} => view' = view
  <2>1. (PlanOps \cup JobOps) \cap SessionCallOps = {}
    BY DEF PlanOps, JobOps, ListOps, CountOps, SessionCallOps, SessionOps
  <2>2. QED
    BY <2>1, SessionIsElsewhere
<1>2. CASE page = "fs3"
  BY <1>1, <1>2 DEF MasksInv, MasksOn
<1>3. CASE page \notin {"login", "fs3"}
  <2>1. \A op \in PlanOps \cup JobOps : op \in Awaited => op \in Awaited'
    BY <1>1, AwaitsSame
  <2>2. QED
    BY <1>1, <1>3, <2>1
       DEF MasksInv, MasksOn, PlanOps, JobOps, ListOps
<1>4. CASE page = "login"
  <2>1. SUFFICES ASSUME view'.loginLoad PROVE "Login" \in Awaited'
    BY <1>1, <1>4 DEF MasksInv, MasksOn
  <2>2. view.loginLoad => "Login" \in Awaited
    BY <1>4 DEF MasksInv, MasksOn
  <2>3. CASE LoginForm
    <3>1. PICK s \in Secrets : LoginSubmit(s)
      BY <2>3 DEF LoginForm
    <3>2. calls' = calls \o <<Call("Login", [secret |-> s])>>
      BY <3>1 DEF LoginSubmit, UserSends
    <3>3. QED
      BY <3>2, AwaitsSent
  <2>4. CASE SessionServer
    <3>1. PICK i \in DOMAIN calls : Login(i) \/ GetDiscoveryDoc(i) \/ ListBuckets(i) \/ SetAuth(i)
      BY <2>4 DEF SessionServer
    <3>2. CASE SetAuth(i)
      <4>1. view' = view /\ calls[i].op = "SetAuth"
            /\ (Reply(i, [ok |-> TRUE]) \/ Done(i, <<>>))
        BY <3>2 DEF SetAuth, IsSent
      <4>2. QED
        BY <1>1, <2>1, <2>2, <4>1, AwaitsReply, AwaitsDone
    <3>3. CASE Login(i) \/ GetDiscoveryDoc(i) \/ ListBuckets(i)
      <4>1. view' = view /\ \E data : Reply(i, data)
        BY <3>3 DEF Login, GetDiscoveryDoc, ListBuckets
      <4>2. QED
        BY <2>1, <2>2, <4>1, AwaitsReply
    <3>4. QED
      BY <3>1, <3>2, <3>3
  <2>5. CASE SessionHandler
    <3>1. PICK i \in DOMAIN calls : \/ LoggedIn(i) \/ LoginFailed(i) \/ LoggedOut(i)
                                  \/ BucketsRefused(i) \/ NothingDone(i) \/ KeyAnswered(i)
      BY <2>5 DEF SessionHandler
    <3>2. CASE LoginFailed(i)
      <4>1. Done(i, <<>>) /\ DOMAIN view = {"loginLoad", "Secretkey"}
            /\ view' = IF calls[i].live THEN [view EXCEPT !.loginLoad = FALSE] ELSE view
        BY <1>4, <3>2 DEF LoginFailed, SessionInv, SessionFields
      <4>2. ~calls[i].live /\ view' = view
        BY <2>1, <4>1
      <4>3. QED
        BY <1>1, <2>1, <2>2, <4>1, <4>2, AwaitsDone
    <3>3. CASE LoggedIn(i)
      <4>1. page' = "fs3"
        BY <1>1, <1>4, <3>3 DEF LoggedIn, Mount
      <4>2. QED
        BY <1>1, <1>4, <4>1
    <3>4. CASE LoggedOut(i) \/ BucketsRefused(i)
      <4>1. view' = view /\ calls' = RemoveAt(calls, i)
            /\ calls[i].op \in {"GetDiscoveryDoc", "ListBuckets"}
        BY <1>4, <3>4 DEF LoggedOut, BucketsRefused, FedLogOut, ToLogin, IsAnswered
      <4>2. Sequence(RemoveAt(calls, i)) /\ Done(i, <<>>)
        BY <4>1, Removed, ConcatEmptySeq DEF Done, CallsOK, Sequence
      <4>3. QED
        BY <1>1, <2>1, <2>2, <4>1, <4>2, AwaitsDone
    <3>5. CASE NothingDone(i) \/ KeyAnswered(i)
      <4>1. view' = view /\ Done(i, <<>>)
            /\ calls[i].op \in {"GetDiscoveryDoc", "ListBuckets", "SetAuth"}
        BY <3>5 DEF NothingDone, KeyAnswered, Outstanding
      <4>2. QED
        BY <1>1, <2>1, <2>2, <4>1, AwaitsDone
    <3>6. QED
      BY <3>1, <3>2, <3>3, <3>4, <3>5
  <2>6. CASE OpenChangePass \/ ChangePassword
    BY <1>4, <2>6 DEF OpenChangePass, ChangePassword, UpdateKey, TypeNewKey, GetClose
  <2>7. QED
    BY <2>3, <2>4, <2>5, <2>6 DEF SessionStays
<1>5. QED
  BY <1>2, <1>3, <1>4

LEMMA MasksGo ==
  ASSUME CallsOK, SessionInv, MasksInv, Go
  PROVE  MasksInv'
<1>1. \/ Visits
      \/ Logout
      \/ Turns
      \/ SessionStays
  BY GoSplits
<1>2. QED
  BY <1>1, VisitsOpen, LogoutOpens, HandlerOpens, MasksOpen, MasksLogin DEF Turns

\* On the pages of plans.
LEMMA MasksOnMyPlans ==
  ASSUME MasksInv, page = "myPlans", page' = page, view'.timers \in Nat,
         view'.loading =>
            \/ view'.timers > 0 \/ "ListPlans" \in Awaited' \/ "UpdatePlan" \in Awaited'
            \/ /\ view.loading /\ view'.timers = view.timers
               /\ "ListPlans" \in Awaited => "ListPlans" \in Awaited'
               /\ "UpdatePlan" \in Awaited => "UpdatePlan" \in Awaited'
  PROVE  MasksInv'
BY DEF MasksInv, MasksOn

LEMMA MasksMyPlans ==
  ASSUME CallsOK, PlansInv, MasksInv, MyPlansUser \/ MyPlansHandler
  PROVE  MasksInv'
<1>1. page = "myPlans" /\ page' = page
  BY DEF MyPlansUser, MyPlansHandler, onMyPlans
<1>2. DOMAIN view = MyPlansFields /\ view.timers \in Nat
  BY <1>1 DEF PlansInv, PlansFields, MasksInv, MasksOn
<1>3. calls' = calls => Awaited' = Awaited
  BY DEF Awaited
<1>4. ASSUME NEW op, NEW arg, calls' = calls \o <<Call(op, arg)>> PROVE op \in Awaited'
  BY <1>4, AwaitsSent
<1>5. ASSUME NEW i \in DOMAIN calls, NEW offset, Done(i, <<ListPlans(offset)>>)
      PROVE  "ListPlans" \in Awaited'
  <2>1. /\ Sequence(<<ListPlans(offset)>>) /\ Of(<<ListPlans(offset)>>) = {ListPlans(offset)}
        /\ ListPlans(offset).op = "ListPlans" /\ ListPlans(offset).live
        /\ IsCall(ListPlans(offset))
    BY Single, NewCall DEF ListPlans
  <2>2. \A c \in Of(<<ListPlans(offset)>>) : MayBe(c, page)
    BY <1>1, <2>1 DEF MayBe, LiveOn
  <2>3. ListPlans(offset) \in Of(calls')
    BY <1>1, <1>5, <2>1, <2>2, DoneKeeps
  <2>4. QED
    BY <2>1, <2>3 DEF Awaited
<1>6. ASSUME NEW k \in PlanCards, planSubmit(k) \/ deleteAct(k) PROVE MasksInv'
  <2>1. calls' = calls /\ view'.loading = view.loading /\ view'.timers = view.timers
    BY <1>2, <1>6 DEF planSubmit, deleteAct, MyPlansFields
  <2>2. QED
    BY <1>1, <1>2, <1>3, <2>1, MasksOnMyPlans
<1>7. CASE handleClose \/ closeDelete
  <2>1. calls' = calls /\ view'.loading = view.loading /\ view'.timers = view.timers
    BY <1>2, <1>7 DEF handleClose, closeDelete, MyPlansFields
  <2>2. QED
    BY <1>1, <1>2, <1>3, <2>1, MasksOnMyPlans
<1>8. ASSUME NEW delete, planStatus(view.ruleForm, delete) PROVE MasksInv'
  <2>1. view'.timers = view.timers
    BY <1>2, <1>8 DEF planStatus, MyPlansFields
  <2>2. "UpdatePlan" \in Awaited'
    BY <1>4, <1>8 DEF planStatus, UserSends
  <2>3. QED
    BY <1>1, <1>2, <2>1, <2>2, MasksOnMyPlans
<1>9. ASSUME NEW val, handleCurrentChange(val) PROVE MasksInv'
  <2>1. view'.timers = view.timers
    BY <1>2, <1>9 DEF handleCurrentChange, Loading, MyPlansFields
  <2>2. "ListPlans" \in Awaited'
    BY <1>4, <1>9 DEF handleCurrentChange, UserSends, ListPlans
  <2>3. QED
    BY <1>1, <1>2, <2>1, <2>2, MasksOnMyPlans
<1>10. CASE PlansTimer
  <2>1. view.timers > 0 /\ view' = [view EXCEPT !.timers = @ - 1, !.loading = FALSE]
    BY <1>10 DEF PlansTimer
  <2>2. ~view'.loading /\ view'.timers = view.timers - 1
    BY <1>2, <2>1 DEF MyPlansFields
  <2>3. \A x \in Nat : x > 0 => x - 1 \in Nat
    OBVIOUS
  <2>4. QED
    BY <1>1, <1>2, <2>1, <2>2, <2>3, MasksOnMyPlans
<1>11. ASSUME NEW i \in DOMAIN calls, PlansListed(i) PROVE MasksInv'
  <2> DEFINE answer == Answer(i)
             shown == [view EXCEPT !.total = answer.total, !.plan_list = answer.list,
                                   !.timers = @ + 1, !.behind = @ \/ Earlier(i) # {}]
  <2>1. view' = shown \/ \E last : view' = Loading(shown, last)
    BY <1>11 DEF PlansListed
  <2>2. DOMAIN shown = MyPlansFields /\ shown.timers = view.timers + 1
    BY <1>2 DEF MyPlansFields
  <2> HIDE DEF shown
  <2>3. view'.timers = view.timers + 1
    BY <2>1, <2>2 DEF Loading, MyPlansFields
  <2>4. \A x \in Nat : x + 1 \in Nat /\ x + 1 > 0
    OBVIOUS
  <2>5. QED
    BY <1>1, <1>2, <2>3, <2>4, MasksOnMyPlans
<1>12. ASSUME NEW i \in DOMAIN calls, PlanUpdated(i) PROVE MasksInv'
  <2>1. view'.timers = view.timers
    BY <1>2, <1>12 DEF PlanUpdated, Loading, MyPlansFields
  <2>2. "ListPlans" \in Awaited'
    BY <1>5, <1>12 DEF PlanUpdated
  <2>3. QED
    BY <1>1, <1>2, <2>1, <2>2, MasksOnMyPlans
<1>13. ASSUME NEW i \in DOMAIN calls, PlansFailed(i) PROVE MasksInv'
  <2>1. view'.timers = view.timers /\ ~view'.loading
    BY <1>2, <1>13 DEF PlansFailed, MyPlansFields
  <2>2. QED
    BY <1>1, <1>2, <2>1, MasksOnMyPlans
<1>14. QED
  BY <1>6, <1>7, <1>8, <1>9, <1>10, <1>11, <1>12, <1>13
     DEF MyPlansUser, MyPlansHandler, PlanPager, PlanDialogs

LEMMA MasksBackupPlans ==
  ASSUME CallsOK, PlansInv, MasksInv, BackupPlansUser \/ BackupPlansHandler
  PROVE  MasksInv'
<1>1. page = "backupPlans" /\ page' = page
  BY DEF BackupPlansUser, BackupPlansHandler, onBackupPlans
<1>2. DOMAIN view = BackupPlansFields
  BY <1>1 DEF PlansInv, PlansFields
<1>3. SUFFICES ASSUME view'.loading PROVE "AddPlan" \in Awaited'
  BY <1>1 DEF MasksInv, MasksOn
<1>4. view.loading => "AddPlan" \in Awaited
  BY <1>1 DEF MasksInv, MasksOn
<1>5. calls' = calls => Awaited' = Awaited
  BY DEF Awaited
<1>6. CASE BackupPlansUser
  <2>1. calls' = calls /\ view'.loading = view.loading
    BY <1>2, <1>6 DEF BackupPlansUser, TypeDuration, submitForm, confirmPlan, closeCreated,
                      BackupPlansFields
  <2>2. QED
    BY <1>3, <1>4, <1>5, <2>1
<1>7. CASE Validated
  <2> DEFINE rest == [view EXCEPT !.checking = Tail(@)]
  <2>1. rest.loading = view.loading
    BY <1>2 DEF BackupPlansFields
  <2>2. \/ view' = rest /\ calls' = calls
        \/ \E arg : calls' = Append(calls, Call("AddPlan", arg))
    BY <1>7 DEF Validated
  <2> HIDE DEF rest
  <2>3. ASSUME NEW arg, calls' = Append(calls, Call("AddPlan", arg)) PROVE "AddPlan" \in Awaited'
    <3>1. calls' = calls \o <<Call("AddPlan", arg)>>
      BY <2>3, Appended DEF CallsOK
    <3>2. QED
      BY <3>1, AwaitsSent
  <2>4. QED
    BY <1>3, <1>4, <1>5, <2>1, <2>2, <2>3
<1>8. ASSUME NEW i \in DOMAIN calls, PlanAdded(i) \/ AddFailed(i) PROVE FALSE
  BY <1>2, <1>3, <1>8 DEF PlanAdded, AddFailed, BackupPlansFields
<1>9. QED
  BY <1>6, <1>7, <1>8 DEF BackupPlansHandler

LEMMA MasksPlansServed ==
  ASSUME CallsOK, PlansInv, MasksInv, PlansServer
  PROVE  MasksInv'
<1>1. PICK i \in DOMAIN calls : \/ PsqlBackupVolumeGetPlans(i)
                              \/ PsqlBackupVolumeAddPlan(i)
                              \/ PsqlBackupVolumeUpdatePlan(i)
  BY DEF PlansServer
<1>2. page' = page /\ (view' = view \/ (page = "myPlans" /\ view' = [view EXCEPT !.behind = TRUE]))
      /\ \E data : Reply(i, data) \/ (~calls[i].live /\ Done(i, <<>>))
  BY <1>1 DEF PsqlBackupVolumeGetPlans, PsqlBackupVolumeAddPlan, PsqlBackupVolumeUpdatePlan,
              Unseen, ReplyIfLive
<1>3. Awaited \subseteq Awaited'
  BY <1>2, AwaitsReply, AwaitsDone
<1>4. CASE page = "myPlans" /\ view' = [view EXCEPT !.behind = TRUE]
  <2>1. DOMAIN view = MyPlansFields
    BY <1>4 DEF PlansInv, PlansFields
  <2>2. view'.loading = view.loading /\ view'.timers = view.timers
    BY <1>4, <2>1 DEF MyPlansFields
  <2>3. view.timers \in Nat
    BY <1>4 DEF MasksInv, MasksOn
  <2>4. QED
    BY <1>2, <1>3, <1>4, <2>2, <2>3, MasksOnMyPlans
<1>5. QED
  BY <1>2, <1>3, <1>4, MasksStay

LEMMA MasksPlans ==
  ASSUME CallsOK, PlansInv, MasksInv, PlansNext
  PROVE  MasksInv'
<1>1. ASSUME NEW i, Dropped(i) PROVE MasksInv'
  BY <1>1, AwaitsDone, MasksStay DEF Dropped
<1>2. QED
  BY <1>1, MasksMyPlans, MasksBackupPlans, MasksPlansServed DEF PlansNext

\* On the pages of jobs.
LEMMA MasksOnJobs ==
  ASSUME MasksInv, onJobs, page' = page,
         view'.loading =>
            \/ "AddRebuild" \in Awaited' \/ "ListBackups" \in Awaited'
            \/ view'.timers["ListBackups"] > 0
            \/ page = "details" /\ ("ListRebuilds" \in Awaited' \/ view'.timers["ListRebuilds"] > 0)
            \/ /\ view.loading
               /\ view'.timers = view.timers /\ Awaited \subseteq Awaited',
         view'.loading_rebuild /\ page = "myJobs" =>
            \/ "ListRebuilds" \in Awaited' \/ view'.timers["ListRebuilds"] > 0
            \/ /\ view.loading_rebuild
               /\ view'.timers["ListRebuilds"] = view.timers["ListRebuilds"]
               /\ "ListRebuilds" \in Awaited => "ListRebuilds" \in Awaited'
  PROVE  MasksInv'
<1>1. page \in {"myJobs", "details"}
  BY DEF onJobs
<1>2. QED
  BY <1>1 DEF MasksInv, MasksOn

LEMMA MasksJobsUsed ==
  ASSUME CallsOK, JobsInv, MasksInv, JobsUser \/ DetailsUser
  PROVE  MasksInv'
<1>1. onJobs /\ page' = page
  BY DEF JobsUser, DetailsUser, onJobs, onDetails, productName, Details_RebuildButton,
         Details_detailFun, Details_closeDis, Details_closeAsk, Details_confirm,
         Details_closeResult, Details_backupPager, Details_rebuildPager
<1>2. \/ handleClick \/ RebuildButton \/ closeAsk \/ closeResult \/ closeDis
      \/ BackupPager \/ RebuildPager \/ (\E op \in ListOps : productName(op))
      \/ confirm
  BY DEF JobsUser, DetailsUser, Details_RebuildButton, Details_detailFun, RebuildButton,
         Details_closeDis, Details_closeAsk, Details_confirm, Details_closeResult,
         Details_backupPager, Details_rebuildPager, Details_rebuildChange, RebuildPager
<1>3. DOMAIN view = JobsFields
  BY <1>1 DEF JobsInv, JobsShown, JobsViewOK
<1>4. CASE handleClick \/ RebuildButton \/ closeAsk \/ closeResult \/ closeDis
  <2>1. /\ view'.loading = view.loading /\ view'.loading_rebuild = view.loading_rebuild
        /\ view'.timers = view.timers /\ calls' = calls
    BY <1>3, <1>4 DEF handleClick, RebuildButton, RowButton, detailFun, closeAsk, closeResult,
                      closeDis, JobsFields
  <2>2. Awaited' = Awaited
    BY <2>1 DEF Awaited
  <2>3. QED
    BY <1>1, <2>1, <2>2, MasksOnJobs
<1>5. CASE confirm
  <2>1. view'.loading_rebuild = view.loading_rebuild /\ view'.timers = view.timers
    BY <1>3, <1>5 DEF confirm, JobsFields
  <2>2. "AddRebuild" \in Awaited' /\ Awaited \subseteq Awaited'
    BY <1>5, AwaitsSent DEF confirm, UserSends
  <2>3. QED
    BY <1>1, <2>1, <2>2, MasksOnJobs
<1>6. ASSUME NEW op \in ListOps, NEW offset, NEW u, u = view \/ u = [view EXCEPT !.activeName = op],
             view' = getData(u, op, offset), calls' = calls \o <<ListCall(op, offset)>>
      PROVE  MasksInv'
  <2>1. op \in Awaited' /\ Awaited \subseteq Awaited'
    BY <1>6, AwaitsSent DEF ListCall
  <2>2. PagerOf(op) \in {"parma", "parmaRebuild"}
    BY DEF PagerOf
  <2>3. /\ view'.timers = view.timers
        /\ MaskOf(op) # "loading" => view'.loading = view.loading
        /\ MaskOf(op) # "loading_rebuild" => view'.loading_rebuild = view.loading_rebuild
    <3> DEFINE mask == MaskOf(op)
               pager == PagerOf(op)
    <3>1. /\ DOMAIN u = JobsFields /\ u.timers = view.timers
          /\ u.loading = view.loading /\ u.loading_rebuild = view.loading_rebuild
      BY <1>3, <1>6 DEF JobsFields
    <3>2. view' = [u EXCEPT ![mask] = TRUE, ![pager].offset = offset, !.behind = @ \ {op}]
      BY <1>6 DEF getData
    <3>3. mask \in {"loading", "loading_rebuild"}
      BY DEF MaskOf
    <3> HIDE DEF mask, pager
    <3>4. /\ view'.timers = u.timers
          /\ mask # "loading" => view'.loading = u.loading
          /\ mask # "loading_rebuild" => view'.loading_rebuild = u.loading_rebuild
      BY <2>2, <3>1, <3>2, <3>3 DEF JobsFields, pager
    <3>5. QED
      BY <3>1, <3>4 DEF mask
  <2>4. \/ op = "ListBackups" /\ MaskOf(op) = "loading"
        \/ op = "ListRebuilds" /\ MaskOf(op) = "loading" /\ page = "details"
        \/ op = "ListRebuilds" /\ MaskOf(op) = "loading_rebuild"
    BY DEF MaskOf, ListOps
  <2>5. QED
    BY <1>1, <2>1, <2>3, <2>4, MasksOnJobs
<1>7. ASSUME NEW op \in ListOps, NEW val, changePage(op, val) PROVE MasksInv'
  BY <1>6, <1>7 DEF changePage, UserSends
<1>8. ASSUME NEW op \in ListOps, productName(op) PROVE MasksInv'
  BY <1>6, <1>8 DEF productName, UserSends
<1>9. QED
  BY <1>2, <1>4, <1>5, <1>7, <1>8 DEF BackupPager, RebuildPager, backupChange, rebuildChange, ListOps

LEMMA MasksJobsHandled ==
  ASSUME CallsOK, JobsInv, MasksInv, JobsHandler \/ DetailsHandler
  PROVE  MasksInv'
<1>1. onJobs /\ page' = page
  BY DEF JobsHandler, DetailsHandler, onJobs, onDetails, Details_timer,
         Details_backupsListed, Details_rebuildsListed, Details_RebuildAdded, Details_failed
<1>2. \/ \E op \in ListOps : JobsTimer(op)
      \/ \E i \in DOMAIN calls : \/ JobsListed(i, "ListBackups") \/ JobsListed(i, "ListRebuilds")
                                 \/ RebuildAdded(i) \/ JobsFailed(i)
  BY DEF JobsHandler, DetailsHandler, Details_timer, Details_backupsListed,
         Details_rebuildsListed, Details_RebuildAdded, Details_failed, BackupsListed,
         RebuildsListed
<1>3. DOMAIN view = JobsFields /\ DOMAIN view.timers = ListOps
      /\ \A op \in ListOps : view.timers[op] \in Nat
  BY <1>1 DEF JobsInv, JobsShown, JobsViewOK
<1>4. ASSUME NEW op \in ListOps
      PROVE  \/ op = "ListBackups" /\ MaskOf(op) = "loading"
             \/ op = "ListRebuilds" /\ MaskOf(op) = "loading" /\ page = "details"
             \/ op = "ListRebuilds" /\ MaskOf(op) = "loading_rebuild" /\ page = "myJobs"
  BY <1>1 DEF MaskOf, ListOps, onJobs
<1>5. "ListBackups" \in ListOps /\ "ListRebuilds" \in ListOps /\ "AddRebuild" \in Writes
  BY DEF ListOps, Writes
<1>6. ASSUME NEW op \in ListOps, JobsTimer(op) PROVE MasksInv'
  <2>1. calls' = calls /\ view' = [view EXCEPT ![MaskOf(op)] = FALSE, !.timers[op] = @ - 1]
    BY <1>6 DEF JobsTimer
  <2>2. /\ view'[MaskOf(op)] = FALSE
        /\ MaskOf(op) # "loading" => view'.loading = view.loading
        /\ MaskOf(op) # "loading_rebuild" => view'.loading_rebuild = view.loading_rebuild
        /\ view'.timers = [view.timers EXCEPT ![op] = @ - 1]
    BY <1>3, <1>4, <2>1 DEF JobsFields
  <2>3. \A o \in ListOps : o # op => view'.timers[o] = view.timers[o]
    BY <1>3, <2>2
  <2>4. Awaited' = Awaited
    BY <2>1 DEF Awaited
  <2>5. CASE op = "ListBackups"
    BY <1>1, <1>4, <1>5, <2>2, <2>3, <2>4, <2>5, MasksOnJobs
  <2>6. CASE op = "ListRebuilds" /\ page = "details"
    BY <1>1, <1>4, <1>5, <2>2, <2>3, <2>4, <2>6, MasksOnJobs
  <2>7. CASE op = "ListRebuilds" /\ page = "myJobs"
    <3>1. ~view'.loading_rebuild /\ view'.loading = view.loading
          /\ view'.timers["ListBackups"] = view.timers["ListBackups"]
      BY <1>4, <1>5, <2>2, <2>3, <2>7
    <3>2. QED
      BY <1>1, <2>4, <2>7, <3>1 DEF MasksInv, MasksOn
  <2>8. QED
    BY <1>4, <2>5, <2>6, <2>7
<1>7. ASSUME NEW i \in DOMAIN calls, NEW op \in ListOps, JobsListed(i, op) PROVE MasksInv'
  <2>1. calls[i].op = op /\ Done(i, <<>>)
        /\ view' = [view EXCEPT ![TableOf(op)] = Answer(i).list,
                                ![PagerOf(op)].total = Answer(i).total,
                                !.timers[op] = @ + 1,
                                !.behind = IF Earlier(i) # {} THEN @ \cup {op} ELSE @]
    BY <1>7 DEF JobsListed, IsAnswered
  <2>2. PagerOf(op) \in {"parma", "parmaRebuild"} /\ TableOf(op) \in {"tableData", "tableData_2"}
    BY DEF PagerOf, TableOf
  <2>3. /\ view'.loading = view.loading /\ view'.loading_rebuild = view.loading_rebuild
        /\ view'.timers = [view.timers EXCEPT ![op] = @ + 1]
    BY <1>3, <2>1, <2>2 DEF JobsFields
  <2>4. \A o \in ListOps : o # op => view'.timers[o] = view.timers[o]
    BY <1>3, <2>3
  <2>5. view'.timers[op] > 0
    <3>1. \A x \in Nat : x + 1 > 0
      OBVIOUS
    <3>2. QED
      BY <1>3, <2>3, <3>1
  <2>6. Awaited \subseteq Awaited' \cup {op}
    BY <1>1, <2>1, AwaitsDone
  <2>7. CASE op = "ListBackups"
    BY <1>1, <1>5, <2>3, <2>4, <2>5, <2>6, <2>7, MasksOnJobs
  <2>8. CASE op = "ListRebuilds" /\ page = "details"
    BY <1>1, <2>5, <2>8, MasksOnJobs DEF onJobs
  <2>9. CASE op = "ListRebuilds" /\ page = "myJobs"
    BY <1>5, <1>1, <2>3, <2>4, <2>5, <2>6, <2>9 DEF MasksInv, MasksOn
  <2>10. QED
    BY <1>1, <2>7, <2>8, <2>9 DEF ListOps, onJobs
<1>8. ASSUME NEW i \in DOMAIN calls, RebuildAdded(i) PROVE MasksInv'
  <2>1. calls[i].op = "AddRebuild" /\ Done(i, <<>>)
    BY <1>8 DEF RebuildAdded, IsAnswered
  <2>2. ~view'.loading /\ view'.loading_rebuild = view.loading_rebuild
        /\ view'.timers = view.timers
    BY <1>3, <1>8 DEF RebuildAdded, JobsFields
  <2>3. Awaited \subseteq Awaited' \cup {"AddRebuild"}
    BY <1>1, <2>1, AwaitsDone
  <2>4. QED
    BY <1>1, <2>2, <2>3, MasksOnJobs
<1>9. ASSUME NEW i \in DOMAIN calls, JobsFailed(i) PROVE MasksInv'
  <2> DEFINE op == calls[i].op
  <2>1. \/ op = "AddRebuild" /\ view' = [view EXCEPT !.loading = FALSE] /\ GivenUp(i)
        \/ /\ op \in ListOps /\ Done(i, <<>>)
           /\ view' = [view EXCEPT ![MaskOf(op)] = FALSE, !.behind = @ \cup {op}]
    BY <1>9 DEF JobsFailed, Outstanding
  <2>2. Awaited \subseteq Awaited' \cup {op}
    BY <1>1, <1>5, <2>1, AwaitsDone, AwaitsGivenUp
  <2> HIDE DEF op
  <2>3. CASE op = "AddRebuild" /\ view' = [view EXCEPT !.loading = FALSE]
    <3>1. ~view'.loading /\ view'.loading_rebuild = view.loading_rebuild
          /\ view'.timers = view.timers
      BY <1>3, <2>3 DEF JobsFields
    <3>2. QED
      BY <1>1, <2>2, <2>3, <3>1, MasksOnJobs
  <2>4. CASE op \in ListOps /\ view' = [view EXCEPT ![MaskOf(op)] = FALSE, !.behind = @ \cup {op}]
    <3>1. MaskOf(op) \in {"loading", "loading_rebuild"}
      BY DEF MaskOf
    <3>2. /\ view'[MaskOf(op)] = FALSE
          /\ MaskOf(op) # "loading" => view'.loading = view.loading
          /\ MaskOf(op) # "loading_rebuild" => view'.loading_rebuild = view.loading_rebuild
          /\ view'.timers = view.timers
      BY <1>3, <2>4, <3>1 DEF JobsFields
    <3>3. CASE op = "ListBackups"
      BY <1>1, <1>4, <1>5, <2>2, <3>2, <3>3, MasksOnJobs
    <3>4. CASE op = "ListRebuilds" /\ page = "details"
      BY <1>1, <1>4, <1>5, <2>2, <3>2, <3>4, MasksOnJobs
    <3>5. CASE op = "ListRebuilds" /\ page = "myJobs"
      BY <1>1, <1>4, <1>5, <2>2, <3>2, <3>5 DEF MasksInv, MasksOn
    <3>6. QED
      BY <1>1, <2>4, <3>3, <3>4, <3>5 DEF ListOps, onJobs
  <2>5. QED
    BY <2>1, <2>3, <2>4
<1>10. QED
  BY <1>2, <1>5, <1>6, <1>7, <1>8, <1>9

LEMMA MasksJobs ==
  ASSUME CallsOK, JobsInv, MasksInv, JobsStep
  PROVE  MasksInv'
<1>1. CASE JobsServer
  <2>1. PICK i \in DOMAIN calls : \/ PsqlBackupVolumeGetJobs(i)
                                \/ PsqlRebuildGetJobs(i)
                                \/ PsqlRebuildAddJob(i)
    BY <1>1 DEF JobsServer
  <2>2. page' = page /\ view' = view
        /\ \E data : Reply(i, data) \/ (~calls[i].live /\ Done(i, <<>>))
    BY <1>1, <2>1 DEF JobsServer, PsqlBackupVolumeGetJobs, PsqlRebuildGetJobs, PsqlRebuildAddJob
  <2>3. QED
    BY <2>2, AwaitsReply, AwaitsDone, MasksStay
<1>2. CASE DashboardNext
  <2>1. PICK i \in DOMAIN calls : \/ PsqlCounts(i) /\ UNCHANGED <<view, Dashboard_keep>>
                                  \/ (Counted(i) \/ CountFailed(i)) /\ UNCHANGED Dashboard_keep
    BY <1>2 DEF DashboardNext
  <2>2. page' = page
    BY <2>1 DEF Dashboard_keep
  <2>3. CASE PsqlCounts(i) /\ view' = view
    <3>1. PICK op \in CountOps : LET jobs == JobsOf(op) IN \E data : Reply(i, data)
      BY <2>3 DEF PsqlCounts
    <3>2. QED
      BY <2>2, <2>3, <3>1, AwaitsReply, MasksStay
  <2>4. CASE Counted(i)
    BY <2>2, <2>4 DEF Counted, MasksInv, MasksOn
  <2>5. CASE CountFailed(i)
    <3>1. view' = view /\ Done(i, <<>>) /\ calls[i].op \in CountOps
      BY <2>5 DEF CountFailed, Outstanding, CountOps
    <3>2. Awaited \subseteq Awaited' \cup CountOps
      BY <2>2, <3>1, AwaitsDone
    <3>3. QED
      BY <2>2, <3>1, <3>2 DEF MasksInv, MasksOn, CountOps
  <2>6. QED
    BY <2>1, <2>3, <2>4, <2>5 DEF Dashboard_keep
<1>3. ASSUME NEW b, BackupCompleted(b) \/ RebuildCompleted(b) PROVE MasksInv'
  BY <1>3, MasksStay DEF BackupCompleted, RebuildCompleted, Awaited
<1>4. QED
  BY <1>1, <1>2, <1>3, MasksJobsUsed, MasksJobsHandled DEF JobsStep, JobsNext, DetailsNext

LEMMA MasksStart ==
  ASSUME Init
  PROVE  MasksInv
<1>1. /\ page = "login" => view = LoginView
      /\ page = "backupPlans" => view = BackupPlansView
      /\ page = "myPlans" => /\ view = MyPlansView
                             /\ calls \in {<<ListPlans(1)>>, <<JustAsked, ListPlans(1)>>}
      /\ page = "myJobs" => calls = MyJobsCalls
      /\ page # "details"
  BY DEF Init, SessionStart, StartAt
<1>2. \A c \in Of(calls) : c.live => c.op \in Awaited
  BY DEF Awaited
<1>3. page = "myPlans" => "ListPlans" \in Awaited
  <2>1. ListPlans(1).op = "ListPlans" /\ ListPlans(1).live
    BY NewCall DEF ListPlans
  <2>2. page = "myPlans" => ListPlans(1) \in Of(calls)
    BY <1>1, Single, Pair
  <2>3. QED
    BY <1>2, <2>1, <2>2
<1>4. page = "myJobs" => "ListBackups" \in Awaited /\ "ListRebuilds" \in Awaited
  <2>1. \A op : ListCall(op, 1).op = op /\ ListCall(op, 1).live
    BY NewCall DEF ListCall
  <2>2. page = "myJobs" => \A op \in {"ListBackups", "ListRebuilds"} : ListCall(op, 1) \in Of(calls)
    BY <1>1, Pair DEF MyJobsCalls
  <2>3. QED
    BY <1>2, <2>1, <2>2
<1>5. page = "myPlans" => view.timers = 0
  BY <1>1 DEF MyPlansView
<1>6. (page = "login" => ~view.loginLoad) /\ (page = "backupPlans" => ~view.loading)
  BY <1>1 DEF LoginView, BackupPlansView
<1>7. QED
  BY <1>1, <1>3, <1>4, <1>5, <1>6 DEF MasksInv, MasksOn

----------------------------------------------------------------------------
(* Prices.                                                                 *)

LEMMA LeastOf ==
  ASSUME NEW S, S \subseteq Nat, S # {}
  PROVE  Min(S) \in S /\ \A y \in S : Min(S) <= y
<1>1. \E x \in S : \A y \in S : x <= y
  BY Least
<1>2. QED
  BY <1>1 DEF Min

LEMMA GreatestOf ==
  ASSUME NEW n \in Nat, NEW S, S \subseteq 0..n, S # {}
  PROVE  Max(S) \in S /\ \A y \in S : y <= Max(S)
<1> DEFINE T == {n - x : x \in S}
<1>1. T \subseteq Nat /\ T # {}
  <2>1. \A x \in 0..n : n - x \in Nat
    OBVIOUS
  <2>2. T \subseteq Nat
    BY <2>1
  <2>3. PICK x \in S : TRUE
    OBVIOUS
  <2>4. n - x \in T
    BY <2>3
  <2>5. QED
    BY <2>2, <2>4
<1>2. \E x \in T : \A y \in T : x <= y
  <2> HIDE DEF T
  <2>1. QED
    BY <1>1, Least
<1>3. PICK x \in S : \A y \in S : n - x <= n - y
  BY <1>2
<1>4. \A y \in S : x >= y
  <2>1. x \in 0..n
    OBVIOUS
  <2>2. ASSUME NEW y \in S PROVE x >= y
    <3>1. y \in 0..n /\ n - x <= n - y
      BY <1>3
    <3>2. QED
      BY <2>1, <3>1
  <2>3. QED
    BY <2>2
<1>5. Max(S) \in S /\ \A y \in S : Max(S) >= y
  BY <1>4 DEF Max
<1>6. ASSUME NEW y \in S PROVE y <= Max(S)
  <2>1. y \in 0..n /\ Max(S) \in 0..n /\ Max(S) >= y
    BY <1>5
  <2>2. QED
    BY <2>1
<1>7. QED
  BY <1>5, <1>6

LEMMA Slice ==
  ASSUME NEW S, NEW s \in Seq(S), NEW m \in Nat \ {0}, NEW n \in Nat, m <= n + 1, n <= Len(s)
  PROVE  /\ SubSeq(s, m, n) \in Seq(S)
         /\ Len(SubSeq(s, m, n)) = n - m + 1
         /\ \A k \in 1..(n - m + 1) : SubSeq(s, m, n)[k] = s[m + k - 1]
<1>1. \A i \in m..n : s[i] \in S
  BY LenProperties, ElementOfSeq
<1>2. m \in Int /\ n \in Int
  OBVIOUS
<1>3. /\ SubSeq(s, m, n) \in Seq(S)
      /\ Len(SubSeq(s, m, n)) = IF m <= n THEN n - m + 1 ELSE 0
      /\ \A i \in 1..n - m + 1 : SubSeq(s, m, n)[i] = s[m + i - 1]
  BY <1>1, <1>2, SubSeqProperties
<1>4. (IF m <= n THEN n - m + 1 ELSE 0) = n - m + 1
  OBVIOUS
<1>5. QED
  BY <1>3, <1>4

Zeros(n) == [k \in 1..n |-> 0]

LEMMA ZerosAre ==
  ASSUME NEW n \in Nat
  PROVE  /\ Zeros(n) \in Seq(0..9) /\ Len(Zeros(n)) = n
         /\ \A k \in 1..n : Zeros(n)[k] = 0
<1>1. Zeros(n) \in [1..n -> 0..9]
  BY DEF Zeros
<1>2. Zeros(n) \in Seq(0..9)
  BY <1>1, SeqDef
<1>3. Len(Zeros(n)) = n
  <2> DEFINE l == Len(Zeros(n))
  <2>1. l \in Nat /\ 1..l = 1..n
    BY <1>1, <1>2, LenProperties
  <2> HIDE DEF l
  <2>2. l = n
    BY <2>1
  <2>3. QED
    BY <2>2 DEF l
<1>4. QED
  BY <1>2, <1>3 DEF Zeros

LEMMA Trimmed ==
  ASSUME NEW s \in Seq(0..9)
  PROVE  LET t == TrimZeros(s) IN
           /\ t \in Seq(0..9) /\ Len(t) \in Nat /\ Len(t) <= Len(s)
           /\ \A k \in 1..Len(t) : t[k] = s[k]
           /\ \A k \in 1..Len(s) : k > Len(t) => s[k] = 0
<1> DEFINE n == Len(s)
           K == {0} \cup {k \in DOMAIN s : s[k] # 0}
           m == Max(K)
           t == TrimZeros(s)
<1>1. n \in Nat /\ DOMAIN s = 1..n
  BY LenProperties
<1> HIDE DEF n
<1>2. K \subseteq 0..n /\ K # {}
  BY <1>1
<1>3. m \in K /\ \A y \in K : y <= m
  <2> HIDE DEF K
  <2>1. QED
    BY <1>1, <1>2, GreatestOf
<1>4. t = SubSeq(s, 1, m)
  BY DEF TrimZeros
<1>5. m \in Nat /\ m <= n
  <2>1. m \in 0..n
    BY <1>2, <1>3
  <2>2. QED
    BY <1>1, <2>1
<1>6. \A k \in 1..n : k > m => s[k] = 0
  BY <1>1, <1>3, <1>5
<1> HIDE DEF m, t
<1>7. /\ t \in Seq(0..9) /\ Len(t) = m - 1 + 1
      /\ \A k \in 1..(m - 1 + 1) : t[k] = s[1 + k - 1]
  BY <1>4, <1>5, Slice DEF n
<1>8. m - 1 + 1 = m /\ \A k \in 1..m : 1 + k - 1 = k
  BY <1>5
<1>9. t \in Seq(0..9) /\ Len(t) = m /\ \A k \in 1..m : t[k] = s[k]
  BY <1>7, <1>8
<1>10. QED
  BY <1>5, <1>6, <1>9 DEF n, t

\* What the filter leaves away is put back.
LEMMA Padded ==
  ASSUME NEW s \in Seq(0..9)
  PROVE  TrimZeros(s) \o Zeros(Len(s) - Len(TrimZeros(s))) = s
<1> DEFINE t == TrimZeros(s)
           n == Len(s)
           m == Len(t)
           z == Zeros(n - m)
           u == t \o z
<1>1. /\ t \in Seq(0..9) /\ m \in Nat /\ m <= n
      /\ \A k \in 1..m : t[k] = s[k]
      /\ \A k \in 1..n : k > m => s[k] = 0
  BY Trimmed
<1>2. n \in Nat
  BY LenProperties
<1> HIDE DEF n, m, t
<1>3. n - m \in Nat
  BY <1>1, <1>2
<1>4. z \in Seq(0..9) /\ Len(z) = n - m /\ \A k \in 1..(n - m) : z[k] = 0
  BY <1>3, ZerosAre
<1> HIDE DEF z
<1>5. /\ u \in Seq(0..9) /\ Len(u) = m + (n - m)
      /\ \A k \in 1..(m + (n - m)) : u[k] = IF k <= m THEN t[k] ELSE z[k - m]
  BY <1>1, <1>4, ConcatProperties DEF m
<1>6. m + (n - m) = n
  BY <1>1, <1>2
<1> HIDE DEF u
<1>7. ASSUME NEW k \in 1..n PROVE u[k] = s[k]
  <2>1. CASE k <= m
    <3>1. k \in 1..m
      BY <1>1, <1>2, <2>1
    <3>2. QED
      BY <1>1, <1>5, <1>6, <2>1, <3>1
  <2>2. CASE ~(k <= m)
    <3>1. k > m /\ k - m \in 1..(n - m)
      BY <1>1, <1>2, <2>2
    <3>2. QED
      BY <1>1, <1>4, <1>5, <1>6, <2>2, <3>1
  <2>3. QED
    BY <2>1, <2>2
<1>8. u = s
  <2>1. Len(u) = Len(s)
    BY <1>5, <1>6 DEF n
  <2>2. \A k \in 1..Len(u) : u[k] = s[k]
    BY <1>5, <1>6, <1>7
  <2>3. QED
    BY <1>5, <2>1, <2>2, SeqEqual
<1>9. QED
  BY <1>8 DEF u, z, t, n, m

\* The zeros before a number do not count.
LEMMA Values ==
  ASSUME NEW s \in Seq(0..9), NEW d \in 1..Len(s), s[d] # 0 \/ d = Len(s),
         \A k \in 1..(d - 1) : s[k] = 0
  PROVE  Value(s) = SubSeq(s, d, Len(s))
<1> DEFINE n == Len(s)
           K == {n} \cup {k \in DOMAIN s : s[k] # 0}
<1>1. n \in Nat /\ DOMAIN s = 1..n /\ d \in 1..n
  BY LenProperties
<1>2. d = n \/ s[d] # 0
  OBVIOUS
<1> HIDE DEF n
<1>3. d \in K /\ K \subseteq Nat
  BY <1>1, <1>2
<1>4. \A k \in K : d <= k
  <2>1. ASSUME NEW k \in 1..n, k < d PROVE k \in 1..(d - 1)
    BY <1>1, <2>1
  <2>2. ASSUME NEW k \in K, k < d PROVE FALSE
    <3>1. k \in 1..n /\ (s[k] # 0 \/ k = n)
      BY <1>1, <2>2
    <3>2. k # n
      BY <1>1, <2>2
    <3>3. QED
      BY <2>1, <2>2, <3>1, <3>2
  <2>3. QED
    BY <1>1, <1>3, <2>2
<1>5. Min(K) = d
  <2>1. Min(K) \in K /\ \A y \in K : Min(K) <= y
    <3> HIDE DEF K
    <3>1. QED
      BY <1>3, LeastOf
  <2>2. Min(K) \in Nat /\ Min(K) <= d /\ d <= Min(K)
    BY <1>3, <1>4, <2>1
  <2> HIDE DEF K
  <2>3. QED
    BY <1>1, <2>2
<1>6. Value(s) = SubSeq(s, Min(K), n)
  BY DEF Value, n
<1>7. QED
  BY <1>5, <1>6 DEF n

LEMMA ValueWhole ==
  ASSUME NEW s \in Seq(0..9), s # <<>>, Len(s) > 1 => s[1] # 0
  PROVE  Value(s) = s
<1>1. Len(s) \in Nat /\ Len(s) # 0
  BY LenProperties, EmptySeq
<1> DEFINE n == Len(s)
<1>2. 1 \in 1..n /\ (s[1] # 0 \/ 1 = n)
  <2>1. n \in Nat /\ n # 0 /\ (n > 1 => s[1] # 0)
    BY <1>1
  <2> HIDE DEF n
  <2>2. QED
    BY <2>1
<1>3. \A k \in 1..(1 - 1) : s[k] = 0
  OBVIOUS
<1>4. Value(s) = SubSeq(s, 1, Len(s))
  BY <1>2, <1>3, Values
<1>5. QED
  BY <1>4, SubSeqFull

WithPoint(a, f) == (a \o <<Dot>>) \o f
Before(s, p) == SubSeq(s, 1, p - 1)
After(s, p) == SubSeq(s, p + 1, Len(s))
PointOf(s) == Min({Len(s) + 1} \cup {k \in DOMAIN s : s[k] = Dot})

\* Where the point is, and what is around it.
LEMMA Pointed ==
  ASSUME NEW a \in Seq(0..9), NEW f \in Seq(0..9), NEW s, s = WithPoint(a, f)
  PROVE  /\ s \in Seq(Nat) /\ Len(s) = Len(a) + 1 + Len(f)
         /\ PointOf(s) = Len(a) + 1
         /\ Before(s, Len(a) + 1) = a /\ After(s, Len(a) + 1) = f
<1> DEFINE n == Len(a)
           m == Len(f)
           d == <<Dot>>
           b == a \o d
           K == {Len(s) + 1} \cup {k \in DOMAIN s : s[k] = Dot}
<1>1. n \in Nat /\ m \in Nat
  BY LenProperties
<1>2. a \in Seq(Nat) /\ f \in Seq(Nat) /\ d \in Seq(Nat) /\ Len(d) = 1 /\ d[1] = Dot
  <2>1. 0..9 \subseteq Nat
    OBVIOUS
  <2>2. Dot \in Nat
    BY DEF Dot
  <2>3. a \in Seq(Nat) /\ f \in Seq(Nat)
    <3>1. \A x \in Seq(0..9) : x \in Seq(Nat)
      <4>1. ASSUME NEW x \in Seq(0..9) PROVE x \in Seq(Nat)
        <5>1. x \in [1..Len(x) -> 0..9] /\ Len(x) \in Nat
          BY LenProperties
        <5>2. x \in [1..Len(x) -> Nat]
          BY <2>1, <5>1
        <5>3. QED
          BY <5>1, <5>2, SeqDef
      <4>2. QED
        BY <4>1
    <3>2. QED
      BY <3>1
  <2>4. QED
    BY <2>2, <2>3
<1>3. /\ b \in Seq(Nat) /\ Len(b) = n + 1
      /\ \A k \in 1..(n + 1) : b[k] = IF k <= n THEN a[k] ELSE d[k - n]
  <2>1. /\ b \in Seq(Nat) /\ Len(b) = Len(a) + Len(d)
        /\ \A k \in 1..(Len(a) + Len(d)) : b[k] = IF k <= Len(a) THEN a[k] ELSE d[k - Len(a)]
    <3> HIDE DEF d
    <3>1. QED
      BY <1>2, ConcatProperties
  <2>2. Len(a) + Len(d) = n + 1
    BY <1>2
  <2> HIDE DEF b, d
  <2>3. QED
    BY <2>1, <2>2
<1> HIDE DEF d, K
<1>4. b[n + 1] = Dot /\ \A k \in 1..n : b[k] = a[k]
  <2>1. n + 1 \in 1..(n + 1) /\ ~(n + 1 <= n) /\ n + 1 - n = 1
    BY <1>1
  <2>2. \A k \in 1..n : k \in 1..(n + 1) /\ k <= n
    BY <1>1
  <2> HIDE DEF n, b
  <2>3. \A k \in 1..(n + 1) : ~(k <= n) => b[k] = d[k - n]
    BY <1>3
  <2>4. QED
    <3>1. ASSUME NEW x, x = n + 1 PROVE b[x] = d[1]
      <4>1. x \in 1..(n + 1) /\ ~(x <= n) /\ x - n = 1
        BY <1>1, <3>1
      <4>2. b[x] = d[x - n]
        BY <2>3, <4>1
      <4>3. QED
        BY <4>1, <4>2
    <3>2. QED
      BY <1>2, <1>3, <2>2, <3>1
<1>5. /\ s \in Seq(Nat) /\ Len(s) = n + 1 + m
      /\ \A k \in 1..(n + 1 + m) : s[k] = IF k <= n + 1 THEN b[k] ELSE f[k - (n + 1)]
  <2>1. s = b \o f
    BY DEF d, WithPoint
  <2> HIDE DEF b
  <2>2. /\ s \in Seq(Nat) /\ Len(s) = Len(b) + Len(f)
        /\ \A k \in 1..(Len(b) + Len(f)) : s[k] = IF k <= Len(b) THEN b[k] ELSE f[k - Len(b)]
    <3>1. /\ b \o f \in Seq(Nat) /\ Len(b \o f) = Len(b) + Len(f)
          /\ \A k \in 1..(Len(b) + Len(f)) :
               (b \o f)[k] = IF k <= Len(b) THEN b[k] ELSE f[k - Len(b)]
      <4>1. b \in Seq(Nat) /\ f \in Seq(Nat)
        BY <1>2, <1>3
      <4>2. QED
        BY <4>1, ConcatProperties
    <3>2. QED
      BY <2>1, <3>1
  <2>3. QED
    BY <1>3, <2>2
<1> HIDE DEF n, m, b
<1>6. /\ \A k \in 1..n : s[k] = a[k]
      /\ s[n + 1] = Dot
      /\ \A k \in 1..m : s[n + 1 + k] = f[k]
  <2>1. ASSUME NEW k \in 1..n PROVE s[k] = a[k]
    <3>1. k \in 1..(n + 1 + m) /\ k <= n + 1
      BY <1>1
    <3>2. QED
      BY <1>4, <1>5, <3>1
  <2>2. s[n + 1] = Dot
    <3>1. n + 1 \in 1..(n + 1 + m) /\ n + 1 <= n + 1
      BY <1>1
    <3>2. QED
      BY <1>4, <1>5, <3>1
  <2>3. ASSUME NEW k \in 1..m PROVE s[n + 1 + k] = f[k]
    <3>1. n + 1 + k \in 1..(n + 1 + m) /\ ~(n + 1 + k <= n + 1) /\ n + 1 + k - (n + 1) = k
      BY <1>1
    <3>2. ASSUME NEW x, x = n + 1 + k PROVE s[x] = f[k]
      <4>1. x \in 1..(n + 1 + m) /\ ~(x <= n + 1) /\ x - (n + 1) = k
        BY <1>1, <3>2
      <4>2. s[x] = f[x - (n + 1)]
        BY <1>5, <4>1
      <4>3. QED
        BY <4>1, <4>2
    <3>3. QED
      BY <3>2
  <2>4. QED
    BY <2>1, <2>2, <2>3
<1>7. \A k \in 1..n : s[k] \in 0..9
  BY <1>6, LenProperties, ElementOfSeq DEF n
<1>8. DOMAIN s = 1..(n + 1 + m)
  BY <1>5, LenProperties
<1>9. Min(K) = n + 1
  <2>1. n + 1 \in K
    <3>1. n + 1 \in 1..(n + 1 + m)
      BY <1>1
    <3>2. QED
      BY <1>6, <1>8, <3>1 DEF K
  <2>2. \A k \in K : k \in Nat /\ n + 1 <= k
    <3>1. ASSUME NEW k \in 1..(n + 1 + m), s[k] = Dot PROVE k \in Nat /\ n + 1 <= k
      <4>1. ~(k \in 1..n)
        <5>1. \A x \in 0..9 : x # Dot
          BY DEF Dot
        <5>2. QED
          BY <1>7, <3>1, <5>1
      <4>2. ASSUME NEW x \in 1..(n + 1 + m), ~(x \in 1..n) PROVE x \in Nat /\ n + 1 <= x
        BY <1>1, <4>2
      <4>3. QED
        BY <4>1, <4>2
    <3>2. Len(s) + 1 \in Nat /\ n + 1 <= Len(s) + 1
      BY <1>1, <1>5
    <3>3. QED
      BY <1>8, <3>1, <3>2 DEF K
  <2>3. Min(K) \in K /\ \A y \in K : Min(K) <= y
    BY <2>1, <2>2, LeastOf
  <2>4. Min(K) \in Nat /\ n + 1 <= Min(K) /\ Min(K) <= n + 1
    BY <2>1, <2>2, <2>3
  <2>5. QED
    BY <1>1, <2>4
<1> DEFINE q == n + 1
<1>10. SubSeq(s, 1, q - 1) = a
  <2> DEFINE u == SubSeq(s, 1, n)
  <2>1. q - 1 = n /\ n - 1 + 1 = n /\ 1 <= n + 1 /\ n <= Len(s) /\ 1 \in Nat \ {0}
    BY <1>1, <1>5
  <2>2. /\ u \in Seq(Nat) /\ Len(u) = n - 1 + 1
        /\ \A k \in 1..(n - 1 + 1) : u[k] = s[1 + k - 1]
    BY <1>1, <1>5, <2>1, Slice
  <2>3. \A k \in 1..n : 1 + k - 1 = k
    BY <1>1
  <2> HIDE DEF u
  <2>4. Len(u) = Len(a) /\ \A k \in 1..Len(u) : u[k] = a[k]
    BY <1>6, <2>1, <2>2, <2>3 DEF n
  <2>5. u = a
    BY <1>2, <2>2, <2>4, SeqEqual
  <2>6. QED
    <3> HIDE DEF q
    <3>1. QED
      BY <2>1, <2>5 DEF u
<1>11. SubSeq(s, q + 1, Len(s)) = f
  <2> DEFINE l == Len(s)
             p == n + 2
             u == SubSeq(s, p, l)
  <2>1. /\ p \in Nat \ {0} /\ l \in Nat /\ p <= l + 1 /\ l <= l /\ l - p + 1 = m /\ n + 1 + 1 = p
        /\ l = Len(s)
    BY <1>1, <1>5
  <2>2. \A k \in 1..m : p + k - 1 = n + 1 + k
    BY <1>1
  <2> HIDE DEF p, l
  <2>3. /\ u \in Seq(Nat) /\ Len(u) = l - p + 1
        /\ \A k \in 1..(l - p + 1) : u[k] = s[p + k - 1]
    <3>1. s \in Seq(Nat) /\ l <= Len(s)
      BY <1>5, <2>1
    <3>2. p \in Nat \ {0} /\ l \in Nat /\ p <= l + 1
      BY <2>1
    <3>3. \A x \in Nat \ {0}, y \in Nat : x <= y + 1 /\ y <= Len(s) =>
            /\ SubSeq(s, x, y) \in Seq(Nat)
            /\ Len(SubSeq(s, x, y)) = y - x + 1
            /\ \A k \in 1..(y - x + 1) : SubSeq(s, x, y)[k] = s[x + k - 1]
      BY <3>1, Slice
    <3>4. QED
      BY <3>1, <3>2, <3>3
  <2> HIDE DEF u
  <2>4. Len(u) = Len(f) /\ \A k \in 1..Len(u) : u[k] = f[k]
    <3>1. Len(u) = m
      BY <2>1, <2>3
    <3>2. ASSUME NEW k \in 1..m PROVE u[k] = f[k]
      <4>1. u[k] = s[p + k - 1]
        BY <2>1, <2>3
      <4>2. QED
        BY <1>6, <2>2, <4>1
    <3>3. QED
      BY <3>1, <3>2 DEF m
  <2>5. u = f
    BY <1>2, <2>3, <2>4, SeqEqual
  <2>6. QED
    BY <2>1, <2>5 DEF u
<1> HIDE DEF q
<1>12. Before(s, q) = a /\ After(s, q) = f
  BY <1>10, <1>11 DEF Before, After
<1>13. PointOf(s) = q
  BY <1>9 DEF PointOf, K, q
<1>14. q = Len(a) + 1
  BY DEF q, n
<1>15. QED
  BY <1>5, <1>12, <1>13, <1>14 DEF n, m

LEMMA Fraction ==
  ASSUME NEW a \in Seq(0..9), NEW f \in Seq(0..9), NEW s, s = WithPoint(a, f)
  PROVE  Denoted(s) = Value((a \o f) \o Zeros(Decimals - Len(f)))
<1>1. Denoted(s) = Value((Before(s, PointOf(s)) \o After(s, PointOf(s)))
                           \o Zeros(Decimals - Len(After(s, PointOf(s)))))
  BY DEF Denoted, PointOf, Before, After, Zeros
<1>2. PointOf(s) = Len(a) + 1 /\ Before(s, Len(a) + 1) = a /\ After(s, Len(a) + 1) = f
  BY Pointed
<1>3. Before(s, PointOf(s)) = a /\ After(s, PointOf(s)) = f
  BY <1>2
<1>4. QED
  BY <1>1, <1>3

\* A number of FIL without a point.
LEMMA Whole ==
  ASSUME NEW s \in Seq(0..9)
  PROVE  Denoted(s) = Value(s \o Zeros(Decimals))
<1> DEFINE n == Len(s)
           point == Min({n + 1} \cup {k \in DOMAIN s : s[k] = Dot})
           fraction == SubSeq(s, point + 1, n)
<1>1. n \in Nat
  BY LenProperties
<1>2. {k \in DOMAIN s : s[k] = Dot} = {}
  <2>1. \A k \in DOMAIN s : s[k] \in 0..9
    BY LenProperties, ElementOfSeq
  <2>2. QED
    BY <2>1 DEF Dot
<1>3. point = n + 1
  <2>1. Min({n + 1}) \in {n + 1}
    <3>1. {n + 1} \subseteq Nat /\ {n + 1} # {}
      BY <1>1
    <3>2. QED
      BY <3>1, LeastOf
  <2>2. QED
    BY <1>2, <2>1
<1>4. point + 1 > n /\ point - 1 = n /\ point + 1 \in Int /\ n \in Int
  BY <1>1, <1>3
<1>5. fraction = <<>>
  <2> HIDE DEF n, point
  <2>1. QED
    BY <1>4, SubSeqEmpty
<1>6. SubSeq(s, 1, point - 1) = s
  BY <1>4, SubSeqFull
<1>7. Len(fraction) = 0 /\ Decimals - 0 = Decimals
  <2>1. Len(<<>>) = 0 /\ \A x \in Nat : x - 0 = x
    OBVIOUS
  <2> HIDE DEF fraction
  <2>2. QED
    BY <1>5, <2>1, JobBounds
<1>8. SubSeq(s, 1, point - 1) \o fraction = s
  BY <1>5, <1>6, ConcatEmptySeq
<1>9. Denoted(s) = Value((SubSeq(s, 1, point - 1) \o fraction) \o [k \in 1..(Decimals - Len(fraction)) |-> 0])
  BY DEF Denoted
<1> HIDE DEF point, fraction
<1>10. QED
  BY <1>7, <1>8, <1>9 DEF Zeros

LEMMA Concatenated ==
  ASSUME NEW S, NEW a \in Seq(S), NEW b \in Seq(S), NEW s, s = a \o b
  PROVE  /\ s \in Seq(S) /\ Len(s) = Len(a) + Len(b)
         /\ \A k \in 1..Len(a) : s[k] = a[k]
         /\ \A k \in 1..Len(b), x \in Nat : x = Len(a) + k => s[x] = b[k]
<1> DEFINE n == Len(a)
           m == Len(b)
<1>1. n \in Nat /\ m \in Nat
  BY LenProperties
<1>2. /\ s \in Seq(S) /\ Len(s) = n + m
      /\ \A k \in 1..(n + m) : s[k] = IF k <= n THEN a[k] ELSE b[k - n]
  BY ConcatProperties
<1> HIDE DEF n, m
<1>3. ASSUME NEW k \in 1..n PROVE s[k] = a[k]
  <2>1. k \in 1..(n + m) /\ k <= n
    BY <1>1
  <2>2. QED
    BY <1>2, <2>1
<1>4. ASSUME NEW k \in 1..m, NEW x \in Nat, x = n + k PROVE s[x] = b[k]
  <2>1. x \in 1..(n + m) /\ ~(x <= n) /\ x - n = k
    BY <1>1, <1>4
  <2>2. s[x] = b[x - n]
    BY <1>2, <2>1
  <2>3. QED
    BY <2>1, <2>2
<1>5. QED
  BY <1>2, <1>3, <1>4 DEF n, m

\* A number behind zeros.
LEMMA ValueBehind ==
  ASSUME NEW z \in Seq(0..9), \A k \in 1..Len(z) : z[k] = 0,
         NEW v \in Seq(0..9), v # <<>>, v[1] # 0 \/ Len(v) = 1
  PROVE  Value(z \o v) = v
<1> DEFINE n == Len(z)
           m == Len(v)
           s == z \o v
           d == n + 1
           l == Len(s)
           u == SubSeq(s, d, l)
<1>1. n \in Nat /\ m \in Nat \ {0}
  BY LenProperties, EmptySeq
<1>2. /\ s \in Seq(0..9) /\ l = n + m
      /\ \A k \in 1..n : s[k] = z[k]
      /\ \A k \in 1..m, x \in Nat : x = n + k => s[x] = v[k]
  BY Concatenated
<1> HIDE DEF n, m, s, l
<1>3. /\ d \in 1..l /\ d \in Nat \ {0} /\ l \in Nat /\ d <= l + 1 /\ l <= l
      /\ 1 \in 1..m /\ l - d + 1 = m /\ (m = 1 => d = l)
  BY <1>1, <1>2
<1>4. \A k \in 1..m : d + k - 1 \in Nat /\ d + k - 1 = n + k
  BY <1>1
<1>5. \A k \in 1..(d - 1) : k \in 1..n
  BY <1>1
<1>6. d \in Nat /\ d = n + 1
  BY <1>1
<1> HIDE DEF d
<1>7. s[d] = v[1]
  BY <1>2, <1>3, <1>6
<1>8. s[d] # 0 \/ d = l
  BY <1>3, <1>7 DEF m
<1>9. \A k \in 1..(d - 1) : s[k] = 0
  BY <1>2, <1>5 DEF n
<1>10. Value(s) = u
  <2>1. d \in 1..Len(s) /\ (s[d] # 0 \/ d = Len(s))
    BY <1>3, <1>8 DEF l
  <2>2. Value(s) = SubSeq(s, d, Len(s))
    BY <1>2, <1>9, <2>1, Values
  <2>3. QED
    BY <2>2 DEF l
<1>11. /\ u \in Seq(0..9) /\ Len(u) = l - d + 1
       /\ \A k \in 1..(l - d + 1) : u[k] = s[d + k - 1]
  <2>1. l <= Len(s)
    BY <1>3 DEF l
  <2>2. \A x \in Nat \ {0}, y \in Nat : x <= y + 1 /\ y <= Len(s) =>
          /\ SubSeq(s, x, y) \in Seq(0..9)
          /\ Len(SubSeq(s, x, y)) = y - x + 1
          /\ \A k \in 1..(y - x + 1) : SubSeq(s, x, y)[k] = s[x + k - 1]
    BY <1>2, Slice
  <2>3. QED
    BY <1>3, <2>1, <2>2
<1> HIDE DEF u
<1>12. u = v
  <2>1. Len(u) = m
    BY <1>3, <1>11
  <2>2. ASSUME NEW k \in 1..m PROVE u[k] = v[k]
    <3>1. u[k] = s[d + k - 1]
      BY <1>3, <1>11
    <3>2. QED
      BY <1>2, <1>4, <3>1
  <2>3. QED
    BY <1>11, <2>1, <2>2, SeqEqual DEF m
<1>13. QED
  BY <1>10, <1>12 DEF s

\* The filter and what its text says agree.
LEMMA PriceDenotes ==
  ASSUME NEW v \in Seq(0..9), v # <<>>, Len(v) > 1 => v[1] # 0
  PROVE  Denoted(NumFormatPrice(v)) = v
<1> DEFINE n == Len(v)
           D == Decimals
<1>1. n \in Nat \ {0} /\ D \in Nat
  BY LenProperties, EmptySeq, JobBounds
<1>2. n > 1 => v[1] # 0
  OBVIOUS
<1>3. <<0>> \in Seq(0..9) /\ Len(<<0>>) = 1 /\ <<0>>[1] = 0
  OBVIOUS
<1>4. CASE \A k \in 1..n : v[k] = 0
  <2>1. n = 1 /\ v[1] = 0
    <3>1. 1 \in 1..n
      BY <1>1
    <3>2. v[1] = 0
      BY <1>4, <3>1
    <3>3. ~(n > 1)
      BY <1>2, <3>2
    <3> HIDE DEF n
    <3>4. QED
      BY <1>1, <3>2, <3>3
  <2>2. v = <<0>>
    <3> DEFINE o == <<0>>
    <3>1. o \in Seq(0..9) /\ Len(o) = 1 /\ o[1] = 0
      BY <1>3
    <3> HIDE DEF o
    <3>2. v = o
      <4>1. Len(v) = Len(o) /\ \A k \in 1..Len(v) : v[k] = o[k]
        BY <2>1, <3>1
      <4>2. QED
        BY <3>1, <4>1, SeqEqual
    <3>3. QED
      BY <3>2 DEF o
  <2>3. NumFormatPrice(v) = <<0>>
    BY <1>4 DEF NumFormatPrice
  <2>4. Denoted(v) = Value(v \o Zeros(D))
    BY Whole
  <2>5. v \o Zeros(D) = Zeros(D) \o v
    <3> DEFINE z == Zeros(D)
               p == v \o z
               q == z \o v
    <3>1. z \in Seq(0..9) /\ Len(z) = D /\ \A k \in 1..D : z[k] = 0
      BY <1>1, ZerosAre
    <3> HIDE DEF z, D
    <3>2. /\ p \in Seq(0..9) /\ Len(p) = Len(v) + Len(z)
          /\ \A k \in 1..Len(v) : p[k] = v[k]
          /\ \A k \in 1..Len(z), x \in Nat : x = Len(v) + k => p[x] = z[k]
      BY <3>1, Concatenated
    <3>3. /\ q \in Seq(0..9) /\ Len(q) = Len(z) + Len(v)
          /\ \A k \in 1..Len(z) : q[k] = z[k]
          /\ \A k \in 1..Len(v), x \in Nat : x = Len(z) + k => q[x] = v[k]
      BY <3>1, Concatenated
    <3> HIDE DEF n, p, q
    <3>4. Len(v) = 1 /\ Len(p) = D + 1 /\ Len(q) = D + 1
      BY <1>1, <2>1, <3>1, <3>2, <3>3 DEF n
    <3>5. ASSUME NEW k \in 1..(D + 1) PROVE p[k] = 0 /\ q[k] = 0
      <4>1. p[k] = 0
        <5>1. CASE k = 1
          BY <2>1, <3>2, <3>4, <5>1
        <5>2. CASE k # 1
          <6>1. k - 1 \in 1..D /\ k \in Nat /\ k = 1 + (k - 1)
            BY <1>1, <5>2
          <6>2. p[k] = z[k - 1]
            BY <3>1, <3>2, <3>4, <6>1
          <6>3. QED
            BY <3>1, <6>1, <6>2
        <5>3. QED
          BY <5>1, <5>2
      <4>2. q[k] = 0
        <5>1. CASE k = D + 1
          <6>1. k \in Nat /\ k = Len(z) + 1 /\ 1 \in 1..Len(v)
            BY <1>1, <3>1, <3>4, <5>1
          <6>2. QED
            BY <2>1, <3>3, <6>1
        <5>2. CASE k # D + 1
          <6>1. k \in 1..D
            BY <1>1, <5>2
          <6>2. QED
            BY <3>1, <3>3, <6>1
        <5>3. QED
          BY <5>1, <5>2
      <4>3. QED
        BY <4>1, <4>2
    <3>6. p = q
      BY <3>2, <3>3, <3>4, <3>5, SeqEqual
    <3>7. QED
      BY <3>6 DEF p, q, z, D
  <2>6. Value(Zeros(D) \o v) = v
    <3>1. Zeros(D) \in Seq(0..9) /\ \A k \in 1..Len(Zeros(D)) : Zeros(D)[k] = 0
      BY <1>1, ZerosAre
    <3>2. QED
      BY <2>1, <3>1, ValueBehind
  <2>7. QED
    BY <2>2, <2>3, <2>4, <2>5, <2>6
<1>5. CASE \E k \in 1..n : v[k] # 0
  <2> DEFINE v1 == SubSeq(v, 1, n - D)
             u == SubSeq(v, n - D + 1, n)
             v3 == TrimZeros(u)
             w == [k \in 1..(D - n) |-> 0] \o v
             f == TrimZeros(w)
  <2>1. NumFormatPrice(v) = IF n > D THEN IF v3 = <<>> THEN v1 ELSE v1 \o <<Dot>> \o v3
                            ELSE <<0, Dot>> \o f
    BY <1>5 DEF NumFormatPrice
  <2>2. v[1] # 0
    <3>1. PICK k \in 1..n : v[k] # 0
      BY <1>5
    <3> HIDE DEF n
    <3>2. n > 1 \/ k = 1
      BY <1>1
    <3>3. QED
      BY <1>2, <3>1, <3>2
  <2>3. Value(v) = v
    BY ValueWhole
  <2>4. CASE n > D
    <3> DEFINE c == n - D
    <3>1. c \in 1..n /\ c \in Nat /\ c + 1 \in Nat \ {0} /\ n - (c + 1) + 1 = D /\ c - 1 + 1 = c
          /\ c + 1 <= n + 1 /\ 1 <= c + 1 /\ c <= n /\ n <= n
      BY <1>1, <2>4
    <3> HIDE DEF c
    <3>2. v1 = SubSeq(v, 1, c) /\ u = SubSeq(v, c + 1, n)
      BY DEF c
    <3>3. v1 \in Seq(0..9)
      <4>1. SubSeq(v, 1, c) \in Seq(0..9)
        BY <3>1, Slice
      <4>2. QED
        BY <3>2, <4>1
    <3>4. u \in Seq(0..9) /\ Len(u) = D
      <4>1. SubSeq(v, c + 1, n) \in Seq(0..9) /\ Len(SubSeq(v, c + 1, n)) = n - (c + 1) + 1
        BY <3>1, Slice
      <4>2. QED
        BY <3>1, <3>2, <4>1
    <3>5. v1 \o u = v
      <4>1. SubSeq(v, 1, c) \o SubSeq(v, c + 1, n) = SubSeq(v, 1, n)
        BY <3>1, ConcatAdjacentSubSeq
      <4>2. QED
        BY <3>2, <4>1, SubSeqFull
    <3> HIDE DEF v1, u
    <3>6. v3 \in Seq(0..9) /\ v3 \o Zeros(D - Len(v3)) = u
      <4>1. TrimZeros(u) \in Seq(0..9) /\ TrimZeros(u) \o Zeros(Len(u) - Len(TrimZeros(u))) = u
        BY <3>4, Trimmed, Padded
      <4>2. QED
        BY <3>4, <4>1
    <3>7. Zeros(D - Len(v3)) \in Seq(0..9)
      <4>1. Len(v3) \in Nat /\ Len(v3) <= Len(u)
        BY <3>4, Trimmed
      <4>2. D - Len(v3) \in Nat
        BY <1>1, <3>4, <4>1
      <4>3. QED
        BY <4>2, ZerosAre
    <3> HIDE DEF v3, D
    <3>8. CASE v3 = <<>>
      <4>1. Zeros(D) = u
        <5>1. Len(v3) = 0 /\ D - 0 = D
          BY <1>1, <3>8
        <5>2. v3 \o Zeros(D) = Zeros(D)
          BY <3>7, <3>8, <5>1, ConcatEmptySeq
        <5>3. QED
          BY <3>6, <5>1, <5>2
      <4>2. Denoted(v1) = Value(v1 \o Zeros(D))
        BY <3>3, Whole DEF D
      <4>3. QED
        BY <2>1, <2>3, <2>4, <3>5, <3>8, <4>1, <4>2
    <3>9. CASE v3 # <<>>
      <4>1. NumFormatPrice(v) = WithPoint(v1, v3)
        BY <2>1, <2>4, <3>9 DEF WithPoint
      <4>2. Denoted(NumFormatPrice(v)) = Value((v1 \o v3) \o Zeros(D - Len(v3)))
        BY <3>3, <3>6, <4>1, Fraction DEF D
      <4>3. (v1 \o v3) \o Zeros(D - Len(v3)) = v1 \o (v3 \o Zeros(D - Len(v3)))
        BY <3>3, <3>6, <3>7, ConcatAssociative
      <4>4. QED
        BY <2>3, <3>5, <3>6, <4>2, <4>3
    <3>10. QED
      BY <3>8, <3>9
  <2>5. CASE ~(n > D)
    <3> DEFINE o == <<0>>
               z == Zeros(D - n)
    <3>1. D - n \in Nat /\ D - n + n = D
      BY <1>1, <2>5
    <3>2. z \in Seq(0..9) /\ Len(z) = D - n /\ \A k \in 1..(D - n) : z[k] = 0
      BY <3>1, ZerosAre
    <3>3. w = z \o v
      BY DEF Zeros
    <3> HIDE DEF z, w, v1, u, v3
    <3>4. w \in Seq(0..9) /\ Len(w) = D
      <4>1. w \in Seq(0..9) /\ Len(w) = Len(z) + Len(v)
        <5>1. z \in Seq(0..9)
          BY <3>2
        <5> HIDE DEF n, D
        <5>2. QED
          BY <3>3, <5>1, Concatenated
      <4>2. QED
        BY <3>1, <3>2, <4>1
    <3>5. f \in Seq(0..9) /\ f \o Zeros(D - Len(f)) = w
      <4>1. TrimZeros(w) \in Seq(0..9) /\ TrimZeros(w) \o Zeros(Len(w) - Len(TrimZeros(w))) = w
        BY <3>4, Trimmed, Padded
      <4>2. QED
        BY <3>4, <4>1
    <3>6. Zeros(D - Len(f)) \in Seq(0..9)
      <4>1. Len(f) \in Nat /\ Len(f) <= Len(w)
        BY <3>4, Trimmed
      <4>2. D - Len(f) \in Nat
        BY <1>1, <3>4, <4>1
      <4>3. QED
        BY <4>2, ZerosAre
    <3> HIDE DEF f, D
    <3>7. NumFormatPrice(v) = <<0, Dot>> \o f
      BY <2>1, <2>5
    <3>8. <<0, Dot>> = o \o <<Dot>>
      OBVIOUS
    <3>9. o \in Seq(0..9) /\ Len(o) = 1 /\ o[1] = 0
      BY <1>3
    <3> HIDE DEF o
    <3>10. Denoted(NumFormatPrice(v)) = Value((o \o f) \o Zeros(D - Len(f)))
      <4>1. NumFormatPrice(v) = WithPoint(o, f)
        BY <3>7, <3>8 DEF WithPoint
      <4>2. QED
        BY <3>5, <3>9, <4>1, Fraction DEF D
    <3>11. (o \o f) \o Zeros(D - Len(f)) = o \o (f \o Zeros(D - Len(f)))
      <4>1. o \in Seq(0..9) /\ f \in Seq(0..9) /\ Zeros(D - Len(f)) \in Seq(0..9)
        BY <3>5, <3>6, <3>9
      <4>2. QED
        BY <4>1, ConcatAssociative
    <3>12. o \o (z \o v) = (o \o z) \o v
      <4>1. o \in Seq(0..9) /\ z \in Seq(0..9)
        BY <3>2, <3>9
      <4>2. \A x \in Seq(0..9) : (o \o z) \o x = o \o (z \o x)
        BY <4>1, ConcatAssociative
      <4>3. QED
        BY <4>2
    <3> DEFINE y == o \o z
    <3>13. /\ y \in Seq(0..9) /\ Len(y) = Len(o) + Len(z)
           /\ \A k \in 1..Len(o) : y[k] = o[k]
           /\ \A k \in 1..Len(z), x \in Nat : x = Len(o) + k => y[x] = z[k]
      <4>1. o \in Seq(0..9) /\ z \in Seq(0..9)
        BY <3>2, <3>9
      <4> HIDE DEF n
      <4>2. QED
        BY <4>1, Concatenated
    <3> HIDE DEF y
    <3>14. \A k \in 1..Len(y) : y[k] = 0
      <4> DEFINE l == Len(z)
      <4>1. l \in Nat /\ Len(y) = 1 + l /\ \A k \in 1..l : z[k] = 0
        BY <3>1, <3>2, <3>9, <3>13
      <4>2. \A k \in 1..l, x \in Nat : x = 1 + k => y[x] = z[k]
        BY <3>9, <3>13
      <4>3. y[1] = 0
        BY <3>9, <3>13
      <4> HIDE DEF l
      <4>4. ASSUME NEW k \in 1..(1 + l), k # 1 PROVE y[k] = 0
        <5>1. k - 1 \in 1..l /\ k \in Nat /\ k = 1 + (k - 1)
          BY <4>1, <4>4
        <5>2. y[k] = z[k - 1]
          BY <4>2, <5>1
        <5>3. QED
          BY <4>1, <5>1, <5>2
      <4>5. QED
        BY <4>1, <4>3, <4>4
    <3>15. Value(y \o v) = v
      BY <2>2, <3>13, <3>14, ValueBehind
    <3>16. QED
      BY <3>3, <3>5, <3>10, <3>11, <3>12, <3>15 DEF y
  <2>6. QED
    BY <2>4, <2>5
<1>6. QED
  BY <1>4, <1>5

----------------------------------------------------------------------------
(* What the invariants say of the pages.                                   *)

LEMMA NoneUnderWay ==
  ASSUME NEW ops, Outstanding(ops) = {}
  PROVE  \A c \in Of(calls) : c.op \notin ops
BY DEF Outstanding, Of

LEMMA PlansInvCurrent ==
  ASSUME PlansInv
  PROVE  PlansAreCurrent
<1>1. SUFFICES ASSUME onMyPlans, Outstanding({"ListPlans", "UpdatePlan"}) = {}, ~view.behind
               PROVE  view.plan_list = PageOf(ListedPlans, view.offset - 1, PlanLimit)
  BY DEF PlansAreCurrent
<1>2. \A c \in Of(calls) : c.op \notin {"ListPlans", "UpdatePlan"}
  BY <1>1, NoneUnderWay
<1>3. QED
  BY <1>1, <1>2 DEF PlansInv, PlanListOK, Asks

LEMMA JobsInvDialogs ==
  ASSUME JobsInv
  PROVE  RebuildsAsConfirmed /\ ConfirmShowsRebuild
<1>1. RebuildsAsConfirmed
  BY DEF JobsInv, RebuildsAgreed, RebuildsAsConfirmed, Agreed, IsCompleted
<1>2. ConfirmShowsRebuild
  <2>1. SUFFICES ASSUME onJobs, view.dialogConfirm
                 PROVE  \E r \in DOMAIN rebuilds :
                          ResultDialog(view) = [ID |-> r, BackupJobId |-> rebuilds[r].BackupJobId]
    BY DEF ConfirmShowsRebuild
  <2>2. PICK r \in DOMAIN rebuilds :
          view.backupPlan = [ID |-> r, BackupJobId |-> rebuilds[r].BackupJobId]
    BY <2>1 DEF JobsInv, JobsShown, JobsViewOK, IsRebuild
  <2>3. QED
    BY <2>2 DEF ResultDialog
<1>3. QED
  BY <1>1, <1>2

LEMMA JobsInvTables ==
  ASSUME JobsInv
  PROVE  TablesFollowPagers
<1> DEFINE Follows(op, rows) ==
             \/ Outstanding({op}) # {} \/ op \in view.behind
             \/ \A k \in DOMAIN rows : rows[k].ID = (view[PagerOf(op)].offset - 1) * JobLimit + k
<1>1. ASSUME NEW op \in ListOps, onJobs, NEW rows, DOMAIN rows = DOMAIN view[TableOf(op)],
             \A k \in DOMAIN rows : rows[k].ID = view[TableOf(op)][k].ID
      PROVE  Follows(op, rows)
  <2>1. Outstanding({op}) = {} => \A c \in Of(calls) : c.op # op
    BY NoneUnderWay
  <2>2. PagerFollowed(op)
    BY DEF JobsInv
  <2>3. QED
    BY <1>1, <2>1, <2>2 DEF PagerFollowed, Follow
<1>2. onJobs => Follows("ListBackups", BackupTable(view))
  BY <1>1 DEF BackupTable, TableOf, ListOps
<1>3. onJobs => Follows("ListRebuilds", RebuildTable(view))
  BY <1>1 DEF RebuildTable, TableOf, ListOps
<1>4. QED
  BY <1>2, <1>3 DEF TablesFollowPagers

LEMMA JobsInvCards ==
  ASSUME JobsInv
  PROVE  CardsMissNoJob
BY DEF JobsInv, JobsShown, CardsOK, Card, CompletedOf, CardsMissNoJob

LEMMA JobsInvPrices ==
  ASSUME JobsInv
  PROVE  PriceIsCost
<1>1. SUFFICES ASSUME onJobs, NEW k \in DOMAIN view.tableData, view.tableData[k].Cost # <<>>
               PROVE  /\ Denoted(Details_price(view.tableData[k])) = view.tableData[k].Cost
                      /\ Denoted(BackupTable(view)[k].price) = view.tableData[k].Cost
  BY DEF PriceIsCost
<1> DEFINE v == view.tableData[k].Cost
<1>2. RowOK(view.tableData[k])
  BY <1>1 DEF JobsInv, JobsShown, JobsViewOK, RowsOK
<1>3. PICK b \in DOMAIN Costs : v = Costs[b]
  BY <1>2 DEF RowOK, JobsInv, JobsTyped
<1>4. v \in Seq(0..9)
  <2>1. Costs \in Seq(Seq(0..9))
    BY JobBounds
  <2>2. Costs[b] \in Seq(0..9)
    BY <2>1, LenProperties, ElementOfSeq
  <2>3. QED
    BY <1>3, <2>2
<1>5. Len(v) > 1 => v[1] # 0
  BY <1>3, CostDigits
<1>6. Denoted(NumFormatPrice(v)) = v
  BY <1>1, <1>4, <1>5, PriceDenotes
<1>7. QED
  BY <1>1, <1>6 DEF Details_price, Details_NumFormatPrice, BackupTable

----------------------------------------------------------------------------
(* All of it.                                                              *)

AccountInv == CallsOK /\ SessionInv /\ PlansInv /\ JobsInv /\ MasksInv

LEMMA PlansAndJobsGo ==
  ASSUME CallsOK, PlansInv, JobsInv, Go
  PROVE  PlansInv' /\ JobsInv'
<1>1. UNCHANGED planVars /\ UNCHANGED jobVars
  BY GoSplits
<1>2. \/ Visits
      \/ Logout
      \/ Turns
      \/ SessionStays
  BY GoSplits
<1>3. ASSUME NEW old, Opens(old),
             \A c \in old : c.op \notin {"GetDiscoveryDoc", "ListBuckets"} => c \in Of(calls),
             \A c \in old : MayBe(c, page)
      PROVE  PlansInv' /\ JobsInv'
  BY <1>1, <1>3, PlansOpens, JobsOpens
<1>4. \A c \in Of(calls) : MayBe(c, page)
  BY DEF CallsOK
<1>5. CASE Visits
  BY <1>3, <1>4, <1>5, VisitsOpen
<1>6. CASE Logout
  <2> DEFINE new == Call("GetDiscoveryDoc", Nothing)
  <2>1. new.op = "GetDiscoveryDoc"
    BY NewCall
  <2>2. Opens(Of(calls) \cup {new}) /\ \A c \in Of(calls) \cup {new} : MayBe(c, page)
    BY <1>6, LogoutOpens
  <2> HIDE DEF new
  <2>3. QED
    BY <1>3, <2>1, <2>2
<1>7. CASE Turns
  BY <1>3, <1>4, <1>7, HandlerOpens DEF Turns
<1>8. CASE SessionStays
  <2>1. PlanOps \cap SessionCallOps = {} /\ JobOps \cap SessionCallOps = {}
    BY DEF PlanOps, JobOps, ListOps, CountOps, SessionCallOps, SessionOps
  <2>2. /\ page' = page /\ Same(PlanOps) /\ Same(JobOps)
        /\ page \notin {"login", "fs3"} => view' = view
    BY <1>8, <2>1, SessionIsElsewhere
  <2>3. QED
    BY <1>1, <2>2, PlansSame, JobsSame
<1>9. QED
  BY <1>2, <1>5, <1>6, <1>7, <1>8

LEMMA PlansStepKeeps ==
  ASSUME CallsOK, SessionInv, JobsInv, PlansNext, UNCHANGED jobVars
  PROVE  SessionInv' /\ JobsInv'
<1>1. UNCHANGED <<token, account, secret, since>>
  BY DEF PlansNext, keepSession
<1>2. CASE PlansStep
  <2>1. JobOps \cap PlanOps = {} /\ SessionCallOps \cap PlanOps = {}
    BY DEF PlanOps, JobOps, ListOps, CountOps, SessionCallOps, SessionOps
  <2>2. /\ page' = page /\ Same(JobOps) /\ Same(SessionCallOps)
        /\ page \notin {"myPlans", "backupPlans"} => view' = view
    BY <1>2, <2>1, PlansAreElsewhere
  <2>3. JobsInv'
    BY <2>2, JobsSame
  <2>4. SessionInv'
    BY <1>1, <2>2, SessionElsewhere DEF Same
  <2>5. QED
    BY <2>3, <2>4
<1>3. ASSUME NEW i \in DOMAIN calls, Dropped(i) PROVE SessionInv' /\ JobsInv'
  <2>1. Done(i, <<>>) /\ UNCHANGED <<page, view>>
    BY <1>3 DEF Dropped
  <2>2. Of(calls') \subseteq Of(calls)
    BY <2>1, FinishKeeps
  <2>3. SessionInv'
    BY <1>1, <2>1, <2>2, SessionElsewhere
  <2>4. QED
    BY <1>3, <2>3, JobsDropped
<1>4. QED
  BY <1>2, <1>3 DEF PlansNext, PlansStep

LEMMA JobsStepKeeps ==
  ASSUME CallsOK, SessionInv, PlansInv, JobsStep, UNCHANGED planVars
  PROVE  SessionInv' /\ PlansInv'
<1>1. UNCHANGED <<token, account, secret, since>>
  BY DEF JobsStep, JobsNext, DetailsNext
<1>2. PlanOps \cap JobOps = {} /\ SessionCallOps \cap JobOps = {}
  BY DEF PlanOps, JobOps, ListOps, CountOps, SessionCallOps, SessionOps
<1>3. /\ page' = page /\ Same(PlanOps) /\ Same(SessionCallOps)
      /\ page \notin {"myJobs", "details", "dashboard"} => view' = view
  BY <1>2, JobsAreElsewhere
<1>4. PlansInv'
  BY <1>3, PlansSame
<1>5. SessionInv'
  BY <1>1, <1>3, SessionElsewhere DEF Same
<1>6. QED
  BY <1>4, <1>5

LEMMA AccountInvStarts == Init => AccountInv
BY SessionStart1, PlansStart, JobsStart, MasksStart DEF AccountInv

LEMMA AccountInvSteps ==
  ASSUME AccountInv, [Next]_vars
  PROVE  AccountInv'
<1>1. CASE Go
  BY <1>1, SessionGoes, PlansAndJobsGo, MasksGo DEF AccountInv
<1>2. CASE PlansNext /\ UNCHANGED jobVars
  BY <1>2, PlansGo, PlansStepKeeps, MasksPlans DEF AccountInv
<1>3. CASE (JobsNext \/ DetailsNext) /\ UNCHANGED planVars
  BY <1>3, JobsGo, JobsStepKeeps, MasksJobs DEF AccountInv, JobsStep
<1>4. CASE UNCHANGED vars
  <2>1. /\ page' = page /\ view' = view /\ calls' = calls
        /\ UNCHANGED <<token, account, secret, since>>
        /\ UNCHANGED planVars /\ UNCHANGED jobVars
    BY <1>4 DEF vars, sessionVars
  <2>2. Sequence(calls') /\ \A ops : Same(ops)
    BY <2>1, SameIfUnchanged DEF AccountInv, CallsOK
  <2>3. CallsOK'
    BY <2>1 DEF AccountInv, CallsOK
  <2>4. SessionInv' /\ PlansInv' /\ JobsInv'
    BY <2>1, <2>2, SessionElsewhere, PlansSame, JobsSame DEF AccountInv
  <2>5. MasksInv'
    BY <2>1, MasksStay DEF AccountInv, Awaited
  <2>6. QED
    BY <2>3, <2>4, <2>5 DEF AccountInv
<1>5. QED
  BY <1>1, <1>2, <1>3, <1>4 DEF Next

\* The invariant of the account pages holds in every behaviour, whatever the
\* user does and in whatever order answers, errors and losses come.
THEOREM AccountInvHolds == Spec => []AccountInv
<1>1. Init => AccountInv
  BY AccountInvStarts
<1>2. AccountInv /\ [Next]_vars => AccountInv'
  BY AccountInvSteps
<1>3. QED
  BY <1>1, <1>2, PTL DEF Spec
----------------------------------------------------------------------------
(* Theorems.                                                               *)

LEMMA TokenKept ==
  ASSUME CallsOK, SessionInv, Go, token # None, token' = None
  PROVE  since.ended \/ since.changed
<1>1. CASE Visits
  BY <1>1, VisitsOpen
<1>2. CASE Logout
  BY <1>2, LogoutOpens
<1>3. \A i \in DOMAIN calls : ~LoggedIn(i)
  BY Begun, SecretsAreNumbers
<1>4. ASSUME NEW i \in DOMAIN calls, LoggedOut(i) \/ BucketsRefused(i)
      PROVE  since.ended \/ since.changed
  BY <1>4, Ended
<1>5. CASE Turns
  BY <1>3, <1>4, <1>5 DEF Turns
<1>6. CASE SessionHandler
  BY <1>3, <1>4, <1>6 DEF SessionHandler, LoginFailed, NothingDone, KeyAnswered
<1>7. CASE LoginForm \/ OpenChangePass \/ ChangePassword \/ SessionServer
  BY <1>7 DEF LoginForm, LoginSubmit, OpenChangePass, ChangePassword, UpdateKey, TypeNewKey,
              GetClose, SessionServer, Login, GetDiscoveryDoc, ListBuckets, SetAuth
<1>8. QED
  BY <1>1, <1>2, <1>5, <1>6, <1>7, GoSplits DEF SessionStays

\* The UI forgets the token only when the user has logged out or the secret key
\* has changed, unless a request that ends sessions was under way when this one
\* began (Slide.vue logout, Home.vue getListBuckets), for any number of each.
THEOREM SessionEnds == Spec => SessionEndsForAReason
<1>1. AccountInv /\ [Next]_vars
        => [(token # None /\ token' = None) => (since.ended \/ since.changed)]_sessionVars
  <2>1. SUFFICES ASSUME AccountInv, [Next]_vars, token # None, token' = None
                 PROVE  since.ended \/ since.changed
    OBVIOUS
  <2>2. CallsOK /\ SessionInv
    BY <2>1 DEF AccountInv
  <2>3. Go
    BY <2>1 DEF Next, PlansNext, keepSession, JobsNext, DetailsNext, vars, sessionVars
  <2>4. QED
    BY <2>1, <2>2, <2>3, TokenKept
<1>2. QED
  BY <1>1, AccountInvHolds, PTL DEF Spec, SessionEndsForAReason

\* Objects are shown only to a user with a token: the guard of the route looks
\* once, and every step that forgets the token leaves the page.
THEOREM ObjectsHaveToken == Spec => []ObjectsNeedToken
<1>1. AccountInv => ObjectsNeedToken
  BY DEF AccountInv, SessionInv
<1>2. QED
  BY <1>1, AccountInvHolds, PTL

\* The key that changePassword.vue fills in is the one FS3 knows, unless it was
\* changed since the log in or that log in came while the dialog was open.
THEOREM PrefillIsCurrent == Spec => []PrefillWorks
<1>1. AccountInv => PrefillWorks
  BY DEF AccountInv, SessionInv
<1>2. QED
  BY <1>1, AccountInvHolds, PTL

LEMMA StatusesAsAsked ==
  ASSUME CallsOK, PlansInv, [Next]_vars, NEW p \in DOMAIN plans,
         plans'[p].Status # plans[p].Status
  PROVE  asked.mixed \/ <<p, plans'[p].Status>> \in asked.of
<1>1. PICK i \in DOMAIN calls :
        PsqlBackupVolumeAddPlan(i) \/ (PsqlBackupVolumeUpdatePlan(i) /\ asked' = asked)
  <2>1. CASE PlansServer
    BY <2>1 DEF PlansServer, PsqlBackupVolumeGetPlans, Unseen
  <2>2. CASE PlansNext /\ ~PlansServer
    BY <2>2 DEF PlansNext, MyPlansUser, MyPlansHandler, BackupPlansUser, BackupPlansHandler, Dropped
  <2>3. CASE Go \/ UNCHANGED planVars \/ UNCHANGED vars
    BY <2>3 DEF Go, planVars, vars
  <2>4. QED
    BY <2>1, <2>2, <2>3 DEF Next
<1>2. ~PsqlBackupVolumeAddPlan(i)
  <2>1. ASSUME NEW plan, plans' = Append(plans, plan) PROVE plans'[p] = plans[p]
    BY <2>1, AppendProperties DEF PlansInv, PlansFields
  <2>2. QED
    BY <2>1 DEF PsqlBackupVolumeAddPlan
<1>3. QED
  BY <1>1, <1>2, UpdatesOne

\* A plan is stopped, started or deleted only as the user asked for that plan,
\* however late the updates of others are served and answered, unless an answer
\* came into an open dialog.
THEOREM PlansChangeAsAsked == Spec => PlansAsAsked
<1>1. AccountInv /\ [Next]_vars
        => [\A p \in DOMAIN plans : LET status == plans'[p].Status IN
              status # plans[p].Status => asked.mixed \/ <<p, status>> \in asked.of]_planVars
  BY StatusesAsAsked DEF AccountInv
<1>2. QED
  BY <1>1, AccountInvHolds, PTL DEF Spec, PlansAsAsked

\* When no list and no update is under way, My Plans shows the plans of the page
\* it is on as FS3 has them: an update never leaves an old list behind.
THEOREM PlansShownAreCurrent == Spec => []PlansAreCurrent
<1>1. AccountInv => PlansAreCurrent
  BY PlansInvCurrent DEF AccountInv
<1>2. QED
  BY <1>1, AccountInvHolds, PTL

\* No plan is shorter than 180 days, for any durations typed, unless the form
\* was edited between Create and its validation, or holds no number.
THEOREM PlansMadeLast == Spec => []PlansLastLong
<1>1. AccountInv => PlansLastLong
  BY DEF AccountInv, PlansInv
<1>2. QED
  BY <1>1, AccountInvHolds, PTL

\* The summary shows a plan that FS3 has made, although it reads the form and not
\* the answer, as long as the form was not edited with a request under way.
THEOREM SummaryIsOfPlan == Spec => []SummaryShowsPlan
<1>1. AccountInv => SummaryShowsPlan
  BY DEF AccountInv, PlansInv
<1>2. QED
  BY <1>1, AccountInvHolds, PTL

\* Every rebuild is of a completed backup that the user confirmed, although
\* tables show old rows and FS3 does not look at the backup, unless an answer
\* came into an open dialog.
THEOREM RebuildsWereConfirmed == Spec => []RebuildsAsConfirmed
<1>1. AccountInv => RebuildsAsConfirmed
  BY JobsInvDialogs DEF AccountInv
<1>2. QED
  BY <1>1, AccountInvHolds, PTL

\* The dialog that says a rebuild was created shows one that was, on both pages
\* that share backupPlan between the question and the answer.
THEOREM DialogShowsRebuild == Spec => []ConfirmShowsRebuild
<1>1. AccountInv => ConfirmShowsRebuild
  BY JobsInvDialogs DEF AccountInv
<1>2. QED
  BY <1>1, AccountInvHolds, PTL

\* Without a list under way, a table of jobs shows the page its pager is on, for
\* any number of jobs and any size of a page, unless a list was lost or overtaken.
THEOREM TablesShowTheirPage == Spec => []TablesFollowPagers
<1>1. AccountInv => TablesFollowPagers
  BY JobsInvTables DEF AccountInv
<1>2. QED
  BY <1>1, AccountInvHolds, PTL

\* The price shown for a job denotes its cost, for costs of any length and any
\* number of decimals: the filter loses and adds no digit.
THEOREM PricesAreCosts == Spec => []PriceIsCost
<1>1. AccountInv => PriceIsCost
  BY JobsInvPrices DEF AccountInv
<1>2. QED
  BY <1>1, AccountInvHolds, PTL

\* The cards of the dashboard miss no job that there was when they were counted,
\* although a job may be completed between the two queries, and show none as
\* completed that is not, however late their answers come.
THEOREM CardsCountAll == Spec => []CardsMissNoJob
<1>1. AccountInv => CardsMissNoJob
  BY JobsInvCards DEF AccountInv
<1>2. QED
  BY <1>1, AccountInvHolds, PTL

\* Under the mask of a page there is always a live request or a timer that will
\* take it off: no error path and no visit leaves a mask alone.
THEOREM MasksComeOff == Spec => []MasksEnd
<1>1. AccountInv => MasksEnd
  BY MasksInvEnds DEF AccountInv
<1>2. QED
  BY <1>1, AccountInvHolds, PTL
=============================================================================
