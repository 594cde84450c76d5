---------------------------- MODULE DetailsPage ----------------------------
(***************************************************************************)
(* The dashboard of the browser UI, which counts the jobs, and the page    *)
(* with the details of one kind of job that it links to                    *)
(* (views/myAccount/dashboard).  details.vue was made from the page of     *)
(* JobsPage: its tables, dialogs and handlers are those, but the route     *)
(* says which table is shown and both tables share one mask.               *)
(***************************************************************************)
EXTENDS JobsPage

Dashboard_keep == <<page, sent, backups, rebuilds, confirmed>>

----------------------------------------------------------------------------
(* The dashboard (dashboard/index.vue).                                    *)

\* data(): a card of backups and one of rebuilds.  there is how many jobs there
\* were when they began to be counted (history).
NoJobs == [inProcessJobs |-> 0, completedJobs |-> 0, there |-> 0]
DashboardView == [card |-> [ListBackups |-> NoJobs, ListRebuilds |-> NoJobs]]
DashboardCalls == <<Call("CountBackups", Nothing), Call("CountRebuilds", Nothing)>>
VisitDashboard == Visit("dashboard", DashboardView, DashboardCalls)

CountOps == {"CountBackups", "CountRebuilds"}
\* The table that a request or a card is about.
JobsOf(op) == IF op \in {"CountBackups", "ListBackups"} THEN backups ELSE rebuilds
CardOf(op) == IF op = "CountBackups" THEN "ListBackups" ELSE "ListRebuilds"
Completed(jobs) == {j \in DOMAIN jobs : jobs[j].Status = "Completed"}
InProcess(jobs) == DOMAIN jobs \ Completed(jobs)

NotCounted == -1
AllCounted(n) == n.inProcessJobs # NotCounted /\ n.completedJobs # NotCounted

\* Mutant: the queries the other way round.
PsqlCountsReversed(i) == \E op \in CountOps : LET jobs == JobsOf(op) IN
    \/ /\ IsSent(i, op) /\ Authorised(i)
       /\ Reply(i, [inProcessJobs |-> NotCounted, there |-> Len(jobs),
                    completedJobs |-> Cardinality(Completed(jobs))])
    \/ /\ IsAnswered(i, op) /\ ~AllCounted(Answer(i))
       /\ Reply(i, [Answer(i) EXCEPT !.inProcessJobs = Cardinality(InProcess(jobs))])
\* The counts come with the lists: the jobs in process are counted, and after
\* them, in another query and no transaction, the completed ones.
PsqlCounts(i) == \E op \in CountOps : LET jobs == JobsOf(op) IN
    \/ /\ IsSent(i, op) /\ Authorised(i)
       /\ Reply(i, [inProcessJobs |-> Cardinality(InProcess(jobs)), there |-> Len(jobs),
                    completedJobs |-> NotCounted])
    \/ /\ IsAnswered(i, op) /\ ~AllCounted(Answer(i))
       /\ Reply(i, [Answer(i) EXCEPT !.completedJobs = Cardinality(Completed(jobs))])

\* getData: each answer fills its card.
Counted(i) ==
    /\ page = "dashboard"
    /\ \E op \in CountOps :
         /\ IsAnswered(i, op) /\ AllCounted(Answer(i))
         /\ view' = [view EXCEPT !.card[CardOf(op)] = Answer(i)]
    /\ Done(i, <<>>)

CountFailed(i) ==
    /\ i \in Outstanding(CountOps)
    /\ Done(i, <<>>)
    /\ UNCHANGED view

----------------------------------------------------------------------------
(* Details (dashboard/details.vue).                                        *)

onDetails == page = "details"

\* data(), and the call of productName for the type of the route, when the
\* page is mounted.
DetailsView(op) == [JobsView(op) EXCEPT !.loading = TRUE]
DetailsCalls(op) == <<ListCall(op, 1)>>
VisitDetails(op) == Visit("details", DetailsView(op), DetailsCalls(op))

\* link, the button of a card.
link(op) == page = "dashboard" /\ VisitDetails(op)

\* The watch on $route: another address of the same page keeps the component.
productName(op) ==
    /\ onDetails /\ op # view.activeName
    /\ view' = getData([view EXCEPT !.activeName = op], op, view[PagerOf(op)].offset)
    /\ UserSends(<<ListCall(op, view[PagerOf(op)].offset)>>)
    /\ UNCHANGED confirmed

\* The table of backup jobs, with a filter of its own, and the first dialogs.
Details_NumFormatPrice(value) == NumFormatPrice(value)
Details_price(row) == Details_NumFormatPrice(row.Cost)
Details_detailFun(k) == onDetails /\ RowButton(k)
Details_RebuildButton == onDetails /\ \E k \in DOMAIN view.tableData : Details_detailFun(k)
Details_closeDis == onDetails /\ closeDis
Details_closeAsk == onDetails /\ closeAsk

Details_confirm == onDetails /\ confirm
\* The rebuild job in place of backupPlan, and the dialog that shows it.
Details_RebuildAdded(i) == onDetails /\ RebuildAdded(i)
Details_closeResult == onDetails /\ closeResult

\* The pagers.
Details_backupPager == onDetails /\ BackupPager
Details_rebuildChange(val) == rebuildChange(val)
Details_rebuildPager ==
    onDetails /\ \E val \in OtherPages("ListRebuilds") : Details_rebuildChange(val)

\* getData(type), with one mask: the answers, the timers and the errors.
Details_backupsListed(i) == onDetails /\ BackupsListed(i)
Details_rebuildsListed(i) == onDetails /\ RebuildsListed(i)
Details_timer(op) == onDetails /\ JobsTimer(op)
Details_failed(i) == onDetails /\ JobsFailed(i)

DetailsUser ==
    /\ \/ \E op \in ListOps : productName(op)
       \/ Details_RebuildButton \/ Details_closeDis \/ Details_closeAsk
       \/ Details_confirm \/ Details_closeResult
       \/ Details_backupPager \/ Details_rebuildPager
    /\ UNCHANGED <<page, backups, rebuilds>>

DetailsHandler ==
    /\ \/ \E op \in ListOps : Details_timer(op)
       \/ \E i \in DOMAIN calls :
            \/ Details_backupsListed(i) \/ Details_rebuildsListed(i)
            \/ Details_RebuildAdded(i) \/ Details_failed(i)
    /\ UNCHANGED <<page, backups, rebuilds>>

DashboardNext == \E i \in DOMAIN calls :
    \/ PsqlCounts(i) /\ UNCHANGED <<view, Dashboard_keep>>
    \/ (Counted(i) \/ CountFailed(i)) /\ UNCHANGED Dashboard_keep

DetailsPages == VisitDashboard \/ \E op \in ListOps : link(op)

DetailsNext == /\ DetailsUser \/ DetailsHandler \/ DashboardNext
               /\ UNCHANGED <<token, account, secret, since>>

----------------------------------------------------------------------------
(* Properties.                                                             *)

\* A card misses no job and promises none: a job that is completed between the
\* two queries is counted twice, but every job there was when they began is
\* counted once at least, and no more are shown as completed than are, however
\* late the answer comes.
CardsMissNoJob ==
    page = "dashboard" => \A op \in ListOps :
      LET card == view.card[op] IN
        /\ card.inProcessJobs + card.completedJobs >= card.there
        /\ card.completedJobs <= Cardinality(Completed(JobsOf(op)))

\* The number that digits stand for, without zeros before it.
Value(digits) == LET First == Min({Len(digits)} \cup {k \in DOMAIN digits : digits[k] # 0})
                 IN  SubSeq(digits, First, Len(digits))
\* The number of attoFIL that a price in FIL stands for: the digits before the
\* point and those behind it, filled up with zeros.
Denoted(shown) ==
    LET dots == {k \in DOMAIN shown : shown[k] = Dot}
        point == Min({Len(shown) + 1} \cup dots)
        fraction == SubSeq(shown, point + 1, Len(shown))
    IN  Value(SubSeq(shown, 1, point - 1) \o fraction
              \o [k \in 1..(Decimals - Len(fraction)) |-> 0])

\* The price of a job that has a cost is that cost, whatever its length (filter
\* NumFormatPrice, on both pages).
PriceIsCost ==
    LET Shown(k) == IF onDetails THEN Details_price(view.tableData[k]) ELSE BackupTable(view)[k].price
    IN  onJobs => \A k \in DOMAIN view.tableData :
          view.tableData[k].Cost # <<>> => Denoted(Shown(k)) = view.tableData[k].Cost
=============================================================================
