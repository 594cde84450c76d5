----------------------------- MODULE DealDialog -----------------------------
(***************************************************************************)
(* The dialog that backs up a bucket or an object to Filecoin              *)
(* (shareDialog.vue): its menu of storage providers, which loads page by   *)
(* page while the user scrolls, and its forms of online and offline deals. *)
(*                                                                         *)
(* Home.vue has one ("homeshare", for a bucket) and minio/index.vue has    *)
(* another ("share", for an object).  Closing one mounts it anew.          *)
(***************************************************************************)
EXTENDS BucketMenu

CONSTANTS Locations,    \* the locations of providers
          Miners,       \* how many providers each has
          PageSize,     \* how many come on a page; 20 in the code
          Durations     \* the days a deal may last

ASSUME DealBounds == /\ Miners \in [Locations -> Nat \ {0}] /\ PageSize \in Nat \ {0}
                     /\ Durations \subseteq Nat

VARIABLE deal           \* the data of each dialog

Dialogs == {"share", "homeshare"}
NoLocation == "none"
DealView == [activeOn |-> "online", minerId |-> <<>>, providerId |-> <<>>, tips |-> FALSE,
             dealCID |-> <<>>, finishTransaction |-> FALSE, taskName |-> <<>>,
             parentName |-> NoLocation, tableData |-> <<>>, page |-> 0, total |-> PageSize,
             loadSign |-> FALSE, fresh |-> TRUE]

DealStays == UNCHANGED <<pageVars, menuVars>>
Shows(d) == d \in open /\ (d = "share" => share.mode = "deal")
OfDialog(d, ops) == {i \in Outstanding(ops) : calls[i].arg.dialog = d}

----------------------------------------------------------------------------
(* The menu of providers; a page of a location stands for its providers.   *)

MinersCall(d, location, page) ==
    Request("Miners", [dialog |-> d, location |-> location, page |-> page])

\* The pointer over a location (handleOpenSubmenu) and its submenu opening
\* (handleOpen) do this, each.  The pages that were asked for before still come.
HandleOpen(d, location) ==
    /\ Shows(d)
    /\ deal' = [deal EXCEPT ![d] = [@ EXCEPT !.tableData = <<>>, !.page = 0, !.total = PageSize,
                                             !.parentName = location, !.fresh = TRUE]]
    /\ UserOvertakes(OfDialog(d, {"Miners"}), <<MinersCall(d, location, 0)>>)
    /\ DealStays

\* The table, when it has rows, is scrolled to its end (the directive loadmore).
ScrolledToEnd(d) == Shows(d) /\ deal[d].tableData # <<>>

\* Mutant: a page is asked for while another is.
LoadMoreAnyway(d) ==
    LET f == deal[d]
        page == f.page + 1
    IN  /\ ScrolledToEnd(d)
        /\ deal' = [deal EXCEPT ![d].loadSign = FALSE, ![d].page = page]
        /\ IF page * PageSize >= f.total
             THEN UserActs
             ELSE UserSends(<<MinersCall(d, f.parentName, page)>>)
        /\ DealStays

LoadMore(d) ==
    LET f == deal[d]
        page == f.page + 1
    IN  /\ ScrolledToEnd(d) /\ f.loadSign
        /\ deal' = [deal EXCEPT ![d].loadSign = FALSE, ![d].page = page]
        /\ IF page * PageSize >= f.total
             THEN UserActs
             ELSE UserSends(<<MinersCall(d, f.parentName, page)>>)
        /\ DealStays

\* A row becomes the current one of the table.
HandleCurrentChange(d, k) ==
    LET field == IF deal[d].activeOn = "online" THEN "minerId" ELSE "providerId"
        row == deal[d].tableData[k]
    IN  /\ Shows(d)
        /\ deal[d][field] # row
        /\ deal' = [deal EXCEPT ![d][field] = row]
        /\ UserActs /\ DealStays

ServeMiners(i) == /\ IsSent(i, "Miners")
                  /\ Reply(i, [total |-> Miners[calls[i].arg.location]])
                  /\ Served /\ UNCHANGED <<menuVars, deal>>

\* A first page replaces the table and a later one is put at its end, whatever
\* location the table shows by then.
MinersListed(i) ==
    LET c == calls[i].arg
        f == deal[c.dialog]
        total == Answer(i).total
        rows == IF c.page * PageSize < total THEN <<<<c.location, c.page>>>> ELSE <<>>
        late == calls[i].late
    IN  /\ IsAnswered(i, "Miners")
        /\ deal' = [deal EXCEPT ![c.dialog] =
             IF c.page = 0
               THEN [f EXCEPT !.tableData = rows, !.loadSign = TRUE,
                              !.total = IF total > PageSize THEN total ELSE @,
                              !.fresh = ~late /\ f.page = 0]
               ELSE [f EXCEPT !.tableData = @ \o rows, !.loadSign = TRUE,
                              !.fresh = @ /\ ~late]]
        /\ Done(i, <<>>)
        /\ DealStays /\ UNCHANGED sent

----------------------------------------------------------------------------
(* The forms.                                                              *)

\* Only a bucket may have offline deals.  Leaving the online form resets it.
HandleClick(tab) ==
    LET d == "homeshare"
    IN  /\ Shows(d) /\ tab # deal[d].activeOn
        /\ deal' = [deal EXCEPT ![d].activeOn = tab,
                                ![d].minerId = IF tab = "offline" THEN <<>> ELSE @]
        /\ UserActs /\ DealStays

\* Mutant: every deal is for the bucket.
PostAdressBucket(d) == home.currentBucket
\* Where a deal is posted: the object the dialog was opened for, or the
\* current bucket, as it is by now.
PostAdress(d) == IF d = "share" THEN share.postAdress ELSE home.currentBucket
\* What the dialog was opened for (history).
OpenedFor(d) == IF d = "share" THEN share.at \o share.name ELSE <<slide.on>>
Undisturbed(d) == IF d = "share" THEN share.calm ELSE shown.settled

DealCall(d, api, form) ==
    Request(api, [dialog |-> d, adress |-> PostAdress(d), wanted |-> OpenedFor(d),
                  calm |-> Undisturbed(d), form |-> form])

\* The backend takes epochs of 30 seconds.
SubmitForm(d, days) ==
    LET f == deal[d]
        api == IF d = "homeshare" THEN "deals" ELSE "deal"
    IN  /\ Shows(d) /\ f.activeOn = "online" /\ f.minerId # <<>>
        /\ UserSends(<<DealCall(d, api, [MinerId |-> f.minerId, days |-> days,
                                         Duration |-> days * 24 * 60 * 2])>>)
        /\ DealStays /\ UNCHANGED deal

\* An offline deal is open to bids, or names its provider.
SubmitOfflineForm(bid) ==
    LET d == "homeshare"
        f == deal[d]
        refused == ~bid /\ f.providerId = <<>>
    IN  /\ Shows(d) /\ f.activeOn = "offline"
        /\ deal' = IF bid THEN deal ELSE [deal EXCEPT ![d].tips = refused]
        /\ IF refused THEN UserActs
           ELSE UserSends(<<DealCall(d, "offlinedeals",
                  [MinerId |-> IF bid THEN <<>> ELSE f.providerId])>>)
        /\ DealStays

DealApis == {"deals", "deal", "offlinedeals"}
PostDeal(i) == /\ i \in Outstanding(DealApis) /\ calls[i].state = "sent"
               /\ Reply(i, [of |-> calls[i].arg.adress])
               /\ Served /\ UNCHANGED <<menuVars, deal>>

DealSent(i) ==
    LET d == calls[i].arg.dialog
    IN  /\ IsAnswered(i, "deal") \/ IsAnswered(i, "deals")
        /\ deal' = [deal EXCEPT ![d].dealCID = Answer(i).of]
        /\ Done(i, <<>>)
        /\ DealStays /\ UNCHANGED sent
OfflineDealSent(i) ==
    LET d == calls[i].arg.dialog
    IN  /\ IsAnswered(i, "offlinedeals")
        /\ deal' = [deal EXCEPT ![d].finishTransaction = TRUE, ![d].taskName = Answer(i).of]
        /\ Done(i, <<>>)
        /\ DealStays /\ UNCHANGED sent

\* A page that is lost leaves loadSign as it is.
DealOps == DealApis \cup {"Miners"}
DealDropped(i) ==
    LET d == calls[i].arg.dialog
    IN  /\ i \in Outstanding(DealOps) /\ Fails(i, {})
        /\ deal' = IF calls[i].op = "Miners" THEN [deal EXCEPT ![d].fresh = FALSE] ELSE deal
        /\ Done(i, <<>>)
        /\ DealStays

\* The message that an offline deal is made is closed.
CloseCompleted == /\ deal["homeshare"].finishTransaction
                  /\ deal' = [deal EXCEPT !["homeshare"].finishTransaction = FALSE]
                  /\ UNCHANGED <<calls, sent>> /\ DealStays

\* The watch on shareDialog has a closed dialog mounted anew.
Reloaded(d) == [deal EXCEPT ![d] = DealView]
\* What the one before it asked for is shown nowhere any more.
reload(d) == calls' = Only(calls, DOMAIN calls \ OfDialog(d, DealOps))

GetDiglogChange(d) ==
    /\ d \in open
    /\ open' = open \ {d}
    /\ deal' = Reloaded(d)
    /\ reload(d)
    /\ PageStays /\ UNCHANGED <<menuVars, sent>>

----------------------------------------------------------------------------

\* The menu of providers, which both forms have, and the forms.
MinerMenu(d) ==
    \/ \E location \in Locations : HandleOpen(d, location)
    \/ LoadMore(d)
    \/ \E k \in DOMAIN deal[d].tableData : HandleCurrentChange(d, k)
OnlineForm(d) == \E days \in Durations : SubmitForm(d, days)
OfflineForm == \E bid \in BOOLEAN : SubmitOfflineForm(bid)
DealTabs == \E tab \in {"online", "offline"} : HandleClick(tab)

DealUser ==
    \/ \E d \in Dialogs : MinerMenu(d) \/ OnlineForm(d) \/ GetDiglogChange(d)
    \/ DealTabs \/ OfflineForm \/ CloseCompleted

DealServer == \E i \in DOMAIN calls : ServeMiners(i) \/ PostDeal(i)

DealHandler == \E i \in DOMAIN calls :
    MinersListed(i) \/ DealSent(i) \/ OfflineDealSent(i) \/ DealDropped(i)
=============================================================================
