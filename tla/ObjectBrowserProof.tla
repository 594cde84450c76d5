-------------------------- MODULE ObjectBrowserProof --------------------------
(***************************************************************************)
(* The properties of the object browser (ObjectBrowser), for every value   *)
(* of its constants: those of the list of objects, of the deals of a row,  *)
(* of the dialog of deals and of the links.                                *)
(*                                                                         *)
(* Each property has an invariant of its own, about what the page or a     *)
(* dialog shows and about the requests under way that will change it; all  *)
(* of them rest on the types of the state (TypeInv, ObjectBrowserSteps).   *)
(***************************************************************************)
EXTENDS ObjectBrowserSteps

----------------------------------------------------------------------------
(* The deals of the row that is open.                                      *)

\* Deals that are listed know whether they came late.
Dated(deals) == \A d \in deals : "late" \in DOMAIN d

LEMMA OldAreLate ==
  ASSUME NEW deals, Dated(deals)
  PROVE  Dated(Old(deals)) /\ \A d \in Old(deals) : d.late
BY DEF Dated, Old

LEMMA NewAreDated ==
  ASSUME NEW arg, NEW late
  PROVE  Dated({[of |-> arg, late |-> late]})
BY DEF Dated

\* Of the row that is open, in the bucket that was listed when it was opened.
OfRow(of) == of.name = fs3.expands /\ (shown.opened # <<>> => of.bucket = shown.opened)
RowInv ==
    /\ Dated(fs3.exChangeList)
    /\ fs3.expands # <<>> =>
         /\ \A c \in Newest(calls, "Retrieve") : OfRow(c.arg)
         /\ None("Retrieve") => \A d \in fs3.exChangeList : ~d.late => OfRow(d.of)

LEMMA RowCarried ==
  ASSUME RowInv, fs3'.expands = fs3.expands, fs3'.exChangeList = fs3.exChangeList,
         shown'.opened = shown.opened,
         \A c \in Newest(calls', "Retrieve") : \E d \in Newest(calls, "Retrieve") : c.arg = d.arg,
         None("Retrieve")' => None("Retrieve")
  PROVE  RowInv'
BY DEF RowInv, OfRow, Newest, LastOf, Dated

LEMMA RowSpared ==
  ASSUME TypeInv, TypeInv', RowInv, NEW H, NEW F, NEW S, NEW N, NEW ops, Touches(H, F, S, N, ops),
         "expands" \notin F, "exChangeList" \notin F, "opened" \notin N, "Retrieve" \notin ops
  PROVE  RowInv'
<1>1. /\ fs3'.expands = fs3.expands /\ fs3'.exChangeList = fs3.exChangeList
      /\ shown'.opened = shown.opened
  BY DEF Touches, Sets, TypeInv, IsFs3, Fs3Fields, IsShown, ShownFields
<1>2. "Retrieve" \in AllOps
  BY DEF AllOps, PageOps
<1>3. (None("Retrieve")' <=> None("Retrieve")) /\ Newest(calls', "Retrieve") \subseteq Newest(calls, "Retrieve")
  BY <1>2, OpSpared
<1>4. QED
  BY <1>1, <1>3, RowCarried

LEMMA RowIfOpened ==
  ASSUME Inv, RowInv, NEW i \in DOMAIN fs3.tableData, ExChange(i), Aside
  PROVE  RowInv'
<1>1. TypeInv
  BY DEF Inv
<1> DEFINE name == SeenRow(i).name
           c == Request("Retrieve", [bucket |-> home.currentBucket, name |-> name])
<1>2. CASE fs3.expands = name
  <2>1. fs3' = [fs3 EXCEPT !.expands = <<>>]
    BY <1>2 DEF ExChange
  <2>2. fs3'.expands = <<>> /\ fs3'.exChangeList = fs3.exChangeList
    BY <1>1, <2>1 DEF TypeInv, IsFs3, Fs3Fields
  <2>3. QED
    BY <2>2 DEF RowInv, Dated
<1>3. CASE fs3.expands # name
  <2> DEFINE cs == <<c>>
           at == IF SameBucket THEN shown.bucket ELSE <<>>
  <2>1. /\ fs3' = [fs3 EXCEPT !.expands = name, !.exChangeList = {}] /\ UserSends(cs)
        /\ shown' = [shown EXCEPT !.opened = at]
    BY <1>3 DEF ExChange
  <2>2. fs3'.expands = name /\ fs3'.exChangeList = {} /\ shown'.opened = at
    BY <1>1, <2>1 DEF TypeInv, IsFs3, Fs3Fields, IsShown, ShownFields
  <2>3. /\ Sequence(cs) /\ Of(cs) = {c} /\ c.op = "Retrieve" /\ c.arg.name = name
        /\ at # <<>> => c.arg.bucket = at
    BY Single DEF Request, SameBucket
  <2> HIDE DEF name, c, cs, at
  <2>4. \E d \in Of(cs) : d.op = "Retrieve"
    BY <2>3
  <2>5. \A d \in Newest(calls', "Retrieve") : d \in Of(cs)
    BY <1>1, <2>1, <2>3, <2>4, OpAsked
  <2>6. QED
    BY <2>2, <2>3, <2>5 DEF RowInv, OfRow, Dated, Newest, LastOf
<1>4. QED
  BY <1>2, <1>3

LEMMA RowIfListed ==
  ASSUME Inv, RowInv, NEW i \in DOMAIN calls, DealsListed(i), Aside
  PROVE  RowInv'
<1> DEFINE c == calls[i]
           op == "Retrieve"
<1>1. /\ TypeInv /\ fs3'.expands = fs3.expands /\ shown'.opened = shown.opened
      /\ c.op = op /\ Overtakes(i, Earlier(i), <<>>)
      /\ fs3'.exChangeList = {[of |-> c.arg, late |-> c.late]}
  <2>1. /\ TypeInv /\ shown' = shown /\ c.op = op /\ Overtakes(i, Earlier(i), <<>>)
        /\ Touches({}, {"exChangeList"}, {}, {}, {op})
        /\ fs3'.exChangeList = {[of |-> c.arg, late |-> c.late]}
    BY DealsListedStep DEF Inv
  <2>2. fs3'.expands = fs3.expands
    BY <2>1 DEF Touches, Sets, TypeInv, IsFs3, Fs3Fields
  <2>3. QED
    BY <2>1, <2>2
<1>2. /\ Newest(calls', op) \subseteq Newest(calls, op)
      /\ None(op)' /\ ~c.late => c \in Newest(calls, op)
  BY <1>1, OpFinished
<1>3. Dated(fs3'.exChangeList)
  <2> DEFINE late == c.late
  <2>1. Dated({[of |-> c.arg, late |-> late]})
    BY NewAreDated
  <2>2. QED
    BY <1>1, <2>1
<1>4. \A d \in fs3'.exChangeList : d.of = c.arg /\ d.late = c.late
  BY <1>1
<1>5. QED
  BY <1>1, <1>2, <1>3, <1>4 DEF RowInv, OfRow, Newest, LastOf, Dated

LEMMA RowIfDropped ==
  ASSUME Inv, RowInv, NEW i \in DOMAIN calls, Dropped(i), Aside
  PROVE  RowInv'
<1> DEFINE c == calls[i]
           op == "Retrieve"
<1>1. /\ TypeInv /\ TypeInv' /\ fs3'.expands = fs3.expands /\ shown'.opened = shown.opened
      /\ Overtakes(i, Earlier(i), <<>>) /\ Touches({}, {"exChangeList"}, {"fresh"}, {"fresh", "cut"}, {c.op})
      /\ c.op # op => fs3' = fs3
      /\ c.op = op => fs3'.exChangeList = Old(fs3.exChangeList)
  BY DroppedStep DEF Inv, Touches, Sets, TypeInv, IsFs3, Fs3Fields, IsShown, ShownFields
<1>2. CASE c.op = op
  <2>1. Newest(calls', op) \subseteq Newest(calls, op)
    BY <1>1, <1>2, OpFinished
  <2>2. Dated(fs3'.exChangeList) /\ \A d \in fs3'.exChangeList : d.late
    BY <1>1, <1>2, OldAreLate DEF RowInv
  <2>3. QED
    BY <1>1, <2>1, <2>2 DEF RowInv, OfRow, Newest, LastOf, Dated
<1>3. CASE c.op # op
  <2> DEFINE ops == {c.op}
  <2>1. /\ Touches({}, {"exChangeList"}, {"fresh"}, {"fresh", "cut"}, ops)
        /\ op \notin ops /\ op \in AllOps
    BY <1>1, <1>3 DEF AllOps, PageOps
  <2> HIDE DEF ops
  <2>2. (None(op)' <=> None(op)) /\ Newest(calls', op) \subseteq Newest(calls, op)
    BY <1>1, <2>1, OpSpared
  <2>3. QED
    BY <1>1, <1>3, <2>2, RowCarried
<1>4. QED
  BY <1>2, <1>3

LEMMA RowKept ==
  ASSUME Inv, RowInv, [Next]_vars
  PROVE  RowInv'
<1>1. TypeInv /\ TypeInv'
  BY InvKept DEF Inv
<1>2. CASE Resting
  BY <1>1, <1>2, RestingStep, RowSpared
<1>3. CASE Dealing
  BY <1>1, <1>3, DealingStep, RowSpared DEF DealOps, DealApis
<1>4. CASE Minding
  BY <1>1, <1>4, MindingStep, RowSpared DEF MindOps, MenuOps
<1>5. CASE Going
  BY <1>1, <1>5, GoingStep, RowSpared DEF GoesToTop, ToTop, GoOps
<1>6. CASE Walking
  BY <1>1, <1>6, WalkingStep, RowSpared
<1>7. CASE Selecting
  BY <1>1, <1>7, SelectingStep, RowSpared DEF PickOps, Selection
<1>8. CASE Moving
  BY <1>1, <1>8, MovingStep, RowSpared DEF MoveOps
<1>9. CASE Replying
  <2>1. fs3' = fs3 /\ shown' = shown
    BY <1>9, ReplyingStep DEF pageVars
  <2>2. QED
    BY <1>9, <2>1, OpReplying, RowCarried
<1>10. CASE Storing
  BY <1>1, <1>10, StoringStep, RowSpared DEF StoreOps
<1>11. CASE Deleting
  BY <1>1, <1>11, DeletingStep, RowSpared DEF DeleteOps
<1>12. CASE Sharing
  BY <1>1, <1>12, SharingStep, RowSpared
<1>13. CASE Opening
  BY <1>13, RowIfOpened DEF Opening
<1>14. CASE Uploading
  BY <1>1, <1>14, UploadingStep, RowSpared
<1>15. ASSUME NEW i \in DOMAIN calls, Handling(i), Aside PROVE RowInv'
  <2>1. CASE ObjectsListed(i)
    BY <1>1, <1>15, <2>1, ObjectsListedStep, RowSpared
  <2>2. CASE ObjectRemoved(i)
    BY <1>1, <1>15, <2>2, ObjectRemovedStep, RowSpared
  <2>3. CASE ProgressFunction(i)
    BY <1>1, <1>15, <2>3, ProgressStep, RowSpared
  <2>4. CASE Uploaded(i)
    BY <1>1, <1>15, <2>4, UploadedStep, RowSpared DEF Selection
  <2>5. CASE LinkMade(i)
    BY <1>1, <1>15, <2>5, LinkMadeStep, RowSpared
  <2>6. CASE DealsListed(i)
    BY <1>15, <2>6, RowIfListed
  <2>7. CASE Dropped(i)
    BY <1>15, <2>7, RowIfDropped
  <2>8. QED
    BY <1>15, <2>1, <2>2, <2>3, <2>4, <2>5, <2>6, <2>7 DEF Handling
<1>16. CASE UNCHANGED vars
  BY <1>1, <1>16, StutterStep, RowSpared
<1>17. QED
  BY <1>1, <1>2, <1>3, <1>4, <1>5, <1>6, <1>7, <1>8, <1>9, <1>10, <1>11, <1>12, <1>13, <1>14, <1>15,
     <1>16, EveryStep DEF Steps

----------------------------------------------------------------------------
(* The deals of the bucket of the dialog.                                  *)

RetrievalInv ==
    /\ Dated(slide.exChangeList)
    /\ "retrieval" \in open /\ shown.settled =>
         /\ \A c \in Newest(calls, "BucketDeals") : c.arg.bucket = home.currentBucket
         /\ None("BucketDeals") =>
              \A d \in slide.exChangeList : ~d.late => d.of.bucket = home.currentBucket

RetrievalStays == "retrieval" \in open' /\ shown'.settled =>
                      /\ "retrieval" \in open /\ shown.settled
                      /\ home'.currentBucket = home.currentBucket

LEMMA RetrievalCarried ==
  ASSUME RetrievalInv, RetrievalStays, slide'.exChangeList = slide.exChangeList,
         \A c \in Newest(calls', "BucketDeals") : \E d \in Newest(calls, "BucketDeals") : c.arg = d.arg,
         None("BucketDeals")' => None("BucketDeals")
  PROVE  RetrievalInv'
BY DEF RetrievalInv, RetrievalStays, Newest, LastOf, Dated

LEMMA RetrievalSpared ==
  ASSUME TypeInv, TypeInv', RetrievalInv, RetrievalStays, slide'.exChangeList = slide.exChangeList,
         NEW H, NEW F, NEW S, NEW N, NEW ops, Touches(H, F, S, N, ops), "BucketDeals" \notin ops
  PROVE  RetrievalInv'
<1>1. "BucketDeals" \in AllOps
  BY DEF AllOps, MenuOps
<1>2. /\ None("BucketDeals")' <=> None("BucketDeals")
      /\ Newest(calls', "BucketDeals") \subseteq Newest(calls, "BucketDeals")
  BY <1>1, OpSpared
<1>3. QED
  BY <1>2, RetrievalCarried

LEMMA RetrievalStill ==
  ASSUME TypeInv, NEW H, NEW F, NEW S, NEW N, NEW ops, Touches(H, F, S, N, ops), "settled" \notin N,
         "currentBucket" \notin H, SideOf(open') \subseteq SideOf(open)
  PROVE  RetrievalStays
<1>1. shown'.settled = shown.settled /\ home'.currentBucket = home.currentBucket
  BY DEF Touches, Sets, TypeInv, IsShown, ShownFields, IsHome, HomeFields
<1>2. QED
  BY <1>1 DEF RetrievalStays, SideOf

LEMMA RetrievalIfGoing ==
  ASSUME Inv, RetrievalInv, Going
  PROVE  RetrievalInv'
<1>1. TypeInv
  BY DEF Inv
<1>2. ASSUME NEW b, GetListBucket(b), Aside PROVE RetrievalInv'
  <2>1. "retrieval" \notin open' /\ slide' = slide
    BY <1>2 DEF GetListBucket, Aside, menuVars
  <2>2. QED
    BY <2>1 DEF RetrievalInv, Dated
<1>3. ASSUME NEW n, MenuGoes(n), ~RetrievalFun, UNCHANGED deal PROVE RetrievalInv'
  <2>1. open' \in {{"menu"}, {"homeshare"}, {"retrieval"}} /\ open' # {"retrieval"}
    BY <1>1, <1>3, MenuGoesStep
  <2>2. slide'.exChangeList = slide.exChangeList
    <3>1. slide' = slide \/ slide' = [slide EXCEPT !.on = n]
      BY <1>3 DEF MenuGoes, CaozuoFun, BackupFun, menuVars
    <3>2. QED
      BY <1>1, <3>1 DEF TypeInv, IsSlide, SlideFields
  <2>3. "retrieval" \notin open'
    BY <2>1
  <2>4. QED
    BY <2>2, <2>3 DEF RetrievalInv, Dated
<1>4. CASE RetrievalFun /\ UNCHANGED deal
  <2> DEFINE b == <<slide.on>>
             c == ListCall(b, <<>>)
             e == BucketDealsCall(b)
             cs == <<c, e>>
  <2>1. UserSends(cs) /\ SlideClick(b) /\ Sequence(cs) /\ Of(cs) = {c, e}
    BY <1>4, Pair DEF RetrievalFun
  <2>2. c.op = "ListObjects" /\ e.op = "BucketDeals" /\ e.arg.bucket = b
    BY DEF ListCall, BucketDealsCall, Request
  <2>3. slide'.exChangeList = {}
    BY <1>1, <1>4 DEF RetrievalFun, TypeInv, IsSlide, SlideFields
  <2>4. home'.currentBucket = b
    BY <1>1, <2>1, SlideClicks
  <2> HIDE DEF b, c, e, cs
  <2>5. \E d \in Of(cs) : d.op = "BucketDeals"
    BY <2>1, <2>2
  <2>6. \A d \in Newest(calls', "BucketDeals") : d \in Of(cs) /\ d.op = "BucketDeals"
    BY <1>1, <2>1, <2>5, OpAsked
  <2>7. \A d \in Newest(calls', "BucketDeals") : d.arg.bucket = home'.currentBucket
    BY <2>1, <2>2, <2>4, <2>6
  <2>8. QED
    BY <2>3, <2>7 DEF RetrievalInv, Dated, Newest, LastOf
<1>5. QED
  BY <1>2, <1>3, <1>4 DEF Going, MenuGoes

LEMMA RetrievalIfListed ==
  ASSUME Inv, RetrievalInv, NEW i \in DOMAIN calls, BucketDealsListed(i), UNCHANGED deal
  PROVE  RetrievalInv'
<1> DEFINE c == calls[i]
           op == "BucketDeals"
<1>1. /\ TypeInv /\ UNCHANGED <<open, shown, home>>
      /\ c.op = op /\ Overtakes(i, Earlier(i), <<>>)
      /\ slide'.exChangeList = {[of |-> c.arg, late |-> c.late]}
  BY BucketDealsListedStep DEF Inv, pageVars
<1>2. /\ Newest(calls', op) \subseteq Newest(calls, op)
      /\ None(op)' /\ ~c.late => c \in Newest(calls, op)
  BY <1>1, OpFinished
<1>3. \A d \in slide'.exChangeList : "late" \in DOMAIN d /\ d.of = c.arg /\ d.late = c.late
  BY <1>1
<1>5. QED
  BY <1>1, <1>2, <1>3 DEF RetrievalInv, Newest, LastOf, Dated

LEMMA RetrievalIfDropped ==
  ASSUME Inv, RetrievalInv, NEW i \in DOMAIN calls, MenuDropped(i), UNCHANGED deal
  PROVE  RetrievalInv'
<1> DEFINE c == calls[i]
           op == "BucketDeals"
<1>1. /\ TypeInv /\ TypeInv' /\ UNCHANGED <<open, shown, home>>
      /\ Overtakes(i, Earlier(i), <<>>) /\ Touches({}, {}, {}, {}, {c.op})
      /\ slide'.exChangeList = IF c.op = op THEN Old(slide.exChangeList) ELSE slide.exChangeList
  BY MenuDroppedStep DEF Inv, pageVars
<1>2. CASE c.op = op
  <2>1. Newest(calls', op) \subseteq Newest(calls, op)
    BY <1>1, <1>2, OpFinished
  <2>2. Dated(slide'.exChangeList) /\ \A d \in slide'.exChangeList : d.late
    BY <1>1, <1>2, OldAreLate DEF RetrievalInv
  <2>3. QED
    BY <1>1, <2>1, <2>2 DEF RetrievalInv, Newest, LastOf, Dated
<1>3. CASE c.op # op
  <2> DEFINE ops == {c.op}
  <2>1. Touches({}, {}, {}, {}, ops) /\ op \notin ops
    BY <1>1, <1>3
  <2> HIDE DEF ops
  <2>2. QED
    BY <1>1, <1>3, <2>1, RetrievalSpared DEF RetrievalStays
<1>4. QED
  BY <1>2, <1>3

LEMMA RetrievalIfMinding ==
  ASSUME Inv, RetrievalInv, Minding
  PROVE  RetrievalInv'
<1>1. TypeInv /\ TypeInv' /\ UNCHANGED deal
  BY MindingStep DEF Inv, Minding
<1>2. CASE MenuAsks
  <2>1. /\ Touches({}, {}, {}, {}, {"ListAllBucketPolicies", "SetBucketPolicy", "DeleteBucket"})
        /\ UNCHANGED <<home, shown>> /\ Sets(slide, slide', {"titlePolicy"})
        /\ SideOf(open') \subseteq SideOf(open) \/ DialogFun
    BY <1>1, <1>2, MenuAsksStep
  <2>2. slide'.exChangeList = slide.exChangeList
    BY <1>1, <2>1 DEF Sets, TypeInv, IsSlide, SlideFields
  <2>3. RetrievalStays
    BY <2>1 DEF RetrievalStays, SideOf, DialogFun
  <2>4. QED
    BY <1>1, <2>1, <2>2, <2>3, RetrievalSpared
<1>3. ASSUME NEW i \in DOMAIN calls, SetBucketPolicy(i) PROVE RetrievalInv'
  BY <1>1, <1>3, SetPolicyStep, RetrievalSpared DEF RetrievalStays, pageVars, SetOps
<1>4. ASSUME NEW i \in DOMAIN calls, PoliciesListed(i) PROVE RetrievalInv'
  <2>1. /\ UNCHANGED pageVars /\ slide'.exChangeList = slide.exChangeList
        /\ Touches({}, {}, {}, {}, {"ListAllBucketPolicies"})
    BY <1>1, <1>4, PoliciesListedStep DEF Sets, TypeInv, IsSlide, SlideFields
  <2>2. QED
    BY <1>1, <2>1, RetrievalSpared DEF RetrievalStays, pageVars
<1>5. ASSUME NEW i \in DOMAIN calls, Relists(i) PROVE RetrievalInv'
  BY <1>1, <1>5, RelistStep, RetrievalSpared DEF RetrievalStays, pageVars, menuVars
<1>6. QED
  BY <1>1, <1>2, <1>3, <1>4, <1>5, RetrievalIfListed, RetrievalIfDropped DEF Minding, Tending

LEMMA RetrievalKept ==
  ASSUME Inv, SideInv, RetrievalInv, [Next]_vars
  PROVE  RetrievalInv'
<1>1. TypeInv /\ TypeInv'
  BY InvKept DEF Inv
<1>2. CASE Resting
  BY <1>1, <1>2, RestingStep, RetrievalSpared, RetrievalStill
<1>3. CASE Dealing
  BY <1>1, <1>3, DealingStep, RetrievalSpared, RetrievalStill DEF DealOps, DealApis
<1>4. CASE Minding
  BY <1>4, RetrievalIfMinding
<1>5. CASE Going
  BY <1>5, RetrievalIfGoing
<1>6. CASE Walking
  BY <1>1, <1>6, WalkingStep, RetrievalSpared, RetrievalStill
<1>7. CASE Selecting
  BY <1>1, <1>7, SelectingStep, RetrievalSpared, RetrievalStill DEF PickOps
<1>8. CASE Moving
  <2>1. RetrievalStays
    BY <1>8, MovingStep DEF Unsettles, RetrievalStays, SideOf
  <2>2. QED
    BY <1>1, <1>8, <2>1, MovingStep, RetrievalSpared DEF MoveOps
<1>9. CASE Replying
  <2>1. UNCHANGED <<open, shown, home, slide>>
    BY <1>9, ReplyingStep DEF pageVars, menuVars
  <2>2. QED
    BY <1>9, <2>1, OpReplying, RetrievalCarried DEF RetrievalStays
<1>10. CASE Storing
  BY <1>1, <1>10, StoringStep, RetrievalSpared, RetrievalStill DEF StoreOps
<1>11. ASSUME NEW i \in DOMAIN calls, DeleteBucket(i), UNCHANGED deal PROVE RetrievalInv'
  <2>1. /\ UNCHANGED <<open, shown, home>> /\ Touches({}, {}, {}, {}, DeleteOps)
        /\ slide'.exChangeList = slide.exChangeList
    BY <1>1, <1>11, DeleteStep DEF Sets, TypeInv, IsSlide, SlideFields
  <2>2. QED
    BY <1>1, <2>1, RetrievalSpared DEF RetrievalStays, DeleteOps
<1>12. CASE Sharing
  BY <1>1, <1>12, SharingStep, RetrievalSpared, RetrievalStill
<1>13. CASE Opening
  BY <1>1, <1>13, OpeningStep, RetrievalSpared, RetrievalStill
<1>14. CASE Uploading
  BY <1>1, <1>14, UploadingStep, RetrievalSpared, RetrievalStill
<1>15. ASSUME NEW i \in DOMAIN calls, Handling(i), Aside PROVE RetrievalInv'
  <2> USE <1>1, <1>15
  <2>0. slide' = slide /\ SideOf(open') \subseteq SideOf(open)
    BY HandlingStep
  <2>1. CASE ObjectsListed(i)
    BY <2>0, <2>1, ObjectsListedStep, RetrievalSpared, RetrievalStill
  <2>2. CASE ObjectRemoved(i)
    BY <2>0, <2>2, ObjectRemovedStep, RetrievalSpared, RetrievalStill
  <2>3. CASE ProgressFunction(i)
    BY <2>0, <2>3, ProgressStep, RetrievalSpared, RetrievalStill
  <2>4. CASE Uploaded(i)
    <3>1. RetrievalStays
      <4>1. UNCHANGED <<open, shown>>
            /\ (home.currentBucket # <<>> => home'.currentBucket = home.currentBucket)
        BY <2>4, UploadedStep
      <4>2. "retrieval" \in open /\ shown.settled => home.currentBucket = <<slide.on>>
        BY DEF SideInv, SideOf
      <4>3. <<slide.on>> # <<>>
        OBVIOUS
      <4>4. QED
        BY <4>1, <4>2, <4>3 DEF RetrievalStays
    <3>2. QED
      BY <2>0, <2>4, <3>1, UploadedStep, RetrievalSpared
  <2>5. CASE LinkMade(i)
    BY <2>0, <2>5, LinkMadeStep, RetrievalSpared, RetrievalStill
  <2>6. CASE DealsListed(i)
    BY <2>0, <2>6, DealsListedStep, RetrievalSpared, RetrievalStill
  <2>7. CASE Dropped(i)
    BY <2>0, <2>7, DroppedStep, RetrievalSpared, RetrievalStill DEF PageOps
  <2>8. QED
    BY <2>1, <2>2, <2>3, <2>4, <2>5, <2>6, <2>7 DEF Handling
<1>16. CASE UNCHANGED vars
  BY <1>1, <1>16, StutterStep, RetrievalSpared, RetrievalStill
<1>17. QED
  BY <1>1, <1>2, <1>3, <1>4, <1>5, <1>6, <1>7, <1>8, <1>9, <1>10, <1>11, <1>12, <1>13, <1>14, <1>15,
     <1>16, EveryStep DEF Steps, Deleting

\* The deals are those of the row that is open, unless they are late or it was
\* opened while another bucket was listed, and of the bucket of the dialog,
\* unless they are late or the current bucket has changed (minio/index.vue
\* tableJson, retrievalDialog.vue getData).
THEOREM DealsFollow == Spec => []DealsOfWhatIsOpen
<1> DEFINE I == Inv /\ SideInv /\ RowInv /\ RetrievalInv
<1>1. Init => I
  <2>1. ASSUME Init PROVE I
    <3>1. Inv /\ Begun /\ fs3.expands = <<>> /\ fs3.exChangeList = {}
      BY <2>1, Begins
    <3>2. "retrieval" \notin open /\ slide.exChangeList = {}
      BY <3>1 DEF Begun
    <3>3. QED
      BY <2>1, <3>1, <3>2, SideBegins DEF RowInv, RetrievalInv, Dated
  <2>2. QED
    BY <2>1
<1>2. I /\ [Next]_vars => I'
  BY InvKept, SideKept, RowKept, RetrievalKept
<1>3. I => DealsOfWhatIsOpen
  <2>1. ASSUME I, Outstanding({"Retrieve"}) = {}, NEW d \in RowDeals, ~d.late,
               shown.opened # <<>>, shown.opened = shown.bucket
        PROVE  d.of.name = fs3.expands /\ d.of.bucket = shown.bucket
    <3>1. None("Retrieve")
      BY <2>1, NoneIsNone
    <3>2. QED
      BY <2>1, <3>1 DEF RowInv, OfRow, RowDeals
  <2>2. ASSUME I, Outstanding({"BucketDeals"}) = {}, shown.settled, NEW d \in RetrievalTable, ~d.late
        PROVE  d.of.bucket = home.currentBucket
    <3>1. None("BucketDeals")
      BY <2>2, NoneIsNone
    <3>2. QED
      BY <2>2, <3>1 DEF RetrievalInv, RetrievalTable
  <2>3. QED
    BY <2>1, <2>2 DEF DealsOfWhatIsOpen
<1>4. QED
  BY <1>1, <1>2, <1>3, PTL DEF Spec

----------------------------------------------------------------------------
(* What is fixed when a dialog opens, or a row is picked.  The handlers    *)
(* take a row of the table by its number, which is that of the row the     *)
(* user sees unless the table is sorted.                                   *)

LEMMA SortStays ==
  ASSUME TypeInv, NEW H, NEW F, NEW S, NEW N, NEW ops, Touches(H, F, S, N, ops), "sorted" \notin F
  PROVE  fs3'.sorted = fs3.sorted
BY DEF Touches, Sets, TypeInv, IsFs3, Fs3Fields

LEMMA SortKept ==
  ASSUME Inv, [Next]_vars
  PROVE  fs3'.sorted = fs3.sorted
<1>1. TypeInv
  BY DEF Inv
<1>2. CASE Resting \/ Dealing \/ Minding
  BY <1>2, RestingStep, DealingStep, MindingStep
<1>3. CASE Going
  BY <1>1, <1>3, GoingStep, SortStays DEF GoesToTop, ToTop
<1>4. CASE Walking
  BY <1>1, <1>4, WalkingStep, SortStays
<1>5. CASE Selecting
  BY <1>1, <1>5, SelectingStep, SortStays DEF Selection
<1>6. CASE Moving
  BY <1>1, <1>6, MovingStep, SortStays
<1>7. CASE Replying \/ Storing \/ Deleting
  BY <1>7, ReplyingStep, StoringStep, DeletingStep DEF pageVars
<1>8. CASE Sharing \/ Uploading
  BY <1>8, SharingStep, UploadingStep
<1>9. CASE Opening
  BY <1>1, <1>9, OpeningStep, SortStays
<1>10. ASSUME NEW i \in DOMAIN calls, Handling(i), Aside PROVE fs3'.sorted = fs3.sorted
  <2> USE <1>1, <1>10
  <2>1. CASE ObjectsListed(i)
    BY <2>1, ObjectsListedStep, SortStays
  <2>2. CASE ObjectRemoved(i)
    BY <2>2, ObjectRemovedStep, SortStays
  <2>3. CASE ProgressFunction(i) \/ LinkMade(i)
    BY <2>3, ProgressStep, LinkMadeStep
  <2>4. CASE Uploaded(i)
    BY <2>4, UploadedStep, SortStays DEF Selection
  <2>5. CASE DealsListed(i)
    BY <2>5, DealsListedStep, SortStays
  <2>6. CASE Dropped(i)
    BY <2>6, DroppedStep, SortStays
  <2>7. QED
    BY <2>1, <2>2, <2>3, <2>4, <2>5, <2>6 DEF Handling
<1>11. CASE UNCHANGED vars
  BY <1>11, StutterStep
<1>12. QED
  BY <1>1, <1>2, <1>3, <1>4, <1>5, <1>6, <1>7, <1>8, <1>9, <1>10, <1>11, EveryStep DEF Steps

\* A table has rows of a bucket only.
RowsInv == shown.bucket = <<>> => DOMAIN fs3.tableData = {}

LEMMA RowsSpared ==
  ASSUME TypeInv, RowsInv, NEW H, NEW F, NEW S, NEW N, NEW ops, Touches(H, F, S, N, ops),
         "bucket" \notin N, "tableData" \notin F \/ SameRows(fs3.tableData, fs3'.tableData)
  PROVE  RowsInv'
<1>1. shown'.bucket = shown.bucket
  BY DEF Touches, Sets, TypeInv, IsShown, ShownFields
<1>2. DOMAIN fs3'.tableData = DOMAIN fs3.tableData
  <2>1. CASE "tableData" \notin F
    BY <2>1 DEF Touches, Sets, TypeInv, IsFs3, Fs3Fields
  <2>2. CASE SameRows(fs3.tableData, fs3'.tableData)
    <3> DEFINE t == fs3.tableData
               u == fs3'.tableData
    <3>1. Sequence(t) /\ SameRows(t, u)
      BY <2>2 DEF TypeInv, IsFs3, IsTable
    <3> HIDE DEF t, u
    <3>2. DOMAIN u = DOMAIN t
      BY <3>1, SameNames
    <3>3. QED
      BY <3>2 DEF t, u
  <2>3. QED
    BY <2>1, <2>2
<1>3. QED
  BY <1>1, <1>2 DEF RowsInv

LEMMA RowsIfHandled ==
  ASSUME Inv, RowsInv, NEW i \in DOMAIN calls, Handling(i), Aside
  PROVE  RowsInv'
<1>1. TypeInv
  BY DEF Inv
<1>2. CASE ObjectsListed(i)
  <2> DEFINE c == calls[i]
  <2>1. c.op = "ListObjects" /\ c.state = "answered" /\ c.reply.ok /\ shown'.bucket = c.arg.bucket
    BY <1>1, <1>2, ObjectsListedStep
  <2>2. IsCall(c)
    BY <1>1, CallAt DEF TypeInv
  <2>3. Len(c.arg.bucket) = 1
    BY <2>1, <2>2 DEF IsCall, Answers
  <2>4. c.arg.bucket # <<>>
    BY <2>3, Empty
  <2>5. QED
    BY <2>1, <2>4 DEF RowsInv
<1>3. CASE ObjectRemoved(i)
  <2> DEFINE rows == Only(fs3.tableData,
                          {k \in DOMAIN fs3.tableData : fs3.tableData[k].name # calls[i].arg.name})
  <2>1. /\ fs3'.tableData = rows /\ Of(rows) \subseteq Of(fs3.tableData)
        /\ Sets(shown, shown', {"fresh"})
    BY <1>1, <1>3, ObjectRemovedStep DEF Touches
  <2> HIDE DEF rows
  <2>2. shown'.bucket = shown.bucket
    BY <1>1, <2>1 DEF Sets, TypeInv, IsShown, ShownFields
  <2>3. DOMAIN fs3.tableData = {} => DOMAIN rows = {}
    BY <2>1 DEF Of
  <2>4. QED
    BY <2>1, <2>2, <2>3 DEF RowsInv
<1>4. CASE ProgressFunction(i)
  BY <1>1, <1>4, ProgressStep, RowsSpared
<1>5. CASE Uploaded(i)
  BY <1>1, <1>5, UploadedStep, RowsSpared
<1>6. CASE LinkMade(i)
  BY <1>1, <1>6, LinkMadeStep, RowsSpared
<1>7. CASE DealsListed(i)
  BY <1>1, <1>7, DealsListedStep, RowsSpared
<1>8. CASE Dropped(i)
  BY <1>1, <1>8, DroppedStep, RowsSpared
<1>9. QED
  BY <1>2, <1>3, <1>4, <1>5, <1>6, <1>7, <1>8 DEF Handling

LEMMA RowsKept ==
  ASSUME Inv, RowsInv, [Next]_vars
  PROVE  RowsInv'
<1>1. TypeInv
  BY DEF Inv
<1>2. CASE Resting
  BY <1>1, <1>2, RestingStep, RowsSpared
<1>3. CASE Dealing
  BY <1>1, <1>3, DealingStep, RowsSpared
<1>4. CASE Minding
  BY <1>1, <1>4, MindingStep, RowsSpared
<1>5. CASE Going
  <2>1. PICK n : SlideClick(<<n>>) /\ ToTop(GoOps)
    BY <1>5, GoingStep DEF GoesToTop
  <2>2. SameRows(fs3.tableData, fs3'.tableData)
    BY <1>1, <2>1, SlideClicks
  <2>3. QED
    BY <1>1, <2>1, <2>2, RowsSpared DEF ToTop
<1>6. CASE Walking
  BY <1>1, <1>6, WalkingStep, RowsSpared
<1>7. CASE Selecting
  BY <1>1, <1>7, SelectingStep, RowsSpared
<1>8. CASE Moving
  BY <1>1, <1>8, MovingStep, RowsSpared
<1>9. CASE Replying
  BY <1>1, <1>9, ReplyingStep, RowsSpared
<1>10. CASE Storing
  BY <1>1, <1>10, StoringStep, RowsSpared
<1>11. CASE Deleting
  BY <1>1, <1>11, DeletingStep, RowsSpared
<1>12. CASE Sharing
  BY <1>1, <1>12, SharingStep, RowsSpared
<1>13. CASE Opening
  BY <1>1, <1>13, OpeningStep, RowsSpared
<1>14. CASE Uploading
  BY <1>1, <1>14, UploadingStep, RowsSpared
<1>15. CASE UNCHANGED vars
  BY <1>1, <1>15, StutterStep, RowsSpared
<1>16. QED
  BY <1>1, <1>2, <1>3, <1>4, <1>5, <1>6, <1>7, <1>8, <1>9, <1>10, <1>11, <1>12, <1>13, <1>14, <1>15,
     RowsIfHandled, EveryStep DEF Steps

----------------------------------------------------------------------------
(* What is picked.                                                         *)

PickInv ==
    ~fs3.sorted /\ picked.calm =>
        /\ Of(fs3.deleteDialogIndex) = picked.names
        /\ home.currentBucket = picked.at /\ picked.at # <<>>
        /\ fs3.drawIndex \in {0, Len(fs3.deleteDialogIndex)}

LEMMA PickCarried ==
  ASSUME PickInv, fs3'.sorted = fs3.sorted,
         picked'.calm => /\ picked.calm /\ picked'.names = picked.names /\ picked'.at = picked.at
                         /\ fs3'.deleteDialogIndex = fs3.deleteDialogIndex
                         /\ fs3'.drawIndex = fs3.drawIndex
                         /\ home'.currentBucket = home.currentBucket
  PROVE  PickInv'
BY DEF PickInv, Of

LEMMA PickSpared ==
  ASSUME TypeInv, PickInv, picked' = picked, NEW H, NEW F, NEW S, NEW N, NEW ops,
         Touches(H, F, S, N, ops), "currentBucket" \notin H, "deleteDialogIndex" \notin F,
         "drawIndex" \notin F, "sorted" \notin F
  PROVE  PickInv'
<1>1. /\ fs3'.sorted = fs3.sorted /\ fs3'.deleteDialogIndex = fs3.deleteDialogIndex
      /\ fs3'.drawIndex = fs3.drawIndex /\ home'.currentBucket = home.currentBucket
  BY DEF Touches, Sets, TypeInv, IsFs3, Fs3Fields, IsHome, HomeFields
<1>2. QED
  BY <1>1, PickCarried

LEMMA NothingPicked ==
  ASSUME picked' = NoPick
  PROVE  PickInv'
BY DEF PickInv, NoPick

LEMMA PickIfSelecting ==
  ASSUME Inv, RowsInv, PickInv, Selecting
  PROVE  PickInv'
<1>1. TypeInv /\ Aside /\ home' = home
  BY SelectingStep DEF Inv, Selecting
<1>2. CASE Unselects
  BY <1>1, <1>2, UnselectStep, NothingPicked
<1>3. ASSUME NEW i \in DOMAIN calls, Downloaded(i) PROVE PickInv'
  BY <1>1, <1>3, DownloadedStep, NothingPicked
<1>4. ASSUME NEW i \in DOMAIN fs3.tableData, DrawPlay(i) \/ DeleteBtn(i) PROVE PickInv'
  <2>1. /\ fs3'.drawIndex \in {0, Len(fs3'.deleteDialogIndex)}
        /\ picked'.calm => SameBucket /\ picked'.at = shown.bucket
        /\ picked'.calm /\ ~fs3.sorted => picked'.names = Of(fs3'.deleteDialogIndex)
        /\ Touches({}, Selection, {}, {}, {})
    BY <1>1, <1>4, DrawPlayStep, DeleteBtnStep
  <2>2. fs3'.sorted = fs3.sorted
    BY <1>1, <2>1, SortStays DEF Selection
  <2>3. shown.bucket # <<>>
    BY DEF RowsInv
  <2>4. QED
    BY <1>1, <2>1, <2>2, <2>3 DEF PickInv, SameBucket, Of
<1>5. ASSUME NEW i \in DOMAIN fs3.tableData, Shares(i) PROVE PickInv'
  BY <1>1, <1>5, ShareStep, NothingPicked
<1>6. QED
  BY <1>2, <1>3, <1>4, <1>5 DEF Selecting, Picking

LEMMA PickKept ==
  ASSUME Inv, RowsInv, PickInv, [Next]_vars
  PROVE  PickInv'
<1>1. TypeInv
  BY DEF Inv
<1>2. CASE Resting
  BY <1>1, <1>2, RestingStep, PickSpared
<1>3. CASE Dealing
  BY <1>1, <1>3, DealingStep, PickSpared
<1>4. CASE Minding
  BY <1>1, <1>4, MindingStep, PickSpared
<1>5. CASE Going
  BY <1>1, <1>5, GoingStep, SlideClicks, NothingPicked DEF GoesToTop
<1>6. CASE Walking
  BY <1>1, <1>6, WalkingStep, PickSpared
<1>7. CASE Selecting
  BY <1>7, PickIfSelecting
<1>8. CASE Moving
  <2>1. /\ Unsettles /\ Sets(fs3, fs3', {"currentBucketAll", "prefixName"})
        /\ DOMAIN picked = {"names", "at", "calm"}
    BY <1>1, <1>8, MovingStep DEF Touches, TypeInv
  <2>2. /\ fs3'.sorted = fs3.sorted /\ fs3'.deleteDialogIndex = fs3.deleteDialogIndex
        /\ fs3'.drawIndex = fs3.drawIndex
    BY <1>1, <2>1 DEF Sets, TypeInv, IsFs3, Fs3Fields
  <2>3. picked'.names = picked.names /\ picked'.at = picked.at
    BY <2>1 DEF Unsettles, Sets
  <2>4. QED
    BY <2>1, <2>2, <2>3, PickCarried DEF Unsettles
<1>9. CASE Replying
  BY <1>1, <1>9, ReplyingStep, PickSpared DEF pageVars
<1>10. CASE Storing
  BY <1>1, <1>10, StoringStep, PickSpared
<1>11. CASE Deleting
  BY <1>1, <1>11, DeletingStep, PickSpared
<1>12. CASE Sharing
  BY <1>1, <1>12, SharingStep, PickSpared
<1>13. CASE Opening
  BY <1>1, <1>13, OpeningStep, PickSpared
<1>14. CASE Uploading
  BY <1>1, <1>14, UploadingStep, PickSpared
<1>15. ASSUME NEW i \in DOMAIN calls, Handling(i), Aside PROVE PickInv'
  <2> USE <1>1, <1>15
  <2>1. CASE ObjectsListed(i)
    BY <2>1, ObjectsListedStep, PickSpared
  <2>2. CASE ObjectRemoved(i)
    BY <2>2, ObjectRemovedStep, PickSpared
  <2>3. CASE ProgressFunction(i)
    BY <2>3, ProgressStep, PickSpared
  <2>4. CASE Uploaded(i)
    BY <2>4, UploadedStep, NothingPicked
  <2>5. CASE LinkMade(i)
    BY <2>5, LinkMadeStep, PickSpared
  <2>6. CASE DealsListed(i)
    BY <2>6, DealsListedStep, PickSpared
  <2>7. CASE Dropped(i)
    BY <2>7, DroppedStep, PickSpared
  <2>8. QED
    BY <2>1, <2>2, <2>3, <2>4, <2>5, <2>6, <2>7 DEF Handling
<1>16. CASE UNCHANGED vars
  BY <1>1, <1>16, StutterStep, PickSpared
<1>17. QED
  BY <1>1, <1>2, <1>3, <1>4, <1>5, <1>6, <1>7, <1>8, <1>9, <1>10, <1>11, <1>12, <1>13, <1>14, <1>15,
     <1>16, EveryStep DEF Steps

LEMMA RowsBegin ==
  ASSUME Init
  PROVE  RowsInv
<1>1. Begun /\ shown = AtFirst(home.currentBucket)
      /\ (home.currentBucket = <<>> => fs3.tableData = <<>>)
  BY Begins
<1>2. QED
  BY <1>1 DEF RowsInv, AtFirst

\* The bucket that a path of one bucket begins with.
LEMMA FirstOfPath ==
  ASSUME NEW b, NEW p, Sequence(b), Len(b) <= 1, b # <<>>, p \in Seq(STRING)
  PROVE  SubSeq(b \o p, 1, 1) = b
<1> DEFINE X == Of(b) \cup STRING
           s == b \o p
           t == SubSeq(s, 1, 1)
<1>1. b \in Seq(Of(b)) /\ Len(b) \in Nat
  BY DEF Sequence
<1>2. Len(b) = 1
  <2> DEFINE n == Len(b)
  <2>1. n # 0 /\ n \in Nat /\ n <= 1
    BY <1>1, EmptySeq
  <2> HIDE DEF X, s, t, n
  <2>2. n = 1
    BY <2>1
  <2>3. QED
    BY <2>2 DEF n
<1>3. b \in Seq(X) /\ p \in Seq(X)
  BY <1>1
<1> HIDE DEF X
<1>4. /\ s \in Seq(X) /\ Len(s) >= 1 /\ s[1] = b[1]
  BY <1>2, <1>3
<1> HIDE DEF s
<1>5. t \in Seq(X) /\ Len(t) = 1 /\ t[1] = s[1]
  BY <1>4
<1> HIDE DEF t
<1>6. t = b
  BY <1>2, <1>3, <1>4, <1>5
<1>7. QED
  BY <1>6 DEF t, s

\* In a table that is not sorted, "Delete" acts on what the user has picked, in
\* the bucket where it was picked, while no answer has changed the bucket since,
\* and "Download" does too while the header follows Home (minio/index.vue).
THEOREM PicksActOnRows == Spec => [](~fs3.sorted => ActsOnPicked)
<1> DEFINE I == Inv /\ HeadInv /\ RowsInv /\ PickInv
<1>1. Init => I
  <2>1. ASSUME Init PROVE I
    <3>1. Inv /\ Begun
      BY <2>1, Begins
    <3>2. PickInv
      BY <3>1 DEF PickInv, Begun
    <3>3. QED
      BY <2>1, <3>1, <3>2, HeadBegins, RowsBegin
  <2>2. QED
    BY <2>1
<1>2. I /\ [Next]_vars => I'
  BY InvKept, HeadKept, RowsKept, PickKept
<1>3. I => (~fs3.sorted => ActsOnPicked)
  <2>1. SUFFICES ASSUME I, ~fs3.sorted, picked.calm
                 PROVE  ActsOnPicked
    BY DEF ActsOnPicked
  <2>2. /\ Of(fs3.deleteDialogIndex) = picked.names
        /\ home.currentBucket = picked.at /\ picked.at # <<>>
        /\ fs3.drawIndex \in {0, Len(fs3.deleteDialogIndex)}
    BY <2>1 DEF PickInv
  <2>3. ASSUME shown.followed PROVE DownloadBucket = picked.at
    <3> DEFINE b == home.currentBucket
               p == home.prefixData
    <3>1. /\ fs3.currentBucketAll = b \o p /\ Len(b) <= 1
          /\ Sequence(b) /\ p \in Seq(STRING) /\ b # <<>>
      BY <2>1, <2>2, <2>3 DEF HeadInv, Inv, TypeInv, IsHome, IsPath
    <3> HIDE DEF b, p
    <3>2. SubSeq(b \o p, 1, 1) = b
      BY <3>1, FirstOfPath
    <3>3. QED
      BY <2>2, <3>1, <3>2 DEF DownloadBucket, b
  <2>4. QED
    BY <2>2, <2>3 DEF ActsOnPicked, Of, Range
<1>4. QED
  BY <1>1, <1>2, <1>3, PTL DEF Spec

----------------------------------------------------------------------------
(* What the dialog that shares an object is about.                         *)

\* A step leaves the dialog as it is, or disturbs it.
ShareStays == /\ share'.calm => share.calm
              /\ \A k \in {"mode", "name", "at", "postAdress"} : share'[k] = share[k]

LEMMA ShareStill ==
  ASSUME TypeInv, NEW H, NEW F, NEW S, NEW N, NEW ops, Touches(H, F, S, N, ops),
         S \subseteq {"num", "link", "fresh"}
  PROVE  ShareStays
BY DEF ShareStays, Touches, Sets, TypeInv, IsShare, ShareFields

LEMMA ShareDisturbed ==
  ASSUME TypeInv, NEW H, NEW F, NEW S, NEW N, NEW ops, Touches(H, F, S, N, ops),
         S \subseteq {"calm"}, share'.calm => share.calm
  PROVE  ShareStays
BY DEF ShareStays, Touches, Sets, TypeInv, IsShare, ShareFields

\* A deal for an object is posted under the bucket and the name of its row.
ShareInv ==
    ~fs3.sorted /\ share.calm /\ share.mode = "deal" =>
        share.postAdress = share.at \o share.name /\ Len(share.postAdress) > 1

LEMMA ShareCarried ==
  ASSUME ShareInv, fs3'.sorted = fs3.sorted, ShareStays
  PROVE  ShareInv'
<1>1. /\ share'.mode = share.mode /\ share'.name = share.name /\ share'.at = share.at
      /\ share'.postAdress = share.postAdress /\ (share'.calm => share.calm)
  BY DEF ShareStays
<1>2. QED
  BY <1>1 DEF ShareInv

LEMMA LongAddress ==
  ASSUME NEW b, Sequence(b), b # <<>>, NEW name \in ObjectName
  PROVE  Len(b \o name) > 1
<1>1. Sequence(name) /\ name # <<>>
  BY InSeq DEF ObjectName
<1>2. Len(b) \in Nat /\ Len(name) \in Nat
  BY <1>1, Indices
<1>3. Len(b) # 0 /\ Len(name) # 0
  BY <1>1, EmptySeq DEF Sequence
<1>4. Len(b \o name) = Len(b) + Len(name)
  BY <1>1, Joined
<1> DEFINE m == Len(b)
           n == Len(name)
<1>5. m \in Nat /\ n \in Nat /\ m # 0 /\ n # 0 /\ Len(b \o name) = m + n
  BY <1>2, <1>3, <1>4
<1> HIDE DEF m, n
<1>6. QED
  BY <1>5

LEMMA ShareIfSelecting ==
  ASSUME Inv, RowsInv, ShareInv, Selecting
  PROVE  ShareInv'
<1>1. TypeInv /\ Aside /\ fs3'.sorted = fs3.sorted
  BY SelectingStep, SortStays DEF Inv, Selecting, Selection
<1>2. CASE share' = share
  BY <1>1, <1>2, ShareCarried DEF ShareStays
<1>3. CASE Unselects \/ (\E i \in DOMAIN calls : Downloaded(i))
           \/ (\E i \in DOMAIN fs3.tableData : DrawPlay(i) \/ DeleteBtn(i))
  BY <1>1, <1>2, <1>3, UnselectStep, DownloadedStep, DrawPlayStep, DeleteBtnStep
<1>4. ASSUME NEW i \in DOMAIN fs3.tableData, ShareBtn(i) PROVE ShareInv'
  <2>1. share'.mode = "link"
    BY <1>1, <1>4, ShareStep DEF Shares, ShareFrom
  <2>2. QED
    BY <2>1 DEF ShareInv
<1>5. ASSUME NEW i \in DOMAIN fs3.tableData, ShareToFil(i) PROVE ShareInv'
  <2> DEFINE name == fs3.tableData[i].name
             b == home.currentBucket
  <2>1. /\ share'.name = SeenRow(i).name /\ share'.at = shown.bucket /\ (share'.calm <=> SameBucket)
        /\ share'.postAdress = b \o name
    BY <1>1, <1>5, ShareStep DEF Shares, ShareFrom
  <2>2. name \in ObjectName /\ (~fs3.sorted => SeenRow(i).name = name)
    BY <1>1, SeenRows DEF TypeInv
  <2>3. shown.bucket # <<>> /\ Sequence(b)
    BY <1>1 DEF RowsInv, TypeInv, IsHome, IsPath
  <2> HIDE DEF name, b
  <2>4. b # <<>> => Len(b \o name) > 1
    BY <2>2, <2>3, LongAddress
  <2>5. SameBucket => shown.bucket = b
    BY DEF SameBucket, b
  <2>6. QED
    BY <1>1, <2>1, <2>2, <2>3, <2>4, <2>5 DEF ShareInv
<1>6. QED
  BY <1>3, <1>4, <1>5 DEF Selecting, Picking, Shares

LEMMA ShareKept ==
  ASSUME Inv, RowsInv, ShareInv, [Next]_vars
  PROVE  ShareInv'
<1>1. TypeInv /\ fs3'.sorted = fs3.sorted
  BY SortKept DEF Inv
<1>2. CASE Resting \/ Dealing \/ Minding \/ Walking \/ Storing \/ Deleting \/ Opening \/ Uploading
  <2>1. share' = share
    BY <1>2, RestingStep, DealingStep, MindingStep, WalkingStep, StoringStep, DeletingStep, OpeningStep,
       UploadingStep
  <2>2. QED
    BY <1>1, <2>1, ShareCarried DEF ShareStays
<1>3. CASE Replying
  BY <1>1, <1>3, ReplyingStep, ShareCarried DEF ShareStays, pageVars
<1>4. CASE Going
  <2>1. PICK n : SlideClick(<<n>>) /\ ToTop(GoOps)
    BY <1>4, GoingStep DEF GoesToTop
  <2>2. share'.calm => share.calm
    BY <1>1, <2>1, SlideClicks
  <2>3. ShareStays
    BY <1>1, <2>1, <2>2, ShareDisturbed DEF ToTop
  <2>4. QED
    BY <1>1, <2>3, ShareCarried
<1>5. CASE Selecting
  BY <1>5, ShareIfSelecting
<1>6. CASE Moving
  <2>1. ShareStays
    BY <1>1, <1>6, MovingStep, ShareDisturbed DEF Unsettles
  <2>2. QED
    BY <1>1, <2>1, ShareCarried
<1>7. CASE Sharing
  <2>1. ShareStays
    BY <1>1, <1>7, SharingStep, ShareStill
  <2>2. QED
    BY <1>1, <2>1, ShareCarried
<1>8. ASSUME NEW i \in DOMAIN calls, Handling(i), Aside PROVE ShareInv'
  <2> USE <1>1, <1>8
  <2>1. ShareStays
    <3>1. CASE ObjectsListed(i)
      BY <3>1, ObjectsListedStep, ShareDisturbed
    <3>2. CASE ObjectRemoved(i)
      BY <3>2, ObjectRemovedStep, ShareDisturbed
    <3>3. CASE ProgressFunction(i) \/ Uploaded(i) \/ DealsListed(i)
      BY <3>3, ProgressStep, UploadedStep, DealsListedStep DEF ShareStays
    <3>4. CASE LinkMade(i)
      BY <3>4, LinkMadeStep, ShareStill
    <3>5. CASE Dropped(i)
      BY <3>5, DroppedStep, ShareStill
    <3>6. QED
      BY <3>1, <3>2, <3>3, <3>4, <3>5 DEF Handling
  <2>2. QED
    BY <2>1, ShareCarried
<1>9. CASE UNCHANGED vars
  BY <1>1, <1>9, StutterStep, ShareCarried DEF ShareStays
<1>10. QED
  BY <1>1, <1>2, <1>3, <1>4, <1>5, <1>6, <1>7, <1>8, <1>9, EveryStep DEF Steps

----------------------------------------------------------------------------
(* The deals that are posted.                                              *)

SentDeals ==
    ~fs3.sorted => \A c \in Of(calls) : c.op \in DealApis /\ c.arg.calm =>
        c.arg.adress = c.arg.wanted /\ (c.op = "deal" <=> Len(c.arg.adress) > 1)

LEMMA SentCarried ==
  ASSUME SentDeals, fs3'.sorted = fs3.sorted,
         \A c \in Of(calls') : c.op \in DealApis =>
             \E e \in Of(calls) : c.op = e.op /\ c.arg = e.arg
  PROVE  SentDeals'
<1>1. ASSUME ~fs3.sorted, NEW c \in Of(calls'), c.op \in DealApis, c.arg.calm
      PROVE  c.arg.adress = c.arg.wanted /\ (c.op = "deal" <=> Len(c.arg.adress) > 1)
  <2>1. PICK e \in Of(calls) : c.op = e.op /\ c.arg = e.arg
    BY <1>1
  <2>2. QED
    BY <1>1, <2>1 DEF SentDeals
<1>2. Of(calls)' = Of(calls')
  BY DEF Of
<1>3. QED
  BY <1>1, <1>2 DEF SentDeals

LEMMA SentSpared ==
  ASSUME TypeInv, SentDeals, fs3'.sorted = fs3.sorted,
         NEW H, NEW F, NEW S, NEW N, NEW ops, Touches(H, F, S, N, ops), ops \cap DealApis = {}
  PROVE  SentDeals'
<1>1. ASSUME NEW c \in Of(calls'), c.op \in DealApis PROVE c \in Of(calls)
  <2> DEFINE op == c.op
  <2>1. op \in AllOps /\ op \notin ops
    BY <1>1 DEF AllOps, DealOps
  <2> HIDE DEF op
  <2>2. \A e : e.op = op => (e \in Of(calls') <=> e \in Of(calls))
    BY <2>1, OfSpared
  <2>3. QED
    BY <1>1, <2>2 DEF op
<1>2. QED
  BY <1>1, SentCarried

\* What is posted now is what the dialog is about, while nothing disturbs it.
LEMMA NewDealIsWanted ==
  ASSUME ShareInv, SideInv, ~fs3.sorted, NEW c, IsNewDeal(c), c.arg.calm
  PROVE  c.arg.adress = c.arg.wanted /\ (c.op = "deal" <=> Len(c.arg.adress) > 1)
<1>1. PICK d \in Dialogs : \E form :
         /\ Shows(d)
         /\ \/ d = "share" /\ c = DealCall(d, "deal", form)
            \/ d = "homeshare" /\ (c = DealCall(d, "deals", form) \/ c = DealCall(d, "offlinedeals", form))
  BY DEF IsNewDeal
<1>2. /\ c.arg.adress = PostAdress(d) /\ c.arg.wanted = OpenedFor(d) /\ Undisturbed(d)
      /\ Shows(d)
      /\ \/ d = "share" /\ c.op = "deal"
         \/ d = "homeshare" /\ c.op \in {"deals", "offlinedeals"}
  BY <1>1 DEF DealCall, Request
<1>3. CASE d = "share"
  BY <1>2, <1>3 DEF PostAdress, OpenedFor, Undisturbed, Shows, ShareInv
<1>4. CASE d = "homeshare"
  <2>1. "homeshare" \in SideOf(open) /\ shown.settled
    BY <1>2, <1>4 DEF Shows, SideOf, Undisturbed
  <2>2. home.currentBucket = <<slide.on>> /\ Len(<<slide.on>>) = 1
    BY <2>1, Single DEF SideInv
  <2>3. QED
    BY <1>2, <1>4, <2>2 DEF PostAdress, OpenedFor
<1>5. QED
  BY <1>2, <1>3, <1>4

LEMMA SentIfDealing ==
  ASSUME Inv, ShareInv, SideInv, SentDeals, Dealing
  PROVE  SentDeals'
<1>1. TypeInv /\ Located /\ CallsOK /\ fs3' = fs3
  BY DealingStep DEF Inv, TypeInv
<1>2. CASE Fills
  BY <1>1, <1>2, FillStep, SentSpared
<1>3. CASE Submits
  <2>1. \A c \in Of(calls') : c \in Of(calls) \/ IsNewDeal(c)
    BY <1>1, <1>3, SubmitStep
  <2>2. Of(calls)' = Of(calls')
    BY DEF Of
  <2>3. QED
    BY <1>1, <2>1, <2>2, NewDealIsWanted DEF SentDeals
<1>4. ASSUME NEW d \in Dialogs, NEW location \in Locations, HandleOpen(d, location)
      PROVE  SentDeals'
  <2>1. Touches({}, {}, {}, {}, {"Miners"})
    BY <1>1, <1>4, OpenStep
  <2>2. QED
    BY <1>1, <2>1, SentSpared DEF DealApis
<1>5. ASSUME NEW d \in Dialogs, LoadMore(d) PROVE SentDeals'
  <2>1. Touches({}, {}, {}, {}, {"Miners"})
    BY <1>1, <1>5, LoadStep
  <2>2. QED
    BY <1>1, <2>1, SentSpared DEF DealApis
<1>6. ASSUME NEW d \in Dialogs, GetDiglogChange(d) PROVE SentDeals'
  <2>1. Of(calls') = {calls[i] : i \in DOMAIN calls \ OfDialog(d, DealOps)}
    BY <1>1, <1>6, ReloadStep
  <2>2. Of(calls') \subseteq Of(calls)
    BY <2>1 DEF Of
  <2>3. QED
    BY <1>1, <2>2, SentCarried
<1>7. ASSUME NEW i \in DOMAIN calls, DealEnds(i) PROVE SentDeals'
  <2>1. Done(i, <<>>) /\ Requests
    BY <1>1, <1>7, DealEndsStep, CallsAreRequests
  <2>2. Of(calls') \subseteq Of(calls)
    BY <2>1, Removed, Joined, Empty DEF Done, Requests
  <2>3. QED
    BY <1>1, <2>2, SentCarried
<1>8. ASSUME NEW i \in DOMAIN calls, MinersListed(i) \/ (DealDropped(i) /\ calls[i].op = "Miners")
      PROVE  SentDeals'
  <2>1. Touches({}, {}, {}, {}, {"Miners"})
    BY <1>1, <1>8, MinersListedStep, PageLostStep
  <2>2. QED
    BY <1>1, <2>1, SentSpared DEF DealApis
<1>9. QED
  BY <1>2, <1>3, <1>4, <1>5, <1>6, <1>7, <1>8 DEF Dealing

LEMMA SentIfReplying ==
  ASSUME Inv, SentDeals, Replying
  PROVE  SentDeals'
<1>1. TypeInv /\ fs3' = fs3 /\ Requests
  BY ReplyingStep, CallsAreRequests DEF Inv, TypeInv, pageVars
<1>2. PICK i \in DOMAIN calls : \E data : Reply(i, data)
  BY ReplyingStep
<1>3. PICK data : ReplyOvertakes(i, {}, data)
  BY <1>1, <1>2, ReplyOvertakesNone
<1> DEFINE js == {}
<1>4. ReplyOvertakes(i, js, data) /\ i \notin js
  BY <1>3
<1> HIDE DEF js
<1>5. \A d \in Of(calls') :
        \/ IsAnswerTo(d, calls[i], data)
        \/ \E k \in DOMAIN calls : k # i /\ IsNow(d, calls[k], k \in js)
  BY <1>1, <1>4, RepliedOf
<1>6. \A d \in Of(calls') : \E k \in DOMAIN calls : d.op = calls[k].op /\ d.arg = calls[k].arg
  BY <1>5 DEF IsAnswerTo, IsNow
<1>7. \A d \in Of(calls') : \E e \in Of(calls) : d.op = e.op /\ d.arg = e.arg
  BY <1>6 DEF Of
<1>8. QED
  BY <1>1, <1>7, SentCarried

LEMMA SentKept ==
  ASSUME Inv, ShareInv, SideInv, SentDeals, [Next]_vars
  PROVE  SentDeals'
<1>1. TypeInv /\ fs3'.sorted = fs3.sorted
  BY SortKept DEF Inv
<1> USE DEF DealApis
<1>2. CASE Resting
  BY <1>1, <1>2, RestingStep, SentSpared
<1>3. CASE Dealing
  BY <1>3, SentIfDealing
<1>4. CASE Minding
  BY <1>1, <1>4, MindingStep, SentSpared DEF MindOps, MenuOps
<1>5. CASE Going
  BY <1>1, <1>5, GoingStep, SentSpared DEF GoesToTop, ToTop, GoOps
<1>6. CASE Walking
  BY <1>1, <1>6, WalkingStep, SentSpared
<1>7. CASE Selecting
  BY <1>1, <1>7, SelectingStep, SentSpared DEF PickOps
<1>8. CASE Moving
  BY <1>1, <1>8, MovingStep, SentSpared DEF MoveOps
<1>9. CASE Replying
  BY <1>9, SentIfReplying
<1>10. CASE Storing
  BY <1>1, <1>10, StoringStep, SentSpared DEF StoreOps
<1>11. CASE Deleting
  BY <1>1, <1>11, DeletingStep, SentSpared DEF DeleteOps
<1>12. CASE Sharing
  BY <1>1, <1>12, SharingStep, SentSpared
<1>13. CASE Opening
  BY <1>1, <1>13, OpeningStep, SentSpared
<1>14. CASE Uploading
  BY <1>1, <1>14, UploadingStep, SentSpared
<1>15. ASSUME NEW i \in DOMAIN calls, Handling(i), Aside PROVE SentDeals'
  <2> USE <1>1, <1>15
  <2>1. CASE ObjectsListed(i)
    BY <2>1, ObjectsListedStep, SentSpared
  <2>2. CASE ObjectRemoved(i)
    BY <2>2, ObjectRemovedStep, SentSpared
  <2>3. CASE ProgressFunction(i)
    BY <2>3, ProgressStep, SentSpared
  <2>4. CASE Uploaded(i)
    BY <2>4, UploadedStep, SentSpared
  <2>5. CASE LinkMade(i)
    BY <2>5, LinkMadeStep, SentSpared
  <2>6. CASE DealsListed(i)
    BY <2>6, DealsListedStep, SentSpared
  <2>7. CASE Dropped(i)
    <3>1. Touches({}, {"exChangeList"}, {"fresh"}, {"fresh", "cut"}, {calls[i].op})
          /\ calls[i].op \in PageOps
      BY <2>7, DroppedStep
    <3>2. {calls[i].op} \cap DealApis = {}
      BY <3>1 DEF PageOps
    <3>3. QED
      BY <3>1, <3>2, SentSpared
  <2>8. QED
    BY <2>1, <2>2, <2>3, <2>4, <2>5, <2>6, <2>7 DEF Handling
<1>16. CASE UNCHANGED vars
  BY <1>1, <1>16, StutterStep, SentSpared
<1>17. QED
  BY <1>1, <1>2, <1>3, <1>4, <1>5, <1>6, <1>7, <1>8, <1>9, <1>10, <1>11, <1>12, <1>13, <1>14, <1>15,
     <1>16, EveryStep DEF Steps

LEMMA ShareBegins ==
  ASSUME Init
  PROVE  RowsInv /\ ShareInv /\ SentDeals
<1>1. TypeInv /\ Begun /\ shown = AtFirst(home.currentBucket)
      /\ (home.currentBucket = <<>> => fs3.tableData = <<>>)
  BY Begins DEF Inv
<1>2. RowsInv
  BY RowsBegin
<1>3. ShareInv
  <2> SUFFICES ASSUME ~fs3.sorted, share.mode = "deal"
               PROVE  share.postAdress = share.at \o share.name /\ Len(share.postAdress) > 1
    BY DEF ShareInv
  <2>1. /\ fs3.tableData # <<>> /\ share.name = fs3.tableData[1].name
        /\ share.at = home.currentBucket /\ share.at # <<>>
        /\ share.postAdress = share.at \o share.name
    BY <1>1 DEF Begun
  <2>2. Sequence(fs3.tableData) /\ Sequence(share.at)
    BY <1>1, <2>1 DEF TypeInv, IsFs3, IsTable, IsHome, IsPath
  <2>3. 1 \in DOMAIN fs3.tableData
    BY <2>1, <2>2, EmptySeq DEF Sequence
  <2>4. share.name \in ObjectName
    BY <1>1, <2>1, <2>3, SeenRows DEF TypeInv
  <2>5. QED
    BY <2>1, <2>2, <2>4, LongAddress
<1>4. SentDeals
  BY <1>1 DEF Begun, FirstOps, SentDeals, DealApis
<1>5. QED
  BY <1>2, <1>3, <1>4

\* From a table that is not sorted, a deal is posted for the bucket or the object
\* its dialog was opened for, and lasts the days that were asked for
\* (shareDialog.vue submitForm, submitofflineForm).
THEOREM DealsAreWanted == Spec => [](~fs3.sorted => DealsAsWanted)
<1>1. Init => Inv /\ SideInv /\ RowsInv /\ ShareInv /\ SentDeals
  BY Begins, SideBegins, ShareBegins
<1>2. Inv /\ SideInv /\ RowsInv /\ ShareInv /\ SentDeals /\ [Next]_vars
        => (Inv /\ SideInv /\ RowsInv /\ ShareInv /\ SentDeals)'
  BY InvKept, SideKept, RowsKept, ShareKept, SentKept
<1>3. Inv /\ SentDeals => (~fs3.sorted => DealsAsWanted)
  <2> SUFFICES ASSUME Inv, SentDeals, ~fs3.sorted, NEW i \in Outstanding(DealApis)
               PROVE  LET c == calls[i].arg IN
                        /\ c.calm => c.adress = c.wanted /\ (calls[i].op = "deal" <=> Len(c.adress) > 1)
                        /\ calls[i].op # "offlinedeals" =>
                             c.form.Duration * 30 = c.form.days * 24 * 60 * 60
    BY DEF DealsAsWanted
  <2>1. i \in DOMAIN calls /\ calls[i].op \in DealApis /\ CallsOK
    BY DEF Outstanding, Inv, TypeInv
  <2>2. IsArg(calls[i].op, calls[i].arg) /\ calls[i] \in Of(calls)
    BY <2>1, CallAt DEF IsCall
  <2>3. QED
    BY <2>1, <2>2 DEF SentDeals, IsArg, DealArg, DealApis
<1>4. QED
  BY <1>1, <1>2, <1>3, PTL DEF Spec

----------------------------------------------------------------------------
(* The link to the chosen object.                                          *)

LinkArg == [bucket |-> share.at, name |-> share.name, expiry |-> Seconds(share.num)]
LinkInv ==
    ~fs3.sorted /\ share.calm /\ share.mode = "link" =>
        /\ share.share_now \in DOMAIN fs3.tableData
        /\ share.name = fs3.tableData[share.share_now].name
        /\ share.at = home.currentBucket /\ share.at # <<>>
        /\ \A c \in Newest(calls, "PresignedGet") : c.arg = LinkArg
        /\ (None("PresignedGet") /\ share.fresh) => share.link = [LinkArg EXCEPT !.expiry = Expiry(@)]

SameTable == /\ DOMAIN fs3'.tableData = DOMAIN fs3.tableData
             /\ \A k \in DOMAIN fs3.tableData : fs3'.tableData[k].name = fs3.tableData[k].name
SameLink == /\ share'.share_now = share.share_now /\ share'.name = share.name
            /\ share'.at = share.at /\ share'.num = share.num

LEMMA LinkCarried ==
  ASSUME LinkInv, fs3'.sorted = fs3.sorted, SameTable,
         share'.calm /\ share'.mode = "link" =>
             /\ share.calm /\ share.mode = "link" /\ SameLink
             /\ home.currentBucket # <<>> => home'.currentBucket = home.currentBucket,
         \A c \in Newest(calls', "PresignedGet") : \E d \in Newest(calls, "PresignedGet") : c.arg = d.arg,
         None("PresignedGet")' /\ share'.fresh =>
             None("PresignedGet") /\ share.fresh /\ share'.link = share.link
  PROVE  LinkInv'
<1> SUFFICES ASSUME ~fs3'.sorted, share'.calm, share'.mode = "link"
             PROVE  /\ share'.share_now \in DOMAIN fs3'.tableData
                    /\ share'.name = fs3'.tableData[share'.share_now].name
                    /\ share'.at = home'.currentBucket /\ share'.at # <<>>
                    /\ \A c \in Newest(calls', "PresignedGet") : c.arg = LinkArg'
                    /\ (None("PresignedGet")' /\ share'.fresh) =>
                          share'.link = [LinkArg' EXCEPT !.expiry = Expiry(@)]
  BY DEF LinkInv, Newest, LastOf, Expiry, Week
<1>1. /\ share.share_now \in DOMAIN fs3.tableData
      /\ share.name = fs3.tableData[share.share_now].name
      /\ share.at = home.currentBucket /\ share.at # <<>>
      /\ \A c \in Newest(calls, "PresignedGet") : c.arg = LinkArg
      /\ (None("PresignedGet") /\ share.fresh) => share.link = [LinkArg EXCEPT !.expiry = Expiry(@)]
      /\ SameLink
      /\ home.currentBucket # <<>> => home'.currentBucket = home.currentBucket
  BY DEF LinkInv
<1>2. LinkArg' = LinkArg
  BY <1>1 DEF LinkArg, SameLink, Seconds
<1>3. QED
  BY <1>1, <1>2 DEF SameLink, SameTable

LEMMA TableStays ==
  ASSUME fs3'.tableData = fs3.tableData \/ (TypeInv /\ SameRows(fs3.tableData, fs3'.tableData))
  PROVE  SameTable
<1>1. CASE fs3'.tableData = fs3.tableData
  BY <1>1 DEF SameTable
<1>2. CASE TypeInv /\ SameRows(fs3.tableData, fs3'.tableData)
  <2>1. Sequence(fs3.tableData)
    BY <1>2 DEF TypeInv, IsFs3, IsTable
  <2>2. DOMAIN fs3'.tableData = DOMAIN fs3.tableData
    BY <1>2, <2>1, SameNames
  <2>3. QED
    BY <1>2, <2>2 DEF SameTable, SameRows
<1>3. QED
  BY <1>1, <1>2

LEMMA LinkSpared ==
  ASSUME TypeInv, TypeInv', LinkInv, NEW H, NEW F, NEW S, NEW N, NEW ops, Touches(H, F, S, N, ops),
         "currentBucket" \in H => (home.currentBucket # <<>> => home'.currentBucket = home.currentBucket),
         "sorted" \notin F, "tableData" \in F => SameRows(fs3.tableData, fs3'.tableData),
         S \subseteq {"fresh"}, share'.fresh => share.fresh, "PresignedGet" \notin ops
  PROVE  LinkInv'
<1>1. "PresignedGet" \in AllOps
  BY DEF AllOps, PageOps
<1>2. /\ None("PresignedGet")' <=> None("PresignedGet")
      /\ Newest(calls', "PresignedGet") \subseteq Newest(calls, "PresignedGet")
  BY <1>1, OpSpared
<1>3. "tableData" \notin F => fs3'.tableData = fs3.tableData
  BY DEF Touches, Sets, TypeInv, IsFs3, Fs3Fields
<1>4. SameTable
  BY <1>3, TableStays
<1>5. fs3'.sorted = fs3.sorted
  BY SortStays
<1>6. /\ SameLink /\ share'.calm = share.calm /\ share'.mode = share.mode /\ share'.link = share.link
      /\ "currentBucket" \notin H => home'.currentBucket = home.currentBucket
  BY DEF Touches, Sets, SameLink, TypeInv, IsShare, ShareFields, IsHome, HomeFields
<1>7. QED
  BY <1>2, <1>4, <1>5, <1>6, LinkCarried

LEMMA LinkLost ==
  ASSUME share'.mode = "link" => ~share'.calm
  PROVE  LinkInv'
BY DEF LinkInv

LEMMA LinkIfDisturbed ==
  ASSUME TypeInv, Sets(share, share', {"calm"}), share'.calm => share.mode = "deal"
  PROVE  LinkInv'
<1>1. share'.mode = share.mode
  BY DEF Sets, TypeInv, IsShare, ShareFields
<1>2. QED
  BY <1>1, LinkLost

LEMMA LinkIfAsked ==
  ASSUME TypeInv, NEW i, NEW t, UserSends(<<LinkCall(i, t)>>)
  PROVE  /\ ~None("PresignedGet")'
         /\ \A c \in Newest(calls', "PresignedGet") :
              c.arg = [bucket |-> home.currentBucket, name |-> fs3.tableData[i].name,
                       expiry |-> Seconds(t)]
<1> DEFINE a == [bucket |-> home.currentBucket, name |-> fs3.tableData[i].name, expiry |-> Seconds(t)]
           d == LinkCall(i, t)
           cs == <<d>>
<1>1. d.op = "PresignedGet" /\ d.arg = a
  BY DEF LinkCall, Request
<1>2. UserSends(cs) /\ Sequence(cs) /\ Of(cs) = {d}
  BY Single
<1> HIDE DEF d, cs, a
<1>3. \E e \in Of(cs) : e.op = "PresignedGet"
  BY <1>1, <1>2
<1>4. ~None("PresignedGet")' /\ \A c \in Newest(calls', "PresignedGet") : c \in Of(cs)
  BY <1>2, <1>3, OpAsked
<1>5. ~None("PresignedGet")' /\ \A c \in Newest(calls', "PresignedGet") : c.arg = a
  BY <1>1, <1>2, <1>4
<1>6. QED
  BY <1>5 DEF a

LEMMA LinkIfShared ==
  ASSUME Inv, RowsInv, NEW i \in DOMAIN fs3.tableData, ShareBtn(i), Aside
  PROVE  LinkInv'
<1>1. /\ TypeInv /\ SameRows(fs3.tableData, fs3'.tableData) /\ home' = home
      /\ share'.name = SeenRow(i).name /\ share'.at = shown.bucket /\ (share'.calm <=> SameBucket)
      /\ share'.num = share.num /\ share'.share_now = i
      /\ fs3'.sorted = fs3.sorted
  BY ShareStep, SortStays DEF Inv, Shares, ShareFrom, Selection
<1>2. SameTable
  BY <1>1, TableStays
<1>3. ~fs3.sorted => SeenRow(i).name = fs3.tableData[i].name
  BY <1>1, SeenRows DEF TypeInv
<1>4. shown.bucket # <<>>
  BY DEF RowsInv
<1>5. UserSends(<<LinkCall(i, share.num)>>)
  BY DEF ShareBtn
<1>6. /\ ~None("PresignedGet")'
      /\ \A c \in Newest(calls', "PresignedGet") :
           c.arg = [bucket |-> home.currentBucket, name |-> fs3.tableData[i].name,
                    expiry |-> Seconds(share.num)]
  BY <1>1, <1>5, LinkIfAsked
<1> SUFFICES ASSUME ~fs3'.sorted, share'.calm, share'.mode = "link"
             PROVE  /\ share'.share_now \in DOMAIN fs3'.tableData
                    /\ share'.name = fs3'.tableData[share'.share_now].name
                    /\ share'.at = home'.currentBucket /\ share'.at # <<>>
                    /\ \A c \in Newest(calls', "PresignedGet") : c.arg = LinkArg'
  BY <1>6 DEF LinkInv, Newest, LastOf
<1>7. share'.name = fs3.tableData[i].name /\ share'.at = home.currentBucket
  BY <1>1, <1>3 DEF SameBucket
<1>8. LinkArg' = [bucket |-> home.currentBucket, name |-> fs3.tableData[i].name,
                  expiry |-> Seconds(share.num)]
  BY <1>1, <1>7 DEF LinkArg, Seconds
<1>9. QED
  BY <1>1, <1>2, <1>4, <1>6, <1>7, <1>8 DEF SameTable

LEMMA LinkIfSelecting ==
  ASSUME Inv, RowsInv, LinkInv, Selecting
  PROVE  LinkInv'
<1>1. TypeInv /\ TypeInv' /\ Aside
  BY SelectingStep DEF Inv, Selecting
<1>2. CASE Unselects
  <2>1. /\ share' = share /\ SameRows(fs3.tableData, Unselected(fs3.tableData))
        /\ Touches({}, Selection, {}, {}, {"MakeBucket", "RemoveObject"})
        /\ fs3' = DrawPlayClose(fs3)
    BY <1>1, <1>2, UnselectStep, UnselectedRows DEF TypeInv, IsFs3
  <2>2. SameRows(fs3.tableData, fs3'.tableData)
    BY <1>1, <2>1, DrawCloses DEF TypeInv
  <2>3. QED
    BY <1>1, <2>1, <2>2, LinkSpared DEF Selection
<1>3. ASSUME NEW i \in DOMAIN calls, Downloaded(i) PROVE LinkInv'
  BY <1>1, <1>3, DownloadedStep, LinkSpared DEF Selection
<1>4. ASSUME NEW i \in DOMAIN fs3.tableData, DrawPlay(i) \/ DeleteBtn(i) PROVE LinkInv'
  <2>1. /\ share' = share /\ SameRows(fs3.tableData, fs3'.tableData)
        /\ Touches({}, Selection, {}, {}, {})
    BY <1>1, <1>4, DrawPlayStep, DeleteBtnStep
  <2>2. QED
    BY <1>1, <2>1, LinkSpared DEF Selection
<1>5. ASSUME NEW i \in DOMAIN fs3.tableData, ShareToFil(i) PROVE LinkInv'
  <2>1. share'.mode = "deal"
    BY <1>1, <1>5, ShareStep DEF Shares, ShareFrom
  <2>2. QED
    BY <2>1, LinkLost
<1>6. ASSUME NEW i \in DOMAIN fs3.tableData, ShareBtn(i) PROVE LinkInv'
  BY <1>1, <1>6, LinkIfShared
<1>7. QED
  BY <1>2, <1>3, <1>4, <1>5, <1>6 DEF Selecting, Picking, Shares

\* A new time asks for a new link to the same row.
LEMMA LinkIfSharing ==
  ASSUME Inv, LinkInv, NEW t \in Times, HandleChange(t), Aside
  PROVE  LinkInv'
<1>1. /\ TypeInv /\ UNCHANGED <<home, fs3>> /\ share'.num = t
      /\ Sets(share, share', {"num"})
  BY HandleChangeStep DEF Inv, Touches
<1>2. /\ share'.calm = share.calm /\ share'.mode = share.mode /\ share'.share_now = share.share_now
      /\ share'.name = share.name /\ share'.at = share.at
  BY <1>1 DEF Sets, TypeInv, IsShare, ShareFields
<1> SUFFICES ASSUME ~fs3'.sorted, share'.calm, share'.mode = "link"
             PROVE  LinkInv'
  BY DEF LinkInv
<1> DEFINE k == share.share_now
<1>3. /\ k \in DOMAIN fs3.tableData /\ share.name = fs3.tableData[k].name
      /\ share.at = home.currentBucket /\ share.at # <<>>
  BY <1>1, <1>2 DEF LinkInv
<1>4. UserSends(<<LinkCall(k, t)>>)
  BY <1>3 DEF HandleChange
<1>5. /\ ~None("PresignedGet")'
      /\ \A c \in Newest(calls', "PresignedGet") :
           c.arg = [bucket |-> home.currentBucket, name |-> fs3.tableData[k].name,
                    expiry |-> Seconds(t)]
  BY <1>1, <1>4, LinkIfAsked
<1>6. LinkArg' = [bucket |-> home.currentBucket, name |-> fs3.tableData[k].name, expiry |-> Seconds(t)]
  BY <1>1, <1>2, <1>3 DEF LinkArg, Seconds
<1>7. \A c \in Newest(calls', "PresignedGet") : c.arg = LinkArg'
  BY <1>5, <1>6
<1>8. QED
  BY <1>1, <1>2, <1>3, <1>5, <1>7 DEF LinkInv, Newest, LastOf

LEMMA LinkIfMade ==
  ASSUME Inv, LinkInv, NEW i \in DOMAIN calls, LinkMade(i), Aside
  PROVE  LinkInv'
<1> DEFINE op == "PresignedGet"
           c == calls[i]
<1>1. /\ TypeInv /\ home' = home /\ fs3' = fs3 /\ Sets(share, share', {"link", "fresh"})
      /\ op = c.op /\ Overtakes(i, Earlier(i), <<>>)
      /\ c.reply = [c.arg EXCEPT !.expiry = Expiry(@)]
      /\ share'.link = c.reply /\ (share'.fresh <=> ~c.late)
  BY LinkMadeStep DEF Inv, Touches
<1>2. /\ SameLink /\ share'.calm = share.calm /\ share'.mode = share.mode
  BY <1>1 DEF SameLink, Sets, TypeInv, IsShare, ShareFields
<1>3. LinkArg' = LinkArg
  BY <1>2 DEF LinkArg, SameLink, Seconds
<1> HIDE DEF op
<1>4. /\ Newest(calls', op) \subseteq Newest(calls, op)
      /\ None(op)' /\ ~c.late => c \in Newest(calls, op)
  BY <1>1, OpFinished
<1> SUFFICES ASSUME ~fs3'.sorted, share'.calm, share'.mode = "link"
             PROVE  LinkInv'
  BY DEF LinkInv
<1>5. /\ share.share_now \in DOMAIN fs3.tableData /\ share.name = fs3.tableData[share.share_now].name
      /\ share.at = home.currentBucket /\ share.at # <<>>
      /\ \A e \in Newest(calls, op) : e.arg = LinkArg
  BY <1>1, <1>2 DEF LinkInv, op
<1>6. \A e \in Newest(calls', op) : e.arg = LinkArg'
  BY <1>3, <1>4, <1>5
<1>7. None(op)' /\ share'.fresh => share'.link = [LinkArg' EXCEPT !.expiry = Expiry(@)]
  <2>1. ASSUME None(op)', share'.fresh PROVE c.arg = LinkArg
    BY <2>1, <1>1, <1>4, <1>5
  <2>2. QED
    BY <2>1, <1>1, <1>3
<1>8. QED
  BY <1>1, <1>2, <1>5, <1>6, <1>7 DEF LinkInv, SameLink, Newest, LastOf, Expiry, Week, op

LEMMA LinkIfDropped ==
  ASSUME Inv, LinkInv, NEW i \in DOMAIN calls, Dropped(i), Aside
  PROVE  LinkInv'
<1>1. /\ TypeInv /\ TypeInv' /\ home' = home
      /\ Touches({}, {"exChangeList"}, {"fresh"}, {"fresh", "cut"}, {calls[i].op})
      /\ Overtakes(i, Earlier(i), <<>>)
      /\ share'.fresh => share.fresh /\ calls[i].op # "PresignedGet"
  BY DroppedStep DEF Inv
<1>2. CASE calls[i].op # "PresignedGet"
  BY <1>1, <1>2, LinkSpared
<1>3. CASE calls[i].op = "PresignedGet"
  <2>1. Newest(calls', "PresignedGet") \subseteq Newest(calls, "PresignedGet")
    <3> DEFINE op == "PresignedGet"
    <3>1. op = calls[i].op
      BY <1>3
    <3> HIDE DEF op
    <3>2. Newest(calls', op) \subseteq Newest(calls, op)
      BY <1>1, <3>1, OpFinished
    <3>3. QED
      BY <3>2 DEF op
  <2>2. /\ SameLink /\ share'.calm = share.calm /\ share'.mode = share.mode
        /\ fs3'.tableData = fs3.tableData /\ fs3'.sorted = fs3.sorted
    BY <1>1 DEF Touches, Sets, SameLink, TypeInv, IsShare, ShareFields, IsFs3, Fs3Fields
  <2>3. SameTable
    BY <2>2, TableStays
  <2>4. QED
    BY <1>1, <1>3, <2>1, <2>2, <2>3, LinkCarried
<1>4. QED
  BY <1>2, <1>3

LEMMA LinkIfMoving ==
  ASSUME Inv, LinkInv, Moving
  PROVE  LinkInv'
<1>1. /\ TypeInv /\ TypeInv' /\ Unsettles
      /\ Touches(MoveHome, {"currentBucketAll", "prefixName"}, {"calm"},
                 {"settled", "followed", "fresh"}, MoveOps)
  BY MovingStep DEF Inv
<1>2. "PresignedGet" \in AllOps \ MoveOps
  BY DEF AllOps, PageOps, MoveOps
<1>3. /\ None("PresignedGet")' <=> None("PresignedGet")
      /\ Newest(calls', "PresignedGet") \subseteq Newest(calls, "PresignedGet")
  BY <1>1, <1>2, OpSpared
<1>4. /\ SameLink /\ share'.mode = share.mode /\ share'.link = share.link /\ share'.fresh = share.fresh
      /\ fs3'.tableData = fs3.tableData /\ fs3'.sorted = fs3.sorted
  BY <1>1 DEF Touches, Sets, SameLink, TypeInv, IsShare, ShareFields, IsFs3, Fs3Fields
<1>5. SameTable
  BY <1>4, TableStays
<1>6. QED
  BY <1>1, <1>3, <1>4, <1>5, LinkCarried DEF Unsettles

LEMMA LinkIfHandled ==
  ASSUME Inv, LinkInv, NEW i \in DOMAIN calls, Handling(i), Aside
  PROVE  LinkInv'
<1>1. TypeInv /\ TypeInv'
  BY HandlingStep DEF Inv
<1>2. CASE ObjectsListed(i)
  BY <1>1, <1>2, ObjectsListedStep, LinkIfDisturbed DEF Touches
<1>3. CASE ObjectRemoved(i)
  BY <1>1, <1>3, ObjectRemovedStep, LinkIfDisturbed DEF Touches
<1>4. CASE ProgressFunction(i)
  BY <1>1, <1>4, ProgressStep, LinkSpared
<1>5. CASE Uploaded(i)
  BY <1>1, <1>5, UploadedStep, LinkSpared DEF Selection
<1>6. CASE LinkMade(i)
  BY <1>6, LinkIfMade
<1>7. CASE DealsListed(i)
  BY <1>1, <1>7, DealsListedStep, LinkSpared
<1>8. CASE Dropped(i)
  BY <1>8, LinkIfDropped
<1>9. QED
  BY <1>2, <1>3, <1>4, <1>5, <1>6, <1>7, <1>8 DEF Handling

LEMMA LinkKept ==
  ASSUME Inv, RowsInv, LinkInv, [Next]_vars
  PROVE  LinkInv'
<1>1. TypeInv /\ TypeInv'
  BY InvKept DEF Inv
<1>2. CASE Resting
  BY <1>1, <1>2, RestingStep, LinkSpared
<1>3. CASE Dealing
  BY <1>1, <1>3, DealingStep, LinkSpared DEF DealOps, DealApis
<1>4. CASE Minding
  BY <1>1, <1>4, MindingStep, LinkSpared DEF MindOps, MenuOps
<1>5. CASE Going
  BY <1>1, <1>5, GoingStep, SlideClicks, LinkIfDisturbed DEF GoesToTop
<1>6. CASE Walking
  BY <1>1, <1>6, WalkingStep, LinkSpared
<1>7. CASE Selecting
  BY <1>7, LinkIfSelecting
<1>8. CASE Moving
  BY <1>8, LinkIfMoving
<1>9. CASE Replying
  <2>1. /\ None("PresignedGet")' => None("PresignedGet")
        /\ \A c \in Newest(calls', "PresignedGet") : \E d \in Newest(calls, "PresignedGet") : c.arg = d.arg
        /\ UNCHANGED <<home, fs3, share>>
    BY <1>9, OpReplying, ReplyingStep DEF pageVars
  <2>2. SameTable
    BY <2>1, TableStays
  <2>3. QED
    BY <2>1, <2>2, LinkCarried DEF SameLink
<1>10. CASE Storing
  BY <1>1, <1>10, StoringStep, LinkSpared DEF StoreOps
<1>11. CASE Deleting
  BY <1>1, <1>11, DeletingStep, LinkSpared DEF DeleteOps
<1>12. CASE Sharing
  BY <1>12, LinkIfSharing DEF Sharing
<1>13. CASE Opening
  BY <1>1, <1>13, OpeningStep, LinkSpared
<1>14. CASE Uploading
  BY <1>1, <1>14, UploadingStep, LinkSpared
<1>15. ASSUME NEW i \in DOMAIN calls, Handling(i), Aside PROVE LinkInv'
  BY <1>15, LinkIfHandled
<1>16. CASE UNCHANGED vars
  BY <1>1, <1>16, StutterStep, LinkSpared
<1>17. QED
  BY <1>2, <1>3, <1>4, <1>5, <1>6, <1>7, <1>8, <1>9, <1>10, <1>11, <1>12, <1>13, <1>14, <1>15,
     <1>16, <1>1, EveryStep DEF Steps

\* A link is good for the time that was asked for, and for a week at most.
LEMMA LinkTimes ==
  ASSUME NEW t \in (Nat \ {0}) \X Nat \X Nat
  PROVE  LET e == Expiry(Seconds(t)) IN e <= Week /\ (Seconds(t) <= Week => e = Seconds(t))
<1>1. t[1] \in Nat \ {0} /\ t[2] \in Nat /\ t[3] \in Nat
  OBVIOUS
<1> DEFINE s == Seconds(t)
<1>2. s \in Nat /\ s > 0
  BY <1>1 DEF Seconds
<1> HIDE DEF s
<1>3. Expiry(s) <= Week /\ (s <= Week => Expiry(s) = s)
  BY <1>2 DEF Expiry, Week
<1>4. QED
  BY <1>3 DEF s

\* For a row of a table that is not sorted, the link in the dialog is for the
\* chosen object and time, and for no more than a week (minio/index.vue
\* getPresignedGet).
THEOREM LinksAreChosen == Spec => [](~fs3.sorted => LinkIsChosen)
<1>1. Init => Inv /\ RowsInv /\ LinkInv
  BY Begins, ShareBegins DEF LinkInv, Begun
<1>2. Inv /\ RowsInv /\ LinkInv /\ [Next]_vars => (Inv /\ RowsInv /\ LinkInv)'
  BY InvKept, RowsKept, LinkKept
<1>3. Inv /\ LinkInv => (~fs3.sorted => LinkIsChosen)
  <2> SUFFICES ASSUME Inv, LinkInv, ~fs3.sorted, share.mode = "link", share.calm, share.fresh,
                      Outstanding({"PresignedGet"}) = {}
               PROVE  /\ share.link.bucket = share.at /\ share.link.name = share.name
                      /\ share.link.expiry <= Week
                      /\ Seconds(share.num) <= Week => share.link.expiry = Seconds(share.num)
    BY DEF LinkIsChosen
  <2>1. None("PresignedGet")
    BY NoneIsNone
  <2>2. share.link = [LinkArg EXCEPT !.expiry = Expiry(@)]
    BY <2>1 DEF LinkInv
  <2>3. /\ share.link.bucket = share.at /\ share.link.name = share.name
        /\ share.link.expiry = Expiry(Seconds(share.num))
    BY <2>2 DEF LinkArg
  <2>4. share.num \in (Nat \ {0}) \X Nat \X Nat
    BY DEF Inv, TypeInv, IsShare
  <2>5. QED
    BY <2>3, <2>4, LinkTimes
<1>4. QED
  BY <1>1, <1>2, <1>3, PTL DEF Spec

----------------------------------------------------------------------------
(* The providers of a location.  A request for a page of them is fresh     *)
(* while no later opening has overtaken it, and there is one at most for   *)
(* the page after those that are shown.                                    *)

Fresh(d) == {j \in DOMAIN calls : /\ calls[j].op = "Miners" /\ calls[j].arg.dialog = d
                                  /\ ~calls[j].late}
Later(d) == {j \in Fresh(d) : calls[j].arg.page > 0}
FirstPages(location, n) == [k \in 1..n |-> <<location, k - 1>>]

\* The next page can be asked for, or has been, or all are there.
Loads(d) ==
    LET f == deal[d]
        n == Len(f.tableData)
        all == Miners[f.parentName]
    IN  \/ n * PageSize < all /\ f.loadSign /\ f.page = n - 1 /\ Later(d) = {}
        \/ n * PageSize < all /\ ~f.loadSign /\ f.page = n
             /\ \E j \in Later(d) : calls[j].arg.page = n /\ \A k \in Later(d) : k = j
        \/ n * PageSize >= all /\ f.page >= n - 1 /\ \A j \in Later(d) : calls[j].arg.page >= n
MinersInv(d) ==
    LET f == deal[d]
        n == Len(f.tableData)
    IN  /\ f.total >= PageSize
        /\ \A j \in Fresh(d) : /\ calls[j].arg.location = f.parentName
                               /\ calls[j].arg.page <= f.page
        /\ f.fresh /\ f.parentName # NoLocation =>
             /\ f.tableData = FirstPages(f.parentName, n)
             /\ n = 0 => f.page = 0 /\ Fresh(d) # {}
             /\ n > 0 => f.total >= Miners[f.parentName] /\ Loads(d)

\* The fresh requests of a dialog are those that K were.
Matches(d, K) == \E g :
    /\ \A j \in Fresh(d)' : g[j] \in K /\ calls'[j].arg = calls[g[j]].arg
    /\ \A j, k \in Fresh(d)' : g[j] = g[k] => j = k
    /\ \A k \in K : \E j \in Fresh(d)' : g[j] = k

LEMMA MinersCarried ==
  ASSUME NEW d, MinersInv(d), Matches(d, Fresh(d)),
         \A k \in MinersFields : deal'[d][k] = deal[d][k]
  PROVE  MinersInv(d)'
<1> DEFINE n == Len(deal[d].tableData)
           f == deal[d]
<1>1. /\ deal'[d].tableData = f.tableData /\ deal'[d].parentName = f.parentName
      /\ deal'[d].page = f.page /\ deal'[d].total = f.total /\ deal'[d].loadSign = f.loadSign
      /\ deal'[d].fresh = f.fresh
  BY DEF MinersFields
<1>2. PICK g : /\ \A j \in Fresh(d)' : g[j] \in Fresh(d) /\ calls'[j].arg = calls[g[j]].arg
               /\ \A j, k \in Fresh(d)' : g[j] = g[k] => j = k
               /\ \A k \in Fresh(d) : \E j \in Fresh(d)' : g[j] = k
  BY DEF Matches
<1>3. \A j \in Later(d)' : g[j] \in Later(d)
  BY <1>2 DEF Later
<1>4. \A k \in Later(d) : \E j \in Later(d)' : g[j] = k
  BY <1>2 DEF Later
<1>5. \A j \in Later(d)' : j \in Fresh(d)'
  BY DEF Later
<1>6. Loads(d) => Loads(d)'
  <2>1. CASE n * PageSize < Miners[f.parentName] /\ f.loadSign /\ f.page = n - 1 /\ Later(d) = {}
    BY <2>1, <1>1, <1>3 DEF Loads
  <2>2. CASE /\ n * PageSize < Miners[f.parentName] /\ ~f.loadSign /\ f.page = n
             /\ \E j \in Later(d) : calls[j].arg.page = n /\ \A k \in Later(d) : k = j
    <3>1. PICK j \in Later(d) : calls[j].arg.page = n /\ \A k \in Later(d) : k = j
      BY <2>2
    <3>2. PICK m \in Later(d)' : g[m] = j
      BY <1>4
    <3>3. calls'[m].arg.page = n /\ \A k \in Later(d)' : k = m
      BY <3>1, <3>2, <1>2, <1>3, <1>5
    <3>4. QED
      BY <2>2, <3>3, <1>1 DEF Loads
  <2>3. CASE /\ n * PageSize >= Miners[f.parentName] /\ f.page >= n - 1
             /\ \A j \in Later(d) : calls[j].arg.page >= n
    <3>1. \A j \in Later(d)' : calls'[j].arg.page >= n
      BY <2>3, <1>2, <1>3, <1>5
    <3>2. QED
      BY <2>3, <3>1, <1>1 DEF Loads
  <2>4. QED
    BY <2>1, <2>2, <2>3 DEF Loads
<1>7. Fresh(d) # {} => Fresh(d)' # {}
  BY <1>2
<1>8. \A j \in Fresh(d)' : calls'[j].arg.location = f.parentName /\ calls'[j].arg.page <= f.page
  BY <1>2 DEF MinersInv
<1>9. QED
  BY <1>1, <1>6, <1>7, <1>8 DEF MinersInv, FirstPages

\* What becomes of the fresh requests.
LEMMA MatchesSpared ==
  ASSUME TypeInv, TypeInv', NEW H, NEW F, NEW S, NEW N, NEW ops, Touches(H, F, S, N, ops),
         "Miners" \notin ops, NEW d
  PROVE  Matches(d, Fresh(d))
<1>1. "Miners" \in AllOps \ ops
  BY DEF AllOps, DealOps
<1> DEFINE rest == AllOps \ ops
<1>2. Spared(rest)
  BY DEF Touches
<1> HIDE DEF rest
<1>3. PICK g : AlignedBy(calls', calls, rest, g)
  BY <1>2 DEF Spared, Aligned
<1>4. "Miners" \in rest
  BY <1>1 DEF rest
<1>5. /\ \A j \in DOMAIN calls' : calls'[j].op \in rest => g[j] \in DOMAIN calls /\ calls'[j] = calls[g[j]]
      /\ \A j, k \in DOMAIN calls' : (calls'[j].op \in rest /\ calls'[k].op \in rest /\ j < k) => g[j] < g[k]
      /\ \A k \in DOMAIN calls : calls[k].op \in rest => \E j \in DOMAIN calls' : g[j] = k /\ calls'[j].op \in rest
  BY <1>3 DEF AlignedBy
<1>6. DOMAIN calls = 1..Len(calls) /\ Len(calls) \in Nat
      /\ DOMAIN calls' = 1..Len(calls') /\ Len(calls') \in Nat
  BY Indices DEF TypeInv, CallsOK
<1>7. \A j \in Fresh(d)' : g[j] \in Fresh(d) /\ calls'[j].arg = calls[g[j]].arg
  BY <1>4, <1>5 DEF Fresh
<1>8. \A j, k \in Fresh(d)' : g[j] = g[k] => j = k
  <2> SUFFICES ASSUME NEW j \in Fresh(d)', NEW k \in Fresh(d)', g[j] = g[k], j # k PROVE FALSE
    OBVIOUS
  <2>1. j \in 1..Len(calls') /\ k \in 1..Len(calls') /\ calls'[j].op \in rest /\ calls'[k].op \in rest
        /\ g[j] \in 1..Len(calls)
    BY <1>4, <1>5, <1>6 DEF Fresh
  <2>2. j < k \/ k < j
    BY <2>1, <1>6
  <2>3. QED
    BY <2>1, <2>2, <1>5, <1>6
<1>9. \A k \in Fresh(d) : \E j \in Fresh(d)' : g[j] = k
  BY <1>4, <1>5 DEF Fresh
<1>10. QED
  BY <1>7, <1>8, <1>9 DEF Matches

LEMMA MatchesReplied ==
  ASSUME Inv, Replying, NEW d
  PROVE  Matches(d, Fresh(d))
<1>1. Requests
  BY CallsAreRequests DEF Inv, TypeInv
<1>2. PICK i \in DOMAIN calls : \E data : Reply(i, data)
  BY ReplyingStep
<1>3. PICK data : ReplyOvertakes(i, {}, data)
  BY <1>1, <1>2, ReplyOvertakesNone
<1> DEFINE js == {}
           g == [j \in DOMAIN calls |-> j]
<1>4. ReplyOvertakes(i, js, data) /\ i \notin js
  BY <1>3
<1> HIDE DEF js
<1>5. /\ DOMAIN calls' = DOMAIN calls /\ IsAnswerTo(calls'[i], calls[i], data)
      /\ \A k \in DOMAIN calls : k # i => IsNow(calls'[k], calls[k], k \in js)
  BY <1>1, <1>4, RepliedAt
<1>6. \A k \in DOMAIN calls : /\ calls'[k].op = calls[k].op /\ calls'[k].arg = calls[k].arg
                              /\ calls'[k].late <=> calls[k].late
  BY <1>5 DEF IsAnswerTo, IsNow, js
<1>7. Fresh(d)' = Fresh(d)
  BY <1>5, <1>6 DEF Fresh
<1>8. /\ \A j \in Fresh(d)' : g[j] \in Fresh(d) /\ calls'[j].arg = calls[g[j]].arg
      /\ \A j, k \in Fresh(d)' : g[j] = g[k] => j = k
      /\ \A k \in Fresh(d) : \E j \in Fresh(d)' : g[j] = k
  BY <1>6, <1>7 DEF Fresh
<1> HIDE DEF g
<1>9. QED
  BY <1>8 DEF Matches

LEMMA MatchesSame ==
  ASSUME NEW d, Fresh(d)' = Fresh(d), \A j \in Fresh(d) : calls'[j].arg = calls[j].arg
  PROVE  Matches(d, Fresh(d))
<1> DEFINE g == [j \in Fresh(d) |-> j]
<1>1. /\ \A j \in Fresh(d)' : g[j] \in Fresh(d) /\ calls'[j].arg = calls[g[j]].arg
      /\ \A j, k \in Fresh(d)' : g[j] = g[k] => j = k
      /\ \A k \in Fresh(d) : \E j \in Fresh(d)' : g[j] = k
  OBVIOUS
<1> HIDE DEF g
<1>2. QED
  BY <1>1 DEF Matches

\* After a request for providers has been sent, which overtakes those of js.
FreshSent(js, c, m) ==
    /\ \A d : /\ Fresh(d)' = (Fresh(d) \ js) \cup (IF c.arg.dialog = d THEN {m} ELSE {})
             /\ \A j \in Fresh(d) : calls'[j].arg = calls[j].arg /\ j # m
    /\ calls'[m] = c

LEMMA FreshIfSent ==
  ASSUME TypeInv, NEW js, NEW c, c.op = "Miners", ~c.late, NEW cs, Sequence(cs), Len(cs) = 1,
         cs[1] = c, calls' = Overtaken(js) \o cs, NEW m, m = Len(calls) + 1
  PROVE  FreshSent(js, c, m)
<1> DEFINE n == Len(calls)
<1>1. Requests
  BY CallsAreRequests DEF TypeInv
<1>2. /\ DOMAIN calls' = 1..(Len(calls) + Len(cs))
      /\ \A k \in DOMAIN calls : IsNow(calls'[k], calls[k], k \in js)
      /\ \A k \in 1..Len(cs) : calls'[Len(calls) + k] = cs[k]
  BY <1>1, SentAt
<1>3. n \in Nat /\ DOMAIN calls = 1..n
  BY <1>1, Indices DEF Requests
<1> HIDE DEF n
<1>4. DOMAIN calls' = (1..n) \cup {n + 1} /\ calls'[n + 1] = c /\ n + 1 \notin 1..n
  BY <1>2, <1>3 DEF n
<1> SUFFICES ASSUME NEW d
             PROVE  /\ Fresh(d)' = (Fresh(d) \ js) \cup (IF c.arg.dialog = d THEN {m} ELSE {})
                    /\ \A j \in Fresh(d) : calls'[j].arg = calls[j].arg /\ j # m
  BY <1>4 DEF n, FreshSent
<1>5. \A k \in 1..n : /\ calls'[k].op = calls[k].op /\ calls'[k].arg = calls[k].arg
                      /\ calls'[k].late <=> (calls[k].late \/ k \in js)
  BY <1>2, <1>3 DEF IsNow
<1>6. Fresh(d)' = (Fresh(d) \ js) \cup (IF c.arg.dialog = d THEN {n + 1} ELSE {})
  BY <1>3, <1>4, <1>5 DEF Fresh
<1>7. \A j \in Fresh(d) : calls'[j].arg = calls[j].arg /\ j # n + 1
  BY <1>3, <1>4, <1>5 DEF Fresh
<1>8. QED
  BY <1>4, <1>6, <1>7 DEF n

LEMMA MatchesIfDone ==
  ASSUME TypeInv, NEW i \in DOMAIN calls, Done(i, <<>>), NEW d
  PROVE  Matches(d, Fresh(d) \ {i})
<1> DEFINE js == {}
           cs == <<>>
           n == Len(calls)
           g == [j \in 1..(n - 1) |-> IF j < i THEN j ELSE j + 1]
<1>1. Requests
  BY CallsAreRequests DEF TypeInv
<1>2. Overtakes(i, js, cs) /\ Sequence(cs) /\ Len(cs) = 0
  BY <1>1, DoneOvertakes, Empty
<1>3. n \in Nat /\ DOMAIN calls = 1..n
  BY <1>1, Indices DEF Requests
<1> HIDE DEF js, cs, n
<1>4. /\ DOMAIN calls' = 1..(Len(calls) - 1 + Len(cs))
      /\ \A m \in 1..(Len(calls) - 1) :
           /\ m < i => IsNow(calls'[m], calls[m], m \in js)
           /\ ~(m < i) => IsNow(calls'[m], calls[m + 1], m + 1 \in js)
  BY <1>1, <1>2, FinishedAt
<1>5. DOMAIN calls' = 1..(n - 1)
  BY <1>2, <1>3, <1>4 DEF n
<1>6. \A m \in 1..(n - 1) :
        /\ g[m] \in (1..n) \ {i}
        /\ calls'[m].op = calls[g[m]].op /\ calls'[m].arg = calls[g[m]].arg
        /\ calls'[m].late <=> calls[g[m]].late
  BY <1>3, <1>4 DEF IsNow, js, n
<1>7. \A j, k \in 1..(n - 1) : g[j] = g[k] => j = k
  BY <1>3
<1>8. \A k \in (1..n) \ {i} : \E j \in 1..(n - 1) : g[j] = k
  <2> SUFFICES ASSUME NEW k \in (1..n) \ {i} PROVE \E j \in 1..(n - 1) : g[j] = k
    OBVIOUS
  <2>1. CASE k < i
    <3>1. k \in 1..(n - 1) /\ g[k] = k
      BY <2>1, <1>3
    <3>2. QED
      BY <3>1
  <2>2. CASE k > i
    <3>1. k - 1 \in 1..(n - 1) /\ g[k - 1] = k
      BY <2>2, <1>3
    <3>2. QED
      BY <3>1
  <2>3. QED
    BY <2>1, <2>2, <1>3
<1> HIDE DEF g
<1>9. /\ \A j \in Fresh(d)' : g[j] \in Fresh(d) \ {i} /\ calls'[j].arg = calls[g[j]].arg
      /\ \A j \in Fresh(d)' : j \in 1..(n - 1)
  BY <1>3, <1>5, <1>6 DEF Fresh
<1>10. \A k \in Fresh(d) \ {i} : \E j \in Fresh(d)' : g[j] = k
  <2> SUFFICES ASSUME NEW k \in Fresh(d) \ {i} PROVE \E j \in Fresh(d)' : g[j] = k
    OBVIOUS
  <2>1. k \in (1..n) \ {i} /\ calls[k].op = "Miners" /\ calls[k].arg.dialog = d /\ ~calls[k].late
    BY <1>3 DEF Fresh
  <2>2. PICK j \in 1..(n - 1) : g[j] = k
    BY <2>1, <1>8
  <2>3. j \in Fresh(d)'
    BY <2>1, <2>2, <1>5, <1>6 DEF Fresh
  <2>4. QED
    BY <2>2, <2>3
<1>11. \A j, k \in Fresh(d)' : g[j] = g[k] => j = k
  BY <1>7, <1>9
<1>12. QED
  BY <1>9, <1>10, <1>11 DEF Matches

LEMMA MatchesIfReloaded ==
  ASSUME TypeInv, NEW d, calls' = Only(calls, DOMAIN calls \ OfDialog(d, DealOps)), NEW e
  PROVE  Matches(e, IF e = d THEN {} ELSE Fresh(e))
<1> DEFINE is == DOMAIN calls \ OfDialog(d, DealOps)
           r == Only(calls, is)
<1>1. calls \in Seq(Of(calls)) /\ DOMAIN calls = 1..Len(calls)
  BY Indices DEF TypeInv, CallsOK, Sequence
<1>2. r \in Seq(Of(calls)) /\ \E g : Picks(r, calls, is, g)
  BY <1>1, OnlyPicks
<1>3. calls' = r /\ DOMAIN r = 1..Len(r) /\ Len(r) \in Nat /\ Len(calls) \in Nat
  BY <1>1, <1>2
<1>4. \A i \in 1..Len(calls) : i \in is <=> ~(calls[i].arg.dialog = d /\ calls[i].op \in DealOps)
  BY <1>1 DEF OfDialog, Outstanding
<1> HIDE DEF is, r
<1>5. PICK g : Picks(r, calls, is, g)
  BY <1>2
<1>6. /\ \A k \in 1..Len(r) : g[k] \in 1..Len(calls) /\ g[k] \in is /\ r[k] = calls[g[k]]
      /\ \A j, k \in 1..Len(r) : j < k => g[j] < g[k]
      /\ \A i \in 1..Len(calls) : i \in is => \E k \in 1..Len(r) : g[k] = i
  BY <1>5 DEF Picks
<1>7. \A j \in Fresh(e)' : /\ j \in 1..Len(r) /\ g[j] \in Fresh(e) /\ e # d
                           /\ calls'[j].arg = calls[g[j]].arg
  BY <1>1, <1>3, <1>4, <1>6 DEF Fresh, DealOps
<1>8. \A j, k \in Fresh(e)' : g[j] = g[k] => j = k
  <2> SUFFICES ASSUME NEW j \in Fresh(e)', NEW k \in Fresh(e)', g[j] = g[k], j # k PROVE FALSE
    OBVIOUS
  <2>1. j \in 1..Len(r) /\ k \in 1..Len(r) /\ g[j] \in 1..Len(calls)
    BY <1>6, <1>7
  <2>2. j < k \/ k < j
    BY <2>1, <1>3
  <2>3. QED
    BY <2>1, <2>2, <1>3, <1>6
<1>9. ASSUME e # d, NEW k \in Fresh(e) PROVE \E j \in Fresh(e)' : g[j] = k
  <2>1. k \in 1..Len(calls) /\ k \in is
    BY <1>9, <1>1, <1>4 DEF Fresh
  <2>2. PICK j \in 1..Len(r) : g[j] = k
    BY <2>1, <1>6
  <2>3. j \in Fresh(e)'
    BY <2>2, <1>3, <1>6 DEF Fresh
  <2>4. QED
    BY <2>2, <2>3
<1>10. QED
  BY <1>7, <1>8, <1>9 DEF Matches

AllMiners == \A d \in Dialogs : MinersInv(d)

LEMMA OtherMiners ==
  ASSUME AllMiners, NEW d \in Dialogs, \A e \in Dialogs \ {d} : deal'[e] = deal[e],
         \A e \in Dialogs \ {d} : Matches(e, Fresh(e)), MinersInv(d)'
  PROVE  AllMiners'
<1>1. ASSUME NEW e \in Dialogs \ {d} PROVE MinersInv(e)'
  BY <1>1, MinersCarried DEF AllMiners
<1>2. QED
  BY <1>1 DEF AllMiners

LEMMA MinersSpared ==
  ASSUME TypeInv, TypeInv', AllMiners, FormsOnly, NEW H, NEW F, NEW S, NEW N, NEW ops,
         Touches(H, F, S, N, ops), "Miners" \notin ops
  PROVE  AllMiners'
<1>1. ASSUME NEW d \in Dialogs PROVE MinersInv(d)'
  <2>1. Matches(d, Fresh(d))
    BY MatchesSpared
  <2>2. \A k \in MinersFields : deal'[d][k] = deal[d][k]
    BY DEF FormsOnly
  <2>3. QED
    BY <2>1, <2>2, MinersCarried DEF AllMiners
<1>2. QED
  BY <1>1 DEF AllMiners

LEMMA NoPages ==
  ASSUME NEW s, Sequence(s)
  PROVE  /\ Len(s) = 0 <=> s = <<>>
         /\ Len(s) \in Nat
         /\ \A location : FirstPages(location, 0) = <<>>
<1>1. \A location : FirstPages(location, 0) = <<>>
  BY DEF FirstPages
<1>2. QED
  BY <1>1, EmptySeq DEF Sequence

LEMMA MinersIfOpened ==
  ASSUME Inv, AllMiners, NEW d \in Dialogs, NEW location \in Locations, HandleOpen(d, location)
  PROVE  AllMiners'
<1> DEFINE c == MinersCall(d, location, 0)
           cs == <<c>>
           js == OfDialog(d, {"Miners"})
           m == Len(calls) + 1
<1>1. /\ TypeInv /\ \A e \in Dialogs \ {d} : deal'[e] = deal[e]
      /\ deal'[d].parentName = location /\ deal'[d].tableData = <<>> /\ deal'[d].page = 0
      /\ deal'[d].total = PageSize /\ deal'[d].fresh
  BY OpenStep DEF Inv
<1>2. calls' = Overtaken(js) \o cs
  BY OpenStep DEF Inv
<1>3. Sequence(cs) /\ Len(cs) = 1 /\ cs[1] = c
  BY Single
<1>4. c.op = "Miners" /\ ~c.late /\ c.arg.dialog = d /\ c.arg.location = location /\ c.arg.page = 0
  BY DEF MinersCall, Request
<1> HIDE DEF c, cs
<1>5. \A e : Fresh(e) \ js = IF e = d THEN {} ELSE Fresh(e)
  BY DEF Fresh, OfDialog, Outstanding
<1>6. TypeInv /\ m = Len(calls) + 1
  BY <1>1
<1> HIDE DEF js, m
<1>7. FreshSent(js, c, m)
  BY <1>2, <1>3, <1>4, <1>6, FreshIfSent
<1>8. ASSUME NEW e \in Dialogs \ {d} PROVE Matches(e, Fresh(e))
  <2>1. Fresh(e)' = Fresh(e) /\ \A j \in Fresh(e) : calls'[j].arg = calls[j].arg
    BY <1>4, <1>5, <1>7 DEF FreshSent
  <2>2. QED
    BY <2>1, MatchesSame
<1>9. MinersInv(d)'
  <2>1. Fresh(d)' = {m} /\ calls'[m] = c
    BY <1>4, <1>5, <1>7 DEF FreshSent
  <2>2. Len(deal'[d].tableData) = 0 /\ FirstPages(location, 0) = <<>>
    BY <1>1, Empty, NoPages
  <2>3. PageSize \in Nat
    BY DealBounds
  <2>4. \A j \in Fresh(d)' : /\ calls'[j].arg.location = deal'[d].parentName
                             /\ calls'[j].arg.page <= deal'[d].page
    BY <1>1, <1>4, <2>1
  <2>5. Fresh(d)' # {}
    BY <2>1
  <2>6. QED
    BY <1>1, <2>2, <2>3, <2>4, <2>5 DEF MinersInv, FirstPages
<1>10. QED
  BY <1>1, <1>8, <1>9, OtherMiners

LEMMA MinersIfReloaded ==
  ASSUME Inv, AllMiners, NEW d \in Dialogs, GetDiglogChange(d)
  PROVE  AllMiners'
<1>1. /\ TypeInv /\ \A e \in Dialogs \ {d} : deal'[e] = deal[e]
      /\ deal'[d] = DealView
      /\ calls' = Only(calls, DOMAIN calls \ OfDialog(d, DealOps))
  BY ReloadStep DEF Inv
<1>2. \A e \in Dialogs \ {d} : Matches(e, Fresh(e))
  <2> TAKE e \in Dialogs \ {d}
  <2>1. Matches(e, IF e = d THEN {} ELSE Fresh(e))
    BY <1>1, MatchesIfReloaded
  <2>2. QED
    BY <2>1
<1>3. Fresh(d)' = {}
  <2>1. Matches(d, IF d = d THEN {} ELSE Fresh(d))
    BY <1>1, MatchesIfReloaded
  <2>2. QED
    BY <2>1 DEF Matches
<1>4. deal'[d].total = PageSize /\ deal'[d].parentName = NoLocation /\ PageSize \in Nat
  BY <1>1, DealBounds DEF DealView
<1>5. MinersInv(d)'
  BY <1>3, <1>4 DEF MinersInv
<1>6. QED
  BY <1>1, <1>2, <1>5, OtherMiners

LEMMA MinersIfLost ==
  ASSUME Inv, AllMiners, NEW i \in DOMAIN calls, DealDropped(i), calls[i].op = "Miners"
  PROVE  AllMiners'
<1> SUFFICES ASSUME NEW d, d = calls[i].arg.dialog PROVE AllMiners'
  OBVIOUS
<1>1. /\ TypeInv /\ Done(i, <<>>) /\ d \in Dialogs /\ \A e \in Dialogs \ {d} : deal'[e] = deal[e]
      /\ ~deal'[d].fresh /\ \A k \in MinersFields \ {"fresh"} : deal'[d][k] = deal[d][k]
  BY PageLostStep DEF Inv
<1>2. \A e : i \in Fresh(e) => e = d
  BY DEF Fresh
<1>3. \A e : Matches(e, Fresh(e) \ {i})
  BY <1>1, MatchesIfDone
<1>4. \A e \in Dialogs \ {d} : Matches(e, Fresh(e))
  <2> TAKE e \in Dialogs \ {d}
  <2>1. Fresh(e) \ {i} = Fresh(e)
    BY <1>2
  <2>2. Matches(e, Fresh(e) \ {i})
    BY <1>3
  <2>3. QED
    BY <2>1, <2>2
<1>5. MinersInv(d)'
  <2>1. /\ deal'[d].total = deal[d].total /\ deal'[d].parentName = deal[d].parentName
        /\ deal'[d].page = deal[d].page
    BY <1>1 DEF MinersFields
  <2>2. PICK g : \A j \in Fresh(d)' : g[j] \in Fresh(d) \ {i} /\ calls'[j].arg = calls[g[j]].arg
    BY <1>3 DEF Matches
  <2>3. MinersInv(d)
    BY <1>1 DEF AllMiners
  <2>4. \A j \in Fresh(d)' : /\ calls'[j].arg.location = deal'[d].parentName
                             /\ calls'[j].arg.page <= deal'[d].page
    BY <2>1, <2>2, <2>3 DEF MinersInv
  <2>5. QED
    BY <1>1, <2>1, <2>3, <2>4 DEF MinersInv
<1>6. QED
  BY <1>1, <1>4, <1>5, OtherMiners

LEMMA Monotone ==
  ASSUME NEW a \in Nat, NEW b \in Nat, a <= b, NEW p \in Nat
  PROVE  a * p <= b * p /\ a * p \in Nat /\ b * p \in Nat
<1>1. PICK k \in Nat : b = a + k
  <2>1. b - a \in Nat /\ b = a + (b - a)
    OBVIOUS
  <2>2. QED
    BY <2>1
<1>2. k * p \in Nat /\ a * p \in Nat /\ (a + k) * p = a * p + k * p
  OBVIOUS
<1>3. QED
  BY <1>1, <1>2

LEMMA ArePages ==
  ASSUME NEW s, Sequence(s), NEW n, n = Len(s), NEW location,
         \A k \in 1..n : s[k] = <<location, k - 1>>
  PROVE  s = FirstPages(location, n)
<1>1. s = [k \in 1..n |-> s[k]]
  BY Indices DEF Sequence
<1>2. QED
  BY <1>1 DEF FirstPages

LEMMA MinersIfLoaded ==
  ASSUME Inv, AllMiners, NEW d \in Dialogs, LoadMore(d)
  PROVE  AllMiners'
<1> DEFINE f == deal[d]
           n == Len(f.tableData)
           page == f.page + 1
           all == Miners[f.parentName]
           c == MinersCall(d, f.parentName, page)
           cs == <<c>>
           js == {}
           m == Len(calls) + 1
<1>1. /\ TypeInv /\ f.tableData # <<>> /\ f.loadSign /\ f.parentName \in Locations
      /\ \A e \in Dialogs \ {d} : deal'[e] = deal[e]
      /\ \A k \in MinersFields \ {"page", "loadSign"} : deal'[d][k] = f[k]
      /\ deal'[d].page = page /\ ~deal'[d].loadSign
      /\ page * PageSize >= f.total \/ UserSends(cs)
      /\ page * PageSize >= f.total => calls' = calls
  BY LoadStep DEF Inv
<1>2. c.op = "Miners" /\ ~c.late /\ c.arg.dialog = d /\ c.arg.location = f.parentName /\ c.arg.page = page
  BY DEF MinersCall, Request
<1>3. Sequence(cs) /\ Len(cs) = 1 /\ cs[1] = c
  BY Single
<1>4. /\ deal'[d].parentName = f.parentName /\ deal'[d].tableData = f.tableData
      /\ deal'[d].total = f.total /\ deal'[d].fresh = f.fresh
  BY <1>1 DEF MinersFields
<1>5. n \in Nat /\ n # 0 /\ f.page \in Nat /\ f.total \in Nat /\ PageSize \in Nat
      /\ all \in Nat /\ n * PageSize \in Nat
  <2>1. IsDeal(f) /\ PageSize \in Nat /\ all \in Nat
    BY <1>1, DealBounds DEF TypeInv
  <2>2. Sequence(f.tableData) /\ f.page \in Nat /\ f.total \in Nat
    BY <2>1 DEF IsDeal
  <2>3. n \in Nat /\ n # 0
    BY <1>1, <2>2, NoPages
  <2>4. QED
    BY <2>1, <2>2, <2>3, Monotone
<1>6. MinersInv(d)
  BY DEF AllMiners
<1>7. calls' = Overtaken(js) \o cs \/ page * PageSize >= f.total
  BY <1>1, OvertakenNone, CallsAreRequests DEF UserSends, TypeInv
<1> HIDE DEF c, cs, page
<1>8. CASE page * PageSize >= f.total
  <2>1. calls' = calls
    BY <1>1, <1>8
  <2>2. /\ \A e : Fresh(e)' = Fresh(e) /\ \A j \in Fresh(e) : calls'[j].arg = calls[j].arg
        /\ Later(d)' = Later(d)
    BY <2>1 DEF Fresh, Later
  <2>3. \A e \in Dialogs \ {d} : Matches(e, Fresh(e))
    BY <2>2, MatchesSame
  <2>4. f.fresh /\ f.parentName # NoLocation => n * PageSize >= all /\ Loads(d)'
    <3> SUFFICES ASSUME f.fresh, f.parentName # NoLocation
                 PROVE  n * PageSize >= all /\ Loads(d)'
      OBVIOUS
    <3>1. f.total >= all /\ Loads(d)
      BY <1>5, <1>6 DEF MinersInv
    <3>2. n * PageSize >= all /\ f.page >= n - 1 /\ \A j \in Later(d) : calls[j].arg.page >= n
      <4>1. f.page = n - 1 => page = n
        BY <1>5 DEF page
      <4>2. page = n => n * PageSize >= all
        BY <1>5, <1>8, <3>1
      <4>3. n * PageSize >= all => ~(n * PageSize < all)
        BY <1>5
      <4>4. QED
        BY <1>1, <3>1, <4>1, <4>2, <4>3 DEF Loads
    <3>3. page >= n - 1
      BY <1>5, <3>2 DEF page
    <3>4. QED
      BY <1>1, <1>4, <2>1, <2>2, <3>2, <3>3 DEF Loads
  <2>5. \A j \in Fresh(d)' : calls'[j].arg.location = f.parentName /\ calls'[j].arg.page <= page
    <3>1. \A j \in Fresh(d) : calls[j].arg.page \in Nat
      BY <1>1, CallAt DEF Fresh, TypeInv, IsCall, IsArg, DealArg, DealOps
    <3>2. QED
      BY <1>5, <1>6, <2>1, <2>2, <3>1 DEF MinersInv, page
  <2>6. MinersInv(d)'
    BY <1>1, <1>4, <1>5, <1>6, <2>4, <2>5 DEF MinersInv
  <2>7. QED
    BY <1>1, <2>3, <2>6, OtherMiners
<1>9. CASE ~(page * PageSize >= f.total)
  <2>1. TypeInv /\ m = Len(calls) + 1 /\ calls' = Overtaken(js) \o cs
    BY <1>1, <1>7, <1>9
  <2>2. \A e : Fresh(e) \ js = Fresh(e)
    OBVIOUS
  <2> HIDE DEF js, m
  <2>3. FreshSent(js, c, m)
    BY <1>2, <1>3, <2>1, FreshIfSent
  <2>4. ASSUME NEW e \in Dialogs \ {d} PROVE Matches(e, Fresh(e))
    <3>1. Fresh(e)' = Fresh(e) /\ \A j \in Fresh(e) : calls'[j].arg = calls[j].arg
      BY <1>2, <2>2, <2>3, <2>4 DEF FreshSent
    <3>2. QED
      BY <3>1, MatchesSame
  <2>5. /\ Fresh(d)' = Fresh(d) \cup {m} /\ calls'[m] = c
        /\ \A j \in Fresh(d) : calls'[j].arg = calls[j].arg /\ j # m
    BY <1>2, <2>2, <2>3 DEF FreshSent
  <2>6. \A j \in Fresh(d)' : calls'[j].arg.location = f.parentName /\ calls'[j].arg.page <= page
    <3>1. \A j \in Fresh(d) : calls[j].arg.page \in Nat
      BY <1>1, CallAt DEF Fresh, TypeInv, IsCall, IsArg, DealArg, DealOps
    <3>2. QED
      BY <1>2, <1>5, <1>6, <2>5, <3>1 DEF MinersInv, page
  <2>7. Later(d)' = Later(d) \cup {m} /\ calls'[m].arg.page = page
        /\ \A j \in Later(d) : calls'[j].arg = calls[j].arg
    BY <1>2, <1>5, <2>5 DEF Later, page
  <2>8. f.fresh /\ f.parentName # NoLocation => Loads(d)'
    <3> SUFFICES ASSUME f.fresh, f.parentName # NoLocation PROVE Loads(d)'
      OBVIOUS
    <3>1. Loads(d)
      BY <1>5, <1>6 DEF MinersInv
    <3>2. CASE n * PageSize < all /\ f.page = n - 1 /\ Later(d) = {}
      <4>1. page = n /\ m \in Later(d)' /\ \A k \in Later(d)' : k = m
        BY <1>5, <2>7, <3>2 DEF page
      <4>2. QED
        BY <1>1, <1>4, <2>7, <3>2, <4>1 DEF Loads
    <3>3. CASE n * PageSize >= all /\ f.page >= n - 1 /\ \A j \in Later(d) : calls[j].arg.page >= n
      <4>1. page >= n - 1 /\ page >= n
        BY <1>5, <3>3 DEF page
      <4>2. \A j \in Later(d)' : calls'[j].arg.page >= n
        BY <2>7, <3>3, <4>1
      <4>3. QED
        BY <1>1, <1>4, <3>3, <4>1, <4>2 DEF Loads
    <3>4. QED
      BY <1>1, <3>1, <3>2, <3>3 DEF Loads
  <2>9. MinersInv(d)'
    BY <1>1, <1>4, <1>5, <1>6, <2>6, <2>8 DEF MinersInv
  <2>10. QED
    BY <1>1, <2>4, <2>9, OtherMiners
<1>10. QED
  BY <1>8, <1>9

LEMMA AnotherPage ==
  ASSUME NEW s, Sequence(s), NEW n, n = Len(s), NEW location, s = FirstPages(location, n),
         NEW t, Sequence(t), Len(t) = 1, t[1] = <<location, n>>
  PROVE  s \o t = FirstPages(location, n + 1) /\ Len(s \o t) = n + 1
<1> DEFINE x == <<location, n>>
           u == s \o t
<1>1. n \in Nat /\ \A k \in 1..n : s[k] = <<location, k - 1>>
  BY Indices DEF FirstPages
<1>2. x = <<location, (n + 1) - 1>> /\ t[1] = x
  <2>1. (n + 1) - 1 = n
    BY <1>1
  <2>2. QED
    BY <2>1
<1> HIDE DEF x
<1>3. /\ Sequence(u) /\ Len(u) = Len(s) + Len(t)
      /\ \A k \in 1..Len(s) : u[k] = s[k]
      /\ \A k \in 1..Len(t) : u[Len(s) + k] = t[k]
  <2>1. Sequence(s) /\ Sequence(t)
    OBVIOUS
  <2>2. QED
    BY ONLY <2>1, Joined
<1> HIDE DEF u
<1>4. Len(u) = n + 1 /\ u[n + 1] = x /\ \A k \in 1..n : u[k] = s[k]
  BY <1>1, <1>2, <1>3
<1>5. \A k \in 1..(n + 1) : u[k] = <<location, k - 1>>
  <2>1. \A k \in 1..(n + 1) : k \in 1..n \/ k = n + 1
    BY <1>1
  <2>2. QED
    BY <1>1, <1>2, <1>4, <2>1
<1>6. u = FirstPages(location, n + 1)
  BY <1>3, <1>4, <1>5, ArePages
<1>7. QED
  BY <1>4, <1>6 DEF u

\* What the answer to a request that is fresh makes of the pages.
ListsPage(d, i) ==
    LET f == deal[d]
        c == calls[i]
    IN  /\ deal'[d].parentName = f.parentName /\ deal'[d].page = f.page /\ deal'[d].loadSign
        /\ c.arg.page = 0 => /\ f.page = 0 /\ deal'[d].tableData = PageOf(c)
                             /\ deal'[d].total >= Miners[f.parentName]
        /\ c.arg.page # 0 => /\ f.fresh /\ f.parentName # NoLocation
                             /\ deal'[d].tableData = f.tableData \o PageOf(c)
                             /\ deal'[d].total = f.total
PagesShown(d) ==
    LET f == deal[d]
        n == Len(f.tableData)
    IN  /\ f.tableData = FirstPages(f.parentName, n) /\ n \in Nat \ {0}
        /\ f.total >= Miners[f.parentName] /\ Loads(d)

LEMMA LoadsIfListed ==
  ASSUME TypeInv, NEW d \in Dialogs, MinersInv(d), deal[d].parentName \in Locations,
         NEW i \in Fresh(d), ListsPage(d, i), Matches(d, Fresh(d) \ {i})
  PROVE  PagesShown(d)'
<1> DEFINE page == calls[i].arg.page
            f == deal[d]
           n == Len(f.tableData)
           l == f.parentName
           all == Miners[l]
           later == Len(deal'[d].tableData)
<1>0. /\ deal'[d].parentName = l /\ deal'[d].page = f.page /\ deal'[d].loadSign
      /\ page = 0 => f.page = 0 /\ deal'[d].tableData = PageOf(calls[i]) /\ deal'[d].total >= all
      /\ page # 0 => /\ f.fresh /\ l # NoLocation
                     /\ deal'[d].tableData = f.tableData \o PageOf(calls[i])
                     /\ deal'[d].total = f.total
  BY DEF ListsPage
<1>1. /\ IsDeal(f) /\ all \in Nat \ {0} /\ PageSize \in Nat \ {0}
      /\ \A j \in Fresh(d) : calls[j].arg.page \in Nat
      /\ calls[i].arg.location = l
  BY DealBounds, CallAt DEF Fresh, TypeInv, IsCall, IsArg, DealArg, DealOps, MinersInv
<1>2. Sequence(f.tableData) /\ f.page \in Nat /\ f.total \in Nat /\ n \in Nat /\ page \in Nat
  BY <1>1, NoPages DEF IsDeal
<1>3. PICK g : \A j \in Fresh(d)' : g[j] \in Fresh(d) \ {i} /\ calls'[j].arg = calls[g[j]].arg
  BY DEF Matches
<1>4. \A j \in Later(d)' : g[j] \in Later(d) \ {i} /\ calls'[j].arg = calls[g[j]].arg
  BY <1>3 DEF Later
<1>5. PageOf(calls[i]) = IF page * PageSize < all THEN <<<<l, page>>>> ELSE <<>>
  BY <1>1 DEF PageOf
<1> HIDE DEF page
<1>11. /\ page * PageSize < all => /\ Sequence(PageOf(calls[i])) /\ Len(PageOf(calls[i])) = 1
                                  /\ PageOf(calls[i])[1] = <<l, page>>
       /\ ~(page * PageSize < all) => PageOf(calls[i]) = <<>>
  BY <1>5, Single
<1>6. n * PageSize \in Nat /\ page * PageSize \in Nat
  BY <1>1, <1>2, Monotone
<1>7. ASSUME Later(d)' = {}, f.page = later - 1, later \in Nat \ {0} PROVE Loads(d)'
  <2>1. later * PageSize \in Nat
    BY <1>1, <1>7, Monotone
  <2>2. later * PageSize < all \/ later * PageSize >= all
    BY <1>1, <2>1
  <2>3. f.page >= later - 1
    BY <1>2, <1>7
  <2>4. QED
    BY <1>0, <1>7, <2>2, <2>3 DEF Loads
<1>8. CASE page = 0
  <2> SUFFICES /\ deal'[d].tableData = FirstPages(l, later) /\ later \in Nat \ {0}
               /\ deal'[d].total >= all /\ Loads(d)'
    BY <1>0 DEF PagesShown
  <2>1. 0 * PageSize < all /\ FirstPages(l, 1) = <<<<l, 0>>>>
    <3> DEFINE x == <<l, 0>>
               t == <<x>>
    <3>1. Sequence(t) /\ Len(t) = 1 /\ t[1] = x
      BY Single
    <3>2. x = <<l, 1 - 1>> /\ \A k \in 1..1 : k = 1
      OBVIOUS
    <3> HIDE DEF x, t
    <3>3. \A k \in 1..1 : t[k] = <<l, k - 1>>
      BY <3>1, <3>2
    <3>4. t = FirstPages(l, 1)
      BY <3>1, <3>3, ArePages
    <3>5. QED
      BY <1>1, <3>4 DEF t, x
  <2>2. deal'[d].tableData = FirstPages(l, 1)
    BY <1>0, <1>5, <1>8, <2>1
  <2>3. later = 1
    <3>1. Len(<<<<l, 0>>>>) = 1
      BY Single
    <3>2. QED
      BY <2>1, <2>2, <3>1
  <2>4. Later(d)' = {}
    <3>1. \A j \in Later(d) : calls[j].arg.page > 0 /\ calls[j].arg.page <= f.page
                              /\ calls[j].arg.page \in Nat
      BY <1>1 DEF Later, MinersInv
    <3>2. f.page = 0
      BY <1>0, <1>8
    <3>3. QED
      BY <1>4, <3>1, <3>2
  <2> HIDE DEF later
  <2>5. Loads(d)'
    BY <1>0, <1>7, <1>8, <2>3, <2>4
  <2>6. QED
    BY <1>0, <1>8, <2>2, <2>3, <2>5
<1>9. CASE page # 0
  <2> SUFFICES /\ deal'[d].tableData = FirstPages(l, later) /\ later \in Nat \ {0}
               /\ deal'[d].total >= all /\ Loads(d)'
    BY <1>0 DEF PagesShown
  <2>1. i \in Later(d) /\ page <= f.page
    BY <1>2, <1>9 DEF Later, MinersInv, page
  <2>2. f.tableData = FirstPages(l, n) /\ n > 0 /\ f.total >= all /\ Loads(d)
    <3>1. f.page # 0
      BY <1>2, <1>9, <2>1
    <3>2. n # 0
      BY <1>0, <1>9, <3>1 DEF MinersInv
    <3>3. n > 0
      BY <1>2, <3>2
    <3>4. QED
      BY <1>0, <1>9, <3>3 DEF MinersInv
  <2>3. CASE /\ n * PageSize < all /\ ~f.loadSign /\ f.page = n
             /\ \E j \in Later(d) : calls[j].arg.page = n /\ \A k \in Later(d) : k = j
    <3>1. page = n /\ \A k \in Later(d) : k = i
      BY <2>1, <2>3 DEF page
    <3>2. Later(d)' = {}
      BY <1>4, <3>1
    <3> DEFINE s == f.tableData
               t == PageOf(calls[i])
               k == n
    <3>3. deal'[d].tableData = s \o t /\ Sequence(t) /\ Len(t) = 1 /\ t[1] = <<l, n>>
      BY <1>0, <1>11, <1>9, <2>3, <3>1
    <3>4. deal'[d].tableData = FirstPages(l, n + 1) /\ later = n + 1
      <4>1. Sequence(s) /\ k = Len(s) /\ s = FirstPages(l, k) /\ t[1] = <<l, k>>
        BY <1>2, <2>2, <3>3
      <4> HIDE DEF s, t, k, l
      <4>2. s \o t = FirstPages(l, k + 1) /\ Len(s \o t) = k + 1
        BY <3>3, <4>1, AnotherPage
      <4>3. QED
        BY <3>3, <4>2 DEF k
    <3> HIDE DEF later
    <3>5. later \in Nat \ {0} /\ f.page = later - 1
      BY <1>2, <2>3, <3>4
    <3>6. Loads(d)'
      BY <1>0, <1>7, <3>2, <3>5
    <3>7. QED
      BY <1>0, <1>9, <2>2, <3>4, <3>5, <3>6
  <2>4. CASE n * PageSize >= all /\ f.page >= n - 1 /\ \A j \in Later(d) : calls[j].arg.page >= n
    <3>1. n <= page
      BY <1>2, <2>1, <2>4 DEF page
    <3>2. n * PageSize <= page * PageSize
      BY <1>1, <1>2, <3>1, Monotone
    <3>3. ~(page * PageSize < all)
      BY <1>1, <1>6, <2>4, <3>2
    <3>4. deal'[d].tableData = f.tableData
      <4>1. f.tableData \o <<>> = f.tableData
        BY <1>2 DEF Sequence
      <4>2. QED
        BY <1>0, <1>11, <1>9, <3>3, <4>1
    <3>5. \A j \in Later(d)' : calls'[j].arg.page >= n
      BY <1>4, <2>4
    <3>6. Loads(d)'
      BY <1>0, <2>4, <3>4, <3>5 DEF Loads
    <3>7. QED
      BY <1>0, <1>2, <1>9, <2>2, <3>4, <3>6
  <2>5. QED
    BY <2>1, <2>2, <2>3, <2>4 DEF Loads
<1>10. QED
  BY <1>8, <1>9

LEMMA MinersIfListed ==
  ASSUME Inv, AllMiners, NEW i \in DOMAIN calls, MinersListed(i)
  PROVE  AllMiners'
<1> SUFFICES ASSUME NEW c, c = calls[i], NEW d, d = c.arg.dialog PROVE AllMiners'
  OBVIOUS
<1>1. /\ TypeInv /\ c.op = "Miners" /\ Done(i, <<>>)
      /\ d \in Dialogs /\ c.arg.location \in Locations /\ c.arg.page \in Nat
      /\ Miners[c.arg.location] \in Nat \ {0}
      /\ \A e \in Dialogs \ {d} : deal'[e] = deal[e]
      /\ deal'[d].parentName = deal[d].parentName /\ deal'[d].page = deal[d].page /\ deal'[d].loadSign
  BY MinersListedStep DEF Inv
<1>2. /\ c.arg.page = 0 =>
           /\ deal'[d].tableData = PageOf(c)
           /\ deal'[d].total = IF Miners[c.arg.location] > PageSize THEN Miners[c.arg.location]
                                                                      ELSE deal[d].total
           /\ deal'[d].fresh => ~c.late /\ deal[d].page = 0
      /\ c.arg.page # 0 => /\ deal'[d].tableData = deal[d].tableData \o PageOf(c)
                           /\ deal'[d].total = deal[d].total
                           /\ deal'[d].fresh => deal[d].fresh /\ ~c.late
  BY MinersListedStep DEF Inv
<1>3. (\A e : Matches(e, Fresh(e) \ {i})) /\ \A e : i \in Fresh(e) => e = d
  <2>1. \A e : Matches(e, Fresh(e) \ {i})
    BY <1>1, MatchesIfDone
  <2>2. \A e : i \in Fresh(e) => e = d
    BY DEF Fresh
  <2>3. QED
    BY <2>1, <2>2
<1>4. \A e \in Dialogs \ {d} : Matches(e, Fresh(e))
  <2> TAKE e \in Dialogs \ {d}
  <2>1. Fresh(e) \ {i} = Fresh(e)
    BY <1>3
  <2>2. Matches(e, Fresh(e) \ {i})
    BY <1>3
  <2>3. QED
    BY <2>1, <2>2
<1>5. MinersInv(d) /\ PageSize \in Nat /\ deal[d].total \in Nat
  BY <1>1, DealBounds DEF AllMiners, TypeInv, IsDeal
<1>6. deal'[d].total >= PageSize
  BY <1>1, <1>2, <1>5 DEF MinersInv
<1>7. \A j \in Fresh(d)' : /\ calls'[j].arg.location = deal'[d].parentName
                           /\ calls'[j].arg.page <= deal'[d].page
  <2>1. PICK g : \A j \in Fresh(d)' : g[j] \in Fresh(d) \ {i} /\ calls'[j].arg = calls[g[j]].arg
    BY <1>3 DEF Matches
  <2>2. QED
    BY <1>1, <1>5, <2>1 DEF MinersInv
<1>8. ASSUME deal'[d].fresh, deal'[d].parentName # NoLocation PROVE PagesShown(d)'
  <2>1. i \in Fresh(d)
    BY <1>1, <1>2, <1>8 DEF Fresh
  <2>2. c.arg.location = deal[d].parentName
    BY <1>5, <2>1 DEF MinersInv
  <2>3. c.arg.page = 0 => deal'[d].total >= Miners[deal[d].parentName]
    BY <1>1, <1>2, <1>5, <2>2 DEF MinersInv
  <2>4. ListsPage(d, i)
    BY <1>1, <1>2, <1>8, <2>3 DEF ListsPage
  <2>5. QED
    BY <1>1, <1>3, <1>5, <2>1, <2>2, <2>4, LoadsIfListed
<1>9. MinersInv(d)'
  BY <1>6, <1>7, <1>8 DEF MinersInv, PagesShown
<1>10. QED
  BY <1>1, <1>4, <1>9, OtherMiners

LEMMA MinersIfDealing ==
  ASSUME Inv, Inv', AllMiners, Dealing
  PROVE  AllMiners'
<1>1. CASE Fills
  BY <1>1, FillStep, MinersSpared DEF Inv
<1>2. CASE Submits \/ \E i \in DOMAIN calls : DealEnds(i)
  <2>1. FormsOnly /\ Touches({}, {}, {}, {}, DealApis) /\ "Miners" \notin DealApis
    BY <1>2, SubmitStep, DealEndsStep DEF Inv, DealApis
  <2>2. QED
    BY <2>1, MinersSpared DEF Inv
<1>3. CASE \E d \in Dialogs, location \in Locations : HandleOpen(d, location)
  BY <1>3, MinersIfOpened
<1>4. CASE \E d \in Dialogs : LoadMore(d)
  BY <1>4, MinersIfLoaded
<1>5. CASE \E d \in Dialogs : GetDiglogChange(d)
  BY <1>5, MinersIfReloaded
<1>6. CASE \E i \in DOMAIN calls : MinersListed(i)
  BY <1>6, MinersIfListed
<1>7. CASE \E i \in DOMAIN calls : DealDropped(i) /\ calls[i].op = "Miners"
  BY <1>7, MinersIfLost
<1>8. QED
  BY <1>1, <1>2, <1>3, <1>4, <1>5, <1>6, <1>7 DEF Dealing

LEMMA MinersAside ==
  ASSUME Inv, Inv', AllMiners, UNCHANGED deal, NEW H, NEW F, NEW S, NEW N, NEW ops,
         Touches(H, F, S, N, ops), "Miners" \notin ops
  PROVE  AllMiners'
BY FormsStay, MinersSpared DEF Inv

LEMMA MinersKept ==
  ASSUME Inv, AllMiners, [Next]_vars
  PROVE  AllMiners'
<1>1. Inv'
  BY InvKept
<1>2. CASE Resting
  BY <1>1, <1>2, RestingStep, MinersAside
<1>3. CASE Dealing
  BY <1>1, <1>3, MinersIfDealing
<1>4. CASE Minding
  BY <1>1, <1>4, MindingStep, MinersAside DEF MindOps, MenuOps
<1>5. CASE Going
  BY <1>1, <1>5, GoingStep, MinersAside DEF GoesToTop, ToTop, GoOps
<1>6. CASE Walking
  BY <1>1, <1>6, WalkingStep, MinersAside
<1>7. CASE Selecting
  BY <1>1, <1>7, SelectingStep, MinersAside DEF PickOps
<1>8. CASE Moving
  BY <1>1, <1>8, MovingStep, MinersAside DEF MoveOps
<1>9. CASE Replying
  <2>1. deal' = deal
    BY <1>9, ReplyingStep
  <2>2. ASSUME NEW d \in Dialogs PROVE MinersInv(d)'
    BY <1>9, <2>1, <2>2, MatchesReplied, MinersCarried DEF AllMiners
  <2>3. QED
    BY <2>2 DEF AllMiners
<1>10. CASE Storing
  BY <1>1, <1>10, StoringStep, MinersAside DEF StoreOps
<1>11. CASE Deleting
  BY <1>1, <1>11, DeletingStep, MinersAside DEF DeleteOps
<1>12. CASE Sharing
  BY <1>1, <1>12, SharingStep, MinersAside
<1>13. CASE Opening
  BY <1>1, <1>13, OpeningStep, MinersAside
<1>14. CASE Uploading
  BY <1>1, <1>14, UploadingStep, MinersAside
<1>15. ASSUME NEW i \in DOMAIN calls, Handling(i), Aside PROVE AllMiners'
  <2>1. TypeInv /\ deal' = deal
    BY <1>15 DEF Inv, Aside
  <2>2. CASE ObjectsListed(i)
    BY <1>1, <1>15, <2>1, <2>2, ObjectsListedStep, MinersAside
  <2>3. CASE ObjectRemoved(i)
    BY <1>1, <1>15, <2>1, <2>3, ObjectRemovedStep, MinersAside
  <2>4. CASE ProgressFunction(i)
    BY <1>1, <1>15, <2>1, <2>4, ProgressStep, MinersAside
  <2>5. CASE Uploaded(i)
    BY <1>1, <1>15, <2>1, <2>5, UploadedStep, MinersAside
  <2>6. CASE LinkMade(i)
    BY <1>1, <1>15, <2>1, <2>6, LinkMadeStep, MinersAside
  <2>7. CASE DealsListed(i)
    BY <1>1, <1>15, <2>1, <2>7, DealsListedStep, MinersAside
  <2>8. CASE Dropped(i)
    <3>1. /\ Touches({}, {"exChangeList"}, {"fresh"}, {"fresh", "cut"}, {calls[i].op})
          /\ "Miners" \notin {calls[i].op}
      BY <1>15, <2>1, <2>8, DroppedStep DEF PageOps
    <3>2. QED
      BY <1>1, <2>1, <3>1, MinersAside
  <2>9. QED
    BY <1>15, <2>2, <2>3, <2>4, <2>5, <2>6, <2>7, <2>8 DEF Handling
<1>16. CASE UNCHANGED vars
  BY <1>1, <1>16, StutterStep, MinersAside
<1>17. QED
  BY <1>2, <1>3, <1>4, <1>5, <1>6, <1>7, <1>8, <1>9, <1>10, <1>11, <1>12, <1>13, <1>14, <1>15,
     <1>16, EveryStep DEF Steps, Inv

LEMMA MinersBegin ==
  ASSUME Init
  PROVE  AllMiners
<1>1. TypeInv /\ deal = [d \in Dialogs |-> DealView] /\ \A c \in Of(calls) : c.op # "Miners"
  BY Begins DEF Inv, Begun, FirstOps
<1>2. ASSUME NEW d \in Dialogs PROVE MinersInv(d)
  <2>1. deal[d].total = PageSize /\ deal[d].parentName = NoLocation /\ PageSize \in Nat
    BY <1>1, DealBounds DEF DealView
  <2>2. Fresh(d) = {}
    BY <1>1 DEF Fresh, Of
  <2>3. QED
    BY <2>1, <2>2 DEF MinersInv
<1>3. QED
  BY <1>2 DEF AllMiners

\* The providers shown are the first pages of the location, in order, and
\* scrolling goes on until all are there (shareDialog.vue handleOpen, loadMore).
THEOREM ProvidersFollow == Spec => []ProvidersInOrder
<1>1. Init => Inv /\ AllMiners
  BY Begins, MinersBegin
<1>2. Inv /\ AllMiners /\ [Next]_vars => (Inv /\ AllMiners)'
  BY InvKept, MinersKept
<1>3. AllMiners => ProvidersInOrder
  <2> SUFFICES ASSUME AllMiners, NEW d \in Dialogs, deal[d].fresh, deal[d].parentName # NoLocation,
                      OfDialog(d, {"Miners"}) = {}
               PROVE  LET n == Len(deal[d].tableData)
                      IN  /\ deal[d].tableData = FirstPages(deal[d].parentName, n)
                          /\ deal[d].loadSign \/ n * PageSize >= Miners[deal[d].parentName]
    BY DEF ProvidersInOrder, FirstPages
  <2>1. Fresh(d) = {} /\ Later(d) = {}
    BY DEF Fresh, Later, OfDialog, Outstanding
  <2> DEFINE n == Len(deal[d].tableData)
  <2>2. MinersInv(d)
    BY DEF AllMiners
  <2>3. /\ deal[d].tableData = FirstPages(deal[d].parentName, n) /\ n # 0
        /\ n > 0 => Loads(d)
    BY <2>1, <2>2 DEF MinersInv
  <2>4. QED
    BY <2>1, <2>3 DEF Loads
<1>4. QED
  BY <1>1, <1>2, <1>3, PTL DEF Spec

----------------------------------------------------------------------------
----------------------------------------------------------------------------
(* What FS3 stores under a prefix, and the rows that list it.              *)

UnderIn(s, b, p) ==
    IF Len(b) = 1 /\ b[1] \in DOMAIN s THEN {o \in s[b[1]] : IsPrefix(p, o)} ELSE {}
RowsIn(s, b, p) == RowsOf(UnderIn(s, b, p), Len(p) + 1)

LEMMA ListingIsRowsIn ==
  ASSUME IsStore(stored), NEW b, NEW p \in Seq(STRING)
  PROVE  Names(Listing(b, p)) = RowsIn(stored, b, p)
<1>1. Under(b, p) = UnderIn(stored, b, p)
  BY DEF Under, UnderIn, IsBucket
<1>2. QED
  BY <1>1, ListingRows DEF RowsIn

LEMMA StoredObjects ==
  ASSUME NEW s, IsStore(s), NEW b, NEW p
  PROVE  UnderIn(s, b, p) \subseteq ObjectName /\ UnderIn(s, b, p) \subseteq UnderIn(s, b, <<>>)
<1>1. \A o \in ObjectName : IsPrefix(<<>>, o)
  <2>1. SUFFICES ASSUME NEW o \in ObjectName PROVE IsPrefix(<<>>, o)
    OBVIOUS
  <2>2. o \in Seq(STRING) /\ Len(o) \in Nat /\ Len(<<>>) = 0
    BY DEF ObjectName
  <2>3. SubSeq(<<>>, 1, 0) = <<>> /\ SubSeq(o, 1, 0) = <<>>
    BY <2>2
  <2>4. QED
    BY <2>2, <2>3 DEF IsPrefix
<1>2. QED
  BY <1>1 DEF UnderIn, IsStore

\* A row has the first part of the name of some object.
RowOf(o, n) == [name |-> SubSeq(o, 1, n), folder |-> Len(o) > n]

LEMMA RowsFrom ==
  ASSUME NEW os, os \subseteq ObjectName, NEW n \in Nat, NEW r
  PROVE  r \in RowsOf(os, n) <=> \E o \in os : Len(o) >= n /\ r = RowOf(o, n)
<1>1. ASSUME NEW o \in os
      PROVE  /\ Len(o) \in Nat
             /\ Len(o) = n => RowOf(o, n) = [name |-> o, folder |-> FALSE]
             /\ Len(o) > n => RowOf(o, n) = [name |-> SubSeq(o, 1, n), folder |-> TRUE]
  <2>1. o \in Seq(STRING) /\ Len(o) \in Nat
    BY DEF ObjectName
  <2>2. Len(o) = n => SubSeq(o, 1, n) = o /\ (Len(o) > n) = FALSE
    BY <2>1
  <2>3. Len(o) > n => (Len(o) > n) = TRUE
    OBVIOUS
  <2>4. QED
    BY <2>1, <2>2, <2>3, Zenon DEF RowOf
<1>2. r \in RowsOf(os, n) <=>
        \/ \E o \in os : Len(o) = n /\ r = [name |-> o, folder |-> FALSE]
        \/ \E o \in os : Len(o) > n /\ r = [name |-> SubSeq(o, 1, n), folder |-> TRUE]
  BY DEF RowsOf
<1>3. ASSUME r \in RowsOf(os, n) PROVE \E o \in os : Len(o) >= n /\ r = RowOf(o, n)
  <2>1. PICK o \in os : \/ Len(o) = n /\ r = [name |-> o, folder |-> FALSE]
                        \/ Len(o) > n /\ r = [name |-> SubSeq(o, 1, n), folder |-> TRUE]
    BY <1>2, <1>3
  <2>2. r = RowOf(o, n)
    BY <1>1, <2>1
  <2>3. Len(o) >= n
    BY <1>1, <2>1
  <2>4. QED
    BY <2>2, <2>3
<1>4. ASSUME NEW o \in os, Len(o) >= n, r = RowOf(o, n) PROVE r \in RowsOf(os, n)
  <2>1. Len(o) = n \/ Len(o) > n
    BY <1>1, <1>4
  <2>2. QED
    BY <1>1, <1>2, <1>4, <2>1
<1>5. QED
  BY <1>3, <1>4

\* A name of n parts begins an object when it is the first n parts of it.
LEMMA BeginsWith ==
  ASSUME NEW m \in ObjectName, NEW o \in ObjectName
  PROVE  /\ Len(m) \in Nat
         /\ Len(o) >= Len(m) => (IsPrefix(m, o) <=> SubSeq(o, 1, Len(m)) = m)
<1>1. m \in Seq(STRING) /\ o \in Seq(STRING) /\ Len(m) \in Nat /\ Len(o) \in Nat
  BY DEF ObjectName
<1>2. SubSeq(m, 1, Len(m)) = m
  BY <1>1
<1>3. QED
  BY <1>1, <1>2 DEF IsPrefix

\* A row begins with what it is under, and objects begin with it.
LEMMA RowBegins ==
  ASSUME NEW os, os \subseteq ObjectName, NEW n \in Nat \ {0}, NEW r \in RowsOf(os, n)
  PROVE  r.name \in ObjectName /\ Len(r.name) = n /\ \E o \in os : IsPrefix(r.name, o)
<1>1. PICK o \in os : Len(o) >= n /\ r = RowOf(o, n)
  BY RowsFrom
<1>2. o \in Seq(STRING) /\ Len(o) \in Nat
  BY DEF ObjectName
<1>3. SubSeq(o, 1, n) \in Seq(STRING) /\ Len(SubSeq(o, 1, n)) = n
  BY <1>1, <1>2
<1>4. SubSeq(o, 1, n) # <<>>
  BY <1>3, Empty
<1>5. r.name \in ObjectName /\ Len(r.name) = n
  BY <1>1, <1>3, <1>4 DEF ObjectName, RowOf
<1>6. IsPrefix(r.name, o)
  BY <1>1, <1>5, BeginsWith DEF RowOf
<1>7. QED
  BY <1>5, <1>6

\* When the objects that begin with m are gone, so is the row of that name.
LEMMA RowsWithout ==
  ASSUME NEW os, os \subseteq ObjectName, NEW m \in ObjectName
  PROVE  RowsOf({o \in os : ~IsPrefix(m, o)}, Len(m)) = {r \in RowsOf(os, Len(m)) : r.name # m}
<1> DEFINE n == Len(m)
           less == {o \in os : ~IsPrefix(m, o)}
<1>1. n \in Nat /\ less \subseteq ObjectName
  BY DEF ObjectName
<1>2. \A o \in os : Len(o) >= n => (IsPrefix(m, o) <=> SubSeq(o, 1, n) = m)
  BY BeginsWith
<1>3. \A o : o \in less <=> o \in os /\ ~IsPrefix(m, o)
  OBVIOUS
<1> HIDE DEF n, less
<1>4. ASSUME NEW r, r \in RowsOf(less, n) PROVE r \in RowsOf(os, n) /\ r.name # m
  <2>1. PICK o \in less : Len(o) >= n /\ r = RowOf(o, n)
    BY <1>1, <1>4, RowsFrom
  <2>2. o \in os /\ r.name # m
    BY <1>2, <1>3, <2>1 DEF RowOf
  <2>3. QED
    BY <1>1, <2>1, <2>2, RowsFrom
<1>5. ASSUME NEW r, r \in RowsOf(os, n), r.name # m PROVE r \in RowsOf(less, n)
  <2>1. PICK o \in os : Len(o) >= n /\ r = RowOf(o, n)
    BY <1>1, <1>5, RowsFrom
  <2>2. o \in less
    BY <1>2, <1>3, <1>5, <2>1 DEF RowOf
  <2>3. QED
    BY <1>1, <2>1, <2>2, RowsFrom
<1>6. QED
  BY <1>4, <1>5 DEF n, less
----------------------------------------------------------------------------
(* What becomes of the objects when FS3 serves a request that writes.      *)

Refused(i) == stored' = stored /\ Reply(i, [ok |-> FALSE])
Fewer(few) == "ListObjects" \in few
              /\ few \subseteq {"ListObjects", "RemoveObject", "ListAllBucketPolicies"}
SameObjects == \A b, p : UnderIn(stored', b, p) = UnderIn(stored, b, p)
LosesObjects(c) ==
    /\ \A b, p : UnderIn(stored', b, p) \subseteq UnderIn(stored, b, p)
    /\ \A p : UnderIn(stored', c.arg.bucket, p)
                = {o \in UnderIn(stored, c.arg.bucket, p) : ~IsPrefix(c.arg.name, o)}
Written(i, few) ==
    /\ Fewer(few) /\ ReplyOvertakes(i, Past(few), [ok |-> TRUE])
    /\ calls[i].op = "Upload" <=> "RemoveObject" \in few
    /\ calls[i].op = "RemoveObject" => LosesObjects(calls[i])
    /\ calls[i].op \in {"MakeBucket", "DeleteBucket"} => SameObjects

LEMMA RemovalWrites ==
  ASSUME NEW a, IsBucket(a.bucket),
         stored' = [stored EXCEPT ![a.bucket[1]] = {o \in @ : ~IsPrefix(a.name, o)}]
  PROVE  /\ \A b, p : UnderIn(stored', b, p) \subseteq UnderIn(stored, b, p)
         /\ \A p : UnderIn(stored', a.bucket, p)
                     = {o \in UnderIn(stored, a.bucket, p) : ~IsPrefix(a.name, o)}
<1> DEFINE n == a.bucket[1]
<1>1. /\ DOMAIN stored' = DOMAIN stored /\ n \in DOMAIN stored /\ Len(a.bucket) = 1
      /\ stored'[n] = {o \in stored[n] : ~IsPrefix(a.name, o)}
      /\ \A m \in DOMAIN stored : m # n => stored'[m] = stored[m]
  BY DEF IsBucket
<1> HIDE DEF n
<1>2. \A b, p : UnderIn(stored', b, p) \subseteq UnderIn(stored, b, p)
  BY <1>1 DEF UnderIn
<1>3. ASSUME NEW p
      PROVE  UnderIn(stored', a.bucket, p)
               = {o \in UnderIn(stored, a.bucket, p) : ~IsPrefix(a.name, o)}
  <2>1. /\ UnderIn(stored', a.bucket, p) = {o \in stored'[n] : IsPrefix(p, o)}
        /\ UnderIn(stored, a.bucket, p) = {o \in stored[n] : IsPrefix(p, o)}
    BY <1>1 DEF UnderIn, n
  <2>2. QED
    BY <1>1, <2>1
<1>4. QED
  BY <1>2, <1>3

LEMMA StoreWrites ==
  ASSUME TypeInv, NEW i \in DOMAIN calls, Stores(i) \/ DeleteBucket(i)
  PROVE  /\ calls[i].state = "sent"
         /\ calls[i].op \in {"MakeBucket", "RemoveObject", "Upload", "DeleteBucket"}
         /\ Stores(i) => calls[i].op # "DeleteBucket"
         /\ Refused(i) \/ \E few : Written(i, few)
<1> DEFINE c == calls[i]
           a == calls[i].arg
<1>1. CASE MakeBucket(i)
  <2>1. c.op = "MakeBucket" /\ c.state = "sent"
    BY <1>1 DEF MakeBucket, IsSent
  <2> DEFINE n == a.name[1]
  <2>2. CASE n \in DOMAIN stored
    BY <1>1, <2>1, <2>2 DEF MakeBucket, Refused
  <2>3. CASE n \notin DOMAIN stored
    <3>1. /\ ReplyOvertakes(i, Past({"ListObjects"}), [ok |-> TRUE])
          /\ stored' = [m \in DOMAIN stored \cup {n} |-> IF m = n THEN {} ELSE stored[m]]
      BY <1>1, <2>3 DEF MakeBucket, Changes
    <3> HIDE DEF n
    <3>2. /\ DOMAIN stored' = DOMAIN stored \cup {n} /\ stored'[n] = {}
          /\ \A m \in DOMAIN stored : stored'[m] = stored[m]
      BY <2>3, <3>1
    <3>3. SameObjects
      BY <2>3, <3>2 DEF SameObjects, UnderIn
    <3>4. Written(i, {"ListObjects"})
      BY <2>1, <3>1, <3>3 DEF Written, Fewer
    <3>5. QED
      BY <2>1, <3>4
  <2>4. QED
    BY <2>2, <2>3
<1>2. CASE RemoveObject(i)
  <2>1. c.op = "RemoveObject" /\ c.state = "sent"
    BY <1>2 DEF RemoveObject, IsSent
  <2>2. CASE ~IsBucket(a.bucket)
    BY <1>2, <2>1, <2>2 DEF RemoveObject, Refused
  <2>3. CASE IsBucket(a.bucket)
    <3>1. /\ ReplyOvertakes(i, Past({"ListObjects"}), [ok |-> TRUE])
          /\ stored' = [stored EXCEPT ![a.bucket[1]] = {o \in @ : ~IsPrefix(a.name, o)}]
      BY <1>2, <2>3 DEF RemoveObject, Changes
    <3>2. LosesObjects(c)
      BY <2>3, <3>1, RemovalWrites DEF LosesObjects
    <3>3. Written(i, {"ListObjects"})
      BY <2>1, <3>1, <3>2 DEF Written, Fewer
    <3>4. QED
      BY <2>1, <3>3
  <2>4. QED
    BY <2>2, <2>3
<1>3. CASE PutObject(i)
  <2>1. c.op = "Upload" /\ c.state = "sent"
    BY <1>3 DEF PutObject, IsSent
  <2>2. CASE ~IsBucket(a.bucket)
    BY <1>3, <2>1, <2>2 DEF PutObject, Refused
  <2>3. CASE IsBucket(a.bucket)
    <3>1. ReplyOvertakes(i, Past({"ListObjects", "RemoveObject"}), [ok |-> TRUE])
      BY <1>3, <2>3 DEF PutObject, Changes
    <3>2. Written(i, {"ListObjects", "RemoveObject"})
      BY <2>1, <3>1 DEF Written, Fewer
    <3>3. QED
      BY <2>1, <3>2
  <2>4. QED
    BY <2>2, <2>3
<1>4. CASE DeleteBucket(i)
  <2>1. c.op = "DeleteBucket" /\ c.state = "sent"
    BY <1>4 DEF DeleteBucket, IsSent
  <2> DEFINE b == a.bucket
             n == b[1]
             few == {"ListObjects", "ListAllBucketPolicies"}
  <2>2. CASE ~(IsBucket(b) /\ stored[n] = {})
    <3>1. Reply(i, [ok |-> FALSE]) /\ stored' = stored
      BY <1>4, <2>2 DEF DeleteBucket
    <3>2. ~Stores(i)
      BY <2>1 DEF Stores, MakeBucket, RemoveObject, PutObject, IsSent
    <3>3. QED
      BY <2>1, <3>1, <3>2 DEF Refused
  <2>3. CASE IsBucket(b) /\ stored[n] = {}
    <3>1. /\ ReplyOvertakes(i, Past(few), [ok |-> TRUE])
          /\ stored' = [m \in DOMAIN stored \ {n} |-> stored[m]]
      BY <1>4, <2>3 DEF DeleteBucket, Changes
    <3> HIDE DEF n
    <3>2. /\ DOMAIN stored' = DOMAIN stored \ {n} /\ stored[n] = {}
          /\ \A m \in DOMAIN stored' : stored'[m] = stored[m]
      BY <2>3, <3>1
    <3>3. SameObjects
      BY <3>2 DEF SameObjects, UnderIn
    <3>4. Written(i, few)
      BY <2>1, <3>1, <3>3 DEF Written, Fewer
    <3>5. ~Stores(i)
      BY <2>1 DEF Stores, MakeBucket, RemoveObject, PutObject, IsSent
    <3>6. QED
      BY <2>1, <3>4, <3>5
  <2>4. QED
    BY <2>2, <2>3
<1>5. QED
  BY <1>1, <1>2, <1>3, <1>4 DEF Stores
----------------------------------------------------------------------------
(* The lists that are asked for.                                           *)

\* An answer that is not late was there before.
NoNews(op) ==
    \A d \in Of(calls') : (d.op = op /\ d.state = "answered" /\ ~d.late) => d \in Of(calls)

ListsAt(cs, b, p) ==
    /\ Sequence(cs) /\ ListCall(b, p) \in Of(cs)
    /\ \A c \in Of(cs) : c.op = "ListObjects" => c = ListCall(b, p)
AsksHere == \E cs : UserSends(cs) /\ ListsAt(cs, home'.currentBucket, home'.prefixData)
AsksHereThen(i) == \E cs : Done(i, cs) /\ ListsAt(cs, home'.currentBucket, home'.prefixData)

LEMMA ListCallIs ==
  ASSUME NEW b, NEW p
  PROVE  LET c == ListCall(b, p) IN
           /\ c.op = "ListObjects" /\ c.state = "sent" /\ c.arg = [bucket |-> b, prefix |-> p]
BY DEF ListCall, Request

LEMMA OneList ==
  ASSUME NEW b, NEW p
  PROVE  ListsAt(<<ListCall(b, p)>>, b, p)
<1> DEFINE c == ListCall(b, p)
<1>1. Sequence(<<c>>) /\ Of(<<c>>) = {c}
  BY Single
<1>2. QED
  BY <1>1 DEF ListsAt

LEMMA NewsSpared ==
  ASSUME NEW H, NEW F, NEW S, NEW N, NEW ops, Touches(H, F, S, N, ops), NEW op \in AllOps, op \notin ops
  PROVE  NoNews(op)
BY OfSpared DEF NoNews

LEMMA NewsIfFinished ==
  ASSUME TypeInv, NEW i \in DOMAIN calls, NEW js, NEW cs, Sequence(cs), Overtakes(i, js, cs), NEW op,
         \A c \in Of(cs) : c.op = op => c.state = "sent"
  PROVE  NoNews(op) /\ (calls[i].op # op => (None(op)' => None(op)))
<1>1. Requests
  BY CallsAreRequests DEF TypeInv
<1>2. /\ \A d \in Of(calls') : \/ d \in Of(cs)
                               \/ \E k \in DOMAIN calls : k # i /\ IsNow(d, calls[k], k \in js)
      /\ \A k \in DOMAIN calls : k # i => \E d \in Of(calls') : IsNow(d, calls[k], k \in js)
  BY <1>1, FinishedOf
<1>3. ASSUME NEW d \in Of(calls'), d.op = op, d.state = "answered", ~d.late PROVE d \in Of(calls)
  <2>1. d \notin Of(cs)
    BY <1>3
  <2>2. PICK k \in DOMAIN calls : IsNow(d, calls[k], k \in js)
    BY <1>2, <2>1
  <2>3. d = calls[k]
    BY <1>3, <2>2 DEF IsNow
  <2>4. QED
    BY <2>3 DEF Of
<1>4. ASSUME calls[i].op # op, None(op)' PROVE None(op)
  <2>1. SUFFICES ASSUME NEW k \in DOMAIN calls, calls[k].op = op PROVE FALSE
    BY DEF None, Of
  <2>2. k # i
    BY <1>4, <2>1
  <2>3. PICK d \in Of(calls') : IsNow(d, calls[k], k \in js)
    BY <1>2, <2>2
  <2>4. d.op = op
    BY <2>1, <2>3 DEF IsNow
  <2>5. QED
    BY <1>4, <2>4 DEF None
<1>5. QED
  BY <1>3, <1>4 DEF NoNews

LEMMA NewsIfAsked ==
  ASSUME TypeInv, NEW cs, Sequence(cs), UserSends(cs), NEW op,
         \A c \in Of(cs) : c.op = op => c.state = "sent"
  PROVE  NoNews(op)
<1>1. Of(calls') = Of(calls) \cup Of(cs)
  BY Joined DEF UserSends, TypeInv, CallsOK
<1>2. QED
  BY <1>1 DEF NoNews

\* A list of where Home is by now is asked for.
ListedNext == /\ NoNews("ListObjects") /\ ~None("ListObjects")'
              /\ \A c \in Newest(calls', "ListObjects") :
                     c.arg = [bucket |-> home'.currentBucket, prefix |-> home'.prefixData]

LEMMA HereIsAsked ==
  ASSUME TypeInv, AsksHere
  PROVE  ListedNext
<1> DEFINE b == home'.currentBucket
           p == home'.prefixData
           op == "ListObjects"
<1>1. PICK cs : UserSends(cs) /\ ListsAt(cs, b, p)
  BY DEF AsksHere
<1>2. ListedNext <=> NoNews(op) /\ ~None(op)' /\ \A c \in Newest(calls', op) : c.arg = [bucket |-> b, prefix |-> p]
  BY DEF ListedNext, None
<1> HIDE DEF b, p, op
<1>3. /\ Sequence(cs) /\ \E d \in Of(cs) : d.op = op
      /\ \A c \in Of(cs) : c.op = op => c.state = "sent" /\ c.arg = [bucket |-> b, prefix |-> p]
  BY <1>1, ListCallIs DEF ListsAt, op
<1>4. ~None(op)' /\ \A c \in Newest(calls', op) : c \in Of(cs) /\ c.op = op
  BY <1>1, <1>3, OpAsked
<1>5. NoNews(op)
  BY <1>1, <1>3, NewsIfAsked
<1>6. QED
  BY <1>2, <1>3, <1>4, <1>5

LEMMA HereIsAskedThen ==
  ASSUME TypeInv, NEW i \in DOMAIN calls, AsksHereThen(i)
  PROVE  ListedNext
<1> DEFINE b == home'.currentBucket
           p == home'.prefixData
           op == "ListObjects"
           js == {}
<1>1. PICK cs : Done(i, cs) /\ ListsAt(cs, b, p)
  BY DEF AsksHereThen
<1>2. ListedNext <=> NoNews(op) /\ ~None(op)' /\ \A c \in Newest(calls', op) : c.arg = [bucket |-> b, prefix |-> p]
  BY DEF ListedNext, None
<1>3. Overtakes(i, js, cs)
  BY <1>1, CallsAreRequests, DoneOvertakes DEF TypeInv
<1> HIDE DEF b, p, op, js
<1>4. /\ Sequence(cs) /\ \E d \in Of(cs) : d.op = op
      /\ \A c \in Of(cs) : c.op = op => c.state = "sent" /\ c.arg = [bucket |-> b, prefix |-> p]
  BY <1>1, ListCallIs DEF ListsAt, op
<1>5. ~None(op)' /\ \A c \in Newest(calls', op) : c \in Of(cs) /\ c.op = op
  BY <1>1, <1>4, OpAskedThen
<1>6. NoNews(op)
  BY <1>3, <1>4, NewsIfFinished
<1>7. QED
  BY <1>2, <1>4, <1>5, <1>6

LEMMA GoingAsks ==
  ASSUME Inv, Going
  PROVE  AsksHere
<1>1. TypeInv
  BY DEF Inv
<1>2. ASSUME NEW n, SlideClick(<<n>>), NEW cs, UserSends(cs), ListsAt(cs, <<n>>, <<>>) PROVE AsksHere
  <2>1. home'.currentBucket = <<n>> /\ home'.prefixData = <<>>
    BY <1>1, <1>2, SlideClicks
  <2>2. QED
    BY <1>2, <2>1 DEF AsksHere
<1>3. ASSUME NEW n, SlideClick(<<n>>), UserSends(<<ListCall(<<n>>, <<>>)>>) PROVE AsksHere
  <2> DEFINE b == <<n>>
             p == <<>>
             cs == <<ListCall(b, p)>>
  <2>1. ListsAt(cs, b, p)
    <3> HIDE DEF b, p
    <3>1. QED
      BY OneList
  <2>2. UserSends(cs)
    BY <1>3
  <2> HIDE DEF cs
  <2>3. QED
    BY <1>2, <1>3, <2>1, <2>2
<1>4. CASE RetrievalFun
  <2> DEFINE b == <<slide.on>>
             p == <<>>
             c == ListCall(b, p)
             d == BucketDealsCall(b)
             cs == <<c, d>>
  <2>1. SlideClick(<<slide.on>>) /\ UserSends(cs)
    BY <1>4 DEF RetrievalFun
  <2>2. d.op # "ListObjects"
    BY DEF BucketDealsCall, Request
  <2>3. Sequence(cs) /\ Of(cs) = {c, d}
    <3> HIDE DEF c, d
    <3>1. QED
      BY Pair
  <2>4. ListsAt(cs, b, p)
    <3> HIDE DEF b, p, cs, d
    <3>1. QED
      BY <2>2, <2>3 DEF ListsAt
  <2> HIDE DEF cs
  <2>5. QED
    BY <1>2, <2>1, <2>4
<1>5. QED
  BY <1>3, <1>4 DEF Going, GetListBucket, MenuGoes, CaozuoFun, BackupFun

LEMMA WalkingAsks ==
  ASSUME Inv, Walking
  PROVE  AsksHere
<1>1. IsHome(home)
  BY DEF Inv, TypeInv
<1>2. PICK path : GoesWithin(path)
  BY DEF Walking
<1> DEFINE b == home.currentBucket
           p == Tail(path)
           cs == <<ListCall(b, p)>>
<1>3. At(b, p) /\ UserSends(cs)
  BY <1>2 DEF GoesWithin
<1> HIDE DEF b, p
<1>4. home'.currentBucket = b /\ home'.prefixData = p
  BY <1>1, <1>3, GoesTo
<1>5. ListsAt(cs, b, p)
  BY OneList
<1> HIDE DEF cs
<1>6. QED
  BY <1>3, <1>4, <1>5 DEF AsksHere

LEMMA UploadedAsks ==
  ASSUME Inv, NEW i \in DOMAIN calls, Uploaded(i), Aside
  PROVE  AsksHereThen(i)
<1> DEFINE b == home'.currentBucket
           p == home'.prefixData
           cs == <<ListCall(b, p)>>
<1>1. Done(i, cs)
  BY UploadedStep DEF Inv
<1>2. ListsAt(cs, b, p)
  <2> HIDE DEF b, p
  <2>1. QED
    BY OneList
<1> HIDE DEF cs
<1>3. QED
  BY <1>1, <1>2 DEF AsksHereThen

\* Home moves where an answer says, and lists it, unless there is no bucket, or
\* one could not be made: then Home goes back, and what is listed is overtaken.
Leaves(i) == Done(i, <<>>) /\ home'.currentBucket = <<>>
GoesBack(i) ==
    /\ home'.prefixData = home.prefixData
    /\ home'.currentBucket # home.currentBucket =>
           ~shown'.fresh /\ Overtakes(i, Outstanding({"ListObjects"}), <<>>)
    /\ home'.currentBucket = home.currentBucket => Done(i, <<>>)

LEMMA ArrivingAsks ==
  ASSUME Inv, NEW i \in DOMAIN calls, Arriving(i), Aside
  PROVE  /\ calls[i].op \in {"ListBuckets", "MakeBucket"} /\ (shown'.fresh => shown.fresh)
         /\ AsksHereThen(i) \/ Leaves(i) \/ GoesBack(i)
<1>1. TypeInv /\ IsHome(home) /\ IsShown(shown)
  BY DEF Inv, TypeInv
<1>2. CASE BucketsListed(i)
  <2>1. PICK b : /\ BucketsTo(b)
                 /\ Done(i, IF b # <<>> THEN <<ListCall(b, <<>>)>> ELSE <<>>)
    BY <1>1, <1>2, BucketsListedStep
  <2>2. home'.currentBucket = b /\ (b # <<>> => home'.prefixData = <<>>)
    BY <2>1 DEF BucketsTo, Follows
  <2>3. calls[i].op = "ListBuckets" /\ shown'.fresh = shown.fresh
    BY <1>1, <1>2, BucketsListedStep DEF Touches, Sets, IsShown, ShownFields
  <2>4. CASE b = <<>>
    BY <2>1, <2>2, <2>3, <2>4 DEF Leaves
  <2>5. CASE b # <<>>
    <3> DEFINE p == <<>>
               cs == <<ListCall(b, p)>>
    <3>1. Done(i, cs)
      BY <2>1, <2>5
    <3>2. ListsAt(cs, b, p)
      <4> HIDE DEF p
      <4>1. QED
        BY OneList
    <3> HIDE DEF cs
    <3>3. QED
      BY <2>2, <2>3, <2>5, <3>1, <3>2 DEF AsksHereThen
  <2>6. QED
    BY <2>4, <2>5
<1>3. CASE BucketMade(i)
  <2>1. PICK b : b # <<>> /\ BucketsTo(b) /\ \E cs : Asks(i, cs, b)
    BY <1>1, <1>3, BucketMadeStep
  <2>2. PICK cs : Asks(i, cs, b)
    BY <2>1
  <2>3. home'.currentBucket = b /\ home'.prefixData = <<>>
    BY <2>1 DEF BucketsTo, Follows
  <2>4. calls[i].op = "MakeBucket" /\ shown'.fresh = shown.fresh
    BY <1>1, <1>3, BucketMadeStep DEF Touches, Sets, IsShown, ShownFields
  <2>5. Done(i, cs) /\ ListsAt(cs, b, <<>>)
    BY <2>2 DEF Asks, ListsAt
  <2>6. QED
    BY <2>3, <2>4, <2>5 DEF AsksHereThen
<1>4. CASE BucketNotMade(i)
  <2>1. PICK b : /\ Follows(b)
                 /\ shown'.fresh => shown.fresh /\ b = home.currentBucket
                 /\ Overtakes(i, IF b = home.currentBucket THEN {}
                                 ELSE Outstanding({"ListObjects"}), <<>>)
    BY <1>1, <1>4, BucketNotMadeStep
  <2>2. calls[i].op = "MakeBucket" /\ home'.prefixData = home.prefixData
    BY <1>1, <1>4, BucketNotMadeStep DEF Touches, Sets, IsHome, HomeFields
  <2>3. home'.currentBucket = b
    BY <2>1 DEF Follows
  <2>4. b = home.currentBucket => Done(i, <<>>)
    <3> DEFINE cs == <<>>
    <3>1. Done(i, cs) = Overtakes(i, {}, cs)
      BY <1>1, CallsAreRequests, DoneOvertakes DEF TypeInv
    <3>2. QED
      BY <2>1, <3>1
  <2>5. QED
    BY <2>1, <2>2, <2>3, <2>4 DEF GoesBack
<1>5. QED
  BY <1>2, <1>3, <1>4 DEF Arriving

\* No answer about objects comes anew but from FS3.
LEMMA NewsIfMoving ==
  ASSUME Inv, Moving
  PROVE  NoNews("ListObjects") /\ NoNews("RemoveObject")
         /\ (None("ListObjects")' => None("ListObjects"))
<1>1. TypeInv /\ TypeInv'
  BY MovingStep DEF Inv
<1>2. NoNews("RemoveObject")
  <2>1. "RemoveObject" \in AllOps
    BY DEF AllOps, PageOps
  <2>2. QED
    BY <2>1, MovingStep, NewsSpared DEF MoveOps
<1>3. ASSUME NEW p \in Paths, EditAway(p), Aside
      PROVE  NoNews("ListObjects") /\ (None("ListObjects")' => None("ListObjects"))
  <2>1. "ListObjects" \in AllOps
    BY DEF AllOps, PageOps
  <2>2. Touches({}, {"currentBucketAll", "prefixName"}, {"calm"}, {"followed"}, {"MakeBucket"})
    BY <1>1, <1>3, EditAwayStep
  <2>3. NoNews("ListObjects")
    BY <2>1, <2>2, NewsSpared
  <2>4. None("ListObjects")' <=> None("ListObjects")
    <3> DEFINE op == "ListObjects"
               ops == {"MakeBucket"}
    <3>1. op \in AllOps /\ op \notin ops
      BY <2>1
    <3> HIDE DEF op
    <3>2. None(op)' <=> None(op)
      BY <1>1, <2>2, <3>1, OpSpared
    <3>3. QED
      BY <3>2 DEF op
  <2>5. QED
    BY <2>3, <2>4
<1>4. ASSUME NEW i \in DOMAIN calls, Arriving(i), Aside
      PROVE  NoNews("ListObjects") /\ (None("ListObjects")' => None("ListObjects"))
  <2> DEFINE cs == <<>>
  <2>1. calls[i].op # "ListObjects" /\ (AsksHereThen(i) \/ Leaves(i) \/ GoesBack(i))
    BY <1>4, ArrivingAsks
  <2>2. Sequence(cs) /\ \A c \in Of(cs) : c.op = "ListObjects" => c.state = "sent"
    BY Empty
  <2>3. Done(i, cs) = Overtakes(i, {}, cs)
    BY <1>1, CallsAreRequests, DoneOvertakes DEF TypeInv
  <2>4. CASE AsksHereThen(i)
    BY <1>1, <2>4, HereIsAskedThen DEF ListedNext
  <2>5. CASE Leaves(i) \/ GoesBack(i)
    <3>1. \E js : Overtakes(i, js, cs)
      BY <2>3, <2>5 DEF Leaves, GoesBack
    <3> HIDE DEF cs
    <3>2. QED
      BY <1>1, <2>1, <2>2, <3>1, NewsIfFinished
  <2>6. QED
    BY <2>1, <2>4, <2>5
<1>5. QED
  BY <1>2, <1>3, <1>4 DEF Moving

LEMMA NewsIfSelecting ==
  ASSUME Inv, Selecting
  PROVE  NoNews("RemoveObject") /\ \A c : (c.op = "RemoveObject" /\ c.state = "answered") =>
                                              (c \in Of(calls') <=> c \in Of(calls))
<1>1. TypeInv /\ Aside
  BY DEF Inv, Selecting
<1>2. CASE Unselects
  BY <1>1, <1>2, UnselectStep DEF NoNews
<1>3. CASE ~Unselects
  <2>1. "RemoveObject" \in AllOps
    BY DEF AllOps, PageOps
  <2>2. \/ \E i \in DOMAIN calls : Downloaded(i)
        \/ \E i \in DOMAIN fs3.tableData : Picking(i)
    BY <1>3 DEF Selecting
  <2>3. \E S, ops : Touches({}, Selection, S, {}, ops) /\ "RemoveObject" \notin ops
    <3>1. ASSUME NEW i \in DOMAIN calls, Downloaded(i)
          PROVE  Touches({}, Selection, {}, {}, {"CreateURLToken"})
      BY <1>1, <3>1, DownloadedStep
    <3>2. ASSUME NEW i \in DOMAIN fs3.tableData, DrawPlay(i) \/ DeleteBtn(i)
          PROVE  Touches({}, Selection, {}, {}, {})
      BY <1>1, <3>2, DrawPlayStep, DeleteBtnStep
    <3>3. ASSUME NEW i \in DOMAIN fs3.tableData, Shares(i)
          PROVE  Touches({}, Selection, ShareFields, {}, {"PresignedGet"})
      BY <1>1, <3>3, ShareStep
    <3>4. "RemoveObject" \notin {} /\ "RemoveObject" \notin {"CreateURLToken"} /\ "RemoveObject" \notin {"PresignedGet"}
      OBVIOUS
    <3>5. QED
      BY <2>2, <3>1, <3>2, <3>3, <3>4 DEF Picking
  <2>4. PICK S, ops : Touches({}, Selection, S, {}, ops) /\ "RemoveObject" \notin ops
    BY <2>3
  <2>5. \A c : c.op = "RemoveObject" => (c \in Of(calls') <=> c \in Of(calls))
    BY <2>1, <2>4, OfSpared
  <2>6. QED
    BY <2>5 DEF NoNews
<1>4. QED
  BY <1>2, <1>3

LEMMA NewsIfReplying ==
  ASSUME Inv, Replying
  PROVE  /\ \A c : c.op = "RemoveObject" => (c \in Of(calls') <=> c \in Of(calls))
         /\ NoNews("ListObjects") \/ \E i \in DOMAIN calls : ListObjects(i)
<1>1. "RemoveObject" \in AllOps /\ "ListObjects" \in AllOps
  BY DEF AllOps, PageOps
<1>2. \A c : c.op = "RemoveObject" => (c \in Of(calls') <=> c \in Of(calls))
  BY <1>1, OthersReplied, ReplyOps
<1>3. CASE \A c : c.op = "ListObjects" => (c \in Of(calls') <=> c \in Of(calls))
  BY <1>2, <1>3 DEF NoNews
<1>4. ASSUME NEW i \in DOMAIN calls, Answering(i), calls[i].op = "ListObjects" PROVE ListObjects(i)
  BY <1>4 DEF Answering, ListBuckets, PresignedGet, Told, ListAllBucketPolicies, BucketDeals,
              ServeMiners, PostDeal, IsSent, Outstanding, DealApis
<1>5. QED
  BY <1>1, <1>2, <1>3, <1>4, OthersReplied

LEMMA NewsAside ==
  ASSUME Inv, [Next]_vars, ~Storing, ~Deleting
  PROVE  /\ stored' = stored /\ NoNews("RemoveObject")
         /\ NoNews("ListObjects") \/ \E i \in DOMAIN calls : ListObjects(i)
<1>1. {"ListObjects", "RemoveObject"} \subseteq AllOps /\ TypeInv
  BY DEF AllOps, PageOps, Inv
<1>2. ASSUME stored' = stored, NEW H, NEW F, NEW S, NEW N, NEW ops, Touches(H, F, S, N, ops),
             "ListObjects" \notin ops, "RemoveObject" \notin ops
      PROVE  stored' = stored /\ NoNews("RemoveObject") /\ NoNews("ListObjects")
  BY <1>1, <1>2, NewsSpared
<1>3. CASE Resting
  BY <1>2, <1>3, RestingStep
<1>4. CASE Dealing
  BY <1>2, <1>4, DealingStep DEF DealOps, DealApis
<1>5. CASE Minding
  BY <1>2, <1>5, MindingStep DEF MindOps, MenuOps
<1>6. CASE Going
  <2>1. NoNews("RemoveObject") /\ stored' = stored
    <3>1. PICK n : GoesToTop(n)
      BY <1>6, GoingStep
    <3>2. stored' = stored
      BY <1>1, <3>1, SlideClicks DEF GoesToTop
    <3>3. NoNews("RemoveObject")
      BY <1>1, <3>1, NewsSpared DEF GoesToTop, ToTop, GoOps
    <3>4. QED
      BY <3>2, <3>3
  <2>2. QED
    BY <1>1, <1>6, <2>1, GoingAsks, HereIsAsked DEF ListedNext
<1>7. CASE Walking
  <2>1. NoNews("RemoveObject") /\ stored' = stored
    BY <1>1, <1>7, WalkingStep, NewsSpared
  <2>2. QED
    BY <1>1, <1>7, <2>1, WalkingAsks, HereIsAsked DEF ListedNext
<1>8. CASE Selecting
  <2>1. NoNews("ListObjects") /\ stored' = stored
    BY <1>1, <1>8, SelectingStep, NewsSpared DEF PickOps
  <2>2. QED
    BY <1>8, <2>1, NewsIfSelecting
<1>9. CASE Moving
  BY <1>9, MovingStep, NewsIfMoving
<1>10. CASE Replying
  <2>1. stored' = stored
    BY <1>10, ReplyingStep DEF pageVars
  <2>2. QED
    BY <1>10, <2>1, NewsIfReplying DEF NoNews
<1>11. CASE Sharing
  BY <1>2, <1>11, SharingStep
<1>12. CASE Opening
  BY <1>2, <1>12, OpeningStep
<1>13. CASE Uploading
  BY <1>2, <1>13, UploadingStep
<1>14. ASSUME NEW i \in DOMAIN calls, Handling(i), Aside
       PROVE  stored' = stored /\ NoNews("RemoveObject") /\ NoNews("ListObjects")
  <2> USE <1>14
  <2>1. stored' = stored
    BY HandlingStep
  <2> DEFINE cs == <<>>
  <2>2. /\ Sequence(cs) /\ \A op : \A c \in Of(cs) : c.op = op => c.state = "sent"
        /\ Done(i, cs) = Overtakes(i, {}, cs)
    BY <1>1, Empty, CallsAreRequests, DoneOvertakes DEF TypeInv
  <2>3. ASSUME Done(i, cs) \/ Overtakes(i, Earlier(i), cs) PROVE NoNews("RemoveObject") /\ NoNews("ListObjects")
    <3>1. \E js : Overtakes(i, js, cs)
      BY <2>2, <2>3
    <3> HIDE DEF cs
    <3>2. QED
      BY <1>1, <2>2, <3>1, NewsIfFinished
  <2>4. CASE ObjectsListed(i)
    BY <1>1, <2>1, <2>3, <2>4, ObjectsListedStep
  <2>5. CASE ObjectRemoved(i)
    BY <1>1, <2>1, <2>3, <2>5, ObjectRemovedStep
  <2>6. CASE ProgressFunction(i)
    BY <1>1, <1>2, <2>1, <2>6, ProgressStep
  <2>7. CASE Uploaded(i)
    <3>1. NoNews("RemoveObject")
      BY <1>1, <2>7, UploadedStep, NewsSpared
    <3>2. QED
      BY <1>1, <2>1, <2>7, <3>1, UploadedAsks, HereIsAskedThen DEF ListedNext
  <2>8. CASE LinkMade(i)
    BY <1>1, <1>2, <2>1, <2>8, LinkMadeStep
  <2>9. CASE DealsListed(i)
    BY <1>1, <1>2, <2>1, <2>9, DealsListedStep
  <2>10. CASE Dropped(i)
    BY <1>1, <2>1, <2>3, <2>10, DroppedStep
  <2>11. QED
    BY <2>4, <2>5, <2>6, <2>7, <2>8, <2>9, <2>10 DEF Handling
<1>15. CASE UNCHANGED vars
  BY <1>2, <1>15, StutterStep
<1>16. QED
  BY <1>1, <1>3, <1>4, <1>5, <1>6, <1>7, <1>8, <1>9, <1>10, <1>11, <1>12, <1>13, <1>14, <1>15,
     EveryStep DEF Steps
----------------------------------------------------------------------------
(* What the answers of FS3 tell of its objects, until a change overtakes   *)
(* them: a list has the objects there are, and what was removed is gone.   *)

IsNews(c, op) == c.op = op /\ c.state = "answered" /\ ~c.late
ListsCurrent ==
    \A c \in Of(calls) : IsNews(c, "ListObjects") =>
        Names(c.reply.rows) = RowsIn(stored, c.arg.bucket, c.arg.prefix)
IsGone(s, name, b) == \A o \in UnderIn(s, b, <<>>) : ~IsPrefix(name, o)
RemovedGone ==
    \A c \in Of(calls) : IsNews(c, "RemoveObject") /\ c.reply.ok => IsGone(stored, c.arg.name, c.arg.bucket)

\* The news after an answer are those from before it, and the answer.
LEMMA NewsReplied ==
  ASSUME TypeInv, NEW i \in DOMAIN calls, NEW js, i \notin js, NEW data,
         ReplyOvertakes(i, js, data), NEW op, NEW d \in Of(calls'), IsNews(d, op)
  PROVE  \/ IsAnswerTo(d, calls[i], data)
         \/ \E k \in DOMAIN calls : k # i /\ k \notin js /\ d = calls[k] /\ d \in Of(calls)
<1>1. Requests
  BY CallsAreRequests DEF TypeInv
<1>2. \/ IsAnswerTo(d, calls[i], data)
      \/ \E k \in DOMAIN calls : k # i /\ IsNow(d, calls[k], k \in js)
  BY <1>1, RepliedOf
<1>3. ASSUME NEW k \in DOMAIN calls, k # i, IsNow(d, calls[k], k \in js)
      PROVE  k # i /\ k \notin js /\ d = calls[k] /\ d \in Of(calls)
  BY <1>3 DEF IsNow, IsNews, Of
<1>4. QED
  BY <1>2, <1>3

\* The same when the answer is a refusal, or one that the change overtakes.
LEMMA NewsIfRefused ==
  ASSUME TypeInv, NEW i \in DOMAIN calls, calls[i].state = "sent", Refused(i), NEW op,
         NEW d \in Of(calls'), IsNews(d, op)
  PROVE  d \in Of(calls) \/ (~d.reply.ok /\ d.op = calls[i].op)
<1> DEFINE js == {}
           data == [ok |-> FALSE]
<1>1. i \notin js /\ ReplyOvertakes(i, js, data) /\ ~data.ok
  BY CallsAreRequests, ReplyOvertakesNone DEF Refused, TypeInv
<1> HIDE DEF js, data
<1>2. \/ IsAnswerTo(d, calls[i], data)
      \/ \E k \in DOMAIN calls : k # i /\ k \notin js /\ d = calls[k] /\ d \in Of(calls)
  BY <1>1, NewsReplied
<1>3. QED
  BY <1>1, <1>2 DEF IsAnswerTo

LEMMA ListsIfServed ==
  ASSUME Inv, ListsCurrent, NEW i \in DOMAIN calls, ListObjects(i)
  PROVE  ListsCurrent'
<1> DEFINE a == calls[i].arg
           data == [ok |-> IsBucket(a.bucket), rows |-> Listing(a.bucket, a.prefix)]
           js == {}
<1>1. TypeInv /\ Reply(i, data) /\ stored' = stored
  BY DEF Inv, ListObjects, Served, pageVars
<1>2. i \notin js /\ ReplyOvertakes(i, js, data)
  BY <1>1, CallsAreRequests, ReplyOvertakesNone DEF TypeInv
<1>3. Names(data.rows) = RowsIn(stored, a.bucket, a.prefix)
  <2>1. a.prefix \in Seq(STRING) /\ IsStore(stored)
    BY <1>1, CallAt DEF TypeInv, IsCall, IsArg, PageArg, ListObjects, IsSent
  <2> DEFINE b == a.bucket
             p == a.prefix
  <2>2. p \in Seq(STRING) /\ data.rows = Listing(b, p)
    BY <2>1
  <2>3. Names(Listing(b, p)) = RowsIn(stored, b, p)
    <3> HIDE DEF b, p
    <3>1. QED
      BY <2>1, <2>2, ListingIsRowsIn
  <2>4. QED
    BY <2>2, <2>3
<1> HIDE DEF data, js
<1>4. ASSUME NEW d \in Of(calls'), IsNews(d, "ListObjects")
      PROVE  Names(d.reply.rows) = RowsIn(stored, d.arg.bucket, d.arg.prefix)
  <2>1. \/ IsAnswerTo(d, calls[i], data)
        \/ \E k \in DOMAIN calls : k # i /\ k \notin js /\ d = calls[k] /\ d \in Of(calls)
    BY <1>1, <1>2, <1>4, NewsReplied
  <2>2. QED
    BY <1>3, <1>4, <2>1 DEF IsAnswerTo, ListsCurrent
<1>5. QED
  BY <1>1, <1>4 DEF ListsCurrent, IsNews

LEMMA ListsIfStored ==
  ASSUME TypeInv, ListsCurrent, NEW i \in DOMAIN calls, Stores(i) \/ DeleteBucket(i)
  PROVE  ListsCurrent'
<1>1. /\ calls[i].state = "sent" /\ calls[i].op # "ListObjects"
      /\ Refused(i) \/ \E few : Written(i, few)
  BY StoreWrites
<1>2. CASE Refused(i)
  <2>1. ASSUME NEW d \in Of(calls'), IsNews(d, "ListObjects") PROVE d \in Of(calls)
    <3>1. d \in Of(calls) \/ (~d.reply.ok /\ d.op = calls[i].op)
      BY <1>1, <1>2, <2>1, NewsIfRefused
    <3>2. QED
      BY <1>1, <2>1, <3>1 DEF IsNews
  <2>2. stored' = stored
    BY <1>2 DEF Refused
  <2>3. QED
    BY <2>1, <2>2 DEF ListsCurrent, IsNews
<1>3. ASSUME NEW few, Written(i, few) PROVE ListsCurrent'
  <2> DEFINE data == [ok |-> TRUE]
  <2>1. ReplyOvertakes(i, Past(few), data) /\ "ListObjects" \in few
    BY <1>3 DEF Written, Fewer
  <2> HIDE DEF data
  <2>2. \A d \in Of(calls') : d.op = "ListObjects" /\ d.state = "answered" => d.late
    BY <1>1, <2>1, PastIsLate DEF TypeInv
  <2>3. QED
    BY <2>2 DEF ListsCurrent, IsNews
<1>4. QED
  BY <1>1, <1>2, <1>3

LEMMA ListsKept ==
  ASSUME Inv, ListsCurrent, [Next]_vars
  PROVE  ListsCurrent'
<1>1. CASE Storing
  BY <1>1, ListsIfStored DEF Storing, Inv
<1>2. CASE Deleting
  BY <1>2, ListsIfStored DEF Deleting, Inv
<1>3. CASE ~Storing /\ ~Deleting
  <2>1. CASE stored' = stored /\ NoNews("ListObjects")
    BY <2>1 DEF ListsCurrent, NoNews, IsNews
  <2>2. QED
    BY <1>3, <2>1, NewsAside, ListsIfServed
<1>4. QED
  BY <1>1, <1>2, <1>3
LEMMA GoneIfStored ==
  ASSUME TypeInv, RemovedGone, NEW i \in DOMAIN calls, Stores(i) \/ DeleteBucket(i)
  PROVE  RemovedGone'
<1>1. /\ calls[i].state = "sent"
      /\ Refused(i) \/ \E few : Written(i, few)
      /\ calls[i].op \in {"MakeBucket", "RemoveObject", "Upload", "DeleteBucket"}
  BY StoreWrites
<1>2. CASE Refused(i)
  <2>1. ASSUME NEW d \in Of(calls'), IsNews(d, "RemoveObject"), d.reply.ok PROVE d \in Of(calls)
    BY <1>1, <1>2, <2>1, NewsIfRefused
  <2>2. stored' = stored
    BY <1>2 DEF Refused
  <2>3. QED
    BY <2>1, <2>2 DEF RemovedGone, IsNews, IsGone
<1>3. ASSUME NEW few, Written(i, few) PROVE RemovedGone'
  <2> DEFINE data == [ok |-> TRUE]
  <2>1. ReplyOvertakes(i, Past(few), data) /\ few \subseteq {"ListObjects", "RemoveObject", "ListAllBucketPolicies"}
    BY <1>3 DEF Written, Fewer
  <2> HIDE DEF data
  <2>2. CASE calls[i].op = "Upload"
    <3>1. "RemoveObject" \in few
      BY <1>3, <2>2 DEF Written
    <3>2. \A d \in Of(calls') : d.op = "RemoveObject" /\ d.state = "answered" => d.late
      BY <1>1, <2>1, <2>2, <3>1, PastIsLate DEF TypeInv
    <3>3. QED
      BY <3>2 DEF RemovedGone, IsNews
  <2>3. CASE calls[i].op # "Upload"
    <3>1. \A b, p : UnderIn(stored', b, p) \subseteq UnderIn(stored, b, p)
      BY <1>1, <1>3, <2>3 DEF Written, LosesObjects, SameObjects
    <3>2. ASSUME NEW name, NEW b, IsGone(stored, name, b) PROVE IsGone(stored', name, b)
      BY <3>1, <3>2 DEF IsGone
    <3>3. ASSUME NEW d \in Of(calls'), IsNews(d, "RemoveObject"), d.reply.ok
          PROVE  IsGone(stored', d.arg.name, d.arg.bucket)
      <4> DEFINE js == Past(few)
      <4>1. i \notin js
        BY <1>1 DEF Past
      <4>2. ReplyOvertakes(i, js, data)
        BY <2>1
      <4> HIDE DEF js
      <4>3. \/ IsAnswerTo(d, calls[i], data)
            \/ \E k \in DOMAIN calls : k # i /\ k \notin js /\ d = calls[k] /\ d \in Of(calls)
        BY <3>3, <4>1, <4>2, NewsReplied
      <4>4. CASE IsAnswerTo(d, calls[i], data)
        <5>1. calls[i].op = "RemoveObject" /\ d.arg = calls[i].arg
          BY <3>3, <4>4 DEF IsAnswerTo, IsNews
        <5> DEFINE b == d.arg.bucket
                   name == d.arg.name
                   top == <<>>
        <5>2. \A p : UnderIn(stored', b, p) = {o \in UnderIn(stored, b, p) : ~IsPrefix(name, o)}
          <6>1. LosesObjects(calls[i]) /\ b = calls[i].arg.bucket /\ name = calls[i].arg.name
            BY <1>3, <5>1 DEF Written
          <6>2. QED
            BY <6>1 DEF LosesObjects
        <5>3. IsGone(stored', name, b)
          <6>1. UnderIn(stored', b, top) = {o \in UnderIn(stored, b, top) : ~IsPrefix(name, o)}
            BY <5>2
          <6> HIDE DEF b, name
          <6>2. \A o \in UnderIn(stored', b, top) : ~IsPrefix(name, o)
            BY <6>1
          <6>3. QED
            BY <6>2 DEF IsGone
        <5>4. QED
          BY <5>3
      <4>5. CASE d \in Of(calls)
        <5>1. IsGone(stored, d.arg.name, d.arg.bucket)
          BY <3>3, <4>5 DEF RemovedGone
        <5> DEFINE name == d.arg.name
                   b == d.arg.bucket
        <5>2. IsGone(stored, name, b)
          BY <5>1
        <5> HIDE DEF name, b
        <5>3. IsGone(stored', name, b)
          BY <3>2, <5>2
        <5>4. QED
          BY <5>3 DEF name, b
      <4>6. QED
        BY <4>3, <4>4, <4>5
    <3>4. QED
      BY <3>3 DEF RemovedGone, IsNews
  <2>4. QED
    BY <2>2, <2>3
<1>4. QED
  BY <1>1, <1>2, <1>3

LEMMA GoneKept ==
  ASSUME Inv, RemovedGone, [Next]_vars
  PROVE  RemovedGone'
<1>1. CASE Storing
  BY <1>1, GoneIfStored DEF Storing, Inv
<1>2. CASE Deleting
  BY <1>2, GoneIfStored DEF Deleting, Inv
<1>3. CASE ~Storing /\ ~Deleting
  <2>1. stored' = stored /\ NoNews("RemoveObject")
    BY <1>3, NewsAside
  <2>2. QED
    BY <2>1 DEF RemovedGone, NoNews, IsNews, IsGone
<1>4. QED
  BY <1>1, <1>2, <1>3
----------------------------------------------------------------------------
(* The place that the table lists.                                         *)

PlaceInv ==
    home.currentBucket # <<>> =>
        /\ \A c \in Newest(calls, "ListObjects") :
               c.arg = [bucket |-> home.currentBucket, prefix |-> home.prefixData]
        /\ None("ListObjects") /\ shown.fresh => /\ shown.bucket = home.currentBucket
                                                 /\ shown.prefix = home.prefixData

LEMMA PlaceCarried ==
  ASSUME PlaceInv, home'.currentBucket = home.currentBucket, home'.prefixData = home.prefixData,
         \A c \in Newest(calls', "ListObjects") : \E d \in Newest(calls, "ListObjects") : c.arg = d.arg,
         None("ListObjects")' /\ shown'.fresh =>
             /\ None("ListObjects") /\ shown.fresh
             /\ shown'.bucket = shown.bucket /\ shown'.prefix = shown.prefix
  PROVE  PlaceInv'
<1>1. CASE home.currentBucket # <<>>
  <2>1. \A c \in Newest(calls', "ListObjects") :
            c.arg = [bucket |-> home'.currentBucket, prefix |-> home'.prefixData]
    BY <1>1 DEF PlaceInv
  <2>2. None("ListObjects")' /\ shown'.fresh => /\ shown'.bucket = home'.currentBucket
                                                /\ shown'.prefix = home'.prefixData
    BY <1>1 DEF PlaceInv
  <2>3. QED
    BY <2>1, <2>2 DEF PlaceInv
<1>2. CASE home.currentBucket = <<>>
  BY <1>2 DEF PlaceInv
<1>3. QED
  BY <1>1, <1>2

LEMMA FreshSpared ==
  ASSUME TypeInv, NEW H, NEW F, NEW S, NEW N, NEW ops, Touches(H, F, S, N, ops), "fresh" \notin N
  PROVE  shown'.fresh = shown.fresh
BY DEF TypeInv, IsShown, ShownFields, Touches, Sets

LEMMA PlaceSpared ==
  ASSUME TypeInv, TypeInv', PlaceInv, NEW H, NEW F, NEW S, NEW N, NEW ops, Touches(H, F, S, N, ops),
         "currentBucket" \notin H, "prefixData" \notin H, "bucket" \notin N, "prefix" \notin N,
         shown'.fresh => shown.fresh, "ListObjects" \notin ops
  PROVE  PlaceInv'
<1>1. home'.currentBucket = home.currentBucket /\ home'.prefixData = home.prefixData
  BY DEF TypeInv, IsHome, HomeFields, Touches, Sets
<1>2. shown'.bucket = shown.bucket /\ shown'.prefix = shown.prefix
  BY DEF TypeInv, IsShown, ShownFields, Touches, Sets
<1>3. "ListObjects" \in AllOps
  BY DEF AllOps, PageOps
<1>4. /\ None("ListObjects")' <=> None("ListObjects")
      /\ Newest(calls', "ListObjects") \subseteq Newest(calls, "ListObjects")
  BY <1>3, OpSpared
<1>5. QED
  BY <1>1, <1>2, <1>4, PlaceCarried

LEMMA PlaceIfListed ==
  ASSUME ListedNext
  PROVE  PlaceInv'
BY DEF ListedNext, PlaceInv

\* When FS3 serves a request that writes, lists may be overtaken.
LEMMA ListsIfWritten ==
  ASSUME TypeInv, NEW i \in DOMAIN calls, Stores(i) \/ DeleteBucket(i), NEW op
  PROVE  /\ None(op)' => None(op)
         /\ calls[i].op = op => ~None(op)'
         /\ \A c \in Newest(calls', op) : \E d \in Newest(calls, op) : c.arg = d.arg
<1>1. calls[i].state = "sent" /\ (Refused(i) \/ \E few : Written(i, few))
  BY StoreWrites
<1>2. CASE Refused(i)
  <2> DEFINE js == {}
             data == [ok |-> FALSE]
  <2>1. i \notin js /\ ReplyOvertakes(i, js, data)
    BY <1>2, CallsAreRequests, ReplyOvertakesNone DEF Refused, TypeInv
  <2> HIDE DEF js, data
  <2>2. QED
    BY <2>1, OpAnswered
<1>3. ASSUME NEW few, Written(i, few)
      PROVE  /\ None(op)' => None(op)
             /\ calls[i].op = op => ~None(op)'
             /\ \A c \in Newest(calls', op) : \E d \in Newest(calls, op) : c.arg = d.arg
  <2> DEFINE js == Past(few)
             data == [ok |-> TRUE]
  <2>1. i \notin js /\ ReplyOvertakes(i, js, data)
    BY <1>1, <1>3 DEF Written, Past
  <2> HIDE DEF js, data
  <2>2. QED
    BY <2>1, OpAnswered
<1>4. QED
  BY <1>1, <1>2, <1>3

LEMMA PlaceIfGoingBack ==
  ASSUME Inv, PlaceInv, Moving, NEW i \in DOMAIN calls, GoesBack(i),
         calls[i].op \in {"ListBuckets", "MakeBucket"}, shown'.fresh => shown.fresh
  PROVE  PlaceInv'
<1>1. TypeInv /\ TypeInv' /\ Requests
  BY MovingStep, CallsAreRequests DEF Inv, TypeInv
<1>2. CASE home'.currentBucket = home.currentBucket
  <2> DEFINE ops == {"ListObjects"}
             cs == <<>>
  <2>1. Done(i, cs) /\ calls[i].op \notin ops /\ Sequence(cs) /\ \A c \in Of(cs) : c.op \notin ops
    BY <1>2, Empty DEF GoesBack
  <2>2. Same(ops)
    <3> HIDE DEF ops, cs
    <3>1. QED
      BY <1>1, <2>1, SameIfDone DEF Requests
  <2>3. /\ \A c : c.op = "ListObjects" => (c \in Of(calls') <=> c \in Of(calls))
        /\ LastOf(calls', "ListObjects") \subseteq LastOf(calls, "ListObjects")
    BY <2>2 DEF Same
  <2>4. None("ListObjects")' => None("ListObjects")
    BY <2>3 DEF None
  <2>5. Newest(calls', "ListObjects") \subseteq Newest(calls, "ListObjects")
    BY <2>3 DEF Newest
  <2>6. shown'.bucket = shown.bucket /\ shown'.prefix = shown.prefix
    BY <1>1, MovingStep DEF TypeInv, IsShown, ShownFields, Touches, Sets
  <2>7. QED
    BY <1>2, <2>4, <2>5, <2>6, PlaceCarried DEF GoesBack
<1>3. CASE home'.currentBucket # home.currentBucket
  <2> DEFINE cs == <<>>
             js == Outstanding({"ListObjects"})
  <2>1. ~shown'.fresh /\ Overtakes(i, js, cs) /\ Sequence(cs) /\ Of(cs) = {}
    BY <1>3, Empty DEF GoesBack
  <2> HIDE DEF cs
  <2>2. \A d \in Of(calls') : \/ d \in Of(cs)
                              \/ \E k \in DOMAIN calls : k # i /\ IsNow(d, calls[k], k \in js)
    <3> HIDE DEF js
    <3>1. QED
      BY <1>1, <2>1, FinishedOf
  <2>3. \A d \in Of(calls') : d.op = "ListObjects" => d.late
    BY <2>1, <2>2 DEF IsNow, Outstanding
  <2>4. Newest(calls', "ListObjects") = {}
    BY <2>3 DEF Newest, LastOf, Of
  <2>5. QED
    BY <2>1, <2>4 DEF PlaceInv
<1>4. QED
  BY <1>2, <1>3

LEMMA PlaceIfMoving ==
  ASSUME Inv, PlaceInv, Moving
  PROVE  PlaceInv'
<1>1. TypeInv /\ TypeInv' /\ Aside
  BY MovingStep DEF Inv, Moving
<1>2. ASSUME NEW p \in Paths, EditAway(p) PROVE PlaceInv'
  <2>1. shown'.fresh = shown.fresh
    BY <1>1, <1>2, EditAwayStep DEF TypeInv, IsShown, ShownFields, Touches, Sets
  <2>2. QED
    BY <1>1, <1>2, <2>1, EditAwayStep, PlaceSpared
<1>3. ASSUME NEW i \in DOMAIN calls, Arriving(i) PROVE PlaceInv'
  <2>1. /\ calls[i].op \in {"ListBuckets", "MakeBucket"} /\ (shown'.fresh => shown.fresh)
        /\ AsksHereThen(i) \/ Leaves(i) \/ GoesBack(i)
    BY <1>1, <1>3, ArrivingAsks
  <2>2. CASE AsksHereThen(i)
    BY <1>1, <2>2, HereIsAskedThen, PlaceIfListed
  <2>3. CASE Leaves(i)
    BY <2>3 DEF Leaves, PlaceInv
  <2>4. CASE GoesBack(i)
    BY <2>1, <2>4, PlaceIfGoingBack
  <2>5. QED
    BY <2>1, <2>2, <2>3, <2>4
<1>4. QED
  BY <1>2, <1>3 DEF Moving

LEMMA PlaceIfShown ==
  ASSUME Inv, PlaceInv, NEW i \in DOMAIN calls, ObjectsListed(i), Aside
  PROVE  PlaceInv'
<1> DEFINE c == calls[i]
<1>1. /\ TypeInv /\ home' = home /\ c.op = "ListObjects" /\ Overtakes(i, Earlier(i), <<>>)
      /\ shown'.bucket = c.arg.bucket /\ shown'.prefix = c.arg.prefix /\ (shown'.fresh <=> ~c.late)
  BY ObjectsListedStep DEF Inv
<1>2. /\ Newest(calls', "ListObjects") \subseteq Newest(calls, "ListObjects")
      /\ None("ListObjects")' /\ ~c.late => c \in Newest(calls, "ListObjects")
  BY <1>1, OpFinished
<1> HIDE DEF c
<1>3. QED
  BY <1>1, <1>2 DEF PlaceInv

LEMMA PlaceIfDropped ==
  ASSUME Inv, PlaceInv, NEW i \in DOMAIN calls, Dropped(i), Aside
  PROVE  PlaceInv'
<1> DEFINE c == calls[i]
<1>1. /\ TypeInv /\ TypeInv' /\ home' = home /\ Overtakes(i, Earlier(i), <<>>)
      /\ Touches({}, {"exChangeList"}, {"fresh"}, {"fresh", "cut"}, {c.op})
      /\ shown'.fresh => shown.fresh /\ c.op # "ListObjects"
  BY DroppedStep DEF Inv
<1>2. CASE c.op = "ListObjects"
  <2>1. Newest(calls', "ListObjects") \subseteq Newest(calls, "ListObjects")
    BY <1>1, <1>2, OpFinished
  <2>2. QED
    BY <1>1, <1>2, <2>1, PlaceCarried
<1>3. CASE c.op # "ListObjects"
  BY <1>1, <1>3, PlaceSpared
<1>4. QED
  BY <1>2, <1>3

LEMMA PlaceKept ==
  ASSUME Inv, PlaceInv, [Next]_vars
  PROVE  PlaceInv'
<1>1. TypeInv /\ TypeInv'
  BY InvKept DEF Inv
<1>2. CASE Resting
  BY <1>1, <1>2, RestingStep, PlaceSpared
<1>3. CASE Dealing
  BY <1>1, <1>3, DealingStep, PlaceSpared DEF DealOps, DealApis
<1>4. CASE Minding
  BY <1>1, <1>4, MindingStep, PlaceSpared DEF MindOps, MenuOps
<1>5. CASE Going
  BY <1>1, <1>5, GoingAsks, HereIsAsked, PlaceIfListed
<1>6. CASE Walking
  BY <1>1, <1>6, WalkingAsks, HereIsAsked, PlaceIfListed
<1>7. CASE Selecting
  BY <1>1, <1>7, SelectingStep, PlaceSpared DEF PickOps
<1>8. CASE Moving
  BY <1>8, PlaceIfMoving
<1>9. CASE Replying
  <2>1. home' = home /\ shown' = shown
    BY <1>9, ReplyingStep DEF pageVars
  <2>2. /\ None("ListObjects")' => None("ListObjects")
        /\ \A c \in Newest(calls', "ListObjects") : \E d \in Newest(calls, "ListObjects") : c.arg = d.arg
    BY <1>9, OpReplying
  <2>3. QED
    BY <2>1, <2>2, PlaceCarried
<1>10. ASSUME NEW i \in DOMAIN calls, Stores(i) \/ DeleteBucket(i), home' = home, shown' = shown
       PROVE  PlaceInv'
  <2>1. /\ None("ListObjects")' => None("ListObjects")
        /\ \A c \in Newest(calls', "ListObjects") : \E d \in Newest(calls, "ListObjects") : c.arg = d.arg
    BY <1>1, <1>10, ListsIfWritten
  <2>2. QED
    BY <1>10, <2>1, PlaceCarried
<1>11. CASE Storing
  BY <1>10, <1>11, StoringStep DEF Storing
<1>12. CASE Deleting
  BY <1>10, <1>12, DeletingStep DEF Deleting
<1>13. CASE Sharing
  BY <1>1, <1>13, SharingStep, PlaceSpared
<1>14. CASE Opening
  BY <1>1, <1>14, OpeningStep, FreshSpared, PlaceSpared
<1>15. CASE Uploading
  BY <1>1, <1>15, UploadingStep, FreshSpared, PlaceSpared
<1>16. ASSUME NEW i \in DOMAIN calls, Handling(i), Aside PROVE PlaceInv'
  <2> USE <1>1, <1>16
  <2>1. CASE ObjectsListed(i)
    BY <2>1, PlaceIfShown
  <2>2. CASE ObjectRemoved(i)
    BY <2>2, ObjectRemovedStep, PlaceSpared
  <2>3. CASE ProgressFunction(i)
    BY <2>3, ProgressStep, PlaceSpared
  <2>4. CASE Uploaded(i)
    BY <2>4, UploadedAsks, HereIsAskedThen, PlaceIfListed
  <2>5. CASE LinkMade(i)
    BY <2>5, LinkMadeStep, PlaceSpared
  <2>6. CASE DealsListed(i)
    BY <2>6, DealsListedStep, PlaceSpared
  <2>7. CASE Dropped(i)
    BY <2>7, PlaceIfDropped
  <2>8. QED
    BY <2>1, <2>2, <2>3, <2>4, <2>5, <2>6, <2>7 DEF Handling
<1>17. CASE UNCHANGED vars
  BY <1>1, <1>17, StutterStep, PlaceSpared
<1>18. QED
  BY <1>1, <1>2, <1>3, <1>4, <1>5, <1>6, <1>7, <1>8, <1>9, <1>11, <1>12, <1>13, <1>14, <1>15,
     <1>16, <1>17, EveryStep DEF Steps
----------------------------------------------------------------------------
(* The rows of the table.  The row of a file whose removal is answered is  *)
(* still there until the answer is handled.                                *)

Gone == {c \in Of(calls) : c.op = "RemoveObject" /\ c.state = "answered"}
GoesFromTable(c) ==
    /\ c.reply.ok /\ ~c.late /\ c.arg.bucket = shown.bucket
    /\ \E r \in Names(fs3.tableData) : r.name = c.arg.name
Calm == None("ListObjects") /\ None("Upload") /\ \A c \in Gone : GoesFromTable(c)
Left == {r \in Names(fs3.tableData) : \A c \in Gone : c.arg.name # r.name}
TableInv ==
    shown.fresh => /\ shown.prefix \in Seq(STRING) /\ IsListing(fs3.tableData, shown.prefix)
                   /\ Calm => Left = RowsIn(stored, shown.bucket, shown.prefix)

SameList == fs3'.tableData = fs3.tableData \/ SameRows(fs3.tableData, fs3'.tableData)
SamePlace == shown'.fresh => /\ shown.fresh /\ shown'.bucket = shown.bucket
                             /\ shown'.prefix = shown.prefix

LEMMA SameListNames ==
  ASSUME TypeInv, SameList
  PROVE  /\ Names(fs3'.tableData) = Names(fs3.tableData)
         /\ \A p : IsListing(fs3.tableData, p) => IsListing(fs3'.tableData, p)
<1> DEFINE t == fs3.tableData
           u == fs3'.tableData
<1>1. Sequence(t) /\ (u = t \/ SameRows(t, u))
  BY DEF TypeInv, IsFs3, IsTable, SameList
<1> HIDE DEF t, u
<1>2. Names(u) = Names(t) /\ \A p : IsListing(t, p) => IsListing(u, p)
  BY <1>1, SameNames
<1>3. QED
  BY <1>2 DEF t, u

LEMMA TableCarried ==
  ASSUME TypeInv, TableInv, SameList, SamePlace, SameObjects, Gone' = Gone,
         None("ListObjects")' => None("ListObjects"), None("Upload")' => None("Upload")
  PROVE  TableInv'
<1> DEFINE rows == Names(fs3.tableData)
<1>1. /\ Names(fs3'.tableData) = rows
      /\ \A p : IsListing(fs3.tableData, p) => IsListing(fs3'.tableData, p)
  BY SameListNames
<1> HIDE DEF rows
<1>2. CASE shown'.fresh
  <2>1. /\ shown.fresh /\ shown'.bucket = shown.bucket /\ shown'.prefix = shown.prefix
    BY <1>2 DEF SamePlace
  <2>2. shown'.prefix \in Seq(STRING) /\ IsListing(fs3'.tableData, shown'.prefix)
    BY <1>1, <2>1 DEF TableInv
  <2>3. ASSUME Calm' PROVE Calm
    <3>1. ASSUME NEW c \in Gone PROVE GoesFromTable(c)
      BY <1>1, <2>1, <2>3, <3>1 DEF Calm, GoesFromTable, rows
    <3>2. QED
      BY <2>3, <3>1 DEF Calm
  <2>4. Left' = Left
    BY <1>1 DEF Left, rows
  <2>5. RowsIn(stored', shown'.bucket, shown'.prefix) = RowsIn(stored, shown.bucket, shown.prefix)
    BY <2>1 DEF RowsIn, SameObjects
  <2>6. QED
    BY <2>1, <2>2, <2>3, <2>4, <2>5 DEF TableInv
<1>3. QED
  BY <1>2 DEF TableInv

LEMMA TableBusy ==
  ASSUME TypeInv, TableInv, SameList, SamePlace, ~Calm'
  PROVE  TableInv'
<1>1. \A p : IsListing(fs3.tableData, p) => IsListing(fs3'.tableData, p)
  BY SameListNames
<1>2. QED
  BY <1>1 DEF TableInv, SamePlace

LEMMA StillPlace ==
  ASSUME TypeInv, NEW H, NEW F, NEW S, NEW N, NEW ops, Touches(H, F, S, N, ops),
         "bucket" \notin N, "prefix" \notin N, shown'.fresh => shown.fresh
  PROVE  SamePlace
BY DEF TypeInv, IsShown, ShownFields, Touches, Sets, SamePlace

LEMMA StillTable ==
  ASSUME TypeInv, NEW H, NEW F, NEW S, NEW N, NEW ops, Touches(H, F, S, N, ops),
         "tableData" \notin F
  PROVE  SameList
BY DEF TypeInv, IsFs3, Fs3Fields, Touches, Sets, SameList

LEMMA StillGone ==
  ASSUME NEW H, NEW F, NEW S, NEW N, NEW ops, Touches(H, F, S, N, ops), "RemoveObject" \notin ops
  PROVE  Gone' = Gone
<1>1. "RemoveObject" \in AllOps
  BY DEF AllOps, PageOps
<1>2. \A c : c.op = "RemoveObject" => (c \in Of(calls') <=> c \in Of(calls))
  BY <1>1, OfSpared
<1>3. QED
  BY <1>2 DEF Gone

LEMMA StillObjects ==
  ASSUME stored' = stored
  PROVE  SameObjects
BY DEF SameObjects

LEMMA TableSpared ==
  ASSUME TypeInv, TypeInv', TableInv, stored' = stored,
         NEW H, NEW F, NEW S, NEW N, NEW ops, Touches(H, F, S, N, ops),
         "tableData" \notin F, "bucket" \notin N, "prefix" \notin N, shown'.fresh => shown.fresh,
         "ListObjects" \notin ops, "Upload" \notin ops, "RemoveObject" \notin ops
  PROVE  TableInv'
<1>1. "ListObjects" \in AllOps /\ "Upload" \in AllOps
  BY DEF AllOps, PageOps
<1>2. (None("ListObjects")' <=> None("ListObjects")) /\ (None("Upload")' <=> None("Upload"))
  BY <1>1, OpSpared
<1>3. SameList /\ SamePlace /\ Gone' = Gone /\ SameObjects
  BY StillTable, StillPlace, StillGone, StillObjects
<1>4. QED
  BY <1>2, <1>3, TableCarried

\* The removals that are answered, after FS3 has served a request that writes.
LEMMA GoneIfReplied ==
  ASSUME TypeInv, NEW i \in DOMAIN calls, calls[i].state = "sent", NEW js, NEW data,
         ReplyOvertakes(i, js, data),
         \A k \in js : k \in DOMAIN calls /\ calls[k].state = "answered" /\ calls[k].op # "RemoveObject"
  PROVE  /\ Gone \subseteq Gone'
         /\ \A d \in Gone' : \/ d \in Gone
                             \/ calls[i].op = "RemoveObject" /\ IsAnswerTo(d, calls[i], data)
         /\ calls[i].op = "RemoveObject" => \E d \in Gone' : IsAnswerTo(d, calls[i], data)
<1>1. Requests /\ i \notin js
  BY CallsAreRequests DEF TypeInv
<1>2. /\ \A d \in Of(calls') : \/ IsAnswerTo(d, calls[i], data)
                               \/ \E k \in DOMAIN calls : k # i /\ IsNow(d, calls[k], k \in js)
      /\ \E d \in Of(calls') : IsAnswerTo(d, calls[i], data)
      /\ \A k \in DOMAIN calls : k # i => \E d \in Of(calls') : IsNow(d, calls[k], k \in js)
  BY <1>1, RepliedOf
<1>3. ASSUME NEW c \in Gone PROVE c \in Gone'
  <2>1. PICK k \in DOMAIN calls : c = calls[k]
    BY <1>3 DEF Gone, Of
  <2>2. k # i /\ k \notin js
    BY <1>3, <2>1 DEF Gone
  <2>3. PICK d \in Of(calls') : IsNow(d, calls[k], k \in js)
    BY <1>2, <2>2
  <2>4. QED
    BY <1>3, <2>1, <2>2, <2>3 DEF Gone, IsNow
<1>4. ASSUME NEW d \in Gone' PROVE d \in Gone \/ (calls[i].op = "RemoveObject" /\ IsAnswerTo(d, calls[i], data))
  <2>1. d \in Of(calls') /\ d.op = "RemoveObject" /\ d.state = "answered"
    BY <1>4 DEF Gone
  <2>2. CASE IsAnswerTo(d, calls[i], data)
    BY <2>1, <2>2 DEF IsAnswerTo
  <2>3. ASSUME NEW k \in DOMAIN calls, IsNow(d, calls[k], k \in js) PROVE d \in Gone
    <3>1. k \notin js
      BY <2>1, <2>3 DEF IsNow
    <3>2. d = calls[k]
      BY <2>3, <3>1 DEF IsNow
    <3>3. QED
      BY <2>1, <3>2 DEF Gone, Of
  <2>4. QED
    BY <1>2, <2>1, <2>2, <2>3
<1>5. ASSUME calls[i].op = "RemoveObject" PROVE \E d \in Gone' : IsAnswerTo(d, calls[i], data)
  <2>1. PICK d \in Of(calls') : IsAnswerTo(d, calls[i], data)
    BY <1>2
  <2>2. QED
    BY <1>5, <2>1 DEF IsAnswerTo, Gone
<1>6. QED
  BY <1>3, <1>4, <1>5

\* A removal that takes a row of the table away, in what is stored and in the table.
LEMMA TableIfRemoving ==
  ASSUME TypeInv, TableInv, NEW i \in DOMAIN calls, calls[i].op = "RemoveObject",
         calls[i].state = "sent", NEW few, Written(i, few), fs3' = fs3, shown' = shown,
         None("ListObjects")' => None("ListObjects"), None("Upload")' => None("Upload")
  PROVE  TableInv'
<1> DEFINE js == Past(few)
           data == [ok |-> TRUE]
           c == calls[i]
<1>1. /\ ReplyOvertakes(i, js, data) /\ LosesObjects(c)
      /\ \A k \in js : k \in DOMAIN calls /\ calls[k].state = "answered" /\ calls[k].op # "RemoveObject"
  BY DEF Written, Past, Outstanding
<1>2. c.arg.name \in ObjectName /\ IsStore(stored)
  BY CallAt DEF TypeInv, IsCall, IsArg, PageArg
<1> HIDE DEF js, data
<1>3. /\ Gone \subseteq Gone'
      /\ \A d \in Gone' : d \in Gone \/ IsAnswerTo(d, c, data)
      /\ \E d \in Gone' : IsAnswerTo(d, c, data)
  BY <1>1, GoneIfReplied
<1>4. SameList /\ SamePlace
  BY DEF SameList, SamePlace
<1>5. CASE shown.fresh /\ Calm'
  <2> DEFINE rows == Names(fs3.tableData)
             b == shown.bucket
             p == shown.prefix
             m == c.arg.name
             os == UnderIn(stored, b, p)
             new == UnderIn(stored', b, p)
  <2>1. Calm
    BY <1>3, <1>5 DEF Calm, GoesFromTable
  <2>2. /\ p \in Seq(STRING) /\ IsListing(fs3.tableData, p)
        /\ Left = RowsIn(stored, b, p)
    BY <1>5, <2>1 DEF TableInv
  <2>3. PICK d \in Gone' : IsAnswerTo(d, c, data)
    BY <1>3
  <2>4. c.arg.bucket = b /\ \E r \in rows : r.name = m
    BY <1>5, <2>3 DEF Calm, GoesFromTable, IsAnswerTo
  <2>5. Len(m) = Len(p) + 1
    <3>1. PICK r \in rows : r.name = m
      BY <2>4
    <3>2. \E row \in Of(fs3.tableData) : row.name = m
      BY <3>1 DEF Names, Range, Of
    <3>3. QED
      BY <2>2, <3>2 DEF IsListing
  <2>6. os \subseteq ObjectName
    <3> HIDE DEF b, p
    <3>1. QED
      BY <1>2, StoredObjects
  <2>7. new = {o \in os : ~IsPrefix(m, o)}
    <3>1. \A q : UnderIn(stored', c.arg.bucket, q)
                   = {o \in UnderIn(stored, c.arg.bucket, q) : ~IsPrefix(c.arg.name, o)}
      BY <1>1 DEF LosesObjects
    <3>2. QED
      BY <2>4, <3>1
  <2>8. RowsOf(new, Len(m)) = {r \in RowsOf(os, Len(m)) : r.name # m}
    <3> HIDE DEF os, new, m
    <3>1. m \in ObjectName
      BY <1>2 DEF m
    <3>2. QED
      BY <2>6, <2>7, <3>1, RowsWithout
  <2>9. Left' = {r \in Left : r.name # m}
    <3>1. Left' = {r \in rows : \A e \in Gone' : e.arg.name # r.name}
      BY DEF Left
    <3>2. \A e \in Gone' : e \in Gone \/ e.arg.name = m
      BY <1>3 DEF IsAnswerTo
    <3>3. d.arg.name = m
      BY <2>3 DEF IsAnswerTo
    <3> HIDE DEF rows, m, c
    <3>4. ASSUME NEW r \in rows
          PROVE  (\A e \in Gone' : e.arg.name # r.name) <=> (\A e \in Gone : e.arg.name # r.name) /\ r.name # m
      BY <1>3, <2>3, <3>2, <3>3
    <3>5. Left = {r \in rows : \A e \in Gone : e.arg.name # r.name}
      BY DEF Left, rows
    <3>6. QED
      BY <3>1, <3>4, <3>5
  <2>10. Left' = RowsIn(stored', b, p)
    BY <2>2, <2>5, <2>8, <2>9 DEF RowsIn
  <2>11. QED
    BY <2>2, <2>10 DEF TableInv
<1>6. QED
  BY <1>4, <1>5, TableBusy DEF TableInv

LEMMA TableIfStored ==
  ASSUME TypeInv, TableInv, NEW i \in DOMAIN calls, Stores(i) \/ DeleteBucket(i), fs3' = fs3, shown' = shown
  PROVE  TableInv'
<1> DEFINE c == calls[i]
<1>1. /\ c.state = "sent" /\ (Refused(i) \/ \E few : Written(i, few))
      /\ c.op \in {"MakeBucket", "RemoveObject", "Upload", "DeleteBucket"}
  BY StoreWrites
<1>2. \A op : (None(op)' => None(op)) /\ (c.op = op => ~None(op)')
  BY ListsIfWritten
<1>3. SameList /\ SamePlace
  BY DEF SameList, SamePlace
<1>4. CASE c.op = "Upload"
  <2>1. ~Calm'
    BY <1>2, <1>4 DEF Calm
  <2>2. QED
    BY <1>3, <2>1, TableBusy
<1>5. CASE Refused(i) /\ c.op # "Upload"
  <2> DEFINE js == {}
             data == [ok |-> FALSE]
  <2>1. ReplyOvertakes(i, js, data) /\ stored' = stored /\ ~data.ok
    BY <1>5, CallsAreRequests, ReplyOvertakesNone DEF Refused, TypeInv
  <2>2. \A k \in js : k \in DOMAIN calls /\ calls[k].state = "answered" /\ calls[k].op # "RemoveObject"
    OBVIOUS
  <2> HIDE DEF js, data
  <2>3. /\ Gone \subseteq Gone'
        /\ \A d \in Gone' : d \in Gone \/ (c.op = "RemoveObject" /\ IsAnswerTo(d, c, data))
        /\ c.op = "RemoveObject" => \E d \in Gone' : IsAnswerTo(d, c, data)
    BY <1>1, <2>1, <2>2, GoneIfReplied
  <2>4. CASE c.op = "RemoveObject"
    <3>1. ~Calm'
      BY <2>1, <2>3, <2>4 DEF Calm, GoesFromTable, IsAnswerTo
    <3>2. QED
      BY <1>3, <3>1, TableBusy
  <2>5. CASE c.op # "RemoveObject"
    <3>1. Gone' = Gone
      BY <2>3, <2>5
    <3>2. QED
      BY <1>2, <1>3, <2>1, <3>1, StillObjects, TableCarried
  <2>6. QED
    BY <2>4, <2>5
<1>6. ASSUME NEW few, Written(i, few), c.op \in {"MakeBucket", "DeleteBucket"} PROVE TableInv'
  <2> DEFINE js == Past(few)
             data == [ok |-> TRUE]
  <2>1. /\ ReplyOvertakes(i, js, data) /\ SameObjects
        /\ \A k \in js : k \in DOMAIN calls /\ calls[k].state = "answered" /\ calls[k].op # "RemoveObject"
    BY <1>6 DEF Written, Past, Outstanding
  <2> HIDE DEF js, data
  <2>2. Gone' = Gone
    BY <1>1, <1>6, <2>1, GoneIfReplied
  <2>3. QED
    BY <1>2, <1>3, <2>1, <2>2, TableCarried
<1>7. QED
  BY <1>1, <1>2, <1>4, <1>5, <1>6, TableIfRemoving

\* A list that has come, and that nothing has overtaken.
LEMMA TableIfShown ==
  ASSUME Inv, ListsCurrent, RemovedGone, NEW i \in DOMAIN calls, ObjectsListed(i), Aside
  PROVE  TableInv'
<1> DEFINE c == calls[i]
           b == c.arg.bucket
           p == c.arg.prefix
           os == UnderIn(stored, b, p)
           rows == Names(fs3'.tableData)
<1>1. /\ TypeInv /\ stored' = stored /\ c.op = "ListObjects" /\ c.state = "answered"
      /\ IsListing(fs3'.tableData, p) /\ rows = Names(c.reply.rows)
      /\ shown'.bucket = b /\ shown'.prefix = p /\ (shown'.fresh <=> ~c.late)
      /\ Touches({}, {"tableData"}, {"calm"}, {"bucket", "prefix", "fresh"}, {"ListObjects"})
  BY ObjectsListedStep DEF Inv
<1>2. p \in Seq(STRING) /\ c \in Of(calls) /\ IsStore(stored)
  BY <1>1, CallAt DEF TypeInv, IsCall, IsArg, PageArg
<1>3. Gone' = Gone
  BY <1>1, StillGone
<1>4. CASE shown'.fresh /\ Calm'
  <2>1. rows = RowsOf(os, Len(p) + 1)
    BY <1>1, <1>2, <1>4 DEF ListsCurrent, IsNews, RowsIn
  <2>2. os \subseteq ObjectName /\ os \subseteq UnderIn(stored, b, <<>>)
    <3> HIDE DEF b, p
    <3>1. QED
      BY <1>2, StoredObjects
  <2>3. Len(p) + 1 \in Nat \ {0}
    BY <1>2
  <2>4. ASSUME NEW d \in Gone PROVE FALSE
    <3>1. d.reply.ok /\ ~d.late /\ d.arg.bucket = b /\ \E r \in rows : r.name = d.arg.name
      BY <1>1, <1>3, <1>4 DEF Calm, GoesFromTable
    <3>2. PICK r \in rows : r.name = d.arg.name
      BY <3>1
    <3>3. IsGone(stored, d.arg.name, d.arg.bucket)
      BY <3>1 DEF RemovedGone, Gone, IsNews
    <3> DEFINE n == Len(p) + 1
               all == UnderIn(stored, b, <<>>)
    <3>4. n \in Nat \ {0} /\ r \in RowsOf(os, n) /\ os \subseteq all
      BY <2>1, <2>2, <2>3, <3>2
    <3>5. \A o \in all : ~IsPrefix(r.name, o)
      BY <3>1, <3>2, <3>3 DEF IsGone
    <3> HIDE DEF n, os, all
    <3>6. \E o \in os : IsPrefix(r.name, o)
      BY <2>2, <3>4, RowBegins DEF os
    <3>7. QED
      BY <3>4, <3>5, <3>6
  <2>5. Left' = rows
    BY <1>3, <2>4 DEF Left
  <2>6. QED
    BY <1>1, <1>2, <2>1, <2>5 DEF TableInv, RowsIn
<1>5. QED
  BY <1>1, <1>2, <1>4 DEF TableInv

\* The elements at all indices are the sequence itself.
LEMMA OnlyWhole ==
  ASSUME NEW s, Sequence(s), NEW is, DOMAIN s \subseteq is
  PROVE  Only(s, is) = s
<1>1. Len(s) \in Nat /\ DOMAIN s = 1..Len(s) /\ s = [k \in 1..Len(s) |-> s[k]]
  BY Indices DEF Sequence
<1> DEFINE X == Of(s)
           n == Len(s)
<1>2. s \in Seq(X) /\ n \in Nat /\ \A k \in 1..n : s[k] \in X /\ k \in is
  BY <1>1 DEF Sequence, Of
<1> HIDE DEF X
<1>3. PICK f : /\ Only(s, is) = f[n]
               /\ f[0] = <<>>
               /\ \A m \in 1..n : f[m] = IF m \in is THEN Append(f[m - 1], s[m]) ELSE f[m - 1]
  BY <1>2, OnlyUnfolds
<1> HIDE DEF n
<1> DEFINE First(m) == [k \in 1..m |-> s[k]]
           T == {m \in 0..n : f[m] = First(m)}
<1>4. 0 \in T
  <2>1. First(0) = <<>>
    OBVIOUS
  <2>2. QED
    BY <1>2, <1>3, <2>1
<1>5. ASSUME NEW m \in 0..(n - 1), m \in T PROVE m + 1 \in T
  <2>1. m \in Nat /\ m + 1 \in 1..n /\ m + 1 \in 0..n /\ (m + 1) - 1 = m /\ 1..m \subseteq 1..n
    BY <1>2
  <2>2. f[m + 1] = Append(First(m), s[m + 1])
    BY <1>2, <1>3, <1>5, <2>1
  <2>3. First(m) \in Seq(X) /\ s[m + 1] \in X
    BY <1>2, <2>1
  <2>4. Append(First(m), s[m + 1]) = First(m + 1)
    BY <2>1, <2>3
  <2>5. QED
    BY <2>1, <2>2, <2>4
<1> HIDE DEF T
<1>6. \A m \in 0..n : m \in T
  BY <1>2, <1>4, <1>5, Induct
<1>7. n \in T
  BY <1>2, <1>6
<1>8. QED
  BY <1>1, <1>3, <1>7 DEF T, n

\* The names of the table, and those that remain when the rows of one go.
Seen(row) == [name |-> row.name, folder |-> row.folder]
LEMMA NamesSeen ==
  ASSUME NEW t
  PROVE  /\ Names(t) = {Seen(row) : row \in Of(t)}
         /\ \A row : Seen(row).name = row.name
         /\ \A k \in DOMAIN t : \E r \in Names(t) : r.name = t[k].name
<1>1. Names(t) = {Seen(row) : row \in Of(t)}
  BY DEF Names, Seen, Range, Of
<1>2. \A row : Seen(row).name = row.name
  BY DEF Seen
<1>3. ASSUME NEW k \in DOMAIN t PROVE \E r \in Names(t) : r.name = t[k].name
  <2>1. t[k] \in Of(t)
    BY DEF Of
  <2>2. Seen(t[k]) \in Names(t)
    BY <1>1, <2>1
  <2>3. QED
    BY <1>2, <2>2
<1>4. QED
  BY <1>1, <1>2, <1>3

LEMMA NamesWithout ==
  ASSUME NEW t, NEW u, NEW m, \A r : r \in Of(u) <=> r \in Of(t) /\ r.name # m
  PROVE  \A r : r \in Names(u) <=> r \in Names(t) /\ r.name # m
<1>1. /\ Names(u) = {Seen(row) : row \in Of(u)} /\ Names(t) = {Seen(row) : row \in Of(t)}
      /\ \A row : Seen(row).name = row.name
  BY NamesSeen
<1>2. QED
  BY <1>1

LEMMA TableIfRemoved ==
  ASSUME Inv, TableInv, NEW i \in DOMAIN calls, ObjectRemoved(i), Aside
  PROVE  TableInv'
<1> DEFINE c == calls[i]
           t == fs3.tableData
           is == {k \in DOMAIN t : t[k].name # c.arg.name}
           u == Only(t, is)
           cs == <<>>
<1>1. /\ TypeInv /\ stored' = stored /\ c.op = "RemoveObject" /\ c.state = "answered" /\ c.reply.ok
      /\ Done(i, cs) /\ fs3'.tableData = u /\ Of(u) = {r \in Of(t) : r.name # c.arg.name}
      /\ shown'.fresh => shown.fresh /\ ~c.late /\ c.arg.bucket = shown.bucket /\ u # t
      /\ Touches({}, {"tableData"}, {"calm"}, {"fresh"}, {"RemoveObject"})
  BY ObjectRemovedStep DEF Inv
<1>2. Sequence(t) /\ Sequence(u) /\ Requests /\ Sequence(cs) /\ Of(cs) = {}
  <2>1. Sequence(t)
    BY <1>1 DEF TypeInv, IsFs3, IsTable
  <2>2. Sequence(u)
    <3> HIDE DEF t, is
    <3>1. QED
      BY <2>1, OnlyOf
  <2>3. QED
    BY <1>1, <2>1, <2>2, Empty, CallsAreRequests DEF TypeInv
<1>3. CASE shown'.fresh
  <2> DEFINE rows == Names(t)
             new == Names(u)
             m == c.arg.name
  <2>1. /\ shown.fresh /\ ~c.late /\ c.arg.bucket = shown.bucket
        /\ shown'.bucket = shown.bucket /\ shown'.prefix = shown.prefix
    BY <1>1, <1>3, StillPlace DEF SamePlace
  <2>2. new = {r \in rows : r.name # m}
    <3>1. \A r : r \in Of(u) <=> r \in Of(t) /\ r.name # m
      BY <1>1
    <3> HIDE DEF t, u, m
    <3> HIDE DEF rows, new
    <3>2. \A r : r \in Names(u) <=> r \in Names(t) /\ r.name # m
      BY <3>1, NamesWithout
    <3>3. QED
      BY <3>2 DEF rows, new
  <2>3. \E r \in rows : r.name = m
    <3>1. ~(DOMAIN t \subseteq is)
      <4>1. u # t
        BY <1>1, <1>3
      <4> HIDE DEF t, is
      <4>2. QED
        BY <1>2, <4>1, OnlyWhole
    <3>2. PICK k \in DOMAIN t : t[k].name = m
      BY <3>1
    <3> HIDE DEF t, rows
    <3>3. QED
      BY <3>2, NamesSeen DEF rows
  <2>4. shown'.prefix \in Seq(STRING) /\ IsListing(u, shown'.prefix)
    <3>1. shown.prefix \in Seq(STRING) /\ IsListing(t, shown.prefix)
      BY <2>1 DEF TableInv
    <3>2. Of(u) \subseteq Of(t)
      BY <1>1
    <3> HIDE DEF u, t
    <3>3. QED
      BY <1>2, <2>1, <3>1, <3>2 DEF IsListing
  <2>5. ASSUME Calm' PROVE Left' = RowsIn(stored', shown'.bucket, shown'.prefix)
    <3>1. \A d \in Gone' : GoesFromTable(d)'
      BY <2>5 DEF Calm
    <3>2. ASSUME NEW d \in Gone' PROVE /\ d.reply.ok /\ ~d.late /\ d.arg.bucket = shown.bucket
                                      /\ \E r \in new : r.name = d.arg.name
      <4>1. GoesFromTable(d)'
        BY <3>1
      <4>2. QED
        BY <1>1, <2>1, <4>1 DEF GoesFromTable
    <3>3. c \notin Gone'
      BY <2>2, <3>2
    <3> HIDE DEF new
    <3>4. Gone' = Gone \ {c}
      <4> DEFINE js == {}
      <4>1. Overtakes(i, js, cs) /\ \A k : k \notin js
        BY <1>1, <1>2, DoneOvertakes
      <4> HIDE DEF js, c, cs
      <4>2. /\ \A d \in Of(calls') : \/ d \in Of(cs)
                                     \/ \E k \in DOMAIN calls : k # i /\ IsNow(d, calls[k], k \in js)
            /\ \A k \in DOMAIN calls : k # i => \E d \in Of(calls') : IsNow(d, calls[k], k \in js)
        BY <1>2, <4>1, FinishedOf
      <4>3. ASSUME NEW d \in Of(calls') PROVE d \in Of(calls)
        <5>1. PICK k \in DOMAIN calls : IsNow(d, calls[k], k \in js)
          BY <1>2, <4>2, <4>3
        <5>2. d = calls[k]
          BY <4>1, <5>1 DEF IsNow
        <5>3. QED
          BY <5>2 DEF Of
      <4>4. ASSUME NEW d \in Of(calls), d # c PROVE d \in Of(calls')
        <5>1. PICK k \in DOMAIN calls : d = calls[k]
          BY DEF Of
        <5>2. k # i
          BY <4>4, <5>1 DEF c
        <5>3. PICK e \in Of(calls') : IsNow(e, calls[k], k \in js)
          BY <4>2, <5>2
        <5>4. e = calls[k]
          BY <4>1, <5>3 DEF IsNow
        <5>5. QED
          BY <5>1, <5>4
      <4>5. QED
        BY <3>3, <4>3, <4>4 DEF Gone
    <3>5. Calm
      <4>1. None("ListObjects")' /\ None("Upload")'
        BY <2>5 DEF Calm
      <4>2. None("ListObjects") /\ None("Upload")
        <5> DEFINE js == {}
        <5>1. Overtakes(i, js, cs) /\ \A op : \A e \in Of(cs) : e.op = op => e.state = "sent"
          BY <1>1, <1>2, DoneOvertakes
        <5> HIDE DEF js, cs
        <5>2. \A op \in {"ListObjects", "Upload"} : None(op)' => None(op)
          BY <1>1, <1>2, <5>1, NewsIfFinished
        <5>3. QED
          BY <4>1, <5>2
      <4>3. ASSUME NEW d \in Gone PROVE GoesFromTable(d)
        <5>1. CASE d = c
          BY <1>1, <2>1, <2>3, <5>1 DEF GoesFromTable
        <5>2. CASE d # c
          <6>1. d \in Gone'
            BY <3>4, <5>2
          <6>2. /\ d.reply.ok /\ ~d.late /\ d.arg.bucket = shown.bucket
                /\ \E r \in new : r.name = d.arg.name
            BY <3>2, <6>1
          <6>3. new \subseteq rows
            BY <2>2
          <6>4. QED
            BY <6>2, <6>3 DEF GoesFromTable
        <5>3. QED
          BY <5>1, <5>2
      <4>4. QED
        BY <4>2, <4>3 DEF Calm
    <3>6. Left = RowsIn(stored, shown.bucket, shown.prefix)
      BY <2>1, <3>5 DEF TableInv
    <3>7. Left' = Left
      <4>1. Left' = {r \in new : \A e \in Gone' : e.arg.name # r.name}
        BY <1>1 DEF Left, new
      <4>2. Left = {r \in rows : \A e \in Gone : e.arg.name # r.name}
        BY DEF Left
      <4>3. c \in Gone
        BY <1>1 DEF Gone, Of
      <4> HIDE DEF rows, c
      <4>4. QED
        BY <2>2, <3>4, <4>1, <4>2, <4>3
    <3>8. QED
      BY <1>1, <2>1, <3>6, <3>7
  <2>6. QED
    BY <1>1, <2>4, <2>5 DEF TableInv
<1>4. QED
  BY <1>3 DEF TableInv

LEMMA TableIfSelecting ==
  ASSUME Inv, TableInv, Selecting
  PROVE  TableInv'
<1>1. /\ TypeInv /\ TypeInv' /\ stored' = stored /\ shown' = shown
      /\ SameRows(fs3.tableData, fs3'.tableData) /\ Touches({}, Selection, ShareFields, {}, PickOps)
  BY SelectingStep DEF Inv
<1>2. /\ "ListObjects" \in AllOps /\ "ListObjects" \notin PickOps
      /\ "Upload" \in AllOps /\ "Upload" \notin PickOps
  BY DEF AllOps, PageOps, PickOps
<1>3. (None("ListObjects")' <=> None("ListObjects")) /\ (None("Upload")' <=> None("Upload"))
  BY <1>1, <1>2, OpSpared
<1>4. Gone' = Gone
  BY NewsIfSelecting DEF Gone
<1>5. SameList /\ SamePlace /\ SameObjects
  BY <1>1, StillObjects DEF SameList, SamePlace
<1>6. QED
  BY <1>1, <1>3, <1>4, <1>5, TableCarried

LEMMA TableIfMoving ==
  ASSUME Inv, TableInv, Moving
  PROVE  TableInv'
<1>1. /\ TypeInv /\ TypeInv' /\ stored' = stored
      /\ Touches(MoveHome, {"currentBucketAll", "prefixName"}, {"calm"},
                 {"settled", "followed", "fresh"}, MoveOps)
  BY MovingStep DEF Inv
<1>2. shown'.fresh => shown.fresh
  <2>1. ASSUME NEW p \in Paths, EditAway(p) PROVE shown'.fresh = shown.fresh
    BY <1>1, <2>1, EditAwayStep DEF Moving, TypeInv, IsShown, ShownFields, Touches, Sets
  <2>2. ASSUME NEW i \in DOMAIN calls, Arriving(i) PROVE shown'.fresh => shown.fresh
    BY <2>2, ArrivingAsks DEF Moving
  <2>3. QED
    BY <2>1, <2>2 DEF Moving
<1>3. "Upload" \in AllOps /\ "Upload" \notin MoveOps /\ "RemoveObject" \notin MoveOps
  BY DEF AllOps, PageOps, MoveOps
<1>4. (None("ListObjects")' => None("ListObjects")) /\ (None("Upload")' => None("Upload"))
  BY <1>1, <1>3, NewsIfMoving, OpSpared
<1>5. SameList /\ SamePlace /\ Gone' = Gone /\ SameObjects
  BY <1>1, <1>2, <1>3, StillTable, StillPlace, StillGone, StillObjects
<1>6. QED
  BY <1>1, <1>4, <1>5, TableCarried

LEMMA TableIfReplying ==
  ASSUME Inv, TableInv, Replying
  PROVE  TableInv'
<1>1. TypeInv /\ stored' = stored /\ fs3' = fs3 /\ shown' = shown
  BY ReplyingStep DEF Inv, pageVars
<1>2. \A op : None(op)' => None(op)
  BY OpReplying
<1>3. Gone' = Gone
  BY NewsIfReplying DEF Gone
<1>4. SameList /\ SamePlace /\ SameObjects
  BY <1>1, StillObjects DEF SameList, SamePlace
<1>5. QED
  BY <1>1, <1>2, <1>3, <1>4, TableCarried

\* A list is asked for, or a file is sent: what the table shows does not count.
LEMMA TableIfAsked ==
  ASSUME TypeInv, TableInv, SameList, SamePlace, ~None("ListObjects")' \/ ~None("Upload")'
  PROVE  TableInv'
BY TableBusy DEF Calm

LEMMA TableIfUploading ==
  ASSUME Inv, TableInv, Uploading
  PROVE  TableInv'
<1>1. TypeInv /\ fs3' = fs3 /\ Aside /\ SamePlace
  BY UploadingStep, FreshSpared, StillPlace DEF Inv, Uploading
<1>2. ~None("Upload")'
  <2>1. PICK file \in FileNames, size \in FileSizes : OnChange(file, size)
    BY DEF Uploading
  <2> DEFINE c == UploadCall(file, size)
             cs == <<c>>
  <2>2. UserSends(cs) /\ c.op = "Upload" /\ c \in Of(cs) /\ Sequence(cs)
    BY <1>1, <2>1, OnChangeStep, Single
  <2> HIDE DEF c, cs
  <2>3. QED
    BY <1>1, <2>2, OpAsked
<1>3. SameList /\ SamePlace
  BY <1>1 DEF SameList, SamePlace
<1>4. QED
  BY <1>1, <1>2, <1>3, TableIfAsked

LEMMA TableIfGoing ==
  ASSUME Inv, TableInv, Going
  PROVE  TableInv'
<1>1. PICK n : GoesToTop(n)
  BY GoingStep
<1>2. /\ TypeInv /\ SameRows(fs3.tableData, fs3'.tableData)
      /\ Sets(shown, shown', {"followed", "settled"})
  BY <1>1, SlideClicks DEF Inv, GoesToTop
<1>3. SameList /\ SamePlace
  BY <1>2 DEF SameList, SamePlace, TypeInv, IsShown, ShownFields, Sets
<1>4. ~None("ListObjects")'
  BY <1>2, GoingAsks, HereIsAsked DEF ListedNext
<1>5. QED
  BY <1>2, <1>3, <1>4, TableIfAsked

LEMMA TableIfWalking ==
  ASSUME Inv, TableInv, Walking
  PROVE  TableInv'
<1>1. /\ TypeInv /\ shown' = shown
      /\ Touches({"prefixData"}, {"currentBucketAll", "prefixName"}, {}, {}, {"ListObjects"})
  BY WalkingStep DEF Inv
<1>2. SameList /\ SamePlace
  BY <1>1, StillTable DEF SamePlace
<1>3. ~None("ListObjects")'
  BY <1>1, WalkingAsks, HereIsAsked DEF ListedNext
<1>4. QED
  BY <1>1, <1>2, <1>3, TableIfAsked

LEMMA TableIfSent ==
  ASSUME Inv, TableInv, NEW i \in DOMAIN calls, ProgressFunction(i) \/ Uploaded(i), Aside
  PROVE  TableInv'
<1>1. TypeInv /\ Sequence(calls)
  BY DEF Inv, TypeInv, CallsOK
<1>2. CASE ProgressFunction(i)
  <2>1. PICK e : calls' = [calls EXCEPT ![i] = e] /\ e.op = "Upload"
    BY <1>1, <1>2, ProgressStep
  <2>2. e \in Of(calls')
    BY <1>1, <2>1, Replaced
  <2>3. fs3' = fs3 /\ shown' = shown
    BY <1>1, <1>2, ProgressStep
  <2>4. SameList /\ SamePlace /\ ~None("Upload")'
    BY <2>1, <2>2, <2>3 DEF SameList, SamePlace, None
  <2>5. QED
    BY <1>1, <2>4, TableIfAsked
<1>3. CASE Uploaded(i)
  <2>1. SameRows(fs3.tableData, fs3'.tableData) /\ shown' = shown
    BY <1>1, <1>3, UploadedStep
  <2>2. SameList /\ SamePlace /\ ~None("ListObjects")'
    BY <1>1, <1>3, <2>1, UploadedAsks, HereIsAskedThen DEF SameList, SamePlace, ListedNext
  <2>3. QED
    BY <1>1, <2>2, TableIfAsked
<1>4. QED
  BY <1>2, <1>3

LEMMA TableIfDropped ==
  ASSUME Inv, TableInv, NEW i \in DOMAIN calls, Dropped(i), Aside
  PROVE  TableInv'
<1>1. LET c == calls[i] IN
        /\ TypeInv /\ TypeInv' /\ stored' = stored
        /\ Touches({}, {"exChangeList"}, {"fresh"}, {"fresh", "cut"}, {c.op})
        /\ shown'.fresh => shown.fresh /\ c.op \notin {"ListObjects", "RemoveObject", "Upload"}
  BY DroppedStep DEF Inv
<1>2. CASE shown'.fresh
  BY <1>1, <1>2, TableSpared
<1>3. QED
  BY <1>2 DEF TableInv

LEMMA TableKept ==
  ASSUME Inv, ListsCurrent, RemovedGone, TableInv, [Next]_vars
  PROVE  TableInv'
<1>1. TypeInv /\ TypeInv'
  BY InvKept DEF Inv
<1>2. CASE Resting
  BY <1>1, <1>2, RestingStep, TableSpared
<1>3. CASE Dealing
  BY <1>1, <1>3, DealingStep, TableSpared DEF DealOps, DealApis
<1>4. CASE Minding
  BY <1>1, <1>4, MindingStep, TableSpared DEF MindOps, MenuOps
<1>5. CASE Going
  BY <1>5, TableIfGoing
<1>6. CASE Walking
  BY <1>6, TableIfWalking
<1>7. CASE Selecting
  BY <1>7, TableIfSelecting
<1>8. CASE Moving
  BY <1>8, TableIfMoving
<1>9. CASE Replying
  BY <1>9, TableIfReplying
<1>10. CASE Storing
  BY <1>1, <1>10, StoringStep, TableIfStored DEF Storing
<1>11. CASE Deleting
  BY <1>1, <1>11, DeletingStep, TableIfStored DEF Deleting
<1>12. CASE Sharing
  BY <1>1, <1>12, SharingStep, TableSpared
<1>13. CASE Opening
  BY <1>1, <1>13, OpeningStep, FreshSpared, TableSpared
<1>14. CASE Uploading
  BY <1>14, TableIfUploading
<1>15. ASSUME NEW i \in DOMAIN calls, Handling(i), Aside PROVE TableInv'
  <2> USE <1>1, <1>15
  <2>0. stored' = stored
    BY HandlingStep
  <2>1. CASE ObjectsListed(i)
    BY <2>1, TableIfShown
  <2>2. CASE ObjectRemoved(i)
    BY <2>2, TableIfRemoved
  <2>3. CASE ProgressFunction(i) \/ Uploaded(i)
    BY <2>3, TableIfSent
  <2>4. CASE LinkMade(i)
    BY <2>0, <2>4, LinkMadeStep, TableSpared
  <2>5. CASE DealsListed(i)
    BY <2>0, <2>5, DealsListedStep, TableSpared
  <2>6. CASE Dropped(i)
    BY <2>6, TableIfDropped
  <2>7. QED
    BY <2>1, <2>2, <2>3, <2>4, <2>5, <2>6 DEF Handling
<1>16. CASE UNCHANGED vars
  BY <1>1, <1>16, StutterStep, TableSpared
<1>17. QED
  BY <1>1, <1>2, <1>3, <1>4, <1>5, <1>6, <1>7, <1>8, <1>9, <1>10, <1>11, <1>12, <1>13, <1>14, <1>15,
     <1>16, EveryStep DEF Steps

\* At first the table lists the bucket that is shown, and no request about it is
\* under way.
LEMMA TableBegins ==
  ASSUME Init
  PROVE  ListsCurrent /\ RemovedGone /\ PlaceInv /\ TableInv
<1>1. /\ Inv /\ Begun /\ home.prefixData = <<>> /\ shown = AtFirst(home.currentBucket)
      /\ home.currentBucket # <<>> =>
            /\ IsListing(fs3.tableData, <<>>)
            /\ Names(fs3.tableData) = Names(Listing(home.currentBucket, <<>>))
  BY Begins
<1>2. \A c \in Of(calls) : c.op # "ListObjects" /\ c.op # "RemoveObject"
  BY <1>1 DEF Begun, FirstOps
<1>3. ListsCurrent /\ RemovedGone /\ Gone = {} /\ Newest(calls, "ListObjects") = {}
  BY <1>2 DEF ListsCurrent, RemovedGone, IsNews, Gone, Newest, LastOf, Of
<1>4. /\ shown.bucket = home.currentBucket /\ shown.prefix = <<>>
      /\ shown.fresh <=> home.currentBucket # <<>>
  BY <1>1 DEF AtFirst
<1>5. PlaceInv
  BY <1>1, <1>3, <1>4 DEF PlaceInv
<1>6. TableInv
  <2>1. ASSUME home.currentBucket # <<>>
        PROVE  Left = RowsIn(stored, shown.bucket, shown.prefix)
    <3> DEFINE b == home.currentBucket
               p == shown.prefix
    <3>1. p \in Seq(STRING) /\ IsStore(stored) /\ p = <<>>
      BY <1>1, <1>4 DEF Inv, TypeInv
    <3> HIDE DEF b, p
    <3>2. Names(Listing(b, p)) = RowsIn(stored, b, p)
      BY <3>1, ListingIsRowsIn
    <3>3. Left = Names(fs3.tableData)
      BY <1>3 DEF Left
    <3>4. QED
      BY <1>1, <1>4, <2>1, <3>2, <3>3 DEF b, p
  <2>2. QED
    BY <1>1, <1>4, <2>1 DEF TableInv
<1>7. QED
  BY <1>3, <1>5, <1>6

\* With no list, removal or upload under way, the table lists what FS3 stores
\* where the user is (Home.vue getListObjects; minio/index.vue aboutListData,
\* getRemoveObject).  It need not, until the next list, once an answer was lost
\* or overtaken, Home has gone back from a bucket that could not be made, or a
\* removal was answered when another bucket, or no row of that name, was shown.
THEOREM TableFollows == Spec => []TableIsCurrent
<1> DEFINE I == Inv /\ ListsCurrent /\ RemovedGone /\ PlaceInv /\ TableInv
<1>1. Init => I
  BY TableBegins, Begins
<1>2. I /\ [Next]_vars => I'
  BY InvKept, ListsKept, GoneKept, PlaceKept, TableKept
<1>3. I => TableIsCurrent
  <2> DEFINE ops == {"ListObjects", "RemoveObject", "Upload"}
             b == home.currentBucket
             p == home.prefixData
  <2>1. SUFFICES ASSUME I, Outstanding(ops) = {}, shown.fresh, b # <<>>
                 PROVE  Names(fs3.tableData) = Names(Listing(b, p))
    BY DEF TableIsCurrent
  <2>2. \A op \in ops : None(op)
    BY <2>1, NoneIsNone
  <2>3. Gone = {} /\ Calm
    BY <2>2 DEF Gone, Calm, None
  <2>4. shown.bucket = b /\ shown.prefix = p
    BY <2>1, <2>2 DEF PlaceInv
  <2>5. Names(fs3.tableData) = RowsIn(stored, b, p)
    BY <2>1, <2>3, <2>4 DEF TableInv, Left
  <2>6. IsStore(stored) /\ p \in Seq(STRING)
    BY <2>1 DEF Inv, TypeInv, IsHome
  <2> HIDE DEF b, p
  <2>7. Names(Listing(b, p)) = RowsIn(stored, b, p)
    BY <2>6, ListingIsRowsIn
  <2>8. QED
    BY <2>5, <2>7
<1>4. QED
  BY <1>1, <1>2, <1>3, PTL DEF Spec
=============================================================================
