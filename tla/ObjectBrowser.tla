---------------------------- MODULE ObjectBrowser ----------------------------
(***************************************************************************)
(* The object browser as a whole: its page (ObjectPage), the buckets at    *)
(* its side (BucketMenu) and the dialogs that back up to Filecoin          *)
(* (DealDialog), which share Home's current bucket and the requests under  *)
(* way.                                                                    *)
(***************************************************************************)
EXTENDS DealDialog

vars == <<calls, sent, pageVars, menuVars, deal>>

\* Home has just been mounted, or shows a bucket, maybe with its menu or with a
\* dialog for deals open.  At a bucket that is not the first, a list of buckets
\* that was asked for when another was removed is still under way.
Init ==
    /\ PageInit
    /\ policies = [b \in Buckets |-> {}] /\ deal = [d \in Dialogs |-> DealView]
    /\ \/ JustMounted /\ open = {} /\ slide = SlideView
       \/ \E b \in DOMAIN stored :
            /\ InBucket(<<b>>) /\ share = ShareView
            /\ open \in {{}, {"menu"}, {"homeshare"}}
            /\ slide = [SlideView EXCEPT !.on = b]
            /\ calls = IF b = 1 THEN <<>> ELSE <<ListBucketsCall(<<>>)>>
       \/ \E b \in DOMAIN stored :
            /\ InBucket(<<b>>) /\ fs3.tableData # <<>> /\ open = {"share"}
            /\ share = [ShareView EXCEPT !.mode = "deal", !.at = <<b>>, !.calm = TRUE,
                          !.name = SeenRow(1).name,
                          !.postAdress = <<b>> \o fs3.tableData[1].name]
            /\ slide = SlideView /\ calls = <<>>

User == \/ PageUser /\ UNCHANGED <<menuVars, deal>>
        \/ MenuUser /\ UNCHANGED deal
        \/ DealUser
FS3 == \/ PageServer /\ UNCHANGED <<menuVars, deal>>
       \/ MenuServer /\ UNCHANGED deal
       \/ DealServer
Handler == \/ PageHandler /\ UNCHANGED <<menuVars, deal>>
           \/ MenuHandler /\ UNCHANGED deal
           \/ DealHandler

Next == User \/ FS3 \/ Handler
Spec == Init /\ [][Next]_vars

----------------------------------------------------------------------------
(* Properties.                                                             *)

\* With no list and no change of objects under way, the table lists what FS3
\* stores under the current bucket and prefix: what moves Home asks for its list
\* (Home.vue getListObjects, getListBuckets, getMakeBucket), and a removal takes
\* the row away (minio/index.vue getRemoveObject).  There are three exceptions,
\* until the next list: the last list, or the answer about a change, was lost or
\* overtaken; Home went back from a bucket that could not be made, for which it
\* asks for no list (Home.vue:331); and the answer to a removal came when the
\* table showed another bucket, or no row of that name.
Names(rows) == {[name |-> row.name, folder |-> row.folder] : row \in Range(rows)}
TableIsCurrent ==
    (Outstanding({"ListObjects", "RemoveObject", "Upload"}) = {} /\ shown.fresh
       /\ home.currentBucket # <<>>) =>
        Names(fs3.tableData) = Names(Listing(home.currentBucket, home.prefixData))

\* The path in the header is where an upload goes, unless a list of buckets came
\* while the user was in a folder, or another bucket was typed over the path.
HeaderIsPath ==
    shown.followed =>
        /\ fs3.currentBucketAll = home.currentBucket \o home.prefixData
        /\ fs3.prefixName = home.prefixData

\* What "Delete" and "Download" act on is what the user has picked, in the
\* bucket where it was picked, unless an answer has changed the bucket since
\* (deleteDialogIndex, drawIndex and currentBucket of minio/index.vue).  Download
\* takes the bucket from the header (getDownload), which is another one when the
\* header does not follow Home, as HeaderIsPath says.
ActsOnPicked ==
    picked.calm => /\ Range(fs3.deleteDialogIndex) = picked.names
                   /\ home.currentBucket = picked.at
                   /\ shown.followed => DownloadBucket = picked.at
                   /\ "delete" \notin open =>
                          fs3.drawIndex \in {0, Len(fs3.deleteDialogIndex)}

\* "Delete Object" of a row (minio/index.vue:243) is about the object of that
\* row, and so is the dialog it opens.
DeletesItsRow ==
    ("delete" \in open /\ picked.calm) => Range(fs3.deleteDialogIndex) \subseteq picked.names

\* The link in the dialog is for the chosen object and time, and for no more
\* than the week that the dialog names, once the answer is there, unless the
\* rows or the bucket changed meanwhile or an answer has overtaken a later one
\* (minio/index.vue getPresignedGet).
LinkIsChosen ==
    ("share" \in open /\ share.mode = "link" /\ share.calm /\ share.fresh
       /\ Outstanding({"PresignedGet"}) = {}) =>
        /\ share.link.bucket = share.at /\ share.link.name = share.name
        /\ share.link.expiry <= Week
        /\ Seconds(share.num) <= Week => share.link.expiry = Seconds(share.num)

\* The dialog of policies lists and changes those of the bucket it is titled
\* with, unless an answer has changed the current bucket (Slide.vue dialogFun,
\* setPolicyChange, getListAllBucketPolicies).
PoliciesOfTitle ==
    ("policy" \in open /\ shown.settled) =>
        /\ home.currentBucket = slide.titlePolicy
        /\ (slide.fresh /\ Outstanding({"ListAllBucketPolicies", "SetBucketPolicy"}) = {}) =>
               slide.bucketPolicies = PoliciesOf(slide.titlePolicy)

\* The deals shown are those of the row that is open, or of the bucket of the
\* dialog, when no request for deals is under way, unless one was lost or
\* overtaken (minio/index.vue tableJson, retrievalDialog.vue getData).  A row is
\* open by its name alone (minio/index.vue:402), so the deals stay when another
\* bucket that has a row of that name is listed; and they are of the current
\* bucket, if that was not the one listed when the row was opened.
DealsOfWhatIsOpen ==
    /\ \A d \in RowDeals :
         (~d.late /\ Outstanding({"Retrieve"}) = {}
            /\ shown.opened # <<>> /\ shown.opened = shown.bucket) =>
             d.of.name = fs3.expands /\ d.of.bucket = shown.bucket
    /\ \A d \in RetrievalTable :
         (~d.late /\ shown.settled /\ Outstanding({"BucketDeals"}) = {}) =>
             d.of.bucket = home.currentBucket

\* A deal is posted for the bucket or object its dialog was opened for, and as
\* one for a bucket or an object, unless an answer has changed the current
\* bucket; and it lasts the days that were asked for (shareDialog.vue submitForm,
\* submitofflineForm).
DealsAsWanted ==
    \A i \in Outstanding(DealApis) :
        LET c == calls[i].arg
        IN  /\ c.calm => /\ c.adress = c.wanted
                         /\ calls[i].op = "deal" <=> Len(c.adress) > 1
            /\ calls[i].op # "offlinedeals" => c.form.Duration * 30 = c.form.days * 24 * 60 * 60

\* The providers shown are the first pages of the location, in order, and
\* scrolling goes on until all are there, unless a page was lost, or an answer
\* for another location or to a second opening came late (shareDialog.vue
\* handleOpen, loadMore).
ProvidersInOrder ==
    \A d \in Dialogs :
        LET f == deal[d]
            n == Len(f.tableData)
        IN  (f.fresh /\ f.parentName # NoLocation /\ OfDialog(d, {"Miners"}) = {}) =>
                /\ f.tableData = [k \in 1..n |-> <<f.parentName, k - 1>>]
                /\ f.loadSign \/ n * PageSize >= Miners[f.parentName]

\* The bar of progress closes when the last part of every upload has been sent,
\* although each event compares with the last one, of whatever upload that was,
\* and one without progress leaves the bar as it is (Home.vue progressFunction).
\* It may stay open, until the next upload, if one has been cut off since the
\* last upload began, or if that was of an empty file: its time left is NaN.
UploadBarCloses ==
    (~shown.cut /\ \A i \in Outstanding({"Upload"}) : calls[i].arg.loaded = calls[i].arg.size) =>
        ~home.drawer
=============================================================================
