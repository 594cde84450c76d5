----------------------------- MODULE ObjectPage -----------------------------
(***************************************************************************)
(* The object browser: Home.vue, which keeps the list of buckets, the      *)
(* current bucket and prefix, and the page minio/index.vue, with its table *)
(* of objects, its path and its selection; and FS3, which stores them.     *)
(* Each answer sets the part of this state it is about, whatever the user  *)
(* is looking at by then.                                                  *)
(*                                                                         *)
(* A bucket is a number, a name or a path a sequence: <<b, "d">> is the    *)
(* folder d of bucket b and <<"d", "x">> its object x.  <<>> is ''.        *)
(***************************************************************************)
EXTENDS Requests, FiniteSets, FiniteSetsExt

CONSTANTS MaxBuckets,   \* bound: buckets are 1..MaxBuckets
          Objects,      \* the names of objects a bucket starts with
          FileNames,    \* the names of files to upload
          FileSizes,    \* and how many parts of them are sent, one after the other;
                        \* an empty file has none
          Paths,        \* the paths to type in the header
          Times,        \* the days, hours and minutes a link may be good for
          Within,       \* <<b, c>>: the name of c is a part of the name of b
          SortOrders    \* whether the user has sorted the table by name, downwards

Buckets == 1..MaxBuckets
ASSUME PageBounds == /\ {MaxBuckets, MaxSent} \subseteq Nat /\ MaxBuckets > 1
                     /\ FileSizes \subseteq Nat
                     /\ Within \subseteq Buckets \X Buckets
                     /\ SortOrders \subseteq BOOLEAN
\* An object has a name, and a link is good for a day at least (shareDialog.vue:20).
ASSUME NameBounds == /\ IsFiniteSet(Objects) /\ Objects \subseteq Seq(STRING) \ {<<>>}
                     /\ FileNames \subseteq STRING
                     /\ \A p \in Paths : /\ Len(p) > 0 /\ p[1] \in Buckets
                                         /\ Tail(p) \in Seq(STRING) /\ p = <<p[1]>> \o Tail(p)
                     /\ Times \subseteq (Nat \ {0}) \X Nat \X Nat

VARIABLES
    stored,     \* FS3: the objects of each bucket there is
    home,       \* the data of Home.vue
    fs3,        \* the data of minio/index.vue
    share,      \* its part about the dialog that shares an object
    open,       \* the menu and dialogs that are open, which cover the page
    shown,      \* what the table lists (history)
    picked      \* the objects the user has picked there (history)

pageVars == <<stored, home, fs3, share, open, shown, picked>>

----------------------------------------------------------------------------
(* What FS3 answers (src/cmd/web-handlers.go).                             *)

IsBucket(b) == Len(b) = 1 /\ b[1] \in DOMAIN stored
ListOf(buckets) == Only([b \in Buckets |-> b], buckets)

\* The objects right under the prefix, then its folders.
Listing(b, prefix) ==
    LET n == Len(prefix) + 1
        under == IF IsBucket(b) THEN {o \in stored[b[1]] : IsPrefix(prefix, o)} ELSE {}
        files == {o \in under : Len(o) = n}
        folders == {SubSeq(o, 1, n) : o \in {o \in under : Len(o) > n}}
        Rows(names, folder) ==
            [i \in DOMAIN names |-> [name |-> names[i], folder |-> folder]]
    IN  Rows(SetToSeq(files), FALSE) \o Rows(SetToSeq(folders), TRUE)

\* A change overtakes the answers about the operations ops that were made before it.
Past(ops) == {j \in Outstanding(ops) : calls[j].state = "answered"}
Changes(i, data, new, ops) == stored' = new /\ ReplyOvertakes(i, Past(ops), data)

Unserved == UNCHANGED <<home, fs3, share, open, shown, picked, sent>>
Served == UNCHANGED pageVars /\ UNCHANGED sent

ListBuckets(i) == /\ IsSent(i, "ListBuckets")
                  /\ Reply(i, [buckets |-> ListOf(DOMAIN stored)])
                  /\ Served
ListObjects(i) ==
    LET c == calls[i].arg
    IN  /\ IsSent(i, "ListObjects")
        /\ Reply(i, [ok |-> IsBucket(c.bucket), rows |-> Listing(c.bucket, c.prefix)])
        /\ Served
MakeBucket(i) ==
    LET b == calls[i].arg.name[1]
    IN  /\ IsSent(i, "MakeBucket") /\ Unserved
        /\ IF b \in DOMAIN stored
             THEN Reply(i, [ok |-> FALSE]) /\ UNCHANGED stored
             ELSE Changes(i, [ok |-> TRUE], [c \in DOMAIN stored \cup {b} |-> IF c = b THEN {} ELSE stored[c]], {"ListObjects"})
\* The name of a folder stands for all that is in it.
RemoveObject(i) ==
    LET c == calls[i].arg
    IN  /\ IsSent(i, "RemoveObject") /\ Unserved
        /\ IF IsBucket(c.bucket)
             THEN Changes(i, [ok |-> TRUE],
                          [stored EXCEPT ![c.bucket[1]] = {o \in @ : ~IsPrefix(c.name, o)}],
                          {"ListObjects"})
             ELSE Reply(i, [ok |-> FALSE]) /\ UNCHANGED stored
\* The file is stored when all of it is there.  It may have the name of one that
\* has been removed, whose row is to go when the answer to that comes.
PutObject(i) ==
    LET c == calls[i].arg
    IN  /\ IsSent(i, "Upload") /\ c.loaded = c.size /\ Unserved
        /\ IF IsBucket(c.bucket)
             THEN Changes(i, [ok |-> TRUE], [stored EXCEPT ![c.bucket[1]] = @ \cup {c.name}],
                          {"ListObjects", "RemoveObject"})
             ELSE Reply(i, [ok |-> FALSE]) /\ UNCHANGED stored
\* A link is good for seven days, unless for less.
Week == 7 * 24 * 60 * 60
Expiry(e) == IF e < Week /\ e > 0 THEN e ELSE Week
PresignedGet(i) == /\ IsSent(i, "PresignedGet")
                   /\ Reply(i, [calls[i].arg EXCEPT !.expiry = Expiry(@)])
                   /\ Served
\* A token, the deals of what is asked about, or what FS3 says of itself.
Told(i) == /\ \E op \in {"CreateURLToken", "Retrieve", "StorageInfo", "ServerInfo"} : IsSent(i, op)
           /\ Reply(i, calls[i].arg)
           /\ Served

----------------------------------------------------------------------------
(* Parts of the handlers.                                                  *)

ListCall(b, prefix) == Request("ListObjects", [bucket |-> b, prefix |-> prefix])
ListBucketsCall(name) == Request("ListBuckets", [name |-> name])

\* getListObjects sets the current bucket and prefix before it asks.
At(b, prefix) == home' = [home EXCEPT !.currentBucket = b, !.prefixData = prefix]

\* The watch on currentBucket splits a new one into the path in the header.
Watched(f, b) == IF b = home.currentBucket THEN f ELSE [f EXCEPT !.currentBucketAll = b]

\* The rows of a list, none of them picked.
AboutListData(objects) ==
    [k \in DOMAIN objects |->
        [name |-> objects[k].name, folder |-> objects[k].folder, drawShow |-> TRUE]]

NoPick == [names |-> {}, at |-> <<>>, calm |-> FALSE]
Unselected(rows) == [i \in DOMAIN rows |-> [rows[i] EXCEPT !.drawShow = TRUE]]
DrawPlayClose(f) == [f EXCEPT !.tableData = Unselected(@), !.drawIndex = 0,
                              !.deleteDialogIndex = <<>>]

\* The watch on slideListClick: the page is at the top of b.
SlideListClick(f, b) ==
    [DrawPlayClose(f) EXCEPT !.currentBucketAll = b, !.prefixName = <<>>]

\* History: what was picked before the bucket changed under it, and whether
\* that has changed since the user chose it.
Disturbed == [share EXCEPT !.calm = @ /\ share.mode = "deal"]
Moved(b) == /\ picked' = [picked EXCEPT !.calm = @ /\ b = home.currentBucket]
            /\ share' = IF b = home.currentBucket THEN share ELSE Disturbed
Still(b) == shown.settled /\ b = home.currentBucket

\* The row the user sees at i, while the handlers take tableData[i].
SeenRow(i) == IF fs3.sorted THEN fs3.tableData[Len(fs3.tableData) + 1 - i]
                            ELSE fs3.tableData[i]
SameBucket == shown.bucket = home.currentBucket

----------------------------------------------------------------------------
(* The user goes to a bucket or a folder.                                  *)

\* Mutant: the prefix of the page stays.
SlideClickBelow(b) ==
    /\ At(b, <<>>)
    /\ fs3' = [DrawPlayClose(fs3) EXCEPT !.currentBucketAll = b]
    /\ picked' = NoPick
    /\ share' = Disturbed
    /\ shown' = [shown EXCEPT !.followed = TRUE, !.settled = TRUE]
    /\ UNCHANGED stored

\* getListBucket of Slide.vue, which slideListClick tells the page of.
SlideClick(b) ==
    /\ At(b, <<>>)
    /\ fs3' = SlideListClick(fs3, b)
    /\ picked' = NoPick
    /\ share' = Disturbed
    /\ shown' = [shown EXCEPT !.followed = TRUE, !.settled = TRUE]
    /\ UNCHANGED stored

GetListBucket(b) == /\ open = {} /\ b \in Range(home.menu)
                    /\ SlideClick(<<b>>) /\ UNCHANGED open
                    /\ UserSends(<<ListCall(<<b>>, <<>>)>>)

\* The part of the path in the header that the user clicks on.
BuckerAdress(n) ==
    LET prefix == SubSeq(fs3.currentBucketAll, 2, n)
    IN  /\ open = {} /\ n \in DOMAIN fs3.currentBucketAll /\ home.currentBucket # <<>>
        /\ fs3' = [fs3 EXCEPT !.currentBucketAll = SubSeq(@, 1, n), !.prefixName = prefix]
        /\ At(home.currentBucket, prefix)
        /\ UserSends(<<ListCall(home.currentBucket, prefix)>>)
        /\ UNCHANGED <<stored, share, open, shown, picked>>

\* The folder of a row, without the prefix of the page if it begins with that.
\* (With no prefix the code takes the first slash out of the name, which only
\* a row from deeper than the page has; here such a name is left as it is.)
CurListFolder(i) ==
    LET row == SeenRow(i)
        n == Len(fs3.prefixName)
        below == IF n < Len(row.name) /\ IsPrefix(fs3.prefixName, row.name)
                   THEN SubSeq(row.name, n + 1, Len(row.name)) ELSE row.name
        path == fs3.currentBucketAll \o below
    IN  /\ open = {} /\ row.folder /\ home.currentBucket # <<>>
        /\ fs3' = [fs3 EXCEPT !.currentBucketAll = path, !.prefixName = Tail(path)]
        /\ At(home.currentBucket, Tail(path))
        /\ UserSends(<<ListCall(home.currentBucket, Tail(path))>>)
        /\ UNCHANGED <<stored, share, open, shown, picked>>

\* What the path was when the user began to type over it (browserNameChange).
editFun == fs3.currentBucketAll

\* The path is typed over and Enter pressed, as one step: another bucket than
\* the current one is always made.
EditPath(p) ==
    /\ open = {} /\ p # fs3.currentBucketAll
    /\ fs3' = [fs3 EXCEPT !.currentBucketAll = p, !.prefixName = Tail(p)]
    /\ IF <<p[1]>> = home.currentBucket
         THEN /\ At(home.currentBucket, Tail(p))
              /\ UserSends(<<ListCall(home.currentBucket, Tail(p))>>)
              /\ UNCHANGED <<picked, share, shown>>
         ELSE /\ UserSends(<<Request("MakeBucket",
                     [name |-> <<p[1]>>, prefix |-> Tail(p), old |-> editFun])>>)
              /\ UNCHANGED home
              /\ Moved(<<p[1]>>)
              /\ shown' = [shown EXCEPT !.followed = FALSE]
    /\ UNCHANGED <<stored, open>>

\* "Create bucket" opens a dialog that asks for the name; Enter closes it.
CreateHomeBuck == /\ open = {}
                  /\ open' = {"create"}
                  /\ UNCHANGED <<stored, home, fs3, share, shown, picked>>
                  /\ UserActs

GetDialogClose == /\ "create" \in open
                  /\ open' = open \ {"create"}
                  /\ UNCHANGED <<stored, home, fs3, share, shown, picked, calls, sent>>

GetServer(b) ==
    /\ "create" \in open
    /\ open' = open \ {"create"}
    /\ UserSends(<<Request("MakeBucket", [name |-> <<b>>, prefix |-> <<>>, old |-> <<>>])>>)
    /\ fs3' = DrawPlayClose(fs3)
    /\ picked' = NoPick
    /\ UNCHANGED <<stored, home, share, shown>>

----------------------------------------------------------------------------
(* The user picks objects, and removes, downloads, shares or uploads.      *)

\* The icon of a row, or its menu's "Download Object".
DrawPlay(i) ==
    LET rows == [fs3.tableData EXCEPT ![i].drawShow = ~@]
        chosen == Only(rows, {j \in DOMAIN rows : ~rows[j].drawShow})
        names == [j \in DOMAIN chosen |-> chosen[j].name]
    IN  /\ open = {}
        /\ fs3' = [fs3 EXCEPT !.tableData = rows, !.drawIndex = Len(names),
                              !.deleteDialogIndex = names]
        /\ picked' = IF names = <<>> THEN NoPick ELSE
                     [names |-> {SeenRow(j).name : j \in {j \in DOMAIN rows : ~rows[j].drawShow}},
                      at |-> shown.bucket, calm |-> SameBucket]
        /\ UNCHANGED <<stored, home, share, open, shown>>
        /\ UserActs

\* The drawer is open while anything is selected.
CloseDrawer == /\ open = {} /\ fs3.drawIndex > 0
               /\ fs3' = DrawPlayClose(fs3)
               /\ picked' = NoPick
               /\ UNCHANGED <<stored, home, share, open, shown, calls, sent>>

DeleteSelected == /\ open = {} /\ fs3.drawIndex > 0
                  /\ open' = {"delete"}
                  /\ UNCHANGED <<stored, home, fs3, share, shown, picked>>
                  /\ UserActs

\* The menu of a row, which is there while nothing is selected, and its
\* "Delete Object": opening it has closed the drawer.
MenuOf(i) == open = {} /\ i \in DOMAIN fs3.tableData /\ fs3.drawIndex < 1
\* Mutant: the row is added to what was chosen before.
DeleteBtnToo(i) ==
    /\ MenuOf(i)
    /\ open' = {"delete"}
    /\ fs3' = [fs3 EXCEPT !.deleteDialogIndex = Append(@, fs3.tableData[i].name)]
    /\ picked' = [names |-> {SeenRow(i).name}, at |-> shown.bucket, calm |-> SameBucket]
    /\ UNCHANGED <<stored, home, share, shown>>
    /\ UserActs
DeleteBtn(i) ==
    /\ MenuOf(i)
    /\ open' = {"delete"}
    /\ fs3' = [DrawPlayClose(fs3) EXCEPT !.deleteDialogIndex = <<fs3.tableData[i].name>>]
    /\ picked' = [names |-> {SeenRow(i).name}, at |-> shown.bucket, calm |-> SameBucket]
    /\ UNCHANGED <<stored, home, share, shown>>
    /\ UserActs

\* A request for each; the dialog stays until one is answered.
DeleteListFun ==
    LET Removal(name) == Request("RemoveObject", [bucket |-> home.currentBucket, name |-> name])
        cs == [k \in DOMAIN fs3.deleteDialogIndex |-> Removal(fs3.deleteDialogIndex[k])]
    IN  /\ "delete" \in open
        /\ UserSends(cs)
        /\ fs3' = DrawPlayClose(fs3)
        /\ picked' = NoPick
        /\ UNCHANGED <<stored, home, share, open, shown>>

CancelDelete == /\ "delete" \in open
                /\ open' = open \ {"delete"}
                /\ UNCHANGED <<stored, home, fs3, share, shown, picked, calls, sent>>

DownloadFun == /\ open = {} /\ fs3.drawIndex > 0
               /\ UserSends(<<Request("CreateURLToken", Nothing)>>)
               /\ UNCHANGED pageVars

\* A link to the row share_now, of the table as it is when the link is asked for.
Seconds(t) == ((t[1] * 24 + t[2]) * 60 + t[3]) * 60
LinkCall(i, t) == Request("PresignedGet",
    [bucket |-> home.currentBucket, name |-> fs3.tableData[i].name, expiry |-> Seconds(t)])

ShareBtn(i) ==
    /\ MenuOf(i)
    /\ share' = [share EXCEPT !.mode = "link", !.share_now = i, !.name = SeenRow(i).name,
                              !.at = shown.bucket, !.calm = SameBucket]
    /\ open' = {"share"}
    /\ fs3' = DrawPlayClose(fs3) /\ picked' = NoPick
    /\ UserSends(<<LinkCall(i, share.num)>>)
    /\ UNCHANGED <<stored, home, shown>>

\* Mutant: the new link is for the time before.
HandleChangeBefore(t) ==
    /\ "share" \in open /\ share.mode = "link" /\ t # share.num
    /\ share' = [share EXCEPT !.num = t]
    /\ IF share.share_now \in DOMAIN fs3.tableData
         THEN UserSends(<<LinkCall(share.share_now, share.num)>>) ELSE UserActs
    /\ UNCHANGED <<stored, home, fs3, open, shown, picked>>

\* A new time asks for a new link, if there still is such a row.
HandleChange(t) ==
    /\ "share" \in open /\ share.mode = "link" /\ t # share.num
    /\ share' = [share EXCEPT !.num = t]
    /\ IF share.share_now \in DOMAIN fs3.tableData
         THEN UserSends(<<LinkCall(share.share_now, t)>>) ELSE UserActs
    /\ UNCHANGED <<stored, home, fs3, open, shown, picked>>

\* "Backup to Filecoin" fixes where the deal will be posted.
ShareToFil(i) ==
    /\ MenuOf(i)
    /\ share' = [share EXCEPT !.mode = "deal", !.name = SeenRow(i).name, !.at = shown.bucket,
                              !.calm = SameBucket,
                              !.postAdress = home.currentBucket \o fs3.tableData[i].name]
    /\ open' = {"share"}
    /\ fs3' = DrawPlayClose(fs3) /\ picked' = NoPick
    /\ UNCHANGED <<stored, home, shown>>
    /\ UserActs

\* A row is opened for its deals, or closed; another open one closes.
ExChange(i) ==
    LET name == SeenRow(i).name
    IN  /\ open = {}
        /\ IF fs3.expands = name
             THEN /\ fs3' = [fs3 EXCEPT !.expands = <<>>]
                  /\ shown' = [shown EXCEPT !.opened = <<>>]
                  /\ UserActs
             ELSE /\ fs3' = [fs3 EXCEPT !.expands = name, !.exChangeList = {}]
                  /\ shown' = [shown EXCEPT !.opened = IF SameBucket THEN shown.bucket ELSE <<>>]
                  /\ UserSends(<<Request("Retrieve",
                                         [bucket |-> home.currentBucket, name |-> name])>>)
        /\ UNCHANGED <<stored, home, share, open, picked>>

\* The deals under the row that is open.
RowDeals == IF fs3.expands = <<>> THEN {} ELSE fs3.exChangeList

\* Files go where Home is, which is not always where the header says.
OnLoadStart == [home EXCEPT !.drawer = TRUE, !.oloaded = 0]
OnChange(file, size) ==
    /\ open = {} /\ home.minioListBuckets # <<>>
    /\ UserSends(<<Request("Upload", [bucket |-> home.currentBucket, size |-> size, loaded |-> 0,
                                      name |-> Append(home.prefixData, file)])>>)
    /\ home' = OnLoadStart
    /\ shown' = [shown EXCEPT !.cut = size = 0]
    /\ UNCHANGED <<stored, fs3, share, open, picked>>

\* The bar of progress is one for all uploads, and closes by the time that is
\* left at the speed since the last event, of whatever upload that was: -1 is
\* none or less, 0 little enough that it may be rounded to none, and 1 more
\* than that, as without any speed (Infinity and NaN).
\* Mutant: only a negative time closes the bar.
RestTimeNegative(left, perload) == IF perload < 0 THEN -1 ELSE IF left > 0 THEN 0 ELSE 1
RestTime(left, perload) ==
    IF perload = 0 THEN 1 ELSE IF perload < 0 \/ left = 0 THEN -1 ELSE 0

\* An empty file may have an event too, of no progress.
Parts(file) == IF file.size = 0 THEN {0} ELSE file.loaded + 1 .. file.size
ProgressFunction(i) ==
    /\ IsSent(i, "Upload")
    /\ \E loaded \in Parts(calls[i].arg) :
         LET resttime == RestTime(calls[i].arg.size - loaded, loaded - home.oloaded)
         IN  /\ calls' = [calls EXCEPT ![i].arg.loaded = loaded]
             /\ \E drawer \in BOOLEAN :
                  /\ resttime = -1 => ~drawer
                  /\ resttime = 1 => drawer = home.drawer
                  /\ drawer => home.drawer
                  /\ home' = [home EXCEPT !.oloaded = loaded, !.drawer = drawer]
    /\ UNCHANGED <<stored, fs3, share, open, shown, picked, sent>>

----------------------------------------------------------------------------
(* The handlers of answers.                                                *)

\* Slide.vue lists all buckets anew.
GetMinioData(h, buckets) == [h EXCEPT !.minioListBuckets = buckets, !.menu = buckets]

\* The first bucket, or the one that was asked for, becomes the current one.
BucketsListed(i) ==
    LET buckets == Answer(i).buckets
        first == IF buckets = <<>> THEN <<>> ELSE <<Head(buckets)>>
        name == calls[i].arg.name
        b == IF name # <<>> THEN name ELSE first
        lists == b # <<>>
    IN  /\ IsAnswered(i, "ListBuckets")
        /\ home' = [GetMinioData(home, buckets) EXCEPT
                      !.currentBucket = b, !.prefixData = IF lists THEN <<>> ELSE @]
        /\ fs3' = Watched(fs3, b)
        /\ Done(i, IF lists THEN <<ListCall(b, <<>>)>> ELSE <<>>)
        /\ open' = open \ {"menu"}
        /\ Moved(b)
        /\ shown' = [shown EXCEPT !.settled = Still(b),
             !.followed = @ /\ fs3'.currentBucketAll = b /\ fs3.prefixName = <<>>]
        /\ UNCHANGED <<stored, sent>>

\* The space that is used, in the header, and the versions, in the dialog about.
StorageInfoRead(i) == /\ IsAnswered(i, "StorageInfo")
                      /\ home' = [home EXCEPT !.userd = TRUE]
                      /\ Done(i, <<>>)
                      /\ UNCHANGED <<stored, fs3, share, open, shown, picked, sent>>
ServerInfoRead(i) == /\ IsAnswered(i, "ServerInfo")
                     /\ home' = [home EXCEPT !.aboutServer = TRUE]
                     /\ Done(i, <<>>)
                     /\ UNCHANGED <<stored, fs3, share, open, shown, picked, sent>>

\* The table shows the list, whatever bucket is the current one.
ObjectsListed(i) ==
    LET c == calls[i]
    IN  /\ IsAnswered(i, "ListObjects") /\ Answer(i).ok
        /\ fs3' = [fs3 EXCEPT !.tableData = AboutListData(Answer(i).rows)]
        /\ shown' = [shown EXCEPT !.bucket = c.arg.bucket, !.prefix = c.arg.prefix,
                                  !.fresh = ~c.late]
        /\ share' = Disturbed
        /\ Overtakes(i, Earlier(i), <<>>)
        /\ UNCHANGED <<stored, home, open, picked, sent>>

\* One more list of buckets is asked for by every bucket of that name within.
BucketMade(i) ==
    LET c == calls[i].arg
        buckets == home.minioListBuckets
        again == Only(buckets, {k \in DOMAIN buckets :
                                   buckets[k] = c.name[1] \/ <<buckets[k], c.name[1]>> \in Within})
        lists == IF c.prefix = <<>> THEN 1 ELSE 2
    IN  /\ IsAnswered(i, "MakeBucket") /\ Answer(i).ok
        /\ At(c.name, <<>>)
        /\ fs3' = Watched(fs3, c.name)
        /\ Done(i, [k \in DOMAIN again |-> ListBucketsCall(<<>>)]
                     \o <<ListBucketsCall(c.name)>>
                     \o [k \in 1..lists |-> ListCall(c.name, <<>>)])
        /\ Moved(c.name)
        /\ shown' = [shown EXCEPT !.settled = Still(c.name),
             !.followed = @ /\ fs3'.currentBucketAll = c.name /\ fs3.prefixName = <<>>]
        /\ UNCHANGED <<stored, open, sent>>

\* With the path it was typed over, Home goes back, and asks for nothing.
BucketNotMade(i) ==
    LET old == calls[i].arg.old
        b == IF old = <<>> THEN home.currentBucket ELSE old
    IN  /\ IsAnswered(i, "MakeBucket") /\ ~Answer(i).ok
        /\ home' = [home EXCEPT !.currentBucket = b]
        /\ fs3' = Watched(fs3, b)
        /\ Moved(b)
        /\ shown' = [shown EXCEPT !.settled = Still(b), !.fresh = @ /\ b = home.currentBucket,
                                  !.followed = @ /\ old = <<>>]
        /\ Overtakes(i, IF b = home.currentBucket THEN {} ELSE Outstanding({"ListObjects"}), <<>>)
        /\ UNCHANGED <<stored, open, sent>>

\* The row of that name goes, in whatever bucket the table shows.
ObjectRemoved(i) ==
    LET c == calls[i].arg
        rows == Only(fs3.tableData,
                     {k \in DOMAIN fs3.tableData : fs3.tableData[k].name # c.name})
    IN  /\ IsAnswered(i, "RemoveObject") /\ Answer(i).ok
        /\ fs3' = [fs3 EXCEPT !.tableData = rows]
        /\ open' = open \ {"delete"}
        /\ shown' = [shown EXCEPT !.fresh = @ /\ ~calls[i].late /\ c.bucket = shown.bucket
                                            /\ rows # fs3.tableData]
        /\ share' = Disturbed
        /\ Done(i, <<>>)
        /\ UNCHANGED <<stored, home, picked, sent>>

\* Mutant: there is no new list.
UploadedUnlisted(i) ==
    /\ IsAnswered(i, "Upload") /\ Answer(i).ok
    /\ fs3' = DrawPlayClose(fs3)
    /\ picked' = NoPick
    /\ Done(i, <<>>)
    /\ UNCHANGED <<stored, home, share, open, shown, sent>>

\* The watch on uploadClick, and Home lists again where it is by now.
UploadClick(f) == DrawPlayClose(f)
Uploaded(i) ==
    LET b == IF home.currentBucket # <<>> \/ home.minioListBuckets = <<>>
               THEN home.currentBucket ELSE <<Head(home.minioListBuckets)>>
    IN  /\ IsAnswered(i, "Upload") /\ Answer(i).ok
        /\ At(b, home.prefixData)
        /\ fs3' = UploadClick(Watched(fs3, b))
        /\ picked' = NoPick
        /\ Done(i, <<ListCall(b, home.prefixData)>>)
        /\ UNCHANGED <<stored, share, open, shown, sent>>

\* What is selected by now is fetched: one object, or a zip of several, from
\* the bucket that the header begins with (getDownload).
DownloadBucket == SubSeq(fs3.currentBucketAll, 1, 1)
Downloaded(i) == /\ IsAnswered(i, "CreateURLToken")
                 /\ fs3' = DrawPlayClose(fs3)
                 /\ picked' = NoPick
                 /\ Done(i, <<>>)
                 /\ UNCHANGED <<stored, home, share, open, shown, sent>>

\* The dialog opens with the link, even if it has been closed.
LinkMade(i) == /\ IsAnswered(i, "PresignedGet")
               /\ share' = [share EXCEPT !.link = Answer(i), !.fresh = ~calls[i].late]
               /\ open' = open \cup {"share"}
               /\ Overtakes(i, Earlier(i), <<>>)
               /\ UNCHANGED <<stored, home, fs3, shown, picked, sent>>

\* Mutant: the deals are put to those that are listed.
DealsAdded(i) ==
    /\ IsAnswered(i, "Retrieve")
    /\ fs3' = [fs3 EXCEPT !.exChangeList = @ \cup {[of |-> Answer(i), late |-> calls[i].late]}]
    /\ Overtakes(i, Earlier(i), <<>>)
    /\ UNCHANGED <<stored, home, share, open, shown, picked, sent>>
DealsListed(i) == /\ IsAnswered(i, "Retrieve")
                  /\ fs3' = [fs3 EXCEPT !.exChangeList = {[of |-> Answer(i), late |-> calls[i].late]}]
                  /\ Overtakes(i, Earlier(i), <<>>)
                  /\ UNCHANGED <<stored, home, share, open, shown, picked, sent>>

\* Lost, before it was served or after, or answered with an error that only
\* shows a message.
PageOps == {"StorageInfo", "ServerInfo", "ListBuckets", "ListObjects", "MakeBucket",
            "RemoveObject", "Upload", "CreateURLToken", "PresignedGet", "Retrieve"}
PageWrites == {"MakeBucket", "RemoveObject", "Upload"}
Old(deals) == {[d EXCEPT !.late = TRUE] : d \in deals}
Dropped(i) ==
    /\ i \in Outstanding(PageOps) /\ Fails(i, PageWrites)
    /\ Overtakes(i, Earlier(i), <<>>)
    /\ shown' = [shown EXCEPT
         !.fresh = @ /\ calls[i].op \notin {"ListObjects", "RemoveObject", "Upload"},
         !.cut = @ \/ (calls[i].op = "Upload" /\ calls[i].arg.loaded < calls[i].arg.size)]
    /\ share' = [share EXCEPT !.fresh = @ /\ calls[i].op # "PresignedGet"]
    /\ fs3' = IF calls[i].op = "Retrieve" THEN [fs3 EXCEPT !.exChangeList = Old(@)] ELSE fs3
    /\ UNCHANGED <<stored, home, open, picked>>

----------------------------------------------------------------------------

\* Home has just been mounted, or has listed a bucket.
Fs3View == [tableData |-> <<>>, sorted |-> FALSE, currentBucketAll |-> <<>>, prefixName |-> <<>>,
            drawIndex |-> 0, deleteDialogIndex |-> <<>>, expands |-> <<>>, exChangeList |-> {}]
HomeView == [minioListBuckets |-> <<>>, menu |-> <<>>, currentBucket |-> <<>>, prefixData |-> <<>>,
             userd |-> FALSE, aboutServer |-> FALSE, drawer |-> FALSE, oloaded |-> 0]
ShareView == [mode |-> "link", share_now |-> 0, link |-> Nothing, num |-> <<5, 0, 0>>,
              postAdress |-> <<>>, name |-> <<>>, at |-> <<>>, calm |-> FALSE, fresh |-> FALSE]

\* A bucket is full or empty at first.  Each user has a bucket in view, or has
\* just come, which is an act, or (reloads) has had a bucket removed a moment ago.
Listed(b) == [GetMinioData(HomeView, ListOf(DOMAIN stored)) EXCEPT
                !.currentBucket = b, !.userd = TRUE, !.aboutServer = TRUE]
InView(b, sorted) == [Fs3View EXCEPT !.sorted = sorted, !.currentBucketAll = b,
                                     !.tableData = AboutListData(Listing(b, <<>>))]
AtFirst(b) == [bucket |-> b, prefix |-> <<>>, fresh |-> b # <<>>, followed |-> TRUE,
               settled |-> TRUE, cut |-> FALSE, opened |-> <<>>]

PageInit ==
    /\ stored \in {[b \in {1} |-> {}], [b \in {1, 2} |-> Objects]}
    /\ picked = NoPick

JustMounted == /\ home = HomeView /\ fs3 = Fs3View /\ share = ShareView
               /\ shown = AtFirst(<<>>)
               /\ sent = 1
               /\ calls = <<ListBucketsCall(<<>>), Request("StorageInfo", Nothing),
                            Request("ServerInfo", Nothing)>>
InBucket(b) == \E sorted \in SortOrders :
    home = Listed(b) /\ fs3 = InView(b, sorted) /\ shown = AtFirst(b) /\ sent = 0

\* What the user can do at each part of the page: Home's buttons, the header,
\* a row and its menu, the drawer, and the dialogs that create, delete and share.
HomeUser == \/ CreateHomeBuck
            \/ \E file \in FileNames, size \in FileSizes : OnChange(file, size)
CreateDialog == GetDialogClose \/ \E b \in Buckets : GetServer(b)
HeaderUser == \/ \E p \in Paths : EditPath(p)
              \/ \E n \in 1..Len(fs3.currentBucketAll) : BuckerAdress(n)
RowUser(i) == CurListFolder(i) \/ DrawPlay(i) \/ ExChange(i)
RowMenu(i) == DeleteBtn(i) \/ ShareBtn(i) \/ ShareToFil(i)
DrawerUser == CloseDrawer \/ DeleteSelected \/ DownloadFun
DeleteDialog == DeleteListFun \/ CancelDelete
ShareForm == \E t \in Times : HandleChange(t)

PageUser ==
    \/ \E b \in Buckets : GetListBucket(b)
    \/ HomeUser \/ CreateDialog \/ HeaderUser \/ DrawerUser \/ DeleteDialog \/ ShareForm
    \/ \E i \in DOMAIN fs3.tableData : RowUser(i) \/ RowMenu(i)

PageServer == \E i \in DOMAIN calls :
    \/ ListBuckets(i) \/ ListObjects(i) \/ MakeBucket(i) \/ RemoveObject(i)
    \/ PutObject(i) \/ PresignedGet(i) \/ Told(i)

PageHandler == \E i \in DOMAIN calls :
    \/ StorageInfoRead(i) \/ ServerInfoRead(i) \/ BucketsListed(i) \/ ObjectsListed(i) \/ BucketMade(i) \/ BucketNotMade(i)
    \/ ObjectRemoved(i) \/ ProgressFunction(i) \/ Uploaded(i) \/ Downloaded(i) \/ LinkMade(i)
    \/ DealsListed(i) \/ Dropped(i)
=============================================================================
