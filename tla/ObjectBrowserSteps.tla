-------------------------- MODULE ObjectBrowserSteps --------------------------
(***************************************************************************)
(* The steps of the object browser (ObjectBrowser), for every value of its *)
(* constants: the types they keep, and what each of them writes, as far as *)
(* the proofs of the properties need to know it; then the properties that  *)
(* need little else, of the bar of progress, of the header and of the      *)
(* dialog of policies.  The others are proved in ObjectBrowserProof.       *)
(***************************************************************************)
EXTENDS ObjectBrowser, RequestsProof, FiniteSetTheorems

----------------------------------------------------------------------------
(* The types.                                                              *)

AllOps == PageOps \cup MenuOps \cup DealOps

ObjectName == Seq(STRING) \ {<<>>}
IsBucketName(b) == \E n \in Buckets : b = <<n>>
\* A bucket and a prefix in it, or nothing; it may begin with anything.
IsPath(p) == Sequence(p) /\ (p # <<>> => Tail(p) \in Seq(STRING))
AreBuckets(buckets) == Sequence(buckets) /\ Of(buckets) \subseteq Buckets
IsListing(rows, prefix) ==
    /\ Sequence(rows)
    /\ \A r \in Of(rows) : /\ r.name \in ObjectName
                           /\ Len(r.name) = Len(prefix) + 1 /\ IsPrefix(prefix, r.name)

\* What is sent.
PageArg(op, a) ==
    /\ op = "ListBuckets" => a.name = <<>> \/ IsBucketName(a.name)
    /\ op = "ListObjects" => /\ a = [bucket |-> a.bucket, prefix |-> a.prefix]
                             /\ IsPath(a.bucket) /\ a.prefix \in Seq(STRING)
    /\ op = "MakeBucket" => IsBucketName(a.name) /\ IsPath(a.old)
    /\ op = "RemoveObject" => IsPath(a.bucket) /\ a.name \in ObjectName
    /\ op = "Upload" => /\ DOMAIN a = {"bucket", "size", "loaded", "name"}
                        /\ a.name \in ObjectName
                        /\ a.size \in Nat /\ a.loaded \in 0..a.size
    /\ op = "PresignedGet" => a = [bucket |-> a.bucket, name |-> a.name, expiry |-> a.expiry]
MenuArg(op, a) == op = "DeleteBucket" => \E n : a.bucket = <<n>>
DealArg(op, a) ==
    /\ op \in DealOps => a.dialog \in Dialogs
    /\ op = "Miners" => a.location \in Locations /\ a.page \in Nat
    /\ op \in {"deal", "deals"} => a.form.Duration * 30 = a.form.days * 24 * 60 * 60
IsArg(op, a) == op \in AllOps /\ PageArg(op, a) /\ MenuArg(op, a) /\ DealArg(op, a)

\* What is answered.
Answers(op, a, r) ==
    /\ op = "ListBuckets" => AreBuckets(r.buckets)
    /\ op = "ListObjects" => IsListing(r.rows, a.prefix) /\ (r.ok => Len(a.bucket) = 1)
    /\ op = "PresignedGet" => r = [a EXCEPT !.expiry = Expiry(@)]
    /\ op \in {"Retrieve", "BucketDeals"} => r = a
    /\ op = "Miners" => r.total = Miners[a.location]
IsCall(c) == IsRequest(c) /\ IsArg(c.op, c.arg) /\ (c.state = "answered" => Answers(c.op, c.arg, c.reply))
CallsOK == Sequence(calls) /\ \A c \in Of(calls) : IsCall(c)

\* What the browser keeps.
HomeFields == {"minioListBuckets", "menu", "currentBucket", "prefixData", "userd",
               "aboutServer", "drawer", "oloaded"}
IsHome(h) ==
    /\ DOMAIN h = HomeFields
    /\ AreBuckets(h.minioListBuckets)
    /\ IsPath(h.currentBucket) /\ h.prefixData \in Seq(STRING)
    /\ h.oloaded \in Nat

IsTable(rows) ==
    /\ Sequence(rows)
    /\ \A r \in Of(rows) : r.name \in ObjectName /\ DOMAIN r = {"name", "folder", "drawShow"}
Fs3Fields == {"tableData", "sorted", "currentBucketAll", "prefixName", "drawIndex",
              "deleteDialogIndex", "expands", "exChangeList"}
IsFs3(f) ==
    /\ DOMAIN f = Fs3Fields
    /\ IsTable(f.tableData) /\ f.sorted \in SortOrders \cup {FALSE}
    /\ IsPath(f.currentBucketAll) /\ f.prefixName \in Seq(STRING)
    /\ Sequence(f.deleteDialogIndex) /\ Of(f.deleteDialogIndex) \subseteq ObjectName

ShareFields == {"mode", "share_now", "link", "num", "postAdress", "name", "at", "calm", "fresh"}
IsShare(s) == DOMAIN s = ShareFields /\ s.num \in (Nat \ {0}) \X Nat \X Nat
ShownFields == {"bucket", "prefix", "fresh", "followed", "settled", "cut", "opened"}
IsShown(n) == DOMAIN n = ShownFields
SlideFields == {"on", "titlePolicy", "bucketPolicies", "fresh", "exChangeList"}
IsSlide(s) == DOMAIN s = SlideFields
IsDeal(f) ==
    /\ DOMAIN f = DOMAIN DealView
    /\ Sequence(f.tableData) /\ f.page \in Nat /\ f.total \in Nat

IsStore(s) == /\ DOMAIN s \subseteq Buckets
              /\ \A b \in DOMAIN s : IsFiniteSet(s[b]) /\ s[b] \subseteq ObjectName

TypeInv ==
    /\ CallsOK
    /\ IsHome(home) /\ IsFs3(fs3) /\ IsShare(share) /\ IsShown(shown) /\ IsSlide(slide)
    /\ DOMAIN picked = {"names", "at", "calm"}
    /\ DOMAIN deal = Dialogs /\ \A d \in Dialogs : IsDeal(deal[d])
    /\ IsStore(stored) /\ DOMAIN policies = Buckets

----------------------------------------------------------------------------
(* Paths and names.                                                        *)

LEMMA Strings ==
  ASSUME NEW s \in Seq(STRING)
  PROVE  Sequence(s) /\ (s = <<>> \/ s \in ObjectName)
BY InSeq DEF ObjectName

LEMMA NoPath == IsPath(<<>>)
BY Empty DEF IsPath

LEMMA BucketPath ==
  ASSUME NEW n
  PROVE  IsPath(<<n>>) /\ Len(<<n>>) = 1 /\ <<n>>[1] = n /\ <<n>> # <<>>
<1>1. Tail(<<n>>) = <<>>
  OBVIOUS
<1>2. QED
  BY <1>1, Single, EmptySeq DEF IsPath

\* The part of a path up to n is a path, the rest of it after the first a prefix.
LEMMA PathCut ==
  ASSUME NEW p, IsPath(p), NEW n \in DOMAIN p
  PROVE  LET q == SubSeq(p, 1, n) IN
           /\ IsPath(q) /\ q # <<>> /\ p # <<>>
           /\ SubSeq(p, 2, n) \in Seq(STRING) /\ Tail(q) = SubSeq(p, 2, n)
           /\ q = <<p[1]>> \o SubSeq(p, 2, n) /\ q[1] = p[1]
<1> DEFINE X == Of(p)
           q == SubSeq(p, 1, n)
           r == SubSeq(p, 2, n)
<1>1. p \in Seq(X) /\ Len(p) \in Nat /\ DOMAIN p = 1..Len(p) /\ n \in 1..Len(p) /\ 1 \in 1..Len(p)
  BY Indices DEF IsPath, Sequence
<1>2. p # <<>>
  BY <1>1, Empty
<1>3. q = <<p[1]>> \o r
  <2> HIDE DEF X
  <2>1. n \in 1..Len(p)
    BY <1>1
  <2>2. QED
    BY <1>1, <2>1, SubSeqRecursiveFirst
<1>4. Tail(p) \in Seq(STRING) /\ Len(Tail(p)) = Len(p) - 1
      /\ \A i \in 1..Len(Tail(p)) : Tail(p)[i] = p[i + 1]
  <2> HIDE DEF X
  <2>1. QED
    BY <1>1, <1>2, HeadTailProperties DEF IsPath
<1>5. \A i \in 2..n : p[i] \in STRING
  <2>1. ASSUME NEW i \in 2..n PROVE p[i] \in STRING
    <3>1. i - 1 \in 1..Len(Tail(p)) /\ (i - 1) + 1 = i
      BY <1>1, <1>4
    <3>2. Tail(p)[i - 1] \in STRING
      BY <1>4, <3>1, ElementOfSeq
    <3>3. QED
      BY <1>4, <3>1, <3>2
  <2>2. QED
    BY <2>1
<1>6. r \in Seq(STRING)
  BY <1>1, <1>5, SubSeqProperties
<1>7. q \in Seq(X) /\ Len(q) = n
  <2>1. \A i \in 1..n : p[i] \in X
    BY <1>1 DEF Of
  <2> HIDE DEF X
  <2>2. QED
    BY <1>1, <2>1, SubSeqProperties
<1>8. Tail(q) = r
  <2>1. n \in 1..Len(p)
    BY <1>1
  <2> HIDE DEF X
  <2>2. QED
    BY <1>1, <2>1, HeadTailOfSubSeq
<1>9. q # <<>> /\ q[1] = p[1]
  <2>1. \A i \in 1..n : p[i] \in X
    BY <1>1 DEF Of
  <2> HIDE DEF X
  <2>2. \A i \in 1..n - 1 + 1 : q[i] = p[1 + i - 1]
    BY <1>1, <2>1, SubSeqProperties
  <2>3. 1 \in 1..n - 1 + 1 /\ 1 + 1 - 1 = 1 /\ n # 0
    BY <1>1
  <2> HIDE DEF q
  <2>4. QED
    BY <1>7, <2>2, <2>3, EmptySeq
<1>10. QED
  BY <1>2, <1>3, <1>6, <1>7, <1>8, <1>9, InSeq DEF IsPath

\* What is in a path, is one.
LEMMA PathBelow ==
  ASSUME NEW p, IsPath(p), NEW s \in Seq(STRING)
  PROVE  /\ IsPath(p \o s)
         /\ p # <<>> => p \o s # <<>> /\ Tail(p \o s) = Tail(p) \o s /\ (p \o s)[1] = p[1]
         /\ s # <<>> => p \o s # <<>> /\ Tail(p \o s) \in Seq(STRING)
<1> DEFINE X == Of(p) \cup STRING
           q == p \o s
<1>1. p \in Seq(X) /\ s \in Seq(X)
  BY SeqMonotonic DEF IsPath, Sequence
<1>2. CASE p = <<>>
  <2>1. q = s
    BY <1>2, ConcatEmptySeq
  <2>2. s # <<>> => Tail(s) \in Seq(STRING)
    BY HeadTailProperties
  <2>3. QED
    BY <1>2, <2>1, <2>2, InSeq DEF IsPath
<1>3. CASE p # <<>>
  <2> HIDE DEF X
  <2>1. q \in Seq(X) /\ Len(q) = Len(p) + Len(s)
        /\ \A i \in 1..Len(p) + Len(s) : q[i] = IF i <= Len(p) THEN p[i] ELSE s[i - Len(p)]
    BY <1>1, ConcatProperties
  <2>2. Len(p) \in Nat \ {0} /\ Len(s) \in Nat
    BY <1>1, <1>3, EmptySeq
  <2>3. q # <<>>
    BY <2>1, <2>2, EmptySeq
  <2>4. Tail(q) \in Seq(X) /\ Len(Tail(q)) = Len(q) - 1
        /\ \A i \in 1..Len(Tail(q)) : Tail(q)[i] = q[i + 1]
    BY <2>1, <2>3, HeadTailProperties
  <2>5. Tail(p) \in Seq(X) /\ Len(Tail(p)) = Len(p) - 1
        /\ \A i \in 1..Len(Tail(p)) : Tail(p)[i] = p[i + 1]
    BY <1>1, <1>3, HeadTailProperties
  <2> DEFINE t == Tail(p) \o s
  <2>6. t \in Seq(X) /\ Len(t) = Len(Tail(p)) + Len(s)
        /\ \A i \in 1..Len(Tail(p)) + Len(s) :
             t[i] = IF i <= Len(Tail(p)) THEN Tail(p)[i] ELSE s[i - Len(Tail(p))]
    BY <1>1, <2>5, ConcatProperties
  <2>7. Tail(q) = t
    <3> DEFINE l == Len(p)
               m == Len(s)
               u == Tail(q)
               v == Tail(p)
    <3>1. l \in Nat \ {0} /\ m \in Nat /\ Len(q) = l + m /\ Len(u) = l + m - 1
          /\ Len(v) = l - 1 /\ Len(t) = l + m - 1
      BY <2>1, <2>2, <2>4, <2>5, <2>6
    <3>2. \A i \in 1..(l + m - 1) : u[i] = q[i + 1]
      BY <2>4, <3>1
    <3>3. \A i \in 1..(l + m) : q[i] = IF i <= l THEN p[i] ELSE s[i - l]
      BY <2>1
    <3>4. \A i \in 1..(l - 1) : v[i] = p[i + 1]
      BY <2>5, <3>1
    <3>5. \A i \in 1..(l - 1 + m) : t[i] = IF i <= l - 1 THEN v[i] ELSE s[i - (l - 1)]
      BY <2>6, <3>1
    <3> HIDE DEF l, m, v, u, t, q
    <3>6. \A i \in 1..(l + m - 1) : u[i] = t[i]
      <4>1. ASSUME NEW i \in 1..(l + m - 1) PROVE u[i] = t[i]
        <5>1. u[i] = q[i + 1] /\ i + 1 \in 1..(l + m) /\ i \in 1..(l - 1 + m)
          BY <3>1, <3>2
        <5>2. CASE i <= l - 1
          BY <3>1, <3>3, <3>4, <3>5, <5>1, <5>2
        <5>3. CASE ~(i <= l - 1)
          <6>1. ~(i + 1 <= l) /\ (i + 1) - l = i - (l - 1)
            BY <3>1, <5>3
          <6>2. QED
            BY <3>3, <3>5, <5>1, <5>3, <6>1
        <5>4. QED
          BY <5>2, <5>3
      <4>2. QED
        BY <4>1
    <3>7. u \in Seq(X) /\ t \in Seq(X)
      BY <2>4, <2>6 DEF u, t, q
    <3>8. QED
      BY <3>1, <3>6, <3>7, SeqEqual DEF u, t, q
  <2>8. Tail(p) \o s \in Seq(STRING)
    BY <1>3, ConcatProperties DEF IsPath
  <2>9. q[1] = p[1]
    BY <2>1, <2>2
  <2>10. QED
    BY <2>1, <2>3, <2>7, <2>8, <2>9, InSeq DEF IsPath
<1>4. QED
  BY <1>2, <1>3

LEMMA PathWhole ==
  ASSUME NEW p, IsPath(p), p # <<>>
  PROVE  p = <<p[1]>> \o Tail(p) /\ Tail(p) \in Seq(STRING)
<1> DEFINE X == Of(p)
<1>1. p \in Seq(X)
  BY DEF IsPath, Sequence
<1> HIDE DEF X
<1>2. Len(p) \in Nat \ {0} /\ DOMAIN p = 1..Len(p)
  BY <1>1, EmptySeq
<1>3. SubSeq(p, 1, Len(p)) = p /\ Tail(p) = SubSeq(p, 2, Len(p))
  BY <1>1, SubSeqFull, TailIsSubSeq
<1>4. Len(p) \in DOMAIN p
  BY <1>2
<1>5. QED
  BY <1>3, <1>4, PathCut DEF IsPath

LEMMA BucketsArePaths ==
  ASSUME NEW b, IsBucketName(b)
  PROVE  IsPath(b) /\ Len(b) = 1 /\ b[1] \in Buckets /\ b = <<b[1]>> /\ b # <<>>
BY BucketPath DEF IsBucketName

----------------------------------------------------------------------------
(* The rows of the table.                                                  *)

\* The rows have the same names.
SameRows(t, u) == /\ Sequence(u) /\ Len(u) = Len(t)
                  /\ \A k \in DOMAIN t : /\ u[k].name = t[k].name /\ u[k].folder = t[k].folder
                                         /\ DOMAIN u[k] = {"name", "folder", "drawShow"}

LEMMA SameNames ==
  ASSUME NEW t, Sequence(t), NEW u, SameRows(t, u)
  PROVE  /\ DOMAIN u = DOMAIN t /\ Names(u) = Names(t)
         /\ (\A r \in Of(t) : r.name \in ObjectName) => IsTable(u)
         /\ \A p : IsListing(t, p) => IsListing(u, p)
<1>1. DOMAIN u = DOMAIN t
  BY Indices DEF SameRows
<1>2. Names(u) = Names(t)
  <2>1. Names(u) = {[name |-> u[k].name, folder |-> u[k].folder] : k \in DOMAIN t}
    BY <1>1 DEF Names, Range
  <2>2. Names(t) = {[name |-> t[k].name, folder |-> t[k].folder] : k \in DOMAIN t}
    BY DEF Names, Range
  <2>3. QED
    BY <2>1, <2>2 DEF SameRows
<1>3. \A r \in Of(u) : \E k \in DOMAIN t : r = u[k]
  BY <1>1 DEF Of
<1>4. \A k \in DOMAIN t : t[k] \in Of(t)
  BY DEF Of
<1>5. ASSUME NEW r \in Of(u)
      PROVE  \E q \in Of(t) : r.name = q.name /\ DOMAIN r = {"name", "folder", "drawShow"}
  BY <1>3, <1>4 DEF SameRows
<1>6. Sequence(u)
  BY DEF SameRows
<1>7. (\A r \in Of(t) : r.name \in ObjectName) => IsTable(u)
  BY <1>5, <1>6 DEF IsTable
<1>8. ASSUME NEW p, IsListing(t, p) PROVE IsListing(u, p)
  <2>1. ASSUME NEW r \in Of(u)
        PROVE  r.name \in ObjectName /\ Len(r.name) = Len(p) + 1 /\ IsPrefix(p, r.name)
    <3>1. PICK q \in Of(t) : r.name = q.name
      BY <1>5
    <3>2. q.name \in ObjectName /\ Len(q.name) = Len(p) + 1 /\ IsPrefix(p, q.name)
      BY <1>8 DEF IsListing
    <3>3. QED
      BY <3>1, <3>2
  <2>2. QED
    BY <1>6, <2>1 DEF IsListing
<1>9. QED
  BY <1>1, <1>2, <1>7, <1>8

LEMMA UnselectedRows ==
  ASSUME NEW t, IsTable(t)
  PROVE  SameRows(t, Unselected(t)) /\ IsTable(Unselected(t))
<1> DEFINE u == Unselected(t)
<1>1. Sequence(t) /\ \A k \in DOMAIN t : t[k] \in Of(t)
  BY DEF IsTable, Of
<1>2. DOMAIN u = DOMAIN t /\ u = [k \in DOMAIN t |-> u[k]]
  BY DEF Unselected
<1>3. \A k \in DOMAIN t : u[k] = [t[k] EXCEPT !.drawShow = TRUE]
  BY DEF Unselected
<1>4. Len(t) \in Nat /\ DOMAIN t = 1..Len(t)
  BY <1>1, Indices
<1>5. Sequence(u) /\ Len(u) = Len(t)
  <2> HIDE DEF u
  <2>1. QED
    BY <1>2, <1>4, Numbered
<1>6. SameRows(t, u)
  <2> HIDE DEF u
  <2>1. ASSUME NEW k \in DOMAIN t
        PROVE  /\ u[k].name = t[k].name /\ u[k].folder = t[k].folder
               /\ DOMAIN u[k] = {"name", "folder", "drawShow"}
    <3>1. DOMAIN t[k] = {"name", "folder", "drawShow"}
      BY <1>1 DEF IsTable
    <3>2. QED
      BY <1>3, <3>1
  <2>2. QED
    BY <1>5, <2>1 DEF SameRows
<1>7. QED
  BY <1>1, <1>6, SameNames DEF IsTable

LEMMA ListedRows ==
  ASSUME NEW t, NEW p, IsListing(t, p)
  PROVE  SameRows(t, AboutListData(t)) /\ IsTable(AboutListData(t))
<1> DEFINE u == AboutListData(t)
<1>1. Sequence(t)
  BY DEF IsListing
<1>2. DOMAIN u = DOMAIN t /\ u = [k \in DOMAIN t |-> u[k]]
  BY DEF AboutListData
<1>3. \A k \in DOMAIN t : u[k] = [name |-> t[k].name, folder |-> t[k].folder, drawShow |-> TRUE]
  BY DEF AboutListData
<1>4. Len(t) \in Nat /\ DOMAIN t = 1..Len(t)
  BY <1>1, Indices
<1>5. Sequence(u) /\ Len(u) = Len(t)
  <2> HIDE DEF u
  <2>1. QED
    BY <1>2, <1>4, Numbered
<1>6. SameRows(t, u)
  <2>1. ASSUME NEW k \in DOMAIN t
        PROVE  /\ u[k].name = t[k].name /\ u[k].folder = t[k].folder
               /\ DOMAIN u[k] = {"name", "folder", "drawShow"}
    <3> HIDE DEF u
    <3>1. u[k] = [name |-> t[k].name, folder |-> t[k].folder, drawShow |-> TRUE]
      BY <1>3
    <3>2. QED
      BY <3>1
  <2> HIDE DEF u
  <2>2. QED
    BY <1>5, <2>1 DEF SameRows
<1>7. QED
  BY <1>1, <1>6, SameNames DEF IsListing

\* Some of the rows.
LEMMA FewerRows ==
  ASSUME NEW t, IsTable(t), NEW is
  PROVE  IsTable(Only(t, is)) /\ Of(Only(t, is)) \subseteq Of(t)
<1>1. Sequence(t)
  BY DEF IsTable
<1>2. Sequence(Only(t, is)) /\ Of(Only(t, is)) \subseteq Of(t)
  BY <1>1, OnlyOf DEF Of
<1>3. QED
  BY <1>2 DEF IsTable

\* The indices of a finite set, in some order.
LEMMA SetInSeq ==
  ASSUME NEW S, IsFiniteSet(S)
  PROVE  Sequence(SetToSeq(S)) /\ Of(SetToSeq(S)) = S
<1> DEFINE n == Cardinality(S)
           g == SetToSeq(S)
<1>1. n \in Nat /\ ExistsBijection(1..n, S)
  BY FS_CardinalityType
<1>2. \E f \in [1..n -> S] : IsInjective(f)
  BY <1>1 DEF ExistsBijection, Bijection, Injection
<1>3. g \in [1..n -> S] /\ IsInjective(g)
  <2> HIDE DEF n
  <2>1. g = CHOOSE f \in [1..n -> S] : IsInjective(f)
    BY DEF SetToSeq, n
  <2> HIDE DEF g
  <2>2. QED
    BY <1>2, <2>1
<1> HIDE DEF g
<1>4. IsFiniteSet(1..n) /\ Cardinality(1..n) = n
  <2> HIDE DEF n
  <2>1. 1 \in Int /\ n \in Int
    BY <1>1
  <2>2. IsFiniteSet(1..n) /\ Cardinality(1..n) = IF 1 > n THEN 0 ELSE n - 1 + 1
    BY <2>1, FS_Interval
  <2>3. QED
    BY <1>1, <2>2
<1>5. g \in Injection(1..n, S)
  BY <1>3 DEF Injection
<1>6. g \in Surjection(1..n, S)
  BY <1>4, <1>5, FS_Injection
<1>7. Of(g) = S
  BY <1>3, <1>6 DEF Surjection, Of
<1>8. g \in Seq(S)
  <2> HIDE DEF n
  <2>1. QED
    BY <1>1, <1>3
<1>9. QED
  BY <1>7, <1>8, InSeq DEF g

----------------------------------------------------------------------------
(* What FS3 lists.                                                         *)

Under(b, p) == IF IsBucket(b) THEN {o \in stored[b[1]] : IsPrefix(p, o)} ELSE {}
RowsOf(os, n) == {[name |-> o, folder |-> FALSE] : o \in {o \in os : Len(o) = n}}
                   \cup {[name |-> SubSeq(o, 1, n), folder |-> TRUE] : o \in {o \in os : Len(o) > n}}

\* The folder of an object below a prefix.
LEMMA FolderBelow ==
  ASSUME NEW p \in Seq(STRING), NEW o \in ObjectName, IsPrefix(p, o), NEW n, n = Len(p) + 1,
         Len(o) >= n
  PROVE  LET d == SubSeq(o, 1, n) IN d \in ObjectName /\ Len(d) = n /\ IsPrefix(p, d)
<1> DEFINE d == SubSeq(o, 1, n)
           m == Len(p)
<1>1. m \in Nat /\ n = m + 1 /\ o \in Seq(STRING) /\ Len(o) \in Nat /\ n \in 1..Len(o)
  BY DEF ObjectName
<1>2. \A i \in 1..n : o[i] \in STRING
  BY <1>1, ElementOfSeq
<1>3. d \in Seq(STRING) /\ Len(d) = n
  BY <1>1, <1>2, SubSeqProperties
<1>4. d # <<>>
  BY <1>1, <1>3, EmptySeq
<1>5. SubSeq(d, 1, m) = SubSeq(o, 1, m)
  <2>1. CASE m = 0
    BY <2>1, SubSeqEmpty
  <2>2. CASE m # 0
    <3> HIDE DEF m
    <3>1. 1 \in 1..Len(o) /\ 1 \in 1..(n - 1 + 1) /\ m \in 1..(n - 1 + 1)
          /\ 1 + 1 - 1 = 1 /\ 1 + m - 1 = m
      BY <1>1, <2>2
    <3>2. SubSeq(d, 1, m) = SubSeq(o, 1 + 1 - 1, 1 + m - 1)
      BY <1>1, <3>1, SubSeqOfSubSeq
    <3>3. QED
      BY <3>1, <3>2
  <2>3. QED
    BY <2>1, <2>2
<1>6. QED
  BY <1>1, <1>3, <1>4, <1>5 DEF IsPrefix, ObjectName

LEMMA FoldersAreFinite ==
  ASSUME NEW os, IsFiniteSet(os), NEW n
  PROVE  IsFiniteSet({SubSeq(o, 1, n) : o \in os})
<1> DEFINE T == {SubSeq(o, 1, n) : o \in os}
           f == [o \in os |-> SubSeq(o, 1, n)]
<1>1. f \in Surjection(os, T)
  BY DEF Surjection
<1> HIDE DEF f, T
<1>2. QED
  BY <1>1, FS_Surjection DEF T

\* Rows with the names in s, all of them folders or none.
LEMMA NamedRows ==
  ASSUME NEW s, Sequence(s), NEW folder
  PROVE  LET t == [i \in DOMAIN s |-> [name |-> s[i], folder |-> folder]] IN
           Sequence(t) /\ Of(t) = {[name |-> o, folder |-> folder] : o \in Of(s)}
<1> DEFINE t == [i \in DOMAIN s |-> [name |-> s[i], folder |-> folder]]
<1>1. Len(s) \in Nat /\ DOMAIN s = 1..Len(s)
  BY Indices
<1>2. t = [k \in 1..Len(s) |-> t[k]]
  BY <1>1
<1>3. Sequence(t)
  <2> HIDE DEF t
  <2>1. QED
    BY <1>1, <1>2, Numbered
<1>4. Of(t) = {[name |-> o, folder |-> folder] : o \in Of(s)}
  BY DEF Of
<1>5. QED
  BY <1>3, <1>4

LEMMA ListingRows ==
  ASSUME IsStore(stored), NEW b, NEW p \in Seq(STRING)
  PROVE  /\ IsListing(Listing(b, p), p)
         /\ Names(Listing(b, p)) = RowsOf(Under(b, p), Len(p) + 1)
<1> DEFINE n == Len(p) + 1
           os == Under(b, p)
           files == {o \in os : Len(o) = n}
           folders == {SubSeq(o, 1, n) : o \in {o \in os : Len(o) > n}}
           A == SetToSeq(files)
           B == SetToSeq(folders)
           s == [i \in DOMAIN A |-> [name |-> A[i], folder |-> FALSE]]
           t == [i \in DOMAIN B |-> [name |-> B[i], folder |-> TRUE]]
<1>1. Listing(b, p) = s \o t
  BY DEF Listing, Under
<1>2. IsFiniteSet(os) /\ \A o \in os : o \in ObjectName /\ IsPrefix(p, o)
  <2>1. CASE IsBucket(b)
    <3>1. IsFiniteSet(stored[b[1]]) /\ stored[b[1]] \subseteq ObjectName
      BY <2>1 DEF IsBucket, IsStore
    <3>2. os \in SUBSET stored[b[1]] /\ \A o \in os : IsPrefix(p, o)
      BY <2>1 DEF Under
    <3> HIDE DEF os
    <3>3. QED
      BY <3>1, <3>2, FS_Subset
  <2>2. CASE ~IsBucket(b)
    BY <2>2, FS_EmptySet DEF Under
  <2>3. QED
    BY <2>1, <2>2
<1> HIDE DEF os
<1>3. IsFiniteSet(files) /\ IsFiniteSet(folders)
  <2>1. IsFiniteSet({o \in os : Len(o) = n}) /\ IsFiniteSet({o \in os : Len(o) > n})
    BY <1>2, FS_Subset
  <2>2. QED
    BY <2>1, FoldersAreFinite
<1> HIDE DEF files, folders
<1>4. Sequence(A) /\ Of(A) = files /\ Sequence(B) /\ Of(B) = folders
  BY <1>3, SetInSeq
<1>5. Sequence(s) /\ Of(s) = {[name |-> o, folder |-> FALSE] : o \in files}
      /\ Sequence(t) /\ Of(t) = {[name |-> o, folder |-> TRUE] : o \in folders}
  BY <1>4, NamedRows
<1> HIDE DEF s, t, A, B
<1>6. Sequence(s \o t) /\ Of(s \o t) = Of(s) \cup Of(t)
  BY <1>5, Joined
<1> DEFINE u == s \o t
<1>7. Sequence(u)
      /\ Of(u) = {[name |-> o, folder |-> FALSE] : o \in files} \cup {[name |-> o, folder |-> TRUE] : o \in folders}
  BY <1>5, <1>6
<1> HIDE DEF u
<1>8. Len(p) \in Nat /\ \A o \in os : Len(o) \in Nat
  BY <1>2 DEF ObjectName
<1>9. \A o \in files : o \in ObjectName /\ Len(o) = n /\ IsPrefix(p, o)
  BY <1>2 DEF files
<1>10. \A o \in folders : o \in ObjectName /\ Len(o) = n /\ IsPrefix(p, o)
  <2>1. ASSUME NEW o \in os, Len(o) > n
        PROVE  LET d == SubSeq(o, 1, n) IN d \in ObjectName /\ Len(d) = n /\ IsPrefix(p, d)
    <3>1. n \in Nat /\ Len(o) >= n
      BY <1>8, <2>1
    <3> HIDE DEF n
    <3>2. n = Len(p) + 1
      BY DEF n
    <3>3. QED
      BY <1>2, <3>1, <3>2, FolderBelow
  <2> HIDE DEF n
  <2>2. QED
    BY <2>1 DEF folders
<1> HIDE DEF n
<1>11. IsListing(u, p)
  <2>1. \A r \in Of(u) : r.name \in files \/ r.name \in folders
    BY <1>7
  <2>2. n = Len(p) + 1
    BY DEF n
  <2>3. QED
    BY <1>7, <1>9, <1>10, <2>1, <2>2 DEF IsListing
<1>12. Names(u) = RowsOf(os, n)
  <2>1. Names(u) = {[name |-> r.name, folder |-> r.folder] : r \in Of(u)}
    BY DEF Names, Range, Of
  <2>2. \A r \in Of(u) : r = [name |-> r.name, folder |-> r.folder]
    BY <1>7
  <2>3. Names(u) = Of(u)
    <3> HIDE DEF u
    <3>1. QED
      BY <2>1, <2>2
  <2>4. {[name |-> o, folder |-> TRUE] : o \in folders}
          = {[name |-> SubSeq(o, 1, n), folder |-> TRUE] : o \in {o \in os : Len(o) > n}}
    BY DEF folders
  <2>5. QED
    BY <1>7, <2>3, <2>4 DEF RowsOf, files
<1>13. QED
  BY <1>1, <1>11, <1>12 DEF u, n, os

----------------------------------------------------------------------------
(* The requests have their types.                                          *)

LEMMA CallsAreRequests == CallsOK => Requests
BY DEF CallsOK, IsCall, Requests

LEMMA StillACall ==
  ASSUME NEW c, IsCall(c), NEW d, NEW overtaken, IsNow(d, c, overtaken)
  PROVE  IsCall(d)
BY DEF IsCall, IsNow

LEMMA CallAnswered ==
  ASSUME NEW c, IsCall(c), NEW d, NEW data, IsAnswerTo(d, c, data), Answers(c.op, c.arg, data)
  PROVE  IsCall(d)
BY DEF IsCall, IsAnswerTo

LEMMA CallAt ==
  ASSUME CallsOK, NEW i \in DOMAIN calls
  PROVE  IsCall(calls[i]) /\ calls[i] \in Of(calls)
BY DEF CallsOK, Of

LEMMA CallsSent ==
  ASSUME CallsOK, NEW js, NEW cs, Sequence(cs), \A c \in Of(cs) : IsCall(c),
         calls' = Overtaken(js) \o cs
  PROVE  CallsOK'
<1>1. Requests
  BY CallsAreRequests
<1>2. Sequence(calls')
      /\ \A d \in Of(calls') : d \in Of(cs) \/ \E k \in DOMAIN calls : IsNow(d, calls[k], k \in js)
  BY <1>1, SentOf
<1>3. QED
  BY <1>2, CallAt, StillACall DEF CallsOK

LEMMA CallsFinished ==
  ASSUME CallsOK, NEW i \in DOMAIN calls, NEW js, NEW cs, Sequence(cs),
         \A c \in Of(cs) : IsCall(c), Overtakes(i, js, cs)
  PROVE  CallsOK'
<1>1. Requests
  BY CallsAreRequests
<1>2. /\ Sequence(calls')
      /\ \A d \in Of(calls') :
           d \in Of(cs) \/ \E k \in DOMAIN calls : k # i /\ IsNow(d, calls[k], k \in js)
  BY <1>1, FinishedOf
<1>3. QED
  BY <1>2, CallAt, StillACall DEF CallsOK

LEMMA CallsReplied ==
  ASSUME CallsOK, NEW i \in DOMAIN calls, NEW js, i \notin js, NEW data,
         ReplyOvertakes(i, js, data), Answers(calls[i].op, calls[i].arg, data)
  PROVE  CallsOK'
<1>1. Requests
  BY CallsAreRequests
<1>2. /\ Sequence(calls')
      /\ \A d \in Of(calls') : \/ IsAnswerTo(d, calls[i], data)
                               \/ \E k \in DOMAIN calls : k # i /\ IsNow(d, calls[k], k \in js)
  BY <1>1, RepliedOf
<1>3. \A d \in Of(calls') : IsCall(d)
  BY <1>2, CallAt, StillACall, CallAnswered
<1>4. QED
  BY <1>2, <1>3 DEF CallsOK

\* What the user sends overtakes nothing.
LEMMA UserSent ==
  ASSUME CallsOK, NEW cs, UserSends(cs)
  PROVE  calls' = Overtaken({}) \o cs
BY CallsAreRequests, OvertakenNone DEF UserSends

LEMMA UserActed ==
  ASSUME CallsOK, UserActs
  PROVE  calls' = calls
<1>1. calls \in Seq(Of(calls))
  BY DEF CallsOK, Sequence
<1>2. calls \o <<>> = calls
  BY <1>1, ConcatEmptySeq
<1>3. QED
  BY <1>2 DEF UserActs, UserSends

LEMMA NewCall ==
  ASSUME NEW op, NEW arg, IsArg(op, arg)
  PROVE  LET c == Request(op, arg) IN
           /\ IsCall(c) /\ c.op = op /\ c.arg = arg /\ c.state = "sent" /\ ~c.late
BY NewRequest DEF IsCall

\* Operations whose arguments are of no type.
AnyArgs == {"CreateURLToken", "Retrieve", "StorageInfo", "ServerInfo", "ListAllBucketPolicies",
            "SetBucketPolicy", "BucketDeals"}
LEMMA NewAnyCall ==
  ASSUME NEW op \in AnyArgs, NEW arg
  PROVE  LET c == Request(op, arg) IN
           /\ IsCall(c) /\ c.op = op /\ c.arg = arg /\ c.state = "sent" /\ ~c.late
<1>1. IsArg(op, arg)
  BY DEF AnyArgs, IsArg, PageArg, MenuArg, DealArg, AllOps, PageOps, MenuOps, DealOps, DealApis
<1>2. QED
  BY <1>1, NewCall

LEMMA NewListCall ==
  ASSUME NEW b, IsPath(b), NEW p \in Seq(STRING)
  PROVE  LET c == ListCall(b, p) IN
           /\ IsCall(c) /\ c.op = "ListObjects" /\ c.arg = [bucket |-> b, prefix |-> p]
           /\ c.state = "sent" /\ ~c.late
<1>1. IsArg("ListObjects", [bucket |-> b, prefix |-> p])
  BY DEF IsArg, PageArg, MenuArg, DealArg, AllOps, PageOps, DealOps, DealApis
<1>2. QED
  BY <1>1, NewCall DEF ListCall

\* The list of a bucket.
LEMMA TopCall ==
  ASSUME NEW n
  PROVE  LET c == ListCall(<<n>>, <<>>) IN
           /\ IsCall(c) /\ c.op = "ListObjects" /\ c.arg = [bucket |-> <<n>>, prefix |-> <<>>]
           /\ c.state = "sent" /\ ~c.late
<1> DEFINE b == <<n>>
           p == <<>>
<1>1. IsPath(b) /\ p \in Seq(STRING)
  BY BucketPath, EmptySeq
<1> HIDE DEF b, p
<1>2. LET c == ListCall(b, p) IN
        /\ IsCall(c) /\ c.op = "ListObjects" /\ c.arg = [bucket |-> b, prefix |-> p]
        /\ c.state = "sent" /\ ~c.late
  BY <1>1, NewListCall
<1>3. QED
  BY <1>2 DEF b, p

LEMMA NewBucketsCall ==
  ASSUME NEW b, b = <<>> \/ IsBucketName(b)
  PROVE  LET c == ListBucketsCall(b) IN IsCall(c) /\ c.op = "ListBuckets" /\ c.arg.name = b
<1>1. IsArg("ListBuckets", [name |-> b])
  BY DEF IsArg, PageArg, MenuArg, DealArg, AllOps, PageOps, DealOps, DealApis
<1>2. QED
  BY <1>1, NewCall DEF ListBucketsCall

LEMMA NewMakeCall ==
  ASSUME NEW b \in Buckets, NEW p, NEW old, IsPath(old)
  PROVE  LET c == Request("MakeBucket", [name |-> <<b>>, prefix |-> p, old |-> old])
         IN  IsCall(c) /\ c.op = "MakeBucket"
<1>1. IsArg("MakeBucket", [name |-> <<b>>, prefix |-> p, old |-> old])
  BY DEF IsArg, PageArg, MenuArg, DealArg, AllOps, PageOps, DealOps, DealApis, IsBucketName
<1>2. QED
  BY <1>1, NewCall

LEMMA NewRemoval ==
  ASSUME NEW b, IsPath(b), NEW name \in ObjectName
  PROVE  LET c == Request("RemoveObject", [bucket |-> b, name |-> name])
         IN  IsCall(c) /\ c.op = "RemoveObject" /\ c.state = "sent"
<1>1. IsArg("RemoveObject", [bucket |-> b, name |-> name])
  BY DEF IsArg, PageArg, MenuArg, DealArg, AllOps, PageOps, DealOps, DealApis
<1>2. QED
  BY <1>1, NewCall

LEMMA NewUpload ==
  ASSUME NEW b, NEW size \in Nat, NEW name \in ObjectName
  PROVE  LET c == Request("Upload", [bucket |-> b, size |-> size, loaded |-> 0, name |-> name])
         IN  IsCall(c) /\ c.op = "Upload" /\ c.arg.loaded = 0 /\ c.arg.size = size
<1> DEFINE a == [bucket |-> b, size |-> size, loaded |-> 0, name |-> name]
<1>1. DOMAIN a = {"bucket", "size", "loaded", "name"} /\ a.name = name /\ a.size = size /\ a.loaded = 0
  OBVIOUS
<1> HIDE DEF a
<1>2. IsArg("Upload", a)
  BY <1>1 DEF IsArg, PageArg, MenuArg, DealArg, AllOps, PageOps, DealOps, DealApis
<1>3. QED
  BY <1>1, <1>2, NewCall DEF a

LEMMA NewLinkCall ==
  ASSUME NEW b, NEW name, NEW e
  PROVE  LET a == [bucket |-> b, name |-> name, expiry |-> e]
             c == Request("PresignedGet", a)
         IN  IsCall(c) /\ c.op = "PresignedGet" /\ c.arg = a
<1>1. IsArg("PresignedGet", [bucket |-> b, name |-> name, expiry |-> e])
  BY DEF IsArg, PageArg, MenuArg, DealArg, AllOps, PageOps, DealOps, DealApis
<1>2. QED
  BY <1>1, NewCall

LEMMA NewDeleteCall ==
  ASSUME NEW n
  PROVE  LET c == Request("DeleteBucket", [bucket |-> <<n>>]) IN IsCall(c) /\ c.op = "DeleteBucket"
<1>1. IsArg("DeleteBucket", [bucket |-> <<n>>])
  BY DEF IsArg, PageArg, MenuArg, DealArg, AllOps, PageOps, MenuOps, DealOps, DealApis
<1>2. QED
  BY <1>1, NewCall

LEMMA NewMinersCall ==
  ASSUME NEW d \in Dialogs, NEW location \in Locations, NEW page \in Nat
  PROVE  LET c == MinersCall(d, location, page) IN
           /\ IsCall(c) /\ c.op = "Miners" /\ ~c.late /\ c.arg.dialog = d
           /\ c.arg.location = location /\ c.arg.page = page
<1>1. IsArg("Miners", [dialog |-> d, location |-> location, page |-> page])
  BY DEF IsArg, PageArg, MenuArg, DealArg, AllOps, PageOps, DealOps, DealApis
<1>2. QED
  BY <1>1, NewCall DEF MinersCall

LEMMA NewDealCall ==
  ASSUME NEW d \in Dialogs, NEW api \in DealApis, NEW form,
         api \in {"deal", "deals"} => form.Duration * 30 = form.days * 24 * 60 * 60
  PROVE  LET c == DealCall(d, api, form) IN
           /\ IsCall(c) /\ c.op = api /\ c.arg.dialog = d
           /\ c.arg.adress = PostAdress(d) /\ c.arg.wanted = OpenedFor(d)
           /\ c.arg.calm = Undisturbed(d)
<1> DEFINE a == [dialog |-> d, adress |-> PostAdress(d), wanted |-> OpenedFor(d),
                 calm |-> Undisturbed(d), form |-> form]
<1>1. /\ a.dialog = d /\ a.adress = PostAdress(d) /\ a.wanted = OpenedFor(d)
      /\ a.calm = Undisturbed(d) /\ a.form = form
  OBVIOUS
<1> HIDE DEF a
<1>2. IsArg(api, a)
  BY <1>1 DEF IsArg, PageArg, MenuArg, DealArg, AllOps, DealOps, DealApis
<1>3. DealCall(d, api, form) = Request(api, a)
  BY DEF DealCall, a
<1>4. QED
  BY <1>1, <1>2, <1>3, NewCall

----------------------------------------------------------------------------
(* What a step writes.                                                     *)

\* g is f but for the fields F.
Sets(f, g, F) == DOMAIN g = DOMAIN f /\ \A k \in DOMAIN f \ F : g[k] = f[k]

LEMMA GoesTo ==
  ASSUME IsHome(home), NEW b, NEW p, At(b, p)
  PROVE  /\ Sets(home, home', {"currentBucket", "prefixData"})
         /\ home'.currentBucket = b /\ home'.prefixData = p
         /\ IsPath(b) /\ p \in Seq(STRING) => IsHome(home')
<1>1. /\ DOMAIN home' = HomeFields /\ home'.currentBucket = b /\ home'.prefixData = p
      /\ \A k \in HomeFields \ {"currentBucket", "prefixData"} : home'[k] = home[k]
  BY DEF At, IsHome, HomeFields
<1>2. home'.minioListBuckets = home.minioListBuckets /\ home'.oloaded = home.oloaded
  BY <1>1 DEF HomeFields
<1>3. QED
  BY <1>1, <1>2 DEF IsHome, Sets

LEMMA DrawCloses ==
  ASSUME NEW f, IsFs3(f)
  PROVE  LET g == DrawPlayClose(f) IN
           /\ IsFs3(g) /\ Sets(f, g, {"tableData", "drawIndex", "deleteDialogIndex"})
           /\ SameRows(f.tableData, g.tableData)
           /\ g.drawIndex = 0 /\ g.deleteDialogIndex = <<>>
<1> DEFINE g == DrawPlayClose(f)
<1>1. /\ DOMAIN g = Fs3Fields /\ g.tableData = Unselected(f.tableData)
      /\ g.drawIndex = 0 /\ g.deleteDialogIndex = <<>>
      /\ \A k \in Fs3Fields \ {"tableData", "drawIndex", "deleteDialogIndex"} : g[k] = f[k]
  BY DEF DrawPlayClose, IsFs3, Fs3Fields
<1> HIDE DEF g
<1>2. /\ g.sorted = f.sorted /\ g.currentBucketAll = f.currentBucketAll
      /\ g.prefixName = f.prefixName
  BY <1>1 DEF Fs3Fields
<1>3. SameRows(f.tableData, g.tableData) /\ IsTable(g.tableData)
  BY <1>1, UnselectedRows DEF IsFs3
<1>4. Sequence(g.deleteDialogIndex) /\ Of(g.deleteDialogIndex) \subseteq ObjectName
  BY <1>1, Empty
<1>5. QED
  BY <1>1, <1>2, <1>3, <1>4 DEF IsFs3, Sets, g

LEMMA WatchSees ==
  ASSUME NEW f, IsFs3(f), NEW b
  PROVE  LET g == Watched(f, b) IN
           /\ IsPath(b) => IsFs3(g)
           /\ Sets(f, g, {"currentBucketAll"})
           /\ g.currentBucketAll = IF b = home.currentBucket THEN f.currentBucketAll ELSE b
<1> DEFINE g == Watched(f, b)
<1>1. /\ DOMAIN g = Fs3Fields
      /\ g.currentBucketAll = IF b = home.currentBucket THEN f.currentBucketAll ELSE b
      /\ \A k \in Fs3Fields \ {"currentBucketAll"} : g[k] = f[k]
  BY DEF Watched, IsFs3, Fs3Fields
<1> HIDE DEF g
<1>2. /\ g.sorted = f.sorted /\ g.tableData = f.tableData
      /\ g.prefixName = f.prefixName /\ g.deleteDialogIndex = f.deleteDialogIndex
  BY <1>1 DEF Fs3Fields
<1>3. QED
  BY <1>1, <1>2 DEF IsFs3, Sets, g

LEMMA Disturbing ==
  ASSUME IsShare(share)
  PROVE  /\ IsShare(Disturbed) /\ Sets(share, Disturbed, {"calm"})
         /\ Disturbed.calm <=> share.calm /\ share.mode = "deal"
BY DEF Disturbed, IsShare, Sets, ShareFields

LEMMA Moves ==
  ASSUME IsShare(share), DOMAIN picked = {"names", "at", "calm"}, NEW b, Moved(b)
  PROVE  /\ IsShare(share') /\ Sets(share, share', {"calm"})
         /\ share'.calm => share.calm /\ (b = home.currentBucket \/ share.mode = "deal")
         /\ Sets(picked, picked', {"calm"})
         /\ picked'.calm => picked.calm /\ b = home.currentBucket
<1>1. /\ Sets(picked, picked', {"calm"})
      /\ picked'.calm => picked.calm /\ b = home.currentBucket
  BY DEF Moved, Sets
<1>2. /\ IsShare(share') /\ Sets(share, share', {"calm"})
      /\ share'.calm => share.calm /\ (b = home.currentBucket \/ share.mode = "deal")
  <2>1. CASE b = home.currentBucket
    BY <2>1 DEF Moved, Sets
  <2>2. CASE b # home.currentBucket
    BY <2>2, Disturbing DEF Moved
  <2>3. QED
    BY <2>1, <2>2
<1>3. QED
  BY <1>1, <1>2

\* A click on a bucket at the side.
LEMMA SlideClicks ==
  ASSUME TypeInv, NEW n, SlideClick(<<n>>)
  PROVE  /\ Sets(home, home', {"currentBucket", "prefixData"})
         /\ home'.currentBucket = <<n>> /\ home'.prefixData = <<>> /\ IsHome(home')
         /\ Sets(fs3, fs3', {"tableData", "drawIndex", "deleteDialogIndex",
                             "currentBucketAll", "prefixName"})
         /\ fs3'.currentBucketAll = <<n>> /\ fs3'.prefixName = <<>> /\ IsFs3(fs3')
         /\ SameRows(fs3.tableData, fs3'.tableData)
         /\ fs3'.drawIndex = 0 /\ fs3'.deleteDialogIndex = <<>>
         /\ Sets(share, share', {"calm"}) /\ IsShare(share')
         /\ share'.calm <=> share.calm /\ share.mode = "deal"
         /\ Sets(shown, shown', {"followed", "settled"}) /\ shown'.settled /\ shown'.followed
         /\ picked' = NoPick /\ stored' = stored
<1>1. IsHome(home) /\ IsFs3(fs3) /\ IsShare(share) /\ IsShown(shown)
  BY DEF TypeInv
<1>2. IsPath(<<n>>) /\ <<>> \in Seq(STRING)
  BY BucketPath, EmptySeq
<1>3. /\ Sets(home, home', {"currentBucket", "prefixData"})
      /\ home'.currentBucket = <<n>> /\ home'.prefixData = <<>> /\ IsHome(home')
  BY <1>1, <1>2, GoesTo DEF SlideClick
<1> DEFINE g == DrawPlayClose(fs3)
<1>4. /\ IsFs3(g) /\ Sets(fs3, g, {"tableData", "drawIndex", "deleteDialogIndex"})
      /\ SameRows(fs3.tableData, g.tableData) /\ g.drawIndex = 0 /\ g.deleteDialogIndex = <<>>
  BY <1>1, DrawCloses
<1>5. fs3' = [g EXCEPT !.currentBucketAll = <<n>>, !.prefixName = <<>>]
  BY DEF SlideClick, SlideListClick
<1> HIDE DEF g
<1>6. /\ DOMAIN fs3' = Fs3Fields /\ fs3'.currentBucketAll = <<n>> /\ fs3'.prefixName = <<>>
      /\ \A k \in Fs3Fields \ {"currentBucketAll", "prefixName"} : fs3'[k] = g[k]
  BY <1>4, <1>5 DEF IsFs3, Fs3Fields
<1>7. /\ fs3'.tableData = g.tableData /\ fs3'.sorted = g.sorted /\ fs3'.drawIndex = g.drawIndex
      /\ fs3'.deleteDialogIndex = g.deleteDialogIndex
  BY <1>6 DEF Fs3Fields
<1>8. IsFs3(fs3')
  BY <1>2, <1>4, <1>6, <1>7 DEF IsFs3
<1>9. Sets(fs3, fs3', {"tableData", "drawIndex", "deleteDialogIndex", "currentBucketAll", "prefixName"})
  BY <1>1, <1>4, <1>6 DEF Sets, IsFs3
<1>10. Sets(shown, shown', {"followed", "settled"}) /\ shown'.settled /\ shown'.followed
  BY <1>1 DEF SlideClick, IsShown, ShownFields, Sets
<1>11. share' = Disturbed /\ picked' = NoPick /\ stored' = stored
  BY DEF SlideClick
<1>12. QED
  BY <1>1, <1>3, <1>4, <1>6, <1>7, <1>8, <1>9, <1>10, <1>11, Disturbing

----------------------------------------------------------------------------
(* What a step does to the requests, when those of ops are all it touches. *)

LEMMA SendStep ==
  ASSUME CallsOK, NEW js, NEW cs, Sequence(cs), calls' = Overtaken(js) \o cs, NEW ops,
         js \subseteq Outstanding(ops), \A c \in Of(cs) : IsCall(c) /\ c.op \in ops
  PROVE  CallsOK' /\ Spared(AllOps \ ops)
<1>1. CallsOK'
  BY CallsSent
<1>2. \A k \in DOMAIN calls : k \in js => calls[k].op \notin AllOps \ ops
  BY DEF Outstanding
<1>3. QED
  BY <1>1, <1>2, CallsAreRequests, SparedIfSent

LEMMA UserStep ==
  ASSUME CallsOK, NEW cs, Sequence(cs), UserSends(cs), NEW ops,
         \A c \in Of(cs) : IsCall(c) /\ c.op \in ops
  PROVE  CallsOK' /\ Spared(AllOps \ ops)
<1>1. calls' = Overtaken({}) \o cs
  BY UserSent
<1>2. {} \subseteq Outstanding(ops)
  OBVIOUS
<1>3. QED
  BY <1>1, <1>2, SendStep

\* One request, or two.
LEMMA UserAsks ==
  ASSUME CallsOK, NEW c, IsCall(c), UserSends(<<c>>)
  PROVE  CallsOK' /\ Spared(AllOps \ {c.op})
<1> DEFINE cs == <<c>>
           ops == {c.op}
<1>1. Sequence(cs) /\ \A d \in Of(cs) : IsCall(d) /\ d.op \in ops
  BY Single
<1>2. UserSends(cs)
  OBVIOUS
<1> HIDE DEF cs, ops
<1>3. CallsOK' /\ Spared(AllOps \ ops)
  BY <1>1, <1>2, UserStep
<1>4. QED
  BY <1>3 DEF ops

LEMMA QuietStep ==
  ASSUME CallsOK, calls' = calls \/ UserActs
  PROVE  CallsOK' /\ \A ops : Spared(ops)
<1>1. calls' = calls
  BY UserActed
<1>2. CallsOK'
  BY <1>1 DEF CallsOK
<1>3. QED
  BY <1>1, <1>2, CallsAreRequests, SparedIfUnchanged

LEMMA FinishStep ==
  ASSUME CallsOK, NEW i \in DOMAIN calls, NEW js, NEW cs, Sequence(cs), Overtakes(i, js, cs),
         NEW ops, js \subseteq Outstanding(ops), calls[i].op \in ops,
         \A c \in Of(cs) : IsCall(c) /\ c.op \in ops
  PROVE  CallsOK' /\ Spared(AllOps \ ops)
<1>1. CallsOK'
  BY CallsFinished
<1>2. \A k \in DOMAIN calls : k \in js => calls[k].op \notin AllOps \ ops
  BY DEF Outstanding
<1>3. QED
  BY <1>1, <1>2, CallsAreRequests, SparedIfFinished

LEMMA DoneStep ==
  ASSUME CallsOK, NEW i \in DOMAIN calls, NEW cs, Sequence(cs), Done(i, cs), NEW ops,
         calls[i].op \in ops, \A c \in Of(cs) : IsCall(c) /\ c.op \in ops
  PROVE  CallsOK' /\ Spared(AllOps \ ops)
<1>1. Overtakes(i, {}, cs)
  BY CallsAreRequests, DoneOvertakes
<1>2. {} \subseteq Outstanding(ops)
  OBVIOUS
<1>3. QED
  BY <1>1, <1>2, FinishStep

\* Nothing more is asked.
LEMMA LastStep ==
  ASSUME CallsOK, NEW i \in DOMAIN calls,
         Done(i, <<>>) \/ Overtakes(i, Earlier(i), <<>>)
  PROVE  CallsOK' /\ Spared(AllOps \ {calls[i].op})
<1>1. Earlier(i) \subseteq Outstanding({calls[i].op})
  BY DEF Earlier
<1>2. Sequence(<<>>) /\ \A c \in Of(<<>>) : FALSE
  BY Empty
<1>3. QED
  BY <1>1, <1>2, FinishStep, DoneStep

LEMMA ReplyStep ==
  ASSUME CallsOK, NEW i \in DOMAIN calls, NEW js, NEW data, ReplyOvertakes(i, js, data),
         calls[i].state = "sent", \A k \in js : k \in DOMAIN calls /\ calls[k].state = "answered",
         Answers(calls[i].op, calls[i].arg, data), NEW ops, js \subseteq Outstanding(ops),
         calls[i].op \in ops
  PROVE  CallsOK' /\ Spared(AllOps \ ops) /\ i \notin js
<1>1. i \notin js
  BY DEF Outstanding
<1>2. CallsOK'
  BY <1>1, CallsReplied
<1>3. \A k \in DOMAIN calls : k \in js => calls[k].op \notin AllOps \ ops
  BY DEF Outstanding
<1>4. QED
  BY <1>1, <1>2, <1>3, CallsAreRequests, SparedIfReplied

LEMMA AnswerStep ==
  ASSUME CallsOK, NEW i \in DOMAIN calls, NEW data, Reply(i, data),
         calls[i].state = "sent", Answers(calls[i].op, calls[i].arg, data)
  PROVE  CallsOK' /\ Spared(AllOps \ {calls[i].op})
<1>1. ReplyOvertakes(i, {}, data)
  BY CallsAreRequests, ReplyOvertakesNone
<1> DEFINE ops == {calls[i].op}
           js == {}
<1>2. ReplyOvertakes(i, js, data) /\ js \subseteq Outstanding(ops) /\ calls[i].op \in ops
      /\ \A k \in js : k \in DOMAIN calls /\ calls[k].state = "answered"
  BY <1>1
<1> HIDE DEF ops, js
<1>3. CallsOK' /\ Spared(AllOps \ ops)
  BY <1>2, ReplyStep
<1>4. QED
  BY <1>3 DEF ops

----------------------------------------------------------------------------
(* The user at the page.                                                   *)

\* What a handler of the page leaves alone.
Aside == UNCHANGED <<menuVars, deal>>

\* Of what the page keeps, a step writes no fields but H of home, F of fs3, S of
\* share and N of shown; it has to do with requests of the operations ops only.
Touches(H, F, S, N, ops) ==
    /\ Sets(home, home', H) /\ Sets(fs3, fs3', F) /\ Sets(share, share', S)
    /\ Sets(shown, shown', N) /\ Spared(AllOps \ ops)
\* The menu and the dialogs at the side.
SideOf(o) == o \cap {"menu", "policy", "retrieval", "homeshare"}

LEMMA SeenRows ==
  ASSUME IsFs3(fs3), NEW i \in DOMAIN fs3.tableData
  PROVE  /\ SeenRow(i) \in Of(fs3.tableData) /\ SeenRow(i).name \in ObjectName
         /\ fs3.tableData[i] \in Of(fs3.tableData) /\ fs3.tableData[i].name \in ObjectName
         /\ ~fs3.sorted => SeenRow(i) = fs3.tableData[i]
<1> DEFINE t == fs3.tableData
           n == Len(t)
<1>1. Sequence(t) /\ \A r \in Of(t) : r.name \in ObjectName
  BY DEF IsFs3, IsTable
<1>2. n \in Nat /\ DOMAIN t = 1..n
  BY <1>1, Indices
<1> HIDE DEF n
<1>3. i \in 1..n /\ n + 1 - i \in 1..n
  BY <1>2
<1>4. t[i] \in Of(t) /\ t[n + 1 - i] \in Of(t)
  BY <1>2, <1>3 DEF Of
<1>5. QED
  BY <1>1, <1>4 DEF SeenRow, n

\* Something opens or closes, or a download begins.
Pauses == CreateHomeBuck \/ GetDialogClose \/ DeleteSelected \/ CancelDelete \/ DownloadFun
LEMMA PauseStep ==
  ASSUME TypeInv, Pauses, Aside
  PROVE  /\ TypeInv' /\ UNCHANGED <<stored, home, fs3, share, shown, picked>>
         /\ SideOf(open') \subseteq SideOf(open) /\ Touches({}, {}, {}, {}, {"CreateURLToken"})
<1>1. UNCHANGED <<stored, home, fs3, share, shown, picked>> /\ SideOf(open') \subseteq SideOf(open)
  BY DEF Pauses, CreateHomeBuck, GetDialogClose, DeleteSelected, CancelDelete, DownloadFun,
         SideOf, pageVars
<1>2. CallsOK
  BY DEF TypeInv
<1>3. CallsOK' /\ Spared(AllOps \ {"CreateURLToken"})
  <2>1. CASE DownloadFun
    <3> DEFINE c == Request("CreateURLToken", Nothing)
    <3>1. IsCall(c) /\ c.op = "CreateURLToken"
      BY NewAnyCall DEF AnyArgs
    <3>2. UserSends(<<c>>)
      BY <2>1 DEF DownloadFun
    <3> HIDE DEF c
    <3>3. QED
      BY <1>2, <3>1, <3>2, UserAsks
  <2>2. CASE CreateHomeBuck \/ GetDialogClose \/ DeleteSelected \/ CancelDelete
    <3>1. calls' = calls \/ UserActs
      BY <2>2 DEF CreateHomeBuck, GetDialogClose, DeleteSelected, CancelDelete
    <3>2. QED
      BY <1>2, <3>1, QuietStep
  <2>3. QED
    BY <2>1, <2>2 DEF Pauses
<1>4. QED
  BY <1>1, <1>3 DEF TypeInv, Aside, menuVars, Touches, Sets

\* The user goes to a bucket at the side.
ToTop(ops) == Touches({"currentBucket", "prefixData"},
                      {"tableData", "drawIndex", "deleteDialogIndex", "currentBucketAll", "prefixName"},
                      {"calm"}, {"followed", "settled"}, ops)
LEMMA SlideTypes ==
  ASSUME TypeInv, NEW n, SlideClick(<<n>>), CallsOK', IsSlide(slide'), UNCHANGED <<policies, deal>>,
         NEW ops, Spared(AllOps \ ops)
  PROVE  TypeInv' /\ ToTop(ops)
<1>1. /\ IsHome(home') /\ IsFs3(fs3') /\ IsShare(share') /\ Sets(shown, shown', {"followed", "settled"})
      /\ picked' = NoPick /\ stored' = stored
      /\ Sets(home, home', {"currentBucket", "prefixData"}) /\ Sets(share, share', {"calm"})
      /\ Sets(fs3, fs3', {"tableData", "drawIndex", "deleteDialogIndex",
                          "currentBucketAll", "prefixName"})
  BY SlideClicks
<1>2. IsShown(shown')
  BY <1>1 DEF TypeInv, IsShown, Sets
<1>3. DOMAIN picked' = {"names", "at", "calm"}
  BY <1>1 DEF NoPick
<1>4. QED
  BY <1>1, <1>2, <1>3 DEF TypeInv, ToTop, Touches

LEMMA GetListBucketStep ==
  ASSUME TypeInv, NEW b, GetListBucket(b), Aside
  PROVE  TypeInv' /\ ToTop({"ListObjects"}) /\ UNCHANGED open
<1> DEFINE c == ListCall(<<b>>, <<>>)
           ops == {"ListObjects"}
<1>1. IsCall(c) /\ c.op = "ListObjects"
  BY TopCall
<1>2. UserSends(<<c>>) /\ SlideClick(<<b>>) /\ UNCHANGED open
  BY DEF GetListBucket
<1> HIDE DEF c
<1>3. CallsOK' /\ Spared(AllOps \ ops)
  BY <1>1, <1>2, UserAsks DEF TypeInv
<1>4. IsSlide(slide') /\ UNCHANGED <<policies, deal>>
  BY DEF TypeInv, Aside, menuVars
<1> HIDE DEF ops
<1>5. TypeInv' /\ ToTop(ops)
  BY <1>2, <1>3, <1>4, SlideTypes
<1>6. QED
  BY <1>2, <1>5 DEF ops

\* The user goes to a path in the current bucket.
GoesWithin(path) ==
    /\ IsPath(path) /\ path # <<>> /\ home.currentBucket # <<>>
    /\ fs3' = [fs3 EXCEPT !.currentBucketAll = path, !.prefixName = Tail(path)]
    /\ At(home.currentBucket, Tail(path))
    /\ UserSends(<<ListCall(home.currentBucket, Tail(path))>>)
    /\ \/ <<path[1]>> = home.currentBucket
       \/ fs3.currentBucketAll # <<>> => path[1] = fs3.currentBucketAll[1]
    /\ UNCHANGED <<stored, share, open, shown, picked>>

LEMMA GoesWithinStep ==
  ASSUME TypeInv, NEW path, GoesWithin(path), Aside
  PROVE  /\ TypeInv'
         /\ Touches({"prefixData"}, {"currentBucketAll", "prefixName"}, {}, {}, {"ListObjects"})
         /\ home'.prefixData = Tail(path)
         /\ fs3'.currentBucketAll = path /\ fs3'.prefixName = Tail(path)
<1> DEFINE prefix == Tail(path)
           c == ListCall(home.currentBucket, prefix)
<1>1. IsHome(home) /\ IsFs3(fs3) /\ IsPath(home.currentBucket) /\ CallsOK
  BY DEF TypeInv, IsHome
<1>2. IsPath(path) /\ path # <<>> /\ prefix \in Seq(STRING)
  BY DEF GoesWithin, IsPath
<1>3. /\ Sets(home, home', {"currentBucket", "prefixData"})
      /\ home'.currentBucket = home.currentBucket /\ home'.prefixData = prefix /\ IsHome(home')
  BY <1>1, <1>2, GoesTo DEF GoesWithin
<1>4. Sets(home, home', {"prefixData"})
  BY <1>3 DEF Sets
<1>5. IsCall(c) /\ c.op = "ListObjects"
  BY <1>1, <1>2, NewListCall
<1>6. UserSends(<<c>>)
  BY DEF GoesWithin
<1>7. fs3' = [fs3 EXCEPT !.currentBucketAll = path, !.prefixName = prefix]
  BY DEF GoesWithin
<1> HIDE DEF c, prefix
<1>8. CallsOK' /\ Spared(AllOps \ {"ListObjects"})
  BY <1>1, <1>5, <1>6, UserAsks
<1>9. /\ DOMAIN fs3' = Fs3Fields /\ fs3'.currentBucketAll = path /\ fs3'.prefixName = prefix
      /\ \A k \in Fs3Fields \ {"currentBucketAll", "prefixName"} : fs3'[k] = fs3[k]
  BY <1>1, <1>7 DEF IsFs3, Fs3Fields
<1>10. /\ fs3'.tableData = fs3.tableData /\ fs3'.sorted = fs3.sorted
       /\ fs3'.deleteDialogIndex = fs3.deleteDialogIndex
  BY <1>9 DEF Fs3Fields
<1>11. IsFs3(fs3') /\ Sets(fs3, fs3', {"currentBucketAll", "prefixName"})
  BY <1>1, <1>2, <1>9, <1>10 DEF IsFs3, Sets
<1>12. UNCHANGED <<stored, share, shown, picked>>
  BY DEF GoesWithin
<1>13. TypeInv'
  BY <1>3, <1>8, <1>11, <1>12 DEF TypeInv, Aside, menuVars
<1>14. QED
  BY <1>3, <1>4, <1>8, <1>9, <1>11, <1>12, <1>13 DEF prefix, Touches, Sets

\* The parts of the path in the header, folders, and paths that are typed.
LEMMA HeaderWalks ==
  ASSUME TypeInv, NEW n, BuckerAdress(n)
  PROVE  \E path : GoesWithin(path)
<1> DEFINE p == fs3.currentBucketAll
           path == SubSeq(p, 1, n)
<1>1. IsPath(p) /\ n \in DOMAIN p
  BY DEF TypeInv, IsFs3, BuckerAdress
<1>2. IsPath(path) /\ path # <<>> /\ Tail(path) = SubSeq(p, 2, n) /\ path[1] = p[1]
  BY <1>1, PathCut
<1>3. GoesWithin(path)
  <2> HIDE DEF path
  <2>1. /\ fs3' = [fs3 EXCEPT !.currentBucketAll = path, !.prefixName = Tail(path)]
        /\ At(home.currentBucket, Tail(path))
        /\ UserSends(<<ListCall(home.currentBucket, Tail(path))>>)
        /\ home.currentBucket # <<>> /\ UNCHANGED <<stored, share, open, shown, picked>>
    <3>1. SubSeq(fs3.currentBucketAll, 1, n) = path /\ SubSeq(fs3.currentBucketAll, 2, n) = Tail(path)
      BY <1>2 DEF path
    <3>2. QED
      BY <3>1 DEF BuckerAdress
  <2>2. QED
    BY <1>2, <2>1 DEF GoesWithin
<1>4. QED
  BY <1>3

LEMMA FolderWalks ==
  ASSUME TypeInv, NEW i \in DOMAIN fs3.tableData, CurListFolder(i)
  PROVE  \E path : GoesWithin(path)
<1> DEFINE row == SeenRow(i)
           n == Len(fs3.prefixName)
           below == IF n < Len(row.name) /\ IsPrefix(fs3.prefixName, row.name)
                      THEN SubSeq(row.name, n + 1, Len(row.name)) ELSE row.name
           p == fs3.currentBucketAll
           path == p \o below
<1>1. IsFs3(fs3) /\ IsPath(p) /\ n \in Nat
  <2>1. IsFs3(fs3)
    BY DEF TypeInv
  <2>2. IsPath(p) /\ fs3.prefixName \in Seq(STRING)
    BY <2>1 DEF IsFs3
  <2>3. QED
    BY <2>1, <2>2
<1>2. row.name \in ObjectName
  BY <1>1, SeenRows
<1> HIDE DEF row, n
<1>3. below \in Seq(STRING) /\ below # <<>>
  <2> DEFINE name == row.name
             l == Len(name)
             rest == SubSeq(name, n + 1, l)
  <2>1. name \in Seq(STRING) /\ name # <<>> /\ l \in Nat
    BY <1>2 DEF ObjectName
  <2>2. ASSUME n < l PROVE rest \in Seq(STRING) /\ rest # <<>>
    <3>1. \A j \in (n + 1)..l : name[j] \in STRING
      BY <1>1, <2>1, ElementOfSeq
    <3> HIDE DEF name, l
    <3>2. n + 1 \in Int /\ l \in Int /\ n + 1 <= l
      BY <1>1, <2>1, <2>2
    <3>3. rest \in Seq(STRING) /\ Len(rest) = l - (n + 1) + 1
      <4> DEFINE m == n + 1
      <4> HIDE DEF m
      <4>1. SubSeq(name, m, l) \in Seq(STRING)
            /\ Len(SubSeq(name, m, l)) = IF m <= l THEN l - m + 1 ELSE 0
        <5>1. m \in Int /\ l \in Int /\ \A j \in m..l : name[j] \in STRING
          BY <3>1, <3>2 DEF m
        <5>2. QED
          BY <5>1, SubSeqProperties
      <4>2. m <= l
        BY <3>2 DEF m
      <4>3. QED
        BY <4>1, <4>2 DEF m
    <3> HIDE DEF rest
    <3>4. Len(rest) # 0
      BY <1>1, <2>1, <2>2, <3>3
    <3>5. QED
      BY <3>3, <3>4, EmptySeq
  <2>3. QED
    BY <2>1, <2>2
<1> HIDE DEF below
<1>4. IsPath(path) /\ path # <<>> /\ (p # <<>> => path[1] = p[1])
  BY <1>1, <1>3, PathBelow
<1>5. /\ fs3' = [fs3 EXCEPT !.currentBucketAll = path, !.prefixName = Tail(path)]
      /\ At(home.currentBucket, Tail(path))
      /\ UserSends(<<ListCall(home.currentBucket, Tail(path))>>)
      /\ home.currentBucket # <<>> /\ UNCHANGED <<stored, share, open, shown, picked>>
  BY DEF CurListFolder, below, row, n
<1> HIDE DEF path
<1>6. GoesWithin(path)
  BY <1>4, <1>5 DEF GoesWithin
<1>7. QED
  BY <1>6

LEMMA TypedPaths ==
  ASSUME NEW p \in Paths
  PROVE  IsPath(p) /\ p # <<>> /\ p[1] \in Buckets /\ Tail(p) \in Seq(STRING)
<1> DEFINE b == <<p[1]>>
           s == Tail(p)
<1>1. p[1] \in Buckets /\ s \in Seq(STRING) /\ p = b \o s
  BY NameBounds
<1>2. IsPath(b) /\ b # <<>>
  BY BucketPath
<1> HIDE DEF b
<1>3. IsPath(b \o s) /\ b \o s # <<>>
  BY <1>1, <1>2, PathBelow
<1>4. QED
  BY <1>1, <1>3

LEMMA EditWalks ==
  ASSUME TypeInv, NEW p \in Paths, EditPath(p), <<p[1]>> = home.currentBucket
  PROVE  GoesWithin(p)
<1>1. IsPath(p) /\ p # <<>>
  BY TypedPaths
<1>2. home.currentBucket # <<>>
  BY BucketPath
<1>3. QED
  BY <1>1, <1>2 DEF EditPath, GoesWithin

\* Another bucket is typed over the path.
EditAway(p) == EditPath(p) /\ <<p[1]>> # home.currentBucket
LEMMA EditAwayStep ==
  ASSUME TypeInv, NEW p \in Paths, EditAway(p), Aside
  PROVE  /\ TypeInv' /\ UNCHANGED <<stored, home, open>>
         /\ Touches({}, {"currentBucketAll", "prefixName"}, {"calm"}, {"followed"}, {"MakeBucket"})
         /\ ~shown'.followed
         /\ share'.calm => share.calm /\ share.mode = "deal"
         /\ Sets(picked, picked', {"calm"}) /\ ~picked'.calm
<1> DEFINE c == Request("MakeBucket", [name |-> <<p[1]>>, prefix |-> Tail(p), old |-> editFun])
           b == <<p[1]>>
<1>1. /\ IsFs3(fs3) /\ IsShare(share) /\ IsShown(shown) /\ CallsOK
      /\ DOMAIN picked = {"names", "at", "calm"} /\ IsPath(editFun)
  BY DEF TypeInv, IsFs3, editFun
<1>2. IsPath(p) /\ p[1] \in Buckets /\ Tail(p) \in Seq(STRING)
  BY TypedPaths
<1>3. IsCall(c) /\ c.op = "MakeBucket"
  BY <1>1, <1>2, NewMakeCall
<1>4. UserSends(<<c>>)
  BY DEF EditAway, EditPath
<1> HIDE DEF c
<1>5. CallsOK' /\ Spared(AllOps \ {"MakeBucket"})
  BY <1>1, <1>3, <1>4, UserAsks
<1>6. Moved(b) /\ b # home.currentBucket /\ UNCHANGED <<stored, home, open>>
  BY DEF EditAway, EditPath
<1> HIDE DEF b
<1>7. /\ IsShare(share') /\ Sets(share, share', {"calm"})
      /\ share'.calm => share.calm /\ share.mode = "deal"
      /\ Sets(picked, picked', {"calm"}) /\ ~picked'.calm
  BY <1>1, <1>6, Moves
<1>8. Sets(shown, shown', {"followed"}) /\ ~shown'.followed /\ IsShown(shown')
  BY <1>1 DEF EditAway, EditPath, IsShown, ShownFields, Sets
<1>9. /\ DOMAIN fs3' = Fs3Fields /\ fs3'.currentBucketAll = p /\ fs3'.prefixName = Tail(p)
      /\ \A k \in Fs3Fields \ {"currentBucketAll", "prefixName"} : fs3'[k] = fs3[k]
  BY <1>1 DEF EditAway, EditPath, IsFs3, Fs3Fields
<1>10. /\ fs3'.tableData = fs3.tableData /\ fs3'.sorted = fs3.sorted
       /\ fs3'.deleteDialogIndex = fs3.deleteDialogIndex
  BY <1>9 DEF Fs3Fields
<1>11. IsFs3(fs3') /\ Sets(fs3, fs3', {"currentBucketAll", "prefixName"})
  BY <1>1, <1>2, <1>9, <1>10 DEF IsFs3, Sets
<1>12. DOMAIN picked' = {"names", "at", "calm"}
  BY <1>1, <1>7 DEF Sets
<1>13. TypeInv'
  BY <1>5, <1>6, <1>7, <1>8, <1>11, <1>12 DEF TypeInv, Aside, menuVars
<1>14. QED
  BY <1>5, <1>6, <1>7, <1>8, <1>11, <1>13 DEF Touches, Sets

\* What was selected is not, any more.
Unselects == (\E b \in Buckets : GetServer(b)) \/ CloseDrawer \/ DeleteListFun
Selection == {"tableData", "drawIndex", "deleteDialogIndex"}
LEMMA UnselectStep ==
  ASSUME TypeInv, Unselects, Aside
  PROVE  /\ TypeInv' /\ UNCHANGED <<stored, home, share, shown>>
         /\ SideOf(open') \subseteq SideOf(open)
         /\ Touches({}, Selection, {}, {}, {"MakeBucket", "RemoveObject"})
         /\ fs3' = DrawPlayClose(fs3) /\ picked' = NoPick
         /\ \A c \in Of(calls') : c.op = "RemoveObject" => c \in Of(calls) \/ c.state = "sent"
         /\ Of(calls) \subseteq Of(calls')
<1> DEFINE ops == {"MakeBucket", "RemoveObject"}
           name(k) == fs3.deleteDialogIndex[k]
           b == home.currentBucket
           g == [k \in DOMAIN fs3.deleteDialogIndex |->
                   Request("RemoveObject", [bucket |-> b, name |-> name(k)])]
<1>1. /\ fs3' = DrawPlayClose(fs3) /\ picked' = NoPick /\ UNCHANGED <<stored, home, share, shown>>
      /\ SideOf(open') \subseteq SideOf(open)
  BY DEF Unselects, GetServer, CloseDrawer, DeleteListFun, SideOf
<1>2. IsFs3(fs3) /\ CallsOK /\ IsPath(b)
  BY DEF TypeInv, IsHome
<1>3. \/ calls' = calls
      \/ \E cs : /\ Sequence(cs) /\ UserSends(cs)
                 /\ \A c \in Of(cs) : IsCall(c) /\ c.op \in ops /\ c.state = "sent"
  <2>1. CASE \E n \in Buckets : GetServer(n)
    <3>1. PICK n \in Buckets : GetServer(n)
      BY <2>1
    <3> DEFINE c == Request("MakeBucket", [name |-> <<n>>, prefix |-> <<>>, old |-> <<>>])
               cs == <<c>>
    <3>2. IsCall(c) /\ c.op = "MakeBucket" /\ c.state = "sent"
      BY NoPath, NewMakeCall DEF Request
    <3>3. UserSends(cs)
      BY <3>1 DEF GetServer
    <3>4. Sequence(cs) /\ \A d \in Of(cs) : d = c
      BY Single
    <3> HIDE DEF c, cs
    <3>5. QED
      BY <3>2, <3>3, <3>4
  <2>2. CASE CloseDrawer
    BY <2>2 DEF CloseDrawer
  <2>3. CASE DeleteListFun
    <3>1. UserSends(g)
      BY <2>3 DEF DeleteListFun
    <3> DEFINE ns == fs3.deleteDialogIndex
    <3>2. Sequence(ns) /\ \A k \in DOMAIN ns : name(k) \in ObjectName
      BY <1>2 DEF IsFs3, Of
    <3>3. Len(ns) \in Nat /\ DOMAIN ns = 1..Len(ns)
      BY <3>2, Indices
    <3>4. \A k \in DOMAIN ns : IsCall(g[k]) /\ g[k].op = "RemoveObject" /\ g[k].state = "sent"
      <4> HIDE DEF b
      <4>1. ASSUME NEW k \in DOMAIN ns
            PROVE  IsCall(g[k]) /\ g[k].op = "RemoveObject" /\ g[k].state = "sent"
        <5>1. g[k] = Request("RemoveObject", [bucket |-> b, name |-> name(k)])
          OBVIOUS
        <5> HIDE DEF name, g
        <5>2. QED
          BY <1>2, <3>2, <5>1, NewRemoval
      <4>2. QED
        BY <4>1
    <3>5. g = [k \in 1..Len(ns) |-> g[k]] /\ DOMAIN g = DOMAIN ns
      BY <3>3
    <3> HIDE DEF g, ns
    <3>6. Sequence(g) /\ \A c \in Of(g) : \E k \in DOMAIN ns : c = g[k]
      BY <3>3, <3>5, Numbered DEF Of
    <3>7. QED
      BY <3>1, <3>4, <3>6
  <2>4. QED
    BY <2>1, <2>2, <2>3 DEF Unselects
<1> HIDE DEF g, name
<1>4. /\ CallsOK' /\ Spared(AllOps \ ops) /\ Of(calls) \subseteq Of(calls')
      /\ \A c \in Of(calls') : c.op = "RemoveObject" => c \in Of(calls) \/ c.state = "sent"
  <2>1. CASE calls' = calls
    BY <1>2, <2>1, QuietStep
  <2>2. CASE calls' # calls
    <3>1. PICK cs : /\ Sequence(cs) /\ UserSends(cs)
                    /\ \A c \in Of(cs) : IsCall(c) /\ c.op \in ops /\ c.state = "sent"
      BY <1>3, <2>2
    <3> HIDE DEF ops
    <3>2. CallsOK' /\ Spared(AllOps \ ops)
      BY <1>2, <3>1, UserStep
    <3>3. Of(calls') = Of(calls) \cup Of(cs)
      BY <1>2, <3>1, Joined DEF CallsOK, UserSends
    <3>4. QED
      BY <3>1, <3>2, <3>3
  <2>3. QED
    BY <2>1, <2>2
<1>5. IsFs3(fs3') /\ Sets(fs3, fs3', Selection)
  BY <1>1, <1>2, DrawCloses DEF Selection
<1>6. DOMAIN picked' = {"names", "at", "calm"}
  BY <1>1 DEF NoPick
<1>7. TypeInv'
  BY <1>1, <1>4, <1>5, <1>6 DEF TypeInv, Aside, menuVars
<1>8. QED
  BY <1>1, <1>4, <1>5, <1>7 DEF Touches, Sets

\* All that is picked out of a sequence.
LEMMA OnlyAll ==
  ASSUME NEW s, Sequence(s), NEW is
  PROVE  /\ Sequence(Only(s, is))
         /\ Of(Only(s, is)) = {s[i] : i \in {i \in DOMAIN s : i \in is}}
<1>1. s \in Seq(Of(s)) /\ DOMAIN s = 1..Len(s)
  BY DEF Sequence
<1> DEFINE r == Only(s, is)
<1>2. r \in Seq(Of(s)) /\ \E g : Picks(r, s, is, g)
  BY <1>1, OnlyPicks
<1> HIDE DEF r
<1>3. PICK g : Picks(r, s, is, g)
  BY <1>2
<1>4. DOMAIN r = 1..Len(r)
  BY <1>2
<1>5. \A k \in 1..Len(r) : r[k] = s[g[k]] /\ g[k] \in DOMAIN s /\ g[k] \in is
  BY <1>1, <1>3 DEF Picks
<1>6. \A i \in DOMAIN s : i \in is => \E k \in 1..Len(r) : r[k] = s[i]
  <2>1. \A i \in 1..Len(s) : i \in is => \E k \in 1..Len(r) : g[k] = i
    BY <1>3 DEF Picks
  <2>2. QED
    BY <1>1, <1>5, <2>1
<1>7. Of(r) = {s[i] : i \in {i \in DOMAIN s : i \in is}}
  BY <1>4, <1>5, <1>6 DEF Of
<1>8. QED
  BY <1>2, <1>7, InSeq DEF r

\* A row is selected, or not any more.
LEMMA DrawPlayStep ==
  ASSUME TypeInv, NEW i \in DOMAIN fs3.tableData, DrawPlay(i), Aside
  PROVE  /\ TypeInv' /\ UNCHANGED <<stored, home, share, open, shown>>
         /\ Touches({}, Selection, {}, {}, {}) /\ SameRows(fs3.tableData, fs3'.tableData)
         /\ fs3'.drawIndex = Len(fs3'.deleteDialogIndex)
         /\ picked'.calm => SameBucket /\ picked'.at = shown.bucket
         /\ picked'.calm /\ ~fs3.sorted => picked'.names = Of(fs3'.deleteDialogIndex)
<1> DEFINE t == fs3.tableData
           e == [t[i] EXCEPT !.drawShow = ~@]
           rows == [t EXCEPT ![i].drawShow = ~@]
           js == {j \in DOMAIN rows : ~rows[j].drawShow}
           chosen == Only(rows, js)
           names == [j \in DOMAIN chosen |-> chosen[j].name]
<1>1. IsFs3(fs3) /\ IsTable(t) /\ Sequence(t) /\ CallsOK /\ t[i] \in Of(t)
  BY DEF TypeInv, IsFs3, IsTable, Of
<1>2. SameRows(t, rows) /\ DOMAIN rows = DOMAIN t /\ IsTable(rows) /\ Sequence(rows)
  <2>1. DOMAIN t[i] = {"name", "folder", "drawShow"}
    BY <1>1 DEF IsTable
  <2>2. e.name = t[i].name /\ e.folder = t[i].folder /\ DOMAIN e = {"name", "folder", "drawShow"}
    BY <2>1
  <2>3. rows = [t EXCEPT ![i] = e]
    BY <1>1 DEF Sequence
  <2> HIDE DEF e, rows
  <2>4. /\ Sequence(rows) /\ Len(rows) = Len(t) /\ DOMAIN rows = DOMAIN t
        /\ \A k \in DOMAIN t : rows[k] = IF k = i THEN e ELSE t[k]
    <3> DEFINE u == [t EXCEPT ![i] = e]
    <3>1. /\ Sequence(u) /\ Len(u) = Len(t) /\ DOMAIN u = DOMAIN t
          /\ \A k \in DOMAIN t : u[k] = IF k = i THEN e ELSE t[k]
      <4> HIDE DEF t
      <4>1. QED
        BY <1>1, Replaced DEF t
    <3>2. QED
      BY <2>3, <3>1
  <2>5. \A k \in DOMAIN t : DOMAIN t[k] = {"name", "folder", "drawShow"}
    BY <1>1 DEF IsTable, Of
  <2>6. SameRows(t, rows)
    BY <2>2, <2>4, <2>5 DEF SameRows
  <2>7. QED
    BY <1>1, <2>4, <2>6, SameNames DEF IsTable
<1>3. /\ open = {} /\ UNCHANGED <<stored, home, share, open, shown>> /\ UserActs
      /\ fs3' = [fs3 EXCEPT !.tableData = rows, !.drawIndex = Len(names),
                            !.deleteDialogIndex = names]
      /\ picked' = IF names = <<>> THEN NoPick ELSE
                     [names |-> {SeenRow(j).name : j \in js},
                      at |-> shown.bucket, calm |-> SameBucket]
  BY DEF DrawPlay
<1> HIDE DEF t, rows
<1>4. Sequence(chosen) /\ Of(chosen) = {rows[j] : j \in js}
  <2>1. {rows[j] : j \in {j \in DOMAIN rows : j \in js}} = {rows[j] : j \in js}
    OBVIOUS
  <2> HIDE DEF js
  <2>2. QED
    BY <1>2, <2>1, OnlyAll
<1> HIDE DEF chosen
<1>5. Sequence(names) /\ Of(names) = {r.name : r \in Of(chosen)}
  <2>1. Len(chosen) \in Nat /\ DOMAIN chosen = 1..Len(chosen)
    BY <1>4, Indices
  <2>2. names = [k \in 1..Len(chosen) |-> names[k]]
    BY <2>1
  <2>3. Of(names) = {r.name : r \in Of(chosen)}
    BY DEF Of
  <2> HIDE DEF names
  <2>4. QED
    BY <2>1, <2>2, <2>3, Numbered
<1>6. Of(names) = {rows[j].name : j \in js}
  BY <1>4, <1>5
<1>7. \A j \in js : rows[j].name = t[j].name /\ t[j] \in Of(t)
  BY <1>2 DEF SameRows, Of
<1> HIDE DEF names, js
<1>8. Of(names) \subseteq ObjectName
  BY <1>1, <1>6, <1>7 DEF IsTable
<1>9. /\ DOMAIN fs3' = Fs3Fields /\ fs3'.tableData = rows /\ fs3'.drawIndex = Len(names)
      /\ fs3'.deleteDialogIndex = names
      /\ \A k \in Fs3Fields \ Selection : fs3'[k] = fs3[k]
  BY <1>1, <1>3 DEF IsFs3, Fs3Fields, Selection
<1>10. /\ fs3'.sorted = fs3.sorted /\ fs3'.currentBucketAll = fs3.currentBucketAll
       /\ fs3'.prefixName = fs3.prefixName
  BY <1>9 DEF Fs3Fields, Selection
<1>11. IsFs3(fs3') /\ Sets(fs3, fs3', Selection)
  BY <1>1, <1>2, <1>5, <1>8, <1>9, <1>10 DEF IsFs3, Sets
<1>12. /\ DOMAIN picked' = {"names", "at", "calm"}
       /\ picked'.calm => /\ picked'.names = {SeenRow(j).name : j \in js}
                          /\ SameBucket /\ picked'.at = shown.bucket
  BY <1>3 DEF NoPick
<1>13. ~fs3.sorted => \A j \in js : SeenRow(j).name = rows[j].name
  BY <1>7 DEF SeenRow, t
<1>14. CallsOK' /\ \A ops : Spared(ops)
  BY <1>1, <1>3, QuietStep
<1>15. TypeInv'
  BY <1>3, <1>11, <1>12, <1>14 DEF TypeInv, Aside, menuVars
<1>16. Touches({}, Selection, {}, {}, {})
  BY <1>3, <1>11, <1>14 DEF Touches, Sets
<1>17. ASSUME picked'.calm, ~fs3.sorted PROVE picked'.names = Of(fs3'.deleteDialogIndex)
  <2>1. \A j \in js : SeenRow(j).name = rows[j].name
    BY <1>13, <1>17
  <2>2. {SeenRow(j).name : j \in js} = {rows[j].name : j \in js}
    BY <2>1
  <2>3. QED
    BY <1>6, <1>9, <1>12, <1>17, <2>2
<1>18. QED
  BY <1>2, <1>3, <1>9, <1>12, <1>15, <1>16, <1>17 DEF t

\* "Delete Object" of a row.
LEMMA DeleteBtnStep ==
  ASSUME TypeInv, NEW i \in DOMAIN fs3.tableData, DeleteBtn(i), Aside
  PROVE  /\ TypeInv' /\ UNCHANGED <<stored, home, share, shown>> /\ SideOf(open') = {}
         /\ Touches({}, Selection, {}, {}, {}) /\ SameRows(fs3.tableData, fs3'.tableData)
         /\ fs3'.drawIndex = 0
         /\ picked'.calm => SameBucket /\ picked'.at = shown.bucket
         /\ picked'.calm /\ ~fs3.sorted => picked'.names = Of(fs3'.deleteDialogIndex)
<1> DEFINE name == fs3.tableData[i].name
           names == <<name>>
           g == DrawPlayClose(fs3)
<1>1. IsFs3(fs3) /\ CallsOK
  BY DEF TypeInv
<1>2. name \in ObjectName /\ (~fs3.sorted => SeenRow(i).name = name)
  BY <1>1, SeenRows
<1>3. /\ UNCHANGED <<stored, home, share, shown>> /\ UserActs /\ open' = {"delete"}
      /\ fs3' = [g EXCEPT !.deleteDialogIndex = names]
      /\ picked' = [names |-> {SeenRow(i).name}, at |-> shown.bucket, calm |-> SameBucket]
  BY DEF DeleteBtn
<1>4. /\ IsFs3(g) /\ Sets(fs3, g, Selection) /\ SameRows(fs3.tableData, g.tableData) /\ g.drawIndex = 0
  BY <1>1, DrawCloses DEF Selection
<1> HIDE DEF g, name
<1>5. Sequence(names) /\ Of(names) = {name}
  BY Single
<1> HIDE DEF names
<1>6. /\ DOMAIN fs3' = Fs3Fields /\ fs3'.deleteDialogIndex = names
      /\ \A k \in Fs3Fields \ {"deleteDialogIndex"} : fs3'[k] = g[k]
  BY <1>3, <1>4 DEF IsFs3, Fs3Fields
<1>7. /\ fs3'.sorted = g.sorted /\ fs3'.currentBucketAll = g.currentBucketAll
      /\ fs3'.prefixName = g.prefixName /\ fs3'.tableData = g.tableData /\ fs3'.drawIndex = g.drawIndex
  BY <1>6 DEF Fs3Fields
<1>8. IsFs3(fs3')
  BY <1>2, <1>4, <1>5, <1>6, <1>7 DEF IsFs3
<1>9. Sets(fs3, fs3', Selection)
  BY <1>1, <1>4, <1>6 DEF Sets, Selection, IsFs3
<1>10. CallsOK' /\ \A ops : Spared(ops)
  BY <1>1, <1>3, QuietStep
<1>11. DOMAIN picked' = {"names", "at", "calm"}
  BY <1>3
<1>12. TypeInv'
  BY <1>3, <1>8, <1>10, <1>11 DEF TypeInv, Aside, menuVars
<1>13. Touches({}, Selection, {}, {}, {})
  BY <1>3, <1>9, <1>10 DEF Touches, Sets
<1>14. SideOf(open') = {}
  BY <1>3 DEF SideOf
<1>15. picked'.calm /\ ~fs3.sorted => picked'.names = Of(fs3'.deleteDialogIndex)
  BY <1>2, <1>3, <1>5, <1>6
<1>16. QED
  BY <1>3, <1>4, <1>7, <1>12, <1>13, <1>14, <1>15

\* The user shares the object of a row, or backs it up.
ShareFrom(i, mode) ==
    /\ DOMAIN share' = ShareFields /\ share'.mode = mode /\ share'.name = SeenRow(i).name
    /\ share'.at = shown.bucket /\ (share'.calm <=> SameBucket)
    /\ share'.num = share.num /\ share'.link = share.link /\ share'.fresh = share.fresh
Shares(i) == ShareBtn(i) \/ ShareToFil(i)
LEMMA ShareStep ==
  ASSUME TypeInv, NEW i \in DOMAIN fs3.tableData, Shares(i), Aside
  PROVE  /\ TypeInv' /\ UNCHANGED <<stored, home, shown>> /\ SideOf(open') = {}
         /\ Touches({}, Selection, ShareFields, {}, {"PresignedGet"})
         /\ SameRows(fs3.tableData, fs3'.tableData) /\ picked' = NoPick
         /\ ShareBtn(i) => ShareFrom(i, "link") /\ share'.share_now = i
         /\ ShareToFil(i) => /\ ShareFrom(i, "deal")
                             /\ share'.postAdress = home.currentBucket \o fs3.tableData[i].name
<1> DEFINE name == fs3.tableData[i].name
           b == home.currentBucket
           c == LinkCall(i, share.num)
<1>1. IsFs3(fs3) /\ CallsOK /\ IsShare(share)
  BY DEF TypeInv
<1>2. /\ UNCHANGED <<stored, home, shown>> /\ open' = {"share"}
      /\ fs3' = DrawPlayClose(fs3) /\ picked' = NoPick
  BY DEF Shares, ShareBtn, ShareToFil
<1>3. /\ IsFs3(fs3') /\ Sets(fs3, fs3', Selection) /\ SameRows(fs3.tableData, fs3'.tableData)
  BY <1>1, <1>2, DrawCloses DEF Selection
<1>4. ShareBtn(i) => ShareFrom(i, "link") /\ share'.share_now = i
  BY <1>1 DEF ShareBtn, ShareFrom, IsShare, ShareFields
<1>5. ShareToFil(i) => /\ ShareFrom(i, "deal")
                       /\ share'.postAdress = home.currentBucket \o fs3.tableData[i].name
  BY <1>1 DEF ShareToFil, ShareFrom, IsShare, ShareFields
<1>6. IsShare(share')
  BY <1>1, <1>4, <1>5 DEF IsShare, Shares, ShareFrom
<1>7. CallsOK' /\ Spared(AllOps \ {"PresignedGet"})
  <2>1. CASE ShareBtn(i)
    <3>1. UserSends(<<c>>)
      BY <2>1 DEF ShareBtn
    <3>2. IsCall(c) /\ c.op = "PresignedGet"
      BY NewLinkCall DEF LinkCall
    <3> HIDE DEF c
    <3>3. QED
      BY <1>1, <3>1, <3>2, UserAsks
  <2>2. CASE ShareToFil(i)
    BY <1>1, <2>2, QuietStep DEF ShareToFil
  <2>3. QED
    BY <2>1, <2>2 DEF Shares
<1>8. DOMAIN picked' = {"names", "at", "calm"} /\ SideOf(open') = {}
  BY <1>2 DEF NoPick, SideOf
<1>9. TypeInv'
  BY <1>2, <1>3, <1>6, <1>7, <1>8 DEF TypeInv, Aside, menuVars
<1>10. Touches({}, Selection, ShareFields, {}, {"PresignedGet"})
  BY <1>1, <1>2, <1>3, <1>6, <1>7 DEF Touches, Sets, IsShare
<1>11. QED
  BY <1>2, <1>3, <1>4, <1>5, <1>8, <1>9, <1>10

\* Another time for the link.
LEMMA HandleChangeStep ==
  ASSUME TypeInv, NEW t \in Times, HandleChange(t), Aside
  PROVE  /\ TypeInv' /\ UNCHANGED <<stored, home, fs3, open, shown, picked>>
         /\ Touches({}, {}, {"num"}, {}, {"PresignedGet"}) /\ share'.num = t
<1> DEFINE c == LinkCall(share.share_now, t)
<1>1. CallsOK /\ IsShare(share)
  BY DEF TypeInv
<1>2. /\ UNCHANGED <<stored, home, fs3, open, shown, picked>> /\ share' = [share EXCEPT !.num = t]
      /\ UserActs \/ UserSends(<<c>>)
  BY DEF HandleChange
<1>3. t \in (Nat \ {0}) \X Nat \X Nat
  BY NameBounds
<1>4. Sets(share, share', {"num"}) /\ IsShare(share') /\ share'.num = t
  BY <1>1, <1>2, <1>3 DEF Sets, IsShare, ShareFields
<1>5. IsCall(c) /\ c.op = "PresignedGet"
  BY NewLinkCall DEF LinkCall
<1>6. CallsOK' /\ Spared(AllOps \ {"PresignedGet"})
  <2>1. CASE UserActs
    BY <1>1, <2>1, QuietStep
  <2>2. CASE UserSends(<<c>>)
    <3> HIDE DEF c
    <3>1. QED
      BY <1>1, <1>5, <2>2, UserAsks
  <2>3. QED
    BY <1>2, <2>1, <2>2
<1>7. TypeInv'
  BY <1>2, <1>4, <1>6 DEF TypeInv, Aside, menuVars
<1>8. QED
  BY <1>2, <1>4, <1>6, <1>7 DEF Touches, Sets

\* A row is opened or closed.
LEMMA ExChangeStep ==
  ASSUME TypeInv, NEW i \in DOMAIN fs3.tableData, ExChange(i), Aside
  PROVE  /\ TypeInv' /\ UNCHANGED <<stored, home, share, open, picked>>
         /\ Touches({}, {"expands", "exChangeList"}, {}, {"opened"}, {"Retrieve"})
         /\ \/ fs3'.expands = <<>> /\ shown'.opened = <<>> /\ Spared(AllOps)
            \/ /\ fs3'.expands = SeenRow(i).name /\ fs3'.exChangeList = {}
               /\ shown'.opened = IF SameBucket THEN shown.bucket ELSE <<>>
               /\ UserSends(<<Request("Retrieve", [bucket |-> home.currentBucket,
                                                   name |-> SeenRow(i).name])>>)
<1> DEFINE name == SeenRow(i).name
           c == Request("Retrieve", [bucket |-> home.currentBucket, name |-> name])
<1>1. CallsOK /\ IsFs3(fs3) /\ IsShown(shown)
  BY DEF TypeInv
<1>2. UNCHANGED <<stored, home, share, open, picked>>
  BY DEF ExChange
<1>3. \/ fs3' = [fs3 EXCEPT !.expands = <<>>] /\ UserActs
      \/ fs3' = [fs3 EXCEPT !.expands = name, !.exChangeList = {}] /\ UserSends(<<c>>)
  BY DEF ExChange
<1>4. IsCall(c) /\ c.op = "Retrieve"
  BY NewAnyCall DEF AnyArgs
<1>5. CallsOK' /\ Spared(AllOps \ {"Retrieve"}) /\ (UserActs => Spared(AllOps))
  <2>1. CASE UserActs
    BY <1>1, <2>1, QuietStep
  <2>2. CASE UserSends(<<c>>)
    <3> HIDE DEF c
    <3>1. QED
      BY <1>1, <1>4, <2>2, UserAsks, QuietStep
  <2>3. QED
    BY <1>3, <2>1, <2>2
<1>6. /\ DOMAIN fs3' = Fs3Fields
      /\ \A k \in Fs3Fields \ {"expands", "exChangeList"} : fs3'[k] = fs3[k]
      /\ \/ fs3'.expands = <<>> /\ UserActs
         \/ fs3'.expands = name /\ fs3'.exChangeList = {} /\ UserSends(<<c>>)
  <2> HIDE DEF name, c
  <2>1. QED
    BY <1>1, <1>3 DEF IsFs3, Fs3Fields
<1>7. /\ fs3'.sorted = fs3.sorted /\ fs3'.currentBucketAll = fs3.currentBucketAll
      /\ fs3'.prefixName = fs3.prefixName /\ fs3'.tableData = fs3.tableData
      /\ fs3'.deleteDialogIndex = fs3.deleteDialogIndex
  BY <1>6 DEF Fs3Fields
<1>8. IsFs3(fs3') /\ Sets(fs3, fs3', {"expands", "exChangeList"})
  BY <1>1, <1>6, <1>7 DEF IsFs3, Sets
<1> DEFINE at == IF SameBucket THEN shown.bucket ELSE <<>>
<1>12. \/ fs3' = [fs3 EXCEPT !.expands = <<>>] /\ UserActs /\ shown' = [shown EXCEPT !.opened = <<>>]
       \/ fs3' = [fs3 EXCEPT !.expands = name, !.exChangeList = {}] /\ UserSends(<<c>>)
            /\ shown' = [shown EXCEPT !.opened = at]
  BY DEF ExChange
<1>13. /\ IsShown(shown') /\ Sets(shown, shown', {"opened"})
       /\ \/ fs3'.expands = <<>> /\ shown'.opened = <<>> /\ UserActs
          \/ fs3'.expands = name /\ fs3'.exChangeList = {} /\ shown'.opened = at /\ UserSends(<<c>>)
  <2> HIDE DEF name, c, at
  <2>1. QED
    BY <1>1, <1>12 DEF IsFs3, Fs3Fields, IsShown, ShownFields, Sets
<1>9. TypeInv'
  BY <1>2, <1>5, <1>8, <1>13 DEF TypeInv, Aside, menuVars
<1>10. Touches({}, {"expands", "exChangeList"}, {}, {"opened"}, {"Retrieve"})
  BY <1>2, <1>5, <1>8, <1>13 DEF Touches, Sets
<1>11. QED
  BY <1>2, <1>5, <1>9, <1>10, <1>13

\* A file is chosen.
UploadCall(file, size) ==
    Request("Upload", [bucket |-> home.currentBucket, size |-> size, loaded |-> 0,
                       name |-> Append(home.prefixData, file)])
LEMMA OnChangeStep ==
  ASSUME TypeInv, NEW file \in FileNames, NEW size \in FileSizes, OnChange(file, size), Aside
  PROVE  /\ TypeInv' /\ UNCHANGED <<stored, fs3, share, open, picked>>
         /\ Touches({"drawer", "oloaded"}, {}, {}, {"cut"}, {"Upload"})
         /\ LET c == UploadCall(file, size) IN
              /\ UserSends(<<c>>) /\ c.op = "Upload" /\ c.state = "sent"
              /\ c.arg.loaded = 0 /\ c.arg.size \in Nat
              /\ shown'.cut \/ c.arg.size # 0
         /\ home'.oloaded = 0
<1> DEFINE c == UploadCall(file, size)
           name == Append(home.prefixData, file)
<1>1. CallsOK /\ IsHome(home) /\ IsShown(shown)
  BY DEF TypeInv
<1>2. /\ UNCHANGED <<stored, fs3, share, open, picked>>
      /\ home' = [home EXCEPT !.drawer = TRUE, !.oloaded = 0]
      /\ UserSends(<<c>>)
  BY DEF OnChange, OnLoadStart, UploadCall
<1>3. name \in ObjectName
  <2> DEFINE p == home.prefixData
  <2>1. p \in Seq(STRING) /\ file \in STRING /\ Len(p) \in Nat
    BY <1>1, NameBounds DEF IsHome
  <2> HIDE DEF p
  <2>2. Append(p, file) \in Seq(STRING) /\ Len(Append(p, file)) = Len(p) + 1
    BY <2>1, AppendProperties
  <2>3. name \in Seq(STRING) /\ Len(name) # 0
    BY <2>1, <2>2 DEF p
  <2> HIDE DEF name
  <2>4. QED
    BY <2>3, EmptySeq DEF ObjectName
<1>4. IsCall(c) /\ c.op = "Upload" /\ c.state = "sent" /\ c.arg.loaded = 0 /\ c.arg.size = size /\ size \in Nat
  <2>1. size \in Nat
    BY PageBounds
  <2> DEFINE b == home.currentBucket
  <2>2. c = Request("Upload", [bucket |-> b, size |-> size, loaded |-> 0, name |-> name])
    BY DEF UploadCall
  <2> HIDE DEF b, c, name
  <2>3. QED
    BY <1>3, <2>1, <2>2, NewUpload DEF Request
<1> HIDE DEF c
<1>5. CallsOK' /\ Spared(AllOps \ {"Upload"})
  BY <1>1, <1>2, <1>4, UserAsks
<1>6. /\ DOMAIN home' = HomeFields /\ home'.oloaded = 0
      /\ \A k \in HomeFields \ {"drawer", "oloaded"} : home'[k] = home[k]
  BY <1>1, <1>2 DEF IsHome, HomeFields
<1>7. /\ home'.minioListBuckets = home.minioListBuckets
      /\ home'.currentBucket = home.currentBucket /\ home'.prefixData = home.prefixData
  BY <1>6 DEF HomeFields
<1>8. IsHome(home') /\ Sets(home, home', {"drawer", "oloaded"})
  BY <1>1, <1>6, <1>7 DEF IsHome, Sets
<1>12. shown' = [shown EXCEPT !.cut = size = 0]
  BY DEF OnChange
<1>13. IsShown(shown') /\ Sets(shown, shown', {"cut"}) /\ (shown'.cut \/ c.arg.size # 0)
  BY <1>1, <1>4, <1>12 DEF IsShown, ShownFields, Sets
<1>9. TypeInv'
  BY <1>2, <1>5, <1>8, <1>13 DEF TypeInv, Aside, menuVars
<1>10. Touches({"drawer", "oloaded"}, {}, {}, {"cut"}, {"Upload"})
  BY <1>2, <1>5, <1>8, <1>13 DEF Touches, Sets
<1>11. QED
  BY <1>2, <1>4, <1>6, <1>9, <1>10, <1>13 DEF c

----------------------------------------------------------------------------
(* The user at the list of buckets and its menu.                           *)

LEMMA SearchStep ==
  ASSUME TypeInv, NEW b, SearchBucketFun(b), UNCHANGED deal
  PROVE  /\ TypeInv' /\ UNCHANGED <<stored, fs3, share, open, shown, picked, slide, policies>>
         /\ Touches({"menu"}, {}, {}, {}, {})
<1>1. CallsOK /\ IsHome(home)
  BY DEF TypeInv
<1>2. /\ UNCHANGED <<stored, fs3, share, open, shown, picked, slide, policies>> /\ UserActs
      /\ \E menu : home' = [home EXCEPT !.menu = menu]
  BY DEF SearchBucketFun, menuVars
<1>3. DOMAIN home' = HomeFields /\ \A k \in HomeFields \ {"menu"} : home'[k] = home[k]
  BY <1>1, <1>2 DEF IsHome, HomeFields
<1>4. /\ home'.minioListBuckets = home.minioListBuckets /\ home'.oloaded = home.oloaded
      /\ home'.currentBucket = home.currentBucket /\ home'.prefixData = home.prefixData
  BY <1>3 DEF HomeFields
<1>5. IsHome(home') /\ Sets(home, home', {"menu"})
  BY <1>1, <1>3, <1>4 DEF IsHome, Sets
<1>6. CallsOK' /\ \A ops : Spared(ops)
  BY <1>1, <1>2, QuietStep
<1>7. QED
  BY <1>2, <1>5, <1>6 DEF TypeInv, Touches, Sets

\* The menu opens, or is used for something that goes to its bucket.
MenuGoes(n) == \/ CaozuoFun(n) /\ n \in Buckets
               \/ (BackupFun \/ RetrievalFun) /\ n = slide.on
LEMMA MenuGoesStep ==
  ASSUME TypeInv, NEW n, MenuGoes(n), UNCHANGED deal
  PROVE  /\ TypeInv' /\ SlideClick(<<n>>) /\ ToTop({"ListObjects", "BucketDeals"})
         /\ UNCHANGED policies /\ Sets(slide, slide', {"on", "exChangeList"}) /\ slide'.on = n
         /\ open' \in {{"menu"}, {"homeshare"}, {"retrieval"}}
         /\ n \in Buckets \/ "menu" \in open
         /\ RetrievalFun => slide'.exChangeList = {}
         /\ open' = {"retrieval"} => RetrievalFun
<1> DEFINE b == <<n>>
           c == ListCall(b, <<>>)
           d == BucketDealsCall(b)
           ops == {"ListObjects", "BucketDeals"}
<1>1. CallsOK /\ IsSlide(slide)
  BY DEF TypeInv
<1>2. /\ SlideClick(<<n>>) /\ UNCHANGED policies
      /\ n \in Buckets \/ "menu" \in open
      /\ \/ open' = {"menu"} /\ slide' = [slide EXCEPT !.on = n] /\ UserSends(<<c>>)
         \/ open' = {"homeshare"} /\ slide' = slide /\ n = slide.on /\ UserSends(<<c>>)
         \/ /\ open' = {"retrieval"} /\ slide' = [slide EXCEPT !.exChangeList = {}] /\ n = slide.on
            /\ RetrievalFun /\ UserSends(<<c, d>>)
  BY DEF MenuGoes, CaozuoFun, BackupFun, RetrievalFun, menuVars
<1>3. RetrievalFun => slide'.exChangeList = {}
  BY <1>1 DEF RetrievalFun, IsSlide, SlideFields
<1>4. /\ IsSlide(slide') /\ Sets(slide, slide', {"on", "exChangeList"}) /\ slide'.on = n
      /\ open' \in {{"menu"}, {"homeshare"}, {"retrieval"}}
      /\ open' = {"retrieval"} => RetrievalFun
  <2> HIDE DEF b, c, d
  <2>1. {"menu"} # {"retrieval"} /\ {"homeshare"} # {"retrieval"}
    OBVIOUS
  <2>2. QED
    BY <1>1, <1>2, <2>1 DEF IsSlide, SlideFields, Sets
<1>5. IsCall(c) /\ c.op = "ListObjects"
  BY TopCall
<1>6. IsCall(d) /\ d.op = "BucketDeals"
  BY NewAnyCall DEF BucketDealsCall, AnyArgs
<1> HIDE DEF b, c, d
<1>7. CallsOK' /\ Spared(AllOps \ ops)
  <2>1. CASE UserSends(<<c>>)
    <3> DEFINE cs == <<c>>
    <3>1. Sequence(cs) /\ \A e \in Of(cs) : IsCall(e) /\ e.op \in ops
      BY <1>5, Single
    <3>2. UserSends(cs)
      BY <2>1
    <3> HIDE DEF cs, ops
    <3>3. QED
      BY <1>1, <3>1, <3>2, UserStep
  <2>2. CASE UserSends(<<c, d>>)
    <3> DEFINE cs == <<c, d>>
    <3>1. Sequence(cs) /\ \A e \in Of(cs) : IsCall(e) /\ e.op \in ops
      BY <1>5, <1>6, Pair
    <3>2. UserSends(cs)
      BY <2>2
    <3> HIDE DEF cs, ops
    <3>3. QED
      BY <1>1, <3>1, <3>2, UserStep
  <2>3. QED
    BY <1>2, <2>1, <2>2
<1> HIDE DEF ops
<1>8. TypeInv' /\ ToTop(ops)
  BY <1>2, <1>4, <1>7, SlideTypes
<1>9. QED
  BY <1>2, <1>3, <1>4, <1>8 DEF ops

\* The menu or a dialog closes, or the user asks for something else there.
MenuAsks ==
    \/ \E d \in {"menu", "policy", "retrieval"} : CloseMenu(d)
    \/ DialogFun \/ DialogDeleteFun \/ PolicyDialog
LEMMA MenuAsksStep ==
  ASSUME TypeInv, MenuAsks, UNCHANGED deal
  PROVE  /\ TypeInv' /\ UNCHANGED <<stored, home, fs3, share, shown, picked, policies>>
         /\ Touches({}, {}, {}, {}, {"ListAllBucketPolicies", "SetBucketPolicy", "DeleteBucket"})
         /\ \/ SideOf(open') \subseteq SideOf(open) /\ slide' = slide
               /\ Spared(AllOps \ {"SetBucketPolicy", "DeleteBucket"})
            \/ DialogFun
         /\ Sets(slide, slide', {"titlePolicy"})
<1> DEFINE ops == {"ListAllBucketPolicies", "SetBucketPolicy", "DeleteBucket"}
           few == {"SetBucketPolicy", "DeleteBucket"}
<1>1. CallsOK /\ IsSlide(slide)
  BY DEF TypeInv
<1>2. /\ UNCHANGED <<stored, home, fs3, share, shown, picked, policies>>
      /\ \/ SideOf(open') \subseteq SideOf(open) /\ slide' = slide
         \/ DialogFun
  BY DEF MenuAsks, CloseMenu, DialogDeleteFun, PolicyDialog, AddPolicies, RemovePolicies, DialogFun,
         PageStays, menuVars, SideOf
<1>3. IsSlide(slide') /\ Sets(slide, slide', {"titlePolicy"})
  BY <1>1, <1>2 DEF DialogFun, IsSlide, SlideFields, Sets
<1>4. CASE DialogFun
  <2> DEFINE c == PoliciesCall(<<slide.on>>)
  <2>1. UserSends(<<c>>)
    BY <1>4 DEF DialogFun
  <2>2. IsCall(c) /\ c.op = "ListAllBucketPolicies"
    BY NewAnyCall DEF PoliciesCall, AnyArgs
  <2> HIDE DEF c
  <2>3. CallsOK' /\ Spared(AllOps \ {"ListAllBucketPolicies"})
    BY <1>1, <2>1, <2>2, UserAsks
  <2>4. Spared(AllOps \ ops)
    <3>1. AllOps \ ops \subseteq AllOps \ {"ListAllBucketPolicies"}
      OBVIOUS
    <3>2. QED
      BY <2>3, <3>1, SparedFewer
  <2>5. QED
    BY <1>2, <1>3, <1>4, <2>3, <2>4 DEF TypeInv, Touches, Sets
<1>5. CASE ~DialogFun
  <2>1. \/ calls' = calls
        \/ \E c : IsCall(c) /\ c.op \in few /\ UserSends(<<c>>)
    <3>1. CASE \E d \in {"menu", "policy", "retrieval"} : CloseMenu(d)
      BY <3>1 DEF CloseMenu
    <3>2. CASE DialogDeleteFun
      <4> DEFINE c == Request("DeleteBucket", [bucket |-> <<slide.on>>])
      <4>1. IsCall(c) /\ c.op = "DeleteBucket"
        BY NewDeleteCall
      <4>2. UserSends(<<c>>)
        BY <3>2 DEF DialogDeleteFun
      <4> HIDE DEF c
      <4>3. QED
        BY <4>1, <4>2
    <3>3. CASE PolicyDialog
      <4>1. PICK b, p, q : UserSends(<<SetPolicy(b, p, q)>>)
        BY <3>3 DEF PolicyDialog, AddPolicies, RemovePolicies
      <4> DEFINE c == SetPolicy(b, p, q)
      <4>2. IsCall(c) /\ c.op = "SetBucketPolicy"
        BY NewAnyCall DEF SetPolicy, AnyArgs
      <4> HIDE DEF c
      <4>3. UserSends(<<c>>)
        BY <4>1 DEF c
      <4>4. QED
        BY <4>2, <4>3
    <3>4. QED
      BY <1>5, <3>1, <3>2, <3>3 DEF MenuAsks
  <2>2. CallsOK' /\ Spared(AllOps \ few)
    <3>1. CASE calls' = calls
      BY <1>1, <3>1, QuietStep
    <3>2. CASE calls' # calls
      <4>1. PICK c : IsCall(c) /\ c.op \in few /\ UserSends(<<c>>)
        BY <2>1, <3>2
      <4>2. CallsOK' /\ Spared(AllOps \ {c.op})
        BY <1>1, <4>1, UserAsks
      <4>3. AllOps \ few \subseteq AllOps \ {c.op}
        BY <4>1
      <4>4. QED
        BY <4>2, <4>3, SparedFewer
    <3>3. QED
      BY <3>1, <3>2
  <2>3. Spared(AllOps \ ops)
    <3>1. AllOps \ ops \subseteq AllOps \ few
      OBVIOUS
    <3>2. QED
      BY <2>2, <3>1, SparedFewer
  <2>4. QED
    BY <1>2, <1>3, <1>5, <2>2, <2>3 DEF TypeInv, Touches, Sets
<1>6. QED
  BY <1>4, <1>5

----------------------------------------------------------------------------
(* The user at the dialogs for deals.                                      *)

\* What the menu of providers keeps is the same in both dialogs.
MinersFields == {"parentName", "tableData", "page", "total", "loadSign", "fresh"}
FormsOnly == /\ DOMAIN deal' = Dialogs
             /\ \A d \in Dialogs : /\ IsDeal(deal'[d])
                                   /\ \A k \in MinersFields : deal'[d][k] = deal[d][k]

LEMMA FormChanges ==
  ASSUME TypeInv, NEW d \in Dialogs, NEW f, DOMAIN f = DOMAIN DealView,
         \A k \in MinersFields : f[k] = deal[d][k], deal' = [deal EXCEPT ![d] = f]
  PROVE  FormsOnly
<1>1. DOMAIN deal = Dialogs /\ \A e \in Dialogs : IsDeal(deal[e])
  BY DEF TypeInv
<1>2. f.tableData = deal[d].tableData /\ f.page = deal[d].page /\ f.total = deal[d].total
  BY DEF MinersFields
<1>3. IsDeal(f)
  BY <1>1, <1>2 DEF IsDeal
<1>4. DOMAIN deal' = Dialogs /\ \A e \in Dialogs : deal'[e] = IF e = d THEN f ELSE deal[e]
  BY <1>1
<1>5. QED
  BY <1>1, <1>3, <1>4 DEF FormsOnly

LEMMA FormsStay ==
  ASSUME TypeInv, UNCHANGED deal
  PROVE  FormsOnly
BY DEF TypeInv, FormsOnly

\* A row is chosen, a form changes or is sent, or a message closes.
Submits == \/ \E d \in Dialogs, days \in Durations : SubmitForm(d, days)
           \/ \E bid \in BOOLEAN : SubmitOfflineForm(bid)
Fills == \/ \E d \in Dialogs : \E k \in DOMAIN deal[d].tableData : HandleCurrentChange(d, k)
         \/ \E tab \in {"online", "offline"} : HandleClick(tab)
         \/ CloseCompleted
IsNewDeal(c) == \E d \in Dialogs : \E form :
    /\ Shows(d)
    /\ \/ d = "share" /\ c = DealCall(d, "deal", form)
       \/ d = "homeshare" /\ (c = DealCall(d, "deals", form) \/ c = DealCall(d, "offlinedeals", form))

LEMMA FillStep ==
  ASSUME TypeInv, Fills
  PROVE  /\ TypeInv' /\ UNCHANGED <<pageVars, menuVars>> /\ FormsOnly /\ Touches({}, {}, {}, {}, {})
<1>1. /\ UNCHANGED <<pageVars, menuVars>> /\ (calls' = calls \/ UserActs)
  BY DEF Fills, HandleCurrentChange, HandleClick, CloseCompleted, DealStays
<1>2. DOMAIN deal = Dialogs /\ \A d \in Dialogs : IsDeal(deal[d])
  BY DEF TypeInv
<1>3. FormsOnly
  <2>1. ASSUME NEW d \in Dialogs, NEW k \in DOMAIN deal[d].tableData, HandleCurrentChange(d, k)
        PROVE  FormsOnly
    <3>1. PICK field \in {"minerId", "providerId"} :
            deal' = [deal EXCEPT ![d][field] = deal[d].tableData[k]]
      BY <2>1 DEF HandleCurrentChange
    <3> DEFINE f == [deal[d] EXCEPT ![field] = deal[d].tableData[k]]
    <3>2. deal' = [deal EXCEPT ![d] = f]
      BY <1>2, <3>1
    <3>3. DOMAIN f = DOMAIN DealView /\ \A m \in MinersFields : f[m] = deal[d][m]
      BY <1>2 DEF IsDeal, DealView, MinersFields
    <3> HIDE DEF f
    <3>4. QED
      BY <3>2, <3>3, FormChanges
  <2>2. ASSUME NEW tab, HandleClick(tab) PROVE FormsOnly
    <3> DEFINE d == "homeshare"
               f == [deal[d] EXCEPT !.activeOn = tab,
                                    !.minerId = IF tab = "offline" THEN <<>> ELSE @]
    <3>1. deal' = [deal EXCEPT ![d] = f] /\ d \in Dialogs
      BY <1>2, <2>2 DEF HandleClick, Dialogs
    <3>2. DOMAIN f = DOMAIN DealView /\ \A m \in MinersFields : f[m] = deal[d][m]
      BY <1>2 DEF IsDeal, DealView, MinersFields, Dialogs
    <3> HIDE DEF f, d
    <3>3. QED
      BY <3>1, <3>2, FormChanges
  <2>3. CASE CloseCompleted
    <3> DEFINE d == "homeshare"
               f == [deal[d] EXCEPT !.finishTransaction = FALSE]
    <3>1. deal' = [deal EXCEPT ![d] = f] /\ d \in Dialogs
      BY <1>2, <2>3 DEF CloseCompleted, Dialogs
    <3>2. DOMAIN f = DOMAIN DealView /\ \A m \in MinersFields : f[m] = deal[d][m]
      BY <1>2 DEF IsDeal, DealView, MinersFields, Dialogs
    <3> HIDE DEF f, d
    <3>3. QED
      BY <3>1, <3>2, FormChanges
  <2>4. QED
    BY <2>1, <2>2, <2>3 DEF Fills
<1>4. CallsOK' /\ \A ops : Spared(ops)
  BY <1>1, QuietStep DEF TypeInv
<1>5. QED
  BY <1>1, <1>3, <1>4 DEF TypeInv, FormsOnly, Touches, Sets, pageVars, menuVars

LEMMA SubmitStep ==
  ASSUME TypeInv, Submits
  PROVE  /\ TypeInv' /\ UNCHANGED <<pageVars, menuVars>> /\ FormsOnly
         /\ Touches({}, {}, {}, {}, DealApis)
         /\ \A c \in Of(calls') : c \in Of(calls) \/ IsNewDeal(c)
<1>1. DOMAIN deal = Dialogs /\ (\A d \in Dialogs : IsDeal(deal[d])) /\ CallsOK
  BY DEF TypeInv
<1>2. UNCHANGED <<pageVars, menuVars>>
  BY DEF Submits, SubmitForm, SubmitOfflineForm, DealStays
<1>3. FormsOnly
  <2>1. CASE UNCHANGED deal
    BY <2>1, FormsStay
  <2>2. CASE \E v : deal' = [deal EXCEPT !["homeshare"].tips = v]
    <3>1. PICK v : deal' = [deal EXCEPT !["homeshare"].tips = v]
      BY <2>2
    <3> DEFINE d == "homeshare"
               f == [deal[d] EXCEPT !.tips = v]
    <3>2. deal' = [deal EXCEPT ![d] = f] /\ d \in Dialogs
      BY <1>1, <3>1 DEF Dialogs
    <3>3. DOMAIN f = DOMAIN DealView /\ \A m \in MinersFields : f[m] = deal[d][m]
      BY <1>1 DEF IsDeal, DealView, MinersFields, Dialogs
    <3> HIDE DEF f, d
    <3>4. QED
      BY <3>2, <3>3, FormChanges
  <2>3. QED
    BY <2>1, <2>2 DEF Submits, SubmitForm, SubmitOfflineForm
<1>4. \/ UserActs
      \/ \E c : IsCall(c) /\ c.op \in DealApis /\ UserSends(<<c>>) /\ IsNewDeal(c)
  <2>1. ASSUME NEW d \in Dialogs, NEW days \in Durations, SubmitForm(d, days)
        PROVE  \E c : IsCall(c) /\ c.op \in DealApis /\ UserSends(<<c>>) /\ IsNewDeal(c)
    <3> DEFINE api == IF d = "homeshare" THEN "deals" ELSE "deal"
               form == [MinerId |-> deal[d].minerId, days |-> days, Duration |-> days * 24 * 60 * 2]
               c == DealCall(d, api, form)
    <3>1. UserSends(<<c>>) /\ Shows(d)
      BY <2>1 DEF SubmitForm
    <3>2. form.Duration * 30 = form.days * 24 * 60 * 60
      <4>1. days \in Nat
        BY DealBounds
      <4>2. QED
        BY <4>1
    <3>3. api \in DealApis /\ (d = "share" => api = "deal") /\ (d = "homeshare" => api = "deals")
      BY DEF DealApis
    <3> HIDE DEF api, form
    <3>4. IsCall(c) /\ c.op = api
      BY <3>2, <3>3, NewDealCall
    <3>5. IsNewDeal(c)
      BY <3>1, <3>3 DEF IsNewDeal, Dialogs
    <3> HIDE DEF c
    <3>6. QED
      BY <3>1, <3>3, <3>4, <3>5
  <2>2. ASSUME NEW bid \in BOOLEAN, SubmitOfflineForm(bid), ~UserActs
        PROVE  \E c : IsCall(c) /\ c.op \in DealApis /\ UserSends(<<c>>) /\ IsNewDeal(c)
    <3>1. Shows("homeshare") /\ \E form : UserSends(<<DealCall("homeshare", "offlinedeals", form)>>)
      BY <2>2 DEF SubmitOfflineForm
    <3>2. PICK form : UserSends(<<DealCall("homeshare", "offlinedeals", form)>>)
      BY <3>1
    <3> DEFINE c == DealCall("homeshare", "offlinedeals", form)
    <3>3. "homeshare" \in Dialogs /\ "offlinedeals" \in DealApis
      BY DEF Dialogs, DealApis
    <3>4. IsCall(c) /\ c.op = "offlinedeals"
      BY <3>3, NewDealCall
    <3>5. IsNewDeal(c)
      BY <3>1, <3>3 DEF IsNewDeal
    <3> HIDE DEF c
    <3>6. UserSends(<<c>>)
      BY <3>2 DEF c
    <3>7. QED
      BY <3>3, <3>4, <3>5, <3>6
  <2>3. QED
    BY <2>1, <2>2 DEF Submits
<1>5. /\ CallsOK' /\ Spared(AllOps \ DealApis)
      /\ \A c \in Of(calls') : c \in Of(calls) \/ IsNewDeal(c)
  <2>1. CASE UserActs
    BY <1>1, <2>1, QuietStep, UserActed
  <2>2. CASE ~UserActs
    <3>1. PICK c : IsCall(c) /\ c.op \in DealApis /\ UserSends(<<c>>) /\ IsNewDeal(c)
      BY <1>4, <2>2
    <3>2. CallsOK' /\ Spared(AllOps \ {c.op})
      BY <1>1, <3>1, UserAsks
    <3>3. AllOps \ DealApis \subseteq AllOps \ {c.op}
      BY <3>1
    <3> DEFINE cs == <<c>>
    <3>4. Sequence(cs) /\ Of(cs) = {c}
      BY Single
    <3>5. calls' = calls \o cs
      BY <3>1 DEF UserSends
    <3> HIDE DEF cs
    <3>6. Of(calls') = Of(calls) \cup {c}
      BY <1>1, <3>4, <3>5, Joined DEF CallsOK
    <3>7. QED
      BY <3>1, <3>2, <3>3, <3>6, SparedFewer
  <2>3. QED
    BY <2>1, <2>2
<1>6. QED
  BY <1>2, <1>3, <1>5 DEF TypeInv, FormsOnly, Touches, Sets, pageVars, menuVars

\* Where a page of providers may be shown, they are those of some location.
Located == /\ \A d \in Dialogs : deal[d].tableData # <<>> => deal[d].parentName \in Locations
           /\ \A c \in Of(calls) : c.op = "Miners" => deal[c.arg.dialog].parentName \in Locations

LEMMA LocatedKept ==
  ASSUME TypeInv, TypeInv', Located, FormsOnly, NEW ops, Spared(ops), "Miners" \in ops
  PROVE  Located'
<1>1. ASSUME NEW c \in Of(calls'), c.op = "Miners" PROVE deal'[c.arg.dialog].parentName \in Locations
  <2>1. c \in Of(calls)
    BY <1>1, SparedOf
  <2>2. c.arg.dialog \in Dialogs
    BY <1>1, <2>1 DEF TypeInv, CallsOK, IsCall, IsArg, DealArg, DealOps
  <2>3. QED
    BY <1>1, <2>1, <2>2 DEF Located, FormsOnly, MinersFields
<1>2. \A d \in Dialogs : deal'[d].tableData # <<>> => deal'[d].parentName \in Locations
  BY DEF Located, FormsOnly, MinersFields
<1>3. QED
  BY <1>1, <1>2 DEF Located

\* The menu of providers opens at a location.
LEMMA OpenStep ==
  ASSUME TypeInv, Located, NEW d \in Dialogs, NEW location \in Locations, HandleOpen(d, location)
  PROVE  LET c == MinersCall(d, location, 0) IN
         /\ TypeInv' /\ Located' /\ UNCHANGED <<pageVars, menuVars>>
         /\ Touches({}, {}, {}, {}, {"Miners"})
         /\ \A e \in Dialogs \ {d} : deal'[e] = deal[e]
         /\ deal'[d].parentName = location /\ deal'[d].tableData = <<>> /\ deal'[d].page = 0
         /\ deal'[d].total = PageSize /\ deal'[d].fresh
         /\ calls' = Overtaken(OfDialog(d, {"Miners"})) \o <<c>> /\ IsCall(c)
<1> DEFINE c == MinersCall(d, location, 0)
           cs == <<c>>
           js == OfDialog(d, {"Miners"})
           ops == {"Miners"}
           f == [deal[d] EXCEPT !.tableData = <<>>, !.page = 0, !.total = PageSize,
                                !.parentName = location, !.fresh = TRUE]
<1>1. /\ DOMAIN deal = Dialogs /\ (\A e \in Dialogs : IsDeal(deal[e])) /\ CallsOK
      /\ \A x \in Of(calls) : x.op = "Miners" => x.arg.dialog \in Dialogs
  BY DEF TypeInv, CallsOK, IsCall, IsArg, DealArg, DealOps
<1>2. UNCHANGED <<pageVars, menuVars>> /\ deal' = [deal EXCEPT ![d] = f]
      /\ calls' = Overtaken(js) \o cs
  BY DEF HandleOpen, DealStays, UserOvertakes
<1>3. /\ DOMAIN f = DOMAIN DealView /\ f.tableData = <<>> /\ f.page = 0 /\ f.total = PageSize
      /\ f.parentName = location /\ f.fresh
  BY <1>1 DEF IsDeal, DealView
<1> HIDE DEF f
<1>4. IsDeal(f)
  BY <1>3, Empty, DealBounds DEF IsDeal
<1>5. DOMAIN deal' = Dialogs /\ \A e \in Dialogs : deal'[e] = IF e = d THEN f ELSE deal[e]
  BY <1>1, <1>2
<1>6. IsCall(c) /\ c.op = "Miners" /\ c.arg.dialog = d
  <2>1. 0 \in Nat
    OBVIOUS
  <2>2. QED
    BY <2>1, NewMinersCall
<1> HIDE DEF c
<1>7. Sequence(cs) /\ Of(cs) = {c}
  BY Single
<1>8. js \subseteq Outstanding(ops)
  BY DEF OfDialog
<1> HIDE DEF cs, js
<1>9. CallsOK' /\ Spared(AllOps \ ops)
  <2>1. \A x \in Of(cs) : IsCall(x) /\ x.op \in ops
    BY <1>6, <1>7
  <2> HIDE DEF ops
  <2>2. QED
    BY <1>1, <1>2, <1>7, <1>8, <2>1, SendStep
<1>10. TypeInv'
  BY <1>1, <1>2, <1>4, <1>5, <1>9 DEF TypeInv, pageVars, menuVars
<1>11. ASSUME NEW x \in Of(calls'), x.op = "Miners" PROVE deal'[x.arg.dialog].parentName \in Locations
  <2>1. Requests
    BY <1>1, CallsAreRequests
  <2>2. x = c \/ \E k \in DOMAIN calls : IsNow(x, calls[k], k \in js)
    BY <1>2, <1>7, <2>1, SentOf
  <2>3. CASE x = c
    BY <1>3, <1>5, <1>6, <2>3
  <2>4. CASE \E k \in DOMAIN calls : IsNow(x, calls[k], k \in js)
    <3>1. PICK k \in DOMAIN calls : x.op = calls[k].op /\ x.arg = calls[k].arg
      BY <2>4 DEF IsNow
    <3>2. calls[k] \in Of(calls)
      BY DEF Of
    <3>3. QED
      BY <1>1, <1>3, <1>5, <1>11, <3>1, <3>2 DEF Located
  <2>5. QED
    BY <2>2, <2>3, <2>4
<1>12. Located'
  BY <1>3, <1>5, <1>11 DEF Located
<1>13. QED
  BY <1>2, <1>3, <1>5, <1>6, <1>9, <1>10, <1>12 DEF Touches, Sets, pageVars, c, cs, js

\* The menu is scrolled to its end.
LEMMA LoadStep ==
  ASSUME TypeInv, Located, NEW d \in Dialogs, LoadMore(d)
  PROVE  LET f == deal[d]
             c == MinersCall(d, f.parentName, f.page + 1)
         IN
         /\ TypeInv' /\ Located' /\ UNCHANGED <<pageVars, menuVars>>
         /\ Touches({}, {}, {}, {}, {"Miners"})
         /\ f.tableData # <<>> /\ f.loadSign /\ f.parentName \in Locations
         /\ \A e \in Dialogs \ {d} : deal'[e] = deal[e]
         /\ \A k \in MinersFields \ {"page", "loadSign"} : deal'[d][k] = f[k]
         /\ deal'[d].page = f.page + 1 /\ ~deal'[d].loadSign
         /\ IsCall(c)
         /\ \/ (f.page + 1) * PageSize >= f.total /\ calls' = calls
            \/ ~((f.page + 1) * PageSize >= f.total) /\ UserSends(<<c>>)
<1> DEFINE f == deal[d]
           page == f.page + 1
           c == MinersCall(d, f.parentName, page)
           g == [f EXCEPT !.loadSign = FALSE, !.page = page]
<1>1. /\ DOMAIN deal = Dialogs /\ (\A e \in Dialogs : IsDeal(deal[e])) /\ CallsOK
      /\ \A x \in Of(calls) : x.op = "Miners" => x.arg.dialog \in Dialogs
  BY DEF TypeInv, CallsOK, IsCall, IsArg, DealArg, DealOps
<1>2. /\ UNCHANGED <<pageVars, menuVars>> /\ deal' = [deal EXCEPT ![d] = g]
      /\ f.tableData # <<>> /\ f.loadSign
      /\ \/ page * PageSize >= f.total /\ UserActs
         \/ ~(page * PageSize >= f.total) /\ UserSends(<<c>>)
  BY <1>1 DEF LoadMore, DealStays, ScrolledToEnd
<1>3. f.parentName \in Locations
  BY <1>2 DEF Located
<1>4. /\ DOMAIN g = DOMAIN DealView /\ g.page = page /\ ~g.loadSign
      /\ \A k \in MinersFields \ {"page", "loadSign"} : g[k] = f[k]
  BY <1>1 DEF IsDeal, DealView, MinersFields
<1> HIDE DEF g
<1>5. g.tableData = f.tableData /\ g.total = f.total /\ g.parentName = f.parentName
  BY <1>4 DEF MinersFields
<1>6. IsDeal(g)
  BY <1>1, <1>4, <1>5 DEF IsDeal
<1>7. DOMAIN deal' = Dialogs /\ \A e \in Dialogs : deal'[e] = IF e = d THEN g ELSE deal[e]
  BY <1>1, <1>2
<1>8. IsCall(c) /\ c.op = "Miners" /\ c.arg.dialog = d
  <2>1. page \in Nat
    BY <1>1 DEF IsDeal
  <2> HIDE DEF page
  <2>2. QED
    BY <1>3, <2>1, NewMinersCall
<1>9. /\ CallsOK' /\ Spared(AllOps \ {"Miners"}) /\ (UserActs => calls' = calls)
      /\ \A x \in Of(calls') : x \in Of(calls) \/ x = c
  <2>1. CASE UserActs
    BY <1>1, <2>1, QuietStep, UserActed
  <2>2. CASE UserSends(<<c>>)
    <3> DEFINE cs == <<c>>
    <3> HIDE DEF c
    <3>1. Sequence(cs) /\ Of(cs) = {c}
      BY Single
    <3>2. calls' = calls \o cs
      BY <2>2 DEF UserSends
    <3> HIDE DEF cs
    <3>3. Of(calls') = Of(calls) \cup {c}
      BY <1>1, <3>1, <3>2, Joined DEF CallsOK
    <3>4. QED
      BY <1>1, <1>8, <2>2, <3>3, UserAsks, UserActed
  <2>3. QED
    BY <1>2, <2>1, <2>2
<1> HIDE DEF c
<1>10. TypeInv'
  BY <1>1, <1>2, <1>6, <1>7, <1>9 DEF TypeInv, pageVars, menuVars
<1>11. Located'
  BY <1>1, <1>3, <1>5, <1>7, <1>8, <1>9 DEF Located
<1>12. QED
  BY <1>2, <1>3, <1>4, <1>7, <1>8, <1>9, <1>10, <1>11 DEF Touches, Sets, pageVars, c

\* A dialog is closed.
LEMMA ReloadStep ==
  ASSUME TypeInv, Located, NEW d \in Dialogs, GetDiglogChange(d)
  PROVE  /\ TypeInv' /\ Located' /\ UNCHANGED <<stored, home, fs3, share, shown, picked, menuVars>>
         /\ SideOf(open') \subseteq SideOf(open)
         /\ Touches({}, {}, {}, {}, DealOps)
         /\ \A e \in Dialogs \ {d} : deal'[e] = deal[e]
         /\ deal'[d] = DealView
         /\ calls' = Only(calls, DOMAIN calls \ OfDialog(d, DealOps))
         /\ Of(calls') = {calls[i] : i \in DOMAIN calls \ OfDialog(d, DealOps)}
<1> DEFINE is == DOMAIN calls \ OfDialog(d, DealOps)
<1>1. /\ DOMAIN deal = Dialogs /\ (\A e \in Dialogs : IsDeal(deal[e])) /\ CallsOK
      /\ \A x \in Of(calls) : x.op = "Miners" => x.arg.dialog \in Dialogs
  BY DEF TypeInv, CallsOK, IsCall, IsArg, DealArg, DealOps
<1>2. /\ UNCHANGED <<stored, home, fs3, share, shown, picked, menuVars>>
      /\ open' = open \ {d} /\ deal' = [deal EXCEPT ![d] = DealView] /\ calls' = Only(calls, is)
  BY DEF GetDiglogChange, Reloaded, reload, PageStays
<1>3. IsDeal(DealView) /\ DealView.tableData = <<>>
  BY Empty, DealBounds DEF DealView, IsDeal
<1>4. DOMAIN deal' = Dialogs /\ \A e \in Dialogs : deal'[e] = IF e = d THEN DealView ELSE deal[e]
  BY <1>1, <1>2
<1>5. \A k \in DOMAIN calls : k \notin is => calls[k].op \in DealOps
  BY DEF OfDialog, Outstanding
<1>6. \A k \in is : calls[k].op = "Miners" => calls[k].arg.dialog # d
  BY DEF OfDialog, Outstanding, DealOps
<1>7. Sequence(calls) /\ {i \in DOMAIN calls : i \in is} = is
  BY <1>1 DEF CallsOK
<1> HIDE DEF is
<1>8. Sequence(calls') /\ Of(calls') = {calls[i] : i \in is}
  BY <1>2, <1>7, OnlyAll
<1>9. is \subseteq DOMAIN calls
  BY <1>7
<1>10. CallsOK' /\ \A c \in Of(calls') : c \in Of(calls)
  BY <1>1, <1>8, <1>9 DEF CallsOK, Of
<1>11. Spared(AllOps \ DealOps)
  <2>1. \A k \in DOMAIN calls : calls[k].op \in AllOps \ DealOps => k \in is
    BY <1>5
  <2>2. QED
    BY <1>1, <1>2, <2>1, CallsAreRequests, SparedIfOnly
<1>12. TypeInv'
  BY <1>1, <1>2, <1>3, <1>4, <1>10 DEF TypeInv, menuVars
<1>13. Located'
  <2>1. ASSUME NEW x \in Of(calls'), x.op = "Miners" PROVE deal'[x.arg.dialog].parentName \in Locations
    <3>1. x \in Of(calls) /\ x.arg.dialog \in Dialogs \ {d}
      BY <1>1, <1>6, <1>8, <1>10, <2>1
    <3>2. QED
      BY <1>4, <2>1, <3>1 DEF Located
  <2>2. QED
    BY <1>3, <1>4, <2>1 DEF Located
<1>14. SideOf(open') \subseteq SideOf(open)
  BY <1>2 DEF SideOf
<1>15. QED
  BY <1>2, <1>4, <1>8, <1>11, <1>12, <1>13, <1>14 DEF Touches, Sets, is

----------------------------------------------------------------------------
(* FS3.                                                                    *)

LEMMA AllBuckets ==
  ASSUME NEW buckets
  PROVE  AreBuckets(ListOf(buckets))
<1> DEFINE s == [b \in Buckets |-> b]
<1>1. MaxBuckets \in Nat /\ Buckets = 1..MaxBuckets
  BY PageBounds DEF Buckets
<1>2. s = [k \in 1..MaxBuckets |-> s[k]] /\ \A k \in Buckets : s[k] = k
  BY <1>1
<1>3. ListOf(buckets) = Only(s, buckets)
  BY DEF ListOf
<1> HIDE DEF s
<1>4. Sequence(s) /\ DOMAIN s = Buckets
  BY <1>1, <1>2, Numbered
<1>5. /\ Sequence(Only(s, buckets))
      /\ \A c \in Of(Only(s, buckets)) : \E i \in DOMAIN s : i \in buckets /\ c = s[i]
  BY <1>4, OnlyOf
<1> DEFINE r == Only(s, buckets)
<1>6. ASSUME NEW c \in Of(r) PROVE c \in Buckets
  <2>1. PICK i \in DOMAIN s : c = s[i]
    BY <1>5
  <2>2. i \in Buckets
    BY <1>4
  <2>3. QED
    BY <1>2, <2>1, <2>2
<1>7. Sequence(r)
  BY <1>5
<1> HIDE DEF r
<1>8. AreBuckets(r)
  BY <1>6, <1>7 DEF AreBuckets
<1>9. QED
  BY <1>3, <1>8 DEF r

\* FS3 answers, and does nothing else.
Answering(i) == \/ ListBuckets(i) \/ ListObjects(i) \/ PresignedGet(i) \/ Told(i)
                \/ ListAllBucketPolicies(i) \/ BucketDeals(i) \/ ServeMiners(i) \/ PostDeal(i)
Elsewhere == UNCHANGED <<pageVars, menuVars, deal, sent>>
LEMMA AnsweringStep ==
  ASSUME TypeInv, NEW i \in DOMAIN calls, Answering(i), Elsewhere
  PROVE  /\ TypeInv' /\ Touches({}, {}, {}, {}, {calls[i].op})
         /\ calls[i].state = "sent"
         /\ \E data : Reply(i, data) /\ Answers(calls[i].op, calls[i].arg, data)
<1>1. /\ CallsOK /\ IsStore(stored) /\ IsCall(calls[i])
  BY CallAt DEF TypeInv
<1>2. IsArg(calls[i].op, calls[i].arg)
  BY <1>1 DEF IsCall
<1>3. /\ calls[i].state = "sent"
      /\ \E data : Reply(i, data) /\ Answers(calls[i].op, calls[i].arg, data)
  <2>1. CASE ListBuckets(i)
    <3> DEFINE data == [buckets |-> ListOf(DOMAIN stored)]
    <3>1. IsSent(i, "ListBuckets") /\ Reply(i, data)
      BY <2>1 DEF ListBuckets
    <3>2. AreBuckets(data.buckets)
      BY AllBuckets
    <3> HIDE DEF data
    <3>3. Answers("ListBuckets", calls[i].arg, data)
      BY <3>2 DEF Answers
    <3>4. QED
      BY <3>1, <3>3 DEF IsSent
  <2>2. CASE ListObjects(i)
    <3> DEFINE a == calls[i].arg
               rows == Listing(a.bucket, a.prefix)
               data == [ok |-> IsBucket(a.bucket), rows |-> rows]
    <3>1. IsSent(i, "ListObjects") /\ Reply(i, data)
      BY <2>2 DEF ListObjects
    <3>2. a.prefix \in Seq(STRING)
      BY <1>2, <3>1 DEF IsSent, IsArg, PageArg
    <3> HIDE DEF a
    <3>3. IsListing(rows, a.prefix)
      BY <1>1, <3>2, ListingRows
    <3> HIDE DEF rows
    <3>4. data.rows = rows /\ (data.ok => Len(a.bucket) = 1)
      BY DEF IsBucket
    <3> HIDE DEF data
    <3>5. Answers("ListObjects", a, data)
      BY <3>3, <3>4 DEF Answers
    <3>6. QED
      BY <3>1, <3>5 DEF IsSent, a
  <2>3. CASE PresignedGet(i)
    <3> DEFINE data == [calls[i].arg EXCEPT !.expiry = Expiry(@)]
    <3>1. IsSent(i, "PresignedGet") /\ Reply(i, data)
      BY <2>3 DEF PresignedGet
    <3>2. Answers("PresignedGet", calls[i].arg, data)
      BY DEF Answers
    <3> HIDE DEF data
    <3>3. QED
      BY <3>1, <3>2 DEF IsSent
  <2>4. CASE Told(i)
    <3>1. Reply(i, calls[i].arg) /\ calls[i].state = "sent"
          /\ calls[i].op \in {"CreateURLToken", "Retrieve", "StorageInfo", "ServerInfo"}
      BY <2>4 DEF Told, IsSent
    <3>2. Answers(calls[i].op, calls[i].arg, calls[i].arg)
      BY <3>1 DEF Answers
    <3>3. QED
      BY <3>1, <3>2
  <2>5. CASE ListAllBucketPolicies(i)
    <3>1. PICK data : Reply(i, data)
      BY <2>5 DEF ListAllBucketPolicies
    <3>2. IsSent(i, "ListAllBucketPolicies") /\ Answers("ListAllBucketPolicies", calls[i].arg, data)
      BY <2>5 DEF ListAllBucketPolicies, Answers
    <3>3. QED
      BY <3>1, <3>2 DEF IsSent
  <2>6. CASE BucketDeals(i)
    <3>1. IsSent(i, "BucketDeals") /\ Reply(i, calls[i].arg)
      BY <2>6 DEF BucketDeals
    <3>2. Answers("BucketDeals", calls[i].arg, calls[i].arg)
      BY DEF Answers
    <3>3. QED
      BY <3>1, <3>2 DEF IsSent
  <2>7. CASE ServeMiners(i)
    <3> DEFINE data == [total |-> Miners[calls[i].arg.location]]
    <3>1. IsSent(i, "Miners") /\ Reply(i, data)
      BY <2>7 DEF ServeMiners
    <3>2. Answers("Miners", calls[i].arg, data)
      BY DEF Answers
    <3> HIDE DEF data
    <3>3. QED
      BY <3>1, <3>2 DEF IsSent
  <2>8. CASE PostDeal(i)
    <3>1. Reply(i, [of |-> calls[i].arg.adress]) /\ calls[i].state = "sent" /\ calls[i].op \in DealApis
      BY <2>8 DEF PostDeal, Outstanding
    <3>2. Answers(calls[i].op, calls[i].arg, [of |-> calls[i].arg.adress])
      BY <3>1 DEF Answers, DealApis
    <3>3. QED
      BY <3>1, <3>2
  <2>9. QED
    BY <2>1, <2>2, <2>3, <2>4, <2>5, <2>6, <2>7, <2>8 DEF Answering
<1>4. CallsOK' /\ Spared(AllOps \ {calls[i].op})
  BY <1>1, <1>3, AnswerStep
<1>5. QED
  BY <1>3, <1>4 DEF TypeInv, Touches, Sets, Elsewhere, pageVars, menuVars

\* FS3 changes what is stored.
LEMMA ChangesStep ==
  ASSUME CallsOK, NEW i \in DOMAIN calls, calls[i].state = "sent", NEW data, NEW new, NEW few,
         Changes(i, data, new, few), Answers(calls[i].op, calls[i].arg, data),
         NEW ops, few \subseteq ops, calls[i].op \in ops
  PROVE  CallsOK' /\ Spared(AllOps \ ops) /\ stored' = new
<1>1. ReplyOvertakes(i, Past(few), data) /\ stored' = new
  BY DEF Changes
<1>2. /\ \A k \in Past(few) : k \in DOMAIN calls /\ calls[k].state = "answered"
      /\ Past(few) \subseteq Outstanding(ops)
  BY DEF Past, Outstanding
<1>3. QED
  BY <1>1, <1>2, ReplyStep

\* FS3 refuses to.
LEMMA RefusesStep ==
  ASSUME CallsOK, NEW i \in DOMAIN calls, calls[i].state = "sent", NEW data, Reply(i, data),
         Answers(calls[i].op, calls[i].arg, data), NEW ops, calls[i].op \in ops
  PROVE  CallsOK' /\ Spared(AllOps \ ops)
<1>1. CallsOK' /\ Spared(AllOps \ {calls[i].op})
  BY AnswerStep
<1>2. AllOps \ ops \subseteq AllOps \ {calls[i].op}
  OBVIOUS
<1>3. QED
  BY <1>1, <1>2, SparedFewer

Stores(i) == MakeBucket(i) \/ RemoveObject(i) \/ PutObject(i)
StoreOps == {"MakeBucket", "RemoveObject", "Upload", "ListObjects"}
LEMMA StoreStep ==
  ASSUME TypeInv, NEW i \in DOMAIN calls, Stores(i), Aside
  PROVE  /\ TypeInv' /\ UNCHANGED <<home, fs3, share, open, shown, picked>>
         /\ Touches({}, {}, {}, {}, StoreOps)
<1> DEFINE a == calls[i].arg
           ops == StoreOps
<1>1. CallsOK /\ IsStore(stored) /\ IsCall(calls[i])
  BY CallAt DEF TypeInv
<1>2. IsArg(calls[i].op, a) /\ calls[i].op \in StoreOps /\ calls[i].state = "sent"
  BY <1>1 DEF IsCall, Stores, MakeBucket, RemoveObject, PutObject, IsSent, StoreOps
<1>3. /\ UNCHANGED <<home, fs3, share, open, shown, picked>>
      /\ calls[i].op \in {"MakeBucket", "RemoveObject", "Upload"}
  BY DEF Stores, MakeBucket, RemoveObject, PutObject, Unserved, IsSent
<1>4. \A data : Answers(calls[i].op, a, data)
  BY <1>3 DEF Answers
<1>5. \/ \E data : Reply(i, data) /\ UNCHANGED stored
      \/ \E data, new, few : Changes(i, data, new, few) /\ few \subseteq ops /\ IsStore(new)
  <2>1. CASE MakeBucket(i)
    <3> DEFINE b == a.name[1]
               new == [c \in DOMAIN stored \cup {b} |-> IF c = b THEN {} ELSE stored[c]]
    <3>1. b \in Buckets
      <4>1. IsBucketName(a.name)
        BY <1>2, <2>1 DEF MakeBucket, IsSent, IsArg, PageArg
      <4>2. QED
        BY <4>1, BucketsArePaths
    <3>2. \/ Reply(i, [ok |-> FALSE]) /\ UNCHANGED stored
          \/ Changes(i, [ok |-> TRUE], new, {"ListObjects"})
      BY <2>1 DEF MakeBucket
    <3> HIDE DEF b
    <3>3. DOMAIN new = DOMAIN stored \cup {b} /\ \A c \in DOMAIN new : new[c] = IF c = b THEN {} ELSE stored[c]
      OBVIOUS
    <3> HIDE DEF new
    <3>4. IsStore(new)
      BY <1>1, <3>1, <3>3, FS_EmptySet DEF IsStore
    <3>5. {"ListObjects"} \subseteq ops
      BY DEF StoreOps
    <3>6. QED
      BY <3>2, <3>4, <3>5
  <2>2. CASE RemoveObject(i)
    <3> DEFINE b == a.bucket[1]
               new == [stored EXCEPT ![b] = {o \in @ : ~IsPrefix(a.name, o)}]
    <3>1. \/ Reply(i, [ok |-> FALSE]) /\ UNCHANGED stored
          \/ b \in DOMAIN stored /\ Changes(i, [ok |-> TRUE], new, {"ListObjects"})
      BY <2>2 DEF RemoveObject, IsBucket
    <3>2. DOMAIN new = DOMAIN stored
          /\ \A c \in DOMAIN stored : new[c] \subseteq stored[c]
      OBVIOUS
    <3> HIDE DEF b, new
    <3>3. IsStore(new)
      BY <1>1, <3>2, FS_Subset DEF IsStore
    <3>4. {"ListObjects"} \subseteq ops
      BY DEF StoreOps
    <3>5. QED
      BY <3>1, <3>3, <3>4
  <2>3. CASE PutObject(i)
    <3> DEFINE b == a.bucket[1]
               new == [stored EXCEPT ![b] = @ \cup {a.name}]
    <3>1. \/ Reply(i, [ok |-> FALSE]) /\ UNCHANGED stored
          \/ b \in DOMAIN stored /\ Changes(i, [ok |-> TRUE], new, {"ListObjects", "RemoveObject"})
      BY <2>3 DEF PutObject, IsBucket
    <3>2. a.name \in ObjectName
      BY <1>2, <2>3 DEF PutObject, IsSent, IsArg, PageArg
    <3>3. DOMAIN new = DOMAIN stored
          /\ \A c \in DOMAIN stored : new[c] = stored[c] \/ new[c] = stored[c] \cup {a.name}
      OBVIOUS
    <3> HIDE DEF b, new
    <3>4. IsStore(new)
      BY <1>1, <3>2, <3>3, FS_AddElement DEF IsStore
    <3>5. {"ListObjects", "RemoveObject"} \subseteq ops
      BY DEF StoreOps
    <3>6. QED
      BY <3>1, <3>4, <3>5
  <2>4. QED
    BY <2>1, <2>2, <2>3 DEF Stores
<1> HIDE DEF ops
<1>6. CallsOK' /\ Spared(AllOps \ ops) /\ IsStore(stored')
  <2>1. calls[i].op \in ops
    BY <1>2 DEF ops
  <2>2. CASE \E data : Reply(i, data) /\ UNCHANGED stored
    <3>1. PICK data : Reply(i, data) /\ UNCHANGED stored
      BY <2>2
    <3>2. QED
      BY <1>1, <1>2, <1>4, <2>1, <3>1, RefusesStep
  <2>3. CASE \E data, new, few : Changes(i, data, new, few) /\ few \subseteq ops /\ IsStore(new)
    <3>1. PICK data, new, few : Changes(i, data, new, few) /\ few \subseteq ops /\ IsStore(new)
      BY <2>3
    <3>2. QED
      BY <1>1, <1>2, <1>4, <2>1, <3>1, ChangesStep
  <2>4. QED
    BY <1>5, <2>2, <2>3
<1>7. QED
  BY <1>3, <1>6 DEF TypeInv, Touches, Sets, Aside, menuVars, ops

\* A policy is set.
SetOps == {"SetBucketPolicy", "ListAllBucketPolicies"}
LEMMA SetPolicyStep ==
  ASSUME TypeInv, NEW i \in DOMAIN calls, SetBucketPolicy(i), UNCHANGED deal
  PROVE  /\ TypeInv' /\ UNCHANGED <<pageVars, slide>> /\ Touches({}, {}, {}, {}, SetOps)
<1> DEFINE a == calls[i].arg
           few == {"ListAllBucketPolicies"}
           new == IF a.policy = "none" THEN {} ELSE {<<a.prefix, a.policy>>}
           b == a.bucket[1]
<1>1. CallsOK /\ DOMAIN policies = Buckets
  BY DEF TypeInv
<1>2. calls[i].state = "sent" /\ calls[i].op = "SetBucketPolicy" /\ UNCHANGED <<pageVars, slide>>
  BY DEF SetBucketPolicy, IsSent, Served
<1>3. \A data : Answers(calls[i].op, a, data)
  BY <1>2 DEF Answers
<1>4. \/ Reply(i, [ok |-> FALSE]) /\ UNCHANGED policies
      \/ DOMAIN policies' = Buckets /\ ReplyOvertakes(i, Past(few), [ok |-> TRUE])
  BY <1>1 DEF SetBucketPolicy
<1> DEFINE ops == SetOps
<1>5. few \subseteq ops /\ calls[i].op \in ops
  BY <1>2 DEF SetOps
<1> HIDE DEF ops, few
<1>6. CallsOK' /\ Spared(AllOps \ ops)
  <2>1. CASE Reply(i, [ok |-> FALSE])
    BY <1>1, <1>2, <1>3, <1>5, <2>1, RefusesStep
  <2>2. CASE ReplyOvertakes(i, Past(few), [ok |-> TRUE])
    <3>1. /\ \A k \in Past(few) : k \in DOMAIN calls /\ calls[k].state = "answered"
          /\ Past(few) \subseteq Outstanding(ops)
      BY <1>5 DEF Past, Outstanding
    <3>2. QED
      BY <1>1, <1>2, <1>3, <1>5, <2>2, <3>1, ReplyStep
  <2>3. QED
    BY <1>4, <2>1, <2>2
<1>7. DOMAIN policies' = Buckets
  BY <1>1, <1>4
<1>8. QED
  BY <1>2, <1>6, <1>7 DEF TypeInv, Touches, Sets, pageVars, ops

\* A bucket is deleted.
DeleteOps == {"DeleteBucket", "ListObjects", "ListAllBucketPolicies"}
Deleted(b) == /\ b \in DOMAIN stored /\ stored[b] = {}
              /\ stored' = [c \in DOMAIN stored \ {b} |-> stored[c]]
              /\ policies' = [policies EXCEPT ![b] = {}]
              /\ slide'.fresh => slide.fresh /\ slide.titlePolicy # <<b>>
LEMMA DeleteStep ==
  ASSUME TypeInv, NEW i \in DOMAIN calls, DeleteBucket(i), UNCHANGED deal
  PROVE  /\ TypeInv' /\ UNCHANGED <<home, fs3, share, open, shown, picked>>
         /\ Touches({}, {}, {}, {}, DeleteOps)
         /\ \/ UNCHANGED <<stored, menuVars>> /\ Reply(i, [ok |-> FALSE])
            \/ /\ \E b : Deleted(b)
               /\ Changes(i, [ok |-> TRUE], stored', {"ListObjects", "ListAllBucketPolicies"})
         /\ Sets(slide, slide', {"fresh"})
<1> DEFINE a == calls[i].arg
           b == a.bucket[1]
           few == {"ListObjects", "ListAllBucketPolicies"}
<1>1. CallsOK /\ DOMAIN policies = Buckets /\ IsStore(stored) /\ IsSlide(slide) /\ IsCall(calls[i])
  BY CallAt DEF TypeInv
<1>2. /\ calls[i].state = "sent" /\ calls[i].op = "DeleteBucket"
      /\ UNCHANGED <<home, fs3, share, open, shown, picked>>
  BY DEF DeleteBucket, IsSent, Unserved
<1>3. \A data : Answers(calls[i].op, a, data)
  BY <1>2 DEF Answers
<1>4. a.bucket = <<b>>
  <2>1. \E n : a.bucket = <<n>>
    BY <1>1, <1>2 DEF IsCall, IsArg, MenuArg
  <2>2. QED
    BY <2>1, BucketPath
<1>5. \/ UNCHANGED <<stored, menuVars>> /\ Reply(i, [ok |-> FALSE])
      \/ /\ b \in DOMAIN stored /\ stored[b] = {}
         /\ Changes(i, [ok |-> TRUE], [c \in DOMAIN stored \ {b} |-> stored[c]], few)
         /\ policies' = [policies EXCEPT ![b] = {}]
         /\ slide' = [slide EXCEPT !.fresh = @ /\ a.bucket # slide.titlePolicy]
  BY DEF DeleteBucket, IsBucket
<1> HIDE DEF b
<1>6. \/ UNCHANGED <<stored, menuVars>> /\ Reply(i, [ok |-> FALSE])
      \/ Deleted(b) /\ Changes(i, [ok |-> TRUE], stored', few)
  <2>1. ASSUME slide' = [slide EXCEPT !.fresh = @ /\ a.bucket # slide.titlePolicy], slide'.fresh
        PROVE  slide.fresh /\ slide.titlePolicy # <<b>>
    BY <1>1, <1>4, <2>1 DEF IsSlide, SlideFields
  <2>2. CASE UNCHANGED <<stored, menuVars>> /\ Reply(i, [ok |-> FALSE])
    BY <2>2
  <2>3. CASE ~(UNCHANGED <<stored, menuVars>> /\ Reply(i, [ok |-> FALSE]))
    <3>1. /\ b \in DOMAIN stored /\ stored[b] = {}
          /\ Changes(i, [ok |-> TRUE], [c \in DOMAIN stored \ {b} |-> stored[c]], few)
          /\ policies' = [policies EXCEPT ![b] = {}]
          /\ slide' = [slide EXCEPT !.fresh = @ /\ a.bucket # slide.titlePolicy]
      BY <1>5, <2>3
    <3>2. stored' = [c \in DOMAIN stored \ {b} |-> stored[c]]
      BY <3>1 DEF Changes
    <3>3. Changes(i, [ok |-> TRUE], stored', few)
      BY <3>1, <3>2 DEF Changes
    <3>4. QED
      BY <2>1, <3>1, <3>2, <3>3 DEF Deleted
  <2>4. QED
    BY <2>2, <2>3
<1>7. Sets(slide, slide', {"fresh"}) /\ IsSlide(slide')
  BY <1>1, <1>5 DEF IsSlide, SlideFields, Sets, menuVars
<1>8. IsStore(stored') /\ DOMAIN policies' = Buckets
  BY <1>1, <1>6 DEF IsStore, Deleted, menuVars
<1> DEFINE ops == DeleteOps
<1>9. few \subseteq ops /\ calls[i].op \in ops
  BY <1>2 DEF DeleteOps
<1> HIDE DEF ops, few
<1>10. CallsOK' /\ Spared(AllOps \ ops)
  <2>1. CASE Reply(i, [ok |-> FALSE])
    BY <1>1, <1>2, <1>3, <1>9, <2>1, RefusesStep
  <2>2. CASE ~Reply(i, [ok |-> FALSE])
    <3>1. ReplyOvertakes(i, Past(few), [ok |-> TRUE])
      BY <1>6, <2>2 DEF Changes
    <3>2. /\ \A k \in Past(few) : k \in DOMAIN calls /\ calls[k].state = "answered"
          /\ Past(few) \subseteq Outstanding(ops)
      BY <1>9 DEF Past, Outstanding
    <3>3. QED
      BY <1>1, <1>2, <1>3, <1>9, <3>1, <3>2, ReplyStep
  <2>3. QED
    BY <2>1, <2>2
<1>11. QED
  BY <1>2, <1>6, <1>7, <1>8, <1>10 DEF TypeInv, Touches, Sets, ops, few

----------------------------------------------------------------------------
(* The handlers of the page.                                               *)

\* What FS3 says of itself.
InfoRead(i) == StorageInfoRead(i) \/ ServerInfoRead(i)
LEMMA InfoStep ==
  ASSUME TypeInv, NEW i \in DOMAIN calls, InfoRead(i), Aside
  PROVE  /\ TypeInv' /\ UNCHANGED <<stored, fs3, share, open, shown, picked>>
         /\ Touches({"userd", "aboutServer"}, {}, {}, {}, {"StorageInfo", "ServerInfo"})
<1>1. CallsOK /\ IsHome(home)
  BY DEF TypeInv
<1>2. /\ UNCHANGED <<stored, fs3, share, open, shown, picked>> /\ Done(i, <<>>)
      /\ calls[i].op \in {"StorageInfo", "ServerInfo"}
  BY DEF InfoRead, StorageInfoRead, ServerInfoRead, IsAnswered
<1>3. DOMAIN home' = HomeFields /\ \A k \in HomeFields \ {"userd", "aboutServer"} : home'[k] = home[k]
  BY <1>1 DEF InfoRead, StorageInfoRead, ServerInfoRead, IsHome, HomeFields
<1>4. /\ home'.minioListBuckets = home.minioListBuckets /\ home'.oloaded = home.oloaded
      /\ home'.currentBucket = home.currentBucket /\ home'.prefixData = home.prefixData
  BY <1>3 DEF HomeFields
<1>5. IsHome(home') /\ Sets(home, home', {"userd", "aboutServer"})
  BY <1>1, <1>3, <1>4 DEF IsHome, Sets
<1>6. CallsOK' /\ Spared(AllOps \ {calls[i].op})
  BY <1>1, <1>2, LastStep
<1>7. AllOps \ {"StorageInfo", "ServerInfo"} \subseteq AllOps \ {calls[i].op}
  BY <1>2
<1>8. Spared(AllOps \ {"StorageInfo", "ServerInfo"})
  BY <1>6, <1>7, SparedFewer
<1>9. QED
  BY <1>2, <1>5, <1>6, <1>8 DEF TypeInv, Touches, Sets, Aside, menuVars

\* Home goes to the bucket b, and the page follows.
Follows(b) ==
    /\ home'.currentBucket = b
    /\ Sets(fs3, fs3', {"currentBucketAll"})
    /\ fs3'.currentBucketAll = IF b = home.currentBucket THEN fs3.currentBucketAll ELSE b
    /\ Sets(share, share', {"calm"})
    /\ share'.calm => share.calm /\ (b = home.currentBucket \/ share.mode = "deal")
    /\ Sets(picked, picked', {"calm"}) /\ (picked'.calm => picked.calm /\ b = home.currentBucket)
    /\ shown'.settled => shown.settled /\ b = home.currentBucket
LEMMA FollowsTypes ==
  ASSUME TypeInv, NEW b, IsPath(b), home'.currentBucket = b, fs3' = Watched(fs3, b), Moved(b),
         IsHome(home'), Sets(shown, shown', {"settled", "followed", "fresh"}),
         shown'.settled = Still(b), CallsOK', UNCHANGED stored, Aside
  PROVE  TypeInv' /\ Follows(b)
<1>1. /\ IsFs3(fs3) /\ IsShare(share) /\ DOMAIN picked = {"names", "at", "calm"} /\ IsShown(shown)
  BY DEF TypeInv
<1>2. /\ IsFs3(fs3') /\ Sets(fs3, fs3', {"currentBucketAll"})
      /\ fs3'.currentBucketAll = IF b = home.currentBucket THEN fs3.currentBucketAll ELSE b
  BY <1>1, WatchSees
<1>3. /\ IsShare(share') /\ Sets(share, share', {"calm"})
      /\ share'.calm => share.calm /\ (b = home.currentBucket \/ share.mode = "deal")
      /\ Sets(picked, picked', {"calm"})
      /\ picked'.calm => picked.calm /\ b = home.currentBucket
  BY <1>1, Moves
<1>4. Follows(b)
  BY <1>2, <1>3 DEF Follows, Still
<1>5. IsShown(shown') /\ DOMAIN picked' = {"names", "at", "calm"}
  BY <1>1, <1>3 DEF IsShown, Sets
<1>6. TypeInv'
  BY <1>2, <1>3, <1>5 DEF TypeInv, Aside, menuVars
<1>7. QED
  BY <1>4, <1>6

\* Buckets are listed.
BucketsTo(b) == /\ b = <<>> \/ IsBucketName(b)
                /\ Follows(b)
                /\ home'.prefixData = IF b # <<>> THEN <<>> ELSE home.prefixData
                /\ shown'.followed => /\ shown.followed /\ fs3'.currentBucketAll = b
                                      /\ fs3.prefixName = <<>>
LEMMA BucketsListedStep ==
  ASSUME TypeInv, NEW i \in DOMAIN calls, BucketsListed(i), Aside
  PROVE  /\ TypeInv' /\ stored' = stored /\ SideOf(open') \subseteq SideOf(open)
         /\ Touches({"minioListBuckets", "menu", "currentBucket", "prefixData"},
                    {"currentBucketAll"}, {"calm"}, {"settled", "followed"},
                    {"ListBuckets", "ListObjects"})
         /\ \E b : /\ BucketsTo(b)
                   /\ Done(i, IF b # <<>> THEN <<ListCall(b, <<>>)>> ELSE <<>>)
         /\ calls[i].op = "ListBuckets"
<1> DEFINE buckets == Answer(i).buckets
           first == IF buckets = <<>> THEN <<>> ELSE <<Head(buckets)>>
           name == calls[i].arg.name
           b == IF name # <<>> THEN name ELSE first
           p == IF b # <<>> THEN <<>> ELSE home.prefixData
           cs == IF b # <<>> THEN <<ListCall(b, <<>>)>> ELSE <<>>
           ops == {"ListBuckets", "ListObjects"}
<1>1. /\ CallsOK /\ IsHome(home) /\ IsCall(calls[i]) /\ IsShown(shown) /\ IsFs3(fs3)
      /\ IsShare(share)
  BY CallAt DEF TypeInv
<1>2. calls[i].op = "ListBuckets" /\ calls[i].state = "answered"
  BY DEF BucketsListed, IsAnswered
<1>3. /\ home' = [home EXCEPT !.minioListBuckets = buckets, !.menu = buckets,
                              !.currentBucket = b, !.prefixData = p]
      /\ fs3' = Watched(fs3, b) /\ Done(i, cs) /\ open' = open \ {"menu"} /\ Moved(b)
      /\ shown' = [shown EXCEPT !.settled = Still(b),
             !.followed = @ /\ fs3'.currentBucketAll = b /\ fs3.prefixName = <<>>]
      /\ UNCHANGED stored
  BY <1>1 DEF BucketsListed, GetMinioData, IsHome, HomeFields
<1>4. AreBuckets(buckets) /\ (name = <<>> \/ IsBucketName(name))
  <2>1. Answers("ListBuckets", calls[i].arg, calls[i].reply) /\ IsArg("ListBuckets", calls[i].arg)
    BY <1>1, <1>2 DEF IsCall
  <2>2. QED
    BY <2>1 DEF Answers, IsArg, PageArg, Answer
<1>5. b = <<>> \/ IsBucketName(b)
  <2> HIDE DEF buckets, name
  <2>1. ASSUME buckets # <<>> PROVE Head(buckets) \in Buckets
    <3>1. buckets \in Seq(Of(buckets)) /\ Of(buckets) \subseteq Buckets
      BY <1>4 DEF AreBuckets, Sequence
    <3>2. Head(buckets) \in Of(buckets)
      BY <2>1, <3>1, HeadTailProperties
    <3>3. QED
      BY <3>1, <3>2
  <2>2. QED
    BY <1>4, <2>1 DEF IsBucketName
<1> HIDE DEF buckets, name, b
<1>6. IsPath(b)
  BY <1>5, NoPath, BucketsArePaths
<1>7. p \in Seq(STRING)
  BY <1>1, EmptySeq DEF IsHome
<1> HIDE DEF p
<1>8. /\ DOMAIN home' = HomeFields /\ home'.minioListBuckets = buckets
      /\ home'.currentBucket = b /\ home'.prefixData = p /\ home'.oloaded = home.oloaded
      /\ \A k \in HomeFields \ {"minioListBuckets", "menu", "currentBucket", "prefixData"} :
           home'[k] = home[k]
  BY <1>1, <1>3 DEF IsHome, HomeFields
<1>9. /\ IsHome(home')
      /\ Sets(home, home', {"minioListBuckets", "menu", "currentBucket", "prefixData"})
  BY <1>1, <1>4, <1>6, <1>7, <1>8 DEF IsHome, Sets
<1>10. /\ Sets(shown, shown', {"settled", "followed"}) /\ shown'.settled = Still(b)
       /\ shown'.followed => /\ shown.followed /\ fs3'.currentBucketAll = b
                             /\ fs3.prefixName = <<>>
  <2> DEFINE u == Still(b)
             v == shown.followed /\ fs3'.currentBucketAll = b /\ fs3.prefixName = <<>>
  <2>1. shown' = [shown EXCEPT !.settled = u, !.followed = v]
    BY <1>3
  <2> HIDE DEF u, v
  <2>2. Sets(shown, shown', {"settled", "followed"}) /\ shown'.settled = u /\ shown'.followed = v
    BY <1>1, <2>1 DEF IsShown, ShownFields, Sets
  <2>3. QED
    BY <2>2 DEF u, v
<1>11. Sequence(cs) /\ \A c \in Of(cs) : IsCall(c) /\ c.op \in ops
  <2>1. CASE b = <<>>
    BY <2>1, Empty
  <2>2. CASE b # <<>>
    <3> DEFINE c == ListCall(b, <<>>)
    <3>1. IsCall(c) /\ c.op = "ListObjects"
      <4> DEFINE q == <<>>
      <4>1. q \in Seq(STRING)
        BY EmptySeq
      <4> HIDE DEF q
      <4>2. IsCall(ListCall(b, q)) /\ ListCall(b, q).op = "ListObjects"
        BY <1>6, <4>1, NewListCall
      <4>3. QED
        BY <4>2 DEF q
    <3> HIDE DEF c
    <3>2. Sequence(<<c>>) /\ Of(<<c>>) = {c}
      BY Single
    <3>3. cs = <<c>>
      BY <2>2 DEF c
    <3>4. QED
      BY <3>1, <3>2, <3>3
  <2>3. QED
    BY <2>1, <2>2
<1>12. calls[i].op \in ops
  BY <1>2
<1>13. Done(i, cs)
  BY <1>3
<1> HIDE DEF cs, ops
<1>14. CallsOK' /\ Spared(AllOps \ ops)
  BY <1>1, <1>11, <1>12, <1>13, DoneStep
<1>15. TypeInv' /\ Follows(b)
  <2>1. Sets(shown, shown', {"settled", "followed", "fresh"})
    BY <1>10 DEF Sets
  <2>2. QED
    BY <1>3, <1>6, <1>8, <1>9, <1>10, <1>14, <2>1, FollowsTypes
<1>16. BucketsTo(b)
  BY <1>5, <1>8, <1>10, <1>15 DEF BucketsTo, p
<1>17. SideOf(open') \subseteq SideOf(open)
  BY <1>3 DEF SideOf
<1>18. QED
  BY <1>2, <1>3, <1>9, <1>10, <1>13, <1>14, <1>15, <1>16, <1>17 DEF Touches, Follows, ops, cs

\* Objects are listed.
LEMMA ObjectsListedStep ==
  ASSUME TypeInv, NEW i \in DOMAIN calls, ObjectsListed(i), Aside
  PROVE  LET c == calls[i] IN
         /\ TypeInv' /\ UNCHANGED <<stored, home, open, picked>>
         /\ Touches({}, {"tableData"}, {"calm"}, {"bucket", "prefix", "fresh"}, {"ListObjects"})
         /\ c.op = "ListObjects" /\ c.state = "answered" /\ Overtakes(i, Earlier(i), <<>>)
         /\ IsListing(c.reply.rows, c.arg.prefix) /\ SameRows(c.reply.rows, fs3'.tableData)
         /\ IsListing(fs3'.tableData, c.arg.prefix)
         /\ Names(fs3'.tableData) = Names(c.reply.rows)
         /\ shown'.bucket = c.arg.bucket /\ shown'.prefix = c.arg.prefix /\ (shown'.fresh <=> ~c.late)
         /\ share'.calm => share.calm /\ share.mode = "deal"
         /\ c.reply.ok
<1> DEFINE c == calls[i]
           rows == c.reply.rows
<1>1. /\ CallsOK /\ IsCall(calls[i]) /\ IsShown(shown) /\ IsFs3(fs3) /\ IsShare(share)
  BY CallAt DEF TypeInv
<1>2. /\ c.op = "ListObjects" /\ c.state = "answered" /\ Overtakes(i, Earlier(i), <<>>)
      /\ fs3' = [fs3 EXCEPT !.tableData = AboutListData(rows)]
      /\ shown' = [shown EXCEPT !.bucket = c.arg.bucket, !.prefix = c.arg.prefix, !.fresh = ~c.late]
      /\ share' = Disturbed /\ UNCHANGED <<stored, home, open, picked>> /\ c.reply.ok
  BY DEF ObjectsListed, IsAnswered, Answer
<1>3. IsListing(rows, c.arg.prefix)
  <2>1. Answers("ListObjects", c.arg, c.reply)
    BY <1>1, <1>2 DEF IsCall
  <2>2. QED
    BY <2>1 DEF Answers
<1> HIDE DEF rows
<1>4. SameRows(rows, AboutListData(rows)) /\ IsTable(AboutListData(rows))
  BY <1>3, ListedRows
<1>5. Names(AboutListData(rows)) = Names(rows) /\ IsListing(AboutListData(rows), c.arg.prefix)
  <2>1. Sequence(rows)
    BY <1>3 DEF IsListing
  <2> DEFINE u == AboutListData(rows)
  <2>2. SameRows(rows, u)
    BY <1>4
  <2> HIDE DEF u
  <2>3. Names(u) = Names(rows) /\ (\A p : IsListing(rows, p) => IsListing(u, p))
    BY <2>1, <2>2, SameNames
  <2>4. QED
    BY <1>3, <2>3 DEF u
<1>6. /\ DOMAIN fs3' = Fs3Fields /\ fs3'.tableData = AboutListData(rows)
      /\ \A k \in Fs3Fields \ {"tableData"} : fs3'[k] = fs3[k]
  BY <1>1, <1>2 DEF IsFs3, Fs3Fields
<1>7. /\ fs3'.sorted = fs3.sorted /\ fs3'.currentBucketAll = fs3.currentBucketAll
      /\ fs3'.prefixName = fs3.prefixName /\ fs3'.deleteDialogIndex = fs3.deleteDialogIndex
  BY <1>6 DEF Fs3Fields
<1>8. IsFs3(fs3') /\ Sets(fs3, fs3', {"tableData"})
  BY <1>1, <1>4, <1>6, <1>7 DEF IsFs3, Sets
<1>9. /\ Sets(shown, shown', {"bucket", "prefix", "fresh"}) /\ IsShown(shown')
      /\ shown'.bucket = c.arg.bucket /\ shown'.prefix = c.arg.prefix /\ (shown'.fresh <=> ~c.late)
  <2> DEFINE u == c.arg.bucket
             v == c.arg.prefix
             w == ~c.late
  <2>1. shown' = [shown EXCEPT !.bucket = u, !.prefix = v, !.fresh = w]
    BY <1>2
  <2> HIDE DEF u, v, w
  <2>2. /\ Sets(shown, shown', {"bucket", "prefix", "fresh"}) /\ IsShown(shown')
        /\ shown'.bucket = u /\ shown'.prefix = v /\ shown'.fresh = w
    BY <1>1, <2>1 DEF IsShown, ShownFields, Sets
  <2>3. QED
    BY <2>2 DEF u, v, w
<1>10. CallsOK' /\ Spared(AllOps \ {"ListObjects"})
  BY <1>1, <1>2, LastStep
<1>11. /\ IsShare(share') /\ Sets(share, share', {"calm"})
       /\ share'.calm => share.calm /\ share.mode = "deal"
  BY <1>1, <1>2, Disturbing
<1>12. TypeInv'
  BY <1>2, <1>8, <1>9, <1>10, <1>11 DEF TypeInv, Aside, menuVars
<1>13. Touches({}, {"tableData"}, {"calm"}, {"bucket", "prefix", "fresh"}, {"ListObjects"})
  BY <1>2, <1>8, <1>9, <1>10, <1>11 DEF Touches, Sets
<1>14. QED
  BY <1>2, <1>3, <1>4, <1>5, <1>6, <1>9, <1>11, <1>12, <1>13 DEF rows

\* A bucket is made.
Asks(i, cs, b) ==
    /\ Sequence(cs) /\ Done(i, cs)
    /\ \A c \in Of(cs) : IsCall(c) /\ (c.op = "ListBuckets" \/ c = ListCall(b, <<>>))
    /\ ListCall(b, <<>>) \in Of(cs)
LEMMA MadeCalls ==
  ASSUME NEW i, NEW b, IsBucketName(b), NEW n \in Nat, NEW lists \in {1, 2},
         Done(i, [k \in 1..n |-> ListBucketsCall(<<>>)] \o <<ListBucketsCall(b)>>
                   \o [k \in 1..lists |-> ListCall(b, <<>>)])
  PROVE  \E cs : Asks(i, cs, b)
<1> DEFINE c == ListBucketsCall(<<>>)
           d == ListBucketsCall(b)
           e == ListCall(b, <<>>)
           s == [k \in 1..n |-> c]
           t == <<d>>
           u == [k \in 1..lists |-> e]
<1>1. IsCall(c) /\ c.op = "ListBuckets" /\ IsCall(d) /\ d.op = "ListBuckets"
  BY NewBucketsCall
<1>2. IsCall(e)
  <2> DEFINE p == <<>>
  <2>1. IsPath(b) /\ p \in Seq(STRING)
    BY BucketsArePaths, EmptySeq
  <2> HIDE DEF p
  <2>2. IsCall(ListCall(b, p))
    BY <2>1, NewListCall
  <2>3. QED
    BY <2>2 DEF p
<1>3. Done(i, (s \o t) \o u)
  OBVIOUS
<1> HIDE DEF c, d, e
<1>4. Sequence(s) /\ \A x \in Of(s) : x = c
  <2>1. s = [k \in 1..n |-> s[k]] /\ \A k \in 1..n : s[k] = c
    OBVIOUS
  <2> HIDE DEF s
  <2>2. QED
    BY <2>1, Numbered DEF Of
<1>5. Sequence(t) /\ \A x \in Of(t) : x = d
  BY Single
<1>6. Sequence(u) /\ (\A x \in Of(u) : x = e) /\ e \in Of(u)
  <2>1. u = [k \in 1..lists |-> u[k]] /\ (\A k \in 1..lists : u[k] = e) /\ lists \in Nat /\ 1 \in 1..lists
    OBVIOUS
  <2> HIDE DEF u
  <2>2. Sequence(u) /\ DOMAIN u = 1..lists
    BY <2>1, Numbered
  <2>3. QED
    BY <2>1, <2>2 DEF Of
<1> HIDE DEF s, t, u
<1> DEFINE v == s \o t
           cs == v \o u
<1>7. Sequence(v) /\ Of(v) = Of(s) \cup Of(t)
  BY <1>4, <1>5, Joined
<1>8. Done(i, cs)
  BY <1>3
<1> HIDE DEF v
<1>9. Sequence(cs) /\ Of(cs) = Of(v) \cup Of(u)
  BY <1>6, <1>7, Joined
<1> HIDE DEF cs
<1>10. Asks(i, cs, b)
  <2>1. \A x \in Of(cs) : x = c \/ x = d \/ x = e
    BY <1>4, <1>5, <1>6, <1>7, <1>9
  <2>2. ListCall(b, <<>>) = e
    BY DEF e
  <2>3. QED
    BY <1>1, <1>2, <1>6, <1>8, <1>9, <2>1, <2>2 DEF Asks
<1>11. QED
  BY <1>10

LEMMA AsksStep ==
  ASSUME CallsOK, NEW i \in DOMAIN calls, NEW cs, NEW b, Asks(i, cs, b), calls[i].op = "MakeBucket"
  PROVE  CallsOK' /\ Spared(AllOps \ {"MakeBucket", "ListBuckets", "ListObjects"})
<1> DEFINE ops == {"MakeBucket", "ListBuckets", "ListObjects"}
<1>1. ListCall(b, <<>>).op = "ListObjects"
  BY DEF ListCall, Request
<1>2. /\ Sequence(cs) /\ Done(i, cs) /\ calls[i].op \in ops
      /\ \A c \in Of(cs) : IsCall(c) /\ c.op \in ops
  BY <1>1 DEF Asks
<1> HIDE DEF ops
<1>3. CallsOK' /\ Spared(AllOps \ ops)
  BY <1>2, DoneStep
<1>4. QED
  BY <1>3 DEF ops

LEMMA BucketMadeStep ==
  ASSUME TypeInv, NEW i \in DOMAIN calls, BucketMade(i), Aside
  PROVE  /\ TypeInv' /\ UNCHANGED <<stored, open>>
         /\ Touches({"currentBucket", "prefixData"}, {"currentBucketAll"}, {"calm"},
                    {"settled", "followed"}, {"MakeBucket", "ListBuckets", "ListObjects"})
         /\ \E b : /\ b # <<>> /\ BucketsTo(b)
                   /\ \E cs : Asks(i, cs, b)
         /\ calls[i].op = "MakeBucket"
<1> DEFINE b == calls[i].arg.name
           buckets == home.minioListBuckets
           is == {k \in DOMAIN buckets : buckets[k] = b[1] \/ <<buckets[k], b[1]>> \in Within}
           again == Only(buckets, is)
           n == Len(again)
           lists == IF calls[i].arg.prefix = <<>> THEN 1 ELSE 2
<1>1. /\ CallsOK /\ IsHome(home) /\ IsCall(calls[i]) /\ IsShown(shown)
  BY CallAt DEF TypeInv
<1>2. calls[i].op = "MakeBucket"
  BY DEF BucketMade, IsAnswered
<1>3. IsBucketName(b)
  BY <1>1, <1>2 DEF IsCall, IsArg, PageArg
<1>4. IsPath(b) /\ b # <<>>
  BY <1>3, BucketsArePaths
<1>5. /\ At(b, <<>>) /\ fs3' = Watched(fs3, b) /\ Moved(b) /\ UNCHANGED <<stored, open>>
      /\ Done(i, [k \in DOMAIN again |-> ListBucketsCall(<<>>)] \o <<ListBucketsCall(b)>>
                   \o [k \in 1..lists |-> ListCall(b, <<>>)])
      /\ shown' = [shown EXCEPT !.settled = Still(b),
             !.followed = @ /\ fs3'.currentBucketAll = b /\ fs3.prefixName = <<>>]
  BY DEF BucketMade
<1>6. n \in Nat /\ DOMAIN again = 1..n
  <2>1. Sequence(buckets)
    BY <1>1 DEF IsHome, AreBuckets
  <2> HIDE DEF is, buckets
  <2>2. Sequence(again)
    BY <2>1, OnlyOf
  <2> HIDE DEF again
  <2>3. QED
    BY <2>2, Indices
<1> HIDE DEF again
<1>7. \E cs : Asks(i, cs, b)
  <2>1. lists \in {1, 2}
    OBVIOUS
  <2>2. Done(i, [k \in 1..n |-> ListBucketsCall(<<>>)] \o <<ListBucketsCall(b)>>
                   \o [k \in 1..lists |-> ListCall(b, <<>>)])
    BY <1>5, <1>6
  <2> HIDE DEF b, n, lists
  <2>3. QED
    BY <1>3, <1>6, <2>1, <2>2, MadeCalls
<1>8. CallsOK' /\ Spared(AllOps \ {"MakeBucket", "ListBuckets", "ListObjects"})
  BY <1>1, <1>2, <1>7, AsksStep
<1> HIDE DEF b
<1>9. /\ Sets(home, home', {"currentBucket", "prefixData"}) /\ IsHome(home')
      /\ home'.currentBucket = b /\ home'.prefixData = <<>>
  <2> DEFINE p == <<>>
  <2>1. p \in Seq(STRING) /\ At(b, p)
    BY <1>5, EmptySeq
  <2> HIDE DEF p
  <2>2. /\ Sets(home, home', {"currentBucket", "prefixData"}) /\ IsHome(home')
        /\ home'.currentBucket = b /\ home'.prefixData = p
    BY <1>1, <1>4, <2>1, GoesTo
  <2>3. QED
    BY <2>2 DEF p
<1>10. /\ Sets(shown, shown', {"settled", "followed"}) /\ shown'.settled = Still(b)
       /\ shown'.followed => /\ shown.followed /\ fs3'.currentBucketAll = b
                             /\ fs3.prefixName = <<>>
  <2> DEFINE u == Still(b)
             v == shown.followed /\ fs3'.currentBucketAll = b /\ fs3.prefixName = <<>>
  <2>1. shown' = [shown EXCEPT !.settled = u, !.followed = v]
    BY <1>5
  <2> HIDE DEF u, v
  <2>2. Sets(shown, shown', {"settled", "followed"}) /\ shown'.settled = u /\ shown'.followed = v
    BY <1>1, <2>1 DEF IsShown, ShownFields, Sets
  <2>3. QED
    BY <2>2 DEF u, v
<1>11. TypeInv' /\ Follows(b)
  <2>1. Sets(shown, shown', {"settled", "followed", "fresh"})
    BY <1>10 DEF Sets
  <2>2. QED
    BY <1>4, <1>5, <1>8, <1>9, <1>10, <2>1, FollowsTypes
<1>12. BucketsTo(b)
  BY <1>3, <1>4, <1>9, <1>10, <1>11 DEF BucketsTo
<1>13. QED
  BY <1>2, <1>4, <1>5, <1>7, <1>8, <1>9, <1>10, <1>11, <1>12 DEF Touches, Follows

\* No bucket is made.
LEMMA BucketNotMadeStep ==
  ASSUME TypeInv, NEW i \in DOMAIN calls, BucketNotMade(i), Aside
  PROVE  /\ TypeInv' /\ UNCHANGED <<stored, open>>
         /\ Touches({"currentBucket"}, {"currentBucketAll"}, {"calm"},
                    {"settled", "followed", "fresh"}, {"MakeBucket", "ListObjects"})
         /\ \E b : /\ Follows(b)
                   /\ shown'.followed => shown.followed /\ b = home.currentBucket
                   /\ shown'.fresh => shown.fresh /\ b = home.currentBucket
                   /\ Overtakes(i, IF b = home.currentBucket THEN {}
                                   ELSE Outstanding({"ListObjects"}), <<>>)
         /\ calls[i].op = "MakeBucket"
<1> DEFINE old == calls[i].arg.old
           b == IF old = <<>> THEN home.currentBucket ELSE old
           js == IF b = home.currentBucket THEN {} ELSE Outstanding({"ListObjects"})
           ops == {"MakeBucket", "ListObjects"}
           cs == <<>>
<1>1. /\ CallsOK /\ IsHome(home) /\ IsCall(calls[i]) /\ IsShown(shown)
  BY CallAt DEF TypeInv
<1>2. calls[i].op = "MakeBucket"
  BY DEF BucketNotMade, IsAnswered
<1>3. IsPath(old)
  BY <1>1, <1>2 DEF IsCall, IsArg, PageArg
<1>4. /\ home' = [home EXCEPT !.currentBucket = b] /\ fs3' = Watched(fs3, b) /\ Moved(b)
      /\ shown' = [shown EXCEPT !.settled = Still(b), !.fresh = @ /\ b = home.currentBucket,
                                !.followed = @ /\ old = <<>>]
      /\ Overtakes(i, js, cs) /\ UNCHANGED <<stored, open>>
  BY DEF BucketNotMade
<1>5. js \subseteq Outstanding(ops) /\ calls[i].op \in ops /\ Sequence(cs) /\ \A c \in Of(cs) : FALSE
  BY <1>2, Empty DEF Outstanding
<1> HIDE DEF js, ops, cs
<1>6. CallsOK' /\ Spared(AllOps \ ops)
  BY <1>1, <1>4, <1>5, FinishStep
<1>7. IsPath(b) /\ (old = <<>> => b = home.currentBucket)
  BY <1>1, <1>3 DEF IsHome
<1>8. /\ Sets(shown, shown', {"settled", "followed", "fresh"}) /\ shown'.settled = Still(b)
      /\ shown'.followed => shown.followed /\ b = home.currentBucket
      /\ shown'.fresh => shown.fresh /\ b = home.currentBucket
  <2> DEFINE u == Still(b)
             v == shown.fresh /\ b = home.currentBucket
             w == shown.followed /\ old = <<>>
  <2>1. shown' = [shown EXCEPT !.settled = u, !.fresh = v, !.followed = w]
    BY <1>4
  <2> HIDE DEF u, v, w
  <2>2. /\ Sets(shown, shown', {"settled", "followed", "fresh"})
        /\ shown'.settled = u /\ shown'.fresh = v /\ shown'.followed = w
    BY <1>1, <2>1 DEF IsShown, ShownFields, Sets
  <2> USE DEF u, v, w
  <2>3. QED
    BY <1>7, <2>2
<1> HIDE DEF b
<1>9. /\ DOMAIN home' = HomeFields /\ home'.currentBucket = b
      /\ \A k \in HomeFields \ {"currentBucket"} : home'[k] = home[k]
  BY <1>1, <1>4 DEF IsHome, HomeFields
<1>10. /\ home'.minioListBuckets = home.minioListBuckets
       /\ home'.oloaded = home.oloaded /\ home'.prefixData = home.prefixData
  BY <1>9 DEF HomeFields
<1>11. IsHome(home') /\ Sets(home, home', {"currentBucket"})
  BY <1>1, <1>7, <1>9, <1>10 DEF IsHome, Sets
<1>12. TypeInv' /\ Follows(b)
  BY <1>4, <1>6, <1>7, <1>8, <1>9, <1>11, FollowsTypes
<1>13. Touches({"currentBucket"}, {"currentBucketAll"}, {"calm"},
               {"settled", "followed", "fresh"}, {"MakeBucket", "ListObjects"})
  BY <1>6, <1>8, <1>11, <1>12 DEF Touches, Follows, ops
<1>14. QED
  BY <1>2, <1>4, <1>8, <1>12, <1>13 DEF js, cs

\* An object is removed.
LEMMA ObjectRemovedStep ==
  ASSUME TypeInv, NEW i \in DOMAIN calls, ObjectRemoved(i), Aside
  PROVE  LET c == calls[i]
             rows == Only(fs3.tableData,
                          {k \in DOMAIN fs3.tableData : fs3.tableData[k].name # c.arg.name})
         IN
         /\ TypeInv' /\ UNCHANGED <<stored, home, picked>> /\ SideOf(open') \subseteq SideOf(open)
         /\ Touches({}, {"tableData"}, {"calm"}, {"fresh"}, {"RemoveObject"})
         /\ c.op = "RemoveObject" /\ c.state = "answered" /\ c.reply.ok /\ Done(i, <<>>)
         /\ fs3'.tableData = rows
         /\ Of(rows) = {r \in Of(fs3.tableData) : r.name # c.arg.name}
         /\ shown'.fresh => shown.fresh /\ ~c.late /\ c.arg.bucket = shown.bucket
         /\ shown'.fresh => rows # fs3.tableData
         /\ share'.calm => share.calm /\ share.mode = "deal"
<1> DEFINE c == calls[i]
           t == fs3.tableData
           is == {k \in DOMAIN t : t[k].name # c.arg.name}
           rows == Only(t, is)
<1>1. /\ CallsOK /\ IsShown(shown) /\ IsFs3(fs3) /\ IsShare(share)
  BY DEF TypeInv
<1>2. /\ c.op = "RemoveObject" /\ c.state = "answered" /\ c.reply.ok /\ Done(i, <<>>)
      /\ fs3' = [fs3 EXCEPT !.tableData = rows]
      /\ share' = Disturbed /\ UNCHANGED <<stored, home, picked>> /\ open' = open \ {"delete"}
      /\ shown' = [shown EXCEPT !.fresh = @ /\ ~c.late /\ c.arg.bucket = shown.bucket
                                            /\ rows # t]
  BY DEF ObjectRemoved, IsAnswered, Answer
<1>3. IsTable(t) /\ Sequence(t)
  BY <1>1 DEF IsFs3, IsTable
<1>4. Of(rows) = {r \in Of(t) : r.name # c.arg.name}
  <2>1. {k \in DOMAIN t : k \in is} = is
    OBVIOUS
  <2>2. Of(rows) = {t[k] : k \in is}
    <3> HIDE DEF is, t
    <3>1. QED
      BY <1>3, <2>1, OnlyAll
  <2> HIDE DEF rows
  <2>3. {t[k] : k \in is} = {r \in Of(t) : r.name # c.arg.name}
    BY DEF Of
  <2>4. QED
    BY <2>2, <2>3
<1>5. IsTable(rows)
  <2> HIDE DEF t, is
  <2>1. QED
    BY <1>3, FewerRows
<1> HIDE DEF rows
<1>6. /\ DOMAIN fs3' = Fs3Fields /\ fs3'.tableData = rows
      /\ \A k \in Fs3Fields \ {"tableData"} : fs3'[k] = fs3[k]
  BY <1>1, <1>2 DEF IsFs3, Fs3Fields
<1>7. /\ fs3'.sorted = fs3.sorted /\ fs3'.currentBucketAll = fs3.currentBucketAll
      /\ fs3'.prefixName = fs3.prefixName /\ fs3'.deleteDialogIndex = fs3.deleteDialogIndex
  BY <1>6 DEF Fs3Fields
<1>8. IsFs3(fs3') /\ Sets(fs3, fs3', {"tableData"})
  BY <1>1, <1>5, <1>6, <1>7 DEF IsFs3, Sets
<1>9. /\ Sets(shown, shown', {"fresh"}) /\ IsShown(shown')
      /\ shown'.fresh => shown.fresh /\ ~c.late /\ c.arg.bucket = shown.bucket /\ rows # t
  <2> DEFINE u == shown.fresh /\ ~c.late /\ c.arg.bucket = shown.bucket /\ rows # t
  <2>1. shown' = [shown EXCEPT !.fresh = u]
    BY <1>2
  <2> HIDE DEF u
  <2>2. Sets(shown, shown', {"fresh"}) /\ IsShown(shown') /\ shown'.fresh = u
    BY <1>1, <2>1 DEF IsShown, ShownFields, Sets
  <2>3. QED
    BY <2>2 DEF u
<1>10. CallsOK' /\ Spared(AllOps \ {"RemoveObject"})
  BY <1>1, <1>2, LastStep
<1>11. /\ IsShare(share') /\ Sets(share, share', {"calm"})
       /\ share'.calm => share.calm /\ share.mode = "deal"
  BY <1>1, <1>2, Disturbing
<1>12. TypeInv'
  BY <1>2, <1>8, <1>9, <1>10, <1>11 DEF TypeInv, Aside, menuVars
<1>13. Touches({}, {"tableData"}, {"calm"}, {"fresh"}, {"RemoveObject"})
  BY <1>2, <1>8, <1>9, <1>10, <1>11 DEF Touches, Sets
<1>14. SideOf(open') \subseteq SideOf(open)
  BY <1>2 DEF SideOf
<1>15. QED
  BY <1>2, <1>4, <1>6, <1>9, <1>11, <1>12, <1>13, <1>14 DEF rows, t, is

\* More of a file has been sent.
LEMMA ProgressStep ==
  ASSUME TypeInv, NEW i \in DOMAIN calls, ProgressFunction(i), Aside
  PROVE  /\ TypeInv' /\ UNCHANGED <<stored, fs3, share, open, shown, picked>>
         /\ Touches({"oloaded", "drawer"}, {}, {}, {}, {"Upload"})
         /\ calls[i].op = "Upload" /\ calls[i].state = "sent"
         /\ \E e : \E loaded \in Parts(calls[i].arg) :
              /\ calls' = [calls EXCEPT ![i] = e] /\ IsCall(e)
              /\ e.op = "Upload" /\ e.state = "sent"
              /\ e.arg.loaded = loaded /\ e.arg.size = calls[i].arg.size
              /\ home'.oloaded = loaded
              /\ home'.drawer => home.drawer
              /\ RestTime(e.arg.size - loaded, loaded - home.oloaded) = -1 => ~home'.drawer
<1> DEFINE c == calls[i]
           a == c.arg
<1>1. CallsOK /\ IsHome(home) /\ IsCall(c) /\ c.op = "Upload" /\ c.state = "sent"
  BY CallAt DEF TypeInv, ProgressFunction, IsSent
<1>2. IsRequest(c) /\ IsArg(c.op, a)
  BY <1>1 DEF IsCall
<1>3. /\ DOMAIN a = {"bucket", "size", "loaded", "name"} /\ a.name \in ObjectName
      /\ a.size \in Nat /\ a.loaded \in 0..a.size
  BY <1>1, <1>2 DEF IsArg, PageArg
<1>4. PICK loaded \in Parts(a) :
        /\ calls' = [calls EXCEPT ![i].arg.loaded = loaded]
        /\ \E drawer \in BOOLEAN :
             /\ RestTime(a.size - loaded, loaded - home.oloaded) = -1 => ~drawer
             /\ drawer => home.drawer
             /\ home' = [home EXCEPT !.oloaded = loaded, !.drawer = drawer]
  BY DEF ProgressFunction
<1>5. PICK drawer \in BOOLEAN :
        /\ RestTime(a.size - loaded, loaded - home.oloaded) = -1 => ~drawer
        /\ drawer => home.drawer
        /\ home' = [home EXCEPT !.oloaded = loaded, !.drawer = drawer]
  BY <1>4
<1>6. UNCHANGED <<stored, fs3, share, open, shown, picked>>
  BY DEF ProgressFunction
<1>7. loaded \in 0..a.size /\ loaded \in Nat
  BY <1>3, <1>4 DEF Parts
<1> DEFINE f == [a EXCEPT !.loaded = loaded]
           e == [c EXCEPT !.arg = f]
<1>8. /\ DOMAIN f = {"bucket", "size", "loaded", "name"} /\ f.name = a.name /\ f.size = a.size
      /\ f.loaded = loaded
  BY <1>3
<1>9. calls' = [calls EXCEPT ![i] = e]
  BY <1>4
<1> HIDE DEF f
<1>10. /\ IsRequest(e) /\ e.op = "Upload" /\ e.arg = f /\ e.state = "sent"
  <2> HIDE DEF c, a
  <2>1. c = [op |-> c.op, arg |-> c.arg, state |-> c.state, reply |-> c.reply, late |-> c.late]
        /\ c.op = "Upload" /\ c.state = "sent" /\ c.late \in BOOLEAN
    BY <1>1, <1>2 DEF IsRequest
  <2>2. e = [op |-> c.op, arg |-> f, state |-> c.state, reply |-> c.reply, late |-> c.late]
    BY <2>1
  <2> HIDE DEF e
  <2>3. QED
    BY <2>1, <2>2 DEF IsRequest
<1> HIDE DEF e
<1>11. IsArg(e.op, e.arg)
  BY <1>3, <1>7, <1>8, <1>10 DEF IsArg, PageArg, MenuArg, DealArg, AllOps, PageOps, DealOps, DealApis
<1>12. IsCall(e)
  BY <1>10, <1>11 DEF IsCall
<1>13. CallsOK' /\ Spared(AllOps \ {"Upload"})
  <2>1. Requests
    BY <1>1, CallsAreRequests
  <2>2. /\ Sequence(calls') /\ Of(calls') \subseteq Of(calls) \cup {e}
    BY <1>9, <2>1, Replaced DEF Requests
  <2>3. CallsOK'
    BY <1>1, <1>12, <2>2 DEF CallsOK
  <2>4. e.op = calls[i].op /\ calls[i].op \notin AllOps \ {"Upload"}
    BY <1>1, <1>10
  <2>5. Spared(AllOps \ {"Upload"})
    BY <1>9, <2>1, <2>4, SparedIfReplaced
  <2>6. QED
    BY <2>3, <2>5
<1>14. /\ DOMAIN home' = HomeFields /\ home'.oloaded = loaded /\ home'.drawer = drawer
       /\ \A k \in HomeFields \ {"oloaded", "drawer"} : home'[k] = home[k]
  BY <1>1, <1>5 DEF IsHome, HomeFields
<1>15. /\ home'.minioListBuckets = home.minioListBuckets
       /\ home'.currentBucket = home.currentBucket /\ home'.prefixData = home.prefixData
  BY <1>14 DEF HomeFields
<1>16. IsHome(home') /\ Sets(home, home', {"oloaded", "drawer"})
  BY <1>1, <1>7, <1>14, <1>15 DEF IsHome, Sets
<1>17. TypeInv'
  BY <1>6, <1>13, <1>16 DEF TypeInv, Aside, menuVars
<1>18. Touches({"oloaded", "drawer"}, {}, {}, {}, {"Upload"})
  BY <1>6, <1>13, <1>16 DEF Touches, Sets
<1>19. /\ e.arg.loaded = loaded /\ e.arg.size = a.size
       /\ RestTime(e.arg.size - loaded, loaded - home.oloaded) = -1 => ~home'.drawer
  BY <1>5, <1>8, <1>10, <1>14
<1>20. QED
  BY <1>1, <1>5, <1>6, <1>9, <1>10, <1>12, <1>14, <1>17, <1>18, <1>19

\* A file has been uploaded.
LEMMA UploadedStep ==
  ASSUME TypeInv, NEW i \in DOMAIN calls, Uploaded(i), Aside
  PROVE  /\ TypeInv' /\ UNCHANGED <<stored, share, open, shown>>
         /\ Touches({"currentBucket"}, Selection \cup {"currentBucketAll"}, {}, {},
                    {"Upload", "ListObjects"})
         /\ SameRows(fs3.tableData, fs3'.tableData) /\ picked' = NoPick
         /\ fs3'.drawIndex = 0
         /\ home.currentBucket # <<>> => home'.currentBucket = home.currentBucket
         /\ home'.currentBucket = home.currentBucket =>
              fs3'.currentBucketAll = fs3.currentBucketAll
         /\ home'.currentBucket # home.currentBucket =>
              /\ IsBucketName(home'.currentBucket)
              /\ fs3'.currentBucketAll = home'.currentBucket
         /\ calls[i].op = "Upload" /\ calls[i].state = "answered"
         /\ Done(i, <<ListCall(home'.currentBucket, home'.prefixData)>>)
         /\ IsCall(ListCall(home'.currentBucket, home'.prefixData))
<1> DEFINE bs == home.minioListBuckets
           b == IF home.currentBucket # <<>> \/ bs = <<>> THEN home.currentBucket ELSE <<Head(bs)>>
           p == home.prefixData
           c == ListCall(b, p)
           ops == {"Upload", "ListObjects"}
           cs == <<c>>
           g == Watched(fs3, b)
<1>1. CallsOK /\ IsHome(home) /\ IsFs3(fs3)
  BY DEF TypeInv
<1>2. /\ calls[i].op = "Upload" /\ calls[i].state = "answered" /\ At(b, p) /\ fs3' = DrawPlayClose(g)
      /\ picked' = NoPick /\ Done(i, cs) /\ UNCHANGED <<stored, share, open, shown>>
  BY DEF Uploaded, IsAnswered, UploadClick
<1>3. IsPath(home.currentBucket) /\ p \in Seq(STRING) /\ AreBuckets(bs)
  BY <1>1 DEF IsHome
<1>4. bs # <<>> => Head(bs) \in Buckets
  <2>1. ASSUME bs # <<>> PROVE Head(bs) \in Buckets
    <3>1. bs \in Seq(Of(bs)) /\ Of(bs) \subseteq Buckets
      BY <1>3 DEF AreBuckets, Sequence
    <3> DEFINE X == Of(bs)
    <3>2. bs \in Seq(X)
      BY <3>1
    <3> HIDE DEF X
    <3>3. Head(bs) \in X
      BY <2>1, <3>2
    <3>4. QED
      BY <3>1, <3>3 DEF X
  <2>2. QED
    BY <2>1
<1>5. /\ IsPath(b) /\ (home.currentBucket # <<>> => b = home.currentBucket)
      /\ b # home.currentBucket => IsBucketName(b)
  BY <1>3, <1>4, BucketPath DEF IsBucketName
<1> HIDE DEF b
<1>6. IsCall(c) /\ c.op = "ListObjects"
  BY <1>3, <1>5, NewListCall
<1> HIDE DEF c
<1>7. Sequence(cs) /\ calls[i].op \in ops /\ \A d \in Of(cs) : IsCall(d) /\ d.op \in ops
  BY <1>2, <1>6, Single
<1> HIDE DEF cs, ops
<1>8. CallsOK' /\ Spared(AllOps \ ops)
  BY <1>1, <1>2, <1>7, DoneStep
<1>9. /\ Sets(home, home', {"currentBucket", "prefixData"})
      /\ home'.currentBucket = b /\ home'.prefixData = p /\ IsHome(home')
  BY <1>1, <1>2, <1>3, <1>5, GoesTo
<1>10. Sets(home, home', {"currentBucket"})
  BY <1>9 DEF Sets
<1>11. /\ IsFs3(g) /\ Sets(fs3, g, {"currentBucketAll"})
       /\ g.currentBucketAll = IF b = home.currentBucket THEN fs3.currentBucketAll ELSE b
  BY <1>1, <1>5, WatchSees
<1> HIDE DEF g
<1>12. /\ IsFs3(fs3') /\ Sets(g, fs3', {"tableData", "drawIndex", "deleteDialogIndex"})
       /\ SameRows(g.tableData, fs3'.tableData) /\ fs3'.drawIndex = 0
  BY <1>2, <1>11, DrawCloses
<1>13. g.tableData = fs3.tableData /\ fs3'.currentBucketAll = g.currentBucketAll
       /\ Sets(fs3, fs3', Selection \cup {"currentBucketAll"})
  BY <1>1, <1>11, <1>12 DEF Sets, IsFs3, Fs3Fields, Selection
<1>14. DOMAIN picked' = {"names", "at", "calm"}
  BY <1>2 DEF NoPick
<1>15. TypeInv'
  BY <1>2, <1>8, <1>9, <1>12, <1>14 DEF TypeInv, Aside, menuVars
<1>16. Touches({"currentBucket"}, Selection \cup {"currentBucketAll"}, {}, {}, {"Upload", "ListObjects"})
  BY <1>2, <1>8, <1>10, <1>13 DEF Touches, Sets, ops
<1>17. QED
  BY <1>2, <1>5, <1>6, <1>9, <1>11, <1>12, <1>13, <1>15, <1>16 DEF c, cs

\* What was selected is fetched.
LEMMA DownloadedStep ==
  ASSUME TypeInv, NEW i \in DOMAIN calls, Downloaded(i), Aside
  PROVE  /\ TypeInv' /\ UNCHANGED <<stored, home, share, open, shown>>
         /\ Touches({}, Selection, {}, {}, {"CreateURLToken"})
         /\ SameRows(fs3.tableData, fs3'.tableData) /\ picked' = NoPick /\ fs3'.drawIndex = 0
<1>1. CallsOK /\ IsFs3(fs3)
  BY DEF TypeInv
<1>2. /\ calls[i].op = "CreateURLToken" /\ fs3' = DrawPlayClose(fs3) /\ picked' = NoPick
      /\ Done(i, <<>>) /\ UNCHANGED <<stored, home, share, open, shown>>
  BY DEF Downloaded, IsAnswered
<1>3. CallsOK' /\ Spared(AllOps \ {"CreateURLToken"})
  BY <1>1, <1>2, LastStep
<1>4. /\ IsFs3(fs3') /\ Sets(fs3, fs3', Selection) /\ SameRows(fs3.tableData, fs3'.tableData)
      /\ fs3'.drawIndex = 0
  BY <1>1, <1>2, DrawCloses DEF Selection
<1>5. DOMAIN picked' = {"names", "at", "calm"}
  BY <1>2 DEF NoPick
<1>6. TypeInv'
  BY <1>2, <1>3, <1>4, <1>5 DEF TypeInv, Aside, menuVars
<1>7. QED
  BY <1>2, <1>3, <1>4, <1>6 DEF Touches, Sets

\* The link is there.
LEMMA LinkMadeStep ==
  ASSUME TypeInv, NEW i \in DOMAIN calls, LinkMade(i), Aside
  PROVE  LET c == calls[i] IN
         /\ TypeInv' /\ UNCHANGED <<stored, home, fs3, shown, picked>>
         /\ open' = open \cup {"share"} /\ SideOf(open') = SideOf(open)
         /\ Touches({}, {}, {"link", "fresh"}, {}, {"PresignedGet"})
         /\ c.op = "PresignedGet" /\ c.state = "answered" /\ Overtakes(i, Earlier(i), <<>>)
         /\ c.reply = [c.arg EXCEPT !.expiry = Expiry(@)]
         /\ share'.link = c.reply /\ (share'.fresh <=> ~c.late)
<1> DEFINE c == calls[i]
<1>1. CallsOK /\ IsShare(share) /\ IsCall(c)
  BY CallAt DEF TypeInv
<1>2. /\ c.op = "PresignedGet" /\ c.state = "answered" /\ Overtakes(i, Earlier(i), <<>>)
      /\ open' = open \cup {"share"} /\ UNCHANGED <<stored, home, fs3, shown, picked>>
      /\ share' = [share EXCEPT !.link = c.reply, !.fresh = ~c.late]
  BY DEF LinkMade, IsAnswered, Answer
<1>3. c.reply = [c.arg EXCEPT !.expiry = Expiry(@)]
  BY <1>1, <1>2 DEF IsCall, Answers
<1>4. CallsOK' /\ Spared(AllOps \ {"PresignedGet"})
  BY <1>1, <1>2, LastStep
<1>5. /\ IsShare(share') /\ Sets(share, share', {"link", "fresh"})
      /\ share'.link = c.reply /\ (share'.fresh <=> ~c.late)
  <2> DEFINE u == ~c.late
             r == c.reply
  <2>1. share' = [share EXCEPT !.link = r, !.fresh = u]
    BY <1>2
  <2> HIDE DEF u, r
  <2>2. /\ IsShare(share') /\ Sets(share, share', {"link", "fresh"})
        /\ share'.link = r /\ share'.fresh = u
    BY <1>1, <2>1 DEF IsShare, ShareFields, Sets
  <2>3. QED
    BY <2>2 DEF u, r
<1>6. TypeInv'
  BY <1>2, <1>4, <1>5 DEF TypeInv, Aside, menuVars
<1>7. SideOf(open') = SideOf(open)
  BY <1>2 DEF SideOf
<1>8. QED
  BY <1>2, <1>3, <1>4, <1>5, <1>6, <1>7 DEF Touches, Sets

\* The deals of a row are there.
LEMMA DealsListedStep ==
  ASSUME TypeInv, NEW i \in DOMAIN calls, DealsListed(i), Aside
  PROVE  LET c == calls[i] IN
         /\ TypeInv' /\ UNCHANGED <<stored, home, share, open, shown, picked>>
         /\ Touches({}, {"exChangeList"}, {}, {}, {"Retrieve"})
         /\ c.op = "Retrieve" /\ Overtakes(i, Earlier(i), <<>>)
         /\ fs3'.exChangeList = {[of |-> c.arg, late |-> c.late]}
<1> DEFINE c == calls[i]
           r == c.reply
           u == {[of |-> r, late |-> c.late]}
<1>1. CallsOK /\ IsFs3(fs3) /\ IsCall(c)
  BY CallAt DEF TypeInv
<1>2. /\ c.op = "Retrieve" /\ c.state = "answered" /\ Overtakes(i, Earlier(i), <<>>)
      /\ UNCHANGED <<stored, home, share, open, shown, picked>>
      /\ fs3' = [fs3 EXCEPT !.exChangeList = u]
  BY DEF DealsListed, IsAnswered, Answer
<1>3. r = c.arg
  BY <1>1, <1>2 DEF IsCall, Answers
<1>4. CallsOK' /\ Spared(AllOps \ {"Retrieve"})
  BY <1>1, <1>2, LastStep
<1> HIDE DEF u
<1>5. /\ DOMAIN fs3' = Fs3Fields /\ fs3'.exChangeList = u
      /\ \A k \in Fs3Fields \ {"exChangeList"} : fs3'[k] = fs3[k]
  BY <1>1, <1>2 DEF IsFs3, Fs3Fields
<1>6. /\ fs3'.tableData = fs3.tableData /\ fs3'.sorted = fs3.sorted
      /\ fs3'.currentBucketAll = fs3.currentBucketAll /\ fs3'.prefixName = fs3.prefixName
      /\ fs3'.deleteDialogIndex = fs3.deleteDialogIndex
  BY <1>5 DEF Fs3Fields
<1>7. IsFs3(fs3') /\ Sets(fs3, fs3', {"exChangeList"})
  BY <1>1, <1>5, <1>6 DEF IsFs3, Sets
<1>8. TypeInv'
  BY <1>2, <1>4, <1>7 DEF TypeInv, Aside, menuVars
<1>9. QED
  BY <1>2, <1>3, <1>4, <1>5, <1>7, <1>8 DEF Touches, Sets, u

\* An answer is lost, or tells of an error.
LEMMA DroppedStep ==
  ASSUME TypeInv, NEW i \in DOMAIN calls, Dropped(i), Aside
  PROVE  LET c == calls[i] IN
         /\ TypeInv' /\ UNCHANGED <<stored, home, open, picked>>
         /\ Touches({}, {"exChangeList"}, {"fresh"}, {"fresh", "cut"}, {c.op})
         /\ c.op \in PageOps /\ Overtakes(i, Earlier(i), <<>>)
         /\ shown'.fresh => shown.fresh /\ c.op \notin {"ListObjects", "RemoveObject", "Upload"}
         /\ ~shown'.cut => ~shown.cut /\ ~(c.op = "Upload" /\ c.arg.loaded < c.arg.size)
         /\ share'.fresh => share.fresh /\ c.op # "PresignedGet"
         /\ c.op # "Retrieve" => fs3' = fs3
         /\ c.op = "Retrieve" => fs3'.exChangeList = Old(fs3.exChangeList)
<1> DEFINE c == calls[i]
<1>1. CallsOK /\ IsFs3(fs3) /\ IsShare(share) /\ IsShown(shown)
  BY DEF TypeInv
<1>2. /\ c.op \in PageOps /\ Overtakes(i, Earlier(i), <<>>) /\ UNCHANGED <<stored, home, open, picked>>
      /\ fs3' = IF c.op = "Retrieve" THEN [fs3 EXCEPT !.exChangeList = Old(@)] ELSE fs3
  BY DEF Dropped, Outstanding
<1>3. /\ IsShown(shown') /\ Sets(shown, shown', {"fresh", "cut"})
      /\ shown'.fresh => shown.fresh /\ c.op \notin {"ListObjects", "RemoveObject", "Upload"}
      /\ ~shown'.cut => ~shown.cut /\ ~(c.op = "Upload" /\ c.arg.loaded < c.arg.size)
  <2> DEFINE u == shown.fresh /\ c.op \notin {"ListObjects", "RemoveObject", "Upload"}
             v == shown.cut \/ (c.op = "Upload" /\ c.arg.loaded < c.arg.size)
  <2>1. shown' = [shown EXCEPT !.fresh = u, !.cut = v]
    BY DEF Dropped
  <2> HIDE DEF u, v
  <2>2. /\ IsShown(shown') /\ Sets(shown, shown', {"fresh", "cut"})
        /\ shown'.fresh = u /\ shown'.cut = v
    BY <1>1, <2>1 DEF IsShown, ShownFields, Sets
  <2>3. QED
    BY <2>2 DEF u, v
<1>4. /\ IsShare(share') /\ Sets(share, share', {"fresh"})
      /\ share'.fresh => share.fresh /\ c.op # "PresignedGet"
  <2> DEFINE u == share.fresh /\ c.op # "PresignedGet"
  <2>1. share' = [share EXCEPT !.fresh = u]
    BY DEF Dropped
  <2> HIDE DEF u
  <2>2. /\ IsShare(share') /\ Sets(share, share', {"fresh"}) /\ share'.fresh = u
    BY <1>1, <2>1 DEF IsShare, ShareFields, Sets
  <2>3. QED
    BY <2>2 DEF u
<1>5. /\ IsFs3(fs3') /\ Sets(fs3, fs3', {"exChangeList"})
      /\ c.op = "Retrieve" => fs3'.exChangeList = Old(fs3.exChangeList)
  <2>1. CASE c.op = "Retrieve"
    <3>1. /\ DOMAIN fs3' = Fs3Fields /\ fs3'.exChangeList = Old(fs3.exChangeList)
          /\ \A k \in Fs3Fields \ {"exChangeList"} : fs3'[k] = fs3[k]
      BY <1>1, <1>2, <2>1 DEF IsFs3, Fs3Fields
    <3>2. /\ fs3'.tableData = fs3.tableData /\ fs3'.sorted = fs3.sorted
          /\ fs3'.currentBucketAll = fs3.currentBucketAll /\ fs3'.prefixName = fs3.prefixName
          /\ fs3'.deleteDialogIndex = fs3.deleteDialogIndex
      BY <3>1 DEF Fs3Fields
    <3>3. QED
      BY <1>1, <3>1, <3>2 DEF IsFs3, Sets
  <2>2. CASE c.op # "Retrieve"
    BY <1>1, <1>2, <2>2 DEF Sets
  <2>3. QED
    BY <2>1, <2>2
<1>6. CallsOK' /\ Spared(AllOps \ {c.op})
  BY <1>1, <1>2, LastStep
<1>7. TypeInv'
  BY <1>2, <1>3, <1>4, <1>5, <1>6 DEF TypeInv, Aside, menuVars
<1>8. QED
  BY <1>2, <1>3, <1>4, <1>5, <1>6, <1>7 DEF Touches, Sets

----------------------------------------------------------------------------
(* The handlers of the menu.                                               *)

\* The policies are listed.
LEMMA PoliciesListedStep ==
  ASSUME TypeInv, NEW i \in DOMAIN calls, PoliciesListed(i), UNCHANGED deal
  PROVE  LET c == calls[i] IN
         /\ TypeInv' /\ UNCHANGED <<pageVars, policies>> /\ Sets(slide, slide', {"bucketPolicies", "fresh"})
         /\ Touches({}, {}, {}, {}, {"ListAllBucketPolicies"})
         /\ c.op = "ListAllBucketPolicies" /\ c.state = "answered" /\ c.reply.ok
         /\ Overtakes(i, Earlier(i), <<>>)
         /\ slide'.bucketPolicies = c.reply.policies /\ (slide'.fresh <=> ~c.late)
<1> DEFINE c == calls[i]
<1>1. CallsOK /\ IsSlide(slide)
  BY DEF TypeInv
<1>2. /\ c.op = "ListAllBucketPolicies" /\ c.state = "answered" /\ c.reply.ok
      /\ UNCHANGED <<pageVars, policies>> /\ Overtakes(i, Earlier(i), <<>>)
  BY DEF PoliciesListed, Answered, IsAnswered, Answer
<1>3. CallsOK' /\ Spared(AllOps \ {"ListAllBucketPolicies"})
  BY <1>1, <1>2, LastStep
<1>4. /\ IsSlide(slide') /\ Sets(slide, slide', {"bucketPolicies", "fresh"})
      /\ slide'.bucketPolicies = c.reply.policies /\ (slide'.fresh <=> ~c.late)
  <2> DEFINE u == c.reply.policies
             v == ~c.late
  <2>1. slide' = [slide EXCEPT !.bucketPolicies = u, !.fresh = v]
    BY DEF PoliciesListed, Answer
  <2> HIDE DEF u, v
  <2>2. /\ IsSlide(slide') /\ Sets(slide, slide', {"bucketPolicies", "fresh"})
        /\ slide'.bucketPolicies = u /\ slide'.fresh = v
    BY <1>1, <2>1 DEF IsSlide, SlideFields, Sets
  <2>3. QED
    BY <2>2 DEF u, v
<1>5. QED
  BY <1>2, <1>3, <1>4 DEF TypeInv, Touches, Sets, pageVars

\* A policy has been set, or a bucket deleted, and a list is asked for.
Relists(i) == PolicySet(i) \/ BucketDeleted(i)
LEMMA RelistStep ==
  ASSUME TypeInv, NEW i \in DOMAIN calls, Relists(i), UNCHANGED deal
  PROVE  LET c == calls[i] IN
         /\ TypeInv' /\ UNCHANGED <<pageVars, menuVars>>
         /\ \/ /\ c.op = "SetBucketPolicy" /\ Done(i, <<PoliciesCall(home.currentBucket)>>)
               /\ IsCall(PoliciesCall(home.currentBucket))
               /\ Touches({}, {}, {}, {}, {"SetBucketPolicy", "ListAllBucketPolicies"})
            \/ Touches({}, {}, {}, {}, {"DeleteBucket", "ListBuckets"})
<1> DEFINE c == calls[i]
<1>1. CallsOK
  BY DEF TypeInv
<1>2. UNCHANGED <<pageVars, menuVars>>
  BY DEF Relists, PolicySet, BucketDeleted, Answered, menuVars
<1>3. CASE PolicySet(i)
  <2> DEFINE e == PoliciesCall(home.currentBucket)
             cs == <<e>>
             ops == {"SetBucketPolicy", "ListAllBucketPolicies"}
  <2>1. c.op = "SetBucketPolicy" /\ Done(i, cs)
    BY <1>3 DEF PolicySet, Answered, IsAnswered
  <2>2. IsCall(e) /\ e.op = "ListAllBucketPolicies"
    BY NewAnyCall DEF AnyArgs, PoliciesCall
  <2> HIDE DEF e
  <2>3. Sequence(cs) /\ calls[i].op \in ops /\ \A d \in Of(cs) : IsCall(d) /\ d.op \in ops
    BY <2>1, <2>2, Single
  <2> HIDE DEF cs, ops
  <2>4. CallsOK' /\ Spared(AllOps \ ops)
    BY <1>1, <2>1, <2>3, DoneStep
  <2>5. QED
    BY <1>2, <2>1, <2>2, <2>4 DEF TypeInv, Touches, Sets, pageVars, menuVars, ops, cs, e
<1>4. CASE BucketDeleted(i)
  <2> DEFINE e == ListBucketsCall(<<>>)
             cs == <<e>>
             ops == {"DeleteBucket", "ListBuckets"}
  <2>1. c.op = "DeleteBucket" /\ Done(i, cs)
    BY <1>4 DEF BucketDeleted, Answered, IsAnswered
  <2>2. IsCall(e) /\ e.op = "ListBuckets"
    BY NewBucketsCall
  <2> HIDE DEF e
  <2>3. Sequence(cs) /\ calls[i].op \in ops /\ \A d \in Of(cs) : IsCall(d) /\ d.op \in ops
    BY <2>1, <2>2, Single
  <2> HIDE DEF cs, ops
  <2>4. CallsOK' /\ Spared(AllOps \ ops)
    BY <1>1, <2>1, <2>3, DoneStep
  <2>5. QED
    BY <1>2, <2>4 DEF TypeInv, Touches, Sets, pageVars, menuVars, ops
<1>5. QED
  BY <1>3, <1>4 DEF Relists

\* The deals of a bucket are there.
LEMMA BucketDealsListedStep ==
  ASSUME TypeInv, NEW i \in DOMAIN calls, BucketDealsListed(i), UNCHANGED deal
  PROVE  LET c == calls[i] IN
         /\ TypeInv' /\ UNCHANGED <<pageVars, policies>> /\ Sets(slide, slide', {"exChangeList"})
         /\ Touches({}, {}, {}, {}, {"BucketDeals"})
         /\ c.op = "BucketDeals" /\ Overtakes(i, Earlier(i), <<>>)
         /\ slide'.exChangeList = {[of |-> c.arg, late |-> c.late]}
<1> DEFINE c == calls[i]
           r == c.reply
           u == {[of |-> r, late |-> c.late]}
<1>1. CallsOK /\ IsSlide(slide) /\ IsCall(c)
  BY CallAt DEF TypeInv
<1>2. /\ c.op = "BucketDeals" /\ c.state = "answered" /\ Overtakes(i, Earlier(i), <<>>)
      /\ UNCHANGED <<pageVars, policies>> /\ slide' = [slide EXCEPT !.exChangeList = u]
  BY DEF BucketDealsListed, Answered, IsAnswered, Answer
<1>3. r = c.arg
  BY <1>1, <1>2 DEF IsCall, Answers
<1>4. CallsOK' /\ Spared(AllOps \ {"BucketDeals"})
  BY <1>1, <1>2, LastStep
<1> HIDE DEF u
<1>5. /\ IsSlide(slide') /\ Sets(slide, slide', {"exChangeList"}) /\ slide'.exChangeList = u
  BY <1>1, <1>2 DEF IsSlide, SlideFields, Sets
<1>6. QED
  BY <1>2, <1>3, <1>4, <1>5 DEF TypeInv, Touches, Sets, pageVars, u

LEMMA MenuDroppedStep ==
  ASSUME TypeInv, NEW i \in DOMAIN calls, MenuDropped(i), UNCHANGED deal
  PROVE  LET c == calls[i] IN
         /\ TypeInv' /\ UNCHANGED <<pageVars, policies>> /\ Sets(slide, slide', {"fresh", "exChangeList"})
         /\ Touches({}, {}, {}, {}, {c.op})
         /\ c.op \in MenuOps /\ Overtakes(i, Earlier(i), <<>>)
         /\ slide'.fresh => slide.fresh /\ c.op = "BucketDeals"
         /\ slide'.exChangeList = IF c.op = "BucketDeals" THEN Old(slide.exChangeList)
                                                          ELSE slide.exChangeList
<1> DEFINE c == calls[i]
<1>1. CallsOK /\ IsSlide(slide)
  BY DEF TypeInv
<1>2. /\ c.op \in MenuOps /\ Overtakes(i, Earlier(i), <<>>) /\ UNCHANGED <<pageVars, policies>>
  BY DEF MenuDropped, Outstanding
<1>3. CallsOK' /\ Spared(AllOps \ {c.op})
  BY <1>1, <1>2, LastStep
<1>4. /\ IsSlide(slide') /\ Sets(slide, slide', {"fresh", "exChangeList"})
      /\ slide'.fresh => slide.fresh /\ c.op = "BucketDeals"
      /\ slide'.exChangeList = IF c.op = "BucketDeals" THEN Old(slide.exChangeList)
                                                       ELSE slide.exChangeList
  <2> DEFINE u == slide.fresh /\ c.op = "BucketDeals"
             v == IF c.op = "BucketDeals" THEN Old(slide.exChangeList) ELSE slide.exChangeList
  <2>1. slide' = [slide EXCEPT !.fresh = u, !.exChangeList = v]
    BY DEF MenuDropped
  <2> HIDE DEF u, v
  <2>2. /\ IsSlide(slide') /\ Sets(slide, slide', {"fresh", "exChangeList"})
        /\ slide'.fresh = u /\ slide'.exChangeList = v
    BY <1>1, <2>1 DEF IsSlide, SlideFields, Sets
  <2>3. QED
    BY <2>2 DEF u, v
<1>5. QED
  BY <1>2, <1>3, <1>4 DEF TypeInv, Touches, Sets, pageVars

----------------------------------------------------------------------------
(* The handlers of the dialogs for deals.                                  *)

\* A request of a dialog is answered, or lost.
LEMMA LocatedFewer ==
  ASSUME TypeInv, Located, NEW i \in DOMAIN calls, Done(i, <<>>), DOMAIN deal' = Dialogs,
         \A d \in Dialogs : deal'[d].parentName = deal[d].parentName,
         \A d \in Dialogs : deal'[d].tableData # <<>> =>
             deal[d].tableData # <<>> \/ (calls[i].op = "Miners" /\ d = calls[i].arg.dialog)
  PROVE  Located'
<1>1. CallsOK /\ \A x \in Of(calls) : x.op = "Miners" => x.arg.dialog \in Dialogs
  BY DEF TypeInv, CallsOK, IsCall, IsArg, DealArg, DealOps
<1>2. calls[i] \in Of(calls)
  BY DEF Of
<1>3. \A x \in Of(calls') : \E k \in DOMAIN calls : x.op = calls[k].op /\ x.arg = calls[k].arg
  <2> DEFINE cs == <<>>
             js == {}
  <2>1. Sequence(cs) /\ Of(cs) = {} /\ Overtakes(i, js, cs) /\ Requests
    BY <1>1, Empty, CallsAreRequests, DoneOvertakes
  <2> HIDE DEF cs, js
  <2>2. QED
    BY <2>1, FinishedOf DEF IsNow
<1>4. \A k \in DOMAIN calls : calls[k] \in Of(calls)
  BY DEF Of
<1>5. ASSUME NEW x \in Of(calls'), x.op = "Miners" PROVE deal'[x.arg.dialog].parentName \in Locations
  <2>1. PICK k \in DOMAIN calls : x.op = calls[k].op /\ x.arg = calls[k].arg
    BY <1>3
  <2>2. calls[k].arg.dialog \in Dialogs /\ deal[calls[k].arg.dialog].parentName \in Locations
    BY <1>1, <1>4, <1>5, <2>1 DEF Located
  <2>3. QED
    BY <2>1, <2>2
<1>6. ASSUME NEW d \in Dialogs, deal'[d].tableData # <<>> PROVE deal'[d].parentName \in Locations
  <2>1. CASE deal[d].tableData # <<>>
    BY <2>1 DEF Located
  <2>2. CASE calls[i].op = "Miners" /\ d = calls[i].arg.dialog
    BY <1>2, <2>2 DEF Located
  <2>3. QED
    BY <1>6, <2>1, <2>2
<1>7. QED
  BY <1>5, <1>6 DEF Located

\* A page of providers is there.
PageOf(c) == IF c.arg.page * PageSize < Miners[c.arg.location]
               THEN <<<<c.arg.location, c.arg.page>>>> ELSE <<>>
LEMMA MinersListedStep ==
  ASSUME TypeInv, Located, NEW i \in DOMAIN calls, MinersListed(i)
  PROVE  LET c == calls[i]
             d == c.arg.dialog
             f == deal[d]
             g == deal'[d]
             total == Miners[c.arg.location]
         IN
         /\ TypeInv' /\ Located' /\ UNCHANGED <<pageVars, menuVars>>
         /\ Touches({}, {}, {}, {}, {"Miners"})
         /\ c.op = "Miners" /\ Done(i, <<>>)
         /\ d \in Dialogs /\ c.arg.location \in Locations /\ c.arg.page \in Nat /\ total \in Nat \ {0}
         /\ \A e \in Dialogs \ {d} : deal'[e] = deal[e]
         /\ g.parentName = f.parentName /\ g.page = f.page /\ g.loadSign
         /\ c.arg.page = 0 => /\ g.tableData = PageOf(c)
                              /\ g.total = IF total > PageSize THEN total ELSE f.total
                              /\ g.fresh => ~c.late /\ f.page = 0
         /\ c.arg.page # 0 => /\ g.tableData = f.tableData \o PageOf(c)
                              /\ g.total = f.total
                              /\ g.fresh => f.fresh /\ ~c.late
<1> DEFINE c == calls[i]
           d == c.arg.dialog
           f == deal[d]
           total == Miners[c.arg.location]
           rows == PageOf(c)
<1>1. /\ DOMAIN deal = Dialogs /\ (\A e \in Dialogs : IsDeal(deal[e])) /\ CallsOK
      /\ IsCall(c) /\ c \in Of(calls)
  BY CallAt DEF TypeInv
<1>2. c.op = "Miners" /\ c.state = "answered" /\ Done(i, <<>>) /\ UNCHANGED <<pageVars, menuVars>>
  BY DEF MinersListed, IsAnswered, DealStays
<1>3. /\ d \in Dialogs /\ c.arg.location \in Locations /\ c.arg.page \in Nat
      /\ Answer(i).total = total
  BY <1>1, <1>2 DEF IsCall, IsArg, DealArg, DealOps, Answers, Answer
<1>4. total \in Nat \ {0} /\ IsDeal(f)
  BY <1>1, <1>3, DealBounds
<1>5. Sequence(rows)
  <2>1. Sequence(<<>>) /\ Sequence(<<<<c.arg.location, c.arg.page>>>>)
    BY Empty, Single
  <2>2. QED
    BY <2>1 DEF PageOf
<1>6. rows = IF c.arg.page * PageSize < Answer(i).total THEN <<<<c.arg.location, c.arg.page>>>> ELSE <<>>
  BY <1>3 DEF PageOf
<1> DEFINE n == IF total > PageSize THEN total ELSE f.total
           u == ~c.late /\ f.page = 0
           v == f.fresh /\ ~c.late
           t == f.tableData \o rows
           g == IF c.arg.page = 0
                  THEN [f EXCEPT !.tableData = rows, !.loadSign = TRUE, !.total = n, !.fresh = u]
                  ELSE [f EXCEPT !.tableData = t, !.loadSign = TRUE, !.fresh = v]
<1>7. deal' = [deal EXCEPT ![d] = g]
  BY <1>3, <1>6 DEF MinersListed
<1>8. Sequence(t)
  BY <1>4, <1>5, Joined DEF IsDeal
<1>9. n \in Nat
  BY <1>4 DEF IsDeal
<1> HIDE DEF n, u, v, t, rows
<1>10. /\ DOMAIN g = DOMAIN DealView /\ g.parentName = f.parentName /\ g.page = f.page /\ g.loadSign
       /\ c.arg.page = 0 => g.tableData = rows /\ g.total = n /\ g.fresh = u
       /\ c.arg.page # 0 => g.tableData = t /\ g.total = f.total /\ g.fresh = v
  <2>1. DOMAIN f = {"activeOn", "minerId", "providerId", "tips", "dealCID", "finishTransaction",
                    "taskName", "parentName", "tableData", "page", "total", "loadSign", "fresh"}
        /\ DOMAIN f = DOMAIN DealView
    BY <1>4 DEF IsDeal, DealView
  <2> HIDE DEF f, c
  <2>2. CASE c.arg.page = 0
    BY <2>1, <2>2
  <2>3. CASE c.arg.page # 0
    BY <2>1, <2>3
  <2>4. QED
    BY <2>2, <2>3
<1> HIDE DEF g
<1>11. IsDeal(g)
  BY <1>4, <1>5, <1>8, <1>9, <1>10 DEF IsDeal
<1>12. DOMAIN deal' = Dialogs /\ \A e \in Dialogs : deal'[e] = IF e = d THEN g ELSE deal[e]
  BY <1>1, <1>3, <1>7
<1>13. CallsOK' /\ Spared(AllOps \ {"Miners"})
  BY <1>1, <1>2, LastStep
<1>14. TypeInv'
  BY <1>1, <1>2, <1>11, <1>12, <1>13 DEF TypeInv, pageVars, menuVars
<1>15. Located'
  BY <1>2, <1>10, <1>12, LocatedFewer
<1>16. Touches({}, {}, {}, {}, {"Miners"})
  BY <1>2, <1>13 DEF Touches, Sets, pageVars
<1>17. QED
  BY <1>2, <1>3, <1>4, <1>10, <1>12, <1>14, <1>15, <1>16 DEF n, u, v, t, rows

\* A deal is answered, or lost.
DealEnds(i) == DealSent(i) \/ OfflineDealSent(i) \/ (DealDropped(i) /\ calls[i].op # "Miners")
LEMMA DealEndsStep ==
  ASSUME TypeInv, NEW i \in DOMAIN calls, DealEnds(i)
  PROVE  /\ TypeInv' /\ UNCHANGED <<pageVars, menuVars>> /\ FormsOnly
         /\ Touches({}, {}, {}, {}, DealApis) /\ Done(i, <<>>)
<1> DEFINE c == calls[i]
           d == c.arg.dialog
           f == deal[d]
<1>1. /\ DOMAIN deal = Dialogs /\ (\A e \in Dialogs : IsDeal(deal[e])) /\ CallsOK /\ IsCall(c)
  BY CallAt DEF TypeInv
<1>2. c.op \in DealApis /\ Done(i, <<>>) /\ UNCHANGED <<pageVars, menuVars>>
  BY DEF DealEnds, DealSent, OfflineDealSent, DealDropped, IsAnswered, DealStays, Outstanding, DealOps, DealApis
<1>3. d \in Dialogs
  BY <1>1, <1>2 DEF IsCall, IsArg, DealArg, DealOps
<1>4. IsDeal(f)
  BY <1>1, <1>3
<1>5. FormsOnly
  <2>1. CASE DealSent(i)
    <3> DEFINE r == Answer(i).of
               g == [f EXCEPT !.dealCID = r]
    <3>1. deal' = [deal EXCEPT ![d] = g]
      BY <1>1, <1>3, <2>1 DEF DealSent
    <3> HIDE DEF r
    <3>2. DOMAIN g = DOMAIN DealView /\ \A k \in MinersFields : g[k] = f[k]
      BY <1>4 DEF IsDeal, DealView, MinersFields
    <3> HIDE DEF g, d
    <3>3. QED
      BY <1>3, <3>1, <3>2, FormChanges
  <2>2. CASE OfflineDealSent(i)
    <3> DEFINE r == Answer(i).of
               g == [f EXCEPT !.finishTransaction = TRUE, !.taskName = r]
    <3>1. deal' = [deal EXCEPT ![d] = g]
      BY <1>1, <1>3, <2>2 DEF OfflineDealSent
    <3> HIDE DEF r
    <3>2. DOMAIN g = DOMAIN DealView /\ \A k \in MinersFields : g[k] = f[k]
      BY <1>4 DEF IsDeal, DealView, MinersFields
    <3> HIDE DEF g, d
    <3>3. QED
      BY <1>3, <3>1, <3>2, FormChanges
  <2>3. CASE DealDropped(i)
    BY <1>2, <2>3, FormsStay DEF DealDropped, DealApis
  <2>4. QED
    BY <2>1, <2>2, <2>3 DEF DealEnds
<1>6. CallsOK' /\ Spared(AllOps \ {c.op})
  BY <1>1, <1>2, LastStep
<1>7. AllOps \ DealApis \subseteq AllOps \ {c.op}
  BY <1>2
<1>8. Spared(AllOps \ DealApis)
  BY <1>6, <1>7, SparedFewer
<1>9. QED
  BY <1>2, <1>5, <1>6, <1>8 DEF TypeInv, FormsOnly, Touches, Sets, pageVars, menuVars

\* A page of providers is lost.
LEMMA PageLostStep ==
  ASSUME TypeInv, Located, NEW i \in DOMAIN calls, DealDropped(i), calls[i].op = "Miners"
  PROVE  LET c == calls[i]
             d == c.arg.dialog
         IN
         /\ TypeInv' /\ Located' /\ UNCHANGED <<pageVars, menuVars>>
         /\ Touches({}, {}, {}, {}, {"Miners"}) /\ Done(i, <<>>)
         /\ d \in Dialogs /\ \A e \in Dialogs \ {d} : deal'[e] = deal[e]
         /\ ~deal'[d].fresh /\ \A k \in MinersFields \ {"fresh"} : deal'[d][k] = deal[d][k]
<1> DEFINE c == calls[i]
           d == c.arg.dialog
           f == deal[d]
           g == [f EXCEPT !.fresh = FALSE]
<1>1. /\ DOMAIN deal = Dialogs /\ (\A e \in Dialogs : IsDeal(deal[e])) /\ CallsOK /\ IsCall(c)
  BY CallAt DEF TypeInv
<1>2. d \in Dialogs
  BY <1>1 DEF IsCall, IsArg, DealArg, DealOps
<1>3. Done(i, <<>>) /\ UNCHANGED <<pageVars, menuVars>> /\ deal' = [deal EXCEPT ![d] = g]
  BY <1>1, <1>2 DEF DealDropped, DealStays
<1>4. DOMAIN g = DOMAIN DealView /\ ~g.fresh /\ \A k \in MinersFields \ {"fresh"} : g[k] = f[k]
  BY <1>1, <1>2 DEF IsDeal, DealView, MinersFields
<1> HIDE DEF g
<1>5. g.tableData = f.tableData /\ g.total = f.total /\ g.parentName = f.parentName /\ g.page = f.page
  BY <1>4 DEF MinersFields
<1>6. IsDeal(g)
  BY <1>1, <1>2, <1>4, <1>5 DEF IsDeal
<1>7. DOMAIN deal' = Dialogs /\ \A e \in Dialogs : deal'[e] = IF e = d THEN g ELSE deal[e]
  BY <1>1, <1>2, <1>3
<1>8. CallsOK' /\ Spared(AllOps \ {"Miners"})
  BY <1>1, <1>3, LastStep
<1>9. TypeInv'
  BY <1>1, <1>3, <1>6, <1>7, <1>8 DEF TypeInv, pageVars, menuVars
<1>10. Located'
  BY <1>3, <1>5, <1>7, LocatedFewer
<1>11. QED
  BY <1>2, <1>3, <1>4, <1>7, <1>8, <1>9, <1>10 DEF Touches, Sets, pageVars

----------------------------------------------------------------------------
(* The steps, by what they write.                                          *)

LEMMA TouchesMore ==
  ASSUME NEW H, NEW F, NEW S, NEW N, NEW ops, Touches(H, F, S, N, ops),
         NEW H2, NEW F2, NEW S2, NEW N2, NEW ops2,
         H \subseteq H2, F \subseteq F2, S \subseteq S2, N \subseteq N2, ops \subseteq ops2
  PROVE  Touches(H2, F2, S2, N2, ops2)
<1>1. AllOps \ ops2 \subseteq AllOps \ ops
  OBVIOUS
<1>2. Spared(AllOps \ ops2)
  BY <1>1, SparedFewer DEF Touches
<1>3. QED
  BY <1>2 DEF Touches, Sets

\* Nothing of the page changes that a property is about.
Resting == \/ Pauses /\ Aside
           \/ (\E b \in Buckets \cup {0} : SearchBucketFun(b)) /\ UNCHANGED deal
           \/ (\E i \in DOMAIN calls : InfoRead(i)) /\ Aside
\* The dialogs for deals.
Dealing == \/ Fills \/ Submits
           \/ \E d \in Dialogs, location \in Locations : HandleOpen(d, location)
           \/ \E d \in Dialogs : LoadMore(d) \/ GetDiglogChange(d)
           \/ \E i \in DOMAIN calls : \/ MinersListed(i) \/ DealEnds(i)
                                      \/ DealDropped(i) /\ calls[i].op = "Miners"
\* The menu of a bucket, and its policies and deals.
Tending(i) == SetBucketPolicy(i) \/ PoliciesListed(i) \/ Relists(i) \/ BucketDealsListed(i) \/ MenuDropped(i)
Minding == (MenuAsks \/ \E i \in DOMAIN calls : Tending(i)) /\ UNCHANGED deal
\* The user goes to the top of a bucket, or elsewhere in it.
Going == \/ (\E b \in Buckets : GetListBucket(b)) /\ Aside
         \/ (\E n : MenuGoes(n)) /\ UNCHANGED deal
Walking == (\E path : GoesWithin(path)) /\ Aside
\* Rows are selected, or not any more.
Picking(i) == DrawPlay(i) \/ DeleteBtn(i) \/ Shares(i)
Selecting == /\ \/ Unselects \/ \E i \in DOMAIN calls : Downloaded(i)
                \/ \E i \in DOMAIN fs3.tableData : Picking(i)
             /\ Aside
\* Home goes to another bucket by itself, or will.
Arriving(i) == BucketsListed(i) \/ BucketMade(i) \/ BucketNotMade(i)
Moving == /\ (\E p \in Paths : EditAway(p)) \/ \E i \in DOMAIN calls : Arriving(i)
          /\ Aside
\* FS3 answers, or does what it is asked to do.
Replying == (\E i \in DOMAIN calls : Answering(i)) /\ Elsewhere
Storing == (\E i \in DOMAIN calls : Stores(i)) /\ Aside
Deleting == (\E i \in DOMAIN calls : DeleteBucket(i)) /\ UNCHANGED deal
\* The rest of what the user does at the page, and of its handlers.
Sharing == (\E t \in Times : HandleChange(t)) /\ Aside
Opening == (\E i \in DOMAIN fs3.tableData : ExChange(i)) /\ Aside
Uploading == (\E file \in FileNames, size \in FileSizes : OnChange(file, size)) /\ Aside
Handling(i) == \/ ObjectsListed(i) \/ ObjectRemoved(i) \/ ProgressFunction(i) \/ Uploaded(i)
               \/ LinkMade(i) \/ DealsListed(i) \/ Dropped(i)
Steps == \/ Resting \/ Dealing \/ Minding \/ Going \/ Walking \/ Selecting \/ Moving
         \/ Replying \/ Storing \/ Deleting \/ Sharing \/ Opening \/ Uploading
         \/ (\E i \in DOMAIN calls : Handling(i)) /\ Aside

LEMMA EveryStep ==
  ASSUME TypeInv, Next
  PROVE  Steps
<1>1. CASE PageUser /\ Aside
  <2>1. CASE \E b \in Buckets : GetListBucket(b)
    BY <1>1, <2>1 DEF Steps, Going
  <2>2. CASE HomeUser
    BY <1>1, <2>2 DEF HomeUser, Steps, Resting, Pauses, Uploading
  <2>3. CASE CreateDialog
    BY <1>1, <2>3 DEF CreateDialog, Steps, Resting, Pauses, Selecting, Unselects
  <2>4. CASE \E p \in Paths : EditPath(p)
    <3>1. PICK p \in Paths : EditPath(p)
      BY <2>4
    <3>2. CASE <<p[1]>> = home.currentBucket
      BY <1>1, <3>1, <3>2, EditWalks DEF Steps, Walking
    <3>3. CASE <<p[1]>> # home.currentBucket
      BY <1>1, <3>1, <3>3 DEF Steps, Moving, EditAway
    <3>4. QED
      BY <3>2, <3>3
  <2>5. CASE \E n \in 1..Len(fs3.currentBucketAll) : BuckerAdress(n)
    BY <1>1, <2>5, HeaderWalks DEF Steps, Walking
  <2>6. CASE DrawerUser
    BY <1>1, <2>6 DEF DrawerUser, Steps, Resting, Pauses, Selecting, Unselects
  <2>7. CASE DeleteDialog
    BY <1>1, <2>7 DEF DeleteDialog, Steps, Resting, Pauses, Selecting, Unselects
  <2>8. CASE ShareForm
    BY <1>1, <2>8 DEF ShareForm, Steps, Sharing
  <2>9. CASE \E i \in DOMAIN fs3.tableData : RowUser(i) \/ RowMenu(i)
    <3>1. PICK i \in DOMAIN fs3.tableData : RowUser(i) \/ RowMenu(i)
      BY <2>9
    <3>2. CASE CurListFolder(i)
      BY <1>1, <3>2, FolderWalks DEF Steps, Walking
    <3>3. CASE DrawPlay(i) \/ RowMenu(i)
      BY <1>1, <3>3 DEF RowMenu, Steps, Selecting, Picking, Shares
    <3>4. CASE ExChange(i)
      BY <1>1, <3>4 DEF Steps, Opening
    <3>5. QED
      BY <3>1, <3>2, <3>3, <3>4 DEF RowUser
  <2>10. QED
    BY <1>1, <2>1, <2>2, <2>3, <2>4, <2>5, <2>6, <2>7, <2>8, <2>9 DEF PageUser, HeaderUser
<1>2. CASE MenuUser /\ UNCHANGED deal
  <2>1. CASE BucketList
    <3>1. CASE \E b \in Buckets \cup {0} : SearchBucketFun(b)
      BY <1>2, <3>1 DEF Steps, Resting
    <3>2. CASE (\E b \in Buckets : CaozuoFun(b)) \/ BackupFun \/ RetrievalFun
      BY <1>2, <3>2 DEF Steps, Going, MenuGoes
    <3>3. CASE DialogFun \/ DialogDeleteFun
      BY <1>2, <3>3 DEF Steps, Minding, MenuAsks
    <3>4. QED
      BY <2>1, <3>1, <3>2, <3>3 DEF BucketList
  <2>2. CASE PolicyDialog \/ \E d \in {"menu", "policy", "retrieval"} : CloseMenu(d)
    BY <1>2, <2>2 DEF Steps, Minding, MenuAsks
  <2>3. QED
    BY <1>2, <2>1, <2>2 DEF MenuUser
<1>3. CASE DealUser
  BY <1>3 DEF DealUser, MinerMenu, OnlineForm, OfflineForm, DealTabs, Steps, Dealing, Fills, Submits
<1>4. CASE PageServer /\ Aside
  <2>1. PICK i \in DOMAIN calls : \/ ListBuckets(i) \/ ListObjects(i) \/ PresignedGet(i) \/ Told(i)
                                  \/ Stores(i)
    BY <1>4 DEF PageServer, Stores
  <2>2. CASE ListBuckets(i) \/ ListObjects(i) \/ PresignedGet(i) \/ Told(i)
    <3>1. Elsewhere
      BY <1>4, <2>2 DEF ListBuckets, ListObjects, PresignedGet, Told, Served, Elsewhere, Aside
    <3>2. QED
      BY <2>2, <3>1 DEF Steps, Replying, Answering
  <2>3. CASE Stores(i)
    BY <1>4, <2>3 DEF Steps, Storing
  <2>4. QED
    BY <2>1, <2>2, <2>3
<1>5. CASE MenuServer /\ UNCHANGED deal
  <2>1. PICK i \in DOMAIN calls : \/ ListAllBucketPolicies(i) \/ BucketDeals(i)
                                  \/ SetBucketPolicy(i) \/ DeleteBucket(i)
    BY <1>5 DEF MenuServer
  <2>2. CASE ListAllBucketPolicies(i) \/ BucketDeals(i)
    <3>1. Elsewhere
      BY <1>5, <2>2 DEF ListAllBucketPolicies, BucketDeals, Served, Elsewhere
    <3>2. QED
      BY <2>2, <3>1 DEF Steps, Replying, Answering
  <2>3. CASE SetBucketPolicy(i) \/ DeleteBucket(i)
    BY <1>5, <2>3 DEF Steps, Minding, Tending, Deleting
  <2>4. QED
    BY <2>1, <2>2, <2>3
<1>6. CASE DealServer
  <2>1. PICK i \in DOMAIN calls : ServeMiners(i) \/ PostDeal(i)
    BY <1>6 DEF DealServer
  <2>2. Elsewhere
    BY <2>1 DEF ServeMiners, PostDeal, Served, Elsewhere
  <2>3. QED
    BY <2>1, <2>2 DEF Steps, Replying, Answering
<1>7. CASE PageHandler /\ Aside
  <2>1. PICK i \in DOMAIN calls : InfoRead(i) \/ Arriving(i) \/ Downloaded(i) \/ Handling(i)
    BY <1>7 DEF PageHandler, InfoRead, Arriving, Handling
  <2>2. QED
    BY <1>7, <2>1 DEF Steps, Resting, Moving, Selecting
<1>8. CASE MenuHandler /\ UNCHANGED deal
  BY <1>8 DEF MenuHandler, Steps, Minding, Tending, Relists
<1>9. CASE DealHandler
  BY <1>9 DEF DealHandler, Steps, Dealing, DealEnds
<1>10. QED
  BY <1>1, <1>2, <1>3, <1>4, <1>5, <1>6, <1>7, <1>8, <1>9 DEF Next, User, FS3, Handler, Aside

\* The types, and where a page of providers may be shown.
Inv == TypeInv /\ Located

LEMMA LocatedAside ==
  ASSUME Inv, TypeInv', UNCHANGED deal, NEW H, NEW F, NEW S, NEW N, NEW ops,
         Touches(H, F, S, N, ops), "Miners" \notin ops
  PROVE  Inv'
<1> DEFINE rest == AllOps \ ops
<1>1. Spared(rest) /\ "Miners" \in rest
  BY DEF Touches, AllOps, DealOps
<1> HIDE DEF rest
<1>2. QED
  BY <1>1, FormsStay, LocatedKept DEF Inv

LEMMA RestingStep ==
  ASSUME Inv, Resting
  PROVE  /\ Inv' /\ UNCHANGED <<stored, fs3, share, shown, picked, slide, policies, deal>>
         /\ SideOf(open') \subseteq SideOf(open)
         /\ Touches({"menu", "userd", "aboutServer"}, {}, {}, {},
                    {"CreateURLToken", "StorageInfo", "ServerInfo"})
<1> DEFINE H == {"menu", "userd", "aboutServer"}
           ops == {"CreateURLToken", "StorageInfo", "ServerInfo"}
<1>1. CASE Pauses /\ Aside
  <2>1. /\ TypeInv' /\ UNCHANGED <<stored, home, fs3, share, shown, picked>>
        /\ SideOf(open') \subseteq SideOf(open) /\ Touches({}, {}, {}, {}, {"CreateURLToken"})
    BY <1>1, PauseStep DEF Inv
  <2>2. Touches(H, {}, {}, {}, ops)
    BY <2>1, TouchesMore
  <2>3. QED
    BY <1>1, <2>1, <2>2, LocatedAside DEF Aside, menuVars
<1>2. CASE (\E b \in Buckets \cup {0} : SearchBucketFun(b)) /\ UNCHANGED deal
  <2>1. /\ TypeInv' /\ UNCHANGED <<stored, fs3, share, open, shown, picked, slide, policies>>
        /\ Touches({"menu"}, {}, {}, {}, {})
    BY <1>2, SearchStep DEF Inv
  <2>2. Touches(H, {}, {}, {}, ops)
    BY <2>1, TouchesMore
  <2>3. QED
    BY <1>2, <2>1, <2>2, LocatedAside
<1>3. CASE (\E i \in DOMAIN calls : InfoRead(i)) /\ Aside
  <2>1. /\ TypeInv' /\ UNCHANGED <<stored, fs3, share, open, shown, picked>>
        /\ Touches({"userd", "aboutServer"}, {}, {}, {}, {"StorageInfo", "ServerInfo"})
    BY <1>3, InfoStep DEF Inv
  <2>2. Touches(H, {}, {}, {}, ops)
    BY <2>1, TouchesMore
  <2>3. QED
    BY <1>3, <2>1, <2>2, LocatedAside DEF Aside, menuVars
<1>4. QED
  BY <1>1, <1>2, <1>3 DEF Resting

LEMMA DealingStep ==
  ASSUME Inv, Dealing
  PROVE  /\ Inv' /\ UNCHANGED <<stored, home, fs3, share, shown, picked, slide, policies>>
         /\ SideOf(open') \subseteq SideOf(open) /\ Touches({}, {}, {}, {}, DealOps)
<1>1. CASE Fills \/ Submits \/ \E i \in DOMAIN calls : DealEnds(i)
  <2>1. /\ TypeInv' /\ UNCHANGED <<pageVars, menuVars>> /\ FormsOnly /\ Touches({}, {}, {}, {}, DealApis)
    <3>1. CASE Fills
      <4>1. TypeInv' /\ UNCHANGED <<pageVars, menuVars>> /\ FormsOnly /\ Touches({}, {}, {}, {}, {})
        BY <3>1, FillStep DEF Inv
      <4>2. QED
        BY <4>1, TouchesMore
    <3>2. CASE Submits
      BY <3>2, SubmitStep DEF Inv
    <3>3. CASE \E i \in DOMAIN calls : DealEnds(i)
      BY <3>3, DealEndsStep DEF Inv
    <3>4. QED
      BY <1>1, <3>1, <3>2, <3>3
  <2>2. Touches({}, {}, {}, {}, DealOps)
    BY <2>1, TouchesMore DEF DealOps
  <2> DEFINE rest == AllOps \ DealApis
  <2>3. Spared(rest) /\ "Miners" \in rest
    BY <2>1 DEF Touches, AllOps, DealOps, DealApis
  <2> HIDE DEF rest
  <2>4. QED
    BY <2>1, <2>2, <2>3, LocatedKept DEF Inv, pageVars, menuVars
<1>2. CASE \E d \in Dialogs : GetDiglogChange(d)
  BY <1>2, ReloadStep DEF Inv, menuVars
<1>3. CASE \/ \E d \in Dialogs, location \in Locations : HandleOpen(d, location)
           \/ \E d \in Dialogs : LoadMore(d)
           \/ \E i \in DOMAIN calls : MinersListed(i) \/ (DealDropped(i) /\ calls[i].op = "Miners")
  <2>1. /\ TypeInv' /\ Located' /\ UNCHANGED <<pageVars, menuVars>> /\ Touches({}, {}, {}, {}, {"Miners"})
    <3>1. CASE \E d \in Dialogs, location \in Locations : HandleOpen(d, location)
      BY <3>1, OpenStep DEF Inv
    <3>2. CASE \E d \in Dialogs : LoadMore(d)
      BY <3>2, LoadStep DEF Inv
    <3>3. CASE \E i \in DOMAIN calls : MinersListed(i)
      BY <3>3, MinersListedStep DEF Inv
    <3>4. CASE \E i \in DOMAIN calls : DealDropped(i) /\ calls[i].op = "Miners"
      BY <3>4, PageLostStep DEF Inv
    <3>5. QED
      BY <1>3, <3>1, <3>2, <3>3, <3>4
  <2>2. Touches({}, {}, {}, {}, DealOps)
    BY <2>1, TouchesMore DEF DealOps
  <2>3. QED
    BY <2>1, <2>2 DEF Inv, pageVars, menuVars
<1>4. QED
  BY <1>1, <1>2, <1>3 DEF Dealing

MindOps == MenuOps \cup {"ListBuckets"}
LEMMA MindingStep ==
  ASSUME Inv, Minding
  PROVE  /\ Inv' /\ UNCHANGED <<stored, home, fs3, share, shown, picked, deal>>
         /\ Touches({}, {}, {}, {}, MindOps)
<1>1. UNCHANGED deal
  BY DEF Minding
<1>2. /\ TypeInv' /\ UNCHANGED <<stored, home, fs3, share, shown, picked>>
      /\ \E ops : Touches({}, {}, {}, {}, ops) /\ ops \subseteq MindOps
  <2>1. CASE MenuAsks
    <3>1. /\ TypeInv' /\ UNCHANGED <<stored, home, fs3, share, shown, picked, policies>>
          /\ Touches({}, {}, {}, {}, {"ListAllBucketPolicies", "SetBucketPolicy", "DeleteBucket"})
      BY <1>1, <2>1, MenuAsksStep DEF Inv
    <3>2. QED
      BY <3>1 DEF MindOps, MenuOps
  <2>2. ASSUME NEW i \in DOMAIN calls, Tending(i)
        PROVE  /\ TypeInv' /\ UNCHANGED pageVars
               /\ \E ops : Touches({}, {}, {}, {}, ops) /\ ops \subseteq MindOps
    <3>1. CASE SetBucketPolicy(i)
      <4>1. TypeInv' /\ UNCHANGED pageVars /\ Touches({}, {}, {}, {}, SetOps)
        BY <1>1, <3>1, SetPolicyStep DEF Inv
      <4>2. QED
        BY <4>1 DEF SetOps, MindOps, MenuOps
    <3>2. CASE PoliciesListed(i)
      <4>1. TypeInv' /\ UNCHANGED pageVars /\ Touches({}, {}, {}, {}, {"ListAllBucketPolicies"})
        BY <1>1, <3>2, PoliciesListedStep DEF Inv
      <4>2. QED
        BY <4>1 DEF MindOps, MenuOps
    <3>3. CASE Relists(i)
      <4>1. /\ TypeInv' /\ UNCHANGED pageVars
            /\ \/ Touches({}, {}, {}, {}, {"SetBucketPolicy", "ListAllBucketPolicies"})
               \/ Touches({}, {}, {}, {}, {"DeleteBucket", "ListBuckets"})
        BY <1>1, <3>3, RelistStep DEF Inv
      <4>2. QED
        BY <4>1 DEF MindOps, MenuOps
    <3>4. CASE BucketDealsListed(i)
      <4>1. TypeInv' /\ UNCHANGED pageVars /\ Touches({}, {}, {}, {}, {"BucketDeals"})
        BY <1>1, <3>4, BucketDealsListedStep DEF Inv
      <4>2. QED
        BY <4>1 DEF MindOps, MenuOps
    <3>5. CASE MenuDropped(i)
      <4>1. /\ TypeInv' /\ UNCHANGED pageVars /\ Touches({}, {}, {}, {}, {calls[i].op})
            /\ calls[i].op \in MenuOps
        BY <1>1, <3>5, MenuDroppedStep DEF Inv
      <4>2. QED
        BY <4>1 DEF MindOps
    <3>6. QED
      BY <2>2, <3>1, <3>2, <3>3, <3>4, <3>5 DEF Tending
  <2>3. QED
    BY <2>1, <2>2 DEF Minding, pageVars
<1>3. Touches({}, {}, {}, {}, MindOps)
  BY <1>2, TouchesMore
<1>4. "Miners" \notin MindOps
  BY DEF MindOps, MenuOps
<1>5. QED
  BY <1>1, <1>2, <1>3, <1>4, LocatedAside

GoOps == {"ListObjects", "BucketDeals"}
GoesToTop(n) ==
    /\ SlideClick(<<n>>) /\ ToTop(GoOps) /\ UNCHANGED <<policies, deal>>
    /\ ListCall(<<n>>, <<>>).op = "ListObjects"
LEMMA GoingStep ==
  ASSUME Inv, Going
  PROVE  Inv' /\ \E n : GoesToTop(n)
<1>1. ASSUME NEW n, TypeInv', SlideClick(<<n>>), ToTop(GoOps), UNCHANGED <<policies, deal>>
      PROVE  Inv' /\ GoesToTop(n)
  <2>1. ListCall(<<n>>, <<>>).op = "ListObjects"
    BY DEF ListCall, Request
  <2>2. "Miners" \notin GoOps
    BY DEF GoOps
  <2>3. QED
    BY <1>1, <2>1, <2>2, LocatedAside DEF GoesToTop, ToTop
<1>2. CASE (\E b \in Buckets : GetListBucket(b)) /\ Aside
  <2>1. PICK b \in Buckets : GetListBucket(b)
    BY <1>2
  <2>2. TypeInv' /\ ToTop({"ListObjects"}) /\ SlideClick(<<b>>)
    BY <1>2, <2>1, GetListBucketStep DEF Inv, GetListBucket
  <2>3. ToTop(GoOps)
    BY <2>2, TouchesMore DEF ToTop, GoOps
  <2>4. QED
    BY <1>1, <1>2, <2>2, <2>3 DEF Aside, menuVars
<1>3. CASE (\E n : MenuGoes(n)) /\ UNCHANGED deal
  BY <1>1, <1>3, MenuGoesStep DEF Inv, GoOps
<1>4. QED
  BY <1>2, <1>3 DEF Going

LEMMA WalkingStep ==
  ASSUME Inv, Walking
  PROVE  /\ Inv' /\ UNCHANGED <<stored, share, open, shown, picked, slide, policies, deal>>
         /\ Touches({"prefixData"}, {"currentBucketAll", "prefixName"}, {}, {}, {"ListObjects"})
<1>1. /\ TypeInv' /\ UNCHANGED <<stored, share, open, shown, picked>> /\ Aside
      /\ Touches({"prefixData"}, {"currentBucketAll", "prefixName"}, {}, {}, {"ListObjects"})
  BY GoesWithinStep DEF Walking, Inv, GoesWithin
<1>2. QED
  BY <1>1, LocatedAside DEF Aside, menuVars

PickOps == {"MakeBucket", "RemoveObject", "PresignedGet", "CreateURLToken"}
LEMMA SelectingStep ==
  ASSUME Inv, Selecting
  PROVE  /\ Inv' /\ UNCHANGED <<stored, home, shown, slide, policies, deal>>
         /\ SideOf(open') \subseteq SideOf(open)
         /\ SameRows(fs3.tableData, fs3'.tableData)
         /\ Touches({}, Selection, ShareFields, {}, PickOps)
<1>1. Aside /\ TypeInv /\ IsFs3(fs3)
  BY DEF Selecting, Inv, TypeInv
<1>2. /\ TypeInv' /\ UNCHANGED <<stored, home, shown>> /\ SideOf(open') \subseteq SideOf(open)
      /\ SameRows(fs3.tableData, fs3'.tableData)
      /\ \E S, ops : /\ Touches({}, Selection, S, {}, ops)
                     /\ S \subseteq ShareFields /\ ops \subseteq PickOps
  <2>1. CASE Unselects
    <3>1. /\ TypeInv' /\ UNCHANGED <<stored, home, share, shown>> /\ SideOf(open') \subseteq SideOf(open)
          /\ Touches({}, Selection, {}, {}, {"MakeBucket", "RemoveObject"}) /\ fs3' = DrawPlayClose(fs3)
      BY <1>1, <2>1, UnselectStep
    <3>2. SameRows(fs3.tableData, fs3'.tableData)
      BY <1>1, <3>1, DrawCloses
    <3>3. QED
      BY <3>1, <3>2 DEF PickOps
  <2>2. CASE \E i \in DOMAIN calls : Downloaded(i)
    <3>1. /\ TypeInv' /\ UNCHANGED <<stored, home, share, open, shown>>
          /\ Touches({}, Selection, {}, {}, {"CreateURLToken"})
          /\ SameRows(fs3.tableData, fs3'.tableData)
      BY <1>1, <2>2, DownloadedStep
    <3>2. QED
      BY <3>1 DEF PickOps
  <2>3. CASE \E i \in DOMAIN fs3.tableData : DrawPlay(i)
    <3>1. /\ TypeInv' /\ UNCHANGED <<stored, home, share, open, shown>>
          /\ Touches({}, Selection, {}, {}, {}) /\ SameRows(fs3.tableData, fs3'.tableData)
      BY <1>1, <2>3, DrawPlayStep
    <3>2. QED
      BY <3>1
  <2>4. CASE \E i \in DOMAIN fs3.tableData : DeleteBtn(i)
    <3>1. /\ TypeInv' /\ UNCHANGED <<stored, home, share, shown>> /\ SideOf(open') = {}
          /\ Touches({}, Selection, {}, {}, {}) /\ SameRows(fs3.tableData, fs3'.tableData)
      BY <1>1, <2>4, DeleteBtnStep
    <3>2. QED
      BY <3>1
  <2>5. CASE \E i \in DOMAIN fs3.tableData : Shares(i)
    <3>1. /\ TypeInv' /\ UNCHANGED <<stored, home, shown>> /\ SideOf(open') = {}
          /\ Touches({}, Selection, ShareFields, {}, {"PresignedGet"})
          /\ SameRows(fs3.tableData, fs3'.tableData)
      BY <1>1, <2>5, ShareStep
    <3>2. QED
      BY <3>1 DEF PickOps
  <2>6. QED
    BY <2>1, <2>2, <2>3, <2>4, <2>5 DEF Selecting, Picking
<1>3. Touches({}, Selection, ShareFields, {}, PickOps)
  BY <1>2, TouchesMore
<1>4. "Miners" \notin PickOps
  BY DEF PickOps
<1>5. QED
  BY <1>1, <1>2, <1>3, <1>4, LocatedAside DEF Aside, menuVars

MoveHome == {"minioListBuckets", "menu", "currentBucket", "prefixData"}
MoveOps == {"MakeBucket", "ListBuckets", "ListObjects"}
\* What was picked or chosen to share before Home moves may be stale after.
Unsettles ==
    /\ share'.calm => /\ share.calm
                      /\ share.mode = "deal" \/ home'.currentBucket = home.currentBucket
    /\ picked'.calm => picked.calm /\ home'.currentBucket = home.currentBucket
    /\ Sets(picked, picked', {"calm"})
    /\ shown'.settled => shown.settled /\ home'.currentBucket = home.currentBucket
LEMMA MovingStep ==
  ASSUME Inv, Moving
  PROVE  /\ Inv' /\ UNCHANGED <<stored, slide, policies, deal>>
         /\ SideOf(open') \subseteq SideOf(open) /\ Unsettles
         /\ Touches(MoveHome, {"currentBucketAll", "prefixName"}, {"calm"},
                    {"settled", "followed", "fresh"}, MoveOps)
<1>1. Aside /\ TypeInv /\ IsShown(shown)
  BY DEF Moving, Inv, TypeInv
<1>2. /\ TypeInv' /\ stored' = stored /\ SideOf(open') \subseteq SideOf(open) /\ Unsettles
      /\ \E H, F, N, ops : /\ Touches(H, F, {"calm"}, N, ops)
                           /\ H \subseteq MoveHome /\ F \subseteq {"currentBucketAll", "prefixName"}
                           /\ N \subseteq {"settled", "followed", "fresh"} /\ ops \subseteq MoveOps
  <2>1. CASE \E p \in Paths : EditAway(p)
    <3>1. /\ TypeInv' /\ UNCHANGED <<stored, home, open>>
          /\ Touches({}, {"currentBucketAll", "prefixName"}, {"calm"}, {"followed"}, {"MakeBucket"})
          /\ share'.calm => share.calm /\ share.mode = "deal"
          /\ Sets(picked, picked', {"calm"}) /\ ~picked'.calm
      BY <1>1, <2>1, EditAwayStep
    <3>2. shown'.settled = shown.settled
      BY <1>1, <3>1 DEF Touches, Sets, IsShown, ShownFields
    <3>3. QED
      BY <3>1, <3>2 DEF MoveHome, MoveOps, Unsettles
  <2>2. ASSUME NEW b, Follows(b) PROVE Unsettles
    BY <2>2 DEF Follows, Unsettles
  <2>3. CASE \E i \in DOMAIN calls : BucketsListed(i)
    <3>1. /\ TypeInv' /\ stored' = stored /\ SideOf(open') \subseteq SideOf(open)
          /\ Touches(MoveHome, {"currentBucketAll"}, {"calm"}, {"settled", "followed"},
                     {"ListBuckets", "ListObjects"})
          /\ \E b : BucketsTo(b)
      BY <1>1, <2>3, BucketsListedStep DEF MoveHome
    <3>2. QED
      BY <2>2, <3>1 DEF MoveOps, BucketsTo
  <2>4. CASE \E i \in DOMAIN calls : BucketMade(i)
    <3>1. /\ TypeInv' /\ UNCHANGED <<stored, open>>
          /\ Touches({"currentBucket", "prefixData"}, {"currentBucketAll"}, {"calm"},
                     {"settled", "followed"}, {"MakeBucket", "ListBuckets", "ListObjects"})
          /\ \E b : BucketsTo(b)
      BY <1>1, <2>4, BucketMadeStep
    <3>2. QED
      BY <2>2, <3>1 DEF MoveHome, MoveOps, BucketsTo
  <2>5. CASE \E i \in DOMAIN calls : BucketNotMade(i)
    <3>1. /\ TypeInv' /\ UNCHANGED <<stored, open>>
          /\ Touches({"currentBucket"}, {"currentBucketAll"}, {"calm"},
                     {"settled", "followed", "fresh"}, {"MakeBucket", "ListObjects"})
          /\ \E b : Follows(b)
      BY <1>1, <2>5, BucketNotMadeStep
    <3>2. QED
      BY <2>2, <3>1 DEF MoveHome, MoveOps
  <2>6. QED
    BY <2>1, <2>3, <2>4, <2>5 DEF Moving, Arriving
<1>3. Touches(MoveHome, {"currentBucketAll", "prefixName"}, {"calm"},
              {"settled", "followed", "fresh"}, MoveOps)
  BY <1>2, TouchesMore
<1>4. "Miners" \notin MoveOps
  BY DEF MoveOps
<1>5. QED
  BY <1>1, <1>2, <1>3, <1>4, LocatedAside DEF Aside, menuVars

LEMMA ReplyingStep ==
  ASSUME Inv, Replying
  PROVE  /\ Inv' /\ UNCHANGED <<pageVars, menuVars, deal>>
         /\ \E i \in DOMAIN calls :
              /\ Touches({}, {}, {}, {}, {calls[i].op}) /\ calls[i].state = "sent"
              /\ \E data : Reply(i, data) /\ Answers(calls[i].op, calls[i].arg, data)
              /\ Answering(i)
<1>1. PICK i \in DOMAIN calls : Answering(i)
  BY DEF Replying
<1>2. UNCHANGED <<pageVars, menuVars, deal>>
  BY DEF Replying, Elsewhere
<1>3. /\ TypeInv' /\ Touches({}, {}, {}, {}, {calls[i].op}) /\ calls[i].state = "sent"
      /\ \E data : Reply(i, data) /\ Answers(calls[i].op, calls[i].arg, data)
  BY <1>1, AnsweringStep DEF Inv, Replying
<1>4. Located'
  <2>1. PICK data : Reply(i, data)
    BY <1>3
  <2>2. Requests /\ ReplyOvertakes(i, {}, data)
    BY <2>1, CallsAreRequests, ReplyOvertakesNone DEF Inv, TypeInv
  <2> DEFINE js == {}
  <2>3. ReplyOvertakes(i, js, data) /\ i \notin js
    BY <2>2
  <2> HIDE DEF js
  <2>4. \A d \in Of(calls') : \E k \in DOMAIN calls : d.op = calls[k].op /\ d.arg = calls[k].arg
    BY <2>2, <2>3, RepliedOf DEF IsNow, IsAnswerTo
  <2>5. \A k \in DOMAIN calls : calls[k] \in Of(calls)
    BY DEF Of
  <2>6. ASSUME NEW d \in Of(calls'), d.op = "Miners" PROVE deal'[d.arg.dialog].parentName \in Locations
    <3>1. PICK k \in DOMAIN calls : d.op = calls[k].op /\ d.arg = calls[k].arg
      BY <2>4
    <3>2. QED
      BY <1>2, <2>5, <2>6, <3>1 DEF Inv, Located
  <2>7. QED
    BY <1>2, <2>6 DEF Inv, Located
<1>5. QED
  BY <1>1, <1>2, <1>3, <1>4 DEF Inv

LEMMA StoringStep ==
  ASSUME Inv, Storing
  PROVE  /\ Inv' /\ UNCHANGED <<home, fs3, share, open, shown, picked, slide, policies, deal>>
         /\ Touches({}, {}, {}, {}, StoreOps)
<1>1. /\ TypeInv' /\ UNCHANGED <<home, fs3, share, open, shown, picked>>
      /\ Touches({}, {}, {}, {}, StoreOps) /\ Aside
  BY StoreStep DEF Storing, Inv
<1>2. "Miners" \notin StoreOps
  BY DEF StoreOps
<1>3. QED
  BY <1>1, <1>2, LocatedAside DEF Aside, menuVars

LEMMA DeletingStep ==
  ASSUME Inv, Deleting
  PROVE  /\ Inv' /\ UNCHANGED <<home, fs3, share, open, shown, picked, deal>>
         /\ Touches({}, {}, {}, {}, DeleteOps)
<1>1. /\ TypeInv' /\ UNCHANGED <<home, fs3, share, open, shown, picked>>
      /\ Touches({}, {}, {}, {}, DeleteOps) /\ UNCHANGED deal
  BY DeleteStep DEF Deleting, Inv
<1>2. "Miners" \notin DeleteOps
  BY DEF DeleteOps
<1>3. QED
  BY <1>1, <1>2, LocatedAside

LEMMA SharingStep ==
  ASSUME Inv, Sharing
  PROVE  /\ Inv' /\ UNCHANGED <<stored, home, fs3, open, shown, picked, slide, policies, deal>>
         /\ Touches({}, {}, {"num"}, {}, {"PresignedGet"})
<1>1. /\ TypeInv' /\ UNCHANGED <<stored, home, fs3, open, shown, picked>> /\ Aside
      /\ Touches({}, {}, {"num"}, {}, {"PresignedGet"})
  BY HandleChangeStep DEF Sharing, Inv
<1>2. QED
  BY <1>1, LocatedAside DEF Aside, menuVars

LEMMA OpeningStep ==
  ASSUME Inv, Opening
  PROVE  /\ Inv' /\ UNCHANGED <<stored, home, share, open, picked, slide, policies, deal>>
         /\ Touches({}, {"expands", "exChangeList"}, {}, {"opened"}, {"Retrieve"})
<1>1. /\ TypeInv' /\ UNCHANGED <<stored, home, share, open, picked>> /\ Aside
      /\ Touches({}, {"expands", "exChangeList"}, {}, {"opened"}, {"Retrieve"})
  BY ExChangeStep DEF Opening, Inv
<1>2. QED
  BY <1>1, LocatedAside DEF Aside, menuVars

LEMMA UploadingStep ==
  ASSUME Inv, Uploading
  PROVE  /\ Inv' /\ UNCHANGED <<stored, fs3, share, open, picked, slide, policies, deal>>
         /\ Touches({"drawer", "oloaded"}, {}, {}, {"cut"}, {"Upload"})
<1>1. /\ TypeInv' /\ UNCHANGED <<stored, fs3, share, open, picked>> /\ Aside
      /\ Touches({"drawer", "oloaded"}, {}, {}, {"cut"}, {"Upload"})
  BY OnChangeStep DEF Uploading, Inv
<1>2. QED
  BY <1>1, LocatedAside DEF Aside, menuVars

LEMMA HandlingStep ==
  ASSUME Inv, NEW i \in DOMAIN calls, Handling(i), Aside
  PROVE  /\ Inv' /\ UNCHANGED <<slide, policies, deal>> /\ SideOf(open') \subseteq SideOf(open)
         /\ UNCHANGED stored
<1>1. TypeInv /\ UNCHANGED <<slide, policies, deal>>
  BY DEF Inv, Aside, menuVars
<1>2. /\ TypeInv' /\ SideOf(open') \subseteq SideOf(open) /\ UNCHANGED stored
      /\ \E H, F, S, N, ops : Touches(H, F, S, N, ops) /\ "Miners" \notin ops
  <2>1. CASE ObjectsListed(i)
    <3>1. /\ TypeInv' /\ UNCHANGED <<stored, open>>
          /\ Touches({}, {"tableData"}, {"calm"}, {"bucket", "prefix", "fresh"}, {"ListObjects"})
      BY <1>1, <2>1, ObjectsListedStep
    <3>2. "Miners" \notin {"ListObjects"}
      OBVIOUS
    <3>3. QED
      BY <3>1, <3>2
  <2>2. CASE ObjectRemoved(i)
    <3>1. /\ TypeInv' /\ UNCHANGED stored /\ SideOf(open') \subseteq SideOf(open)
          /\ Touches({}, {"tableData"}, {"calm"}, {"fresh"}, {"RemoveObject"})
      BY <1>1, <2>2, ObjectRemovedStep
    <3>2. "Miners" \notin {"RemoveObject"}
      OBVIOUS
    <3>3. QED
      BY <3>1, <3>2
  <2>3. CASE ProgressFunction(i)
    <3>1. /\ TypeInv' /\ UNCHANGED <<stored, open>>
          /\ Touches({"oloaded", "drawer"}, {}, {}, {}, {"Upload"})
      BY <1>1, <2>3, ProgressStep
    <3>2. "Miners" \notin {"Upload"}
      OBVIOUS
    <3>3. QED
      BY <3>1, <3>2
  <2>4. CASE Uploaded(i)
    <3>1. /\ TypeInv' /\ UNCHANGED <<stored, open>>
          /\ Touches({"currentBucket"}, Selection \cup {"currentBucketAll"}, {}, {},
                     {"Upload", "ListObjects"})
      BY <1>1, <2>4, UploadedStep
    <3>2. "Miners" \notin {"Upload", "ListObjects"}
      OBVIOUS
    <3>3. QED
      BY <3>1, <3>2
  <2>5. CASE LinkMade(i)
    <3>1. /\ TypeInv' /\ UNCHANGED stored /\ SideOf(open') = SideOf(open)
          /\ Touches({}, {}, {"link", "fresh"}, {}, {"PresignedGet"})
      BY <1>1, <2>5, LinkMadeStep
    <3>2. "Miners" \notin {"PresignedGet"}
      OBVIOUS
    <3>3. QED
      BY <3>1, <3>2
  <2>6. CASE DealsListed(i)
    <3>1. /\ TypeInv' /\ UNCHANGED <<stored, open>>
          /\ Touches({}, {"exChangeList"}, {}, {}, {"Retrieve"})
      BY <1>1, <2>6, DealsListedStep
    <3>2. "Miners" \notin {"Retrieve"}
      OBVIOUS
    <3>3. QED
      BY <3>1, <3>2
  <2>7. CASE Dropped(i)
    <3>1. /\ TypeInv' /\ UNCHANGED <<stored, open>> /\ calls[i].op \in PageOps
          /\ Touches({}, {"exChangeList"}, {"fresh"}, {"fresh", "cut"}, {calls[i].op})
      BY <1>1, <2>7, DroppedStep
    <3>2. "Miners" \notin {calls[i].op}
      BY <3>1 DEF PageOps
    <3>3. QED
      BY <3>1, <3>2
  <2>8. QED
    BY <2>1, <2>2, <2>3, <2>4, <2>5, <2>6, <2>7 DEF Handling
<1>3. QED
  BY <1>1, <1>2, LocatedAside

\* A step that changes nothing.
LEMMA StutterStep ==
  ASSUME Inv, UNCHANGED vars
  PROVE  /\ Inv' /\ UNCHANGED <<stored, home, fs3, share, open, shown, picked, slide, policies, deal>>
         /\ Touches({}, {}, {}, {}, {})
<1>1. calls' = calls /\ UNCHANGED <<stored, home, fs3, share, open, shown, picked, slide, policies, deal>>
  BY DEF vars, pageVars, menuVars
<1>2. CallsOK' /\ \A ops : Spared(ops)
  BY <1>1, QuietStep DEF Inv, TypeInv
<1>3. QED
  BY <1>1, <1>2 DEF Inv, TypeInv, Located, Touches, Sets

LEMMA InvKept ==
  ASSUME Inv, [Next]_vars
  PROVE  Inv'
<1>1. CASE Next
  <2>1. Steps
    BY <1>1, EveryStep DEF Inv
  <2>2. QED
    BY <2>1, RestingStep, DealingStep, MindingStep, GoingStep, WalkingStep, SelectingStep, MovingStep,
       ReplyingStep, StoringStep, DeletingStep, SharingStep, OpeningStep, UploadingStep, HandlingStep
       DEF Steps
<1>2. CASE UNCHANGED vars
  BY <1>2, StutterStep
<1>3. QED
  BY <1>1, <1>2

----------------------------------------------------------------------------
(* The beginning.                                                          *)

\* A bucket in view, or none yet.
LEMMA FirstView ==
  ASSUME PageInit, IsStore(stored), JustMounted \/ \E b \in DOMAIN stored : InBucket(<<b>>)
  PROVE  /\ IsHome(home) /\ IsFs3(fs3) /\ IsShown(shown)
         /\ home.prefixData = <<>> /\ ~home.drawer
         /\ fs3.currentBucketAll = home.currentBucket /\ fs3.prefixName = <<>>
         /\ fs3.expands = <<>> /\ fs3.exChangeList = {}
         /\ fs3.deleteDialogIndex = <<>> /\ fs3.drawIndex = 0
         /\ shown = AtFirst(home.currentBucket)
         /\ home.currentBucket = <<>> \/ \E b \in DOMAIN stored : home.currentBucket = <<b>>
         /\ home.currentBucket = <<>> => fs3.tableData = <<>>
         /\ home.currentBucket # <<>> =>
               /\ IsListing(fs3.tableData, <<>>)
               /\ Names(fs3.tableData) = Names(Listing(home.currentBucket, <<>>))
<1> DEFINE none == <<>>
<1>1. Sequence(none) /\ none \in Seq(STRING) /\ IsPath(none) /\ Of(none) = {} /\ IsTable(none)
  BY Empty, EmptySeq, NoPath DEF IsTable
<1>2. CASE JustMounted
  <2>1. /\ home = HomeView /\ fs3 = Fs3View /\ shown = AtFirst(<<>>)
    BY <1>2 DEF JustMounted
  <2>2. IsHome(home)
    BY <1>1, <2>1 DEF HomeView, IsHome, HomeFields, AreBuckets
  <2>3. IsFs3(fs3)
    BY <1>1, <2>1 DEF Fs3View, IsFs3, Fs3Fields
  <2>4. IsShown(shown)
    BY <2>1 DEF AtFirst, IsShown, ShownFields
  <2>5. /\ home.prefixData = <<>> /\ ~home.drawer /\ home.currentBucket = <<>>
        /\ fs3.currentBucketAll = <<>> /\ fs3.prefixName = <<>> /\ fs3.tableData = <<>>
        /\ fs3.expands = <<>> /\ fs3.exChangeList = {}
        /\ fs3.deleteDialogIndex = <<>> /\ fs3.drawIndex = 0
    BY <2>1 DEF HomeView, Fs3View
  <2>6. QED
    BY <2>1, <2>2, <2>3, <2>4, <2>5
<1>3. ASSUME NEW n \in DOMAIN stored, InBucket(<<n>>)
      PROVE  /\ IsHome(home) /\ IsFs3(fs3) /\ IsShown(shown)
             /\ home.prefixData = <<>> /\ ~home.drawer
             /\ fs3.currentBucketAll = home.currentBucket /\ fs3.prefixName = <<>>
             /\ fs3.expands = <<>> /\ fs3.exChangeList = {}
             /\ fs3.deleteDialogIndex = <<>> /\ fs3.drawIndex = 0
             /\ shown = AtFirst(home.currentBucket) /\ home.currentBucket = <<n>>
             /\ IsListing(fs3.tableData, <<>>)
             /\ Names(fs3.tableData) = Names(Listing(home.currentBucket, <<>>))
  <2> DEFINE b == <<n>>
             buckets == ListOf(DOMAIN stored)
             t == Listing(b, none)
             u == AboutListData(t)
  <2>1. PICK sorted \in SortOrders : home = Listed(b) /\ fs3 = InView(b, sorted) /\ shown = AtFirst(b)
    BY <1>3 DEF InBucket
  <2>2. AreBuckets(buckets) /\ IsPath(b) /\ b # <<>>
    BY AllBuckets, BucketPath
  <2>3. IsListing(t, none)
    BY <1>1, ListingRows
  <2> HIDE DEF t
  <2>4. SameRows(t, u) /\ IsTable(u) /\ Sequence(t)
    BY <2>3, ListedRows DEF IsListing
  <2>5. Names(u) = Names(t) /\ IsListing(u, none)
    BY <2>3, <2>4, SameNames
  <2> HIDE DEF u
  <2>6. home = [minioListBuckets |-> buckets, menu |-> buckets, currentBucket |-> b, prefixData |-> <<>>,
                userd |-> TRUE, aboutServer |-> TRUE, drawer |-> FALSE, oloaded |-> 0]
    BY <2>1 DEF Listed, GetMinioData, HomeView
  <2>7. fs3 = [tableData |-> u, sorted |-> sorted, currentBucketAll |-> b, prefixName |-> <<>>,
               drawIndex |-> 0, deleteDialogIndex |-> <<>>, expands |-> <<>>, exChangeList |-> {}]
    BY <2>1 DEF InView, Fs3View, u, t
  <2> HIDE DEF b, buckets
  <2>8. IsHome(home)
    BY <1>1, <2>2, <2>6 DEF IsHome, HomeFields
  <2>9. IsFs3(fs3)
    BY <1>1, <2>2, <2>4, <2>7 DEF IsFs3, Fs3Fields
  <2>10. IsShown(shown)
    BY <2>1 DEF AtFirst, IsShown, ShownFields
  <2>11. QED
    BY <2>1, <2>5, <2>6, <2>7, <2>8, <2>9, <2>10 DEF t, b
<1>4. CASE \E n \in DOMAIN stored : InBucket(<<n>>)
  <2>1. PICK n \in DOMAIN stored : InBucket(<<n>>)
    BY <1>4
  <2>2. <<n>> # <<>>
    OBVIOUS
  <2>3. QED
    BY <1>3, <2>1, <2>2
<1>5. QED
  BY <1>2, <1>4

\* Nothing is under way but lists of buckets and what FS3 says of itself.
FirstOps == {"ListBuckets", "StorageInfo", "ServerInfo"}
Begun == /\ CallsOK /\ \A c \in Of(calls) : c.op \in FirstOps
         /\ ~picked.calm /\ deal = [d \in Dialogs |-> DealView]
         /\ policies = [b \in Buckets |-> {}] /\ IsSlide(slide)
         /\ slide.exChangeList = {} /\ slide.bucketPolicies = {} /\ ~slide.fresh
         /\ open \in {{}, {"menu"}, {"homeshare"}, {"share"}}
         /\ SideOf(open) # {} => slide.on \in Buckets /\ home.currentBucket = <<slide.on>>
         /\ share.mode = "link" => ~share.calm
         /\ share.mode = "deal" /\ ~fs3.sorted =>
              /\ fs3.tableData # <<>> /\ share.name = fs3.tableData[1].name
              /\ share.at = home.currentBucket /\ share.at # <<>> /\ share.postAdress = share.at \o share.name
\* A dialog for a deal of the first row is open.
FirstShare(b) ==
    /\ InBucket(<<b>>) /\ fs3.tableData # <<>> /\ open = {"share"} /\ slide = SlideView
    /\ share = [ShareView EXCEPT !.mode = "deal", !.at = <<b>>, !.calm = TRUE,
                  !.name = SeenRow(1).name, !.postAdress = <<b>> \o fs3.tableData[1].name]

LEMMA Triple ==
  ASSUME NEW b, NEW c, NEW d
  PROVE  Sequence(<<b, c, d>>) /\ Of(<<b, c, d>>) = {b, c, d}
<1>1. <<b, c, d>> \in Seq({b, c, d})
  OBVIOUS
<1>2. DOMAIN <<b, c, d>> = 1..3 /\ <<b, c, d>>[1] = b /\ <<b, c, d>>[2] = c /\ <<b, c, d>>[3] = d
  OBVIOUS
<1>3. \A k \in 1..3 : k = 1 \/ k = 2 \/ k = 3
  OBVIOUS
<1>4. 1 \in 1..3 /\ 2 \in 1..3 /\ 3 \in 1..3
  OBVIOUS
<1>5. Of(<<b, c, d>>) = {b, c, d}
  BY <1>2, <1>3, <1>4 DEF Of
<1>6. QED
  BY <1>1, <1>5, InSeq

LEMMA Begins ==
  ASSUME Init
  PROVE  /\ Inv /\ Begun
         /\ home.prefixData = <<>> /\ ~home.drawer
         /\ fs3.currentBucketAll = home.currentBucket /\ fs3.prefixName = <<>>
         /\ fs3.expands = <<>> /\ fs3.exChangeList = {}
         /\ fs3.deleteDialogIndex = <<>> /\ fs3.drawIndex = 0
         /\ shown = AtFirst(home.currentBucket) /\ Len(home.currentBucket) <= 1
         /\ home.currentBucket = <<>> => fs3.tableData = <<>>
         /\ home.currentBucket # <<>> =>
               /\ IsListing(fs3.tableData, <<>>)
               /\ Names(fs3.tableData) = Names(Listing(home.currentBucket, <<>>))
<1>1. PageInit
  BY DEF Init
<1>2. IsStore(stored)
  <2>1. 1 \in Buckets /\ 2 \in Buckets
    BY PageBounds DEF Buckets
  <2>2. IsFiniteSet(Objects) /\ Objects \subseteq ObjectName
    BY NameBounds DEF ObjectName
  <2>3. IsFiniteSet({})
    BY FS_EmptySet
  <2>4. CASE stored = [b \in {1} |-> {}]
    BY <2>1, <2>3, <2>4 DEF IsStore
  <2>5. CASE stored = [b \in {1, 2} |-> Objects]
    BY <2>1, <2>2, <2>5 DEF IsStore
  <2>6. QED
    BY <1>1, <2>4, <2>5 DEF PageInit
<1>3. JustMounted \/ \E b \in DOMAIN stored : InBucket(<<b>>)
  BY DEF Init
<1>4. /\ IsHome(home) /\ IsFs3(fs3) /\ IsShown(shown)
      /\ home.prefixData = <<>> /\ ~home.drawer
      /\ fs3.currentBucketAll = home.currentBucket /\ fs3.prefixName = <<>>
      /\ fs3.expands = <<>> /\ fs3.exChangeList = {}
      /\ fs3.deleteDialogIndex = <<>> /\ fs3.drawIndex = 0
      /\ shown = AtFirst(home.currentBucket)
      /\ home.currentBucket = <<>> \/ \E b \in DOMAIN stored : home.currentBucket = <<b>>
      /\ home.currentBucket = <<>> => fs3.tableData = <<>>
      /\ home.currentBucket # <<>> =>
            /\ IsListing(fs3.tableData, <<>>)
            /\ Names(fs3.tableData) = Names(Listing(home.currentBucket, <<>>))
  BY <1>1, <1>2, <1>3, FirstView
<1>5. \A b : Len(<<b>>) = 1 /\ <<b>> # <<>>
  OBVIOUS
<1>6. Len(home.currentBucket) <= 1
  <2>1. CASE home.currentBucket = <<>>
    BY <2>1, Empty
  <2>2. CASE \E b \in DOMAIN stored : home.currentBucket = <<b>>
    <3>1. PICK b \in DOMAIN stored : home.currentBucket = <<b>>
      BY <2>2
    <3>2. QED
      BY <1>5, <3>1
  <2>3. QED
    BY <1>4, <2>1, <2>2
<1>7. \/ JustMounted /\ open = {} /\ slide = SlideView
      \/ \E b \in DOMAIN stored : /\ InBucket(<<b>>) /\ share = ShareView
                                  /\ open \in {{}, {"menu"}, {"homeshare"}}
                                  /\ slide = [SlideView EXCEPT !.on = b]
      \/ \E b \in DOMAIN stored : FirstShare(b)
  BY DEF Init, FirstShare
<1>8. ASSUME NEW c, c = ListBucketsCall(<<>>) \/ \E op \in {"StorageInfo", "ServerInfo"} : c = Request(op, Nothing)
      PROVE  IsCall(c) /\ c.op \in FirstOps
  <2>1. CASE c = ListBucketsCall(<<>>)
    BY <2>1, NewBucketsCall DEF FirstOps
  <2>2. CASE \E op \in {"StorageInfo", "ServerInfo"} : c = Request(op, Nothing)
    BY <2>2, NewAnyCall DEF AnyArgs, FirstOps
  <2>3. QED
    BY <1>8, <2>1, <2>2
<1>9. CallsOK /\ \A c \in Of(calls) : c.op \in FirstOps
  <2> DEFINE b == ListBucketsCall(<<>>)
             s == Request("StorageInfo", Nothing)
             v == Request("ServerInfo", Nothing)
  <2>1. IsCall(b) /\ IsCall(s) /\ IsCall(v) /\ {b.op, s.op, v.op} \subseteq FirstOps
    BY <1>8
  <2>2. calls = <<>> \/ calls = <<b>> \/ calls = <<b, s, v>>
    BY DEF Init, JustMounted
  <2> HIDE DEF b, s, v
  <2>3. CASE calls = <<>>
    BY <2>3, Empty DEF CallsOK
  <2>4. CASE calls = <<b>>
    BY <2>1, <2>4, Single DEF CallsOK
  <2>5. CASE calls = <<b, s, v>>
    BY <2>1, <2>5, Triple DEF CallsOK
  <2>6. QED
    BY <2>2, <2>3, <2>4, <2>5
<1>10. IsShare(share) /\ IsSlide(slide)
       /\ slide.exChangeList = {} /\ slide.bucketPolicies = {} /\ ~slide.fresh
  <2>1. <<5, 0, 0>> \in (Nat \ {0}) \X Nat \X Nat
    OBVIOUS
  <2>2. ASSUME NEW s, s = ShareView \/ \E name, at, adress :
                 s = [ShareView EXCEPT !.mode = "deal", !.at = at, !.calm = TRUE,
                                       !.name = name, !.postAdress = adress]
        PROVE  IsShare(s)
    <3>1. ShareView.num = <<5, 0, 0>> /\ DOMAIN ShareView = ShareFields
      BY DEF ShareView, ShareFields
    <3>2. s.num = ShareView.num /\ DOMAIN s = DOMAIN ShareView
      BY <2>2, <3>1 DEF ShareFields
    <3>3. QED
      BY <2>1, <3>1, <3>2 DEF IsShare
  <2>3. IsShare(share)
    BY <1>7, <2>2 DEF JustMounted, FirstShare
  <2>4. ASSUME NEW s, s = SlideView \/ \E b : s = [SlideView EXCEPT !.on = b]
        PROVE  IsSlide(s) /\ s.exChangeList = {} /\ s.bucketPolicies = {} /\ ~s.fresh
    BY <2>4 DEF SlideView, IsSlide, SlideFields
  <2>5. QED
    BY <1>7, <2>3, <2>4 DEF FirstShare
<1>11. /\ deal = [d \in Dialogs |-> DealView] /\ policies = [b \in Buckets |-> {}]
       /\ \A d \in Dialogs : IsDeal(deal[d]) /\ deal[d].tableData = <<>>
  <2>1. deal = [d \in Dialogs |-> DealView] /\ policies = [b \in Buckets |-> {}]
    BY DEF Init
  <2>2. IsDeal(DealView) /\ DealView.tableData = <<>>
    BY Empty, DealBounds DEF IsDeal, DealView
  <2>3. QED
    BY <2>1, <2>2
<1>12. Inv
  BY <1>1, <1>2, <1>4, <1>9, <1>10, <1>11 DEF Inv, TypeInv, Located, FirstOps, PageInit, NoPick
<1>13. Begun
  <2>1. ~picked.calm
    BY <1>1 DEF PageInit, NoPick
  <2>2. /\ open \in {{}, {"menu"}, {"homeshare"}, {"share"}}
        /\ SideOf(open) # {} => slide.on \in Buckets /\ home.currentBucket = <<slide.on>>
        /\ share.mode = "link" => ~share.calm
    <3>1. CASE JustMounted /\ open = {}
      BY <3>1 DEF JustMounted, ShareView, SideOf
    <3>2. ASSUME NEW b \in DOMAIN stored, InBucket(<<b>>), share = ShareView,
                 open \in {{}, {"menu"}, {"homeshare"}}, slide = [SlideView EXCEPT !.on = b]
          PROVE  slide.on \in Buckets /\ home.currentBucket = <<slide.on>> /\ ~share.calm
      BY <1>2, <3>2 DEF InBucket, Listed, GetMinioData, HomeView, ShareView, SlideView, IsStore
    <3>3. ASSUME NEW b \in DOMAIN stored, FirstShare(b)
          PROVE  open = {"share"} /\ share.mode = "deal" /\ SideOf(open) = {}
      BY <3>3 DEF FirstShare, ShareView, SideOf
    <3>4. "link" # "deal"
      OBVIOUS
    <3>5. QED
      BY <1>7, <3>1, <3>2, <3>3, <3>4
  <2>3. ASSUME share.mode = "deal", ~fs3.sorted
        PROVE  /\ fs3.tableData # <<>> /\ share.name = fs3.tableData[1].name
               /\ share.at = home.currentBucket /\ share.at # <<>> /\ share.postAdress = share.at \o share.name
    <3>0. share # ShareView
      BY <2>3 DEF ShareView
    <3>1. PICK b \in DOMAIN stored : FirstShare(b)
      BY <1>7, <3>0 DEF JustMounted
    <3>2. home.currentBucket = <<b>>
      BY <3>1 DEF FirstShare, InBucket, Listed, GetMinioData, HomeView
    <3>3. SeenRow(1) = fs3.tableData[1]
      BY <2>3 DEF SeenRow
    <3>4. QED
      BY <3>1, <3>2, <3>3, <1>5 DEF FirstShare, ShareView
  <2>4. QED
    BY <1>9, <1>10, <1>11, <2>1, <2>2, <2>3 DEF Begun
<1>14. QED
  BY <1>4, <1>6, <1>12, <1>13

\* The state keeps to its types.
THEOREM ObjectTypes == Spec => []TypeInv
<1>1. Init => Inv
  BY Begins
<1>2. Inv /\ [Next]_vars => Inv'
  BY InvKept
<1>3. Inv => TypeInv
  BY DEF Inv
<1>4. QED
  BY <1>1, <1>2, <1>3, PTL DEF Spec

----------------------------------------------------------------------------
(* The bar of progress.                                                    *)

\* While the bar is open some upload has not sent its last part, and the last
\* event, if there has been one since the bar was opened, was about that upload
\* or about as many parts.
Unsent(c) == c.op = "Upload" /\ c.state = "sent" /\ c.arg.loaded < c.arg.size
BarInv == home.drawer /\ ~shown.cut =>
              \E c \in Of(calls) : Unsent(c) /\ home.oloaded \in {0, c.arg.loaded}

LEMMA BarSpared ==
  ASSUME TypeInv, BarInv, NEW H, NEW F, NEW S, NEW N, NEW ops, Touches(H, F, S, N, ops),
         "drawer" \notin H, "oloaded" \notin H, "cut" \notin N, "Upload" \notin ops
  PROVE  BarInv'
<1> DEFINE rest == AllOps \ ops
<1>1. /\ home'.drawer = home.drawer /\ home'.oloaded = home.oloaded /\ shown'.cut = shown.cut
  BY DEF Touches, Sets, TypeInv, IsHome, HomeFields, IsShown, ShownFields
<1>2. Spared(rest) /\ "Upload" \in rest
  BY DEF Touches, AllOps, PageOps
<1> HIDE DEF rest
<1>3. \A c \in Of(calls) : c.op = "Upload" => c \in Of(calls')
  BY <1>2, SparedOf
<1>4. QED
  BY <1>1, <1>3 DEF BarInv, Unsent

\* An upload that FS3 does not store now goes on.
LEMMA BarIfStored ==
  ASSUME Inv, BarInv, NEW i \in DOMAIN calls, Stores(i), Aside
  PROVE  BarInv'
<1>1. CallsOK /\ UNCHANGED <<home, shown>>
  BY StoreStep DEF Inv, TypeInv
<1>2. ~Unsent(calls[i])
  <2>1. CASE MakeBucket(i) \/ RemoveObject(i)
    BY <2>1 DEF MakeBucket, RemoveObject, IsSent, Unsent
  <2>2. CASE PutObject(i)
    <3>1. calls[i].op = "Upload" /\ calls[i].arg.loaded = calls[i].arg.size /\ IsCall(calls[i])
      BY <1>1, <2>2, CallAt DEF PutObject, IsSent
    <3>2. calls[i].arg.size \in Nat
      BY <3>1 DEF IsCall, IsArg, PageArg
    <3>3. QED
      BY <3>1, <3>2 DEF Unsent
  <2>3. QED
    BY <2>1, <2>2 DEF Stores
<1>3. \E data, js : ReplyOvertakes(i, js, data) /\ i \notin js
  <2>1. calls[i].state = "sent" /\ Requests
    BY <1>1, CallsAreRequests DEF Stores, MakeBucket, RemoveObject, PutObject, IsSent
  <2>2. \/ \E data : Reply(i, data)
        \/ \E data, few : ReplyOvertakes(i, Past(few), data)
    BY DEF Stores, MakeBucket, RemoveObject, PutObject, Changes
  <2>3. CASE \E data : Reply(i, data)
    BY <2>1, <2>3, ReplyOvertakesNone
  <2>4. \A few : i \notin Past(few)
    BY <2>1 DEF Past
  <2>5. QED
    BY <2>2, <2>3, <2>4
<1>4. ASSUME NEW k \in DOMAIN calls, k # i
      PROVE  \E d \in Of(calls') : \E overtaken : IsNow(d, calls[k], overtaken)
  <2>1. PICK data, js : ReplyOvertakes(i, js, data) /\ i \notin js
    BY <1>3
  <2>2. k \in DOMAIN calls' /\ IsNow(calls'[k], calls[k], k \in js)
    BY <1>1, <1>4, <2>1, RepliedAt, CallsAreRequests
  <2>3. QED
    BY <2>2 DEF Of
<1>5. SUFFICES ASSUME home'.drawer, ~shown'.cut
               PROVE  \E c \in Of(calls') : Unsent(c) /\ home'.oloaded \in {0, c.arg.loaded}
  BY DEF BarInv, Unsent
<1>6. PICK k \in DOMAIN calls : Unsent(calls[k]) /\ home.oloaded \in {0, calls[k].arg.loaded}
  BY <1>1, <1>5 DEF BarInv, Of
<1>7. QED
  BY <1>1, <1>2, <1>4, <1>6 DEF IsNow, Unsent

\* What FS3 answers without a change is not about these.
LEMMA ReplyOps ==
  ASSUME NEW i, Answering(i)
  PROVE  calls[i].op \notin {"Upload", "MakeBucket", "RemoveObject", "SetBucketPolicy", "DeleteBucket"}
BY DEF Answering, ListBuckets, ListObjects, PresignedGet, Told, ListAllBucketPolicies, BucketDeals,
       ServeMiners, PostDeal, IsSent, Outstanding, DealApis

\* An event about the request i.
LEMMA BarIfProgress ==
  ASSUME Inv, BarInv, NEW i \in DOMAIN calls, ProgressFunction(i), Aside
  PROVE  BarInv'
<1>1. /\ CallsOK /\ shown' = shown /\ calls[i].op = "Upload" /\ calls[i].state = "sent"
      /\ \E e : \E loaded \in Parts(calls[i].arg) :
              /\ calls' = [calls EXCEPT ![i] = e]
              /\ e.op = "Upload" /\ e.state = "sent"
              /\ e.arg.loaded = loaded /\ e.arg.size = calls[i].arg.size
              /\ home'.oloaded = loaded
              /\ home'.drawer => home.drawer
              /\ RestTime(e.arg.size - loaded, loaded - home.oloaded) = -1 => ~home'.drawer
  BY ProgressStep DEF Inv, TypeInv
<1>0. PICK e : \E loaded \in Parts(calls[i].arg) :
         /\ calls' = [calls EXCEPT ![i] = e]
         /\ e.op = "Upload" /\ e.state = "sent"
         /\ e.arg.loaded = loaded /\ e.arg.size = calls[i].arg.size
         /\ home'.oloaded = loaded
         /\ home'.drawer => home.drawer
         /\ RestTime(e.arg.size - loaded, loaded - home.oloaded) = -1 => ~home'.drawer
  BY <1>1
<1>2. PICK loaded \in Parts(calls[i].arg) :
         /\ calls' = [calls EXCEPT ![i] = e]
         /\ e.op = "Upload" /\ e.state = "sent"
         /\ e.arg.loaded = loaded /\ e.arg.size = calls[i].arg.size
         /\ home'.oloaded = loaded
         /\ home'.drawer => home.drawer
         /\ RestTime(e.arg.size - loaded, loaded - home.oloaded) = -1 => ~home'.drawer
  BY <1>0
<1> DEFINE size == calls[i].arg.size
           before == calls[i].arg.loaded
<1>3. /\ size \in Nat /\ before \in Nat
      /\ loaded \in before + 1 .. size \/ (before = 0 /\ size = 0 /\ loaded = 0)
  <2>1. IsArg("Upload", calls[i].arg)
    BY <1>1, CallAt DEF IsCall
  <2>2. size \in Nat /\ before \in 0..size
    BY <2>1 DEF IsArg, PageArg
  <2>3. QED
    BY <2>2, <1>2 DEF Parts
<1>4. /\ e \in Of(calls')
      /\ \A k \in DOMAIN calls : k # i => calls[k] \in Of(calls')
  BY <1>1, <1>2, Replaced DEF CallsOK
<1>5. SUFFICES ASSUME home'.drawer, ~shown'.cut
               PROVE  \E c \in Of(calls') : Unsent(c) /\ home'.oloaded \in {0, c.arg.loaded}
  BY DEF BarInv, Unsent
<1>6. PICK k \in DOMAIN calls : Unsent(calls[k]) /\ home.oloaded \in {0, calls[k].arg.loaded}
  BY <1>1, <1>2, <1>5 DEF BarInv, Of
<1>10. CASE size = 0
  <2>1. k # i /\ home'.oloaded = 0
    BY <1>2, <1>3, <1>6, <1>10 DEF Unsent
  <2>2. QED
    BY <1>4, <1>6, <2>1
<1>7. CASE loaded < size
  BY <1>2, <1>4, <1>7 DEF Unsent
<1>8. CASE size # 0 /\ loaded = size
  <2>1. home.oloaded \in Nat
    BY DEF Inv, TypeInv, IsHome
  <2>2. RestTime(0, loaded - home.oloaded) # -1
    BY <1>2, <1>3, <1>5, <1>8
  <2>3. loaded = home.oloaded
    BY <1>3, <2>1, <2>2 DEF RestTime
  <2>4. k # i /\ home.oloaded = calls[k].arg.loaded
    BY <1>3, <1>6, <1>8, <2>1, <2>3
  <2>5. QED
    BY <1>2, <1>4, <1>6, <2>3, <2>4
<1>9. QED
  BY <1>3, <1>7, <1>8, <1>10

LEMMA BarIfUploading ==
  ASSUME Inv, Uploading
  PROVE  BarInv'
<1>1. PICK file \in FileNames, size \in FileSizes : OnChange(file, size)
  BY DEF Uploading
<1> DEFINE c == UploadCall(file, size)
<1>2. /\ UserSends(<<c>>) /\ c.op = "Upload" /\ c.state = "sent"
      /\ c.arg.loaded = 0 /\ c.arg.size \in Nat /\ home'.oloaded = 0
      /\ shown'.cut \/ c.arg.size # 0
  BY <1>1, OnChangeStep DEF Uploading, Inv
<1> HIDE DEF c
<1>3. Of(calls \o <<c>>) = Of(calls) \cup Of(<<c>>) /\ Of(<<c>>) = {c}
  BY Joined, Single DEF Inv, TypeInv, CallsOK
<1>4. c \in Of(calls')
  BY <1>2, <1>3 DEF UserSends
<1>5. QED
  BY <1>2, <1>4 DEF BarInv, Unsent

\* An upload ends: it was all sent, or the bar stays for good.
LEMMA BarIfEnded ==
  ASSUME Inv, BarInv, NEW i \in DOMAIN calls, NEW js, NEW cs, Sequence(cs), Overtakes(i, js, cs),
         home'.drawer = home.drawer, home'.oloaded = home.oloaded, ~shown'.cut => ~shown.cut,
         Unsent(calls[i]) => shown'.cut
  PROVE  BarInv'
<1>1. Requests
  BY CallsAreRequests DEF Inv, TypeInv
<1>2. \A k \in DOMAIN calls : k # i => \E d \in Of(calls') : IsNow(d, calls[k], k \in js)
  BY <1>1, FinishedOf
<1>3. SUFFICES ASSUME home'.drawer, ~shown'.cut
               PROVE  \E c \in Of(calls') : Unsent(c) /\ home'.oloaded \in {0, c.arg.loaded}
  BY DEF BarInv, Unsent
<1>4. PICK k \in DOMAIN calls : Unsent(calls[k]) /\ home.oloaded \in {0, calls[k].arg.loaded}
  BY <1>3 DEF BarInv, Of
<1>5. QED
  BY <1>2, <1>3, <1>4 DEF IsNow, Unsent

LEMMA BarKept ==
  ASSUME Inv, BarInv, [Next]_vars
  PROVE  BarInv'
<1>1. TypeInv
  BY DEF Inv
<1>2. CASE Resting
  BY <1>1, <1>2, RestingStep, BarSpared
<1>3. CASE Dealing
  BY <1>1, <1>3, DealingStep, BarSpared DEF DealOps, DealApis
<1>4. CASE Minding
  BY <1>1, <1>4, MindingStep, BarSpared DEF MindOps, MenuOps
<1>5. CASE Going
  BY <1>1, <1>5, GoingStep, BarSpared DEF GoesToTop, ToTop, GoOps
<1>6. CASE Walking
  BY <1>1, <1>6, WalkingStep, BarSpared
<1>7. CASE Selecting
  BY <1>1, <1>7, SelectingStep, BarSpared DEF PickOps
<1>8. CASE Moving
  BY <1>1, <1>8, MovingStep, BarSpared DEF MoveHome, MoveOps
<1>9. CASE Replying
  BY <1>1, <1>9, ReplyingStep, ReplyOps, BarSpared
<1>10. CASE Storing
  BY <1>1, <1>10, BarIfStored DEF Storing
<1>11. CASE Deleting
  BY <1>1, <1>11, DeletingStep, BarSpared DEF DeleteOps
<1>12. CASE Sharing
  BY <1>1, <1>12, SharingStep, BarSpared
<1>13. CASE Opening
  BY <1>1, <1>13, OpeningStep, BarSpared
<1>14. CASE Uploading
  BY <1>14, BarIfUploading
<1>15. ASSUME NEW i \in DOMAIN calls, Handling(i), Aside PROVE BarInv'
  <2>1. CASE ObjectsListed(i)
    BY <1>1, <1>15, <2>1, ObjectsListedStep, BarSpared
  <2>2. CASE ObjectRemoved(i)
    BY <1>1, <1>15, <2>2, ObjectRemovedStep, BarSpared
  <2>3. CASE ProgressFunction(i)
    BY <1>15, <2>3, BarIfProgress
  <2>4. CASE Uploaded(i)
    <3> DEFINE cs == <<ListCall(home'.currentBucket, home'.prefixData)>>
               js == {}
    <3>1. /\ Done(i, cs) /\ shown' = shown /\ calls[i].state = "answered"
          /\ Sets(home, home', {"currentBucket"})
      BY <1>1, <1>15, <2>4, UploadedStep DEF Touches
    <3>2. Sequence(cs) /\ Overtakes(i, js, cs)
      BY <1>1, <3>1, Single, DoneOvertakes, CallsAreRequests DEF TypeInv
    <3>3. home'.drawer = home.drawer /\ home'.oloaded = home.oloaded
      BY <1>1, <3>1 DEF Sets, TypeInv, IsHome, HomeFields
    <3>4. ~Unsent(calls[i])
      BY <3>1 DEF Unsent
    <3> HIDE DEF cs, js
    <3>5. QED
      BY <3>1, <3>2, <3>3, <3>4, BarIfEnded
  <2>5. CASE LinkMade(i)
    BY <1>1, <1>15, <2>5, LinkMadeStep, BarSpared
  <2>6. CASE DealsListed(i)
    BY <1>1, <1>15, <2>6, DealsListedStep, BarSpared
  <2>7. CASE Dropped(i)
    <3> DEFINE cs == <<>>
               js == Earlier(i)
    <3>1. /\ Overtakes(i, js, cs) /\ home' = home
          /\ ~shown'.cut => ~shown.cut /\ ~Unsent(calls[i])
      BY <1>1, <1>15, <2>7, DroppedStep DEF Unsent
    <3>2. Sequence(cs)
      BY Empty
    <3> HIDE DEF cs, js
    <3>3. QED
      BY <3>1, <3>2, BarIfEnded
  <2>8. QED
    BY <1>15, <2>1, <2>2, <2>3, <2>4, <2>5, <2>6, <2>7 DEF Handling
<1>16. CASE UNCHANGED vars
  BY <1>1, <1>16, StutterStep, BarSpared
<1>17. QED
  BY <1>1, <1>2, <1>3, <1>4, <1>5, <1>6, <1>7, <1>8, <1>9, <1>10, <1>11, <1>12, <1>13, <1>14, <1>15,
     <1>16, EveryStep DEF Steps

\* The bar of progress closes with the last part of the last upload, of any
\* number and size of uploads at once (Home.vue progressFunction), except after
\* an upload cut off or an empty file, until the next upload begins.
THEOREM BarCloses == Spec => []UploadBarCloses
<1>1. Init => Inv /\ BarInv
  BY Begins DEF BarInv
<1>2. Inv /\ BarInv /\ [Next]_vars => (Inv /\ BarInv)'
  BY InvKept, BarKept
<1>3. Inv /\ BarInv => UploadBarCloses
  <2>1. SUFFICES ASSUME Inv, BarInv, ~shown.cut, home.drawer
                 PROVE  \E i \in Outstanding({"Upload"}) : calls[i].arg.loaded # calls[i].arg.size
    BY DEF UploadBarCloses
  <2>2. PICK k \in DOMAIN calls : Unsent(calls[k])
    BY <2>1 DEF BarInv, Of
  <2>3. IsArg("Upload", calls[k].arg)
    BY <2>1, <2>2, CallAt DEF Inv, TypeInv, IsCall, Unsent
  <2>4. calls[k].arg.size \in Nat /\ calls[k].arg.loaded \in 0..calls[k].arg.size
    BY <2>3 DEF IsArg, PageArg
  <2>5. QED
    BY <2>2, <2>4 DEF Unsent, Outstanding
<1>4. QED
  BY <1>1, <1>2, <1>3, PTL DEF Spec

----------------------------------------------------------------------------
(* The path in the header.                                                 *)

HeadInv ==
    shown.followed =>
        /\ fs3.currentBucketAll = home.currentBucket \o home.prefixData
        /\ fs3.prefixName = home.prefixData
        /\ Len(home.currentBucket) <= 1
        /\ home.currentBucket = <<>> => home.prefixData = <<>>

LEMMA HeadSpared ==
  ASSUME TypeInv, HeadInv, NEW H, NEW F, NEW S, NEW N, NEW ops, Touches(H, F, S, N, ops),
         "currentBucket" \notin H, "prefixData" \notin H, "currentBucketAll" \notin F,
         "prefixName" \notin F, "followed" \notin N
  PROVE  HeadInv'
<1>1. /\ home'.currentBucket = home.currentBucket /\ home'.prefixData = home.prefixData
      /\ fs3'.currentBucketAll = fs3.currentBucketAll /\ fs3'.prefixName = fs3.prefixName
      /\ shown'.followed = shown.followed
  BY DEF Touches, Sets, TypeInv, IsHome, HomeFields, IsFs3, Fs3Fields, IsShown, ShownFields
<1>2. QED
  BY <1>1 DEF HeadInv

\* At the top of a bucket, or nowhere.
LEMMA AtTop ==
  ASSUME NEW b, b = <<>> \/ \E n : b = <<n>>
  PROVE  b \o <<>> = b /\ Len(b) <= 1
<1>1. CASE b = <<>>
  BY <1>1
<1>2. CASE \E n : b = <<n>>
  <2>1. PICK n : b = <<n>>
    BY <1>2
  <2>2. <<n>> \o <<>> = <<n>> /\ Len(<<n>>) <= 1
    OBVIOUS
  <2>3. QED
    BY <2>1, <2>2
<1>3. QED
  BY <1>1, <1>2

\* A path within the current bucket.
LEMMA HeadIfWalking ==
  ASSUME Inv, HeadInv, Walking
  PROVE  HeadInv'
<1>1. PICK path : GoesWithin(path) /\ Aside
  BY DEF Walking
<1>2. /\ home'.prefixData = Tail(path) /\ fs3'.currentBucketAll = path /\ fs3'.prefixName = Tail(path)
      /\ home'.currentBucket = home.currentBucket /\ shown' = shown
      /\ IsPath(path) /\ path # <<>> /\ home.currentBucket # <<>>
      /\ \/ <<path[1]>> = home.currentBucket
         \/ fs3.currentBucketAll # <<>> => path[1] = fs3.currentBucketAll[1]
      /\ IsPath(home.currentBucket) /\ home.prefixData \in Seq(STRING)
  BY <1>1, GoesWithinStep, GoesTo DEF GoesWithin, Inv, TypeInv, IsHome
<1>3. SUFFICES ASSUME shown.followed
               PROVE  path = home.currentBucket \o Tail(path) /\ Len(home.currentBucket) <= 1
  BY <1>2 DEF HeadInv
<1> DEFINE b == home.currentBucket
           p == home.prefixData
<1>4. fs3.currentBucketAll = b \o p /\ Len(b) <= 1 /\ Sequence(b) /\ Sequence(p)
  BY <1>2, <1>3, Strings DEF HeadInv, IsPath
<1>5. Len(b) = 1
  <2>1. b \in Seq(Of(b)) /\ Len(b) \in Nat
    BY <1>4, Indices DEF Sequence
  <2>2. Len(b) # 0
    BY <1>2, <2>1, EmptySeq
  <2> DEFINE n == Len(b)
  <2>3. n \in Nat /\ n # 0 /\ n <= 1
    BY <1>4, <2>1, <2>2
  <2> HIDE DEF n
  <2>4. n = 1
    BY <2>3
  <2>5. QED
    BY <2>4 DEF n
<1>6. b = <<b[1]>>
  BY <1>4, <1>5 DEF Sequence
<1>7. (b \o p)[1] = b[1] /\ b \o p # <<>>
  <2> DEFINE q == b \o p
  <2>1. Sequence(q) /\ Len(q) = Len(b) + Len(p) /\ \A k \in 1..Len(b) : q[k] = b[k]
    BY <1>4, Joined
  <2>2. Len(p) \in Nat /\ 1 \in 1..Len(b)
    BY <1>4, <1>5, Indices
  <2> HIDE DEF q
  <2>3. q # <<>>
    BY <1>5, <2>1, <2>2, Empty
  <2>4. QED
    BY <2>1, <2>2, <2>3 DEF q
<1>8. path[1] = b[1]
  BY <1>2, <1>4, <1>6, <1>7
<1>9. path = <<path[1]>> \o Tail(path)
  BY <1>2, PathWhole
<1>10. QED
  BY <1>4, <1>6, <1>8, <1>9

LEMMA HeadIfMoving ==
  ASSUME Inv, HeadInv, Moving
  PROVE  HeadInv'
<1>1. Aside /\ TypeInv
  BY DEF Moving, Inv
<1>2. CASE \E p \in Paths : EditAway(p)
  BY <1>1, <1>2, EditAwayStep DEF HeadInv
<1>3. ASSUME NEW b, BucketsTo(b) PROVE HeadInv'
  <2>1. /\ b = <<>> \/ IsBucketName(b)
        /\ home'.currentBucket = b /\ home'.prefixData = IF b # <<>> THEN <<>> ELSE home.prefixData
        /\ shown'.followed => /\ shown.followed /\ fs3'.currentBucketAll = b
                              /\ fs3.prefixName = <<>>
        /\ Sets(fs3, fs3', {"currentBucketAll"})
    BY <1>3 DEF BucketsTo, Follows
  <2>2. fs3'.prefixName = fs3.prefixName
    BY <1>1, <2>1 DEF Sets, TypeInv, IsFs3, Fs3Fields
  <2>3. b \o <<>> = b /\ Len(b) <= 1
    BY <2>1, AtTop DEF IsBucketName
  <2>4. QED
    BY <2>1, <2>2, <2>3 DEF HeadInv
<1>4. CASE \E i \in DOMAIN calls : BucketsListed(i) \/ BucketMade(i)
  BY <1>1, <1>3, <1>4, BucketsListedStep, BucketMadeStep
<1>5. ASSUME NEW i \in DOMAIN calls, BucketNotMade(i) PROVE HeadInv'
  <2>1. PICK b : /\ Follows(b)
                 /\ shown'.followed => shown.followed /\ b = home.currentBucket
    BY <1>1, <1>5, BucketNotMadeStep
  <2>2. Sets(home, home', {"currentBucket"}) /\ Sets(fs3, fs3', {"currentBucketAll"})
    BY <1>1, <1>5, BucketNotMadeStep DEF Touches
  <2>3. home'.prefixData = home.prefixData /\ fs3'.prefixName = fs3.prefixName
    BY <1>1, <2>2 DEF Sets, TypeInv, IsHome, HomeFields, IsFs3, Fs3Fields
  <2>4. QED
    BY <2>1, <2>3 DEF Follows, HeadInv
<1>6. QED
  BY <1>2, <1>4, <1>5 DEF Moving, Arriving

LEMMA HeadIfUploaded ==
  ASSUME Inv, HeadInv, NEW i \in DOMAIN calls, Uploaded(i), Aside
  PROVE  HeadInv'
<1>1. /\ shown' = shown /\ Sets(home, home', {"currentBucket"})
      /\ Sets(fs3, fs3', Selection \cup {"currentBucketAll"})
      /\ home.currentBucket # <<>> => home'.currentBucket = home.currentBucket
      /\ home'.currentBucket = home.currentBucket => fs3'.currentBucketAll = fs3.currentBucketAll
      /\ home'.currentBucket # home.currentBucket =>
           /\ IsBucketName(home'.currentBucket)
           /\ fs3'.currentBucketAll = home'.currentBucket
  BY UploadedStep DEF Inv, Touches
<1>2. home'.prefixData = home.prefixData /\ fs3'.prefixName = fs3.prefixName
  BY <1>1 DEF Sets, Inv, TypeInv, IsHome, HomeFields, IsFs3, Fs3Fields, Selection
<1>3. CASE home'.currentBucket = home.currentBucket
  BY <1>1, <1>2, <1>3 DEF HeadInv
<1>4. CASE home'.currentBucket # home.currentBucket
  <2>1. home'.currentBucket \o <<>> = home'.currentBucket /\ Len(home'.currentBucket) <= 1
    BY <1>1, <1>4, AtTop DEF IsBucketName
  <2>2. home.currentBucket = <<>> /\ home'.currentBucket # <<>>
    BY <1>1, <1>4
  <2>3. QED
    BY <1>1, <1>2, <1>4, <2>1, <2>2 DEF HeadInv
<1>5. QED
  BY <1>3, <1>4

LEMMA HeadKept ==
  ASSUME Inv, HeadInv, [Next]_vars
  PROVE  HeadInv'
<1>1. TypeInv
  BY DEF Inv
<1>2. CASE Resting
  BY <1>1, <1>2, RestingStep, HeadSpared
<1>3. CASE Dealing
  BY <1>1, <1>3, DealingStep, HeadSpared
<1>4. CASE Minding
  BY <1>1, <1>4, MindingStep, HeadSpared
<1>5. CASE Going
  <2>1. PICK n : SlideClick(<<n>>)
    BY <1>5, GoingStep DEF Inv, GoesToTop
  <2>2. /\ home'.currentBucket = <<n>> /\ home'.prefixData = <<>>
        /\ fs3'.currentBucketAll = <<n>> /\ fs3'.prefixName = <<>>
    BY <1>1, <2>1, SlideClicks
  <2>3. <<n>> \o <<>> = <<n>> /\ Len(<<n>>) <= 1 /\ <<n>> # <<>>
    OBVIOUS
  <2>4. QED
    BY <2>2, <2>3 DEF HeadInv
<1>6. CASE Walking
  BY <1>6, HeadIfWalking
<1>7. CASE Selecting
  BY <1>1, <1>7, SelectingStep, HeadSpared DEF Selection
<1>8. CASE Moving
  BY <1>8, HeadIfMoving
<1>9. CASE Replying
  BY <1>1, <1>9, ReplyingStep, HeadSpared
<1>10. CASE Storing
  BY <1>1, <1>10, StoringStep, HeadSpared
<1>11. CASE Deleting
  BY <1>1, <1>11, DeletingStep, HeadSpared
<1>12. CASE Sharing
  BY <1>1, <1>12, SharingStep, HeadSpared
<1>13. CASE Opening
  BY <1>1, <1>13, OpeningStep, HeadSpared
<1>14. CASE Uploading
  BY <1>1, <1>14, UploadingStep, HeadSpared
<1>15. ASSUME NEW i \in DOMAIN calls, Handling(i), Aside PROVE HeadInv'
  <2>1. CASE ObjectsListed(i)
    BY <1>1, <1>15, <2>1, ObjectsListedStep, HeadSpared
  <2>2. CASE ObjectRemoved(i)
    BY <1>1, <1>15, <2>2, ObjectRemovedStep, HeadSpared
  <2>3. CASE ProgressFunction(i)
    BY <1>1, <1>15, <2>3, ProgressStep, HeadSpared
  <2>4. CASE Uploaded(i)
    BY <1>15, <2>4, HeadIfUploaded
  <2>5. CASE LinkMade(i)
    BY <1>1, <1>15, <2>5, LinkMadeStep, HeadSpared
  <2>6. CASE DealsListed(i)
    BY <1>1, <1>15, <2>6, DealsListedStep, HeadSpared
  <2>7. CASE Dropped(i)
    BY <1>1, <1>15, <2>7, DroppedStep, HeadSpared
  <2>8. QED
    BY <1>15, <2>1, <2>2, <2>3, <2>4, <2>5, <2>6, <2>7 DEF Handling
<1>16. CASE UNCHANGED vars
  BY <1>1, <1>16, StutterStep, HeadSpared
<1>17. QED
  BY <1>1, <1>2, <1>3, <1>4, <1>5, <1>6, <1>7, <1>8, <1>9, <1>10, <1>11, <1>12, <1>13, <1>14, <1>15,
     <1>16, EveryStep DEF Steps

LEMMA HeadBegins ==
  ASSUME Init
  PROVE  HeadInv
<1>1. /\ Inv /\ home.prefixData = <<>> /\ fs3.currentBucketAll = home.currentBucket
      /\ fs3.prefixName = <<>> /\ Len(home.currentBucket) <= 1
  BY Begins
<1>2. Sequence(home.currentBucket)
  BY <1>1 DEF Inv, TypeInv, IsHome, IsPath
<1>3. home.currentBucket \o <<>> = home.currentBucket
  BY <1>2 DEF Sequence
<1>4. QED
  BY <1>1, <1>3 DEF HeadInv

\* The header says where uploads go (Home.vue, minio/index.vue).
THEOREM HeaderFollows == Spec => []HeaderIsPath
<1>1. Init => Inv /\ HeadInv
  BY Begins, HeadBegins
<1>2. Inv /\ HeadInv /\ [Next]_vars => (Inv /\ HeadInv)'
  BY InvKept, HeadKept
<1>3. Inv /\ HeadInv => HeaderIsPath
  BY DEF HeadInv, HeaderIsPath
<1>4. QED
  BY <1>1, <1>2, <1>3, PTL DEF Spec

----------------------------------------------------------------------------
(* The requests of an operation.                                           *)

None(op) == \A c \in Of(calls) : c.op # op

LEMMA NoneIsNone ==
  ASSUME NEW ops
  PROVE  Outstanding(ops) = {} <=> \A op \in ops : None(op)
BY DEF Outstanding, None, Of

LEMMA OpSpared ==
  ASSUME TypeInv, TypeInv', NEW H, NEW F, NEW S, NEW N, NEW ops, Touches(H, F, S, N, ops),
         NEW op \in AllOps, op \notin ops
  PROVE  (None(op)' <=> None(op)) /\ Newest(calls', op) \subseteq Newest(calls, op)
<1> DEFINE rest == AllOps \ ops
<1>1. Spared(rest) /\ op \in rest
  BY DEF Touches
<1> HIDE DEF rest
<1>2. Sequence(calls) /\ Sequence(calls')
  BY DEF TypeInv, CallsOK
<1>3. \A c : c.op = op => (c \in Of(calls') <=> c \in Of(calls))
  BY <1>1, SparedOf
<1>4. Newest(calls', op) \subseteq Newest(calls, op)
  BY <1>1, <1>2, SparedNewest
<1>5. QED
  BY <1>3, <1>4 DEF None

LEMMA OpAnswered ==
  ASSUME TypeInv, NEW i \in DOMAIN calls, NEW js, i \notin js, NEW data,
         ReplyOvertakes(i, js, data), NEW op
  PROVE  /\ None(op)' => None(op)
         /\ calls[i].op = op => ~None(op)'
         /\ \A c \in Newest(calls', op) : \E d \in Newest(calls, op) : c.arg = d.arg
<1>1. Requests
  BY CallsAreRequests DEF TypeInv
<1>2. \A c \in Newest(calls', op) : \E d \in Newest(calls, op) : c = d \/ IsAnswerTo(c, d, data)
  BY <1>1, NewestIfReplied
<1>3. /\ DOMAIN calls' = DOMAIN calls /\ IsAnswerTo(calls'[i], calls[i], data)
      /\ \A k \in DOMAIN calls : k # i => IsNow(calls'[k], calls[k], k \in js)
  BY <1>1, RepliedAt
<1>4. \A k \in DOMAIN calls : calls'[k].op = calls[k].op /\ calls'[k] \in Of(calls')
  BY <1>3 DEF IsAnswerTo, IsNow, Of
<1>5. QED
  BY <1>2, <1>4 DEF None, Of, IsAnswerTo

LEMMA OpReplying ==
  ASSUME Inv, Replying, NEW op
  PROVE  /\ None(op)' => None(op)
         /\ \A c \in Newest(calls', op) : \E d \in Newest(calls, op) : c.arg = d.arg
<1>1. PICK i \in DOMAIN calls : \E data : Reply(i, data)
  BY ReplyingStep
<1>2. PICK data : Reply(i, data)
  BY <1>1
<1> DEFINE js == {}
<1>3. ReplyOvertakes(i, js, data) /\ i \notin js /\ TypeInv
  BY <1>2, CallsAreRequests, ReplyOvertakesNone DEF Inv, TypeInv
<1> HIDE DEF js
<1>4. QED
  BY <1>3, OpAnswered

LEMMA OpFinished ==
  ASSUME TypeInv, NEW i \in DOMAIN calls, Overtakes(i, Earlier(i), <<>>), NEW op, op = calls[i].op
  PROVE  /\ Newest(calls', op) \subseteq Newest(calls, op)
         /\ None(op)' /\ ~calls[i].late => calls[i] \in Newest(calls, op)
<1> DEFINE cs == <<>>
           js == Earlier(i)
<1>1. Requests /\ Sequence(cs) /\ Overtakes(i, js, cs) /\ Earlier(i) \subseteq js /\ \A d \in Of(cs) : d.op # calls[i].op
  BY CallsAreRequests, Empty DEF TypeInv
<1> HIDE DEF cs, js
<1>2. /\ Newest(calls', calls[i].op) \subseteq Newest(calls, calls[i].op)
      /\ \/ \E d \in Of(calls') : d.op = calls[i].op
         \/ calls[i] \in LastOf(calls, calls[i].op)
  BY <1>1, NewestIfFinished
<1>3. QED
  BY <1>2 DEF None, Newest

\* A request that is sent is the newest.
LEMMA OpAsked ==
  ASSUME TypeInv, NEW cs, Sequence(cs), UserSends(cs), NEW op, \E d \in Of(cs) : d.op = op
  PROVE  ~None(op)' /\ \A c \in Newest(calls', op) : c \in Of(cs) /\ c.op = op
<1>1. Requests
  BY CallsAreRequests DEF TypeInv
<1> DEFINE js == {}
<1>2. calls' = Overtaken(js) \o cs
  BY <1>1, OvertakenNone DEF UserSends
<1> HIDE DEF js
<1>3. Of(cs) \subseteq Of(calls')
  BY <1>1, <1>2, SentOf
<1>4. \A c \in LastOf(calls', op) : c \in Of(cs) /\ c.op = op
  BY <1>1, <1>2, NewestIfSent
<1>5. QED
  BY <1>3, <1>4 DEF None, Newest

LEMMA OpAskedThen ==
  ASSUME TypeInv, NEW i \in DOMAIN calls, NEW cs, Sequence(cs), Done(i, cs),
         NEW op, \E d \in Of(cs) : d.op = op
  PROVE  ~None(op)' /\ \A c \in Newest(calls', op) : c \in Of(cs) /\ c.op = op
<1> DEFINE js == {}
<1>1. Requests /\ Overtakes(i, js, cs)
  BY CallsAreRequests, DoneOvertakes DEF TypeInv
<1> HIDE DEF js
<1>2. Of(cs) \subseteq Of(calls')
  BY <1>1, FinishedOf
<1>3. \A c \in LastOf(calls', op) : c \in Of(cs) /\ c.op = op
  BY <1>1, NewestIfSentThen
<1>4. QED
  BY <1>2, <1>3 DEF None, Newest

\* An answer in time was there before, unless it came just now.
LEMMA AnsweredBefore ==
  ASSUME TypeInv, NEW i \in DOMAIN calls, NEW js, NEW cs, Sequence(cs), Overtakes(i, js, cs),
         \A c \in Of(cs) : c.state = "sent"
  PROVE  \A d \in Of(calls') : d.state = "answered" /\ ~d.late => d \in Of(calls)
<1>1. Requests
  BY CallsAreRequests DEF TypeInv
<1>2. \A d \in Of(calls') : \/ d \in Of(cs)
                            \/ \E k \in DOMAIN calls : k # i /\ IsNow(d, calls[k], k \in js)
  BY <1>1, FinishedOf
<1>3. ASSUME NEW d \in Of(calls'), d.state = "answered", ~d.late PROVE d \in Of(calls)
  <2>1. d \notin Of(cs)
    BY <1>3
  <2>2. PICK k \in DOMAIN calls : IsNow(d, calls[k], k \in js)
    BY <1>2, <2>1
  <2>3. d = calls[k]
    BY <1>3, <2>2 DEF IsNow
  <2>4. QED
    BY <2>3 DEF Of
<1>4. QED
  BY <1>3

LEMMA AnsweredBeforeAsked ==
  ASSUME TypeInv, NEW cs, Sequence(cs), UserSends(cs), \A c \in Of(cs) : c.state = "sent"
  PROVE  \A d \in Of(calls') : d.state = "answered" /\ ~d.late => d \in Of(calls)
<1>1. Of(calls') = Of(calls) \cup Of(cs)
  BY Joined DEF UserSends, TypeInv, CallsOK
<1>2. QED
  BY <1>1

----------------------------------------------------------------------------
(* The bucket at the side.                                                 *)

SideInv ==
    SideOf(open) # {} =>
        /\ \A d, e \in SideOf(open) : d = e
        /\ slide.on \in Buckets
        /\ shown.settled => home.currentBucket = <<slide.on>>
        /\ "policy" \in open => slide.titlePolicy = <<slide.on>>

SlideStays == slide'.on = slide.on /\ slide'.titlePolicy = slide.titlePolicy

LEMMA SideSpared ==
  ASSUME TypeInv, SideInv, NEW H, NEW F, NEW S, NEW N, NEW ops, Touches(H, F, S, N, ops),
         "currentBucket" \notin H, "settled" \notin N, SideOf(open') \subseteq SideOf(open), SlideStays
  PROVE  SideInv'
<1>1. home'.currentBucket = home.currentBucket /\ shown'.settled = shown.settled
  BY DEF Touches, Sets, TypeInv, IsHome, HomeFields, IsShown, ShownFields
<1>2. "policy" \in open' => "policy" \in open
  BY DEF SideOf
<1>3. SideOf(open)' = SideOf(open')
  BY DEF SideOf
<1>4. SUFFICES ASSUME SideOf(open') # {}
               PROVE  /\ \A d, e \in SideOf(open') : d = e
                      /\ slide'.on \in Buckets
                      /\ shown'.settled => home'.currentBucket = <<slide'.on>>
                      /\ "policy" \in open' => slide'.titlePolicy = <<slide'.on>>
  BY <1>3 DEF SideInv
<1>5. QED
  BY <1>1, <1>2, <1>4 DEF SideInv, SlideStays

\* An answer about policies or deals.
LEMMA TendingStep ==
  ASSUME TypeInv, NEW i \in DOMAIN calls, Tending(i), UNCHANGED deal
  PROVE  UNCHANGED pageVars /\ SlideStays
<1>1. CASE SetBucketPolicy(i)
  BY <1>1, SetPolicyStep DEF SlideStays
<1>2. CASE PoliciesListed(i)
  BY <1>2, PoliciesListedStep DEF SlideStays, Sets, TypeInv, IsSlide, SlideFields
<1>3. CASE Relists(i)
  BY <1>3, RelistStep DEF SlideStays, menuVars
<1>4. CASE BucketDealsListed(i)
  BY <1>4, BucketDealsListedStep DEF SlideStays, Sets, TypeInv, IsSlide, SlideFields
<1>5. CASE MenuDropped(i)
  BY <1>5, MenuDroppedStep DEF SlideStays, Sets, TypeInv, IsSlide, SlideFields
<1>6. QED
  BY <1>1, <1>2, <1>3, <1>4, <1>5 DEF Tending

LEMMA SideIfMinding ==
  ASSUME Inv, SideInv, Minding
  PROVE  SideInv'
<1>1. TypeInv /\ UNCHANGED deal /\ UNCHANGED <<home, shown>> /\ Touches({}, {}, {}, {}, MindOps)
  BY MindingStep DEF Inv, Minding
<1>2. CASE DialogFun
  <2>1. /\ "menu" \in open /\ open' = {"policy"}
        /\ slide' = [slide EXCEPT !.titlePolicy = <<slide.on>>]
    BY <1>2 DEF DialogFun
  <2>2. slide'.on = slide.on /\ slide'.titlePolicy = <<slide.on>>
    BY <1>1, <2>1 DEF TypeInv, IsSlide, SlideFields
  <2>3. SideOf(open) # {} /\ SideOf(open)' = {"policy"}
    BY <2>1 DEF SideOf
  <2>4. slide.on \in Buckets /\ (shown.settled => home.currentBucket = <<slide.on>>)
    BY <2>3 DEF SideInv
  <2>5. QED
    BY <1>1, <2>2, <2>3, <2>4 DEF SideInv
<1>3. CASE MenuAsks /\ ~DialogFun
  <2>1. SideOf(open') \subseteq SideOf(open) /\ slide' = slide
    BY <1>1, <1>3, MenuAsksStep
  <2>2. QED
    BY <1>1, <2>1, SideSpared DEF SlideStays
<1>4. ASSUME NEW i \in DOMAIN calls, Tending(i) PROVE SideInv'
  BY <1>1, <1>4, TendingStep, SideSpared DEF pageVars
<1>5. QED
  BY <1>2, <1>3, <1>4 DEF Minding

LEMMA SideIfGoing ==
  ASSUME Inv, SideInv, Going
  PROVE  SideInv'
<1>1. TypeInv
  BY DEF Inv
<1>2. ASSUME NEW b \in Buckets, GetListBucket(b) PROVE SideInv'
  <2>1. open' = {}
    BY <1>2 DEF GetListBucket
  <2>2. SideOf(open)' = {}
    BY <2>1 DEF SideOf
  <2>3. QED
    BY <2>2 DEF SideInv
<1>3. ASSUME NEW n, MenuGoes(n), UNCHANGED deal PROVE SideInv'
  <2>1. /\ SlideClick(<<n>>) /\ slide'.on = n /\ open' \in {{"menu"}, {"homeshare"}, {"retrieval"}}
        /\ n \in Buckets \/ "menu" \in open
        /\ n \in Buckets \/ n = slide.on
    BY <1>1, <1>3, MenuGoesStep DEF MenuGoes
  <2>2. home'.currentBucket = <<n>>
    BY <1>1, <2>1, SlideClicks
  <2>3. n \in Buckets
    BY <2>1 DEF SideInv, SideOf
  <2>4. "policy" \notin open' /\ \A d, e \in SideOf(open') : d = e
    BY <2>1 DEF SideOf
  <2>5. SideOf(open)' = SideOf(open')
    BY DEF SideOf
  <2>6. QED
    BY <2>1, <2>2, <2>3, <2>4, <2>5 DEF SideInv
<1>4. QED
  BY <1>2, <1>3 DEF Going

\* Home's bucket is another one, and no longer settled, or it is the same.
LEMMA SideIfMoved ==
  ASSUME SideInv, SideOf(open') \subseteq SideOf(open), slide' = slide,
         SideOf(open') # {} /\ shown'.settled =>
             shown.settled /\ (home.currentBucket # <<>> => home'.currentBucket = home.currentBucket)
  PROVE  SideInv'
<1>1. SideOf(open)' = SideOf(open') /\ ("policy" \in open' => "policy" \in open)
  BY DEF SideOf
<1>2. SUFFICES ASSUME SideOf(open') # {}
               PROVE  /\ \A d, e \in SideOf(open') : d = e
                      /\ slide.on \in Buckets
                      /\ shown'.settled => home'.currentBucket = <<slide.on>>
                      /\ "policy" \in open' => slide.titlePolicy = <<slide.on>>
  BY <1>1 DEF SideInv
<1>3. <<slide.on>> # <<>>
  OBVIOUS
<1>4. QED
  BY <1>1, <1>2, <1>3 DEF SideInv

LEMMA SideKept ==
  ASSUME Inv, SideInv, [Next]_vars
  PROVE  SideInv'
<1>1. TypeInv
  BY DEF Inv
<1>2. CASE Resting
  BY <1>1, <1>2, RestingStep, SideSpared DEF SlideStays
<1>3. CASE Dealing
  BY <1>1, <1>3, DealingStep, SideSpared DEF SlideStays
<1>4. CASE Minding
  BY <1>4, SideIfMinding
<1>5. CASE Going
  BY <1>5, SideIfGoing
<1>6. CASE Walking
  BY <1>1, <1>6, WalkingStep, SideSpared DEF SlideStays
<1>7. CASE Selecting
  BY <1>1, <1>7, SelectingStep, SideSpared DEF SlideStays
<1>8. CASE Moving
  BY <1>8, MovingStep, SideIfMoved DEF Unsettles
<1>9. CASE Replying
  BY <1>1, <1>9, ReplyingStep, SideSpared DEF SlideStays, pageVars, menuVars
<1>10. CASE Storing
  BY <1>1, <1>10, StoringStep, SideSpared DEF SlideStays
<1>11. CASE Deleting
  <2>1. Touches({}, {}, {}, {}, DeleteOps) /\ open' = open /\ SlideStays
    BY <1>1, <1>11, DeletingStep, DeleteStep DEF Deleting, Sets, TypeInv, IsSlide, SlideFields, SlideStays
  <2>2. QED
    BY <1>1, <2>1, SideSpared
<1>12. CASE Sharing
  BY <1>1, <1>12, SharingStep, SideSpared DEF SlideStays
<1>13. CASE Opening
  BY <1>1, <1>13, OpeningStep, SideSpared DEF SlideStays
<1>14. CASE Uploading
  BY <1>1, <1>14, UploadingStep, SideSpared DEF SlideStays
<1>15. ASSUME NEW i \in DOMAIN calls, Handling(i), Aside PROVE SideInv'
  <2> USE <1>1, <1>15
  <2>0. slide' = slide /\ SideOf(open') \subseteq SideOf(open) /\ SlideStays
    BY HandlingStep DEF SlideStays
  <2>1. CASE ObjectsListed(i)
    BY <2>0, <2>1, ObjectsListedStep, SideSpared
  <2>2. CASE ObjectRemoved(i)
    BY <2>0, <2>2, ObjectRemovedStep, SideSpared
  <2>3. CASE ProgressFunction(i)
    BY <2>0, <2>3, ProgressStep, SideSpared
  <2>4. CASE Uploaded(i)
    BY <2>0, <2>4, UploadedStep, SideIfMoved
  <2>5. CASE LinkMade(i)
    BY <2>0, <2>5, LinkMadeStep, SideSpared
  <2>6. CASE DealsListed(i)
    BY <2>0, <2>6, DealsListedStep, SideSpared
  <2>7. CASE Dropped(i)
    BY <2>0, <2>7, DroppedStep, SideSpared
  <2>8. QED
    BY <2>1, <2>2, <2>3, <2>4, <2>5, <2>6, <2>7 DEF Handling
<1>16. CASE UNCHANGED vars
  BY <1>1, <1>16, StutterStep, SideSpared DEF SlideStays
<1>17. QED
  BY <1>1, <1>2, <1>3, <1>4, <1>5, <1>6, <1>7, <1>8, <1>9, <1>10, <1>11, <1>12, <1>13, <1>14, <1>15,
     <1>16, EveryStep DEF Steps

\* An answer that FS3 has made when it changes what the answer is about is late.
LEMMA PastIsLate ==
  ASSUME CallsOK, NEW i \in DOMAIN calls, calls[i].state = "sent", NEW ops, NEW data,
         ReplyOvertakes(i, Past(ops), data), NEW op \in ops, calls[i].op # op
  PROVE  \A d \in Of(calls') : d.op = op /\ d.state = "answered" => d.late
<1> DEFINE js == Past(ops)
<1>1. Requests /\ i \notin js /\ ReplyOvertakes(i, js, data)
  BY CallsAreRequests DEF Past
<1>2. \A k \in DOMAIN calls : calls[k].op = op /\ calls[k].state = "answered" => k \in js
  BY DEF Past, Outstanding
<1> HIDE DEF js
<1>3. \A d \in Of(calls') : \/ IsAnswerTo(d, calls[i], data)
                            \/ \E k \in DOMAIN calls : k # i /\ IsNow(d, calls[k], k \in js)
  BY <1>1, RepliedOf
<1>4. QED
  BY <1>2, <1>3 DEF IsAnswerTo, IsNow

\* What has been sent by a handler, or before an event, has no answer yet.
LEMMA AnsweredIfDone ==
  ASSUME TypeInv, NEW i \in DOMAIN calls, NEW c, c.state = "sent", Done(i, <<c>>)
  PROVE  \A d \in Of(calls') : d.state = "answered" /\ ~d.late => d \in Of(calls)
<1> DEFINE cs == <<c>>
           js == {}
<1>1. Sequence(cs) /\ Of(cs) = {c} /\ Overtakes(i, js, cs)
  BY Single, CallsAreRequests, DoneOvertakes DEF TypeInv
<1> HIDE DEF cs, js
<1>2. QED
  BY <1>1, AnsweredBefore

LEMMA AnsweredIfFinished ==
  ASSUME TypeInv, NEW i \in DOMAIN calls, Overtakes(i, Earlier(i), <<>>)
  PROVE  \A d \in Of(calls') : d.state = "answered" /\ ~d.late => d \in Of(calls)
<1> DEFINE cs == <<>>
           js == Earlier(i)
<1>1. Sequence(cs) /\ Of(cs) = {} /\ Overtakes(i, js, cs)
  BY Empty
<1> HIDE DEF cs, js
<1>2. QED
  BY <1>1, AnsweredBefore

LEMMA AnsweredIfSent ==
  ASSUME TypeInv, NEW c, c.state = "sent", UserSends(<<c>>)
  PROVE  \A d \in Of(calls') : d.state = "answered" /\ ~d.late => d \in Of(calls)
<1> DEFINE cs == <<c>>
<1>1. Sequence(cs) /\ Of(cs) = {c} /\ UserSends(cs)
  BY Single
<1> HIDE DEF cs
<1>2. QED
  BY <1>1, AnsweredBeforeAsked

LEMMA OfSpared ==
  ASSUME NEW H, NEW F, NEW S, NEW N, NEW ops, Touches(H, F, S, N, ops), NEW op \in AllOps, op \notin ops
  PROVE  \A c : c.op = op => (c \in Of(calls') <=> c \in Of(calls))
<1> DEFINE rest == AllOps \ ops
<1>1. Spared(rest) /\ op \in rest
  BY DEF Touches
<1> HIDE DEF rest
<1>2. QED
  BY <1>1, SparedOf

\* What FS3 answers to one operation leaves the requests of the others.
LEMMA OthersReplied ==
  ASSUME Inv, Replying, NEW op \in AllOps
  PROVE  \/ \A c : c.op = op => (c \in Of(calls') <=> c \in Of(calls))
         \/ \E i \in DOMAIN calls : Answering(i) /\ Elsewhere /\ calls[i].op = op
<1>1. PICK i \in DOMAIN calls : Answering(i) /\ Elsewhere
  BY DEF Replying
<1>2. Touches({}, {}, {}, {}, {calls[i].op})
  BY <1>1, AnsweringStep DEF Inv
<1>3. QED
  BY <1>1, <1>2, OfSpared

----------------------------------------------------------------------------
(* The policies that FS3 has answered.                                     *)

IsPolicyAnswer(c) ==
    c.op = "ListAllBucketPolicies" /\ c.state = "answered" /\ ~c.late /\ c.reply.ok
PoliciesCurrent ==
    \A c \in Of(calls) : IsPolicyAnswer(c) => c.reply.policies = PoliciesOf(c.arg.bucket)

LEMMA PoliciesIfBefore ==
  ASSUME PoliciesCurrent, policies' = policies,
         \A d \in Of(calls') : IsPolicyAnswer(d) => d \in Of(calls)
  PROVE  PoliciesCurrent'
<1>1. \A d \in Of(calls') : IsPolicyAnswer(d) => d.reply.policies = PoliciesOf(d.arg.bucket)
  BY DEF PoliciesCurrent
<1>2. QED
  BY <1>1 DEF PoliciesCurrent, IsPolicyAnswer, PoliciesOf

LEMMA PoliciesSpared ==
  ASSUME PoliciesCurrent, policies' = policies, NEW H, NEW F, NEW S, NEW N, NEW ops,
         Touches(H, F, S, N, ops), "ListAllBucketPolicies" \notin ops
  PROVE  PoliciesCurrent'
<1>1. "ListAllBucketPolicies" \in AllOps
  BY DEF AllOps, MenuOps
<1>2. \A d \in Of(calls') : d.op = "ListAllBucketPolicies" => d \in Of(calls)
  BY <1>1, OfSpared
<1>3. QED
  BY <1>2, PoliciesIfBefore DEF IsPolicyAnswer

LEMMA PoliciesIfChanged ==
  ASSUME CallsOK, NEW i \in DOMAIN calls, calls[i].state = "sent", NEW ops, NEW data,
         ReplyOvertakes(i, Past(ops), data), "ListAllBucketPolicies" \in ops,
         calls[i].op # "ListAllBucketPolicies"
  PROVE  PoliciesCurrent'
<1>1. \A d \in Of(calls') : d.op = "ListAllBucketPolicies" /\ d.state = "answered" => d.late
  BY PastIsLate
<1>2. QED
  BY <1>1 DEF PoliciesCurrent, IsPolicyAnswer

LEMMA PoliciesIfAnswered ==
  ASSUME Inv, PoliciesCurrent, NEW i \in DOMAIN calls, ListAllBucketPolicies(i)
  PROVE  PoliciesCurrent'
<1> DEFINE b == calls[i].arg.bucket
           data == [ok |-> IsBucket(b), policies |-> IF IsBucket(b) THEN PoliciesOf(b) ELSE {}]
           js == {}
<1>1. Reply(i, data) /\ policies' = policies
  BY DEF ListAllBucketPolicies, menuVars
<1>2. Requests /\ i \notin js /\ ReplyOvertakes(i, js, data)
  BY <1>1, CallsAreRequests, ReplyOvertakesNone DEF Inv, TypeInv
<1>3. data.ok => data.policies = PoliciesOf(b)
  OBVIOUS
<1> HIDE DEF data, js
<1>4. \A d \in Of(calls') : \/ IsAnswerTo(d, calls[i], data)
                            \/ \E k \in DOMAIN calls : k # i /\ IsNow(d, calls[k], k \in js)
  BY <1>2, RepliedOf
<1>5. \A d \in Of(calls') : IsPolicyAnswer(d) => d.reply.policies = PoliciesOf(d.arg.bucket)
  <2>1. SUFFICES ASSUME NEW d \in Of(calls'), IsPolicyAnswer(d)
                 PROVE  d.reply.policies = PoliciesOf(d.arg.bucket)
    OBVIOUS
  <2>2. CASE IsAnswerTo(d, calls[i], data)
    BY <1>3, <2>1, <2>2 DEF IsAnswerTo, IsPolicyAnswer
  <2>3. CASE \E k \in DOMAIN calls : k # i /\ IsNow(d, calls[k], k \in js)
    <3>1. PICK k \in DOMAIN calls : IsNow(d, calls[k], k \in js)
      BY <2>3
    <3>2. d = calls[k]
      BY <3>1 DEF js, IsNow
    <3>3. QED
      BY <2>1, <3>2 DEF PoliciesCurrent, Of
  <2>4. QED
    BY <1>4, <2>2, <2>3
<1>6. QED
  BY <1>1, <1>5 DEF PoliciesCurrent, IsPolicyAnswer, PoliciesOf

LEMMA PoliciesIfMinding ==
  ASSUME Inv, PoliciesCurrent, Minding
  PROVE  PoliciesCurrent'
<1>1. TypeInv /\ UNCHANGED deal
  BY DEF Inv, Minding
<1>2. CASE DialogFun
  <2> DEFINE c == PoliciesCall(<<slide.on>>)
  <2>1. UserSends(<<c>>) /\ policies' = policies
    BY <1>2 DEF DialogFun
  <2>2. c.state = "sent"
    BY DEF PoliciesCall, Request
  <2> HIDE DEF c
  <2>3. QED
    BY <1>1, <2>1, <2>2, AnsweredIfSent, PoliciesIfBefore DEF IsPolicyAnswer
<1>3. CASE MenuAsks /\ ~DialogFun
  <2> DEFINE ops == {"SetBucketPolicy", "DeleteBucket"}
             rest == AllOps \ ops
  <2>1. Spared(rest) /\ policies' = policies /\ "ListAllBucketPolicies" \in rest
    BY <1>1, <1>3, MenuAsksStep DEF AllOps, MenuOps
  <2> HIDE DEF ops, rest
  <2>2. \A c : c.op = "ListAllBucketPolicies" => (c \in Of(calls') <=> c \in Of(calls))
    BY <2>1, SparedOf
  <2>3. QED
    BY <2>1, <2>2, PoliciesIfBefore DEF IsPolicyAnswer
<1>4. ASSUME NEW i \in DOMAIN calls, SetBucketPolicy(i) PROVE PoliciesCurrent'
  <2>1. calls[i].op = "SetBucketPolicy" /\ calls[i].state = "sent"
    BY <1>4 DEF SetBucketPolicy, IsSent
  <2>2. CASE IsBucket(calls[i].arg.bucket)
    <3> DEFINE ops == {"ListAllBucketPolicies"}
               data == [ok |-> TRUE]
    <3>1. ReplyOvertakes(i, Past(ops), data) /\ "ListAllBucketPolicies" \in ops
      BY <1>4, <2>2 DEF SetBucketPolicy
    <3> HIDE DEF ops, data
    <3>2. QED
      BY <1>1, <2>1, <3>1, PoliciesIfChanged DEF TypeInv
  <2>3. CASE ~IsBucket(calls[i].arg.bucket)
    <3>1. Reply(i, [ok |-> FALSE]) /\ policies' = policies
      BY <1>4, <2>3 DEF SetBucketPolicy
    <3> DEFINE data == [ok |-> FALSE]
               ops == {"SetBucketPolicy"}
    <3>2. Reply(i, data) /\ Answers(calls[i].op, calls[i].arg, data) /\ CallsOK /\ calls[i].op \in ops
      BY <1>1, <2>1, <3>1 DEF TypeInv, Answers
    <3> HIDE DEF data
    <3>3. Spared(AllOps \ ops)
      BY <2>1, <3>2, RefusesStep
    <3>4. "ListAllBucketPolicies" \in AllOps \ ops
      BY DEF AllOps, MenuOps
    <3>5. \A c : c.op = "ListAllBucketPolicies" => (c \in Of(calls') <=> c \in Of(calls))
      <4> DEFINE rest == AllOps \ ops
      <4>1. Spared(rest) /\ "ListAllBucketPolicies" \in rest
        BY <3>3, <3>4
      <4> HIDE DEF rest
      <4>2. QED
        BY <4>1, SparedOf
    <3>6. QED
      BY <3>1, <3>5, PoliciesIfBefore DEF IsPolicyAnswer
  <2>4. QED
    BY <2>2, <2>3
<1>5. ASSUME NEW i \in DOMAIN calls, PoliciesListed(i) \/ MenuDropped(i) PROVE PoliciesCurrent'
  BY <1>1, <1>5, PoliciesListedStep, MenuDroppedStep, AnsweredIfFinished, PoliciesIfBefore DEF IsPolicyAnswer
<1>6. ASSUME NEW i \in DOMAIN calls, Relists(i) PROVE PoliciesCurrent'
  <2>1. policies' = policies
    BY <1>1, <1>6, RelistStep DEF menuVars
  <2>2. CASE Touches({}, {}, {}, {}, {"DeleteBucket", "ListBuckets"})
    BY <2>1, <2>2, PoliciesSpared
  <2>3. CASE Done(i, <<PoliciesCall(home.currentBucket)>>)
    <3> DEFINE c == PoliciesCall(home.currentBucket)
    <3>1. c.state = "sent" /\ Done(i, <<c>>)
      BY <2>3 DEF PoliciesCall, Request
    <3> HIDE DEF c
    <3>2. QED
      BY <1>1, <2>1, <3>1, AnsweredIfDone, PoliciesIfBefore DEF IsPolicyAnswer
  <2>4. QED
    BY <1>1, <1>6, <2>2, <2>3, RelistStep
<1>7. ASSUME NEW i \in DOMAIN calls, BucketDealsListed(i) PROVE PoliciesCurrent'
  BY <1>1, <1>7, BucketDealsListedStep, PoliciesSpared
<1>8. QED
  BY <1>2, <1>3, <1>4, <1>5, <1>6, <1>7 DEF Minding, Tending

LEMMA PoliciesKept ==
  ASSUME Inv, PoliciesCurrent, [Next]_vars
  PROVE  PoliciesCurrent'
<1>1. CASE Resting
  BY <1>1, RestingStep, PoliciesSpared
<1>2. CASE Dealing
  BY <1>2, DealingStep, PoliciesSpared DEF DealOps, DealApis
<1>3. CASE Minding
  BY <1>3, PoliciesIfMinding
<1>4. CASE Going
  BY <1>4, GoingStep, PoliciesSpared DEF GoesToTop, ToTop, GoOps
<1>5. CASE Walking
  BY <1>5, WalkingStep, PoliciesSpared
<1>6. CASE Selecting
  BY <1>6, SelectingStep, PoliciesSpared DEF PickOps
<1>7. CASE Moving
  BY <1>7, MovingStep, PoliciesSpared DEF MoveOps
<1>8. CASE Replying
  <2>1. policies' = policies /\ "ListAllBucketPolicies" \in AllOps
    BY <1>8, ReplyingStep DEF menuVars, AllOps, MenuOps
  <2>2. CASE \A c : c.op = "ListAllBucketPolicies" => (c \in Of(calls') <=> c \in Of(calls))
    BY <2>1, <2>2, PoliciesIfBefore DEF IsPolicyAnswer
  <2>3. ASSUME NEW i \in DOMAIN calls, Answering(i), calls[i].op = "ListAllBucketPolicies"
        PROVE  PoliciesCurrent'
    <3>1. ListAllBucketPolicies(i)
      BY <2>3 DEF Answering, ListBuckets, ListObjects, PresignedGet, Told, BucketDeals, ServeMiners,
                  PostDeal, IsSent, Outstanding, DealApis
    <3>2. QED
      BY <3>1, PoliciesIfAnswered
  <2>4. QED
    BY <1>8, <2>1, <2>2, <2>3, OthersReplied
<1>9. CASE Storing
  BY <1>9, StoringStep, PoliciesSpared DEF StoreOps
<1>10. ASSUME NEW i \in DOMAIN calls, DeleteBucket(i), UNCHANGED deal PROVE PoliciesCurrent'
  <2>1. calls[i].op = "DeleteBucket" /\ calls[i].state = "sent" /\ TypeInv
    BY <1>10 DEF DeleteBucket, IsSent, Inv
  <2> DEFINE b == calls[i].arg.bucket
  <2>2. CASE IsBucket(b) /\ stored[b[1]] = {}
    <3> DEFINE ops == {"ListObjects", "ListAllBucketPolicies"}
               data == [ok |-> TRUE]
    <3>1. ReplyOvertakes(i, Past(ops), data) /\ "ListAllBucketPolicies" \in ops
      BY <1>10, <2>2 DEF DeleteBucket, Changes
    <3> HIDE DEF ops, data
    <3>2. QED
      BY <2>1, <3>1, PoliciesIfChanged DEF TypeInv
  <2>3. CASE ~(IsBucket(b) /\ stored[b[1]] = {})
    <3> DEFINE data == [ok |-> FALSE]
               ops == {"DeleteBucket"}
    <3>1. Reply(i, data) /\ policies' = policies
      BY <1>10, <2>3 DEF DeleteBucket, menuVars
    <3>2. Answers(calls[i].op, calls[i].arg, data) /\ calls[i].op \in ops
      BY <2>1 DEF Answers
    <3> HIDE DEF data
    <3>3. Spared(AllOps \ ops)
      BY <2>1, <3>1, <3>2, RefusesStep DEF TypeInv
    <3> DEFINE rest == AllOps \ ops
    <3>4. Spared(rest) /\ "ListAllBucketPolicies" \in rest
      BY <3>3 DEF AllOps, MenuOps
    <3> HIDE DEF rest
    <3>5. \A c : c.op = "ListAllBucketPolicies" => (c \in Of(calls') <=> c \in Of(calls))
      BY <3>4, SparedOf
    <3>6. QED
      BY <3>1, <3>5, PoliciesIfBefore DEF IsPolicyAnswer
  <2>4. QED
    BY <2>2, <2>3
<1>11. CASE Sharing
  BY <1>11, SharingStep, PoliciesSpared
<1>12. CASE Opening
  BY <1>12, OpeningStep, PoliciesSpared
<1>13. CASE Uploading
  BY <1>13, UploadingStep, PoliciesSpared
<1>14. ASSUME NEW i \in DOMAIN calls, Handling(i), Aside PROVE PoliciesCurrent'
  <2> USE <1>14
  <2>0. TypeInv /\ policies' = policies
    BY HandlingStep DEF Inv
  <2>1. CASE ObjectsListed(i)
    BY <2>0, <2>1, ObjectsListedStep, PoliciesSpared
  <2>2. CASE ObjectRemoved(i)
    BY <2>0, <2>2, ObjectRemovedStep, PoliciesSpared
  <2>3. CASE ProgressFunction(i)
    BY <2>0, <2>3, ProgressStep, PoliciesSpared
  <2>4. CASE Uploaded(i)
    BY <2>0, <2>4, UploadedStep, PoliciesSpared
  <2>5. CASE LinkMade(i)
    BY <2>0, <2>5, LinkMadeStep, PoliciesSpared
  <2>6. CASE DealsListed(i)
    BY <2>0, <2>6, DealsListedStep, PoliciesSpared
  <2>7. CASE Dropped(i)
    BY <2>0, <2>7, DroppedStep, PoliciesSpared DEF PageOps
  <2>8. QED
    BY <2>1, <2>2, <2>3, <2>4, <2>5, <2>6, <2>7 DEF Handling
<1>15. CASE UNCHANGED vars
  BY <1>15, StutterStep, PoliciesSpared
<1>16. QED
  BY <1>1, <1>2, <1>3, <1>4, <1>5, <1>6, <1>7, <1>8, <1>9, <1>10, <1>11, <1>12, <1>13, <1>14, <1>15,
     EveryStep DEF Steps, Deleting, Inv

----------------------------------------------------------------------------
(* The dialog of policies.                                                 *)

PolicyInv ==
    "policy" \in open /\ shown.settled =>
        /\ \A c \in Newest(calls, "ListAllBucketPolicies") : c.arg.bucket = slide.titlePolicy
        /\ (None("ListAllBucketPolicies") /\ None("SetBucketPolicy") /\ slide.fresh) =>
               slide.bucketPolicies = PoliciesOf(slide.titlePolicy)

\* The dialog, if it is there, was there before, with the same title.
PolicyStays == /\ "policy" \in open' /\ shown'.settled => "policy" \in open /\ shown.settled
               /\ slide'.titlePolicy = slide.titlePolicy

LEMMA PolicyCarried ==
  ASSUME PolicyInv, PolicyStays,
         \A c \in Newest(calls', "ListAllBucketPolicies") :
             \E d \in Newest(calls, "ListAllBucketPolicies") : c.arg = d.arg,
         ("policy" \in open /\ shown.settled
            /\ None("ListAllBucketPolicies")' /\ None("SetBucketPolicy")' /\ slide'.fresh) =>
             /\ None("ListAllBucketPolicies") /\ None("SetBucketPolicy")
             /\ slide.fresh /\ slide'.bucketPolicies = slide.bucketPolicies
             /\ policies'[slide.titlePolicy[1]] = policies[slide.titlePolicy[1]]
  PROVE  PolicyInv'
<1>1. SUFFICES ASSUME "policy" \in open', shown'.settled
               PROVE  /\ \A c \in Newest(calls', "ListAllBucketPolicies") :
                             c.arg.bucket = slide'.titlePolicy
                      /\ (None("ListAllBucketPolicies")' /\ None("SetBucketPolicy")' /\ slide'.fresh) =>
                             slide'.bucketPolicies = PoliciesOf(slide.titlePolicy)'
  BY DEF PolicyInv, Newest, LastOf
<1>2. "policy" \in open /\ shown.settled /\ slide'.titlePolicy = slide.titlePolicy
  BY <1>1 DEF PolicyStays
<1>3. \A c \in Newest(calls', "ListAllBucketPolicies") : c.arg.bucket = slide'.titlePolicy
  BY <1>2 DEF PolicyInv
<1>4. ASSUME None("ListAllBucketPolicies")', None("SetBucketPolicy")', slide'.fresh
      PROVE  slide'.bucketPolicies = PoliciesOf(slide.titlePolicy)'
  <2>1. slide'.bucketPolicies = PoliciesOf(slide.titlePolicy)
    BY <1>2, <1>4 DEF PolicyInv
  <2>2. policies'[slide.titlePolicy[1]] = policies[slide.titlePolicy[1]]
    BY <1>2, <1>4
  <2>3. PoliciesOf(slide.titlePolicy)' = PoliciesOf(slide.titlePolicy)
    BY <1>2, <2>2 DEF PoliciesOf
  <2>4. QED
    BY <2>1, <2>3
<1>5. QED
  BY <1>3, <1>4

LEMMA PolicySpared ==
  ASSUME TypeInv, TypeInv', PolicyInv, PolicyStays, slide' = slide, policies' = policies,
         NEW H, NEW F, NEW S, NEW N, NEW ops, Touches(H, F, S, N, ops),
         "ListAllBucketPolicies" \notin ops, "SetBucketPolicy" \notin ops
  PROVE  PolicyInv'
<1>1. "ListAllBucketPolicies" \in AllOps /\ "SetBucketPolicy" \in AllOps
  BY DEF AllOps, MenuOps
<1>2. /\ None("ListAllBucketPolicies")' <=> None("ListAllBucketPolicies")
      /\ Newest(calls', "ListAllBucketPolicies") \subseteq Newest(calls, "ListAllBucketPolicies")
  BY <1>1, OpSpared
<1>3. None("SetBucketPolicy")' <=> None("SetBucketPolicy")
  BY <1>1, OpSpared
<1>4. QED
  BY <1>2, <1>3, PolicyCarried

\* The menu or a dialog at the side asks, or closes.
LEMMA AsksKeeps ==
  ASSUME TypeInv, MenuAsks
  PROVE  \A op : None(op)' => None(op)
<1>1. \/ calls' = calls
      \/ \E c : UserSends(<<c>>)
  BY DEF MenuAsks, CloseMenu, DialogFun, DialogDeleteFun, PolicyDialog, AddPolicies, RemovePolicies
<1>2. ASSUME NEW c, UserSends(<<c>>) PROVE Of(calls) \subseteq Of(calls')
  <2> DEFINE cs == <<c>>
  <2>1. Sequence(cs) /\ Sequence(calls) /\ calls' = calls \o cs
    BY <1>2, Single DEF UserSends, TypeInv, CallsOK
  <2> HIDE DEF cs
  <2>2. QED
    BY <2>1, Joined
<1>3. Of(calls) \subseteq Of(calls')
  BY <1>1, <1>2
<1>4. QED
  BY <1>3 DEF None

LEMMA PolicyIfAsked ==
  ASSUME Inv, PolicyInv, MenuAsks, UNCHANGED deal
  PROVE  PolicyInv'
<1>1. TypeInv /\ TypeInv' /\ UNCHANGED <<shown, policies>>
  BY MenuAsksStep DEF Inv
<1>2. CASE DialogFun
  <2> DEFINE c == PoliciesCall(<<slide.on>>)
             cs == <<c>>
  <2>1. UserSends(cs) /\ Sequence(cs) /\ Of(cs) = {c}
    BY <1>2, Single DEF DialogFun
  <2>2. c.op = "ListAllBucketPolicies" /\ c.arg.bucket = <<slide.on>>
    BY DEF PoliciesCall, Request
  <2>3. slide'.titlePolicy = <<slide.on>>
    BY <1>1, <1>2 DEF DialogFun, TypeInv, IsSlide, SlideFields
  <2> HIDE DEF c, cs
  <2>4. \E d \in Of(cs) : d.op = "ListAllBucketPolicies"
    BY <2>1, <2>2
  <2>5. /\ ~None("ListAllBucketPolicies")'
        /\ \A d \in Newest(calls', "ListAllBucketPolicies") : d \in Of(cs)
    BY <1>1, <2>1, <2>4, OpAsked
  <2>6. \A d \in Newest(calls', "ListAllBucketPolicies") : d.arg.bucket = slide'.titlePolicy
    BY <2>1, <2>2, <2>3, <2>5
  <2>7. QED
    BY <2>5, <2>6 DEF PolicyInv, Newest, LastOf
<1>3. CASE ~DialogFun
  <2> DEFINE ops == {"SetBucketPolicy", "DeleteBucket"}
             rest == AllOps \ ops
             op == "ListAllBucketPolicies"
  <2>1. /\ SideOf(open') \subseteq SideOf(open) /\ slide' = slide
        /\ Spared(rest) /\ op \in rest
    BY <1>1, <1>3, MenuAsksStep DEF AllOps, MenuOps
  <2> HIDE DEF ops, rest, op
  <2>2. Newest(calls', op) \subseteq Newest(calls, op)
    BY <1>1, <2>1, SparedNewest DEF TypeInv, CallsOK
  <2>3. \A o : None(o)' => None(o)
    BY <1>1, AsksKeeps
  <2>4. PolicyStays
    BY <1>1, <2>1 DEF PolicyStays, SideOf
  <2>5. QED
    BY <1>1, <2>1, <2>2, <2>3, <2>4, PolicyCarried DEF op
<1>4. QED
  BY <1>2, <1>3

LEMMA PolicyIfSet ==
  ASSUME Inv, PolicyInv, NEW i \in DOMAIN calls, SetBucketPolicy(i), UNCHANGED deal
  PROVE  PolicyInv'
<1>1. calls[i].op = "SetBucketPolicy" /\ calls[i].state = "sent" /\ TypeInv
      /\ UNCHANGED <<open, shown, slide>>
  BY DEF SetBucketPolicy, IsSent, Inv, Served, pageVars
<1>2. \E js : \E data : i \notin js /\ ReplyOvertakes(i, js, data)
  <2>1. CASE IsBucket(calls[i].arg.bucket)
    <3>1. ReplyOvertakes(i, Past({"ListAllBucketPolicies"}), [ok |-> TRUE])
      BY <2>1 DEF SetBucketPolicy
    <3>2. i \notin Past({"ListAllBucketPolicies"})
      BY <1>1 DEF Past
    <3>3. QED
      BY <3>1, <3>2
  <2>2. CASE ~IsBucket(calls[i].arg.bucket)
    <3>1. Reply(i, [ok |-> FALSE])
      BY <2>2 DEF SetBucketPolicy
    <3>2. ReplyOvertakes(i, {}, [ok |-> FALSE])
      BY <1>1, <3>1, CallsAreRequests, ReplyOvertakesNone DEF TypeInv
    <3>3. QED
      BY <3>2
  <2>3. QED
    BY <2>1, <2>2
<1>3. PICK js : \E data : i \notin js /\ ReplyOvertakes(i, js, data)
  BY <1>2
<1>4. PICK data : i \notin js /\ ReplyOvertakes(i, js, data)
  BY <1>3
<1>5. ~None("SetBucketPolicy")'
  BY <1>1, <1>4, OpAnswered
<1>6. \A c \in Newest(calls', "ListAllBucketPolicies") :
          \E d \in Newest(calls, "ListAllBucketPolicies") : c.arg = d.arg
  BY <1>1, <1>4, OpAnswered
<1>7. QED
  BY <1>1, <1>5, <1>6, PolicyCarried DEF PolicyStays

LEMMA PolicyIfListed ==
  ASSUME Inv, PolicyInv, PoliciesCurrent, NEW i \in DOMAIN calls, PoliciesListed(i), UNCHANGED deal
  PROVE  PolicyInv'
<1> DEFINE c == calls[i]
           op == "ListAllBucketPolicies"
<1>1. /\ TypeInv /\ UNCHANGED <<open, shown, policies>> /\ slide'.titlePolicy = slide.titlePolicy
      /\ c.op = op /\ c.state = "answered" /\ c.reply.ok /\ Overtakes(i, Earlier(i), <<>>)
      /\ slide'.bucketPolicies = c.reply.policies /\ (slide'.fresh => ~c.late)
  BY PoliciesListedStep DEF Inv, pageVars, Sets, TypeInv, IsSlide, SlideFields
<1>2. /\ Newest(calls', op) \subseteq Newest(calls, op)
      /\ None(op)' /\ ~c.late => c \in Newest(calls, op)
  BY <1>1, OpFinished
<1>3. SUFFICES ASSUME "policy" \in open, shown.settled
               PROVE  /\ \A d \in Newest(calls', op) : d.arg.bucket = slide'.titlePolicy
                      /\ None(op)' /\ slide'.fresh =>
                             slide'.bucketPolicies = PoliciesOf(slide.titlePolicy)'
  BY <1>1 DEF PolicyInv, Newest, LastOf
<1>4. \A d \in Newest(calls, op) : d.arg.bucket = slide.titlePolicy
  BY <1>3 DEF PolicyInv
<1>5. ASSUME None(op)', slide'.fresh
      PROVE  slide'.bucketPolicies = PoliciesOf(slide.titlePolicy)'
  <2>1. ~c.late /\ c.arg.bucket = slide.titlePolicy
    BY <1>1, <1>2, <1>4, <1>5
  <2>2. IsPolicyAnswer(c) /\ c \in Of(calls)
    BY <1>1, <2>1 DEF IsPolicyAnswer, Of
  <2>3. slide'.bucketPolicies = PoliciesOf(slide.titlePolicy)
    BY <1>1, <2>1, <2>2 DEF PoliciesCurrent
  <2>4. PoliciesOf(slide.titlePolicy)' = PoliciesOf(slide.titlePolicy)
    BY <1>1 DEF PoliciesOf
  <2>5. QED
    BY <2>3, <2>4
<1>6. QED
  BY <1>1, <1>2, <1>4, <1>5

LEMMA PolicyIfRelisted ==
  ASSUME Inv, SideInv, PolicyInv, NEW i \in DOMAIN calls, Relists(i), UNCHANGED deal
  PROVE  PolicyInv'
<1>1. TypeInv /\ TypeInv' /\ UNCHANGED <<open, shown, slide, policies>>
  BY RelistStep DEF Inv, pageVars, menuVars
<1>2. CASE Touches({}, {}, {}, {}, {"DeleteBucket", "ListBuckets"})
  BY <1>1, <1>2, PolicySpared DEF PolicyStays
<1>3. CASE Done(i, <<PoliciesCall(home.currentBucket)>>)
  <2> DEFINE c == PoliciesCall(home.currentBucket)
             cs == <<c>>
             op == "ListAllBucketPolicies"
  <2>1. Done(i, cs) /\ Sequence(cs) /\ Of(cs) = {c}
    BY <1>3, Single
  <2>2. c.op = op /\ c.arg.bucket = home.currentBucket
    BY DEF PoliciesCall, Request
  <2> HIDE DEF c, cs
  <2>3. \E d \in Of(cs) : d.op = op
    BY <2>1, <2>2
  <2>4. ~None(op)' /\ \A d \in Newest(calls', op) : d \in Of(cs)
    BY <1>1, <2>1, <2>3, OpAskedThen
  <2>5. "policy" \in open /\ shown.settled => home.currentBucket = slide.titlePolicy
    <3>1. "policy" \in open => SideOf(open) # {}
      BY DEF SideOf
    <3>2. QED
      BY <3>1 DEF SideInv
  <2>6. QED
    BY <1>1, <2>1, <2>2, <2>4, <2>5 DEF PolicyInv, Newest, LastOf
<1>4. QED
  BY <1>2, <1>3, RelistStep DEF Inv

LEMMA PolicyIfDropped ==
  ASSUME Inv, PolicyInv, NEW i \in DOMAIN calls, MenuDropped(i), UNCHANGED deal
  PROVE  PolicyInv'
<1> DEFINE c == calls[i]
           op == "ListAllBucketPolicies"
<1>1. /\ TypeInv /\ TypeInv' /\ UNCHANGED <<open, shown, policies>>
      /\ slide'.titlePolicy = slide.titlePolicy /\ slide'.bucketPolicies = slide.bucketPolicies
      /\ c.op \in MenuOps /\ Overtakes(i, Earlier(i), <<>>) /\ Touches({}, {}, {}, {}, {c.op})
      /\ slide'.fresh => slide.fresh /\ c.op = "BucketDeals"
  BY MenuDroppedStep DEF Inv, pageVars, Sets, TypeInv, IsSlide, SlideFields
<1>2. op \in AllOps /\ "SetBucketPolicy" \in AllOps
  BY DEF AllOps, MenuOps
<1>3. Newest(calls', op) \subseteq Newest(calls, op)
  <2>1. CASE c.op = op
    BY <1>1, <2>1, OpFinished
  <2>2. CASE c.op # op
    <3> DEFINE ops == {c.op}
    <3>1. Touches({}, {}, {}, {}, ops) /\ op \notin ops
      BY <1>1, <2>2
    <3> HIDE DEF ops
    <3>2. QED
      BY <1>1, <1>2, <3>1, OpSpared
  <2>3. QED
    BY <2>1, <2>2
<1>4. c.op = "BucketDeals" => /\ None(op)' <=> None(op)
                              /\ None("SetBucketPolicy")' <=> None("SetBucketPolicy")
  <2>1. SUFFICES ASSUME c.op = "BucketDeals"
                 PROVE  /\ None(op)' <=> None(op)
                        /\ None("SetBucketPolicy")' <=> None("SetBucketPolicy")
    OBVIOUS
  <2> DEFINE ops == {"BucketDeals"}
  <2>2. Touches({}, {}, {}, {}, ops) /\ op \notin ops /\ "SetBucketPolicy" \notin ops
    BY <1>1, <2>1
  <2> HIDE DEF ops
  <2>3. QED
    BY <1>1, <1>2, <2>2, OpSpared
<1>5. QED
  BY <1>1, <1>3, <1>4, PolicyCarried DEF PolicyStays

LEMMA PolicyIfDeleted ==
  ASSUME Inv, SideInv, PolicyInv, NEW i \in DOMAIN calls, DeleteBucket(i), UNCHANGED deal
  PROVE  PolicyInv'
<1>1. /\ TypeInv /\ UNCHANGED <<open, shown>> /\ Sets(slide, slide', {"fresh"})
      /\ calls[i].state = "sent"
  BY DeleteStep DEF Inv, DeleteBucket, IsSent
<1>2. slide'.titlePolicy = slide.titlePolicy /\ slide'.bucketPolicies = slide.bucketPolicies
  BY <1>1 DEF Sets, TypeInv, IsSlide, SlideFields
<1>3. \E js : \E data : i \notin js /\ ReplyOvertakes(i, js, data)
  <2>1. CASE Reply(i, [ok |-> FALSE])
    <3>1. ReplyOvertakes(i, {}, [ok |-> FALSE])
      BY <1>1, <2>1, CallsAreRequests, ReplyOvertakesNone DEF TypeInv
    <3>2. QED
      BY <3>1
  <2>2. CASE Changes(i, [ok |-> TRUE], stored', {"ListObjects", "ListAllBucketPolicies"})
    <3> DEFINE js == Past({"ListObjects", "ListAllBucketPolicies"})
    <3>1. ReplyOvertakes(i, js, [ok |-> TRUE]) /\ i \notin js
      BY <1>1, <2>2 DEF Changes, Past
    <3> HIDE DEF js
    <3>2. QED
      BY <3>1
  <2>3. QED
    BY <1>1, <2>1, <2>2, DeleteStep
<1>4. PICK js : \E data : i \notin js /\ ReplyOvertakes(i, js, data)
  BY <1>3
<1>5. PICK data : i \notin js /\ ReplyOvertakes(i, js, data)
  BY <1>4
<1>6. /\ \A op : None(op)' => None(op)
      /\ \A c \in Newest(calls', "ListAllBucketPolicies") :
             \E d \in Newest(calls, "ListAllBucketPolicies") : c.arg = d.arg
  BY <1>1, <1>5, OpAnswered
<1>7. ASSUME "policy" \in open, shown.settled, slide'.fresh
      PROVE  slide.fresh /\ policies'[slide.titlePolicy[1]] = policies[slide.titlePolicy[1]]
  <2>1. SideOf(open) # {}
    BY <1>7 DEF SideOf
  <2>2. slide.on \in Buckets /\ slide.titlePolicy = <<slide.on>>
    BY <1>7, <2>1 DEF SideInv
  <2>3. slide.titlePolicy[1] = slide.on
    BY <2>2
  <2>4. CASE UNCHANGED <<stored, menuVars>>
    BY <1>7, <2>4 DEF menuVars
  <2>5. ASSUME NEW b, Deleted(b)
        PROVE  slide.fresh /\ policies'[slide.on] = policies[slide.on]
    <3>1. slide.fresh /\ slide.on # b /\ policies' = [policies EXCEPT ![b] = {}]
      BY <1>7, <2>2, <2>5 DEF Deleted
    <3>2. QED
      BY <2>2, <3>1 DEF TypeInv
  <2>6. QED
    BY <1>1, <2>3, <2>4, <2>5, DeleteStep
<1>8. QED
  BY <1>1, <1>2, <1>6, <1>7, PolicyCarried DEF PolicyStays

LEMMA PolicyIfGoing ==
  ASSUME Inv, Going
  PROVE  PolicyInv'
<1>1. "policy" \notin open'
  <2>1. ASSUME NEW b, GetListBucket(b) PROVE "policy" \notin open'
    BY <2>1 DEF GetListBucket
  <2>2. ASSUME NEW n, MenuGoes(n), UNCHANGED deal PROVE "policy" \notin open'
    <3>1. open' \in {{"menu"}, {"homeshare"}, {"retrieval"}}
      BY <2>2, MenuGoesStep DEF Inv
    <3>2. QED
      BY <3>1
  <2>3. QED
    BY <2>1, <2>2 DEF Going
<1>2. QED
  BY <1>1 DEF PolicyInv

LEMMA SettledStays ==
  ASSUME TypeInv, NEW H, NEW F, NEW S, NEW N, NEW ops, Touches(H, F, S, N, ops), "settled" \notin N,
         SideOf(open') \subseteq SideOf(open), slide' = slide
  PROVE  PolicyStays
<1>1. shown'.settled = shown.settled
  BY DEF Touches, Sets, TypeInv, IsShown, ShownFields
<1>2. QED
  BY <1>1 DEF PolicyStays, SideOf

LEMMA PolicyKept ==
  ASSUME Inv, SideInv, PoliciesCurrent, PolicyInv, [Next]_vars
  PROVE  PolicyInv'
<1>1. TypeInv /\ TypeInv'
  BY InvKept DEF Inv
<1>2. CASE Resting
  BY <1>1, <1>2, RestingStep, PolicySpared, SettledStays
<1>3. CASE Dealing
  BY <1>1, <1>3, DealingStep, PolicySpared, SettledStays DEF DealOps, DealApis
<1>4. CASE Minding
  <2>1. ASSUME NEW i \in DOMAIN calls, BucketDealsListed(i), UNCHANGED deal PROVE PolicyInv'
    <3>1. /\ UNCHANGED <<open, shown, policies>> /\ Touches({}, {}, {}, {}, {"BucketDeals"})
          /\ slide'.titlePolicy = slide.titlePolicy /\ slide'.bucketPolicies = slide.bucketPolicies
          /\ slide'.fresh = slide.fresh
      BY <1>1, <2>1, BucketDealsListedStep DEF pageVars, Sets, TypeInv, IsSlide, SlideFields
    <3> DEFINE ops == {"BucketDeals"}
    <3>2. /\ Touches({}, {}, {}, {}, ops)
          /\ \A op \in {"ListAllBucketPolicies", "SetBucketPolicy"} : op \in AllOps /\ op \notin ops
      BY <3>1 DEF AllOps, MenuOps
    <3> HIDE DEF ops
    <3>3. \A op \in {"ListAllBucketPolicies", "SetBucketPolicy"} :
             (None(op)' <=> None(op)) /\ Newest(calls', op) \subseteq Newest(calls, op)
      BY <1>1, <3>2, OpSpared
    <3>4. QED
      BY <3>1, <3>3, PolicyCarried DEF PolicyStays
  <2>2. QED
    BY <1>4, <2>1, PolicyIfAsked, PolicyIfSet, PolicyIfListed, PolicyIfRelisted, PolicyIfDropped
    DEF Minding, Tending
<1>5. CASE Going
  BY <1>5, PolicyIfGoing
<1>6. CASE Walking
  BY <1>1, <1>6, WalkingStep, PolicySpared, SettledStays
<1>7. CASE Selecting
  BY <1>1, <1>7, SelectingStep, PolicySpared, SettledStays DEF PickOps
<1>8. CASE Moving
  <2>1. PolicyStays
    BY <1>8, MovingStep DEF Unsettles, PolicyStays, SideOf
  <2>2. QED
    BY <1>1, <1>8, <2>1, MovingStep, PolicySpared DEF MoveOps
<1>9. CASE Replying
  <2>1. UNCHANGED <<open, shown, slide, policies>>
    BY <1>9, ReplyingStep DEF pageVars, menuVars
  <2>2. /\ \A op : None(op)' => None(op)
        /\ \A c \in Newest(calls', "ListAllBucketPolicies") :
               \E d \in Newest(calls, "ListAllBucketPolicies") : c.arg = d.arg
    BY <1>9, OpReplying
  <2>3. QED
    BY <2>1, <2>2, PolicyCarried DEF PolicyStays
<1>10. CASE Storing
  BY <1>1, <1>10, StoringStep, PolicySpared, SettledStays DEF StoreOps
<1>11. CASE Deleting
  BY <1>11, PolicyIfDeleted DEF Deleting
<1>12. CASE Sharing
  BY <1>1, <1>12, SharingStep, PolicySpared, SettledStays
<1>13. CASE Opening
  BY <1>1, <1>13, OpeningStep, PolicySpared, SettledStays
<1>14. CASE Uploading
  BY <1>1, <1>14, UploadingStep, PolicySpared, SettledStays
<1>15. ASSUME NEW i \in DOMAIN calls, Handling(i), Aside PROVE PolicyInv'
  <2> USE <1>1, <1>15
  <2>0. slide' = slide /\ policies' = policies /\ SideOf(open') \subseteq SideOf(open)
    BY HandlingStep
  <2>1. CASE ObjectsListed(i)
    BY <2>0, <2>1, ObjectsListedStep, PolicySpared, SettledStays
  <2>2. CASE ObjectRemoved(i)
    BY <2>0, <2>2, ObjectRemovedStep, PolicySpared, SettledStays
  <2>3. CASE ProgressFunction(i)
    BY <2>0, <2>3, ProgressStep, PolicySpared, SettledStays
  <2>4. CASE Uploaded(i)
    BY <2>0, <2>4, UploadedStep, PolicySpared, SettledStays
  <2>5. CASE LinkMade(i)
    BY <2>0, <2>5, LinkMadeStep, PolicySpared, SettledStays
  <2>6. CASE DealsListed(i)
    BY <2>0, <2>6, DealsListedStep, PolicySpared, SettledStays
  <2>7. CASE Dropped(i)
    BY <2>0, <2>7, DroppedStep, PolicySpared, SettledStays DEF PageOps
  <2>8. QED
    BY <2>1, <2>2, <2>3, <2>4, <2>5, <2>6, <2>7 DEF Handling
<1>16. CASE UNCHANGED vars
  BY <1>1, <1>16, StutterStep, PolicySpared, SettledStays
<1>17. QED
  BY <1>1, <1>2, <1>3, <1>4, <1>5, <1>6, <1>7, <1>8, <1>9, <1>10, <1>11, <1>12, <1>13, <1>14, <1>15,
     <1>16, EveryStep DEF Steps

LEMMA SideBegins ==
  ASSUME Init
  PROVE  SideInv
<1>1. Begun
  BY Begins
<1>2. "policy" \notin open /\ \A d, e \in SideOf(open) : d = e
  BY <1>1 DEF Begun, SideOf
<1>3. QED
  BY <1>1, <1>2 DEF Begun, SideInv

\* The dialog of policies shows those of its title (Slide.vue).
THEOREM PoliciesFollow == Spec => []PoliciesOfTitle
<1> DEFINE I == Inv /\ SideInv /\ PoliciesCurrent /\ PolicyInv
<1>1. Init => I
  <2>1. ASSUME Init PROVE I
    <3>1. Inv /\ Begun
      BY <2>1, Begins
    <3>2. "policy" \notin open /\ \A c \in Of(calls) : c.op # "ListAllBucketPolicies"
      BY <3>1 DEF Begun, FirstOps
    <3>3. QED
      BY <2>1, <3>1, <3>2, SideBegins DEF PoliciesCurrent, IsPolicyAnswer, PolicyInv
  <2>2. QED
    BY <2>1
<1>2. I /\ [Next]_vars => I'
  BY InvKept, SideKept, PoliciesKept, PolicyKept
<1>3. I => PoliciesOfTitle
  <2>1. ASSUME I, "policy" \in open, shown.settled
        PROVE  /\ home.currentBucket = slide.titlePolicy
               /\ (slide.fresh /\ Outstanding({"ListAllBucketPolicies", "SetBucketPolicy"}) = {}) =>
                      slide.bucketPolicies = PoliciesOf(slide.titlePolicy)
    <3>1. SideOf(open) # {}
      BY <2>1 DEF SideOf
    <3>2. home.currentBucket = slide.titlePolicy
      BY <2>1, <3>1 DEF SideInv
    <3> DEFINE ops == {"ListAllBucketPolicies", "SetBucketPolicy"}
    <3>3. Outstanding(ops) = {} <=> \A op \in ops : None(op)
      BY NoneIsNone
    <3>4. QED
      BY <2>1, <3>2, <3>3 DEF PolicyInv
  <2>2. QED
    BY <2>1 DEF PoliciesOfTitle
<1>4. QED
  BY <1>1, <1>2, <1>3, PTL DEF Spec
===============================================================================
