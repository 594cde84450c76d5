----------------------------- MODULE PlansProof -----------------------------
(***************************************************************************)
(* Invariants of the account pages: which requests may be under way on a   *)
(* page and what they carry (CallsOK), the session (SessionInv) and the    *)
(* backup plans (PlansInv).  The lemmas say which steps keep each of them: *)
(* the steps of its own pages, those of the others, and every visit.       *)
(* AccountProof has the jobs, and puts them together.                      *)
(***************************************************************************)
EXTENDS Account, RequestsProof

----------------------------------------------------------------------------
(* The requests under way.                                                 *)

SessionCallOps == SessionOps \cup {"SetAuth"}
PlanOps == {"ListPlans", "AddPlan", "UpdatePlan"}
JobOps == ListOps \cup CountOps \cup {"AddRebuild"}

\* What Call makes.
Shape(c) == c = [op |-> c.op, arg |-> c.arg, auth |-> c.auth, state |-> c.state,
                 reply |-> c.reply, live |-> c.live]
IsCall(c) == Shape(c) /\ c.live \in BOOLEAN

\* The page that sends a request, if it is live still.
LiveOn(op, p) ==
    \/ op = "Login" /\ p = "login"
    \/ op = "SetAuth" /\ p = "fs3"
    \/ op \in {"ListPlans", "UpdatePlan"} /\ p = "myPlans"
    \/ op = "AddPlan" /\ p = "backupPlans"
    \/ op \in ListOps \cup {"AddRebuild"} /\ p \in {"myJobs", "details"}
    \/ op \in CountOps /\ p = "dashboard"

\* What there may be without the page that sent it, and while the page is p.
Orphaned(c) == c.op = "Login" \/ (c.op \in Writes /\ c.state = "sent")
MayBe(c, p) ==
    /\ IsCall(c)
    /\ \/ c.op \in {"GetDiscoveryDoc", "ListBuckets"}
       \/ c.live /\ LiveOn(c.op, p)
       \/ ~c.live /\ Orphaned(c)

CallsOK == Sequence(calls) /\ \A c \in Of(calls) : MayBe(c, page)

\* Its page has been left, or has given it up.
Forgotten(c) == [c EXCEPT !.live = FALSE]

LEMMA ForgottenCall ==
  ASSUME NEW c, IsCall(c)
  PROVE  LET d == Forgotten(c) IN
           /\ IsCall(d) /\ d.op = c.op /\ d.arg = c.arg /\ d.auth = c.auth
           /\ d.state = c.state /\ d.reply = c.reply /\ ~d.live
<1> DEFINE d == Forgotten(c)
<1>1. Shape(c)
  BY DEF IsCall
<1>2. d = [c EXCEPT !.live = FALSE]
  BY DEF Forgotten
<1> HIDE DEF d
<1>3. /\ Shape(d) /\ d.op = c.op /\ d.arg = c.arg /\ d.auth = c.auth
      /\ d.state = c.state /\ d.reply = c.reply /\ d.live = FALSE
  BY <1>1, <1>2 DEF Shape
<1>4. QED
  BY <1>3 DEF d, IsCall

LEMMA AnsweredCall ==
  ASSUME NEW c, IsCall(c), NEW data
  PROVE  LET d == WithAnswer(c, data) IN
           /\ IsCall(d) /\ d.op = c.op /\ d.arg = c.arg /\ d.auth = c.auth
           /\ d.state = "answered" /\ d.reply = data /\ d.live = c.live
<1> DEFINE d == WithAnswer(c, data)
<1>1. Shape(c)
  BY DEF IsCall
<1>2. d = [c EXCEPT !.state = "answered", !.reply = data]
  BY DEF WithAnswer
<1> HIDE DEF d
<1>3. /\ Shape(d) /\ d.op = c.op /\ d.arg = c.arg /\ d.auth = c.auth
      /\ d.state = "answered" /\ d.reply = data /\ d.live = c.live
  BY <1>1, <1>2 DEF Shape
<1>4. QED
  BY <1>3 DEF d, IsCall

LEMMA NewCall ==
  ASSUME NEW op, NEW arg
  PROVE  LET d == Call(op, arg) IN
           /\ IsCall(d) /\ d.op = op /\ d.arg = arg /\ d.auth = token
           /\ d.state = "sent" /\ d.reply = Nothing /\ d.live
BY DEF Call, IsCall, Shape

----------------------------------------------------------------------------
(* Leaving a page.                                                         *)

LEMMA Unmounted ==
  ASSUME NEW cs, Sequence(cs), \A c \in Of(cs) : IsCall(c)
  PROVE  /\ Sequence(Unmount(cs))
         /\ \A d \in Of(Unmount(cs)) :
              \/ d \in Of(cs) /\ d.op \in {"GetDiscoveryDoc", "ListBuckets"}
              \/ \E c \in Of(cs) : d = Forgotten(c) /\ Orphaned(c)
<1> DEFINE Kept(c) == c.op \in SessionOps \/ (c.op \in Writes /\ c.state = "sent")
           Orphan(c) == [c EXCEPT !.live = @ /\ c.op \in SessionOps \ {"Login"}]
           kept == Only(cs, {i \in DOMAIN cs : Kept(cs[i])})
           u == [i \in DOMAIN kept |-> Orphan(kept[i])]
<1>1. Unmount(cs) = u
  BY DEF Unmount
<1>2. Sequence(kept) /\ \A c \in Of(kept) : c \in Of(cs) /\ Kept(c)
  <2> DEFINE is == {i \in DOMAIN cs : Kept(cs[i])}
  <2>1. \A i \in DOMAIN cs : i \in is => cs[i] \in Of(cs) /\ Kept(cs[i])
    BY DEF Of
  <2> HIDE DEF is, Kept
  <2>2. Sequence(Only(cs, is)) /\ \A c \in Of(Only(cs, is)) : \E i \in DOMAIN cs : i \in is /\ c = cs[i]
    BY OnlyOf
  <2>3. QED
    BY <2>1, <2>2 DEF is
<1> HIDE DEF kept
<1>3. DOMAIN kept = 1..Len(kept) /\ Len(kept) \in Nat
  BY <1>2, Indices
<1>4. Sequence(u)
  <2>1. u = [i \in 1..Len(kept) |-> u[i]]
    BY <1>3
  <2> HIDE DEF u
  <2>2. QED
    BY <1>3, <2>1, Numbered
<1>5. ASSUME NEW d \in Of(u)
      PROVE  \/ d \in Of(cs) /\ d.op \in {"GetDiscoveryDoc", "ListBuckets"}
             \/ \E c \in Of(cs) : d = Forgotten(c) /\ Orphaned(c)
  <2>1. PICK i \in DOMAIN kept : d = Orphan(kept[i])
    BY <1>5 DEF Of
  <2> DEFINE c == kept[i]
  <2>2. c \in Of(cs) /\ Kept(c) /\ IsCall(c) /\ d = Orphan(c)
    BY <1>2, <2>1 DEF Of
  <2> HIDE DEF c
  <2>3. CASE c.op \in {"GetDiscoveryDoc", "ListBuckets"}
    <3>1. (c.live /\ c.op \in SessionOps \ {"Login"}) = c.live
      BY <2>2, <2>3 DEF IsCall, SessionOps
    <3>2. d = c
      BY <2>2, <3>1 DEF IsCall, Shape
    <3>3. QED
      BY <2>2, <2>3, <3>2
  <2>4. CASE c.op \notin {"GetDiscoveryDoc", "ListBuckets"}
    <3>1. (c.live /\ c.op \in SessionOps \ {"Login"}) = FALSE
      BY <2>4 DEF SessionOps
    <3>2. d = Forgotten(c)
      BY <2>2, <3>1 DEF Forgotten
    <3>3. Orphaned(c)
      BY <2>2, <2>4 DEF SessionOps, Orphaned
    <3>4. QED
      BY <2>2, <3>2, <3>3
  <2>5. QED
    BY <2>3, <2>4
<1>6. QED
  BY <1>1, <1>4, <1>5

HomeCall == [Call("ListBuckets", Nothing) EXCEPT !.auth = token']

LEMMA HomesCall ==
  LET d == HomeCall IN
    /\ IsCall(d) /\ d.op = "ListBuckets" /\ d.auth = token'
    /\ d.state = "sent" /\ d.reply = Nothing /\ d.live
<1> DEFINE d == HomeCall
           t == token'
           c == Call("ListBuckets", Nothing)
<1>1. d = [c EXCEPT !.auth = t]
  BY DEF HomeCall
<1>2. Shape(c) /\ c.op = "ListBuckets" /\ c.state = "sent" /\ c.reply = Nothing /\ c.live
  BY NewCall DEF IsCall
<1> HIDE DEF d, t, c
<1>3. /\ Shape(d) /\ d.op = "ListBuckets" /\ d.auth = t
      /\ d.state = "sent" /\ d.reply = Nothing /\ d.live
  BY <1>1, <1>2 DEF Shape
<1>4. QED
  BY <1>3 DEF IsCall, d, t

\* A page has been left.  What is under way now: of the requests old, what goes
\* on without the page; Home's, if that has just been mounted; and new, which
\* the next page sends.
Left(old, new) ==
    /\ Sequence(calls')
    /\ new \subseteq Of(calls')
    /\ \A d \in Of(calls') :
         \/ d \in new
         \/ d \in old /\ d.op \in {"GetDiscoveryDoc", "ListBuckets"}
         \/ \E c \in old : d = Forgotten(c) /\ Orphaned(c)
         \/ page = "login" /\ page' # "login" /\ d = HomeCall

LEMMA Mounted ==
  ASSUME NEW to, NEW data, NEW cs, NEW rest, Mount(to, data, cs, rest),
         Sequence(cs), Sequence(rest), \A c \in Of(rest) : IsCall(c)
  PROVE  page' = to /\ view' = data /\ Left(Of(rest), Of(cs))
<1> DEFINE home == HomeMounted(to)
           u == Unmount(rest)
<1>1. page' = to /\ view' = data /\ calls' = (u \o home) \o cs
  BY DEF Mount
<1>2. /\ Sequence(u)
      /\ \A d \in Of(u) :
              \/ d \in Of(rest) /\ d.op \in {"GetDiscoveryDoc", "ListBuckets"}
              \/ \E c \in Of(rest) : d = Forgotten(c) /\ Orphaned(c)
  BY Unmounted
<1>3. Sequence(home) /\ \A d \in Of(home) : page = "login" /\ page' # "login" /\ d = HomeCall
  <2>1. CASE page = "login" /\ to # "login"
    <3>1. home = <<HomeCall>>
      BY <2>1 DEF HomeMounted, HomeCall
    <3>2. QED
      BY <1>1, <2>1, <3>1, Single
  <2>2. CASE ~(page = "login" /\ to # "login")
    <3>1. home = <<>>
      BY <2>2 DEF HomeMounted
    <3>2. QED
      BY <3>1, Empty
  <2>3. QED
    BY <2>1, <2>2
<1> HIDE DEF home, u
<1>4. Sequence(u \o home) /\ Of(u \o home) = Of(u) \cup Of(home)
  BY <1>2, <1>3, Joined
<1>5. Sequence(calls') /\ Of(calls') = (Of(u) \cup Of(home)) \cup Of(cs)
  BY <1>1, <1>4, Joined
<1>6. QED
  BY <1>1, <1>2, <1>3, <1>5 DEF Left

\* The pages that can be opened.
Opens(old) == \E new :
    /\ Left(old, new)
    /\ \/ page' = "login" /\ view' = LoginView /\ new = {}
       \/ page' = "fs3" /\ view' = Fs3View /\ new = {}
       \/ page' = "backup" /\ view' = <<>> /\ new = {}
       \/ page' = "myPlans" /\ view' = MyPlansView /\ new = {ListPlans(1)}
       \/ page' = "backupPlans" /\ view' = BackupPlansView /\ new = {}
       \/ /\ page' = "myJobs" /\ view' = MyJobsView
          /\ new = {ListCall("ListRebuilds", 1), ListCall("ListBackups", 1)}
       \/ /\ page' = "dashboard" /\ view' = DashboardView
          /\ new = {Call("CountBackups", Nothing), Call("CountRebuilds", Nothing)}
       \/ \E op \in ListOps : /\ page' = "details" /\ view' = DetailsView(op)
                              /\ new = {ListCall(op, 1)}

LEMMA Visited ==
  ASSUME CallsOK, NEW to, NEW data, NEW cs, Visit(to, data, cs), Sequence(cs)
  PROVE  /\ page # to /\ page' = to /\ view' = data /\ Left(Of(calls), Of(cs))
         /\ UNCHANGED <<token, account, secret, since>>
<1>1. BeforeEach(to) = to
  BY DEF BeforeEach, oaxLoginUserId
<1>2. Mount(to, data, cs, calls)
  BY <1>1 DEF Visit
<1>3. page' = to /\ view' = data /\ Left(Of(calls), Of(cs))
  BY <1>2, Mounted DEF CallsOK, MayBe
<1>4. QED
  BY <1>3 DEF Visit

\* Going on to a page by a link or its address.
Visits == VisitFs3 \/ VisitLogin \/ VisitBackup \/ PlansPages \/ VisitMyJobs \/ DetailsPages

LEMMA VisitsOpen ==
  ASSUME CallsOK, Visits
  PROVE  /\ page' # page /\ Opens(Of(calls)) /\ UNCHANGED <<token, account, secret, since>>
         /\ page' = "fs3" => token # None
<1>1. Sequence(<<>>) /\ Of(<<>>) = {}
  BY Empty
<1>2. CASE VisitFs3
  <2>1. CASE token = None
    BY <1>1, <1>2, <2>1, Visited DEF VisitFs3, Opens
  <2>2. CASE token # None
    BY <1>1, <1>2, <2>2, Visited DEF VisitFs3, Opens
  <2>3. QED
    BY <2>1, <2>2
<1>3. CASE VisitLogin
  BY <1>1, <1>3, Visited DEF VisitLogin, Opens
<1>4. CASE VisitBackup
  BY <1>1, <1>4, Visited DEF VisitBackup, Opens
<1>5. CASE VisitMyPlans
  <2>1. Sequence(<<ListPlans(1)>>) /\ Of(<<ListPlans(1)>>) = {ListPlans(1)}
    BY Single
  <2>2. QED
    BY <1>5, <2>1, Visited DEF VisitMyPlans, Opens
<1>6. CASE VisitBackupPlans
  BY <1>1, <1>6, Visited DEF VisitBackupPlans, Opens
<1>7. CASE VisitMyJobs
  <2>1. /\ Sequence(MyJobsCalls)
        /\ Of(MyJobsCalls) = {ListCall("ListRebuilds", 1), ListCall("ListBackups", 1)}
    BY Pair DEF MyJobsCalls
  <2>2. QED
    BY <1>7, <2>1, Visited DEF VisitMyJobs, Opens
<1>8. CASE VisitDashboard
  <2>1. /\ Sequence(DashboardCalls)
        /\ Of(DashboardCalls) = {Call("CountBackups", Nothing), Call("CountRebuilds", Nothing)}
    BY Pair DEF DashboardCalls
  <2>2. QED
    BY <1>8, <2>1, Visited DEF VisitDashboard, Opens
<1>9. ASSUME NEW op \in ListOps, link(op)
      PROVE  page' # page /\ page' = "details" /\ Opens(Of(calls))
             /\ UNCHANGED <<token, account, secret, since>>
  <2>1. Sequence(DetailsCalls(op)) /\ Of(DetailsCalls(op)) = {ListCall(op, 1)}
    BY Single DEF DetailsCalls
  <2>2. QED
    BY <1>9, <2>1, Visited DEF link, VisitDetails, Opens
<1>10. QED
  BY <1>2, <1>3, <1>4, <1>5, <1>6, <1>7, <1>8, <1>9 DEF Visits, PlansPages, DetailsPages
----------------------------------------------------------------------------
(* Staying on a page.                                                      *)

LEMMA Underway ==
  ASSUME CallsOK, NEW i \in DOMAIN calls
  PROVE  calls[i] \in Of(calls) /\ MayBe(calls[i], page) /\ IsCall(calls[i])
BY DEF Of, CallsOK, MayBe

\* A request is answered or given up.
LEMMA SameIfReplied ==
  ASSUME CallsOK, NEW ops, NEW i \in DOMAIN calls, NEW data, Reply(i, data),
         calls[i].op \notin ops
  PROVE  Sequence(calls') /\ Same(ops)
<1> DEFINE e == WithAnswer(calls[i], data)
<1>1. e.op = calls[i].op
  BY Underway, AnsweredCall
<1>2. calls' = [calls EXCEPT ![i] = e]
  BY Replied DEF CallsOK
<1> HIDE DEF e
<1>3. QED
  BY <1>1, <1>2, SameIfReplaced DEF CallsOK

LEMMA Finished ==
  ASSUME CallsOK, NEW ops, NEW i \in DOMAIN calls, Done(i, <<>>), calls[i].op \notin ops
  PROVE  Sequence(calls') /\ Same(ops)
BY Empty, SameIfDone DEF CallsOK

LEMMA Sends ==
  ASSUME CallsOK, NEW ops, NEW op, NEW arg, UserSends(<<Call(op, arg)>>), op \notin ops
  PROVE  Sequence(calls') /\ Same(ops)
<1>1. Sequence(<<Call(op, arg)>>) /\ \A c \in Of(<<Call(op, arg)>>) : c.op = op
  BY Single, NewCall
<1>2. calls' = calls \o <<Call(op, arg)>>
  BY DEF UserSends
<1>3. QED
  BY <1>1, <1>2, SameIfSent DEF CallsOK

LEMMA SameIfGivenUp ==
  ASSUME CallsOK, NEW ops, NEW i \in DOMAIN calls, GivenUp(i), calls[i].op \notin ops
  PROVE  Sequence(calls') /\ Same(ops)
<1>1. CASE Done(i, <<>>)
  BY <1>1, Finished
<1>2. CASE calls' = [calls EXCEPT ![i].live = FALSE]
  <2> DEFINE e == Forgotten(calls[i])
  <2>1. e.op = calls[i].op
    BY Underway, ForgottenCall
  <2>2. calls' = [calls EXCEPT ![i] = e]
    BY <1>2 DEF Forgotten, CallsOK, Sequence
  <2> HIDE DEF e
  <2>3. QED
    BY <2>1, <2>2, SameIfReplaced DEF CallsOK
<1>3. QED
  BY <1>1, <1>2 DEF GivenUp

\* What the session does without leaving the page.
SessionStays ==
    \/ LoginForm \/ OpenChangePass \/ ChangePassword \/ SessionServer
    \/ SessionHandler /\ page' = page

LEMMA SessionIsElsewhere ==
  ASSUME CallsOK, SessionStays, NEW ops, ops \cap SessionCallOps = {}
  PROVE  /\ page' = page /\ Sequence(calls') /\ Same(ops)
         /\ page \notin {"login", "fs3"} => view' = view
<1>1. "Login" \notin ops /\ "GetDiscoveryDoc" \notin ops /\ "ListBuckets" \notin ops
      /\ "SetAuth" \notin ops
  BY DEF SessionCallOps, SessionOps
<1>2. CASE LoginForm
  <2>1. PICK s \in Secrets : LoginSubmit(s)
    BY <1>2 DEF LoginForm
  <2>2. QED
    BY <1>1, <2>1, Sends DEF LoginSubmit
<1>3. CASE OpenChangePass
  BY <1>3, SameIfUnchanged DEF OpenChangePass, CallsOK
<1>4. CASE ChangePassword
  <2>1. ASSUME NEW current \in Secrets, NEW s \in Secrets, UpdateKey(current, s)
        PROVE  page' = page /\ Sequence(calls') /\ Same(ops) /\ page = "fs3"
    BY <1>1, <2>1, Sends DEF UpdateKey
  <2>2. CASE TypeNewKey
    BY <2>2, SameIfUnchanged DEF TypeNewKey, CallsOK
  <2>3. CASE GetClose
    BY <2>3, SameIfUnchanged DEF GetClose, CallsOK
  <2>4. QED
    BY <1>4, <2>1, <2>2, <2>3 DEF ChangePassword
<1>5. CASE SessionServer
  <2>1. PICK i \in DOMAIN calls : Login(i) \/ GetDiscoveryDoc(i) \/ ListBuckets(i) \/ SetAuth(i)
    BY <1>5 DEF SessionServer
  <2>2. calls[i].op \notin ops
    BY <1>1, <2>1 DEF Login, GetDiscoveryDoc, ListBuckets, SetAuth, IsSent
  <2>3. CASE Login(i)
    BY <2>2, <2>3, SameIfReplied DEF Login
  <2>4. CASE GetDiscoveryDoc(i)
    BY <2>2, <2>4, SameIfReplied DEF GetDiscoveryDoc
  <2>5. CASE ListBuckets(i)
    BY <2>2, <2>5, SameIfReplied DEF ListBuckets
  <2>6. CASE SetAuth(i)
    BY <2>2, <2>6, SameIfReplied, Finished DEF SetAuth
  <2>7. QED
    BY <2>1, <2>3, <2>4, <2>5, <2>6
<1>6. CASE SessionHandler /\ page' = page
  <2>1. PICK i \in DOMAIN calls : \/ LoggedIn(i) \/ LoginFailed(i) \/ LoggedOut(i)
                                \/ BucketsRefused(i) \/ NothingDone(i) \/ KeyAnswered(i)
    BY <1>6 DEF SessionHandler
  <2>2. calls[i].op \notin ops
    BY <1>1, <2>1 DEF LoggedIn, LoginFailed, LoggedOut, BucketsRefused, NothingDone,
                      KeyAnswered, IsAnswered, Outstanding
  <2>3. CASE LoggedIn(i)
    <3>1. page = "fs3"
      BY <1>6, <2>3 DEF LoggedIn, Mount
    <3>2. view' = view /\ Done(i, <<>>)
      BY <2>3, <3>1 DEF LoggedIn
    <3>3. QED
      BY <1>6, <2>2, <3>1, <3>2, Finished
  <2>4. CASE LoginFailed(i)
    <3>1. calls[i].live => page = "login"
      BY <2>4, Underway DEF LoginFailed, Outstanding, MayBe, LiveOn, CountOps, ListOps
    <3>2. QED
      BY <2>2, <2>4, <3>1, Finished DEF LoginFailed
  <2>5. CASE LoggedOut(i) \/ BucketsRefused(i)
    <3>1. ToLogin(RemoveAt(calls, i))
      BY <2>5 DEF LoggedOut, BucketsRefused, FedLogOut
    <3>2. page = "login" /\ calls' = RemoveAt(calls, i)
      BY <1>6, <3>1 DEF ToLogin, Mount
    <3>3. Sequence(RemoveAt(calls, i)) /\ Done(i, <<>>)
      BY <3>2, Removed, ConcatEmptySeq DEF Done, CallsOK, Sequence
    <3>4. QED
      BY <1>6, <2>2, <3>2, <3>3, Finished
  <2>6. CASE NothingDone(i)
    BY <2>2, <2>6, Finished DEF NothingDone
  <2>7. CASE KeyAnswered(i)
    BY <2>2, <2>7, Finished DEF KeyAnswered
  <2>8. QED
    BY <2>1, <2>3, <2>4, <2>5, <2>6, <2>7
<1>7. QED
  BY <1>2, <1>3, <1>4, <1>5, <1>6 DEF SessionStays
\* What the pages of plans do, and FS3 of their requests.
PlansStep == MyPlansUser \/ MyPlansHandler \/ BackupPlansUser \/ BackupPlansHandler \/ PlansServer

LEMMA PlansAreElsewhere ==
  ASSUME CallsOK, PlansStep, NEW ops, ops \cap PlanOps = {}
  PROVE  /\ page' = page /\ Sequence(calls') /\ Same(ops)
         /\ page \notin {"myPlans", "backupPlans"} => view' = view
<1>1. "ListPlans" \notin ops /\ "AddPlan" \notin ops /\ "UpdatePlan" \notin ops
  BY DEF PlanOps
<1>2. calls' = calls => Sequence(calls') /\ Same(ops)
  BY SameIfUnchanged DEF CallsOK
<1>3. CASE MyPlansUser
  <2>1. page = "myPlans" /\ page' = page
    BY <1>3 DEF MyPlansUser, onMyPlans
  <2>2. ASSUME NEW k, planSubmit(k) \/ deleteAct(k) PROVE calls' = calls
    BY <2>2 DEF planSubmit, deleteAct
  <2>3. ASSUME PlanPager PROVE Sequence(calls') /\ Same(ops)
    BY <1>1, <2>3, Sends DEF PlanPager, handleCurrentChange, ListPlans
  <2>4. ASSUME PlanDialogs PROVE Sequence(calls') /\ Same(ops)
    <3>1. ASSUME NEW row, NEW delete, planStatus(row, delete)
          PROVE  Sequence(calls') /\ Same(ops)
      BY <1>1, <3>1, Sends DEF planStatus
    <3>2. (handleClose \/ closeDelete) => calls' = calls
      BY DEF handleClose, closeDelete
    <3>3. QED
      BY <1>2, <2>4, <3>1, <3>2 DEF PlanDialogs
  <2>5. QED
    BY <1>2, <1>3, <2>1, <2>2, <2>3, <2>4 DEF MyPlansUser
<1>4. CASE MyPlansHandler
  <2>1. page = "myPlans" /\ page' = page
    BY <1>4 DEF MyPlansHandler, onMyPlans
  <2>2. PlansTimer => calls' = calls
    BY DEF PlansTimer
  <2>3. ASSUME NEW i \in DOMAIN calls, NEW offset, calls[i].op \notin ops,
               Done(i, <<ListPlans(offset)>>)
        PROVE  Sequence(calls') /\ Same(ops)
    <3>1. /\ Sequence(<<ListPlans(offset)>>)
          /\ \A c \in Of(<<ListPlans(offset)>>) : c.op = "ListPlans"
      BY Single, NewCall DEF ListPlans
    <3>2. QED
      BY <1>1, <2>3, <3>1, SameIfDone DEF CallsOK
  <2>4. ASSUME NEW i \in DOMAIN calls, PlansListed(i) \/ PlanUpdated(i) \/ PlansFailed(i)
        PROVE  Sequence(calls') /\ Same(ops)
    <3>1. calls[i].op \notin ops
      BY <1>1, <2>4 DEF PlansListed, PlanUpdated, PlansFailed, IsAnswered, Outstanding
    <3>2. CASE PlansListed(i)
      BY <2>3, <3>1, <3>2, Finished DEF PlansListed
    <3>3. CASE PlanUpdated(i)
      BY <2>3, <3>1, <3>3 DEF PlanUpdated
    <3>4. CASE PlansFailed(i)
      BY <3>1, <3>4, Finished, SameIfGivenUp DEF PlansFailed
    <3>5. QED
      BY <2>4, <3>2, <3>3, <3>4
  <2>5. QED
    BY <1>2, <1>4, <2>1, <2>2, <2>4 DEF MyPlansHandler
<1>5. CASE BackupPlansUser
  <2>1. page = "backupPlans" /\ page' = page
    BY <1>5 DEF BackupPlansUser, onBackupPlans
  <2>2. calls' = calls
    BY <1>5 DEF BackupPlansUser, TypeDuration, submitForm, confirmPlan, closeCreated
  <2>3. QED
    BY <1>2, <2>1, <2>2
<1>6. CASE BackupPlansHandler
  <2>1. page = "backupPlans" /\ page' = page
    BY <1>6 DEF BackupPlansHandler, onBackupPlans
  <2>2. ASSUME Validated PROVE Sequence(calls') /\ Same(ops)
    <3>1. ASSUME NEW arg, calls' = Append(calls, Call("AddPlan", arg))
          PROVE  Sequence(calls') /\ Same(ops)
      <4>1. calls' = calls \o <<Call("AddPlan", arg)>>
        BY <3>1, Appended DEF CallsOK
      <4>2. /\ Sequence(<<Call("AddPlan", arg)>>)
            /\ \A c \in Of(<<Call("AddPlan", arg)>>) : c.op = "AddPlan"
        BY Single, NewCall
      <4>3. QED
        BY <1>1, <4>1, <4>2, SameIfSent DEF CallsOK
    <3>2. calls' = calls \/ \E arg : calls' = Append(calls, Call("AddPlan", arg))
      BY <2>2 DEF Validated
    <3>3. QED
      BY <1>2, <3>1, <3>2
  <2>3. ASSUME NEW i \in DOMAIN calls, PlanAdded(i) \/ AddFailed(i)
        PROVE  Sequence(calls') /\ Same(ops)
    <3>1. calls[i].op \notin ops
      BY <1>1, <2>3 DEF PlanAdded, AddFailed, IsAnswered, Outstanding
    <3>2. QED
      BY <2>3, <3>1, Finished, SameIfGivenUp DEF PlanAdded, AddFailed
  <2>4. QED
    BY <1>6, <2>1, <2>2, <2>3 DEF BackupPlansHandler
<1>7. CASE PlansServer
  <2>1. PICK i \in DOMAIN calls : \/ PsqlBackupVolumeGetPlans(i)
                                \/ PsqlBackupVolumeAddPlan(i)
                                \/ PsqlBackupVolumeUpdatePlan(i)
    BY <1>7 DEF PlansServer
  <2>2. calls[i].op \notin ops
    BY <1>1, <2>1 DEF PsqlBackupVolumeGetPlans, PsqlBackupVolumeAddPlan,
                      PsqlBackupVolumeUpdatePlan, IsSent
  <2>3. page' = page /\ (page # "myPlans" => view' = view)
    BY <2>1 DEF PsqlBackupVolumeGetPlans, PsqlBackupVolumeAddPlan,
                PsqlBackupVolumeUpdatePlan, Unseen
  <2>4. ASSUME NEW data, Reply(i, data) \/ ReplyIfLive(i, data)
        PROVE  Sequence(calls') /\ Same(ops)
    BY <2>2, <2>4, SameIfReplied, Finished DEF ReplyIfLive
  <2>5. QED
    BY <2>1, <2>3, <2>4 DEF PsqlBackupVolumeGetPlans, PsqlBackupVolumeAddPlan,
                            PsqlBackupVolumeUpdatePlan
<1>8. QED
  BY <1>3, <1>4, <1>5, <1>6, <1>7 DEF PlansStep

\* What the pages of jobs do, FS3 of their requests, and the backup scheduler.
JobsStep == JobsNext \/ DetailsNext

LEMMA JobsAreElsewhere ==
  ASSUME CallsOK, JobsStep, NEW ops, ops \cap JobOps = {}
  PROVE  /\ page' = page /\ Sequence(calls') /\ Same(ops)
         /\ page \notin {"myJobs", "details", "dashboard"} => view' = view
<1>1. /\ \A op \in ListOps \cup CountOps \cup {"AddRebuild"} : op \notin ops
      /\ "ListBackups" \in ListOps /\ "ListRebuilds" \in ListOps
      /\ "CountBackups" \in CountOps /\ "CountRebuilds" \in CountOps
  BY DEF JobOps, ListOps, CountOps
<1>2. calls' = calls => Sequence(calls') /\ Same(ops)
  BY SameIfUnchanged DEF CallsOK
<1>3. ASSUME NEW op \in ListOps, NEW val, changePage(op, val)
      PROVE  Sequence(calls') /\ Same(ops)
  BY <1>1, <1>3, Sends DEF changePage, ListCall
<1>4. ASSUME confirm PROVE Sequence(calls') /\ Same(ops)
  BY <1>1, <1>4, Sends DEF confirm
<1>5. ASSUME RebuildButton \/ closeAsk \/ closeResult \/ closeDis \/ handleClick
      PROVE  Sequence(calls') /\ Same(ops)
  BY <1>2, <1>5 DEF RebuildButton, RowButton, closeAsk, closeResult, closeDis, handleClick
<1>6. ASSUME BackupPager \/ RebuildPager \/ Details_rebuildPager
      PROVE  Sequence(calls') /\ Same(ops)
  BY <1>1, <1>3, <1>6 DEF BackupPager, RebuildPager, Details_rebuildPager, backupChange,
                          Details_rebuildChange, rebuildChange
<1>7. ASSUME NEW op \in ListOps, JobsTimer(op) PROVE Sequence(calls') /\ Same(ops)
  BY <1>2, <1>7 DEF JobsTimer
<1>8. ASSUME NEW i \in DOMAIN calls,
             BackupsListed(i) \/ RebuildsListed(i) \/ RebuildAdded(i) \/ JobsFailed(i)
      PROVE  Sequence(calls') /\ Same(ops)
  <2>1. calls[i].op \notin ops
    BY <1>1, <1>8 DEF BackupsListed, RebuildsListed, JobsListed, RebuildAdded, JobsFailed,
                      IsAnswered, Outstanding
  <2>2. Done(i, <<>>) \/ GivenUp(i)
    BY <1>8 DEF BackupsListed, RebuildsListed, JobsListed, RebuildAdded, JobsFailed
  <2>3. QED
    BY <2>1, <2>2, Finished, SameIfGivenUp
<1>9. CASE JobsUser
  BY <1>4, <1>5, <1>6, <1>9 DEF JobsUser
<1>10. CASE JobsHandler
  BY <1>7, <1>8, <1>10 DEF JobsHandler
<1>11. CASE JobsServer
  <2>1. PICK i \in DOMAIN calls : \/ PsqlBackupVolumeGetJobs(i)
                                \/ PsqlRebuildGetJobs(i)
                                \/ PsqlRebuildAddJob(i)
    BY <1>11 DEF JobsServer
  <2>2. calls[i].op \notin ops
    BY <1>1, <2>1 DEF PsqlBackupVolumeGetJobs, PsqlRebuildGetJobs, PsqlRebuildAddJob, IsSent
  <2>3. Done(i, <<>>) \/ \E data : Reply(i, data)
    BY <2>1 DEF PsqlBackupVolumeGetJobs, PsqlRebuildGetJobs, PsqlRebuildAddJob
  <2>4. QED
    BY <1>11, <2>2, <2>3, SameIfReplied, Finished DEF JobsServer
<1>12. ASSUME NEW b, BackupCompleted(b) \/ RebuildCompleted(b)
       PROVE  calls' = calls /\ page' = page /\ view' = view
  BY <1>12 DEF BackupCompleted, RebuildCompleted
<1>13. CASE DetailsUser
  <2>1. ASSUME NEW op \in ListOps, productName(op) PROVE onDetails /\ Sequence(calls') /\ Same(ops)
    BY <1>1, <2>1, Sends DEF productName, ListCall
  <2>2. ASSUME Details_RebuildButton PROVE onDetails /\ Sequence(calls') /\ Same(ops)
    BY <1>5, <2>2 DEF Details_RebuildButton, Details_detailFun, RebuildButton
  <2>3. QED
    BY <1>4, <1>5, <1>6, <1>13, <2>1, <2>2
       DEF DetailsUser, onDetails, Details_closeDis, Details_closeAsk, Details_confirm,
           Details_closeResult, Details_backupPager, Details_rebuildPager
<1>14. CASE DetailsHandler
  BY <1>7, <1>8, <1>14
     DEF DetailsHandler, onDetails, Details_timer, Details_backupsListed,
         Details_rebuildsListed, Details_RebuildAdded, Details_failed
<1>15. CASE DashboardNext
  <2>1. PICK i \in DOMAIN calls : \/ PsqlCounts(i) /\ UNCHANGED <<view, Dashboard_keep>>
                                  \/ (Counted(i) \/ CountFailed(i)) /\ UNCHANGED Dashboard_keep
    BY <1>15 DEF DashboardNext
  <2>2. calls[i].op \notin ops /\ (Done(i, <<>>) \/ \E data : Reply(i, data))
    <3>1. CASE PsqlCounts(i)
      <4>1. PICK op \in CountOps : LET jobs == JobsOf(op) IN
              \/ IsSent(i, op) /\ \E data : Reply(i, data)
              \/ IsAnswered(i, op) /\ \E data : Reply(i, data)
        BY <3>1 DEF PsqlCounts
      <4>2. QED
        BY <1>1, <4>1 DEF IsSent, IsAnswered
    <3>2. CASE Counted(i) \/ CountFailed(i)
      BY <1>1, <3>2 DEF Counted, CountFailed, IsAnswered, Outstanding
    <3>3. QED
      BY <2>1, <3>1, <3>2
  <2>3. page' = page /\ (page # "dashboard" => view' = view)
    BY <2>1 DEF Counted, CountFailed, Dashboard_keep
  <2>4. QED
    BY <2>2, <2>3, SameIfReplied, Finished
<1>16. CASE JobsNext
  BY <1>2, <1>9, <1>10, <1>11, <1>12, <1>16 DEF JobsNext, JobsUser, JobsHandler, JobsServer
<1>17. CASE DetailsNext
  BY <1>13, <1>14, <1>15, <1>17
     DEF DetailsNext, DetailsUser, DetailsHandler, onDetails, productName,
         Details_RebuildButton, Details_detailFun, Details_closeDis, Details_closeAsk,
         Details_confirm, Details_closeResult, Details_backupPager, Details_rebuildPager,
         Details_timer, Details_backupsListed, Details_rebuildsListed,
         Details_RebuildAdded, Details_failed
<1>18. QED
  BY <1>16, <1>17 DEF JobsStep
----------------------------------------------------------------------------
(* Which requests there may be.                                            *)

LEMMA ReplyKeeps ==
  ASSUME CallsOK, NEW i \in DOMAIN calls, NEW data, Reply(i, data), page' = page,
         calls[i].op \in Writes => calls[i].live
  PROVE  LET e == WithAnswer(calls[i], data) IN
           /\ CallsOK'
           /\ e \in Of(calls') /\ Of(calls') \subseteq Of(calls) \cup {e}
           /\ \A c \in Of(calls) : c \in Of(calls') \/ c = calls[i]
<1> DEFINE c == calls[i]
           e == WithAnswer(c, data)
<1>1. c \in Of(calls) /\ MayBe(c, page) /\ IsCall(c)
  BY Underway
<1>2. IsCall(e) /\ e.op = c.op /\ e.live = c.live
  BY <1>1, AnsweredCall
<1>3. calls' = [calls EXCEPT ![i] = e]
  BY Replied DEF CallsOK
<1> HIDE DEF e
<1>4. /\ Sequence(calls') /\ e \in Of(calls') /\ Of(calls') \subseteq Of(calls) \cup {e}
      /\ \A k \in DOMAIN calls : k # i => calls[k] \in Of(calls')
  BY <1>3, Replaced DEF CallsOK
<1>5. MayBe(e, page)
  BY <1>1, <1>2 DEF MayBe, Orphaned
<1>6. CallsOK'
  BY <1>4, <1>5 DEF CallsOK
<1>7. \A d \in Of(calls) : d \in Of(calls') \/ d = calls[i]
  BY <1>4 DEF Of
<1>8. QED
  BY <1>4, <1>6, <1>7 DEF e

LEMMA DoneKeeps ==
  ASSUME CallsOK, NEW i \in DOMAIN calls, NEW cs, Sequence(cs), Done(i, cs), page' = page,
         \A c \in Of(cs) : MayBe(c, page)
  PROVE  /\ CallsOK'
         /\ Of(cs) \subseteq Of(calls') /\ Of(calls') \subseteq Of(calls) \cup Of(cs)
         /\ \A c \in Of(calls) : c \in Of(calls') \/ c = calls[i]
<1> DEFINE s == RemoveAt(calls, i)
<1>1. /\ Sequence(s) /\ Of(s) \subseteq Of(calls)
      /\ \A k \in DOMAIN calls : k # i => calls[k] \in Of(s)
  BY Removed DEF CallsOK
<1>2. calls' = s \o cs
  BY DEF Done
<1> HIDE DEF s
<1>3. Sequence(calls') /\ Of(calls') = Of(s) \cup Of(cs)
  BY <1>1, <1>2, Joined
<1>4. CallsOK'
  BY <1>1, <1>3 DEF CallsOK
<1>5. \A c \in Of(calls) : c \in Of(calls') \/ c = calls[i]
  BY <1>1, <1>3 DEF Of
<1>6. QED
  BY <1>1, <1>3, <1>4, <1>5

LEMMA FinishKeeps ==
  ASSUME CallsOK, NEW i \in DOMAIN calls, Done(i, <<>>), page' = page
  PROVE  /\ CallsOK' /\ Of(calls') \subseteq Of(calls)
         /\ \A c \in Of(calls) : c \in Of(calls') \/ c = calls[i]
BY Empty, DoneKeeps

LEMMA SendKeeps ==
  ASSUME CallsOK, NEW op, NEW arg, calls' = calls \o <<Call(op, arg)>>,
         page' = page, LiveOn(op, page)
  PROVE  CallsOK' /\ Of(calls') = Of(calls) \cup {Call(op, arg)}
<1>1. Sequence(<<Call(op, arg)>>) /\ Of(<<Call(op, arg)>>) = {Call(op, arg)}
  BY Single
<1>2. Sequence(calls') /\ Of(calls') = Of(calls) \cup {Call(op, arg)}
  BY <1>1, Joined DEF CallsOK
<1>3. MayBe(Call(op, arg), page)
  BY NewCall DEF MayBe
<1>4. QED
  BY <1>2, <1>3 DEF CallsOK

LEMMA GivenUpKeeps ==
  ASSUME CallsOK, NEW i \in DOMAIN calls, GivenUp(i), page' = page, calls[i].op \in Writes
  PROVE  LET e == Forgotten(calls[i]) IN
           /\ CallsOK'
           /\ Of(calls') \subseteq Of(calls) \cup {e}
           /\ e \in Of(calls') => e \in Of(calls) \/ calls[i].state = "sent"
           /\ \A c \in Of(calls) : c \in Of(calls') \/ c = calls[i]
<1>1. CASE Done(i, <<>>)
  BY <1>1, FinishKeeps
<1>2. CASE calls[i].state = "sent" /\ calls' = [calls EXCEPT ![i].live = FALSE]
  <2> DEFINE c == calls[i]
             e == Forgotten(c)
  <2>1. c \in Of(calls) /\ MayBe(c, page) /\ IsCall(c)
    BY Underway
  <2>2. IsCall(e) /\ e.op = c.op /\ ~e.live /\ e.state = c.state
    BY <2>1, ForgottenCall
  <2>3. calls' = [calls EXCEPT ![i] = e]
    BY <1>2 DEF Forgotten, CallsOK, Sequence
  <2> HIDE DEF e
  <2>4. /\ Sequence(calls') /\ e \in Of(calls') /\ Of(calls') \subseteq Of(calls) \cup {e}
        /\ \A k \in DOMAIN calls : k # i => calls[k] \in Of(calls')
    BY <2>3, Replaced DEF CallsOK
  <2>5. MayBe(e, page)
    BY <1>2, <2>2 DEF MayBe, Orphaned
  <2>6. CallsOK'
    BY <2>4, <2>5 DEF CallsOK
  <2>7. \A d \in Of(calls) : d \in Of(calls') \/ d = calls[i]
    BY <2>4 DEF Of
  <2>8. QED
    BY <1>2, <2>4, <2>6, <2>7 DEF e
<1>3. QED
  BY <1>1, <1>2 DEF GivenUp

\* A new page has been opened.
LEMMA OpensKeeps ==
  ASSUME NEW old, \A c \in old : MayBe(c, page), Opens(old)
  PROVE  CallsOK'
<1>1. PICK new :
        /\ Left(old, new)
        /\ \/ new = {}
           \/ page' = "myPlans" /\ new = {ListPlans(1)}
           \/ /\ page' = "myJobs"
              /\ new = {ListCall("ListRebuilds", 1), ListCall("ListBackups", 1)}
           \/ /\ page' = "dashboard"
              /\ new = {Call("CountBackups", Nothing), Call("CountRebuilds", Nothing)}
           \/ \E op \in ListOps : page' = "details" /\ new = {ListCall(op, 1)}
  BY DEF Opens
<1>2. \A d \in new : MayBe(d, page')
  BY <1>1, NewCall DEF ListPlans, ListCall, MayBe, LiveOn, ListOps, CountOps
<1>3. ASSUME NEW d \in Of(calls') PROVE MayBe(d, page')
  <2>1. CASE d \in new
    BY <1>2, <2>1
  <2>2. CASE d \in old /\ d.op \in {"GetDiscoveryDoc", "ListBuckets"}
    BY <2>2 DEF MayBe
  <2>3. ASSUME NEW c \in old, d = Forgotten(c), Orphaned(c) PROVE MayBe(d, page')
    <3>1. IsCall(c)
      BY DEF MayBe
    <3>2. IsCall(d) /\ d.op = c.op /\ d.state = c.state /\ ~d.live
      BY <2>3, <3>1, ForgottenCall
    <3>3. QED
      BY <2>3, <3>2 DEF MayBe, Orphaned
  <2>4. CASE d = HomeCall
    BY <2>4, HomesCall DEF MayBe
  <2>5. QED
    BY <1>1, <2>1, <2>2, <2>3, <2>4 DEF Left
<1>4. QED
  BY <1>1, <1>3 DEF CallsOK, Left
----------------------------------------------------------------------------
(* The session.                                                            *)

SessionFields ==
    /\ token \in Secrets \cup {None} /\ account \in Secrets /\ secret \in Secrets
    /\ DOMAIN since = {"ended", "changed", "around"}
    /\ page = "login" => DOMAIN view = {"loginLoad", "Secretkey"}
    /\ page = "fs3" => DOMAIN view = {"changePass", "Secretkey", "updateBack"}

\* A request that ends the session when it is answered was there before it,
\* or is refused for a token that is not good any more; tk and sc are the
\* token and what has happened.
SessionCall(c, tk, sc) ==
    /\ c.op = "Login" => c.arg.secret \in Secrets
    /\ c.op = "SetAuth" => c.arg.new \in Secrets
    /\ c.op = "GetDiscoveryDoc" => sc.ended
    /\ c.op = "ListBuckets" =>
         /\ tk = None \/ sc.ended \/ c.auth = tk
         /\ c.state = "answered" => c.reply.ok \/ tk = None \/ sc.ended \/ sc.changed

SessionCallsOK == \A c \in Of(calls) : SessionCall(c, token, since)

\* The keys of a session are the one FS3 knows until that is changed.
KeysCurrent ==
    ~since.changed => account = secret /\ (token # None => token = secret)

SessionInv == SessionFields /\ SessionCallsOK /\ KeysCurrent /\ ObjectsNeedToken /\ PrefillWorks

LEMMA SecretsAreNumbers == 0 \in Secrets /\ None \notin Secrets
BY SessionBounds DEF Secrets, None

LEMMA SessionElsewhere ==
  ASSUME SessionInv, page' = page, UNCHANGED <<token, account, secret, since>>,
         page \in {"login", "fs3"} => view' = view,
         \A c \in Of(calls') : c.op \in SessionCallOps => c \in Of(calls)
  PROVE  SessionInv'
<1>1. SessionFields'
  BY DEF SessionInv, SessionFields, Secrets
<1>2. SessionCallsOK'
  <2>1. ASSUME NEW c \in Of(calls') PROVE SessionCall(c, token, since)
    <3>1. CASE c.op \in SessionCallOps
      BY <3>1 DEF SessionInv, SessionCallsOK
    <3>2. CASE c.op \notin SessionCallOps
      BY <3>2 DEF SessionCall, SessionCallOps, SessionOps
    <3>3. QED
      BY <3>1, <3>2
  <2>2. QED
    BY <2>1 DEF SessionCallsOK
<1>3. KeysCurrent' /\ ObjectsNeedToken' /\ PrefillWorks'
  BY DEF SessionInv, KeysCurrent, ObjectsNeedToken, PrefillWorks
<1>4. QED
  BY <1>1, <1>2, <1>3 DEF SessionInv

\* The requests that are there when a page has been opened.
LEMMA SessionCallsOpen ==
  ASSUME NEW old, Opens(old), \A c \in old : MayBe(c, page) /\ SessionCall(c, token', since')
  PROVE  SessionCallsOK'
<1>1. PICK new : Left(old, new) /\ \A d \in new : d.op \in PlanOps \cup JobOps
  <2>1. {"ListPlans", "ListBackups", "ListRebuilds", "CountBackups", "CountRebuilds"}
          \subseteq PlanOps \cup JobOps
    BY DEF PlanOps, JobOps, ListOps, CountOps
  <2>2. ListOps \subseteq PlanOps \cup JobOps
    BY DEF JobOps
  <2>3. QED
    BY <2>1, <2>2, NewCall DEF Opens, ListPlans, ListCall
<1>2. ASSUME NEW d \in Of(calls') PROVE SessionCall(d, token', since')
  <2>1. CASE d \in new
    BY <1>1, <2>1 DEF SessionCall, PlanOps, JobOps, ListOps, CountOps
  <2>2. CASE d \in old
    BY <2>2
  <2>3. ASSUME NEW c \in old, d = Forgotten(c), Orphaned(c) PROVE SessionCall(d, token', since')
    <3>1. d.op = c.op /\ d.arg = c.arg
      BY <2>3, ForgottenCall DEF MayBe
    <3>2. c.op \notin {"GetDiscoveryDoc", "ListBuckets"}
      BY <2>3 DEF Orphaned, Writes
    <3>3. QED
      BY <3>1, <3>2 DEF SessionCall
  <2>4. CASE d = HomeCall
    BY <2>4, HomesCall DEF SessionCall
  <2>5. QED
    BY <1>1, <2>1, <2>2, <2>3, <2>4 DEF Left
<1>3. QED
  BY <1>2 DEF SessionCallsOK

LEMMA OpensFields ==
  ASSUME NEW old, Opens(old)
  PROVE  /\ page' = "login" => DOMAIN view' = {"loginLoad", "Secretkey"} /\ ~view'.loginLoad
         /\ page' = "fs3" => /\ DOMAIN view' = {"changePass", "Secretkey", "updateBack"}
                             /\ ~view'.changePass
<1>1. page' = "login" => view' = LoginView
  BY DEF Opens
<1>2. page' = "fs3" => view' = Fs3View
  BY DEF Opens
<1>3. QED
  BY <1>1, <1>2 DEF LoginView, Fs3View

\* What opens a page: a visit, the log out, and an answer that begins or ends
\* the session.
LEMMA LogoutOpens ==
  ASSUME CallsOK, Logout
  PROVE  /\ page # "login" /\ page' = "login"
         /\ Opens(Of(calls) \cup {Call("GetDiscoveryDoc", Nothing)})
         /\ \A c \in Of(calls) \cup {Call("GetDiscoveryDoc", Nothing)} : MayBe(c, page)
         /\ UNCHANGED <<token, account, secret>> /\ since' = [since EXCEPT !.ended = TRUE]
<1> DEFINE c == Call("GetDiscoveryDoc", Nothing)
           rest == Append(calls, c)
<1>1. IsCall(c) /\ c.op = "GetDiscoveryDoc"
  BY NewCall
<1>2. Sequence(rest) /\ Of(rest) = Of(calls) \cup {c}
  BY Appended DEF CallsOK
<1>3. \A d \in Of(rest) : MayBe(d, page) /\ IsCall(d)
  BY <1>1, <1>2 DEF CallsOK, MayBe
<1>4. Mount("login", LoginView, <<>>, rest)
  BY DEF Logout
<1> HIDE DEF c, rest
<1>5. page' = "login" /\ view' = LoginView /\ Left(Of(rest), Of(<<>>))
  BY <1>2, <1>3, <1>4, Empty, Mounted
<1>6. Opens(Of(rest))
  BY <1>5, Empty DEF Opens
<1>7. QED
  BY <1>2, <1>3, <1>5, <1>6 DEF Logout, c

LEMMA HandlerOpens ==
  ASSUME CallsOK, NEW i \in DOMAIN calls, page' # page,
         LoggedIn(i) \/ LoggedOut(i) \/ BucketsRefused(i)
  PROVE  /\ Opens(Of(calls))
         /\ \/ page' = "fs3" /\ LoggedIn(i)
            \/ page' = "login" /\ (LoggedOut(i) \/ BucketsRefused(i))
<1> DEFINE rest == RemoveAt(calls, i)
<1>1. Sequence(rest) /\ Of(rest) \subseteq Of(calls)
  BY Removed DEF CallsOK
<1>2. \A d \in Of(rest) : IsCall(d)
  BY <1>1 DEF CallsOK, MayBe
<1> HIDE DEF rest
<1>3. ASSUME NEW new, Left(Of(rest), new) PROVE Left(Of(calls), new)
  BY <1>1, <1>3 DEF Left
<1>4. CASE LoggedIn(i)
  <2>1. page # "fs3"
    BY <1>4 DEF LoggedIn
  <2>2. Mount("fs3", Fs3View, <<>>, rest)
    BY <1>4, <2>1 DEF LoggedIn, rest
  <2>3. page' = "fs3" /\ view' = Fs3View /\ Left(Of(rest), {})
    BY <1>1, <1>2, <2>2, Empty, Mounted
  <2>4. Left(Of(calls), {})
    BY <1>3, <2>3
  <2>5. QED
    BY <1>4, <2>3, <2>4 DEF Opens
<1>5. CASE LoggedOut(i) \/ BucketsRefused(i)
  <2>1. ToLogin(rest)
    BY <1>5 DEF LoggedOut, BucketsRefused, FedLogOut, rest
  <2>2. Mount("login", LoginView, <<>>, rest)
    BY <2>1 DEF ToLogin
  <2>3. page' = "login" /\ view' = LoginView /\ Left(Of(rest), {})
    BY <1>1, <1>2, <2>2, Empty, Mounted
  <2>4. Left(Of(calls), {})
    BY <1>3, <2>3
  <2>5. QED
    BY <1>5, <2>3, <2>4 DEF Opens
<1>6. QED
  BY <1>4, <1>5

\* An answer takes the user to another page.
Turns == \E i \in DOMAIN calls : /\ page' # page
                                 /\ LoggedIn(i) \/ LoggedOut(i) \/ BucketsRefused(i)

\* Every step of the session, and every visit.
LEMMA GoSplits ==
  ASSUME Go
  PROVE  /\ UNCHANGED <<planVars, jobVars>>
         /\ \/ Visits
            \/ Logout
            \/ Turns
            \/ SessionStays
<1>1. ASSUME SessionHandler, page' # page
      PROVE  \E i \in DOMAIN calls : LoggedIn(i) \/ LoggedOut(i) \/ BucketsRefused(i)
  BY <1>1 DEF SessionHandler, LoginFailed, NothingDone, KeyAnswered
<1>2. QED
  BY <1>1 DEF Go, SessionNext, SessionUser, MenuLinks, Visits, Turns, SessionStays
LEMMA SessionVisits ==
  ASSUME CallsOK, SessionInv, Visits
  PROVE  CallsOK' /\ SessionInv'
<1>1. /\ page' # page /\ Opens(Of(calls)) /\ UNCHANGED <<token, account, secret, since>>
      /\ page' = "fs3" => token # None
  BY VisitsOpen
<1>2. \A c \in Of(calls) : MayBe(c, page) /\ SessionCall(c, token', since')
  BY <1>1 DEF CallsOK, SessionInv, SessionCallsOK
<1>3. CallsOK' /\ SessionCallsOK'
  BY <1>1, <1>2, OpensKeeps, SessionCallsOpen
<1>4. SessionFields' /\ PrefillWorks'
  BY <1>1, OpensFields DEF SessionInv, SessionFields, Secrets, PrefillWorks
<1>5. KeysCurrent' /\ ObjectsNeedToken'
  BY <1>1 DEF SessionInv, KeysCurrent, ObjectsNeedToken
<1>6. QED
  BY <1>3, <1>4, <1>5 DEF SessionInv

LEMMA SessionLogout ==
  ASSUME CallsOK, SessionInv, Logout
  PROVE  CallsOK' /\ SessionInv'
<1> DEFINE old == Of(calls) \cup {Call("GetDiscoveryDoc", Nothing)}
<1>1. /\ page' = "login" /\ Opens(old) /\ \A c \in old : MayBe(c, page)
      /\ UNCHANGED <<token, account, secret>> /\ since' = [since EXCEPT !.ended = TRUE]
  BY LogoutOpens
<1>2. /\ DOMAIN since' = {"ended", "changed", "around"} /\ since'.ended
      /\ since'.changed = since.changed
  BY <1>1 DEF SessionInv, SessionFields
<1>3. \A c \in old : SessionCall(c, token', since')
  <2>1. \A c \in Of(calls) : SessionCall(c, token', since')
    BY <1>2 DEF SessionInv, SessionCallsOK, SessionCall
  <2>2. SessionCall(Call("GetDiscoveryDoc", Nothing), token', since')
    BY <1>2, NewCall DEF SessionCall
  <2>3. QED
    BY <2>1, <2>2
<1> HIDE DEF old
<1>4. CallsOK' /\ SessionCallsOK'
  BY <1>1, <1>3, OpensKeeps, SessionCallsOpen
<1>5. SessionFields'
  BY <1>1, <1>2, OpensFields DEF SessionInv, SessionFields, Secrets
<1>6. KeysCurrent' /\ ObjectsNeedToken' /\ PrefillWorks'
  BY <1>1, <1>2 DEF SessionInv, KeysCurrent, ObjectsNeedToken, PrefillWorks
<1>7. QED
  BY <1>4, <1>5, <1>6 DEF SessionInv

\* What the answer to a log in, or to a request that ends the session, makes
\* of the session, wherever it comes.
LEMMA Begun ==
  ASSUME CallsOK, SessionInv, NEW i \in DOMAIN calls, LoggedIn(i)
  PROVE  /\ token' \in Secrets /\ account' = token' /\ secret' = secret
         /\ DOMAIN since' = {"ended", "changed", "around"}
         /\ since'.changed = (secret # token')
         /\ since'.around = (page = "fs3" /\ view.changePass)
         /\ \A c \in Of(calls) : SessionCall(c, token', since')
<1>1. calls[i] \in Of(calls) /\ calls[i].arg.secret \in Secrets
  BY Underway DEF LoggedIn, IsAnswered, SessionInv, SessionCallsOK, SessionCall
<1>2. /\ token' = calls[i].arg.secret /\ account' = calls[i].arg.secret /\ secret' = secret
      /\ since' = [ended |-> Outstanding({"GetDiscoveryDoc", "ListBuckets"}) # {},
                   changed |-> secret # calls[i].arg.secret,
                   around |-> page = "fs3" /\ view.changePass]
  BY DEF LoggedIn, Remembered
<1>3. ASSUME NEW c \in Of(calls) PROVE SessionCall(c, token', since')
  <2>1. c.op \in {"GetDiscoveryDoc", "ListBuckets"} => since'.ended
    BY <1>2 DEF Of, Outstanding
  <2>2. SessionCall(c, token, since)
    BY DEF SessionInv, SessionCallsOK
  <2>3. QED
    BY <2>1, <2>2 DEF SessionCall
<1>4. QED
  BY <1>1, <1>2, <1>3

LEMMA Ended ==
  ASSUME CallsOK, SessionInv, NEW i \in DOMAIN calls, LoggedOut(i) \/ BucketsRefused(i)
  PROVE  /\ token' = None /\ UNCHANGED <<account, secret, since>>
         /\ page' = "login" \/ page = "login"
         /\ token # None => since.ended \/ since.changed
         /\ \A c \in Of(calls) : SessionCall(c, token', since')
<1>1. token' = None /\ UNCHANGED <<account, secret, since>> /\ ToLogin(RemoveAt(calls, i))
  BY DEF LoggedOut, BucketsRefused, FedLogOut
<1>2. page' = "login" \/ page = "login"
  BY <1>1 DEF ToLogin, Mount
<1>3. \A c \in Of(calls) : SessionCall(c, token', since')
  BY <1>1 DEF SessionInv, SessionCallsOK, SessionCall
<1>4. token # None => since.ended \/ since.changed
  <2>1. calls[i] \in Of(calls) /\ SessionCall(calls[i], token, since)
    BY Underway DEF SessionInv, SessionCallsOK
  <2>2. CASE LoggedOut(i)
    BY <2>1, <2>2 DEF LoggedOut, IsAnswered, SessionCall
  <2>3. CASE BucketsRefused(i)
    BY <2>1, <2>3 DEF BucketsRefused, IsAnswered, Answer, SessionCall
  <2>4. QED
    BY <2>2, <2>3
<1>5. QED
  BY <1>1, <1>2, <1>3, <1>4

LEMMA SessionMoves ==
  ASSUME CallsOK, SessionInv, NEW i \in DOMAIN calls, page' # page,
         LoggedIn(i) \/ LoggedOut(i) \/ BucketsRefused(i)
  PROVE  CallsOK' /\ SessionInv'
<1>1. /\ Opens(Of(calls))
      /\ \/ page' = "fs3" /\ LoggedIn(i)
         \/ page' = "login" /\ (LoggedOut(i) \/ BucketsRefused(i))
  BY HandlerOpens
<1>2. CallsOK'
  BY <1>1, OpensKeeps DEF CallsOK
<1>3. \A c \in Of(calls) : MayBe(c, page) /\ SessionCall(c, token', since')
  BY <1>1, Begun, Ended DEF CallsOK
<1>4. SessionCallsOK'
  BY <1>1, <1>3, SessionCallsOpen
<1>5. SessionFields' /\ KeysCurrent' /\ ObjectsNeedToken' /\ PrefillWorks'
  <2>1. CASE page' = "fs3" /\ LoggedIn(i)
    <3>1. /\ token' \in Secrets /\ account' = token' /\ secret' = secret
          /\ DOMAIN since' = {"ended", "changed", "around"}
          /\ since'.changed = (secret # token')
      BY <2>1, Begun
    <3>2. SessionFields'
      BY <1>1, <2>1, <3>1, OpensFields DEF SessionInv, SessionFields, Secrets
    <3>3. KeysCurrent' /\ ObjectsNeedToken' /\ PrefillWorks'
      BY <1>1, <2>1, <3>1, OpensFields, SecretsAreNumbers
         DEF KeysCurrent, ObjectsNeedToken, PrefillWorks
    <3>4. QED
      BY <3>2, <3>3
  <2>2. CASE page' = "login" /\ (LoggedOut(i) \/ BucketsRefused(i))
    <3>1. token' = None /\ UNCHANGED <<account, secret, since>>
      BY <2>2, Ended
    <3>2. SessionFields'
      BY <1>1, <2>2, <3>1, OpensFields DEF SessionInv, SessionFields, Secrets
    <3>3. KeysCurrent' /\ ObjectsNeedToken' /\ PrefillWorks'
      BY <2>2, <3>1 DEF SessionInv, KeysCurrent, ObjectsNeedToken, PrefillWorks
    <3>4. QED
      BY <3>2, <3>3
  <2>3. QED
    BY <1>1, <2>1, <2>2
<1>6. QED
  BY <1>2, <1>4, <1>5 DEF SessionInv

\* A handler is done, and leaves the page as it is.
LEMMA SessionFinishes ==
  ASSUME CallsOK, SessionInv, NEW i \in DOMAIN calls, Done(i, <<>>), page' = page,
         view' = view, UNCHANGED <<token, account, secret, since>>
  PROVE  CallsOK' /\ SessionInv'
BY FinishKeeps, SessionElsewhere

LEMMA SessionAnswers ==
  ASSUME CallsOK, SessionInv, NEW i \in DOMAIN calls,
         Login(i) \/ GetDiscoveryDoc(i) \/ ListBuckets(i) \/ SetAuth(i)
  PROVE  CallsOK' /\ SessionInv'
<1> DEFINE c == calls[i]
<1>1. c \in Of(calls) /\ IsCall(c) /\ SessionCall(c, token, since)
  BY Underway DEF SessionInv, SessionCallsOK
<1>2. ASSUME NEW data, Reply(i, data), UNCHANGED <<page, view, token, account, secret, since>>,
             c.op \notin Writes,
             c.op = "ListBuckets" => data = [ok |-> Authorised(i)]
      PROVE  CallsOK' /\ SessionInv'
  <2> DEFINE e == WithAnswer(c, data)
  <2>1. CallsOK' /\ Of(calls') \subseteq Of(calls) \cup {e}
    BY <1>2, ReplyKeeps
  <2>2. /\ e.op = c.op /\ e.arg = c.arg /\ e.auth = c.auth
        /\ e.state = "answered" /\ e.reply = data
    BY <1>1, AnsweredCall
  <2> HIDE DEF e
  <2>3. SessionCall(e, token, since)
    <3>1. ASSUME c.op = "ListBuckets"
          PROVE  e.reply.ok \/ token = None \/ since.ended \/ since.changed
      <4>1. e.reply.ok = (c.auth = secret)
        BY <1>2, <2>2, <3>1 DEF Authorised
      <4>2. ~since.changed /\ token # None => token = secret
        BY DEF SessionInv, KeysCurrent
      <4>3. QED
        BY <1>1, <3>1, <4>1, <4>2 DEF SessionCall
    <3>2. QED
      BY <1>1, <2>2, <3>1 DEF SessionCall
  <2>4. SessionCallsOK'
    BY <1>2, <2>1, <2>3 DEF SessionInv, SessionCallsOK
  <2>5. SessionFields' /\ KeysCurrent' /\ ObjectsNeedToken' /\ PrefillWorks'
    BY <1>2 DEF SessionInv, SessionFields, Secrets, KeysCurrent, ObjectsNeedToken, PrefillWorks
  <2>6. QED
    BY <2>1, <2>4, <2>5 DEF SessionInv
<1>3. CASE Login(i)
  BY <1>2, <1>3 DEF Login, IsSent, Writes
<1>4. CASE GetDiscoveryDoc(i)
  BY <1>2, <1>4 DEF GetDiscoveryDoc, IsSent, Writes
<1>5. CASE ListBuckets(i)
  BY <1>2, <1>5 DEF ListBuckets, IsSent, Writes
<1>6. CASE SetAuth(i)
  <2>1. /\ UNCHANGED <<page, view, token, account>> /\ c.op = "SetAuth"
        /\ IF c.live THEN Reply(i, [ok |-> TRUE]) ELSE Done(i, <<>>)
    BY <1>6 DEF SetAuth, IsSent
  <2>2. CallsOK' /\ Of(calls') \subseteq Of(calls) \cup {WithAnswer(c, [ok |-> TRUE])}
    <3>1. CASE c.live
      BY <2>1, <3>1, ReplyKeeps
    <3>2. CASE ~c.live
      BY <2>1, <3>2, FinishKeeps
    <3>3. QED
      BY <3>1, <3>2
  <2>3. \/ secret' = c.arg.new /\ since' = [since EXCEPT !.changed = TRUE]
        \/ UNCHANGED <<secret, since>>
    BY <1>6 DEF SetAuth
  <2>4. /\ DOMAIN since' = {"ended", "changed", "around"}
        /\ since'.ended = since.ended
        /\ \/ since'.changed /\ secret' \in Secrets
           \/ UNCHANGED <<secret, since>>
    BY <1>1, <2>1, <2>3 DEF SessionInv, SessionFields, SessionCall
  <2>5. SessionFields' /\ KeysCurrent' /\ ObjectsNeedToken' /\ PrefillWorks'
    BY <2>1, <2>4 DEF SessionInv, SessionFields, Secrets, KeysCurrent, ObjectsNeedToken,
                      PrefillWorks
  <2>6. ASSUME NEW d \in Of(calls') PROVE SessionCall(d, token', since')
    <3>1. CASE d \in Of(calls)
      BY <2>1, <2>4, <3>1 DEF SessionInv, SessionCallsOK, SessionCall
    <3>2. CASE d = WithAnswer(c, [ok |-> TRUE])
      <4>1. d.op = c.op /\ d.arg = c.arg
        BY <1>1, <3>2, AnsweredCall
      <4>2. QED
        BY <1>1, <2>1, <4>1 DEF SessionCall
    <3>3. QED
      BY <2>2, <3>1, <3>2
  <2>7. QED
    BY <2>2, <2>5, <2>6 DEF SessionInv, SessionCallsOK
<1>7. QED
  BY <1>3, <1>4, <1>5, <1>6
\* What the user does in the form to log in and in the dialog for a new key.
LEMMA SessionForms ==
  ASSUME CallsOK, SessionInv, LoginForm \/ OpenChangePass \/ ChangePassword
  PROVE  CallsOK' /\ SessionInv'
<1>1. ASSUME NEW op, NEW arg, UserSends(<<Call(op, arg)>>), LiveOn(op, page), page' = page,
             UNCHANGED <<token, account, secret, since>>, op \in {"Login", "SetAuth"},
             arg.secret \in Secrets \/ op = "SetAuth", arg.new \in Secrets \/ op = "Login"
      PROVE  CallsOK' /\ SessionCallsOK' /\ KeysCurrent'
  <2>1. CallsOK' /\ Of(calls') = Of(calls) \cup {Call(op, arg)}
    BY <1>1, SendKeeps DEF UserSends
  <2>2. SessionCall(Call(op, arg), token, since)
    BY <1>1, NewCall DEF SessionCall
  <2>3. SessionCallsOK'
    BY <1>1, <2>1, <2>2 DEF SessionInv, SessionCallsOK
  <2>4. QED
    BY <1>1, <2>1, <2>3 DEF SessionInv, KeysCurrent
<1>2. ASSUME UNCHANGED <<page, token, account, secret, calls>>,
             since' = since \/ since' = [since EXCEPT !.around = FALSE]
      PROVE  CallsOK' /\ SessionCallsOK' /\ KeysCurrent' /\ ObjectsNeedToken'
             /\ DOMAIN since' = DOMAIN since /\ since'.changed = since.changed
  <2>1. /\ DOMAIN since' = {"ended", "changed", "around"}
        /\ since'.ended = since.ended /\ since'.changed = since.changed
    BY <1>2 DEF SessionInv, SessionFields
  <2>2. CallsOK'
    BY <1>2 DEF CallsOK
  <2>3. SessionCallsOK'
    BY <1>2, <2>1 DEF SessionInv, SessionCallsOK, SessionCall
  <2>4. KeysCurrent' /\ ObjectsNeedToken'
    BY <1>2, <2>1 DEF SessionInv, KeysCurrent, ObjectsNeedToken
  <2>5. QED
    BY <2>1, <2>2, <2>3, <2>4 DEF SessionInv, SessionFields
<1>3. CASE LoginForm
  <2>1. PICK s \in Secrets : LoginSubmit(s)
    BY <1>3 DEF LoginForm
  <2>2. CallsOK' /\ SessionCallsOK' /\ KeysCurrent'
    BY <1>1, <2>1 DEF LoginSubmit, LiveOn
  <2>3. SessionFields' /\ ObjectsNeedToken' /\ PrefillWorks'
    BY <2>1 DEF LoginSubmit, SessionInv, SessionFields, Secrets, ObjectsNeedToken, PrefillWorks
  <2>4. QED
    BY <2>2, <2>3 DEF SessionInv
<1>4. CASE OpenChangePass
  <2>1. /\ UNCHANGED <<page, token, account, secret, calls>> /\ page = "fs3"
        /\ since' = [since EXCEPT !.around = FALSE]
        /\ view' = [view EXCEPT !.changePass = TRUE, !.Secretkey = account]
    BY <1>4 DEF OpenChangePass
  <2>2. DOMAIN view' = {"changePass", "Secretkey", "updateBack"} /\ view'.Secretkey = account
    BY <2>1 DEF SessionInv, SessionFields
  <2>3. SessionFields'
    BY <1>2, <2>1, <2>2 DEF SessionInv, SessionFields, Secrets
  <2>4. PrefillWorks'
    BY <1>2, <2>1, <2>2 DEF SessionInv, KeysCurrent, PrefillWorks
  <2>5. QED
    BY <1>2, <2>1, <2>3, <2>4 DEF SessionInv
<1>5. CASE ChangePassword
  <2>1. ASSUME NEW current \in Secrets, NEW s \in Secrets, UpdateKey(current, s)
        PROVE  CallsOK' /\ SessionInv'
    <3>1. CallsOK' /\ SessionCallsOK' /\ KeysCurrent'
      BY <1>1, <2>1 DEF UpdateKey, LiveOn
    <3>2. SessionFields' /\ ObjectsNeedToken' /\ PrefillWorks'
      BY <2>1 DEF UpdateKey, SessionInv, SessionFields, Secrets, ObjectsNeedToken, PrefillWorks
    <3>3. QED
      BY <3>1, <3>2 DEF SessionInv
  <2>2. CASE TypeNewKey \/ GetClose
    <3>1. /\ UNCHANGED <<page, token, account, secret, calls, since>> /\ page = "fs3"
          /\ \/ view' = [view EXCEPT !.updateBack = FALSE]
             \/ view' = [view EXCEPT !.changePass = FALSE]
      BY <2>2 DEF TypeNewKey, GetClose
    <3>2. /\ DOMAIN view' = {"changePass", "Secretkey", "updateBack"}
          /\ view'.Secretkey = view.Secretkey
          /\ view'.changePass => view.changePass
      BY <3>1 DEF SessionInv, SessionFields
    <3>3. SessionFields' /\ PrefillWorks'
      BY <3>1, <3>2 DEF SessionInv, SessionFields, Secrets, PrefillWorks
    <3>4. QED
      BY <1>2, <3>1, <3>3 DEF SessionInv
  <2>3. QED
    BY <1>5, <2>1, <2>2 DEF ChangePassword
<1>6. QED
  BY <1>3, <1>4, <1>5

LEMMA SessionHandles ==
  ASSUME CallsOK, SessionInv, SessionHandler, page' = page
  PROVE  CallsOK' /\ SessionInv'
<1>1. PICK i \in DOMAIN calls : \/ LoggedIn(i) \/ LoginFailed(i) \/ LoggedOut(i)
                              \/ BucketsRefused(i) \/ NothingDone(i) \/ KeyAnswered(i)
  BY DEF SessionHandler
<1>2. CASE LoggedIn(i)
  <2>1. /\ token' \in Secrets /\ account' = token' /\ secret' = secret
        /\ DOMAIN since' = {"ended", "changed", "around"}
        /\ since'.changed = (secret # token')
        /\ since'.around = (page = "fs3" /\ view.changePass)
        /\ \A c \in Of(calls) : SessionCall(c, token', since')
    BY <1>2, Begun
  <2>2. page = "fs3"
    BY <1>2 DEF LoggedIn, Mount
  <2>3. view' = view /\ Done(i, <<>>)
    BY <1>2, <2>2 DEF LoggedIn
  <2>4. CallsOK' /\ Of(calls') \subseteq Of(calls)
    BY <2>3, FinishKeeps
  <2>5. SessionCallsOK'
    BY <2>1, <2>4 DEF SessionCallsOK
  <2>6. SessionFields'
    BY <2>1, <2>2, <2>3 DEF SessionInv, SessionFields, Secrets
  <2>7. KeysCurrent' /\ ObjectsNeedToken'
    BY <2>1, SecretsAreNumbers DEF KeysCurrent, ObjectsNeedToken
  <2>8. PrefillWorks'
    BY <2>1, <2>2, <2>3 DEF PrefillWorks
  <2>9. QED
    BY <2>4, <2>5, <2>6, <2>7, <2>8 DEF SessionInv
<1>3. CASE LoginFailed(i)
  <2>1. /\ Done(i, <<>>) /\ UNCHANGED <<token, account, secret, since>>
        /\ view' = view \/ (page = "login" /\ view' = [view EXCEPT !.loginLoad = FALSE])
    BY <1>3, Underway DEF LoginFailed, Outstanding, MayBe, LiveOn, CountOps, ListOps
  <2>2. CASE view' = view
    BY <2>1, <2>2, SessionFinishes
  <2>3. CASE page = "login" /\ view' = [view EXCEPT !.loginLoad = FALSE]
    <3>1. CallsOK' /\ Of(calls') \subseteq Of(calls)
      BY <2>1, FinishKeeps
    <3>2. SessionCallsOK' /\ KeysCurrent' /\ ObjectsNeedToken'
      BY <2>1, <3>1 DEF SessionInv, SessionCallsOK, KeysCurrent, ObjectsNeedToken
    <3>3. SessionFields' /\ PrefillWorks'
      BY <2>1, <2>3 DEF SessionInv, SessionFields, Secrets, PrefillWorks
    <3>4. QED
      BY <3>1, <3>2, <3>3 DEF SessionInv
  <2>4. QED
    BY <2>1, <2>2, <2>3
<1>4. CASE LoggedOut(i) \/ BucketsRefused(i)
  <2>1. /\ token' = None /\ UNCHANGED <<account, secret, since>>
        /\ page = "login"
        /\ \A c \in Of(calls) : SessionCall(c, token', since')
    BY <1>4, Ended
  <2>2. view' = view /\ calls' = RemoveAt(calls, i)
    BY <1>4, <2>1 DEF LoggedOut, BucketsRefused, FedLogOut, ToLogin
  <2>3. Done(i, <<>>)
    BY <2>2, Removed, ConcatEmptySeq DEF Done, CallsOK, Sequence
  <2>4. CallsOK' /\ Of(calls') \subseteq Of(calls)
    BY <2>3, FinishKeeps
  <2>5. SessionCallsOK'
    BY <2>1, <2>4 DEF SessionCallsOK
  <2>6. SessionFields' /\ KeysCurrent' /\ ObjectsNeedToken' /\ PrefillWorks'
    BY <2>1, <2>2 DEF SessionInv, SessionFields, Secrets, KeysCurrent, ObjectsNeedToken,
                      PrefillWorks
  <2>7. QED
    BY <2>4, <2>5, <2>6 DEF SessionInv
<1>5. CASE NothingDone(i)
  BY <1>5, SessionFinishes DEF NothingDone
<1>6. CASE KeyAnswered(i)
  BY <1>6, SessionFinishes DEF KeyAnswered
<1>7. QED
  BY <1>1, <1>2, <1>3, <1>4, <1>5, <1>6

LEMMA SessionGoes ==
  ASSUME CallsOK, SessionInv, Go
  PROVE  CallsOK' /\ SessionInv'
<1>1. \/ Visits
      \/ Logout
      \/ Turns
      \/ SessionStays
  BY GoSplits
<1>2. CASE SessionStays
  BY <1>2, SessionForms, SessionAnswers, SessionHandles DEF SessionStays, SessionServer
<1>3. QED
  BY <1>1, <1>2, SessionVisits, SessionLogout, SessionMoves DEF Turns

LEMMA SessionStart1 ==
  ASSUME Init
  PROVE  CallsOK /\ SessionInv
<1>1. /\ token \in Secrets \cup {None} /\ account \in Secrets /\ secret \in Secrets
      /\ DOMAIN since = {"ended", "changed", "around"} /\ KeysCurrent
  BY SecretsAreNumbers DEF Init, SessionInit, KeysCurrent
<1> DEFINE Opened(data, cs) == view = data /\ calls = cs
<1>2. \/ page = "login" /\ Opened(LoginView, <<>>)
      \/ page = "fs3" /\ token # None /\ Opened(Fs3View, <<>>)
      \/ page = "myPlans" /\ Opened(MyPlansView, <<ListPlans(1)>>)
      \/ page = "myPlans" /\ Opened(MyPlansView, <<JustAsked, ListPlans(1)>>)
      \/ page = "backupPlans" /\ Opened(BackupPlansView, <<>>)
      \/ page = "myJobs" /\ Opened(MyJobsView, MyJobsCalls)
      \/ page = "dashboard" /\ Opened(DashboardView, DashboardCalls)
  BY DEF Init, SessionStart, StartAt
<1>3. SessionFields /\ ObjectsNeedToken /\ PrefillWorks
  BY <1>1, <1>2 DEF SessionFields, ObjectsNeedToken, PrefillWorks, LoginView, Fs3View
<1>4. /\ Sequence(calls)
      /\ \/ calls = <<>>
         \/ page = "myPlans" /\ Of(calls) \subseteq {ListPlans(1), JustAsked}
         \/ /\ page = "myJobs"
            /\ Of(calls) = {ListCall("ListRebuilds", 1), ListCall("ListBackups", 1)}
         \/ /\ page = "dashboard"
            /\ Of(calls) = {Call("CountBackups", Nothing), Call("CountRebuilds", Nothing)}
  BY <1>2, Empty, Single, Pair DEF MyJobsCalls, DashboardCalls
<1>5. /\ IsCall(JustAsked) /\ JustAsked.op = "AddPlan" /\ ~JustAsked.live
      /\ JustAsked.state = "sent"
  <2> DEFINE c == Call("AddPlan", [Duration |-> Epochs(180)])
  <2>1. JustAsked = Forgotten(c)
    BY DEF JustAsked, Forgotten
  <2>2. QED
    BY <2>1, NewCall, ForgottenCall
<1>6. \A c \in Of(calls) : MayBe(c, page) /\ c.op \notin SessionCallOps
  <2>1. CASE calls = <<>>
    BY <2>1, Empty
  <2>2. ASSUME NEW c, c = ListPlans(1), page = "myPlans"
        PROVE  MayBe(c, page) /\ c.op \notin SessionCallOps
    BY <2>2, NewCall DEF ListPlans, MayBe, LiveOn, SessionCallOps, SessionOps
  <2>3. MayBe(JustAsked, page) /\ JustAsked.op \notin SessionCallOps
    BY <1>5 DEF MayBe, Orphaned, Writes, SessionCallOps, SessionOps
  <2>4. ASSUME NEW op \in ListOps, NEW c, c = ListCall(op, 1), page = "myJobs"
        PROVE  MayBe(c, page) /\ c.op \notin SessionCallOps
    BY <2>4, NewCall DEF ListCall, ListOps, MayBe, LiveOn, SessionCallOps, SessionOps
  <2>5. ASSUME NEW op \in CountOps, NEW c, c = Call(op, Nothing), page = "dashboard"
        PROVE  MayBe(c, page) /\ c.op \notin SessionCallOps
    BY <2>5, NewCall DEF CountOps, MayBe, LiveOn, SessionCallOps, SessionOps
  <2>6. QED
    BY <1>4, <2>1, <2>2, <2>3, <2>4, <2>5 DEF ListOps, CountOps
<1>7. CallsOK
  BY <1>4, <1>6 DEF CallsOK
<1>8. SessionCallsOK
  BY <1>6 DEF SessionCallsOK, SessionCall, SessionCallOps, SessionOps
<1>9. QED
  BY <1>1, <1>3, <1>7, <1>8 DEF SessionInv
----------------------------------------------------------------------------
(* The plans.                                                              *)

MyPlansFields == {"plan_list", "ruleForm", "dialogVisible", "deleteConfirm", "loading",
                  "offset", "total", "timers", "chosen", "behind"}
BackupPlansFields == {"duration", "checking", "loading", "dialogVisible", "dialogConfirm",
                      "edited"}
Typed == Days \cup {NaN, 0}
Statuses == {"Enabled", "Disabled", "Deleted"}

PlansFields ==
    /\ plans \in Seq([Status : Statuses, Duration : Int])
    /\ DOMAIN asked = {"of", "mixed", "raced"}
    /\ page = "myPlans" => DOMAIN view = MyPlansFields
    /\ page = "backupPlans" => /\ DOMAIN view = BackupPlansFields
                               /\ view.duration \in Typed /\ view.checking \in Seq(Typed)

Long(duration) == duration = NaN \/ duration >= 180 * EpochsPerDay
Made(duration) == \E p \in DOMAIN plans : plans[p].Duration = duration
Wanted(ID, status) == <<ID, status>> \in asked.of

\* A request is what the user asked for, when it is served.
PlanCall(c) ==
    /\ c.op = "UpdatePlan" => /\ c.arg.Status \in Statuses
                              /\ asked.mixed \/ Wanted(c.arg.ID, c.arg.Status)
    /\ c.op = "AddPlan" => /\ c.arg.Duration \in Int
                           /\ asked.raced \/ Long(c.arg.Duration)
                           /\ c.state = "answered" => Made(c.arg.Duration)
                           /\ onBackupPlans /\ ~view.edited /\ c.live
                                => c.arg.Duration = Epochs(view.duration)
PlanCallsOK == \A c \in Of(calls) : PlanCall(c)

\* The dialogs are about the plan the user chose.
PlanChosen == onMyPlans /\ planDialog => asked.mixed \/ view.ruleForm.ID = view.chosen

\* While no update is under way that is going to ask for a new list, the last
\* list that was asked for is that of the page shown, and current once it is
\* answered; without one the list shown is.
Asks(c) == c.op = "UpdatePlan" /\ c.live
PlanListOK ==
    (onMyPlans /\ ~view.behind /\ \A c \in Of(calls) : ~Asks(c)) =>
      LET current == PageOf(ListedPlans, view.offset - 1, PlanLimit) IN
        /\ (\A c \in Of(calls) : c.op # "ListPlans") => view.plan_list = current
        /\ \A c \in LastOf(calls, "ListPlans") :
             /\ c.arg.Offset = view.offset - 1
             /\ c.state = "answered" => c.reply.list = current

PlansInv == /\ PlansFields /\ PlanCallsOK /\ PlanChosen /\ PlanListOK
            /\ PlansLastLong /\ SummaryShowsPlan

LEMMA PlansElsewhere ==
  ASSUME PlansInv, page' = page, UNCHANGED planVars,
         page \in {"myPlans", "backupPlans"} => view' = view,
         \A c \in Of(calls') : c.op \in PlanOps => c \in Of(calls),
         \A c \in Of(calls) : c.op = "ListPlans" \/ Asks(c) => c \in Of(calls'),
         LastOf(calls', "ListPlans") \subseteq LastOf(calls, "ListPlans")
  PROVE  PlansInv'
<1>1. UNCHANGED <<plans, asked>>
  BY DEF planVars
<1>2. PlansFields' /\ PlanChosen' /\ PlansLastLong' /\ SummaryShowsPlan'
  BY <1>1 DEF PlansInv, PlansFields, PlanChosen, onMyPlans, planDialog,
              PlansLastLong, SummaryShowsPlan, onBackupPlans
<1>3. PlanCallsOK'
  <2>1. ASSUME NEW c \in Of(calls') PROVE PlanCall(c)'
    <3>1. CASE c.op \in PlanOps
      <4>1. PlanCall(c)
        BY <3>1 DEF PlansInv, PlanCallsOK
      <4>2. QED
        BY <1>1, <4>1 DEF PlanCall, Wanted, Made, onBackupPlans
    <3>2. CASE c.op \notin PlanOps
      BY <3>2 DEF PlanCall, PlanOps
    <3>3. QED
      BY <3>1, <3>2
  <2>2. QED
    BY <2>1 DEF PlanCallsOK
<1>4. PlanListOK'
  <2>1. CASE onMyPlans /\ ~view.behind /\ \A c \in Of(calls) : ~Asks(c)
    <3>1. view' = view
      BY <2>1 DEF onMyPlans
    <3>2. PlanListOK
      BY DEF PlansInv
    <3>3. ListedPlans' = ListedPlans
      BY <1>1 DEF ListedPlans
    <3>4. QED
      BY <2>1, <3>1, <3>2, <3>3 DEF PlanListOK, onMyPlans
  <2>2. CASE ~(onMyPlans /\ ~view.behind /\ \A c \in Of(calls) : ~Asks(c))
    BY <2>2 DEF PlanListOK, onMyPlans, Asks
  <2>3. QED
    BY <2>1, <2>2
<1>5. QED
  BY <1>2, <1>3, <1>4 DEF PlansInv

\* The requests of the other pages are none of these.
LEMMA PlansSame ==
  ASSUME PlansInv, page' = page, UNCHANGED planVars,
         page \in {"myPlans", "backupPlans"} => view' = view, Same(PlanOps)
  PROVE  PlansInv'
BY PlansElsewhere DEF Same, PlanOps, Asks

LEMMA PlansDropped ==
  ASSUME CallsOK, PlansInv, NEW i \in DOMAIN calls, Dropped(i)
  PROVE  CallsOK' /\ PlansInv'
<1>1. Done(i, <<>>) /\ ~calls[i].live /\ UNCHANGED <<page, view, plans, asked>>
  BY DEF Dropped
<1>2. calls[i].op # "ListPlans"
  BY <1>1, Underway DEF Dropped, MayBe, Orphaned, Writes
<1>3. CallsOK' /\ Of(calls') \subseteq Of(calls) /\ \A c \in Of(calls) : c \in Of(calls') \/ c = calls[i]
  BY <1>1, FinishKeeps
<1>4. Same({"ListPlans"})
  BY <1>1, <1>2, Finished
<1>5. QED
  BY <1>1, <1>2, <1>3, <1>4, PlansElsewhere DEF planVars, Same, Asks

LEMMA PlansOpens ==
  ASSUME PlansInv, NEW old, Opens(old), UNCHANGED planVars,
         \A c \in old : c.op \notin {"GetDiscoveryDoc", "ListBuckets"} => c \in Of(calls),
         \A c \in old : MayBe(c, page)
  PROVE  PlansInv'
<1>1. UNCHANGED <<plans, asked>>
  BY DEF planVars
<1>2. PICK new :
        /\ Left(old, new)
        /\ \A d \in new : d.op \in JobOps \/ (page' = "myPlans" /\ d = ListPlans(1))
        /\ page' = "myPlans" => ListPlans(1) \in new
  <2>1. {"ListBackups", "ListRebuilds", "CountBackups", "CountRebuilds"} \subseteq JobOps
    BY DEF JobOps, ListOps, CountOps
  <2>2. ListOps \subseteq JobOps
    BY DEF JobOps
  <2>3. QED
    BY <2>1, <2>2, NewCall DEF Opens, ListCall
<1>3. /\ page' = "myPlans" => view' = MyPlansView
      /\ page' = "backupPlans" => view' = BackupPlansView
  BY DEF Opens
<1>4. ASSUME NEW d \in Of(calls'), d.op \in PlanOps
      PROVE  \/ page' = "myPlans" /\ d = ListPlans(1)
             \/ \E c \in Of(calls) : /\ d.op = c.op /\ d.arg = c.arg /\ d.state = "sent"
                                     /\ ~d.live /\ c.op \in Writes
  <2>1. d.op \notin JobOps /\ d.op \notin {"GetDiscoveryDoc", "ListBuckets", "Login"}
    BY <1>4 DEF PlanOps, JobOps, ListOps, CountOps
  <2>2. ASSUME NEW c \in old, d = Forgotten(c), Orphaned(c)
        PROVE  c \in Of(calls) /\ d.op = c.op /\ d.arg = c.arg /\ d.state = "sent"
               /\ ~d.live /\ c.op \in Writes
    BY <2>1, <2>2, ForgottenCall DEF MayBe, Orphaned
  <2>3. QED
    BY <1>2, <2>1, <2>2, HomesCall DEF Left
<1>5. PlansFields'
  <2>1. page' = "myPlans" => DOMAIN view' = MyPlansFields
    BY <1>3 DEF MyPlansView, MyPlansFields
  <2>2. page' = "backupPlans" => /\ DOMAIN view' = BackupPlansFields
                                /\ view'.duration = 0 /\ view'.checking = <<>>
    BY <1>3 DEF BackupPlansView, BackupPlansFields
  <2>3. 0 \in Typed /\ <<>> \in Seq(Typed)
    BY EmptySeq DEF Typed
  <2>4. Typed' = Typed
    BY DEF Typed
  <2>5. QED
    BY <1>1, <2>1, <2>2, <2>3, <2>4 DEF PlansInv, PlansFields
<1>6. PlanCallsOK'
  <2>1. ASSUME NEW d \in Of(calls') PROVE PlanCall(d)'
    <3>1. CASE d.op \notin PlanOps
      BY <3>1 DEF PlanCall, PlanOps
    <3>2. CASE d = ListPlans(1)
      BY <3>2, NewCall DEF ListPlans, PlanCall
    <3>3. ASSUME NEW c \in Of(calls), d.op = c.op, d.arg = c.arg, d.state = "sent", ~d.live
          PROVE  PlanCall(d)'
      <4>1. PlanCall(c)
        BY DEF PlansInv, PlanCallsOK
      <4>2. QED
        BY <1>1, <3>3, <4>1 DEF PlanCall, Wanted
    <3>4. QED
      BY <1>4, <3>1, <3>2, <3>3
  <2>2. QED
    BY <2>1 DEF PlanCallsOK
<1>7. PlanChosen' /\ SummaryShowsPlan'
  BY <1>3 DEF PlanChosen, onMyPlans, planDialog, SummaryShowsPlan, onBackupPlans, MyPlansView,
              BackupPlansView
<1>8. PlanListOK'
  <2>1. CASE page' = "myPlans"
    <3>1. view'.offset = 1
      BY <1>3, <2>1 DEF MyPlansView
    <3>2. ListPlans(1) \in Of(calls') /\ ListPlans(1).op = "ListPlans"
          /\ ListPlans(1).arg.Offset = 1 - 1 /\ ListPlans(1).state = "sent"
      <4>1. ListPlans(1) \in new
        BY <1>2, <2>1
      <4>2. QED
        BY <1>2, <4>1, NewCall DEF Left, ListPlans
    <3>3. \A c \in LastOf(calls', "ListPlans") : c = ListPlans(1)
      <4>1. \A c \in LastOf(calls', "ListPlans") : c \in Of(calls') /\ c.op = "ListPlans"
        BY DEF LastOf, Of
      <4>2. QED
        BY <1>4, <4>1 DEF PlanOps, Writes
    <3>4. QED
      BY <3>1, <3>2, <3>3 DEF PlanListOK
  <2>2. CASE page' # "myPlans"
    BY <2>2 DEF PlanListOK, onMyPlans
  <2>3. QED
    BY <2>1, <2>2
<1>9. PlansLastLong'
  BY <1>1 DEF PlansInv, PlansLastLong
<1>10. QED
  BY <1>5, <1>6, <1>7, <1>8, <1>9 DEF PlansInv
\* What is asked for stays asked for, and what is made stays made.
LEMMA PlanCallStays ==
  ASSUME NEW c, PlanCall(c), asked.of \subseteq asked'.of,
         asked.mixed => asked'.mixed, asked.raced => asked'.raced,
         \A duration : Made(duration) => Made(duration)',
         page' # "backupPlans" \/ (page' = page /\ view' = view)
  PROVE  PlanCall(c)'
<1>1. Made(c.arg.Duration) => Made(c.arg.Duration)'
  OBVIOUS
<1>2. QED
  BY <1>1 DEF PlanCall, Wanted, onBackupPlans

LEMMA MadeIsPlans == plans' = plans => \A duration : Made(duration) => Made(duration)'
BY DEF Made

\* On My Plans, what is not about its list or the dialogs.
LEMMA OnMyPlans ==
  ASSUME PlansInv, page = "myPlans", page' = page, plans' = plans,
         DOMAIN view' = MyPlansFields, DOMAIN asked' = {"of", "mixed", "raced"},
         asked.of \subseteq asked'.of, asked.mixed => asked'.mixed, asked'.raced = asked.raced
  PROVE  /\ PlansFields' /\ PlansLastLong' /\ SummaryShowsPlan'
         /\ \A c \in Of(calls) : PlanCall(c)'
<1>1. PlansFields'
  BY DEF PlansInv, PlansFields, MyPlansFields
<1>2. PlansLastLong' /\ SummaryShowsPlan'
  BY DEF PlansInv, PlansLastLong, SummaryShowsPlan, onBackupPlans
<1>3. \A c \in Of(calls) : PlanCall(c)'
  BY PlanCallStays, MadeIsPlans DEF PlansInv, PlanCallsOK
<1>4. QED
  BY <1>1, <1>2, <1>3

LEMMA MyPlansLooks ==
  ASSUME CallsOK, PlansInv, page = "myPlans", page' = page, UNCHANGED <<plans, calls, asked>>,
         \/ \E k \in PlanCards : planSubmit(k) \/ deleteAct(k)
         \/ handleClose \/ closeDelete \/ PlansTimer
  PROVE  CallsOK' /\ PlansInv'
<1>1. DOMAIN view = MyPlansFields
  BY DEF PlansInv, PlansFields
<1>2. /\ DOMAIN view' = MyPlansFields
      /\ view'.behind = view.behind /\ view'.offset = view.offset
      /\ view'.plan_list = view.plan_list
      /\ \/ view'.ruleForm.ID = view'.chosen
         \/ /\ view'.ruleForm = view.ruleForm /\ view'.chosen = view.chosen
            /\ view'.dialogVisible => view.dialogVisible
            /\ view'.deleteConfirm => view.deleteConfirm
  <2>1. ASSUME NEW k \in PlanCards, planSubmit(k) \/ deleteAct(k) PROVE <1>2
    BY <1>1, <2>1 DEF planSubmit, deleteAct, MyPlansFields
  <2>2. CASE handleClose \/ closeDelete \/ PlansTimer
    BY <1>1, <2>2 DEF handleClose, closeDelete, PlansTimer, MyPlansFields
  <2>3. QED
    BY <2>1, <2>2
<1>3. DOMAIN asked' = {"of", "mixed", "raced"}
  BY DEF PlansInv, PlansFields
<1>4. /\ PlansFields' /\ PlansLastLong' /\ SummaryShowsPlan'
      /\ \A c \in Of(calls) : PlanCall(c)'
  BY <1>2, <1>3, OnMyPlans
<1>5. PlanChosen'
  BY <1>2 DEF PlansInv, PlanChosen, onMyPlans, planDialog
<1>6. PlanListOK'
  <2>1. ListedPlans' = ListedPlans
    BY DEF ListedPlans
  <2>2. QED
    BY <1>2, <2>1 DEF PlansInv, PlanListOK, onMyPlans, Asks
<1>7. QED
  BY <1>4, <1>5, <1>6 DEF PlansInv, PlanCallsOK, CallsOK

LEMMA PagesPlans ==
  ASSUME CallsOK, PlansInv, page = "myPlans", page' = page, plans' = plans, PlanPager
  PROVE  CallsOK' /\ PlansInv'
<1>1. PICK val : handleCurrentChange(val)
  BY DEF PlanPager
<1>2. /\ view' = Loading(view, val) /\ calls' = calls \o <<ListPlans(val)>> /\ asked' = asked
  BY <1>1 DEF handleCurrentChange, UserSends
<1>3. DOMAIN view = MyPlansFields
  BY DEF PlansInv, PlansFields
<1>4. /\ DOMAIN view' = MyPlansFields /\ view'.offset = val
      /\ view'.ruleForm = view.ruleForm /\ view'.chosen = view.chosen
      /\ view'.dialogVisible = view.dialogVisible /\ view'.deleteConfirm = view.deleteConfirm
  BY <1>2, <1>3 DEF Loading, MyPlansFields
<1>5. /\ PlansFields' /\ PlansLastLong' /\ SummaryShowsPlan'
      /\ \A c \in Of(calls) : PlanCall(c)'
  BY <1>2, <1>4, OnMyPlans DEF PlansInv, PlansFields
<1>6. CallsOK' /\ Of(calls') = Of(calls) \cup {ListPlans(val)}
  BY <1>2, SendKeeps DEF ListPlans, LiveOn
<1>7. /\ ListPlans(val).op = "ListPlans" /\ ListPlans(val).arg.Offset = val - 1
      /\ ListPlans(val).state = "sent"
  BY NewCall DEF ListPlans
<1>8. PlanCallsOK'
  BY <1>5, <1>6, <1>7 DEF PlanCallsOK, PlanCall
<1>9. PlanChosen'
  BY <1>2, <1>4 DEF PlansInv, PlanChosen, onMyPlans, planDialog
<1>10. PlanListOK'
  <2>1. \A c \in LastOf(calls', "ListPlans") : c = ListPlans(val)
    <3>1. Sequence(<<ListPlans(val)>>) /\ Of(<<ListPlans(val)>>) = {ListPlans(val)}
      BY Single
    <3>2. QED
      BY <1>2, <1>7, <3>1, LastOfJoined, LastOfSingle DEF CallsOK
  <2>2. QED
    BY <1>4, <1>6, <1>7, <2>1 DEF PlanListOK
<1>11. QED
  BY <1>5, <1>6, <1>8, <1>9, <1>10 DEF PlansInv

\* The buttons of the dialogs that ask for an update.
LEMMA UpdatesPlan ==
  ASSUME CallsOK, PlansInv, page = "myPlans", page' = page, plans' = plans,
         NEW delete \in BOOLEAN, planStatus(view.ruleForm, delete), planDialog,
         AsksFor(NewStatus(view.ruleForm, delete))
  PROVE  CallsOK' /\ PlansInv'
<1> DEFINE status == NewStatus(view.ruleForm, delete)
           arg == [ID |-> view.ruleForm.ID, Status |-> status]
           new == Call("UpdatePlan", arg)
<1>1. /\ view' = [view EXCEPT !.deleteConfirm = FALSE, !.dialogVisible = FALSE,
                             !.loading = TRUE]
      /\ calls' = calls \o <<new>>
      /\ asked' = [asked EXCEPT !.of = @ \cup {<<view.chosen, status>>}]
  BY DEF planStatus, UserSends, AsksFor
<1>2. status \in Statuses
  BY DEF NewStatus, Statuses
<1>3. DOMAIN view = MyPlansFields /\ DOMAIN asked = {"of", "mixed", "raced"}
  BY DEF PlansInv, PlansFields
<1> HIDE DEF status
<1>4. DOMAIN view' = MyPlansFields /\ ~view'.dialogVisible /\ ~view'.deleteConfirm
  BY <1>1, <1>3 DEF MyPlansFields
<1>5. /\ DOMAIN asked' = {"of", "mixed", "raced"}
      /\ asked'.of = asked.of \cup {<<view.chosen, status>>}
      /\ asked'.mixed = asked.mixed /\ asked'.raced = asked.raced
  BY <1>1, <1>3
<1>6. /\ PlansFields' /\ PlansLastLong' /\ SummaryShowsPlan'
      /\ \A c \in Of(calls) : PlanCall(c)'
  BY <1>4, <1>5, OnMyPlans
<1>7. /\ new.op = "UpdatePlan" /\ new.arg.ID = view.ruleForm.ID /\ new.arg.Status = status
      /\ new.live
  BY NewCall
<1>8. CallsOK' /\ Of(calls') = Of(calls) \cup {new}
  BY <1>1, SendKeeps DEF LiveOn
<1> HIDE DEF new
<1>9. ASSUME NEW c, c = new PROVE PlanCall(c)'
  <2>1. asked.mixed \/ view.ruleForm.ID = view.chosen
    BY DEF PlansInv, PlanChosen, onMyPlans
  <2>2. QED
    BY <1>2, <1>5, <1>7, <1>9, <2>1 DEF PlanCall, Wanted
<1>10. PlanCallsOK'
  BY <1>6, <1>8, <1>9 DEF PlanCallsOK
<1>11. PlanChosen'
  BY <1>4 DEF PlanChosen, planDialog
<1>12. PlanListOK'
  BY <1>7, <1>8 DEF PlanListOK, Asks
<1>13. QED
  BY <1>6, <1>8, <1>10, <1>11, <1>12 DEF PlansInv

LEMMA MyPlansUses ==
  ASSUME CallsOK, PlansInv, MyPlansUser
  PROVE  CallsOK' /\ PlansInv'
<1>1. page = "myPlans" /\ page' = page /\ plans' = plans
  BY DEF MyPlansUser, onMyPlans
<1>2. ASSUME NEW k \in PlanCards, planSubmit(k) \/ deleteAct(k) PROVE CallsOK' /\ PlansInv'
  BY <1>1, <1>2, MyPlansLooks DEF planSubmit, deleteAct
<1>3. CASE PlanPager
  BY <1>1, <1>3, PagesPlans
<1>4. CASE PlanDialogs
  <2>1. CASE /\ view.dialogVisible
             /\ planStatus(view.ruleForm, FALSE)
             /\ AsksFor(IF view.ruleForm.Status = "Enabled" THEN "Disabled" ELSE "Enabled")
    <3>1. AsksFor(NewStatus(view.ruleForm, FALSE))
      BY <2>1 DEF NewStatus
    <3>2. QED
      BY <1>1, <2>1, <3>1, UpdatesPlan DEF planDialog
  <2>2. CASE /\ view.deleteConfirm
             /\ planStatus(view.ruleForm, TRUE)
             /\ AsksFor("Deleted")
    <3>1. AsksFor(NewStatus(view.ruleForm, TRUE))
      BY <2>2 DEF NewStatus
    <3>2. QED
      BY <1>1, <2>2, <3>1, UpdatesPlan DEF planDialog
  <2>3. CASE handleClose \/ closeDelete
    BY <1>1, <2>3, MyPlansLooks DEF handleClose, closeDelete
  <2>4. QED
    BY <1>4, <2>1, <2>2, <2>3 DEF PlanDialogs
<1>5. QED
  BY <1>2, <1>3, <1>4 DEF MyPlansUser
\* A list is asked for again.
LEMMA ListsAgain ==
  ASSUME CallsOK, page = "myPlans", page' = page, NEW i \in DOMAIN calls,
         NEW offset, Done(i, <<ListPlans(offset)>>), view'.offset = offset
  PROVE  CallsOK' /\ Of(calls') \subseteq Of(calls) \cup {ListPlans(offset)} /\ PlanListOK'
<1> DEFINE new == ListPlans(offset)
           s == RemoveAt(calls, i)
<1>1. /\ new.op = "ListPlans" /\ new.arg.Offset = offset - 1 /\ new.state = "sent" /\ IsCall(new)
      /\ new.live
  BY NewCall DEF ListPlans
<1>2. Sequence(<<new>>) /\ Of(<<new>>) = {new}
  BY Single
<1>3. MayBe(new, page)
  BY <1>1 DEF MayBe, LiveOn
<1>4. CallsOK' /\ new \in Of(calls') /\ Of(calls') \subseteq Of(calls) \cup {new}
  BY <1>2, <1>3, DoneKeeps
<1>5. Sequence(s) /\ calls' = s \o <<new>>
  BY Removed DEF CallsOK, Done
<1> HIDE DEF s, new
<1>6. \A c \in LastOf(calls', "ListPlans") : c = new
  BY <1>1, <1>2, <1>5, LastOfJoined, LastOfSingle
<1>7. PlanListOK'
  BY <1>1, <1>4, <1>6 DEF PlanListOK
<1>8. QED
  BY <1>4, <1>7 DEF new

LEMMA ListsPlans ==
  ASSUME CallsOK, PlansInv, page = "myPlans", page' = page, plans' = plans,
         NEW i \in DOMAIN calls, PlansListed(i)
  PROVE  CallsOK' /\ PlansInv'
<1> DEFINE answer == Answer(i)
           last == Pages(answer.total, PlanLimit)
           shown == [view EXCEPT !.total = answer.total, !.plan_list = answer.list,
                                 !.timers = @ + 1, !.behind = @ \/ Earlier(i) # {}]
<1>1. DOMAIN view = MyPlansFields
  BY DEF PlansInv, PlansFields
<1>2. /\ DOMAIN shown = MyPlansFields /\ shown.offset = view.offset
      /\ shown.plan_list = answer.list /\ shown.behind = (view.behind \/ Earlier(i) # {})
      /\ shown.ruleForm = view.ruleForm /\ shown.chosen = view.chosen
      /\ shown.dialogVisible = view.dialogVisible /\ shown.deleteConfirm = view.deleteConfirm
  BY <1>1 DEF MyPlansFields
<1>3. /\ calls[i].op = "ListPlans" /\ calls[i].state = "answered" /\ asked' = asked
      /\ \/ view' = shown /\ Done(i, <<>>)
         \/ view' = Loading(shown, last) /\ Done(i, <<ListPlans(last)>>)
  BY DEF PlansListed, IsAnswered
<1> HIDE DEF shown, last
<1>4. /\ DOMAIN view' = MyPlansFields
      /\ view'.ruleForm = view.ruleForm /\ view'.chosen = view.chosen
      /\ view'.dialogVisible = view.dialogVisible /\ view'.deleteConfirm = view.deleteConfirm
      /\ view' = Loading(shown, last) => view'.offset = last
  BY <1>2, <1>3 DEF Loading, MyPlansFields
<1>5. /\ PlansFields' /\ PlansLastLong' /\ SummaryShowsPlan'
      /\ \A c \in Of(calls) : PlanCall(c)'
  BY <1>3, <1>4, OnMyPlans DEF PlansInv, PlansFields
<1>6. PlanChosen'
  BY <1>3, <1>4 DEF PlansInv, PlanChosen, onMyPlans, planDialog
<1>7. CASE view' = shown /\ Done(i, <<>>)
  <2>1. /\ CallsOK' /\ Of(calls') \subseteq Of(calls)
        /\ \A c \in Of(calls) : c \in Of(calls') \/ c = calls[i]
    BY <1>7, FinishKeeps
  <2>2. Sequence(calls) /\ DOMAIN calls = 1..Len(calls) /\ Len(calls) \in Nat
    BY Indices DEF CallsOK
  <2>3. calls' = RemoveAt(calls, i)
    BY <1>7, <2>2, Removed, ConcatEmptySeq DEF Done, Sequence
  <2>4. PlanListOK'
    <3>1. SUFFICES ASSUME ~view'.behind, \A c \in Of(calls') : ~Asks(c)
                   PROVE  LET current == PageOf(ListedPlans, view.offset - 1, PlanLimit) IN
                     /\ (\A c \in Of(calls') : c.op # "ListPlans") => view'.plan_list = current
                     /\ \A c \in LastOf(calls', "ListPlans") :
                          /\ c.arg.Offset = view.offset - 1
                          /\ c.state = "answered" => c.reply.list = current
      <4>1. ListedPlans' = ListedPlans /\ view'.offset = view.offset
        BY <1>2, <1>7 DEF ListedPlans
      <4>2. QED
        BY <4>1 DEF PlanListOK, Asks
    <3> DEFINE current == PageOf(ListedPlans, view.offset - 1, PlanLimit)
    <3>2. ~view.behind /\ Earlier(i) = {} /\ \A c \in Of(calls) : ~Asks(c)
      BY <1>2, <1>3, <1>7, <2>1, <3>1 DEF Asks
    <3>3. \A c \in LastOf(calls, "ListPlans") :
             /\ c.arg.Offset = view.offset - 1
             /\ c.state = "answered" => c.reply.list = current
      BY <3>2 DEF PlansInv, PlanListOK, onMyPlans
    <3>4. \A j \in DOMAIN calls : j < i => calls[j].op # "ListPlans"
      BY <1>3, <3>2 DEF Earlier, Outstanding
    <3>5. LastOf(calls', "ListPlans") \subseteq LastOf(calls, "ListPlans")
      BY <2>2, <2>3, <3>4, LastOfRemoved
    <3>6. ASSUME \A c \in Of(calls') : c.op # "ListPlans" PROVE view'.plan_list = current
      <4>1. \A j \in DOMAIN calls : j # i => calls[j].op # "ListPlans"
        BY <2>2, <2>3, <3>6, Removed
      <4>2. calls[i] \in LastOf(calls, "ListPlans")
        BY <1>3, <4>1 DEF LastOf
      <4>3. QED
        BY <1>2, <1>3, <1>7, <3>3, <4>2 DEF Answer
    <3>7. QED
      BY <3>3, <3>5, <3>6
  <2>5. QED
    BY <1>5, <1>6, <2>1, <2>4 DEF PlansInv, PlanCallsOK
<1>8. CASE view' = Loading(shown, last) /\ Done(i, <<ListPlans(last)>>)
  <2>1. CallsOK' /\ Of(calls') \subseteq Of(calls) \cup {ListPlans(last)} /\ PlanListOK'
    BY <1>4, <1>8, ListsAgain
  <2>2. PlanCallsOK'
    BY <1>5, <2>1, NewCall DEF PlanCallsOK, PlanCall, ListPlans
  <2>3. QED
    BY <1>5, <1>6, <2>1, <2>2 DEF PlansInv
<1>9. QED
  BY <1>3, <1>7, <1>8

LEMMA PlansAreUpdated ==
  ASSUME CallsOK, PlansInv, page = "myPlans", page' = page, plans' = plans,
         NEW i \in DOMAIN calls, PlanUpdated(i)
  PROVE  CallsOK' /\ PlansInv'
<1> DEFINE offset == view.offset
<1>1. DOMAIN view = MyPlansFields /\ DOMAIN asked = {"of", "mixed", "raced"}
  BY DEF PlansInv, PlansFields
<1>2. /\ view' = [Loading(view, offset) EXCEPT !.ruleForm = Answer(i)]
      /\ asked' = [asked EXCEPT !.mixed = @ \/ (planDialog /\ Answer(i).ID # view.chosen)]
      /\ Done(i, <<ListPlans(offset)>>)
  BY DEF PlanUpdated
<1>3. /\ DOMAIN view' = MyPlansFields /\ view'.offset = offset
      /\ view'.ruleForm = Answer(i) /\ view'.chosen = view.chosen
      /\ view'.dialogVisible = view.dialogVisible /\ view'.deleteConfirm = view.deleteConfirm
  BY <1>1, <1>2 DEF Loading, MyPlansFields
<1>4. /\ DOMAIN asked' = {"of", "mixed", "raced"}
      /\ asked'.mixed = (asked.mixed \/ (planDialog /\ Answer(i).ID # view.chosen))
      /\ asked'.of = asked.of /\ asked'.raced = asked.raced
  BY <1>1, <1>2
<1>5. /\ PlansFields' /\ PlansLastLong' /\ SummaryShowsPlan'
      /\ \A c \in Of(calls) : PlanCall(c)'
  BY <1>3, <1>4, OnMyPlans
<1>6. PlanChosen'
  BY <1>3, <1>4 DEF PlanChosen, planDialog
<1>7. CallsOK' /\ Of(calls') \subseteq Of(calls) \cup {ListPlans(offset)} /\ PlanListOK'
  BY <1>2, <1>3, ListsAgain
<1>8. PlanCallsOK'
  BY <1>5, <1>7, NewCall DEF PlanCallsOK, PlanCall, ListPlans
<1>9. QED
  BY <1>5, <1>6, <1>7, <1>8 DEF PlansInv

LEMMA PlansAreFailed ==
  ASSUME CallsOK, PlansInv, page = "myPlans", page' = page, plans' = plans,
         NEW i \in DOMAIN calls, PlansFailed(i)
  PROVE  CallsOK' /\ PlansInv'
<1>1. DOMAIN view = MyPlansFields
  BY DEF PlansInv, PlansFields
<1>2. /\ view' = [view EXCEPT !.loading = FALSE, !.behind = TRUE] /\ asked' = asked
      /\ (calls[i].op = "UpdatePlan" /\ GivenUp(i)) \/ Done(i, <<>>)
  BY DEF PlansFailed
<1>3. /\ DOMAIN view' = MyPlansFields /\ view'.behind
      /\ view'.ruleForm = view.ruleForm /\ view'.chosen = view.chosen
      /\ view'.dialogVisible = view.dialogVisible /\ view'.deleteConfirm = view.deleteConfirm
  BY <1>1, <1>2 DEF MyPlansFields
<1>4. /\ PlansFields' /\ PlansLastLong' /\ SummaryShowsPlan'
      /\ \A c \in Of(calls) : PlanCall(c)'
  BY <1>2, <1>3, OnMyPlans DEF PlansInv, PlansFields
<1>5. PlanChosen' /\ PlanListOK'
  BY <1>2, <1>3 DEF PlansInv, PlanChosen, onMyPlans, planDialog, PlanListOK
<1>6. CallsOK' /\ PlanCallsOK'
  <2>1. CASE Done(i, <<>>)
    BY <1>4, <2>1, FinishKeeps DEF PlanCallsOK
  <2>2. CASE calls[i].op = "UpdatePlan" /\ GivenUp(i)
    <3>1. CallsOK' /\ Of(calls') \subseteq Of(calls) \cup {Forgotten(calls[i])}
      BY <2>2, GivenUpKeeps DEF Writes
    <3>2. ASSUME NEW c, c = Forgotten(calls[i]) PROVE PlanCall(c)'
      BY <1>4, <3>2, Underway, ForgottenCall DEF PlanCall
    <3>3. QED
      BY <1>4, <3>1, <3>2 DEF PlanCallsOK
  <2>3. QED
    BY <1>2, <2>1, <2>2
<1>7. QED
  BY <1>4, <1>5, <1>6 DEF PlansInv

LEMMA MyPlansHandles ==
  ASSUME CallsOK, PlansInv, MyPlansHandler
  PROVE  CallsOK' /\ PlansInv'
<1>1. page = "myPlans" /\ page' = page /\ plans' = plans
  BY DEF MyPlansHandler, onMyPlans
<1>2. CASE PlansTimer
  BY <1>1, <1>2, MyPlansLooks DEF PlansTimer
<1>3. QED
  BY <1>1, <1>2, ListsPlans, PlansAreUpdated, PlansAreFailed DEF MyPlansHandler
\* On Backup Plans, what is not about the form or the dialogs.
LEMMA OnBackupPlans ==
  ASSUME PlansInv, page = "backupPlans", page' = page, plans' = plans,
         DOMAIN view' = BackupPlansFields, view'.duration \in Typed, view'.checking \in Seq(Typed),
         DOMAIN asked' = {"of", "mixed", "raced"},
         asked'.of = asked.of, asked'.mixed = asked.mixed, asked.raced => asked'.raced
  PROVE  /\ PlansFields' /\ PlanChosen' /\ PlanListOK' /\ PlansLastLong'
         /\ view'.duration = view.duration /\ view'.edited = view.edited =>
              /\ \A c \in Of(calls) : PlanCall(c)'
              /\ (view'.dialogVisible => view.dialogVisible) => SummaryShowsPlan'
<1>1. PlansFields'
  <2>1. Typed' = Typed /\ Statuses' = Statuses
    BY DEF Typed, Statuses
  <2>2. QED
    BY <2>1 DEF PlansInv, PlansFields
<1>2. PlanChosen' /\ PlanListOK' /\ PlansLastLong'
  BY DEF PlansInv, PlanChosen, PlanListOK, onMyPlans, PlansLastLong
<1>3. ASSUME view'.duration = view.duration, view'.edited = view.edited, NEW c \in Of(calls)
      PROVE  PlanCall(c)'
  <2>1. PlanCall(c)
    BY DEF PlansInv, PlanCallsOK
  <2>2. Made(c.arg.Duration) => Made(c.arg.Duration)'
    BY MadeIsPlans
  <2>3. QED
    BY <1>3, <2>1, <2>2 DEF PlanCall, Wanted, onBackupPlans
<1>4. ASSUME view'.duration = view.duration, view'.edited = view.edited,
             view'.dialogVisible => view.dialogVisible
      PROVE  SummaryShowsPlan'
  BY <1>4 DEF PlansInv, SummaryShowsPlan, onBackupPlans, Epochs
<1>5. QED
  BY <1>1, <1>2, <1>3, <1>4

LEMMA BackupPlansUses ==
  ASSUME CallsOK, PlansInv, BackupPlansUser
  PROVE  CallsOK' /\ PlansInv'
<1>1. /\ page = "backupPlans" /\ page' = page /\ plans' = plans
      /\ calls' = calls /\ asked' = asked
  BY DEF BackupPlansUser, onBackupPlans, TypeDuration, submitForm, confirmPlan, closeCreated
<1>2. /\ DOMAIN view = BackupPlansFields /\ view.duration \in Typed /\ view.checking \in Seq(Typed)
      /\ DOMAIN asked' = {"of", "mixed", "raced"}
  BY <1>1 DEF PlansInv, PlansFields
<1>3. CallsOK'
  BY <1>1 DEF CallsOK
<1>4. CASE \E d \in Days \cup {NaN} : TypeDuration(d)
  <2>1. PICK d \in Days \cup {NaN} : TypeDuration(d)
    BY <1>4
  <2>2. /\ DOMAIN view' = BackupPlansFields /\ view'.duration \in Typed
        /\ view'.checking = view.checking /\ ~view'.dialogVisible
        /\ view'.edited = (Outstanding({"AddPlan"}) # {})
    BY <1>2, <2>1 DEF TypeDuration, formFree, BackupPlansFields, Typed
  <2>3. PlansFields' /\ PlanChosen' /\ PlanListOK' /\ PlansLastLong'
    BY <1>1, <1>2, <2>2, OnBackupPlans
  <2>4. PlanCallsOK'
    <3>1. ASSUME NEW c \in Of(calls) PROVE PlanCall(c)'
      <4>1. PlanCall(c) /\ (c.op = "AddPlan" => view'.edited)
        BY <2>2 DEF PlansInv, PlanCallsOK, Of, Outstanding
      <4>2. Made(c.arg.Duration) => Made(c.arg.Duration)'
        BY <1>1, MadeIsPlans
      <4>3. QED
        BY <1>1, <4>1, <4>2 DEF PlanCall, Wanted, onBackupPlans
    <3>2. QED
      BY <1>1, <3>1 DEF PlanCallsOK
  <2>5. SummaryShowsPlan'
    BY <2>2 DEF SummaryShowsPlan
  <2>6. QED
    BY <1>3, <2>3, <2>4, <2>5 DEF PlansInv
<1>5. CASE submitForm \/ confirmPlan \/ closeCreated
  <2>1. /\ DOMAIN view' = BackupPlansFields /\ view'.duration = view.duration
        /\ view'.edited = view.edited /\ view'.checking \in Seq(Typed)
        /\ view'.dialogVisible => view.dialogVisible
    <3>1. CASE submitForm
      <4>1. view' = [view EXCEPT !.checking = Append(@, view.duration)]
        BY <3>1 DEF submitForm
      <4>2. Append(view.checking, view.duration) \in Seq(Typed)
        BY <1>2, AppendProperties
      <4>3. QED
        BY <1>2, <4>1, <4>2 DEF BackupPlansFields
    <3>2. CASE confirmPlan \/ closeCreated
      BY <1>2, <3>2 DEF confirmPlan, closeCreated, BackupPlansFields
    <3>3. QED
      BY <1>5, <3>1, <3>2
  <2>2. QED
    BY <1>1, <1>2, <1>3, <2>1, OnBackupPlans DEF PlansInv, PlanCallsOK
<1>6. QED
  BY <1>4, <1>5 DEF BackupPlansUser

LEMMA EpochsAreLong ==
  ASSUME NEW d \in Typed
  PROVE  Epochs(d) \in Int /\ (validateDuration(d) => Long(Epochs(d)))
BY PlanBounds DEF Typed, Epochs, validateDuration, Long, NaN, EpochsPerDay

\* The validators have let a form pass, or not.
LEMMA FormValidated ==
  ASSUME CallsOK, PlansInv, page = "backupPlans", page' = page, plans' = plans, Validated
  PROVE  CallsOK' /\ PlansInv'
<1> DEFINE value == Head(view.checking)
           rest == [view EXCEPT !.checking = Tail(@)]
           new == Call("AddPlan", [Duration |-> Epochs(view.duration)])
<1>1. /\ DOMAIN view = BackupPlansFields /\ view.duration \in Typed /\ view.checking \in Seq(Typed)
      /\ DOMAIN asked = {"of", "mixed", "raced"}
  BY DEF PlansInv, PlansFields
<1>2. value \in Typed /\ Tail(view.checking) \in Seq(Typed)
  BY <1>1, HeadTailProperties DEF Validated
<1>3. /\ DOMAIN rest = BackupPlansFields /\ rest.checking \in Seq(Typed)
      /\ rest.duration = view.duration /\ rest.edited = view.edited
      /\ rest.dialogVisible = view.dialogVisible
  BY <1>1, <1>2 DEF BackupPlansFields
<1>4. \/ /\ validateDuration(value)
         /\ view' = [rest EXCEPT !.loading = TRUE] /\ calls' = Append(calls, new)
         /\ asked' = [asked EXCEPT !.raced = @ \/ view.duration # value]
      \/ view' = rest /\ UNCHANGED <<calls, asked>>
  BY DEF Validated
<1> HIDE DEF rest, value
<1>5. /\ DOMAIN view' = BackupPlansFields /\ view'.checking \in Seq(Typed)
      /\ view'.duration = view.duration /\ view'.edited = view.edited
      /\ view'.dialogVisible = view.dialogVisible
  BY <1>3, <1>4 DEF BackupPlansFields
<1>6. /\ DOMAIN asked' = {"of", "mixed", "raced"} /\ asked'.of = asked.of
      /\ asked'.mixed = asked.mixed
      /\ asked.raced => asked'.raced
      /\ calls' = calls \/ asked'.raced \/ view.duration = value
  BY <1>1, <1>4
<1>7. /\ PlansFields' /\ PlanChosen' /\ PlanListOK' /\ PlansLastLong'
      /\ SummaryShowsPlan' /\ \A c \in Of(calls) : PlanCall(c)'
  BY <1>1, <1>5, <1>6, OnBackupPlans
<1>8. CASE calls' = calls
  BY <1>7, <1>8 DEF PlansInv, PlanCallsOK, CallsOK
<1>9. CASE validateDuration(value) /\ calls' = Append(calls, new)
  <2>1. calls' = calls \o <<new>>
    BY <1>9, Appended DEF CallsOK
  <2>2. CallsOK' /\ Of(calls') = Of(calls) \cup {new}
    BY <2>1, SendKeeps DEF LiveOn
  <2>3. new.op = "AddPlan" /\ new.arg.Duration = Epochs(view.duration) /\ new.state = "sent"
    BY NewCall
  <2> HIDE DEF new
  <2>4. ASSUME NEW c, c = new PROVE PlanCall(c)'
    <3>1. Epochs(view.duration) \in Int /\ (asked'.raced \/ Long(Epochs(view.duration)) \/ calls' = calls)
      BY <1>1, <1>2, <1>6, <1>9, EpochsAreLong
    <3>2. calls' # calls
      BY <2>1, Joined, Single, Indices DEF CallsOK
    <3>3. Epochs(view.duration)' = Epochs(view.duration)
      BY <1>5 DEF Epochs
    <3>4. QED
      BY <2>3, <2>4, <3>1, <3>2, <3>3 DEF PlanCall
  <2>5. QED
    BY <1>7, <2>2, <2>4 DEF PlansInv, PlanCallsOK
<1>10. QED
  BY <1>4, <1>8, <1>9

LEMMA BackupPlansHandles ==
  ASSUME CallsOK, PlansInv, BackupPlansHandler
  PROVE  CallsOK' /\ PlansInv'
<1>1. page = "backupPlans" /\ page' = page /\ plans' = plans
  BY DEF BackupPlansHandler, onBackupPlans
<1>2. /\ DOMAIN view = BackupPlansFields /\ view.duration \in Typed /\ view.checking \in Seq(Typed)
      /\ DOMAIN asked = {"of", "mixed", "raced"}
  BY <1>1 DEF PlansInv, PlansFields
<1>3. ASSUME NEW i \in DOMAIN calls, PlanAdded(i) PROVE CallsOK' /\ PlansInv'
  <2>1. /\ view' = [view EXCEPT !.loading = FALSE, !.dialogVisible = TRUE] /\ Done(i, <<>>)
        /\ asked' = asked /\ calls[i].op = "AddPlan" /\ calls[i].state = "answered"
    BY <1>3 DEF PlanAdded, IsAnswered
  <2>2. /\ DOMAIN view' = BackupPlansFields /\ view'.duration = view.duration
        /\ view'.edited = view.edited /\ view'.checking = view.checking
    BY <1>2, <2>1 DEF BackupPlansFields
  <2>3. /\ PlansFields' /\ PlanChosen' /\ PlanListOK' /\ PlansLastLong'
        /\ \A c \in Of(calls) : PlanCall(c)'
    BY <1>1, <1>2, <2>1, <2>2, OnBackupPlans
  <2>4. CallsOK' /\ Of(calls') \subseteq Of(calls)
    BY <1>1, <2>1, FinishKeeps
  <2>5. calls[i].live /\ PlanCall(calls[i])
    BY <2>1, Underway DEF MayBe, Orphaned, PlansInv, PlanCallsOK
  <2>6. ~view.edited => Made(Epochs(view.duration))
    BY <1>1, <2>1, <2>5 DEF PlanCall, onBackupPlans
  <2>7. SummaryShowsPlan'
    BY <1>1, <2>2, <2>6 DEF Made, SummaryShowsPlan, Epochs
  <2>8. QED
    BY <2>3, <2>4, <2>7 DEF PlansInv, PlanCallsOK
<1>4. ASSUME NEW i \in DOMAIN calls, AddFailed(i) PROVE CallsOK' /\ PlansInv'
  <2>1. /\ view' = [view EXCEPT !.loading = FALSE] /\ GivenUp(i)
        /\ asked' = asked /\ calls[i].op = "AddPlan"
    BY <1>4 DEF AddFailed, Outstanding
  <2>2. /\ DOMAIN view' = BackupPlansFields /\ view'.duration = view.duration
        /\ view'.edited = view.edited /\ view'.checking = view.checking
        /\ view'.dialogVisible = view.dialogVisible
    BY <1>2, <2>1 DEF BackupPlansFields
  <2>3. /\ PlansFields' /\ PlanChosen' /\ PlanListOK' /\ PlansLastLong'
        /\ SummaryShowsPlan' /\ \A c \in Of(calls) : PlanCall(c)'
    BY <1>1, <1>2, <2>1, <2>2, OnBackupPlans
  <2>4. CallsOK' /\ Of(calls') \subseteq Of(calls) \cup {Forgotten(calls[i])}
    BY <1>1, <2>1, GivenUpKeeps DEF Writes
  <2>5. ASSUME NEW c, c = Forgotten(calls[i]) PROVE PlanCall(c)'
    BY <2>3, <2>5, Underway, ForgottenCall DEF PlanCall
  <2>6. QED
    BY <2>3, <2>4, <2>5 DEF PlansInv, PlanCallsOK
<1>5. QED
  BY <1>1, <1>3, <1>4, FormValidated DEF BackupPlansHandler
\* FS3 lists the plans.
LEMMA ServesList ==
  ASSUME CallsOK, PlansInv, NEW i \in DOMAIN calls, PsqlBackupVolumeGetPlans(i), asked' = asked
  PROVE  CallsOK' /\ PlansInv'
<1> DEFINE list == PageOf(ListedPlans, calls[i].arg.Offset, PlanLimit)
           data == [total |-> Len(plans), list |-> list]
           e == WithAnswer(calls[i], data)
<1>1. /\ calls[i].op = "ListPlans" /\ Reply(i, data)
      /\ UNCHANGED <<page, view, plans>>
  BY DEF PsqlBackupVolumeGetPlans, IsSent
<1>2. data.list = list
  OBVIOUS
<1> HIDE DEF data
<1>3. /\ CallsOK' /\ e \in Of(calls') /\ Of(calls') \subseteq Of(calls) \cup {e}
      /\ \A c \in Of(calls) : c \in Of(calls') \/ c = calls[i]
  BY <1>1, ReplyKeeps DEF Writes
<1>4. e.op = "ListPlans" /\ e.arg = calls[i].arg /\ e.reply.list = list
  BY <1>1, <1>2, Underway, AnsweredCall
<1>5. calls' = [calls EXCEPT ![i] = e]
  BY <1>1, Replied DEF CallsOK
<1> HIDE DEF e
<1>6. \A c : Made(c) => Made(c)'
  BY <1>1, MadeIsPlans
<1>7. PlansFields' /\ PlanChosen' /\ PlansLastLong' /\ SummaryShowsPlan'
  BY <1>1 DEF PlansInv, PlansFields, PlanChosen, onMyPlans, planDialog,
              PlansLastLong, SummaryShowsPlan, onBackupPlans
<1>8. PlanCallsOK'
  <2>1. ASSUME NEW c \in Of(calls') PROVE PlanCall(c)'
    <3>1. CASE c \in Of(calls)
      BY <1>1, <1>6, <3>1, PlanCallStays DEF PlansInv, PlanCallsOK
    <3>2. CASE c = e
      BY <1>4, <3>2 DEF PlanCall
    <3>3. QED
      BY <1>3, <3>1, <3>2
  <2>2. QED
    BY <2>1 DEF PlanCallsOK
<1>9. PlanListOK'
  <2>1. ListedPlans' = ListedPlans
    BY <1>1 DEF ListedPlans
  <2>2. SUFFICES ASSUME onMyPlans, ~view.behind, \A c \in Of(calls') : ~Asks(c),
                        NEW c \in LastOf(calls', "ListPlans")
                 PROVE  /\ c.arg.Offset = view.offset - 1
                        /\ c.state = "answered" =>
                             c.reply.list = PageOf(ListedPlans, view.offset - 1, PlanLimit)
    BY <1>1, <1>3, <1>4, <2>1 DEF PlanListOK, onMyPlans, Asks
  <2>3. \A d \in Of(calls) : ~Asks(d)
    BY <1>1, <1>3, <2>2 DEF Asks
  <2>4. \A d \in LastOf(calls, "ListPlans") :
          /\ d.arg.Offset = view.offset - 1
          /\ d.state = "answered" =>
               d.reply.list = PageOf(ListedPlans, view.offset - 1, PlanLimit)
    BY <2>2, <2>3 DEF PlansInv, PlanListOK
  <2>5. c \in LastOf(calls, "ListPlans") \/ (c = e /\ calls[i] \in LastOf(calls, "ListPlans"))
    BY <1>1, <1>4, <1>5, <2>2, LastOfReplaced DEF CallsOK
  <2>6. QED
    BY <1>4, <2>4, <2>5
<1>10. QED
  BY <1>3, <1>7, <1>8, <1>9 DEF PlansInv

\* FS3 writes what a request asks for, which the list that is shown is going to
\* show, or is behind for.
LEMMA ServesWrite ==
  ASSUME CallsOK, PlansInv, NEW i \in DOMAIN calls, NEW data, ReplyIfLive(i, data), Unseen(i),
         page' = page, asked' = asked, calls[i].op \in {"AddPlan", "UpdatePlan"},
         \A duration : Made(duration) => Made(duration)',
         \A d : calls[i].op = "AddPlan" /\ d = calls[i].arg.Duration => Made(d)',
         plans' \in Seq([Status : Statuses, Duration : Int]), PlansLastLong'
  PROVE  CallsOK' /\ PlansInv'
<1> DEFINE c == calls[i]
           e == WithAnswer(c, data)
<1>1. /\ c \in Of(calls) /\ IsCall(c) /\ PlanCall(c)
      /\ c.live => page = IF c.op = "AddPlan" THEN "backupPlans" ELSE "myPlans"
  <2>1. c \in Of(calls) /\ MayBe(c, page)
    BY Underway
  <2>2. QED
    BY <2>1 DEF PlansInv, PlanCallsOK, MayBe, LiveOn, CountOps, ListOps
<1>2. e.op = c.op /\ e.arg = c.arg /\ e.live = c.live
  BY <1>1, AnsweredCall
<1>3. /\ CallsOK' /\ Of(calls') \subseteq Of(calls) \cup {e}
      /\ c.live => e \in Of(calls')
  <2>1. CASE c.live
    BY <2>1, ReplyKeeps DEF ReplyIfLive
  <2>2. CASE ~c.live
    BY <2>2, FinishKeeps DEF ReplyIfLive
  <2>3. QED
    BY <2>1, <2>2
<1>4. /\ view' = view \/ (page = "myPlans" /\ view' = [view EXCEPT !.behind = TRUE])
      /\ page = "myPlans" /\ ~c.live => view' = [view EXCEPT !.behind = TRUE]
  BY DEF Unseen
<1>5. page = "myPlans" => /\ DOMAIN view' = MyPlansFields
                          /\ ~c.live => view'.behind
                          /\ view'.ruleForm = view.ruleForm /\ view'.chosen = view.chosen
                          /\ view'.dialogVisible = view.dialogVisible
                          /\ view'.deleteConfirm = view.deleteConfirm
  <2>1. page = "myPlans" => DOMAIN view = MyPlansFields
    BY DEF PlansInv, PlansFields
  <2>2. QED
    BY <1>4, <2>1 DEF MyPlansFields
<1>6. PlansFields'
  <2>1. Typed' = Typed /\ Statuses' = Statuses
    BY DEF Typed, Statuses
  <2>2. QED
    BY <1>4, <1>5, <2>1 DEF PlansInv, PlansFields
<1>7. PlanChosen'
  BY <1>4, <1>5 DEF PlansInv, PlanChosen, onMyPlans, planDialog
<1>8. PlanCallsOK'
  <2>1. ASSUME NEW d \in Of(calls') PROVE PlanCall(d)'
    <3>1. page # "backupPlans" \/ view' = view
      BY <1>4
    <3>2. CASE d \in Of(calls)
      BY <3>1, <3>2, PlanCallStays DEF PlansInv, PlanCallsOK
    <3>3. CASE d = e
      <4>1. PICK b : b = c
        OBVIOUS
      <4>2. PlanCall(b)'
        BY <1>1, <3>1, <4>1, PlanCallStays
      <4>3. d.op = b.op /\ d.arg = b.arg /\ d.live = b.live
        BY <1>2, <3>3, <4>1
      <4>4. b.op = "AddPlan" => Made(b.arg.Duration)'
        BY <4>1
      <4>5. QED
        BY <4>2, <4>3, <4>4 DEF PlanCall
    <3>4. QED
      BY <1>3, <3>2, <3>3
  <2>2. QED
    BY <2>1 DEF PlanCallsOK
<1>9. PlanListOK'
  BY <1>1, <1>2, <1>3, <1>5 DEF PlanListOK, onMyPlans, Asks
<1>10. SummaryShowsPlan'
  <2>1. ASSUME onBackupPlans', view'.dialogVisible, ~view'.edited
        PROVE  Made(Epochs(view.duration)) /\ view' = view
    BY <1>4, <2>1 DEF PlansInv, SummaryShowsPlan, onBackupPlans, Made
  <2>2. QED
    BY <2>1 DEF SummaryShowsPlan, Made
<1>11. QED
  BY <1>3, <1>6, <1>7, <1>8, <1>9, <1>10 DEF PlansInv

LEMMA ServesAdd ==
  ASSUME CallsOK, PlansInv, NEW i \in DOMAIN calls, PsqlBackupVolumeAddPlan(i), asked' = asked
  PROVE  CallsOK' /\ PlansInv'
<1> DEFINE duration == calls[i].arg.Duration
           plan == [Status |-> "Enabled", Duration |-> duration]
<1>1. /\ calls[i].op = "AddPlan" /\ plans' = Append(plans, plan) /\ page' = page
      /\ Unseen(i) /\ ReplyIfLive(i, [ok |-> TRUE])
  BY DEF PsqlBackupVolumeAddPlan, IsSent
<1>2. /\ PlanCall(calls[i]) /\ plans \in Seq([Status : Statuses, Duration : Int])
      /\ PlansLastLong
  BY Underway DEF PlansInv, PlansFields, PlanCallsOK
<1>3. duration \in Int /\ (asked.raced \/ Long(duration)) /\ plan \in [Status : Statuses, Duration : Int]
  BY <1>1, <1>2 DEF PlanCall, Statuses
<1>4. plan.Duration = duration /\ plan.Status = "Enabled"
  OBVIOUS
<1> HIDE DEF plan
<1>5. /\ plans' \in Seq([Status : Statuses, Duration : Int])
      /\ DOMAIN plans' = DOMAIN plans \cup {Len(plans) + 1}
      /\ \A p \in DOMAIN plans : plans'[p] = plans[p]
      /\ plans'[Len(plans) + 1] = plan
  BY <1>1, <1>2, <1>3, AppendProperties
<1>6. \A d : Made(d) => Made(d)'
  BY <1>5 DEF Made
<1>7. ASSUME NEW d, d = duration PROVE Made(d)'
  BY <1>4, <1>5, <1>7 DEF Made
<1>8. PlansLastLong'
  BY <1>2, <1>3, <1>4, <1>5 DEF PlansLastLong, Long
<1>9. QED
  BY <1>1, <1>5, <1>6, <1>7, <1>8, ServesWrite

\* An update is of one plan, which gets the status the user asked for.
LEMMA UpdatesOne ==
  ASSUME CallsOK, PlansInv, NEW i \in DOMAIN calls, PsqlBackupVolumeUpdatePlan(i), asked' = asked
  PROVE  /\ page' = page /\ Unseen(i) /\ calls[i].op = "UpdatePlan"
         /\ ReplyIfLive(i, [ID |-> calls[i].arg.ID, Status |-> calls[i].arg.Status])
         /\ plans' \in Seq([Status : Statuses, Duration : Int])
         /\ DOMAIN plans' = DOMAIN plans
         /\ \A p \in DOMAIN plans :
              /\ plans'[p].Duration = plans[p].Duration
              /\ plans'[p].Status # plans[p].Status
                   => asked.mixed \/ <<p, plans'[p].Status>> \in asked.of
<1> DEFINE q == calls[i].arg.ID
           status == calls[i].arg.Status
<1>1. /\ calls[i].op = "UpdatePlan" /\ plans' = [plans EXCEPT ![q].Status = status]
      /\ page' = page /\ Unseen(i) /\ ReplyIfLive(i, [ID |-> q, Status |-> status])
  BY DEF PsqlBackupVolumeUpdatePlan, IsSent
<1>2. /\ PlanCall(calls[i]) /\ plans \in Seq([Status : Statuses, Duration : Int])
      /\ PlansLastLong
  BY Underway DEF PlansInv, PlansFields, PlanCallsOK
<1>3. status \in Statuses /\ (asked.mixed \/ Wanted(q, status))
  BY <1>1, <1>2 DEF PlanCall
<1>4. /\ plans' \in Seq([Status : Statuses, Duration : Int])
      /\ DOMAIN plans' = DOMAIN plans
      /\ \A p \in DOMAIN plans : /\ plans'[p].Duration = plans[p].Duration
                                 /\ p # q => plans'[p].Status = plans[p].Status
                                 /\ p = q => plans'[p].Status = status
  <2> DEFINE T == [Status : Statuses, Duration : Int]
             plan == [plans[q] EXCEPT !.Status = status]
  <2>1. plans' = [plans EXCEPT ![q] = plan]
    BY <1>1
  <2>2. CASE q \in DOMAIN plans
    <3>1. plans[q] \in T
      BY <1>2, <2>2, ElementOfSeq, LenProperties
    <3>2. plan \in T /\ plan.Status = status /\ plan.Duration = plans[q].Duration
      BY <1>3, <3>1
    <3> HIDE DEF plan, T
    <3>3. plans' \in Seq(T)
      BY <1>2, <2>1, <2>2, <3>2, ExceptSeq DEF T
    <3>4. QED
      BY <1>2, <2>1, <2>2, <3>2, <3>3 DEF T
  <2>3. CASE q \notin DOMAIN plans
    <3>1. plans = [p \in DOMAIN plans |-> plans[p]]
      BY <1>2
    <3>2. plans' = plans
      BY <2>1, <2>3, <3>1
    <3>3. QED
      BY <1>2, <2>3, <3>2
  <2>4. QED
    BY <2>2, <2>3
<1>5. QED
  BY <1>1, <1>3, <1>4 DEF Wanted

LEMMA ServesUpdate ==
  ASSUME CallsOK, PlansInv, NEW i \in DOMAIN calls, PsqlBackupVolumeUpdatePlan(i), asked' = asked
  PROVE  CallsOK' /\ PlansInv'
<1>1. /\ DOMAIN plans' = DOMAIN plans
      /\ \A p \in DOMAIN plans : plans'[p].Duration = plans[p].Duration
  BY UpdatesOne
<1>2. \A d : Made(d) => Made(d)'
  BY <1>1 DEF Made
<1>3. PlansLastLong'
  BY <1>1 DEF PlansInv, PlansLastLong
<1>4. QED
  BY <1>2, <1>3, UpdatesOne, ServesWrite

LEMMA PlansServes ==
  ASSUME CallsOK, PlansInv, PlansServer
  PROVE  CallsOK' /\ PlansInv'
BY ServesList, ServesAdd, ServesUpdate DEF PlansServer

LEMMA PlansGo ==
  ASSUME CallsOK, PlansInv, PlansNext
  PROVE  CallsOK' /\ PlansInv'
BY MyPlansUses, MyPlansHandles, BackupPlansUses, BackupPlansHandles, PlansServes, PlansDropped
   DEF PlansNext
LEMMA PlansStart ==
  ASSUME Init
  PROVE  PlansInv
<1> DEFINE T == [Status : Statuses, Duration : Int]
<1>1. /\ plans = [p \in 1..2 |-> [Status |-> "Enabled", Duration |-> Epochs(180)]]
      /\ asked = [of |-> {}, mixed |-> FALSE, raced |-> FALSE]
  BY DEF Init, PlansInit
<1>2. Epochs(180) \in Int /\ Long(Epochs(180))
  BY DEF Epochs, Long, NaN, EpochsPerDay
<1>3. plans \in Seq(T)
  <2>1. [Status |-> "Enabled", Duration |-> Epochs(180)] \in T
    BY <1>2 DEF Statuses
  <2> HIDE DEF T
  <2>2. \A p \in 1..2 : plans[p] \in T
    BY <1>1, <2>1
  <2>3. plans \in [1..2 -> T]
    BY <1>1, <2>2
  <2>4. QED
    BY <2>3, SeqDef
<1> DEFINE Opened(data, cs) == view = data /\ calls = cs
<1>4. \/ page = "login" /\ Opened(LoginView, <<>>)
      \/ page = "fs3" /\ token # None /\ Opened(Fs3View, <<>>)
      \/ page = "myPlans" /\ Opened(MyPlansView, <<ListPlans(1)>>)
      \/ page = "myPlans" /\ Opened(MyPlansView, <<JustAsked, ListPlans(1)>>)
      \/ page = "backupPlans" /\ Opened(BackupPlansView, <<>>)
      \/ page = "myJobs" /\ Opened(MyJobsView, MyJobsCalls)
      \/ page = "dashboard" /\ Opened(DashboardView, DashboardCalls)
  BY DEF Init, SessionStart, StartAt
<1>5. /\ page = "myPlans" => view = MyPlansView
      /\ page = "backupPlans" => view = BackupPlansView
  BY <1>4
<1>6. PlansFields
  <2>1. 0 \in Typed /\ <<>> \in Seq(Typed)
    BY EmptySeq DEF Typed
  <2>2. page = "myPlans" => DOMAIN view = MyPlansFields
    BY <1>5 DEF MyPlansView, MyPlansFields
  <2>3. page = "backupPlans" => /\ DOMAIN view = BackupPlansFields
                               /\ view.duration = 0 /\ view.checking = <<>>
    BY <1>5 DEF BackupPlansView, BackupPlansFields
  <2>4. DOMAIN asked = {"of", "mixed", "raced"}
    BY <1>1
  <2>5. QED
    BY <1>3, <2>1, <2>2, <2>3, <2>4 DEF PlansFields
<1>7. PlanChosen /\ SummaryShowsPlan
  BY <1>5 DEF PlanChosen, onMyPlans, planDialog, SummaryShowsPlan, onBackupPlans, MyPlansView,
              BackupPlansView
<1>8. PlansLastLong
  BY <1>1, <1>2 DEF PlansLastLong, Long
<1>9. /\ JustAsked.op = "AddPlan" /\ JustAsked.state = "sent" /\ ~JustAsked.live
      /\ JustAsked.arg.Duration = Epochs(180)
  <2> DEFINE c == Call("AddPlan", [Duration |-> Epochs(180)])
  <2>1. JustAsked = Forgotten(c)
    BY DEF JustAsked, Forgotten
  <2>2. IsCall(c) /\ c.op = "AddPlan" /\ c.state = "sent" /\ c.arg.Duration = Epochs(180)
    BY NewCall
  <2> HIDE DEF c
  <2>3. QED
    BY <2>1, <2>2, ForgottenCall
<1>10. /\ page = "myPlans" => Of(calls) \subseteq {JustAsked, ListPlans(1)} /\ ListPlans(1) \in Of(calls)
       /\ page # "myPlans" => \A c \in Of(calls) : c.op \notin PlanOps
  <2>1. CASE page = "myPlans"
    BY <1>4, <2>1, Single, Pair
  <2>2. CASE page # "myPlans"
    <3>1. ASSUME NEW op \in ListOps, NEW c, c = ListCall(op, 1) PROVE c.op \notin PlanOps
      BY <3>1, NewCall DEF ListCall, ListOps, PlanOps
    <3>2. ASSUME NEW op \in CountOps, NEW c, c = Call(op, Nothing) PROVE c.op \notin PlanOps
      BY <3>2, NewCall DEF CountOps, PlanOps
    <3>3. CASE calls = MyJobsCalls
      BY <2>2, <3>1, <3>3, Pair DEF MyJobsCalls, ListOps
    <3>4. CASE calls = DashboardCalls
      BY <2>2, <3>2, <3>4, Pair DEF DashboardCalls, CountOps
    <3>5. QED
      BY <1>4, <2>2, <3>3, <3>4, Empty
  <2>3. QED
    BY <2>1, <2>2
<1>11. /\ ListPlans(1).op = "ListPlans" /\ ListPlans(1).state = "sent"
       /\ ListPlans(1).arg.Offset = 1 - 1
  BY NewCall DEF ListPlans
<1>12. PlanCallsOK
  <2>1. ASSUME NEW c \in Of(calls) PROVE PlanCall(c)
    <3>1. CASE page = "myPlans"
      BY <1>2, <1>9, <1>10, <1>11, <3>1 DEF PlanCall
    <3>2. CASE page # "myPlans"
      BY <1>10, <3>2 DEF PlanCall, PlanOps
    <3>3. QED
      BY <3>1, <3>2
  <2>2. QED
    BY <2>1 DEF PlanCallsOK
<1>13. PlanListOK
  <2>1. SUFFICES ASSUME page = "myPlans" PROVE PlanListOK
    BY DEF PlanListOK, onMyPlans
  <2>2. \A c \in LastOf(calls, "ListPlans") : c = ListPlans(1)
    BY <1>9, <1>10, <2>1 DEF LastOf, Of
  <2>3. view.offset = 1
    BY <1>5, <2>1 DEF MyPlansView
  <2>4. QED
    BY <1>10, <1>11, <2>1, <2>2, <2>3 DEF PlanListOK
<1>14. QED
  BY <1>6, <1>7, <1>8, <1>12, <1>13 DEF PlansInv
=============================================================================
