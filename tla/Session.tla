------------------------------ MODULE Session ------------------------------
(***************************************************************************)
(* The session of a user of the browser UI (src/browser): the login page,  *)
(* the router and its guards, the menu's links and its log out, and the    *)
(* dialog that changes the secret key.  The pages of the UI extend this    *)
(* module: one page is mounted at a time, and view is its data.            *)
(*                                                                         *)
(* FS3 refuses a request whose token was not made with the current secret  *)
(* key (401).                                                              *)
(*                                                                         *)
(* A secret key is a number; the token of a session is the number of the   *)
(* secret key it was made with.  There is one access key.                  *)
(***************************************************************************)
EXTENDS Requests

CONSTANT MaxSecret      \* bound: secret keys are 0..MaxSecret

ASSUME SessionBounds == {MaxSecret, MaxSent} \subseteq Nat

VARIABLES
    page,       \* the route
    view,       \* the data of the component mounted there
    token,      \* fs3MinioLoginAccessToken, in sessionStorage and in the store
    account,    \* the secret key in localStorage.MinioAccountNumber
    secret,     \* the secret key FS3 knows
    since       \* what has happened since the last log in (history)

sessionVars == <<page, view, token, account, secret, calls, sent, since>>

Secrets == 0..MaxSecret
None == -1

----------------------------------------------------------------------------
(* Requests.                                                               *)

\* live is whether the component that sent a request is still mounted.
Call(op, arg) == [op |-> op, arg |-> arg, auth |-> token, state |-> "sent",
                  reply |-> Nothing, live |-> TRUE]

\* The client gives i up; a request lost on its way back is still served.
GivenUp(i) == \/ Done(i, <<>>)
              \/ calls[i].state = "sent" /\ calls' = [calls EXCEPT ![i].live = FALSE]

Authorised(i) == calls[i].auth = secret

----------------------------------------------------------------------------
(* Routes (router/index.js).                                               *)

\* What these do on an answer, they do wherever the user is by then.
SessionOps == {"Login", "GetDiscoveryDoc", "ListBuckets"}
\* An answer to any other request of an unmounted component shows nowhere,
\* but what it writes may still be written.
Writes == {"SetAuth", "AddPlan", "UpdatePlan", "AddRebuild"}
Unmount(cs) ==
    LET Kept(c) == c.op \in SessionOps \/ (c.op \in Writes /\ c.state = "sent")
        Orphan(c) == [c EXCEPT !.live = @ /\ c.op \in SessionOps \ {"Login"}]
        kept == Only(cs, {i \in DOMAIN cs : Kept(cs[i])})
    IN  [i \in DOMAIN kept |-> Orphan(kept[i])]

\* Home, the parent of every page but the login page, asks for the buckets
\* when it is mounted.
HomeMounted(to) ==
    IF page = "login" /\ to # "login"
      THEN <<[Call("ListBuckets", Nothing) EXCEPT !.auth = token']>> ELSE <<>>

Mount(to, data, cs, rest) ==
    /\ page' = to
    /\ view' = data
    /\ calls' = Unmount(rest) \o HomeMounted(to) \o cs

LoginView == [loginLoad |-> FALSE, Secretkey |-> None]
Fs3View == [changePass |-> FALSE, Secretkey |-> None, updateBack |-> TRUE]

ToLogin(rest) == IF page = "login" THEN UNCHANGED <<page, view>> /\ calls' = rest
                                   ELSE Mount("login", LoginView, <<>>, rest)

\* The guard of every route (permission.js) would keep a user whose ID is known
\* from the login page, but nothing that runs stores one.
oaxLoginUserId == None
BeforeEach(to) == IF oaxLoginUserId # None /\ to = "login" THEN "/" ELSE to

\* The user follows a link of the menu, or types the address of a page.
Visit(to, data, cs) == /\ page # to
                       /\ sent < MaxSent
                       /\ sent' = sent + 1
                       /\ UNCHANGED <<token, account, secret, since>>
                       /\ Mount(BeforeEach(to), data, cs, calls)

\* Mutant: the guard is missing.
VisitFs3Unguarded == Visit("fs3", Fs3View, <<>>)
\* beforeEnter of fs3, the one page that asks for a token.
VisitFs3 == IF token = None THEN Visit("login", LoginView, <<>>)
                            ELSE Visit("fs3", Fs3View, <<>>)
VisitLogin == Visit("login", LoginView, <<>>)
\* The page that says how backups work (fs3Backup.vue) has no state.
VisitBackup == Visit("backup", <<>>, <<>>)

----------------------------------------------------------------------------
(* Logging in (login.vue).                                                 *)

\* loginLoad covers the form until an answer has come.
LoginSubmit(s) ==
    /\ page = "login" /\ ~view.loginLoad
    /\ view' = [loginLoad |-> TRUE, Secretkey |-> s]
    /\ UserSends(<<Call("Login", [secret |-> s])>>)
    /\ UNCHANGED <<page, token, account, secret, since>>

Login(i) ==
    /\ IsSent(i, "Login")
    /\ Reply(i, [ok |-> calls[i].arg.secret = secret])
    /\ UNCHANGED <<page, view, token, account, secret, sent, since>>

\* The secret key that localStorage keeps.
\* Mutant: one that is there already stays.
RememberedFirst(i) == IF account = None THEN calls[i].arg.secret ELSE account
Remembered(i) == calls[i].arg.secret

\* A session that begins while a request that ends one is under way is marked,
\* and so is one that begins around the open dialog for a new key: fs3 stays as
\* it is then.
LoggedIn(i) ==
    /\ IsAnswered(i, "Login") /\ Answer(i).ok
    /\ token' = calls[i].arg.secret
    /\ account' = Remembered(i)
    /\ IF page = "fs3" THEN UNCHANGED <<page, view>> /\ Done(i, <<>>)
                       ELSE Mount("fs3", Fs3View, <<>>, RemoveAt(calls, i))
    /\ since' = [ended |-> Outstanding({"GetDiscoveryDoc", "ListBuckets"}) # {},
                 changed |-> secret # calls[i].arg.secret,
                 around |-> page = "fs3" /\ view.changePass]
    /\ UNCHANGED <<secret, sent>>

\* An error, or no answer.
LoginFailed(i) ==
    /\ i \in Outstanding({"Login"})
    /\ view' = IF calls[i].live THEN [view EXCEPT !.loginLoad = FALSE] ELSE view
    /\ Done(i, <<>>)
    /\ UNCHANGED <<page, token, account, secret, sent, since>>

----------------------------------------------------------------------------
(* Logging out (Slide.vue, minio/index.vue): the icon is a link to the     *)
(* login page and asks FS3 for its discovery document as well; only with   *)
(* an answer is the token forgotten (FedLogOut).                           *)

Logout ==
    /\ page # "login"
    /\ sent < MaxSent
    /\ sent' = sent + 1
    /\ UNCHANGED <<token, account, secret>>
    /\ Mount("login", LoginView, <<>>, Append(calls, Call("GetDiscoveryDoc", Nothing)))
    /\ since' = [since EXCEPT !.ended = TRUE]

GetDiscoveryDoc(i) ==
    /\ IsSent(i, "GetDiscoveryDoc")
    /\ Reply(i, [ok |-> Authorised(i)])
    /\ UNCHANGED <<page, view, token, account, secret, sent, since>>

FedLogOut(i) == /\ token' = None
                /\ ToLogin(RemoveAt(calls, i))
                /\ UNCHANGED <<account, secret, sent, since>>

LoggedOut(i) == IsAnswered(i, "GetDiscoveryDoc") /\ Answer(i).ok /\ FedLogOut(i)

\* Home's list of the buckets, which is refused when the token is not good.
ListBuckets(i) ==
    /\ IsSent(i, "ListBuckets")
    /\ Reply(i, [ok |-> Authorised(i)])
    /\ UNCHANGED <<page, view, token, account, secret, sent, since>>

\* Mutant: any answer ends the session.
BucketsUnread(i) == IsAnswered(i, "ListBuckets") /\ FedLogOut(i)
BucketsRefused(i) == IsAnswered(i, "ListBuckets") /\ ~Answer(i).ok /\ FedLogOut(i)

\* Lost, or answered with what only shows a message or the buckets.
NothingDone(i) ==
    /\ i \in Outstanding({"GetDiscoveryDoc", "ListBuckets"})
    /\ IsAnswered(i, "ListBuckets") => Answer(i).ok
    /\ Done(i, <<>>)
    /\ UNCHANGED <<page, view, token, account, secret, sent, since>>

----------------------------------------------------------------------------
(* Changing the secret key (changePassword.vue, opened from fs3).          *)

\* The watch on changePass fills the current keys in from localStorage.
OpenChangePass ==
    /\ page = "fs3" /\ ~view.changePass
    /\ view' = [view EXCEPT !.changePass = TRUE, !.Secretkey = account]
    /\ since' = [since EXCEPT !.around = FALSE]
    /\ UNCHANGED <<page, token, account, secret, calls, sent>>

\* A new key is typed or generated; the watch on it enables Update, as any
\* key that is not empty does.
TypeNewKey ==
    /\ page = "fs3" /\ view.changePass /\ view.updateBack
    /\ view' = [view EXCEPT !.updateBack = FALSE]
    /\ UNCHANGED <<page, token, account, secret, calls, sent, since>>

\* The current key is the one filled in, unless the user types over it.  The
\* dialog stays open and enabled.
UpdateKey(current, s) ==
    /\ page = "fs3" /\ view.changePass /\ ~view.updateBack
    /\ UserSends(<<Call("SetAuth", [current |-> current, new |-> s])>>)
    /\ UNCHANGED <<page, view, token, account, secret, since>>

GetClose ==
    /\ page = "fs3" /\ view.changePass
    /\ view' = [view EXCEPT !.changePass = FALSE]
    /\ UNCHANGED <<page, token, account, secret, calls, sent, since>>

\* The answer holds a token made with the new key, which the UI leaves alone.
SetAuth(i) ==
    /\ IsSent(i, "SetAuth") /\ Authorised(i)
    /\ IF calls[i].arg.current = secret
         THEN secret' = calls[i].arg.new /\ since' = [since EXCEPT !.changed = TRUE]
         ELSE UNCHANGED <<secret, since>>
    /\ IF calls[i].live THEN Reply(i, [ok |-> TRUE]) ELSE Done(i, <<>>)
    /\ UNCHANGED <<page, view, token, account, sent>>

\* Either way there is a message, and nothing else.
KeyAnswered(i) ==
    /\ i \in Outstanding({"SetAuth"})
    /\ Done(i, <<>>)
    /\ UNCHANGED <<page, view, token, account, secret, sent, since>>

----------------------------------------------------------------------------

\* FS3 has been open for a while, to a user who has logged in or has not.
SessionInit ==
    /\ secret = 0
    /\ account = 0
    /\ token \in {None, 0}
    /\ sent = 0
    /\ since = [ended |-> FALSE, changed |-> FALSE, around |-> FALSE]

StartAt(to, data, cs) == page = to /\ view = data /\ calls = cs

SessionStart ==
    IF token = None THEN StartAt("login", LoginView, <<>>)
    ELSE StartAt("fs3", Fs3View, <<>>)

\* The menu at the side, the form to log in, and the dialog for a new key.
MenuLinks == VisitFs3 \/ VisitLogin \/ VisitBackup \/ Logout
LoginForm == \E s \in Secrets : LoginSubmit(s)
ChangePassword ==
    \/ \E current, s \in Secrets : UpdateKey(current, s)
    \/ TypeNewKey \/ GetClose

SessionUser == MenuLinks \/ LoginForm \/ OpenChangePass \/ ChangePassword

SessionServer == \E i \in DOMAIN calls :
    Login(i) \/ GetDiscoveryDoc(i) \/ ListBuckets(i) \/ SetAuth(i)

SessionHandler == \E i \in DOMAIN calls :
    \/ LoggedIn(i) \/ LoginFailed(i) \/ LoggedOut(i)
    \/ BucketsRefused(i) \/ NothingDone(i) \/ KeyAnswered(i)

SessionNext == SessionUser \/ SessionServer \/ SessionHandler

----------------------------------------------------------------------------
(* Properties.                                                             *)

\* fs3, where objects are shown, is never open without a token: its guard
\* (router/index.js) sends to the login page, and whatever forgets the token
\* (FedLogOut) leaves the page.
ObjectsNeedToken == page = "fs3" => token # None

\* A session lasts until its user logs out or FS3 refuses its token, unless a
\* request that ends sessions was under way when it began: that request's
\* answer, late, ends the new session (Slide.vue logout, Home.vue
\* getListBuckets).
SessionEndsForAReason ==
    [][(token # None /\ token' = None) => (since.ended \/ since.changed)]_sessionVars

\* The current secret key that the dialog fills in is the one FS3 knows, so
\* that Update can succeed, unless it was changed since the log in:
\* changePassword.vue does not store the key it has set.  The answer to a log
\* in that comes when fs3 is open already leaves an open dialog as it is.
PrefillWorks ==
    (page = "fs3" /\ view.changePass /\ ~since.changed /\ ~since.around)
        => view.Secretkey = secret
=============================================================================
