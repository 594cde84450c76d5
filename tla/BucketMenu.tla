----------------------------- MODULE BucketMenu -----------------------------
(***************************************************************************)
(* The list of buckets at the side of the object browser (Slide.vue): its  *)
(* search, and the menu of a bucket, which edits its policies, removes it, *)
(* or shows its deals (retrievalDialog.vue).                               *)
(*                                                                         *)
(* The dialog of policies is titled with one bucket and changes those of   *)
(* the current one, which an answer to an earlier request can move away.   *)
(***************************************************************************)
EXTENDS ObjectPage

CONSTANTS PolicyPrefixes,   \* the prefixes that policies are about; "" is all names
          Policies          \* what a policy may allow

VARIABLES
    slide,      \* the data of Slide.vue and retrievalDialog.vue
    policies    \* FS3: the policies of each bucket, as <<prefix, policy>>

menuVars == <<slide, policies>>
PageStays == UNCHANGED <<stored, home, fs3, share, shown, picked>>

----------------------------------------------------------------------------
(* The user searches, opens the menu of a bucket, and chooses from it.     *)

\* Only the buckets with the text in their names are listed, until a new list
\* comes; 0 is no text.
SearchBucketFun(b) ==
    LET Found(c) == b = 0 \/ b = c \/ <<c, b>> \in Within
        buckets == home.minioListBuckets
        menu == Only(buckets, {k \in DOMAIN buckets : Found(buckets[k])})
    IN  /\ open = {} /\ menu # home.menu
        /\ home' = [home EXCEPT !.menu = menu]
        /\ UNCHANGED <<stored, fs3, share, open, shown, picked, menuVars>>
        /\ UserActs

\* The three dots of a bucket go there as well.
CaozuoFun(b) == /\ open = {} /\ b \in Range(home.menu)
                /\ SlideClick(<<b>>)
                /\ open' = {"menu"}
                /\ slide' = [slide EXCEPT !.on = b]
                /\ UserSends(<<ListCall(<<b>>, <<>>)>>)
                /\ UNCHANGED policies

\* A click elsewhere (wrapperClick), or the end of a dialog.
CloseMenu(d) == /\ d \in open
                /\ open' = open \ {d}
                /\ PageStays
                /\ UNCHANGED <<calls, sent, menuVars>>

\* "Edit policy": the title is the bucket of the menu.
PoliciesCall(b) == Request("ListAllBucketPolicies", [bucket |-> b])
DialogFun == /\ "menu" \in open
             /\ open' = {"policy"}
             /\ slide' = [slide EXCEPT !.titlePolicy = <<slide.on>>]
             /\ UserSends(<<PoliciesCall(<<slide.on>>)>>)
             /\ PageStays
             /\ UNCHANGED policies

SetPolicy(b, prefix, policy) ==
    Request("SetBucketPolicy", [bucket |-> b, prefix |-> prefix, policy |-> policy])

\* What the dialog lists already is refused, and so is another policy of "*"
\* for that of all names; the current bucket gets the others.
AddPolicies(prefix, policy) ==
    LET Clashes(item) ==
          \/ item.prefix = prefix /\ item.policy = policy
          \/ item.prefix = "" /\ prefix = "*" /\ item.policy # policy
    IN  /\ "policy" \in open
        /\ \A item \in slide.bucketPolicies : ~Clashes(item)
        /\ UserSends(<<SetPolicy(home.currentBucket, prefix, policy)>>)
        /\ PageStays
        /\ UNCHANGED <<open, menuVars>>

RemovePolicies(item) == /\ "policy" \in open /\ item \in slide.bucketPolicies
                        /\ UserSends(<<SetPolicy(item.bucket, item.prefix, "none")>>)
                        /\ PageStays
                        /\ UNCHANGED <<open, menuVars>>

\* "Delete" asks for no confirmation.
DialogDeleteFun == /\ "menu" \in open
                   /\ UserSends(<<Request("DeleteBucket", [bucket |-> <<slide.on>>])>>)
                   /\ open' = {}
                   /\ PageStays
                   /\ UNCHANGED menuVars

\* getData of retrievalDialog.vue, when it opens.
BucketDealsCall(b) == Request("BucketDeals", [bucket |-> b])

\* "Backup to Filecoin" and "Retrieval" open a dialog of Home, and as clicks on
\* the bucket they go there too.
BackupFun == /\ "menu" \in open
             /\ SlideClick(<<slide.on>>)
             /\ open' = {"homeshare"}
             /\ UserSends(<<ListCall(<<slide.on>>, <<>>)>>)
             /\ UNCHANGED menuVars

RetrievalFun ==
    LET b == <<slide.on>>
    IN  /\ "menu" \in open
        /\ SlideClick(b)
        /\ open' = {"retrieval"}
        /\ slide' = [slide EXCEPT !.exChangeList = {}]
        /\ UserSends(<<ListCall(b, <<>>), BucketDealsCall(b)>>)
        /\ UNCHANGED policies

----------------------------------------------------------------------------
(* FS3.                                                                    *)

PoliciesOf(b) == {[bucket |-> b, prefix |-> p[1], policy |-> p[2]] : p \in policies[b[1]]}

ListAllBucketPolicies(i) ==
    LET b == calls[i].arg.bucket
    IN  /\ IsSent(i, "ListAllBucketPolicies")
        /\ Reply(i, [ok |-> IsBucket(b), policies |-> IF IsBucket(b) THEN PoliciesOf(b) ELSE {}])
        /\ Served /\ UNCHANGED menuVars

\* A prefix has one policy; with "none" it has none.
SetBucketPolicy(i) ==
    LET c == calls[i].arg
        others(b) == {p \in policies[b] : p[1] # c.prefix}
        new == IF c.policy = "none" THEN {} ELSE {<<c.prefix, c.policy>>}
    IN  /\ IsSent(i, "SetBucketPolicy")
        /\ IF IsBucket(c.bucket)
             THEN /\ policies' = [policies EXCEPT ![c.bucket[1]] = others(c.bucket[1]) \cup new]
                  /\ ReplyOvertakes(i, Past({"ListAllBucketPolicies"}), [ok |-> TRUE])
             ELSE Reply(i, [ok |-> FALSE]) /\ UNCHANGED policies
        /\ Served /\ UNCHANGED slide

\* A bucket with objects stays.  With it go its policies, whatever is listed.
DeleteBucket(i) ==
    LET b == calls[i].arg.bucket
    IN  /\ IsSent(i, "DeleteBucket") /\ Unserved
        /\ IF IsBucket(b) /\ stored[b[1]] = {}
             THEN /\ Changes(i, [ok |-> TRUE], [c \in DOMAIN stored \ {b[1]} |-> stored[c]],
                             {"ListObjects", "ListAllBucketPolicies"})
                  /\ policies' = [policies EXCEPT ![b[1]] = {}]
                  /\ slide' = [slide EXCEPT !.fresh = @ /\ b # slide.titlePolicy]
             ELSE Reply(i, [ok |-> FALSE]) /\ UNCHANGED <<stored, menuVars>>

BucketDeals(i) == /\ IsSent(i, "BucketDeals")
                  /\ Reply(i, calls[i].arg)
                  /\ Served /\ UNCHANGED menuVars

----------------------------------------------------------------------------
(* The handlers of answers.                                                *)

\* What the dialog of deals lists while it is open.
RetrievalTable == IF "retrieval" \in open THEN slide.exChangeList ELSE {}

Answered(i, op) == IsAnswered(i, op) /\ UNCHANGED <<pageVars, sent, policies>>

PoliciesListed(i) ==
    /\ Answered(i, "ListAllBucketPolicies") /\ Answer(i).ok
    /\ slide' = [slide EXCEPT !.bucketPolicies = Answer(i).policies, !.fresh = ~calls[i].late]
    /\ Overtakes(i, Earlier(i), <<>>)

\* Mutant: the policies are not listed again.
PolicySetUnlisted(i) == /\ Answered(i, "SetBucketPolicy") /\ Answer(i).ok
                        /\ Done(i, <<>>)
                        /\ UNCHANGED slide
\* The policies of the current bucket are listed again, whatever the title.
PolicySet(i) == /\ Answered(i, "SetBucketPolicy") /\ Answer(i).ok
                /\ Done(i, <<PoliciesCall(home.currentBucket)>>)
                /\ UNCHANGED slide

BucketDeleted(i) == /\ Answered(i, "DeleteBucket") /\ Answer(i).ok
                    /\ Done(i, <<ListBucketsCall(<<>>)>>)
                    /\ UNCHANGED slide

BucketDealsListed(i) ==
    /\ Answered(i, "BucketDeals")
    /\ slide' = [slide EXCEPT !.exChangeList = {[of |-> Answer(i), late |-> calls[i].late]}]
    /\ Overtakes(i, Earlier(i), <<>>)

MenuOps == {"ListAllBucketPolicies", "SetBucketPolicy", "DeleteBucket", "BucketDeals"}
MenuDropped(i) ==
    LET op == calls[i].op
    IN  /\ i \in Outstanding(MenuOps) /\ Fails(i, {"SetBucketPolicy", "DeleteBucket"})
        /\ Overtakes(i, Earlier(i), <<>>)
        /\ slide' = [slide EXCEPT !.fresh = @ /\ op = "BucketDeals",
                                  !.exChangeList = IF op = "BucketDeals" THEN Old(@) ELSE @]
        /\ UNCHANGED <<pageVars, policies>>

----------------------------------------------------------------------------

SlideView == [on |-> 0, titlePolicy |-> <<>>, bucketPolicies |-> {}, fresh |-> FALSE,
              exChangeList |-> {}]

\* The list with a bucket's menu, and the dialog of policies.
BucketList ==
    \/ \E b \in Buckets \cup {0} : SearchBucketFun(b)
    \/ \E b \in Buckets : CaozuoFun(b)
    \/ DialogFun \/ DialogDeleteFun \/ BackupFun \/ RetrievalFun
PolicyDialog ==
    \/ \E prefix \in PolicyPrefixes, policy \in Policies : AddPolicies(prefix, policy)
    \/ \E item \in slide.bucketPolicies : RemovePolicies(item)

MenuUser == \/ BucketList \/ PolicyDialog
            \/ \E d \in {"menu", "policy", "retrieval"} : CloseMenu(d)

MenuServer == \E i \in DOMAIN calls :
    ListAllBucketPolicies(i) \/ SetBucketPolicy(i) \/ DeleteBucket(i) \/ BucketDeals(i)

MenuHandler == \E i \in DOMAIN calls :
    \/ PoliciesListed(i) \/ PolicySet(i) \/ BucketDeleted(i) \/ BucketDealsListed(i)
    \/ MenuDropped(i)
=============================================================================
