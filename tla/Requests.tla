------------------------------ MODULE Requests ------------------------------
(***************************************************************************)
(* The requests of the browser UI (src/browser).  Every request is an      *)
(* axios call (or an XMLHttpRequest) without a time limit or a cancel: its *)
(* handlers run whenever the answer arrives, in any order, and whatever    *)
(* the page or the session is by then.  A request is served by FS3 and     *)
(* answered, or it is lost, before it was served or after.                 *)
(***************************************************************************)
EXTENDS Integers, Sequences, SequencesExt

CONSTANTS MaxSent,      \* bound: acts of the user, and losses that count
          MaxUnderWay   \* bound: the user acts with at most so many under way

VARIABLES
    calls,      \* the requests under way, in the order they were sent
    sent        \* how many acts and losses there have been

\* arg and reply are records of what is sent and answered.  late says that an
\* answer has been overtaken by a later one, or by a change (history).
Nothing == [nothing |-> TRUE]
Request(op, arg) ==
    [op |-> op, arg |-> arg, state |-> "sent", reply |-> Nothing, late |-> FALSE]
Outstanding(ops) == {i \in DOMAIN calls : calls[i].op \in ops}

\* The elements of s at the indices is, in their order.  (SelectSeq, as a
\* function that proofs can unfold.)
Only(s, is) ==
    LET kept[n \in 0..Len(s)] == IF n = 0 THEN <<>>
                                 ELSE IF n \in is THEN Append(kept[n - 1], s[n]) ELSE kept[n - 1]
    IN  kept[Len(s)]

\* What the user sends counts; what a handler sends in turn does not.
UserSends(cs) == /\ sent < MaxSent /\ Len(calls) <= MaxUnderWay
                 /\ sent' = sent + 1
                 /\ calls' = calls \o cs

Reply(i, data) == calls' = [calls EXCEPT ![i].state = "answered", ![i].reply = data]
Answer(i) == calls[i].reply
\* The handlers of the answer to i have run, and sent cs.
Done(i, cs) == calls' = RemoveAt(calls, i) \o cs

\* The same, and the requests js are overtaken; or they are overtaken by a change
\* that the request i makes, or by an act.
Overtaken(js) == [j \in DOMAIN calls |-> [calls[j] EXCEPT !.late = @ \/ j \in js]]
Overtakes(i, js, cs) == calls' = RemoveAt(Overtaken(js), i) \o cs
ReplyOvertakes(i, js, data) ==
    calls' = [Overtaken(js) EXCEPT ![i].state = "answered", ![i].reply = data]
UserOvertakes(js, cs) == /\ sent < MaxSent /\ Len(calls) <= MaxUnderWay
                         /\ sent' = sent + 1
                         /\ calls' = Overtaken(js) \o cs
Earlier(i) == {j \in Outstanding({calls[i].op}) : j < i}

\* What the user does without a request counts as well, unless it closes something.
UserActs == UserSends(<<>>)

IsSent(i, op) == i \in DOMAIN calls /\ calls[i].op = op /\ calls[i].state = "sent"
IsAnswered(i, op) == i \in DOMAIN calls /\ calls[i].op = op /\ calls[i].state = "answered"

\* i is answered with an error; or it is lost before it is served, or after if
\* it is one that writes (another one is as good as unserved then), which counts.
Fails(i, writes) ==
    \/ calls[i].state = "answered" /\ "ok" \in DOMAIN Answer(i) /\ ~Answer(i).ok
       /\ UNCHANGED sent
    \/ (calls[i].state = "sent" \/ calls[i].op \in writes)
       /\ sent < MaxSent /\ sent' = sent + 1
=============================================================================
