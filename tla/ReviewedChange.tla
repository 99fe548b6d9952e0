--------------------------- MODULE ReviewedChange ---------------------------
(***************************************************************************)
(* What a reviewed change promises, with no queue, broker or timeouts      *)
(* (SETTINGS_AND_ACCESS.md:55-57): an approval is used at most once, and   *)
(* only by the session it belongs to; one approval is in hand at a time;   *)
(* its attempt is on record before anything is sent; one request is sent   *)
(* at most once and never again, however it ends; and what was approved is *)
(* what is sent.  ReviewedOperations implements this module.               *)
(***************************************************************************)
CONSTANTS Requests, Sessions, Tokens, Approvals, None

VARIABLES
    stage,      \* of each approval, see Stages
    approval,   \* what each token stands for
    asked,      \* the token and the session each request presents
    hand        \* the token each request has taken

Stages == {"absent", "open", "spent", "logged", "sent", "done"}

Init ==
    /\ stage = [t \in Tokens |-> "absent"]
    /\ approval = [t \in Tokens |-> None]
    /\ asked = [p \in Requests |-> None]
    /\ hand = [p \in Requests |-> None]

Move(t, from, to) ==
    /\ stage[t] = from
    /\ stage' = [stage EXCEPT ![t] = to]

Review(t) ==
    /\ Move(t, "absent", "open")
    /\ approval'[t] \in Approvals
    /\ approval' = [approval EXCEPT ![t] = approval'[t]]
    /\ UNCHANGED <<asked, hand>>

\* Any session may present any token.
Present(p) ==
    /\ asked[p] = None
    /\ \E t \in Tokens, s \in Sessions :
         asked' = [asked EXCEPT ![p] = [token |-> t, owner |-> s]]
    /\ UNCHANGED <<stage, approval, hand>>

\* Only a request of the approval's own session takes it.
Take(p, t) ==
    /\ \A q \in Requests : hand[q] = None
    /\ Move(t, "open", "spent")
    /\ asked[p] = [token |-> t, owner |-> approval[t].owner]
    /\ hand' = [hand EXCEPT ![p] = t]
    /\ UNCHANGED <<approval, asked>>

\* Time passes, and nothing else happens.
Expire(t) == Move(t, "open", "spent") /\ UNCHANGED <<approval, asked, hand>>

Log(p) ==
    /\ hand[p] # None
    /\ Move(hand[p], "spent", "logged")
    /\ UNCHANGED <<approval, asked, hand>>

Send(p) ==
    /\ hand[p] # None
    /\ Move(hand[p], "logged", "sent")
    /\ UNCHANGED <<approval, asked, hand>>

\* The broker executes or rejects the request, or the request is lost.
Settle(t) == Move(t, "sent", "done") /\ UNCHANGED <<approval, asked, hand>>

\* A request ends.  If it took no approval, it leaves all of them as they
\* were; if it took one, the record of its attempt may still be written.
End(p) ==
    /\ asked[p] # None
    /\ \/ UNCHANGED stage
       \/ hand[p] # None /\ Move(hand[p], "spent", "logged")
    /\ asked' = [asked EXCEPT ![p] = None]
    /\ hand' = [hand EXCEPT ![p] = None]
    /\ UNCHANGED approval

\* The process stops: open approvals and requests are forgotten.
Forget ==
    /\ stage' = [t \in Tokens |->
                   IF stage[t] = "open" THEN "spent" ELSE stage[t]]
    /\ asked' = [p \in Requests |-> None]
    /\ hand' = [p \in Requests |-> None]
    /\ UNCHANGED approval

Next ==
    \/ \E t \in Tokens : Review(t) \/ Expire(t) \/ Settle(t)
    \/ \E p \in Requests : Present(p) \/ Log(p) \/ Send(p) \/ End(p)
    \/ \E p \in Requests, t \in Tokens : Take(p, t)
    \/ Forget

Spec == Init /\ [][Next]_<<stage, approval, asked, hand>>
=============================================================================
