--------------------- MODULE ReviewedOperationsProperties ---------------------
(***************************************************************************)
(* What must hold of ReviewedOperations.                                   *)
(***************************************************************************)
EXTENDS ReviewedOperations

Steps == {"idle", "waiting", "revalidate", "audit", "send", "reply",
          "readback", "outcome"}

\* Past the take, a request holds the mutex.
Inside == Steps \ {"idle", "waiting"}

\* Every variable keeps its shape.
TypeOK ==
    /\ resource \in [Resources -> State \cup {None}]
    /\ creations \in Nat
    /\ wire \in SUBSET Tokens
    /\ pending \in SUBSET Tokens
    /\ review \in [Tokens -> Review \cup {None}]
    /\ ahead \in [Procs -> SUBSET Procs]
    /\ pc \in [Procs -> Steps]
    /\ asked \in [Procs -> Asked \cup {None}]
    /\ result \in [Procs -> {"ok", "error", None}]
    /\ outcome \in [Procs -> Outcomes \cup {None}]
    /\ audit \in [Tokens -> SUBSET (Outcomes \cup {"attempt"})]
    /\ changed_by \in [Resources -> {"outsider", "request", "late"}]
    /\ sends \in [Tokens -> Nat]
    /\ effects \in SUBSET Tokens
    /\ answers \in [Tokens -> Outcomes \cup
                        {"refused", "dropped", "stopped", None}]
    /\ unsaved \in SUBSET Tokens

\* No applies wait for each other in a circle: among any of those under way,
\* one waits for none of the others.
NoCircle ==
    \A S \in SUBSET {p \in Procs : pc[p] # "idle"} :
        S # {} => \E p \in S : ahead[p] \cap S = {}

\* The mutation mutex is first come, first served: of two requests that have
\* not ended one waits for the other, and one past the take waits for nobody,
\* so no two are past it.
Queue ==
    /\ NoCircle
    /\ \A p \in Procs :
          /\ ahead[p] \subseteq {q \in Procs \ {p} : pc[q] # "idle"}
          /\ pc[p] \in Inside \cup {"idle"} => ahead[p] = {}
    /\ \A p \in Procs : \A q \in Procs \ {p} :
          pc[p] # "idle" /\ pc[q] # "idle" => p \in ahead[q] \/ q \in ahead[p]

\* Nothing has been done about approval t.
Untouched(t) ==
    audit[t] = {} /\ sends[t] = 0 /\ answers[t] = None /\ t \notin unsaved

\* What is known of approval t while request p, which took it, goes on.
Holding(p, t) ==
    /\ review[t] # None
    /\ t \notin pending
    /\ answers[t] = None
    /\ t \notin unsaved
    /\ pc[p] \in {"revalidate", "audit"} => Untouched(t)
    /\ pc[p] = "send" => audit[t] = {"attempt"} /\ sends[t] = 0
    /\ pc[p] \in {"reply", "readback", "outcome"} => audit[t] = {"attempt"}
    /\ result[p] = "ok" \/ outcome[p] = "accepted" => t \in effects
    /\ outcome[p] = "verified" /\ review[t].kind # "update" => t \in effects
    /\ pc[p] = "readback" /\ result[p] # "ok" => review[t].kind = "update"

\* What is known of request p.
Request(p) ==
    /\ asked[p] = None <=> pc[p] = "idle"
    /\ pc[p] \in {"reply", "readback"} \/ result[p] = None
    /\ outcome[p] # None <=> pc[p] = "outcome"
    /\ pc[p] # "idle" => review[Token(p)] # None
    /\ pc[p] \in Inside => Holding(p, Token(p))

\* What is known of approval t.
Approval(t) ==
    /\ review[t] = None => t \notin pending
    /\ review[t] = None \/ t \in pending => Untouched(t)
    /\ sends[t] \in {0, 1}
    /\ t \in wire \cup effects => sends[t] = 1
    /\ sends[t] = 1 => "attempt" \in audit[t]
    /\ ~(t \in wire /\ t \in effects)

\* The stage of each approval.
Stage ==
    [t \in Tokens |->
        IF review[t] = None THEN "absent"
        ELSE IF t \in pending THEN "open"
        ELSE IF "attempt" \notin audit[t] THEN "spent"
        ELSE IF sends[t] = 0 THEN "logged"
        ELSE IF t \in wire THEN "sent"
        ELSE "done"]

\* The approval each request has taken and still works on.
Hand ==
    [p \in Procs |->
        IF pc[p] \in {"idle", "waiting"} THEN None ELSE Token(p)]

\* However applies, timeouts, disconnects and restarts interleave, each
\* approval is used once and by its own session, one is in hand at a time,
\* it is recorded before it is sent, and sent at most once.  A token that
\* another session presents, or that is not confirmed, stays open.
Promise == INSTANCE ReviewedChange WITH
    Requests <- Procs, Sessions <- Owners, Approvals <- Review,
    stage <- Stage, approval <- review, hand <- Hand

ImplementsReviewedChange == Promise!Spec

\* A change whose request is answered in time is executed on the very
\* resource that was reviewed, unless another client or a request that had
\* timed out changed it after it was read again: two reviewed changes of one
\* profile never overtake each other, whichever table they come from.
AppliedToReviewedState ==
    [][\A t \in Tokens :
          /\ Awaited(t)
          /\ Execute(t)
          /\ review[t].kind \notin Publications
          /\ Revision(review[t].resource) # review[t].revision
          => changed_by[review[t].resource] # "request"]_vars

\* An approval leaves its table only for its owner's confirmed request, by
\* expiry or with the process: another session cannot use it up.
ReviewSpentByOwner ==
    [][\A t \in pending \ pending' :
          \/ Restart
          \/ Expire(t)
          \/ \E p \in Procs : take(p) /\ asked[p].token = t
                                /\ asked[p].owner = review[t].owner]_vars

Honest(t) ==
    /\ answers[t] = "refused" => sends[t] = 0
    /\ answers[t] = "accepted" => t \in effects
    /\ answers[t] = "verified" /\ review[t].kind # "update" => t \in effects

\* What the answer says happened did happen: "No operation was sent" is
\* final, an accepted change was executed by the broker, and a verified one
\* too unless it is a setting that was found to have the wanted value.
AnswersHonest == \A t \in Tokens : Honest(t)

Logged(t) ==
    /\ "attempt" \in audit[t]
    /\ answers[t] \notin {None, "stopped", "dropped"}
    /\ t \notin unsaved
    => answers[t] \in audit[t]

\* A recorded attempt has a recorded outcome once its request has ended,
\* unless the outcome could not be stored, the process stopped, or the
\* handler was dropped with its client.
OutcomeLogged == \A t \in Tokens : Logged(t)

\* One change at a time and each approval at most once, from the queue for
\* the mutex to the record of the outcome: however requests queue, fail, are
\* dropped or are cut off by a restart, an approval is in one hand, its
\* attempt is on record before its one request is sent, and the answer and
\* the records agree with what the broker did.
ApplyOrder ==
    /\ TypeOK
    /\ Queue
    /\ \A p \in Procs : Request(p)
    /\ \A t \in Tokens : Approval(t)
    /\ AnswersHonest
    /\ OutcomeLogged

\* "The resulting outcome is recorded separately with the same operation ID"
\* (SETTINGS_AND_ACCESS.md:57): a change that was sent has a recorded outcome
\* once its request has ended, as long as the server and its storage worked,
\* also when its client has gone.
OutcomeAlwaysLogged ==
    \A t \in Tokens :
        /\ sends[t] = 1
        /\ answers[t] \notin {None, "stopped"}
        /\ t \notin unsaved
        => audit[t] \cap Outcomes # {}

\* The mutation mutex never keeps every apply waiting: while any is under way,
\* one of them is served.
QueueMoves ==
    (\E p \in Procs : pc[p] # "idle") =>
        \E p \in Procs : pc[p] # "idle" /\ Serving(p)

\* Every apply is answered or dropped, whatever the broker does: the
\* mutation mutex is never held for ever and is granted in turn.
ApplyAnswered == \A p \in Procs : pc[p] = "waiting" ~> pc[p] = "idle"
=============================================================================
