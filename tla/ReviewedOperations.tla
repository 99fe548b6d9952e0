------------------------- MODULE ReviewedOperations -------------------------
(***************************************************************************)
(* Reviewed changes of JetStream resources (src/src/reviews.rs,            *)
(* src/src/editing.rs, src/src/operations.rs).                             *)
(*                                                                         *)
(* A preview reads the resource and stores an approval under a one-use     *)
(* token.  An apply queues for the one mutation mutex of its profile,      *)
(* takes the approval, reads the resource again, records the attempt,      *)
(* sends one request, reads back and records the outcome.  Each await of   *)
(* apply is a point where the broker, other clients, the clock, a client   *)
(* that disconnects (its handler is dropped) or a restart may step in.  A  *)
(* request that timed out may still be executed later.                     *)
(*                                                                         *)
(* `review' after the take, `changed_by', `sends', `effects', `answers'    *)
(* and `unsaved' are history that only the properties read.                *)
(***************************************************************************)
EXTENDS Naturals, FiniteSets

CONSTANTS
    Procs,          \* apply requests in flight
    Owners,         \* browser sessions
    Tokens,         \* what getrandom can return; bounds the previews
    Resources,      \* streams and consumers of the profile
    Configs,        \* configurations, pause state included
    Kinds,          \* the operations of the instance
    None,           \* an absent value
    MaxReviews,     \* 32 in each review table
    MaxCreations    \* bound on creations by other clients

\* "update" is the settings editor; the others are proposals of the
\* operations page: "create", "delete", "pause" (and resume), "records"
\* (purge, delete_message, republish_message), "publish" (to a stream) and
\* "core" (a message nobody acknowledges).
Publications == {"publish", "core"}

\* The kinds that carry a configuration to be set.
Configured == {"update", "create", "pause"}

AllKinds ==
    {"update", "create", "delete", "pause", "records"} \cup Publications

ASSUME ReviewedOperationsAssumption ==
    /\ Kinds \subseteq AllKinds
    /\ None \notin Procs \cup Owners \cup Tokens \cup Resources \cup Configs
    /\ IsFiniteSet(Tokens)
    /\ MaxReviews \in Nat \ {0}
    /\ MaxCreations \in Nat

VARIABLES
    resource,       \* the broker: what each resource is
    creations,      \* the broker: creation timestamps given out
    wire,           \* tokens whose request is on its way to the broker
    pending,        \* tokens in the review tables, not expired
    review,         \* the approval stored under each token
    ahead,          \* the mutation mutex: who must leave it before a request
    pc, asked,      \* per request: next step, and what it presented
    result,         \* per request: the broker's answer
    outcome,        \* per request: what it will record and answer
    audit,          \* the records stored for each token
    changed_by,     \* history: who made the last change of a resource
    sends,          \* history: requests sent for each token
    effects,        \* history: tokens whose request the broker executed
    answers,        \* history: how the request that took a token ended
    unsaved         \* history: tokens whose outcome could not be stored

brokerVars == <<resource, creations, wire, changed_by, effects>>
reviewVars == <<pending, review>>
procVars == <<ahead, pc, asked, result, outcome>>
historyVars == <<sends, answers, unsaved>>
vars == <<resource, creations, wire, pending, review, ahead, pc, asked,
          result, outcome, audit, changed_by, sends, effects, answers,
          unsaved>>

-----------------------------------------------------------------------------
State == [created : Nat, config : Configs]

\* The revision of a resource is a digest of exactly these two fields.
Revision(r) == resource[r]

Review ==
    {v \in [kind : AllKinds, owner : Owners, resource : Resources,
            config : Configs \cup {None}, revision : State \cup {None}] :
        v.config # None <=> v.kind \in Configured}

Asked == [token : Tokens, owner : Owners]

Outcomes == {"verified", "accepted", "uncertain"}

ASSUME NoneAssumption ==
    None \notin Review \cup State \cup Asked \cup Outcomes
                  \cup {"ok", "error", "refused", "dropped", "stopped"}

\* Settings reviews and operation reviews are kept in tables of their own.
Table(kind) == IF kind = "update" THEN "settings" ELSE "operations"

Stored(table) == {t \in pending : Table(review[t].kind) = table}

Token(p) == asked[p].token

Approved(p) == review[Token(p)]

\* Request p has taken the approval t and has not ended.
Working(p, t) == pc[p] \notin {"idle", "waiting"} /\ Token(p) = t

-----------------------------------------------------------------------------
(* Reviews.                                                                *)

\* preview: the read of the resource only fixes the revision under which
\* the approval is stored, so the read and the insertion are one step.
preview ==
    /\ \E t \in Tokens, kind \in Kinds, o \in Owners, r \in Resources,
          c \in Configs \cup {None} :
         /\ review[t] = None
         /\ c # None <=> kind \in Configured
         /\ kind = "create" => resource[r] = None
         /\ kind \notin {"create"} \cup Publications => resource[r] # None
         /\ Cardinality(Stored(Table(kind))) < MaxReviews
         /\ review' = [review EXCEPT ![t] =
              [kind |-> kind, owner |-> o, resource |-> r, config |-> c,
               revision |-> IF kind \in Publications THEN None
                             ELSE Revision(r)]]
         /\ pending' = pending \cup {t}
    /\ UNCHANGED <<brokerVars, procVars, audit, historyVars>>

\* Every access drops the expired entries first, so an entry is gone for
\* everyone the moment it expires.
Expire(t) ==
    /\ t \in pending
    /\ pending' = pending \ {t}
    /\ UNCHANGED <<review, brokerVars, procVars, audit, historyVars>>

-----------------------------------------------------------------------------
(* Apply.                                                                  *)

\* writable has passed; the request waits for the mutation mutex.
Arrive(p) ==
    /\ pc[p] = "idle"
    /\ \E t \in Tokens, o \in Owners :
         /\ review[t] # None
         /\ asked' = [asked EXCEPT ![p] = [token |-> t, owner |-> o]]
    /\ pc' = [pc EXCEPT ![p] = "waiting"]
    /\ ahead' = [ahead EXCEPT ![p] = {q \in Procs : pc[q] # "idle"}]
    /\ UNCHANGED <<result, outcome, reviewVars, brokerVars, audit,
                   historyVars>>

\* Fault: each review table has a mutex of its own.
Serving_by_table(p) ==
    \A q \in ahead[p] : Table(Approved(q).kind) # Table(Approved(p).kind)

\* tokio's mutex is granted in the order of arrival.
Serving(p) == ahead[p] = {}

Step(p, from, to) ==
    /\ pc[p] = from
    /\ Serving(p)
    /\ pc' = [pc EXCEPT ![p] = to]

\* The handler returns or is dropped: the mutex goes to the next request.
Release(p) ==
    /\ pc' = [pc EXCEPT ![p] = "idle"]
    /\ ahead' = [q \in Procs |-> IF q = p THEN {} ELSE ahead[q] \ {p}]
    /\ asked' = [asked EXCEPT ![p] = None]
    /\ result' = [result EXCEPT ![p] = None]
    /\ outcome' = [outcome EXCEPT ![p] = None]

Owned(p) == Token(p) \in pending /\ Approved(p).owner = asked[p].owner

\* Fault: the approval is left in its table until it expires.
take_leaves_entry(p) ==
    /\ Step(p, "waiting", "revalidate")
    /\ Owned(p)
    /\ UNCHANGED pending
    /\ UNCHANGED <<review, ahead, asked, result, outcome, brokerVars, audit,
                   historyVars>>

\* Reviews::take: the approval is removed before any other await.
take(p) ==
    /\ Step(p, "waiting", "revalidate")
    /\ Owned(p)
    /\ pending' = pending \ {Token(p)}
    /\ UNCHANGED <<review, ahead, asked, result, outcome, brokerVars, audit,
                   historyVars>>

\* Fault: the approval is removed before the session is compared.
TakeRejected_removes(p) ==
    /\ pc[p] = "waiting"
    /\ Serving(p)
    /\ pending' = pending \ {Token(p)}
    /\ Release(p)
    /\ UNCHANGED <<review, brokerVars, audit, historyVars>>

\* Missing, expired, of another session, or the confirmation (a text or a
\* tick) does not match: what is stored stays stored.
TakeRejected(p) ==
    /\ pc[p] = "waiting"
    /\ Serving(p)
    /\ Release(p)
    /\ UNCHANGED <<reviewVars, brokerVars, audit, historyVars>>

\* What apply demands of the resource it reads again.
Unchanged(v) == v.kind \in Publications \/ Revision(v.resource) = v.revision

Revalidate(p) ==
    /\ Step(p, "revalidate", "audit")
    /\ Unchanged(Approved(p))
    /\ UNCHANGED <<ahead, asked, result, outcome, reviewVars, brokerVars,
                   audit, historyVars>>

\* The handler ends with an answer that says nothing was sent.
Refuse(p) ==
    /\ Serving(p)
    /\ answers' = [answers EXCEPT ![Token(p)] = "refused"]
    /\ Release(p)
    /\ UNCHANGED <<reviewVars, brokerVars, sends, unsaved>>

\* No connection, an old server, an unreadable or a changed resource.
RevalidateRefused(p) ==
    /\ pc[p] = "revalidate"
    /\ Refuse(p)
    /\ UNCHANGED audit

\* The attempt is stored before anything is sent.
Audit(p) ==
    /\ Step(p, "audit", "send")
    /\ audit' = [audit EXCEPT ![Token(p)] = @ \cup {"attempt"}]
    /\ UNCHANGED <<ahead, asked, result, outcome, reviewVars, brokerVars,
                   historyVars>>

AuditFails(p) ==
    /\ pc[p] = "audit"
    /\ Refuse(p)
    /\ UNCHANGED audit

Send(p) ==
    /\ Step(p, "send", "reply")
    /\ wire' = wire \cup {Token(p)}
    /\ sends' = [sends EXCEPT ![Token(p)] = @ + 1]
    /\ UNCHANGED <<ahead, asked, result, outcome, reviewVars, resource,
                   creations, changed_by, effects, audit, answers, unsaved>>

\* The editor reads back whatever came of the request, an operation only
\* when it was accepted and concerns a resource.
ReadsBack(v, ok) ==
    v.kind = "update" \/ (ok /\ v.kind \in {"create", "delete", "pause"})

\* The request failed without being sent, was answered or timed out.
Settled(p, from, ok) ==
    /\ Step(p, from, IF ReadsBack(Approved(p), ok) THEN "readback"
                     ELSE "outcome")
    /\ result' = [result EXCEPT ![p] =
         IF ~ReadsBack(Approved(p), ok) THEN None
         ELSE IF ok THEN "ok" ELSE "error"]
    /\ \E verified \in BOOLEAN :
         /\ verified => Approved(p).kind = "records"
         /\ outcome' = [outcome EXCEPT ![p] =
              IF ReadsBack(Approved(p), ok) THEN None
              ELSE IF ~ok \/ Approved(p).kind = "core" THEN "uncertain"
              ELSE IF verified THEN "verified" ELSE "accepted"]
    /\ UNCHANGED <<ahead, asked, reviewVars, brokerVars, audit, historyVars>>

SendFails(p) == Settled(p, "send", FALSE)

\* Fault: an error in the reply is taken for an answer.
ReceiveReply_any(p) ==
    /\ pc[p] = "reply"
    /\ result[p] # None
    /\ Settled(p, "reply", TRUE)

ReceiveReply(p) ==
    /\ pc[p] = "reply"
    /\ result[p] # None
    /\ Settled(p, "reply", result[p] = "ok")

\* A core message only has to reach the socket.
Flushed(p) ==
    /\ pc[p] = "reply"
    /\ Approved(p).kind = "core"
    /\ Settled(p, "reply", TRUE)

\* Fault: the request waits for its answer for ever.
Timeout_never(p) == FALSE /\ Settled(p, "reply", FALSE)

\* Three or five seconds have passed.
Timeout(p) == Settled(p, "reply", FALSE)

\* What the read that follows the request must show.
Verified(v) ==
    LET state == resource[v.resource]
    IN  CASE v.kind = "create" -> state # None
          [] v.kind = "delete" -> state = None
          [] v.kind = "pause"  -> state # None /\ state.config = v.config
          [] v.kind = "update" -> /\ state # None
                                  /\ state.created = v.revision.created
                                  /\ state.config = v.config

Readback(p) ==
    /\ Step(p, "readback", "outcome")
    /\ \E readable \in BOOLEAN :
         outcome' = [outcome EXCEPT ![p] =
            IF readable /\ Verified(Approved(p)) THEN "verified"
            ELSE IF result[p] = "ok" THEN "accepted" ELSE "uncertain"]
    /\ result' = [result EXCEPT ![p] = None]
    /\ UNCHANGED <<ahead, asked, reviewVars, brokerVars, audit,
                   historyVars>>

\* Fault: a failed request returns before its outcome is stored.
RecordOutcome_returns_early(p) ==
    /\ pc[p] = "outcome"
    /\ Serving(p)
    /\ audit' = [audit EXCEPT ![Token(p)] =
                   IF outcome[p] # "uncertain" THEN @ \cup {outcome[p]} ELSE @]
    /\ answers' = [answers EXCEPT ![Token(p)] = outcome[p]]
    /\ Release(p)
    /\ UNCHANGED <<reviewVars, brokerVars, sends, unsaved>>

\* The outcome is stored and answered.
RecordOutcome(p) ==
    /\ pc[p] = "outcome"
    /\ Serving(p)
    /\ audit' = [audit EXCEPT ![Token(p)] = @ \cup {outcome[p]}]
    /\ answers' = [answers EXCEPT ![Token(p)] = outcome[p]]
    /\ Release(p)
    /\ UNCHANGED <<reviewVars, brokerVars, sends, unsaved>>

\* The outcome cannot be stored: the answer of an accepted change says so
\* (audit_saved), the one of a failed change only reports the failure.
RecordFails(p) ==
    /\ pc[p] = "outcome"
    /\ Serving(p)
    /\ answers' = [answers EXCEPT ![Token(p)] = outcome[p]]
    /\ unsaved' = unsaved \cup {Token(p)}
    /\ Release(p)
    /\ UNCHANGED <<reviewVars, brokerVars, audit, sends>>

\* The client closes its connection and the handler is dropped where it
\* waits.  A record handed to the database thread is still written.
Disconnect(p) ==
    /\ pc[p] # "idle"
    /\ \/ UNCHANGED audit
       \/ /\ pc[p] \in {"audit", "outcome"}
          /\ audit' = [audit EXCEPT ![Token(p)] = @ \cup
                {IF pc[p] = "audit" THEN "attempt" ELSE outcome[p]}]
    /\ answers' = IF pc[p] = "waiting" THEN answers
                  ELSE [answers EXCEPT ![Token(p)] = "dropped"]
    /\ Release(p)
    /\ UNCHANGED <<reviewVars, brokerVars, sends, unsaved>>

-----------------------------------------------------------------------------
(* The broker and its other clients.                                       *)

Awaiting(p, t) == pc[p] = "reply" /\ Token(p) = t

Awaited(t) == \E p \in Procs : Awaiting(p, t)

\* The broker's answer reaches whoever still waits for it.
Answer(t, answer) ==
    result' = [p \in Procs |-> IF Awaiting(p, t) THEN answer ELSE result[p]]

Executable(v) ==
    CASE v.kind = "create"  -> resource[v.resource] # None =>
                                  resource[v.resource].config = v.config
      [] v.kind \in Publications -> TRUE
      [] OTHER              -> resource[v.resource] # None

\* Creating what exists with that very configuration changes nothing.
After(v) ==
    CASE v.kind = "create" /\ resource[v.resource] = None ->
            [created |-> creations + 1, config |-> v.config]
      [] v.kind = "delete" -> None
      [] v.kind \in {"update", "pause"} ->
            [resource[v.resource] EXCEPT !.config = v.config]
      [] OTHER -> resource[v.resource]

\* The broker executes a request, whether or not anyone still waits.
Execute(t) ==
    /\ t \in wire
    /\ Executable(review[t])
    /\ LET v == review[t]
       IN  /\ resource' = [resource EXCEPT ![v.resource] = After(v)]
           /\ creations' = IF v.kind = "create" /\ resource[v.resource] = None
                           THEN creations + 1 ELSE creations
           /\ changed_by' = [changed_by EXCEPT ![v.resource] =
                IF After(v) = resource[v.resource] THEN @
                ELSE IF Awaited(t) THEN "request" ELSE "late"]
    /\ wire' = wire \ {t}
    /\ Answer(t, "ok")
    /\ effects' = effects \cup {t}
    /\ UNCHANGED <<reviewVars, ahead, pc, asked, outcome, audit, historyVars>>

\* The broker rejects the request, or the request is lost with its
\* connection.
Reject(t) ==
    /\ t \in wire
    /\ wire' = wire \ {t}
    /\ \E answer \in {"error", None} : Answer(t, answer)
    /\ UNCHANGED <<resource, creations, changed_by, effects, reviewVars,
                   ahead, pc, asked, outcome, audit, historyVars>>

\* Another client creates, changes or deletes a resource.
Outsider(r) ==
    /\ \/ /\ resource[r] = None
          /\ creations < MaxCreations
          /\ creations' = creations + 1
          /\ \E c \in Configs :
               resource' = [resource EXCEPT ![r] =
                              [created |-> creations + 1, config |-> c]]
       \/ /\ resource[r] # None
          /\ \E c \in Configs \ {resource[r].config} :
               resource' = [resource EXCEPT ![r].config = c]
          /\ UNCHANGED creations
       \/ /\ resource[r] # None
          /\ resource' = [resource EXCEPT ![r] = None]
          /\ UNCHANGED creations
    /\ changed_by' = [changed_by EXCEPT ![r] = "outsider"]
    /\ UNCHANGED <<wire, effects, reviewVars, procVars, audit,
                   historyVars>>

-----------------------------------------------------------------------------
\* The process stops anywhere and starts again; requests already sent and
\* records already stored remain.
Restart ==
    /\ pending' = {}
    /\ ahead' = [p \in Procs |-> {}]
    /\ pc' = [p \in Procs |-> "idle"]
    /\ asked' = [p \in Procs |-> None]
    /\ result' = [p \in Procs |-> None]
    /\ outcome' = [p \in Procs |-> None]
    /\ answers' = [t \in Tokens |->
                     IF \E p \in Procs : Working(p, t) THEN "stopped"
                     ELSE answers[t]]
    /\ UNCHANGED <<review, brokerVars, audit, sends, unsaved>>

Init ==
    /\ resource \in [Resources -> {None} \cup [created : {1}, config : Configs]]
    /\ creations = 1
    /\ wire = {}
    /\ pending = {}
    /\ review = [t \in Tokens |-> None]
    /\ ahead = [p \in Procs |-> {}]
    /\ pc = [p \in Procs |-> "idle"]
    /\ asked = [p \in Procs |-> None]
    /\ result = [p \in Procs |-> None]
    /\ outcome = [p \in Procs |-> None]
    /\ audit = [t \in Tokens |-> {}]
    /\ changed_by = [r \in Resources |-> "outsider"]
    /\ sends = [t \in Tokens |-> 0]
    /\ effects = {}
    /\ answers = [t \in Tokens |-> None]
    /\ unsaved = {}

\* What apply does next by itself.
Proceed(p) ==
    \/ take(p)
    \/ TakeRejected(p)
    \/ Revalidate(p)
    \/ RevalidateRefused(p)
    \/ Audit(p)
    \/ AuditFails(p)
    \/ Send(p)
    \/ SendFails(p)
    \/ ReceiveReply(p)
    \/ Flushed(p)
    \/ Timeout(p)
    \/ Readback(p)
    \/ RecordOutcome(p)
    \/ RecordFails(p)

Next ==
    \/ preview
    \/ \E p \in Procs : Arrive(p) \/ Proceed(p) \/ Disconnect(p)
    \/ \E t \in Tokens : Expire(t) \/ Execute(t) \/ Reject(t)
    \/ \E r \in Resources : Outsider(r)
    \/ Restart

Spec == Init /\ [][Next]_vars

\* The runtime polls a handler until it answers; the timers fire.
FairSpec == Spec /\ \A p \in Procs : WF_vars(Proceed(p))
=============================================================================
