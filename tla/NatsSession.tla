---------------------------- MODULE NatsSession ----------------------------
(***************************************************************************)
(* One NATS login session in session-only mode: the calls of one page that *)
(* src/src/nats_login.rs dispatches with a connection of their own, the    *)
(* observations they share, and the session tools of                       *)
(* src/src/native_tools.rs: the monitoring choice, the server slots and    *)
(* the failure watch.                                                      *)
(*                                                                         *)
(* Each step runs from one await to the next.  The page is the one of      *)
(* src/web/session-tools.js.                                               *)
(***************************************************************************)
EXTENDS Integers, Sequences, FiniteSets, SequencesExt

CONSTANTS
    None,
    Calls,        \* calls of the page that are under way together
    Servers,      \* server identities that answer monitoring requests
    SlotLimit,    \* 32 slots of a session
    RecordLimit,  \* 120 failures of a watch
    Quarters,     \* 32 quarters of a second that a watch lasts
    MaxCalls,     \* bound on calls (not in the code)
    MaxEvents     \* bound on faults and on changes of the account (same)

Sample == [at : Nat, large : BOOLEAN]

ASSUME NatsSessionAssumption ==
    /\ {SlotLimit, RecordLimit, Quarters} \subseteq Nat \ {0}
    /\ {MaxCalls, MaxEvents} \subseteq Nat
    /\ IsFiniteSet(Servers) /\ IsFiniteSet(Calls)
    /\ None \notin Sample

VARIABLES
    valid,      \* the session is in the table of sessions
    accepts,    \* NATS accepts the credentials of the session
    choice,     \* MonitoringState
    slots,      \* server identities, in the order they were met
    ahead,      \* [Calls -> calls that get Observations::previous before it]
    previous,   \* the retained observation, or None
    fresh,      \* it is younger than two seconds
    samples,    \* the samples of the session's store
    compared,   \* pairs of observations whose changes are in the store
    submitted,  \* samples handed to the storage thread
    req,        \* [Calls -> call]
    page,       \* what the page shows: choice, revision, node links
    watch,      \* the failure watch, or None
    coverage,   \* the last coverage record of a watch, or None
    calls, events, taken,   \* bounds: calls, events; observations so far
    choices,    \* history: the choice of each revision
    orphans     \* history: samples whose call left before it was answered

tools == <<choice, slots>>
observations == <<ahead, previous, fresh, samples, compared, submitted>>
watching == <<watch, coverage>>
session == <<valid, accepts>>
history == <<choices, orphans>>
vars == <<session, tools, observations, req, page, watching, calls, events,
          taken, history>>

Disturb == events < MaxEvents /\ events' = events + 1
Fault == Disturb

Idle == [kind |-> None, phase |-> "idle", choice |-> None, obs |-> None,
         cached |-> FALSE, nodes |-> {}]

-----------------------------------------------------------------------------
(* A call: the guard, then dispatch *)

Arrive(c, kind) ==
    /\ req[c].phase = "idle" /\ valid
    /\ calls < MaxCalls /\ calls' = calls + 1
    /\ req' = [req EXCEPT ![c] = [Idle EXCEPT !.kind = kind,
                                              !.phase = "guarded"]]
    /\ UNCHANGED <<session, tools, observations, page, watching, events, taken,
                   history>>

At(c, phase) == req' = [req EXCEPT ![c].phase = phase]

Refused(c) == req' = [req EXCEPT ![c] = [Idle EXCEPT !.phase = "answered"]]

\* The guard looks the session up again and hands it on, the profile it may use
\* is looked up once more, and the call never goes to the collector's routes.
Admitted == valid

\* One of 32 permits is taken, which the calls of other sessions may hold, and
\* the credentials are presented to NATS anew.
Connect(c) ==
    /\ req[c].phase = "guarded"
    /\ IF Admitted /\ accepts
       THEN \/ At(c, "connected") /\ UNCHANGED events
            \/ Refused(c) /\ Fault
       ELSE Refused(c) /\ UNCHANGED events
    /\ UNCHANGED <<session, tools, observations, page, watching, calls, taken,
                   history>>

Ordinary == {"snapshot", "inventory"}

\* A call that holds the lock on the observations or waits for it.
Queued(c) ==
    req[c].phase \in {"waiting", "observed", "compare", "store", "stored"}

\* The lock is passed on in the order of arrival (tokio's mutex is fair).
Served(c) == ahead[c] = {}

ReadChoice(c) ==
    /\ req[c].phase = "connected" /\ req[c].kind \in Ordinary
    /\ CASE req[c].kind = "snapshot" ->
              /\ ahead' = [ahead EXCEPT ![c] = {d \in Calls : Queued(d)}]
              /\ req' = [req EXCEPT ![c].phase = "waiting",
                                    ![c].choice = choice]
         [] req[c].kind = "inventory" /\ choice.enabled ->
              /\ req' = [req EXCEPT ![c].phase = "inventory"]
              /\ UNCHANGED ahead
         [] OTHER -> Refused(c) /\ UNCHANGED ahead
    /\ UNCHANGED <<session, tools, previous, fresh, samples, compared, submitted,
                   page, watching, calls, events, taken, history>>

set_monitoring(c) ==
    /\ req[c].phase = "connected" /\ req[c].kind \notin Ordinary
    /\ choice' = [enabled |-> req[c].kind = "enable",
                  revision |-> choice.revision + 1]
    /\ choices' = choices \cup {choice'}
    /\ req' = [req EXCEPT ![c].phase = "answered", ![c].choice = choice']
    /\ UNCHANGED <<session, slots, observations, page, watching, calls, events,
                   taken, orphans>>

-----------------------------------------------------------------------------
(* Monitoring through NATS: replies in any order, from any of the servers *)

Replies == {r \in UNION {[1 .. n -> Servers] : n \in 0 .. Cardinality(Servers)} :
               IsInjective(r)}

\* The servers that have no slot take the free ones in the order of their
\* replies.
Known(known, replies) ==
    LET new == {i \in DOMAIN replies : replies[i] \notin ToSet(known)}
        nth(k) == CHOOSE i \in new : Cardinality({j \in new : j <= i}) = k
        free == SlotLimit - Len(known)
    IN known \o [k \in 1 .. Min({Cardinality(new), free}) |-> replies[nth(k)]]

\* Fault: every round numbers the servers anew.
Slotted_anew(replies) == Known(<<>>, replies)

Slotted(replies) == Known(slots, replies)

Links(known, replies) ==
    {link \in (1 .. SlotLimit) \X ToSet(replies) :
        link[1] \in DOMAIN known /\ known[link[1]] = link[2]}

inventory(c) ==
    /\ req[c].phase = "inventory"
    /\ \E replies \in Replies :
          IF replies = <<>>
          THEN Refused(c) /\ UNCHANGED slots
          ELSE /\ slots' = Slotted(replies)
               /\ req' = [req EXCEPT ![c].phase = "answered",
                              ![c].nodes = Links(slots', replies)]
    /\ UNCHANGED <<session, choice, observations, page, watching, calls, events,
                   taken, history>>

-----------------------------------------------------------------------------
(* A snapshot: one call at a time observes, compares and stores *)

Release(c) ==
    ahead' = [d \in Calls |-> IF d = c THEN {} ELSE ahead[d] \ {c}]

Observed(c, at, large) ==
    req' = [req EXCEPT ![c].phase = "observed",
                       ![c].obs = [at |-> at, large |-> large]]

\* Fault: the observation is taken before the lock.
Observe_unlocked(c) ==
    /\ req[c].phase = "waiting"
    /\ taken' = taken + 1
    /\ \/ Observed(c, taken', FALSE) /\ UNCHANGED events
       \/ Observed(c, taken', TRUE) /\ Disturb
    /\ UNCHANGED <<session, tools, observations, page, watching, calls, history>>

Observe(c) ==
    /\ req[c].phase = "waiting" /\ Served(c)
    /\ IF previous # None /\ fresh
       THEN /\ req' = [req EXCEPT ![c].phase = "observed",
                                  ![c].obs = previous, ![c].cached = TRUE]
            /\ UNCHANGED <<events, taken>>
       ELSE /\ taken' = taken + 1
            /\ \/ Observed(c, taken', FALSE) /\ UNCHANGED events
               \/ Observed(c, taken', TRUE) /\ Disturb    \* over 4 MiB
    /\ UNCHANGED <<session, tools, observations, page, watching, calls, history>>

\* native_tools::observe, if the choice of this call allows it.
Monitor(c) ==
    /\ req[c].phase = "observed" /\ Served(c)
    /\ \E replies \in IF req[c].choice.enabled THEN Replies ELSE {<<>>} :
          /\ slots' = Slotted(replies)
          /\ req' = [req EXCEPT
                 ![c].nodes = Links(slots', replies),
                 ![c].phase = IF req[c].cached THEN "answered" ELSE "compare"]
    /\ IF req[c].cached THEN Release(c) ELSE UNCHANGED ahead
    /\ UNCHANGED <<session, choice, previous, fresh, samples, compared,
                   submitted, page, watching, calls, events, taken, history>>

\* The incidents of the comparison, then the sample, which runs on a thread of
\* its own.
Compare(c) ==
    /\ req[c].phase = "compare"
    /\ \/ /\ compared' = IF previous = None THEN compared
                         ELSE compared \cup {<<previous.at, req[c].obs.at>>}
          /\ submitted' = submitted \cup {req[c].obs}
          /\ At(c, "store")
          /\ UNCHANGED <<ahead, events>>
       \/ Refused(c) /\ Release(c) /\ Fault /\ UNCHANGED <<compared, submitted>>
    /\ UNCHANGED <<session, tools, previous, fresh, samples, page, watching,
                   calls, taken, history>>

Waiting(o) == {c \in Calls : req[c].phase = "store" /\ req[c].obs = o}

\* Fault: a call whose sample is refused keeps the lock.
StoreSample_holding(o) ==
    /\ o \in submitted
    /\ submitted' = submitted \ {o}
    /\ \/ /\ samples' = Append(samples, o)
          /\ req' = [c \in Calls |-> IF c \in Waiting(o)
                                     THEN [req[c] EXCEPT !.phase = "stored"]
                                     ELSE req[c]]
          /\ UNCHANGED events
       \/ /\ Fault
          /\ req' = [c \in Calls |-> IF c \in Waiting(o)
                                     THEN [Idle EXCEPT !.phase = "answered"]
                                     ELSE req[c]]
          /\ UNCHANGED samples
    /\ UNCHANGED <<session, tools, ahead, previous, fresh, compared, page,
                   watching, calls, taken, history>>

StoreSample(o) ==
    /\ o \in submitted
    /\ submitted' = submitted \ {o}
    /\ \/ /\ samples' = Append(samples, o)
          /\ req' = [c \in Calls |-> IF c \in Waiting(o)
                                     THEN [req[c] EXCEPT !.phase = "stored"]
                                     ELSE req[c]]
          /\ UNCHANGED <<events, ahead>>
       \/ /\ Fault
          /\ req' = [c \in Calls |-> IF c \in Waiting(o)
                                     THEN [Idle EXCEPT !.phase = "answered"]
                                     ELSE req[c]]
          /\ ahead' = [d \in Calls |-> ahead[d] \ Waiting(o)]
          /\ UNCHANGED samples
    /\ UNCHANGED <<session, tools, previous, fresh, compared, page, watching,
                   calls, taken, history>>

\* Fault: an observation too large to retain leaves the older one in place.
Retain_older(c) ==
    /\ req[c].phase = "stored"
    /\ previous' = IF req[c].obs.large THEN previous ELSE req[c].obs
    /\ fresh' = TRUE
    /\ Release(c) /\ At(c, "answered")
    /\ UNCHANGED <<session, tools, samples, compared, submitted, page, watching,
                   calls, events, taken, history>>

Retain(c) ==
    /\ req[c].phase = "stored"
    /\ previous' = IF req[c].obs.large THEN None ELSE req[c].obs
    /\ fresh' = TRUE
    /\ Release(c) /\ At(c, "answered")
    /\ UNCHANGED <<session, tools, samples, compared, submitted, page, watching,
                   calls, events, taken, history>>

Age ==
    /\ fresh /\ fresh' = FALSE
    /\ UNCHANGED <<session, tools, ahead, previous, samples, compared, submitted,
                   req, page, watching, calls, events, taken, history>>

\* The page reads an answer; a choice older than the one it shows is ignored.
\* Fault: an older choice is taken over.
Deliver_any(c) ==
    /\ req[c].phase = "answered"
    /\ req' = [req EXCEPT ![c] = Idle]
    /\ page' = [choice |-> IF req[c].choice # None
                           THEN req[c].choice ELSE page.choice,
                links |-> IF req[c].kind \in Ordinary
                          THEN req[c].nodes ELSE page.links]
    /\ UNCHANGED <<session, tools, observations, watching, calls, events, taken,
                   history>>

Deliver(c) ==
    /\ req[c].phase = "answered"
    /\ req' = [req EXCEPT ![c] = Idle]
    /\ page' = [choice |-> IF /\ req[c].choice # None
                              /\ req[c].choice.revision >= page.choice.revision
                           THEN req[c].choice ELSE page.choice,
                links |-> IF req[c].kind \in Ordinary
                          THEN req[c].nodes ELSE page.links]
    /\ UNCHANGED <<session, tools, observations, watching, calls, events, taken,
                   history>>

\* The browser closes the connection of a call: its handler is dropped where
\* it waits, with the lock, and what the storage thread has goes on.
Leave(c) ==
    /\ req[c].phase \notin {"idle", "answered"} /\ Disturb
    /\ req' = [req EXCEPT ![c] = Idle]
    /\ Release(c)
    /\ orphans' = IF req[c].phase \in {"store", "stored"}
                  THEN orphans \cup {req[c].obs.at} ELSE orphans
    /\ UNCHANGED <<session, tools, previous, fresh, samples, compared, submitted,
                   page, watching, calls, taken, choices>>

Serve(c) ==
    \/ Connect(c) \/ ReadChoice(c) \/ set_monitoring(c) \/ inventory(c)
    \/ Observe(c) \/ Monitor(c) \/ Compare(c) \/ Retain(c) \/ Deliver(c)

-----------------------------------------------------------------------------
(* The failure watch of one stream, over a connection of its own *)

\* "lost" is the quarter the link was lost in; "missed" holds, for each failure
\* the link did not carry, how many checks the outage had lasted.
Watch == [quarter |-> 0, link |-> TRUE, lost |-> 0, pending |-> 0,
          received |-> 0, missed |-> {}]

WatchStart ==
    /\ watch = None /\ valid /\ accepts
    /\ calls < MaxCalls /\ calls' = calls + 1
    /\ watch' = Watch
    /\ UNCHANGED <<session, tools, observations, req, page, coverage, events,
                   taken, history>>

WatchStep ==
    UNCHANGED <<session, tools, observations, req, page, calls, taken, history>>

\* A consumer gives a message up.
Failure ==
    /\ watch # None /\ Disturb
    /\ watch' = IF watch.link
                THEN [watch EXCEPT !.pending = @ + 1]
                ELSE [watch EXCEPT !.missed =
                          @ \cup {watch.quarter - watch.lost}]
    /\ WatchStep /\ UNCHANGED coverage

\* The client loses the link, or reconnects by itself.
Link ==
    /\ watch # None /\ Disturb
    /\ watch' = [watch EXCEPT !.link = ~@,
                              !.lost = IF watch.link THEN watch.quarter ELSE @]
    /\ WatchStep /\ UNCHANGED coverage

\* The coverage record closes the window; without it the call fails.
Close(gap) ==
    /\ watch' = None
    /\ \/ /\ coverage' = [gap |-> gap, missed |-> watch.missed]
          /\ UNCHANGED events
       \/ Fault /\ UNCHANGED coverage
    /\ WatchStep

Receive ==
    /\ watch # None /\ watch.pending > 0
    /\ IF watch.received >= RecordLimit
       THEN Close(TRUE)
       ELSE /\ watch' = [watch EXCEPT !.pending = @ - 1, !.received = @ + 1]
            /\ WatchStep /\ UNCHANGED <<coverage, events>>

\* Fault: the connection is not checked.
Check_blind ==
    /\ watch # None /\ watch.quarter < Quarters
    /\ watch' = [watch EXCEPT !.quarter = @ + 1]
    /\ WatchStep /\ UNCHANGED <<coverage, events>>

\* A quarter of a second passes, and the connection is checked.
Check ==
    /\ watch # None /\ watch.quarter < Quarters
    /\ IF watch.link
       THEN /\ watch' = [watch EXCEPT !.quarter = @ + 1]
            /\ WatchStep /\ UNCHANGED <<coverage, events>>
       ELSE Close(TRUE)

Deadline ==
    /\ watch # None /\ watch.quarter = Quarters
    /\ Close(FALSE)

-----------------------------------------------------------------------------

Revoke ==
    /\ valid /\ Disturb /\ valid' = FALSE
    /\ UNCHANGED <<accepts, tools, observations, req, page, watching, calls,
                   taken, history>>

Reject ==
    /\ accepts /\ Disturb /\ accepts' = FALSE
    /\ UNCHANGED <<valid, tools, observations, req, page, watching, calls, taken,
                   history>>

\* Monitoring is on after a sign-in that has reached a server.
Init ==
    /\ valid = TRUE /\ accepts = TRUE
    /\ \E enabled \in BOOLEAN :
          /\ choice = [enabled |-> enabled, revision |-> 0]
          /\ choices = {choice}
          /\ page = [choice |-> choice, links |-> {}]
    /\ slots = <<>>
    /\ ahead = [c \in Calls |-> {}] /\ previous = None /\ fresh = FALSE
    /\ samples = <<>> /\ compared = {} /\ submitted = {}
    /\ req = [c \in Calls |-> Idle]
    /\ watch = None /\ coverage = None
    /\ calls = 0 /\ events = 0 /\ taken = 0 /\ orphans = {}

Kinds == Ordinary \cup {"enable", "disable"}

Next ==
    \/ \E c \in Calls : Serve(c) \/ Leave(c)
    \/ \E c \in Calls, kind \in Kinds : Arrive(c, kind)
    \/ \E o \in submitted : StoreSample(o)
    \/ Age \/ Revoke \/ Reject
    \/ WatchStart \/ Failure \/ Link \/ Receive \/ Check \/ Deadline

Spec == Init /\ [][Next]_vars

\* A request has a timeout wherever it waits for NATS, the lock is passed on
\* in the order of arrival, and the storage thread goes on.
FairSpec ==
    /\ Spec
    /\ \A c \in Calls : WF_vars(Serve(c))
    /\ WF_vars(\E o \in submitted : StoreSample(o))
=============================================================================
