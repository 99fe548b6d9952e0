------------------------- MODULE NatsSessionProofs -------------------------
(***************************************************************************)
(* Proofs about the watch and the history of a NATS session, for any       *)
(* number of calls, servers and records, and about what its login is shown *)
(* and offered, for any grants.                                            *)
(***************************************************************************)
EXTENDS LoginAccessProperties, FiniteSetTheorems, TLAPS

WatchRecord ==
    [quarter : Nat, link : BOOLEAN, lost : Nat, pending : Nat, received : Nat,
     missed : SUBSET {0}]

\* While a watch goes on over a lost link no check has passed since the loss.
WatchInvariant ==
    /\ watch # None =>
          /\ watch \in WatchRecord
          /\ ~watch.link => watch.lost = watch.quarter
    /\ WatchCoverage

\* Only the steps of the watch change it (native_tools.rs watch).
LEMMA WatchSteps ==
  ASSUME WatchInvariant, [Next]_vars
  PROVE  WatchInvariant'
  <1> USE DEF WatchInvariant, WatchCoverage, WatchRecord
  <1>1. CASE WatchStart
    BY <1>1 DEF WatchStart, Watch
  <1>2. CASE Failure
    <2>1. /\ watch # None /\ UNCHANGED coverage
          /\ watch' = IF watch.link
                      THEN [watch EXCEPT !.pending = @ + 1]
                      ELSE [watch EXCEPT !.missed =
                                @ \cup {watch.quarter - watch.lost}]
      BY <1>2 DEF Failure
    <2>2. CASE watch.link
      BY <2>1, <2>2
    <2>3. CASE ~watch.link
      <3>1. watch.quarter - watch.lost = 0
        BY <2>1, <2>3
      <3> QED BY <2>1, <2>3, <3>1
    <2> QED BY <2>2, <2>3
  <1>3. CASE Link
    BY <1>3 DEF Link
  <1>4. CASE Receive
    <2>1. CASE watch.received >= RecordLimit
      BY <1>4, <2>1 DEF Receive, Close
    <2>2. CASE ~(watch.received >= RecordLimit)
      <3>1. /\ watch # None /\ watch.pending > 0 /\ UNCHANGED coverage
            /\ watch' = [watch EXCEPT !.pending = @ - 1, !.received = @ + 1]
        BY <1>4, <2>2 DEF Receive
      <3>2. watch.pending - 1 \in Nat /\ watch.received + 1 \in Nat
        BY <3>1
      <3> QED BY <3>1, <3>2
    <2> QED BY <2>1, <2>2
  <1>5. CASE Check
    BY <1>5 DEF Check, Close
  <1>6. CASE Deadline
    BY <1>6 DEF Deadline, Close
  <1>7. CASE UNCHANGED watching
    BY <1>7 DEF watching
  <1>8. \/ WatchStart \/ Failure \/ Link \/ Receive \/ Check \/ Deadline
        \/ UNCHANGED watching
    <2> USE DEF watching
    <2>1. CASE \E c \in Calls : Serve(c) \/ Leave(c)
      <3>1. PICK c \in Calls : Serve(c) \/ Leave(c)
        BY <2>1
      <3>2. CASE \/ Connect(c) \/ ReadChoice(c) \/ set_monitoring(c)
                 \/ inventory(c) \/ Leave(c)
        BY <3>2 DEF Leave, Connect, ReadChoice, set_monitoring, inventory
      <3>3. CASE \/ Observe(c) \/ Monitor(c) \/ Compare(c) \/ Retain(c)
                 \/ Deliver(c)
        BY <3>3 DEF Observe, Monitor, Compare, Retain, Deliver
      <3> QED BY <3>1, <3>2, <3>3 DEF Serve
    <2>2. CASE \E c \in Calls, kind \in Kinds : Arrive(c, kind)
      BY <2>2 DEF Arrive
    <2>3. CASE \E o \in submitted : StoreSample(o)
      BY <2>3 DEF StoreSample
    <2>4. CASE Age \/ Revoke \/ Reject
      BY <2>4 DEF Age, Revoke, Reject
    <2>5. CASE UNCHANGED vars
      BY <2>5 DEF vars
    <2> QED BY <2>1, <2>2, <2>3, <2>4, <2>5 DEF Next
  <1> QED BY <1>1, <1>2, <1>3, <1>4, <1>5, <1>6, <1>7, <1>8

\* A watch that reports its window as complete has not lost a failure in an
\* outage that outlasted a check, however often the link comes and goes
\* (native_tools.rs watch).
THEOREM WatchCoverageHolds == Spec => []WatchCoverage
  <1>1. Init => WatchInvariant
    BY DEF Init, WatchInvariant, WatchCoverage
  <1>2. WatchInvariant => WatchCoverage
    BY DEF WatchInvariant
  <1> QED BY <1>1, <1>2, WatchSteps, PTL DEF Spec

-----------------------------------------------------------------------------
(* The history of the session *)

Phases == {"idle", "guarded", "connected", "inventory", "waiting", "observed",
           "compare", "store", "stored", "answered"}

MonitoringStates == [enabled : BOOLEAN, revision : Nat]

Requests ==
    [kind : Kinds \cup {None}, phase : Phases, choice : MonitoringStates \cup {None},
     obs : Sample \cup {None}, cached : BOOLEAN, nodes : SUBSET (Nat \X Servers)]

TypeOK ==
    /\ req \in [Calls -> Requests] /\ ahead \in [Calls -> SUBSET Calls]
    /\ choice \in MonitoringStates /\ taken \in Nat
    /\ samples \in Seq(Sample) /\ submitted \subseteq Sample
    /\ previous \in Sample \cup {None} /\ compared \subseteq Nat \X Nat

Held(c) == req[c].phase \in {"observed", "compare", "store", "stored"}

\* One call at a time holds the lock on the observations.
Exclusive ==
    /\ \A c \in Calls : Held(c) => ahead[c] = {}
    /\ \A c, d \in Calls :
          Queued(c) /\ Queued(d) /\ c # d => c \in ahead[d] \/ d \in ahead[c]

\* The call has an observation that no sample is of.
Observing(c) ==
    req[c].phase = "compare" \/ (req[c].phase = "observed" /\ ~req[c].cached)

Storing(c) == req[c].phase = "store"
Stored(c) == req[c].phase = "stored"

\* The observation of the holder is the newest, and each is stored once.
Readings ==
    /\ \A i \in DOMAIN samples : samples[i].at <= taken
    /\ \A o \in submitted : o.at <= taken
    /\ previous # None => previous.at <= taken
    /\ \A c \in Calls : Observing(c) \/ Storing(c) \/ Stored(c) =>
          /\ req[c].obs \in Sample /\ req[c].obs.at = taken
          /\ previous # None => previous.at < taken
    /\ \A c \in Calls : Observing(c) =>
          /\ \A i \in DOMAIN samples : samples[i].at # taken
          /\ \A o \in submitted : o.at # taken
    /\ \A c \in Calls : Storing(c) => req[c].obs \in submitted
    /\ \A o \in submitted, i \in DOMAIN samples : samples[i].at # o.at
    /\ \A o, p \in submitted : o.at = p.at => o = p
    /\ \A o \in submitted :
          o.at \in orphans \/ \E c \in Calls : Storing(c) /\ req[c].obs = o

\* The newest sample that is not an orphan is the retained observation, or the
\* holder's, or was too large.
Retained ==
    /\ \A pair \in compared : pair[2] <= taken
    /\ previous # None => \A i \in DOMAIN samples : samples[i].at > previous.at =>
          \/ samples[i].at \in orphans
          \/ \E c \in Calls : Stored(c) /\ req[c].obs.at = samples[i].at
    /\ samples # <<>> /\ samples[Len(samples)].at \notin orphans =>
          /\ \/ samples[Len(samples)].large
             \/ previous # None /\ previous.at = samples[Len(samples)].at
             \/ \E c \in Calls : Stored(c)
          /\ \A c \in Calls : Stored(c) => samples[Len(samples)] = req[c].obs
          /\ \A c \in Calls : Storing(c) =>
                \/ samples[Len(samples)].large
                \/ <<samples[Len(samples)].at, taken>> \in compared

HistoryInvariant ==
    TypeOK /\ Exclusive /\ Readings /\ Retained
    /\ HistoryInOrder /\ ChangesCompared

\* The lock keeps a second holder out.
LEMMA OneHolder ==
  ASSUME Exclusive, NEW c \in Calls, NEW d \in Calls, Held(c),
         Held(d) \/ (Queued(d) /\ Served(d))
  PROVE  c = d
  BY DEF Exclusive, Held, Queued, Served

\* A session starts without observations.
LEMMA InitHistory == Init => HistoryInvariant
  <1> SUFFICES ASSUME Init PROVE HistoryInvariant
    OBVIOUS
  <1> USE NatsSessionAssumption DEF Init
  <1>1. TypeOK
    BY DEF TypeOK, Idle, Requests, Phases, MonitoringStates
  <1>2. Exclusive /\ Readings /\ Retained
    BY DEF Exclusive, Readings, Retained, Held, Queued, Observing, Storing, Stored,
           Idle
  <1>3. HistoryInOrder /\ ChangesCompared
    BY DEF HistoryInOrder, ChangesCompared, Times, IsInjective
  <1> QED BY <1>1, <1>2, <1>3 DEF HistoryInvariant

\* What the history says depends on the calls that hold the lock only.
LEMMA HistoryFrame ==
  ASSUME HistoryInvariant,
         \A c \in Calls :
            /\ Observing(c)' => Observing(c)
            /\ Storing(c)' <=> Storing(c)
            /\ Stored(c)' <=> Stored(c)
            /\ Observing(c)' \/ Storing(c) \/ Stored(c) =>
                  req'[c].obs = req[c].obs,
         UNCHANGED <<previous, samples, compared, submitted, taken, orphans>>
  PROVE  Readings' /\ Retained' /\ HistoryInOrder' /\ ChangesCompared'
  <1> USE DEF HistoryInvariant
  <1>1. Readings'
    BY DEF Readings
  <1>2. Retained'
    BY DEF Retained
  <1>3. HistoryInOrder' /\ ChangesCompared'
    <2>1. Times' = Times
      BY DEF Times
    <2> QED BY <2>1 DEF HistoryInOrder, ChangesCompared
  <1> QED BY <1>1, <1>2, <1>3

\* A call stays a call while it goes from phase to phase.
LEMMA RequestPhases ==
  ASSUME NEW r \in Requests, NEW phase \in Phases
  PROVE  /\ [r EXCEPT !.phase = phase] \in Requests
         /\ [r EXCEPT !.phase = phase].phase = phase
         /\ [r EXCEPT !.phase = phase].obs = r.obs
         /\ [r EXCEPT !.phase = phase].cached = r.cached
         /\ [r EXCEPT !.phase = phase].kind = r.kind
         /\ Idle \in Requests /\ Idle.phase = "idle"
         /\ [Idle EXCEPT !.phase = phase] \in Requests
         /\ [Idle EXCEPT !.phase = phase].phase = phase
  <1>1. /\ [r EXCEPT !.phase = phase] \in Requests
        /\ [r EXCEPT !.phase = phase].phase = phase
        /\ [r EXCEPT !.phase = phase].obs = r.obs
        /\ [r EXCEPT !.phase = phase].cached = r.cached
        /\ [r EXCEPT !.phase = phase].kind = r.kind
    BY DEF Requests
  <1>2. Idle \in Requests /\ Idle.phase = "idle"
    BY DEF Requests, Idle, Phases
  <1>3. /\ [Idle EXCEPT !.phase = phase] \in Requests
        /\ [Idle EXCEPT !.phase = phase].phase = phase
    BY <1>2 DEF Requests
  <1> QED BY <1>1, <1>2, <1>3

\* What changes one call leaves the others.
LEMMA OneRequest ==
  ASSUME TypeOK, NEW c \in Calls, NEW r \in Requests, req' = [req EXCEPT ![c] = r]
  PROVE  /\ req' \in [Calls -> Requests] /\ req'[c] = r
         /\ \A d \in Calls \ {c} : req'[d] = req[d]
  BY DEF TypeOK

\* A call outside the lock goes on outside it: arrival, the connection, the
\* monitoring choice, the list of servers and the delivery of an answer
\* (nats_login.rs dispatch, native_tools.rs).
LEMMA OutsideSteps ==
  ASSUME HistoryInvariant, NEW c \in Calls,
         \/ \E kind \in Kinds : Arrive(c, kind)
         \/ Connect(c) \/ set_monitoring(c) \/ inventory(c) \/ Deliver(c)
  PROVE  HistoryInvariant'
  <1> USE NatsSessionAssumption DEF HistoryInvariant
  <1>1. req[c] \in Requests /\ Idle \in Requests
    BY RequestPhases DEF TypeOK, Phases
  <1>2. /\ \E r \in Requests : /\ req' = [req EXCEPT ![c] = r]
                              /\ r.phase \in {"idle", "guarded", "connected",
                                              "answered"}
        /\ req[c].phase \in {"idle", "guarded", "connected", "inventory", "answered"}
        /\ choice' \in MonitoringStates
        /\ UNCHANGED <<observations, taken, orphans>>
    <2>1. CASE \E kind \in Kinds : Arrive(c, kind)
      <3>1. PICK kind \in Kinds : Arrive(c, kind)
        BY <2>1
      <3>2. [Idle EXCEPT !.kind = kind, !.phase = "guarded"] \in Requests
        BY <1>1 DEF Requests, Phases
      <3>3. [Idle EXCEPT !.kind = kind, !.phase = "guarded"].phase = "guarded"
        BY DEF Idle
      <3> QED BY <3>1, <3>2, <3>3 DEF Arrive, tools, history, TypeOK
    <2>2. CASE Connect(c)
      <3>1. \/ req' = [req EXCEPT ![c] = [req[c] EXCEPT !.phase = "connected"]]
            \/ req' = [req EXCEPT ![c] = [Idle EXCEPT !.phase = "answered"]]
        BY <2>2 DEF Connect, At, Refused
      <3>2. req[c].phase = "guarded" /\ UNCHANGED <<choice, observations, taken, orphans>>
        BY <2>2 DEF Connect, tools, history
      <3>3. \A phase \in Phases :
              /\ [req[c] EXCEPT !.phase = phase] \in Requests
              /\ [req[c] EXCEPT !.phase = phase].phase = phase
              /\ [Idle EXCEPT !.phase = phase] \in Requests
              /\ [Idle EXCEPT !.phase = phase].phase = phase
        BY <1>1, RequestPhases
      <3>4. {"connected", "answered"} \subseteq Phases
        BY DEF Phases
      <3> HIDE DEF HistoryInvariant
      <3>5. choice \in MonitoringStates
        BY DEF HistoryInvariant, TypeOK
      <3> QED BY <3>1, <3>2, <3>3, <3>4, <3>5
    <2>3. CASE set_monitoring(c)
      <3>1. choice' \in MonitoringStates
        BY <2>3 DEF set_monitoring, TypeOK, MonitoringStates
      <3>2. req' = [req EXCEPT ![c] = [req[c] EXCEPT !.phase = "answered",
                                                    !.choice = choice']]
        BY <2>3 DEF set_monitoring
      <3>3. /\ [req[c] EXCEPT !.phase = "answered", !.choice = choice'] \in Requests
            /\ [req[c] EXCEPT !.phase = "answered",
                              !.choice = choice'].phase = "answered"
        BY <1>1, <3>1 DEF Requests, Phases
      <3> QED BY <2>3, <3>1, <3>2, <3>3 DEF set_monitoring
    <2>4. CASE inventory(c)
      <3>1. PICK replies \in Replies :
              \/ Refused(c)
              \/ req' = [req EXCEPT ![c].phase = "answered",
                                   ![c].nodes = Links(slots', replies)]
        BY <2>4 DEF inventory
      <3>2. Links(slots', replies) \subseteq Nat \X Servers
        BY DEF Links, Replies, ToSet
      <3>3. /\ req[c].phase = "inventory"
            /\ UNCHANGED <<choice, observations, taken, orphans>>
        BY <2>4 DEF inventory, history
      <3>4. \/ req' = [req EXCEPT ![c] = [Idle EXCEPT !.phase = "answered"]]
            \/ req' = [req EXCEPT ![c] = [req[c] EXCEPT !.phase = "answered",
                                         !.nodes = Links(slots', replies)]]
        BY <3>1 DEF Refused
      <3>5. /\ [req[c] EXCEPT !.phase = "answered",
                              !.nodes = Links(slots', replies)] \in Requests
            /\ [req[c] EXCEPT !.phase = "answered",
                   !.nodes = Links(slots', replies)].phase = "answered"
        BY <1>1, <3>2 DEF Requests, Phases
      <3> QED
        BY <1>1, <3>3, <3>4, <3>5, RequestPhases DEF TypeOK, Phases
    <2>5. CASE Deliver(c)
      BY <1>1, <2>5, RequestPhases DEF Deliver, TypeOK, tools, history, Phases
    <2> QED BY <2>1, <2>2, <2>3, <2>4, <2>5
  <1> USE DEF observations
  <1>3. /\ \A d \in Calls \ {c} : req'[d] = req[d]
        /\ req'[c].phase \in {"idle", "guarded", "connected", "answered"}
        /\ req' \in [Calls -> Requests]
    BY <1>2, OneRequest
  <1>4. TypeOK'
    BY <1>2, <1>3 DEF TypeOK
  <1>5. \A d \in Calls : /\ Held(d)' <=> Held(d)
                         /\ Queued(d)' <=> Queued(d)
                         /\ Held(d) => req'[d] = req[d]
    BY <1>2, <1>3 DEF Held, Queued
  <1>6. Exclusive'
    BY <1>2, <1>5 DEF Exclusive
  <1>7. \A d \in Calls : /\ Observing(d)' <=> Observing(d)
                         /\ Storing(d)' <=> Storing(d)
                         /\ Stored(d)' <=> Stored(d)
                         /\ Held(d) => req'[d] = req[d]
    BY <1>2, <1>3, <1>5 DEF Observing, Storing, Stored, Held
  <1>8. \A d \in Calls : Observing(d) \/ Storing(d) \/ Stored(d) => Held(d)
    BY DEF Observing, Storing, Stored, Held
  <1> QED BY <1>2, <1>4, <1>6, <1>7, <1>8, HistoryFrame

\* A call that wants the lock waits for all that have it or wait for it.
LEMMA QueueStep ==
  ASSUME HistoryInvariant, NEW c \in Calls, ReadChoice(c)
  PROVE  HistoryInvariant'
  <1> USE NatsSessionAssumption DEF HistoryInvariant
  <1>1. /\ UNCHANGED <<previous, samples, compared, submitted, taken, orphans, choice>>
        /\ req[c].phase = "connected" /\ req[c] \in Requests
    BY DEF ReadChoice, history, tools, TypeOK
  <1>2. CASE req[c].kind = "snapshot"
    <2> DEFINE r == [req[c] EXCEPT !.phase = "waiting", !.choice = choice]
    <2>1. /\ ahead' = [ahead EXCEPT ![c] = {d \in Calls : Queued(d)}]
          /\ req' = [req EXCEPT ![c] = r]
      BY <1>2 DEF ReadChoice
    <2>2. r \in Requests /\ r.phase = "waiting"
      BY <1>1 DEF Requests, Phases, TypeOK
    <2>3. /\ \A d \in Calls \ {c} : req'[d] = req[d] /\ ahead'[d] = ahead[d]
          /\ req'[c].phase = "waiting" /\ ahead'[c] = {d \in Calls : Queued(d)}
          /\ req' \in [Calls -> Requests] /\ ahead' \in [Calls -> SUBSET Calls]
      BY <2>1, <2>2, OneRequest DEF TypeOK
    <2>4. TypeOK'
      BY <1>1, <2>3 DEF TypeOK
    <2>5. Exclusive'
      BY <1>1, <2>3 DEF Exclusive, Held, Queued
    <2> QED
      BY <1>1, <2>3, <2>4, <2>5, HistoryFrame DEF Observing, Storing, Stored
  <1>3. CASE req[c].kind # "snapshot"
    <2>1. /\ \/ req' = [req EXCEPT ![c] = [req[c] EXCEPT !.phase = "inventory"]]
             \/ req' = [req EXCEPT ![c] = [Idle EXCEPT !.phase = "answered"]]
          /\ UNCHANGED ahead
      BY <1>3 DEF ReadChoice, Refused
    <2>2. /\ \A d \in Calls \ {c} : req'[d] = req[d]
          /\ req'[c].phase \in {"inventory", "answered"}
          /\ req' \in [Calls -> Requests]
      <3>1. \A phase \in Phases :
              /\ [req[c] EXCEPT !.phase = phase] \in Requests
              /\ [req[c] EXCEPT !.phase = phase].phase = phase
              /\ [Idle EXCEPT !.phase = phase] \in Requests
              /\ [Idle EXCEPT !.phase = phase].phase = phase
        BY <1>1, RequestPhases
      <3>2. {"inventory", "answered"} \subseteq Phases
        BY DEF Phases
      <3> HIDE DEF HistoryInvariant
      <3>3. TypeOK
        BY DEF HistoryInvariant
      <3> QED BY <2>1, <3>1, <3>2, <3>3, OneRequest
    <2>3. TypeOK'
      BY <1>1, <2>1, <2>2 DEF TypeOK
    <2>4. Exclusive'
      BY <1>1, <2>1, <2>2 DEF Exclusive, Held, Queued
    <2> QED
      BY <1>1, <2>2, <2>3, <2>4, HistoryFrame DEF Observing, Storing, Stored
  <1> QED BY <1>2, <1>3

\* Passing the lock on keeps it with one call.
LEMMA ReleaseExclusive ==
  ASSUME TypeOK, Exclusive, NEW c \in Calls, Release(c),
         \A d \in Calls \ {c} : req'[d] = req[d],
         req'[c].phase \in {"idle", "answered"}
  PROVE  Exclusive' /\ ahead' \in [Calls -> SUBSET Calls]
  <1>1. /\ ahead' \in [Calls -> SUBSET Calls]
        /\ \A d \in Calls \ {c} : ahead'[d] = ahead[d] \ {c}
    BY DEF Release, TypeOK
  <1> QED BY <1>1 DEF Exclusive, Held, Queued

\* Observations are taken in an order.
LEMMA Numbers ==
  ASSUME TypeOK
  PROVE  /\ \A i \in DOMAIN samples : samples[i] \in Sample /\ samples[i].at \in Nat
         /\ \A o \in submitted : o \in Sample /\ o.at \in Nat
         /\ previous # None => previous \in Sample /\ previous.at \in Nat
         /\ \A pair \in compared : pair[1] \in Nat /\ pair[2] \in Nat
         /\ taken \in Nat
  <1>1. \A i \in DOMAIN samples : samples[i] \in Sample
    BY DEF TypeOK
  <1>2. \A o \in submitted : o \in Sample
    BY DEF TypeOK
  <1>3. previous # None => previous \in Sample
    BY DEF TypeOK
  <1>4. \A pair \in compared : pair[1] \in Nat /\ pair[2] \in Nat
    BY DEF TypeOK
  <1>5. \A o \in Sample : o.at \in Nat
    BY DEF Sample
  <1> QED BY <1>1, <1>2, <1>3, <1>4, <1>5 DEF TypeOK

\* The next call in the queue observes, unless the retained observation is
\* young enough (nats_login.rs dispatch).
LEMMA ObserveStep ==
  ASSUME HistoryInvariant, NEW c \in Calls, Observe(c)
  PROVE  HistoryInvariant'
  <1> USE DEF HistoryInvariant
  <1>1. /\ UNCHANGED <<ahead, previous, samples, compared, submitted, orphans, choice>>
        /\ req[c].phase = "waiting" /\ req[c] \in Requests /\ ahead[c] = {}
    BY DEF Observe, history, tools, observations, TypeOK, Served
  <1>2. \A d \in Calls : ~Held(d)
    BY <1>1, OneHolder DEF Queued, Served, Held
  <1>3. \A d \in Calls : ~Observing(d) /\ ~Storing(d) /\ ~Stored(d)
    BY <1>2 DEF Held, Observing, Storing, Stored
  <1>4. ASSUME NEW r \in Requests, req' = [req EXCEPT ![c] = r],
               r.phase = "observed", taken' \in Nat
        PROVE  /\ \A d \in Calls \ {c} : req'[d] = req[d]
               /\ req'[c] = r
               /\ TypeOK' /\ Exclusive'
    <2>1. /\ req' \in [Calls -> Requests] /\ req'[c] = r
          /\ \A d \in Calls \ {c} : req'[d] = req[d]
      BY <1>4 DEF TypeOK
    <2>2. TypeOK'
      BY <1>1, <1>4, <2>1 DEF TypeOK
    <2>3. Exclusive'
      BY <1>1, <1>4, <2>1 DEF Exclusive, Held, Queued
    <2> QED BY <2>1, <2>2, <2>3
  <1>5. CASE previous # None /\ fresh
    <2> DEFINE r == [req[c] EXCEPT !.phase = "observed", !.obs = previous,
                                   !.cached = TRUE]
    <2>1. req' = [req EXCEPT ![c] = r] /\ taken' = taken
      BY <1>5 DEF Observe
    <2>2. r \in Requests /\ r.phase = "observed" /\ r.cached
      BY <1>1 DEF Requests, Phases, TypeOK
    <2>3. taken' \in Nat
      BY <2>1 DEF TypeOK
    <2> HIDE DEF r
    <2>4. /\ \A d \in Calls \ {c} : req'[d] = req[d]
          /\ req'[c] = r /\ TypeOK' /\ Exclusive'
      BY <1>4, <2>1, <2>2, <2>3
    <2>5. \A d \in Calls : ~Observing(d)' /\ ~Storing(d)' /\ ~Stored(d)'
      BY <1>3, <2>2, <2>4 DEF Observing, Storing, Stored
    <2> QED BY <1>1, <1>3, <2>1, <2>4, <2>5, HistoryFrame
  <1>6. CASE ~(previous # None /\ fresh)
    <2>1. PICK large \in BOOLEAN :
            /\ taken' = taken + 1
            /\ req' = [req EXCEPT ![c].phase = "observed",
                                  ![c].obs = [at |-> taken', large |-> large]]
      BY <1>6 DEF Observe, Observed
    <2> DEFINE r == [req[c] EXCEPT !.phase = "observed",
                                   !.obs = [at |-> taken', large |-> large]]
    <2>2. taken' \in Nat /\ taken \in Nat
      BY <2>1 DEF TypeOK
    <2>3. /\ r \in Requests /\ r.phase = "observed" /\ r.obs.at = taken'
          /\ r.obs \in Sample
      BY <1>1, <2>2 DEF Requests, Phases, Sample
    <2>4. req' = [req EXCEPT ![c] = r]
      BY <2>1
    <2> HIDE DEF r
    <2>5. /\ \A d \in Calls \ {c} : req'[d] = req[d]
          /\ req'[c] = r /\ TypeOK' /\ Exclusive'
      BY <1>4, <2>2, <2>3, <2>4
    <2>6. /\ \A d \in Calls : ~Storing(d)' /\ ~Stored(d)'
          /\ \A d \in Calls : Observing(d)' => d = c
      BY <1>3, <2>3, <2>5 DEF Observing, Storing, Stored
    <2>7. /\ \A i \in DOMAIN samples : samples[i].at \in Nat
          /\ \A o \in submitted : o.at \in Nat
          /\ previous # None => previous.at \in Nat
          /\ \A pair \in compared : pair[1] \in Nat /\ pair[2] \in Nat
      BY Numbers
    <2>8. /\ \A i \in DOMAIN samples : samples[i].at < taken'
          /\ \A o \in submitted : o.at < taken'
          /\ previous # None => previous.at < taken'
      BY <2>1, <2>2, <2>7 DEF Readings
    <2>9. \A o \in submitted : o.at \in orphans
      BY <1>3 DEF Readings
    <2>10. Observing(c)' => req'[c].obs \in Sample /\ req'[c].obs.at = taken'
      BY <2>3, <2>5
    <2>11. Readings'
      <3> HIDE DEF HistoryInvariant
      <3>1. /\ \A o \in submitted, i \in DOMAIN samples : samples[i].at # o.at
            /\ \A o, p \in submitted : o.at = p.at => o = p
        BY DEF HistoryInvariant, Readings
      <3> QED
        BY <1>1, <2>2, <2>6, <2>7, <2>8, <2>9, <2>10, <3>1 DEF Readings
    <2>12. Retained'
      BY <1>1, <1>3, <2>1, <2>2, <2>6, <2>7 DEF Retained
    <2>13. HistoryInOrder' /\ ChangesCompared'
      <3>1. Times' = Times
        BY <1>1 DEF Times
      <3> QED BY <1>1, <3>1 DEF HistoryInOrder, ChangesCompared
    <2> QED BY <2>5, <2>11, <2>12, <2>13
  <1> QED BY <1>5, <1>6

\* The call that holds the lock asks the servers, or leaves it with the retained
\* observation (nats_login.rs dispatch, native_tools.rs observe).
LEMMA MonitorStep ==
  ASSUME HistoryInvariant, NEW c \in Calls, Monitor(c)
  PROVE  HistoryInvariant'
  <1> USE DEF HistoryInvariant
  <1>1. /\ UNCHANGED <<previous, samples, compared, submitted, orphans, choice, taken>>
        /\ req[c].phase = "observed" /\ req[c] \in Requests
    BY DEF Monitor, history, TypeOK
  <1>2. PICK nodes \in SUBSET (Nat \X Servers) :
          req' = [req EXCEPT
                 ![c].nodes = nodes,
                 ![c].phase = IF req[c].cached THEN "answered" ELSE "compare"]
    <2>1. PICK replies \in Replies \cup {<<>>} :
            req' = [req EXCEPT
                 ![c].nodes = Links(slots', replies),
                 ![c].phase = IF req[c].cached THEN "answered" ELSE "compare"]
      BY DEF Monitor
    <2>2. Links(slots', replies) \subseteq Nat \X Servers
      <3>1. ToSet(replies) \subseteq Servers
        BY DEF Replies, ToSet
      <3> QED BY <3>1, NatsSessionAssumption DEF Links
    <2> QED BY <2>1, <2>2
  <1> DEFINE r == [req[c] EXCEPT
                 !.nodes = nodes,
                 !.phase = IF req[c].cached THEN "answered" ELSE "compare"]
  <1>3. /\ r \in Requests /\ r.obs = req[c].obs
        /\ r.phase = IF req[c].cached THEN "answered" ELSE "compare"
    BY <1>1 DEF Requests, Phases
  <1>4. req' = [req EXCEPT ![c] = r]
    BY <1>2
  <1> HIDE DEF r
  <1>5. /\ req' \in [Calls -> Requests] /\ req'[c] = r
        /\ \A d \in Calls \ {c} : req'[d] = req[d]
    BY <1>3, <1>4 DEF TypeOK
  <1>6. Exclusive' /\ ahead' \in [Calls -> SUBSET Calls]
    <2>1. CASE req[c].cached
      <3>1. Release(c)
        BY <2>1 DEF Monitor
      <3> QED BY <1>3, <1>5, <2>1, <3>1, ReleaseExclusive
    <2>2. CASE ~req[c].cached
      <3>1. ahead' = ahead /\ ahead[c] = {}
        BY <2>2 DEF Monitor, Served
      <3> QED BY <1>1, <1>3, <1>5, <2>2, <3>1 DEF Exclusive, Held, Queued, TypeOK
    <2> QED BY <2>1, <2>2
  <1>7. TypeOK'
    BY <1>1, <1>5, <1>6 DEF TypeOK
  <1>8. \A d \in Calls :
          /\ Observing(d)' => Observing(d)
          /\ Storing(d)' <=> Storing(d)
          /\ Stored(d)' <=> Stored(d)
          /\ req'[d].obs = req[d].obs
    BY <1>1, <1>3, <1>5 DEF Observing, Storing, Stored
  <1> QED BY <1>1, <1>6, <1>7, <1>8, HistoryFrame

\* The incidents are stored before the sample (nats_login.rs dispatch).
LEMMA CompareStep ==
  ASSUME HistoryInvariant, NEW c \in Calls, Compare(c)
  PROVE  HistoryInvariant'
  <1> USE DEF HistoryInvariant
  <1>1. /\ UNCHANGED <<previous, samples, orphans, choice, taken>>
        /\ req[c].phase = "compare" /\ req[c] \in Requests
    BY DEF Compare, history, tools, TypeOK
  <1>2. /\ Observing(c) /\ Held(c)
        /\ \A d \in Calls \ {c} : ~Observing(d) /\ ~Storing(d) /\ ~Stored(d)
        /\ ~Storing(c) /\ ~Stored(c)
    BY <1>1, OneHolder DEF Observing, Storing, Stored, Held
  <1>3. CASE Refused(c) /\ Release(c) /\ UNCHANGED <<compared, submitted>>
    <2>1. /\ [Idle EXCEPT !.phase = "answered"] \in Requests
          /\ [Idle EXCEPT !.phase = "answered"].phase = "answered"
      BY <1>1, RequestPhases DEF Phases
    <2>2. /\ req' \in [Calls -> Requests] /\ req'[c].phase = "answered"
          /\ \A d \in Calls \ {c} : req'[d] = req[d]
      BY <1>3, <2>1 DEF TypeOK, Refused
    <2>3. Exclusive' /\ ahead' \in [Calls -> SUBSET Calls]
      BY <1>3, <2>2, ReleaseExclusive
    <2>4. TypeOK'
      BY <1>1, <1>3, <2>2, <2>3 DEF TypeOK
    <2>5. \A d \in Calls : ~Observing(d)' /\ ~Storing(d)' /\ ~Stored(d)'
      BY <1>2, <2>2 DEF Observing, Storing, Stored
    <2> QED BY <1>1, <1>2, <1>3, <2>3, <2>4, <2>5, HistoryFrame
  <1>4. CASE /\ compared' = IF previous = None THEN compared
                            ELSE compared \cup {<<previous.at, req[c].obs.at>>}
             /\ submitted' = submitted \cup {req[c].obs}
             /\ At(c, "store") /\ UNCHANGED ahead
    <2> DEFINE r == [req[c] EXCEPT !.phase = "store"]
    <2>1. /\ r \in Requests /\ r.phase = "store" /\ r.obs = req[c].obs
          /\ req' = [req EXCEPT ![c] = r]
      BY <1>1, <1>4, RequestPhases DEF Phases, At
    <2> HIDE DEF r
    <2>2. /\ req' \in [Calls -> Requests] /\ req'[c] = r
          /\ \A d \in Calls \ {c} : req'[d] = req[d]
      BY <2>1 DEF TypeOK
    <2> DEFINE o == req[c].obs
    <2>3. o \in Sample /\ o.at = taken /\ req'[c].obs = o
      BY <1>2, <2>1, <2>2 DEF Readings
    <2>4. \A d \in Calls : /\ ~Observing(d)' /\ ~Stored(d)'
                           /\ Storing(d)' <=> d = c
      BY <1>2, <2>1, <2>2 DEF Observing, Storing, Stored
    <2> HIDE DEF o
    <2>5. submitted' = submitted \cup {o}
      BY <1>4 DEF o
    <2>6. compared' = IF previous = None THEN compared
                      ELSE compared \cup {<<previous.at, taken>>}
      BY <1>4, <2>3 DEF o
    <2>7. TypeOK'
      BY <1>1, <1>4, <2>2, <2>3, <2>5, <2>6, Numbers DEF TypeOK
    <2>8. Exclusive'
      BY <1>1, <1>4, <2>1, <2>2 DEF Exclusive, Held, Queued
    <2>9. Readings'
      <3>1. /\ \A i \in DOMAIN samples : samples[i].at # taken
            /\ \A p \in submitted : p.at # taken
            /\ previous # None => previous.at < taken
        BY <1>2 DEF Readings
      <3>2. \A p \in submitted : p.at \in orphans
        BY <1>2 DEF Readings
      <3>3. taken \in Nat
        BY DEF TypeOK
      <3> QED
        BY <1>1, <2>3, <2>4, <2>5, <3>1, <3>2, <3>3 DEF Readings
    <2>10. Retained'
      BY <1>1, <1>2, <2>4, <2>6, Numbers DEF Retained
    <2>11. Times' = Times
      BY <1>1 DEF Times
    <2>12. HistoryInOrder' /\ ChangesCompared'
      <3>1. HistoryInOrder'
        BY <1>1, <2>11 DEF HistoryInOrder
      <3>2. \A i \in 1 .. Len(samples) - 1 :
              \/ <<Times[i], Times[i + 1]>> \in compared'
              \/ samples[i].large
              \/ {Times[i], Times[i + 1]} \cap orphans # {}
        BY <2>6 DEF ChangesCompared
      <3>3. ASSUME NEW pair \in compared', NEW i \in DOMAIN samples,
                   pair[1] < Times[i], Times[i] < pair[2]
            PROVE  Times[i] \in orphans
        <4>1. CASE pair \in compared
          BY <3>3, <4>1 DEF ChangesCompared
        <4>2. CASE previous # None /\ pair = <<previous.at, taken>>
          <5>1. Times[i] = samples[i].at /\ samples[i].at > previous.at
            BY <3>3, <4>2, Numbers DEF Times
          <5> QED BY <1>2, <4>2, <5>1 DEF Retained
        <4> QED BY <2>6, <4>1, <4>2
      <3> QED BY <1>1, <2>11, <3>1, <3>2, <3>3 DEF ChangesCompared
    <2> QED BY <2>7, <2>8, <2>9, <2>10, <2>12
  <1> QED BY <1>3, <1>4 DEF Compare, Fault

\* The storage thread stores a sample, or refuses it, whether or not the call
\* that handed it over is still there (nats_login.rs dispatch).
LEMMA StoreStep ==
  ASSUME HistoryInvariant, NEW o \in submitted, StoreSample(o)
  PROVE  HistoryInvariant'
  <1> USE DEF HistoryInvariant
  <1>1. /\ UNCHANGED <<previous, compared, orphans, choice, taken>>
        /\ submitted' = submitted \ {o}
        /\ o \in Sample /\ o.at \in Nat /\ taken \in Nat
    BY Numbers DEF StoreSample, history, tools
  <1>2. \A c \in Calls : Observing(c) \/ Storing(c) \/ Stored(c) => Held(c)
    BY DEF Observing, Storing, Stored, Held
  <1>3. \A c, d \in Calls : Held(c) /\ Held(d) => c = d
    BY OneHolder
  <1>4. \A c \in Calls : c \in Waiting(o) <=> Storing(c) /\ req[c].obs = o
    BY DEF Waiting, Storing
  <1>5. ASSUME NEW c \in Calls, Storing(c)
        PROVE  req[c].obs.at = taken /\ req[c].obs \in submitted
    BY <1>5 DEF Readings
  <1>6. ASSUME NEW c \in Calls, Storing(c), req[c].obs # o
        PROVE  o.at \in orphans
    <2>1. o.at \in orphans \/ \E d \in Calls : Storing(d) /\ req[d].obs = o
      BY DEF Readings
    <2> QED BY <1>2, <1>3, <1>6, <2>1
  <1>7. CASE /\ samples' = Append(samples, o)
             /\ req' = [c \in Calls |-> IF c \in Waiting(o)
                                        THEN [req[c] EXCEPT !.phase = "stored"]
                                        ELSE req[c]]
             /\ UNCHANGED ahead
    <2>1. \A c \in Calls :
            /\ [req[c] EXCEPT !.phase = "stored"] \in Requests
            /\ [req[c] EXCEPT !.phase = "stored"].phase = "stored"
            /\ [req[c] EXCEPT !.phase = "stored"].obs = req[c].obs
            /\ [req[c] EXCEPT !.phase = "stored"].cached = req[c].cached
      <3>1. \A c \in Calls : req[c] \in Requests
        BY DEF TypeOK
      <3>2. "stored" \in Phases
        BY DEF Phases
      <3> HIDE DEF HistoryInvariant
      <3> QED BY <3>1, <3>2, RequestPhases
    <2>2. /\ req' \in [Calls -> Requests]
          /\ \A c \in Calls : /\ req'[c].obs = req[c].obs
                              /\ req'[c].cached = req[c].cached
                              /\ req'[c].phase = IF c \in Waiting(o) THEN "stored"
                                                 ELSE req[c].phase
      BY <1>7, <2>1 DEF TypeOK
    <2>3. \A c \in Calls : /\ Held(c)' <=> Held(c)
                           /\ Queued(c)' <=> Queued(c)
                           /\ Observing(c)' <=> Observing(c)
                           /\ Storing(c)' <=> Storing(c) /\ c \notin Waiting(o)
                           /\ Stored(c)' <=> Stored(c) \/ c \in Waiting(o)
      BY <1>4, <2>2 DEF Held, Queued, Observing, Storing, Stored
    <2>4. /\ Len(samples') = Len(samples) + 1 /\ Len(samples) \in Nat
          /\ DOMAIN samples = 1 .. Len(samples)
          /\ DOMAIN samples' = 1 .. Len(samples) + 1
          /\ \A i \in DOMAIN samples : samples'[i] = samples[i]
          /\ samples'[Len(samples) + 1] = o
          /\ samples' \in Seq(Sample)
      BY <1>1, <1>7 DEF TypeOK
    <2>5. TypeOK'
      BY <1>1, <1>7, <2>2, <2>4 DEF TypeOK
    <2>6. Exclusive'
      BY <1>7, <2>3 DEF Exclusive
    <2>7. Readings'
      <3>1. \A i \in DOMAIN samples' : samples'[i].at <= taken
        BY <1>1, <2>4 DEF Readings
      <3>2. \A p \in submitted' : p.at <= taken
        BY <1>1 DEF Readings
      <3>3. previous # None => previous.at <= taken
        BY DEF Readings
      <3>4. \A c \in Calls : Observing(c)' \/ Storing(c)' \/ Stored(c)' =>
              /\ req'[c].obs \in Sample /\ req'[c].obs.at = taken
              /\ previous # None => previous.at < taken
        BY <1>4, <2>2, <2>3 DEF Readings
      <3>5. \A c \in Calls : Observing(c)' =>
              /\ \A i \in DOMAIN samples' : samples'[i].at # taken
              /\ \A p \in submitted' : p.at # taken
        BY <1>1, <2>3, <2>4 DEF Readings
      <3>6. \A c \in Calls : Storing(c)' => req'[c].obs \in submitted'
        BY <1>1, <1>4, <1>5, <2>2, <2>3
      <3>7. \A p \in submitted', i \in DOMAIN samples' : samples'[i].at # p.at
        BY <1>1, <2>4 DEF Readings
      <3>8. \A p, q \in submitted' : p.at = q.at => p = q
        BY <1>1 DEF Readings
      <3>9. \A p \in submitted' :
              p.at \in orphans \/ \E c \in Calls : Storing(c)' /\ req'[c].obs = p
        BY <1>1, <1>4, <2>2, <2>3 DEF Readings
      <3> QED
        BY <1>1, <3>1, <3>2, <3>3, <3>4, <3>5, <3>6, <3>7, <3>8, <3>9 DEF Readings
    <2>8. o.at \in orphans \/ \E c \in Calls : c \in Waiting(o)
      BY <1>4 DEF Readings
    <2>9. ASSUME NEW c \in Calls, c \in Waiting(o)
          PROVE  /\ Storing(c) /\ req[c].obs = o /\ o.at = taken
                 /\ \A d \in Calls \ {c} : ~Held(d)
      BY <1>2, <1>3, <1>4, <1>5, <2>9
    <2>10. Retained'
      <3>1. previous # None => \A i \in DOMAIN samples' :
              samples'[i].at > previous.at =>
                 \/ samples'[i].at \in orphans
                 \/ \E c \in Calls : Stored(c)' /\ req'[c].obs.at = samples'[i].at
        <4>1. previous # None => \A i \in DOMAIN samples :
                samples[i].at > previous.at =>
                   \/ samples[i].at \in orphans
                   \/ \E c \in Calls : Stored(c)' /\ req'[c].obs.at = samples[i].at
          BY <2>2, <2>3 DEF Retained
        <4>2. \/ o.at \in orphans
              \/ \E c \in Calls : Stored(c)' /\ req'[c].obs.at = o.at
          BY <2>2, <2>3, <2>8, <2>9
        <4> QED BY <2>4, <4>1, <4>2
      <3>2. samples' # <<>> /\ samples'[Len(samples')] = o
        BY <2>4
      <3>3. ASSUME o.at \notin orphans
            PROVE  /\ \E c \in Calls : Stored(c)'
                   /\ \A c \in Calls : Stored(c)' => o = req'[c].obs
                   /\ \A c \in Calls : ~Storing(c)'
        <4>1. PICK c \in Calls : c \in Waiting(o)
          BY <2>8, <3>3
        <4> QED BY <1>2, <2>2, <2>3, <2>9, <4>1
      <3>4. \A pair \in compared' : pair[2] <= taken'
        BY <1>1 DEF Retained
      <3> QED BY <1>1, <3>1, <3>2, <3>3, <3>4 DEF Retained
    <2>11. /\ Times' \in [1 .. Len(samples) + 1 -> Nat]
           /\ \A i \in DOMAIN samples : Times'[i] = Times[i]
           /\ \A i \in DOMAIN samples : Times[i] = samples[i].at
           /\ Times'[Len(samples) + 1] = o.at
      <3>1. samples \in Seq(Sample) /\ samples' \in Seq(Sample)
        BY <1>1, <2>4 DEF TypeOK
      <3>2. Len(samples') = Len(samples) + 1 /\ Len(samples) \in Nat
        BY <2>4, <3>1
      <3>3. \A i \in 1 .. Len(samples') : samples'[i].at \in Nat
        <4>1. \A i \in 1 .. Len(samples') : samples'[i] \in Sample
          BY <3>1
        <4>2. \A x \in Sample : x.at \in Nat
          BY DEF Sample
        <4> HIDE DEF HistoryInvariant
        <4> QED BY <4>1, <4>2
      <3>4. /\ DOMAIN samples = 1 .. Len(samples)
            /\ DOMAIN samples' = 1 .. Len(samples')
        BY <3>1
      <3>5. /\ Times = [i \in 1 .. Len(samples) |-> samples[i].at]
            /\ Times' = [i \in 1 .. Len(samples') |-> samples'[i].at]
        BY <3>4 DEF Times
      <3> QED BY <2>4, <3>2, <3>3, <3>4, <3>5
    <2>12. HistoryInOrder'
      <3>1. \A i \in DOMAIN samples : samples[i].at # o.at /\ samples[i].at <= taken
        BY DEF Readings
      <3>2. IsInjective(Times)'
        <4>1. \A i, j \in DOMAIN samples : Times[i] = Times[j] => i = j
          BY <2>4 DEF HistoryInOrder, IsInjective, Times
        <4> QED BY <2>4, <2>11, <3>1, <4>1 DEF IsInjective
      <3>3. \A i, j \in DOMAIN samples' :
              i < j /\ Times'[i] > Times'[j] => {Times'[i], Times'[j]} \cap orphans # {}
        <4>1. \A i, j \in DOMAIN samples :
                i < j /\ Times'[i] > Times'[j] =>
                   {Times'[i], Times'[j]} \cap orphans # {}
          BY <2>11 DEF HistoryInOrder
        <4>2. \A i \in DOMAIN samples :
                Times'[i] > o.at => o.at \in orphans
          BY <1>1, <2>8, <2>9, <2>11, <3>1, Numbers
        <4>3. ASSUME NEW i \in DOMAIN samples', NEW j \in DOMAIN samples',
                     i < j, Times'[i] > Times'[j]
              PROVE  {Times'[i], Times'[j]} \cap orphans # {}
          <5>1. i \in DOMAIN samples
            BY <2>4, <4>3
          <5>2. CASE j \in DOMAIN samples
            BY <4>1, <4>3, <5>1, <5>2
          <5>3. CASE j = Len(samples) + 1
            BY <2>11, <4>2, <4>3, <5>1, <5>3
          <5> QED BY <2>4, <5>2, <5>3
        <4> QED BY <4>3
      <3> QED BY <1>1, <3>2, <3>3 DEF HistoryInOrder
    <2>13. ChangesCompared'
      <3>1. ASSUME NEW i \in 1 .. Len(samples') - 1
            PROVE  \/ <<Times'[i], Times'[i + 1]>> \in compared
                   \/ samples'[i].large
                   \/ {Times'[i], Times'[i + 1]} \cap orphans # {}
        <4>1. CASE i \in 1 .. Len(samples) - 1
          <5>1. i \in DOMAIN samples /\ i + 1 \in DOMAIN samples
            BY <2>4, <4>1
          <5> QED BY <2>4, <2>11, <4>1, <5>1 DEF ChangesCompared
        <4>2. CASE i = Len(samples)
          <5>1. i \in DOMAIN samples /\ samples # <<>>
            BY <2>4, <3>1, <4>2
          <5>2. Times'[i] = samples[i].at /\ Times'[i + 1] = o.at
                /\ samples'[i] = samples[i]
            BY <2>4, <2>11, <4>2, <5>1
          <5>3. CASE o.at \in orphans
            BY <5>2, <5>3
          <5>4. CASE \E c \in Calls : c \in Waiting(o)
            BY <2>9, <4>2, <5>1, <5>2, <5>4 DEF Retained
          <5> QED BY <2>8, <5>3, <5>4
        <4>3. i \in 1 .. Len(samples) /\ Len(samples) \in Nat
          BY <2>4, <3>1
        <4> QED BY <4>1, <4>2, <4>3
      <3>2. ASSUME NEW pair \in compared, NEW i \in DOMAIN samples',
                   pair[1] < Times'[i], Times'[i] < pair[2]
            PROVE  Times'[i] \in orphans
        <4>1. CASE i \in DOMAIN samples
          BY <2>11, <3>2, <4>1 DEF ChangesCompared
        <4>2. CASE i = Len(samples) + 1
          <5>1. pair[2] <= taken /\ pair[2] \in Nat
            BY Numbers DEF Retained
          <5>2. o.at # taken
            BY <1>1, <2>11, <3>2, <4>2, <5>1
          <5> QED BY <2>8, <2>9, <2>11, <4>2, <5>2
        <4> QED BY <2>4, <4>1, <4>2
      <3> QED BY <1>1, <3>1, <3>2 DEF ChangesCompared
    <2> QED BY <2>5, <2>6, <2>7, <2>10, <2>12, <2>13
  <1>8. CASE /\ req' = [c \in Calls |-> IF c \in Waiting(o)
                                        THEN [Idle EXCEPT !.phase = "answered"]
                                        ELSE req[c]]
             /\ ahead' = [d \in Calls |-> ahead[d] \ Waiting(o)]
             /\ UNCHANGED samples
    <2>1. /\ [Idle EXCEPT !.phase = "answered"] \in Requests
          /\ [Idle EXCEPT !.phase = "answered"].phase = "answered"
          /\ Waiting(o) \subseteq Calls
      BY DEF Requests, Phases, Idle, Waiting
    <2>2. /\ req' \in [Calls -> Requests]
          /\ \A c \in Calls : IF c \in Waiting(o) THEN req'[c].phase = "answered"
                              ELSE req'[c] = req[c]
      BY <1>8, <2>1 DEF TypeOK
    <2>3. /\ ahead' \in [Calls -> SUBSET Calls]
          /\ \A c \in Calls : ahead'[c] = ahead[c] \ Waiting(o)
      BY <1>8 DEF TypeOK
    <2>4. \A c \in Calls : /\ Held(c)' <=> Held(c) /\ c \notin Waiting(o)
                           /\ Queued(c)' <=> Queued(c) /\ c \notin Waiting(o)
                           /\ Observing(c)' <=> Observing(c)
                           /\ Storing(c)' <=> Storing(c) /\ c \notin Waiting(o)
                           /\ Stored(c)' <=> Stored(c)
      BY <1>4, <2>2 DEF Held, Queued, Observing, Storing, Stored
    <2>5. TypeOK'
      BY <1>1, <1>8, <2>2, <2>3 DEF TypeOK
    <2>6. Exclusive'
      BY <2>3, <2>4 DEF Exclusive
    <2>7. \A c \in Calls : Observing(c)' \/ Storing(c)' \/ Stored(c)' =>
            req'[c].obs = req[c].obs
      BY <1>4, <2>2, <2>4 DEF Observing, Storing, Stored
    <2>8. Readings'
      <3>1. \A c \in Calls : Storing(c)' => req'[c].obs \in submitted'
        BY <1>1, <1>4, <1>5, <2>4, <2>7
      <3>2. \A p \in submitted' :
              p.at \in orphans \/ \E c \in Calls : Storing(c)' /\ req'[c].obs = p
        BY <1>1, <1>4, <2>4, <2>7 DEF Readings
      <3> QED BY <1>1, <1>8, <2>4, <2>7, <3>1, <3>2 DEF Readings
    <2>9. Retained'
      BY <1>1, <1>8, <2>4, <2>7 DEF Retained
    <2>10. HistoryInOrder' /\ ChangesCompared'
      <3>1. Times' = Times
        BY <1>8 DEF Times
      <3> QED BY <1>1, <1>8, <3>1 DEF HistoryInOrder, ChangesCompared
    <2> QED BY <2>5, <2>6, <2>8, <2>9, <2>10
  <1> QED BY <1>7, <1>8 DEF StoreSample

\* The observation that was stored is retained, and the lock is passed on
\* (nats_login.rs dispatch).
LEMMA RetainStep ==
  ASSUME HistoryInvariant, NEW c \in Calls, Retain(c)
  PROVE  HistoryInvariant'
  <1> USE DEF HistoryInvariant
  <1>1. /\ UNCHANGED <<samples, compared, submitted, orphans, choice, taken>>
        /\ previous' = IF req[c].obs.large THEN None ELSE req[c].obs
        /\ req[c].phase = "stored" /\ req[c] \in Requests /\ Release(c)
    BY DEF Retain, history, tools, TypeOK
  <1>2. /\ Stored(c) /\ Held(c)
        /\ \A d \in Calls \ {c} : ~Observing(d) /\ ~Storing(d) /\ ~Stored(d)
    BY <1>1, OneHolder DEF Observing, Storing, Stored, Held
  <1>3. req[c].obs \in Sample /\ req[c].obs.at = taken /\ taken \in Nat
    BY <1>2 DEF Readings, TypeOK
  <1>4. /\ req' \in [Calls -> Requests] /\ req'[c].phase = "answered"
        /\ \A d \in Calls \ {c} : req'[d] = req[d]
    <2>1. /\ [req[c] EXCEPT !.phase = "answered"] \in Requests
          /\ [req[c] EXCEPT !.phase = "answered"].phase = "answered"
      BY <1>1, RequestPhases DEF Phases
    <2> QED BY <2>1 DEF Retain, At, TypeOK
  <1>5. Exclusive' /\ ahead' \in [Calls -> SUBSET Calls]
    BY <1>1, <1>4, ReleaseExclusive
  <1>6. TypeOK'
    BY <1>1, <1>3, <1>4, <1>5 DEF TypeOK
  <1>7. \A d \in Calls : ~Observing(d)' /\ ~Storing(d)' /\ ~Stored(d)'
    BY <1>2, <1>4 DEF Observing, Storing, Stored
  <1>8. Readings'
    <2>1. \A o \in submitted : o.at \in orphans
      BY <1>1, <1>2 DEF Readings, Stored, Storing
    <2> QED BY <1>1, <1>3, <1>7, <2>1 DEF Readings
  <1>9. Retained'
    <2>1. \A i \in DOMAIN samples : samples[i].at <= taken /\ samples[i].at \in Nat
      BY Numbers DEF Readings
    <2>2. samples # <<>> /\ samples[Len(samples)].at \notin orphans =>
            samples[Len(samples)] = req[c].obs
      BY <1>2 DEF Retained
    <2>3. previous' # None => previous' = req[c].obs
      BY <1>1
    <2>4. \A pair \in compared : pair[2] <= taken
      BY DEF Retained
    <2>5. samples # <<>> /\ samples[Len(samples)].at \notin orphans =>
            \/ samples[Len(samples)].large
            \/ previous' # None /\ previous'.at = samples[Len(samples)].at
      BY <1>1, <1>3, <2>2, NatsSessionAssumption
    <2> QED BY <1>1, <1>3, <1>7, <2>1, <2>3, <2>4, <2>5 DEF Retained
  <1>10. HistoryInOrder' /\ ChangesCompared'
    <2>1. Times' = Times
      BY <1>1 DEF Times
    <2> QED BY <1>1, <2>1 DEF HistoryInOrder, ChangesCompared
  <1> QED BY <1>5, <1>6, <1>8, <1>9, <1>10

\* A call that is dropped passes the lock on and leaves its sample with the
\* storage thread (nats_login.rs dispatch).
LEMMA LeaveStep ==
  ASSUME HistoryInvariant, NEW c \in Calls, Leave(c)
  PROVE  HistoryInvariant'
  <1> USE DEF HistoryInvariant
  <1>1. /\ UNCHANGED <<previous, samples, compared, submitted, choice, taken>>
        /\ orphans' = IF req[c].phase \in {"store", "stored"}
                      THEN orphans \cup {req[c].obs.at} ELSE orphans
        /\ req' = [req EXCEPT ![c] = Idle] /\ Release(c)
        /\ req[c] \in Requests
    BY DEF Leave, tools, TypeOK
  <1>2. Idle \in Requests /\ Idle.phase = "idle"
    BY <1>1, RequestPhases DEF Phases
  <1>3. /\ req' \in [Calls -> Requests] /\ req'[c].phase = "idle"
        /\ \A d \in Calls \ {c} : req'[d] = req[d]
    BY <1>1, <1>2 DEF TypeOK
  <1>4. Exclusive' /\ ahead' \in [Calls -> SUBSET Calls]
    BY <1>1, <1>3, ReleaseExclusive
  <1>5. TypeOK'
    BY <1>1, <1>3, <1>4 DEF TypeOK
  <1>6. /\ orphans \subseteq orphans'
        /\ Storing(c) \/ Stored(c) => req[c].obs.at \in orphans'
    BY <1>1 DEF Storing, Stored
  <1>7. /\ ~Observing(c)' /\ ~Storing(c)' /\ ~Stored(c)'
        /\ \A d \in Calls \ {c} : /\ Observing(d)' <=> Observing(d)
                                  /\ Storing(d)' <=> Storing(d)
                                  /\ Stored(d)' <=> Stored(d)
                                  /\ req'[d].obs = req[d].obs
    BY <1>3 DEF Observing, Storing, Stored
  <1>8. Readings'
    <2>1. \A o \in submitted :
            o.at \in orphans' \/ \E d \in Calls : Storing(d)' /\ req'[d].obs = o
      BY <1>6, <1>7 DEF Readings
    <2> QED BY <1>1, <1>7, <2>1 DEF Readings
  <1>9. Retained'
    <2>1. previous # None => \A i \in DOMAIN samples : samples[i].at > previous.at =>
            \/ samples[i].at \in orphans'
            \/ \E d \in Calls : Stored(d)' /\ req'[d].obs.at = samples[i].at
      BY <1>6, <1>7 DEF Retained
    <2>2. \A pair \in compared : pair[2] <= taken
      BY DEF Retained
    <2>3. ASSUME samples # <<>>, samples[Len(samples)].at \notin orphans'
          PROVE  /\ \/ samples[Len(samples)].large
                    \/ previous # None /\ previous.at = samples[Len(samples)].at
                    \/ \E d \in Calls : Stored(d)'
                 /\ \A d \in Calls : Stored(d)' => samples[Len(samples)] = req'[d].obs
                 /\ \A d \in Calls : Storing(d)' =>
                       \/ samples[Len(samples)].large
                       \/ <<samples[Len(samples)].at, taken>> \in compared
      BY <1>6, <1>7, <2>3 DEF Retained
    <2> QED BY <1>1, <2>1, <2>2, <2>3 DEF Retained
  <1>10. HistoryInOrder' /\ ChangesCompared'
    <2>1. Times' = Times
      BY <1>1 DEF Times
    <2> QED BY <1>1, <1>6, <2>1 DEF HistoryInOrder, ChangesCompared
  <1> QED BY <1>4, <1>5, <1>8, <1>9, <1>10

\* Time, the loss of the session and the watch leave the history alone
\* (nats_login.rs, native_tools.rs watch).
LEMMA OtherSteps ==
  ASSUME HistoryInvariant,
         UNCHANGED <<req, ahead, choice, taken, samples, submitted, previous,
                     compared, orphans>>
  PROVE  HistoryInvariant'
  <1> USE DEF HistoryInvariant
  <1>1. \A c \in Calls :
          /\ Held(c)' <=> Held(c)
          /\ Queued(c)' <=> Queued(c)
          /\ Observing(c)' <=> Observing(c)
          /\ Storing(c)' <=> Storing(c)
          /\ Stored(c)' <=> Stored(c)
          /\ req'[c].obs = req[c].obs
    BY DEF Held, Queued, Observing, Storing, Stored
  <1>2. TypeOK' /\ Exclusive'
    BY <1>1 DEF TypeOK, Exclusive
  <1> QED BY <1>1, <1>2, HistoryFrame

\* Every step keeps the history (nats_login.rs, native_tools.rs).
LEMMA HistorySteps ==
  ASSUME HistoryInvariant, [Next]_vars
  PROVE  HistoryInvariant'
  <1>1. CASE \E c \in Calls : Serve(c) \/ Leave(c)
    BY <1>1, OutsideSteps, QueueStep, ObserveStep, MonitorStep, CompareStep,
       RetainStep, LeaveStep DEF Serve
  <1>2. CASE \E c \in Calls, kind \in Kinds : Arrive(c, kind)
    BY <1>2, OutsideSteps
  <1>3. CASE \E o \in submitted : StoreSample(o)
    BY <1>3, StoreStep
  <1>4. CASE \/ Age \/ Revoke \/ Reject
             \/ WatchStart \/ Failure \/ Link \/ Receive \/ Check \/ Deadline
    BY <1>4, OtherSteps
       DEF Age, Revoke, Reject, WatchStart, Failure, Link, Receive, Check,
           Deadline, Close, WatchStep, tools, observations, history
  <1>5. CASE UNCHANGED vars
    BY <1>5, OtherSteps DEF vars, tools, observations, history
  <1> QED BY <1>1, <1>2, <1>3, <1>4, <1>5 DEF Next

\* The history of a session holds each observation once and in order,
\* whichever tabs asked, for any number of them (nats_login.rs dispatch).
THEOREM HistoryStaysInOrder == Spec => []HistoryInOrder
  <1>1. HistoryInvariant => HistoryInOrder
    BY DEF HistoryInvariant
  <1> QED BY <1>1, InitHistory, HistorySteps, PTL DEF Spec

\* Samples that follow each other have been compared and no comparison steps
\* over a sample, for any number of tabs (nats_login.rs dispatch).
THEOREM ChangesAreCompared == Spec => []ChangesCompared
  <1>1. HistoryInvariant => ChangesCompared
    BY DEF HistoryInvariant
  <1> QED BY <1>1, InitHistory, HistorySteps, PTL DEF Spec

-----------------------------------------------------------------------------
(* The queue for the lock on the observations *)

\* A call waits only for calls in the queue, and none wait for each other in a
\* circle: of any of them, one waits for none of the others.
CallQueue ==
    /\ \A c \in Calls : ahead[c] \subseteq {d \in Calls \ {c} : Queued(d)}
    /\ \A S \in SUBSET {c \in Calls : Queued(c)} :
          S # {} => \E c \in S : ahead[c] \cap S = {}

\* Phases of a call in the queue.
QueuePhases == {"waiting", "observed", "compare", "store", "stored"}

\* Calls that leave the queue, or wait for fewer others, close no circle.
LEMMA QueueShrinks ==
  ASSUME CallQueue,
         \A c \in Calls : /\ Queued(c)' => Queued(c)
                          /\ ahead'[c] \subseteq ahead[c]
                          /\ \A d \in ahead'[c] : Queued(d)'
  PROVE  CallQueue'
  <1>1. \A c \in Calls : ahead'[c] \subseteq {d \in Calls \ {c} : Queued(d)'}
    BY DEF CallQueue
  <1>2. ASSUME NEW S \in SUBSET {c \in Calls : Queued(c)'}, S # {}
        PROVE  \E c \in S : ahead'[c] \cap S = {}
    <2>1. S \in SUBSET {c \in Calls : Queued(c)}
      OBVIOUS
    <2>2. PICK c \in S : ahead[c] \cap S = {}
      BY <1>2, <2>1 DEF CallQueue
    <2> QED BY <2>2
  <1> QED BY <1>1, <1>2 DEF CallQueue

\* A step of one call that keeps its place, in the queue or outside it.
LEMMA CallStays ==
  ASSUME CallQueue, NEW c \in Calls, UNCHANGED ahead,
         \A d \in Calls \ {c} : req'[d].phase = req[d].phase,
         req'[c].phase \in QueuePhases <=> req[c].phase \in QueuePhases
  PROVE  CallQueue'
  <1>1. \A d \in Calls : Queued(d)' <=> Queued(d)
    BY DEF Queued, QueuePhases
  <1>2. \A d \in Calls : \A e \in ahead'[d] : Queued(e)'
    BY <1>1 DEF CallQueue
  <1> QED BY <1>1, <1>2, QueueShrinks

\* A step of one call that gives up its place.
LEMMA CallLeaves ==
  ASSUME TypeOK, CallQueue, NEW c \in Calls, Release(c),
         \A d \in Calls \ {c} : req'[d].phase = req[d].phase,
         req'[c].phase \notin QueuePhases
  PROVE  CallQueue'
  <1>1. \A d \in Calls : ahead'[d] \subseteq ahead[d] \ {c}
    BY DEF Release, TypeOK, CallQueue
  <1>2. \A d \in Calls : Queued(d)' <=> Queued(d) /\ d # c
    BY DEF Queued, QueuePhases
  <1>3. \A d \in Calls : \A e \in ahead'[d] : Queued(e)'
    BY <1>1, <1>2 DEF CallQueue
  <1> QED BY <1>1, <1>2, <1>3, QueueShrinks

\* A call that asks for the lock waits for all that have asked before it (tokio's
\* mutex, nats_login.rs dispatch): of any it is among, the one that led the
\* others still does.
LEMMA CallQueues ==
  ASSUME TypeOK, CallQueue, NEW c \in Calls, ~Queued(c), Queued(c)',
         ahead' = [ahead EXCEPT ![c] = {d \in Calls : Queued(d)}],
         \A d \in Calls \ {c} : req'[d] = req[d]
  PROVE  CallQueue'
  <1>1. /\ c \notin ahead'[c]
        /\ \A d \in Calls \ {c} : /\ ahead'[d] = ahead[d] /\ c \notin ahead'[d]
                                  /\ Queued(d)' <=> Queued(d)
    BY DEF TypeOK, CallQueue, Queued
  <1>2. \A d \in Calls : ahead'[d] \subseteq {e \in Calls \ {d} : Queued(e)'}
    <2>1. ahead'[c] = {d \in Calls : Queued(d)}
      BY DEF TypeOK
    <2> QED BY <1>1, <2>1 DEF CallQueue
  <1>3. ASSUME NEW S \in SUBSET {d \in Calls : Queued(d)'}, S # {}
        PROVE  \E d \in S : ahead'[d] \cap S = {}
    <2>1. CASE S \ {c} = {}
      BY <1>1, <1>3, <2>1
    <2>2. CASE S \ {c} # {}
      <3>1. S \ {c} \in SUBSET {d \in Calls : Queued(d)}
        BY <1>1
      <3>2. PICK d \in S \ {c} : ahead[d] \cap (S \ {c}) = {}
        BY <2>2, <3>1 DEF CallQueue
      <3> QED BY <1>1, <3>2
    <2> QED BY <2>1, <2>2
  <1> QED BY <1>2, <1>3 DEF CallQueue

\* Each step of a call (nats_login.rs dispatch, native_tools.rs).
LEMMA ServeQueue ==
  ASSUME TypeOK, CallQueue, NEW c \in Calls,
         \/ Serve(c) \/ Leave(c)
         \/ \E kind \in Kinds : Arrive(c, kind)
  PROVE  CallQueue'
  <1>1. req[c] \in Requests /\ req \in [Calls -> Requests]
    BY DEF TypeOK
  <1>2. Idle.phase = "idle" /\ [Idle EXCEPT !.phase = "answered"].phase = "answered"
    BY DEF Idle
  <1>3. CASE \E kind \in Kinds : Arrive(c, kind)
    <2>1. PICK kind \in Kinds : Arrive(c, kind)
      BY <1>3
    <2>2. req'[c].phase = "guarded"
      BY <1>1, <2>1 DEF Arrive, Idle
    <2> QED BY <1>1, <2>1, <2>2, CallStays DEF Arrive, observations, QueuePhases
  <1>4. CASE Connect(c)
    <2>1. req'[c].phase \in {"connected", "answered"}
      <3>1. At(c, "connected") \/ Refused(c)
        BY <1>4 DEF Connect
      <3>2. CASE At(c, "connected")
        BY <1>1, <3>2 DEF At, Requests
      <3>3. CASE Refused(c)
        BY <1>1, <1>2, <3>3 DEF Refused
      <3> QED BY <3>1, <3>2, <3>3
    <2>2. \A d \in Calls \ {c} : req'[d] = req[d]
      BY <1>1, <1>4 DEF Connect, At, Refused
    <2> QED BY <1>4, <2>1, <2>2, CallStays DEF Connect, observations, QueuePhases
  <1>5. CASE ReadChoice(c)
    <2>1. CASE req[c].kind = "snapshot"
      <3>1. /\ req'[c].phase = "waiting" /\ req[c].phase = "connected"
            /\ \A d \in Calls \ {c} : req'[d] = req[d]
            /\ ahead' = [ahead EXCEPT ![c] = {d \in Calls : Queued(d)}]
        BY <1>1, <1>5, <2>1 DEF ReadChoice, Requests
      <3> QED BY <3>1, CallQueues DEF Queued
    <2>2. CASE req[c].kind # "snapshot"
      <3>1. /\ \/ req' = [req EXCEPT ![c].phase = "inventory"]
               \/ req' = [req EXCEPT ![c] = [Idle EXCEPT !.phase = "answered"]]
            /\ req[c].phase = "connected" /\ UNCHANGED ahead
        BY <1>5, <2>2 DEF ReadChoice, Refused
      <3>2. req'[c].phase \in {"inventory", "answered"}
        <4>1. CASE req' = [req EXCEPT ![c].phase = "inventory"]
          BY <1>1, <4>1 DEF Requests
        <4>2. CASE req' = [req EXCEPT ![c] = [Idle EXCEPT !.phase = "answered"]]
          BY <1>1, <1>2, <4>2
        <4> QED BY <3>1, <4>1, <4>2
      <3>3. \A d \in Calls \ {c} : req'[d] = req[d]
        BY <1>1, <3>1
      <3> QED BY <3>1, <3>2, <3>3, CallStays DEF QueuePhases
    <2> QED BY <2>1, <2>2
  <1>6. CASE set_monitoring(c)
    <2>1. /\ req'[c].phase = "answered" /\ req[c].phase = "connected"
          /\ \A d \in Calls \ {c} : req'[d] = req[d]
      BY <1>1, <1>6 DEF set_monitoring, Requests
    <2> QED BY <1>6, <2>1, CallStays DEF set_monitoring, observations, QueuePhases
  <1>7. CASE inventory(c)
    <2>1. /\ req'[c].phase = "answered" /\ req[c].phase = "inventory"
          /\ \A d \in Calls \ {c} : req'[d] = req[d]
      <3>1. \/ req' = [req EXCEPT ![c] = [Idle EXCEPT !.phase = "answered"]]
            \/ \E nodes : req' = [req EXCEPT ![c].phase = "answered",
                                            ![c].nodes = nodes]
        BY <1>7 DEF inventory, Refused
      <3>2. CASE req' = [req EXCEPT ![c] = [Idle EXCEPT !.phase = "answered"]]
        BY <1>1, <1>2, <1>7, <3>2 DEF inventory
      <3>3. CASE \E nodes : req' = [req EXCEPT ![c].phase = "answered",
                                              ![c].nodes = nodes]
        BY <1>1, <1>7, <3>3 DEF inventory, Requests
      <3> QED BY <3>1, <3>2, <3>3
    <2> QED BY <1>7, <2>1, CallStays DEF inventory, observations, QueuePhases
  <1>8. CASE Observe(c)
    <2>1. /\ req'[c].phase = "observed" /\ req[c].phase = "waiting"
          /\ \A d \in Calls \ {c} : req'[d] = req[d]
      BY <1>1, <1>8 DEF Observe, Observed, Requests
    <2> QED BY <1>8, <2>1, CallStays DEF Observe, observations, QueuePhases
  <1>9. CASE Monitor(c)
    <2>1. /\ req'[c].phase = IF req[c].cached THEN "answered" ELSE "compare"
          /\ req[c].phase = "observed"
          /\ \A d \in Calls \ {c} : req'[d] = req[d]
      BY <1>1, <1>9 DEF Monitor, Requests
    <2>2. CASE req[c].cached
      BY <1>9, <2>1, <2>2, CallLeaves DEF Monitor, QueuePhases
    <2>3. CASE ~req[c].cached
      BY <1>9, <2>1, <2>3, CallStays DEF Monitor, QueuePhases
    <2> QED BY <2>2, <2>3
  <1>10. CASE Compare(c)
    <2>1. /\ \/ req'[c].phase = "store" /\ UNCHANGED ahead
             \/ req'[c].phase = "answered" /\ Release(c)
          /\ req[c].phase = "compare"
          /\ \A d \in Calls \ {c} : req'[d] = req[d]
      <3>1. /\ req[c].phase = "compare"
            /\ \/ At(c, "store") /\ UNCHANGED ahead
               \/ Refused(c) /\ Release(c)
        BY <1>10 DEF Compare
      <3>2. CASE At(c, "store") /\ UNCHANGED ahead
        BY <1>1, <3>1, <3>2 DEF At, Requests
      <3>3. CASE Refused(c) /\ Release(c)
        BY <1>1, <1>2, <3>1, <3>3 DEF Refused
      <3> QED BY <3>1, <3>2, <3>3
    <2> QED BY <2>1, CallStays, CallLeaves DEF QueuePhases
  <1>11. CASE Retain(c)
    <2>1. /\ req'[c].phase = "answered" /\ Release(c)
          /\ \A d \in Calls \ {c} : req'[d] = req[d]
      BY <1>1, <1>11 DEF Retain, At, Requests
    <2> QED BY <2>1, CallLeaves DEF QueuePhases
  <1>12. CASE Deliver(c)
    <2>1. /\ req'[c].phase = "idle" /\ req[c].phase = "answered"
          /\ \A d \in Calls \ {c} : req'[d] = req[d]
      BY <1>1, <1>2, <1>12 DEF Deliver
    <2> QED BY <1>12, <2>1, CallStays DEF Deliver, observations, QueuePhases
  <1>13. CASE Leave(c)
    <2>1. /\ req'[c].phase = "idle" /\ Release(c)
          /\ \A d \in Calls \ {c} : req'[d] = req[d]
      BY <1>1, <1>2, <1>13 DEF Leave
    <2> QED BY <2>1, CallLeaves DEF QueuePhases
  <1> QED
    BY <1>3, <1>4, <1>5, <1>6, <1>7, <1>8, <1>9, <1>10, <1>11, <1>12, <1>13
       DEF Serve

\* The storage thread ends the wait of whoever waits for its sample: that call
\* goes on, or it is refused and gives up its place (nats_login.rs dispatch).
LEMMA StoreQueue ==
  ASSUME TypeOK, CallQueue, NEW o \in submitted, StoreSample(o)
  PROVE  CallQueue'
  <1>1. \A c \in Waiting(o) : c \in Calls /\ req[c].phase = "store"
    BY DEF Waiting
  <1>2. CASE /\ UNCHANGED ahead
             /\ req' = [c \in Calls |-> IF c \in Waiting(o)
                                         THEN [req[c] EXCEPT !.phase = "stored"]
                                         ELSE req[c]]
    <2>1. \A c \in Calls : Queued(c)' <=> Queued(c)
      <3> TAKE c \in Calls
      <3>1. req[c] \in Requests
        BY DEF TypeOK
      <3>2. CASE c \in Waiting(o)
        <4>1. req'[c].phase = "stored"
          BY <1>2, <3>1, <3>2 DEF Requests
        <4> QED BY <1>1, <3>2, <4>1 DEF Queued
      <3>3. CASE c \notin Waiting(o)
        BY <1>2, <3>3 DEF Queued
      <3> QED BY <3>2, <3>3
    <2>2. \A c \in Calls : \A d \in ahead'[c] : Queued(d)'
      BY <1>2, <2>1 DEF CallQueue
    <2> QED BY <1>2, <2>1, <2>2, QueueShrinks
  <1>3. CASE /\ ahead' = [d \in Calls |-> ahead[d] \ Waiting(o)]
             /\ req' = [c \in Calls |-> IF c \in Waiting(o)
                                         THEN [Idle EXCEPT !.phase = "answered"]
                                         ELSE req[c]]
    <2>1. [Idle EXCEPT !.phase = "answered"].phase = "answered"
      BY DEF Idle
    <2>2. \A c \in Calls : Queued(c)' <=> Queued(c) /\ c \notin Waiting(o)
      BY <1>3, <2>1 DEF Queued
    <2>3. \A c \in Calls : ahead'[c] = ahead[c] \ Waiting(o)
      BY <1>3
    <2>4. \A c \in Calls : \A d \in ahead'[c] : Queued(d)'
      BY <2>2, <2>3 DEF CallQueue
    <2> QED BY <2>2, <2>3, <2>4, QueueShrinks
  <1> QED BY <1>2, <1>3 DEF StoreSample

\* While calls are queued for the lock one of them has it or gets it, through
\* failures, dropped calls and refused samples, and no wait for the storage
\* thread is in vain: the safety that CallsAnswered rests on (nats_login.rs
\* dispatch).
THEOREM CallQueueMoves == Spec => []QueueMoves
  <1>1. Init => CallQueue
    BY DEF Init, CallQueue, Queued, Idle
  <1>2. HistoryInvariant /\ CallQueue /\ [Next]_vars => CallQueue'
    <2> SUFFICES ASSUME HistoryInvariant, CallQueue, [Next]_vars PROVE CallQueue'
      OBVIOUS
    <2>1. TypeOK
      BY DEF HistoryInvariant
    <2>2. ASSUME UNCHANGED <<req, ahead>> PROVE CallQueue'
      BY <2>2 DEF CallQueue, Queued
    <2>3. CASE Next
      <3>1. CASE \/ \E c \in Calls : Serve(c) \/ Leave(c)
                 \/ \E c \in Calls, kind \in Kinds : Arrive(c, kind)
        BY <2>1, <3>1, ServeQueue
      <3>2. CASE \E o \in submitted : StoreSample(o)
        BY <2>1, <3>2, StoreQueue
      <3>3. CASE \/ Age \/ Revoke \/ Reject
                 \/ WatchStart \/ Failure \/ Link \/ Receive \/ Check \/ Deadline
        BY <2>2, <3>3
           DEF Age, Revoke, Reject, WatchStart, Failure, Link, Receive, Check,
               Deadline, Close, WatchStep, observations
      <3> QED BY <2>3, <3>1, <3>2, <3>3 DEF Next
    <2> QED BY <2>2, <2>3 DEF vars, observations
  <1>3. HistoryInvariant /\ CallQueue => QueueMoves
    <2> SUFFICES ASSUME HistoryInvariant, CallQueue, NEW d \in Calls, Queued(d)
                 PROVE  \E c \in Calls :
                           /\ Queued(c) /\ Served(c)
                           /\ req[c].phase = "store" => req[c].obs \in submitted
      BY DEF QueueMoves
    <2> DEFINE S == {c \in Calls : Queued(c)}
    <2>1. PICK c \in S : ahead[c] \cap S = {}
      BY DEF CallQueue
    <2>2. ahead[c] \subseteq S
      BY DEF CallQueue
    <2>3. Served(c)
      BY <2>1, <2>2 DEF Served
    <2> QED BY <2>1, <2>3 DEF HistoryInvariant, Readings, Storing
  <1> QED BY <1>1, <1>2, <1>3, InitHistory, HistorySteps, PTL DEF Spec

-----------------------------------------------------------------------------
(* The page: its node links and the monitoring choice it shows *)

\* These links name servers by the slots they have.
InPlace(links) ==
    \A link \in links : link[1] \in DOMAIN slots /\ slots[link[1]] = link[2]

\* What the page shows, and what a call is about to tell it, names servers by
\* their slots.
PageInvariant ==
    /\ slots \in Seq(ToSet(slots)) /\ Len(slots) <= SlotLimit
    /\ \A c \in Calls : InPlace(req[c].nodes)
    /\ LinksKept
    /\ page.choice \in MonitoringStates

\* Servers that are met get slots after those that have one, as long as there
\* are free ones (native_tools.rs observe).
LEMMA KnownExtends ==
  ASSUME NEW known, known \in Seq(ToSet(known)), Len(known) <= SlotLimit,
         NEW replies \in Replies \cup {<<>>}
  PROVE  /\ Known(known, replies) \in Seq(ToSet(Known(known, replies)))
         /\ Len(Known(known, replies)) <= SlotLimit
         /\ DOMAIN known \subseteq DOMAIN Known(known, replies)
         /\ \A i \in DOMAIN known : Known(known, replies)[i] = known[i]
  <1> DEFINE new == {i \in DOMAIN replies : replies[i] \notin ToSet(known)}
             nth(k) == CHOOSE i \in new : Cardinality({j \in new : j <= i}) = k
             free == SlotLimit - Len(known)
             count == Min({Cardinality(new), free})
             met == [k \in 1 .. count |-> replies[nth(k)]]
             all == known \o met
  <1>1. SlotLimit \in Nat /\ Len(known) \in Nat /\ free \in Nat
    BY NatsSessionAssumption
  <1>2. Cardinality(new) \in Nat
    <2>1. IsFiniteSet(DOMAIN replies)
      <3>1. CASE replies \in Replies
        <4>1. Cardinality(Servers) \in Nat
          BY NatsSessionAssumption, FS_CardinalityType
        <4>2. PICK n \in 0 .. Cardinality(Servers) : replies \in [1 .. n -> Servers]
          BY <3>1 DEF Replies
        <4>3. DOMAIN replies = 1 .. n /\ n \in Int
          BY <4>1, <4>2
        <4> QED BY <4>3, FS_Interval
      <3>2. CASE replies = <<>>
        <4>1. DOMAIN replies = {}
          BY <3>2
        <4> QED BY <4>1, FS_EmptySet
      <3> QED BY <3>1, <3>2
    <2>2. new \in SUBSET DOMAIN replies
      OBVIOUS
    <2>3. IsFiniteSet(new)
      <3> HIDE DEF new
      <3> QED BY <2>1, <2>2, FS_Subset
    <2> HIDE DEF new
    <2> QED BY <2>3, FS_CardinalityType
  <1>3. count \in Nat /\ count <= free
    <2> DEFINE x == Cardinality(new)
    <2>1. x \in Nat
      BY <1>2
    <2> HIDE DEF new, free, x
    <2>2. \E m \in {x, free} : \A v \in {x, free} : m <= v
      <3>1. CASE x <= free
        BY <1>1, <2>1, <3>1
      <3>2. CASE free <= x
        BY <1>1, <2>1, <3>2
      <3> QED BY <1>1, <2>1, <3>1, <3>2
    <2>3. Min({x, free}) \in {x, free} /\ \A v \in {x, free} : Min({x, free}) <= v
      BY <2>2 DEF Min
    <2> QED BY <1>1, <2>1, <2>3 DEF x
  <1> HIDE DEF new, count, nth
  <1>4. met \in Seq({met[k] : k \in 1 .. count}) /\ Len(met) = count
    BY <1>3
  <1>5. /\ all \in Seq(ToSet(known) \cup {met[k] : k \in 1 .. count})
        /\ Len(all) = Len(known) + count
        /\ \A i \in 1 .. Len(known) : all[i] = known[i]
    <2> DEFINE T == ToSet(known) \cup {met[k] : k \in 1 .. count}
    <2>1. known \in Seq(T) /\ met \in Seq(T)
      BY <1>3, <1>4
    <2> HIDE DEF T, met
    <2>2. all \in Seq(T) /\ Len(all) = Len(known) + Len(met)
          /\ \A i \in 1 .. Len(known) : all[i] = known[i]
      BY <2>1
    <2> QED BY <1>4, <2>2 DEF T
  <1> HIDE DEF all, met
  <1>6. DOMAIN all = 1 .. Len(all) /\ DOMAIN known = 1 .. Len(known)
    BY <1>5
  <1>7. all \in Seq(ToSet(all))
    <2> DEFINE T == ToSet(known) \cup {met[k] : k \in 1 .. count}
               S == ToSet(all)
               n == Len(all)
    <2>1. all \in Seq(T) /\ n \in Nat /\ DOMAIN all = 1 .. n
      BY <1>5, <1>6
    <2>2. \A i \in 1 .. n : all[i] \in S
      BY <2>1 DEF ToSet
    <2> HIDE DEF T, S
    <2>3. all \in [1 .. n -> T]
      BY <2>1
    <2> HIDE DEF n
    <2>4. all \in [1 .. n -> S]
      BY <2>2, <2>3
    <2>5. all \in Seq(S)
      BY <2>1, <2>4
    <2> QED BY <2>5 DEF S
  <1>8. all = Known(known, replies)
    BY DEF all, met, nth, count, new, free, Known
  <1>9. /\ Len(all) <= SlotLimit
        /\ DOMAIN known \subseteq DOMAIN all
        /\ \A i \in DOMAIN known : all[i] = known[i]
    BY <1>1, <1>3, <1>5, <1>6
  <1> QED BY <1>7, <1>8, <1>9

\* Links to slots that stay what they were keep their meaning.
LEMMA NamesStay ==
  ASSUME PageInvariant,
         \/ UNCHANGED slots
         \/ \E replies \in Replies \cup {<<>>} : slots' = Slotted(replies)
  PROVE  /\ slots' \in Seq(ToSet(slots')) /\ Len(slots') <= SlotLimit
         /\ \A links : InPlace(links) => InPlace(links)'
         /\ \A replies, links : links = Links(slots', replies) => InPlace(links)'
  <1>1. /\ slots' \in Seq(ToSet(slots')) /\ Len(slots') <= SlotLimit
        /\ DOMAIN slots \subseteq DOMAIN slots'
        /\ \A i \in DOMAIN slots : slots'[i] = slots[i]
    <2>1. CASE UNCHANGED slots
      BY <2>1 DEF PageInvariant
    <2>2. CASE \E replies \in Replies \cup {<<>>} : slots' = Slotted(replies)
      BY <2>2, KnownExtends DEF PageInvariant, Slotted
    <2> QED BY <2>1, <2>2
  <1>2. \A links : InPlace(links) => InPlace(links)'
    BY <1>1 DEF InPlace
  <1>3. \A replies, links : links = Links(slots', replies) => InPlace(links)'
    BY DEF InPlace, Links
  <1> QED BY <1>1, <1>2, <1>3

\* A call carries the links it had, or none, or those of a round of replies.
NodesFollow ==
    \A c \in Calls :
        \/ req'[c].nodes \in {req[c].nodes, {}}
        \/ \E replies : req'[c].nodes = Links(slots', replies)

\* Only the rounds of inventory and observe give slots and links, and no step
\* but a delivery touches the page (native_tools.rs, session-tools.js).
LEMMA NodeSteps ==
  ASSUME TypeOK, [Next]_vars
  PROVE  /\ NodesFollow
         /\ \/ UNCHANGED slots
            \/ \E replies \in Replies \cup {<<>>} : slots' = Slotted(replies)
         /\ UNCHANGED page \/ \E c \in Calls : Deliver(c)
  <1> USE DEF NodesFollow, tools
  <1>1. \A c \in Calls : req[c] \in Requests
    BY DEF TypeOK
  <1>2. req \in [Calls -> Requests]
    BY DEF TypeOK
  <1>3. ASSUME NEW c \in Calls, \/ Connect(c) \/ ReadChoice(c) \/ set_monitoring(c)
                                \/ Observe(c) \/ Compare(c) \/ Retain(c) \/ Leave(c)
                                \/ \E kind \in Kinds : Arrive(c, kind)
        PROVE  NodesFollow /\ UNCHANGED <<slots, page>>
    <2>1. UNCHANGED <<slots, page>>
      BY <1>3 DEF Connect, ReadChoice, set_monitoring, Observe, Compare, Retain,
                  Leave, Arrive
    <2>2. /\ \A d \in Calls \ {c} : req'[d] = req[d]
          /\ req'[c].nodes \in {req[c].nodes, {}}
      <3>1. CASE \E kind \in Kinds : Arrive(c, kind)
        BY <1>2, <3>1 DEF Arrive, Idle
      <3>2. CASE Connect(c) \/ ReadChoice(c) \/ set_monitoring(c)
        BY <1>1, <1>2, <3>2
           DEF Connect, ReadChoice, set_monitoring, At, Refused, Idle, Requests
      <3>3. CASE Observe(c)
        BY <1>1, <1>2, <3>3 DEF Observe, Observed, Requests
      <3>4. CASE Compare(c) \/ Retain(c) \/ Leave(c)
        BY <1>1, <1>2, <3>4 DEF Compare, Retain, Leave, At, Refused, Idle, Requests
      <3> QED BY <1>3, <3>1, <3>2, <3>3, <3>4
    <2> QED BY <2>1, <2>2
  <1>4. ASSUME NEW c \in Calls, inventory(c)
        PROVE  /\ NodesFollow /\ UNCHANGED page
               /\ \/ UNCHANGED slots
                  \/ \E replies \in Replies : slots' = Slotted(replies)
    <2>1. PICK replies \in Replies :
              IF replies = <<>>
              THEN Refused(c) /\ UNCHANGED slots
              ELSE /\ slots' = Slotted(replies)
                   /\ req' = [req EXCEPT ![c].phase = "answered",
                                  ![c].nodes = Links(slots', replies)]
      BY <1>4 DEF inventory
    <2>2. CASE replies = <<>>
      BY <1>2, <1>4, <2>1, <2>2 DEF inventory, Refused, Idle
    <2>3. CASE replies # <<>>
      <3>1. req'[c].nodes = Links(slots', replies)
        BY <1>1, <1>2, <2>1, <2>3 DEF Requests
      <3>2. \A d \in Calls \ {c} : req'[d] = req[d]
        BY <1>2, <2>1, <2>3
      <3> QED BY <1>4, <2>1, <2>3, <3>1, <3>2 DEF inventory
    <2> QED BY <2>2, <2>3
  <1>5. ASSUME NEW c \in Calls, Monitor(c)
        PROVE  /\ NodesFollow /\ UNCHANGED page
               /\ \E replies \in Replies \cup {<<>>} : slots' = Slotted(replies)
    <2>1. PICK replies \in Replies \cup {<<>>} :
            /\ slots' = Slotted(replies)
            /\ req' = [req EXCEPT
                   ![c].nodes = Links(slots', replies),
                   ![c].phase = IF req[c].cached THEN "answered" ELSE "compare"]
      BY <1>5 DEF Monitor
    <2>2. req'[c].nodes = Links(slots', replies)
      BY <1>1, <1>2, <2>1 DEF Requests
    <2>3. \A d \in Calls \ {c} : req'[d] = req[d]
      BY <1>2, <2>1
    <2> QED BY <1>5, <2>1, <2>2, <2>3 DEF Monitor
  <1>6. ASSUME NEW c \in Calls, Deliver(c)
        PROVE  NodesFollow /\ UNCHANGED slots
    BY <1>2, <1>6 DEF Deliver, Idle
  <1>7. ASSUME NEW o \in submitted, StoreSample(o)
        PROVE  NodesFollow /\ UNCHANGED <<slots, page>>
    <2>1. \A d \in Calls : \/ req'[d] = req[d]
                           \/ req'[d] = [req[d] EXCEPT !.phase = "stored"]
                           \/ req'[d] = [Idle EXCEPT !.phase = "answered"]
      BY <1>7 DEF StoreSample
    <2>2. \A d \in Calls : req'[d].nodes \in {req[d].nodes, {}}
      BY <1>1, <2>1 DEF Idle, Requests
    <2> QED BY <1>7, <2>2 DEF StoreSample
  <1>8. CASE \/ Age \/ Revoke \/ Reject \/ WatchStart \/ Failure \/ Link
             \/ Receive \/ Check \/ Deadline \/ UNCHANGED vars
    BY <1>8 DEF Age, Revoke, Reject, WatchStart, Failure, Link, Receive, Check,
                Deadline, Close, WatchStep, vars
  <1> QED BY <1>3, <1>4, <1>5, <1>6, <1>7, <1>8 DEF Next, Serve

\* A page starts with the choice of its session and without links.
LEMMA PageInit == Init => PageInvariant
  <1> SUFFICES ASSUME Init PROVE PageInvariant
    OBVIOUS
  <1> USE NatsSessionAssumption DEF Init
  <1>1. slots \in Seq(ToSet(slots)) /\ Len(slots) <= SlotLimit
    OBVIOUS
  <1>2. \A c \in Calls : InPlace(req[c].nodes)
    BY DEF InPlace, Idle
  <1>3. LinksKept /\ page.choice \in MonitoringStates
    BY DEF LinksKept, MonitoringStates
  <1> QED BY <1>1, <1>2, <1>3 DEF PageInvariant

\* What a delivery shows names servers by their slots, and never an older
\* choice than before (session-tools.js).
LEMMA PageStep ==
  ASSUME PageInvariant, TypeOK, [Next]_vars
  PROVE  /\ PageInvariant'
         /\ page'.choice.revision >= page.choice.revision
  <1>1. /\ slots' \in Seq(ToSet(slots')) /\ Len(slots') <= SlotLimit
        /\ \A links : InPlace(links) => InPlace(links)'
        /\ \A replies, links : links = Links(slots', replies) => InPlace(links)'
    BY NodeSteps, NamesStay
  <1>2. \A c \in Calls : InPlace(req[c].nodes)
    BY DEF PageInvariant
  <1>3. \A c \in Calls : InPlace(req[c].nodes)'
    <2> SUFFICES ASSUME NEW c \in Calls PROVE InPlace(req[c].nodes)'
      OBVIOUS
    <2>1. CASE req'[c].nodes = req[c].nodes
      BY <1>1, <1>2, <2>1 DEF InPlace
    <2>2. CASE req'[c].nodes = {}
      BY <2>2 DEF InPlace
    <2>3. CASE \E replies : req'[c].nodes = Links(slots', replies)
      BY <1>1, <2>3 DEF InPlace
    <2> QED BY <2>1, <2>2, <2>3, NodeSteps DEF NodesFollow
  <1>4. InPlace(page.links) /\ page.choice \in MonitoringStates
    BY DEF PageInvariant, LinksKept, InPlace
  <1>5. /\ \/ page'.links = page.links
           \/ \E c \in Calls : page'.links = req[c].nodes
        /\ page'.choice \in MonitoringStates
        /\ page'.choice.revision >= page.choice.revision
    <2>1. CASE UNCHANGED page
      BY <1>4, <2>1 DEF MonitoringStates
    <2>2. CASE \E c \in Calls : Deliver(c)
      <3>1. PICK c \in Calls : Deliver(c)
        BY <2>2
      <3>2. /\ page'.links = page.links \/ page'.links = req[c].nodes
            /\ \/ page'.choice = page.choice
               \/ /\ req[c].choice # None /\ page'.choice = req[c].choice
                  /\ req[c].choice.revision >= page.choice.revision
        BY <3>1 DEF Deliver
      <3>3. req[c].choice # None => req[c].choice \in MonitoringStates
        BY DEF TypeOK, Requests
      <3> QED BY <1>4, <3>2, <3>3 DEF MonitoringStates
    <2> QED BY <2>1, <2>2, NodeSteps
  <1>6. LinksKept'
    <2>1. InPlace(page'.links)
      BY <1>2, <1>4, <1>5
    <2> QED BY <1>1, <2>1 DEF LinksKept, InPlace
  <1> QED BY <1>1, <1>3, <1>5, <1>6 DEF PageInvariant

\* A node link names the server it was shown for as long as the page has it,
\* for any number of servers, slots and rounds (native_tools.rs observe,
\* inventory).
THEOREM LinksStay == Spec => []LinksKept
  <1>1. HistoryInvariant => TypeOK
    BY DEF HistoryInvariant
  <1>2. PageInvariant => LinksKept
    BY DEF PageInvariant
  <1> QED BY <1>1, <1>2, InitHistory, HistorySteps, PageInit, PageStep, PTL DEF Spec

\* The monitoring choice on the page only gets newer, in whatever order calls
\* are answered (session-tools.js).
THEOREM ChoiceOnlyGetsNewer == Spec => ChoiceNeverGoesBack
  <1>1. PageInvariant /\ TypeOK /\ [Next]_vars
           => [page'.choice.revision >= page.choice.revision]_vars
    BY PageStep
  <1>2. HistoryInvariant => TypeOK
    BY DEF HistoryInvariant
  <1> QED BY <1>1, <1>2, InitHistory, HistorySteps, PageInit, PageStep, PTL
          DEF Spec, ChoiceNeverGoesBack

-----------------------------------------------------------------------------
(* What the walks over subjects promise, for patterns of any length, and   *)
(* what the capabilities promise of the actions, for any grants.           *)

\* A grant that covers a pattern matches every subject of the pattern
\* (access.rs covers, matches).
LEMMA CoversSound ==
  ASSUME NEW g \in Pattern, NEW p \in Pattern, NEW s \in Pattern,
         covers(g, p), matches(p, s)
  PROVE  matches(g, s)
<1> DEFINE GP(k) == \A i \in 1 .. k :
              /\ Rest \notin {g[i], p[i]}
              /\ g[i] = One \/ (g[i] = p[i] /\ p[i] # One)
           PS(k) == \A i \in 1 .. k : p[i] # Rest /\ p[i] \in {One, s[i]}
           GS(k) == \A i \in 1 .. k : g[i] # Rest /\ g[i] \in {One, s[i]}
<1>1. \/ Len(p) = Len(s) /\ PS(Len(p))
      \/ \E k \in Common(p, s) : p[k] = Rest /\ PS(k - 1)
  BY DEF matches
<1>2. \A k \in Nat : GP(k) /\ PS(k) => GS(k)
  OBVIOUS
<1>3. CASE Len(g) = Len(p) /\ GP(Len(g))
  <2>1. Len(p) = Len(s) /\ PS(Len(p))
    BY <1>1, <1>3 DEF Common, Pattern
  <2>2. GS(Len(g))
    BY <1>2, <1>3, <2>1 DEF Pattern
  <2> QED BY <1>3, <2>1, <2>2 DEF matches
<1>4. CASE \E k \in Common(g, p) : g[k] = Rest /\ GP(k - 1)
  <2>1. PICK k \in Common(g, p) : g[k] = Rest /\ GP(k - 1)
    BY <1>4
  <2>2. k \in Nat /\ k >= 1 /\ k <= Len(p) /\ k <= Len(g)
    BY DEF Common, Pattern
  <2>3. k <= Len(s) /\ PS(k - 1)
    <3>1. CASE Len(p) = Len(s) /\ PS(Len(p))
      BY <2>2, <3>1 DEF Pattern
    <3>2. CASE \E m \in Common(p, s) : p[m] = Rest /\ PS(m - 1)
      <4>1. PICK m \in Common(p, s) : p[m] = Rest /\ PS(m - 1)
        BY <3>2
      <4>2. m \in Nat /\ m >= 1 /\ m <= Len(s)
        BY DEF Common, Pattern
      <4>3. m >= k
        BY <2>1, <2>2, <4>1, <4>2
      <4> QED BY <2>2, <4>1, <4>2, <4>3 DEF Pattern
    <3> QED BY <1>1, <3>1, <3>2
  <2>4. GS(k - 1)
    BY <1>2, <2>1, <2>2, <2>3
  <2>5. k \in Common(g, s)
    BY <2>2, <2>3 DEF Common, Pattern
  <2> QED BY <2>1, <2>4, <2>5 DEF matches
<1> QED BY <1>3, <1>4 DEF covers

\* Two patterns that share a subject overlap (access.rs overlaps, matches).
LEMMA OverlapsComplete ==
  ASSUME NEW a \in Pattern, NEW b \in Pattern, NEW s \in Pattern,
         matches(a, s), matches(b, s)
  PROVE  overlaps(a, b)
<1> DEFINE MA(k) == \A i \in 1 .. k : a[i] # Rest /\ a[i] \in {One, s[i]}
           MB(k) == \A i \in 1 .. k : b[i] # Rest /\ b[i] \in {One, s[i]}
           AB(k) == \A i \in 1 .. k :
              /\ Rest \notin {a[i], b[i]}
              /\ One \in {a[i], b[i]} \/ a[i] = b[i]
<1>1. \A k \in Int : MA(k) /\ MB(k) => AB(k)
  OBVIOUS
<1>2. PICK ka \in Nat : /\ MA(ka - 1) /\ 1 <= ka
                        /\ \/ ka = Len(s) + 1 /\ Len(a) = Len(s)
                           \/ ka <= Len(a) /\ ka <= Len(s) /\ a[ka] = Rest
  <2>1. CASE Len(a) = Len(s) /\ MA(Len(a))
    <3>1. Len(s) + 1 \in Nat /\ 1 <= Len(s) + 1 /\ (Len(s) + 1) - 1 = Len(s)
      BY DEF Pattern
    <3>2. MA((Len(s) + 1) - 1)
      BY <2>1, <3>1
    <3> HIDE DEF MA
    <3> QED BY <2>1, <3>1, <3>2
  <2>2. CASE \E k \in Common(a, s) : a[k] = Rest /\ MA(k - 1)
    BY <2>2 DEF Common, Pattern
  <2> QED BY <2>1, <2>2 DEF matches
<1>3. PICK kb \in Nat : /\ MB(kb - 1) /\ 1 <= kb
                        /\ \/ kb = Len(s) + 1 /\ Len(b) = Len(s)
                           \/ kb <= Len(b) /\ kb <= Len(s) /\ b[kb] = Rest
  <2>1. CASE Len(b) = Len(s) /\ MB(Len(b))
    <3>1. Len(s) + 1 \in Nat /\ 1 <= Len(s) + 1 /\ (Len(s) + 1) - 1 = Len(s)
      BY DEF Pattern
    <3>2. MB((Len(s) + 1) - 1)
      BY <2>1, <3>1
    <3> HIDE DEF MB
    <3> QED BY <2>1, <3>1, <3>2
  <2>2. CASE \E k \in Common(b, s) : b[k] = Rest /\ MB(k - 1)
    BY <2>2 DEF Common, Pattern
  <2> QED BY <2>1, <2>2 DEF matches
<1>4. CASE ka = Len(s) + 1 /\ kb = Len(s) + 1
  <2>1. Len(a) = Len(s) /\ Len(b) = Len(s)
    BY <1>2, <1>3, <1>4 DEF Pattern
  <2>2. AB(Len(a))
    BY <1>1, <1>2, <1>3, <1>4, <2>1 DEF Pattern
  <2> QED BY <2>1, <2>2 DEF overlaps
<1>5. CASE ka <= kb /\ ka <= Len(s)
  <2>1. AB(ka - 1)
    BY <1>1, <1>2, <1>3, <1>5
  <2>2. ka \in Common(a, b) /\ a[ka] = Rest
    BY <1>2, <1>3, <1>5 DEF Common, Pattern
  <2> QED BY <2>1, <2>2 DEF overlaps
<1>6. CASE kb <= ka /\ kb <= Len(s)
  <2>1. AB(kb - 1)
    BY <1>1, <1>2, <1>3, <1>6
  <2>2. kb \in Common(a, b) /\ b[kb] = Rest
    BY <1>2, <1>3, <1>6 DEF Common, Pattern
  <2> QED BY <2>1, <2>2 DEF overlaps
<1>7. /\ Len(s) \in Nat
      /\ ka = Len(s) + 1 \/ ka <= Len(s)
      /\ kb = Len(s) + 1 \/ kb <= Len(s)
  BY <1>2, <1>3 DEF Pattern
<1>8. ka <= kb \/ kb <= ka
  OBVIOUS
<1> QED BY <1>4, <1>5, <1>6, <1>7, <1>8

\* A capability the dashboard shows as granted is never refused by the grants
\* of the login, for every set of grants and denials, every pattern and every
\* subject (access.rs permits_all, permits, capability).
THEOREM PermitsAllSound == GrantedIsPermitted(Rule, Pattern, Pattern)
<1> SUFFICES ASSUME NEW rules \in Rule, NEW need \in Pattern,
                    permits_all(rules, need),
                    NEW s \in Pattern, matches(need, s)
             PROVE  permits(rules, s)
  BY DEF GrantedIsPermitted, granted
<1>1. rules.allow \subseteq Pattern /\ rules.deny \subseteq Pattern
  BY DEF Rule
<1>2. rules.allow = {} \/ \E p \in rules.allow : matches(p, s)
  BY <1>1, CoversSound DEF permits_all
<1>3. \A p \in rules.deny : ~matches(p, s)
  BY <1>1, OverlapsComplete DEF permits_all
<1> QED BY <1>2, <1>3 DEF permits

-----------------------------------------------------------------------------
(* Capabilities and actions.                                               *)

Access == {access \in Login : Discovered(access)}

\* Words of the API are names.
LEMMA WordsAreNames == ApiWords \subseteq Name
BY DEF ApiWords, Name, Token, One, Rest

\* A subject without wildcards is a pattern that holds itself.
LEMMA LiteralMatches ==
  ASSUME NEW s \in Seq(Name)
  PROVE  matches(s, s)
<1>1. \A i \in 1 .. Len(s) : s[i] # Rest
  BY DEF Name
<1> QED BY <1>1 DEF matches

\* A wildcard in place of the last token holds the subject.
LEMMA LastMatches ==
  ASSUME NEW s \in Seq(Name), NEW n \in Name
  PROVE  matches(s \o <<One>>, s \o <<n>>)
<1> DEFINE p == s \o <<One>>
           q == s \o <<n>>
<1>1. Len(p) = Len(s) + 1 /\ Len(q) = Len(s) + 1 /\ Len(s) \in Nat
  OBVIOUS
<1>2. \A i \in 1 .. Len(p) : p[i] # Rest /\ p[i] \in {One, q[i]}
  <2>1. SUFFICES ASSUME NEW i \in 1 .. Len(p)
                 PROVE  p[i] # Rest /\ p[i] \in {One, q[i]}
    OBVIOUS
  <2>2. CASE i = Len(s) + 1
    <3>1. p[i] = One
      BY <2>2
    <3> QED BY <3>1 DEF One, Rest
  <2>3. CASE i \in 1 .. Len(s)
    <3>1. p[i] = s[i] /\ q[i] = s[i] /\ s[i] # Rest
      BY <2>3 DEF Name
    <3> QED BY <3>1
  <2> QED BY <1>1, <2>2, <2>3
<1> QED BY <1>1, <1>2 DEF matches

\* Names are tokens, and names make subjects.
LEMMA NamesArePatterns == Seq(Name) \subseteq Pattern
<1>1. Name \subseteq Token
  BY DEF Name
<1> QED BY <1>1 DEF Pattern

\* The requests of the management API are about one subject each, without
\* wildcards (access.rs and operations.rs format them of names).
LEMMA ApiSubjects ==
  ASSUME NEW r \in Resource
  PROVE  /\ account_prefix(r.account) \in Seq(Name)
         /\ \A verb \in Seq(Name) : StreamApi(r, verb) \in Seq(Name)
         /\ \A verb \in Name : ConsumerApi(r, verb, r.consumer) \in Seq(Name)
<1>1. r.account \in Name /\ r.stream \in Name /\ r.consumer \in Name
  BY DEF Resource
<1>2. {"$JS", "API", "STREAM", "CONSUMER"} \subseteq Name
  BY WordsAreNames DEF ApiWords
<1>3. account_prefix(r.account) \in Seq(Name)
  BY <1>1, <1>2 DEF account_prefix
<1>4. ASSUME NEW verb \in Seq(Name)
      PROVE  StreamApi(r, verb) \in Seq(Name)
  <2>1. <<"STREAM">> \in Seq(Name) /\ <<r.stream>> \in Seq(Name)
    BY <1>1, <1>2
  <2> QED BY <1>3, <2>1 DEF StreamApi
<1>5. ASSUME NEW verb \in Name
      PROVE  ConsumerApi(r, verb, r.consumer) \in Seq(Name)
  <2>1. <<"CONSUMER", verb, r.stream, r.consumer>> \in Seq(Name)
    BY <1>1, <1>2
  <2> QED BY <1>3, <2>1 DEF ConsumerApi
<1> QED BY <1>3, <1>4, <1>5

\* What is granted for one subject is permitted (access.rs permits_all).
LEMMA GrantedSubject ==
  ASSUME NEW rules \in Rule, NEW need \in Seq(Name), permits_all(rules, need)
  PROVE  permits(rules, need)
<1>1. need \in Pattern
  BY NamesArePatterns
<1>2. granted(rules, {need})
  BY DEF granted
<1>3. matches(need, need)
  BY LiteralMatches
<1> QED BY <1>1, <1>2, <1>3, PermitsAllSound DEF GrantedIsPermitted

\* What is granted for every last token is permitted for each.
LEMMA GrantedLast ==
  ASSUME NEW rules \in Rule, NEW s \in Seq(Name), NEW n \in Name,
         permits_all(rules, s \o <<One>>)
  PROVE  permits(rules, s \o <<n>>)
<1>1. s \o <<One>> \in Pattern /\ s \o <<n>> \in Pattern
  <2>1. One \in Token /\ n \in Token /\ s \in Seq(Token)
    BY DEF Token, Name, One
  <2> QED BY <2>1 DEF Pattern
<1>2. granted(rules, {s \o <<One>>})
  BY DEF granted
<1>3. matches(s \o <<One>>, s \o <<n>>)
  BY LastMatches
<1> QED BY <1>1, <1>2, <1>3, PermitsAllSound DEF GrantedIsPermitted

\* The inventory of a login whose grants are known holds only streams that may
\* be looked up (telemetry.rs observe_scoped).
LEMMA VisibleInfo ==
  ASSUME NEW access \in Access, NEW r \in Resource, Visible(access, r),
         access.known
  PROVE  can(access, Info(r))
<1>1. Info(Named(r.account, r.stream)) = Info(r)
  BY DEF Info, StreamApi, Named
<1>2. CASE access.restricted
  <2>1. PICK exported \in BOOLEAN :
          r.stream \in observe_scoped(access, r.account, {r.stream}, exported)
    BY DEF Visible
  <2> QED BY <1>1, <1>2, <2>1 DEF observe_scoped, named_streams
<1>3. CASE ~access.restricted
  <2>1. access.publish = [allow |-> {}, deny |-> {}]
    BY <1>3 DEF Access, Login, Discovered
  <2> QED BY <2>1 DEF can, permits
<1> QED BY <1>2, <1>3

\* An action that is offered may make its change: whatever the wildcards of
\* the grants, the one publish that changes something is permitted.  A stream
\* is offered to be created in the login's own account only.
LEMMA ChangePermitted ==
  ASSUME NEW access \in Access, NEW r \in Resource, NEW action \in Actions,
         NEW subject \in Pattern, Captured(r, subject),
         Granted(access, r, OfferedBy[action]),
         action = "create_stream" => r.account = Own
  PROVE  can(access, Change(r, action, subject))
<1> DEFINE rules == access.publish
<1>1. rules \in Rule
  BY DEF Access, Login, Discovered
<1>2. \A need \in needs(r)[OfferedBy[action]] : permits_all(rules, need)
  BY DEF Granted, granted
<1>3. \A need \in Seq(Name) :
        need \in needs(r)[OfferedBy[action]] => permits(rules, need)
  BY <1>1, <1>2, GrantedSubject
<1>4. {"PURGE", "DELETE", "CREATE", "MSG", "PAUSE", "CONSUMER"} \subseteq Name
  BY WordsAreNames DEF ApiWords
<1>5. CASE action \in {"publish", "republish_message"}
  <2>1. PICK p \in r.subjects : matches(p, subject)
    BY DEF Captured
  <2>2. p \in needs(r)[OfferedBy[action]] /\ p \in Pattern
    BY <1>5 DEF needs, OfferedBy, Resource
  <2>3. granted(rules, {p})
    BY <1>2, <2>2 DEF granted
  <2>4. permits(rules, subject)
    BY <1>1, <2>1, <2>2, <2>3, PermitsAllSound DEF GrantedIsPermitted
  <2> QED BY <1>5, <2>4 DEF Change, can
<1>6. CASE action \in {"purge_stream", "delete_message", "delete_stream"}
  <2>1. Change(r, action, subject) \in needs(r)[OfferedBy[action]]
    BY <1>6 DEF Change, needs, OfferedBy
  <2>2. Change(r, action, subject) \in Seq(Name)
    <3>1. /\ <<"PURGE">> \in Seq(Name) /\ <<"DELETE">> \in Seq(Name)
          /\ <<"MSG", "DELETE">> \in Seq(Name)
      BY <1>4
    <3> QED BY <1>6, <3>1, ApiSubjects DEF Change
  <2> QED BY <1>3, <2>1, <2>2 DEF can
<1>7. CASE action \in {"pause_consumer", "delete_consumer"}
  <2>1. Change(r, action, subject) \in needs(r)[OfferedBy[action]]
    BY <1>7 DEF Change, needs, OfferedBy
  <2>2. Change(r, action, subject) \in Seq(Name)
    BY <1>4, <1>7, ApiSubjects DEF Change
  <2> QED BY <1>3, <2>1, <2>2 DEF can
<1>8. CASE action = "create_consumer"
  <2> DEFINE s == account_prefix(r.account)
                      \o <<"CONSUMER", "CREATE", r.stream>>
  <2>1. r.stream \in Name /\ r.consumer \in Name
    BY DEF Resource
  <2>2. s \in Seq(Name)
    <3>1. <<"CONSUMER", "CREATE", r.stream>> \in Seq(Name)
      BY <1>4, <2>1
    <3> QED BY <3>1, ApiSubjects
  <2>3. \A x : ConsumerApi(r, "CREATE", x) = s \o <<x>>
    BY <2>2, ApiSubjects DEF ConsumerApi
  <2>4. permits_all(rules, s \o <<One>>)
    BY <1>2, <1>8, <2>3 DEF needs, OfferedBy
  <2>5. permits(rules, s \o <<r.consumer>>)
    BY <1>1, <2>1, <2>2, <2>4, GrantedLast
  <2> QED BY <1>8, <2>3, <2>5 DEF Change, can
<1>9. CASE action = "create_stream"
  <2> DEFINE s == account_prefix(Own) \o <<"STREAM", "CREATE">>
  <2>1. r.stream \in Name
    BY DEF Resource
  <2>2. s \in Seq(Name)
    <3>1. <<"STREAM", "CREATE">> \in Seq(Name)
      BY WordsAreNames DEF ApiWords
    <3>2. account_prefix(Own) \in Seq(Name)
      BY <1>9, ApiSubjects
    <3> QED BY <3>1, <3>2
  <2>3. /\ StreamApi(Named(Own, One), <<"CREATE">>) = s \o <<One>>
        /\ StreamApi(r, <<"CREATE">>) = s \o <<r.stream>>
    BY <1>9, <2>2 DEF StreamApi, Named
  <2>4. permits_all(rules, s \o <<One>>)
    BY <1>2, <1>9, <2>3 DEF needs, OfferedBy
  <2>5. permits(rules, s \o <<r.stream>>)
    BY <1>1, <2>1, <2>2, <2>4, GrantedLast
  <2> QED BY <1>9, <2>3, <2>5 DEF Change, can
<1> QED BY <1>5, <1>6, <1>7, <1>8, <1>9 DEF Actions, OfferedBy

\* An action whose capability asks for what it reads is never offered as granted
\* and then denied by the grants: every request that its preview and its
\* application send is permitted (operations.rs lookup, preview and apply against
\* access.rs capabilities).
THEOREM OfferedActionsPermitted ==
  Refusable("granted", Access, Resource, Pattern) \subseteq Unread
<1> SUFFICES ASSUME NEW action \in Actions \ Unread, NEW access \in Access,
                    NEW r \in Resource, NEW subject \in Pattern,
                    Captured(r, subject), Offered(access, r, action),
                    allowed(access, r, action) = "granted"
             PROVE  ~Denied(access, r, action, subject)
  BY DEF Refusable
<1>1. /\ action # "create_stream" /\ access.known
      /\ Granted(access, r, OfferedBy[action])
  BY DEF Unread, allowed
<1>2. can(access, Change(r, action, subject))
  BY <1>1, ChangePermitted
<1>3. can(access, Info(r))
  BY <1>1, VisibleInfo DEF Offered
<1>4. CASE action = "republish_message"
  <2>1. Get(r) \in Seq(Name)
    <3>1. <<"MSG", "GET">> \in Seq(Name)
      BY WordsAreNames DEF ApiWords
    <3> QED BY <3>1, ApiSubjects DEF Get
  <2>2. permits_all(access.publish, Get(r)) /\ access.publish \in Rule
    BY <1>1, <1>4 DEF Granted, granted, needs, OfferedBy, Access, Login, Discovered
  <2>3. can(access, Get(r))
    BY <2>1, <2>2, GrantedSubject DEF can
  <2>4. Reads(r, action) \subseteq {Info(r), Get(r)}
    BY <1>4 DEF Reads, OnConsumers
  <2> QED BY <1>2, <1>3, <2>3, <2>4 DEF Denied
<1>5. CASE action \in {"pause_consumer", "delete_consumer"}
  <2> DEFINE info == ConsumerApi(r, "INFO", r.consumer)
  <2>1. info \in Seq(Name)
    BY ApiSubjects, WordsAreNames DEF ApiWords
  <2>2. permits_all(access.publish, info) /\ access.publish \in Rule
    BY <1>1, <1>5 DEF Granted, granted, needs, OfferedBy, Access, Login, Discovered
  <2>3. can(access, info)
    BY <2>1, <2>2, GrantedSubject DEF can
  <2>4. Reads(r, action) \subseteq {info}
    BY <1>5 DEF Reads, OnConsumers, OnRecords
  <2> QED BY <1>2, <2>3, <2>4 DEF Denied
<1>6. CASE action \in {"publish", "purge_stream", "delete_stream"}
  <2>1. Reads(r, action) \subseteq {Info(r)}
    BY <1>6 DEF Reads, OnConsumers, OnRecords
  <2> QED BY <1>2, <1>3, <2>1 DEF Denied
<1> QED BY <1>4, <1>5, <1>6 DEF Actions, OfferedBy, Unread

\* Patterns without the wildcard for the rest.
Plain == Seq(Name \cup {One})

\* Asking for one's own grants is about one subject, and about no other request
\* than the shorter ones.
LEMMA OwnInfoAlone ==
  /\ OwnInfo \in Seq(Name)
  /\ \A sent : Len(sent) # 4 => ~matches(OwnInfo, sent)
<1>1. OwnInfo \in Seq(Name)
  BY WordsAreNames DEF ApiWords, OwnInfo
<1>2. \A k \in 1 .. 4 : OwnInfo[k] # Rest
  BY DEF OwnInfo, Rest
<1>3. Len(OwnInfo) = 4 /\ DOMAIN OwnInfo = 1 .. 4
  BY DEF OwnInfo
<1> QED BY <1>1, <1>2, <1>3 DEF matches, Common

\* A login that is granted what an action's capability asks for, and no more than
\* that, its own grants and the lookup of its stream, is offered the action as
\* granted.  What else the action sends is denied.
LEMMA OfferedAndDenied ==
  ASSUME NEW r \in Resource, NEW action \in Actions, NEW subject,
         NEW need \in Plain, needs(r)[OfferedBy[action]] = {need},
         NEW also \in SUBSET {Info(r)},
         action = "create_stream" \/ also = {Info(r)},
         r.rows = {"streams", "consumers"},
         NEW sent \in Reads(r, action), Len(sent) # 4,
         \A p \in also \cup {need} : ~matches(p, sent)
  PROVE  \E access \in Access :
            /\ allowed(access, r, action) = "granted"
            /\ Offered(access, r, action)
            /\ Denied(access, r, action, subject)
<1> DEFINE rules == [allow |-> also \cup {need, OwnInfo}, deny |-> {}]
           access == [known |-> TRUE, restricted |-> TRUE, publish |-> rules,
                      nodes |-> FALSE, inventories |-> {}]
<1>1. Info(r) \in Seq(Name)
  <2>1. <<"INFO">> \in Seq(Name)
    BY WordsAreNames DEF ApiWords
  <2> QED BY <2>1, ApiSubjects DEF Info
<1>2. access \in Access
  <2>1. need \in Pattern
    BY DEF Plain, Pattern, Token, Name
  <2>2. rules \in Rule
    BY <1>1, <2>1, NamesArePatterns, OwnInfoAlone DEF Rule
  <2>3. access \in Login
    <3> HIDE DEF rules
    <3> QED BY <2>2 DEF Login
  <2>4. can(access, OwnInfo)
    BY OwnInfoAlone, LiteralMatches DEF can, permits
  <2> QED BY <2>3, <2>4 DEF Access, Discovered
<1>3. Granted(access, r, OfferedBy[action])
  <2>1. \A i \in 1 .. Len(need) : need[i] # Rest
    BY DEF Plain, Name, One, Rest
  <2>2. covers(need, need)
    BY <2>1 DEF covers
  <2>3. permits_all(rules, need)
    BY <2>2 DEF permits_all
  <2> QED BY <2>3 DEF Granted, granted
<1>4. ASSUME also = {Info(r)}
      PROVE  Visible(access, r)
  <2>1. Info(Named(r.account, r.stream)) = Info(r)
    BY DEF Info, StreamApi, Named
  <2>2. can(access, Info(r))
    BY <1>1, <1>4, LiteralMatches DEF can, permits
  <2>3. r.stream \in observe_scoped(access, r.account, {r.stream}, FALSE)
    BY <1>4, <2>1, <2>2 DEF observe_scoped, named_streams
  <2> QED BY <2>3 DEF Visible
<1>5. ~can(access, sent)
  BY OwnInfoAlone DEF can, permits
<1>6. allowed(access, r, action) = "granted"
  <2>1. Table(action) \in {"cluster"} \cup r.rows
    BY DEF Table
  <2>2. access.known
    OBVIOUS
  <2> HIDE DEF access
  <2> QED BY <1>3, <2>1, <2>2 DEF allowed
<1>7. Offered(access, r, action)
  BY <1>4, <1>6 DEF Offered
<1>8. Denied(access, r, action, subject)
  BY <1>5 DEF Denied
<1> QED BY <1>2, <1>6, <1>7, <1>8

\* Whatever the stream, there are grants under which deleting a record is offered
\* as granted and its preview is then denied, because the capability does not ask
\* for the record to be read (operations.rs preview reads it, access.rs
\* capabilities asks for the deletion alone).
THEOREM DeletionsAreRefused ==
  ASSUME NEW r \in Resource, NEW subject, r.rows = {"streams", "consumers"}
  PROVE  \E access \in Access :
            /\ allowed(access, r, "delete_message") = "granted"
            /\ Offered(access, r, "delete_message")
            /\ Denied(access, r, "delete_message", subject)
<1> DEFINE s == account_prefix(r.account)
           need == s \o <<"STREAM", "MSG", "DELETE", r.stream>>
           sent == s \o <<"STREAM", "MSG", "GET", r.stream>>
           info == s \o <<"STREAM", "INFO", r.stream>>
<1>1. /\ r.stream \in Name
      /\ {"STREAM", "MSG", "GET", "DELETE", "INFO"} \subseteq Name
  BY WordsAreNames DEF ApiWords, Resource
<1>2. s \in Seq(Name) /\ Len(s) \in Nat /\ Len(s) \in {2, 3}
  <2>1. Len(s) \in {2, 3}
    BY DEF account_prefix
  <2> HIDE DEF s
  <2> QED BY <2>1, ApiSubjects DEF s
<1>3. ASSUME NEW verb \in Name
      PROVE  StreamApi(r, <<"MSG", verb>>)
               = s \o <<"STREAM", "MSG", verb, r.stream>>
  <2> HIDE DEF s
  <2>1. s \o <<"STREAM">> \o <<"MSG", verb>> = s \o <<"STREAM", "MSG", verb>>
    BY <1>1, <1>2, SMTT(30)
  <2>2. (s \o <<"STREAM", "MSG", verb>>) \o <<r.stream>>
          = s \o <<"STREAM", "MSG", verb, r.stream>>
    BY <1>1, <1>2, SMTT(30)
  <2> QED BY <2>1, <2>2 DEF StreamApi, s
<1>4. Info(r) = info
  <2> HIDE DEF s
  <2>1. s \o <<"STREAM">> \o <<"INFO">> = s \o <<"STREAM", "INFO">>
    BY <1>1, <1>2, SMTT(30)
  <2>2. (s \o <<"STREAM", "INFO">>) \o <<r.stream>> = info
    BY <1>1, <1>2, SMTT(30)
  <2> QED BY <2>1, <2>2 DEF Info, StreamApi, s
<1>5. needs(r)[OfferedBy["delete_message"]] = {need} /\ need \in Plain
  <2>1. StreamApi(r, <<"MSG", "DELETE">>) = need
    BY <1>1, <1>3
  <2>2. s \in Plain /\ <<"STREAM", "MSG", "DELETE", r.stream>> \in Plain
    BY <1>1, <1>2 DEF Plain
  <2>3. need \in Plain
    <3> HIDE DEF s
    <3> QED BY <2>2 DEF Plain
  <2> HIDE DEF need
  <2> QED BY <2>1, <2>3 DEF needs, OfferedBy
<1>6. sent = Get(r) /\ sent \in Reads(r, "delete_message")
  <2>1. sent = Get(r)
    BY <1>1, <1>3 DEF Get
  <2> HIDE DEF sent
  <2> QED BY <2>1 DEF Reads, OnRecords
<1> DEFINE k == Len(s) + 3
<1>7. /\ Len(need) = Len(s) + 4 /\ Len(sent) = Len(s) + 4 /\ Len(info) = Len(s) + 3
      /\ need[k] = "DELETE" /\ sent[k] = "GET"
  <2> HIDE DEF s
  <2> QED BY <1>1, <1>2
<1>8. /\ \A i \in 1 .. Len(need) : need[i] # Rest
      /\ \A i \in 1 .. Len(info) : info[i] # Rest
  <2>1. info \in Seq(Name)
    <3>1. <<"INFO">> \in Seq(Name)
      BY <1>1
    <3> QED BY <1>4, <3>1, ApiSubjects DEF Info
  <2> HIDE DEF need, info
  <2> QED BY <1>5, <2>1 DEF Plain, Name, One, Rest
<1> HIDE DEF need, info, sent
<1>9. ~matches(need, sent)
  <2>1. k \in 1 .. Len(need) /\ need[k] \notin {One, sent[k]}
    BY <1>2, <1>7 DEF One
  <2> QED BY <1>2, <1>7, <1>8, <2>1 DEF matches, Common
<1>10. ~matches(info, sent)
  BY <1>2, <1>7, <1>8 DEF matches, Common
<1>11. \A p \in {Info(r)} \cup {need} : ~matches(p, sent)
  BY <1>4, <1>9, <1>10
<1>12. Len(sent) # 4
  <2>1. Len(sent) = Len(s) + 4
    BY <1>7
  <2>2. CASE Len(s) = 2
    BY <2>1, <2>2
  <2>3. CASE Len(s) = 3
    BY <2>1, <2>3
  <2> QED BY <1>2, <2>2, <2>3
<1>13. "delete_message" \in Actions
  BY DEF Actions, OfferedBy
<1> HIDE DEF s
<1> QED BY <1>5, <1>6, <1>11, <1>12, <1>13, OfferedAndDenied

\* A stream may be offered to be created and its preview then be denied: the
\* capability does not ask for the name to be looked up (operations.rs preview).
LEMMA StreamCreationRefused ==
  ASSUME NEW r \in Resource, NEW subject, r.rows = {"streams", "consumers"}
  PROVE  \E access \in Access :
            /\ allowed(access, r, "create_stream") = "granted"
            /\ Offered(access, r, "create_stream")
            /\ Denied(access, r, "create_stream", subject)
<1> DEFINE o == account_prefix(Own)
           s == account_prefix(r.account)
           need == o \o <<"STREAM", "CREATE", One>>
           info == s \o <<"STREAM", "INFO", r.stream>>
<1>1. /\ r.account \in Name /\ r.stream \in Name
      /\ {"$JS", "API", "STREAM", "CREATE", "INFO"} \subseteq Name
  BY WordsAreNames DEF ApiWords, Resource
<1>2. o = <<"$JS", "API">> /\ o \in Seq(Name) /\ Len(o) = 2
  BY <1>1 DEF account_prefix
<1>3. s \in Seq(Name) /\ IF r.account = Own THEN s = o ELSE Len(s) = 3
  BY <1>1, <1>2 DEF account_prefix
<1>4. needs(r)[OfferedBy["create_stream"]] = {need} /\ need \in Plain
  <2>1. StreamApi(Named(Own, One), <<"CREATE">>) = need
    <3> HIDE DEF o
    <3>1. o \o <<"STREAM">> \o <<"CREATE">> = o \o <<"STREAM", "CREATE">>
      BY <1>2, SMTT(30)
    <3>2. (o \o <<"STREAM", "CREATE">>) \o <<One>> = need
      BY <1>2, SMTT(30)
    <3> QED BY <3>1, <3>2 DEF StreamApi, Named, o
  <2>2. o \in Plain /\ <<"STREAM", "CREATE", One>> \in Plain
    BY <1>1, <1>2 DEF Plain
  <2>3. need \in Plain
    BY <2>2 DEF Plain
  <2> HIDE DEF need
  <2> QED BY <2>1, <2>3 DEF needs, OfferedBy
<1>5. Info(r) = info
  BY <1>1, <1>3 DEF Info, StreamApi
<1>6. ~matches(need, info)
  <2>1. \A k \in 1 .. Len(need) : need[k] # Rest
    BY <1>4 DEF Plain, Name, One, Rest
  <2>2. Len(need) = 5 /\ need[4] = "CREATE"
    BY <1>2
  <2>5. Len(info) = Len(s) + 3 /\ info[Len(s) + 2] = "INFO"
    <3>1. s \in Seq(Name) /\ Len(s) \in Nat
      BY ApiSubjects
    <3> HIDE DEF s
    <3> QED BY <1>1, <3>1
  <2>3. CASE r.account = Own
    <3>1. Len(info) = 5 /\ info[4] = "INFO"
      <4>1. Len(s) = 2
        BY <1>2, <1>3, <2>3
      <4> HIDE DEF s, info
      <4> QED BY <2>5, <4>1
    <3>2. need[4] \notin {One, info[4]}
      BY <2>2, <3>1 DEF One
    <3> HIDE DEF need, info
    <3> QED BY <2>1, <2>2, <3>1, <3>2 DEF matches, Common
  <2>4. CASE r.account # Own
    <3>1. Len(info) = 6
      <4>1. Len(s) = 3
        BY <1>3, <2>4
      <4> HIDE DEF s, info
      <4> QED BY <2>5, <4>1
    <3> HIDE DEF need, info
    <3> QED BY <2>1, <2>2, <3>1 DEF matches, Common
  <2> QED BY <2>3, <2>4
<1>7. Info(r) \in Reads(r, "create_stream") /\ "create_stream" \in Actions
  BY DEF Reads, OnConsumers, Actions, OfferedBy
<1>8. \A p \in {} \cup {need} : ~matches(p, Info(r))
  BY <1>5, <1>6
<1>9. Len(Info(r)) # 4
  <2>1. Len(info) = Len(s) + 3 /\ Len(s) \in Nat
    <3> HIDE DEF s
    <3> QED BY <1>1, <1>3
  <2>2. Len(s) = 2 \/ Len(s) = 3
    BY <1>2, <1>3
  <2> HIDE DEF s, info, o, need
  <2>3. Len(info) # 4
    BY <2>1, <2>2, SMTT(30)
  <2> QED BY <1>5, <2>3
<1> HIDE DEF need, info
<1> QED BY <1>4, <1>7, <1>8, <1>9, OfferedAndDenied

\* A consumer may be offered to be created and its preview then be denied: the
\* capability does not ask for the name to be looked up (operations.rs preview).
LEMMA ConsumerCreationRefused ==
  ASSUME NEW r \in Resource, NEW subject, r.rows = {"streams", "consumers"}
  PROVE  \E access \in Access :
            /\ allowed(access, r, "create_consumer") = "granted"
            /\ Offered(access, r, "create_consumer")
            /\ Denied(access, r, "create_consumer", subject)
<1> DEFINE s == account_prefix(r.account)
           need == s \o <<"CONSUMER", "CREATE", r.stream, One>>
           sent == s \o <<"CONSUMER", "INFO", r.stream, r.consumer>>
           info == s \o <<"STREAM", "INFO", r.stream>>
<1>1. /\ r.stream \in Name /\ r.consumer \in Name
      /\ {"CONSUMER", "STREAM", "CREATE", "INFO"} \subseteq Name
  BY WordsAreNames DEF ApiWords, Resource
<1>2. s \in Seq(Name) /\ Len(s) \in Nat /\ Len(s) \in {2, 3}
  <2>1. Len(s) \in {2, 3}
    BY DEF account_prefix
  <2> HIDE DEF s
  <2> QED BY <2>1, ApiSubjects DEF s
<1>3. needs(r)[OfferedBy["create_consumer"]] = {need} /\ need \in Plain
  <2>1. ConsumerApi(r, "CREATE", One) = need
    BY DEF ConsumerApi
  <2>2. s \in Plain /\ <<"CONSUMER", "CREATE", r.stream, One>> \in Plain
    BY <1>1, <1>2 DEF Plain
  <2>3. need \in Plain
    <3> HIDE DEF s
    <3> QED BY <2>2 DEF Plain
  <2> HIDE DEF need
  <2> QED BY <2>1, <2>3 DEF needs, OfferedBy
<1>4. Info(r) = info
  <2>1. s \o <<"STREAM">> \o <<"INFO">> = s \o <<"STREAM", "INFO">>
    BY <1>2, SMTT(30)
  <2>2. (s \o <<"STREAM", "INFO">>) \o <<r.stream>> = info
    BY <1>2, SMTT(30)
  <2> QED BY <2>1, <2>2 DEF Info, StreamApi
<1>5. /\ sent = ConsumerApi(r, "INFO", r.consumer)
      /\ sent \in Reads(r, "create_consumer")
  BY DEF Reads, OnConsumers, ConsumerApi
<1> DEFINE k == Len(s) + 2
<1>6. /\ Len(need) = Len(s) + 4 /\ Len(sent) = Len(s) + 4 /\ Len(info) = Len(s) + 3
      /\ need[k] = "CREATE" /\ sent[k] = "INFO"
  BY <1>1, <1>2
<1>7. /\ \A i \in 1 .. Len(need) : need[i] # Rest
      /\ \A i \in 1 .. Len(info) : info[i] # Rest
  <2>1. info \in Seq(Name)
    <3>1. <<"INFO">> \in Seq(Name)
      BY <1>1
    <3> QED BY <1>4, <3>1, ApiSubjects DEF Info
  <2> HIDE DEF need, info
  <2> QED BY <1>3, <2>1 DEF Plain, Name, One, Rest
<1> HIDE DEF need, info, sent
<1>8. ~matches(need, sent)
  <2>1. k \in 1 .. Len(need) /\ need[k] \notin {One, sent[k]}
    BY <1>2, <1>6 DEF One
  <2> QED BY <1>2, <1>6, <1>7, <2>1 DEF matches, Common
<1>9. ~matches(info, sent)
  BY <1>2, <1>6, <1>7 DEF matches, Common
<1>10. "create_consumer" \in Actions
  BY DEF Actions, OfferedBy
<1>11. \A p \in {Info(r)} \cup {need} : ~matches(p, sent)
  BY <1>4, <1>8, <1>9
<1>12. Len(sent) # 4
  <2>1. Len(sent) = Len(s) + 4
    BY <1>6
  <2>2. CASE Len(s) = 2
    BY <2>1, <2>2
  <2>3. CASE Len(s) = 3
    BY <2>1, <2>3
  <2> QED BY <1>2, <2>2, <2>3
<1> QED BY <1>3, <1>5, <1>10, <1>11, <1>12, OfferedAndDenied

\* Where the last token but one of a subject stands.
LEMMA LastButOne ==
  ASSUME NEW t \in Seq(Name), NEW x \in Name, NEW y \in Name
  PROVE  /\ Len((t \o <<x>>) \o <<y>>) = Len(t) + 2
         /\ ((t \o <<x>>) \o <<y>>)[Len(t) + 1] = x
<1>1. t \o <<x>> \in Seq(Name) /\ Len(t \o <<x>>) = Len(t) + 1
  OBVIOUS
<1>2. (t \o <<x>>)[Len(t) + 1] = x
  OBVIOUS
<1> QED BY <1>1, <1>2

\* The change of an action is another request than the lookup of its stream and
\* the login asking for its grants (operations.rs apply).
LEMMA ChangeIsAnother ==
  ASSUME NEW r \in Resource, NEW action \in Actions, NEW subject, Len(subject) = 1
  PROVE  /\ Len(Change(r, action, subject)) # 4
         /\ ~matches(Info(r), Change(r, action, subject))
<1> DEFINE s == account_prefix(r.account)
           change == Change(r, action, subject)
           n == Len(s)
<1>1. /\ r.stream \in Name /\ r.consumer \in Name
      /\ ApiWords \subseteq Name
  BY WordsAreNames DEF Resource
<1>2. s \in Seq(Name) /\ n \in {2, 3}
  <2>1. Len(s) \in {2, 3}
    BY DEF account_prefix
  <2> HIDE DEF s
  <2> QED BY <2>1, ApiSubjects DEF s
<1>3. ASSUME NEW verb \in Name
      PROVE  /\ Len(StreamApi(r, <<verb>>)) = n + 3
             /\ StreamApi(r, <<verb>>)[n + 2] = verb
  <2>1. StreamApi(r, <<verb>>) = (s \o <<"STREAM">> \o <<verb>>) \o <<r.stream>>
    BY DEF StreamApi
  <2> HIDE DEF s
  <2>2. "STREAM" \in Name
    BY <1>1 DEF ApiWords
  <2> DEFINE t == s \o <<"STREAM">>
  <2>3. t \in Seq(Name) /\ Len(t) = n + 1
    BY <1>2, <2>2
  <2>4. StreamApi(r, <<verb>>) = (t \o <<verb>>) \o <<r.stream>>
    BY <2>1
  <2> HIDE DEF t, n
  <2>5. r.stream \in Name
    BY <1>1
  <2>6. /\ Len((t \o <<verb>>) \o <<r.stream>>) = Len(t) + 2
        /\ ((t \o <<verb>>) \o <<r.stream>>)[Len(t) + 1] = verb
    BY <2>3, <2>5, LastButOne
  <2>7. n + 1 + 2 = n + 3 /\ n + 1 + 1 = n + 2
    BY <1>2
  <2> QED BY <2>3, <2>4, <2>6, <2>7
<1>4. Len(StreamApi(r, <<"MSG", "DELETE">>)) = n + 4
  <2>1. StreamApi(r, <<"MSG", "DELETE">>)
          = (s \o <<"STREAM">> \o <<"MSG", "DELETE">>) \o <<r.stream>>
    BY DEF StreamApi
  <2> HIDE DEF s
  <2> QED BY <1>1, <1>2, <2>1, SMTT(30)
<1>5. ASSUME NEW verb \in Name
      PROVE  Len(ConsumerApi(r, verb, r.consumer)) = n + 4
  <2>1. ConsumerApi(r, verb, r.consumer)
          = s \o <<"CONSUMER", verb, r.stream, r.consumer>>
    BY DEF ConsumerApi
  <2> HIDE DEF s
  <2> QED BY <1>1, <1>2, <2>1
<1>6. {"INFO", "PURGE", "DELETE", "CREATE", "PAUSE"} \subseteq Name
  BY <1>1 DEF ApiWords
<1>7. /\ Len(Info(r)) = n + 3 /\ Info(r)[n + 2] = "INFO"
      /\ \A i \in 1 .. Len(Info(r)) : Info(r)[i] # Rest
  <2>1. Len(Info(r)) = n + 3 /\ Info(r)[n + 2] = "INFO"
    BY <1>3, <1>6 DEF Info
  <2>2. Info(r) \in Seq(Name)
    <3>1. <<"INFO">> \in Seq(Name)
      BY <1>6
    <3> QED BY <3>1, ApiSubjects DEF Info
  <2> QED BY <2>1, <2>2 DEF Name
<1> HIDE DEF s, n, change
<1>8. /\ Len(change) \in {1, n + 3, n + 4}
      /\ Len(change) = n + 3 => change[n + 2] # "INFO"
  <2>1. CASE action \in {"publish", "republish_message"}
    <3>1. Len(change) = 1
      BY <2>1 DEF Change, change
    <3> QED BY <1>2, <3>1
  <2>2. CASE action \in {"purge_stream", "delete_stream", "create_stream"}
    <3>1. PICK verb \in {"PURGE", "DELETE", "CREATE"} :
                change = StreamApi(r, <<verb>>)
      BY <2>2 DEF Change, change
    <3> QED BY <1>3, <1>6, <3>1
  <2>3. CASE action = "delete_message"
    <3>1. Len(change) = n + 4
      BY <1>4, <2>3 DEF Change, change
    <3> QED BY <1>2, <3>1
  <2>4. CASE action \in {"create_consumer", "pause_consumer", "delete_consumer"}
    <3>1. PICK verb \in {"PAUSE", "DELETE", "CREATE"} :
                change = ConsumerApi(r, verb, r.consumer)
      BY <2>4 DEF Change, change
    <3>2. Len(change) = n + 4
      BY <1>5, <1>6, <3>1
    <3> QED BY <1>2, <3>2
  <2> QED BY <2>1, <2>2, <2>3, <2>4 DEF Actions, OfferedBy
<1>9. Len(change) # 4
  <2>1. CASE n = 2
    <3>1. Len(change) \in {1, 5, 6}
      BY <1>8, <2>1
    <3> QED BY <3>1
  <2>2. CASE n = 3
    <3>1. Len(change) \in {1, 6, 7}
      BY <1>8, <2>2
    <3> QED BY <3>1
  <2> QED BY <1>2, <2>1, <2>2
<1>10. ~matches(Info(r), change)
  <2>1. CASE Len(change) = n + 3
    <3>1. change[n + 2] # Info(r)[n + 2] /\ Info(r)[n + 2] # One
      BY <1>7, <1>8, <2>1 DEF One
    <3>2. n + 2 \in 1 .. Len(Info(r))
      BY <1>2, <1>7
    <3> QED BY <1>7, <3>1, <3>2 DEF matches, Common
  <2>2. CASE Len(change) # n + 3
    BY <1>7, <2>2 DEF matches, Common
  <2> QED BY <2>1, <2>2
<1> QED BY <1>9, <1>10 DEF change

\* An action whose capability has no row, or is one of a login whose grants are
\* not known, is offered although the grants deny it (capabilities.js allowed).
LEMMA UnknownRefused ==
  ASSUME NEW r \in Resource, r.rows = {}, NEW action \in Actions,
         NEW subject, Len(subject) = 1
  PROVE  \E access \in Access :
            /\ access.known <=> action # "create_stream"
            /\ allowed(access, r, action) = "unknown"
            /\ Offered(access, r, action)
            /\ Denied(access, r, action, subject)
<1> DEFINE rules == [allow |-> {OwnInfo, Info(r)}, deny |-> {}]
           access == [known |-> action # "create_stream", restricted |-> TRUE,
                      publish |-> rules, nodes |-> FALSE, inventories |-> {}]
<1>1. Info(r) \in Seq(Name)
  <2>1. <<"INFO">> \in Seq(Name)
    BY WordsAreNames DEF ApiWords
  <2> QED BY <2>1, ApiSubjects DEF Info
<1>2. access \in Access
  <2>1. rules \in Rule
    BY <1>1, OwnInfoAlone, NamesArePatterns DEF Rule
  <2>2. access \in Login
    <3> HIDE DEF rules
    <3> QED BY <2>1 DEF Login
  <2>3. can(access, OwnInfo)
    BY OwnInfoAlone, LiteralMatches DEF can, permits
  <2> QED BY <2>2, <2>3 DEF Access, Discovered
<1>3. allowed(access, r, action) = "unknown"
  <2>1. CASE action = "create_stream"
    BY <2>1 DEF allowed
  <2>2. CASE action # "create_stream"
    <3>1. Table(action) \notin {"cluster"} \cup r.rows
      BY <2>2 DEF Table
    <3> QED BY <3>1 DEF allowed
  <2> QED BY <2>1, <2>2
<1>4. ASSUME action # "create_stream"
      PROVE  Visible(access, r)
  <2>1. Info(Named(r.account, r.stream)) = Info(r)
    BY DEF Info, StreamApi, Named
  <2>2. can(access, Info(r))
    BY <1>1, LiteralMatches DEF can, permits
  <2>3. r.stream \in observe_scoped(access, r.account, {r.stream}, FALSE)
    BY <1>4, <2>1, <2>2 DEF observe_scoped, named_streams
  <2> QED BY <2>3 DEF Visible
<1>5. Offered(access, r, action)
  <2> HIDE DEF access
  <2> QED BY <1>3, <1>4 DEF Offered
<1>6. ~can(access, Change(r, action, subject))
  BY ChangeIsAnother, OwnInfoAlone DEF can, permits
<1>7. Denied(access, r, action, subject)
  BY <1>6 DEF Denied
<1>8. access.known <=> action # "create_stream"
  OBVIOUS
<1> HIDE DEF access
<1> QED BY <1>2, <1>3, <1>5, <1>7, <1>8

\* There are subjects of one token, and streams that capture them, with rows or
\* without.
LEMMA SomeResource ==
  ASSUME NEW rows \in SUBSET {"streams", "consumers"}
  PROVE  \E r \in Resource, subject \in Pattern :
            r.rows = rows /\ Len(subject) = 1 /\ Captured(r, subject)
<1> DEFINE subject == <<"API">>
           r == [account |-> "API", stream |-> "API", consumer |-> "API",
                 subjects |-> {subject}, rows |-> rows]
<1>1. "API" \in Name
  BY WordsAreNames DEF ApiWords
<1>2. subject \in Seq(Name) /\ Len(subject) = 1
  BY <1>1
<1>3. subject \in Pattern
  BY <1>2, NamesArePatterns
<1>4. r \in Resource /\ r.rows = rows
  BY <1>1, <1>3 DEF Resource
<1>5. Captured(r, subject)
  BY <1>2, LiteralMatches DEF Captured
<1> HIDE DEF r, subject
<1> QED BY <1>2, <1>3, <1>4, <1>5

\* What may be offered to a login and then be refused by its own grants, whatever
\* the grants, streams, consumers and subjects.  As granted, those three actions
\* and no other; with an unknown capability, any action: of a login whose grants
\* are known, any but the creation of a stream, which has no row to be cut
\* (access.rs capabilities, capabilities.js allowed, operations.rs preview and
\* apply).
THEOREM ThreeActionsAreRefusable ==
  /\ Refusable("granted", Access, Resource, Pattern) = Unread
  /\ Refusable("unknown", {a \in Access : a.known}, Resource, Pattern)
       = Actions \ {"create_stream"}
  /\ Refusable("unknown", Access, Resource, Pattern) = Actions
<1>1. ASSUME NEW action \in Unread
      PROVE  action \in Refusable("granted", Access, Resource, Pattern)
  <2>1. PICK r \in Resource, subject \in Pattern :
              r.rows = {"streams", "consumers"} /\ Captured(r, subject)
    BY SomeResource
  <2>2. \E access \in Access : /\ allowed(access, r, action) = "granted"
                               /\ Offered(access, r, action)
                               /\ Denied(access, r, action, subject)
    BY <2>1, StreamCreationRefused, ConsumerCreationRefused,
       DeletionsAreRefused DEF Unread
  <2>3. action \in Actions
    BY DEF Unread, Actions, OfferedBy
  <2> QED BY <2>1, <2>2, <2>3 DEF Refusable
<1>2. ASSUME NEW action \in Actions
      PROVE  /\ action \in Refusable("unknown", Access, Resource, Pattern)
             /\ action # "create_stream" =>
                  action \in Refusable("unknown", {a \in Access : a.known},
                                       Resource, Pattern)
  <2>1. PICK r \in Resource, subject \in Pattern :
              r.rows = {} /\ Len(subject) = 1 /\ Captured(r, subject)
    BY SomeResource
  <2>2. PICK access \in Access : /\ access.known <=> action # "create_stream"
                                 /\ allowed(access, r, action) = "unknown"
                                 /\ Offered(access, r, action)
                                 /\ Denied(access, r, action, subject)
    BY <2>1, UnknownRefused
  <2> QED BY <2>1, <2>2 DEF Refusable
<1>3. "create_stream" \notin Refusable("unknown", {a \in Access : a.known},
                                       Resource, Pattern)
  <2>1. SUFFICES ASSUME NEW access \in Access, access.known, NEW r \in Resource
                 PROVE  allowed(access, r, "create_stream") # "unknown"
    BY DEF Refusable
  <2>2. Table("create_stream") = "cluster"
    BY DEF Table
  <2> QED BY <2>1, <2>2 DEF allowed
<1>4. \A state, Logins_ :
        Refusable(state, Logins_, Resource, Pattern) \subseteq Actions
  BY DEF Refusable
<1> QED BY <1>1, <1>2, <1>3, <1>4, OfferedActionsPermitted

-----------------------------------------------------------------------------
(* The inventory and the capabilities.                                     *)

\* For one subject, what is permitted is granted (access.rs permits_all).
LEMMA LiteralGranted ==
  ASSUME NEW rules \in Rule, NEW need \in Seq(Name), permits(rules, need)
  PROVE  permits_all(rules, need)
<1>1. \A i \in 1 .. Len(need) : need[i] \notin {One, Rest}
  BY DEF Name
<1>2. ASSUME NEW p \in Pattern, matches(p, need)
      PROVE  covers(p, need)
  <2>1. CASE /\ Len(p) = Len(need)
             /\ \A i \in 1 .. Len(p) : p[i] # Rest /\ p[i] \in {One, need[i]}
    BY <1>1, <2>1 DEF covers
  <2>2. CASE \E k \in Common(p, need) :
                /\ p[k] = Rest
                /\ \A i \in 1 .. k - 1 : p[i] # Rest /\ p[i] \in {One, need[i]}
    <3>1. PICK k \in Common(p, need) :
                /\ p[k] = Rest
                /\ \A i \in 1 .. k - 1 : p[i] # Rest /\ p[i] \in {One, need[i]}
      BY <2>2
    <3>2. k \in 1 .. Len(need)
      BY <3>1 DEF Common
    <3>3. \A i \in 1 .. k - 1 : i \in 1 .. Len(need)
      BY <3>2
    <3>4. \A i \in 1 .. k - 1 : /\ Rest \notin {p[i], need[i]}
                                /\ p[i] = One \/ (p[i] = need[i] /\ need[i] # One)
      BY <1>1, <3>1, <3>3
    <3> QED BY <3>1, <3>4 DEF covers
  <2> QED BY <1>2, <2>1, <2>2 DEF matches
<1>3. ASSUME NEW p \in Pattern, overlaps(p, need)
      PROVE  matches(p, need)
  BY <1>1, <1>3 DEF matches, overlaps, Common, Pattern
<1> QED BY <1>2, <1>3 DEF permits, permits_all, Rule

\* The summary of a stream and the monitored endpoints agree with the
\* capabilities of the login, whatever its grants (access.rs summary, monitors,
\* capabilities).
THEOREM SummaryAlwaysAgrees == SummaryAgrees(Access, Resource)
<1> SUFFICES ASSUME NEW access \in Access, NEW r \in Resource
             PROVE  /\ Granted(access, r, "consumer_inventory")
                          => ListsConsumers(access, r)
                    /\ Granted(access, r, "read_messages")
                          => ReadsMessages(access, r)
                    /\ monitors(access, "SUBSZ")
                          => Granted(access, r, "subscriptions")
                    /\ monitors(access, "ROUTEZ") => Granted(access, r, "routes")
  BY DEF SummaryAgrees
<1>1. /\ access.publish \in Rule /\ r.stream \in Name
      /\ ApiWords \subseteq Name
  BY WordsAreNames DEF Access, Login, Discovered, Resource
<1>2. ASSUME Granted(access, r, "consumer_inventory")
      PROVE  ListsConsumers(access, r)
  <2> DEFINE list == account_prefix(r.account) \o <<"CONSUMER", "LIST", r.stream>>
  <2>1. permits_all(access.publish, list)
    BY <1>2 DEF Granted, granted, needs
  <2>2. list \in Seq(Name)
    <3>1. <<"CONSUMER", "LIST", r.stream>> \in Seq(Name)
      BY <1>1 DEF ApiWords
    <3> QED BY <3>1, ApiSubjects
  <2> HIDE DEF list
  <2>3. permits(access.publish, list)
    BY <1>1, <2>1, <2>2, GrantedSubject
  <2> QED BY <2>3 DEF ListsConsumers, can, list
<1>3. ASSUME Granted(access, r, "read_messages")
      PROVE  ReadsMessages(access, r)
  <2>1. permits_all(access.publish, Get(r))
    BY <1>3 DEF Granted, granted, needs
  <2>2. Get(r) \in Seq(Name)
    <3>1. <<"MSG", "GET">> \in Seq(Name)
      BY <1>1 DEF ApiWords
    <3> QED BY <3>1, ApiSubjects DEF Get
  <2> QED BY <1>1, <2>1, <2>2, GrantedSubject DEF ReadsMessages, can
<1>4. ASSUME NEW endpoint \in {"SUBSZ", "ROUTEZ"}, monitors(access, endpoint)
      PROVE  permits_all(access.publish, Ping(endpoint))
  <2>1. Ping(endpoint) \in Seq(Name)
    BY <1>1 DEF ApiWords, Ping
  <2> QED BY <1>1, <1>4, <2>1, LiteralGranted DEF monitors, can
<1>5. monitors(access, "SUBSZ") => Granted(access, r, "subscriptions")
  BY <1>4 DEF Granted, granted, needs
<1>6. monitors(access, "ROUTEZ") => Granted(access, r, "routes")
  BY <1>4 DEF Granted, granted, needs
<1> QED BY <1>2, <1>3, <1>5, <1>6

-----------------------------------------------------------------------------

\* Whatever the catalogue of grants, patterns, logins and resources: what a login
\* is shown as granted it is permitted, no action but those three is offered as
\* granted and then refused, and the summary agrees with the capabilities
\* (access.rs, capabilities.js, telemetry.rs observe_scoped, operations.rs).
THEOREM LoginGrantsHold == Spec => []LoginGrants
<1>1. Logins \subseteq Access
  BY LoginAccessAssumption DEF Access
<1>2. GrantedIsPermitted(Rules, Patterns, Subjects_)
  BY LoginAccessAssumption, PermitsAllSound DEF GrantedIsPermitted
<1>3. Refusable("granted", Logins, Resources, Published) \subseteq Unread
  <2>1. Refusable("granted", Logins, Resources, Published)
            \subseteq Refusable("granted", Access, Resource, Pattern)
    BY <1>1, LoginAccessAssumption DEF Refusable
  <2> QED BY <2>1, OfferedActionsPermitted
<1>4. SummaryAgrees(Logins, Resources)
  BY <1>1, LoginAccessAssumption, SummaryAlwaysAgrees DEF SummaryAgrees
<1>5. LoginGrants
  BY <1>2, <1>3, <1>4 DEF LoginGrants
<1> QED BY <1>5, PTL
=============================================================================
