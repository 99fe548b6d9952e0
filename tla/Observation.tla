---------------------------- MODULE Observation ----------------------------
(***************************************************************************)
(* Observation of one NATS account by one dashboard process: the collector *)
(* of src/src/main.rs with the paged inventory of src/src/telemetry.rs,    *)
(* the comparison of observations and the advisory listener of             *)
(* src/src/incidents.rs, the node monitor of src/src/monitoring.rs, and    *)
(* the settings cache that the collector shares with the handlers of       *)
(* /api/snapshot and /api/settings.                                        *)
(*                                                                         *)
(* Each step runs from one await to the next.  What the store does with a  *)
(* sample or an incident is in module History.                             *)
(***************************************************************************)
EXTENDS Integers, Sequences, FiniteSets, SequencesExt

CONSTANTS
    None,
    Order,        \* names of streams, in the order the broker lists them
    Present,      \* the streams at first
    PageSize,     \* what the broker puts in one page
    Cap,          \* 300 streams
    AdvisoryCap,  \* 120 advisories in a minute
    Settings,     \* the settings an operator may save
    Initial,      \* the default settings
    Tabs,         \* requests of browsers that are served together
    MaxEvents     \* bound on disturbances: operators, faults, the cluster
                  \* (not in the code)

ASSUME ObservationAssumption ==
    /\ Order \in Seq(ToSet(Order)) /\ IsInjective(Order)
    /\ Present \subseteq ToSet(Order)
    /\ {PageSize, Cap, AdvisoryCap} \subseteq Nat \ {0}
    /\ Initial \in Settings /\ None \notin Settings
    /\ None \notin [created : Nat, form : Nat]
    /\ MaxEvents \in Nat

Resources == ToSet(Order)

VARIABLES
    \* the cluster
    inventory,    \* [Resources -> [created, form], or None]
    reachable,    \* the broker answers
    node,         \* the server behind the monitoring endpoint
    \* the store
    stored,       \* the settings row
    log,          \* the incidents table
    lost,         \* incidents whose write failed
    \* the process
    client,       \* connected once; the client reconnects by itself
    phase,        \* of the collector
    items,        \* resources listed so far
    snap,         \* the new observation
    read,         \* settings read from the store, or None
    monitoring,   \* the monitor's answer for this observation
    previous_nodes,
    current,      \* the published observation
    cache,        \* settings_cache
    handlers,     \* [Tabs -> settings about to be cached, or None]
    monitor,      \* Monitor::current
    listener,     \* the advisory listener, or None
    \* bound and history
    events,
    first,        \* first startup identity the collector met, or None
    absent,       \* streams absent at some time since the listing began
    changed,      \* streams deleted, created or altered since it began
    missed, noted \* an advisory of this minute was left out; a gap was noted

cluster == <<inventory, reachable, node>>
store == <<stored, log, lost>>
collector == <<client, phase, items, snap, read, monitoring, previous_nodes,
               current>>
advisories == <<listener, missed, noted>>
history == <<absent, changed>>
vars == <<cluster, store, collector, cache, handlers, monitor, advisories,
          events, first, history>>

Disturb == events < MaxEvents /\ events' = events + 1

\* A storage operation may fail.
Fault == Disturb

-----------------------------------------------------------------------------
(* The cluster *)

Alive(r) == inventory[r] # None

Create(r) ==
    /\ ~Alive(r) /\ Disturb
    /\ inventory' = [inventory EXCEPT ![r] = [created |-> events',
                                              form |-> events']]
    /\ changed' = IF phase = "list" THEN changed \cup {r} ELSE changed
    /\ UNCHANGED <<reachable, node, store, collector, cache, handlers, monitor,
                   advisories, first, absent>>

Delete(r) ==
    /\ Alive(r) /\ Disturb
    /\ inventory' = [inventory EXCEPT ![r] = None]
    /\ changed' = IF phase = "list" THEN changed \cup {r} ELSE changed
    /\ absent' = IF phase = "list" THEN absent \cup {r} ELSE absent
    /\ UNCHANGED <<reachable, node, store, collector, cache, handlers, monitor,
                   advisories, first>>

\* The form of a resource stands for its settings and for the side it is on of
\* the backlog threshold and of the limit on unacknowledged messages.
Alter(r) ==
    /\ Alive(r) /\ Disturb
    /\ inventory' = [inventory EXCEPT ![r].form = events']
    /\ changed' = IF phase = "list" THEN changed \cup {r} ELSE changed
    /\ UNCHANGED <<reachable, node, store, collector, cache, handlers, monitor,
                   advisories, first, absent>>

Outage ==
    /\ reachable /\ Disturb /\ reachable' = FALSE
    /\ UNCHANGED <<inventory, node, store, collector, cache, handlers, monitor,
                   advisories, first, history>>

Recovery ==
    /\ ~reachable /\ reachable' = TRUE
    /\ UNCHANGED <<inventory, node, store, collector, cache, handlers, monitor,
                   advisories, events, first, history>>

\* The monitoring endpoint stops answering, answers again, or belongs to a
\* server that was started again or has loaded its configuration again.
Node ==
    /\ Disturb
    /\ \/ node.up /\ node' = [node EXCEPT !.up = FALSE]
       \/ node' = [up |-> TRUE, start |-> events', load |-> events']
       \/ node.up /\ node' = [node EXCEPT !.load = events']
    /\ UNCHANGED <<inventory, reachable, store, collector, cache, handlers,
                   monitor, advisories, first, history>>

NodeBack ==
    /\ ~node.up /\ node' = [node EXCEPT !.up = TRUE]
    /\ UNCHANGED <<inventory, reachable, store, collector, cache, handlers,
                   monitor, advisories, events, first, history>>

-----------------------------------------------------------------------------
(* telemetry::list: pages until the reported total, the cap or an empty    *)
(* page                                                                    *)

Positions == {j \in DOMAIN Order : Alive(Order[j])}

Total == Cardinality(Positions)

\* The k-th of the streams that exist is the one that k of them end with.
Listed(k) ==
    LET P == Positions
    IN  Order[CHOOSE j \in P : Cardinality({i \in P : i <= j}) = k]

Row(r) ==
    [name |-> r, created |-> inventory[r].created, form |-> inventory[r].form]

Page(offset) ==
    LET rest == Total - offset
        size == IF rest < PageSize THEN rest ELSE PageSize
    IN  [k \in 1 .. size |-> Row(Listed(offset + k))]

Capped(list) == SubSeq(list, 1, IF Len(list) < Cap THEN Len(list) ELSE Cap)

Unavailable == [status |-> "unavailable", seen |-> <<>>]

Observed(status, seen) ==
    /\ snap' = [status |-> status, seen |-> seen]
    /\ items' = <<>>
    /\ phase' = "observed"

\* Fault: what the cap cuts off is not reported.
ListPage_silent_cap ==
    LET page  == Page(Len(items))
        list  == Capped(items \o page)
    IN  /\ phase = "list" /\ reachable
        /\ CASE page = <<>> -> Observed("complete", items)
             [] page # <<>> /\ (Len(list) >= Total \/ Len(list) >= Cap) ->
                    Observed("complete", list)
             [] OTHER -> items' = list /\ UNCHANGED <<phase, snap>>
        /\ UNCHANGED <<cluster, store, client, read, monitoring,
                       previous_nodes, current, cache, handlers, monitor,
                       advisories, events, first, history>>

ListPage ==
    LET page   == Page(Len(items))
        list   == Capped(items \o page)
        Status(truncated) == IF truncated THEN "partial" ELSE "complete"
    IN  /\ phase = "list" /\ reachable
        /\ UNCHANGED <<cluster, store, client, read, monitoring,
                       previous_nodes, current, cache, handlers, monitor,
                       advisories, events, first, history>>
        /\ CASE page = <<>> -> Observed(Status(Len(items) < Total), items)
             [] page # <<>> /\ (Len(list) >= Total \/ Len(list) >= Cap) ->
                    Observed(Status(Len(list) < Total), list)
             [] OTHER -> items' = list /\ UNCHANGED <<phase, snap>>

\* A request without an answer, or the budget of 20 seconds is used up.
ListFails ==
    /\ phase = "list"
    /\ IF reachable THEN Disturb ELSE UNCHANGED events
    /\ Observed("unavailable", <<>>)
    /\ UNCHANGED <<cluster, store, client, read, monitoring, previous_nodes,
                   current, cache, handlers, monitor, advisories, first,
                   history>>

\* Streams are listed and the consumers of one are not.
ConsumersFail ==
    /\ phase = "observed" /\ snap.status = "complete" /\ Disturb
    /\ snap' = [snap EXCEPT !.status = "partial"]
    /\ UNCHANGED <<cluster, store, client, phase, items, read, monitoring,
                   previous_nodes, current, cache, handlers, monitor,
                   advisories, first, history>>

-----------------------------------------------------------------------------
(* incidents::changes *)

Incident(kind, about) == [kind |-> kind, about |-> about]

\* The entry of a name, as find() returns it: the first of that name.
Entry(list, name) ==
    list[CHOOSE k \in DOMAIN list :
            /\ list[k].name = name
            /\ \A j \in 1 .. k - 1 : list[j].name # name]

Names(list) == {list[k].name : k \in DOMAIN list}

\* History: a stream that is not observed was absent at some time of the
\* listing, or one listed before it came or went between two pages.
Cause(r) ==
    \/ r \in absent
    \/ \E i, j \in DOMAIN Order : i < j /\ Order[i] \in changed /\ Order[j] = r

Differences(before, after) ==
    {Incident("discovered", e.name) :
        e \in {e \in ToSet(after) : e.name \notin Names(before)}}
    \cup {Incident("recreated", e.name) :
        e \in {e \in ToSet(after) : /\ e.name \in Names(before)
                                    /\ Entry(before, e.name).created
                                          # e.created}}
    \cup {Incident("altered", e.name) :
        e \in {e \in ToSet(after) : /\ e.name \in Names(before)
                                    /\ Entry(before, e.name).created = e.created
                                    /\ Entry(before, e.name).form # e.form}}
    \cup {Incident("not-observed", <<name, Cause(name)>>) :
        name \in Names(before) \ Names(after)}

\* Fault: incomplete observations are compared as well.
ResourceChanges_always(old, new) == Differences(old.seen, new.seen)

ResourceChanges(old, new) ==
    IF old.status = "complete" /\ new.status = "complete"
    THEN Differences(old.seen, new.seen)
    ELSE {}

NodeChanges(old, new) ==
    IF old = None \/ new = None THEN {}
    ELSE IF new.status # "complete" THEN {}
    ELSE IF old.start # None /\ old.start # new.start
         THEN {Incident("restart-or-replacement", new.start)}
    ELSE IF old.load # None /\ old.load # new.load
         THEN {Incident("configuration-reload", new.load)}
    ELSE {}

changes ==
    ResourceChanges(current, snap) \cup NodeChanges(previous_nodes, monitoring)

-----------------------------------------------------------------------------
(* The collector *)

Connect ==
    /\ phase = "sleep"
    /\ IF client \/ reachable
       THEN /\ client' = TRUE /\ phase' = "list"
            /\ changed' = {} /\ absent' = {r \in Resources : ~Alive(r)}
            /\ UNCHANGED <<snap, items>>
       ELSE Observed("unavailable", <<>>) /\ UNCHANGED <<client, history>>
    /\ UNCHANGED <<cluster, store, read, monitoring, previous_nodes, current,
                   cache, handlers, monitor, advisories, events, first>>

ReadSettings ==
    /\ phase = "observed"
    /\ monitoring' = monitor
    /\ \/ read' = stored /\ UNCHANGED events
       \/ read' = None /\ Fault
    /\ phase' = "read"
    /\ UNCHANGED <<cluster, store, client, items, snap, previous_nodes, current,
                   cache, handlers, monitor, advisories, first, history>>

\* Fault: the collector uses its settings and leaves the cache alone.
Compare_uncached ==
    /\ phase = "read"
    /\ \/ log' = log \cup changes /\ UNCHANGED <<lost, events>>
       \/ lost' = lost \cup changes /\ changes # {} /\ Fault /\ UNCHANGED log
    /\ phase' = "compared" /\ read' = None
    /\ UNCHANGED <<cluster, stored, client, items, snap, monitoring,
                   previous_nodes, current, cache, handlers, monitor, advisories,
                   first, history>>

Compare ==
    /\ phase = "read" /\ phase' = "compared" /\ read' = None
    /\ cache' = IF read = None THEN cache ELSE read
    /\ \/ log' = log \cup changes /\ UNCHANGED <<lost, events>>
       \/ lost' = lost \cup changes /\ changes # {} /\ Fault /\ UNCHANGED log
    /\ UNCHANGED <<cluster, stored, client, items, snap, monitoring,
                   previous_nodes, current, handlers, monitor, advisories, first,
                   history>>

Publish ==
    /\ phase = "compared"
    /\ previous_nodes' = monitoring /\ monitoring' = None
    /\ first' = IF first = None /\ monitoring # None
                THEN monitoring.start ELSE first
    /\ current' = snap /\ snap' = Unavailable
    /\ phase' = "sleep"
    /\ UNCHANGED <<cluster, store, client, items, read, cache, handlers, monitor,
                   advisories, events, history>>

Collect ==
    \/ Connect \/ ListPage \/ ListFails \/ ConsumersFail \/ ReadSettings
    \/ Compare \/ Publish

-----------------------------------------------------------------------------
(* The handlers of /api/snapshot and /api/settings: the store first, the   *)
(* cache after an await, which a browser that leaves cuts short            *)

snapshot(t) ==
    /\ handlers[t] = None
    /\ handlers' = [handlers EXCEPT ![t] = stored]
    /\ UNCHANGED <<cluster, store, collector, cache, monitor, advisories, events,
                   first, history>>

save_settings(t, s) ==
    /\ handlers[t] = None /\ s # stored /\ Disturb
    /\ stored' = s
    /\ handlers' = [handlers EXCEPT ![t] = s]
    /\ UNCHANGED <<cluster, log, lost, collector, cache, monitor, advisories,
                   first, history>>

CacheWrite(t) ==
    /\ handlers[t] # None
    /\ handlers' = [handlers EXCEPT ![t] = None]
    /\ \/ cache' = handlers[t]
       \/ UNCHANGED cache                      \* the browser is gone
    /\ UNCHANGED <<cluster, store, collector, monitor, advisories, events,
                   first, history>>

-----------------------------------------------------------------------------
(* Monitor::collect: the identity of a node that does not answer is kept   *)
(* from the state before                                                   *)

Answer ==
    IF node.up
    THEN [status |-> "complete", start |-> node.start, load |-> node.load]
    ELSE [status |-> "unavailable", start |-> None, load |-> None]

\* Fault: the identity of a node is forgotten when it does not answer.
MonitorCollect_forgets ==
    /\ monitor' = Answer
    /\ UNCHANGED <<cluster, store, collector, cache, handlers, advisories,
                   events, first, history>>

MonitorCollect ==
    /\ monitor' = IF node.up \/ monitor = None
                  THEN Answer ELSE [Answer EXCEPT !.start = monitor.start]
    /\ UNCHANGED <<cluster, store, collector, cache, handlers, advisories,
                   events, first, history>>

-----------------------------------------------------------------------------
(* incidents::collect *)

Quiet == [count |-> 0, dropped |-> FALSE]

Subscribe ==
    /\ listener = None /\ client /\ reachable
    /\ listener' = Quiet /\ missed' = FALSE /\ noted' = FALSE
    /\ UNCHANGED <<cluster, store, collector, cache, handlers, monitor, events,
                   first, history>>

SubscriptionEnds ==
    /\ listener # None /\ Disturb
    /\ listener' = None /\ missed' = FALSE /\ noted' = FALSE
    /\ UNCHANGED <<cluster, store, collector, cache, handlers, monitor, first,
                   history>>

\* A message of the subscription; "elapsed" when the minute of the counter is
\* over.  Audit messages are excluded, a large message and one over the cap
\* are left out and noted once; advisories of another domain and other types
\* are ignored and not counted.
\* Fault: a new minute clears the counter and not the note.
Advisory_notes_once(kind, elapsed) ==
    LET minute == IF elapsed THEN [listener EXCEPT !.count = 0] ELSE listener
        skip   == /\ kind \in {"large", "advisory"}
                  /\ kind = "large" \/ minute.count >= AdvisoryCap
    IN  /\ listener # None /\ reachable /\ Disturb
        /\ missed' = (skip \/ (missed /\ ~elapsed))
        /\ noted' = ((skip /\ ~minute.dropped) \/ (noted /\ ~elapsed))
        /\ listener' =
               [count   |-> minute.count + (IF kind = "advisory" /\ ~skip
                                            THEN 1 ELSE 0),
                dropped |-> minute.dropped \/ skip]
        /\ UNCHANGED <<cluster, store, collector, cache, handlers, monitor,
                       first, history>>

Advisory(kind, elapsed) ==
    LET minute == IF elapsed THEN Quiet ELSE listener
        skip   == /\ kind \in {"large", "advisory"}
                  /\ kind = "large" \/ minute.count >= AdvisoryCap
    IN  /\ listener # None /\ reachable /\ Disturb
        /\ missed' = (skip \/ (missed /\ ~elapsed))
        /\ noted' = ((skip /\ ~minute.dropped) \/ (noted /\ ~elapsed))
        /\ listener' =
               [count   |-> minute.count + (IF kind = "advisory" /\ ~skip
                                            THEN 1 ELSE 0),
                dropped |-> minute.dropped \/ skip]
        /\ UNCHANGED <<cluster, store, collector, cache, handlers, monitor,
                       first, history>>

-----------------------------------------------------------------------------
(* The process starts again: the store keeps settings and incidents *)

Fresh ==
    /\ client' = FALSE /\ phase' = "sleep" /\ items' = <<>>
    /\ snap' = Unavailable /\ read' = None
    /\ monitoring' = None /\ previous_nodes' = None /\ current' = Unavailable
    /\ handlers' = [t \in Tabs |-> None]
    /\ monitor' = None
    /\ listener' = None /\ missed' = FALSE /\ noted' = FALSE
    /\ first' = None

Restart ==
    /\ Disturb /\ Fresh
    /\ cache' = stored
    /\ UNCHANGED <<cluster, store, history>>

Init ==
    /\ inventory = [r \in Resources |-> IF r \in Present
                                  THEN [created |-> 0, form |-> 0] ELSE None]
    /\ reachable = TRUE
    /\ node = [up |-> TRUE, start |-> 0, load |-> 0]
    /\ stored = Initial /\ cache = Initial
    /\ log = {} /\ lost = {}
    /\ client = FALSE /\ phase = "sleep" /\ items = <<>>
    /\ snap = Unavailable /\ read = None
    /\ monitoring = None /\ previous_nodes = None /\ current = Unavailable
    /\ handlers = [t \in Tabs |-> None]
    /\ monitor = None
    /\ listener = None /\ missed = FALSE /\ noted = FALSE
    /\ events = 0 /\ first = None /\ absent = {} /\ changed = {}

Next ==
    \/ \E r \in Resources : Create(r) \/ Delete(r) \/ Alter(r)
    \/ Outage \/ Recovery \/ Node \/ NodeBack
    \/ Collect
    \/ \E t \in Tabs : snapshot(t) \/ CacheWrite(t)
    \/ \E t \in Tabs, s \in Settings : save_settings(t, s)
    \/ MonitorCollect
    \/ Subscribe \/ SubscriptionEnds
    \/ \E kind \in {"audit", "large", "advisory"}, elapsed \in BOOLEAN :
           Advisory(kind, elapsed)
    \/ Restart

Spec == Init /\ [][Next]_vars

\* The runtime polls each task again after its await: the collector and
\* the monitor go on.  Nothing is assumed of requests, which a browser may
\* leave, of the cluster, of operators or of faults.
FairSpec ==
    /\ Spec
    /\ WF_vars(Collect)
    /\ WF_vars(MonitorCollect)
=============================================================================
