------------------------------ MODULE History ------------------------------
(***************************************************************************)
(* The SQLite store of src/src/store.rs (samples, incidents, activity, the *)
(* settings row and the profile binding) with the operations that write    *)
(* it, and the chart series that src/src/backlog.rs derives from the       *)
(* samples.  One connection behind a mutex runs one operation at a time,   *)
(* so an operation is one step; sampling is two, because it reads the      *)
(* settings in an operation of its own.                                    *)
(*                                                                         *)
(* A table is a sequence in the order of its ids.                          *)
(***************************************************************************)
EXTENDS Integers, Sequences, FiniteSets, FiniteSetsExt, SequencesExt

CONSTANTS
    None,
    Identities,      \* connection identities an operator may configure
    Settings,        \* [refresh, retention] choices that validate
    Initial,         \* the default settings
    Sizes,           \* serialized sizes of a sample or an incident
    Pendings,        \* largest pending count of a complete sample
    Budget,          \* history budget in bytes
    IncidentBudget,  \* the smaller of Budget and 16 MiB
    ActivityLimit,   \* 10,000 rows
    ChartLimit,      \* 240 samples
    Bins,            \* 60
    GapIntervals,    \* 3
    MaxNow,          \* bound on the clock (not in the code)
    MaxWrites        \* bound on incident, activity and settings writes (same)

ASSUME HistoryAssumption ==
    /\ Initial \in Settings
    /\ Settings \subseteq [refresh : Nat \ {0}, retention : Nat \ {0}]
    /\ {Budget, IncidentBudget, ActivityLimit, ChartLimit, Bins, GapIntervals}
           \subseteq Nat \ {0}
    /\ IncidentBudget <= Budget
    /\ Sizes \subseteq Nat \ {0}
    /\ Pendings \subseteq Nat
    /\ {MaxNow, MaxWrites} \subseteq Nat
    /\ None \notin Pendings \cup Identities

VARIABLES
    samples, incidents, activity,   \* tables
    settings,     \* the settings row
    binding,      \* connection identity of the profile, None before one
    server,       \* identity the running process is configured with, or None
    sampler,      \* settings and row of a sample under way, or None
    now,          \* the wall clock
    writes,       \* incident, activity and settings writes so far
    unpruned      \* history: settings saved since the activity was pruned

tables == <<samples, incidents, activity>>
vars == <<tables, settings, binding, server, sampler, now, writes, unpruned>>

-----------------------------------------------------------------------------
(* Rows *)

\* ORDER BY at DESC, id DESC: row i of t comes before row j.
Newer(t, i, j) == t[i].at > t[j].at \/ (t[i].at = t[j].at /\ i > j)

\* The rows of t at some places, in order.
Kept(t, places) ==
    LET kept[k \in 0 .. Len(t)] ==
            IF k = 0 THEN <<>>
            ELSE IF k \in places THEN Append(kept[k - 1], t[k]) ELSE kept[k - 1]
    IN  kept[Len(t)]

Bytes(sizes) ==
    LET sum[k \in 0 .. Len(sizes)] == IF k = 0 THEN 0 ELSE sum[k - 1] + sizes[k]
    IN  sum[Len(sizes)]

\* SUM(bytes) OVER (ORDER BY at DESC, id DESC)
UsedBytes(t, i) ==
    Bytes([j \in 1 .. Len(t) |-> IF j = i \/ Newer(t, j, i) THEN t[j].size ELSE 0])

prune_bytes(t, budget) == Kept(t, {i \in DOMAIN t : UsedBytes(t, i) <= budget})

Unexpired(t, cutoff) == Kept(t, {i \in DOMAIN t : t[i].at >= cutoff})

NewestRows(t, n) ==
    Kept(t, {i \in DOMAIN t : Cardinality({j \in DOMAIN t : Newer(t, j, i)}) < n})

Cutoff(retention) == IF now > retention THEN now - retention ELSE 0

-----------------------------------------------------------------------------
(* The operations that write *)

Running == server # None

\* sample_resources reads the settings; the sample carries the settings'
\* interval and is refused when it alone exceeds the budget.
\* Fault: the size of the sample is not compared with the budget.
SampleStart_unchecked(row) ==
    /\ Running /\ sampler = None
    /\ sampler' = [row |-> [row EXCEPT !.cadence = settings.refresh],
                   retention |-> settings.retention]
    /\ UNCHANGED <<tables, settings, binding, server, now, writes, unpruned>>

SampleStart(row) ==
    /\ Running /\ sampler = None
    /\ row.size <= Budget
    /\ sampler' = [row |-> [row EXCEPT !.cadence = settings.refresh],
                   retention |-> settings.retention]
    /\ UNCHANGED <<tables, settings, binding, server, now, writes, unpruned>>

SampleCommit ==
    LET cutoff == Cutoff(sampler.retention)
    IN  /\ sampler # None
        /\ samples' = Unexpired(
               prune_bytes(Append(samples, sampler.row), Budget), cutoff)
        /\ activity' = Unexpired(activity, cutoff)
        /\ incidents' = Unexpired(incidents, cutoff)
        /\ sampler' = None
        /\ UNCHANGED <<settings, binding, server, now, writes, unpruned>>

Write ==
    /\ Running
    /\ writes < MaxWrites
    /\ writes' = writes + 1

\* Fault: incidents are inserted and never pruned.
Incident_unpruned(size) ==
    /\ Write
    /\ incidents' = Append(incidents, [at |-> now, size |-> size])
    /\ UNCHANGED <<samples, activity, settings, binding, server, sampler,
                   now, unpruned>>

Incident(size) ==
    /\ Write
    /\ incidents' = prune_bytes(
           Append(incidents, [at |-> now, size |-> size]), IncidentBudget)
    /\ UNCHANGED <<samples, activity, settings, binding, server, sampler,
                   now, unpruned>>

\* Two statements, each committed by itself: a process that ends between
\* them has pruned and not inserted.
event ==
    /\ Write
    /\ LET kept == NewestRows(activity, ActivityLimit - 1)
       IN  \/ activity' = Append(kept, [at |-> now]) /\ UNCHANGED server
           \/ activity' = kept /\ server' = None
    /\ unpruned' = 0
    /\ sampler' = IF server' = None THEN None ELSE sampler
    /\ UNCHANGED <<samples, incidents, settings, binding, now>>

save_settings(s) ==
    /\ Write
    /\ settings' = s
    /\ activity' = Append(activity, [at |-> now])
    /\ unpruned' = unpruned + 1
    /\ UNCHANGED <<samples, incidents, binding, server, sampler, now>>

-----------------------------------------------------------------------------
(* Starting, stopping and the clock *)

HasRows == samples # <<>> \/ incidents # <<>> \/ activity # <<>>

\* The process starts only for the identity the history belongs to.
\* Fault: a history may be opened with another connection when asked to.
bind_profile_rebinding(identity, adopt) ==
    /\ ~Running
    /\ binding = identity \/ (HasRows => adopt)
    /\ binding' = identity
    /\ server' = identity
    /\ UNCHANGED <<tables, settings, sampler, now, writes, unpruned>>

bind_profile(identity, adopt) ==
    /\ ~Running
    /\ \/ binding = identity
       \/ binding = None /\ (HasRows => adopt)
    /\ binding' = identity
    /\ server' = identity
    /\ UNCHANGED <<tables, settings, sampler, now, writes, unpruned>>

Stop ==
    /\ Running
    /\ server' = None
    /\ sampler' = None
    /\ UNCHANGED <<tables, settings, binding, now, writes, unpruned>>

Tick ==
    /\ now < MaxNow
    /\ now' = now + 1
    /\ UNCHANGED <<tables, settings, binding, server, sampler, writes,
                   unpruned>>

\* The wall clock may be set back.
SetBack ==
    /\ now > 0
    /\ writes < MaxWrites /\ writes' = writes + 1
    /\ now' = now - 1
    /\ UNCHANGED <<tables, settings, binding, server, sampler, unpruned>>

\* An observation, as sample_resources receives it: an incomplete one has no
\* pending count.  "by" is history: the identity that was observed.
Row(size, pending) ==
    [at |-> now, size |-> size, pending |-> pending, cadence |-> 1,
     by |-> server]

\* A database of an older version has rows and no binding.
LegacyRow == [at |-> 0, size |-> 1, pending |-> None, cadence |-> 1,
              by |-> None]

Init ==
    /\ samples \in {<<>>, <<LegacyRow>>}
    /\ incidents = <<>> /\ activity = <<>>
    /\ settings = Initial
    /\ binding = None /\ server = None /\ sampler = None
    /\ now = 0 /\ writes = 0 /\ unpruned = 0

Next ==
    \/ \E size \in Sizes, pending \in Pendings \cup {None} :
           SampleStart(Row(size, pending))
    \/ SampleCommit
    \/ \E size \in Sizes : Incident(size)
    \/ event
    \/ \E s \in Settings : save_settings(s)
    \/ \E identity \in Identities, adopt \in BOOLEAN :
           bind_profile(identity, adopt)
    \/ Stop
    \/ Tick
    \/ SetBack

Spec == Init /\ [][Next]_vars

-----------------------------------------------------------------------------
(* The backlog chart (src/src/backlog.rs), a function of the samples of a  *)
(* time window, oldest first                                               *)

Window(from, to) ==
    LET rows == {i \in DOMAIN samples : samples[i].at \in from .. to}
        Older(i) == {j \in rows : Newer(samples, i, j)}
    IN  [k \in 1 .. Cardinality(rows) |->
            samples[CHOOSE i \in rows : Cardinality(Older(i)) = k - 1]]

\* A segment ends where a sample is missing or unusable.
Gap(before, after) ==
    \/ before.pending = None
    \/ after.pending = None
    \/ after.at - before.at > GapIntervals * before.cadence

segments(series) ==
    [k \in DOMAIN series |->
        [sample |-> series[k],
         segment |-> Cardinality({i \in 2 .. k :
                                    Gap(series[i - 1], series[i])})]]

Bin(at, from, to) ==
    LET width == (to - from + Bins) \div Bins      \* rounded up
    IN  Min({(at - from) \div width, Bins - 1})

\* The first, the last, the first least and the last greatest of a bin.
\* Fault: only the ends of a bin are kept.
Selected_ends(series, bin) ==
    {Min(bin), Max(bin)}

Selected(series, bin) ==
    LET valid == {k \in bin : series[k].pending # None}
        least == {k \in valid : \A i \in valid :
                     series[k].pending <= series[i].pending}
        great == {k \in valid : \A i \in valid :
                     series[k].pending >= series[i].pending}
    IN  {Min(bin), Max(bin)}
            \cup (IF valid = {} THEN {} ELSE {Min(least), Max(great)})

aggregate(series, from, to) ==
    LET bins == {{k \in DOMAIN series : Bin(series[k].at, from, to) = b} :
                    b \in 0 .. Bins - 1} \ {{}}
        keep == UNION {Selected(series, bin) : bin \in bins}
    IN  IF Len(series) > ChartLimit
        THEN Kept(segments(series), keep)
        ELSE segments(series)
=============================================================================
