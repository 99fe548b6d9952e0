------------------------- MODULE HistoryProperties -------------------------
(***************************************************************************)
(* What the store and the backlog chart promise.                           *)
(***************************************************************************)
EXTENDS History

TotalSize(t) == Bytes([i \in 1 .. Len(t) |-> t[i].size])

\* Every table stays within its limit whatever is inserted: prune_bytes runs
\* inside each insertion of a sample or an incident, event() prunes the
\* activity first, and save_settings() only inserts, so that the activity may
\* exceed its limit by the settings saved since the last event (store.rs).
WithinBudgets ==
    /\ TotalSize(samples) <= Budget
    /\ TotalSize(incidents) <= IncidentBudget
    /\ Len(activity) <= ActivityLimit + unpruned

\* An inserted sample (store.rs sample_resources) evicts older samples only,
\* and it stays itself when no stored sample is newer and it has not expired:
\* neither a large sample nor a tight budget empties the history.
HistoryKeepsNewest ==
    [][\A row \in {sampler.row : x \in {sampler} \ {None}} :
         sampler' = None /\ Running' =>
            LET rows == ToSet(samples) \cup {row}
                kept == ToSet(samples')
            IN  /\ \A gone \in rows \ kept, k \in kept : k.at >= gone.at
                /\ \/ \E r \in rows : r.at > row.at
                   \/ row.at < Cutoff(sampler.retention)
                   \/ samples' # <<>> /\ Last(samples') = row]_vars

\* The samples of one history come from one connection identity: the profile
\* binding is checked at every start (store.rs bind_profile), so a changed
\* configuration cannot write into the history of another cluster.  Rows of an
\* older version have no identity.
OneIdentity ==
    \A i \in DOMAIN samples : samples[i].by \in {binding, None}

Windows == {w \in (0 .. MaxNow) \X (0 .. MaxNow) : w[1] < w[2]}

Extremes(series) ==
    LET values == {series[k].pending : k \in DOMAIN series} \ {None}
    IN  IF values = {} THEN {} ELSE {Min(values), Max(values)}

\* Two points the chart joins (same segment) are joined by usable samples that
\* follow each other within GapIntervals intervals, the omitted ones included:
\* the reduction never hides an outage (backlog.rs aggregate).
GapsKept(series, chart) ==
    \A i, j \in DOMAIN chart :
       i < j /\ chart[i].segment = chart[j].segment =>
          \A k \in 2 .. Len(series) :
             series[k - 1].at >= chart[i].sample.at
               /\ series[k].at <= chart[j].sample.at
               /\ series[k - 1].at < series[k].at
             => ~Gap(series[k - 1], series[k])

\* Whatever the chart of a window leaves out, it shows the greatest and the
\* least backlog, and it hides no outage (backlog.rs aggregate).
ChartHonest ==
    \A w \in Windows :
        LET series == Window(w[1], w[2])
            chart  == aggregate(series, w[1], w[2])
        IN  /\ Extremes(series) = Extremes([k \in DOMAIN chart |-> chart[k].sample])
            /\ GapsKept(series, chart)
=============================================================================
