----------------------- MODULE ObservationProperties -----------------------
(***************************************************************************)
(* What the collector, the monitor and the advisory listener promise.      *)
(***************************************************************************)
EXTENDS Observation

\* A "not-observed" incident has a cause in the broker: the stream was absent
\* at some time while the inventory was listed, or the pages shifted because a
\* stream before it came or went.  An outage, a timeout or an incomplete
\* inventory never produces one (incidents.rs changes).
AbsenceHasCause ==
    \A e \in log \cup lost : e.kind = "not-observed" => e.about[2]

\* A complete observation whose pages saw one inventory lists all of it as it
\* is, each stream once (telemetry.rs list): what the cap cuts off makes it
\* partial.
InventoryExact ==
    [][phase = "list" /\ phase' = "observed" /\ snap'.status = "complete"
         /\ changed = {} =>
           /\ ToSet(snap'.seen) = {Row(r) : r \in {r \in Resources : Alive(r)}}
           /\ IsInjective(snap'.seen)]_vars

\* An advisory that the listener leaves out, large or over the cap, is noted
\* in the incidents of its minute (incidents.rs collect; the write of the note
\* itself may fail).
AdvisoryLossVisible == missed => noted

\* However saves, reads of several browsers, storage faults and the collector
\* interleave, the settings cache ends up with the stored settings (main.rs
\* snapshot, save_settings, collect).
SettingsReachCache == <>[](cache = stored)

\* The restart that the server that runs now began with is no news: it is in an
\* incident, or its write failed, or the collector met no other server.  A
\* server that does not answer is not judged.
Followed ==
    \/ Incident("restart-or-replacement", node.start) \in log \cup lost
    \/ first \in {None, node.start}
    \/ ~node.up

Met(answer) == answer # None /\ answer.start = node.start

\* A restart of a node the collector has met becomes an incident, or its
\* write fails, also when monitoring was interrupted meanwhile (monitoring.rs
\* collect keeps the identity), if the node answers until it is collected.
RestartsReachLog ==
    (/\ first # None /\ node.up
     /\ \A answer \in {monitor, monitoring, previous_nodes} : ~Met(answer))
        ~> Followed

\* PORTING_LEDGER.md:54: the incident timeline has the "observed restarts".  A
\* restarted node that answers again for good has its restart in the log.
ObservedRestartsRecorded == (first # None /\ node.up) ~> Followed
=============================================================================
