----------------------- MODULE NatsSessionProperties -----------------------
(* What the tabs of one NATS session may rely on. *)
EXTENDS NatsSession

Times == [i \in DOMAIN samples |-> samples[i].at]

\* The history of a session holds each observation once and in the order they
\* were taken, whichever tabs asked ("Serializing observations avoids duplicate
\* or out-of-order samples"), except for a sample whose call was dropped while
\* the storage thread had it.
HistoryInOrder ==
    /\ IsInjective(Times)
    /\ \A i, j \in DOMAIN samples :
          i < j /\ Times[i] > Times[j] => {Times[i], Times[j]} \cap orphans # {}

\* Two samples that follow each other have been compared, so a change between
\* them is among the session's incidents, unless the first was too large to
\* retain; and no comparison steps over a sample.  A sample whose call was
\* dropped may escape both.
ChangesCompared ==
    /\ \A i \in 1 .. Len(samples) - 1 :
          \/ <<Times[i], Times[i + 1]>> \in compared
          \/ samples[i].large
          \/ {Times[i], Times[i + 1]} \cap orphans # {}
    /\ \A pair \in compared, i \in DOMAIN samples :
          pair[1] < Times[i] /\ Times[i] < pair[2] => Times[i] \in orphans

\* A node link of the page keeps naming the server it was shown for, however
\* many rounds answer in other orders meanwhile.
LinksKept ==
    \A link \in page.links : link[1] \in DOMAIN slots /\ slots[link[1]] = link[2]

\* A watch that reports its window without a gap has lost failures at most in
\* an outage that no check fell into, however the link comes and goes.
WatchCoverage ==
    coverage # None /\ ~coverage.gap => coverage.missed \subseteq {0}

\* The page never goes back to an older monitoring choice, although a snapshot
\* reads the choice seconds before it answers.
ChoiceNeverGoesBack ==
    [][page'.choice.revision >= page.choice.revision]_vars

\* The lock on the observations never keeps every call waiting: while any is
\* queued for it, one has it or gets it, and where that one waits for its sample
\* to be stored, the storage thread has it.
QueueMoves ==
    (\E c \in Calls : Queued(c)) =>
        \E c \in Calls :
            /\ Queued(c) /\ Served(c)
            /\ req[c].phase = "store" => req[c].obs \in submitted

\* Every call is answered: the lock on the observations is passed on whatever
\* fails under it.
CallsAnswered ==
    \A c \in Calls : req[c].phase # "idle" ~> req[c].phase = "idle"
=============================================================================
