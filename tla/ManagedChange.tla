---------------------------- MODULE ManagedChange ----------------------------
(***************************************************************************)
(* What a managed endpoint and the dashboard promise together, with no     *)
(* locks, files, commands or lost answers (docs/MANAGED.md,                *)
(* docs/JWT_AUTHORITY.md): whatever is managed changes as an ask that is   *)
(* on record says, from what its review showed, and once for each ask; and *)
(* a result on record was achieved.  ManagedNode and AccountAuthority      *)
(* implement this module.                                                  *)
(***************************************************************************)
CONSTANTS
    Ops,                \* names of the asks
    Permits(_, _, _)    \* a review permits the change of one state to another

VARIABLES
    up,         \* the endpoint runs
    managed,    \* what is managed
    asks,       \* asks that may still be carried out: op, review
    log,        \* activity: op and kind
    done        \* ops that were carried out

Init ==
    /\ up = TRUE
    /\ asks = {}
    /\ log = {}
    /\ done = {}

\* An ask is recorded before it is sent, under a name of its own; it may get
\* lost.
Ask(op) ==
    /\ <<op, "requested">> \notin log
    /\ log' = log \cup {<<op, "requested">>}
    /\ \/ asks' = asks
       \/ up /\ \E k \in asks' : k.op = op /\ asks' = asks \cup {k}
    /\ UNCHANGED <<up, managed, done>>

CarryOut(k) ==
    /\ up
    /\ k.op \notin done
    /\ Permits(k.review, managed, managed')
    /\ done' = done \cup {k.op}
    /\ asks' = asks \ {k}
    /\ UNCHANGED <<up, log>>

\* Some are refused.
Drop == asks' \subseteq asks /\ UNCHANGED <<up, managed, log, done>>

Conclude(op) ==
    /\ \/ op \in done /\ log' = log \cup {<<op, "result">>}
       \/ /\ <<op, "requested">> \in log
          /\ log' = log \cup {<<op, "uncertain">>}
    /\ UNCHANGED <<up, managed, asks, done>>

\* The endpoint ends, with all it was asked.
Stop == up' = FALSE /\ asks' = {} /\ UNCHANGED <<managed, log, done>>

Boot == up' = TRUE /\ UNCHANGED <<managed, asks, log, done>>

\* What is managed is changed by other means, while the endpoint is stopped.
Outside == ~up /\ UNCHANGED <<up, asks, log, done>>

Next ==
    \/ \E op \in Ops : Ask(op) \/ Conclude(op)
    \/ \E k \in asks : CarryOut(k)
    \/ Drop \/ Stop \/ Boot \/ Outside

Spec == Init /\ [][Next]_<<up, managed, asks, log, done>>
=============================================================================
