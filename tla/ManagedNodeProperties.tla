----------------------- MODULE ManagedNodeProperties -----------------------
(* What the owners of a managed node may rely on. *)
EXTENDS ManagedNode

\* The recovery file holds what the last change replaced, unless the container
\* ended between the two files: then it holds what nats.json still holds.
\* ("The previous file supports manual configuration recovery",
\* docs/MANAGED.md.)
RecoveryFile == previous = base \/ previous = config

\* watch_child ends the controller only because NATS ended unasked for, or
\* because a reviewed restart could not stop or start it, and once for each;
\* never in the middle of a reviewed restart that goes on ("An intentional
\* reviewed restart remains within the controller", docs/MANAGED.md).
ReviewedRestartStays == exits <= deaths + broken

\* What the controller has been asked and has not carried out or dropped.
HeldAsk ==
    IF Held("previous") \/ Held("config")
    THEN {[op |-> holder.op, review |-> holder.review]} ELSE {}

Asks == waiting \cup HeldAsk

\* A review permits to replace the configuration that it showed.
Permits(review, from, to) == from = review.before /\ to = review.config

\* However applies queue, time out, are dropped or are cut off, nats.json
\* changes only for a recorded apply, from the configuration that its review
\* showed to the one it showed next to it, and once for each apply, also when
\* the dashboard has given it up; what the activity calls a result is one.
Promise == INSTANCE ManagedChange WITH
    Ops <- 1 .. MaxOps, managed <- config, asks <- Asks, done <- saved

ImplementsManagedChange == Promise!Spec

\* Whatever becomes of an apply, a NATS process that has ended comes back with
\* the configuration on disk, unless the controller is told to end.
ProcessRecovers == child = None ~> child = config \/ closing
=============================================================================
