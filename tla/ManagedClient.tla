---------------------------- MODULE ManagedClient ----------------------------
(***************************************************************************)
(* The dashboard's side of a managed endpoint: the page of                 *)
(* src/web/managed.js and the apply of src/src/managed.rs, which records   *)
(* what it asks for and what came of it.  The endpoint is the controller   *)
(* of a node or the authority of an account (ManagedNode,                  *)
(* AccountAuthority): it keeps the reviews, and a thread of it for each    *)
(* request it has received.                                                *)
(***************************************************************************)
EXTENDS Integers, FiniteSets

CONSTANTS
    None,
    Admins,       \* pages under way together, each with a session of its own
    MaxOps,       \* bound on applies (not in the code)
    MaxEvents     \* bound on faults (not in the code)

VARIABLES
    up,           \* the endpoint runs
    pending,      \* the endpoint's reviews
    waiting,      \* applies it has received: op, review
    holder,       \* apply that holds its lock: step, op, review; or None
    req,          \* [Admins -> apply of the dashboard: step, op, review]
    log,          \* activity of the dashboard: op and kind
    ops, events,  \* bounds: applies; faults
    saved         \* history: ops that took effect

endpoint == <<up, pending, waiting, holder>>
dashboard == <<req, log>>

Disturb == events < MaxEvents /\ events' = events + 1
Fault == Disturb

Idle == [step |-> "idle", op |-> 0, review |-> None]

Go(a, step) == req' = [req EXCEPT ![a].step = step]

\* A page shows one review: an older one can only be carried by an apply that
\* the page has given up.
Shown(a) == {r \in pending : r.admin = a /\ \A w \in waiting : w.review # r}

apply(a) ==
    /\ req[a].step = "idle" /\ ops < MaxOps
    /\ ops' = ops + 1
    /\ \E r \in pending :
          /\ r.admin = a
          /\ req' = [req EXCEPT ![a] = [step |-> "audit", op |-> ops', review |-> r]]
    /\ UNCHANGED <<endpoint, log, events, saved>>

DashboardStep == UNCHANGED <<up, pending, holder, ops, saved>>

\* The endpoint starts a thread for the request, or it is down, has all of its
\* threads at work, or cannot be reached.
Send(a) ==
    /\ Go(a, "sent")
    /\ \/ waiting' = waiting
       \/ up /\ waiting' = waiting \cup
                               {[op |-> req[a].op, review |-> req[a].review]}

\* Fault: the request is sent although it could not be recorded.
Audit_ignored(a) ==
    /\ req[a].step = "audit"
    /\ \/ log' = log \cup {<<req[a].op, "requested">>} /\ UNCHANGED events
       \/ Fault /\ UNCHANGED log
    /\ Send(a)
    /\ DashboardStep

Audit(a) ==
    /\ req[a].step = "audit"
    /\ \/ /\ log' = log \cup {<<req[a].op, "requested">>}
          /\ Send(a) /\ UNCHANGED events
       \/ Fault /\ req' = [req EXCEPT ![a] = Idle] /\ UNCHANGED <<log, waiting>>
    /\ DashboardStep

\* 30 seconds, or the connection to the endpoint breaks; the endpoint may
\* well go on, or not have begun.
Timeout(a) ==
    /\ req[a].step = "sent" /\ Disturb
    /\ Go(a, "failed")
    /\ DashboardStep /\ UNCHANGED <<log, waiting>>

\* The endpoint was not there, turned the request away, or has ended since.
Unanswered(a) ==
    /\ req[a].step = "sent"
    /\ \A w \in waiting : w.op # req[a].op
    /\ holder # None => holder.op # req[a].op
    /\ Go(a, "failed")
    /\ DashboardStep /\ UNCHANGED <<log, waiting, events>>

Result(a) == <<req[a].op, IF req[a].step = "ok" THEN "result" ELSE "uncertain">>

Finish(a) ==
    /\ req[a].step \in {"ok", "failed"}
    /\ \/ log' = log \cup {Result(a)} /\ UNCHANGED events
       \/ Fault /\ UNCHANGED log
    /\ req' = [req EXCEPT ![a] = Idle]
    /\ DashboardStep /\ UNCHANGED waiting

Record(a) == IF req[a].step = "audit" THEN <<req[a].op, "requested">> ELSE Result(a)

\* The browser goes away: the handler ends where it waits, and a record that
\* the database thread has is written still.
Leave(a) ==
    /\ req[a].step # "idle" /\ Disturb
    /\ req' = [req EXCEPT ![a] = Idle]
    /\ \/ UNCHANGED log
       \/ req[a].step # "sent" /\ log' = log \cup {Record(a)}
    /\ DashboardStep /\ UNCHANGED waiting

\* An answer reaches the handler that waits for it, if one still does.
Reply(w, step) ==
    LET a == w.review.admin
    IN req' = IF req[a].step = "sent" /\ req[a].op = w.op
              THEN [req EXCEPT ![a].step = step] ELSE req

Client(a) ==
    \/ apply(a) \/ Audit(a) \/ Timeout(a) \/ Unanswered(a) \/ Finish(a)
    \/ Leave(a)

\* No change takes effect that the dashboard has not recorded as requested, and
\* the activity calls nothing a result that took none.
AuditHonest ==
    /\ \A op \in saved : <<op, "requested">> \in log
    /\ \A event \in log : event[2] = "result" => event[1] \in saved

Kinds == {"requested", "result", "uncertain"}

Requested(op) == <<op, "requested">> \in log

\* Every apply has a name of its own, and is on record from when it is sent.
RequestsOnce ==
    /\ ops <= MaxOps /\ log \subseteq (1 .. ops) \X Kinds
    /\ \A a \in Admins :
          req[a].step # "idle" =>
             /\ req[a].op \in 1 .. ops
             /\ Requested(req[a].op) <=> req[a].step # "audit"
             /\ req[a].step = "ok" => req[a].op \in saved
    /\ \A a, b \in Admins :
          a # b /\ req[a].step # "idle" /\ req[b].step # "idle" =>
             req[a].op # req[b].op
    /\ \A op \in saved : Requested(op)

\* The endpoint has each apply at most once, and one that has taken effect no
\* more; until then the steps of the holder of its lock are `early'.
AsksOnce(early) ==
    /\ \A w \in waiting :
          /\ Requested(w.op) /\ w.op \notin saved
          /\ \A v \in waiting \ {w} : v.op # w.op
    /\ holder # None =>
          /\ Requested(holder.op)
          /\ holder.op \in saved <=> holder.step \notin early
          /\ \A w \in waiting : w.op # holder.op
=============================================================================
