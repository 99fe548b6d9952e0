----------------------------- MODULE ManagedNode -----------------------------
(***************************************************************************)
(* A managed NATS node: the controller that owns the NATS process and its  *)
(* configuration (src/controller/server.py), its container, which is       *)
(* started again when the controller exits, and the dashboard that asks    *)
(* for changes (ManagedClient).                                            *)
(*                                                                         *)
(* The controller applies one reviewed change at a time, under its lock;   *)
(* each step of it may fail, and gives the lock back as it is.             *)
(* A configuration is known by its content, as in the code, where the      *)
(* revision is a digest.                                                   *)
(***************************************************************************)
EXTENDS ManagedClient

CONSTANTS
    Configs,      \* contents of the configuration
    Killed        \* a NATS process that was killed and is not gone yet

Reviews ==
    [admin : Admins, before : Configs, config : Configs, restart : BOOLEAN]

\* An apply as the controller has it: it waits for the lock, or holds it.
Applies == [op : Nat, review : Reviews]
Holders ==
    [step : {"previous", "config", "stop", "start", "reload", "observe"},
     op : Nat, review : Reviews]

ASSUME ManagedNodeAssumption ==
    /\ {MaxOps, MaxEvents} \subseteq Nat
    /\ None \notin Configs \cup Reviews \cup Holders
    /\ Killed \notin Configs \cup {None}

VARIABLES
    config,       \* nats.json
    previous,     \* previous.json, or None
    child,        \* configuration the NATS process runs, Killed, or None
    closing,      \* the controller has been told to end
    base,         \* history: what nats.json held before its last change
    deaths,       \* history: ends of NATS that nobody asked for
    broken,       \* history: reviewed restarts that failed at stop or start
    exits         \* history: exits of watch_child

files == <<config, previous>>
history == <<base, deaths, broken, exits>>
node == <<files, child, closing, history>>
vars == <<node, endpoint, dashboard, ops, events, saved>>

-----------------------------------------------------------------------------
(* The controller: reviews, and an apply under the lock *)

\* A review binds the configuration the administrator has seen.
preview(a) ==
    /\ up /\ holder = None /\ req[a].step = "idle"
    /\ \E c \in Configs, restart \in BOOLEAN :
          /\ c # config \/ restart
          /\ pending' = (pending \ Shown(a)) \cup
                {[admin |-> a, before |-> config, config |-> c, restart |-> restart]}
    /\ UNCHANGED <<node, up, waiting, holder, dashboard, ops, events, saved>>

Held(step) == holder # None /\ holder.step = step

Next_step(step) == holder' = [holder EXCEPT !.step = step] /\ UNCHANGED req

\* An exception: the apply is answered 409 or 503 and gives the lock back.
Fails == Reply(holder, "failed") /\ holder' = None

\* The lock is granted in any order and however long an apply has waited.  An
\* apply is refused if there is no such review, if it is not confirmed, or if
\* the review has expired; the review stays as it is.
Refuse(w) ==
    /\ up /\ holder = None
    /\ waiting' = waiting \ {w} /\ Reply(w, "failed")
    /\ UNCHANGED <<node, up, pending, holder, log, ops, events, saved>>

\* The review is used up.  The apply goes on unless the configuration has
\* changed, or NATS rejects the candidate or cannot be asked.
Take(w) ==
    /\ up /\ holder = None /\ w.review \in pending
    /\ waiting' = waiting \ {w} /\ pending' = pending \ {w.review}
    /\ \/ /\ w.review.before = config
          /\ holder' = [step |-> "previous", op |-> w.op, review |-> w.review]
          /\ UNCHANGED <<req, events>>
       \/ /\ Reply(w, "failed") /\ UNCHANGED holder
          /\ \/ w.review.before # config /\ UNCHANGED events
             \/ Fault
    /\ UNCHANGED <<node, up, log, ops, saved>>

ApplyStep == UNCHANGED <<closing, deaths, exits, up, pending, waiting, log, ops>>
SaveStep == ApplyStep /\ UNCHANGED <<child, broken>>
ChildStep == ApplyStep /\ UNCHANGED <<files, base, saved>>

\* Fault: the recovery file is written first time only.
SavePrevious_once ==
    /\ Held("previous")
    /\ \/ /\ previous' = IF previous = None THEN holder.review.before
                                             ELSE previous
          /\ Next_step("config") /\ UNCHANGED events
       \/ Fails /\ Fault /\ previous' \in {previous, holder.review.before}
    /\ SaveStep /\ UNCHANGED <<config, base, saved>>

\* A write that fails may have replaced the file.
SavePrevious ==
    /\ Held("previous")
    /\ \/ /\ previous' = holder.review.before
          /\ Next_step("config") /\ UNCHANGED events
       \/ Fails /\ Fault /\ previous' \in {previous, holder.review.before}
    /\ SaveStep /\ UNCHANGED <<config, base, saved>>

SaveConfig ==
    /\ Held("config")
    /\ \/ Next_step(IF holder.review.restart THEN "stop" ELSE "reload")
          /\ UNCHANGED events
       \/ Fails /\ Fault
    /\ \/ /\ config' = holder.review.config
          /\ base' = config /\ saved' = saved \cup {holder.op}
       \/ holder' = None /\ UNCHANGED <<config, base, saved>>
    /\ SaveStep /\ UNCHANGED previous

\* Neither SIGTERM nor SIGKILL has ended the process in time: it is killed, and
\* ends later.
Stop ==
    /\ Held("stop")
    /\ \/ child' = None /\ Next_step("start") /\ UNCHANGED <<events, broken>>
       \/ /\ child # None /\ child' = Killed
          /\ Fails /\ Fault /\ broken' = broken + 1
    /\ ChildStep

\* If no process can be started, the controller keeps the one that has ended.
Start ==
    /\ Held("start")
    /\ \/ child' = config /\ Next_step("observe") /\ UNCHANGED <<events, broken>>
       \/ Fails /\ Fault /\ broken' = broken + 1 /\ UNCHANGED child
    /\ ChildStep

\* Fault: the refusal keeps the lock.
Reload_holding ==
    /\ Held("reload")
    /\ \/ child = None /\ Reply(holder, "failed") /\ UNCHANGED <<holder, child, events>>
       \/ /\ child # None /\ Next_step("observe")
          /\ \/ child' = (IF child = Killed THEN Killed ELSE config)
                /\ UNCHANGED events
             \/ Fault /\ UNCHANGED child
    /\ ChildStep /\ UNCHANGED broken

\* "Configuration saved but NATS is stopped", or the process is told to read
\* it, and does unless it has been killed or finds it cannot.
Reload ==
    /\ Held("reload")
    /\ \/ child = None /\ Fails /\ UNCHANGED <<child, events>>
       \/ /\ child # None /\ Next_step("observe")
          /\ \/ child' = (IF child = Killed THEN Killed ELSE config)
                /\ UNCHANGED events
             \/ Fault /\ UNCHANGED child
    /\ ChildStep /\ UNCHANGED broken

\* Two seconds of observation end the apply, whatever they show, unless
\* nats.json cannot be read any more.
Observe ==
    /\ Held("observe")
    /\ \/ Reply(holder, "ok") /\ holder' = None /\ UNCHANGED events
       \/ Fails /\ Fault
    /\ ChildStep /\ UNCHANGED <<child, broken>>

-----------------------------------------------------------------------------
(* The processes *)

ProcessStep ==
    UNCHANGED <<files, base, broken, dashboard, ops, saved>>

\* NATS ends unasked for.
ChildDies ==
    /\ child \in Configs /\ Disturb
    /\ child' = None /\ deaths' = deaths + 1
    /\ ProcessStep /\ UNCHANGED <<closing, exits, up, pending, waiting, holder>>

KilledEnds ==
    /\ child = Killed /\ child' = None
    /\ ProcessStep
    /\ UNCHANGED <<closing, deaths, exits, up, pending, waiting, holder, events>>

\* The memory of the controller and the NATS process go with the container.
Exit ==
    /\ up /\ up' = FALSE
    /\ child' = None /\ holder' = None
    /\ pending' = {} /\ waiting' = {}
    /\ ProcessStep /\ UNCHANGED <<closing, deaths>>

\* Fault: the child is looked at without the lock.
watch_child_unlocked ==
    /\ up /\ ~closing /\ child = None /\ exits' = exits + 1
    /\ Exit /\ UNCHANGED events

watch_child ==
    /\ up /\ ~closing /\ holder = None /\ child = None /\ exits' = exits + 1
    /\ Exit /\ UNCHANGED events

Crash == Exit /\ Disturb /\ UNCHANGED exits

\* SIGTERM: no new request is taken, those that are there go on.
Terminate ==
    /\ up /\ ~closing /\ Disturb
    /\ closing' = TRUE
    /\ ProcessStep
    /\ UNCHANGED <<child, deaths, exits, up, pending, waiting, holder>>

\* NATS is stopped without the lock, whatever an apply is about.
StopOnExit ==
    /\ up /\ closing /\ child # None
    /\ child' = None
    /\ ProcessStep
    /\ UNCHANGED <<closing, deaths, exits, up, pending, waiting, holder, events>>

\* So it ends also where watch_child finds NATS stopped by it.
End == closing /\ Exit /\ UNCHANGED <<exits, events>>

\* The restart policy starts a container that was not told to end; others are
\* started by their operator.
Boot ==
    /\ ~up /\ up' = TRUE
    /\ child' = config /\ closing' = FALSE
    /\ ProcessStep
    /\ UNCHANGED <<deaths, exits, pending, waiting, holder, events>>

-----------------------------------------------------------------------------

Init ==
    /\ config \in Configs /\ previous = None
    /\ child = config /\ up = TRUE /\ closing = FALSE
    /\ pending = {} /\ waiting = {} /\ holder = None
    /\ req = [a \in Admins |-> Idle] /\ log = {}
    /\ ops = 0 /\ events = 0
    /\ base = None /\ saved = {} /\ deaths = 0 /\ broken = 0 /\ exits = 0

Applying == SavePrevious \/ SaveConfig \/ Stop \/ Start \/ Reload \/ Observe

Next ==
    \/ \E a \in Admins :
          Client(a) /\ UNCHANGED node /\ (closing => waiting' = waiting)
    \/ \E a \in Admins : preview(a)
    \/ \E w \in waiting : Refuse(w) \/ Take(w)
    \/ Applying
    \/ ChildDies \/ KilledEnds \/ watch_child
    \/ Crash \/ Terminate \/ StopOnExit \/ End \/ Boot

Spec == Init /\ [][Next]_vars

\* The threads of the controller go on, watch_child looks every second, and
\* the container is started again ("restart: unless-stopped").
FairSpec ==
    /\ Spec /\ WF_vars(Applying) /\ WF_vars(watch_child)
    /\ WF_vars(~closing /\ Boot)
=============================================================================
