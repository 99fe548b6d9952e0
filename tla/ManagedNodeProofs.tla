-------------------------- MODULE ManagedNodeProofs --------------------------
(***************************************************************************)
(* Proofs of the safety properties of a managed node, for any number of    *)
(* administrators, configurations, applies and faults.                     *)
(***************************************************************************)
EXTENDS ManagedNodeProperties, TLAPS

Requests ==
    [step : {"idle", "audit", "sent", "ok", "failed"}, op : Nat,
     review : Reviews \cup {None}]

TypeOK ==
    /\ config \in Configs /\ {previous, base} \subseteq Configs \cup {None}
    /\ child \in Configs \cup {Killed, None}
    /\ up \in BOOLEAN /\ closing \in BOOLEAN
    /\ pending \subseteq Reviews /\ waiting \subseteq Applies
    /\ holder \in Holders \cup {None}
    /\ req \in [Admins -> Requests]
    /\ {ops, events, deaths, broken, exits} \subseteq Nat

\* Only an apply that restarts NATS, and a controller that was told to end, may
\* leave NATS stopped or killed unaccounted for.
StopsAccounted ==
    /\ exits <= deaths + broken
    /\ up /\ ~closing /\ child \notin Configs /\ ~Held("start") =>
           exits < deaths + broken
    /\ holder # None => up

\* Until nats.json is replaced it holds what was reviewed, and previous.json is
\* written before.
FilesInOrder ==
    /\ Held("previous") \/ Held("config") => holder.review.before = config
    /\ Held("config") => previous = config
    /\ RecoveryFile

\* An apply that was sent was recorded; one that succeeded was saved.
RequestsRecorded ==
    /\ holder # None => Requested(holder.op)
    /\ \A w \in waiting : Requested(w.op)
    /\ \A a \in Admins : req[a].step \in {"sent", "ok", "failed"} =>
                             Requested(req[a].op)
    /\ holder # None /\ holder.step \notin {"previous", "config"} =>
           holder.op \in saved
    /\ \A a \in Admins : req[a].step = "ok" => req[a].op \in saved
    /\ \A a \in Admins : req[a].step # "idle" => req[a].review # None
    /\ AuditHonest

NodeInvariant ==
    TypeOK /\ StopsAccounted /\ FilesInOrder /\ RequestsRecorded

\* The controller starts with a valid configuration and a running NATS.
LEMMA InitInvariant == Init => NodeInvariant
  <1> SUFFICES ASSUME Init PROVE NodeInvariant
    OBVIOUS
  <1> USE ManagedNodeAssumption DEF Init
  <1>1. TypeOK
    <2>1. up \in BOOLEAN /\ closing \in BOOLEAN
      OBVIOUS
    <2>2. /\ config \in Configs /\ {previous, base} \subseteq Configs \cup {None}
          /\ child \in Configs \cup {Killed, None}
      OBVIOUS
    <2>3. req \in [Admins -> Requests]
      BY DEF Idle, Requests
    <2>4. {ops, events, deaths, broken, exits} \subseteq Nat
      OBVIOUS
    <2> QED BY <2>1, <2>2, <2>3, <2>4 DEF TypeOK
  <1>2. StopsAccounted
    BY DEF StopsAccounted
  <1>3. FilesInOrder
    BY DEF FilesInOrder, Held, RecoveryFile
  <1>4. RequestsRecorded
    BY DEF RequestsRecorded, Idle, AuditHonest
  <1> QED
    BY <1>1, <1>2, <1>3, <1>4 DEF NodeInvariant

\* What the steps of the dashboard keep of the node (managed.rs).
LEMMA DashboardFrame ==
  ASSUME NodeInvariant, UNCHANGED <<node, up, holder>>
  PROVE  StopsAccounted' /\ FilesInOrder'
  BY DEF NodeInvariant, StopsAccounted, FilesInOrder, Held, RecoveryFile, node,
         files, history

\* An apply of the dashboard is recorded before it is sent, and what it records
\* last agrees with the answer (managed.rs apply, request).
LEMMA DashboardSteps ==
  ASSUME NodeInvariant, NEW a \in Admins, Client(a), UNCHANGED node
  PROVE  NodeInvariant'
  <1> USE ManagedNodeAssumption DEF NodeInvariant
  <1>1. CASE apply(a)
    <2> USE <1>1 DEF apply
    <2>1. TypeOK'
      BY DEF TypeOK, Requests, node, files, history, endpoint
    <2>2. StopsAccounted' /\ FilesInOrder'
      BY DashboardFrame DEF endpoint
    <2>3. RequestsRecorded'
      BY DEF RequestsRecorded, Requested, AuditHonest, TypeOK, files,
             endpoint, history, node
    <2> QED BY <2>1, <2>2, <2>3
  <1> USE DEF DashboardStep, Go
  <1>2. CASE Audit(a)
    <2> USE <1>2 DEF Audit, Disturb, Fault
    <2>1. StopsAccounted' /\ FilesInOrder'
      BY DashboardFrame
    <2>2. req[a] \in Requests /\ req[a].step = "audit"
      BY DEF TypeOK
    <2>3. CASE /\ log' = log \cup {<<req[a].op, "requested">>}
               /\ Send(a) /\ UNCHANGED events
      <3> USE <2>3 DEF Send
      <3> DEFINE w == [op |-> req[a].op, review |-> req[a].review]
      <3>1. req[a].review # None
        BY DEF RequestsRecorded
      <3>2. w \in Applies /\ w.op = req[a].op
        BY <2>2, <3>1 DEF Requests, Applies
      <3>3. waiting' \subseteq waiting \cup {w}
        OBVIOUS
      <3>4. req' = [req EXCEPT ![a].step = "sent"]
        OBVIOUS
      <3>5. req' \in [Admins -> Requests]
        BY <2>2, <3>4 DEF TypeOK, Requests
      <3>6. \A b \in Admins : /\ req'[b].op = req[b].op
                              /\ req'[b].review = req[b].review
                              /\ b # a => req'[b].step = req[b].step
                              /\ req'[b].step # "idle" => req[b].step # "idle"
        BY <2>2, <3>4 DEF TypeOK, Requests
      <3>7. req'[a].step = "sent"
        BY <3>4 DEF TypeOK
      <3> HIDE DEF w
      <3>8. TypeOK'
        BY <3>2, <3>3, <3>5 DEF TypeOK, node, files, history
      <3>9. RequestsRecorded'
        BY <3>2, <3>3, <3>6, <3>7, SMTT(30)
           DEF RequestsRecorded, Requested, AuditHonest, history
      <3> QED BY <2>1, <3>8, <3>9
    <2>4. CASE /\ req' = [req EXCEPT ![a] = Idle]
               /\ UNCHANGED <<log, waiting>> /\ Fault
      <3> USE <2>4 DEF Idle
      <3>1. TypeOK'
        BY DEF TypeOK, Requests, node, files, history
      <3>2. RequestsRecorded'
        BY DEF RequestsRecorded, Requested, AuditHonest, TypeOK, history
      <3> QED BY <2>1, <3>1, <3>2
    <2> QED BY <2>3, <2>4
  <1>3. CASE Timeout(a) \/ Unanswered(a)
    <2> USE <1>3 DEF Timeout, Unanswered, Disturb
    <2>1. /\ req' = [req EXCEPT ![a].step = "failed"] /\ req[a].step = "sent"
          /\ UNCHANGED <<pending, waiting, up, holder, log, ops, saved>>
          /\ events' \in Nat
      BY DEF TypeOK
    <2>2. TypeOK'
      BY <2>1 DEF TypeOK, Requests, node, files, history
    <2>3. StopsAccounted' /\ FilesInOrder'
      BY <2>1, DashboardFrame
    <2>4. RequestsRecorded'
      BY <2>1 DEF RequestsRecorded, Requested, AuditHonest, TypeOK, Requests,
                  history
    <2> QED BY <2>2, <2>3, <2>4
  <1>4. CASE Finish(a) \/ Leave(a)
    <2> USE <1>4 DEF Finish, Leave, Disturb, Fault
    <2>1. /\ req' = [req EXCEPT ![a] = Idle]
          /\ UNCHANGED <<pending, waiting, up, holder, ops, saved>>
          /\ events' \in Nat
      BY DEF TypeOK
    <2>2. TypeOK'
      BY <2>1 DEF TypeOK, Requests, Idle, node, files, history
    <2>3. StopsAccounted' /\ FilesInOrder'
      BY <2>1, DashboardFrame
    <2>4. /\ log \subseteq log'
          /\ \A event \in log' : event \in log \/ event \in {Result(a), Record(a)}
      OBVIOUS
    <2>5. \A event \in {Result(a), Record(a)} :
            event[2] = "result" => event[1] \in saved
      BY DEF Result, Record, RequestsRecorded
    <2>6. RequestsRecorded'
      BY <2>1, <2>4, <2>5
         DEF RequestsRecorded, Requested, AuditHonest, TypeOK, Requests, Idle,
             history
    <2> QED BY <2>2, <2>3, <2>6
  <1> QED BY <1>1, <1>2, <1>3, <1>4 DEF Client

\* What an answer changes: the one apply that waits for it.
LEMMA ReplyRecorded ==
  ASSUME NodeInvariant, NEW w \in Applies \cup Holders,
         NEW step \in {"ok", "failed"}, Reply(w, step), Requested(w.op),
         UNCHANGED log, saved \subseteq saved', step = "ok" => w.op \in saved'
  PROVE  /\ req' \in [Admins -> Requests]
         /\ (\A b \in Admins : req[b].step \in {"sent", "ok", "failed"} =>
                                   Requested(req[b].op))'
         /\ (\A b \in Admins : req[b].step = "ok" => req[b].op \in saved)'
         /\ (\A b \in Admins : req[b].step # "idle" => req[b].review # None)'
  <1> DEFINE a == w.review.admin
  <1>1. /\ req \in [Admins -> Requests]
        /\ \A b \in Admins : req[b].step \in {"sent", "ok", "failed"} =>
                                Requested(req[b].op)
        /\ \A b \in Admins : req[b].step = "ok" => req[b].op \in saved
        /\ \A b \in Admins : req[b].step # "idle" => req[b].review # None
    BY DEF NodeInvariant, TypeOK, RequestsRecorded
  <1>2. a \in Admins
    BY DEF Applies, Holders, Reviews
  <1>3. CASE req[a].step = "sent" /\ req[a].op = w.op
    <2>1. /\ req' = [req EXCEPT ![a].step = step]
          /\ req[a] \in Requests
      BY <1>1, <1>2, <1>3 DEF Reply
    <2> HIDE DEF a
    <2>2. req' \in [Admins -> Requests]
      BY <1>1, <2>1 DEF Requests
    <2>3. \A b \in Admins : \/ b # a /\ req'[b] = req[b]
                            \/ /\ b = a /\ req'[b].step = step
                               /\ req'[b].op = w.op /\ req'[b].review = req[a].review
      BY <1>1, <1>3, <2>1 DEF Requests
    <2>4. \A b \in Admins : req'[b].step \in {"sent", "ok", "failed"} =>
                                Requested(req'[b].op)
      BY <1>1, <2>3
    <2>5. \A b \in Admins : req'[b].step = "ok" => req'[b].op \in saved'
      BY <1>1, <2>3
    <2>6. \A b \in Admins : req'[b].step # "idle" => req'[b].review # None
      BY <1>1, <1>2, <1>3, <2>3
    <2> QED BY <2>2, <2>4, <2>5, <2>6 DEF Requested
  <1>4. CASE ~(req[a].step = "sent" /\ req[a].op = w.op)
    <2>1. req' = req
      BY <1>4 DEF Reply
    <2> QED BY <1>1, <2>1 DEF Requested
  <1> QED BY <1>3, <1>4

\* An apply that fails takes nothing back: what it has saved was recorded, and
\* is not called a result (server.py do_POST).
LEMMA FailsRecorded ==
  ASSUME NodeInvariant, holder # None, Fails, UNCHANGED <<log, waiting>>,
         saved \subseteq saved', \A op \in saved' : Requested(op)
  PROVE  req' \in [Admins -> Requests] /\ holder' = None /\ RequestsRecorded'
  <1>1. holder \in Applies \cup Holders /\ Requested(holder.op)
    BY DEF NodeInvariant, TypeOK, RequestsRecorded
  <1>2. Reply(holder, "failed") /\ holder' = None
    BY DEF Fails
  <1>3. /\ req' \in [Admins -> Requests]
        /\ (\A b \in Admins : req[b].step \in {"sent", "ok", "failed"} =>
                                 Requested(req[b].op))'
        /\ (\A b \in Admins : req[b].step = "ok" => req[b].op \in saved)'
        /\ (\A b \in Admins : req[b].step # "idle" => req[b].review # None)'
    BY <1>1, <1>2, ReplyRecorded
  <1>4. \A w \in waiting' : Requested(w.op)'
    BY DEF NodeInvariant, RequestsRecorded, Requested
  <1>5. AuditHonest'
    BY DEF NodeInvariant, RequestsRecorded, AuditHonest, Requested
  <1> QED BY <1>2, <1>3, <1>4, <1>5 DEF RequestsRecorded

\* A review leaves files and NATS alone (server.py preview).
LEMMA PreviewStep ==
  ASSUME NodeInvariant, NEW a \in Admins, preview(a)
  PROVE  NodeInvariant'
  <1> USE ManagedNodeAssumption DEF NodeInvariant, preview
  <1>1. TypeOK'
    BY DEF TypeOK, Reviews, Shown, node, files, dashboard, history
  <1>2. StopsAccounted' /\ FilesInOrder'
    BY DashboardFrame
  <1>3. RequestsRecorded'
    BY DEF RequestsRecorded, Requested, AuditHonest, node, files, dashboard, history
  <1> QED BY <1>1, <1>2, <1>3

\* An apply holds the lock only if it was recorded and binds the configuration
\* on disk, however long it waited (server.py apply).
LEMMA TakeStep ==
  ASSUME NodeInvariant, NEW w \in waiting, Refuse(w) \/ Take(w)
  PROVE  NodeInvariant'
  <1> USE ManagedNodeAssumption DEF NodeInvariant
  <1>1. /\ UNCHANGED <<node, up, log, ops, saved>> /\ up
        /\ holder = None /\ Requested(w.op)
        /\ waiting' \subseteq waiting /\ pending' \subseteq pending
    BY DEF Refuse, Take, RequestsRecorded
  <1>2. w \in Applies /\ w.op \in Nat /\ w.review \in Reviews
    BY DEF TypeOK, Applies
  <1>3. CASE /\ w.review.before = config
             /\ holder' = [step |-> "previous", op |-> w.op, review |-> w.review]
             /\ UNCHANGED <<req, events>>
    <2> USE <1>1, <1>3
    <2>1. /\ holder' \in Holders /\ holder'.step = "previous"
          /\ holder'.op = w.op /\ holder'.review = w.review
      BY <1>2 DEF Holders
    <2>2. TypeOK'
      BY <2>1 DEF TypeOK, node, files, history
    <2>3. holder' # None
      BY <2>1
    <2>4. StopsAccounted' /\ FilesInOrder'
      BY <2>1, <2>3 DEF StopsAccounted, FilesInOrder, Held, RecoveryFile, node,
                        files, history
    <2>5. RequestsRecorded'
      BY <2>1, <2>3 DEF RequestsRecorded, Requested, AuditHonest, node, history
    <2> QED BY <2>2, <2>4, <2>5
  <1>4. CASE Reply(w, "failed") /\ UNCHANGED holder /\ events' \in Nat
    <2> USE <1>1, <1>4
    <2>1. TypeOK'
      BY <1>2, ReplyRecorded DEF TypeOK, node, files, history
    <2>2. StopsAccounted' /\ FilesInOrder'
      BY DEF StopsAccounted, FilesInOrder, Held, RecoveryFile, node, files, history
    <2>3. RequestsRecorded'
      BY <1>2, ReplyRecorded DEF RequestsRecorded, Requested, AuditHonest, node, history
    <2> QED BY <2>1, <2>2, <2>3
  <1> QED
    BY <1>3, <1>4 DEF Refuse, Take, Fault, Disturb, TypeOK

\* The previous configuration is saved before the new one, and a write that
\* fails ends the apply (server.py apply, atomic).
LEMMA SaveSteps ==
  ASSUME NodeInvariant, SavePrevious \/ SaveConfig
  PROVE  NodeInvariant'
  <1> USE ManagedNodeAssumption DEF NodeInvariant, SaveStep, ApplyStep, Next_step
  <1>1. CASE SavePrevious
    <2>1. /\ holder \in Holders /\ holder.step = "previous" /\ holder # None
          /\ holder.review.before = config /\ holder.review.before \in Configs
          /\ UNCHANGED <<config, base, saved, child, closing, up, pending, waiting>>
          /\ UNCHANGED <<log, ops, deaths, broken, exits>>
      BY <1>1 DEF SavePrevious, TypeOK, Holders, Reviews, Held, FilesInOrder
    <2>2. CASE /\ previous' = holder.review.before /\ Next_step("config")
               /\ UNCHANGED events
      <3> USE <2>1, <2>2
      <3>1. /\ holder' \in Holders /\ holder'.step = "config" /\ holder' # None
            /\ holder'.op = holder.op /\ holder'.review = holder.review
        BY DEF Holders
      <3>2. TypeOK'
        BY <3>1 DEF TypeOK
      <3>3. StopsAccounted'
        BY <3>1 DEF StopsAccounted, Held
      <3>4. FilesInOrder'
        BY <3>1 DEF FilesInOrder, Held, RecoveryFile
      <3>5. RequestsRecorded'
        BY <3>1 DEF RequestsRecorded, Requested, AuditHonest
      <3> QED BY <3>2, <3>3, <3>4, <3>5
    <2>3. CASE Fails /\ Fault /\ previous' \in {previous, holder.review.before}
      <3> USE <2>1, <2>3
      <3>1. req' \in [Admins -> Requests] /\ holder' = None /\ RequestsRecorded'
        BY FailsRecorded DEF RequestsRecorded, AuditHonest, Requested
      <3>2. TypeOK'
        BY <3>1 DEF TypeOK, Fault, Disturb
      <3>3. StopsAccounted' /\ FilesInOrder'
        BY <3>1 DEF StopsAccounted, FilesInOrder, Held, RecoveryFile
      <3> QED BY <3>1, <3>2, <3>3
    <2> QED BY <1>1, <2>2, <2>3 DEF SavePrevious
  <1>2. CASE SaveConfig
    <2>1. /\ holder \in Holders /\ holder.step = "config" /\ holder # None
          /\ holder.review.config \in Configs /\ previous = config
          /\ Requested(holder.op)
          /\ UNCHANGED <<previous, child, closing, up, pending, waiting, log, ops>>
          /\ UNCHANGED <<deaths, broken, exits>>
      BY <1>2 DEF SaveConfig, TypeOK, Holders, Reviews, Held, FilesInOrder,
                  RequestsRecorded
    <2>2. \/ /\ config' = holder.review.config /\ base' = config
             /\ saved' = saved \cup {holder.op}
          \/ holder' = None /\ UNCHANGED <<config, base, saved>>
      BY <1>2 DEF SaveConfig
    <2>3. CASE /\ Next_step(IF holder.review.restart THEN "stop" ELSE "reload")
               /\ UNCHANGED events
      <3> USE <2>1, <2>3
      <3>1. /\ holder' \in Holders /\ holder'.step \in {"stop", "reload"}
            /\ holder' # None /\ holder'.op = holder.op
        BY DEF Holders
      <3>2. /\ config' = holder.review.config /\ base' = config
            /\ saved' = saved \cup {holder.op}
        BY <2>2, <3>1
      <3>3. TypeOK'
        BY <3>1, <3>2 DEF TypeOK
      <3>4. StopsAccounted' /\ FilesInOrder'
        BY <3>1, <3>2 DEF StopsAccounted, FilesInOrder, Held, RecoveryFile
      <3>5. RequestsRecorded'
        BY <3>1, <3>2 DEF RequestsRecorded, Requested, AuditHonest
      <3> QED BY <3>3, <3>4, <3>5
    <2>4. CASE Fails /\ Fault
      <3> USE <2>1, <2>4
      <3>1. saved \subseteq saved' /\ \A op \in saved' : Requested(op)
        BY <2>2 DEF RequestsRecorded, AuditHonest, Requested
      <3>2. req' \in [Admins -> Requests] /\ holder' = None /\ RequestsRecorded'
        BY <3>1, FailsRecorded
      <3>3. TypeOK'
        BY <2>2, <3>2 DEF TypeOK, Fault, Disturb
      <3>4. StopsAccounted' /\ FilesInOrder'
        BY <2>2, <3>2 DEF StopsAccounted, FilesInOrder, Held, RecoveryFile
      <3> QED BY <3>2, <3>3, <3>4
    <2> QED BY <1>2, <2>3, <2>4 DEF SaveConfig
  <1> QED BY <1>1, <1>2

\* An apply that has saved goes on to its next step, whatever NATS does.
LEMMA SavedGoesOn ==
  ASSUME NodeInvariant, holder \in Holders,
         holder.step \in {"stop", "start", "reload", "observe"},
         NEW step \in {"start", "observe"}, Next_step(step),
         child' \in Configs \cup {Killed, None}, events' \in Nat,
         UNCHANGED <<files, base, saved, closing, up, pending, waiting, log>>,
         UNCHANGED <<ops, deaths, broken, exits>>
  PROVE  /\ holder' # None /\ holder'.step = step
         /\ TypeOK' /\ FilesInOrder' /\ RequestsRecorded'
  <1> USE ManagedNodeAssumption DEF NodeInvariant, files
  <1>1. /\ holder' \in Holders /\ holder'.step = step /\ holder # None
        /\ holder' # None /\ holder'.op = holder.op /\ UNCHANGED req
    BY DEF Next_step, Holders
  <1>2. TypeOK'
    BY <1>1 DEF TypeOK
  <1>3. FilesInOrder'
    BY <1>1 DEF FilesInOrder, Held, RecoveryFile
  <1>4. RequestsRecorded'
    BY <1>1 DEF RequestsRecorded, Requested, AuditHonest
  <1> QED BY <1>1, <1>2, <1>3, <1>4

\* An apply that has saved and fails has saved all the same.
LEMMA SavedFails ==
  ASSUME NodeInvariant, holder \in Holders,
         Fails, child' \in Configs \cup {Killed, None}, events' \in Nat,
         broken' \in Nat,
         UNCHANGED <<files, base, saved, closing, up, pending, waiting, log>>,
         UNCHANGED <<ops, deaths, exits>>
  PROVE  holder' = None /\ TypeOK' /\ FilesInOrder' /\ RequestsRecorded'
  <1> USE ManagedNodeAssumption DEF NodeInvariant, files
  <1>1. req' \in [Admins -> Requests] /\ holder' = None /\ RequestsRecorded'
    <2>1. holder # None /\ \A op \in saved' : Requested(op)
      BY DEF RequestsRecorded, AuditHonest, Requested
    <2> QED BY <2>1, FailsRecorded
  <1>2. TypeOK'
    BY <1>1 DEF TypeOK
  <1>3. FilesInOrder'
    BY <1>1 DEF FilesInOrder, Held, RecoveryFile
  <1> QED BY <1>1, <1>2, <1>3

\* A reviewed restart stops NATS under the lock and starts it under the lock,
\* or fails and is counted; an apply that finds NATS stopped is answered "saved
\* but stopped", and leaves the rest to watch_child (server.py stop, start,
\* apply).
LEMMA ChildSteps ==
  ASSUME NodeInvariant, Stop \/ Start \/ Reload \/ Observe
  PROVE  NodeInvariant'
  <1> USE ManagedNodeAssumption DEF NodeInvariant, ChildStep, ApplyStep
  <1>1. /\ holder \in Holders /\ holder # None
        /\ holder.step \in {"stop", "start", "reload", "observe"}
        /\ UNCHANGED <<files, base, saved, closing, up, pending, waiting, log>>
        /\ UNCHANGED <<ops, deaths, exits>>
        /\ {config, child} \subseteq Configs \cup {Killed, None} /\ config \in Configs
        /\ {events, broken, broken + 1, deaths, exits} \subseteq Nat
        /\ events + 1 \in Nat
    BY DEF TypeOK, Stop, Start, Reload, Observe, Held
  <1>2. CASE Stop
    <2>1. CASE child' = None /\ Next_step("start") /\ UNCHANGED <<events, broken>>
      <3>1. /\ holder' # None /\ holder'.step = "start"
            /\ TypeOK' /\ FilesInOrder' /\ RequestsRecorded'
        BY <1>1, <2>1, SavedGoesOn
      <3>2. StopsAccounted'
        BY <1>1, <2>1, <3>1 DEF StopsAccounted, Held
      <3> QED BY <3>1, <3>2
    <2>2. CASE /\ child # None /\ child' = Killed
               /\ Fails /\ Fault /\ broken' = broken + 1
      <3>1. events' \in Nat
        BY <1>1, <2>2 DEF Fault, Disturb
      <3>2. holder' = None /\ TypeOK' /\ FilesInOrder' /\ RequestsRecorded'
        BY <1>1, <2>2, <3>1, SavedFails
      <3>3. StopsAccounted'
        BY <1>1, <2>2, <3>2 DEF StopsAccounted, Held
      <3> QED BY <3>2, <3>3
    <2> QED BY <1>2, <2>1, <2>2 DEF Stop
  <1>3. CASE Start
    <2>1. CASE child' = config /\ Next_step("observe") /\ UNCHANGED <<events, broken>>
      <3>1. /\ holder' # None /\ holder'.step = "observe"
            /\ TypeOK' /\ FilesInOrder' /\ RequestsRecorded'
        BY <1>1, <2>1, SavedGoesOn
      <3>2. StopsAccounted'
        BY <1>1, <2>1, <3>1 DEF StopsAccounted, Held, TypeOK
      <3> QED BY <3>1, <3>2
    <2>2. CASE Fails /\ Fault /\ broken' = broken + 1 /\ UNCHANGED child
      <3>1. events' \in Nat
        BY <1>1, <2>2 DEF Fault, Disturb
      <3>2. holder' = None /\ TypeOK' /\ FilesInOrder' /\ RequestsRecorded'
        BY <1>1, <2>2, <3>1, SavedFails
      <3>3. StopsAccounted'
        BY <1>1, <2>2, <3>2 DEF StopsAccounted, Held
      <3> QED BY <3>2, <3>3
    <2> QED BY <1>3, <2>1, <2>2 DEF Start
  <1>4. CASE Reload
    <2>1. Held("reload") /\ ~Held("start") /\ UNCHANGED broken
      BY <1>4 DEF Reload, Held
    <2>2. CASE child = None /\ Fails /\ UNCHANGED <<child, events>>
      <3>1. holder' = None /\ TypeOK' /\ FilesInOrder' /\ RequestsRecorded'
        BY <1>1, <2>1, <2>2, SavedFails
      <3>2. StopsAccounted'
        BY <1>1, <2>1, <2>2, <3>1 DEF StopsAccounted
      <3> QED BY <3>1, <3>2
    <2>3. CASE /\ child # None /\ Next_step("observe")
               /\ \/ child' = (IF child = Killed THEN Killed ELSE config)
                     /\ UNCHANGED events
                  \/ Fault /\ UNCHANGED child
      <3>1. /\ child' \in Configs \cup {Killed, None} /\ events' \in Nat
            /\ child' \in Configs <=> child \in Configs
        BY <1>1, <2>3 DEF Fault, Disturb
      <3>2. /\ holder' # None /\ holder'.step = "observe"
            /\ TypeOK' /\ FilesInOrder' /\ RequestsRecorded'
        BY <1>1, <2>1, <2>3, <3>1, SavedGoesOn
      <3>3. StopsAccounted'
        BY <1>1, <2>1, <3>1, <3>2 DEF StopsAccounted
      <3> QED BY <3>2, <3>3
    <2> QED BY <1>4, <2>2, <2>3 DEF Reload
  <1>5. CASE Observe
    <2>1. Held("observe") /\ ~Held("start") /\ UNCHANGED <<child, broken>>
      BY <1>5 DEF Observe, Held
    <2>2. CASE Reply(holder, "ok") /\ holder' = None /\ UNCHANGED events
      <3>1. holder.op \in saved /\ Requested(holder.op)
        BY <1>1, <2>1 DEF Held, RequestsRecorded
      <3>2. /\ req' \in [Admins -> Requests]
            /\ (\A b \in Admins : req[b].step \in {"sent", "ok", "failed"} =>
                                     Requested(req[b].op))'
            /\ (\A b \in Admins : req[b].step = "ok" => req[b].op \in saved)'
            /\ (\A b \in Admins : req[b].step # "idle" => req[b].review # None)'
        BY <1>1, <2>2, <3>1, ReplyRecorded
      <3>3. TypeOK'
        BY <1>1, <2>1, <2>2, <3>2 DEF TypeOK, files
      <3>4. StopsAccounted'
        BY <1>1, <2>1, <2>2 DEF StopsAccounted
      <3>5. FilesInOrder'
        BY <1>1, <2>2 DEF FilesInOrder, Held, RecoveryFile, files
      <3>6. RequestsRecorded'
        BY <1>1, <2>2, <3>2 DEF RequestsRecorded, Requested, AuditHonest
      <3> QED BY <3>3, <3>4, <3>5, <3>6
    <2>3. CASE Fails /\ Fault
      <3>1. events' \in Nat
        BY <1>1, <2>3 DEF Fault, Disturb
      <3>2. holder' = None /\ TypeOK' /\ FilesInOrder' /\ RequestsRecorded'
        BY <1>1, <2>1, <2>3, <3>1, SavedFails
      <3>3. StopsAccounted'
        BY <1>1, <2>1, <3>2 DEF StopsAccounted
      <3> QED BY <3>2, <3>3
    <2> QED BY <1>5, <2>2, <2>3 DEF Observe
  <1> QED BY <1>2, <1>3, <1>4, <1>5

\* What the container does of its own accord.
ByItself ==
    \/ ChildDies \/ KilledEnds \/ watch_child
    \/ Crash \/ Terminate \/ StopOnExit \/ End \/ Boot

\* NATS may end, and the container with all the controller remembers, told to
\* or not; it is started again from nats.json (server.py watch_child, main).
LEMMA ProcessSteps ==
  ASSUME NodeInvariant, ByItself
  PROVE  NodeInvariant'
  <1> USE ManagedNodeAssumption
      DEF NodeInvariant, ByItself, ProcessStep, files, dashboard
  <1>1. /\ UNCHANGED <<config, previous, base, broken, req, log, ops, saved>>
        /\ waiting' \subseteq waiting /\ pending' \subseteq pending
        /\ holder' = holder \/ holder' = None
    BY DEF ChildDies, KilledEnds, watch_child, Crash, Terminate, StopOnExit, End,
           Exit, Boot
  <1>2. child' \in Configs \cup {Killed, None}
    BY DEF TypeOK, ChildDies, KilledEnds, watch_child, Crash, Terminate, StopOnExit,
           End, Exit, Boot
  <1>3. up' \in BOOLEAN /\ closing' \in BOOLEAN
    BY DEF TypeOK, ChildDies, KilledEnds, watch_child, Crash, Terminate, StopOnExit,
           End, Exit, Boot
  <1>4. {events', deaths', exits'} \subseteq Nat
    BY DEF TypeOK, ChildDies, KilledEnds, watch_child, Crash, Terminate, StopOnExit,
           End, Exit, Boot, Disturb
  <1>5. TypeOK'
    BY <1>1, <1>2, <1>3, <1>4 DEF TypeOK
  <1>6. StopsAccounted'
    <2> USE DEF StopsAccounted, TypeOK, Held
    <2>1. CASE ChildDies
      BY <2>1 DEF ChildDies
    <2>2. CASE KilledEnds
      BY <2>2 DEF KilledEnds
    <2>3. CASE watch_child
      BY <2>3 DEF watch_child, Exit
    <2>4. CASE Crash \/ End
      BY <2>4 DEF Crash, End, Exit
    <2>5. CASE Terminate \/ StopOnExit
      BY <2>5 DEF Terminate, StopOnExit
    <2>6. CASE Boot
      BY <2>6 DEF Boot
    <2> QED BY <2>1, <2>2, <2>3, <2>4, <2>5, <2>6
  <1>7. FilesInOrder'
    BY <1>1 DEF FilesInOrder, Held, RecoveryFile
  <1>8. RequestsRecorded'
    BY <1>1 DEF RequestsRecorded, Requested, AuditHonest
  <1> QED BY <1>5, <1>6, <1>7, <1>8

\* The invariant is inductive: every state of a managed node keeps it.
LEMMA InductiveInvariant == Spec => []NodeInvariant
  <1>1. Init => NodeInvariant
    BY InitInvariant
  <1>2. NodeInvariant /\ [Next]_vars => NodeInvariant'
    <2> SUFFICES ASSUME NodeInvariant, [Next]_vars PROVE NodeInvariant'
      OBVIOUS
    <2>1. CASE (\E a \in Admins : preview(a)) \/ (\E w \in waiting : Refuse(w) \/ Take(w))
      BY <2>1, PreviewStep, TakeStep
    <2>2. CASE \E a \in Admins : Client(a) /\ UNCHANGED node
      BY <2>2, DashboardSteps
    <2>3. CASE Applying
      BY <2>3, SaveSteps, ChildSteps DEF Applying
    <2>4. CASE ByItself
      BY <2>4, ProcessSteps
    <2>5. CASE UNCHANGED vars
      BY <2>5 DEF vars, node, files, endpoint, dashboard, history, NodeInvariant,
                  TypeOK, StopsAccounted, FilesInOrder, RequestsRecorded,
                  Requested, Held, RecoveryFile, AuditHonest
    <2> QED BY <2>1, <2>2, <2>3, <2>4, <2>5 DEF Next, ByItself
  <1> QED BY <1>1, <1>2, PTL DEF Spec

\* previous.json always allows the manual recovery the documentation promises:
\* it holds what the last change replaced, or what nats.json still holds
\* (server.py apply, lines 211 to 213).
THEOREM RecoveryFileHolds == Spec => []RecoveryFile
  <1>1. NodeInvariant => RecoveryFile
    BY DEF NodeInvariant, FilesInOrder
  <1> QED BY <1>1, InductiveInvariant, PTL

\* However applies, deaths, restarts and orderly ends interleave, watch_child
\* takes no reviewed restart for an end of NATS, unless that restart has failed
\* to stop or to start it (server.py watch_child, stop, start).
THEOREM ReviewedRestartsStay == Spec => []ReviewedRestartStays
  <1>1. NodeInvariant => ReviewedRestartStays
    BY DEF NodeInvariant, StopsAccounted, ReviewedRestartStays
  <1> QED BY <1>1, InductiveInvariant, PTL

\* Through lost answers, failed writes and crashes of both processes, nothing
\* is saved unrecorded and no result is claimed for what was not saved
\* (managed.rs apply).
THEOREM AuditIsHonest == Spec => []AuditHonest
  <1>1. NodeInvariant => AuditHonest
    BY DEF NodeInvariant, RequestsRecorded
  <1> QED BY <1>1, InductiveInvariant, PTL

-----------------------------------------------------------------------------
(* The promise of a managed endpoint.                                      *)

\* Steps of an apply that has not replaced nats.json yet.
Early == {"previous", "config"}

Once == RequestsOnce /\ AsksOnce(Early)

\* Requested(op) after the step.
RequestedThen(op) == <<op, "requested">> \in log'

Promised == <<up, config, Asks, log, saved>>

\* A dashboard request that moves on leaves the others with names of their
\* own, and each on record from when it is sent (managed.rs apply).
LEMMA RequestMoves ==
  ASSUME RequestsOnce, req \in [Admins -> Requests],
         NEW a \in Admins, NEW new \in Requests, req' = [req EXCEPT ![a] = new],
         ops \in Nat, ops' \in Nat, ops <= ops', ops' <= MaxOps, MaxOps \in Nat,
         log \subseteq log', log' \subseteq (1 .. ops') \X Kinds,
         saved \subseteq saved', \A op \in saved' : RequestedThen(op),
         \A b \in Admins \ {a} : req[b].step # "idle" =>
            RequestedThen(req[b].op) <=> Requested(req[b].op),
         new.step # "idle" =>
            /\ new.op \in 1 .. ops'
            /\ RequestedThen(new.op) <=> new.step # "audit"
            /\ new.step = "ok" => new.op \in saved'
            /\ \A b \in Admins \ {a} : req[b].step # "idle" => req[b].op # new.op
  PROVE  RequestsOnce'
  <1>1. \A b \in Admins : req'[b] = IF b = a THEN new ELSE req[b]
    OBVIOUS
  <1>2. \A b \in Admins :
          req'[b].step # "idle" =>
             /\ req'[b].op \in 1 .. ops'
             /\ RequestedThen(req'[b].op) <=> req'[b].step # "audit"
             /\ req'[b].step = "ok" => req'[b].op \in saved'
    <2> TAKE b \in Admins
    <2>1. CASE b = a
      BY <1>1, <2>1
    <2>2. CASE b # a
      <3>1. req'[b] = req[b]
        BY <1>1, <2>2
      <3>2. req[b].step # "idle" =>
               /\ req[b].op \in 1 .. ops'
               /\ RequestedThen(req[b].op) <=> req[b].step # "audit"
               /\ req[b].step = "ok" => req[b].op \in saved'
        BY <2>2 DEF RequestsOnce
      <3> QED BY <3>1, <3>2
    <2> QED BY <2>1, <2>2
  <1>3. \A b, c \in Admins :
          b # c /\ req'[b].step # "idle" /\ req'[c].step # "idle" =>
             req'[b].op # req'[c].op
    BY <1>1 DEF RequestsOnce
  <1> QED BY <1>2, <1>3 DEF RequestsOnce, Requested, RequestedThen

\* An answer ends at most the wait of the apply it is for, and says that it
\* took effect only if it did.
LEMMA ReplyOnce ==
  ASSUME RequestsOnce, TypeOK, NEW w \in Applies \cup Holders,
         NEW step \in {"ok", "failed"}, Reply(w, step), UNCHANGED <<log, ops>>,
         saved \subseteq saved', \A op \in saved' : Requested(op),
         step = "ok" => w.op \in saved'
  PROVE  RequestsOnce'
  <1> USE ManagedNodeAssumption DEF TypeOK
  <1>1. CASE req' = req
    BY <1>1 DEF RequestsOnce, Requested
  <1>2. CASE req' # req
    <2> DEFINE a == w.review.admin
               new == [req[a] EXCEPT !.step = step]
    <2>1. a \in Admins
      BY DEF Applies, Holders, Reviews
    <2>2. /\ req[a].step = "sent" /\ req[a].op = w.op /\ req[a] \in Requests
          /\ req' = [req EXCEPT ![a].step = step]
      BY <1>2, <2>1 DEF Reply
    <2>3. /\ new \in Requests /\ new.step = step /\ new.op = w.op
          /\ req' = [req EXCEPT ![a] = new]
      BY <2>2 DEF Requests
    <2>4. /\ w.op \in 1 .. ops /\ Requested(w.op)
          /\ \A b \in Admins \ {a} : req[b].step # "idle" => req[b].op # w.op
      BY <2>1, <2>2 DEF RequestsOnce
    <2>5. /\ ops <= ops' /\ ops' <= MaxOps
          /\ log' \subseteq (1 .. ops') \X Kinds
          /\ \A op : RequestedThen(op) <=> Requested(op)
      BY DEF RequestsOnce, Requested, RequestedThen
    <2> HIDE DEF a, new
    <2> QED BY <2>1, <2>3, <2>4, <2>5, RequestMoves
  <1> QED BY <1>1, <1>2

\* Whoever gives up, is refused or is forgotten leaves the rest as it was.
LEMMA AsksDropped ==
  ASSUME AsksOnce(Early), waiting' \subseteq waiting, holder' \in {holder, None},
         UNCHANGED saved, log \subseteq log'
  PROVE  AsksOnce(Early)' /\ Asks' \subseteq Asks
  <1>1. AsksOnce(Early)'
    BY DEF AsksOnce, Requested
  <1>2. HeldAsk' \subseteq HeldAsk
    BY DEF HeldAsk, Held
  <1> QED BY <1>1, <1>2 DEF Asks

\* A request of the dashboard is asked once it is recorded, under a name that
\* nothing has borne, and concluded with what came of it (managed.rs apply).
LEMMA ClientPromise ==
  ASSUME TypeOK, Once, NEW a \in Admins, Client(a), UNCHANGED node
  PROVE  Once' /\ [Promise!Next]_Promised
  <1> USE ManagedNodeAssumption DEF Once, TypeOK
  <1>1. /\ req[a] \in Requests /\ UNCHANGED <<config, saved, up, holder>>
        /\ HeldAsk' = HeldAsk
    BY DEF node, files, Client, apply, endpoint, Audit, Timeout, Unanswered,
           Finish, Leave, DashboardStep, HeldAsk, Held
  <1>2. req[a].step # "idle" =>
           /\ req[a].op \in 1 .. ops /\ req[a].op \in 1 .. MaxOps
           /\ \A b \in Admins \ {a} : req[b].step # "idle" => req[b].op # req[a].op
    BY DEF RequestsOnce
  <1>3. CASE apply(a)
    <2>1. PICK r \in pending :
             /\ r.admin = a
             /\ req' = [req EXCEPT ![a] = [step |-> "audit", op |-> ops', review |-> r]]
      BY <1>3 DEF apply
    <2>2. /\ req[a].step = "idle" /\ ops < MaxOps /\ ops' = ops + 1
          /\ UNCHANGED <<waiting, log>>
      BY <1>3 DEF apply, endpoint
    <2>3. /\ ops' \in 1 .. ops' /\ ops' <= MaxOps /\ ops <= ops'
          /\ log' \subseteq (1 .. ops') \X Kinds
          /\ \A op : RequestedThen(op) <=> Requested(op)
          /\ ~Requested(ops')
          /\ \A b \in Admins : req[b].step # "idle" => req[b].op # ops'
      BY <2>2 DEF RequestsOnce, Requested, RequestedThen
    <2>4. [step |-> "audit", op |-> ops', review |-> r] \in Requests
      BY <2>1, <2>2 DEF Requests
    <2>5. \A op \in saved' : RequestedThen(op)
      BY <1>1, <2>3 DEF RequestsOnce
    <2> DEFINE new == [step |-> "audit", op |-> ops', review |-> r]
    <2>6. RequestsOnce'
      <3>1. new.step = "audit" /\ new.op = ops' /\ req' = [req EXCEPT ![a] = new]
        BY <2>1
      <3>2. new \in Requests
        BY <2>4
      <3>3. saved \subseteq saved' /\ log \subseteq log'
        BY <1>1, <2>2
      <3> HIDE DEF new
      <3>4. new.step # "idle" =>
              /\ new.op \in 1 .. ops'
              /\ RequestedThen(new.op) <=> new.step # "audit"
              /\ new.step = "ok" => new.op \in saved'
              /\ \A b \in Admins \ {a} : req[b].step # "idle" => req[b].op # new.op
        BY <2>3, <3>1
      <3>5. \A b \in Admins \ {a} : req[b].step # "idle" =>
              RequestedThen(req[b].op) <=> Requested(req[b].op)
        BY <2>3
      <3>6. ops \in Nat /\ ops' \in Nat
        BY <2>2
      <3> QED BY <2>3, <2>5, <3>1, <3>2, <3>3, <3>4, <3>5, <3>6, RequestMoves
    <2>7. AsksOnce(Early)'
      BY <1>1, <2>2, AsksDropped
    <2>8. UNCHANGED Promised
      BY <1>1, <2>2 DEF Promised, Asks
    <2> QED BY <2>6, <2>7, <2>8
  <1>4. CASE Audit(a) /\ req' # [req EXCEPT ![a] = Idle]
    <2> DEFINE op == req[a].op
               w == [op |-> op, review |-> req[a].review]
    <2>1. /\ req[a].step = "audit" /\ req' = [req EXCEPT ![a].step = "sent"]
          /\ log' = log \cup {<<op, "requested">>}
          /\ waiting' = waiting \/ (up /\ waiting' = waiting \cup {w})
          /\ UNCHANGED ops
      BY <1>4 DEF Audit, Send, Go, DashboardStep
    <2>2. /\ ~Requested(op) /\ op \in 1 .. ops
          /\ \A b \in Admins \ {a} : req[b].step # "idle" => req[b].op # op
      BY <2>1 DEF RequestsOnce
    <2> DEFINE new == [req[a] EXCEPT !.step = "sent"]
    <2>3. /\ new \in Requests /\ new.op = op /\ new.step = "sent"
          /\ req' = [req EXCEPT ![a] = new]
      BY <1>1, <2>1 DEF Requests
    <2>4. w.op = op
      OBVIOUS
    <2> HIDE DEF op, w, new
    <2>5. /\ log \subseteq log' /\ log' \subseteq (1 .. ops') \X Kinds
          /\ RequestedThen(op) /\ \A o : o # op => (RequestedThen(o) <=> Requested(o))
          /\ ops <= ops' /\ ops' <= MaxOps
      BY <2>1, <2>2 DEF RequestsOnce, Kinds, RequestedThen, Requested
    <2>6. \A o \in saved' : RequestedThen(o)
      BY <1>1, <2>5 DEF RequestsOnce
    <2>7. RequestsOnce'
      <3>1. saved \subseteq saved'
        BY <1>1
      <3>2. \A b \in Admins \ {a} : req[b].step # "idle" =>
              RequestedThen(req[b].op) <=> Requested(req[b].op)
        BY <2>2, <2>5
      <3>3. new.step # "idle" =>
              /\ new.op \in 1 .. ops'
              /\ RequestedThen(new.op) <=> new.step # "audit"
              /\ new.step = "ok" => new.op \in saved'
              /\ \A b \in Admins \ {a} : req[b].step # "idle" => req[b].op # new.op
        BY <2>1, <2>2, <2>3, <2>5
      <3>4. /\ ops \in Nat /\ ops' \in Nat /\ MaxOps \in Nat
            /\ RequestsOnce /\ req \in [Admins -> Requests]
        BY <1>1, <1>2, <2>1
      <3> QED BY <2>3, <2>5, <2>6, <3>1, <3>2, <3>3, <3>4, RequestMoves
    <2>8. AsksOnce(Early)'
      <3>1. op \notin saved
        BY <2>2 DEF RequestsOnce
      <3>2. \A v \in waiting : v.op # op
        BY <2>2 DEF AsksOnce
      <3>3. holder # None => holder.op # op
        BY <2>2 DEF AsksOnce
      <3>4. \A v \in waiting' : v = w \/ v \in waiting
        BY <2>1
      <3> QED BY <1>1, <2>1, <2>4, <2>5, <3>1, <3>2, <3>3, <3>4
              DEF AsksOnce, Requested, RequestedThen
    <2>9. Promise!Ask(op)
      <3>1. Asks' = Asks \/ (up /\ Asks' = Asks \cup {w})
        BY <1>1, <2>1 DEF Asks
      <3> QED BY <1>1, <2>1, <2>2, <2>4, <3>1 DEF Promise!Ask, Requested
    <2>10. op \in 1 .. MaxOps
      BY <1>2, <2>1 DEF op
    <2> QED BY <2>7, <2>8, <2>9, <2>10 DEF Promise!Next
  <1>5. CASE Timeout(a) \/ Unanswered(a)
    <2> DEFINE new == [req[a] EXCEPT !.step = "failed"]
    <2>1. /\ req[a].step = "sent" /\ req' = [req EXCEPT ![a].step = "failed"]
          /\ UNCHANGED <<log, waiting, ops>>
      BY <1>5 DEF Timeout, Unanswered, Go, DashboardStep
    <2>2. /\ new \in Requests /\ new.op = req[a].op /\ new.step = "failed"
          /\ req' = [req EXCEPT ![a] = new]
      BY <1>1, <2>1 DEF Requests
    <2>3. /\ \A op : RequestedThen(op) <=> Requested(op)
          /\ log' \subseteq (1 .. ops') \X Kinds /\ ops <= ops' /\ ops' <= MaxOps
          /\ Requested(req[a].op)
      BY <2>1 DEF RequestedThen, Requested, RequestsOnce
    <2> HIDE DEF new
    <2>4. \A op \in saved' : RequestedThen(op)
      BY <1>1, <2>3 DEF RequestsOnce
    <2>5. RequestsOnce'
      <3>1. /\ log \subseteq log' /\ saved \subseteq saved'
            /\ ops \in Nat /\ ops' \in Nat /\ MaxOps \in Nat
            /\ RequestsOnce /\ req \in [Admins -> Requests]
        BY <1>1, <1>2, <2>1
      <3>2. /\ new.op \in 1 .. ops'
            /\ \A b \in Admins \ {a} : req[b].step # "idle" => req[b].op # new.op
        BY <1>1, <2>1, <2>2, <3>1 DEF RequestsOnce
      <3> QED BY <2>2, <2>3, <2>4, <3>1, <3>2, RequestMoves
    <2>6. AsksOnce(Early)' /\ UNCHANGED Promised
      BY <1>1, <2>1, AsksDropped DEF Promised, Asks
    <2> QED BY <2>5, <2>6
  <1>6. CASE /\ Audit(a) \/ Finish(a) \/ Leave(a)
             /\ req' = [req EXCEPT ![a] = Idle]
    <2>1. /\ UNCHANGED <<waiting, ops>> /\ req[a].step # "idle"
          /\ \/ log' = log
             \/ req[a].step # "sent" /\ log' = log \cup {Record(a)}
      <3>1. CASE Audit(a)
        <4>1. CASE Send(a)
          <5>1. req'[a].step = "sent" /\ Idle.step = "idle" /\ req'[a] = Idle
            BY <1>1, <1>6, <4>1 DEF Send, Go, Requests, Idle
          <5> QED BY <5>1
        <4> QED BY <3>1, <4>1 DEF Audit, DashboardStep
      <3>2. CASE Finish(a)
        BY <3>2 DEF Finish, DashboardStep, Record, Result
      <3>3. CASE Leave(a)
        BY <3>3 DEF Leave, DashboardStep
      <3> QED BY <1>6, <3>1, <3>2, <3>3
    <2>2. Idle \in Requests /\ Idle.step = "idle"
      BY DEF Idle, Requests
    <2>3. Record(a) \in (1 .. ops) \X Kinds /\ Record(a)[1] = req[a].op
      BY <1>2, <2>1 DEF Record, Result, Kinds
    <2>4. /\ log \subseteq log' /\ log' \subseteq (1 .. ops') \X Kinds
          /\ ops <= ops' /\ ops' <= MaxOps
      BY <2>1, <2>3 DEF RequestsOnce
    <2>5. \A op : op # req[a].op => (RequestedThen(op) <=> Requested(op))
      BY <2>1, <2>3 DEF RequestedThen, Requested
    <2>6. \A op \in saved' : RequestedThen(op)
      BY <1>1, <2>4 DEF RequestsOnce, RequestedThen, Requested
    <2>7. RequestsOnce'
      BY <1>1, <1>2, <1>6, <2>1, <2>2, <2>4, <2>5, <2>6, RequestMoves
    <2>8. AsksOnce(Early)' /\ Asks' = Asks
      BY <1>1, <2>1, <2>4, AsksDropped DEF Asks
    <2>9. log' # log =>
            Promise!Ask(req[a].op) \/ Promise!Conclude(req[a].op)
      <3> SUFFICES ASSUME log' # log
                   PROVE  Promise!Ask(req[a].op) \/ Promise!Conclude(req[a].op)
        OBVIOUS
      <3>1. req[a].step \notin {"idle", "sent"} /\ log' = log \cup {Record(a)}
        BY <2>1
      <3>2. CASE req[a].step = "audit"
        BY <1>1, <2>1, <2>8, <3>1, <3>2
           DEF Record, Promise!Ask, RequestsOnce, Requested
      <3>3. CASE req[a].step = "ok"
        BY <1>1, <2>1, <2>8, <3>1, <3>3
           DEF Record, Result, Promise!Conclude, RequestsOnce
      <3>4. CASE req[a].step = "failed"
        BY <1>1, <2>1, <2>8, <3>1, <3>4
           DEF Record, Result, Promise!Conclude, RequestsOnce, Requested
      <3> QED BY <1>1, <3>1, <3>2, <3>3, <3>4 DEF Requests
    <2>10. log' = log => UNCHANGED Promised
      BY <1>1, <2>8 DEF Promised
    <2> QED BY <1>2, <2>1, <2>7, <2>8, <2>9, <2>10 DEF Promise!Next
  <1> QED
    BY <1>3, <1>4, <1>5, <1>6 DEF Client, Finish, Leave

\* Whatever only drops asks is allowed, whether or not it answers them.
LEMMA DroppedPromise ==
  ASSUME Once, RequestsOnce', waiting' \subseteq waiting,
         holder' \in {holder, None}, UNCHANGED <<up, config, log, saved>>
  PROVE  Once' /\ [Promise!Next]_Promised
  <1>1. AsksOnce(Early)' /\ Asks' \subseteq Asks
    BY AsksDropped DEF Once
  <1>2. Promise!Drop
    BY <1>1 DEF Promise!Drop
  <1> QED BY <1>1, <1>2 DEF Once, Promise!Next

\* A review and a refusal carry out nothing; an apply that gets the lock is
\* the one that was received (server.py preview, apply).
LEMMA LockPromise ==
  ASSUME TypeOK, Once,
         \/ \E a \in Admins : preview(a)
         \/ \E w \in waiting : Refuse(w) \/ Take(w)
  PROVE  Once' /\ [Promise!Next]_Promised
  <1> USE ManagedNodeAssumption DEF TypeOK
  <1>1. ASSUME NEW a \in Admins, preview(a)
        PROVE  Once' /\ [Promise!Next]_Promised
    <2>1. UNCHANGED <<node, up, waiting, holder, dashboard, ops, saved>>
      BY <1>1 DEF preview
    <2>2. RequestsOnce'
      BY <2>1 DEF Once, RequestsOnce, Requested, dashboard
    <2> QED BY <2>1, <2>2, DroppedPromise DEF node, files, dashboard
  <1>2. ASSUME NEW w \in waiting, waiting' = waiting \ {w}, Reply(w, "failed"),
               UNCHANGED <<node, up, holder, log, ops, saved>>
        PROVE  Once' /\ [Promise!Next]_Promised
    <2>1. w \in Applies /\ \A op \in saved' : Requested(op)
      BY <1>2 DEF Once, RequestsOnce
    <2>2. RequestsOnce'
      BY <1>2, <2>1, ReplyOnce DEF Once
    <2> QED BY <1>2, <2>2, DroppedPromise DEF node, files
  <1>3. ASSUME NEW w \in waiting, waiting' = waiting \ {w}, holder = None,
               holder' = [step |-> "previous", op |-> w.op, review |-> w.review],
               UNCHANGED <<node, up, req, log, ops, saved>>
        PROVE  Once' /\ [Promise!Next]_Promised
    <2>1. RequestsOnce'
      BY <1>3 DEF Once, RequestsOnce, Requested
    <2>2. /\ holder'.op = w.op /\ holder'.step = "previous"
          /\ holder'.review = w.review
      BY <1>3
    <2>3. w \in Applies
      OBVIOUS
    <2>4. AsksOnce(Early)'
      BY <1>3, <2>2 DEF Once, AsksOnce, Requested, Early
    <2>5. holder' \in Holders
      BY <1>3, <2>3 DEF Applies, Holders
    <2>6. HeldAsk = {} /\ HeldAsk' = {[op |-> w.op, review |-> w.review]}
      BY <1>3, <2>2, <2>5 DEF HeldAsk, Held
    <2>7. w = [op |-> w.op, review |-> w.review]
      BY <2>3 DEF Applies
    <2>8. Asks' = Asks
      BY <1>3, <2>6, <2>7 DEF Asks
    <2> QED BY <1>3, <2>1, <2>4, <2>8 DEF Once, Promised, node, files
  <1>4. ASSUME NEW w \in waiting, Refuse(w) \/ Take(w)
        PROVE  \/ /\ waiting' = waiting \ {w} /\ Reply(w, "failed")
                  /\ UNCHANGED <<node, up, holder, log, ops, saved>>
               \/ /\ waiting' = waiting \ {w} /\ holder = None
                  /\ holder' = [step |-> "previous", op |-> w.op, review |-> w.review]
                  /\ UNCHANGED <<node, up, req, log, ops, saved>>
    BY <1>4 DEF Refuse, Take
  <1> QED BY <1>1, <1>2, <1>3, <1>4

\* An apply that holds the lock goes on as it is, until it replaces nats.json
\* or after it has (server.py apply).
LEMMA HolderGoesOn ==
  ASSUME NodeInvariant, Once, holder # None, NEW step, Next_step(step),
         step \in {"previous", "config", "stop", "start", "reload", "observe"},
         step \in Early <=> holder.step \in Early,
         UNCHANGED <<up, config, waiting, log, ops, saved>>
  PROVE  Once' /\ UNCHANGED Promised
  <1> USE ManagedNodeAssumption DEF NodeInvariant, TypeOK
  <1>1. /\ holder \in Holders /\ holder' \in Holders /\ holder' # None
        /\ holder'.step = step /\ holder'.op = holder.op
        /\ holder'.review = holder.review /\ UNCHANGED req
    BY DEF Next_step, Holders
  <1>2. RequestsOnce'
    BY <1>1 DEF Once, RequestsOnce, Requested
  <1>3. AsksOnce(Early)'
    BY <1>1 DEF Once, AsksOnce, Requested
  <1>4. HeldAsk' = HeldAsk
    BY <1>1 DEF HeldAsk, Held, Early
  <1> QED BY <1>2, <1>3, <1>4 DEF Once, Promised, Asks

\* nats.json is replaced by what the review says, from what it showed, once,
\* whether or not the write is said to have failed (server.py apply, lines 211
\* to 213).
LEMMA SavePromise ==
  ASSUME NodeInvariant, Once, SaveConfig, config' = holder.review.config,
         saved' = saved \cup {holder.op}
  PROVE  Once' /\ [Promise!Next]_Promised
  <1> USE ManagedNodeAssumption DEF NodeInvariant, TypeOK
  <1> DEFINE k == [op |-> holder.op, review |-> holder.review]
  <1>1. /\ holder \in Holders /\ holder # None /\ up /\ holder.step = "config"
        /\ UNCHANGED <<up, waiting, log, ops>>
        /\ holder.review.before = config
    BY DEF SaveConfig, SaveStep, ApplyStep, Held, StopsAccounted, FilesInOrder
  <1>2. \/ Reply(holder, "failed") /\ holder' = None
        \/ /\ holder' \in Holders /\ holder' # None /\ holder'.op = holder.op
           /\ holder'.step \in {"stop", "reload"} /\ UNCHANGED req
    BY <1>1 DEF SaveConfig, Fails, Next_step, Holders
  <1>3. /\ Requested(holder.op) /\ \A op \in saved : Requested(op)
        /\ \A w \in waiting : w.op # holder.op
        /\ holder.op \notin saved
    BY <1>1 DEF Once, RequestsOnce, AsksOnce, Early
  <1>4. RequestsOnce'
    <2>1. saved \subseteq saved' /\ \A op \in saved' : Requested(op)
      BY <1>3
    <2>2. CASE Reply(holder, "failed")
      BY <1>1, <2>1, <2>2, ReplyOnce DEF Once
    <2>3. CASE UNCHANGED req
      BY <1>1, <2>1, <2>3 DEF Once, RequestsOnce, Requested
    <2> QED BY <1>2, <2>2, <2>3
  <1>5. AsksOnce(Early)'
    <2>1. \A w \in waiting : w.op \notin saved'
      BY <1>1, <1>3 DEF Once, AsksOnce
    <2> QED BY <1>1, <1>2, <1>3, <2>1 DEF Once, AsksOnce, Requested, Early
  <1>6. HeldAsk = {k} /\ HeldAsk' = {} /\ k \notin waiting
    BY <1>1, <1>2, <1>3 DEF HeldAsk, Held
  <1>7. k \in Asks /\ Asks' = Asks \ {k}
    BY <1>1, <1>6 DEF Asks
  <1>8. Promise!CarryOut(k)
    BY <1>1, <1>3, <1>7 DEF Promise!CarryOut, Permits
  <1> QED BY <1>4, <1>5, <1>7, <1>8 DEF Once, Promise!Next

\* What an apply does before and after it replaces nats.json carries out nothing
\* more; its answer says what it did (server.py apply).
LEMMA ApplyingPromise ==
  ASSUME NodeInvariant, Once, Applying
  PROVE  Once' /\ [Promise!Next]_Promised
  <1> USE ManagedNodeAssumption DEF NodeInvariant, TypeOK
  <1>1. /\ holder \in Holders /\ holder # None
        /\ UNCHANGED <<up, waiting, log, ops>>
    BY DEF Applying, SavePrevious, SaveConfig, Stop, Start, Reload, Observe, Held,
           SaveStep, ChildStep, ApplyStep
  <1>2. /\ \A op \in saved : Requested(op)
        /\ holder.op \in saved <=> holder.step \notin Early
    BY <1>1 DEF Once, RequestsOnce, AsksOnce
  <1>3. ASSUME NEW step \in {"ok", "failed"}, Reply(holder, step), holder' = None,
               UNCHANGED <<config, saved>>, step = "ok" => holder.op \in saved
        PROVE  Once' /\ [Promise!Next]_Promised
    <2>1. RequestsOnce'
      BY <1>1, <1>2, <1>3, ReplyOnce DEF Once
    <2> QED BY <1>1, <1>3, <2>1, DroppedPromise
  <1>4. ASSUME Fails, UNCHANGED <<config, saved>>
        PROVE  Once' /\ [Promise!Next]_Promised
    BY <1>3, <1>4 DEF Fails
  <1>5. CASE SavePrevious
    <2>1. /\ holder.step \in Early /\ "config" \in Early
          /\ UNCHANGED <<config, saved>> /\ (Next_step("config") \/ Fails)
      BY <1>5 DEF SavePrevious, Held, Early
    <2>2. CASE Next_step("config")
      BY <1>1, <2>1, <2>2, HolderGoesOn
    <2>3. CASE Fails
      BY <1>4, <2>1, <2>3
    <2> QED BY <2>1, <2>2, <2>3
  <1>6. CASE SaveConfig
    <2>1. \/ config' = holder.review.config /\ saved' = saved \cup {holder.op}
          \/ holder' = None /\ UNCHANGED <<config, saved>>
      BY <1>6 DEF SaveConfig
    <2>2. CASE config' = holder.review.config /\ saved' = saved \cup {holder.op}
      BY <1>6, <2>2, SavePromise
    <2>3. CASE holder' = None /\ UNCHANGED <<config, saved>>
      <3>1. Fails
        BY <1>1, <1>6, <2>3 DEF SaveConfig, Next_step, Holders
      <3> QED BY <1>4, <2>3, <3>1
    <2> QED BY <2>1, <2>2, <2>3
  <1>7. CASE Stop \/ Start \/ Reload \/ Observe
    <2>1. /\ holder.step \notin Early /\ "start" \notin Early /\ "observe" \notin Early
          /\ UNCHANGED <<config, saved>>
          /\ \/ Next_step("start") \/ Next_step("observe")
             \/ Fails
             \/ Reply(holder, "ok") /\ holder' = None
      BY <1>7 DEF Stop, Start, Reload, Observe, Held, Early, ChildStep, files
    <2>2. CASE Next_step("start")
      BY <1>1, <2>1, <2>2, HolderGoesOn
    <2>3. CASE Next_step("observe")
      BY <1>1, <2>1, <2>3, HolderGoesOn
    <2>4. CASE Fails
      BY <1>4, <2>1, <2>4
    <2>5. CASE Reply(holder, "ok") /\ holder' = None
      BY <1>2, <1>3, <2>1, <2>5
    <2> QED BY <2>1, <2>2, <2>3, <2>4, <2>5
  <1> QED BY <1>5, <1>6, <1>7 DEF Applying

\* NATS may end without a word; a controller that ends forgets all it was asked
\* (server.py watch_child, main).
LEMMA ProcessPromise ==
  ASSUME Once, ByItself
  PROVE  Once' /\ [Promise!Next]_Promised
  <1>1. /\ UNCHANGED <<config, req, log, ops, saved>>
        /\ waiting' \subseteq waiting /\ holder' \in {holder, None}
    BY DEF ByItself, ChildDies, KilledEnds, watch_child, Crash, Terminate,
           StopOnExit, End, Exit, Boot, ProcessStep, files, dashboard
  <1>2. Once' /\ Asks' \subseteq Asks
    <2>1. RequestsOnce'
      BY <1>1 DEF Once, RequestsOnce, Requested
    <2> QED BY <1>1, <2>1, AsksDropped DEF Once
  <1>3. CASE Exit
    <2>1. Asks' = {}
      BY <1>3 DEF Exit, Asks, HeldAsk, Held
    <2>2. Promise!Stop
      BY <1>1, <1>3, <2>1 DEF Exit, Promise!Stop
    <2> QED BY <1>2, <2>2 DEF Promise!Next
  <1>4. CASE ChildDies \/ KilledEnds \/ Terminate \/ StopOnExit \/ Boot
    <2>1. UNCHANGED <<waiting, holder>> /\ (up' = up \/ up' = TRUE)
      BY <1>4 DEF ChildDies, KilledEnds, Terminate, StopOnExit, Boot
    <2>2. Asks' = Asks
      BY <2>1 DEF Asks, HeldAsk, Held
    <2>3. Promise!Boot \/ UNCHANGED Promised
      BY <1>1, <2>1, <2>2 DEF Promised, Promise!Boot
    <2> QED BY <1>2, <2>3 DEF Promise!Next
  <1> QED BY <1>3, <1>4 DEF ByItself, watch_child, Crash, End

\* Every step is a step of ManagedChange or changes nothing it can see.
LEMMA NextPromise ==
  ASSUME NodeInvariant, Once, [Next]_vars
  PROVE  Once' /\ [Promise!Next]_Promised
  <1>1. CASE UNCHANGED vars
    BY <1>1 DEF vars, node, files, endpoint, dashboard, Once, RequestsOnce,
                AsksOnce, Requested, Promised, Asks, HeldAsk, Held
  <1>2. CASE Next
    BY <1>2, ClientPromise, LockPromise, ApplyingPromise, ProcessPromise
       DEF Next, ByItself, NodeInvariant
  <1> QED BY <1>1, <1>2

\* The node and the dashboard implement ManagedChange: however applies queue
\* for the lock, expire, are given up or are cut off by a crash, nats.json
\* changes by its reviewed and recorded applies, each at most once and from
\* what it was reviewed on (server.py apply, managed.rs apply).
THEOREM ManagedChangeImplemented == Spec => ImplementsManagedChange
  <1>1. Init => Once /\ Promise!Init
    BY ManagedNodeAssumption
       DEF Init, Once, RequestsOnce, AsksOnce, Idle, Promise!Init, Asks, HeldAsk,
           Held
  <1>2. NodeInvariant /\ Once /\ [Next]_vars => Once' /\ [Promise!Next]_Promised
    BY NextPromise
  <1> QED
    BY <1>1, <1>2, InductiveInvariant, PTL
       DEF Spec, ImplementsManagedChange, Promise!Spec, Promised
=============================================================================
