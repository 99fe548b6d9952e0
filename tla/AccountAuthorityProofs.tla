----------------------- MODULE AccountAuthorityProofs -----------------------
(***************************************************************************)
(* Proofs of the safety properties of an account authority, for any number *)
(* of administrators, users, applies and faults.                           *)
(***************************************************************************)
EXTENDS AccountAuthorityProperties, TLAPS

Requests ==
    [step : {"idle", "audit", "sent", "ok", "failed"}, op : Nat,
     review : Reviews \cup {None}]

RequestsOK ==
    /\ req \in [Admins -> Requests] /\ ops \in Nat
    /\ \A a \in Admins : req[a].step # "idle" => req[a].review # None
    /\ waiting \subseteq Applies

TypeOK ==
    /\ store \in Stores /\ signed \in Nat
    /\ published \in Stores \cup {None}
    /\ pending \subseteq Reviews
    /\ holder \in Holders \cup {None}
    /\ RequestsOK

Signed(s) == \A u \in Users : s.users[u] <= signed /\ s.revoked[u] <= signed

\* No JWT is younger than the last one signed: what is signed next is new.
StoresSigned == Signed(store) /\ (published # None => Signed(published))

\* Under the lock the store stays what the review says until the command has
\* run, and what the resolver accepted until it is written down.
LockKept ==
    /\ Held("run") => holder.review.before = store
    /\ Held("accepted") => resolver = store.revoked
    /\ ~up => holder = None /\ published = None

AccountInvariant == TypeOK /\ StoresSigned /\ LockKept /\ AcceptedIsPublished

\* The adapter starts with a store of its own and nothing published.
LEMMA InitInvariant == Init => AccountInvariant
  <1> SUFFICES ASSUME Init PROVE AccountInvariant
    OBVIOUS
  <1> USE DEF Init
  <1>1. TypeOK
    BY DEF TypeOK, RequestsOK, Stores, Idle, Requests
  <1>2. StoresSigned
    BY DEF StoresSigned, Signed
  <1>3. LockKept /\ AcceptedIsPublished
    BY DEF LockKept, Held, AcceptedIsPublished
  <1> QED BY <1>1, <1>2, <1>3 DEF AccountInvariant

\* What leaves the account and the lock alone keeps the invariant.
LEMMA AccountFrame ==
  ASSUME AccountInvariant, UNCHANGED <<account, up, holder>>,
         pending' \subseteq Reviews, RequestsOK'
  PROVE  AccountInvariant'
  BY DEF AccountInvariant, TypeOK, StoresSigned, Signed, LockKept, Held,
         AcceptedIsPublished, account

\* The dashboard changes its own requests and what the authority has received,
\* nothing else (managed.rs apply).
LEMMA DashboardSteps ==
  ASSUME AccountInvariant, NEW a \in Admins, Client(a), UNCHANGED account
  PROVE  AccountInvariant'
  <1> USE AccountAuthorityAssumption DEF AccountInvariant, TypeOK
  <1>1. CASE apply(a)
    <2>1. RequestsOK'
      BY <1>1 DEF apply, RequestsOK, Requests, endpoint
    <2> QED BY <1>1, <2>1, AccountFrame DEF apply, endpoint
  <1> USE DEF DashboardStep, Go
  <1>2. CASE Audit(a)
    <2>1. req[a] \in Requests /\ req[a].step = "audit" /\ req[a].review # None
      BY <1>2 DEF Audit, RequestsOK
    <2>2. ASSUME Send(a), UNCHANGED ops PROVE RequestsOK'
      <3> DEFINE w == [op |-> req[a].op, review |-> req[a].review]
      <3>1. w \in Applies
        BY <2>1 DEF Requests, Applies
      <3>2. waiting' \subseteq waiting \cup {w}
        BY <2>2 DEF Send
      <3>3. waiting' \subseteq Applies
        BY <3>1, <3>2 DEF RequestsOK
      <3>4. req' = [req EXCEPT ![a].step = "sent"]
        BY <2>2 DEF Send
      <3> QED BY <2>1, <2>2, <3>3, <3>4 DEF RequestsOK, Requests
    <2>3. ASSUME req' = [req EXCEPT ![a] = Idle], UNCHANGED <<waiting, ops>>
          PROVE  RequestsOK'
      BY <2>3 DEF RequestsOK, Requests, Idle
    <2>4. RequestsOK'
      BY <1>2, <2>2, <2>3 DEF Audit
    <2> QED BY <1>2, <2>4, AccountFrame DEF Audit
  <1>3. CASE Timeout(a) \/ Unanswered(a)
    <2> USE <1>3 DEF Timeout, Unanswered
    <2>1. /\ req' = [req EXCEPT ![a].step = "failed"] /\ req[a].step = "sent"
          /\ UNCHANGED <<pending, waiting, up, holder, ops>>
      OBVIOUS
    <2>2. RequestsOK'
      BY <2>1 DEF RequestsOK, Requests
    <2> QED BY <2>1, <2>2, AccountFrame
  <1>4. CASE Finish(a) \/ Leave(a)
    <2> USE <1>4 DEF Finish, Leave
    <2>1. /\ req' = [req EXCEPT ![a] = Idle]
          /\ UNCHANGED <<pending, waiting, up, holder, ops>>
      OBVIOUS
    <2>2. RequestsOK'
      BY <2>1 DEF RequestsOK, Requests, Idle
    <2> QED BY <2>1, <2>2, AccountFrame
  <1> QED BY <1>1, <1>2, <1>3, <1>4 DEF Client

\* An answer ends at most the wait of the apply it is for.
LEMMA ReplyKeepsRequests ==
  ASSUME RequestsOK, NEW w \in Applies \cup Holders,
         NEW step \in {"ok", "failed"}, Reply(w, step), UNCHANGED ops,
         waiting' \subseteq Applies
  PROVE  RequestsOK'
  <1>1. w.review.admin \in Admins
    BY DEF Applies, Holders, Reviews
  <1>2. CASE req' = req
    BY <1>2 DEF RequestsOK
  <1>3. CASE /\ req' = [req EXCEPT ![w.review.admin].step = step]
             /\ req[w.review.admin].step = "sent"
    BY <1>1, <1>3 DEF RequestsOK, Requests
  <1> QED BY <1>2, <1>3 DEF Reply

\* A review binds the store there is; an apply that finds the lock held, or
\* that nobody reviewed, leaves everything as it was (jwt_server.py preview,
\* operation_lock, apply).
LEMMA WaitingSteps ==
  ASSUME AccountInvariant,
         (\E a \in Admins : preview(a)) \/ (\E w \in waiting : Refuse(w))
  PROVE  AccountInvariant'
  <1> USE DEF AccountInvariant, TypeOK
  <1>1. ASSUME NEW a \in Admins, preview(a) PROVE AccountInvariant'
    <2>1. pending' \subseteq Reviews
      BY <1>1 DEF preview, Reviews
    <2>2. RequestsOK'
      BY <1>1 DEF preview, RequestsOK, dashboard
    <2> QED BY <1>1, <2>1, <2>2, AccountFrame DEF preview
  <1>2. ASSUME NEW w \in waiting, Refuse(w) PROVE AccountInvariant'
    <2>1. w \in Applies /\ waiting' \subseteq Applies
      BY <1>2 DEF Refuse, RequestsOK
    <2>2. RequestsOK'
      BY <1>2, <2>1, ReplyKeepsRequests DEF Refuse
    <2> QED BY <1>2, <2>2, AccountFrame DEF Refuse
  <1> QED BY <1>1, <1>2

\* An apply that holds the lock has been compared with the store it finds
\* (jwt_server.py apply).
LEMMA TakeStep ==
  ASSUME AccountInvariant, NEW w \in waiting, Take(w)
  PROVE  AccountInvariant'
  <1> USE DEF AccountInvariant, TypeOK
  <1>1. /\ UNCHANGED <<account, up, ops>> /\ up /\ holder = None
        /\ waiting' \subseteq Applies /\ pending' \subseteq Reviews
        /\ w \in Applies /\ w.op \in Nat /\ w.review \in Reviews
    BY DEF Take, RequestsOK, Applies
  <1>2. CASE /\ w.review.before = store
             /\ holder' = [step |-> "run", op |-> w.op, review |-> w.review]
             /\ UNCHANGED req
    <2>1. /\ holder' \in Holders /\ holder'.step = "run"
          /\ holder'.review = w.review
      BY <1>1, <1>2 DEF Holders
    <2>2. RequestsOK'
      BY <1>1, <1>2 DEF RequestsOK
    <2>3. LockKept'
      BY <1>1, <1>2, <2>1 DEF LockKept, Held, account
    <2> QED BY <1>1, <2>1, <2>2, <2>3
               DEF StoresSigned, Signed, AcceptedIsPublished, account
  <1>3. CASE Reply(w, "failed") /\ UNCHANGED holder
    <2>1. RequestsOK'
      BY <1>1, <1>3, ReplyKeepsRequests
    <2> QED BY <1>1, <1>3, <2>1, AccountFrame
  <1> QED BY <1>2, <1>3 DEF Take

\* What a command does to the account it does as the review says; a JWT that
\* it signs differs from every one before (jwt_server.py apply, run).
LEMMA EffectKeeps ==
  ASSUME AccountInvariant, Held("run"), Effect, UNCHANGED published
  PROVE  /\ store' \in Stores /\ signed' \in Nat
         /\ StoresSigned' /\ AcceptedIsPublished'
         /\ holder.review.action = "publish_account" =>
                resolver' = store.revoked /\ store' = store
  <1> DEFINE u == holder.review.user
             action == holder.review.action
  <1> USE DEF AccountInvariant, TypeOK
  <1>1. holder \in Holders /\ u \in Users
    BY AccountAuthorityAssumption DEF Held, Holders, Reviews
  <1>2. CASE action \in {"create_user", "revoke_user"}
    <2> HIDE DEF u
    <2>1. signed' = signed + 1 /\ UNCHANGED <<resolver, published>>
      BY <1>2 DEF Effect
    <2>2. store' \in {[store EXCEPT !.users[u] = signed'],
                      [store EXCEPT !.revoked[u] = signed']}
      BY <1>2 DEF Effect, u
    <2>3. store' \in Stores /\ signed' \in Nat
      BY <1>1, <2>1, <2>2 DEF Stores
    <2>4. \/ store'.users[u] = signed'
          \/ store'.revoked[u] = signed'
      BY <1>1, <2>2 DEF Stores
    <2>5. Signed(store)'
      BY <1>1, <2>1, <2>2 DEF Stores, StoresSigned, Signed
    <2>6. published # None =>
            \A v \in Users : /\ published.users[v] \in Nat
                             /\ published.revoked[v] \in Nat
                             /\ published.users[v] <= signed
                             /\ published.revoked[v] <= signed
      BY DEF Stores, StoresSigned, Signed
    <2>7. published # None => published # store'
      BY <1>1, <2>1, <2>4, <2>6
    <2>8. StoresSigned' /\ AcceptedIsPublished'
      BY <2>1, <2>5, <2>6, <2>7 DEF StoresSigned, Signed, AcceptedIsPublished
    <2> QED BY <1>2, <2>3, <2>8
  <1>3. CASE action \notin {"create_user", "revoke_user"}
    <2>1. /\ UNCHANGED <<store, signed, published>>
          /\ resolver' = IF action = "publish_account" THEN store.revoked
                                                       ELSE resolver
      BY <1>3 DEF Effect
    <2> QED BY <2>1 DEF StoresSigned, Signed, AcceptedIsPublished
  <1> QED BY <1>2, <1>3

\* A failed command gives the lock back with nothing to answer for.
LEMMA LockGivenBack ==
  ASSUME AccountInvariant, holder # None, holder' = None,
         NEW step \in {"ok", "failed"}, Reply(holder, step), CommandStep,
         store' \in Stores, signed' \in Nat, StoresSigned', AcceptedIsPublished',
         UNCHANGED published
  PROVE  AccountInvariant'
  <1> USE DEF AccountInvariant, TypeOK, CommandStep
  <1>1. RequestsOK'
    <2>1. holder \in Applies \cup Holders /\ waiting' \subseteq Applies
      BY DEF RequestsOK
    <2> QED BY <2>1, ReplyKeepsRequests
  <1>2. LockKept'
    BY DEF LockKept, Held
  <1> QED BY <1>1, <1>2

\* Each command of an apply keeps the invariant, however it ends
\* (jwt_server.py run, apply).
LEMMA CommandSteps ==
  ASSUME AccountInvariant, Commands
  PROVE  AccountInvariant'
  <1> USE DEF AccountInvariant, TypeOK
  <1>1. holder \in Holders /\ holder # None
    BY AccountAuthorityAssumption DEF Commands, run, creds, accepted, finish, Held
  <1>2. up
    BY <1>1 DEF LockKept
  <1>3. ASSUME NEW step \in {"creds", "accepted", "finish"},
               holder' = [holder EXCEPT !.step = step], UNCHANGED req, CommandStep,
               store' \in Stores, signed' \in Nat,
               published' \in Stores \cup {None},
               StoresSigned', AcceptedIsPublished',
               step = "accepted" => resolver' = store'.revoked
        PROVE  AccountInvariant'
    <2>1. holder' \in Holders /\ holder'.step = step
      BY <1>1, <1>3 DEF Holders
    <2>2. RequestsOK'
      BY <1>3 DEF RequestsOK, CommandStep
    <2>3. LockKept'
      BY <1>2, <1>3, <2>1 DEF LockKept, Held, CommandStep
    <2> QED BY <1>3, <2>1, <2>2, <2>3 DEF CommandStep
  <1>4. CASE run
    <2>1. Held("run") /\ CommandStep /\ UNCHANGED published
      BY <1>4 DEF run
    <2>2. ASSUME Effect,
                 Next_step(CASE holder.review.action = "create_user" -> "creds"
                             [] holder.review.action = "publish_account" -> "accepted"
                             [] OTHER -> "finish")
          PROVE  AccountInvariant'
      <3>1. PICK step \in {"creds", "accepted", "finish"} :
              /\ Next_step(step)
              /\ step = "accepted" => holder.review.action = "publish_account"
        BY <2>2
      <3>2. /\ holder' = [holder EXCEPT !.step = step] /\ UNCHANGED req
        BY <3>1 DEF Next_step
      <3>3. step = "accepted" => resolver' = store'.revoked
        BY <2>1, <2>2, <3>1, EffectKeeps
      <3>4. /\ store' \in Stores /\ signed' \in Nat
            /\ StoresSigned' /\ AcceptedIsPublished'
            /\ published' \in Stores \cup {None}
        BY <2>1, <2>2, EffectKeeps
      <3> QED BY <1>3, <2>1, <3>2, <3>3, <3>4
    <2>3. ASSUME Fails, Effect PROVE AccountInvariant'
      BY <1>1, <2>1, <2>3, EffectKeeps, LockGivenBack DEF Fails
    <2>4. ASSUME Fails, UNCHANGED <<store, signed, resolver>>
          PROVE AccountInvariant'
      <3>1. StoresSigned' /\ AcceptedIsPublished'
        BY <2>1, <2>4 DEF StoresSigned, Signed, AcceptedIsPublished
      <3> QED BY <1>1, <2>1, <2>4, <3>1, LockGivenBack DEF Fails
    <2> QED BY <1>4, <2>2, <2>3, <2>4 DEF run
  <1>5. CASE creds
    <2>1. CommandStep /\ UNCHANGED <<store, signed, resolver, published>>
      BY <1>5 DEF creds, account
    <2>2. StoresSigned' /\ AcceptedIsPublished'
      BY <2>1 DEF StoresSigned, Signed, AcceptedIsPublished
    <2>3. CASE Next_step("finish")
      BY <1>3, <2>1, <2>2, <2>3 DEF Next_step
    <2>4. CASE Fails
      BY <1>1, <2>1, <2>2, <2>4, LockGivenBack DEF Fails
    <2> QED BY <1>5, <2>3, <2>4 DEF creds
  <1>6. CASE accepted
    <2>1. CommandStep /\ UNCHANGED <<store, signed, resolver>>
          /\ resolver = store.revoked
      BY <1>6 DEF accepted, LockKept
    <2>2. CASE published' = store /\ Next_step("finish")
      <3>1. StoresSigned' /\ AcceptedIsPublished'
        BY <2>1, <2>2 DEF StoresSigned, Signed, AcceptedIsPublished
      <3> QED BY <1>3, <2>1, <2>2, <3>1 DEF Next_step
    <2>3. CASE Fails /\ UNCHANGED published
      <3>1. StoresSigned' /\ AcceptedIsPublished'
        BY <2>1, <2>3 DEF StoresSigned, Signed, AcceptedIsPublished
      <3> QED BY <1>1, <2>1, <2>3, <3>1, LockGivenBack DEF Fails
    <2> QED BY <1>6, <2>2, <2>3 DEF accepted
  <1>7. CASE finish
    <2>1. CommandStep /\ UNCHANGED <<store, signed, resolver, published>>
      BY <1>7 DEF finish, account
    <2>2. StoresSigned' /\ AcceptedIsPublished'
      BY <2>1 DEF StoresSigned, Signed, AcceptedIsPublished
    <2>3. CASE Reply(holder, "ok") /\ holder' = None
      BY <1>1, <2>1, <2>2, <2>3, LockGivenBack
    <2>4. CASE Fails
      BY <1>1, <2>1, <2>2, <2>4, LockGivenBack DEF Fails
    <2> QED BY <1>7, <2>3, <2>4 DEF finish
  <1> QED BY <1>4, <1>5, <1>6, <1>7 DEF Commands

\* The adapter forgets what it published when it ends, and only then is the
\* store administered by others (docs/JWT_AUTHORITY.md).
LEMMA ProcessSteps ==
  ASSUME AccountInvariant, Exit \/ Boot \/ Offline
  PROVE  AccountInvariant'
  <1> USE DEF AccountInvariant, TypeOK
  <1>1. RequestsOK'
    BY DEF Exit, Boot, Offline, RequestsOK, dashboard, endpoint
  <1>2. CASE Exit
    BY <1>1, <1>2 DEF Exit, StoresSigned, Signed, LockKept, Held,
                      AcceptedIsPublished
  <1>3. CASE Boot
    BY <1>1, <1>3 DEF Boot, StoresSigned, Signed, LockKept, Held,
                      AcceptedIsPublished, account
  <1>4. CASE Offline
    <2>1. /\ ~up /\ holder = None /\ published = None /\ signed' = signed + 1
          /\ UNCHANGED <<endpoint, published>>
      BY <1>4 DEF Offline, LockKept
    <2>2. PICK u \in Users :
            store' \in {store, [store EXCEPT !.users[u] = 0],
                        [store EXCEPT !.users[u] = signed'],
                        [store EXCEPT !.revoked[u] = signed']}
      BY <1>4 DEF Offline
    <2>3. store' \in Stores /\ signed' \in Nat
      BY <2>1, <2>2 DEF Stores
    <2>4. Signed(store)'
      BY <2>1, <2>2 DEF Stores, StoresSigned, Signed
    <2> QED BY <1>1, <2>1, <2>3, <2>4
               DEF StoresSigned, LockKept, Held, AcceptedIsPublished, endpoint
  <1> QED BY <1>2, <1>3, <1>4

\* The invariant is inductive: every state of an account authority keeps it.
LEMMA InductiveInvariant == Spec => []AccountInvariant
  <1>1. Init => AccountInvariant
    BY InitInvariant
  <1>2. AccountInvariant /\ [Next]_vars => AccountInvariant'
    <2> SUFFICES ASSUME AccountInvariant, [Next]_vars PROVE AccountInvariant'
      OBVIOUS
    <2>1. CASE \E a \in Admins : Client(a) /\ UNCHANGED account
      BY <2>1, DashboardSteps
    <2>2. CASE (\E a \in Admins : preview(a)) \/ (\E w \in waiting : Refuse(w))
      BY <2>2, WaitingSteps
    <2>3. CASE \E w \in waiting : Take(w)
      BY <2>3, TakeStep
    <2>4. CASE Commands
      BY <2>4, CommandSteps
    <2>5. CASE Exit \/ Boot \/ Offline
      BY <2>5, ProcessSteps
    <2>6. CASE UNCHANGED vars
      <3>1. pending' \subseteq Reviews /\ RequestsOK'
        BY <2>6 DEF vars, endpoint, dashboard, AccountInvariant, TypeOK, RequestsOK
      <3> QED BY <2>6, <3>1, AccountFrame DEF vars, endpoint
    <2> QED BY <2>1, <2>2, <2>3, <2>4, <2>5, <2>6 DEF Next
  <1> QED BY <1>1, <1>2, PTL DEF Spec

\* Through killed commands, restarts and offline administration, the status
\* never claims that the resolver accepted a revision which it does not hold
\* (jwt_server.py status, apply).
THEOREM AcceptedHolds == Spec => []AcceptedIsPublished
  <1>1. AccountInvariant => AcceptedIsPublished
    BY DEF AccountInvariant
  <1> QED BY <1>1, InductiveInvariant, PTL

\* However the applies of several administrators are ordered, each changes only
\* the store that its review showed (jwt_server.py apply, line 192).
THEOREM ReviewedStoreApplied == Spec => AppliedToReviewedStore
  <1>1. AccountInvariant /\ [Next]_vars =>
          [(up /\ up' /\ (store' # store \/ resolver' # resolver)) =>
               (holder # None /\ holder.review.before = store)]_vars
    <2> SUFFICES ASSUME AccountInvariant, [Next]_vars, up,
                        store' # store \/ resolver' # resolver
                 PROVE  holder # None /\ holder.review.before = store
      OBVIOUS
    <2>1. ~ UNCHANGED account
      BY DEF account
    <2>2. CASE run
      BY <2>2 DEF run, Held, AccountInvariant, LockKept
    <2>3. CASE creds \/ accepted \/ finish
      BY <2>1, <2>3 DEF creds, accepted, finish, account
    <2>4. CASE Exit
      BY <2>4 DEF Exit
    <2>5. CASE (\E a \in Admins : preview(a)) \/ (\E w \in waiting : Refuse(w) \/ Take(w))
      BY <2>1, <2>5 DEF preview, Refuse, Take
    <2>6. CASE Boot \/ Offline
      BY <2>6 DEF Boot, Offline
    <2> QED BY <2>1, <2>2, <2>3, <2>4, <2>5, <2>6 DEF Next, Commands, vars
  <1> QED BY <1>1, InductiveInvariant, PTL DEF Spec, AppliedToReviewedStore

-----------------------------------------------------------------------------
(* The promise of a managed endpoint.                                      *)

Once == RequestsOnce /\ AsksOnce({"run"})

\* Requested(op) after the step.
RequestedThen(op) == <<op, "requested">> \in log'

Promised == <<up, Account, Asks, log, saved>>

\* A dashboard request that moves on leaves the others with names of their
\* own, and each on record from when it is sent (managed.rs apply).
LEMMA RequestMoves ==
  ASSUME RequestsOnce, req \in [Admins -> Requests],
         NEW a \in Admins, NEW new \in Requests, req' = [req EXCEPT ![a] = new],
         ops \in Nat, ops' \in Nat, ops <= ops', ops' <= MaxOps, MaxOps \in Nat,
         log \subseteq log', log' \subseteq (1 .. ops') \X Kinds,
         saved \subseteq saved', \A op \in saved' : RequestedThen(op),
         \A b \in Admins \ {a} : req[b].step # "idle" =>
            RequestedThen(req[b].op) <=> Requested(req[b].op),
         new.step # "idle" =>
            /\ new.op \in 1 .. ops'
            /\ RequestedThen(new.op) <=> new.step # "audit"
            /\ new.step = "ok" => new.op \in saved'
            /\ \A b \in Admins \ {a} : req[b].step # "idle" => req[b].op # new.op
  PROVE  RequestsOnce'
  <1>1. \A b \in Admins : req'[b] = IF b = a THEN new ELSE req[b]
    OBVIOUS
  <1>2. \A b \in Admins :
          req'[b].step # "idle" =>
             /\ req'[b].op \in 1 .. ops'
             /\ RequestedThen(req'[b].op) <=> req'[b].step # "audit"
             /\ req'[b].step = "ok" => req'[b].op \in saved'
    <2> TAKE b \in Admins
    <2>1. CASE b = a
      BY <1>1, <2>1
    <2>2. CASE b # a
      <3>1. req'[b] = req[b]
        BY <1>1, <2>2
      <3>2. req[b].step # "idle" =>
               /\ req[b].op \in 1 .. ops'
               /\ RequestedThen(req[b].op) <=> req[b].step # "audit"
               /\ req[b].step = "ok" => req[b].op \in saved'
        BY <2>2 DEF RequestsOnce
      <3> QED BY <3>1, <3>2
    <2> QED BY <2>1, <2>2
  <1>3. \A b, c \in Admins :
          b # c /\ req'[b].step # "idle" /\ req'[c].step # "idle" =>
             req'[b].op # req'[c].op
    BY <1>1 DEF RequestsOnce
  <1> QED BY <1>2, <1>3 DEF RequestsOnce, Requested, RequestedThen

\* An answer ends at most the wait of the apply it is for, and says that it
\* took effect only if it did.
LEMMA ReplyOnce ==
  ASSUME RequestsOnce, RequestsOK, NEW w \in Applies \cup Holders,
         NEW step \in {"ok", "failed"}, Reply(w, step), UNCHANGED <<log, ops>>,
         saved \subseteq saved', \A op \in saved' : Requested(op),
         step = "ok" => w.op \in saved'
  PROVE  RequestsOnce'
  <1> USE AccountAuthorityAssumption DEF RequestsOK
  <1>1. CASE req' = req
    BY <1>1 DEF RequestsOnce, Requested
  <1>2. CASE req' # req
    <2> DEFINE a == w.review.admin
               new == [req[a] EXCEPT !.step = step]
    <2>1. a \in Admins
      BY DEF Applies, Holders, Reviews
    <2>2. /\ req[a].step = "sent" /\ req[a].op = w.op /\ req[a] \in Requests
          /\ req' = [req EXCEPT ![a].step = step]
      BY <1>2, <2>1 DEF Reply
    <2>3. /\ new \in Requests /\ new.step = step /\ new.op = w.op
          /\ req' = [req EXCEPT ![a] = new]
      BY <2>2 DEF Requests
    <2>4. /\ w.op \in 1 .. ops /\ Requested(w.op)
          /\ \A b \in Admins \ {a} : req[b].step # "idle" => req[b].op # w.op
      BY <2>1, <2>2 DEF RequestsOnce
    <2>5. /\ ops <= ops' /\ ops' <= MaxOps
          /\ log' \subseteq (1 .. ops') \X Kinds
          /\ \A op : RequestedThen(op) <=> Requested(op)
      BY DEF RequestsOnce, Requested, RequestedThen
    <2> HIDE DEF a, new
    <2> QED BY <2>1, <2>3, <2>4, <2>5, RequestMoves
  <1> QED BY <1>1, <1>2

\* Whoever gives up, is refused or is forgotten leaves the rest as it was.
LEMMA AsksDropped ==
  ASSUME AsksOnce({"run"}), waiting' \subseteq waiting, holder' \in {holder, None},
         UNCHANGED saved, log \subseteq log'
  PROVE  AsksOnce({"run"})' /\ Asks' \subseteq Asks
  <1>1. AsksOnce({"run"})'
    BY DEF AsksOnce, Requested
  <1>2. HeldAsk' \subseteq HeldAsk
    BY DEF HeldAsk, Held
  <1> QED BY <1>1, <1>2 DEF Asks

\* A request of the dashboard is asked once it is recorded, under a name that
\* nothing has borne, and concluded with what came of it (managed.rs apply).
LEMMA ClientPromise ==
  ASSUME TypeOK, Once, NEW a \in Admins, Client(a), UNCHANGED account
  PROVE  Once' /\ [Promise!Next]_Promised
  <1> USE AccountAuthorityAssumption DEF Once, TypeOK, RequestsOK
  <1>1. /\ req[a] \in Requests /\ UNCHANGED <<Account, saved, up, holder>>
        /\ HeldAsk' = HeldAsk
    BY DEF account, Account, Client, apply, endpoint, Audit, Timeout, Unanswered,
           Finish, Leave, DashboardStep, HeldAsk, Held
  <1>2. req[a].step # "idle" =>
           /\ req[a].op \in 1 .. ops /\ req[a].op \in 1 .. MaxOps
           /\ \A b \in Admins \ {a} : req[b].step # "idle" => req[b].op # req[a].op
    BY DEF RequestsOnce
  <1>3. CASE apply(a)
    <2>1. PICK r \in pending :
             /\ r.admin = a
             /\ req' = [req EXCEPT ![a] = [step |-> "audit", op |-> ops', review |-> r]]
      BY <1>3 DEF apply
    <2>2. /\ req[a].step = "idle" /\ ops < MaxOps /\ ops' = ops + 1
          /\ UNCHANGED <<waiting, log>>
      BY <1>3 DEF apply, endpoint
    <2>3. /\ ops' \in 1 .. ops' /\ ops' <= MaxOps /\ ops <= ops'
          /\ log' \subseteq (1 .. ops') \X Kinds
          /\ \A op : RequestedThen(op) <=> Requested(op)
          /\ ~Requested(ops')
          /\ \A b \in Admins : req[b].step # "idle" => req[b].op # ops'
      BY <2>2 DEF RequestsOnce, Requested, RequestedThen
    <2>4. [step |-> "audit", op |-> ops', review |-> r] \in Requests
      BY <2>1, <2>2 DEF Requests
    <2>5. \A op \in saved' : RequestedThen(op)
      BY <1>1, <2>3 DEF RequestsOnce
    <2> DEFINE new == [step |-> "audit", op |-> ops', review |-> r]
    <2>6. RequestsOnce'
      <3>1. new.step = "audit" /\ new.op = ops' /\ req' = [req EXCEPT ![a] = new]
        BY <2>1
      <3>2. new \in Requests
        BY <2>4
      <3>3. saved \subseteq saved' /\ log \subseteq log'
        BY <1>1, <2>2
      <3> HIDE DEF new
      <3>4. new.step # "idle" =>
              /\ new.op \in 1 .. ops'
              /\ RequestedThen(new.op) <=> new.step # "audit"
              /\ new.step = "ok" => new.op \in saved'
              /\ \A b \in Admins \ {a} : req[b].step # "idle" => req[b].op # new.op
        BY <2>3, <3>1
      <3>5. \A b \in Admins \ {a} : req[b].step # "idle" =>
              RequestedThen(req[b].op) <=> Requested(req[b].op)
        BY <2>3
      <3>6. ops \in Nat /\ ops' \in Nat
        BY <2>2
      <3> QED BY <2>3, <2>5, <3>1, <3>2, <3>3, <3>4, <3>5, <3>6, RequestMoves
    <2>7. AsksOnce({"run"})'
      BY <1>1, <2>2, AsksDropped
    <2>8. UNCHANGED Promised
      BY <1>1, <2>2 DEF Promised, Asks
    <2> QED BY <2>6, <2>7, <2>8
  <1>4. CASE Audit(a) /\ req' # [req EXCEPT ![a] = Idle]
    <2> DEFINE op == req[a].op
               w == [op |-> op, review |-> req[a].review]
    <2>1. /\ req[a].step = "audit" /\ req' = [req EXCEPT ![a].step = "sent"]
          /\ log' = log \cup {<<op, "requested">>}
          /\ waiting' = waiting \/ (up /\ waiting' = waiting \cup {w})
          /\ UNCHANGED ops
      BY <1>4 DEF Audit, Send, Go, DashboardStep
    <2>2. /\ ~Requested(op) /\ op \in 1 .. ops
          /\ \A b \in Admins \ {a} : req[b].step # "idle" => req[b].op # op
      BY <2>1 DEF RequestsOnce
    <2> DEFINE new == [req[a] EXCEPT !.step = "sent"]
    <2>3. /\ new \in Requests /\ new.op = op /\ new.step = "sent"
          /\ req' = [req EXCEPT ![a] = new]
      BY <1>1, <2>1 DEF Requests
    <2>4. w.op = op
      OBVIOUS
    <2> HIDE DEF op, w, new
    <2>5. /\ log \subseteq log' /\ log' \subseteq (1 .. ops') \X Kinds
          /\ RequestedThen(op) /\ \A o : o # op => (RequestedThen(o) <=> Requested(o))
          /\ ops <= ops' /\ ops' <= MaxOps
      BY <2>1, <2>2 DEF RequestsOnce, Kinds, RequestedThen, Requested
    <2>6. \A o \in saved' : RequestedThen(o)
      BY <1>1, <2>5 DEF RequestsOnce
    <2>7. RequestsOnce'
      <3>1. saved \subseteq saved'
        BY <1>1
      <3>2. \A b \in Admins \ {a} : req[b].step # "idle" =>
              RequestedThen(req[b].op) <=> Requested(req[b].op)
        BY <2>2, <2>5
      <3>3. new.step # "idle" =>
              /\ new.op \in 1 .. ops'
              /\ RequestedThen(new.op) <=> new.step # "audit"
              /\ new.step = "ok" => new.op \in saved'
              /\ \A b \in Admins \ {a} : req[b].step # "idle" => req[b].op # new.op
        BY <2>1, <2>2, <2>3, <2>5
      <3> QED BY <2>1, <2>3, <2>5, <2>6, <3>1, <3>2, <3>3, RequestMoves
    <2>8. AsksOnce({"run"})'
      <3>1. op \notin saved
        BY <2>2 DEF RequestsOnce
      <3>2. \A v \in waiting : v.op # op
        BY <2>2 DEF AsksOnce
      <3>3. holder # None => holder.op # op
        BY <2>2 DEF AsksOnce
      <3>4. \A v \in waiting' : v = w \/ v \in waiting
        BY <2>1
      <3> QED BY <1>1, <2>1, <2>4, <2>5, <3>1, <3>2, <3>3, <3>4
              DEF AsksOnce, Requested, RequestedThen
    <2>9. Promise!Ask(op)
      <3>1. Asks' = Asks \/ (up /\ Asks' = Asks \cup {w})
        BY <1>1, <2>1 DEF Asks
      <3> QED BY <1>1, <2>1, <2>2, <2>4, <3>1 DEF Promise!Ask, Requested
    <2>10. op \in 1 .. MaxOps
      BY <1>2, <2>1 DEF op
    <2> QED BY <2>7, <2>8, <2>9, <2>10 DEF Promise!Next
  <1>5. CASE Timeout(a) \/ Unanswered(a)
    <2> DEFINE new == [req[a] EXCEPT !.step = "failed"]
    <2>1. /\ req[a].step = "sent" /\ req' = [req EXCEPT ![a].step = "failed"]
          /\ UNCHANGED <<log, waiting, ops>>
      BY <1>5 DEF Timeout, Unanswered, Go, DashboardStep
    <2>2. /\ new \in Requests /\ new.op = req[a].op /\ new.step = "failed"
          /\ req' = [req EXCEPT ![a] = new]
      BY <1>1, <2>1 DEF Requests
    <2>3. /\ \A op : RequestedThen(op) <=> Requested(op)
          /\ log' \subseteq (1 .. ops') \X Kinds /\ ops <= ops' /\ ops' <= MaxOps
          /\ Requested(req[a].op)
      BY <2>1 DEF RequestedThen, Requested, RequestsOnce
    <2> HIDE DEF new
    <2>4. \A op \in saved' : RequestedThen(op)
      BY <1>1, <2>3 DEF RequestsOnce
    <2>5. RequestsOnce'
      <3>1. /\ log \subseteq log' /\ saved \subseteq saved'
            /\ ops \in Nat /\ ops' \in Nat /\ MaxOps \in Nat
            /\ RequestsOnce /\ req \in [Admins -> Requests]
        BY <1>1, <1>2, <2>1
      <3>2. /\ new.op \in 1 .. ops'
            /\ \A b \in Admins \ {a} : req[b].step # "idle" => req[b].op # new.op
        BY <1>1, <2>1, <2>2, <3>1 DEF RequestsOnce
      <3> QED BY <2>2, <2>3, <2>4, <3>1, <3>2, RequestMoves
    <2>6. AsksOnce({"run"})' /\ UNCHANGED Promised
      BY <1>1, <2>1, AsksDropped DEF Promised, Asks
    <2> QED BY <2>5, <2>6
  <1>6. CASE /\ Audit(a) \/ Finish(a) \/ Leave(a)
             /\ req' = [req EXCEPT ![a] = Idle]
    <2>1. /\ UNCHANGED <<waiting, ops>> /\ req[a].step # "idle"
          /\ \/ log' = log
             \/ req[a].step # "sent" /\ log' = log \cup {Record(a)}
      <3>1. CASE Audit(a)
        <4>1. CASE Send(a)
          <5>1. req'[a].step = "sent" /\ Idle.step = "idle" /\ req'[a] = Idle
            BY <1>1, <1>6, <4>1 DEF Send, Go, Requests, Idle
          <5> QED BY <5>1
        <4> QED BY <3>1, <4>1 DEF Audit, DashboardStep
      <3>2. CASE Finish(a)
        BY <3>2 DEF Finish, DashboardStep, Record, Result
      <3>3. CASE Leave(a)
        BY <3>3 DEF Leave, DashboardStep
      <3> QED BY <1>6, <3>1, <3>2, <3>3
    <2>2. Idle \in Requests /\ Idle.step = "idle"
      BY DEF Idle, Requests
    <2>3. Record(a) \in (1 .. ops) \X Kinds /\ Record(a)[1] = req[a].op
      BY <1>2, <2>1 DEF Record, Result, Kinds
    <2>4. /\ log \subseteq log' /\ log' \subseteq (1 .. ops') \X Kinds
          /\ ops <= ops' /\ ops' <= MaxOps
      BY <2>1, <2>3 DEF RequestsOnce
    <2>5. \A op : op # req[a].op => (RequestedThen(op) <=> Requested(op))
      BY <2>1, <2>3 DEF RequestedThen, Requested
    <2>6. \A op \in saved' : RequestedThen(op)
      BY <1>1, <2>4 DEF RequestsOnce, RequestedThen, Requested
    <2>7. RequestsOnce'
      BY <1>1, <1>2, <1>6, <2>1, <2>2, <2>4, <2>5, <2>6, RequestMoves
    <2>8. AsksOnce({"run"})' /\ Asks' = Asks
      BY <1>1, <2>1, <2>4, AsksDropped DEF Asks
    <2>9. log' # log =>
            Promise!Ask(req[a].op) \/ Promise!Conclude(req[a].op)
      <3> SUFFICES ASSUME log' # log
                   PROVE  Promise!Ask(req[a].op) \/ Promise!Conclude(req[a].op)
        OBVIOUS
      <3>1. req[a].step \notin {"idle", "sent"} /\ log' = log \cup {Record(a)}
        BY <2>1
      <3>2. CASE req[a].step = "audit"
        BY <1>1, <2>1, <2>8, <3>1, <3>2
           DEF Record, Promise!Ask, RequestsOnce, Requested
      <3>3. CASE req[a].step = "ok"
        BY <1>1, <2>1, <2>8, <3>1, <3>3
           DEF Record, Result, Promise!Conclude, RequestsOnce
      <3>4. CASE req[a].step = "failed"
        BY <1>1, <2>1, <2>8, <3>1, <3>4
           DEF Record, Result, Promise!Conclude, RequestsOnce, Requested
      <3> QED BY <1>1, <3>1, <3>2, <3>3, <3>4 DEF Requests
    <2>10. log' = log => UNCHANGED Promised
      BY <1>1, <2>8 DEF Promised
    <2> QED BY <1>2, <2>1, <2>7, <2>8, <2>9, <2>10 DEF Promise!Next
  <1> QED
    BY <1>3, <1>4, <1>5, <1>6 DEF Client, Finish, Leave

\* Whatever only drops asks is allowed, whether or not it answers them.
LEMMA DroppedPromise ==
  ASSUME Once, RequestsOnce', waiting' \subseteq waiting,
         holder' \in {holder, None}, UNCHANGED <<up, store, resolver, log, saved>>
  PROVE  Once' /\ [Promise!Next]_Promised
  <1>1. AsksOnce({"run"})' /\ Asks' \subseteq Asks
    BY AsksDropped DEF Once
  <1>2. Promise!Drop
    BY <1>1 DEF Promise!Drop, Account
  <1> QED BY <1>1, <1>2 DEF Once, Promise!Next

\* A review and a refusal carry out nothing; an apply that gets the lock is
\* the one that was received (jwt_server.py preview, apply).
LEMMA LockPromise ==
  ASSUME TypeOK, Once,
         \/ \E a \in Admins : preview(a)
         \/ \E w \in waiting : Refuse(w) \/ Take(w)
  PROVE  Once' /\ [Promise!Next]_Promised
  <1> USE AccountAuthorityAssumption DEF TypeOK, RequestsOK
  <1>1. ASSUME NEW a \in Admins, preview(a)
        PROVE  Once' /\ [Promise!Next]_Promised
    <2>1. UNCHANGED <<account, up, waiting, holder, dashboard, ops, saved>>
      BY <1>1 DEF preview
    <2>2. RequestsOnce'
      BY <2>1 DEF Once, RequestsOnce, Requested, dashboard
    <2> QED BY <2>1, <2>2, DroppedPromise DEF account, dashboard
  <1>2. ASSUME NEW w \in waiting, waiting' = waiting \ {w}, Reply(w, "failed"),
               UNCHANGED <<account, up, holder, log, ops, saved>>
        PROVE  Once' /\ [Promise!Next]_Promised
    <2>1. w \in Applies /\ \A op \in saved' : Requested(op)
      BY <1>2 DEF Once, RequestsOnce
    <2>2. RequestsOnce'
      BY <1>2, <2>1, ReplyOnce DEF Once
    <2> QED BY <1>2, <2>2, DroppedPromise DEF account
  <1>3. ASSUME NEW w \in waiting, waiting' = waiting \ {w}, holder = None,
               holder' = [step |-> "run", op |-> w.op, review |-> w.review],
               UNCHANGED <<account, up, req, log, ops, saved>>
        PROVE  Once' /\ [Promise!Next]_Promised
    <2>1. RequestsOnce'
      BY <1>3 DEF Once, RequestsOnce, Requested
    <2>2. holder'.op = w.op /\ holder'.step = "run" /\ holder'.review = w.review
      BY <1>3
    <2>3. w \in Applies
      OBVIOUS
    <2>4. AsksOnce({"run"})'
      BY <1>3, <2>2 DEF Once, AsksOnce, Requested
    <2>5. holder' \in Holders
      BY <1>3, <2>3 DEF Applies, Holders
    <2>6. HeldAsk = {} /\ HeldAsk' = {[op |-> w.op, review |-> w.review]}
      BY <1>3, <2>2, <2>5 DEF HeldAsk, Held
    <2>7. w = [op |-> w.op, review |-> w.review]
      BY <2>3 DEF Applies
    <2>8. Asks' = Asks
      BY <1>3, <2>6, <2>7 DEF Asks
    <2> QED BY <1>3, <2>1, <2>4, <2>8 DEF Once, Promised, Account, account
  <1>4. ASSUME NEW w \in waiting, Refuse(w) \/ Take(w)
        PROVE  \/ /\ waiting' = waiting \ {w} /\ Reply(w, "failed")
                  /\ UNCHANGED <<account, up, holder, log, ops, saved>>
               \/ /\ waiting' = waiting \ {w} /\ holder = None
                  /\ holder' = [step |-> "run", op |-> w.op, review |-> w.review]
                  /\ UNCHANGED <<account, up, req, log, ops, saved>>
    BY <1>4 DEF Refuse, Take
  <1> QED BY <1>1, <1>2, <1>3, <1>4

\* What a command does is what the review shows and asks for
\* (jwt_server.py apply).
LEMMA EffectPermitted ==
  ASSUME TypeOK, Held("run"), holder.review.before = store, Effect
  PROVE  Permits(holder.review, Account, Account')
  <1> DEFINE u == holder.review.user
             action == holder.review.action
  <1>1. holder \in Holders /\ u \in Users /\ action \in Actions
    BY AccountAuthorityAssumption DEF TypeOK, Held, Holders, Reviews
  <1>2. store \in Stores /\ Account.store = store /\ Account.resolver = resolver
        /\ Account = [store |-> store, resolver |-> resolver]
        /\ Account' = [store |-> store', resolver |-> resolver']
    BY DEF TypeOK, Account
  <1>3. CASE action = "create_user"
    <2>1. store' = [store EXCEPT !.users[u] = signed'] /\ resolver' = resolver
      BY <1>3 DEF Effect
    <2>2. store'.users[u] = signed'
      BY <1>1, <1>2, <2>1 DEF Stores
    <2>3. Account' = [Account EXCEPT !.store.users[u] = Account'.store.users[u]]
      <3>1. Account'.store.users[u] = signed'
        BY <1>2, <2>2
      <3>2. [Account EXCEPT !.store.users[u] = signed']
                = [store |-> [store EXCEPT !.users[u] = signed'],
                   resolver |-> resolver]
        BY <1>2
      <3> QED BY <1>2, <2>1, <3>1, <3>2
    <2> QED BY <1>2, <1>3, <2>3 DEF Permits
  <1>4. CASE action = "revoke_user"
    <2>1. store' = [store EXCEPT !.revoked[u] = signed'] /\ resolver' = resolver
      BY <1>4 DEF Effect
    <2>2. store'.revoked[u] = signed'
      BY <1>1, <1>2, <2>1 DEF Stores
    <2>3. Account' = [Account EXCEPT !.store.revoked[u] = Account'.store.revoked[u]]
      <3>1. Account'.store.revoked[u] = signed'
        BY <1>2, <2>2
      <3>2. [Account EXCEPT !.store.revoked[u] = signed']
                = [store |-> [store EXCEPT !.revoked[u] = signed'],
                   resolver |-> resolver]
        BY <1>2
      <3> QED BY <1>2, <2>1, <3>1, <3>2
    <2> QED BY <1>2, <1>4, <2>3 DEF Permits
  <1>5. CASE action = "publish_account"
    <2>1. store' = store /\ resolver' = store.revoked
      BY <1>5 DEF Effect
    <2> QED BY <1>2, <1>5, <2>1 DEF Permits
  <1>6. CASE action = "export_account"
    <2>1. store' = store /\ resolver' = resolver
      BY <1>6 DEF Effect
    <2> QED BY <1>2, <1>6, <2>1 DEF Permits
  <1> QED BY <1>1, <1>3, <1>4, <1>5, <1>6 DEF Actions

\* The command of an apply carries it out at most once, whether it is answered
\* or killed; the steps after it carry out nothing more (jwt_server.py run).
LEMMA CommandPromise ==
  ASSUME AccountInvariant, Once, Commands
  PROVE  Once' /\ [Promise!Next]_Promised
  <1> USE AccountAuthorityAssumption DEF AccountInvariant, TypeOK, RequestsOK
  <1>1. /\ holder \in Holders /\ holder # None /\ up
        /\ UNCHANGED <<up, waiting, log, ops>>
    BY DEF Commands, run, creds, accepted, finish, Held, LockKept, CommandStep
  <1>2. /\ Requested(holder.op) /\ \A op \in saved : Requested(op)
        /\ \A w \in waiting : w.op # holder.op
        /\ holder.op \in saved <=> holder.step # "run"
    BY <1>1 DEF Once, RequestsOnce, AsksOnce
  <1>3. ASSUME NEW step \in {"ok", "failed"}, Reply(holder, step), holder' = None,
               UNCHANGED <<store, resolver, saved>>,
               step = "ok" => holder.op \in saved
        PROVE  Once' /\ [Promise!Next]_Promised
    <2>1. RequestsOnce'
      BY <1>1, <1>2, <1>3, ReplyOnce DEF Once
    <2> QED BY <1>1, <1>3, <2>1, DroppedPromise
  <1>4. ASSUME NEW step \in {"creds", "accepted", "finish"}, Next_step(step),
               holder.step # "run", UNCHANGED <<store, resolver, saved>>
        PROVE  Once' /\ [Promise!Next]_Promised
    <2>1. /\ holder'.step = step /\ holder'.op = holder.op
          /\ holder' \in Holders /\ UNCHANGED req
      BY <1>1, <1>4 DEF Next_step, Holders
    <2>2. RequestsOnce'
      BY <1>1, <1>4, <2>1 DEF Once, RequestsOnce, Requested
    <2>3. AsksOnce({"run"})'
      BY <1>1, <1>2, <1>4, <2>1 DEF Once, AsksOnce, Requested
    <2>4. HeldAsk = {} /\ HeldAsk' = {}
      BY <1>4, <2>1 DEF HeldAsk, Held
    <2> QED BY <1>1, <1>4, <2>2, <2>3, <2>4 DEF Once, Promised, Account, Asks
  <1>5. ASSUME Held("run"), Effect,
               \/ /\ holder' = None /\ Reply(holder, "failed")
               \/ \E step \in {"creds", "accepted", "finish"} : Next_step(step)
        PROVE  Once' /\ [Promise!Next]_Promised
    <2>1. /\ saved' = saved \cup {holder.op} /\ holder.op \notin saved
          /\ holder.step = "run"
      BY <1>2, <1>5 DEF Effect, Held
    <2>2. /\ \A op \in saved' : Requested(op)
          /\ \A op : RequestedThen(op) <=> Requested(op)
      BY <1>1, <1>2, <2>1 DEF RequestedThen, Requested
    <2>3. RequestsOnce'
      <3>1. CASE Reply(holder, "failed")
        BY <1>1, <2>1, <2>2, <3>1, ReplyOnce DEF Once
      <3>2. CASE UNCHANGED req
        BY <1>1, <2>1, <2>2, <3>2 DEF Once, RequestsOnce, Requested
      <3> QED BY <1>5, <3>1, <3>2 DEF Next_step
    <2>4. \/ holder' = None
          \/ holder' \in Holders /\ holder'.op = holder.op /\ holder'.step # "run"
      BY <1>1, <1>5 DEF Next_step, Holders
    <2>5. AsksOnce({"run"})'
      <3>1. \A w \in waiting : w.op \notin saved'
        BY <1>2, <2>1 DEF Once, AsksOnce
      <3>2. holder' # None => holder'.op = holder.op /\ holder'.step # "run"
        BY <2>4
      <3> QED BY <1>1, <1>2, <2>1, <3>1, <3>2 DEF Once, AsksOnce, Requested
    <2> DEFINE k == [op |-> holder.op, review |-> holder.review]
    <2>6. HeldAsk = {k} /\ HeldAsk' = {} /\ k \notin waiting
      BY <1>2, <1>5, <2>4 DEF HeldAsk, Held
    <2>7. k \in Asks /\ Asks' = Asks \ {k}
      BY <1>1, <2>6 DEF Asks
    <2>8. Permits(k.review, Account, Account')
      BY <1>5, EffectPermitted DEF LockKept
    <2>9. Promise!CarryOut(k)
      BY <1>1, <2>1, <2>7, <2>8 DEF Promise!CarryOut
    <2> QED BY <2>3, <2>5, <2>7, <2>9 DEF Once, Promise!Next
  <1>6. CASE run
    <2>1. CASE Effect
      BY <1>5, <1>6, <2>1 DEF run, Fails
    <2>2. CASE Fails /\ UNCHANGED <<store, resolver, saved>>
      BY <1>3, <2>2 DEF Fails
    <2> QED BY <1>6, <2>1, <2>2 DEF run
  <1>7. CASE creds
    <2>1. holder.step # "run" /\ UNCHANGED <<store, resolver, saved>>
      BY <1>7 DEF creds, Held, account
    <2> QED BY <1>3, <1>4, <1>7, <2>1 DEF creds, Fails
  <1>8. CASE accepted
    <2>1. holder.step # "run" /\ UNCHANGED <<store, resolver, saved>>
      BY <1>8 DEF accepted, Held
    <2> QED BY <1>3, <1>4, <1>8, <2>1 DEF accepted, Fails
  <1>9. CASE finish
    BY <1>2, <1>3, <1>9 DEF finish, Fails, Held, account
  <1> QED BY <1>6, <1>7, <1>8, <1>9 DEF Commands

\* An adapter that ends forgets all it was asked; only a stopped one leaves its
\* store to others (docs/JWT_AUTHORITY.md).
LEMMA ProcessPromise ==
  ASSUME Once, Exit \/ Boot \/ Offline
  PROVE  Once' /\ [Promise!Next]_Promised
  <1>1. /\ UNCHANGED <<req, log, ops, saved>>
        /\ waiting' \subseteq waiting /\ holder' \in {holder, None}
    BY DEF Exit, Boot, Offline, endpoint, dashboard
  <1>2. Once' /\ Asks' \subseteq Asks
    <2>1. RequestsOnce'
      BY <1>1 DEF Once, RequestsOnce, Requested
    <2> QED BY <1>1, <2>1, AsksDropped DEF Once
  <1>3. CASE Exit
    <2>1. Asks' = {}
      BY <1>3 DEF Exit, Asks, HeldAsk, Held
    <2>2. Promise!Stop
      BY <1>1, <1>3, <2>1 DEF Exit, Promise!Stop, Account
    <2> QED BY <1>2, <2>2 DEF Promise!Next
  <1>4. CASE Boot \/ Offline
    <2>1. Asks' = Asks
      BY <1>4 DEF Boot, Offline, endpoint, Asks, HeldAsk, Held
    <2>2. Promise!Boot \/ Promise!Outside
      BY <1>1, <1>4, <2>1
         DEF Boot, Offline, endpoint, account, Account, Promise!Boot, Promise!Outside
    <2> QED BY <1>2, <2>2 DEF Promise!Next
  <1> QED BY <1>3, <1>4

\* Every step is a step of ManagedChange or changes nothing it can see.
LEMMA NextPromise ==
  ASSUME AccountInvariant, Once, [Next]_vars
  PROVE  Once' /\ [Promise!Next]_Promised
  <1>1. CASE UNCHANGED vars
    BY <1>1 DEF vars, account, endpoint, dashboard, Once, RequestsOnce, AsksOnce,
                Requested, Promised, Account, Asks, HeldAsk, Held
  <1>2. CASE Next
    BY <1>2, ClientPromise, LockPromise, CommandPromise, ProcessPromise
       DEF Next, AccountInvariant
  <1> QED BY <1>1, <1>2

\* The authority and the dashboard implement ManagedChange: through refusals,
\* killed commands, lost answers, restarts and administration offline, the
\* account changes by its reviewed and recorded applies, each at most once and
\* from the store it was reviewed on (jwt_server.py apply, managed.rs apply).
THEOREM ManagedChangeImplemented == Spec => ImplementsManagedChange
  <1>1. Init => Once /\ Promise!Init
    BY AccountAuthorityAssumption
       DEF Init, Once, RequestsOnce, AsksOnce, Idle, Promise!Init, Asks, HeldAsk,
           Held
  <1>2. AccountInvariant /\ Once /\ [Next]_vars => Once' /\ [Promise!Next]_Promised
    BY NextPromise
  <1> QED
    BY <1>1, <1>2, InductiveInvariant, PTL
       DEF Spec, ImplementsManagedChange, Promise!Spec, Promised

\* What ManagedChange allows calls nothing a result that was not achieved.
LEMMA PromiseHonest ==
  ASSUME [Promise!Next]_Promised, \A event \in log : event[2] = "result" => event[1] \in saved
  PROVE  \A event \in log' : event[2] = "result" => event[1] \in saved'
  <1> DEFINE Honest == \A event \in log' : event[2] = "result" => event[1] \in saved'
  <1>1. CASE UNCHANGED Promised
    BY <1>1 DEF Promised
  <1>2. ASSUME NEW op \in 1 .. MaxOps, Promise!Ask(op) PROVE Honest
    BY <1>2 DEF Promise!Ask
  <1>3. ASSUME NEW op \in 1 .. MaxOps, Promise!Conclude(op) PROVE Honest
    BY <1>3 DEF Promise!Conclude
  <1>4. ASSUME NEW k \in Asks, Promise!CarryOut(k) PROVE Honest
    BY <1>4 DEF Promise!CarryOut
  <1>5. CASE Promise!Drop \/ Promise!Stop \/ Promise!Boot \/ Promise!Outside
    BY <1>5 DEF Promise!Drop, Promise!Stop, Promise!Boot, Promise!Outside
  <1> QED BY <1>1, <1>2, <1>3, <1>4, <1>5 DEF Promise!Next

\* Nothing is done to the account unrecorded, and no result is claimed for what
\* was not done, although commands are killed and answers lost (managed.rs
\* apply): it follows from the refinement.
THEOREM AuditIsHonest == Spec => []AuditHonest
  <1>1. Init => Once /\ AuditHonest
    BY AccountAuthorityAssumption
       DEF Init, Once, RequestsOnce, AsksOnce, Idle, AuditHonest
  <1>2. AccountInvariant /\ Once /\ AuditHonest /\ [Next]_vars =>
          Once' /\ AuditHonest'
    <2> SUFFICES ASSUME AccountInvariant, Once, AuditHonest, [Next]_vars
                 PROVE  Once' /\ AuditHonest'
      OBVIOUS
    <2>1. Once' /\ [Promise!Next]_Promised
      BY NextPromise
    <2>2. \A op \in saved' : <<op, "requested">> \in log'
      BY <2>1 DEF Once, RequestsOnce, Requested
    <2>3. \A event \in log' : event[2] = "result" => event[1] \in saved'
      BY <2>1, PromiseHonest DEF AuditHonest
    <2> QED BY <2>1, <2>2, <2>3 DEF AuditHonest
  <1> QED
    BY <1>1, <1>2, InductiveInvariant, PTL DEF Spec
=============================================================================
