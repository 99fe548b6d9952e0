-------------------------- MODULE AccountAuthority --------------------------
(***************************************************************************)
(* The authority of a JWT account: the adapter that owns the account's NSC *)
(* store (src/controller/jwt_server.py), the resolver that it pushes the   *)
(* account JWT to, and the dashboard that asks for changes                 *)
(* (ManagedClient).                                                        *)
(*                                                                         *)
(* Its lock is never waited for: an apply that finds it held is refused.   *)
(* Every JWT that is signed differs from all before it (`signed` numbers   *)
(* them), so a store is known by its content as it is by its digest.       *)
(***************************************************************************)
EXTENDS ManagedClient

CONSTANT Users

\* The JWT of each user, 0 before there is one, and when it was revoked: the
\* account JWT.
Stores == [users : [Users -> Nat], revoked : [Users -> Nat]]

Actions == {"create_user", "revoke_user", "export_account", "publish_account"}

Reviews == [admin : Admins, before : Stores, action : Actions, user : Users]

Applies == [op : Nat, review : Reviews]
Holders ==
    [step : {"run", "creds", "accepted", "finish"}, op : Nat, review : Reviews]

ASSUME AccountAuthorityAssumption ==
    /\ {MaxOps, MaxEvents} \subseteq Nat
    /\ None \notin Stores \cup Reviews \cup Holders

VARIABLES
    store,        \* the NSC store: users and the account JWT
    signed,       \* JWTs signed so far
    resolver,     \* account JWT that the resolver has accepted
    published     \* published_revision, the store as it was, or None

account == <<store, signed, resolver, published>>
vars == <<account, endpoint, dashboard, ops, events, saved>>

-----------------------------------------------------------------------------
(* Reviews, and the lock *)

\* A review binds the store that the administrator has seen.
preview(a) ==
    /\ up /\ holder = None /\ req[a].step = "idle"
    /\ \E action \in Actions, u \in Users :
          /\ action = "create_user" => store.users[u] = 0
          /\ action = "revoke_user" => store.users[u] # 0
          /\ pending' = (pending \ Shown(a)) \cup
                {[admin |-> a, before |-> store, action |-> action, user |-> u]}
    /\ UNCHANGED <<account, up, waiting, holder, dashboard, ops, events, saved>>

\* Another apply, a status or a preview holds the lock; or there is no such
\* review, it is not confirmed, or it has expired.  The review stays as it is.
Refuse(w) ==
    /\ up
    /\ waiting' = waiting \ {w} /\ Reply(w, "failed")
    /\ UNCHANGED <<account, up, pending, holder, log, ops, events, saved>>

\* Fault: the store is not compared with the reviewed one.
Take_unchecked(w) ==
    /\ up /\ holder = None /\ w.review \in pending
    /\ waiting' = waiting \ {w} /\ pending' = pending \ {w.review}
    /\ \/ /\ holder' = [step |-> "run", op |-> w.op, review |-> w.review]
          /\ UNCHANGED <<req, events>>
       \/ Fault /\ Reply(w, "failed") /\ UNCHANGED holder
    /\ UNCHANGED <<account, up, log, ops, saved>>

\* The review is used up.  The apply goes on unless the store has changed, the
\* account is not the configured one, or they cannot be read.
Take(w) ==
    /\ up /\ holder = None /\ w.review \in pending
    /\ waiting' = waiting \ {w} /\ pending' = pending \ {w.review}
    /\ \/ /\ w.review.before = store
          /\ holder' = [step |-> "run", op |-> w.op, review |-> w.review]
          /\ UNCHANGED <<req, events>>
       \/ /\ Reply(w, "failed") /\ UNCHANGED holder
          /\ \/ w.review.before # store /\ UNCHANGED events
             \/ Fault
    /\ UNCHANGED <<account, up, log, ops, saved>>

-----------------------------------------------------------------------------
(* The commands of an apply, each an nsc process of its own *)

Held(step) == holder # None /\ holder.step = step

Next_step(step) == holder' = [holder EXCEPT !.step = step] /\ UNCHANGED req

\* An exception: a command failed or took longer than five seconds.
Fails == Reply(holder, "failed") /\ holder' = None

Effect ==
    LET u == holder.review.user
        action == holder.review.action
    IN /\ IF action \in {"create_user", "revoke_user"}
          THEN /\ signed' = signed + 1
               /\ store' = IF action = "create_user"
                           THEN [store EXCEPT !.users[u] = signed']
                           ELSE [store EXCEPT !.revoked[u] = signed']
          ELSE UNCHANGED <<store, signed>>
       /\ resolver' = IF action = "publish_account" THEN store.revoked
                                                    ELSE resolver
       /\ saved' = saved \cup {holder.op}

CommandStep == UNCHANGED <<up, pending, waiting, log, ops>>

\* Fault: a failed command leaves the lock held.
run_holding ==
    /\ Held("run")
    /\ \/ /\ Effect /\ UNCHANGED events
          /\ Next_step(CASE holder.review.action = "create_user" -> "creds"
                         [] holder.review.action = "publish_account" -> "accepted"
                         [] OTHER -> "finish")
       \/ /\ Fault /\ Next_step("failed")
          /\ UNCHANGED <<store, signed, resolver, saved>>
    /\ CommandStep /\ UNCHANGED published

\* The command does what it was told; or it is refused; or it is killed at its
\* deadline, when it may have done it or not.
run ==
    /\ Held("run")
    /\ \/ /\ Effect /\ UNCHANGED events
          /\ Next_step(CASE holder.review.action = "create_user" -> "creds"
                         [] holder.review.action = "publish_account" -> "accepted"
                         [] OTHER -> "finish")
       \/ /\ Fault /\ Fails
          /\ Effect \/ UNCHANGED <<store, signed, resolver, saved>>
    /\ CommandStep /\ UNCHANGED published

\* The credential of the new user is read from the store.
creds ==
    /\ Held("creds")
    /\ \/ Next_step("finish") /\ UNCHANGED events
       \/ Fault /\ Fails
    /\ CommandStep /\ UNCHANGED <<account, saved>>

\* The store is read again after the push.
accepted ==
    /\ Held("accepted")
    /\ \/ published' = store /\ Next_step("finish") /\ UNCHANGED events
       \/ Fault /\ Fails /\ UNCHANGED published
    /\ CommandStep /\ UNCHANGED <<store, signed, resolver, saved>>

\* The answer names the revision of the store, if it can be read.
finish ==
    /\ Held("finish")
    /\ \/ Reply(holder, "ok") /\ holder' = None /\ UNCHANGED events
       \/ Fault /\ Fails
    /\ CommandStep /\ UNCHANGED <<account, saved>>

-----------------------------------------------------------------------------
(* The process *)

\* Fault: what was published outlives the process.
Exit_keeping ==
    /\ up /\ up' = FALSE /\ Disturb
    /\ pending' = {} /\ waiting' = {} /\ holder' = None
    /\ UNCHANGED <<account, dashboard, ops, saved>>

Exit ==
    /\ up /\ up' = FALSE /\ Disturb
    /\ pending' = {} /\ waiting' = {} /\ holder' = None /\ published' = None
    /\ UNCHANGED <<store, signed, resolver, dashboard, ops, saved>>

Boot ==
    /\ ~up /\ up' = TRUE
    /\ UNCHANGED <<account, pending, waiting, holder, dashboard, ops, events,
                   saved>>

\* NSC administration while the adapter is stopped: a user is retired, revoked
\* or created, or an account JWT from a backup is pushed.
Offline ==
    /\ ~up /\ Disturb
    /\ signed' = signed + 1
    /\ \E u \in Users :
          \/ /\ store' \in {[store EXCEPT !.users[u] = 0],
                            [store EXCEPT !.users[u] = signed'],
                            [store EXCEPT !.revoked[u] = signed']}
             /\ UNCHANGED resolver
          \/ /\ resolver' = [resolver EXCEPT ![u] = 0]
             /\ UNCHANGED store
    /\ UNCHANGED <<published, endpoint, dashboard, ops, saved>>

-----------------------------------------------------------------------------

Init ==
    /\ store \in [users : [Users -> {0, 1}], revoked : [Users -> {0}]]
    /\ signed = 1 /\ resolver = store.revoked /\ published = None
    /\ up = TRUE /\ pending = {} /\ waiting = {} /\ holder = None
    /\ req = [a \in Admins |-> Idle] /\ log = {}
    /\ ops = 0 /\ events = 0 /\ saved = {}

Commands == run \/ creds \/ accepted \/ finish

Next ==
    \/ \E a \in Admins : Client(a) /\ UNCHANGED account
    \/ \E a \in Admins : preview(a)
    \/ \E w \in waiting : Refuse(w) \/ Take(w)
    \/ Commands
    \/ Exit \/ Boot \/ Offline

Spec == Init /\ [][Next]_vars

\* A thread of the adapter goes on; each of its commands ends or is killed.
FairSpec == Spec /\ WF_vars(Commands)
=============================================================================
