--------------------------- MODULE DashboardAuth ---------------------------
(***************************************************************************)
(* Dashboard identities, sessions and one-time tickets (src/src/auth.rs).  *)
(*                                                                         *)
(* A named identity has a row in access.sqlite3 and an entry in an         *)
(* in-memory cache that every authorization decision reads.  A change of   *)
(* an identity takes the users mutex, commits a transaction and then       *)
(* writes the cache; sign-in reads the cache, releases it and only then    *)
(* takes the session lock.  Each critical section is one action here, so   *)
(* all interleavings of requests at the points where the code holds no     *)
(* lock are explored, and Restart may fall between any two of them.        *)
(*                                                                         *)
(* `seen', `origin' and `acknowledged' are history that only the           *)
(* properties read.                                                        *)
(***************************************************************************)
EXTENDS SignInLimit, FiniteSets

CONSTANTS
    Users,          \* names of dashboard users
    Procs,          \* requests (and open browser forms) in flight
    Secrets,        \* what random_key can return; none is returned twice
    None,           \* an absent value
    BootstrapKey,   \* the key in NATSUI_AUTH_TOKEN_FILE
    Roles,          \* roles of named users
    NatsEnabled,    \* NATSUI_NATS_LOGIN
    MaxUsers,       \* 256
    MaxSessions,    \* 32
    MaxTickets,     \* 8
    MaxRevision,    \* 2^53 - 1
    SessionLife,    \* 8 hours
    TicketLife      \* 60 seconds

Bootstrap == "bootstrap"
Nats == "nats"

ASSUME DashboardAuthAssumption ==
    /\ None \notin Users \cup Secrets \cup Procs \cup Roles \cup Nat
    /\ None \notin {Bootstrap, Nats, BootstrapKey, "admin"}
    /\ {Bootstrap, Nats} \cap Users = {}
    /\ BootstrapKey \notin Secrets
    /\ Secrets \cap Nat = {}
    /\ Roles \subseteq {"viewer", "operator", "admin"}
    /\ NatsEnabled \in BOOLEAN
    /\ IsFiniteSet(Secrets) /\ IsFiniteSet(Users)
    /\ {MaxUsers, MaxSessions, MaxTickets, MaxRevision, SessionLife,
        TicketLife} \subseteq Nat \ {0}

VARIABLES
    dashboard_users,     \* SQLite rows, one per user name
    dashboard_revision,  \* SQLite counter of user revisions
    identities,          \* the cache of the rows
    writing,             \* users mutex: None, or the committed change its
                         \* holder has yet to write into the cache
    sessions, tickets,   \* grants by the secret that names them
    drawn,               \* secrets random_key has returned
    pc, hand, cookie,    \* per request: next step, grant, presented cookie
    job,                 \* per request: a reviewed user change
    acknowledged         \* history: last revision confirmed for each user

storeVars == <<dashboard_users, dashboard_revision>>
grantVars == <<sessions, tickets>>
procVars == <<pc, hand, cookie, job>>
userVars == <<dashboard_users, dashboard_revision, identities, writing,
              acknowledged>>
vars == <<dashboard_users, dashboard_revision, identities, writing,
          sessions, tickets, drawn, pc, hand, cookie, job, attempts, now,
          acknowledged>>

-----------------------------------------------------------------------------
Actions == {"create", "rotate", "role", "enable", "disable", "delete"}

Identity == [role: Roles, key: Secrets, enabled: BOOLEAN, revision: Nat,
             identity_revision: Nat]

Grant == [id: Users \cup {Bootstrap, Nats},
          key: Secrets \cup {BootstrapKey, None},
          revision: Nat,
          expires: Nat,
          origin: Secrets \cup Nat \cup {None}]

Job == [user: Users,
        action: Actions,
        role: Roles \cup {None},
        revision: Nat,
        seen: Identity \cup {None}]

Change == [by: Procs,
           user: Users,
           action: Actions,
           role: Roles \cup {None},
           key: Secrets \cup {None},
           revision: Nat]

ASSUME NoneAssumption == None \notin Identity \cup Grant \cup Job \cup Change

Holding(table) == {t \in Secrets : table[t] # None}

\* HashMap::retain: drop the grants that have expired.
Retained(table) ==
    [t \in Secrets |->
        IF table[t] # None /\ table[t].expires > now THEN table[t] ELSE None]

\* Fault: the revision of the grant is not compared.
identity_role_by_key(g) ==
    IF g.id = Nats
    THEN IF NatsEnabled THEN Nats ELSE None
    ELSE IF g.id = Bootstrap
    THEN IF g.key = BootstrapKey THEN "admin" ELSE None
    ELSE LET identity == identities[g.id]
         IN  IF identity # None /\ identity.enabled /\ identity.key = g.key
             THEN identity.role
             ELSE None

\* The role a grant has at this moment, by the cache and not by the table.
identity_role(g) ==
    IF g.id = Nats
    THEN IF NatsEnabled THEN Nats ELSE None
    ELSE IF g.id = Bootstrap
    THEN IF g.key = BootstrapKey THEN "admin" ELSE None
    ELSE LET identity == identities[g.id]
         IN  IF /\ identity # None
                /\ identity.enabled
                /\ identity.revision = g.revision
                /\ identity.key = g.key
             THEN identity.role
             ELSE None

\* What the guard decides for a request that presents cookie t.
role(t) ==
    IF sessions[t] # None /\ sessions[t].expires > now
    THEN identity_role(sessions[t])
    ELSE None

Authorised(t) == role(t) # None

-----------------------------------------------------------------------------
(* Sign-in.                                                                *)

\* The grants a key authenticates; `expires' is set when it is stored.
Authenticated(key) ==
    IF key = BootstrapKey
    THEN {[id |-> Bootstrap, key |-> key, revision |-> 0,
           expires |-> now, origin |-> None]}
    ELSE {[id |-> u, key |-> key, revision |-> identities[u].revision,
           expires |-> now, origin |-> None] :
             u \in {v \in Users : /\ identities[v] # None
                                  /\ identities[v].enabled
                                  /\ identities[v].key = key}}

\* Cookies a browser can present: none, or one that names a session.
Cookies == {None} \cup Holding(sessions)

Begin(p, step, g, c) ==
    /\ pc[p] = "idle"
    /\ pc' = [pc EXCEPT ![p] = step]
    /\ hand' = [hand EXCEPT ![p] = g]
    /\ cookie' = [cookie EXCEPT ![p] = c]
    /\ UNCHANGED job

Finish(p) ==
    /\ pc' = [pc EXCEPT ![p] = "idle"]
    /\ hand' = [hand EXCEPT ![p] = None]
    /\ cookie' = [cookie EXCEPT ![p] = None]
    /\ job' = [job EXCEPT ![p] = None]

\* /api/auth/login up to the grant; new_session is a step of its own.
LoginAuthenticate(p) ==
    /\ login_attempt
    /\ \E key \in drawn \cup {BootstrapKey}, c \in Cookies :
         \E g \in Authenticated(key) : Begin(p, "session", g, c)
    /\ UNCHANGED <<userVars, grantVars, drawn, now>>

\* /api/auth/ticket up to the grant.
TicketAuthenticate(p) ==
    /\ login_attempt
    /\ \E key \in drawn \cup {BootstrapKey} :
         \E g \in Authenticated(key) : Begin(p, "ticket", g, None)
    /\ UNCHANGED <<userVars, grantVars, drawn, now>>

\* A key that authenticates nobody still counts as an attempt.
AuthenticateRejected ==
    /\ login_attempt
    /\ UNCHANGED <<userVars, grantVars, drawn, procVars, now>>

\* /api/auth/nats: the broker accepted the credentials.
NatsLogin(p) ==
    /\ NatsEnabled
    /\ login_attempt
    /\ \E c \in Cookies :
         Begin(p, "session", [id |-> Nats, key |-> None, revision |-> 0,
                              expires |-> now, origin |-> None], c)
    /\ UNCHANGED <<userVars, grantVars, drawn, now>>

\* Fault: the mapping is matched by name only.
external_session_by_name(p) ==
    /\ \E u \in Users, r \in 1 .. MaxRevision, c \in Cookies :
         /\ identities[u] # None
         /\ identities[u].enabled
         /\ Begin(p, "session",
                  [id |-> u, key |-> identities[u].key,
                   revision |-> identities[u].revision,
                   expires |-> now, origin |-> r], c)
    /\ UNCHANGED <<userVars, grantVars, drawn, attempts, now>>

\* A verified provider subject that maps to user u at incarnation r.
external_session(p) ==
    /\ \E u \in Users, r \in 1 .. MaxRevision, c \in Cookies :
         /\ identities[u] # None
         /\ identities[u].enabled
         /\ identities[u].identity_revision = r
         /\ Begin(p, "session",
                  [id |-> u, key |-> identities[u].key,
                   revision |-> identities[u].revision,
                   expires |-> now, origin |-> r], c)
    /\ UNCHANGED <<userVars, grantVars, drawn, attempts, now>>

\* Fault: the ticket is read and left for the sweep to remove.
ExchangePeek(p) ==
    /\ \E t \in Holding(tickets), c \in Cookies :
         /\ tickets[t].expires > now
         /\ Begin(p, "redeem", tickets[t], c)
    /\ UNCHANGED <<userVars, grantVars, drawn, attempts, now>>

\* /api/auth/exchange removes the ticket before anything else.
ExchangeRemove(p) ==
    /\ \E t \in Holding(tickets), c \in Cookies :
         /\ tickets' = [tickets EXCEPT ![t] = None]
         /\ IF tickets[t].expires > now
            THEN Begin(p, "redeem", tickets[t], c)
            ELSE pc[p] = "idle" /\ UNCHANGED procVars
    /\ UNCHANGED <<userVars, sessions, drawn, attempts, now>>

ExchangeCheck(p) ==
    /\ pc[p] = "redeem"
    /\ IF identity_role(hand[p]) # None
       THEN /\ pc' = [pc EXCEPT ![p] = "session"]
            /\ UNCHANGED <<hand, cookie, job>>
       ELSE Finish(p)
    /\ UNCHANGED <<userVars, grantVars, drawn, attempts, now>>

InsertTicket(p) ==
    /\ pc[p] = "ticket"
    /\ Cardinality(Holding(Retained(tickets))) < MaxTickets
    /\ \E t \in Secrets \ drawn :
         /\ tickets' = [Retained(tickets) EXCEPT
                          ![t] = [hand[p] EXCEPT !.expires = now + TicketLife,
                                                 !.origin = t]]
         /\ drawn' = drawn \cup {t}
    /\ Finish(p)
    /\ UNCHANGED <<userVars, sessions, attempts, now>>

TicketRefused(p) ==
    /\ pc[p] = "ticket"
    /\ Cardinality(Holding(Retained(tickets))) >= MaxTickets
    /\ tickets' = Retained(tickets)
    /\ Finish(p)
    /\ UNCHANGED <<userVars, sessions, drawn, attempts, now>>

\* The sessions one of which makes room in a full table: those that expire
\* first.  {None} when there is room.
Evictable(table) ==
    IF Cardinality(Holding(table)) < MaxSessions
    THEN {None}
    ELSE {t \in Holding(table) :
            \A s \in Holding(table) : table[t].expires <= table[s].expires}

Without(table, c) == [t \in Secrets |-> IF t = c THEN None ELSE table[t]]

\* Fault: room is made before the presented session is dropped.
new_session_evicts_first(p) ==
    /\ pc[p] = "session"
    /\ \E t \in Secrets \ drawn, victim \in Evictable(Retained(sessions)) :
         /\ sessions' =
              [Without(Without(Retained(sessions), victim), cookie[p]) EXCEPT
                 ![t] = [hand[p] EXCEPT !.expires = now + SessionLife]]
         /\ drawn' = drawn \cup {t}
    /\ Finish(p)
    /\ UNCHANGED <<userVars, tickets, attempts, now>>

\* Drop what has expired and the presented session, make room, insert.
new_session(p) ==
    /\ pc[p] = "session"
    /\ LET left == Without(Retained(sessions), cookie[p])
       IN  \E t \in Secrets \ drawn, victim \in Evictable(left) :
             /\ sessions' = [Without(left, victim) EXCEPT
                   ![t] = [hand[p] EXCEPT !.expires = now + SessionLife]]
             /\ drawn' = drawn \cup {t}
    /\ Finish(p)
    /\ UNCHANGED <<userVars, tickets, attempts, now>>

\* random_key failed: the request ends with 503.
RandomnessFails(p) ==
    /\ pc[p] \in {"session", "ticket"}
    /\ Finish(p)
    /\ UNCHANGED <<userVars, grantVars, drawn, attempts, now>>

\* /api/auth/logout, behind the guard.
revoke ==
    /\ \E t \in Holding(sessions) :
         /\ Authorised(t)
         /\ sessions' = [sessions EXCEPT ![t] = None]
    /\ UNCHANGED <<userVars, tickets, drawn, procVars, attempts, now>>

\* The sweep that runs every minute.
expire_sessions ==
    /\ sessions' = Retained(sessions)
    /\ tickets' = Retained(tickets)
    /\ UNCHANGED <<userVars, drawn, procVars, attempts, now>>

-----------------------------------------------------------------------------
(* Changes of named users.                                                 *)

\* An administrator's browser loads the user list and keeps what it saw.
ViewUsers(p) ==
    /\ \E t \in Secrets : role(t) = "admin"
    /\ \E u \in Users, action \in Actions, r \in Roles \cup {None} :
         /\ pc[p] = "idle"
         /\ (r # None) <=> (action \in {"create", "role"})
         /\ (identities[u] = None) <=> (action = "create")
         /\ job' = [job EXCEPT ![p] =
                      [user |-> u, action |-> action, role |-> r,
                       revision |-> IF identities[u] = None
                                    THEN 0 ELSE identities[u].revision,
                       seen |-> identities[u]]]
    /\ pc' = [pc EXCEPT ![p] = "form"]
    /\ UNCHANGED <<userVars, grantVars, drawn, hand, cookie, attempts, now>>

\* The form is submitted: the guard demands an administrator now, and the
\* "dashboard_user_requested" event is stored before the change is tried.
Submit(p) ==
    /\ pc[p] = "form"
    /\ \E t \in Secrets : role(t) = "admin"
    /\ pc' = [pc EXCEPT ![p] = "change"]
    /\ UNCHANGED <<userVars, grantVars, drawn, hand, cookie, job, attempts,
                   now>>

CloseForm(p) ==
    /\ pc[p] = "form"
    /\ Finish(p)
    /\ UNCHANGED <<userVars, grantVars, drawn, attempts, now>>

\* The form was stale, a limit was reached or the transaction failed: it is
\* rolled back, the counter with it.
ChangeRejected(p) ==
    /\ pc[p] = "change"
    /\ writing = None
    /\ Finish(p)
    /\ UNCHANGED <<userVars, grantVars, drawn, attempts, now>>

Rows == {u \in Users : dashboard_users[u] # None}

\* The newest revision among the rows that exist, 0 without rows.
NewestRow ==
    IF Rows = {} THEN 0
    ELSE CHOOSE r \in {dashboard_users[u].revision : u \in Rows} :
            \A u \in Rows : dashboard_users[u].revision <= r

\* Fault: the next revision is taken from the rows that exist.
NextRevisionOfRows == NewestRow + 1

\* UPDATE dashboard_revision ... WHERE value < MaxRevision RETURNING value.
NextRevision == dashboard_revision + 1

next_user_revision ==
    /\ dashboard_revision < MaxRevision
    /\ dashboard_revision' = NextRevision

\* The key a change draws, None for the changes that draw none.
DrawKey(action, k) ==
    IF action \in {"create", "rotate"}
    THEN k \in Secrets \ drawn /\ drawn' = drawn \cup {k}
    ELSE k = None /\ UNCHANGED drawn

NewIdentity(r, k, revision) ==
    [role |-> r, key |-> k, enabled |-> TRUE,
     revision |-> revision, identity_revision |-> revision]

\* The row the SQL statement of each action leaves.
UpdatedRow(row, action, r, k, revision) ==
    CASE action = "rotate"  -> [row EXCEPT !.key = k, !.revision = revision]
      [] action = "role"    -> [row EXCEPT !.role = r, !.revision = revision]
      [] action = "enable"  -> [row EXCEPT !.enabled = TRUE,
                                           !.revision = revision]
      [] action = "disable" -> [row EXCEPT !.enabled = FALSE,
                                           !.revision = revision]
      [] action = "delete"  -> None

\* Fault: the cache is not told that a user was enabled or disabled.
UpdatedIdentityKeepsEnabled(identity, w) ==
    IF w.action = "create" THEN NewIdentity(w.role, w.key, w.revision)
    ELSE IF w.action = "delete" \/ identity = None THEN None
    ELSE [identity EXCEPT
            !.revision = w.revision,
            !.key = IF w.key # None THEN w.key ELSE @,
            !.role = IF w.role # None THEN w.role ELSE @]

\* The cache entry: fields are assigned only where the change set them.
UpdatedIdentity(identity, w) ==
    IF w.action = "create" THEN NewIdentity(w.role, w.key, w.revision)
    ELSE IF w.action = "delete" \/ identity = None THEN None
    ELSE [identity EXCEPT
            !.revision = w.revision,
            !.key = IF w.key # None THEN w.key ELSE @,
            !.role = IF w.role # None THEN w.role ELSE @,
            !.enabled = IF w.action = "enable" THEN TRUE
                        ELSE IF w.action = "disable" THEN FALSE ELSE @]

\* The WHERE clause of each statement, and the primary key of the table.
Applicable(j) ==
    IF j.action = "create"
    THEN Cardinality(Rows) < MaxUsers /\ dashboard_users[j.user] = None
    ELSE /\ dashboard_users[j.user] # None
         /\ dashboard_users[j.user].revision = j.revision

\* add_user and change_user up to the commit: the users mutex stays taken.
Commit(p) ==
    /\ pc[p] = "change"
    /\ writing = None
    /\ LET j == job[p]
           revision == NextRevision
       IN  /\ Applicable(j)
           /\ next_user_revision
           /\ \E k \in Secrets \cup {None} :
                /\ DrawKey(j.action, k)
                /\ dashboard_users' = [dashboard_users EXCEPT ![j.user] =
                     IF j.action = "create"
                     THEN NewIdentity(j.role, k, revision)
                     ELSE UpdatedRow(@, j.action, j.role, k, revision)]
                /\ writing' = [by |-> p, user |-> j.user,
                               action |-> j.action, role |-> j.role,
                               key |-> k, revision |-> revision]
    /\ pc' = [pc EXCEPT ![p] = "publish"]
    /\ UNCHANGED <<identities, grantVars, hand, cookie, job, attempts, now,
                   acknowledged>>

\* Fault: the mutex is not released.
PublishKeepsMutex(p) ==
    /\ pc[p] = "publish"
    /\ identities' = [identities EXCEPT
                        ![writing.user] = UpdatedIdentity(@, writing)]
    /\ acknowledged' = [acknowledged EXCEPT
                          ![writing.user] = writing.revision]
    /\ UNCHANGED writing
    /\ Finish(p)
    /\ UNCHANGED <<storeVars, grantVars, drawn, attempts, now>>

\* The rest of add_user and change_user: write the cache, release the mutex
\* and answer.
Publish(p) ==
    /\ pc[p] = "publish"
    /\ identities' = [identities EXCEPT
                        ![writing.user] = UpdatedIdentity(@, writing)]
    /\ acknowledged' = [acknowledged EXCEPT
                          ![writing.user] = writing.revision]
    /\ writing' = None
    /\ Finish(p)
    /\ UNCHANGED <<storeVars, grantVars, drawn, attempts, now>>

-----------------------------------------------------------------------------
Tick ==
    /\ Advance
    /\ UNCHANGED <<userVars, grantVars, drawn, procVars, attempts>>

\* Fault: the counter is recomputed from the rows.
open_users_recounts ==
    /\ identities' = dashboard_users
    /\ dashboard_revision' = NewestRow
    /\ UNCHANGED dashboard_users

\* open_users: the cache is loaded from the rows; the counter is kept.
open_users ==
    /\ identities' = dashboard_users
    /\ UNCHANGED storeVars

\* The process stops anywhere and starts again.  Forms live in browsers.
Restart ==
    /\ open_users
    /\ writing' = None
    /\ sessions' = [t \in Secrets |-> None]
    /\ tickets' = [t \in Secrets |-> None]
    /\ pc' = [p \in Procs |-> IF pc[p] = "form" THEN "form" ELSE "idle"]
    /\ job' = [p \in Procs |-> IF pc[p] = "form" THEN job[p] ELSE None]
    /\ hand' = [p \in Procs |-> None]
    /\ cookie' = [p \in Procs |-> None]
    /\ attempts' = [start |-> now, count |-> 0]
    /\ UNCHANGED <<drawn, now, acknowledged>>

Init ==
    /\ dashboard_users = [u \in Users |-> None]
    /\ dashboard_revision = 0
    /\ identities = [u \in Users |-> None]
    /\ writing = None
    /\ sessions = [t \in Secrets |-> None]
    /\ tickets = [t \in Secrets |-> None]
    /\ drawn = {}
    /\ pc = [p \in Procs |-> "idle"]
    /\ hand = [p \in Procs |-> None]
    /\ cookie = [p \in Procs |-> None]
    /\ job = [p \in Procs |-> None]
    /\ attempts = [start |-> 0, count |-> 0]
    /\ now = 0
    /\ acknowledged = [u \in Users |-> 0]

\* What a request in flight does next without its browser.
Proceed(p) ==
    \/ ExchangeCheck(p)
    \/ InsertTicket(p)
    \/ TicketRefused(p)
    \/ new_session(p)
    \/ RandomnessFails(p)
    \/ ChangeRejected(p)
    \/ Commit(p)
    \/ Publish(p)

Arrive(p) ==
    \/ LoginAuthenticate(p)
    \/ TicketAuthenticate(p)
    \/ NatsLogin(p)
    \/ external_session(p)
    \/ ExchangeRemove(p)
    \/ ViewUsers(p)
    \/ Submit(p)
    \/ CloseForm(p)

Next ==
    \/ \E p \in Procs : Arrive(p) \/ Proceed(p)
    \/ AuthenticateRejected
    \/ revoke
    \/ expire_sessions
    \/ Tick
    \/ Restart

Spec == Init /\ [][Next]_vars

\* A request the server has accepted is run until it answers.
FairSpec == Spec /\ \A p \in Procs : WF_vars(Proceed(p))
=============================================================================
