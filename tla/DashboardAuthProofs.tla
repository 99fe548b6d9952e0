------------------------- MODULE DashboardAuthProofs -------------------------
(***************************************************************************)
(* Proofs that the safety properties of DashboardAuth hold for any number  *)
(* of users, requests, secrets and revisions.  RevisionOrder is inductive, *)
(* and so is TicketCustody, which adds where each grant is; every other    *)
(* property follows from these two.                                        *)
(***************************************************************************)
EXTENDS DashboardAuthProperties, TLAPS, FiniteSetTheorems

\* A server that starts on an empty database satisfies the invariant (Init:
\* no user, no session, no request).
LEMMA InitRevisionOrder == Init => RevisionOrder
  <1> SUFFICES ASSUME Init PROVE RevisionOrder
    OBVIOUS
  <1> USE DEF Init
  <1>1. TypeOK
    BY DEF TypeOK, Steps, SignInLimitAssumption, DashboardAuthAssumption
  <1>2. CacheMatchesStore /\ MutexHeldByPublisher
    BY DEF CacheMatchesStore, MutexHeldByPublisher
  <1>3. PendingChange /\ RevisionsBounded
    BY DEF PendingChange, RevisionsBounded, PublishedRevision
  <1>4. GrantsTrue /\ JobsReviewed /\ ConfirmedRevisions
    BY DEF GrantsTrue, JobsReviewed, ConfirmedRevisions
  <1> QED
    BY <1>1, <1>2, <1>3, <1>4 DEF RevisionOrder

\* What a step that leaves the users alone keeps.
LEMMA UsersFrame ==
  ASSUME RevisionOrder,
         UNCHANGED userVars,
         \A p \in Procs : job'[p] \in {job[p], None},
         \A p \in Procs : pc'[p] = "publish" <=> pc[p] = "publish"
  PROVE  /\ CacheMatchesStore'
         /\ MutexHeldByPublisher'
         /\ PendingChange'
         /\ RevisionsBounded'
         /\ JobsReviewed'
         /\ ConfirmedRevisions'
  <1> USE DEF RevisionOrder, userVars
  <1>1. CacheMatchesStore' /\ MutexHeldByPublisher'
    BY DEF CacheMatchesStore, MutexHeldByPublisher
  <1>2. PendingChange'
    BY DEF PendingChange
  <1>3. RevisionsBounded'
    BY DEF RevisionsBounded, PublishedRevision
  <1>4. JobsReviewed' /\ ConfirmedRevisions'
    BY DEF JobsReviewed, ConfirmedRevisions
  <1> QED
    BY <1>1, <1>2, <1>3, <1>4

\* A grant keeps its truth when it is stored again with another expiry, or
\* as a ticket, which is named by a secret.
Restamped(h, g) ==
    /\ h.id = g.id
    /\ h.key = g.key
    /\ h.revision = g.revision
    /\ h.origin = g.origin \/ h.origin \in Secrets

\* A grant that is stored under a new secret with a new expiry (new_session,
\* ticket) stays a true grant.
LEMMA RestampedTrue ==
  ASSUME NEW g, NEW h, TrueGrant(g), Restamped(h, g), UNCHANGED userVars
  PROVE  TrueGrant(h)'
  BY DashboardAuthAssumption
     DEF TrueGrant, Restamped, userVars, PublishedRevision

\* The grants a key authenticates are true ones.
LEMMA AuthenticatedTrue ==
  ASSUME RevisionOrder, NEW key \in Secrets \cup {BootstrapKey},
         NEW g \in Authenticated(key)
  PROVE  g \in Grant /\ TrueGrant(g)
  <1>1. CASE key = BootstrapKey
    BY <1>1, DashboardAuthAssumption
       DEF Authenticated, Grant, TrueGrant, RevisionOrder, TypeOK
  <1>2. CASE key # BootstrapKey
    <2>1. PICK u \in Users :
             /\ identities[u] # None /\ identities[u].enabled
             /\ identities[u].key = key
             /\ g = [id |-> u, key |-> key,
                     revision |-> identities[u].revision,
                     expires |-> now, origin |-> None]
      BY <1>2 DEF Authenticated
    <2>2. identities[u] \in Identity
      BY <2>1 DEF RevisionOrder, TypeOK
    <2>3. g \in Grant
      BY <1>2, <2>1, <2>2 DEF Grant, Identity, RevisionOrder, TypeOK
    <2>4. g.revision <= PublishedRevision
      BY <2>1 DEF RevisionOrder, RevisionsBounded
    <2> QED
      BY <2>1, <2>3, <2>4, DashboardAuthAssumption DEF TrueGrant
  <1> QED
    BY <1>1, <1>2

-----------------------------------------------------------------------------
Table == [Secrets -> Grant \cup {None}]

\* The sweep of expired grants (HashMap::retain) only removes entries.
LEMMA RetainedTable ==
  ASSUME NEW table \in Table
  PROVE  /\ Retained(table) \in Table
         /\ \A t \in Secrets : Retained(table)[t] \in {table[t], None}
  BY DEF Retained, Table

\* Dropping a session (HashMap::remove) leaves the other entries alone.
LEMMA WithoutTable ==
  ASSUME NEW table \in Table, NEW c
  PROVE  /\ Without(table, c) \in Table
         /\ \A t \in Secrets : Without(table, c)[t] \in {table[t], None}
  BY DEF Without, Table

\* The limiter of sign-in attempts keeps its shape.
LEMMA AttemptType ==
  ASSUME TypeOK, login_attempt
  PROVE  attempts' \in [start : Nat, count : Nat]
  <1>1. CurrentWindow \in [start : Nat, count : Nat]
    BY DEF CurrentWindow, TypeOK
  <1> QED
    BY <1>1 DEF login_attempt

\* A step that moves grants between requests and tables, each a true grant
\* that may be stored anew, and touches no user, preserves the invariant.
LEMMA GrantStep ==
  ASSUME RevisionOrder,
         UNCHANGED userVars,
         sessions' \in Table, tickets' \in Table,
         drawn' \in SUBSET Secrets,
         attempts' \in [start : Nat, count : Nat],
         now' \in Nat,
         \A t \in Secrets : sessions'[t] # None =>
            \E g \in Grant : TrueGrant(g) /\ Restamped(sessions'[t], g),
         \A t \in Secrets : tickets'[t] # None =>
            \E g \in Grant : TrueGrant(g) /\ Restamped(tickets'[t], g),
         pc' \in [Procs -> Steps],
         hand' \in [Procs -> Grant \cup {None}],
         cookie' \in [Procs -> Secrets \cup {None}],
         job' \in [Procs -> Job \cup {None}],
         \A p \in Procs :
            /\ hand'[p] # None => TrueGrant(hand'[p])
            /\ pc'[p] \in {"session", "ticket", "redeem"} => hand'[p] # None
            /\ pc'[p] \in {"form", "change", "publish"} => job'[p] # None
            /\ job'[p] \in {job[p], None}
            /\ pc'[p] = "publish" <=> pc[p] = "publish"
  PROVE  RevisionOrder'
  <1>1. TypeOK'
    BY DEF TypeOK, RevisionOrder, userVars, Table
  <1>2. GrantsTrue'
    <2>1. ASSUME NEW t \in Secrets, sessions'[t] # None
          PROVE  TrueGrant(sessions[t])'
      BY <2>1, RestampedTrue
    <2>2. ASSUME NEW t \in Secrets, tickets'[t] # None
          PROVE  TrueGrant(tickets[t])'
      BY <2>2, RestampedTrue
    <2>3. ASSUME NEW p \in Procs, hand'[p] # None
          PROVE  TrueGrant(hand[p])'
      BY <2>3, RestampedTrue DEF Restamped
    <2> QED
      BY <2>1, <2>2, <2>3 DEF GrantsTrue
  <1>3. /\ CacheMatchesStore' /\ MutexHeldByPublisher' /\ PendingChange'
        /\ RevisionsBounded' /\ JobsReviewed' /\ ConfirmedRevisions'
    BY UsersFrame
  <1> QED
    BY <1>1, <1>2, <1>3 DEF RevisionOrder

\* A table whose entries were all there before holds true grants.
LEMMA OldGrantsTrue ==
  ASSUME RevisionOrder,
         NEW old \in {sessions, tickets}, NEW table \in Table,
         \A t \in Secrets : table[t] \in {old[t], None}
  PROVE  \A t \in Secrets : table[t] # None =>
            \E g \in Grant : TrueGrant(g) /\ Restamped(table[t], g)
  <1> SUFFICES ASSUME NEW t \in Secrets, table[t] # None
               PROVE  \E g \in Grant : TrueGrant(g) /\ Restamped(table[t], g)
    OBVIOUS
  <1>1. table[t] \in Grant /\ TrueGrant(table[t])
    BY DEF RevisionOrder, TypeOK, GrantsTrue, Table
  <1>2. Restamped(table[t], table[t])
    BY DEF Restamped
  <1> QED
    BY <1>1, <1>2

\* A request that starts with a true grant (Begin) preserves the invariant.
LEMMA BeginStep ==
  ASSUME RevisionOrder, NEW p \in Procs,
         NEW step \in {"session", "ticket", "redeem"},
         NEW g \in Grant, TrueGrant(g),
         NEW c \in Secrets \cup {None},
         Begin(p, step, g, c),
         UNCHANGED <<userVars, sessions, drawn, now>>,
         tickets' \in Table,
         \A t \in Secrets : tickets'[t] \in {tickets[t], None},
         attempts' \in [start : Nat, count : Nat]
  PROVE  RevisionOrder'
  <1> USE DEF Begin
  <1>1. /\ sessions' \in Table /\ drawn' \in SUBSET Secrets /\ now' \in Nat
        /\ job' \in [Procs -> Job \cup {None}]
    BY DEF RevisionOrder, TypeOK, Table
  <1>2. /\ \A t \in Secrets : sessions'[t] # None =>
             \E h \in Grant : TrueGrant(h) /\ Restamped(sessions'[t], h)
        /\ \A t \in Secrets : tickets'[t] # None =>
             \E h \in Grant : TrueGrant(h) /\ Restamped(tickets'[t], h)
    BY <1>1, OldGrantsTrue
  <1>3. /\ pc' \in [Procs -> Steps]
        /\ hand' \in [Procs -> Grant \cup {None}]
        /\ cookie' \in [Procs -> Secrets \cup {None}]
    BY DEF RevisionOrder, TypeOK, Steps
  <1>4. ASSUME NEW q \in Procs
        PROVE  /\ hand'[q] # None => TrueGrant(hand'[q])
               /\ pc'[q] \in {"session", "ticket", "redeem"} => hand'[q] # None
               /\ pc'[q] \in {"form", "change", "publish"} => job'[q] # None
               /\ job'[q] \in {job[q], None}
               /\ pc'[q] = "publish" <=> pc[q] = "publish"
    <2>1. None \notin Grant
      BY NoneAssumption
    <2>2. CASE q = p
      BY <2>1, <2>2 DEF RevisionOrder, TypeOK, GrantsTrue
    <2>3. CASE q # p
      BY <2>3 DEF RevisionOrder, TypeOK, GrantsTrue
    <2> QED
      BY <2>2, <2>3
  <1> QED
    BY <1>1, <1>2, <1>3, <1>4, GrantStep

\* A request that ends (Finish) preserves the invariant.
LEMMA FinishStep ==
  ASSUME RevisionOrder, NEW p \in Procs, pc[p] # "publish", Finish(p),
         UNCHANGED <<userVars, attempts, now>>,
         sessions' \in Table, tickets' \in Table, drawn' \in SUBSET Secrets,
         \A t \in Secrets : sessions'[t] # None =>
            \E g \in Grant : TrueGrant(g) /\ Restamped(sessions'[t], g),
         \A t \in Secrets : tickets'[t] # None =>
            \E g \in Grant : TrueGrant(g) /\ Restamped(tickets'[t], g)
  PROVE  RevisionOrder'
  <1> USE DEF Finish
  <1>1. /\ attempts' \in [start : Nat, count : Nat] /\ now' \in Nat
        /\ job' \in [Procs -> Job \cup {None}]
    BY DEF RevisionOrder, TypeOK
  <1>2. /\ pc' \in [Procs -> Steps]
        /\ hand' \in [Procs -> Grant \cup {None}]
        /\ cookie' \in [Procs -> Secrets \cup {None}]
    BY DEF RevisionOrder, TypeOK, Steps
  <1>3. ASSUME NEW q \in Procs
        PROVE  /\ hand'[q] # None => TrueGrant(hand'[q])
               /\ pc'[q] \in {"session", "ticket", "redeem"} => hand'[q] # None
               /\ pc'[q] \in {"form", "change", "publish"} => job'[q] # None
               /\ job'[q] \in {job[q], None}
               /\ pc'[q] = "publish" <=> pc[q] = "publish"
    <2>1. CASE q = p
      BY <2>1 DEF RevisionOrder, TypeOK
    <2>2. CASE q # p
      BY <2>2 DEF RevisionOrder, TypeOK, GrantsTrue
    <2> QED
      BY <2>1, <2>2
  <1> QED
    BY <1>1, <1>2, <1>3, GrantStep

-----------------------------------------------------------------------------
(* Sign-in, one lemma per action.                                          *)

\* /api/auth/login preserves the invariant.
LEMMA LoginAuthenticateStep ==
  ASSUME RevisionOrder, NEW p \in Procs, LoginAuthenticate(p)
  PROVE  RevisionOrder'
  <1> USE DEF LoginAuthenticate, grantVars
  <1>1. PICK key \in drawn \cup {BootstrapKey}, c \in Cookies :
          \E g \in Authenticated(key) : Begin(p, "session", g, c)
    OBVIOUS
  <1>2. PICK g \in Authenticated(key) : Begin(p, "session", g, c)
    BY <1>1
  <1>3. key \in Secrets \cup {BootstrapKey} /\ c \in Secrets \cup {None}
    BY DEF RevisionOrder, TypeOK, Cookies, Holding
  <1>4. g \in Grant /\ TrueGrant(g)
    BY <1>3, AuthenticatedTrue
  <1>5. /\ tickets' \in Table
        /\ \A t \in Secrets : tickets'[t] \in {tickets[t], None}
        /\ attempts' \in [start : Nat, count : Nat]
    BY AttemptType DEF RevisionOrder, TypeOK, Table
  <1> QED
    BY <1>2, <1>3, <1>4, <1>5, BeginStep

\* /api/auth/ticket preserves the invariant.
LEMMA TicketAuthenticateStep ==
  ASSUME RevisionOrder, NEW p \in Procs, TicketAuthenticate(p)
  PROVE  RevisionOrder'
  <1> USE DEF TicketAuthenticate, grantVars
  <1>1. PICK key \in drawn \cup {BootstrapKey} :
          \E g \in Authenticated(key) : Begin(p, "ticket", g, None)
    OBVIOUS
  <1>2. PICK g \in Authenticated(key) : Begin(p, "ticket", g, None)
    BY <1>1
  <1>3. key \in Secrets \cup {BootstrapKey}
    BY DEF RevisionOrder, TypeOK
  <1>4. g \in Grant /\ TrueGrant(g)
    BY <1>3, AuthenticatedTrue
  <1>5. /\ tickets' \in Table
        /\ \A t \in Secrets : tickets'[t] \in {tickets[t], None}
        /\ attempts' \in [start : Nat, count : Nat]
    BY AttemptType DEF RevisionOrder, TypeOK, Table
  <1> QED
    BY <1>2, <1>4, <1>5, BeginStep

\* A rejected key changes nothing but the limiter; the same holds of Tick,
\* logout and the sweep, which at most remove entries of the tables.
LEMMA SweepStep ==
  ASSUME RevisionOrder, UNCHANGED <<userVars, procVars, drawn>>,
         sessions' \in Table, tickets' \in Table,
         \A t \in Secrets : sessions'[t] \in {sessions[t], None},
         \A t \in Secrets : tickets'[t] \in {tickets[t], None},
         attempts' \in [start : Nat, count : Nat],
         now' \in Nat
  PROVE  RevisionOrder'
  <1> USE DEF procVars
  <1>1. /\ \A t \in Secrets : sessions'[t] # None =>
             \E g \in Grant : TrueGrant(g) /\ Restamped(sessions'[t], g)
        /\ \A t \in Secrets : tickets'[t] # None =>
             \E g \in Grant : TrueGrant(g) /\ Restamped(tickets'[t], g)
    BY OldGrantsTrue
  <1>2. /\ drawn' \in SUBSET Secrets
        /\ pc' \in [Procs -> Steps]
        /\ hand' \in [Procs -> Grant \cup {None}]
        /\ cookie' \in [Procs -> Secrets \cup {None}]
        /\ job' \in [Procs -> Job \cup {None}]
    BY DEF RevisionOrder, TypeOK
  <1>3. \A p \in Procs :
          /\ hand'[p] # None => TrueGrant(hand'[p])
          /\ pc'[p] \in {"session", "ticket", "redeem"} => hand'[p] # None
          /\ pc'[p] \in {"form", "change", "publish"} => job'[p] # None
          /\ job'[p] \in {job[p], None}
          /\ pc'[p] = "publish" <=> pc[p] = "publish"
    BY DEF RevisionOrder, TypeOK, GrantsTrue
  <1> QED
    BY <1>1, <1>2, <1>3, GrantStep

\* A key that authenticates nobody changes only the limiter.
LEMMA AuthenticateRejectedStep ==
  ASSUME RevisionOrder, AuthenticateRejected
  PROVE  RevisionOrder'
  <1>1. /\ sessions \in Table /\ tickets \in Table /\ now \in Nat
        /\ attempts' \in [start : Nat, count : Nat]
    BY AttemptType DEF RevisionOrder, TypeOK, Table, AuthenticateRejected
  <1> QED
    BY <1>1, SweepStep DEF AuthenticateRejected, grantVars

\* Time passing changes no grant; expiry is read when a grant is used.
LEMMA TickStep ==
  ASSUME RevisionOrder, Tick
  PROVE  RevisionOrder'
  <1>1. /\ sessions \in Table /\ tickets \in Table /\ now' \in Nat
        /\ attempts \in [start : Nat, count : Nat]
    BY DEF RevisionOrder, TypeOK, Table, Tick, Advance
  <1> QED
    BY <1>1, SweepStep DEF Tick, grantVars

\* Logout only removes a session.
LEMMA RevokeStep ==
  ASSUME RevisionOrder, revoke
  PROVE  RevisionOrder'
  <1>1. /\ sessions' \in Table /\ tickets \in Table /\ now \in Nat
        /\ attempts \in [start : Nat, count : Nat]
        /\ \A t \in Secrets : sessions'[t] \in {sessions[t], None}
    BY DEF RevisionOrder, TypeOK, Table, revoke, Holding
  <1> QED
    BY <1>1, SweepStep DEF revoke

\* The minute sweep only removes expired sessions and tickets.
LEMMA ExpireSessionsStep ==
  ASSUME RevisionOrder, expire_sessions
  PROVE  RevisionOrder'
  <1>1. /\ sessions \in Table /\ tickets \in Table /\ now \in Nat
        /\ attempts \in [start : Nat, count : Nat]
    BY DEF RevisionOrder, TypeOK, Table
  <1>2. /\ sessions' \in Table /\ tickets' \in Table
        /\ \A t \in Secrets : sessions'[t] \in {sessions[t], None}
        /\ \A t \in Secrets : tickets'[t] \in {tickets[t], None}
    BY <1>1, RetainedTable DEF expire_sessions
  <1> QED
    BY <1>1, <1>2, SweepStep DEF expire_sessions

\* A sign-in through the broker acts for no named user.
LEMMA NatsLoginStep ==
  ASSUME RevisionOrder, NEW p \in Procs, NatsLogin(p)
  PROVE  RevisionOrder'
  <1> USE DEF NatsLogin, grantVars
  <1> DEFINE g == [id |-> Nats, key |-> None, revision |-> 0,
                   expires |-> now, origin |-> None]
  <1>1. PICK c \in Cookies : Begin(p, "session", g, c)
    OBVIOUS
  <1>2. c \in Secrets \cup {None}
    BY DEF Cookies, Holding
  <1>3. g \in Grant /\ TrueGrant(g)
    BY DashboardAuthAssumption
       DEF Grant, TrueGrant, RevisionOrder, TypeOK
  <1>4. /\ tickets' \in Table
        /\ \A t \in Secrets : tickets'[t] \in {tickets[t], None}
        /\ attempts' \in [start : Nat, count : Nat]
    BY AttemptType DEF RevisionOrder, TypeOK, Table
  <1> QED
    BY <1>1, <1>2, <1>3, <1>4, BeginStep

\* A sign-in through a provider mapping is a grant of the mapped incarnation.
LEMMA ExternalSessionStep ==
  ASSUME RevisionOrder, NEW p \in Procs, external_session(p)
  PROVE  RevisionOrder'
  <1> USE DEF external_session, grantVars
  <1>1. PICK u \in Users, r \in 1 .. MaxRevision, c \in Cookies :
          /\ identities[u] # None
          /\ identities[u].enabled
          /\ identities[u].identity_revision = r
          /\ Begin(p, "session",
                   [id |-> u, key |-> identities[u].key,
                    revision |-> identities[u].revision,
                    expires |-> now, origin |-> r], c)
    OBVIOUS
  <1> DEFINE g == [id |-> u, key |-> identities[u].key,
                   revision |-> identities[u].revision,
                   expires |-> now, origin |-> r]
  <1>2. c \in Secrets \cup {None}
    BY DEF Cookies, Holding
  <1>3. identities[u] \in Identity /\ identities[u].revision <= PublishedRevision
    BY <1>1 DEF RevisionOrder, TypeOK, RevisionsBounded
  <1>4. r \in Nat /\ now \in Nat
    BY DashboardAuthAssumption DEF RevisionOrder, TypeOK
  <1>5. g \in Grant /\ TrueGrant(g)
    BY <1>1, <1>3, <1>4 DEF Grant, Identity, TrueGrant
  <1>6. /\ tickets' \in Table
        /\ \A t \in Secrets : tickets'[t] \in {tickets[t], None}
        /\ attempts' \in [start : Nat, count : Nat]
    BY DEF RevisionOrder, TypeOK, Table
  <1> QED
    BY <1>1, <1>2, <1>5, <1>6, BeginStep

-----------------------------------------------------------------------------
(* Tickets and sessions.                                                   *)

\* An exchange moves the ticket's grant to the request, or drops it.
LEMMA ExchangeRemoveStep ==
  ASSUME RevisionOrder, NEW p \in Procs, ExchangeRemove(p)
  PROVE  RevisionOrder'
  <1> USE DEF ExchangeRemove
  <1>1. PICK t \in Holding(tickets), c \in Cookies :
          /\ tickets' = [tickets EXCEPT ![t] = None]
          /\ IF tickets[t].expires > now
             THEN Begin(p, "redeem", tickets[t], c)
             ELSE pc[p] = "idle" /\ UNCHANGED procVars
    OBVIOUS
  <1>2. /\ tickets' \in Table
        /\ \A s \in Secrets : tickets'[s] \in {tickets[s], None}
    BY <1>1 DEF RevisionOrder, TypeOK, Table
  <1>3. /\ attempts' \in [start : Nat, count : Nat] /\ now' \in Nat
        /\ sessions' \in Table
    BY DEF RevisionOrder, TypeOK, Table
  <1>4. CASE tickets[t].expires > now
    <2>1. tickets[t] \in Grant /\ TrueGrant(tickets[t])
      BY DEF RevisionOrder, TypeOK, GrantsTrue, Holding
    <2>2. c \in Secrets \cup {None}
      BY DEF Cookies, Holding
    <2> QED
      BY <1>1, <1>2, <1>3, <1>4, <2>1, <2>2, BeginStep
  <1>5. CASE ~(tickets[t].expires > now)
    BY <1>1, <1>2, <1>3, <1>5, SweepStep
  <1> QED
    BY <1>4, <1>5

\* A request that ends without touching a table.
LEMMA QuietFinishStep ==
  ASSUME RevisionOrder, NEW p \in Procs, pc[p] # "publish", Finish(p),
         UNCHANGED <<userVars, grantVars, drawn, attempts, now>>
  PROVE  RevisionOrder'
  <1>1. /\ sessions \in Table /\ tickets \in Table /\ drawn \in SUBSET Secrets
    BY DEF RevisionOrder, TypeOK, Table
  <1>2. /\ \A t \in Secrets : sessions[t] # None =>
             \E g \in Grant : TrueGrant(g) /\ Restamped(sessions[t], g)
        /\ \A t \in Secrets : tickets[t] # None =>
             \E g \in Grant : TrueGrant(g) /\ Restamped(tickets[t], g)
    BY <1>1, OldGrantsTrue
  <1> QED
    BY <1>1, <1>2, FinishStep DEF grantVars

\* The check of a removed ticket keeps its grant or drops it.
LEMMA ExchangeCheckStep ==
  ASSUME RevisionOrder, NEW p \in Procs, ExchangeCheck(p)
  PROVE  RevisionOrder'
  <1> USE DEF ExchangeCheck
  <1>1. CASE identity_role(hand[p]) # None
    <2>1. /\ attempts' \in [start : Nat, count : Nat] /\ now' \in Nat
          /\ sessions' \in Table /\ tickets' \in Table
          /\ drawn' \in SUBSET Secrets
          /\ pc' \in [Procs -> Steps]
          /\ hand' \in [Procs -> Grant \cup {None}]
          /\ cookie' \in [Procs -> Secrets \cup {None}]
          /\ job' \in [Procs -> Job \cup {None}]
      BY <1>1 DEF RevisionOrder, TypeOK, Table, grantVars, Steps
    <2>2. /\ \A t \in Secrets : sessions'[t] # None =>
               \E g \in Grant : TrueGrant(g) /\ Restamped(sessions'[t], g)
          /\ \A t \in Secrets : tickets'[t] # None =>
               \E g \in Grant : TrueGrant(g) /\ Restamped(tickets'[t], g)
      BY <2>1, OldGrantsTrue DEF grantVars
    <2>3. \A q \in Procs :
            /\ hand'[q] # None => TrueGrant(hand'[q])
            /\ pc'[q] \in {"session", "ticket", "redeem"} => hand'[q] # None
            /\ pc'[q] \in {"form", "change", "publish"} => job'[q] # None
            /\ job'[q] \in {job[q], None}
            /\ pc'[q] = "publish" <=> pc[q] = "publish"
      BY <1>1 DEF RevisionOrder, TypeOK, GrantsTrue
    <2> QED
      BY <2>1, <2>2, <2>3, GrantStep
  <1>2. CASE identity_role(hand[p]) = None
    BY <1>2, QuietFinishStep
  <1> QED
    BY <1>1, <1>2

\* A true grant stored under a fresh secret, in a table of old grants.
LEMMA StoredGrantsTrue ==
  ASSUME RevisionOrder,
         NEW old \in {sessions, tickets}, NEW table \in Table,
         \A t \in Secrets : table[t] \in {old[t], None},
         NEW g \in Grant, TrueGrant(g), NEW h \in Grant, Restamped(h, g),
         NEW t \in Secrets
  PROVE  /\ [table EXCEPT ![t] = h] \in Table
         /\ \A s \in Secrets : [table EXCEPT ![t] = h][s] # None =>
              \E f \in Grant :
                 TrueGrant(f) /\ Restamped([table EXCEPT ![t] = h][s], f)
  <1>1. [table EXCEPT ![t] = h] \in Table
    BY DEF Table
  <1>2. ASSUME NEW s \in Secrets, [table EXCEPT ![t] = h][s] # None
        PROVE  \E f \in Grant :
                 TrueGrant(f) /\ Restamped([table EXCEPT ![t] = h][s], f)
    <2>1. CASE s = t
      BY <2>1 DEF Table
    <2>2. CASE s # t
      BY <1>2, <2>2, OldGrantsTrue DEF Table
    <2> QED
      BY <2>1, <2>2
  <1> QED
    BY <1>1, <1>2

\* A ticket stores the grant of the request that asked for it.
LEMMA InsertTicketStep ==
  ASSUME RevisionOrder, NEW p \in Procs, InsertTicket(p)
  PROVE  RevisionOrder'
  <1> USE DEF InsertTicket
  <1>1. PICK t \in Secrets \ drawn :
          /\ tickets' = [Retained(tickets) EXCEPT
                           ![t] = [hand[p] EXCEPT !.expires = now + TicketLife,
                                                  !.origin = t]]
          /\ drawn' = drawn \cup {t}
    OBVIOUS
  <1> DEFINE h == [hand[p] EXCEPT !.expires = now + TicketLife, !.origin = t]
  <1>2. hand[p] \in Grant /\ TrueGrant(hand[p])
    BY DEF RevisionOrder, TypeOK, GrantsTrue
  <1>3. h \in Grant /\ Restamped(h, hand[p])
    <2>1. now + TicketLife \in Nat
      BY DashboardAuthAssumption DEF RevisionOrder, TypeOK
    <2> QED
      BY <1>2, <2>1 DEF Grant, Restamped
  <1>4. /\ tickets \in Table /\ sessions \in Table
        /\ drawn' \in SUBSET Secrets
    BY <1>1 DEF RevisionOrder, TypeOK, Table
  <1>5. /\ Retained(tickets) \in Table
        /\ \A s \in Secrets : Retained(tickets)[s] \in {tickets[s], None}
    BY <1>4, RetainedTable
  <1>6. /\ tickets' \in Table
        /\ \A s \in Secrets : tickets'[s] # None =>
             \E f \in Grant : TrueGrant(f) /\ Restamped(tickets'[s], f)
    <2> HIDE DEF h
    <2>1. tickets' = [Retained(tickets) EXCEPT ![t] = h]
      BY <1>1 DEF h
    <2> QED
      BY <1>2, <1>3, <1>5, <2>1, StoredGrantsTrue
  <1>7. \A s \in Secrets : sessions[s] # None =>
          \E f \in Grant : TrueGrant(f) /\ Restamped(sessions[s], f)
    BY <1>4, OldGrantsTrue
  <1> QED
    BY <1>4, <1>6, <1>7, FinishStep

\* A refused ticket leaves only the sweep of the table behind.
LEMMA TicketRefusedStep ==
  ASSUME RevisionOrder, NEW p \in Procs, TicketRefused(p)
  PROVE  RevisionOrder'
  <1> USE DEF TicketRefused
  <1>1. /\ tickets \in Table /\ sessions \in Table /\ drawn \in SUBSET Secrets
    BY DEF RevisionOrder, TypeOK, Table
  <1>2. /\ tickets' \in Table
        /\ \A s \in Secrets : tickets'[s] \in {tickets[s], None}
    BY <1>1, RetainedTable
  <1>3. /\ \A s \in Secrets : tickets'[s] # None =>
             \E f \in Grant : TrueGrant(f) /\ Restamped(tickets'[s], f)
        /\ \A s \in Secrets : sessions[s] # None =>
             \E f \in Grant : TrueGrant(f) /\ Restamped(sessions[s], f)
    BY <1>1, <1>2, OldGrantsTrue
  <1> QED
    BY <1>1, <1>2, <1>3, FinishStep

\* A session stores the grant of the request that opened it.
LEMMA NewSessionStep ==
  ASSUME RevisionOrder, NEW p \in Procs, new_session(p)
  PROVE  RevisionOrder'
  <1> USE DEF new_session
  <1> DEFINE left == Without(Retained(sessions), cookie[p])
             h == [hand[p] EXCEPT !.expires = now + SessionLife]
  <1>1. PICK t \in Secrets \ drawn, victim \in Evictable(left) :
          /\ sessions' = [Without(left, victim) EXCEPT ![t] = h]
          /\ drawn' = drawn \cup {t}
    OBVIOUS
  <1>2. hand[p] \in Grant /\ TrueGrant(hand[p])
    BY DEF RevisionOrder, TypeOK, GrantsTrue
  <1>3. h \in Grant /\ Restamped(h, hand[p])
    <2>1. now + SessionLife \in Nat
      BY DashboardAuthAssumption DEF RevisionOrder, TypeOK
    <2> QED
      BY <1>2, <2>1 DEF Grant, Restamped
  <1>4. /\ tickets \in Table /\ sessions \in Table
        /\ drawn' \in SUBSET Secrets
    BY <1>1 DEF RevisionOrder, TypeOK, Table
  <1>5. /\ Without(left, victim) \in Table
        /\ \A s \in Secrets : Without(left, victim)[s] \in {sessions[s], None}
    <2>1. /\ Retained(sessions) \in Table
          /\ \A s \in Secrets : Retained(sessions)[s] \in {sessions[s], None}
      BY <1>4, RetainedTable
    <2>2. /\ left \in Table
          /\ \A s \in Secrets : left[s] \in {Retained(sessions)[s], None}
      BY <2>1, WithoutTable
    <2>3. /\ Without(left, victim) \in Table
          /\ \A s \in Secrets : Without(left, victim)[s] \in {left[s], None}
      BY <2>2, WithoutTable
    <2> QED
      BY <2>1, <2>2, <2>3
  <1>6. /\ sessions' \in Table
        /\ \A s \in Secrets : sessions'[s] # None =>
             \E f \in Grant : TrueGrant(f) /\ Restamped(sessions'[s], f)
    <2> HIDE DEF h, left
    <2> QED
      BY <1>1, <1>2, <1>3, <1>5, StoredGrantsTrue
  <1>7. \A s \in Secrets : tickets[s] # None =>
          \E f \in Grant : TrueGrant(f) /\ Restamped(tickets[s], f)
    BY <1>4, OldGrantsTrue
  <1> QED
    BY <1>4, <1>6, <1>7, FinishStep

\* A sign-in that finds no randomness ends.
LEMMA RandomnessFailsStep ==
  ASSUME RevisionOrder, NEW p \in Procs, RandomnessFails(p)
  PROVE  RevisionOrder'
  BY QuietFinishStep DEF RandomnessFails

-----------------------------------------------------------------------------
(* Changes of users.                                                       *)

\* A form keeps the row it was filled in against, and its revision.
LEMMA ViewUsersStep ==
  ASSUME RevisionOrder, NEW p \in Procs, ViewUsers(p)
  PROVE  RevisionOrder'
  <1> USE DEF ViewUsers, userVars, grantVars
  <1>1. PICK u \in Users, action \in Actions, r \in Roles \cup {None} :
          /\ pc[p] = "idle"
          /\ (r # None) <=> (action \in {"create", "role"})
          /\ (identities[u] = None) <=> (action = "create")
          /\ job' = [job EXCEPT ![p] =
                       [user |-> u, action |-> action, role |-> r,
                        revision |-> IF identities[u] = None
                                     THEN 0 ELSE identities[u].revision,
                        seen |-> identities[u]]]
    OBVIOUS
  <1> DEFINE j == [user |-> u, action |-> action, role |-> r,
                   revision |-> IF identities[u] = None
                                THEN 0 ELSE identities[u].revision,
                   seen |-> identities[u]]
  <1>2. /\ identities[u] \in Identity \cup {None}
        /\ identities[u] # None => identities[u].revision \in Nat
    BY DEF RevisionOrder, TypeOK, Identity
  <1>3. j \in Job /\ j # None
    BY <1>2, NoneAssumption DEF Job
  <1>4. job' = [job EXCEPT ![p] = j]
    BY <1>1
  <1>5. TypeOK'
    BY <1>1, <1>3, <1>4 DEF RevisionOrder, TypeOK, Steps
  <1>6. CacheMatchesStore' /\ PendingChange' /\ ConfirmedRevisions'
    BY DEF RevisionOrder, CacheMatchesStore, PendingChange,
           ConfirmedRevisions
  <1>7. MutexHeldByPublisher'
    BY <1>1 DEF RevisionOrder, TypeOK, MutexHeldByPublisher
  <1>8. RevisionsBounded'
    <2>1. PublishedRevision' = PublishedRevision
      BY DEF PublishedRevision
    <2>2. j.revision <= PublishedRevision
      BY <1>2 DEF RevisionOrder, RevisionsBounded
    <2>3. \A q \in Procs : job'[q] # None =>
                             job'[q].revision <= PublishedRevision
      <3> HIDE DEF j
      <3> QED
        BY <1>4, <2>2 DEF RevisionOrder, TypeOK, RevisionsBounded
    <2> QED
      BY <2>1, <2>3 DEF RevisionOrder, RevisionsBounded
  <1>9. GrantsTrue'
    BY DEF RevisionOrder, GrantsTrue, TrueGrant, PublishedRevision
  <1>10. JobsReviewed'
    <2>1. ASSUME NEW q \in Procs, q # p
          PROVE  job'[q] = job[q]
      BY <1>4, <2>1 DEF RevisionOrder, TypeOK
    <2>2. job'[p] = j
      BY <1>4 DEF RevisionOrder, TypeOK
    <2> QED
      BY <1>1, <2>1, <2>2 DEF RevisionOrder, JobsReviewed
  <1> QED
    BY <1>5, <1>6, <1>7, <1>8, <1>9, <1>10 DEF RevisionOrder

\* Submitting a form only moves the request on.
LEMMA SubmitStep ==
  ASSUME RevisionOrder, NEW p \in Procs, Submit(p)
  PROVE  RevisionOrder'
  <1> USE DEF Submit
  <1>1. /\ attempts' \in [start : Nat, count : Nat] /\ now' \in Nat
        /\ sessions' \in Table /\ tickets' \in Table
        /\ drawn' \in SUBSET Secrets
        /\ pc' \in [Procs -> Steps]
        /\ hand' \in [Procs -> Grant \cup {None}]
        /\ cookie' \in [Procs -> Secrets \cup {None}]
        /\ job' \in [Procs -> Job \cup {None}]
    BY DEF RevisionOrder, TypeOK, Table, grantVars, Steps
  <1>2. /\ \A t \in Secrets : sessions'[t] # None =>
             \E g \in Grant : TrueGrant(g) /\ Restamped(sessions'[t], g)
        /\ \A t \in Secrets : tickets'[t] # None =>
             \E g \in Grant : TrueGrant(g) /\ Restamped(tickets'[t], g)
    BY <1>1, OldGrantsTrue DEF grantVars
  <1>3. \A q \in Procs :
          /\ hand'[q] # None => TrueGrant(hand'[q])
          /\ pc'[q] \in {"session", "ticket", "redeem"} => hand'[q] # None
          /\ pc'[q] \in {"form", "change", "publish"} => job'[q] # None
          /\ job'[q] \in {job[q], None}
          /\ pc'[q] = "publish" <=> pc[q] = "publish"
    BY DEF RevisionOrder, TypeOK, GrantsTrue
  <1> QED
    BY <1>1, <1>2, <1>3, GrantStep

\* A form that is closed ends its request.
LEMMA CloseFormStep ==
  ASSUME RevisionOrder, NEW p \in Procs, CloseForm(p)
  PROVE  RevisionOrder'
  BY QuietFinishStep DEF CloseForm

\* A rejected change leaves nothing behind.
LEMMA ChangeRejectedStep ==
  ASSUME RevisionOrder, NEW p \in Procs, ChangeRejected(p)
  PROVE  RevisionOrder'
  BY QuietFinishStep DEF ChangeRejected

\* The row an SQL statement leaves and the entry the cache is given are the
\* same for every action, so the cache catches up exactly.
LEMMA CacheFollowsRow ==
  ASSUME NEW row \in Identity, NEW w \in Change,
         w.action # "create",
         (w.role # None) <=> (w.action = "role"),
         (w.key # None) <=> (w.action = "rotate")
  PROVE  /\ UpdatedRow(row, w.action, w.role, w.key, w.revision)
              = UpdatedIdentity(row, w)
         /\ UpdatedIdentity(row, w) \in Identity \cup {None}
         /\ UpdatedIdentity(row, w) # None =>
              UpdatedIdentity(row, w).revision = w.revision
  <1>1. row # None
    BY NoneAssumption
  <1>2. CASE w.action = "rotate"
    BY <1>1, <1>2 DEF UpdatedRow, UpdatedIdentity, Identity, Change
  <1>3. CASE w.action = "role"
    BY <1>1, <1>3 DEF UpdatedRow, UpdatedIdentity, Identity, Change
  <1>4. CASE w.action = "enable"
    BY <1>1, <1>4 DEF UpdatedRow, UpdatedIdentity, Identity, Change
  <1>5. CASE w.action = "disable"
    BY <1>1, <1>5 DEF UpdatedRow, UpdatedIdentity, Identity, Change
  <1>6. CASE w.action = "delete"
    BY <1>1, <1>6 DEF UpdatedRow, UpdatedIdentity, Identity, Change
  <1> QED
    BY <1>2, <1>3, <1>4, <1>5, <1>6 DEF Actions, Change

\* A commit takes the next revision for one row, leaves the cache and the
\* confirmed revisions alone, and records the change the cache still lacks.
LEMMA CommitStep ==
  ASSUME RevisionOrder, NEW p \in Procs, Commit(p)
  PROVE  RevisionOrder'
  <1> USE DEF Commit, grantVars
  <1> DEFINE j == job[p]
             revision == NextRevision
  <1>1. PICK k \in Secrets \cup {None} :
          /\ DrawKey(j.action, k)
          /\ dashboard_users' = [dashboard_users EXCEPT ![j.user] =
                IF j.action = "create"
                THEN NewIdentity(j.role, k, revision)
                ELSE UpdatedRow(@, j.action, j.role, k, revision)]
          /\ writing' = [by |-> p, user |-> j.user, action |-> j.action,
                         role |-> j.role, key |-> k, revision |-> revision]
    OBVIOUS
  <1>2. /\ writing = None /\ identities = dashboard_users
        /\ pc[p] = "change" /\ Applicable(j)
        /\ dashboard_revision' = revision
        /\ revision = dashboard_revision + 1
        /\ dashboard_revision \in Nat /\ revision \in Nat
    BY DEF RevisionOrder, CacheMatchesStore, TypeOK, next_user_revision,
           NextRevision
  <1>3. /\ j \in Job /\ j # None /\ j.user \in Users /\ j.action \in Actions
        /\ (j.role # None) <=> (j.action \in {"create", "role"})
        /\ j.role \in Roles \cup {None}
    BY <1>2 DEF RevisionOrder, TypeOK, JobsReviewed, Job
  <1>4. /\ (k # None) <=> (j.action \in {"create", "rotate"})
        /\ drawn' \in SUBSET Secrets
    BY <1>1, DashboardAuthAssumption DEF DrawKey, RevisionOrder, TypeOK
  <1>5. /\ writing' \in Change /\ writing' # None
        /\ writing'.by = p /\ writing'.user = j.user
        /\ writing'.action = j.action /\ writing'.role = j.role
        /\ writing'.key = k /\ writing'.revision = revision
    <2>1. writing' \in Change
      BY <1>1, <1>2, <1>3 DEF Change
    <2> QED
      BY <1>1, <2>1, NoneAssumption
  <1> HIDE DEF j, revision
  <1>6. /\ dashboard_users' = [identities EXCEPT
              ![j.user] = UpdatedIdentity(@, writing')]
        /\ UpdatedIdentity(identities[j.user], writing') \in Identity \cup {None}
        /\ UpdatedIdentity(identities[j.user], writing') # None =>
             UpdatedIdentity(identities[j.user], writing').revision = revision
    <2>1. CASE j.action = "create"
      <3>1. NewIdentity(j.role, k, revision) \in Identity
        BY <1>2, <1>3, <1>4, <2>1 DEF NewIdentity, Identity
      <3>2. UpdatedIdentity(identities[j.user], writing')
              = NewIdentity(j.role, k, revision)
        BY <1>5, <2>1 DEF UpdatedIdentity
      <3>3. NewIdentity(j.role, k, revision).revision = revision
        BY DEF NewIdentity
      <3>4. dashboard_users' = [identities EXCEPT
              ![j.user] = NewIdentity(j.role, k, revision)]
        BY <1>1, <1>2, <2>1
      <3> HIDE DEF Commit
      <3> QED
        BY <3>1, <3>2, <3>3, <3>4
    <2>2. CASE j.action # "create"
      <3>1. identities[j.user] \in Identity
        BY <1>2, <1>3, <2>2 DEF Applicable, RevisionOrder, TypeOK
      <3>2. /\ UpdatedRow(identities[j.user], j.action, j.role, k, revision)
                 = UpdatedIdentity(identities[j.user], writing')
            /\ UpdatedIdentity(identities[j.user], writing')
                 \in Identity \cup {None}
            /\ UpdatedIdentity(identities[j.user], writing') # None =>
                 UpdatedIdentity(identities[j.user], writing').revision
                   = revision
        <4>1. /\ j.action \in Actions \ {"create"}
              /\ (j.role # None) <=> (j.action = "role")
              /\ (k # None) <=> (j.action = "rotate")
          BY <1>3, <1>4, <2>2
        <4> HIDE DEF Commit
        <4>2. PICK w : w = writing'
          OBVIOUS
        <4>3. /\ w \in Change /\ w.action # "create"
              /\ (w.role # None) <=> (w.action = "role")
              /\ (w.key # None) <=> (w.action = "rotate")
          BY <1>5, <4>1, <4>2
        <4>4. /\ UpdatedRow(identities[j.user], w.action, w.role, w.key,
                            w.revision) = UpdatedIdentity(identities[j.user], w)
              /\ UpdatedIdentity(identities[j.user], w)
                   \in Identity \cup {None}
              /\ UpdatedIdentity(identities[j.user], w) # None =>
                   UpdatedIdentity(identities[j.user], w).revision = w.revision
          BY <3>1, <4>3, CacheFollowsRow
        <4> QED
          BY <1>5, <4>2, <4>4
      <3>3. dashboard_users' = [identities EXCEPT ![j.user] =
              UpdatedRow(identities[j.user], j.action, j.role, k, revision)]
        BY <1>1, <1>2, <2>2
      <3> HIDE DEF Commit
      <3> QED
        BY <3>2, <3>3
    <2> QED
      BY <2>1, <2>2
  <1>7. TypeOK'
    <2>1. dashboard_users' \in [Users -> Identity \cup {None}]
      BY <1>6 DEF RevisionOrder, TypeOK
    <2>2. /\ pc' \in [Procs -> Steps]
          /\ \A q \in Procs :
               /\ pc'[q] \in {"session", "ticket", "redeem"} => hand'[q] # None
               /\ pc'[q] \in {"form", "change", "publish"} => job'[q] # None
      BY <1>3 DEF RevisionOrder, TypeOK, Steps, j
    <2> QED
      BY <1>2, <1>4, <1>5, <2>1, <2>2 DEF RevisionOrder, TypeOK
  <1>8. CacheMatchesStore'
    BY <1>5 DEF CacheMatchesStore
  <1>9. MutexHeldByPublisher'
    BY <1>2, <1>5 DEF RevisionOrder, TypeOK, MutexHeldByPublisher
  <1>10. PendingChange'
    <2>1. identities' = identities
      OBVIOUS
    <2>2. dashboard_users'[j.user] = UpdatedIdentity(identities[j.user],
                                                     writing')
      BY <1>3, <1>6 DEF RevisionOrder, TypeOK
    <2>3. UpdatedIdentity(identities[j.user], writing)'
            = UpdatedIdentity(identities'[j.user], writing')
      <3>1. j' = j
        BY DEF j
      <3> QED
        BY <3>1 DEF UpdatedIdentity, NewIdentity
    <2>4. dashboard_users' = [identities' EXCEPT
              ![writing'.user] = UpdatedIdentity(@, writing')]
      BY <1>5, <1>6, <2>1
    <2> QED
      BY <1>2, <1>3, <1>4, <1>5, <1>6, <2>2, <2>4 DEF PendingChange
  <1>11. PublishedRevision' = PublishedRevision
    BY <1>2, <1>5 DEF PublishedRevision
  <1>12. RevisionsBounded' /\ GrantsTrue' /\ JobsReviewed' /\ ConfirmedRevisions'
    BY <1>11 DEF RevisionOrder, RevisionsBounded, GrantsTrue, TrueGrant,
                 JobsReviewed, ConfirmedRevisions
  <1> QED
    BY <1>7, <1>8, <1>9, <1>10, <1>12 DEF RevisionOrder

\* When the cache takes over the rows, by the rest of a change or by a
\* restart, an entry is unchanged, gone, or newer than every grant and form.
LEMMA CacheCatchesUp ==
  ASSUME RevisionOrder, identities' = dashboard_users, NEW u \in Users
  PROVE  /\ PublishedRevision <= dashboard_revision
         /\ PublishedRevision \in Nat /\ dashboard_revision \in Nat
         /\ \/ identities'[u] = identities[u]
            \/ identities'[u] = None
            \/ /\ identities'[u].revision = dashboard_revision
               /\ PublishedRevision < dashboard_revision
  <1> USE DEF RevisionOrder
  <1>1. /\ PublishedRevision \in Nat /\ dashboard_revision \in Nat
        /\ PublishedRevision <= dashboard_revision
    BY DEF PublishedRevision, RevisionsBounded, TypeOK
  <1>2. CASE writing = None
    BY <1>1, <1>2 DEF CacheMatchesStore
  <1>3. CASE writing # None
    <2>1. PublishedRevision < dashboard_revision
      BY <1>1, <1>3 DEF PublishedRevision
    <2>2. CASE u = writing.user
      BY <1>1, <1>3, <2>1, <2>2 DEF PendingChange
    <2>3. CASE u # writing.user
      BY <1>1, <1>3, <2>1, <2>3 DEF PendingChange, TypeOK
    <2> QED
      BY <2>2, <2>3
  <1> QED
    BY <1>2, <1>3

\* A step after which the cache equals the rows preserves the invariant.
LEMMA CatchUpStep ==
  ASSUME RevisionOrder,
         identities' = dashboard_users, UNCHANGED storeVars,
         writing' = None, TypeOK',
         \A t \in Secrets : sessions'[t] \in {sessions[t], None},
         \A t \in Secrets : tickets'[t] \in {tickets[t], None},
         \A q \in Procs :
            /\ hand'[q] \in {hand[q], None}
            /\ job'[q] \in {job[q], None}
            /\ pc'[q] # "publish",
         \A u \in Users :
            \/ acknowledged'[u] = acknowledged[u]
            \/ /\ writing # None /\ u = writing.user
               /\ acknowledged'[u] = writing.revision
  PROVE  RevisionOrder'
  <1> USE DEF RevisionOrder, storeVars
  <1>1. CacheMatchesStore' /\ MutexHeldByPublisher' /\ PendingChange'
    BY DEF CacheMatchesStore, MutexHeldByPublisher, PendingChange
  <1>2. PublishedRevision' = dashboard_revision
    BY DEF PublishedRevision
  <1>3. ASSUME NEW g \in Grant, TrueGrant(g)
        PROVE  TrueGrant(g)'
    <2> SUFFICES ASSUME g.id \in Users
                 PROVE  TrueGrant(g)'
      BY DEF TrueGrant
    <2>1. g.revision <= PublishedRevision /\ g.revision \in Nat
      BY <1>3 DEF TrueGrant, Grant
    <2> QED
      BY <1>2, <1>3, <2>1, CacheCatchesUp DEF TrueGrant
  <1>4. GrantsTrue'
    BY <1>3 DEF GrantsTrue, TypeOK
  <1>5. JobsReviewed'
    <2> SUFFICES ASSUME NEW q \in Procs, job'[q] # None
                 PROVE  LET j == job'[q]
                        IN  /\ (j.role # None) <=> (j.action \in {"create", "role"})
                            /\ j.action # "create" =>
                                 /\ j.seen # None
                                 /\ j.revision = j.seen.revision
                                 /\ identities'[j.user] # None
                                      /\ identities'[j.user].revision = j.revision
                                      => identities'[j.user] = j.seen
      BY DEF JobsReviewed
    <2>1. /\ job'[q] = job[q] /\ job[q] \in Job
          /\ job[q].revision <= PublishedRevision
          /\ job[q].revision \in Nat /\ job[q].user \in Users
      BY DEF TypeOK, Job, RevisionsBounded
    <2> QED
      BY <2>1, CacheCatchesUp DEF JobsReviewed
  <1>6. ASSUME NEW u \in Users
        PROVE  /\ identities'[u] # None =>
                    identities'[u].revision <= dashboard_revision
               /\ acknowledged'[u] <= dashboard_revision
               /\ identities'[u] # None =>
                    identities'[u].revision >= acknowledged'[u]
    <2>1. /\ PublishedRevision \in Nat /\ dashboard_revision \in Nat
          /\ PublishedRevision <= dashboard_revision
          /\ acknowledged[u] \in Nat /\ acknowledged[u] <= PublishedRevision
          /\ identities[u] # None =>
               /\ identities[u].revision \in Nat
               /\ identities[u].revision <= PublishedRevision
               /\ identities[u].revision >= acknowledged[u]
      BY CacheCatchesUp
         DEF TypeOK, Identity, RevisionsBounded, ConfirmedRevisions
    <2>2. CASE acknowledged'[u] = acknowledged[u]
      BY <2>1, <2>2, CacheCatchesUp
    <2>3. CASE /\ writing # None /\ u = writing.user
               /\ acknowledged'[u] = writing.revision
      BY <2>1, <2>3 DEF PendingChange
    <2> QED
      BY <2>2, <2>3
  <1>7. RevisionsBounded'
    <2>1. ASSUME NEW q \in Procs, job'[q] # None
          PROVE  job'[q].revision <= dashboard_revision
      <3>1. /\ job'[q] = job[q] /\ job[q].revision \in Nat
            /\ job[q].revision <= PublishedRevision
        BY <2>1 DEF TypeOK, Job, RevisionsBounded
      <3>2. /\ PublishedRevision <= dashboard_revision
            /\ PublishedRevision \in Nat /\ dashboard_revision \in Nat
        BY DEF PublishedRevision, RevisionsBounded, TypeOK
      <3> QED
        BY <3>1, <3>2
    <2> QED
      BY <1>2, <1>6, <2>1 DEF RevisionsBounded, TypeOK
  <1>8. ConfirmedRevisions'
    BY <1>6 DEF ConfirmedRevisions
  <1> QED
    BY <1>1, <1>4, <1>5, <1>7, <1>8

\* The rest of a change writes exactly the committed row into the cache.
LEMMA PublishStep ==
  ASSUME RevisionOrder, NEW p \in Procs, Publish(p)
  PROVE  RevisionOrder'
  <1> USE DEF Publish, Finish, grantVars
  <1>1. /\ writing # None /\ writing.by = p
        /\ writing \in Change /\ writing.user \in Users
        /\ writing.revision \in Nat
    BY DEF RevisionOrder, TypeOK, MutexHeldByPublisher, Change
  <1>2. identities' = dashboard_users
    BY <1>1 DEF RevisionOrder, PendingChange
  <1>3. TypeOK'
    <2>1. acknowledged' \in [Users -> Nat]
      BY <1>1 DEF RevisionOrder, TypeOK
    <2>2. /\ pc' \in [Procs -> Steps]
          /\ \A q \in Procs :
               /\ pc'[q] \in {"session", "ticket", "redeem"} => hand'[q] # None
               /\ pc'[q] \in {"form", "change", "publish"} => job'[q] # None
      BY DEF RevisionOrder, TypeOK, Steps
    <2> QED
      BY <1>2, <2>1, <2>2 DEF RevisionOrder, TypeOK, storeVars
  <1>4. \A q \in Procs : /\ hand'[q] \in {hand[q], None}
                         /\ job'[q] \in {job[q], None}
                         /\ pc'[q] # "publish"
    BY <1>1 DEF RevisionOrder, TypeOK, MutexHeldByPublisher
  <1>5. \A u \in Users :
           \/ acknowledged'[u] = acknowledged[u]
           \/ /\ writing # None /\ u = writing.user
              /\ acknowledged'[u] = writing.revision
    BY <1>1 DEF RevisionOrder, TypeOK
  <1> QED
    BY <1>2, <1>3, <1>4, <1>5, CatchUpStep

\* A restart, wherever it falls, loads the rows and drops every grant.
LEMMA RestartStep ==
  ASSUME RevisionOrder, Restart
  PROVE  RevisionOrder'
  <1> USE DEF Restart, open_users
  <1>1. TypeOK'
    BY DEF RevisionOrder, TypeOK, storeVars, Steps
  <1>2. \A q \in Procs : /\ hand'[q] \in {hand[q], None}
                         /\ job'[q] \in {job[q], None}
                         /\ pc'[q] # "publish"
    OBVIOUS
  <1>3. /\ \A t \in Secrets : sessions'[t] \in {sessions[t], None}
        /\ \A t \in Secrets : tickets'[t] \in {tickets[t], None}
    OBVIOUS
  <1> QED
    BY <1>1, <1>2, <1>3, CatchUpStep

\* A step that changes nothing.
LEMMA StutterStep ==
  ASSUME RevisionOrder, UNCHANGED vars
  PROVE  RevisionOrder'
  <1>1. /\ sessions \in Table /\ tickets \in Table /\ now \in Nat
        /\ attempts \in [start : Nat, count : Nat]
    BY DEF RevisionOrder, TypeOK, Table
  <1> QED
    BY <1>1, SweepStep DEF vars, userVars, procVars

-----------------------------------------------------------------------------
\* Every step of the server preserves the invariant.
LEMMA NextRevisionOrder ==
  ASSUME RevisionOrder, [Next]_vars
  PROVE  RevisionOrder'
  <1>1. ASSUME NEW p \in Procs, Arrive(p)
        PROVE  RevisionOrder'
    BY <1>1, LoginAuthenticateStep, TicketAuthenticateStep, NatsLoginStep,
       ExternalSessionStep, ExchangeRemoveStep, ViewUsersStep, SubmitStep,
       CloseFormStep DEF Arrive
  <1>2. ASSUME NEW p \in Procs, Proceed(p)
        PROVE  RevisionOrder'
    BY <1>2, ExchangeCheckStep, InsertTicketStep, TicketRefusedStep,
       NewSessionStep, RandomnessFailsStep, ChangeRejectedStep, CommitStep,
       PublishStep DEF Proceed
  <1> QED
    BY <1>1, <1>2, AuthenticateRejectedStep, RevokeStep, ExpireSessionsStep,
       TickStep, RestartStep, StutterStep DEF Next

\* Revisions order the changes of users across the cache, SQLite, grants and
\* open forms, for any number of users, requests and secrets: whatever
\* interleaving of sign-ins, changes and restarts led here.
THEOREM RevisionOrderHolds == Spec => []RevisionOrder
  <1>1. Init => RevisionOrder
    BY InitRevisionOrder
  <1>2. RevisionOrder /\ [Next]_vars => RevisionOrder'
    BY NextRevisionOrder
  <1> QED
    BY <1>1, <1>2, PTL DEF Spec

\* Every variable keeps its shape.
THEOREM TypeCorrect == Spec => []TypeOK
  <1>1. RevisionOrder => TypeOK
    BY DEF RevisionOrder
  <1> QED
    BY <1>1, RevisionOrderHolds, PTL

-----------------------------------------------------------------------------
(* What follows for sign-ins and user changes.                             *)

\* The guard authorises a session of a named user only with the revision and
\* the key the cache holds now.
LEMMA AuthorisedRevision ==
  ASSUME NEW g, g.id \in Users, identity_role(g) # None
  PROVE  /\ identities[g.id] # None
         /\ identities[g.id].revision = g.revision
         /\ identities[g.id].key = g.key
  BY DashboardAuthAssumption DEF identity_role

\* A confirmed rotation, role change, disabling or deletion holds: neither a
\* later step nor a restart authorises a session from before it.
THEOREM ConfirmedChangesHold == Spec => []ConfirmedChangeHolds
  <1>1. ASSUME RevisionOrder
        PROVE  ConfirmedChangeHolds
    <2>1. \A u \in Users : identities[u] # None =>
             identities[u].revision >= acknowledged[u]
      BY <1>1 DEF RevisionOrder, ConfirmedRevisions
    <2>2. ASSUME NEW t \in Secrets, Authorised(t), sessions[t].id \in Users
          PROVE  sessions[t].revision >= acknowledged[sessions[t].id]
      <3>1. identity_role(sessions[t]) # None
        BY <2>2 DEF Authorised, role
      <3> QED
        BY <2>1, <2>2, <3>1, AuthorisedRevision
    <2> QED
      BY <2>1, <2>2 DEF ConfirmedChangeHolds
  <1> QED
    BY <1>1, RevisionOrderHolds, PTL

\* A change that the WHERE clause of change_user lets through was reviewed
\* against exactly the row it replaces.
THEOREM StaleFormsRejected == Spec => []StaleFormRejected
  <1>1. ASSUME RevisionOrder
        PROVE  StaleFormRejected
    <2> SUFFICES ASSUME NEW p \in Procs, pc[p] \in {"form", "change"},
                        job[p].action # "create", Applicable(job[p])
                 PROVE  dashboard_users[job[p].user] = job[p].seen
      BY DEF StaleFormRejected
    <2> DEFINE j == job[p]
    <2>1. /\ j # None /\ j \in Job /\ j.user \in Users
          /\ dashboard_users[j.user] # None
          /\ dashboard_users[j.user].revision = j.revision
      BY <1>1 DEF RevisionOrder, TypeOK, Job, Applicable
    <2>2. identities[j.user] = dashboard_users[j.user]
      <3>1. CASE writing = None
        BY <1>1, <3>1 DEF RevisionOrder, CacheMatchesStore
      <3>2. CASE writing # None
        <4>1. j.revision < dashboard_revision
          BY <1>1, <2>1, <3>2
             DEF RevisionOrder, RevisionsBounded, PublishedRevision, TypeOK,
                 Job
        <4>2. j.user # writing.user
          BY <1>1, <2>1, <3>2, <4>1 DEF RevisionOrder, PendingChange, TypeOK
        <4> QED
          BY <1>1, <2>1, <3>2, <4>2 DEF RevisionOrder, PendingChange, TypeOK
      <3> QED
        BY <3>1, <3>2
    <2> QED
      BY <1>1, <2>1, <2>2 DEF RevisionOrder, JobsReviewed
  <1> QED
    BY <1>1, RevisionOrderHolds, PTL

\* A session opened through a provider mapping is authorised only while the
\* incarnation of the user that the mapping names exists.
THEOREM ExternalSessionsOfIncarnation == Spec => []ExternalSessionIncarnation
  <1>1. ASSUME RevisionOrder
        PROVE  ExternalSessionIncarnation
    <2> SUFFICES ASSUME NEW t \in Secrets, Authorised(t),
                        sessions[t].id \in Users, sessions[t].origin \in Nat
                 PROVE  identities[sessions[t].id].identity_revision
                          = sessions[t].origin
      BY DEF ExternalSessionIncarnation
    <2>1. sessions[t] # None /\ identity_role(sessions[t]) # None
      BY DEF Authorised, role
    <2>2. TrueGrant(sessions[t])
      BY <1>1, <2>1 DEF RevisionOrder, GrantsTrue
    <2> QED
      BY <2>1, <2>2, AuthorisedRevision DEF TrueGrant
  <1> QED
    BY <1>1, RevisionOrderHolds, PTL

\* The cache changes only when it takes over the committed rows.
LEMMA CacheStep ==
  ASSUME RevisionOrder, [Next]_vars
  PROVE  identities' = identities \/ identities' = dashboard_users
  <1>1. ASSUME NEW p \in Procs, Publish(p)
        PROVE  identities' = dashboard_users
    BY <1>1 DEF Publish, RevisionOrder, PendingChange, MutexHeldByPublisher
  <1>2. ASSUME NEW p \in Procs, Arrive(p)
        PROVE  identities' = identities
    BY <1>2 DEF Arrive, LoginAuthenticate, TicketAuthenticate, NatsLogin,
       external_session, ExchangeRemove, ViewUsers, Submit, CloseForm,
       userVars
  <1>3. ASSUME NEW p \in Procs, Proceed(p), ~Publish(p)
        PROVE  identities' = identities
    BY <1>3 DEF Proceed, ExchangeCheck, InsertTicket, TicketRefused,
       new_session, RandomnessFails, ChangeRejected, Commit, userVars
  <1>4. CASE Restart
    BY <1>4 DEF Restart, open_users
  <1>5. CASE AuthenticateRejected \/ revoke \/ expire_sessions \/ Tick
    BY <1>5 DEF AuthenticateRejected, revoke, expire_sessions, Tick, userVars
  <1>6. CASE UNCHANGED vars
    BY <1>6 DEF vars
  <1> QED
    BY <1>1, <1>2, <1>3, <1>4, <1>5, <1>6 DEF Next

\* Authority that a session, a ticket or an overtaken sign-in has lost never
\* comes back: no re-enabling, recreation or restart revives it.
THEOREM RevocationIsFinal == Spec => NoRevival
  <1>1. ASSUME RevisionOrder, [Next]_vars
        PROVE  \A g \in Grants :
                 identity_role(g) = None => identity_role(g)' = None
    <2> SUFFICES ASSUME NEW g \in Grants, identity_role(g)' # None
                 PROVE  identity_role(g) # None
      OBVIOUS
    <2>1. g \in Grant /\ TrueGrant(g)
      BY <1>1 DEF Grants, Holding, RevisionOrder, TypeOK, GrantsTrue
    <2>2. CASE g.id \in Users
      <3>1. /\ identities'[g.id] # None
            /\ identities'[g.id].revision = g.revision
        BY <2>2, DashboardAuthAssumption DEF identity_role
      <3>2. identities'[g.id] = identities[g.id]
        <4>1. CASE identities' = identities
          BY <4>1
        <4>2. CASE identities' = dashboard_users
          <5>1. g.revision \in Nat /\ g.revision <= PublishedRevision
            BY <2>1, <2>2 DEF Grant, TrueGrant
          <5> QED
            BY <1>1, <2>2, <3>1, <4>2, <5>1, CacheCatchesUp
        <4> QED
          BY <1>1, <4>1, <4>2, CacheStep
      <3> QED
        BY <2>2, <3>2 DEF identity_role
    <2>3. CASE g.id \notin Users
      BY <2>1, <2>3 DEF identity_role, Grant
    <2> QED
      BY <2>2, <2>3
  <1>2. RevisionOrder /\ [Next]_vars =>
          [\A g \in Grants :
             identity_role(g) = None => identity_role(g)' = None]_vars
    BY <1>1
  <1> QED
    BY <1>2, RevisionOrderHolds, PTL DEF Spec, NoRevival

-----------------------------------------------------------------------------
(* Where grants go: every step drops grants, redeems a ticket, issues a    *)
(* ticket or opens a session.                                              *)

\* Grants are dropped, and requests may take up grants that came from no
\* ticket.
Sweeps ==
    /\ \A t \in Secrets : /\ sessions'[t] \in {sessions[t], None}
                          /\ tickets'[t] \in {tickets[t], None}
    /\ \A p \in Procs : \/ hand'[p] \in {hand[p], None}
                        \/ hand'[p].origin \notin Secrets

\* A request takes a ticket into its hands.
Redeems(p, k) ==
    /\ tickets[k] # None /\ hand[p] = None
    /\ tickets' = [tickets EXCEPT ![k] = None]
    /\ hand' = [hand EXCEPT ![p] = tickets[k]]
    /\ UNCHANGED sessions

\* A request puts what it holds to use under a secret that is new.
Stores(p, t) ==
    /\ hand[p] # None /\ hand' = [hand EXCEPT ![p] = None]
    /\ t \notin drawn /\ drawn' = drawn \cup {t}

\* ... as a ticket.
Tickets(p, t) ==
    /\ Stores(p, t) /\ UNCHANGED sessions
    /\ \A s \in Secrets \ {t} : tickets'[s] \in {tickets[s], None}
    /\ tickets'[t] = [hand[p] EXCEPT !.expires = now + TicketLife, !.origin = t]

\* ... as a session.
Opens(p, t) ==
    /\ Stores(p, t) /\ UNCHANGED tickets
    /\ \A s \in Secrets \ {t} : sessions'[s] \in {sessions[s], None}
    /\ sessions'[t] = [hand[p] EXCEPT !.expires = now + SessionLife]

\* The four shapes of a step.
Moves ==
    /\ drawn \subseteq drawn' /\ now <= now'
    /\ \/ Sweeps
       \/ \E p \in Procs, k \in Secrets : Redeems(p, k)
       \/ \E p \in Procs, t \in Secrets : Tickets(p, t) \/ Opens(p, t)

\* What a key authenticates came from no ticket.
LEMMA AuthenticatedOrigin ==
  ASSUME NEW key, NEW g \in Authenticated(key)
  PROVE  g.origin \notin Secrets
  BY DashboardAuthAssumption DEF Authenticated

\* A request that begins with a grant from a key, from NATS or from a
\* provider redeems nothing.
LEMMA BeginMoves ==
  ASSUME RevisionOrder, NEW p \in Procs, NEW step, NEW g, NEW c,
         Begin(p, step, g, c), g.origin \notin Secrets,
         UNCHANGED <<sessions, tickets, drawn, now>>
  PROVE  Moves
  BY DEF Moves, Sweeps, Begin, RevisionOrder, TypeOK

\* A step that drops grants at most.
LEMMA SweepMoves ==
  ASSUME RevisionOrder,
         \A t \in Secrets : /\ sessions'[t] \in {sessions[t], None}
                            /\ tickets'[t] \in {tickets[t], None},
         \A p \in Procs : hand'[p] \in {hand[p], None},
         drawn \subseteq drawn', now' \in {now, now + 1}
  PROVE  Moves
  <1>1. now <= now'
    BY DEF RevisionOrder, TypeOK
  <1> QED
    BY <1>1 DEF Moves, Sweeps

\* What a request does as it arrives.
LEMMA ArriveMoves ==
  ASSUME RevisionOrder, HandsOfSteps, NEW p \in Procs, Arrive(p)
  PROVE  Moves
  <1>1. CASE LoginAuthenticate(p)
    BY <1>1, BeginMoves, AuthenticatedOrigin DEF LoginAuthenticate, grantVars
  <1>2. CASE TicketAuthenticate(p)
    BY <1>2, BeginMoves, AuthenticatedOrigin DEF TicketAuthenticate, grantVars
  <1>3. CASE NatsLogin(p)
    <2>1. PICK c \in Cookies :
             Begin(p, "session", [id |-> Nats, key |-> None, revision |-> 0,
                                  expires |-> now, origin |-> None], c)
      BY <1>3 DEF NatsLogin
    <2> QED
      BY <1>3, <2>1, BeginMoves, DashboardAuthAssumption
         DEF NatsLogin, grantVars
  <1>4. CASE external_session(p)
    <2>1. PICK u \in Users, r \in 1 .. MaxRevision, c \in Cookies :
             Begin(p, "session",
                   [id |-> u, key |-> identities[u].key,
                    revision |-> identities[u].revision,
                    expires |-> now, origin |-> r], c)
      BY <1>4 DEF external_session
    <2>2. r \notin Secrets
      BY DashboardAuthAssumption
    <2> QED
      BY <1>4, <2>1, <2>2, BeginMoves DEF external_session, grantVars
  <1>5. CASE ExchangeRemove(p)
    <2>1. PICK t \in Holding(tickets), c \in Cookies :
             /\ tickets' = [tickets EXCEPT ![t] = None]
             /\ IF tickets[t].expires > now
                THEN Begin(p, "redeem", tickets[t], c)
                ELSE pc[p] = "idle" /\ UNCHANGED procVars
      BY <1>5 DEF ExchangeRemove
    <2>2. t \in Secrets /\ tickets[t] # None
      BY DEF Holding
    <2>3. UNCHANGED <<sessions, drawn, now>> /\ now <= now'
      BY <1>5 DEF ExchangeRemove, RevisionOrder, TypeOK
    <2>4. CASE tickets[t].expires > now
      <3>1. hand[p] = None /\ hand' = [hand EXCEPT ![p] = tickets[t]]
        BY <2>1, <2>4 DEF Begin, HandsOfSteps
      <3>2. Redeems(p, t)
        BY <2>1, <2>2, <2>3, <3>1 DEF Redeems
      <3> QED
        BY <2>2, <2>3, <3>2 DEF Moves
    <2>5. CASE ~(tickets[t].expires > now)
      BY <2>1, <2>2, <2>3, <2>5, SweepMoves DEF procVars, RevisionOrder, TypeOK
    <2> QED
      BY <2>4, <2>5
  <1>6. CASE ViewUsers(p) \/ Submit(p)
    BY <1>6, SweepMoves DEF ViewUsers, Submit, grantVars
  <1>7. CASE CloseForm(p)
    BY <1>7, SweepMoves DEF CloseForm, Finish, grantVars, RevisionOrder, TypeOK
  <1> QED
    BY <1>1, <1>2, <1>3, <1>4, <1>5, <1>6, <1>7 DEF Arrive

\* A grant goes from a hand into the table of tickets.
LEMMA InsertTicketMoves ==
  ASSUME RevisionOrder, NEW p \in Procs, InsertTicket(p)
  PROVE  Moves
  <1>1. PICK t \in Secrets \ drawn :
           /\ tickets' = [Retained(tickets) EXCEPT
                            ![t] = [hand[p] EXCEPT !.expires = now + TicketLife,
                                                   !.origin = t]]
           /\ drawn' = drawn \cup {t}
    BY DEF InsertTicket
  <1>2. \A s \in Secrets : Retained(tickets)[s] \in {tickets[s], None}
    BY RetainedTable DEF RevisionOrder, TypeOK, Table
  <1>3. Retained(tickets) \in Table
    BY RetainedTable DEF RevisionOrder, TypeOK, Table
  <1>4. Stores(p, t)
    BY <1>1 DEF Stores, InsertTicket, Finish, RevisionOrder, TypeOK
  <1>5. Tickets(p, t)
    BY <1>1, <1>2, <1>3, <1>4 DEF Tickets, InsertTicket, Table
  <1>6. drawn \subseteq drawn' /\ now <= now'
    BY <1>1 DEF InsertTicket, RevisionOrder, TypeOK
  <1> QED
    BY <1>5, <1>6 DEF Moves

\* A grant goes from a hand into the table of sessions.
LEMMA NewSessionMoves ==
  ASSUME RevisionOrder, NEW p \in Procs, new_session(p)
  PROVE  Moves
  <1> DEFINE left == Without(Retained(sessions), cookie[p])
  <1>1. PICK t \in Secrets \ drawn, victim \in Evictable(left) :
           /\ sessions' = [Without(left, victim) EXCEPT
                 ![t] = [hand[p] EXCEPT !.expires = now + SessionLife]]
           /\ drawn' = drawn \cup {t}
    BY DEF new_session
  <1>2. /\ left \in Table
        /\ \A s \in Secrets : left[s] \in {sessions[s], None}
    BY RetainedTable, WithoutTable DEF RevisionOrder, TypeOK, Table
  <1>3. /\ Without(left, victim) \in Table
        /\ \A s \in Secrets : Without(left, victim)[s] \in {left[s], None}
    BY <1>2, WithoutTable
  <1>4. Stores(p, t)
    BY <1>1 DEF Stores, new_session, Finish, RevisionOrder, TypeOK
  <1>5. Opens(p, t)
    BY <1>1, <1>2, <1>3, <1>4 DEF Opens, new_session, Table
  <1>6. drawn \subseteq drawn' /\ now <= now'
    BY <1>1 DEF new_session, RevisionOrder, TypeOK
  <1> QED
    BY <1>5, <1>6 DEF Moves

\* What an accepted request does.
LEMMA ProceedMoves ==
  ASSUME RevisionOrder, NEW p \in Procs, Proceed(p)
  PROVE  Moves
  <1> USE DEF Finish, grantVars
  <1>1. CASE ExchangeCheck(p) \/ RandomnessFails(p) \/ ChangeRejected(p)
             \/ Publish(p)
    <2>1. \A q \in Procs : hand'[q] \in {hand[q], None}
      BY <1>1 DEF ExchangeCheck, RandomnessFails, ChangeRejected, Publish,
                  RevisionOrder, TypeOK
    <2> QED
      BY <1>1, <2>1, SweepMoves
         DEF ExchangeCheck, RandomnessFails, ChangeRejected, Publish
  <1>2. CASE TicketRefused(p)
    <2>1. \A t \in Secrets : tickets'[t] \in {tickets[t], None}
      BY <1>2, RetainedTable DEF TicketRefused, RevisionOrder, TypeOK, Table
    <2>2. \A q \in Procs : hand'[q] \in {hand[q], None}
      BY <1>2 DEF TicketRefused, RevisionOrder, TypeOK
    <2> QED
      BY <1>2, <2>1, <2>2, SweepMoves DEF TicketRefused
  <1>3. CASE Commit(p)
    <2>1. drawn \subseteq drawn'
      BY <1>3 DEF Commit, DrawKey
    <2> QED
      BY <1>3, <2>1, SweepMoves DEF Commit
  <1> QED
    BY <1>1, <1>2, <1>3, InsertTicketMoves, NewSessionMoves DEF Proceed

\* Every step of the server.
LEMMA StepMoves ==
  ASSUME RevisionOrder, HandsOfSteps, [Next]_vars
  PROVE  Moves
  <1>1. CASE AuthenticateRejected
    BY <1>1, SweepMoves DEF AuthenticateRejected, grantVars, procVars
  <1>2. CASE revoke
    <2>1. \A t \in Secrets : sessions'[t] \in {sessions[t], None}
      BY <1>2 DEF revoke, Holding, RevisionOrder, TypeOK
    <2> QED
      BY <1>2, <2>1, SweepMoves DEF revoke, procVars
  <1>3. CASE expire_sessions
    <2>1. \A t \in Secrets : /\ sessions'[t] \in {sessions[t], None}
                             /\ tickets'[t] \in {tickets[t], None}
      BY <1>3, RetainedTable DEF expire_sessions, RevisionOrder, TypeOK, Table
    <2> QED
      BY <1>3, <2>1, SweepMoves DEF expire_sessions, procVars
  <1>4. CASE Tick
    BY <1>4, SweepMoves DEF Tick, Advance, grantVars, procVars
  <1>5. CASE Restart
    BY <1>5, SweepMoves DEF Restart
  <1>6. CASE UNCHANGED vars
    BY <1>6, SweepMoves DEF vars
  <1> QED
    BY <1>1, <1>2, <1>3, <1>4, <1>5, <1>6, ArriveMoves, ProceedMoves DEF Next

-----------------------------------------------------------------------------
\* A request holds no grant before its authentication and after its answer.
LEMMA NextHands ==
  ASSUME RevisionOrder, HandsOfSteps, [Next]_vars
  PROVE  HandsOfSteps'
  <1> USE DEF HandsOfSteps, RevisionOrder, TypeOK, Begin, Finish
  <1>1. ASSUME NEW p \in Procs, NEW step \in {"session", "ticket", "redeem"},
               NEW g, NEW c, Begin(p, step, g, c)
        PROVE  HandsOfSteps'
    BY <1>1
  <1>2. ASSUME NEW p \in Procs, Arrive(p)
        PROVE  HandsOfSteps'
    <2>1. CASE LoginAuthenticate(p) \/ TicketAuthenticate(p) \/ NatsLogin(p)
               \/ external_session(p)
      BY <1>1, <2>1 DEF LoginAuthenticate, TicketAuthenticate, NatsLogin,
                        external_session
    <2>2. CASE ExchangeRemove(p)
      BY <1>1, <2>2 DEF ExchangeRemove, procVars
    <2>3. CASE ViewUsers(p) \/ Submit(p) \/ CloseForm(p)
      BY <2>3 DEF ViewUsers, Submit, CloseForm
    <2> QED
      BY <1>2, <2>1, <2>2, <2>3 DEF Arrive
  <1>3. ASSUME NEW p \in Procs, Proceed(p)
        PROVE  HandsOfSteps'
    <2>1. CASE Publish(p)
      BY <2>1 DEF Publish
    <2>2. CASE Commit(p) \/ ExchangeCheck(p)
      BY <2>2 DEF Commit, ExchangeCheck
    <2>3. CASE \/ InsertTicket(p) \/ TicketRefused(p) \/ new_session(p)
               \/ RandomnessFails(p) \/ ChangeRejected(p)
      BY <2>3 DEF InsertTicket, TicketRefused, new_session, RandomnessFails,
                  ChangeRejected
    <2> QED
      BY <1>3, <2>1, <2>2, <2>3 DEF Proceed
  <1>4. CASE AuthenticateRejected \/ revoke \/ expire_sessions \/ Tick
    BY <1>4 DEF AuthenticateRejected, revoke, expire_sessions, Tick, procVars
  <1>5. CASE Restart \/ UNCHANGED vars
    BY <1>5 DEF Restart, vars
  <1> QED
    BY <1>2, <1>3, <1>4, <1>5 DEF Next

\* Secrets keep naming one thing each, because a secret that is put to use was
\* never drawn before.
LEMMA MovesSecrets ==
  ASSUME RevisionOrder, SecretsNamed, Moves
  PROVE  SecretsNamed'
  <1> USE DEF SecretsNamed
  <1>1. CASE Sweeps
    BY <1>1 DEF Moves, Sweeps
  <1>2. ASSUME NEW p \in Procs, NEW k \in Secrets, Redeems(p, k)
        PROVE  SecretsNamed'
    BY <1>2 DEF Moves, Redeems, RevisionOrder, TypeOK
  <1>3. ASSUME NEW p \in Procs, NEW t \in Secrets, Tickets(p, t)
        PROVE  SecretsNamed'
    <2>1. hand[p] \in Grant /\ tickets'[t].origin = t
      BY <1>3 DEF Tickets, Stores, Grant, RevisionOrder, TypeOK
    <2>2. \A q \in Procs : hand'[q] \in {hand[q], None}
      BY <1>3 DEF Tickets, Stores, RevisionOrder, TypeOK
    <2> QED
      BY <1>3, <2>1, <2>2 DEF Moves, Tickets, Stores, RevisionOrder, TypeOK
  <1>4. ASSUME NEW p \in Procs, NEW t \in Secrets, Opens(p, t)
        PROVE  SecretsNamed'
    <2>1. /\ hand[p] \in Grant /\ sessions'[t].origin = hand[p].origin
      BY <1>4 DEF Opens, Stores, Grant, RevisionOrder, TypeOK
    <2>2. \A s \in Secrets : tickets'[s] # None =>
             s \in drawn' /\ tickets'[s].origin = s
      BY <1>4 DEF Opens, Stores
    <2>3. \A q \in Procs : hand'[q] \in {hand[q], None}
      BY <1>4 DEF Opens, Stores, RevisionOrder, TypeOK
    <2>4. ASSUME NEW s \in Secrets, sessions'[s] # None
          PROVE  /\ s \in drawn' /\ tickets'[s] = None
                 /\ sessions'[s].origin \in Secrets =>
                      sessions'[s].origin \in drawn'
      <3>1. CASE s = t
        BY <1>4, <2>1, <3>1 DEF Opens, Stores
      <3>2. CASE s # t
        BY <1>4, <2>4, <3>2 DEF Opens, Stores
      <3> QED
        BY <3>1, <3>2
    <2> QED
      BY <1>4, <2>2, <2>3, <2>4 DEF Moves
  <1> QED
    BY <1>1, <1>2, <1>3, <1>4 DEF Moves

\* The grant of a ticket stays in one place.
LEMMA MovesTickets ==
  ASSUME RevisionOrder, SecretsNamed, TicketSingleUse, Moves
  PROVE  TicketSingleUse'
  <1> DEFINE InHand(p, k) == hand[p] # None /\ hand[p].origin = k
             Opened(t, k) == sessions[t] # None /\ sessions[t].origin = k
             Once(k) ==
                /\ \A p \in Procs : InHand(p, k) => tickets[k] = None
                /\ \A t \in Secrets : Opened(t, k) => tickets[k] = None
                /\ \A p \in Procs, t \in Secrets : ~(InHand(p, k) /\ Opened(t, k))
                /\ \A p, q \in Procs : InHand(p, k) /\ InHand(q, k) => p = q
                /\ \A s, t \in Secrets : Opened(s, k) /\ Opened(t, k) => s = t
  <1>1. \A k \in Secrets : Once(k)
    BY DEF TicketSingleUse, Holding
  <1>2. SUFFICES ASSUME NEW k \in Secrets
                 PROVE  Once(k)'
    BY DEF TicketSingleUse, Holding
  <1> USE <1>1
  <1>3. CASE Sweeps
    <2>1. \A p \in Procs : InHand(p, k)' => InHand(p, k)
      BY <1>3 DEF Sweeps
    <2>2. \A t \in Secrets : Opened(t, k)' => Opened(t, k)
      BY <1>3 DEF Sweeps
    <2>3. tickets[k] = None => tickets'[k] = None
      BY <1>3 DEF Sweeps
    <2> QED
      BY <2>1, <2>2, <2>3
  <1>4. ASSUME NEW p \in Procs, NEW j \in Secrets, Redeems(p, j)
        PROVE  Once(k)'
    <2>1. \A t \in Secrets : Opened(t, k)' <=> Opened(t, k)
      BY <1>4 DEF Redeems
    <2>2. /\ \A q \in Procs \ {p} : InHand(q, k)' <=> InHand(q, k)
          /\ InHand(p, k)' <=> j = k
      BY <1>4 DEF Redeems, SecretsNamed, RevisionOrder, TypeOK
    <2>3. /\ tickets[j] # None /\ tickets'[j] = None
          /\ tickets[k] = None => tickets'[k] = None
      BY <1>4 DEF Redeems, RevisionOrder, TypeOK
    <2> QED
      BY <2>1, <2>2, <2>3
  <1>5. ASSUME NEW p \in Procs, NEW t \in Secrets, Tickets(p, t)
        PROVE  Once(k)'
    <2>1. \A s \in Secrets : Opened(s, k)' <=> Opened(s, k)
      BY <1>5 DEF Tickets
    <2>2. \A q \in Procs : InHand(q, k)' => InHand(q, k)
      BY <1>5 DEF Tickets, Stores, RevisionOrder, TypeOK
    <2>3. CASE k = t
      BY <1>5, <2>1, <2>2, <2>3 DEF Tickets, Stores, SecretsNamed
    <2>4. CASE k # t
      <3>1. tickets[k] = None => tickets'[k] = None
        BY <1>5, <2>4 DEF Tickets
      <3> QED
        BY <2>1, <2>2, <3>1
    <2> QED
      BY <2>3, <2>4
  <1>6. ASSUME NEW p \in Procs, NEW t \in Secrets, Opens(p, t)
        PROVE  Once(k)'
    <2>1. tickets'[k] = tickets[k]
      BY <1>6 DEF Opens
    <2>2. /\ \A q \in Procs \ {p} : InHand(q, k)' <=> InHand(q, k)
          /\ ~InHand(p, k)'
      BY <1>6 DEF Opens, Stores, RevisionOrder, TypeOK
    <2>3. \A s \in Secrets \ {t} : Opened(s, k)' => Opened(s, k)
      BY <1>6 DEF Opens
    <2>4. Opened(t, k)' => InHand(p, k)
      BY <1>6 DEF Opens, Stores, Grant, RevisionOrder, TypeOK
    <2> QED
      BY <2>1, <2>2, <2>3, <2>4
  <1> QED
    BY <1>3, <1>4, <1>5, <1>6 DEF Moves

\* Every grant that came from a ticket is in one place, whatever interleaves.
THEOREM TicketCustodyHolds == Spec => []TicketCustody
  <1>1. Init => TicketCustody
    <2>1. ASSUME Init
          PROVE  HandsOfSteps /\ SecretsNamed /\ TicketSingleUse
      BY <2>1 DEF Init, HandsOfSteps, SecretsNamed, TicketSingleUse, Holding
    <2> QED
      BY <2>1, InitRevisionOrder DEF TicketCustody
  <1>2. TicketCustody /\ [Next]_vars => TicketCustody'
    BY NextRevisionOrder, NextHands, StepMoves, MovesSecrets, MovesTickets
       DEF TicketCustody
  <1> QED
    BY <1>1, <1>2, PTL DEF Spec

\* A one-time ticket is redeemed at most once (exchange, new_session), for any
\* number of requests, tickets and sessions.
THEOREM TicketsAreSingleUse == Spec => []TicketSingleUse
  <1>1. TicketCustody => TicketSingleUse
    BY DEF TicketCustody
  <1> QED
    BY <1>1, TicketCustodyHolds, PTL

-----------------------------------------------------------------------------
(* The server implements SessionAuthority.                                 *)

AuthorityTyped ==
    /\ SubjectStanding \in [Subjects -> Authority!Standing]
    /\ TokenHolder \in [Secrets -> Authority!Holders]

\* What a subject stands for is one of the abstract standings, and each token
\* is fresh, spent or held by a subject.
LEMMA AuthorityType ==
  ASSUME RevisionOrder
  PROVE  AuthorityTyped
  <1>1. ASSUME NEW u \in Users
        PROVE  identities[u] = None \/ identities[u].role \in Roles
    BY DEF RevisionOrder, TypeOK, Identity
  <1>2. SubjectStanding \in [Subjects -> Authority!Standing]
    BY <1>1, DashboardAuthAssumption
       DEF SubjectStanding, Subjects, Authority!Standing
  <1>3. ASSUME NEW t \in Secrets
        PROVE  /\ Authorised(t) => sessions[t].id \in Subjects
               /\ Redeemable(t) => tickets[t].id \in Subjects
    BY DEF Authorised, role, Redeemable, RevisionOrder, TypeOK, Grant, Subjects
  <1>4. TokenHolder \in [Secrets -> Authority!Holders]
    BY <1>3 DEF TokenHolder, Authority!Holders
  <1> QED
    BY <1>2, <1>4 DEF AuthorityTyped

\* The same of the state after a step.
LEMMA AuthorityTypeNext == RevisionOrder' => AuthorityTyped'
  <1>1. RevisionOrder => AuthorityTyped
    BY AuthorityType
  <1> QED
    BY <1>1, PTL

\* A grant that has a role is of a subject in good standing.
LEMMA GoodStanding ==
  ASSUME RevisionOrder, NEW g \in Grant, identity_role(g) # None
  PROVE  /\ g.id \in Subjects
         /\ SubjectStanding[g.id] \in {"viewer", "operator", "admin", Nats}
  <1>1. g.id \in Subjects
    BY DEF Grant, Subjects
  <1>2. CASE g.id \in Users
    <2>1. /\ identities[g.id] # None /\ identities[g.id].enabled
          /\ identities[g.id].role \in Roles
      BY <1>2, DashboardAuthAssumption
         DEF identity_role, RevisionOrder, TypeOK, Identity
    <2> QED
      BY <1>1, <1>2, <2>1, DashboardAuthAssumption DEF SubjectStanding
  <1>3. CASE g.id \notin Users
    BY <1>1, <1>3 DEF SubjectStanding, Subjects
  <1> QED
    BY <1>1, <1>2, <1>3

\* While no user changes, every grant keeps its role.
LEMMA RolesKept ==
  ASSUME identities' = identities, NEW g
  PROVE  identity_role(g)' = identity_role(g)
  BY DEF identity_role

\* While no user changes, a secret that is not put to use keeps its holder or
\* loses it.
LEMMA HolderEnds ==
  ASSUME RevisionOrder, SecretsNamed, identities' = identities,
         drawn \subseteq drawn', now <= now', now' \in Nat, NEW t \in Secrets,
         sessions'[t] \in {sessions[t], None},
         tickets'[t] \in {tickets[t], None}
  PROVE  TokenHolder'[t] \in {TokenHolder[t], "spent"}
  <1> USE DEF TokenHolder
  <1>1. /\ Authorised(t)' => Authorised(t) /\ sessions'[t] = sessions[t]
        /\ Redeemable(t)' => Redeemable(t) /\ tickets'[t] = tickets[t]
    <2>1. /\ sessions[t] # None => sessions[t].expires \in Nat
          /\ tickets[t] # None => tickets[t].expires \in Nat
          /\ now \in Nat
      BY DEF RevisionOrder, TypeOK, Grant
    <2> QED
      BY <2>1, RolesKept DEF Authorised, role, Redeemable
  <1>2. Redeemable(t) => ~Authorised(t)
    BY DEF Redeemable, Authorised, role, SecretsNamed
  <1>3. t \notin drawn => ~Authorised(t)' /\ ~Redeemable(t)'
    BY <1>1 DEF SecretsNamed, Authorised, role, Redeemable
  <1> QED
    BY <1>1, <1>2, <1>3

\* While no user changes, every step ends tokens, or issues one.
LEMMA QuietAuthority ==
  ASSUME RevisionOrder, RevisionOrder', SecretsNamed, Moves,
         identities' = identities
  PROVE  Authority!Next
  <1>1. SubjectStanding' = SubjectStanding
    BY DEF SubjectStanding
  <1>2. TokenHolder' \in [Secrets -> Authority!Holders]
    BY AuthorityTypeNext DEF AuthorityTyped
  <1>3. drawn \subseteq drawn' /\ now <= now' /\ now' \in Nat
    BY DEF Moves, RevisionOrder, TypeOK
  <1>4. ASSUME \A t \in Secrets : /\ sessions'[t] \in {sessions[t], None}
                                  /\ tickets'[t] \in {tickets[t], None}
        PROVE  Authority!Next
    <2>1. \A t \in Secrets : TokenHolder'[t] \in {TokenHolder[t], "spent"}
      BY <1>3, <1>4, HolderEnds
    <2> QED
      BY <1>1, <1>2, <2>1 DEF Authority!Next, Authority!End, Authority!OnlyEnd
  <1>5. ASSUME NEW t \in Secrets, t \notin drawn, t \in drawn',
               \A s \in Secrets \ {t} : /\ sessions'[s] \in {sessions[s], None}
                                        /\ tickets'[s] \in {tickets[s], None}
        PROVE  Authority!Next
    <2>1. \A s \in Secrets \ {t} : TokenHolder'[s] \in {TokenHolder[s], "spent"}
      BY <1>3, <1>5, HolderEnds
    <2>2. TokenHolder[t] = "fresh"
      BY <1>5 DEF TokenHolder
    <2>3. CASE TokenHolder'[t] = "spent"
      BY <1>1, <1>2, <2>1, <2>3
         DEF Authority!Next, Authority!End, Authority!OnlyEnd
    <2>4. CASE TokenHolder'[t] # "spent"
      <3>1. \E g \in Grant : TokenHolder'[t] = g.id /\ identity_role(g)' # None
        BY <1>5, <2>4 DEF TokenHolder, Authorised, role, Redeemable,
                          RevisionOrder, TypeOK
      <3>2. PICK g \in Grant : TokenHolder'[t] = g.id /\ identity_role(g) # None
        BY <3>1, RolesKept
      <3>3. Authority!Issue(t, g.id)
        BY <1>1, <1>2, <2>1, <2>2, <3>2, GoodStanding
           DEF Authority!Issue, Authority!OnlyEnd
      <3> QED
        BY <3>2, <3>3, GoodStanding DEF Authority!Next
    <2> QED
      BY <2>3, <2>4
  <1>6. CASE Sweeps
    BY <1>4, <1>6 DEF Sweeps
  <1>7. ASSUME NEW p \in Procs, NEW k \in Secrets, Redeems(p, k)
        PROVE  Authority!Next
    BY <1>4, <1>7 DEF Redeems, RevisionOrder, TypeOK
  <1>8. ASSUME NEW p \in Procs, NEW t \in Secrets, Tickets(p, t) \/ Opens(p, t)
        PROVE  Authority!Next
    BY <1>5, <1>8 DEF Tickets, Opens, Stores
  <1> QED
    BY <1>6, <1>7, <1>8 DEF Moves

\* When the cache takes over a changed row, the user's grants lose their role
\* and nobody else's do.
LEMMA RolesEnd ==
  ASSUME RevisionOrder, identities' = dashboard_users, NEW u \in Users,
         identities'[u] # identities[u],
         \A v \in Users \ {u} : identities'[v] = identities[v],
         NEW g \in Grant, TrueGrant(g)
  PROVE  /\ g.id = u => identity_role(g)' = None
         /\ g.id # u => identity_role(g)' = identity_role(g)
  <1>1. CASE g.id = u
    <2>1. g.revision \in Nat /\ g.revision <= PublishedRevision
      BY <1>1 DEF Grant, TrueGrant
    <2>2. identities'[u] = None \/ identities'[u].revision # g.revision
      BY <2>1, CacheCatchesUp
    <2> QED
      BY <1>1, <2>2, DashboardAuthAssumption DEF identity_role
  <1>2. CASE g.id # u
    BY <1>2, DashboardAuthAssumption DEF identity_role, Grant
  <1> QED
    BY <1>1, <1>2

\* The rest of a user change ends the tokens of that user, and no other.
LEMMA PublishAuthority ==
  ASSUME RevisionOrder, RevisionOrder', SecretsNamed, NEW p \in Procs,
         Publish(p), identities' # identities
  PROVE  Authority!Next
  <1> DEFINE u == writing.user
  <1>1. /\ u \in Users /\ identities' = dashboard_users
        /\ \A v \in Users \ {u} : identities'[v] = identities[v]
    BY DEF Publish, RevisionOrder, TypeOK, MutexHeldByPublisher, PendingChange,
           Change
  <1>2. identities'[u] # identities[u]
    BY <1>1 DEF RevisionOrder, TypeOK
  <1>3. UNCHANGED <<sessions, tickets, drawn, now>>
    BY DEF Publish, grantVars
  <1>4. ASSUME NEW g \in Grant, TrueGrant(g)
        PROVE  /\ g.id = u => identity_role(g)' = None
               /\ g.id # u => identity_role(g)' = identity_role(g)
    BY <1>1, <1>2, <1>4, RolesEnd
  <1>5. ASSUME NEW t \in Secrets
        PROVE  /\ TokenHolder[t] = u => TokenHolder'[t] = "spent"
               /\ TokenHolder[t] # u => TokenHolder'[t] = TokenHolder[t]
    <2>1. /\ sessions[t] # None => sessions[t] \in Grant /\ TrueGrant(sessions[t])
          /\ tickets[t] # None => tickets[t] \in Grant /\ TrueGrant(tickets[t])
      BY DEF RevisionOrder, TypeOK, GrantsTrue
    <2>2. CASE t \notin drawn
      BY <1>1, <1>3, <2>2, SubjectsAssumption DEF TokenHolder
    <2>3. CASE t \in drawn /\ sessions[t] # None
      <3>1. ~Redeemable(t) /\ ~Redeemable(t)'
        BY <1>3, <2>3 DEF Redeemable, SecretsNamed
      <3>2. Authorised(t)' <=> Authorised(t) /\ sessions[t].id # u
        BY <1>3, <1>4, <2>1, <2>3 DEF Authorised, role
      <3> QED
        BY <1>1, <1>3, <2>3, <3>1, <3>2, SubjectsAssumption DEF TokenHolder
    <2>4. CASE t \in drawn /\ sessions[t] = None
      <3>1. ~Authorised(t) /\ ~Authorised(t)'
        BY <1>3, <2>4 DEF Authorised, role
      <3>2. Redeemable(t)' <=> Redeemable(t) /\ tickets[t].id # u
        BY <1>3, <1>4, <2>1 DEF Redeemable
      <3> QED
        BY <1>1, <1>3, <2>4, <3>1, <3>2, SubjectsAssumption DEF TokenHolder
    <2> QED
      BY <2>2, <2>3, <2>4
  <1>6. /\ SubjectStanding' = [SubjectStanding EXCEPT ![u] = SubjectStanding'[u]]
        /\ SubjectStanding'[u] \in Authority!Standing
    <2>1. SubjectStanding'[u] \in Authority!Standing
      BY <1>1, AuthorityTypeNext DEF Subjects, AuthorityTyped
    <2>2. \A s \in Subjects \ {u} : SubjectStanding'[s] = SubjectStanding[s]
      BY <1>1 DEF SubjectStanding, Subjects
    <2>3. /\ SubjectStanding \in [Subjects -> Authority!Standing]
          /\ SubjectStanding' \in [Subjects -> Authority!Standing]
      BY AuthorityType, AuthorityTypeNext DEF AuthorityTyped
    <2> QED
      BY <1>1, <2>1, <2>2, <2>3 DEF Subjects
  <1>7. TokenHolder' \in [Secrets -> Authority!Holders]
    BY AuthorityTypeNext DEF AuthorityTyped
  <1>8. Authority!ChangeSubject(u)
    BY <1>1, <1>5, <1>6, <1>7, SubjectsAssumption
       DEF Authority!ChangeSubject, Authority!OnlyEnd
  <1> QED
    BY <1>1, <1>8 DEF Authority!Next, Subjects

\* A restart finds the users as they are stored, and no token.
LEMMA RestartAuthority ==
  ASSUME RevisionOrder, RevisionOrder', Restart
  PROVE  Authority!Next
  <1>1. \A t \in Secrets : ~Authorised(t)' /\ ~Redeemable(t)'
    BY DEF Restart, Authorised, role, Redeemable
  <1>2. \A t \in Secrets : TokenHolder[t] = "fresh" <=> t \notin drawn
    <2>1. "fresh" \notin Subjects
      BY SubjectsAssumption DEF Subjects, Bootstrap, Nats
    <2>2. ASSUME NEW t \in Secrets
          PROVE  /\ Authorised(t) => sessions[t].id \in Subjects
                 /\ Redeemable(t) => tickets[t].id \in Subjects
      BY DEF Authorised, role, Redeemable, RevisionOrder, TypeOK, Grant, Subjects
    <2> QED
      BY <2>1, <2>2 DEF TokenHolder
  <1>3. TokenHolder' = [t \in Secrets |->
                          IF TokenHolder[t] = "fresh" THEN "fresh" ELSE "spent"]
    BY <1>1, <1>2 DEF TokenHolder, Restart
  <1>4. SubjectStanding' \in [Subjects -> Authority!Standing]
    BY AuthorityTypeNext DEF AuthorityTyped
  <1> QED
    BY <1>3, <1>4 DEF Authority!Next, Authority!Recover

\* Users change in the cache only at the end of a change and at a restart.
LEMMA CacheWriters ==
  ASSUME [Next]_vars, identities' # identities
  PROVE  Restart \/ \E p \in Procs : Publish(p)
  <1>1. ASSUME NEW p \in Procs, Arrive(p)
        PROVE  identities' = identities
    BY <1>1 DEF Arrive, LoginAuthenticate, TicketAuthenticate, NatsLogin,
       external_session, ExchangeRemove, ViewUsers, Submit, CloseForm,
       userVars
  <1>2. ASSUME NEW p \in Procs, Proceed(p), ~Publish(p)
        PROVE  identities' = identities
    BY <1>2 DEF Proceed, ExchangeCheck, InsertTicket, TicketRefused,
       new_session, RandomnessFails, ChangeRejected, Commit, userVars
  <1>3. CASE AuthenticateRejected \/ revoke \/ expire_sessions \/ Tick
    BY <1>3 DEF AuthenticateRejected, revoke, expire_sessions, Tick, userVars
  <1> QED
    BY <1>1, <1>2, <1>3 DEF Next, vars

\* Sessions and tickets implement the abstract authority: each step issues one
\* token to a subject in good standing, ends tokens, changes one user together
\* with all of that user's tokens, or recovers.
THEOREM AuthorityImplemented == Spec => ImplementsAuthority
  <1>1. Init => Authority!Init
    <2>1. ASSUME Init
          PROVE  Authority!Init
      <3>1. SubjectStanding \in [Subjects -> Authority!Standing]
        BY <2>1, InitRevisionOrder, AuthorityType DEF AuthorityTyped
      <3> QED
        BY <2>1, <3>1 DEF Init, Authority!Init, TokenHolder
    <2> QED
      BY <2>1
  <1>2. TicketCustody /\ [Next]_vars =>
          [Authority!Next]_<<SubjectStanding, TokenHolder>>
    <2>1. ASSUME TicketCustody, [Next]_vars
          PROVE  Authority!Next
      <3>1. RevisionOrder /\ RevisionOrder' /\ SecretsNamed /\ Moves
        BY <2>1, NextRevisionOrder, StepMoves DEF TicketCustody
      <3> QED
        BY <2>1, <3>1, QuietAuthority, PublishAuthority, RestartAuthority,
           CacheWriters
    <2> QED
      BY <2>1
  <1> QED
    BY <1>1, <1>2, TicketCustodyHolds, PTL
       DEF Spec, ImplementsAuthority, Authority!Spec, Authority!authority

-----------------------------------------------------------------------------
(* The limits of the tables.                                               *)

\* A set within a limit.
Fits(S, limit) == IsFiniteSet(S) /\ Cardinality(S) <= limit

\* What is part of a set within the limit is within it.
LEMMA PartFits ==
  ASSUME NEW limit \in Nat, NEW S, Fits(S, limit), NEW T \in SUBSET S
  PROVE  Fits(T, limit)
  <1>1. IsFiniteSet(T) /\ Cardinality(T) <= Cardinality(S)
    BY FS_Subset DEF Fits
  <1>2. Cardinality(T) \in Nat /\ Cardinality(S) \in Nat
    BY <1>1, FS_CardinalityType DEF Fits
  <1> QED
    BY <1>1, <1>2 DEF Fits

\* What adds one element to a set below the limit is within it.
LEMMA RoomFits ==
  ASSUME NEW limit \in Nat, NEW S, IsFiniteSet(S), Cardinality(S) < limit,
         NEW x, NEW T \in SUBSET (S \cup {x})
  PROVE  Fits(T, limit)
  <1>1. /\ IsFiniteSet(S \cup {x}) /\ Cardinality(S) \in Nat
        /\ Cardinality(S \cup {x}) <= Cardinality(S) + 1
    BY FS_AddElement, FS_CardinalityType
  <1>2. Fits(S \cup {x}, limit)
    <2>1. Cardinality(S \cup {x}) \in Nat
      BY <1>1, FS_CardinalityType
    <2> QED
      BY <1>1, <2>1 DEF Fits
  <1> QED
    BY <1>2, PartFits

\* What is held in a table is a finite set of secrets.
LEMMA HoldingFinite ==
  ASSUME NEW table
  PROVE  IsFiniteSet(Holding(table))
  <1>1. Holding(table) \in SUBSET Secrets
    BY DEF Holding
  <1> QED
    BY <1>1, FS_Subset, DashboardAuthAssumption

\* The rows are a finite set of users.
LEMMA RowsFinite == IsFiniteSet(Rows)
  <1>1. Rows \in SUBSET Users
    BY DEF Rows
  <1> QED
    BY <1>1, FS_Subset, DashboardAuthAssumption

\* A ticket is inserted only when there is room for it after the sweep.
LEMMA InsertTicketFits ==
  ASSUME RevisionOrder, NEW p \in Procs, InsertTicket(p)
  PROVE  Fits(Holding(tickets)', MaxTickets)
  <1>1. PICK t \in Secrets \ drawn :
           tickets' = [Retained(tickets) EXCEPT
                         ![t] = [hand[p] EXCEPT !.expires = now + TicketLife,
                                                !.origin = t]]
    BY DEF InsertTicket
  <1>2. Holding(tickets)' \in SUBSET (Holding(Retained(tickets)) \cup {t})
    BY <1>1 DEF Holding, Retained
  <1>3. Cardinality(Holding(Retained(tickets))) < MaxTickets
    BY DEF InsertTicket
  <1> QED
    BY <1>2, <1>3, HoldingFinite, RoomFits, DashboardAuthAssumption

\* A session is inserted where there is room, or in the place of the one that
\* expires first.
LEMMA NewSessionFits ==
  ASSUME RevisionOrder, Fits(Holding(sessions), MaxSessions),
         NEW p \in Procs, new_session(p)
  PROVE  Fits(Holding(sessions)', MaxSessions)
  <1> DEFINE left == Without(Retained(sessions), cookie[p])
  <1>1. PICK t \in Secrets \ drawn, victim \in Evictable(left) :
           sessions' = [Without(left, victim) EXCEPT
                 ![t] = [hand[p] EXCEPT !.expires = now + SessionLife]]
    BY DEF new_session
  <1>2. Holding(left) \in SUBSET Holding(sessions)
    BY DEF Holding, Without, Retained
  <1>3. /\ Fits(Holding(left), MaxSessions)
        /\ Cardinality(Holding(left)) \in Nat /\ MaxSessions \in Nat
    BY <1>2, PartFits, FS_CardinalityType, DashboardAuthAssumption DEF Fits
  <1>4. Holding(sessions)' \in SUBSET (Holding(Without(left, victim)) \cup {t})
    BY <1>1 DEF Holding, Without
  <1>5. Holding(Without(left, victim)) = Holding(left) \ {victim}
    BY DEF Holding, Without
  <1>6. Cardinality(Holding(Without(left, victim))) < MaxSessions
    <2>1. CASE Cardinality(Holding(left)) < MaxSessions
      <3>1. /\ Cardinality(Holding(left) \ {victim}) <= Cardinality(Holding(left))
            /\ Cardinality(Holding(left) \ {victim}) \in Nat
        BY FS_Subset, HoldingFinite, FS_CardinalityType, <1>5
      <3> QED
        BY <1>3, <1>5, <2>1, <3>1
    <2>2. CASE ~(Cardinality(Holding(left)) < MaxSessions)
      <3>1. victim \in Holding(left)
        BY <2>2 DEF Evictable
      <3>2. Cardinality(Holding(left) \ {victim}) = Cardinality(Holding(left)) - 1
        <4>1. IsFiniteSet(Holding(left))
          BY HoldingFinite
        <4>2. \A S, x : IsFiniteSet(S) /\ x \in S
                          => Cardinality(S \ {x}) = Cardinality(S) - 1
          BY FS_RemoveElement
        <4> HIDE DEF left
        <4> QED
          BY <3>1, <4>1, <4>2
      <3> QED
        BY <1>3, <1>5, <3>2 DEF Fits
    <2> QED
      BY <2>1, <2>2
  <1> QED
    BY <1>3, <1>4, <1>6, HoldingFinite, RoomFits

\* A user is added only when there is room for one.
LEMMA CommitFits ==
  ASSUME RevisionOrder, Fits(Rows, MaxUsers), NEW p \in Procs, Commit(p)
  PROVE  Fits(Rows', MaxUsers)
  <1> DEFINE j == job[p]
  <1>1. j \in Job /\ Applicable(j)
    BY DEF Commit, RevisionOrder, TypeOK
  <1>2. PICK k \in Secrets \cup {None} :
           dashboard_users' = [dashboard_users EXCEPT ![j.user] =
              IF j.action = "create"
              THEN NewIdentity(j.role, k, NextRevision)
              ELSE UpdatedRow(@, j.action, j.role, k, NextRevision)]
    BY DEF Commit
  <1>3. CASE j.action = "create"
    <2>1. Rows' \in SUBSET (Rows \cup {j.user})
      BY <1>2 DEF Rows, RevisionOrder, TypeOK
    <2>2. Cardinality(Rows) < MaxUsers
      BY <1>1, <1>3 DEF Applicable
    <2> QED
      BY <2>1, <2>2, RowsFinite, RoomFits, DashboardAuthAssumption
  <1>4. CASE j.action # "create"
    <2>1. dashboard_users[j.user] # None
      BY <1>1, <1>4 DEF Applicable
    <2>2. Rows' \in SUBSET Rows
      BY <1>2, <2>1 DEF Rows, RevisionOrder, TypeOK
    <2> QED
      BY <2>2, PartFits, DashboardAuthAssumption
  <1> QED
    BY <1>3, <1>4

\* Every other step fills no table.
LEMMA OthersShrink ==
  ASSUME RevisionOrder, [Next]_vars
  PROVE  /\ \/ Rows' = Rows
            \/ \E p \in Procs : Commit(p)
         /\ \/ Holding(sessions)' \subseteq Holding(sessions)
            \/ \E p \in Procs : new_session(p)
         /\ \/ Holding(tickets)' \subseteq Holding(tickets)
            \/ \E p \in Procs : InsertTicket(p)
  <1> USE DEF Rows, Holding, RevisionOrder, TypeOK, userVars, grantVars, storeVars
  <1>1. ASSUME NEW p \in Procs, Arrive(p)
        PROVE  /\ UNCHANGED dashboard_users
               /\ Holding(sessions)' \subseteq Holding(sessions)
               /\ Holding(tickets)' \subseteq Holding(tickets)
    BY <1>1 DEF Arrive, LoginAuthenticate, TicketAuthenticate, NatsLogin,
       external_session, ExchangeRemove, ViewUsers, Submit, CloseForm
  <1>2. ASSUME NEW p \in Procs, Proceed(p)
        PROVE  /\ UNCHANGED dashboard_users \/ Commit(p)
               /\ \/ Holding(sessions)' \subseteq Holding(sessions)
                  \/ new_session(p)
               /\ \/ Holding(tickets)' \subseteq Holding(tickets)
                  \/ InsertTicket(p)
    <2>1. CASE TicketRefused(p)
      BY <2>1 DEF TicketRefused, Retained
    <2>2. CASE ExchangeCheck(p) \/ RandomnessFails(p) \/ ChangeRejected(p)
               \/ Publish(p) \/ Commit(p)
      BY <2>2 DEF ExchangeCheck, RandomnessFails, ChangeRejected, Publish, Commit
    <2>3. CASE InsertTicket(p) \/ new_session(p)
      BY <2>3 DEF InsertTicket, new_session
    <2> QED
      BY <1>2, <2>1, <2>2, <2>3 DEF Proceed
  <1>3. CASE AuthenticateRejected \/ revoke \/ expire_sessions \/ Tick
    BY <1>3 DEF AuthenticateRejected, revoke, expire_sessions, Tick, Retained
  <1>4. CASE Restart \/ UNCHANGED vars
    BY <1>4 DEF Restart, open_users, vars
  <1> QED
    BY <1>1, <1>2, <1>3, <1>4 DEF Next

\* However requests interleave, the tables of sessions, tickets and users stay
\* within their limits (new_session, ticket, add_user).
THEOREM TablesStayBounded == Spec => []TablesBounded
  <1> DEFINE Within == /\ Fits(Holding(sessions), MaxSessions)
                       /\ Fits(Holding(tickets), MaxTickets)
                       /\ Fits(Rows, MaxUsers)
  <1>1. Init => Within
    <2>1. Init => Holding(sessions) = {} /\ Holding(tickets) = {} /\ Rows = {}
      BY DEF Init, Holding, Rows
    <2> QED
      BY <2>1, FS_EmptySet, DashboardAuthAssumption DEF Fits
  <1>2. RevisionOrder /\ Within /\ [Next]_vars => Within'
    <2>1. ASSUME RevisionOrder, Within, [Next]_vars
          PROVE  Within'
      <3>1. Fits(Holding(sessions), MaxSessions)'
        BY <2>1, OthersShrink, NewSessionFits, PartFits, DashboardAuthAssumption
      <3>2. Fits(Holding(tickets), MaxTickets)'
        BY <2>1, OthersShrink, InsertTicketFits, PartFits, DashboardAuthAssumption
      <3>3. Fits(Rows, MaxUsers)'
        BY <2>1, OthersShrink, CommitFits, PartFits, DashboardAuthAssumption
      <3> QED
        BY <3>1, <3>2, <3>3
    <2> QED
      BY <2>1
  <1>3. Within => TablesBounded
    BY DEF Fits, TablesBounded
  <1> QED
    BY <1>1, <1>2, <1>3, RevisionOrderHolds, PTL DEF Spec

-----------------------------------------------------------------------------
(* What ends a session.                                                    *)

\* A sign-in of the browser that holds session t, or one for which t, among
\* those that expire first, makes room in a full table.
Displaced(t) ==
    \E p \in Procs :
        /\ pc[p] = "session" /\ pc'[p] = "idle"
        /\ \/ cookie[p] = t
           \/ LET others == Holding(Without(Retained(sessions), cookie[p]))
              IN  /\ Cardinality(others) >= MaxSessions
                  /\ \A s \in others : sessions[t].expires <= sessions[s].expires

\* A sign-in takes a session that has not expired only from its own browser or
\* to make room (new_session).
LEMMA SignInTakes ==
  ASSUME TicketCustody, NEW p \in Procs, new_session(p),
         NEW t \in Secrets, sessions[t] # None, sessions[t].expires > now,
         sessions'[t] # sessions[t]
  PROVE  Displaced(t)
  <1> DEFINE left == Without(Retained(sessions), cookie[p])
  <1>1. PICK u \in Secrets \ drawn, victim \in Evictable(left) :
           sessions' = [Without(left, victim) EXCEPT
                 ![u] = [hand[p] EXCEPT !.expires = now + SessionLife]]
    BY DEF new_session
  <1>2. t # u
    BY DEF TicketCustody, SecretsNamed
  <1>3. Retained(sessions)[t] = sessions[t]
    BY DEF Retained
  <1>4. cookie[p] = t \/ (left[t] = sessions[t] /\ victim = t)
    BY <1>1, <1>2, <1>3 DEF Without
  <1>5. pc[p] = "session" /\ pc'[p] = "idle"
    BY DEF new_session, Finish, TicketCustody, RevisionOrder, TypeOK
  <1>6. CASE cookie[p] = t
    BY <1>5, <1>6 DEF Displaced
  <1>7. CASE left[t] = sessions[t] /\ victim = t
    <2> HIDE DEF left
    <2>1. t # None
      BY DashboardAuthAssumption
    <2>2. /\ ~(Cardinality(Holding(left)) < MaxSessions)
          /\ \A s \in Holding(left) : left[t].expires <= left[s].expires
      BY <1>7, <2>1 DEF Evictable
    <2>3. Cardinality(Holding(left)) >= MaxSessions
      <3>1. Cardinality(Holding(left)) \in Nat
        BY HoldingFinite, FS_CardinalityType
      <3> QED BY <2>2, <3>1, DashboardAuthAssumption
    <2>4. \A s \in Holding(left) : left[s] = sessions[s]
      BY DEF Holding, Without, Retained, left
    <2>5. \A s \in Holding(left) : sessions[t].expires <= sessions[s].expires
      BY <1>7, <2>2, <2>4
    <2> QED BY <1>5, <2>3, <2>5 DEF Displaced, left
  <1> QED BY <1>4, <1>6, <1>7

\* Every step but a sign-in, a logout and a restart leaves each session that
\* has not expired where it is.
LEMMA SessionsStay ==
  ASSUME RevisionOrder, [Next]_vars, NEW t \in Secrets, sessions[t] # None,
         sessions[t].expires > now
  PROVE  \/ sessions'[t] = sessions[t]
         \/ Restart \/ revoke \/ \E p \in Procs : new_session(p)
  <1>1. Retained(sessions)[t] = sessions[t]
    BY DEF Retained
  <1>2. ASSUME NEW p \in Procs, Arrive(p)
        PROVE  sessions'[t] = sessions[t]
    BY <1>2 DEF Arrive, LoginAuthenticate, TicketAuthenticate, NatsLogin,
       external_session, ExchangeRemove, ViewUsers, Submit, CloseForm, grantVars
  <1>3. ASSUME NEW p \in Procs, Proceed(p)
        PROVE  sessions'[t] = sessions[t] \/ new_session(p)
    BY <1>3 DEF Proceed, ExchangeCheck, InsertTicket, TicketRefused,
       RandomnessFails, ChangeRejected, Commit, Publish, grantVars
  <1>4. CASE AuthenticateRejected \/ expire_sessions \/ Tick \/ UNCHANGED vars
    BY <1>1, <1>4
       DEF AuthenticateRejected, expire_sessions, Tick, vars, grantVars
  <1> QED BY <1>2, <1>3, <1>4 DEF Next

\* While nobody restarts the server a session ends by its expiry, its logout,
\* a change of its own user, or a sign-in that takes its place, and by nothing
\* anybody else does (role, new_session, revoke, change_user).
THEOREM SessionLossIsExplained == Spec => SessionLossExplained
  <1>1. ASSUME TicketCustody, [Next]_vars,
               NEW t \in Secrets, Authorised(t), ~Authorised(t)'
        PROVE  \/ Restart
               \/ revoke
               \/ sessions[t].expires <= now'
               \/ sessions[t].id \in Users
                    /\ identities'[sessions[t].id] # identities[sessions[t].id]
               \/ Displaced(t)
    <2>1. /\ sessions[t] # None /\ sessions[t].expires > now
          /\ identity_role(sessions[t]) # None
      BY <1>1 DEF Authorised, role
    <2>2. CASE sessions'[t] # sessions[t]
      BY <1>1, <2>1, <2>2, SignInTakes, SessionsStay DEF TicketCustody
    <2>3. CASE sessions'[t] = sessions[t]
      <3>1. sessions[t] \in Grant /\ now' \in Nat
        BY <1>1, <2>1, NextRevisionOrder
           DEF TicketCustody, RevisionOrder, TypeOK
      <3>2. CASE sessions[t].expires > now'
        <4>1. identity_role(sessions[t])' = None
          BY <1>1, <2>1, <2>3, <3>2 DEF Authorised, role
        <4>2. \/ identities'[sessions[t].id] # identities[sessions[t].id]
              \/ sessions[t].id \in {Bootstrap, Nats}
          BY <2>1, <2>3, <4>1 DEF identity_role
        <4>3. sessions[t].id \in {Bootstrap, Nats}
                => identity_role(sessions[t])' = identity_role(sessions[t])
          BY <2>3 DEF identity_role
        <4>4. sessions[t].id \in Users
          BY <2>1, <3>1, <4>1, <4>3 DEF Grant
        <4>5. ~(sessions[t].id \in {Bootstrap, Nats})
          BY <2>1, <4>1, <4>3
        <4> QED BY <4>2, <4>4, <4>5
      <3>3. CASE ~(sessions[t].expires > now')
        BY <3>1, <3>3 DEF Grant
      <3> QED BY <3>2, <3>3
    <2> QED BY <2>2, <2>3
  <1>2. TicketCustody /\ [Next]_vars
          => [\A t \in Secrets :
                Authorised(t) /\ ~Authorised(t)' =>
                  \/ Restart
                  \/ revoke
                  \/ sessions[t].expires <= now'
                  \/ sessions[t].id \in Users
                       /\ identities'[sessions[t].id] # identities[sessions[t].id]
                  \/ Displaced(t)]_vars
    BY <1>1
  <1> QED
    BY <1>2, TicketCustodyHolds, PTL DEF Spec, SessionLossExplained, Displaced
=============================================================================
