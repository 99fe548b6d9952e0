----------------------- MODULE DashboardAuthProperties -----------------------
(***************************************************************************)
(* What must hold of DashboardAuth, and the inductive invariant behind it. *)
(***************************************************************************)
EXTENDS DashboardAuth

Steps == {"idle", "session", "ticket", "redeem", "form", "change",
          "publish"}

\* Every variable keeps its shape; a request holds a grant, or a change, or
\* the users mutex exactly at the steps that need it.
TypeOK ==
    /\ dashboard_users \in [Users -> Identity \cup {None}]
    /\ dashboard_revision \in Nat
    /\ identities \in [Users -> Identity \cup {None}]
    /\ writing \in Change \cup {None}
    /\ sessions \in [Secrets -> Grant \cup {None}]
    /\ tickets \in [Secrets -> Grant \cup {None}]
    /\ drawn \in SUBSET Secrets
    /\ pc \in [Procs -> Steps]
    /\ hand \in [Procs -> Grant \cup {None}]
    /\ cookie \in [Procs -> Secrets \cup {None}]
    /\ job \in [Procs -> Job \cup {None}]
    /\ attempts \in [start : Nat, count : Nat]
    /\ now \in Nat
    /\ acknowledged \in [Users -> Nat]
    /\ \A p \in Procs :
         /\ pc[p] \in {"session", "ticket", "redeem"} => hand[p] # None
         /\ pc[p] \in {"form", "change", "publish"} => job[p] # None

\* The cache every decision reads agrees with SQLite whenever the users
\* mutex is free, also after a restart (auth.rs open_users, add_user,
\* change_user).
CacheMatchesStore ==
    writing = None => identities = dashboard_users

\* The mutex has one holder, and it is the request that committed.
MutexHeldByPublisher ==
    \A p \in Procs : pc[p] = "publish" <=> (writing # None /\ writing.by = p)

\* A user change that was answered is never undone: no restart and no later
\* change brings back an older revision of that user, so no session opened
\* before a confirmed rotation, role change, disabling or deletion is
\* authorised again.
ConfirmedChangeHolds ==
    /\ \A u \in Users :
         identities[u] # None => identities[u].revision >= acknowledged[u]
    /\ \A t \in Secrets :
         /\ Authorised(t)
         /\ sessions[t].id \in Users
         => sessions[t].revision >= acknowledged[sessions[t].id]

\* A revision names one state of one user, across deletion, recreation and
\* restart: a change that the WHERE clause lets through was reviewed against
\* exactly the row it replaces (next_user_revision, "Revisions remain unique
\* after deletion, recreation and restart").
StaleFormRejected ==
    \A p \in Procs :
        LET j == job[p]
        IN  /\ pc[p] \in {"form", "change"}
            /\ j.action # "create"
            /\ Applicable(j)
            => dashboard_users[j.user] = j.seen

\* A session opened through an OIDC mapping speaks only for the incarnation
\* of the user that the mapping names, never for a recreated name.
ExternalSessionIncarnation ==
    \A t \in Secrets :
        /\ Authorised(t)
        /\ sessions[t].id \in Users
        /\ sessions[t].origin \in Nat
        => identities[sessions[t].id].identity_revision = sessions[t].origin

\* A one-time ticket is held in one place: still in the table, or with the
\* one request that removed it, or in the one session that request opened.
TicketSingleUse ==
    \A k \in Secrets :
        LET inHand == {p \in Procs : hand[p] # None /\ hand[p].origin = k}
            opened == {t \in Holding(sessions) : sessions[t].origin = k}
        IN  /\ tickets[k] # None => inHand = {} /\ opened = {}
            /\ inHand # {} => opened = {}
            /\ \A p, q \in inHand : p = q
            /\ \A s, t \in opened : s = t

\* The tables stay within their limits however requests interleave.
TablesBounded ==
    /\ Cardinality(Holding(sessions)) <= MaxSessions
    /\ Cardinality(Holding(tickets)) <= MaxTickets
    /\ Cardinality(Rows) <= MaxUsers

Grants ==
    {sessions[t] : t \in Holding(sessions)}
        \cup {tickets[t] : t \in Holding(tickets)}
        \cup {hand[p] : p \in {q \in Procs : hand[q] # None}}

\* A grant that has lost its authority never regains it, wherever it is held:
\* neither re-enabling a user nor recreating the name revives an old session,
\* an old ticket or a sign-in that was overtaken.
NoRevival ==
    [][\A g \in Grants : identity_role(g) = None => identity_role(g)' = None]_vars

\* The subject a secret acts for at this moment: as the cookie of a session
\* or as an outstanding ticket.
Redeemable(t) ==
    /\ tickets[t] # None
    /\ tickets[t].expires > now
    /\ identity_role(tickets[t]) # None

Subjects == Users \cup {Bootstrap, Nats}

\* No user is called like the states of a token that has no holder.
ASSUME SubjectsAssumption == {"fresh", "spent"} \cap Users = {}

SubjectStanding ==
    [s \in Subjects |->
        IF s \in Users
        THEN IF identities[s] = None THEN "absent"
             ELSE IF identities[s].enabled THEN identities[s].role
             ELSE "disabled"
        ELSE IF s = Bootstrap THEN "admin" ELSE s]

TokenHolder ==
    [t \in Secrets |->
        IF t \notin drawn THEN "fresh"
        ELSE IF Authorised(t) THEN sessions[t].id
        ELSE IF Redeemable(t) THEN tickets[t].id
        ELSE "spent"]

\* Sessions and tickets implement SessionAuthority: every step of the
\* server issues one token, ends tokens, changes one user and ends all that
\* user's tokens with it, or recovers.
Authority == INSTANCE SessionAuthority WITH
    Tokens <- Secrets, Roles <- {"viewer", "operator", "admin", Nats},
    standing <- SubjectStanding, holder <- TokenHolder

ImplementsAuthority == Authority!Spec

\* While nobody restarts the server, an authorised session is lost only by
\* its own expiry or logout, by a change of its own user, by a sign-in of
\* the browser that holds it, or, as one that expires first, to make room
\* for a sign-in when every other place in the table is taken.
SessionLossExplained ==
    [][\A t \in Secrets :
          Authorised(t) /\ ~Authorised(t)' =>
            \/ Restart
            \/ revoke
            \/ sessions[t].expires <= now'
            \/ sessions[t].id \in Users
                 /\ identities'[sessions[t].id] # identities[sessions[t].id]
            \/ \E p \in Procs :
                 /\ pc[p] = "session" /\ pc'[p] = "idle"
                 /\ \/ cookie[p] = t
                    \/ LET others == Holding(Without(Retained(sessions),
                                                     cookie[p]))
                       IN  /\ Cardinality(others) >= MaxSessions
                           /\ \A s \in others :
                                sessions[t].expires <= sessions[s].expires]_vars

\* Every accepted request is answered, so the users mutex is always released.
RequestsAnswered ==
    \A p \in Procs :
        pc[p] \notin {"idle", "form"} ~> pc[p] \in {"idle", "form"}

-----------------------------------------------------------------------------
(* The inductive invariant behind the safety properties.                   *)

\* The newest revision the cache can hold: a committed change that is not
\* yet in the cache has taken the counter one further.
PublishedRevision ==
    IF writing = None THEN dashboard_revision ELSE dashboard_revision - 1

\* The job of the mutex holder is the committed one, and the cache lags the
\* table by exactly that change.
PendingChange ==
    writing # None =>
        /\ writing.revision = dashboard_revision
        /\ (writing.key # None) <=> (writing.action \in {"create", "rotate"})
        /\ (writing.role # None) <=> (writing.action \in {"create", "role"})
        /\ dashboard_users = [identities EXCEPT
                ![writing.user] = UpdatedIdentity(@, writing)]
        /\ dashboard_users[writing.user] # None =>
                dashboard_users[writing.user].revision = writing.revision

\* No entry of the cache and no grant is newer than the cache can be, and
\* what was confirmed is not newer either.
RevisionsBounded ==
    /\ PublishedRevision \in Nat
    /\ \A u \in Users :
         /\ identities[u] # None => identities[u].revision <= PublishedRevision
         /\ acknowledged[u] <= PublishedRevision
    /\ \A p \in Procs :
         job[p] # None => job[p].revision <= PublishedRevision

\* A grant of a named user that has the revision of the cache entry is a
\* grant of that very entry.
TrueGrant(g) ==
    g.id \in Users =>
        /\ g.revision <= PublishedRevision
        /\ identities[g.id] # None /\ identities[g.id].revision = g.revision =>
             /\ identities[g.id].enabled
             /\ identities[g.id].key = g.key
             /\ g.origin \in Nat =>
                  identities[g.id].identity_revision = g.origin

GrantsTrue ==
    /\ \A t \in Secrets : sessions[t] # None => TrueGrant(sessions[t])
    /\ \A t \in Secrets : tickets[t] # None => TrueGrant(tickets[t])
    /\ \A p \in Procs : hand[p] # None => TrueGrant(hand[p])

\* A reviewed change names the revision of the row it was reviewed against.
JobsReviewed ==
    \A p \in Procs :
        LET j == job[p]
        IN  j # None =>
              /\ (j.role # None) <=> (j.action \in {"create", "role"})
              /\ j.action # "create" =>
                   /\ j.seen # None
                   /\ j.revision = j.seen.revision
                   /\ identities[j.user] # None
                        /\ identities[j.user].revision = j.revision
                        => identities[j.user] = j.seen

ConfirmedRevisions ==
    \A u \in Users :
        identities[u] # None => identities[u].revision >= acknowledged[u]

\* Revisions order the changes of users across the cache, the table, the
\* grants and the open forms.
RevisionOrder ==
    /\ TypeOK
    /\ CacheMatchesStore
    /\ MutexHeldByPublisher
    /\ PendingChange
    /\ RevisionsBounded
    /\ GrantsTrue
    /\ JobsReviewed
    /\ ConfirmedRevisions

-----------------------------------------------------------------------------
(* Where grants may be, for TicketSingleUse and the refinement.            *)

\* A request holds a grant only between its authentication and its answer.
HandsOfSteps ==
    \A p \in Procs :
        pc[p] \in {"idle", "form", "change", "publish"} => hand[p] = None

\* A secret names one thing: a session, a ticket, or nothing yet; and a grant
\* that a ticket gave remembers a secret that has been drawn.
SecretsNamed ==
    /\ \A t \in Secrets :
         /\ sessions[t] # None =>
              /\ t \in drawn /\ tickets[t] = None
              /\ sessions[t].origin \in Secrets => sessions[t].origin \in drawn
         /\ tickets[t] # None => t \in drawn /\ tickets[t].origin = t
    /\ \A p \in Procs :
         hand[p] # None /\ hand[p].origin \in Secrets => hand[p].origin \in drawn

\* Every grant that came from a ticket is in one place.
TicketCustody ==
    /\ RevisionOrder
    /\ HandsOfSteps
    /\ SecretsNamed
    /\ TicketSingleUse
=============================================================================
