# A TLA+ model of Natsui

Natsui is a dashboard for NATS and JetStream: an axum server (`src/*.rs`) with
a browser application (`web/`), an optional controller of managed nodes
(`controller/server.py`) and an optional JWT account authority
(`controller/jwt_server.py`). This directory models the parts of it where
concurrency, restarts and late answers can go wrong, checks small instances
with TLC, and proves the central invariants for instances of every size with
TLAPS.

Paths below are relative to the repository; `auth.rs` stands for
`src/auth.rs`, and so on. `PROJECT.json` maps every definition to the lines it
stands for, and lists each hazard with its line and the properties about it.

## The system

| part | state | operations | modelled in |
|---|---|---|---|
| dashboard identities (`auth.rs`) | rows and revision counter in `access.sqlite3`, cache `identities`, `sessions`, `tickets`, `attempts` | `login`, `ticket`, `exchange`, `logout`, `external_session`, `nats_cookie`, `add_user`, `change_user`, `expire_sessions`, `open_users`, `guard` | `DashboardAuth`, `SignInLimit` |
| provider sign-in (`oidc.rs`) | pending flows, permits | `start`, `callback` | `ProviderSignIn` |
| review tables (`reviews.rs`) | two maps token -> (owner, expiry, approval) per profile | `insert`, `take` | `ReviewedOperations` |
| settings editor and operations (`editing.rs`, `operations.rs`) | one mutation mutex per profile | `preview`, `apply` | `ReviewedOperations` |
| NATS session dispatch (`nats_login.rs`) | per session: credentials, last observation, tools | `dispatch`, snapshot, samples | `NatsSession` |
| login grants (`access.rs`) | none (pure) | `matches`, `covers`, `overlaps`, `permits_all`; `discover`, `named_streams`, `summary`, `capabilities`; what `operations.rs` then sends | `Subjects`, `LoginAccess` |
| session tools (`native_tools.rs`) | monitoring choice and revision, server slots, watch permit | `set_monitoring`, `inventory`, `watch` | `NatsSession` |
| profiles (`profiles.rs`) | static definitions; the selection is a cookie | `select`, `dispatch` | the second check of a session call in `NatsSession` |
| collector (`main.rs`, `telemetry.rs`) | current snapshot, settings cache, connection | `collect`, `snapshot`, `save_settings` | `Observation` |
| incidents (`incidents.rs`) | previous observation, advisory budget | `changes`, `collect` | `Observation` |
| cluster monitoring (`monitoring.rs`) | last view of the nodes | `collect` | `Observation`, for one node |
| store (`store.rs`) | SQLite: settings, samples, incidents, activity, profile binding | `save_settings`, `sample_resources`, `incidents`, `event`, `bind_profile` | `History` |
| backlog (`backlog.rs`) | none (pure) | `aggregate` | `History` |
| managed client (`managed.rs`) | activity | `preview`, `apply` | `ManagedClient` |
| node controller (`server.py`) | configuration files, reviews, child process | `preview`, `apply`, `watch_child` | `ManagedNode` |
| JWT authority (`jwt_server.py`) | account store, reviews, published revision | `preview`, `apply`, `status` | `AccountAuthority` |
| live updates (`events.rs`), listener, deployment, connection, doctor, messages, buckets | permits, files, options | start-up checks, bounded reads | not modelled |

The parts meet in few places. Every request passes the guard of `auth.rs`.
Handlers and the collector share the settings cache and the store; the two
mutating pages share one mutex; the pages of one NATS session share its
observations. A managed endpoint is another process behind HTTP, with its own
reviews and its own lock. Everything else meets in the broker.

### What is hard, and what correct means

* **Identities.** A change is committed to SQLite and reaches the cache
  afterwards; sign-in reads the cache, lets go of it and stores a session
  later. Revisions must order all of this, across deletion, recreation and
  restarts. Correct: a change that was confirmed is never undone, what it
  revoked never comes back, a stale form changes nothing, a one-time ticket
  opens one session, and the bounded tables cost no session without a reason.
* **Provider sign-in.** Callbacks race for pending flows while the provider is
  awaited. Correct: a flow signs in once, in the browser that started it.
* **Reviewed changes.** A preview, a queue, a second read, a stored attempt, one
  request that may time out and be executed later, a read back and a stored
  outcome, with awaits everywhere: other clients, a client that goes away, a
  restart or another apply may come in between. Correct: an approval is
  used once, on the state that was reviewed as far as one server can ensure it,
  recorded before it is sent, never sent twice, and the answer is true.
* **NATS sessions.** Pages that are served together, each with a connection of
  its own; a choice that changes while a request that read it goes on; a
  storage thread that outlives the call. Correct: each observation once and in
  order, no change between two samples missed, no page that falls back to an
  older choice, no watch that claims more than it saw.
* **Collector.** One settings cache with three writers and no common lock; a
  listing in pages while streams come and go; incidents computed between two
  observations. Correct: the cache ends up with what is stored, an incident has
  a cause, an inventory called complete is.
* **Store.** Pruning inside each insertion, a clock that can be set back, a
  process that ends between two statements. Correct: budgets hold, the newest
  survives, one history comes from one cluster, a chart hides nothing.
* **Managed endpoints.** Files replaced one after the other, a child process
  watched by a thread, commands killed at a deadline, answers lost on the way.
  Correct: the recovery file is one, a reviewed restart is no failure, the
  status claims only what the resolver has, the audit claims nothing untrue.

## Modules

| module | what it is |
|---|---|
| `SignInLimit`, `SignInHistory` | the fixed window of sign-in attempts; with a record of what it admitted |
| `ProviderSignIn` | `oidc.rs`; extends `SignInHistory`, on the same clock |
| `SessionAuthority` | abstract: subjects with a standing, tokens with a holder |
| `DashboardAuth` | `auth.rs`; extends `SignInLimit` |
| `ReviewedChange` | abstract: the stages of each approval, whose it is and which request has it in hand |
| `ReviewedOperations` | `reviews.rs`, `editing.rs`, `operations.rs` with the broker |
| `Subjects` | patterns and grants of `access.rs` as operators |
| `LoginAccess` | what a login is shown and offered, and the requests of each action; extends `Subjects` |
| `LoginAccessProperties` | its properties over a catalogue of grants, with the sets of all of them |
| `NatsSession` | one session of `nats_login.rs` and `native_tools.rs`, with its page |
| `Observation` | `main.rs`, `telemetry.rs`, `incidents.rs`, `monitoring.rs` with the cluster |
| `History` | `store.rs` and the reduction of `backlog.rs` |
| `ManagedChange` | abstract: what an endpoint and the dashboard promise of what is managed |
| `ManagedClient` | `managed.rs` and its page, against an endpoint left open |
| `ManagedNode` | `server.py` and its container; extends `ManagedClient` |
| `AccountAuthority` | `jwt_server.py`, `nsc` and the resolver; extends `ManagedClient` |
| `...Properties` | the properties of a module; with a refinement, its mapping |
| `...Proofs` | the theorems about a module |
| `MC...` | instances for TLC: symmetry and sets a `.cfg` cannot write |

In all models an action is one stretch of code between two points where
others may run: a critical section, or the code between two awaits. Variables
marked "history" are not in the code; they remember what a property speaks of
and no guard reads them. Operators whose comment starts with "Fault:" are not
part of a specification; each is a variant of the definition below it with a
plausible mistake, and the property named for it in `PROJECT.json` fails with
it.

### DashboardAuth

`dashboard_users`, `dashboard_revision` are the SQLite tables, `identities` the
cache, `sessions` and `tickets` the maps (by secret instead of by its digest),
`attempts` the limiter. A request is a `pc` with the grant in its `hand`, the
`cookie` its browser presents and, for user changes, its `job`: the form as the
browser filled it in. `writing` is the users mutex between the commit and the
write of the cache; it is the one place where the table and the cache differ.

* `LoginAuthenticate`, `TicketAuthenticate`, `NatsLogin`, `external_session`:
  the grant is made, then `new_session` or `InsertTicket` stores it in a later
  step. `ExchangeRemove`, `ExchangeCheck`, `new_session`: the three steps of an
  exchange.
* `ViewUsers`, `Submit`, `Commit` or `ChangeRejected`, `Publish`: a reviewed
  change. The create, rotate, role, enable, disable and delete statements are
  `UpdatedRow`; the assignments to the cache are `UpdatedIdentity`, written as
  the code writes them, so that their agreement is a result (`PendingChange`)
  and not an assumption.
* `Restart` may fall anywhere, also between commit and publish; browsers keep
  their forms over it.
* `drawn` are the secrets already given out: `random_key` draws 256 bits and is
  modelled as never repeating.

Left out: which route needs which role and profile (a static table), cookies'
attributes, the audit events around a user change (they are stored before and
after and decide nothing later), the import of older databases.

### ReviewedOperations

`pending` and `review` are the two tables of reviews (`Table` tells which),
`ahead` is tokio's fair mutex: who must leave before a request is served.
`pc` walks through `apply`: waiting, revalidate, audit, send, reply, readback,
outcome. `resource`, `creations` and `wire` are the broker: what a resource is
(its creation and configuration are exactly what `revision` digests), and the
requests that have been sent and not yet executed. A request leaves `wire` only
by `Execute` or `Reject`, whether or not `apply` still waits: this is a timeout
with a late execution. `Outsider` is any other client. `Disconnect` drops the
handler at any await, which releases the mutex; a record already given to the
database thread is still written. `Restart` forgets all requests and reviews.

`update` is the settings editor; `create`, `delete`, `pause` (and resume),
`records` (purge, delete message, republish), `publish` and `core` stand for the
proposals of the operations page; they differ in what is revalidated, executed
and read back. The two `apply` functions are one here, with `ReadsBack` and
`Table` for the differences.

Left out: validation and normalisation of proposals (which proposals exist),
the texts of the answers, the role checks before the queue, and the version of
the broker (a refusal like an unreadable resource, `RevalidateRefused`).

### ProviderSignIn

`pending` are the flows with the instant they expire at, `jar` the cookie of
each browser, `req` the permits (`FLOW_LIMIT`) with the request each serves.
`start` asks for the provider's metadata before it takes the table; `callback`
removes its flow, gives up the table, and only then asks for the tokens
(`Grant`, `Fail`). `Authorize` is the provider: a code may be fetched by any
browser that comes by a link. The validation of the tokens is one step that may
fail; the session itself is `external_session` of `DashboardAuth`. `SignInHistory`
remembers the instants of the admitted attempts (`admitted`), which
`TwiceTheLimit` compares.

### NatsSession, Subjects, LoginAccess

A call arrives with what the guard decided (`Arrive`), is checked again
(`Connect`), waits for the lock on the observations (`ahead`, tokio's fair
mutex), reads the monitoring choice, observes, compares with the retained
observation, hands the sample to the storage thread and retains it. `Leave`
drops a call at any await; a sample already handed over is written all the same
(`submitted`, `StoreSample`). Such a sample may be stored late and without a
comparison. It is what `orphans` names, and the two history properties except
it: `spawn_blocking` is detached (`nats_login.rs`), so the code promises no more.
An observation above the size limit is stored and not retained.

`slots` are server identities in the order they were met; a reply beyond
`SlotLimit` has no slot, and its link is none. `page` is what
`web/session-tools.js` shows: `Deliver` accepts an answer only if its choice is
not older. `Watch` is the failure watch: a check each quarter of a second sees
the state of the link, not its past, so an outage between two checks is not
noticed (`docs/MAINTAINABILITY_REVIEW.md:54` says so); `pending`, `lost` and
`coverage` tell apart what was lost in such a blink. `Revoke` and `Reject` end
the session and the credentials.

`Subjects` writes the walk over two patterns as the first position at which it
stops. `GrantedIsPermitted` compares `permits_all` with `matches` for every
subject. `LoginGrants` says it of a catalogue of grants and patterns that is a
constant; `MCNatsSession` has the catalogue that TLC evaluates.

`LoginAccess` has what is made of the grants: `discover` at sign-in, the
inventory that `observe_scoped` keeps within them, the publishes each capability
asks for (`needs`), the action each capability offers (`OfferedBy`), and the
requests that its preview and application send (`Reads`, `Change`), all by the
account of the resource. The page knows three states of a capability (`allowed`,
`capabilities.js:41`): granted, denied, and unknown, the code's `null`. It is
unknown when the login's grants could not be read (`~access.known`), and when the
resource has no row (`r.rows`): the rows of an account end after 300 streams and
500 consumers (`access.rs:259`, `:271`) while up to 2000 consumers are shown, and
a name typed into the form may have none. Only what is denied is hidden
(`Offered`); what is unknown is offered on purpose, and NATS decides.

`Refusable(state, ...)` are the actions that some grants offer in that state and
deny. `LoginGrants` has those that are offered as granted within `Unread`, and the
summary of the inventory in agreement with the capabilities (`SummaryAgrees`).
Offered as unknown and denied can be any action. That the catalogue has grants for
each of `Unread`, and for each action in the unknown state, is an assumption of
`MCNatsSession` that TLC evaluates (`MCExamples`). The dashboard is taken to have
writes enabled; without, it refuses every action itself.

Left out: the 16 watches and 32 permits that all sessions share, certificates,
and the reads of messages within a session.

### Observation

`Collect` is the collector's turn in steps: `Connect`, one `ListPage` a page (or
`ListFails`), `ConsumersFail`, `ReadSettings`, `Compare`, `Publish`. `snapshot`,
`save_settings` and `CacheWrite` are the handlers, each with its two locks one
after the other. `MonitorCollect` is the monitor, a task of its own, with the
identity it keeps over an outage; the collector takes whatever it holds at that
moment (`monitoring`). `Subscribe`, `Advisory`, `SubscriptionEnds` are the
listener with its minute and its cap. A stream is when it was created and a
form of its configuration; streams come, go and change between the pages of a
listing. An incident says what it is about, for an absence also whether there
was a cause: `absent` and `changed` remember the inventory since the listing
began. Consumers are compared by the same code as streams and appear only as
a listing that fails.

### History

A table is a sequence in the order of ids. One operation under the connection's
mutex is one step; `sample_resources` is two (`SampleStart`, `SampleCommit`),
because it reads the settings in an operation of its own, and the process may
end between them or between the two statements of an event (`unpruned`).
`Tick` and `SetBack` are the wall clock. `bind_profile` runs at each start with
the identity the operator configured, with adoption or without. `aggregate` is
the reduction of a chart: segments at gaps, bins, the two ends and extremes of
each.

### ManagedClient, ManagedNode, AccountAuthority

`ManagedClient` is the dashboard's `apply`: audit, send, wait, audit, answer. The
endpoint is left open: `pending` reviews, `waiting` requests it received,
`holder` of its lock. A request may time out or fail (`Timeout`, `Unanswered`)
while the endpoint still has it, and a browser may leave. Any review the page
shows may be applied, and again while the endpoint has it: the code stops a
second click in the page only, so an API client is included.

`ManagedNode`: `preview` binds the configuration seen. An apply that gets the lock
is refused with its review left as it is (`Refuse`: no such review, not confirmed,
expired), or uses it up and compares the revision (`Take`); a queued apply may
start after the dashboard has given it up. Then `SavePrevious`, `SaveConfig`, `Stop`
and `Start` or `Reload`, `Observe`. Each may raise, which answers the apply and
gives the lock back (`Fails`): a write that fails may have replaced the file
before (`atomic` syncs the directory last); NATS may outlast SIGKILL for the five
seconds that `stop` waits, and is then `Killed`, dying, with no apply left;
`Popen` may fail and leave the dead process in `child`. `broken` counts the last
two. `watch_child` needs the lock, so it ends the controller for an end of NATS
that nobody asked for or for such a failure, never for a reviewed restart under
way: `ReviewedRestartStays`.

`ChildDies` and `Crash` fall anywhere. `Terminate` is SIGTERM: no request is taken
any more, but the applies there are go on while `StopOnExit` stops NATS without the
lock, until the container ends (`End`). `Boot` starts it again. `closing` tells the
two kinds of end apart: a controller that was told to end stays down until its
operator starts it, so `ProcessRecovers` promises nothing of it. A reload is taken to
be handled before the observation after it ends, or never.

`AccountAuthority`: the lock is never waited for ("A queued mutation must not start
after its dashboard request times out", `jwt_server.py`): `Refuse` answers an apply
that finds it held, by another apply, a status or a preview, as it answers one
without a valid confirmation, and leaves the review. An apply
runs its `nsc` command, which does its work, is refused, or is killed at the
deadline with or without having done it; then the credential is read (`creds`)
or the revision is read again (`accepted`), and `finish` reads the revision for the
answer, which may fail after all is done. `Offline` is administration of the
store or the resolver while the adapter is stopped
(`docs/JWT_AUTHORITY.md` allows it only then). What `nsc` does is external, and
publishing is taken to be configured.

Both endpoints implement `ManagedChange`: what is managed (`nats.json`; the store
and the resolver) changes only as an ask on record says, from what its review
showed, at most once for each ask; and the activity claims a result only of what
was done. An ask is a request that waits, or the one that has the lock and has
not done its work yet (`Asks`).

## What the runs show

| run | shows | instance |
|---|---|---|
| `auth_users` | `RevisionOrder`, `ConfirmedChangeHolds`, `StaleFormRejected`, `ExternalSessionIncarnation`, `NoRevival`, and that the server implements `SessionAuthority` | one user, two administrators' requests, four secrets, three changes, NATS sign-in |
| `auth_sessions` | `TicketSingleUse`, `SessionLossExplained`; under fairness `RequestsAnswered` | two session places, one ticket, three secrets, one change, expiry, two attempts a window |
| `sign_in` | `TwiceTheLimit`, `FlowSignsInOnce` | limit 1, window 2, clock to 2; two browsers, two permits, three flows, two pending |
| `reviews_core` | `ApplyOrder`, `AppliedToReviewedState` | two applies, settings changes and deletions of one resource, two tokens |
| `reviews_kinds` | `AnswersHonest`, `OutcomeLogged`, and that the server implements `ReviewedChange`; under fairness `ApplyAnswered` | two applies, all seven kinds, two sessions that present one token |
| `reviews_outcome_doc` | finding: a sent change without a recorded outcome after a disconnect | one apply |
| `session_tools` | `LoginGrants`, `HistoryInOrder`, `ChangesCompared`, `LinksKept`, `WatchCoverage`, `ChoiceNeverGoesBack`; under fairness `CallsAnswered` | two calls at a time and three in all, two servers and one slot, a watch of one quarter and one record, two faults |
| `observation` | `AbsenceHasCause`, `AdvisoryLossVisible`, `InventoryExact`; under fairness `SettingsReachCache`, `RestartsReachLog` | three streams, two at first, one a page and a cap of two; two tabs, two settings, one advisory a minute, two disturbances |
| `observation_restarts` | finding: a restart that was observed and never recorded | one stream, two disturbances |
| `history` | `WithinBudgets`, `OneIdentity`, `ChartHonest`, `HistoryKeepsNewest` | samples smaller and larger than the budget, two identities, two settings, clock to 2, two writes |
| `managed_node` | `RecoveryFile`, `ReviewedRestartStays`, and that the node implements `ManagedChange`; under fairness `ProcessRecovers` | two administrators, two configurations, two applies, two faults among failing steps, ends of NATS, crashes and SIGTERM |
| `account_authority` | `AcceptedIsPublished`, and that the authority implements `ManagedChange`; under fairness `AuthorityFree` | two administrators, one user that exists or not, two applies, two faults |

**Bounds.** Every limit of the code is a constant (`MaxUsers`, `MaxSessions`,
`MaxTickets`, `MaxReviews`, `Cap`, `AdvisoryCap`, `SlotLimit`, `RecordLimit`,
`Budget`, `ActivityLimit`, `MaxPending`, `Permits`, ...) and is set so small
that it is reached and exceeded. One user is enough for the revision
properties: revisions are global, so other users only skip numbers; three
changes are create, delete and create again, the shortest history in which a
name means somebody else. Two requests give every pair of overlapping critical
sections. Three streams with one a page and a cap of two are the least with
which a page can shift, the cap can cut and the list can still be complete.
Samples of sizes 1 and 4 under a budget of 3 are several that fit and one that
never does. Two applies of a managed endpoint are one that has been given up
and one that overtakes it. Bounds that are not in the code are marked so where they are
declared: the clock (`MaxNow`), randomness drawn (`Secrets`, `Tokens`,
`MaxFlows`), creations by other clients (`MaxCreations`), calls, applies and
writes (`MaxCalls`, `MaxOps`, `MaxWrites`), and faults together with other
people's changes (`MaxEvents`). Two faults are one to get into an unusual state
and one to fail there.

Deadlock is not checked in `sign_in`, whose clock ends, and in `session_tools`,
`managed_node` and `account_authority`, whose calls or applies are used up; in
the other runs some step (a restart, a stop) is always left.

**Symmetry** is used for secrets, requests, tokens, configurations, browsers,
permits and identities in runs without liveness; all of them are only
compared for equality.

**Fairness** is weak fairness of what the runtime or the operating system goes
on with by itself; never of browsers, operators, other clients, the broker or
faults.

* `DashboardAuth`, `ReviewedOperations`: a request the server has accepted takes
  its next step if it stays enabled: the runtime polls handlers until they end,
  blocking sections run on threads of their own, and the timers of
  `tokio::time::timeout` fire. This is enough for the mutation mutex because
  tokio grants it in the order of arrival. The users mutex of `auth.rs` is a
  standard one and not fair: a request could be overtaken again and again, but
  each overtaking commit uses up a revision, and these are bounded by
  `MaxRevision`; what the run rules out is a holder that never lets go.
* `NatsSession`: each call is served (`Serve`; a request to NATS has a timeout)
  and the storage thread goes on (`StoreSample`).
* `Observation`: the collector and the monitor go on after each await.
* `ManagedNode`: the thread of an apply goes on (`Applying`), `watch_child` looks
  every second, and the container is started again unless it was told to end
  ("restart: unless-stopped"; `WF_vars(~closing /\ Boot)`). None is assumed of a
  killed process (`KilledEnds`).
* `AccountAuthority`: a thread of the adapter goes on, and each command ends or
  is killed after five seconds (`Commands`).

## What is proved

For any sets of users, requests, secrets, calls, servers, browsers,
administrators, configurations and any limits. Assumed are the named
assumptions of the modules: constants are numbers, limits are positive where the
code's are, and `None` is none of the values it is compared with.

### DashboardAuthProofs

The inductive invariant is `RevisionOrder`. `ConfirmedChangeHolds` and the
others are not inductive: to know that a grant with the revision of the cache
entry is a grant of that entry, one needs that no grant, form or confirmed
revision is newer than the cache can be (`RevisionsBounded`), and this only
holds because the counter moves with the commit while the cache follows it by
exactly the change that is being written (`PendingChange`). `CacheCatchesUp`
is the centre of the argument: at `Publish` and at `Restart` the cache becomes
the table, and each of its entries is unchanged, gone, or newer than every
grant and every form. From it follow:

* `RevisionOrderHolds`, `TypeCorrect`
* `ConfirmedChangesHold`: no confirmed change is undone
* `StaleFormsRejected`: an applied change was reviewed against that very row
* `ExternalSessionsOfIncarnation`
* `RevocationIsFinal`: `NoRevival`, an action property

A second invariant, `TicketCustody`, adds where each grant is. `TicketSingleUse`
is not inductive: that a new session or ticket gives no second use of an old one
needs that a secret put to use was never drawn before, and that every secret a
grant remembers was drawn (`SecretsNamed`); and a request takes up a grant only
with empty hands (`HandsOfSteps`). The proof first shows that each step has one
of four shapes (`StepMoves`): grants are dropped, a ticket is redeemed, issued,
or becomes a session; the invariant is then proved about the shapes.

* `TicketsAreSingleUse`: `TicketSingleUse`
* `AuthorityImplemented`: `Spec => ImplementsAuthority`. `Publish` is the
  abstract change of a subject (by `CacheCatchesUp`), `Restart` is its recovery,
  and every other step issues a token, ends some, or stutters. It assumes that no
  user is called like a state of a token that has no holder
  (`SubjectsAssumption`).
* `TablesStayBounded`: `TablesBounded`, as eviction makes room for exactly one
  session, and the cardinalities follow from the library's facts.
* `SessionLossIsExplained`: `SessionLossExplained`, an action property.
  `SessionsStay` shows that a step outside the listed causes leaves an authorised
  session in the table with its grant. In a sign-in (`SignInTakes`) the new
  secret was never drawn before, so it overwrites nothing, and the victim of an
  eviction is one that expires first.

### ReviewedOperationsProofs

The inductive invariant is `ApplyOrder`. `AnswersHonest` is not inductive by
itself. That a refused change was never sent rests on what is on record about
an approval at each step of the request that holds it (`Holding`), on an
approval that still lies in its table having nothing on record, so that it
cannot be sent twice (`Approval`), and on no other request being past the take
(`Queue`: of two requests that have not ended, one waits for the other).
Most steps of `apply` have one of two shapes, a step of the request
that is served (`ServedStep`) and its last step (`EndStep`); each lemma about an
action shows what these two ask. From it follow `ApplyOrderHolds`,
`AnswersAreHonest` and `OutcomesAreLogged`.

On that invariant build:

* `ReviewedChangeImplemented`: `Spec => ImplementsReviewedChange`. Each action
  moves at most one approval one stage, except `Restart`, which is `Forget`. An
  approval is taken by a request of its own session and while no other is in
  hand; another session that presents the token takes nothing and uses nothing
  up.
* `ApplyQueueMoves`: `QueueMoves`, the safety half of `ApplyAnswered`. Among any
  requests that have not ended one waits for none of the others (`NoCircle`): a
  request that arrives waits for those there are and none of them for it, and one
  that ends is waited for by nobody. So while any waits, one is served, at a step
  that is its own to take.
* `ReviewsAreSpentByOwners`: `ReviewSpentByOwner`.
* `AppliedInOrder`: `AppliedToReviewedState`, from the second invariant
  `InOrder`: from the second read until the broker executes the request, the
  resource is what was reviewed, unless its last change came from elsewhere.
  `OthersUnexposed`, a consequence of the queue, is the centre of it.

### ProviderSignInProofs

`LimiterInvariant`, about the sequence of admitted attempts: the current window
has the last `attempts.count` of them and none from before it
(`WindowAttempts`), and of the attempts of earlier windows those with a limit of
them after them are at least a window older than the current one
(`OlderAttempts`). The second part is what `TwiceTheLimit` lacks: a window that
ends has at most the limit, so the attempt a limit further back lies before its
start. `AtMostTwiceTheLimit` follows; 60 in a minute is the most that the fixed
window of 30 lets through.

`SignInInvariant`: a flow that is pending has not been granted (`FlowUnused`), a
request that holds a flow is the only one and the flow is no longer pending
(`FlowTaken`), and a request knows no flow that its browser did not start
(`CookieBound`). The removal from the table is what makes `FlowTaken` inductive:
the awaits that follow it cannot be entered twice. `FlowsSignInOnce` follows.

### NatsSessionProofs

*Watch.* `WatchInvariant` for `WatchCoverage`: what a window has lost is counted
in `lost`, in a gap, or in an outage since the last check.

*History.* `HistoryInvariant` for `HistoryInOrder` and `ChangesCompared`; its
centre is that one call at most is past the lock (`Exclusive`), so that what it
observed is newer than every sample (`Readings`) and the retained observation is
the newest sample that is no orphan, or that sample was too large (`Retained`).

*Page.* `PageInvariant`: the links of the page and of every call that has not
been answered name servers by their slots. Slots only grow, each new server at
the end (`KnownExtends`), so a link that is right stays right (`NamesStay`);
`LinksStay` follows, and `ChoiceOnlyGetsNewer` for the monitoring choice, an
action property.

*Queue.* `CallQueue` is the same argument for the lock on the observations, and
`QueueShrinks` that a call which leaves, wherever it was dropped, takes itself out
of what others wait for. `CallQueueMoves` (`QueueMoves`) follows: while a call
waits, one has the lock or gets it, and where that one waits for its sample the
storage thread still has it.

*Grants.* `PermitsAllSound`: for every set of rules, pattern and subject of any
length, what `permits_all` answers for a pattern holds for each subject of it. Its
lemmas relate `covers` and `overlaps` to `matches` over the position where each
walk stops; no induction is needed, as the walks are stated by that position.
`OfferedActionsPermitted` builds on it: the change an action makes is a subject
of a pattern its capability asks for (`ChangePermitted`), and what it reads is
asked for too or is why the stream is in the inventory (`VisibleInfo`); hence
what is offered as granted and then denied is within `Unread` for all grants,
accounts, streams and consumers. `DeletionsAreRefused` gives, for every stream with
rows, grants that show the exception. `ThreeActionsAreRefusable` says what may be
refused in each state: as granted, exactly `Unread`; as unknown, every action
(`UnknownRefused`, from `ChangeIsAnother`: the change is another subject than the
lookup that makes its stream visible), and of a login whose grants are known, where
only a row can be missing, every one but the creation of a stream.
`SummaryAlwaysAgrees` is the agreement of the inventory's
summary with the capabilities. `LoginGrantsHold` is `LoginGrants` for any
catalogue.

### ObservationProofs

`ListenerInvariant`: the note of the running minute is the one that `dropped`
remembers, so a later advisory of that minute needs none. `AdvisoryLossIsVisible`
follows.

`ListingInvariant` relates the pages read so far to an inventory that changes
between them. `UnmovedListed`: a stream that has neither been absent nor been
shifted since the listing began is found at its own rank once the pages are past
it, and is in the snapshot when that is complete. `UnchangedListed`: as long as
nothing changed, the pages are the first streams of the inventory as they are.
The lemmas before it make ranks out of cardinalities (`RankGrows`,
`RankInjective`, `RankSurjective`): the stream listed at place `k` is the one
with `k` streams up to it. `AbsencesHaveCauses` and `InventoriesAreExact`
follow, whatever the size of a page and the cap.

### HistoryProofs

What the store computes it computes row by row (`Bytes`, `Kept`, `segments`).
That a recursive function exists and what it returns is derived here from the
library's statement that the numbers are well-founded: a set of numbers has a
least one (`LeastNat`), hence `UpToInduction` over sets and `UpToRecursion` for
the definitions themselves.

*Store.* `StoreInvariant` adds to the budgets and the identity that the sample
under way belongs to the running process and fits the budget (`SampleBound`):
it is checked in `SampleStart`, and inserted by another operation later.
`KeptBytes` and `PruneFits`: of the rows that are kept the oldest has counted
all others, so their sum is what was compared with the budget, with ties of
the clock broken by the id. `BudgetsHold`, `OneIdentityHolds` and the action
property `NewestIsKept` (`OlderRowsGo`, `NewestStays`) follow.

*Chart.* `ChartsAreHonest`, for any stored samples, window, limit and number of
bins: every sample falls into a bin (`BinsCover`), each bin keeps a row with its
least and one with its greatest value (`SelectedExtremes`), so the window and
its chart have the same ends (`ExtremesKept`); segments are counted along all
samples before any is left out, so two points with one segment have no gap
between them (`SegmentsPart`, `GapsAreKept`).

### ManagedNodeProofs

`NodeInvariant`: exits of `watch_child` are matched by ends of NATS and by failed
restarts, with one more in hand where a dead or killed child has not been noticed
yet, but for a reviewed restart under way, which holds the lock, and a controller
that is ending, where `watch_child` runs no more (`StopsAccounted`); the two files agree with the step of the apply that holds the
lock (`FilesInOrder`); what was saved was requested on record
(`RequestsRecorded`). `RecoveryFileHolds`, `ReviewedRestartsStay` and
`AuditIsHonest` follow.

`ManagedChangeImplemented`: `Spec => ImplementsManagedChange`. It needs that an
apply has a name of its own wherever it is: in the dashboard, waiting, at the lock
or done (`RequestsOnce`, `AsksOnce`, in `ManagedClient` for both endpoints), and
that the holder of the lock has compared the revision with a file that nobody
else writes since. Only `SaveConfig` carries an ask out; a step that loses an
answer, kills a child or ends the container drops asks or stutters.

### AccountAuthorityProofs

`AccountInvariant`: nobody but the holder of the lock changes a store while the
adapter is up (`LockKept`), and every JWT there is has a number up to `signed`
(`StoresSigned`). Each signed JWT is new, so a store that changes becomes
different from everything that was ever published; hence `AcceptedIsPublished`,
which speaks of equal content, stays true. `AcceptedHolds` and
`ReviewedStoreApplied` follow.

`ManagedChangeImplemented` for the authority: only `run` carries an ask out, also
when its command is killed after it did its work (`EffectPermitted`: the effect of
an action is what its review permits, from the store the review showed). `Offline`
is the abstract change by other means, while the endpoint is stopped.
`AuditIsHonest` is derived from the refinement: the abstract module already implies
it (`PromiseHonest`).

### Only model-checked

The liveness properties (`RequestsAnswered`, `ApplyAnswered`, `SettingsReachCache`,
`RestartsReachLog`, `CallsAnswered`, `ProcessRecovers`, `AuthorityFree`), as
fairness and ENABLED are out of the prover's reach. Of `ApplyAnswered` and
`CallsAnswered`, the two with a queue, the safety half is proved: the queue
never stands still. Every invariant, action property and refinement that a run
checks is proved.

`TablesBounded`, `ReviewSpentByOwner`, `AuditHonest`, `AppliedToReviewedStore` and the
two `QueueMoves` are the other way round: they are proved, and no run repeats
them.

## Findings

* *Outcome records* (`reviews_outcome_doc`). `SETTINGS_AND_ACCESS.md:57` says the
  outcome of an attempt is recorded. `apply` is dropped with its request when
  the client goes away while the broker is awaited; the change goes on, the
  mutex is free, and no outcome is stored. `OutcomeLogged` is what holds.
* *Observed restarts* (`observation_restarts`). The monitor gives the row of a
  node that does not answer the identity it had (`monitoring.rs:261`). If the
  monitor has seen a restarted node and the node does not answer at the
  collector's next reading, the collector keeps the new start on an unavailable
  row, `incidents::changes` passes over that row, and when the node answers
  again nothing differs: the restart is in no incident, although
  `PORTING_LEDGER.md:54` has the timeline list observed restarts.
  `RestartsReachLog` is what holds.

Remarks, without a run of their own. `docs/NATS_LOGIN.md:177` says the rows of
the capabilities name the exact publish subjects that enable each. Three actions
send more (`Unread`): the preview of a creation looks up what is to be created,
and that of a deletion reads the record (`operations.rs:359`, `:371`), which
needs `STREAM.INFO`, `CONSUMER.INFO` and `STREAM.MSG.GET`. A login with
`STREAM.INFO` and `STREAM.MSG.DELETE` of a stream is offered the deletion and its
preview fails (`DeletionsAreRefused`); nothing is changed. The comment at
`capabilities.js:40` has `null` for a login whose grants are unknown; a row past the
limits of `access.rs` gives it too (`allowed`), so that pausing or deleting the
501st consumer of an account is offered to a login that is denied both. `docs/MANAGED.md:80` has an intentional reviewed restart remain within the
controller; one that fails between stop and start does not, as `watch_child` then
ends the controller and the container starts NATS again (`ReviewedRestartStays`
counts it). `SECURITY.md:7` and `docs/SETUP.md:470` say 30 sign-ins
per minute; the window is fixed (`auth.rs:237`), so up to 60 fall within a minute
around its edge: `TwiceTheLimit`. `docs/OPERATIONS.md:109` gives the limit of the
activity table; settings saved since the last event may exceed it, as the last
part of `WithinBudgets` has it. The guard decides once (`auth.rs:660`,
`docs/NATS_LOGIN.md:29`): a revocation does not reach a request that has passed
it, and `NatsSession` models that. Two observations are compared only when both
are complete, so a change across an incomplete one is seen later or, for a
stream that came back the same, not at all.

## Not modelled

* Live updates (`events.rs`): each tick checks role and profile again and reads
  one number; nothing is kept that another part can disturb.
* HTTPS listener, connection options, deployment checks, doctor: files and
  options read at start-up, without interleavings of their own.
* Messages and buckets: bounded reads that keep no state.
* Readiness and the simulation: functions of the snapshot.
* The paging of consumers, and the projections of the monitoring JSON
  (routes, members, leaders): they decide what a row shows; the comparison of
  rows is modelled.
* Profile selection: a cookie against a table fixed at start-up. Which route needs which role is a static table too.
* Validation and parsers (names, durations, proposals, settings): they decide
  which inputs exist, and the models take those that do.
* Limits that all sessions share (16 watches, 32 permits): counting semaphores
  whose refusal is an answer; the watch of one session has its own permit.
* The browser application beyond the open user form, the monitoring choice, the
  node links and the review a managed page shows.

## Plan

Modelled, in this order: identities and sessions; reviewed changes; provider
sign-in; NATS sessions and their tools; collector, store and incidents; managed
node; JWT authority. Left, in the order of what each would add:

1. Consumers and cluster peers in `Observation`, where they are compared by
   rules of their own.
2. The parsers of durations and the normalisation of proposals as operators
   against reference definitions.
