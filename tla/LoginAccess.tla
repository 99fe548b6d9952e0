----------------------------- MODULE LoginAccess -----------------------------
(***************************************************************************)
(* What a NATS login is shown and what it may do.  Its grants are read     *)
(* once, at sign-in (src/src/access.rs discover); the inventory is kept    *)
(* within them (src/src/telemetry.rs observe_scoped); each capability is a *)
(* list of publishes compared with them (capabilities), and the page       *)
(* offers an action unless its capability is known to be missing           *)
(* (src/web/capabilities.js).  The action then sends requests of its own   *)
(* (src/src/operations.rs).  The dashboard has writes enabled.             *)
(*                                                                         *)
(* Everything here is a function of the grants: there is no state.         *)
(***************************************************************************)
EXTENDS Subjects

Own == "own"    \* the profile's own account; others have labels

\* Rows, and the requests of an action, both go by the account of the
\* resource.
account_prefix(account) ==
    IF account = Own THEN <<"$JS", "API">> ELSE <<"$JS", account, "API">>

Named(account, stream) == [account |-> account, stream |-> stream]

StreamApi(r, verb) ==
    account_prefix(r.account) \o <<"STREAM">> \o verb \o <<r.stream>>

ConsumerApi(r, verb, consumer) ==
    account_prefix(r.account) \o <<"CONSUMER", verb, r.stream, consumer>>

Info(r) == StreamApi(r, <<"INFO">>)
Get(r) == StreamApi(r, <<"MSG", "GET">>)

-----------------------------------------------------------------------------
(* Sign-in.                                                                *)

Ping(endpoint) == <<"$SYS", "REQ", "SERVER", "PING", endpoint>>

OwnInfo == <<"$SYS", "REQ", "USER", "INFO">>

\* A login has the grants the server holds it to.  The dashboard knows them when
\* the login may ask for them and is answered in time, and then also which
\* endpoints a server answers.  An unrestricted login has no list of grants.
discover(login, replied, answering) ==
    LET known == replied /\ permits(login.publish, OwnInfo)
        reached == {e \in answering : known /\ permits(login.publish, Ping(e))}
    IN  [known |-> known,
         restricted |-> login.restricted,
         publish |-> login.publish,
         nodes |-> "VARZ" \in reached,
         inventories |-> IF "VARZ" \in reached THEN reached \ {"VARZ"} ELSE {}]

can(access, subject) == permits(access.publish, subject)

monitors(access, endpoint) ==
    /\ access.nodes
    /\ can(access, Ping(endpoint))
    /\ endpoint \in {"VARZ"} \cup access.inventories

-----------------------------------------------------------------------------
(* The inventory of an account.                                            *)

\* Streams that a grant names.
named_streams(access, account, streams) ==
    {s \in streams : /\ Info(Named(account, s)) \in access.publish.allow
                     /\ can(access, Info(Named(account, s)))}

\* A login known to be restricted that may not list, or whose account exports no
\* list, is shown the streams it has grants for by name; one that may list is
\* shown the listed streams that it may inspect.  Any other is shown what it can
\* list.
observe_scoped(access, account, streams, exported) ==
    LET listed == exported /\ can(access, account_prefix(account)
                                              \o <<"STREAM", "LIST">>)
    IN  IF ~(access.known /\ access.restricted)
        THEN IF listed THEN streams ELSE {}
        ELSE IF listed
        THEN {s \in streams : can(access, Info(Named(account, s)))}
        ELSE named_streams(access, account, streams)

-----------------------------------------------------------------------------
(* The capabilities.                                                       *)

\* The publishes each capability asks for.  A resource has the subjects that
\* its stream captures.  The rows that are about no stream are those of the
\* login's own account.
needs(r) ==
    [own_permissions    |-> {OwnInfo},
     list_streams       |-> {account_prefix(Own) \o <<"STREAM", "LIST">>},
     node_metrics       |-> {Ping("VARZ")},
     subscriptions      |-> {Ping("SUBSZ")},
     routes             |-> {Ping("ROUTEZ")},
     connections        |-> {Ping("CONNZ"),
                             <<"$SYS", "REQ", "SERVER", One, "CONNZ">>},
     create_stream      |-> {StreamApi(Named(Own, One), <<"CREATE">>)},
     consumer_inventory |-> {account_prefix(r.account)
                                 \o <<"CONSUMER", "LIST", r.stream>>,
                             ConsumerApi(r, "INFO", One)},
     read_messages      |-> {Get(r)},
     publish            |-> r.subjects,
     republish          |-> r.subjects \cup {Get(r)},
     purge              |-> {StreamApi(r, <<"PURGE">>)},
     delete_message     |-> {StreamApi(r, <<"MSG", "DELETE">>)},
     create_consumer    |-> {ConsumerApi(r, "CREATE", One)},
     delete_stream      |-> {StreamApi(r, <<"DELETE">>)},
     pause_consumer     |-> {ConsumerApi(r, "INFO", r.consumer),
                             ConsumerApi(r, "PAUSE", r.consumer)},
     delete_consumer    |-> {ConsumerApi(r, "INFO", r.consumer),
                             ConsumerApi(r, "DELETE", r.consumer)}]

Granted(access, r, id) == granted(access.publish, needs(r)[id])

\* summary: what the inventory says of a stream.
ListsConsumers(access, r) ==
    can(access, account_prefix(r.account) \o <<"CONSUMER", "LIST", r.stream>>)

ReadsMessages(access, r) ==
    \/ can(access, Get(r))
    \/ can(access, account_prefix(r.account) \o <<"DIRECT", "GET", r.stream>>)

-----------------------------------------------------------------------------
(* The actions.                                                            *)

\* The capability that offers each action (src/web/capabilities.js).  Resuming
\* a consumer is pausing it with another time.
OfferedBy ==
    [publish |-> "publish", republish_message |-> "republish",
     purge_stream |-> "purge", delete_message |-> "delete_message",
     delete_stream |-> "delete_stream", create_stream |-> "create_stream",
     create_consumer |-> "create_consumer",
     pause_consumer |-> "pause_consumer", delete_consumer |-> "delete_consumer"]

Actions == DOMAIN OfferedBy

OnConsumers == {"create_consumer", "pause_consumer", "delete_consumer"}
OnRecords == {"republish_message", "delete_message"}

\* What preview and apply read: the resource, and the record if there is one.
Reads(r, action) ==
    {Info(r) : x \in {action} \ ({"publish"} \cup OnConsumers)}
        \cup {ConsumerApi(r, "INFO", r.consumer) : x \in {action} \cap OnConsumers}
        \cup {Get(r) : x \in {action} \cap OnRecords}

\* The publish that is the change itself.
Change(r, action, subject) ==
    CASE action \in {"publish", "republish_message"} -> subject
      [] action = "purge_stream"    -> StreamApi(r, <<"PURGE">>)
      [] action = "delete_message"  -> StreamApi(r, <<"MSG", "DELETE">>)
      [] action = "delete_stream"   -> StreamApi(r, <<"DELETE">>)
      [] action = "create_stream"   -> StreamApi(r, <<"CREATE">>)
      [] action = "create_consumer" -> ConsumerApi(r, "CREATE", r.consumer)
      [] action = "pause_consumer"  -> ConsumerApi(r, "PAUSE", r.consumer)
      [] action = "delete_consumer" -> ConsumerApi(r, "DELETE", r.consumer)

\* A message of a stream is published to a subject that the stream captures.
Captured(r, subject) == \E p \in r.subjects : matches(p, subject)

\* A stream is chosen from the inventory.
Visible(access, r) ==
    \E exported \in BOOLEAN :
        r.stream \in observe_scoped(access, r.account, {r.stream}, exported)

\* Where the page looks a capability up.  The rows of an account's streams end
\* after 300 and those of its consumers after 500, of up to 2000 that are shown: a
\* resource has the rows r.rows.
Table(action) ==
    CASE action = "create_stream" -> "cluster"
      [] action \in {"pause_consumer", "delete_consumer"} -> "consumers"
      [] OTHER -> "streams"

\* What the page knows of an action: the code's true, false and null.
allowed(access, r, action) ==
    IF ~access.known \/ Table(action) \notin {"cluster"} \cup r.rows THEN "unknown"
    ELSE IF Granted(access, r, OfferedBy[action]) THEN "granted"
    ELSE "denied"

\* Only what is known to be denied is hidden.
Offered(access, r, action) ==
    /\ allowed(access, r, action) # "denied"
    /\ action = "create_stream" \/ Visible(access, r)

\* Some request of the action is denied by the grants.
Denied(access, r, action, subject) ==
    \E sent \in Reads(r, action) \cup {Change(r, action, subject)} :
        ~can(access, sent)

-----------------------------------------------------------------------------

\* The actions that may be offered to a login in such a state of their
\* capability, and then be refused by its grants (access.rs capabilities,
\* capabilities.js action and button, operations.rs preview and apply).
Refusable(state, Accesses, Resources, Subjects_) ==
    {action \in Actions :
        \E access \in Accesses, r \in Resources, subject \in Subjects_ :
            /\ Captured(r, subject)
            /\ allowed(access, r, action) = state
            /\ Offered(access, r, action)
            /\ Denied(access, r, action, subject)}

\* These three read what their capability does not ask for: preview looks up
\* the stream or the consumer that is to be created, and the record that is
\* to be deleted.
Unread == {"create_stream", "create_consumer", "delete_message"}

\* The inventory and the capabilities answer the same question twice, for one
\* subject and for a pattern: what is granted is in the summary, and what is
\* monitored is granted (access.rs summary, monitors, capabilities).  Both are
\* given of a login whose grants are known.
SummaryAgrees(Accesses, Resources) ==
    \A access \in {a \in Accesses : a.known}, r \in Resources :
        /\ Granted(access, r, "consumer_inventory") => ListsConsumers(access, r)
        /\ Granted(access, r, "read_messages") => ReadsMessages(access, r)
        /\ monitors(access, "SUBSZ") => Granted(access, r, "subscriptions")
        /\ monitors(access, "ROUTEZ") => Granted(access, r, "routes")
=============================================================================
