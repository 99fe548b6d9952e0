------------------------ MODULE LoginAccessProperties ------------------------
(* What a login of a NATS session may rely on, for a catalogue of grants,   *)
(* patterns, logins and resources; the sets of all of them.                 *)
EXTENDS NatsSessionProperties, LoginAccess

\* The words of the management API.  They are strings; they are named because
\* the provers do not take a string in quotes for a member of STRING.
ApiWords == {"$JS", "API", "STREAM", "CONSUMER", "MSG", "GET", "INFO", "CREATE",
             "PURGE", "DELETE", "PAUSE", "LIST", "$SYS", "REQ", "USER", "SERVER",
             "PING", "SUBSZ", "ROUTEZ"}

Token == STRING \cup ApiWords \cup {One, Rest}    \* tokens of subjects and patterns
Name == Token \ {One, Rest}                       \* the code's valid_token
Pattern == Seq(Token)
Rule == [allow : SUBSET Pattern, deny : SUBSET Pattern]

Login == [known : BOOLEAN, restricted : BOOLEAN, publish : Rule,
          nodes : BOOLEAN, inventories : SUBSET Token]

\* A login without restriction is recorded without grants; the grants of one that
\* may not ask for them are not known.
Discovered(access) ==
    /\ ~access.restricted => access.publish = [allow |-> {}, deny |-> {}]
    /\ access.known => can(access, OwnInfo)

Resource == [account : Name, stream : Name, consumer : Name,
             subjects : SUBSET Pattern, rows : SUBSET {"streams", "consumers"}]

CONSTANTS
    Rules,        \* grants
    Patterns,     \* patterns a capability may need
    Subjects_,    \* subjects these may hold
    Logins,       \* logins, with the grants they were given at sign-in
    Resources,    \* a stream and a consumer of an account, each
    Published     \* subjects that a message may be published to

ASSUME LoginAccessAssumption ==
    /\ Rules \subseteq Rule
    /\ Patterns \subseteq Pattern
    /\ Subjects_ \subseteq Pattern
    /\ \A access \in Logins : access \in Login /\ Discovered(access)
    /\ Resources \subseteq Resource
    /\ Published \subseteq Pattern

\* What a login is shown as granted, it is permitted (access.rs capability); no
\* action but the three that read what their capability does not ask for is
\* offered as granted and then refused by the grants; and the summary of the
\* inventory agrees with the capabilities.  An action whose capability is unknown
\* is offered all the same, and may be refused.  It does not depend on the state
\* and is looked at before the first call.
LoginGrants ==
    calls = 0 =>
        /\ GrantedIsPermitted(Rules, Patterns, Subjects_)
        /\ Refusable("granted", Logins, Resources, Published) \subseteq Unread
        /\ SummaryAgrees(Logins, Resources)
=============================================================================
