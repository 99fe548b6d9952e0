---------------------------- MODULE MCNatsSession ----------------------------
(* Two tabs of one NATS session and two servers; and logins, with the      *)
(* grants of patterns of up to three tokens, and with the grants that      *)
(* matter to a stream and a consumer, for TLC.                             *)
EXTENDS LoginAccessProperties

Tuples(tokens) == UNION {[1 .. n -> tokens] : n \in 1 .. 3}

MCSubjects == Tuples({"a", "b"})
MCPatterns == {p \in Tuples({"a", "b", One, Rest}) :
                  \A i \in 1 .. Len(p) - 1 : p[i] # Rest}
Few == {{}} \cup {{p} : p \in MCPatterns}
MCRules == [allow : Few, deny : Few]

MCResource(account, rows) ==
    [account |-> account, stream |-> "s", consumer |-> "c",
     subjects |-> {<<"a", One>>}, rows |-> rows]
MCRows == {"streams", "consumers"}

\* Of the account's own resources, one may be past the rows of either table.
MCResources == {MCResource(Own, MCRows), MCResource(Own, {}), MCResource("x", MCRows)}
MCCaptured == {<<"a", "b">>, <<"a", "c">>}

\* Grants a login may have: what the capabilities and the actions name, and
\* wildcards around it.
MCGrants ==
    LET r == MCResource(Own, MCRows) IN
    UNION {needs(r)[id] : id \in DOMAIN needs(r)}
        \cup UNION {Reads(r, action) : action \in Actions}
        \cup {Change(r, action, <<"a", "b">>) : action \in Actions}
        \cup {<<Rest>>, <<"$JS", Rest>>, <<"$SYS", Rest>>,
              <<"$JS", "API", "STREAM", One, "s">>,
              <<"$JS", One, "API", "CONSUMER", Rest>>,
              <<"$JS", "x", "API", "STREAM", "INFO", "s">>}

MCPermissions(Allowed) ==
    [allow : {{}} \cup Allowed,
     deny : {{}, {<<"a", "b">>}, {<<"$JS", "API", "STREAM", One, "s">>},
             {<<"$JS", One, "API", Rest>>},
             {<<"$JS", "API", "CONSUMER", One, "s", "c">>},
             {<<"$SYS", "REQ", "SERVER", "n", Rest>>}}]

\* Logins that are told their grants and such as are not, and one without
\* restriction.
MCAccesses ==
    {discover([restricted |-> TRUE, publish |-> p], TRUE, {"VARZ", "SUBSZ"}) :
        p \in MCPermissions({{OwnInfo, g, h} : g, h \in MCGrants})}
    \cup {discover([restricted |-> TRUE, publish |-> p], FALSE, {"VARZ"}) :
             p \in MCPermissions({{g} : g \in MCGrants})}
    \cup {discover([restricted |-> FALSE,
                    publish |-> [allow |-> {}, deny |-> {}]], TRUE, {})}

\* The catalogue has grants for each action that may be offered and refused, in
\* either state, and an action that is hidden.
ASSUME MCExamples ==
    /\ Unread \subseteq Refusable("granted", MCAccesses, MCResources, MCCaptured)
    /\ Actions = Refusable("unknown", MCAccesses, MCResources, MCCaptured)
    /\ \E access \in MCAccesses, r \in MCResources :
          allowed(access, r, "purge_stream") = "denied"
=============================================================================
