-------------------------- MODULE SessionAuthority --------------------------
(***************************************************************************)
(* What dashboard authentication promises, with no keys, revisions, cache  *)
(* or clock (docs/SHARED_ACCESS.md:26): a token is issued once, to a       *)
(* subject in good standing; any change of the subject ends all of its     *)
(* tokens in the same instant; a token that has ended never acts again;    *)
(* and a restart ends them all.  DashboardAuth implements this module.     *)
(***************************************************************************)
CONSTANTS Subjects, Tokens, Roles

VARIABLES
    standing,   \* of each subject: "absent", "disabled" or its role
    holder      \* of each token: "fresh", "spent" or the subject it acts for

authority == <<standing, holder>>

Standing == {"absent", "disabled"} \cup Roles

Holders == Subjects \cup {"fresh", "spent"}

Init ==
    /\ standing \in [Subjects -> Standing]
    /\ holder = [t \in Tokens |-> "fresh"]

\* The tokens of T act as before, or have ended.
OnlyEnd(T) ==
    /\ holder' \in [Tokens -> Holders]
    /\ \A t \in T : holder'[t] \in {holder[t], "spent"}

\* A token is issued; others may end to make room for it.
Issue(t, s) ==
    /\ holder[t] = "fresh"
    /\ standing[s] \in Roles
    /\ holder'[t] = s
    /\ OnlyEnd(Tokens \ {t})
    /\ UNCHANGED standing

\* Expiry, logout, redemption, or a secret used for something else.
End ==
    /\ OnlyEnd(Tokens)
    /\ UNCHANGED standing

\* Whatever changes about a subject, its tokens end with the change.
ChangeSubject(s) ==
    /\ \E value \in Standing : standing' = [standing EXCEPT ![s] = value]
    /\ \A t \in Tokens : holder'[t] # s
    /\ OnlyEnd({t \in Tokens : holder[t] = s})
    /\ \A t \in Tokens : holder[t] # s => holder'[t] = holder[t]

\* A restart ends every token, and finds subjects as they were stored.
Recover ==
    /\ standing' \in [Subjects -> Standing]
    /\ holder' = [t \in Tokens |->
                    IF holder[t] = "fresh" THEN "fresh" ELSE "spent"]

Next ==
    \/ \E t \in Tokens, s \in Subjects : Issue(t, s)
    \/ End
    \/ \E s \in Subjects : ChangeSubject(s)
    \/ Recover

Spec == Init /\ [][Next]_authority
=============================================================================
