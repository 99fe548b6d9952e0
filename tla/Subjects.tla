------------------------------ MODULE Subjects ------------------------------
(***************************************************************************)
(* NATS subjects and the publish grants of a login, src/src/access.rs.     *)
(* A subject or a pattern is the sequence of its tokens, which the code    *)
(* walks from the left; a walk ends at the first ">" or at the first pair  *)
(* of tokens that do not agree.                                            *)
(***************************************************************************)
EXTENDS Integers, Sequences

One == "*"
Rest == ">"

\* Positions that both sequences have.
Common(a, b) == DOMAIN a \cap DOMAIN b

\* The subject belongs to the pattern.
matches(pattern, subject) ==
    LET Agree(k) == \A i \in 1 .. k :
            pattern[i] # Rest /\ pattern[i] \in {One, subject[i]}
    IN  \/ Len(pattern) = Len(subject) /\ Agree(Len(pattern))
        \/ \E k \in Common(pattern, subject) :
              pattern[k] = Rest /\ Agree(k - 1)

\* One grant holds the whole pattern.
covers(grant, pattern) ==
    LET Agree(k) == \A i \in 1 .. k :
            /\ Rest \notin {grant[i], pattern[i]}
            /\ grant[i] = One \/ (grant[i] = pattern[i] /\ pattern[i] # One)
    IN  \/ Len(grant) = Len(pattern) /\ Agree(Len(grant))
        \/ \E k \in Common(grant, pattern) : grant[k] = Rest /\ Agree(k - 1)

\* Fault: a wildcard of the pattern meets only a wildcard.
overlaps_oneway(a, b) ==
    LET Agree(k) == \A i \in 1 .. k :
            Rest \notin {a[i], b[i]} /\ a[i] \in {One, b[i]}
    IN  \/ Len(a) = Len(b) /\ Agree(Len(a))
        \/ \E k \in Common(a, b) : Rest \in {a[k], b[k]} /\ Agree(k - 1)

\* Some part of one pattern may belong to the other.
overlaps(a, b) ==
    LET Agree(k) == \A i \in 1 .. k :
            /\ Rest \notin {a[i], b[i]}
            /\ One \in {a[i], b[i]} \/ a[i] = b[i]
    IN  \/ Len(a) = Len(b) /\ Agree(Len(a))
        \/ \E k \in Common(a, b) : Rest \in {a[k], b[k]} /\ Agree(k - 1)

\* What NATS decides for one subject; no list of grants allows all.
permits(rules, subject) ==
    /\ rules.allow = {} \/ \E p \in rules.allow : matches(p, subject)
    /\ \A p \in rules.deny : ~matches(p, subject)

\* What the dashboard says of a whole pattern.
permits_all(rules, pattern) ==
    /\ rules.allow = {} \/ \E p \in rules.allow : covers(p, pattern)
    /\ \A p \in rules.deny : ~overlaps(p, pattern)

\* A capability is granted if every publish it needs is.
granted(rules, needs) == \A need \in needs : permits_all(rules, need)

\* A capability shown as granted is never refused by the grants: every subject
\* of every pattern it needs is permitted, whatever the wildcards.
GrantedIsPermitted(Rules, Patterns, Subjects_) ==
    \A rules \in Rules, need \in Patterns :
        granted(rules, {need}) =>
            \A s \in Subjects_ : matches(need, s) => permits(rules, s)
=============================================================================
