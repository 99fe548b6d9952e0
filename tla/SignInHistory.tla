--------------------------- MODULE SignInHistory ---------------------------
(***************************************************************************)
(* The sign-in limiter with a record of when it admitted attempts, while   *)
(* one process runs.                                                       *)
(***************************************************************************)
EXTENDS SignInLimit, Sequences

VARIABLE admitted   \* history: the instants of the attempts admitted

Init ==
    /\ attempts = [start |-> 0, count |-> 0]
    /\ now = 0
    /\ admitted = <<>>

Attempt ==
    /\ login_attempt
    /\ admitted' = Append(admitted, now)
    /\ UNCHANGED now

Wait ==
    /\ Advance
    /\ UNCHANGED <<attempts, admitted>>

Next == Attempt \/ Wait

Spec == Init /\ [][Next]_<<attempts, now, admitted>>

\* A span as long as a window meets at most two windows, so the limiter
\* (auth.rs login_attempt, authenticate) admits at most twice its limit in it:
\* from one attempt to the one that comes twice the limit after it, a window
\* goes by.
TwiceTheLimit ==
    \A k \in DOMAIN admitted :
        k + 2 * MaxAttempts \in DOMAIN admitted =>
            admitted[k + 2 * MaxAttempts] - admitted[k] >= Window
=============================================================================
