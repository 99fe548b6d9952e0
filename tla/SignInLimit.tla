---------------------------- MODULE SignInLimit ----------------------------
(***************************************************************************)
(* The sign-in limiter of src/src/auth.rs: one counter and the start of    *)
(* its window, behind a mutex, shared by access-key sign-in, one-time      *)
(* tickets and NATS login.  Times are in any unit; the code has a window   *)
(* of 60 seconds and 30 attempts.                                          *)
(***************************************************************************)
EXTENDS Integers

CONSTANTS
    MaxAttempts,    \* 30
    Window,         \* 60 seconds
    MaxNow          \* bound on the clock (not in the code)

ASSUME SignInLimitAssumption ==
    /\ {MaxAttempts, Window} \subseteq Nat \ {0}
    /\ MaxNow \in Nat

VARIABLES
    attempts,       \* [start, count] of the current window
    now             \* the clock

\* A refused attempt leaves the window as it was: a window that is old
\* enough is replaced, and then the attempt is not refused.
CurrentWindow ==
    IF now - attempts.start >= Window
    THEN [start |-> now, count |-> 0]
    ELSE attempts

\* Fault: one attempt too many is admitted.
login_attempt_inclusive ==
    /\ CurrentWindow.count <= MaxAttempts
    /\ attempts' = [CurrentWindow EXCEPT !.count = @ + 1]

login_attempt ==
    /\ CurrentWindow.count < MaxAttempts
    /\ attempts' = [CurrentWindow EXCEPT !.count = @ + 1]

Advance ==
    /\ now < MaxNow
    /\ now' = now + 1
=============================================================================
