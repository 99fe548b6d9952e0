--------------------------- MODULE ProviderSignIn ---------------------------
(***************************************************************************)
(* Sign-in through an OpenID provider, src/src/oidc.rs, beside the limited *)
(* sign-ins of SignInHistory on the same clock.  A flow is known by its    *)
(* number: its state, its cookie, its nonce and its verifier are random    *)
(* and differ from those of every other flow.                              *)
(*                                                                         *)
(* start and callback hold the table of pending flows only between their   *)
(* awaits: start asks the provider for its metadata before it takes the    *)
(* lock, callback asks for them and for the tokens after it gave it up.    *)
(***************************************************************************)
EXTENDS SignInHistory, SequencesExt

CONSTANTS
    None,
    Browsers,
    Permits,     \* 16 requests under way together (FLOW_LIMIT)
    MaxPending,  \* 32 flows
    FlowLife,    \* 300 seconds
    MaxFlows     \* bound on flows (not in the code)

ASSUME ProviderSignInAssumption ==
    {MaxPending, FlowLife, MaxFlows} \subseteq Nat \ {0}

VARIABLES
    pending,     \* flow -> instant it expires at
    jar,         \* [Browsers -> flow whose cookie it holds, or None]
    req,         \* [Permits -> request, or None]
    flows,       \* flows started
    codes,       \* flows the provider has issued a code for
    started,     \* history: [flow -> browser and instant]
    grants       \* history: [flow -> sessions granted]

limited == <<attempts, now, admitted>>
history == <<started, grants>>
signInVars == <<limited, pending, jar, req, flows, codes, history>>

Flows == 1 .. MaxFlows

Answer(p) == req' = [req EXCEPT ![p] = None]

-----------------------------------------------------------------------------

\* A permit is free, and the metadata is asked for.
start(p, b) ==
    /\ req[p] = None
    /\ req' = [req EXCEPT ![p] = [step |-> "start", browser |-> b]]
    /\ UNCHANGED <<limited, pending, jar, flows, codes, history>>

Live == Restrict(pending, {f \in DOMAIN pending : pending[f] > now})

\* The metadata is here: expired flows leave the table, and a new one joins it
\* if there is room.
Begin(p) ==
    /\ req[p] # None /\ req[p].step = "start" /\ flows < MaxFlows
    /\ Answer(p)
    /\ IF Cardinality(DOMAIN Live) >= MaxPending
       THEN pending' = Live /\ UNCHANGED <<jar, flows, started>>
       ELSE LET f == flows + 1
                b == req[p].browser IN
            /\ flows' = f
            /\ pending' = [g \in DOMAIN Live \cup {f} |->
                              IF g = f THEN now + FlowLife ELSE Live[g]]
            /\ jar' \in {jar, [jar EXCEPT ![b] = f]}    \* b may have left
            /\ started' = [started EXCEPT ![f] = [browser |-> b, at |-> now]]
    /\ UNCHANGED <<limited, codes, grants>>

\* The provider signs somebody in for a flow (external).
Authorize(f) ==
    /\ f <= flows /\ f \notin codes
    /\ codes' = codes \cup {f}
    /\ UNCHANGED <<limited, pending, jar, req, flows, history>>

Exchange(b, f, code) ==
    [step |-> "exchange", browser |-> b, flow |-> f, code |-> code,
     arrived |-> now]

Bound(b, f) == pending[f] > now /\ jar[b] = f

CallbackStep(p) ==
    /\ req[p] = None
    /\ UNCHANGED <<limited, jar, flows, codes, history>>

\* Fault: the flow leaves the table with the session, not with its callback.
callback_keeps(p, b, f, code) ==
    /\ CallbackStep(p)
    /\ jar[b] # None /\ f \in DOMAIN pending
    /\ UNCHANGED pending
    /\ IF Bound(b, f) THEN req' = [req EXCEPT ![p] = Exchange(b, f, code)]
       ELSE UNCHANGED req

\* Browser b follows a redirect with the state of flow f.  A request without a
\* cookie does not touch the table; any other removes the flow, before its
\* expiry and its cookie are looked at.
callback(p, b, f, code) ==
    /\ CallbackStep(p)
    /\ jar[b] # None /\ f \in DOMAIN pending
    /\ pending' = Restrict(pending, DOMAIN pending \ {f})
    /\ IF Bound(b, f) THEN req' = [req EXCEPT ![p] = Exchange(b, f, code)]
       ELSE UNCHANGED req

\* The tokens are here: the code goes with the verifier and the nonce of its
\* own flow, the subject is mapped, and the dashboard grants a session.  The
\* response removes the cookie of the flow.
Grant(p) ==
    /\ req[p] # None /\ req[p].step = "exchange"
    /\ req[p].code = req[p].flow
    /\ Answer(p)
    /\ LET r == req[p] IN
       /\ grants' = [grants EXCEPT
             ![r.flow] = Append(@, [browser |-> r.browser,
                                    arrived |-> r.arrived])]
       /\ jar' = [jar EXCEPT ![r.browser] = None]
    /\ UNCHANGED <<limited, pending, flows, codes, started>>

\* The provider does not answer in time or the answer is refused, the mapping
\* or the identity does not fit, or the browser leaves.
Fail(p) ==
    /\ req[p] # None
    /\ Answer(p)
    /\ UNCHANGED <<limited, pending, jar, flows, codes, history>>

-----------------------------------------------------------------------------

SignInInit ==
    /\ Init
    /\ pending = <<>> /\ flows = 0 /\ codes = {}
    /\ jar = [b \in Browsers |-> None]
    /\ req = [p \in Permits |-> None]
    /\ started = [f \in Flows |-> None]
    /\ grants = [f \in Flows |-> <<>>]

Provider ==
    \/ \E p \in Permits : Begin(p) \/ Grant(p) \/ Fail(p)
    \/ \E p \in Permits, b \in Browsers :
          \/ start(p, b)
          \/ \E f \in Flows, code \in codes : callback(p, b, f, code)
    \/ \E f \in Flows : Authorize(f)

SignInNext ==
    \/ Provider
    \/ Next /\ UNCHANGED <<pending, jar, req, flows, codes, history>>

SignInSpec == SignInInit /\ [][SignInNext]_signInVars

-----------------------------------------------------------------------------

\* A flow signs in at most once, whichever callbacks race for it, and the
\* session goes to the browser that started it, for a callback that came within
\* the life of the flow.
FlowSignsInOnce ==
    \A f \in Flows :
        /\ Len(grants[f]) <= 1
        /\ \A i \in DOMAIN grants[f] :
              /\ grants[f][i].browser = started[f].browser
              /\ grants[f][i].arrived < started[f].at + FlowLife
=============================================================================
