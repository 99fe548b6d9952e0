------------------------ MODULE ProviderSignInProofs ------------------------
(***************************************************************************)
(* Proofs that the sign-in limiter admits at most twice its limit in a     *)
(* span as long as its window, and that a flow of an OpenID provider signs *)
(* in at most once, for any limit and window and any number of browsers,   *)
(* requests and flows.                                                     *)
(***************************************************************************)
EXTENDS ProviderSignIn, TLAPS

-----------------------------------------------------------------------------
(* The limiter.                                                            *)

LimiterType ==
    /\ attempts \in [start : Nat, count : 0 .. MaxAttempts]
    /\ now \in Nat /\ attempts.start <= now
    /\ admitted \in Seq(0 .. now)
    /\ attempts.count <= Len(admitted)

\* The attempts of the windows that are over.
Past == Len(admitted) - attempts.count

\* The current window has the last attempts, and none that came before it.
WindowAttempts ==
    \A k \in 1 .. Len(admitted) :
        IF k <= Past THEN admitted[k] <= attempts.start
                     ELSE admitted[k] >= attempts.start

\* Of the attempts that are over, those with a limit of them after them are
\* older than the window before the current one.
OlderAttempts ==
    \A k \in 1 .. Len(admitted) :
        k + MaxAttempts <= Past => admitted[k] + Window <= attempts.start

LimiterInvariant ==
    LimiterType /\ WindowAttempts /\ OlderAttempts /\ TwiceTheLimit

\* The limiter starts with an empty window (auth.rs).
LEMMA LimiterInit == Init => LimiterInvariant
  BY SignInLimitAssumption
     DEF Init, LimiterInvariant, LimiterType, WindowAttempts, OlderAttempts,
         Past, TwiceTheLimit

\* An attempt in the current window, or the first in a new one, keeps what is
\* known of the windows that are over (auth.rs login_attempt).
LEMMA LimiterAttempt == LimiterInvariant /\ Attempt => LimiterInvariant'
  <1> SUFFICES ASSUME LimiterInvariant, Attempt PROVE LimiterInvariant'
    OBVIOUS
  <1> DEFINE n == Len(admitted)
             was == attempts
             c == CurrentWindow.count
             s == CurrentWindow.start
  <1>1. /\ MaxAttempts \in Nat \ {0} /\ Window \in Nat \ {0}
        /\ now \in Nat /\ n \in Nat
        /\ was.start \in 0 .. now /\ was.count \in 0 .. MaxAttempts /\ was.count <= n
    BY SignInLimitAssumption DEF LimiterInvariant, LimiterType
  <1>2. \A k \in 1 .. n : admitted[k] \in 0 .. now
    BY DEF LimiterInvariant, LimiterType
  <1>3. /\ c \in 0 .. MaxAttempts - 1 /\ c <= n /\ s \in 0 .. now
        /\ attempts' = [start |-> s, count |-> c + 1] /\ now' = now
    <2>1. /\ c < MaxAttempts /\ attempts' = [CurrentWindow EXCEPT !.count = @ + 1]
          /\ now' = now
      BY DEF Attempt, login_attempt
    <2>2. /\ CurrentWindow \in [start : Nat, count : 0 .. MaxAttempts]
          /\ c <= n /\ s \in 0 .. now
      BY <1>1 DEF CurrentWindow, LimiterInvariant, LimiterType
    <2>3. attempts' = [start |-> s, count |-> c + 1]
      BY <2>1, <2>2
    <2> QED BY <1>1, <2>1, <2>2, <2>3
  <1>4. /\ admitted' \in Seq(0 .. now) /\ Len(admitted') = n + 1
        /\ \A k \in 1 .. n : admitted'[k] = admitted[k]
        /\ admitted'[n + 1] = now
    BY <1>1 DEF Attempt, LimiterInvariant, LimiterType
  <1>5. Past' = n - c
    <2>1. Past' = Len(admitted') - attempts'.count
      BY DEF Past
    <2> HIDE DEF n, c, s, was
    <2>2. attempts'.count = c + 1
      BY <1>3
    <2> QED BY <1>1, <1>3, <1>4, <2>1, <2>2
  <1>6. \A k \in 1 .. n :
           /\ k <= n - c => admitted[k] <= s
           /\ ~(k <= n - c) => admitted[k] >= s
           /\ k + MaxAttempts <= n - c => admitted[k] + Window <= s
    <2>1. CASE now - was.start >= Window
      <3>1. c = 0 /\ s = now
        BY <2>1 DEF CurrentWindow
      <3>2. \A k \in 1 .. n : k + MaxAttempts <= n => admitted[k] <= was.start
        BY <1>1, <1>2 DEF LimiterInvariant, WindowAttempts, Past
      <3>3. \A k \in 1 .. n : k + MaxAttempts <= n => admitted[k] + Window <= now
        BY <1>1, <1>2, <2>1, <3>2
      <3> QED BY <1>1, <1>2, <3>1, <3>3
    <2>2. CASE ~(now - was.start >= Window)
      <3>1. c = was.count /\ s = was.start
        BY <2>2 DEF CurrentWindow
      <3> QED BY <1>1, <1>2, <3>1
              DEF LimiterInvariant, WindowAttempts, OlderAttempts, Past
    <2> QED BY <2>1, <2>2
  <1> HIDE DEF n, c, s, was
  <1>7. LimiterType'
    BY <1>1, <1>3, <1>4 DEF LimiterType
  <1>8. WindowAttempts'
    <2>1. \A k \in 1 .. n + 1 : IF k <= n - c THEN admitted'[k] <= s
                                              ELSE admitted'[k] >= s
      <3> SUFFICES ASSUME NEW k \in 1 .. n + 1
                   PROVE  IF k <= n - c THEN admitted'[k] <= s
                                        ELSE admitted'[k] >= s
        OBVIOUS
      <3>1. CASE k \in 1 .. n
        BY <1>4, <1>6, <3>1
      <3>2. CASE k = n + 1
        BY <1>1, <1>3, <1>4, <3>2
      <3> QED BY <1>1, <3>1, <3>2
    <2> QED BY <1>3, <1>4, <1>5, <2>1 DEF WindowAttempts
  <1>9. OlderAttempts'
    <2>1. \A k \in 1 .. n + 1 :
             k + MaxAttempts <= n - c => admitted'[k] + Window <= s
      <3> SUFFICES ASSUME NEW k \in 1 .. n + 1, k + MaxAttempts <= n - c
                   PROVE  admitted'[k] + Window <= s
        OBVIOUS
      <3>1. k \in 1 .. n
        BY <1>1, <1>3
      <3> QED BY <1>4, <1>6, <3>1
    <2> QED BY <1>3, <1>4, <1>5, <2>1 DEF OlderAttempts
  <1>10. TwiceTheLimit'
    <2> SUFFICES ASSUME NEW k \in 1 .. n + 1,
                        k + 2 * MaxAttempts \in 1 .. n + 1
                 PROVE  admitted'[k + 2 * MaxAttempts] - admitted'[k] >= Window
      BY <1>4 DEF TwiceTheLimit
    <2>1. CASE k + 2 * MaxAttempts <= n
      <3>1. k \in 1 .. n /\ k + 2 * MaxAttempts \in 1 .. n
        BY <1>1, <2>1
      <3>2. admitted[k + 2 * MaxAttempts] - admitted[k] >= Window
        BY <3>1 DEF LimiterInvariant, TwiceTheLimit, LimiterType, n
      <3> QED BY <1>4, <3>1, <3>2
    <2>2. CASE k + 2 * MaxAttempts = n + 1
      <3>1. k \in 1 .. n /\ k + MaxAttempts <= n - c
        BY <1>1, <1>3, <2>2
      <3>2. admitted[k] + Window <= s /\ s <= now /\ admitted[k] \in Nat
        BY <1>2, <1>3, <1>6, <3>1
      <3>3. admitted'[k + 2 * MaxAttempts] = now /\ admitted'[k] = admitted[k]
        BY <1>4, <2>2, <3>1
      <3> QED BY <1>1, <1>3, <3>2, <3>3
    <2> QED BY <1>1, <2>1, <2>2
  <1> QED BY <1>7, <1>8, <1>9, <1>10 DEF LimiterInvariant

\* Time that goes by and a provider that signs in leave the limiter as it is,
\* so its invariant is one of the whole process.
LEMMA LimiterInvariance == SignInSpec => []LimiterInvariant
  <1>1. LimiterInvariant /\ Wait => LimiterInvariant'
    BY DEF Wait, Advance, LimiterInvariant, LimiterType, WindowAttempts,
           OlderAttempts, Past, TwiceTheLimit
  <1>2. LimiterInvariant /\ UNCHANGED limited => LimiterInvariant'
    BY DEF limited, LimiterInvariant, LimiterType, WindowAttempts,
           OlderAttempts, Past, TwiceTheLimit
  <1>3. [SignInNext]_signInVars => Attempt \/ Wait \/ UNCHANGED limited
    BY DEF SignInNext, Provider, Next, signInVars, Begin, Grant, Fail, start,
           callback, CallbackStep, Authorize
  <1> QED BY <1>1, <1>2, <1>3, LimiterAttempt, LimiterInit, PTL
          DEF SignInSpec, SignInInit

\* Wherever a span as long as a window falls, it admits at most twice the
\* limit, for any limit and window (auth.rs login_attempt).
THEOREM AtMostTwiceTheLimit == SignInSpec => []TwiceTheLimit
  <1>1. LimiterInvariant => TwiceTheLimit
    BY DEF LimiterInvariant
  <1> QED BY <1>1, LimiterInvariance, PTL

-----------------------------------------------------------------------------
(* The provider's flows.                                                   *)

StartRequest == [step : {"start"}, browser : Browsers]

ExchangeRequest ==
    [step : {"exchange"}, browser : Browsers, flow : Flows, code : Flows,
     arrived : Nat]

Begun == [browser : Browsers, at : Nat]

Granted == [browser : Browsers, arrived : Nat]

TypeOK ==
    /\ now \in Nat /\ flows \in 0 .. MaxFlows /\ codes \subseteq Flows
    /\ DOMAIN pending \subseteq 1 .. flows
    /\ jar \in [Browsers -> Flows \cup {None}]
    /\ req \in [Permits -> StartRequest \cup ExchangeRequest \cup {None}]
    /\ started \in [Flows -> Begun \cup {None}]
    /\ \A f \in 1 .. flows : started[f] \in Begun
    /\ grants \in [Flows -> Seq(Granted)]

\* A cookie names a flow its browser has started.
CookieBound ==
    \A b \in Browsers : jar[b] # None =>
        jar[b] \in 1 .. flows /\ started[jar[b]].browser = b

\* A flow in the table has granted nothing, and neither has one to come.
FlowUnused ==
    /\ \A f \in DOMAIN pending : /\ pending[f] = started[f].at + FlowLife
                                 /\ grants[f] = <<>>
    /\ \A f \in Flows : f > flows => grants[f] = <<>>

Exchanging(p) == req[p] # None /\ req[p].step = "exchange"

\* Of the requests past the table one holds a flow, which the table has no more.
FlowTaken ==
    /\ \A p \in Permits : Exchanging(p) =>
          /\ req[p] \in ExchangeRequest
          /\ req[p].flow \in 1 .. flows /\ req[p].flow \notin DOMAIN pending
          /\ grants[req[p].flow] = <<>>
          /\ req[p].browser = started[req[p].flow].browser
          /\ req[p].arrived < started[req[p].flow].at + FlowLife
    /\ \A p, q \in Permits :
          Exchanging(p) /\ Exchanging(q) /\ req[p].flow = req[q].flow => p = q

SignInInvariant ==
    TypeOK /\ CookieBound /\ FlowUnused /\ FlowTaken /\ FlowSignsInOnce

\* The server starts with an empty table (oidc.rs initialize).
LEMMA InitInvariant == SignInInit => SignInInvariant
  <1> SUFFICES ASSUME SignInInit PROVE SignInInvariant
    OBVIOUS
  <1> USE ProviderSignInAssumption DEF SignInInit, Init
  <1>1. DOMAIN pending = {}
    OBVIOUS
  <1>2. TypeOK
    BY <1>1 DEF TypeOK
  <1>3. CookieBound /\ FlowTaken
    BY DEF CookieBound, FlowTaken, Exchanging
  <1>4. FlowUnused /\ FlowSignsInOnce
    BY <1>1 DEF FlowUnused, FlowSignsInOnce
  <1> QED BY <1>2, <1>3, <1>4 DEF SignInInvariant

\* A request that takes no step past the table, or none at all any more, leaves
\* every flow where it is.
LEMMA RequestsShrink ==
  ASSUME SignInInvariant,
         req' \in [Permits -> StartRequest \cup ExchangeRequest \cup {None}],
         \A p \in Permits : Exchanging(p)' => Exchanging(p) /\ req'[p] = req[p],
         UNCHANGED <<pending, started, grants, flows>>
  PROVE  FlowUnused' /\ FlowTaken'
  BY DEF SignInInvariant, FlowUnused, FlowTaken

\* start waits for the metadata outside the table; the attempts of other
\* sign-ins and the provider do not touch it (oidc.rs start, auth.rs).
LEMMA OutsideSteps ==
  ASSUME SignInInvariant,
         \/ \E p \in Permits, b \in Browsers : start(p, b)
         \/ \E p \in Permits : Fail(p)
         \/ \E f \in Flows : Authorize(f)
         \/ Next /\ UNCHANGED <<pending, jar, req, flows, codes, history>>
  PROVE  SignInInvariant'
  <1> USE DEF SignInInvariant
  <1>1. CASE \E p \in Permits, b \in Browsers : start(p, b)
    <2> PICK p \in Permits, b \in Browsers : start(p, b)
      BY <1>1
    <2> USE DEF start, limited, history
    <2>1. TypeOK'
      BY DEF TypeOK, StartRequest
    <2>2. \A q \in Permits : Exchanging(q)' => Exchanging(q) /\ req'[q] = req[q]
      BY DEF TypeOK, Exchanging
    <2>3. FlowUnused' /\ FlowTaken'
      BY <2>1, <2>2, RequestsShrink DEF TypeOK, StartRequest, ExchangeRequest
    <2> QED BY <2>1, <2>3 DEF CookieBound, FlowSignsInOnce
  <1>2. CASE \E p \in Permits : Fail(p)
    <2> PICK p \in Permits : Fail(p)
      BY <1>2
    <2> USE DEF Fail, Answer, limited, history
    <2>1. TypeOK'
      BY DEF TypeOK
    <2>2. \A q \in Permits : Exchanging(q)' => Exchanging(q) /\ req'[q] = req[q]
      BY DEF TypeOK, Exchanging
    <2>3. FlowUnused' /\ FlowTaken'
      BY <2>1, <2>2, RequestsShrink DEF TypeOK, StartRequest, ExchangeRequest
    <2> QED BY <2>1, <2>3 DEF CookieBound, FlowSignsInOnce
  <1>3. CASE \E f \in Flows : Authorize(f)
    BY <1>3 DEF Authorize, TypeOK, CookieBound, FlowUnused, FlowTaken, Exchanging,
                FlowSignsInOnce, limited, history
  <1>4. CASE Next /\ UNCHANGED <<pending, jar, req, flows, codes, history>>
    <2>1. now' \in Nat
      BY <1>4 DEF Next, Attempt, Wait, Advance, TypeOK
    <2> QED
      BY <1>4, <2>1 DEF TypeOK, CookieBound, FlowUnused, FlowTaken, Exchanging,
                        FlowSignsInOnce, history
  <1> QED BY <1>1, <1>2, <1>3, <1>4

\* A new flow is numbered after all others, and its cookie goes to the browser
\* that asked, if that is still there (oidc.rs start).
LEMMA BeginStep ==
  ASSUME SignInInvariant, NEW p \in Permits, Begin(p)
  PROVE  SignInInvariant'
  <1> USE ProviderSignInAssumption DEF SignInInvariant, Begin, Answer, limited
  <1>1. /\ DOMAIN Live \subseteq DOMAIN pending
        /\ \A f \in DOMAIN Live : Live[f] = pending[f]
    BY DEF Live, Restrict
  <1>2. \A q \in Permits : Exchanging(q)' => Exchanging(q) /\ req'[q] = req[q]
    BY DEF TypeOK, Exchanging
  <1>3. req' \in [Permits -> StartRequest \cup ExchangeRequest \cup {None}]
    BY DEF TypeOK
  <1>4. CASE Cardinality(DOMAIN Live) >= MaxPending
    <2>1. pending' = Live /\ UNCHANGED <<jar, flows, started, now, codes, grants>>
      BY <1>4
    <2>2. TypeOK'
      BY <1>1, <1>3, <2>1 DEF TypeOK
    <2>3. FlowUnused' /\ FlowTaken'
      BY <1>1, <1>2, <2>1 DEF FlowUnused, FlowTaken
    <2> QED BY <2>1, <2>2, <2>3 DEF CookieBound, FlowSignsInOnce
  <1>5. CASE ~(Cardinality(DOMAIN Live) >= MaxPending)
    <2> DEFINE f == flows + 1
               b == req[p].browser
    <2>1. /\ flows' = f
          /\ pending' = [g \in DOMAIN Live \cup {f} |->
                            IF g = f THEN now + FlowLife ELSE Live[g]]
          /\ jar' \in {jar, [jar EXCEPT ![b] = f]}
          /\ started' = [started EXCEPT ![f] = [browser |-> b, at |-> now]]
          /\ UNCHANGED <<now, codes, grants>>
      BY <1>5
    <2>2. f \in Flows /\ b \in Browsers /\ flows \in Nat /\ now \in Nat
      BY DEF TypeOK, Flows, StartRequest, ExchangeRequest
    <2>3. /\ DOMAIN pending' = DOMAIN Live \cup {f}
          /\ \A g \in DOMAIN pending' : pending'[g] =
                 IF g = f THEN now + FlowLife ELSE Live[g]
      BY <2>1
    <2>4. f \notin DOMAIN pending /\ f \notin 1 .. flows
          /\ 1 .. flows' = (1 .. flows) \cup {f}
      BY <2>1, <2>2 DEF TypeOK
    <2>5. /\ started'[f] = [browser |-> b, at |-> now]
          /\ \A g \in Flows : g # f => started'[g] = started[g]
      BY <2>1, <2>2 DEF TypeOK
    <2>6. \A g \in 1 .. flows : g \in Flows /\ g # f
      BY <2>2, <2>4 DEF TypeOK, Flows
    <2> HIDE DEF f, b
    <2>7. TypeOK'
      <3>1. now' \in Nat /\ flows' \in 0 .. MaxFlows /\ codes' \subseteq Flows
        BY <2>1, <2>2 DEF TypeOK, Flows, f
      <3>2. DOMAIN pending' \subseteq 1 .. flows'
        BY <1>1, <2>3, <2>4 DEF TypeOK
      <3>3. jar' \in [Browsers -> Flows \cup {None}]
        BY <2>1, <2>2 DEF TypeOK
      <3>4. [browser |-> b, at |-> now] \in Begun
        BY <2>2 DEF Begun
      <3>5. started' \in [Flows -> Begun \cup {None}]
        BY <2>1, <2>2, <3>4 DEF TypeOK
      <3>6. \A g \in 1 .. flows' : started'[g] \in Begun
        BY <2>4, <2>5, <2>6, <3>4 DEF TypeOK
      <3>7. grants' \in [Flows -> Seq(Granted)]
        BY <2>1 DEF TypeOK
      <3> QED BY <1>3, <3>1, <3>2, <3>3, <3>5, <3>6, <3>7 DEF TypeOK
    <2>8. CookieBound'
      BY <2>1, <2>2, <2>4, <2>5, <2>6 DEF CookieBound, TypeOK
    <2>9. FlowUnused'
      <3>1. \A g \in DOMAIN pending' :
               pending'[g] = started'[g].at + FlowLife /\ grants'[g] = <<>>
        <4> SUFFICES ASSUME NEW g \in DOMAIN pending'
                     PROVE  pending'[g] = started'[g].at + FlowLife
                            /\ grants'[g] = <<>>
          OBVIOUS
        <4>1. CASE g = f
          BY <1>1, <2>1, <2>2, <2>3, <2>4, <2>5, <4>1 DEF FlowUnused, f
        <4>2. CASE g # f
          <5>1. g \in DOMAIN Live /\ g \in 1 .. flows
            BY <1>1, <2>3, <4>2 DEF TypeOK
          <5> QED
            BY <1>1, <2>1, <2>3, <2>5, <2>6, <5>1 DEF FlowUnused
        <4> QED BY <4>1, <4>2
      <3>2. \A g \in Flows : g > flows' => grants'[g] = <<>>
        BY <2>1, <2>2 DEF FlowUnused, Flows, f
      <3> QED BY <3>1, <3>2 DEF FlowUnused
    <2>10. FlowTaken'
      <3>1. \A q \in Permits : Exchanging(q)' =>
              /\ Exchanging(q) /\ req'[q] = req[q]
              /\ req[q].flow \in 1 .. flows /\ req[q].flow # f
              /\ started'[req[q].flow] = started[req[q].flow]
        BY <1>2, <2>5, <2>6 DEF FlowTaken
      <3> QED
        BY <1>1, <2>1, <2>3, <2>4, <3>1 DEF FlowTaken
    <2>11. FlowSignsInOnce'
      <3>1. grants[f] = <<>>
        BY <2>2 DEF FlowUnused, f
      <3> QED
        BY <2>1, <2>2, <2>5, <3>1 DEF FlowSignsInOnce
    <2> QED BY <2>7, <2>8, <2>9, <2>10, <2>11
  <1> QED BY <1>4, <1>5

\* The flow of a callback leaves the table whatever the callback is worth, and a
\* request holds it only for its own cookie, before it expires (oidc.rs
\* callback).
LEMMA CallbackStepKeeps ==
  ASSUME SignInInvariant, NEW p \in Permits, NEW b \in Browsers, NEW f \in Flows,
         NEW code \in codes, callback(p, b, f, code)
  PROVE  SignInInvariant'
  <1> USE DEF SignInInvariant, callback, CallbackStep, limited, history
  <1>1. /\ DOMAIN pending' = DOMAIN pending \ {f}
        /\ \A g \in DOMAIN pending' : pending'[g] = pending[g]
    BY DEF Restrict
  <1>2. f \in 1 .. flows /\ f \in DOMAIN pending /\ code \in Flows
    BY DEF TypeOK
  <1>3. FlowUnused'
    BY <1>1 DEF FlowUnused
  <1>4. CookieBound' /\ FlowSignsInOnce'
    BY DEF CookieBound, FlowSignsInOnce
  <1>5. CASE Bound(b, f)
    <2>1. req' = [req EXCEPT ![p] = Exchange(b, f, code)]
      BY <1>5
    <2>2. Exchange(b, f, code) \in ExchangeRequest
      BY <1>2 DEF Exchange, ExchangeRequest, TypeOK
    <2>3. TypeOK'
      BY <1>1, <2>1, <2>2 DEF TypeOK
    <2>4. /\ req'[p] = Exchange(b, f, code)
          /\ \A q \in Permits : q # p => req'[q] = req[q]
      BY <2>1 DEF TypeOK
    <2>5. /\ jar[b] = f /\ pending[f] > now /\ started[f].browser = b
          /\ pending[f] = started[f].at + FlowLife /\ grants[f] = <<>>
      BY <1>2, <1>5 DEF Bound, CookieBound, FlowUnused
    <2>6. ~Exchanging(p) /\ \A q \in Permits : Exchanging(q) => req[q].flow # f
      BY <1>2 DEF Exchanging, FlowTaken
    <2>7. \A q \in Permits : Exchanging(q)' =>
            /\ req'[q] \in ExchangeRequest
            /\ req'[q].flow \in 1 .. flows' /\ req'[q].flow \notin DOMAIN pending'
            /\ grants'[req'[q].flow] = <<>>
            /\ req'[q].browser = started'[req'[q].flow].browser
            /\ req'[q].arrived < started'[req'[q].flow].at + FlowLife
      <3> SUFFICES ASSUME NEW q \in Permits, Exchanging(q)'
                   PROVE  /\ req'[q] \in ExchangeRequest
                          /\ req'[q].flow \in 1 .. flows'
                          /\ req'[q].flow \notin DOMAIN pending'
                          /\ grants'[req'[q].flow] = <<>>
                          /\ req'[q].browser = started'[req'[q].flow].browser
                          /\ req'[q].arrived < started'[req'[q].flow].at + FlowLife
        OBVIOUS
      <3>1. CASE q = p
        BY <1>1, <1>2, <2>2, <2>4, <2>5, <3>1 DEF Exchange
      <3>2. CASE q # p
        BY <1>1, <2>4, <3>2 DEF Exchanging, FlowTaken
      <3> QED BY <3>1, <3>2
    <2>8. \A q, r \in Permits :
            Exchanging(q)' /\ Exchanging(r)' /\ req'[q].flow = req'[r].flow => q = r
      BY <2>4, <2>6 DEF Exchanging, FlowTaken, Exchange
    <2>9. FlowTaken'
      BY <2>7, <2>8 DEF FlowTaken
    <2> QED BY <1>3, <1>4, <2>3, <2>9
  <1>6. CASE ~Bound(b, f)
    <2>1. TypeOK'
      BY <1>1, <1>6 DEF TypeOK
    <2>2. FlowTaken'
      BY <1>1, <1>6 DEF FlowTaken, Exchanging
    <2> QED BY <1>3, <1>4, <2>1, <2>2
  <1> QED BY <1>5, <1>6

\* A session is granted by the one request that holds the flow (oidc.rs
\* callback).
LEMMA GrantStep ==
  ASSUME SignInInvariant, NEW p \in Permits, Grant(p)
  PROVE  SignInInvariant'
  <1> USE DEF SignInInvariant, Grant, Answer, limited
  <1> DEFINE f == req[p].flow
             g == [browser |-> req[p].browser, arrived |-> req[p].arrived]
  <1>1. /\ Exchanging(p) /\ f \in 1 .. flows /\ f \in Flows /\ g \in Granted
        /\ f \notin DOMAIN pending /\ grants[f] = <<>>
        /\ req[p].browser = started[f].browser
        /\ req[p].arrived < started[f].at + FlowLife
    BY DEF Exchanging, FlowTaken, ExchangeRequest, Granted
  <1>2. /\ grants' = [grants EXCEPT ![f] = Append(@, g)]
        /\ jar' = [jar EXCEPT ![req[p].browser] = None]
        /\ req' = [req EXCEPT ![p] = None]
        /\ UNCHANGED <<now, pending, flows, codes, started>>
    OBVIOUS
  <1>3. /\ grants'[f] = <<g>>
        /\ \A h \in Flows : h # f => grants'[h] = grants[h]
    BY <1>1, <1>2 DEF TypeOK
  <1>4. \A q \in Permits : Exchanging(q)' => Exchanging(q) /\ req'[q] = req[q]
                                           /\ req[q].flow # f
    BY <1>1, <1>2 DEF TypeOK, Exchanging, FlowTaken
  <1> HIDE DEF f, Grant, Answer
  <1>5. TypeOK'
    <2>1. Append(grants[f], g) \in Seq(Granted)
      BY <1>1 DEF TypeOK
    <2>2. grants' \in [Flows -> Seq(Granted)]
      BY <1>1, <1>2, <2>1 DEF TypeOK
    <2>3. /\ jar' \in [Browsers -> Flows \cup {None}]
          /\ req' \in [Permits -> StartRequest \cup ExchangeRequest \cup {None}]
      BY <1>2 DEF TypeOK
    <2> QED BY <1>2, <2>2, <2>3 DEF TypeOK
  <1>6. CookieBound'
    BY <1>2 DEF CookieBound, TypeOK
  <1>7. FlowUnused'
    <2>1. flows \in Nat /\ \A h \in DOMAIN pending : h \in Flows /\ h # f
      BY <1>1, ProviderSignInAssumption DEF TypeOK, Flows
    <2>2. \A h \in Flows : h > flows => h # f
      BY <1>1, <2>1
    <2>3. /\ \A h \in DOMAIN pending : grants'[h] = <<>>
          /\ \A h \in Flows : h > flows => grants'[h] = <<>>
      BY <1>3, <2>1, <2>2 DEF FlowUnused
    <2>4. \A h \in DOMAIN pending : pending[h] = started[h].at + FlowLife
      BY DEF FlowUnused
    <2> QED BY <1>2, <2>3, <2>4 DEF FlowUnused
  <1>8. FlowTaken'
    BY <1>2, <1>3, <1>4 DEF FlowTaken, ExchangeRequest
  <1>9. FlowSignsInOnce'
    BY <1>1, <1>2, <1>3 DEF FlowSignsInOnce
  <1> QED BY <1>5, <1>6, <1>7, <1>8, <1>9

\* The invariant is inductive: every state of the table and of the requests
\* around it keeps it.
LEMMA InductiveInvariant == SignInSpec => []SignInInvariant
  <1>1. SignInInvariant /\ [SignInNext]_signInVars => SignInInvariant'
    <2> SUFFICES ASSUME SignInInvariant, [SignInNext]_signInVars
                 PROVE  SignInInvariant'
      OBVIOUS
    <2>1. CASE SignInNext
      BY <2>1, OutsideSteps, BeginStep, CallbackStepKeeps, GrantStep
         DEF SignInNext, Provider
    <2>2. CASE UNCHANGED signInVars
      BY <2>2 DEF signInVars, limited, history, SignInInvariant, TypeOK,
                  CookieBound, FlowUnused, FlowTaken, Exchanging, FlowSignsInOnce
    <2> QED BY <2>1, <2>2
  <1> QED BY <1>1, InitInvariant, PTL DEF SignInSpec

\* However callbacks of any number of browsers race, a pending flow ends in at
\* most one session, for the browser that started it and within its life
\* (oidc.rs callback).
THEOREM FlowsSignInOnce == SignInSpec => []FlowSignsInOnce
  <1>1. SignInInvariant => FlowSignsInOnce
    BY DEF SignInInvariant
  <1> QED BY <1>1, InductiveInvariant, PTL
=============================================================================
