----------------------- MODULE ReviewedOperationsProofs -----------------------
(***************************************************************************)
(* Proofs that ReviewedOperations keeps ApplyOrder, and with it answers    *)
(* honestly and keeps its records; that it implements ReviewedChange; that *)
(* only its owner uses up an approval; and that reviewed changes never     *)
(* overtake each other: for any number of requests, sessions, approvals    *)
(* and resources.                                                          *)
(***************************************************************************)
EXTENDS ReviewedOperationsProperties, TLAPS

\* A server that starts, whatever the broker holds, satisfies the invariant
\* (Init: no reviews, no requests, no records).
LEMMA InitApplyOrder == Init => ApplyOrder
  <1> SUFFICES ASSUME Init PROVE ApplyOrder
    OBVIOUS
  <1> USE DEF Init
  <1>1. TypeOK
    BY ReviewedOperationsAssumption DEF TypeOK, State, Steps
  <1>2. Queue
    BY DEF Queue, NoCircle
  <1>3. \A p \in Procs : Request(p)
    BY DEF Request, Inside, Steps
  <1>4. \A t \in Tokens : Approval(t)
    BY DEF Approval, Untouched
  <1>5. AnswersHonest /\ OutcomeLogged
    BY NoneAssumption DEF AnswersHonest, Honest, OutcomeLogged, Logged, Outcomes
  <1> QED
    BY <1>1, <1>2, <1>3, <1>4, <1>5 DEF ApplyOrder

-----------------------------------------------------------------------------
(* The queue.                                                              *)

\* While one request is served, every other one waits or has ended.
LEMMA Alone ==
  ASSUME TypeOK, Queue,
         NEW p \in Procs, pc[p] # "idle", ahead[p] = {},
         NEW q \in Procs, q # p
  PROVE  pc[q] \in {"idle", "waiting"}
  BY DEF TypeOK, Queue, Inside, Steps

\* Requests that end or get ahead of fewer others close no circle.
LEMMA NoNewCircle ==
  ASSUME NoCircle,
         \A p \in Procs : /\ pc'[p] # "idle" => pc[p] # "idle"
                          /\ ahead'[p] \subseteq ahead[p]
  PROVE  NoCircle'
  <1> SUFFICES ASSUME NEW S \in SUBSET {p \in Procs : pc'[p] # "idle"}, S # {}
               PROVE  \E p \in S : ahead'[p] \cap S = {}
    BY DEF NoCircle
  <1>1. S \in SUBSET {p \in Procs : pc[p] # "idle"}
    OBVIOUS
  <1>2. PICK p \in S : ahead[p] \cap S = {}
    BY <1>1 DEF NoCircle
  <1> QED BY <1>2

\* A request that is served and goes on keeps its place (Step).
LEMMA StepQueue ==
  ASSUME TypeOK, Queue, NEW p \in Procs,
         NEW from \in Steps \ {"idle"}, NEW to \in Inside,
         Step(p, from, to), UNCHANGED ahead
  PROVE  Queue'
  <1>1. NoCircle'
    BY NoNewCircle DEF TypeOK, Queue, Step, Steps
  <1> QED BY <1>1 DEF TypeOK, Queue, Step, Serving, Inside, Steps

\* A request that ends leaves the queue, wherever it stood (Release).
LEMMA ReleaseQueue ==
  ASSUME TypeOK, Queue, NEW p \in Procs, Release(p)
  PROVE  Queue'
  <1>1. NoCircle'
    BY NoNewCircle DEF TypeOK, Queue, Release
  <1> QED BY <1>1 DEF TypeOK, Queue, Release, Inside, Steps

\* A request that arrives queues behind all others: of any it is among, the
\* one that led the others still does.
LEMMA ArriveQueue ==
  ASSUME TypeOK, Queue, NEW p \in Procs, Arrive(p)
  PROVE  Queue'
  <1>1. NoCircle'
    <2> SUFFICES ASSUME NEW S \in SUBSET {q \in Procs : pc'[q] # "idle"}, S # {}
                 PROVE  \E q \in S : ahead'[q] \cap S = {}
      BY DEF NoCircle
    <2>1. /\ pc[p] = "idle" /\ p \notin ahead'[p]
          /\ \A q \in Procs \ {p} : /\ pc'[q] = pc[q] /\ ahead'[q] = ahead[q]
                                    /\ p \notin ahead'[q]
      BY DEF TypeOK, Queue, Arrive
    <2>2. CASE S \ {p} = {}
      BY <2>1, <2>2
    <2>3. CASE S \ {p} # {}
      <3>1. S \ {p} \in SUBSET {q \in Procs : pc[q] # "idle"}
        BY <2>1
      <3>2. PICK q \in S \ {p} : ahead[q] \cap (S \ {p}) = {}
        BY <2>3, <3>1 DEF Queue, NoCircle
      <3> QED BY <2>1, <3>2
    <2> QED BY <2>2, <2>3
  <1> QED BY <1>1 DEF TypeOK, Queue, Arrive, Inside, Steps

-----------------------------------------------------------------------------
(* What each step must show, once for all steps of one shape.              *)

\* Request q takes no part in a step.
Aside(q) ==
    /\ pc'[q] = pc[q]
    /\ asked'[q] = asked[q]
    /\ result'[q] = result[q]
    /\ outcome'[q] = outcome[q]

\* Nothing is stored or answered about approval t.
Quiet(t) ==
    /\ audit'[t] = audit[t]
    /\ sends'[t] = sends[t]
    /\ answers'[t] = answers[t]
    /\ t \in unsaved' <=> t \in unsaved

\* A request that has not taken its approval depends on no other.
LEMMA WaitingAside ==
  ASSUME NEW q \in Procs, Request(q), Aside(q),
         pc[q] \in {"idle", "waiting"}, UNCHANGED review
  PROVE  Request(q)'
  BY DEF Request, Aside, Inside, Token

\* An approval that a step does not concern keeps what is known of it.
LEMMA QuietApproval ==
  ASSUME NEW t \in Tokens, Approval(t), Honest(t), Logged(t), Quiet(t),
         UNCHANGED review,
         t \in pending' => t \in pending,
         t \in wire' => t \in wire,
         t \in effects' <=> t \in effects
  PROVE  Approval(t)' /\ Honest(t)' /\ Logged(t)'
  BY DEF Approval, Honest, Logged, Quiet, Untouched

\* A step of the request that is served, other than its last: it concerns
\* only that request and its own approval, which it leaves unanswered.
LEMMA ServedStep ==
  ASSUME ApplyOrder, TypeOK', NEW p \in Procs,
         NEW from \in Steps \ {"idle"}, NEW to \in Inside, Step(p, from, to),
         UNCHANGED <<ahead, asked, review, effects, answers, unsaved>>,
         pending' \subseteq pending,
         \A q \in Procs \ {p} : Aside(q),
         NEW own \in Tokens, own = Token(p), answers[own] = None,
         \A t \in Tokens \ {own} : Quiet(t) /\ (t \in wire' => t \in wire),
         Request(p)', Approval(own)'
  PROVE  ApplyOrder'
  <1> USE DEF ApplyOrder
  <1>1. Queue'
    BY StepQueue DEF Inside
  <1>2. \A q \in Procs : Request(q)'
    <2> TAKE q \in Procs
    <2>1. CASE q = p
      BY <2>1
    <2>2. CASE q # p
      BY <2>2, Alone, WaitingAside DEF Step, Serving, Inside
    <2> QED
      BY <2>1, <2>2
  <1>3. ASSUME NEW t \in Tokens
        PROVE  Approval(t)' /\ Honest(t)' /\ Logged(t)'
    <2>1. CASE t = own
      BY <2>1, NoneAssumption DEF Honest, Logged, Outcomes
    <2>2. CASE t # own
      BY <2>2, QuietApproval DEF AnswersHonest, OutcomeLogged
    <2> QED
      BY <2>1, <2>2
  <1> QED
    BY <1>1, <1>2, <1>3 DEF AnswersHonest, OutcomeLogged

\* The last step of a request: it gives up its place and may answer and
\* record its own approval, which nobody else holds.
LEMMA EndStep ==
  ASSUME ApplyOrder, TypeOK', NEW p \in Procs, pc[p] \in Inside, Release(p),
         UNCHANGED <<review, pending, wire, effects>>,
         NEW own \in Tokens, own = Token(p),
         \A t \in Tokens \ {own} : Quiet(t),
         Approval(own)', Honest(own)', Logged(own)'
  PROVE  ApplyOrder'
  <1> USE DEF ApplyOrder
  <1>1. Queue'
    BY ReleaseQueue
  <1>2. \A q \in Procs : Request(q)'
    <2> TAKE q \in Procs
    <2>1. CASE q = p
      BY <2>1 DEF Request, Release, TypeOK, Inside
    <2>2. CASE q # p
      <3>1. Aside(q)
        BY <2>2 DEF Aside, Release, TypeOK
      <3>2. ahead[p] = {} /\ pc[p] # "idle"
        BY DEF Queue, Inside
      <3> QED
        BY <2>2, <3>1, <3>2, Alone, WaitingAside
    <2> QED
      BY <2>1, <2>2
  <1>3. ASSUME NEW t \in Tokens
        PROVE  Approval(t)' /\ Honest(t)' /\ Logged(t)'
    <2>1. CASE t = own
      BY <2>1
    <2>2. CASE t # own
      BY <2>2, QuietApproval DEF AnswersHonest, OutcomeLogged
    <2> QED
      BY <2>1, <2>2
  <1> QED
    BY <1>1, <1>2, <1>3 DEF AnswersHonest, OutcomeLogged

-----------------------------------------------------------------------------
(* The steps of apply.                                                     *)

\* A request that has not ended presents a token of a review.
LEMMA Presented ==
  ASSUME ApplyOrder, NEW p \in Procs, pc[p] # "idle"
  PROVE  /\ Token(p) \in Tokens
         /\ Approved(p) \in Review
         /\ asked[p] \in Asked
  BY DEF ApplyOrder, TypeOK, Request, Token, Approved, Asked

\* The approval a request has taken is unanswered and in no table.
LEMMA InHand ==
  ASSUME ApplyOrder, NEW p \in Procs, pc[p] \in Inside
  PROVE  Holding(p, Token(p)) /\ answers[Token(p)] = None
  BY DEF ApplyOrder, Request, Holding

\* Taking the approval removes it from its table.
LEMMA TakeStep ==
  ASSUME ApplyOrder, NEW p \in Procs, NEW own \in Tokens, own = Token(p),
         take(p)
  PROVE  ApplyOrder'
  <1> USE DEF take, Step
  <1>1. own \in pending
    BY DEF Owned
  <1>2. TypeOK'
    BY DEF ApplyOrder, TypeOK, historyVars, brokerVars, Steps
  <1>3. Approval(own) /\ Untouched(own) /\ review[own] # None
    BY <1>1 DEF ApplyOrder, Approval
  <1>4. Approval(own)'
    BY <1>3 DEF Approval, Untouched, historyVars, brokerVars
  <1>5. Request(p)'
    <2>1. own = Token(p)' /\ pc'[p] = "revalidate"
      BY DEF Token, ApplyOrder, TypeOK
    <2>2. Request(p) /\ result[p] = None /\ outcome[p] = None
      BY DEF ApplyOrder, Request
    <2>3. Holding(p, own)'
      BY <1>1, <1>3, <2>1, <2>2, NoneAssumption
         DEF Holding, Untouched, historyVars, brokerVars, Outcomes
    <2> QED
      BY <1>3, <2>1, <2>2, <2>3 DEF Request
  <1>6. /\ \A q \in Procs \ {p} : Aside(q)
        /\ \A t \in Tokens \ {own} : Quiet(t) /\ (t \in wire' => t \in wire)
    BY DEF Aside, Quiet, ApplyOrder, TypeOK, historyVars, brokerVars
  <1>7. "waiting" \in Steps \ {"idle"} /\ "revalidate" \in Inside
    BY DEF Steps, Inside
  <1> QED
    BY <1>2, <1>3, <1>4, <1>5, <1>6, <1>7, ServedStep
       DEF Untouched, historyVars, brokerVars

\* The second read of the resource only moves the request on.
LEMMA RevalidateStep ==
  ASSUME ApplyOrder, NEW p \in Procs, NEW own \in Tokens, own = Token(p),
         Revalidate(p)
  PROVE  ApplyOrder'
  <1> USE DEF Revalidate, Step
  <1>1. pc[p] \in Inside /\ "revalidate" \in Steps \ {"idle"} /\ "audit" \in Inside
    BY DEF Steps, Inside
  <1>2. TypeOK'
    BY DEF ApplyOrder, TypeOK, historyVars, brokerVars, reviewVars, Steps
  <1>3. Approval(own) /\ Holding(p, own) /\ answers[own] = None
    BY <1>1, InHand DEF ApplyOrder
  <1>4. Approval(own)'
    BY <1>3 DEF Approval, Untouched, historyVars, brokerVars, reviewVars
  <1>5. Request(p)'
    <2>1. own = Token(p)' /\ pc'[p] = "audit"
      BY DEF Token, ApplyOrder, TypeOK
    <2>2. Request(p) /\ result[p] = None /\ outcome[p] = None
      BY DEF ApplyOrder, Request
    <2>3. Holding(p, own)'
      BY <1>3, <2>1, <2>2, NoneAssumption
         DEF Holding, Untouched, historyVars, brokerVars, reviewVars, Outcomes
    <2> QED
      BY <1>3, <2>1, <2>2, <2>3 DEF Request, Holding, reviewVars
  <1>6. /\ \A q \in Procs \ {p} : Aside(q)
        /\ \A t \in Tokens \ {own} : Quiet(t) /\ (t \in wire' => t \in wire)
    BY DEF Aside, Quiet, ApplyOrder, TypeOK, historyVars, brokerVars
  <1> QED
    BY <1>1, <1>2, <1>3, <1>4, <1>5, <1>6, ServedStep
       DEF historyVars, brokerVars, reviewVars

\* The attempt is recorded while nothing has been sent.
LEMMA AuditStep ==
  ASSUME ApplyOrder, NEW p \in Procs, NEW own \in Tokens, own = Token(p),
         Audit(p)
  PROVE  ApplyOrder'
  <1> USE DEF Audit, Step
  <1>1. pc[p] \in Inside /\ "audit" \in Steps \ {"idle"} /\ "send" \in Inside
    BY DEF Steps, Inside
  <1>2. TypeOK'
    BY DEF ApplyOrder, TypeOK, historyVars, brokerVars, reviewVars, Steps
  <1>3. Approval(own) /\ Holding(p, own) /\ answers[own] = None /\ Untouched(own)
    BY <1>1, InHand DEF ApplyOrder, Holding
  <1>4. audit'[own] = {"attempt"}
    BY <1>3 DEF Untouched, ApplyOrder, TypeOK
  <1>5. Approval(own)'
    BY <1>3, <1>4
       DEF Approval, Untouched, Holding, historyVars, brokerVars, reviewVars
  <1>6. Request(p)'
    <2>1. own = Token(p)' /\ pc'[p] = "send"
      BY DEF Token, ApplyOrder, TypeOK
    <2>2. Request(p) /\ result[p] = None /\ outcome[p] = None
      BY DEF ApplyOrder, Request
    <2>3. Holding(p, own)'
      BY <1>3, <1>4, <2>1, <2>2, NoneAssumption
         DEF Holding, Untouched, historyVars, brokerVars, reviewVars, Outcomes
    <2> QED
      BY <1>3, <2>1, <2>2, <2>3 DEF Request, Holding, reviewVars
  <1>7. /\ \A q \in Procs \ {p} : Aside(q)
        /\ \A t \in Tokens \ {own} : Quiet(t) /\ (t \in wire' => t \in wire)
    BY DEF Aside, Quiet, ApplyOrder, TypeOK, historyVars, brokerVars
  <1> QED
    BY <1>1, <1>2, <1>3, <1>5, <1>6, <1>7, ServedStep
       DEF historyVars, brokerVars, reviewVars

\* The one request is sent after its attempt was recorded.
LEMMA SendStep ==
  ASSUME ApplyOrder, NEW p \in Procs, NEW own \in Tokens, own = Token(p),
         Send(p)
  PROVE  ApplyOrder'
  <1> USE DEF Send, Step
  <1>1. pc[p] \in Inside /\ "send" \in Steps \ {"idle"} /\ "reply" \in Inside
    BY DEF Steps, Inside
  <1>2. TypeOK'
    BY DEF ApplyOrder, TypeOK, reviewVars, Steps
  <1>3. /\ Approval(own) /\ Holding(p, own) /\ answers[own] = None
        /\ sends[own] = 0 /\ audit[own] = {"attempt"}
    BY <1>1, InHand DEF ApplyOrder, Holding
  <1>4. sends'[own] = 1
    BY <1>3 DEF ApplyOrder, TypeOK
  <1>5. Approval(own)'
    BY <1>3, <1>4 DEF Approval, Untouched, Holding, reviewVars
  <1>6. Request(p)'
    <2>1. own = Token(p)' /\ pc'[p] = "reply"
      BY DEF Token, ApplyOrder, TypeOK
    <2>2. Request(p) /\ result[p] = None /\ outcome[p] = None
      BY DEF ApplyOrder, Request
    <2>3. Holding(p, own)'
      BY <1>3, <2>1, <2>2, NoneAssumption
         DEF Holding, Untouched, reviewVars, Outcomes
    <2> QED
      BY <1>3, <2>1, <2>2, <2>3 DEF Request, Holding, reviewVars
  <1>7. /\ \A q \in Procs \ {p} : Aside(q)
        /\ \A t \in Tokens \ {own} : Quiet(t) /\ (t \in wire' => t \in wire)
    BY DEF Aside, Quiet, ApplyOrder, TypeOK
  <1> QED
    BY <1>1, <1>2, <1>3, <1>5, <1>6, <1>7, ServedStep DEF reviewVars

\* A request that failed, was answered or timed out: an answer that is taken
\* for a success is one of the broker.
LEMMA SettledStep ==
  ASSUME ApplyOrder, NEW p \in Procs, NEW own \in Tokens, own = Token(p),
         NEW from \in {"send", "reply"}, NEW ok \in BOOLEAN,
         Settled(p, from, ok),
         ok => own \in effects \/ Approved(p).kind = "core"
  PROVE  ApplyOrder'
  <1> DEFINE reads == ReadsBack(Approved(p), ok)
             to == IF reads THEN "readback" ELSE "outcome"
  <1>1. /\ pc[p] \in Inside /\ from \in Steps \ {"idle"} /\ to \in Inside
        /\ Step(p, from, to)
    BY DEF Steps, Inside, Settled, Step
  <1>2. TypeOK'
    <2>1. pc' \in [Procs -> Steps]
      BY <1>1 DEF Step, ApplyOrder, TypeOK, Inside
    <2>2. result' \in [Procs -> {"ok", "error", None}]
      BY DEF Settled, ApplyOrder, TypeOK
    <2>3. outcome' \in [Procs -> Outcomes \cup {None}]
      BY DEF Settled, ApplyOrder, TypeOK, Outcomes
    <2> QED
      BY <2>1, <2>2, <2>3
         DEF Settled, ApplyOrder, TypeOK, historyVars, brokerVars, reviewVars
  <1>3. /\ Approval(own) /\ Holding(p, own) /\ answers[own] = None
        /\ audit[own] = {"attempt"} /\ review[own] # None /\ own \notin pending
        /\ own \notin unsaved
    BY <1>1, InHand DEF ApplyOrder, Holding, Step
  <1>4. Approval(own)'
    BY <1>3 DEF Approval, Untouched, Settled, historyVars, brokerVars, reviewVars
  <1>5. Request(p)'
    <2>1. /\ own = Token(p)' /\ pc'[p] = to
          /\ asked'[p] = asked[p] /\ asked[p] # None
      BY <1>1 DEF Token, ApplyOrder, TypeOK, Settled, Step, Request, Inside
    <2>2. CASE reads
      <3>1. /\ pc'[p] = "readback" /\ result'[p] = (IF ok THEN "ok" ELSE "error")
            /\ outcome'[p] = None
        BY <2>1, <2>2 DEF Settled, ApplyOrder, TypeOK
      <3>2. Approved(p) = review[own]
        BY DEF Approved
      <3>3. /\ review[own].kind # "core"
            /\ ~ok => review[own].kind = "update"
        BY <2>2, <3>2 DEF ReadsBack
      <3>4. Holding(p, own)'
        BY <1>3, <3>1, <3>2, <3>3, NoneAssumption
           DEF Holding, Settled, historyVars, brokerVars, reviewVars, Outcomes
      <3> QED
        BY <1>3, <2>1, <3>1, <3>4 DEF Request, Settled, reviewVars
    <2>3. CASE ~reads
      <3>1. pc'[p] = "outcome" /\ result'[p] = None
        BY <2>1, <2>3 DEF Settled, ApplyOrder, TypeOK
      <3>2. /\ outcome'[p] \in Outcomes
            /\ outcome'[p] # "uncertain" => ok /\ Approved(p).kind # "core"
        BY <2>3 DEF Settled, ApplyOrder, TypeOK, Outcomes
      <3>3. Holding(p, own)'
        BY <1>3, <3>1, <3>2, NoneAssumption
           DEF Holding, Settled, historyVars, brokerVars, reviewVars, Outcomes
      <3> QED
        BY <1>3, <2>1, <3>1, <3>2, <3>3, NoneAssumption
           DEF Request, Settled, reviewVars
    <2> QED
      BY <2>2, <2>3
  <1>6. /\ \A q \in Procs \ {p} : Aside(q)
        /\ \A t \in Tokens \ {own} : Quiet(t) /\ (t \in wire' => t \in wire)
    BY DEF Aside, Quiet, ApplyOrder, TypeOK, historyVars, brokerVars, Settled, Step
  <1> QED
    <2> HIDE DEF reads, to
    <2> QED
      BY <1>1, <1>2, <1>3, <1>4, <1>5, <1>6, ServedStep
         DEF historyVars, brokerVars, reviewVars, Settled

\* The four ways a request is settled are such steps: only ReceiveReply takes
\* an answer for a success, and the broker gives it with the execution.
LEMMA SettledSteps ==
  ASSUME ApplyOrder, NEW p \in Procs, NEW own \in Tokens, own = Token(p),
         SendFails(p) \/ ReceiveReply(p) \/ Flushed(p) \/ Timeout(p)
  PROVE  ApplyOrder'
  <1>1. CASE SendFails(p)
    BY <1>1, SettledStep DEF SendFails
  <1>2. CASE ReceiveReply(p)
    <2>1. pc[p] \in Inside
      BY <1>2 DEF ReceiveReply, Inside, Steps
    <2>2. result[p] = "ok" => own \in effects
      BY <2>1, InHand DEF Holding
    <2> QED
      BY <1>2, <2>2, SettledStep DEF ReceiveReply
  <1>3. CASE Flushed(p)
    BY <1>3, SettledStep DEF Flushed
  <1>4. CASE Timeout(p)
    BY <1>4, SettledStep DEF Timeout
  <1> QED
    BY <1>1, <1>2, <1>3, <1>4

\* The read that follows the request calls a change accepted only when the
\* broker said so, and anything but a setting verified only then.
LEMMA ReadbackStep ==
  ASSUME ApplyOrder, NEW p \in Procs, NEW own \in Tokens, own = Token(p),
         Readback(p)
  PROVE  ApplyOrder'
  <1>1. /\ pc[p] = "readback" /\ pc[p] \in Inside
        /\ "readback" \in Steps \ {"idle"} /\ "outcome" \in Inside
        /\ Step(p, "readback", "outcome")
    BY DEF Steps, Inside, Readback, Step
  <1>2. TypeOK'
    BY DEF ApplyOrder, TypeOK, historyVars, brokerVars, reviewVars, Steps,
           Readback, Step, Outcomes
  <1>3. /\ Approval(own) /\ Holding(p, own) /\ answers[own] = None
        /\ audit[own] = {"attempt"} /\ review[own] # None /\ own \notin pending
        /\ own \notin unsaved
        /\ result[p] = "ok" => own \in effects
        /\ result[p] # "ok" => review[own].kind = "update"
    BY <1>1, InHand DEF ApplyOrder, Holding
  <1>4. Approval(own)'
    BY <1>3 DEF Approval, Untouched, Readback, historyVars, brokerVars, reviewVars
  <1>5. Request(p)'
    <2>1. /\ own = Token(p)' /\ pc'[p] = "outcome" /\ result'[p] = None
          /\ asked'[p] = asked[p] /\ asked[p] # None
      BY <1>1 DEF Token, ApplyOrder, TypeOK, Readback, Step, Request
    <2>2. /\ outcome'[p] \in Outcomes
          /\ outcome'[p] = "accepted" => result[p] = "ok"
      BY DEF Readback, ApplyOrder, TypeOK, Outcomes
    <2>3. Holding(p, own)'
      BY <1>3, <2>1, <2>2, NoneAssumption
         DEF Holding, Readback, historyVars, brokerVars, reviewVars, Outcomes
    <2> QED
      BY <1>3, <2>1, <2>2, <2>3, NoneAssumption DEF Request, Readback, reviewVars
  <1>6. /\ \A q \in Procs \ {p} : Aside(q)
        /\ \A t \in Tokens \ {own} : Quiet(t) /\ (t \in wire' => t \in wire)
    BY DEF Aside, Quiet, ApplyOrder, TypeOK, historyVars, brokerVars, Readback,
           Step
  <1> QED
    BY <1>1, <1>2, <1>3, <1>4, <1>5, <1>6, ServedStep
       DEF historyVars, brokerVars, reviewVars, Readback

\* The types of a request that has ended.
LEMMA ReleaseType ==
  ASSUME TypeOK, NEW p \in Procs, Release(p)
  PROVE  /\ ahead' \in [Procs -> SUBSET Procs]
         /\ pc' \in [Procs -> Steps]
         /\ asked' \in [Procs -> Asked \cup {None}]
         /\ result' \in [Procs -> {"ok", "error", None}]
         /\ outcome' \in [Procs -> Outcomes \cup {None}]
  BY DEF TypeOK, Release, Steps

\* A request that was refused before it sent anything.
LEMMA RefusedSteps ==
  ASSUME ApplyOrder, NEW p \in Procs, NEW own \in Tokens, own = Token(p),
         RevalidateRefused(p) \/ AuditFails(p)
  PROVE  ApplyOrder'
  <1>1. pc[p] \in {"revalidate", "audit"} /\ pc[p] \in Inside
    BY DEF RevalidateRefused, AuditFails, Inside, Steps
  <1>2. Refuse(p) /\ Release(p) /\ UNCHANGED <<reviewVars, brokerVars, audit, sends, unsaved>>
    BY DEF RevalidateRefused, AuditFails, Refuse
  <1>3. answers' = [answers EXCEPT ![own] = "refused"]
    BY <1>2 DEF Refuse
  <1>4. TypeOK'
    <2>1. TypeOK
      BY DEF ApplyOrder
    <2> QED
      BY <1>2, <1>3, <2>1, ReleaseType DEF TypeOK, reviewVars, brokerVars
  <1>5. /\ Approval(own) /\ Untouched(own) /\ review[own] # None
        /\ own \notin pending
    BY <1>1, InHand DEF ApplyOrder, Holding
  <1>6. Approval(own)' /\ Honest(own)' /\ Logged(own)'
    BY <1>2, <1>3, <1>5
       DEF Approval, Honest, Logged, Untouched, reviewVars, brokerVars,
           ApplyOrder, TypeOK
  <1>7. \A t \in Tokens \ {own} : Quiet(t)
    BY <1>2, <1>3 DEF Quiet, ApplyOrder, TypeOK
  <1> QED
    BY <1>1, <1>2, <1>4, <1>6, <1>7, EndStep DEF reviewVars, brokerVars

\* The outcome is recorded, or cannot be, and the request is answered.
LEMMA RecordSteps ==
  ASSUME ApplyOrder, NEW p \in Procs, NEW own \in Tokens, own = Token(p),
         RecordOutcome(p) \/ RecordFails(p)
  PROVE  ApplyOrder'
  <1>1. pc[p] = "outcome" /\ pc[p] \in Inside
    BY DEF RecordOutcome, RecordFails, Inside, Steps
  <1>2. /\ Release(p) /\ UNCHANGED <<reviewVars, brokerVars, sends>>
        /\ answers' = [answers EXCEPT ![own] = outcome[p]]
    BY DEF RecordOutcome, RecordFails
  <1>3. \/ /\ audit' = [audit EXCEPT ![own] = @ \cup {outcome[p]}]
           /\ unsaved' = unsaved
        \/ audit' = audit /\ unsaved' = unsaved \cup {own}
    BY DEF RecordOutcome, RecordFails
  <1>4. /\ Approval(own) /\ Holding(p, own) /\ outcome[p] \in Outcomes
        /\ review[own] # None /\ own \notin pending /\ audit[own] = {"attempt"}
    BY <1>1, InHand DEF ApplyOrder, Holding, Request, TypeOK
  <1>5. TypeOK'
    <2>1. TypeOK
      BY DEF ApplyOrder
    <2>2. /\ audit' \in [Tokens -> SUBSET (Outcomes \cup {"attempt"})]
          /\ unsaved' \in SUBSET Tokens
      BY <1>3, <1>4, <2>1 DEF TypeOK
    <2>3. answers' \in [Tokens -> Outcomes \cup
                           {"refused", "dropped", "stopped", None}]
      BY <1>2, <1>4, <2>1 DEF TypeOK
    <2> QED
      BY <1>2, <2>1, <2>2, <2>3, ReleaseType DEF TypeOK, reviewVars, brokerVars
  <1>6. answers'[own] = outcome[p]
    BY <1>2 DEF ApplyOrder, TypeOK
  <1>7. \/ audit'[own] = {"attempt", outcome[p]}
        \/ audit'[own] = {"attempt"} /\ own \in unsaved'
    BY <1>3, <1>4 DEF ApplyOrder, TypeOK
  <1>8. Approval(own)' /\ Honest(own)' /\ Logged(own)'
    <2>1. Approval(own)'
      BY <1>2, <1>4, <1>7 DEF Approval, reviewVars, brokerVars
    <2>2. Honest(own)'
      BY <1>2, <1>4, <1>6 DEF Honest, Holding, Outcomes, reviewVars, brokerVars
    <2>3. Logged(own)'
      BY <1>6, <1>7 DEF Logged
    <2> QED
      BY <2>1, <2>2, <2>3
  <1>9. \A t \in Tokens \ {own} : Quiet(t)
    BY <1>2, <1>3 DEF Quiet, ApplyOrder, TypeOK
  <1> QED
    BY <1>1, <1>2, <1>5, <1>8, <1>9, EndStep DEF reviewVars, brokerVars

\* A request that ends while it waits touches no approval.
LEMMA LeaveStep ==
  ASSUME ApplyOrder, NEW p \in Procs, Release(p),
         UNCHANGED <<reviewVars, brokerVars, audit, historyVars>>
  PROVE  ApplyOrder'
  <1> USE DEF ApplyOrder
  <1>1. TypeOK'
    BY ReleaseType DEF TypeOK, reviewVars, brokerVars, historyVars
  <1>2. Queue'
    BY ReleaseQueue
  <1>3. ASSUME NEW q \in Procs
        PROVE  Request(q)'
    <2>1. CASE q = p
      BY <2>1 DEF Request, Release, TypeOK, Inside
    <2>2. CASE q # p
      BY <2>2 DEF Request, Release, TypeOK, Token, Holding, Untouched,
                  reviewVars, brokerVars, historyVars
    <2> QED
      BY <2>1, <2>2
  <1>4. ASSUME NEW t \in Tokens
        PROVE  Approval(t)' /\ Honest(t)' /\ Logged(t)'
    BY QuietApproval
       DEF Quiet, reviewVars, brokerVars, historyVars, AnswersHonest, OutcomeLogged
  <1> QED
    BY <1>1, <1>2, <1>3, <1>4 DEF AnswersHonest, OutcomeLogged

\* A dropped handler leaves its place, and at most the record it had already
\* handed to the database.
LEMMA DisconnectStep ==
  ASSUME ApplyOrder, NEW p \in Procs, NEW own \in Tokens, own = Token(p),
         Disconnect(p)
  PROVE  ApplyOrder'
  <1>1. Release(p) /\ UNCHANGED <<reviewVars, brokerVars, sends, unsaved>>
    BY DEF Disconnect
  <1>2. CASE pc[p] = "waiting"
    BY <1>1, <1>2, LeaveStep DEF Disconnect, historyVars
  <1>3. CASE pc[p] # "waiting"
    <2>1. pc[p] \in Inside
      BY <1>3 DEF Disconnect, Inside, Steps, ApplyOrder, TypeOK
    <2>2. answers' = [answers EXCEPT ![own] = "dropped"]
      BY <1>3 DEF Disconnect
    <2>3. \/ audit' = audit
          \/ pc[p] = "audit" /\ audit' = [audit EXCEPT ![own] = @ \cup {"attempt"}]
          \/ pc[p] = "outcome" /\ audit' = [audit EXCEPT ![own] = @ \cup {outcome[p]}]
      BY DEF Disconnect
    <2>4. /\ Approval(own) /\ Holding(p, own) /\ review[own] # None
          /\ own \notin pending
          /\ pc[p] = "outcome" => outcome[p] \in Outcomes
      BY <2>1, InHand DEF ApplyOrder, Holding, Request, TypeOK
    <2>5. TypeOK'
      <3>1. TypeOK
        BY DEF ApplyOrder
      <3>2. audit' \in [Tokens -> SUBSET (Outcomes \cup {"attempt"})]
        BY <2>3, <2>4, <3>1 DEF TypeOK
      <3>3. answers' \in [Tokens -> Outcomes \cup
                             {"refused", "dropped", "stopped", None}]
        BY <2>2, <3>1 DEF TypeOK
      <3> QED
        BY <1>1, <3>1, <3>2, <3>3, ReleaseType DEF TypeOK, reviewVars, brokerVars
    <2>6. answers'[own] = "dropped" /\ audit[own] \subseteq audit'[own]
      BY <2>2, <2>3 DEF ApplyOrder, TypeOK
    <2>7. Approval(own)' /\ Honest(own)' /\ Logged(own)'
      BY <1>1, <2>4, <2>6
         DEF Approval, Honest, Logged, reviewVars, brokerVars, Outcomes
    <2>8. \A t \in Tokens \ {own} : Quiet(t)
      BY <1>1, <2>2, <2>3 DEF Quiet, ApplyOrder, TypeOK
    <2> QED
      BY <1>1, <2>1, <2>5, <2>7, <2>8, EndStep DEF reviewVars, brokerVars
  <1> QED
    BY <1>2, <1>3

-----------------------------------------------------------------------------
(* Reviews, arrivals, the broker and restarts.                             *)

\* A request that arrives presents a token of some review and takes nothing.
LEMMA ArriveStep ==
  ASSUME ApplyOrder, NEW p \in Procs, Arrive(p)
  PROVE  ApplyOrder'
  <1> USE DEF ApplyOrder
  <1>1. TypeOK'
    BY DEF TypeOK, Arrive, Steps, Asked, reviewVars, brokerVars, historyVars
  <1>2. Queue'
    BY ArriveQueue
  <1>3. ASSUME NEW q \in Procs
        PROVE  Request(q)'
    <2>1. CASE q = p
      <3>1. /\ pc'[p] = "waiting" /\ asked'[p] \in Asked
            /\ review[asked'[p].token] # None
            /\ result'[p] = None /\ outcome'[p] = None
        BY DEF Arrive, TypeOK, Request, Asked
      <3> QED
        BY <2>1, <3>1, NoneAssumption DEF Request, Inside, Arrive, Token, reviewVars
    <2>2. CASE q # p
      BY <2>2 DEF Request, Arrive, TypeOK, Token, Holding, Untouched,
                  reviewVars, brokerVars, historyVars
    <2> QED
      BY <2>1, <2>2
  <1>4. ASSUME NEW t \in Tokens
        PROVE  Approval(t)' /\ Honest(t)' /\ Logged(t)'
    BY QuietApproval
       DEF Arrive, Quiet, reviewVars, brokerVars, historyVars, AnswersHonest,
           OutcomeLogged
  <1> QED
    BY <1>1, <1>2, <1>3, <1>4 DEF AnswersHonest, OutcomeLogged

\* A preview stores a well-formed approval under a token that nobody has
\* used (Reviews::insert).
LEMMA PreviewInserts ==
  ASSUME TypeOK, preview
  PROVE  \E n \in Tokens, v \in Review :
            /\ review[n] = None
            /\ review' = [review EXCEPT ![n] = v]
            /\ pending' = pending \cup {n}
  <1>1. PICK t \in Tokens, kind \in Kinds, o \in Owners, r \in Resources,
             c \in Configs \cup {None} :
          /\ review[t] = None
          /\ c # None <=> kind \in Configured
          /\ kind = "create" => resource[r] = None
          /\ kind \notin {"create"} \cup Publications => resource[r] # None
          /\ Cardinality(Stored(Table(kind))) < MaxReviews
          /\ review' = [review EXCEPT ![t] =
               [kind |-> kind, owner |-> o, resource |-> r, config |-> c,
                revision |-> IF kind \in Publications THEN None
                              ELSE Revision(r)]]
          /\ pending' = pending \cup {t}
    BY DEF preview
  <1>2. (IF kind \in Publications THEN None ELSE Revision(r))
           \in State \cup {None}
    <2>1. Revision(r) \in State \cup {None}
      BY DEF Revision, TypeOK
    <2> QED BY <2>1
  <1>3. kind \in AllKinds
    BY ReviewedOperationsAssumption
  <1>4. [kind |-> kind, owner |-> o, resource |-> r, config |-> c,
         revision |-> IF kind \in Publications THEN None ELSE Revision(r)]
           \in Review
    BY <1>1, <1>2, <1>3 DEF Review
  <1> QED
    BY <1>1, <1>4

\* A stored approval comes with nothing sent, answered or recorded.
LEMMA PreviewStep ==
  ASSUME ApplyOrder, preview
  PROVE  ApplyOrder'
  <1> USE DEF ApplyOrder
  <1>1. PICK n \in Tokens, v \in Review :
           /\ review[n] = None
           /\ review' = [review EXCEPT ![n] = v]
           /\ pending' = pending \cup {n}
    BY PreviewInserts
  <1>2. UNCHANGED <<brokerVars, procVars, audit, historyVars>>
    BY DEF preview
  <1>3. v # None /\ review'[n] = v /\ \A t \in Tokens \ {n} : review'[t] = review[t]
    BY <1>1, NoneAssumption DEF TypeOK
  <1>4. TypeOK'
    BY <1>1, <1>2 DEF TypeOK, brokerVars, procVars, historyVars
  <1>5. Queue'
    BY <1>2 DEF Queue, NoCircle, procVars
  <1>6. ASSUME NEW q \in Procs
        PROVE  Request(q)'
    <2>1. pc[q] # "idle" => Token(q) \in Tokens /\ Token(q) # n
      BY <1>1, Presented DEF Request
    <2> QED
      BY <1>1, <1>2, <1>3, <2>1
         DEF Request, Token, Holding, Untouched, Inside, brokerVars, procVars,
             historyVars
  <1>7. ASSUME NEW t \in Tokens
        PROVE  Approval(t)' /\ Honest(t)' /\ Logged(t)'
    <2>1. Approval(t) /\ Honest(t) /\ Logged(t)
      BY DEF AnswersHonest, OutcomeLogged
    <2>2. CASE t = n
      <3>1. /\ audit[n] = {} /\ sends[n] = 0 /\ answers[n] = None
            /\ n \notin unsaved
        BY <1>1, <2>1, <2>2 DEF Approval, Untouched
      <3>2. /\ audit'[n] = {} /\ sends'[n] = 0 /\ answers'[n] = None
            /\ n \notin unsaved'
        BY <1>2, <3>1 DEF historyVars
      <3>3. n \notin wire' /\ n \notin effects'
        BY <1>2, <2>1, <2>2, <3>1 DEF Approval, brokerVars
      <3>4. Approval(n)'
        BY <1>3, <3>2, <3>3 DEF Approval, Untouched
      <3>5. Honest(n)' /\ Logged(n)'
        BY <3>2, NoneAssumption DEF Honest, Logged, Outcomes
      <3> QED
        BY <2>2, <3>4, <3>5
    <2>3. CASE t # n
      BY <1>1, <1>2, <1>3, <2>1, <2>3
         DEF Approval, Honest, Logged, Untouched, brokerVars, historyVars
    <2> QED
      BY <2>2, <2>3
  <1> QED
    BY <1>4, <1>5, <1>6, <1>7 DEF AnswersHonest, OutcomeLogged

\* An expired approval has only left its table.
LEMMA ExpireStep ==
  ASSUME ApplyOrder, NEW n \in Tokens, Expire(n)
  PROVE  ApplyOrder'
  <1> USE DEF ApplyOrder, Expire
  <1>1. TypeOK' /\ Queue'
    BY DEF TypeOK, Queue, NoCircle, brokerVars, procVars, historyVars
  <1>2. ASSUME NEW q \in Procs
        PROVE  Request(q)'
    BY DEF Request, Token, Holding, Untouched, Inside, brokerVars, procVars,
           historyVars
  <1>3. ASSUME NEW t \in Tokens
        PROVE  Approval(t)' /\ Honest(t)' /\ Logged(t)'
    BY QuietApproval
       DEF Quiet, brokerVars, historyVars, AnswersHonest, OutcomeLogged
  <1> QED
    BY <1>1, <1>2, <1>3 DEF AnswersHonest, OutcomeLogged

\* A step of the broker: it may execute requests that were sent, and answers
\* those who still wait for them.
LEMMA BrokerStep ==
  ASSUME ApplyOrder, TypeOK',
         UNCHANGED <<reviewVars, ahead, pc, asked, outcome, audit, historyVars>>,
         wire' \subseteq wire, effects \subseteq effects',
         effects' \subseteq effects \cup (wire \ wire'),
         \A q \in Procs :
            \/ result'[q] = result[q]
            \/ pc[q] = "reply" /\ (result'[q] = "ok" => Token(q) \in effects')
  PROVE  ApplyOrder'
  <1> USE DEF ApplyOrder
  <1>1. Queue'
    BY DEF Queue, NoCircle
  <1>2. ASSUME NEW q \in Procs
        PROVE  Request(q)'
    BY DEF Request, Token, Holding, Untouched, Inside, reviewVars, historyVars
  <1>3. ASSUME NEW t \in Tokens
        PROVE  Approval(t)' /\ Honest(t)' /\ Logged(t)'
    BY DEF Approval, Honest, Logged, Untouched, reviewVars, historyVars,
           AnswersHonest, OutcomeLogged
  <1> QED
    BY <1>1, <1>2, <1>3 DEF AnswersHonest, OutcomeLogged

\* An execution leaves the resource with a creation and a configuration, or
\* removes it.
LEMMA AfterType ==
  ASSUME ApplyOrder, NEW n \in Tokens, n \in wire, Executable(review[n])
  PROVE  review[n] \in Review /\ After(review[n]) \in State \cup {None}
  <1>1. review[n] \in Review
    BY DEF ApplyOrder, TypeOK, Approval, Untouched
  <1>2. PICK v \in Review : v = review[n]
    BY <1>1
  <1>3. /\ resource[v.resource] \in State \cup {None}
        /\ creations + 1 \in Nat
        /\ v.kind \in AllKinds
        /\ v.kind \in Configured => v.config \in Configs
    BY DEF ApplyOrder, TypeOK, Review
  <1>4. CASE v.kind = "create" /\ resource[v.resource] = None
    <2>1. After(v) = [created |-> creations + 1, config |-> v.config]
      BY <1>4 DEF After
    <2> QED
      BY <1>2, <1>3, <1>4, <2>1 DEF State, Configured
  <1>5. CASE v.kind \in {"update", "pause"}
    <2>1. resource[v.resource] \in State
      BY <1>2, <1>3, <1>5 DEF Executable, Publications
    <2>2. After(v) = [resource[v.resource] EXCEPT !.config = v.config]
      BY <1>5 DEF After
    <2> QED
      BY <1>2, <1>3, <1>5, <2>1, <2>2 DEF State, Configured
  <1>6. CASE v.kind = "delete"
    BY <1>2, <1>6 DEF After
  <1>7. CASE /\ v.kind \notin {"update", "pause", "delete"}
             /\ v.kind = "create" => resource[v.resource] # None
    <2>1. After(v) = resource[v.resource]
      BY <1>7 DEF After
    <2> QED
      BY <1>2, <1>3, <2>1
  <1> QED
    BY <1>1, <1>4, <1>5, <1>6, <1>7

\* The broker executes a request: its effect is there before its answer.
LEMMA ExecuteStep ==
  ASSUME ApplyOrder, NEW n \in Tokens, Execute(n)
  PROVE  ApplyOrder'
  <1>1. review[n] \in Review /\ After(review[n]) \in State \cup {None}
    BY AfterType DEF Execute
  <1>2. TypeOK'
    <2>1. /\ resource' \in [Resources -> State \cup {None}]
          /\ changed_by' \in [Resources -> {"outsider", "request", "late"}]
      BY <1>1 DEF Execute, ApplyOrder, TypeOK, Review
    <2>2. creations' \in Nat
      BY DEF Execute, ApplyOrder, TypeOK
    <2>3. result' \in [Procs -> {"ok", "error", None}]
      BY DEF Execute, Answer, ApplyOrder, TypeOK
    <2> QED
      BY <2>1, <2>2, <2>3
         DEF Execute, ApplyOrder, TypeOK, reviewVars, historyVars
  <1>3. \A q \in Procs :
           \/ result'[q] = result[q]
           \/ pc[q] = "reply" /\ (result'[q] = "ok" => Token(q) \in effects')
    BY DEF Execute, Answer, Awaiting
  <1> QED
    BY <1>2, <1>3, BrokerStep DEF Execute

\* A rejected or lost request has no effect, and its answer is no success.
LEMMA RejectStep ==
  ASSUME ApplyOrder, NEW n \in Tokens, Reject(n)
  PROVE  ApplyOrder'
  <1>1. PICK answer \in {"error", None} : Answer(n, answer)
    BY DEF Reject
  <1>2. TypeOK'
    BY <1>1 DEF Reject, Answer, ApplyOrder, TypeOK, reviewVars, historyVars
  <1>3. \A q \in Procs :
           \/ result'[q] = result[q]
           \/ pc[q] = "reply" /\ (result'[q] = "ok" => Token(q) \in effects')
    BY <1>1, NoneAssumption DEF Answer, Awaiting
  <1> QED
    BY <1>2, <1>3, BrokerStep DEF Reject

\* Other clients change resources and nothing else.
LEMMA OutsiderStep ==
  ASSUME ApplyOrder, NEW r \in Resources, Outsider(r)
  PROVE  ApplyOrder'
  <1>1. /\ resource' \in [Resources -> State \cup {None}]
        /\ creations' \in Nat
    <2>1. TypeOK
      BY DEF ApplyOrder
    <2>2. CASE /\ creations' = creations + 1
               /\ \E c \in Configs :
                    resource' = [resource EXCEPT ![r] =
                                   [created |-> creations + 1, config |-> c]]
      BY <2>1, <2>2 DEF TypeOK, State
    <2>3. CASE /\ resource[r] # None /\ UNCHANGED creations
               /\ \E c \in Configs \ {resource[r].config} :
                    resource' = [resource EXCEPT ![r].config = c]
      BY <2>1, <2>3 DEF TypeOK, State
    <2>4. CASE resource' = [resource EXCEPT ![r] = None] /\ UNCHANGED creations
      BY <2>1, <2>4 DEF TypeOK
    <2> QED
      BY <2>2, <2>3, <2>4 DEF Outsider
  <1>2. TypeOK'
    BY <1>1 DEF Outsider, ApplyOrder, TypeOK, reviewVars, procVars, historyVars
  <1> QED
    BY <1>2, BrokerStep DEF Outsider, reviewVars, procVars, historyVars

\* A restart ends every request and forgets every review; it answers nobody.
LEMMA RestartStep ==
  ASSUME ApplyOrder, Restart
  PROVE  ApplyOrder'
  <1> USE DEF ApplyOrder, Restart
  <1>1. TypeOK'
    BY DEF TypeOK, Steps, brokerVars
  <1>2. Queue'
    BY DEF Queue, NoCircle, Inside
  <1>3. ASSUME NEW q \in Procs
        PROVE  Request(q)'
    BY DEF Request, Inside
  <1>4. ASSUME NEW t \in Tokens
        PROVE  Approval(t)' /\ Honest(t)' /\ Logged(t)'
    <2>1. Approval(t) /\ Honest(t) /\ Logged(t)
      BY DEF AnswersHonest, OutcomeLogged
    <2>2. answers'[t] = answers[t] \/ answers'[t] = "stopped"
      OBVIOUS
    <2>3. review[t] = None => answers'[t] = answers[t]
      BY DEF Request, Working, Steps, Inside, TypeOK, Token
    <2> QED
      BY <2>1, <2>2, <2>3
         DEF Approval, Honest, Logged, Untouched, brokerVars, Outcomes
  <1> QED
    BY <1>1, <1>2, <1>3, <1>4 DEF AnswersHonest, OutcomeLogged

-----------------------------------------------------------------------------
(* The theorems.                                                           *)

\* A step of apply is one of the request that is served, and moves no other.
LEMMA ProceedServed ==
  ASSUME NEW p \in Procs, Proceed(p)
  PROVE  /\ pc[p] # "idle" /\ Serving(p)
         /\ \E phase : pc' = [pc EXCEPT ![p] = phase]
         /\ UNCHANGED <<resource, changed_by, review>>
  <1>1. CASE take(p) \/ Revalidate(p) \/ Audit(p) \/ Send(p) \/ Readback(p)
    BY <1>1 DEF take, Revalidate, Audit, Send, Readback, Step, reviewVars,
                brokerVars
  <1>2. CASE \/ TakeRejected(p) \/ RevalidateRefused(p) \/ AuditFails(p)
             \/ RecordOutcome(p) \/ RecordFails(p)
    BY <1>2 DEF TakeRejected, RevalidateRefused, AuditFails, Refuse,
                RecordOutcome, RecordFails, Release, reviewVars, brokerVars
  <1>3. CASE SendFails(p) \/ ReceiveReply(p) \/ Flushed(p) \/ Timeout(p)
    <2>1. \E from \in {"send", "reply"}, ok \in BOOLEAN : Settled(p, from, ok)
      BY <1>3 DEF SendFails, ReceiveReply, Flushed, Timeout
    <2> QED
      BY <2>1 DEF Settled, Step, reviewVars, brokerVars
  <1> QED
    BY <1>1, <1>2, <1>3 DEF Proceed

\* Every step of apply preserves the invariant.
LEMMA ProceedApplyOrder ==
  ASSUME ApplyOrder, NEW p \in Procs, Proceed(p)
  PROVE  ApplyOrder'
  <1>1. pc[p] # "idle"
    BY ProceedServed
  <1>2. PICK own \in Tokens : own = Token(p)
    BY <1>1, Presented
  <1>3. CASE TakeRejected(p)
    BY <1>3, LeaveStep DEF TakeRejected
  <1> QED
    BY <1>2, <1>3, TakeStep, RevalidateStep, RefusedSteps, AuditStep, SendStep,
       SettledSteps, ReadbackStep, RecordSteps DEF Proceed

\* Every step of the server, the broker and other clients preserves the
\* invariant.
LEMMA NextApplyOrder ==
  ASSUME ApplyOrder, [Next]_vars
  PROVE  ApplyOrder'
  <1>1. ASSUME NEW p \in Procs, Disconnect(p)
        PROVE  ApplyOrder'
    <2>1. PICK own \in Tokens : own = Token(p)
      BY <1>1, Presented DEF Disconnect
    <2> QED
      BY <1>1, <2>1, DisconnectStep
  <1>2. CASE UNCHANGED vars
    <2>1. TypeOK'
      BY <1>2 DEF ApplyOrder, TypeOK, vars
    <2> QED
      BY <1>2, <2>1, BrokerStep DEF vars, reviewVars, historyVars
  <1> QED
    BY <1>1, <1>2, PreviewStep, ArriveStep, ProceedApplyOrder, ExpireStep,
       ExecuteStep, RejectStep, OutsiderStep, RestartStep DEF Next

\* One change at a time and each approval at most once, for any number of
\* requests, sessions, approvals and resources (reviews.rs take, editing.rs
\* and operations.rs apply).
THEOREM ApplyOrderHolds == Spec => []ApplyOrder
  <1>1. Init => ApplyOrder
    BY InitApplyOrder
  <1>2. ApplyOrder /\ [Next]_vars => ApplyOrder'
    BY NextApplyOrder
  <1> QED
    BY <1>1, <1>2, PTL DEF Spec

\* While applies are under way one of them is served, through answers,
\* refusals, disconnects and restarts: the mutation mutex is never held by an
\* apply that has gone, nor waited for in a circle (editing.rs apply,
\* operations.rs apply).
THEOREM ApplyQueueMoves == Spec => []QueueMoves
  <1>1. ApplyOrder => QueueMoves
    <2> SUFFICES ASSUME ApplyOrder, NEW q \in Procs, pc[q] # "idle"
                 PROVE  \E p \in Procs : pc[p] # "idle" /\ Serving(p)
      BY DEF QueueMoves
    <2> DEFINE S == {p \in Procs : pc[p] # "idle"}
    <2>1. PICK p \in S : ahead[p] \cap S = {}
      <3>1. S # {} /\ S \in SUBSET S
        OBVIOUS
      <3> QED BY <3>1 DEF ApplyOrder, Queue, NoCircle
    <2>2. ahead[p] \subseteq S
      BY DEF ApplyOrder, Queue
    <2> QED BY <2>1, <2>2 DEF Serving
  <1> QED
    BY <1>1, ApplyOrderHolds, PTL

\* What an answer says happened did happen: a refused change was not sent, an
\* accepted one was executed.
THEOREM AnswersAreHonest == Spec => []AnswersHonest
  <1>1. ApplyOrder => AnswersHonest
    BY DEF ApplyOrder
  <1> QED
    BY <1>1, ApplyOrderHolds, PTL

\* An answered change that was recorded as an attempt has its outcome on
\* record, unless it could not be stored.
THEOREM OutcomesAreLogged == Spec => []OutcomeLogged
  <1>1. ApplyOrder => OutcomeLogged
    BY DEF ApplyOrder
  <1> QED
    BY <1>1, ApplyOrderHolds, PTL

-----------------------------------------------------------------------------
(* The stage of an approval.                                               *)

\* An approval whose facts a step leaves alone.
SameFacts(t) ==
    /\ review'[t] = review[t]
    /\ t \in pending' <=> t \in pending
    /\ "attempt" \in audit'[t] <=> "attempt" \in audit[t]
    /\ sends'[t] = sends[t]
    /\ t \in wire' <=> t \in wire

\* It keeps its stage.
LEMMA SameStage ==
  ASSUME NEW t \in Tokens, SameFacts(t)
  PROVE  Stage'[t] = Stage[t]
  BY DEF Stage, SameFacts

\* The tokens in hand depend only on where the requests are and what they
\* presented.
LEMMA SameHand ==
  ASSUME UNCHANGED <<pc, asked>>
  PROVE  Hand' = Hand
  BY DEF Hand, Token

\* A step that leaves all approvals and requests alone is a stutter of
\* ReviewedChange.
LEMMA Stutter ==
  ASSUME UNCHANGED <<review, asked>>, Hand' = Hand,
         \A t \in Tokens : SameFacts(t)
  PROVE  UNCHANGED <<Stage, review, asked, Hand>>
  <1>1. \A t \in Tokens : Stage'[t] = Stage[t]
    BY SameStage
  <1> QED
    BY <1>1 DEF Stage

\* A request that has taken its approval keeps it until its last step.
LEMMA KeepsHand ==
  ASSUME ApplyOrder, NEW p \in Procs, NEW from \in Inside, NEW to \in Inside,
         Step(p, from, to), UNCHANGED asked
  PROVE  Hand' = Hand /\ Hand[p] = Token(p)
  <1>1. /\ pc[p] \notin {"idle", "waiting"} /\ pc'[p] \notin {"idle", "waiting"}
        /\ \A q \in Procs \ {p} : pc'[q] = pc[q]
    BY DEF Step, Inside, ApplyOrder, TypeOK
  <1> QED
    BY <1>1 DEF Hand, Token

\* A request that ends gives up what it had in hand (Release).
LEMMA EmptiesHand ==
  ASSUME ApplyOrder, NEW p \in Procs, pc[p] # "idle", Release(p)
  PROVE  /\ asked[p] # None
         /\ asked' = [asked EXCEPT ![p] = None]
         /\ Hand' = [Hand EXCEPT ![p] = None]
  <1>1. /\ pc'[p] = "idle"
        /\ \A q \in Procs \ {p} : pc'[q] = pc[q] /\ asked'[q] = asked[q]
    BY DEF Release, ApplyOrder, TypeOK
  <1>2. asked[p] # None
    BY DEF ApplyOrder, Request
  <1>3. Hand' = [Hand EXCEPT ![p] = None]
    BY <1>1 DEF Hand, Token
  <1> QED
    BY <1>2, <1>3 DEF Release

\* A request that ends and changes no approval ends in ReviewedChange.
LEMMA ReleaseEnds ==
  ASSUME ApplyOrder, NEW p \in Procs, pc[p] # "idle", Release(p),
         UNCHANGED review, \A t \in Tokens : SameFacts(t)
  PROVE  Promise!End(p)
  <1>1. \A t \in Tokens : Stage'[t] = Stage[t]
    BY SameStage
  <1>2. Stage' = Stage
    BY <1>1 DEF Stage
  <1> QED
    BY <1>2, EmptiesHand DEF Promise!End

\* A step that leaves all approvals but one alone moves that one.
LEMMA OneMoves ==
  ASSUME NEW n \in Tokens, \A t \in Tokens \ {n} : SameFacts(t)
  PROVE  Promise!Move(n, Stage[n], Stage'[n])
  <1>1. \A t \in Tokens \ {n} : Stage'[t] = Stage[t]
    BY SameStage
  <1>2. Stage' = [Stage EXCEPT ![n] = Stage'[n]]
    <2>1. /\ Stage = [t \in Tokens |-> Stage[t]]
          /\ Stage' = [t \in Tokens |-> Stage'[t]]
      BY DEF Stage
    <2> QED
      BY <1>1, <2>1
  <1> QED
    BY <1>2 DEF Promise!Move

\* An approval of which nothing is on record is absent, open or spent
\* (preview inserts it, take and expiry remove it).
LEMMA UntouchedStage ==
  ASSUME NEW t \in Tokens, Untouched(t)
  PROVE  Stage[t] = IF review[t] = None THEN "absent"
                    ELSE IF t \in pending THEN "open" ELSE "spent"
  BY DEF Stage, Untouched

\* A request that is on its way was reviewed, taken and recorded (Send).
LEMMA WireStage ==
  ASSUME NEW t \in Tokens, Approval(t), t \in wire
  PROVE  Stage[t] = "sent"
  BY DEF Stage, Approval, Untouched

\* The stages before and after the attempt is recorded (Audit).
LEMMA HeldStages ==
  ASSUME ApplyOrder, NEW p \in Procs, NEW own \in Tokens, own = Token(p)
  PROVE  /\ pc[p] = "audit" => Stage[own] = "spent" /\ sends[own] = 0
         /\ pc[p] = "send" => Stage[own] = "logged"
  BY DEF ApplyOrder, Request, Inside, Steps, Holding, Untouched, Stage

\* What a request will record once it has an outcome.
LEMMA OutcomeIsNoAttempt ==
  ASSUME ApplyOrder, NEW p \in Procs, pc[p] = "outcome"
  PROVE  outcome[p] # "attempt"
  BY DEF ApplyOrder, Request, TypeOK, Outcomes

-----------------------------------------------------------------------------
(* The steps of ReviewedOperations that ReviewedChange sees.               *)

\* preview opens an approval that was absent.
LEMMA PreviewReviews ==
  ASSUME ApplyOrder, preview
  PROVE  \E t \in Tokens : Promise!Review(t)
  <1>1. PICK n \in Tokens, v \in Review :
           /\ review[n] = None
           /\ review' = [review EXCEPT ![n] = v]
           /\ pending' = pending \cup {n}
    BY PreviewInserts DEF ApplyOrder
  <1>2. UNCHANGED <<wire, audit, sends, pc, asked>>
    BY DEF preview, brokerVars, procVars, historyVars
  <1>3. v # None /\ review'[n] = v
    BY <1>1, NoneAssumption DEF ApplyOrder, TypeOK
  <1>4. \A t \in Tokens \ {n} : SameFacts(t)
    BY <1>1, <1>2 DEF SameFacts, ApplyOrder, TypeOK
  <1>5. Stage[n] = "absent"
    BY <1>1 DEF Stage
  <1>6. Stage'[n] = "open"
    BY <1>1, <1>3 DEF Stage
  <1> QED
    BY <1>1, <1>2, <1>3, <1>4, <1>5, <1>6, OneMoves, SameHand
       DEF Promise!Review

\* An approval that leaves its table is spent, whether taken or expired.
LEMMA RemovalSpends ==
  ASSUME ApplyOrder, NEW n \in pending, pending' = pending \ {n},
         UNCHANGED <<review, wire, audit, sends>>
  PROVE  Promise!Move(n, "open", "spent")
  <1>1. n \in Tokens /\ Approval(n)
    BY DEF ApplyOrder, TypeOK
  <1>2. \A t \in Tokens \ {n} : SameFacts(t)
    BY DEF SameFacts
  <1>3. review[n] # None /\ Untouched(n)
    BY <1>1 DEF Approval
  <1>4. Stage[n] = "open" /\ Stage'[n] = "spent"
    BY <1>1, <1>3 DEF Stage, Untouched
  <1> QED
    BY <1>1, <1>2, <1>4, OneMoves

\* A request takes an approval of its own session while no other request has
\* one in hand (the mutation mutex; the comparison in Reviews::take).
LEMMA TakeTakes ==
  ASSUME ApplyOrder, NEW p \in Procs, NEW own \in Tokens, own = Token(p),
         take(p)
  PROVE  Promise!Take(p, own)
  <1>1. Promise!Move(own, "open", "spent")
    BY RemovalSpends DEF take, Owned, brokerVars, historyVars
  <1>2. /\ pc[p] = "waiting" /\ pc'[p] = "revalidate" /\ ahead[p] = {}
        /\ \A q \in Procs \ {p} : pc'[q] = pc[q]
        /\ UNCHANGED <<asked, review>>
    BY DEF take, Step, Serving, ApplyOrder, TypeOK
  <1>3. \A q \in Procs : Hand[q] = None
    BY <1>2, Alone DEF Hand, ApplyOrder
  <1>4. asked[p] = [token |-> own, owner |-> review[own].owner]
    BY <1>2, Presented DEF take, Owned, Approved, Token, Asked
  <1>5. Hand' = [Hand EXCEPT ![p] = own]
    BY <1>2 DEF Hand, Token
  <1> QED
    BY <1>1, <1>2, <1>3, <1>4, <1>5 DEF Promise!Take

\* The record of the attempt, also when its handler is dropped meanwhile.
LEMMA AttemptLogs ==
  ASSUME ApplyOrder, NEW p \in Procs, pc[p] = "audit",
         NEW own \in Tokens, own = Token(p),
         audit' = [audit EXCEPT ![own] = @ \cup {"attempt"}],
         UNCHANGED <<review, pending, wire, sends>>
  PROVE  Promise!Move(own, "spent", "logged") /\ Hand[p] = own /\ own # None
  <1>1. "attempt" \in audit'[own]
    BY DEF ApplyOrder, TypeOK
  <1>2. \A t \in Tokens \ {own} : SameFacts(t)
    BY DEF SameFacts, ApplyOrder, TypeOK
  <1>3. Stage[own] = "spent" /\ sends[own] = 0
    BY HeldStages
  <1>4. Stage'[own] = "logged"
    BY <1>1, <1>3 DEF Stage
  <1>5. Hand[p] = own /\ own # None
    BY ReviewedOperationsAssumption DEF Hand
  <1> QED
    BY <1>2, <1>3, <1>4, <1>5, OneMoves

\* The one request is sent after its attempt is on record.
LEMMA SendSends ==
  ASSUME ApplyOrder, NEW p \in Procs, Send(p),
         NEW own \in Tokens, own = Token(p)
  PROVE  Promise!Send(p)
  <1> USE DEF Send, Step
  <1>1. Stage[own] = "logged"
    BY HeldStages
  <1>2. UNCHANGED <<review, pending, audit>> /\ wire' = wire \cup {own}
    BY DEF reviewVars
  <1>3. sends'[own] # 0 /\ \A t \in Tokens \ {own} : sends'[t] = sends[t]
    BY DEF ApplyOrder, TypeOK
  <1>4. \A t \in Tokens \ {own} : SameFacts(t)
    BY <1>2, <1>3 DEF SameFacts
  <1>5. Stage'[own] = "sent"
    BY <1>1, <1>2, <1>3 DEF Stage
  <1>6. Hand' = Hand /\ Hand[p] = own /\ asked' = asked
    BY KeepsHand DEF Inside, Steps
  <1> QED
    BY <1>1, <1>2, <1>4, <1>5, <1>6, OneMoves, ReviewedOperationsAssumption
       DEF Promise!Send

\* The broker executes, rejects or loses a request once.
LEMMA BrokerSettles ==
  ASSUME ApplyOrder, NEW n \in wire, wire' = wire \ {n},
         UNCHANGED <<review, pending, audit, sends, pc, asked>>
  PROVE  Promise!Settle(n)
  <1>1. n \in Tokens /\ Approval(n)
    BY DEF ApplyOrder, TypeOK
  <1>2. Stage[n] = "sent"
    BY <1>1, WireStage
  <1>3. Stage'[n] = "done"
    BY <1>1, <1>2 DEF Stage
  <1>4. \A t \in Tokens \ {n} : SameFacts(t)
    BY DEF SameFacts
  <1> QED
    BY <1>1, <1>2, <1>3, <1>4, OneMoves, SameHand DEF Promise!Settle

\* A restart forgets the open approvals and the requests, and nothing else.
LEMMA RestartForgets ==
  ASSUME ApplyOrder, Restart
  PROVE  Promise!Forget
  <1>1. /\ UNCHANGED <<review, wire, audit, sends>>
        /\ pending' = {}
    BY DEF Restart, brokerVars
  <1>2. ASSUME NEW t \in Tokens
        PROVE  Stage'[t] = IF Stage[t] = "open" THEN "spent" ELSE Stage[t]
    <2>1. Approval(t)
      BY DEF ApplyOrder
    <2>2. CASE t \in pending
      BY <1>1, <2>1, <2>2 DEF Stage, Approval, Untouched
    <2>3. CASE t \notin pending
      BY <1>1, <2>3 DEF Stage
    <2> QED
      BY <2>2, <2>3
  <1>3. Stage' = [t \in Tokens |-> Stage'[t]]
    BY DEF Stage
  <1>4. /\ asked' = [p \in Procs |-> None]
        /\ Hand' = [p \in Procs |-> None]
    BY DEF Restart, Hand
  <1> QED
    BY <1>1, <1>2, <1>3, <1>4 DEF Promise!Forget

\* A request that arrives presents a token, whoever sends it.
LEMMA ArrivePresents ==
  ASSUME ApplyOrder, NEW p \in Procs, Arrive(p)
  PROVE  Promise!Present(p)
  <1>1. /\ pc[p] = "idle" /\ pc'[p] = "waiting"
        /\ \A q \in Procs \ {p} : pc'[q] = pc[q] /\ asked'[q] = asked[q]
    BY DEF Arrive, ApplyOrder, TypeOK
  <1>2. asked[p] = None
    BY <1>1 DEF ApplyOrder, Request
  <1>3. Hand' = Hand
    BY <1>1 DEF Hand, Token
  <1>4. Stage' = Stage /\ review' = review
    BY DEF Arrive, Stage, reviewVars, brokerVars, historyVars
  <1> QED
    BY <1>2, <1>3, <1>4 DEF Arrive, Promise!Present

\* Every step of apply takes, records, sends or ends as ReviewedChange
\* allows, or leaves each approval where it is; the record of the outcome
\* is part of the end.
LEMMA ProceedPromise ==
  ASSUME ApplyOrder, NEW p \in Procs, Proceed(p)
  PROVE  \/ \E t \in Tokens : Promise!Take(p, t)
         \/ Promise!Log(p) \/ Promise!Send(p) \/ Promise!End(p)
         \/ UNCHANGED <<Stage, review, asked, Hand>>
  <1>1. pc[p] # "idle"
    BY ProceedServed
  <1>2. PICK own \in Tokens : own = Token(p)
    BY <1>1, Presented
  <1>3. CASE take(p)
    BY <1>2, <1>3, TakeTakes
  <1>4. CASE Audit(p)
    <2>1. Hand' = Hand /\ UNCHANGED <<asked, review>>
      BY <1>4, KeepsHand DEF Audit, Inside, Steps, reviewVars
    <2> QED
      BY <1>2, <1>4, <2>1, AttemptLogs
         DEF Audit, Step, reviewVars, brokerVars, historyVars, Promise!Log
  <1>5. CASE Send(p)
    BY <1>2, <1>5, SendSends
  <1>6. CASE \/ TakeRejected(p) \/ RevalidateRefused(p) \/ AuditFails(p)
             \/ RecordFails(p)
    <2>1. UNCHANGED <<review, pending, wire, audit, sends>> /\ Release(p)
      BY <1>6 DEF TakeRejected, RevalidateRefused, Refuse, AuditFails,
                  RecordFails, reviewVars, brokerVars, historyVars
    <2> QED
      BY <1>1, <2>1, ReleaseEnds DEF SameFacts
  <1>7. CASE RecordOutcome(p)
    <2>1. /\ audit' = [audit EXCEPT ![own] = @ \cup {outcome[p]}]
          /\ UNCHANGED <<review, pending, wire, sends>> /\ Release(p)
      BY <1>2, <1>7 DEF RecordOutcome, reviewVars, brokerVars
    <2>2. outcome[p] # "attempt"
      BY <1>2, <1>7, OutcomeIsNoAttempt DEF RecordOutcome
    <2>3. \A t \in Tokens : SameFacts(t)
      BY <2>1, <2>2 DEF SameFacts, ApplyOrder, TypeOK
    <2> QED
      BY <1>1, <2>1, <2>3, ReleaseEnds
  <1>8. CASE \/ Revalidate(p) \/ SendFails(p) \/ ReceiveReply(p)
             \/ Flushed(p) \/ Timeout(p) \/ Readback(p)
    <2>1. UNCHANGED <<review, pending, wire, audit, sends, asked>>
      BY <1>8 DEF Revalidate, SendFails, ReceiveReply, Flushed, Timeout,
                  Settled, Readback, reviewVars, brokerVars, historyVars
    <2>2. \E from, to \in Inside : Step(p, from, to)
      BY <1>8 DEF Revalidate, SendFails, ReceiveReply, Flushed, Timeout,
                  Settled, Readback, Inside, Steps
    <2>3. Hand' = Hand
      BY <2>1, <2>2, KeepsHand
    <2> QED
      BY <2>1, <2>3, Stutter DEF SameFacts
  <1> QED
    BY <1>2, <1>3, <1>4, <1>5, <1>6, <1>7, <1>8 DEF Proceed

\* A dropped handler ends, and what it had handed to the database is
\* recorded.
LEMMA DisconnectPromise ==
  ASSUME ApplyOrder, NEW p \in Procs, Disconnect(p)
  PROVE  Promise!End(p)
  <1>1. PICK own \in Tokens : own = Token(p)
    BY Presented DEF Disconnect
  <1>2. /\ UNCHANGED <<review, pending, wire, sends>>
        /\ pc[p] # "idle" /\ Release(p)
    BY DEF Disconnect, reviewVars, brokerVars
  <1>3. CASE audit' = audit
    BY <1>2, <1>3, ReleaseEnds DEF SameFacts
  <1>4. CASE /\ pc[p] = "audit"
             /\ audit' = [audit EXCEPT ![own] = @ \cup {"attempt"}]
    <2>1. Promise!Move(own, "spent", "logged") /\ Hand[p] = own /\ own # None
      BY <1>1, <1>2, <1>4, AttemptLogs
    <2> QED
      BY <1>2, <2>1, EmptiesHand DEF Promise!End
  <1>5. CASE /\ pc[p] = "outcome"
             /\ audit' = [audit EXCEPT ![own] = @ \cup {outcome[p]}]
    <2>1. outcome[p] # "attempt"
      BY <1>5, OutcomeIsNoAttempt
    <2>2. \A t \in Tokens : SameFacts(t)
      BY <1>2, <1>5, <2>1 DEF SameFacts, ApplyOrder, TypeOK
    <2> QED
      BY <1>2, <2>2, ReleaseEnds
  <1> QED
    BY <1>1, <1>3, <1>4, <1>5 DEF Disconnect

\* Every step is a step of ReviewedChange or changes nothing it can see.
LEMMA NextPromise ==
  ASSUME ApplyOrder, [Next]_vars
  PROVE  [Promise!Next]_<<Stage, review, asked, Hand>>
  <1> USE DEF Promise!Next
  <1>1. CASE preview
    BY <1>1, PreviewReviews
  <1>2. ASSUME NEW p \in Procs, Arrive(p)
        PROVE  Promise!Present(p)
    BY <1>2, ArrivePresents
  <1>3. ASSUME NEW p \in Procs, Proceed(p) \/ Disconnect(p)
        PROVE  [Promise!Next]_<<Stage, review, asked, Hand>>
    BY <1>3, ProceedPromise, DisconnectPromise
  <1>4. ASSUME NEW t \in Tokens, Expire(t)
        PROVE  Promise!Expire(t)
    <2>1. t \in pending /\ pending' = pending \ {t}
          /\ UNCHANGED <<review, wire, audit, sends, pc, asked>>
      BY <1>4 DEF Expire, brokerVars, procVars, historyVars
    <2> QED
      BY <2>1, RemovalSpends, SameHand DEF Promise!Expire
  <1>5. ASSUME NEW t \in Tokens, Execute(t) \/ Reject(t)
        PROVE  Promise!Settle(t)
    BY <1>5, BrokerSettles DEF Execute, Reject, reviewVars, historyVars
  <1>6. ASSUME NEW r \in Resources, Outsider(r)
        PROVE  UNCHANGED <<Stage, review, asked, Hand>>
    BY <1>6, Stutter, SameHand
       DEF Outsider, SameFacts, reviewVars, procVars, historyVars
  <1>7. CASE Restart
    BY <1>7, RestartForgets
  <1>8. CASE UNCHANGED vars
    BY <1>8, Stutter, SameHand DEF vars, SameFacts
  <1> QED
    BY <1>1, <1>2, <1>3, <1>4, <1>5, <1>6, <1>7, <1>8 DEF Next

\* The server implements ReviewedChange: an approval is used once, by its own
\* session and while no other is in hand, recorded before it is sent and sent
\* at most once, whatever interleaves (reviews.rs take; the order of awaits
\* in both apply functions).
THEOREM ReviewedChangeImplemented == Spec => ImplementsReviewedChange
  <1>1. Init => Promise!Init
    BY DEF Init, Promise!Init, Stage, Hand
  <1>2. ApplyOrder /\ [Next]_vars => [Promise!Next]_<<Stage, review, asked, Hand>>
    BY NextPromise
  <1> QED
    BY <1>1, <1>2, ApplyOrderHolds, PTL
       DEF Spec, ImplementsReviewedChange, Promise!Spec

-----------------------------------------------------------------------------
(* Who uses up an approval.                                                *)

\* An approval leaves its table only for its owner, by expiry or with the
\* process (Reviews::take compares the owner before it removes).
THEOREM ReviewsAreSpentByOwners == Spec => ReviewSpentByOwner
  <1>1. ASSUME Next, NEW t \in pending \ pending'
        PROVE  \/ Restart
               \/ Expire(t)
               \/ \E p \in Procs : take(p) /\ asked[p].token = t
                                     /\ asked[p].owner = review[t].owner
    <2>1. CASE preview
      BY <1>1, <2>1 DEF preview
    <2>2. ASSUME NEW p \in Procs, take(p)
          PROVE  asked[p].token = t /\ asked[p].owner = review[t].owner
      BY <1>1, <2>2 DEF take, Owned, Token, Approved
    <2>3. ASSUME NEW p \in Procs,
                 \/ Arrive(p)
                 \/ Disconnect(p)
                 \/ Proceed(p) /\ ~take(p)
          PROVE  FALSE
      <3>1. pending' = pending
        BY <2>3 DEF Arrive, Disconnect, Proceed, TakeRejected, Revalidate,
                    RevalidateRefused, Refuse, Audit, AuditFails, Send,
                    SendFails, ReceiveReply, Flushed, Timeout, Settled,
                    Readback, RecordOutcome, RecordFails, reviewVars
      <3> QED
        BY <1>1, <3>1
    <2>4. ASSUME NEW n \in Tokens, Expire(n)
          PROVE  Expire(t)
      BY <1>1, <2>4 DEF Expire
    <2>5. ASSUME NEW n \in Tokens, Execute(n) \/ Reject(n)
          PROVE  FALSE
      BY <1>1, <2>5 DEF Execute, Reject, reviewVars
    <2>6. ASSUME NEW r \in Resources, Outsider(r)
          PROVE  FALSE
      BY <1>1, <2>6 DEF Outsider, reviewVars
    <2> QED
      BY <1>1, <2>1, <2>2, <2>3, <2>4, <2>5, <2>6 DEF Next
  <1>2. [Next]_vars =>
           [\A t \in pending \ pending' :
               \/ Restart
               \/ Expire(t)
               \/ \E p \in Procs : take(p) /\ asked[p].token = t
                                     /\ asked[p].owner = review[t].owner]_vars
    BY <1>1
  <1> QED
    BY <1>2, PTL DEF Spec, ReviewSpentByOwner

-----------------------------------------------------------------------------
(* Reviewed changes never overtake each other.                             *)

\* Request p has read its resource again and the broker has not yet executed
\* what it asks.
Exposed(p) ==
    \/ pc[p] \in {"audit", "send"}
    \/ pc[p] = "reply" /\ Token(p) \in wire

\* What request p is about to change is still what was reviewed, unless
\* another client or a request that had timed out changed it.
Undisturbed(p) ==
    Exposed(p) /\ Approved(p).kind \notin Publications
    => \/ Revision(Approved(p).resource) = Approved(p).revision
       \/ changed_by[Approved(p).resource] # "request"

InOrder == \A p \in Procs : Undisturbed(p)

\* A step that changes no resource exposes nobody but a request that has just
\* read its resource.
LEMMA UndisturbedAside ==
  ASSUME NEW p \in Procs, Undisturbed(p),
         UNCHANGED <<resource, changed_by>>,
         Exposed(p)' => /\ Exposed(p)
                        /\ asked'[p] = asked[p]
                        /\ review'[Token(p)] = review[Token(p)]
  PROVE  Undisturbed(p)'
  BY DEF Undisturbed, Token, Approved, Revision

\* The request that is served exposes nobody else (the mutation mutex).
LEMMA OthersUnexposed ==
  ASSUME ApplyOrder, NEW p \in Procs, pc[p] # "idle", Serving(p),
         NEW q \in Procs, q # p
  PROVE  pc[q] \notin {"audit", "send", "reply"}
  BY Alone DEF ApplyOrder, Serving

\* No step of apply disturbs another; Revalidate reads the resource again.
LEMMA ProceedInOrder ==
  ASSUME ApplyOrder, InOrder, NEW p \in Procs, Proceed(p)
  PROVE  InOrder'
  <1>1. /\ pc[p] # "idle" /\ Serving(p)
        /\ UNCHANGED <<resource, changed_by, review>>
        /\ \A q \in Procs \ {p} : pc'[q] = pc[q]
    <2>1. pc \in [Procs -> Steps]
      BY DEF ApplyOrder, TypeOK
    <2> QED
      BY <2>1, ProceedServed
  <1>2. ASSUME NEW q \in Procs, q # p
        PROVE  Undisturbed(q)'
    BY <1>1, <1>2, OthersUnexposed DEF Undisturbed, Exposed
  <1>3. Undisturbed(p)
    BY DEF InOrder
  <1>4. Undisturbed(p)'
    <2>1. CASE Revalidate(p)
      BY <2>1 DEF Revalidate, Undisturbed, Unchanged, Approved, Token,
                  Revision, reviewVars, brokerVars
    <2>2. CASE Audit(p) \/ Send(p)
      <3>1. pc[p] \in {"audit", "send"} /\ asked' = asked
        BY <2>2 DEF Audit, Send, Step
      <3> QED
        BY <1>1, <1>3, <3>1, UndisturbedAside DEF Exposed
    <2>3. CASE \/ take(p) \/ TakeRejected(p) \/ RevalidateRefused(p)
               \/ AuditFails(p) \/ SendFails(p) \/ ReceiveReply(p)
               \/ Flushed(p) \/ Timeout(p) \/ Readback(p)
               \/ RecordOutcome(p) \/ RecordFails(p)
      <3>1. pc'[p] \in {"idle", "revalidate", "readback", "outcome"}
        BY <2>3 DEF ApplyOrder, TypeOK, take, TakeRejected, RevalidateRefused,
                    Refuse, Release, AuditFails, SendFails, ReceiveReply,
                    Flushed, Timeout, Readback, RecordOutcome, RecordFails,
                    Settled, Step
      <3> QED
        BY <3>1 DEF Undisturbed, Exposed
    <2> QED
      BY <2>1, <2>2, <2>3 DEF Proceed
  <1> QED
    BY <1>2, <1>4 DEF InOrder

\* The broker executes a request that is awaited, which ends its exposure, or
\* one that had timed out.
LEMMA ExecuteInOrder ==
  ASSUME ApplyOrder, InOrder, NEW n \in Tokens, Execute(n)
  PROVE  InOrder'
  <1> SUFFICES ASSUME NEW q \in Procs, Exposed(q)',
                      Approved(q)'.kind \notin Publications
               PROVE  \/ Revision(Approved(q).resource)' = Approved(q)'.revision
                      \/ changed_by'[Approved(q)'.resource] # "request"
    BY DEF InOrder, Undisturbed
  <1>1. /\ UNCHANGED <<pc, asked, review>> /\ wire' = wire \ {n}
        /\ Exposed(q) /\ Approved(q)' = Approved(q)
    BY DEF Execute, Exposed, Token, Approved, reviewVars
  <1>2. PICK v \in Review : v = Approved(q)
    BY <1>1 DEF ApplyOrder, TypeOK, Request, Exposed, Inside, Steps, Approved,
                Token, Holding, Asked
  <1>3. v.resource \in Resources
    BY DEF Review
  <1>4. ~Awaited(n)
    <2> SUFFICES ASSUME NEW p \in Procs, Awaiting(p, n) PROVE FALSE
      BY DEF Awaited
    <2>1. ahead[p] = {} /\ pc[p] = "reply"
      BY DEF Awaiting, ApplyOrder, Queue, Inside, Steps
    <2>2. p = q
      BY <1>1, <2>1, OthersUnexposed DEF Serving, Exposed
    <2> QED
      BY <1>1, <2>1, <2>2 DEF Exposed, Awaiting, Token
  <1>5. \/ resource'[v.resource] = resource[v.resource]
           /\ changed_by'[v.resource] = changed_by[v.resource]
        \/ changed_by'[v.resource] = "late"
    BY <1>3, <1>4 DEF Execute, ApplyOrder, TypeOK
  <1>6. \/ resource[v.resource] = v.revision
        \/ changed_by[v.resource] # "request"
    BY <1>1, <1>2 DEF InOrder, Undisturbed, Revision
  <1> QED
    BY <1>1, <1>2, <1>5, <1>6 DEF Revision

\* A change by another client is not a reviewed change.
LEMMA OutsiderInOrder ==
  ASSUME ApplyOrder, InOrder, NEW r \in Resources, Outsider(r)
  PROVE  InOrder'
  <1>1. ASSUME NEW q \in Procs
        PROVE  Undisturbed(q)'
    <2>1. /\ Exposed(q)' <=> Exposed(q)
          /\ Approved(q)' = Approved(q)
      BY DEF Outsider, Exposed, Token, Approved, reviewVars, procVars
    <2>2. \A s \in Resources :
             \/ resource'[s] = resource[s] /\ changed_by'[s] = changed_by[s]
             \/ changed_by'[s] = "outsider"
      BY DEF Outsider, ApplyOrder, TypeOK
    <2>3. Exposed(q) => Approved(q).resource \in Resources
      BY DEF ApplyOrder, TypeOK, Request, Exposed, Inside, Steps, Approved,
             Token, Holding, Asked, Review
    <2> QED
      BY <2>1, <2>2, <2>3 DEF InOrder, Undisturbed, Revision
  <1> QED
    BY <1>1 DEF InOrder

\* Every step keeps what is exposed undisturbed.
LEMMA NextInOrder ==
  ASSUME ApplyOrder, InOrder, [Next]_vars
  PROVE  InOrder'
  <1>1. CASE preview
    <2>1. PICK n \in Tokens, v \in Review :
             /\ review[n] = None
             /\ review' = [review EXCEPT ![n] = v]
             /\ pending' = pending \cup {n}
      BY <1>1, PreviewInserts DEF ApplyOrder
    <2>2. UNCHANGED <<resource, changed_by, wire, pc, asked>>
      BY <1>1 DEF preview, brokerVars, procVars
    <2>3. ASSUME NEW q \in Procs
          PROVE  Undisturbed(q)'
      <3>1. Exposed(q) => review'[Token(q)] = review[Token(q)]
        BY <2>1 DEF ApplyOrder, TypeOK, Request, Exposed
      <3>2. Exposed(q)' => Exposed(q)
        BY <2>2 DEF Exposed, Token
      <3> QED
        BY <2>2, <3>1, <3>2, UndisturbedAside DEF InOrder
    <2> QED
      BY <2>3 DEF InOrder
  <1>2. ASSUME NEW p \in Procs, Arrive(p) \/ Disconnect(p)
        PROVE  InOrder'
    <2>1. /\ UNCHANGED <<resource, changed_by, review, wire>>
          /\ pc'[p] \in {"idle", "waiting"}
          /\ \A q \in Procs \ {p} : pc'[q] = pc[q] /\ asked'[q] = asked[q]
      BY <1>2 DEF ApplyOrder, TypeOK, Arrive, Disconnect, Release, reviewVars,
                  brokerVars
    <2>2. ASSUME NEW q \in Procs
          PROVE  Undisturbed(q)'
      BY <2>1, UndisturbedAside DEF InOrder, Exposed, Token
    <2> QED
      BY <2>2 DEF InOrder
  <1>3. ASSUME NEW t \in Tokens, Expire(t) \/ Reject(t)
        PROVE  InOrder'
    <2>1. /\ UNCHANGED <<resource, changed_by, review, pc, asked>>
          /\ wire' \subseteq wire
      BY <1>3 DEF Expire, Reject, reviewVars, brokerVars, procVars
    <2>2. ASSUME NEW q \in Procs
          PROVE  Undisturbed(q)'
      BY <2>1, UndisturbedAside DEF InOrder, Exposed, Token
    <2> QED
      BY <2>2 DEF InOrder
  <1>4. CASE Restart
    BY <1>4 DEF Restart, InOrder, Undisturbed, Exposed
  <1>5. CASE UNCHANGED vars
    BY <1>5 DEF vars, InOrder, Undisturbed, Exposed, Token, Approved, Revision
  <1> QED
    BY <1>1, <1>2, <1>3, <1>4, <1>5, ProceedInOrder, ExecuteInOrder,
       OutsiderInOrder DEF Next

\* A change that is executed while its request waits finds the resource as
\* it was reviewed, unless another client or a request that had timed out
\* came in between: the mutation mutex of editing.rs and operations.rs keeps
\* all other reviewed changes away.
THEOREM AppliedInOrder == Spec => AppliedToReviewedState
  <1>1. Init => InOrder
    BY DEF Init, InOrder, Undisturbed, Exposed
  <1>2. ApplyOrder /\ InOrder /\ [Next]_vars => InOrder'
    BY NextInOrder
  <1>3. InOrder =>
           [\A t \in Tokens :
              /\ Awaited(t)
              /\ Execute(t)
              /\ review[t].kind \notin Publications
              /\ Revision(review[t].resource) # review[t].revision
              => changed_by[review[t].resource] # "request"]_vars
    BY DEF InOrder, Undisturbed, Exposed, Awaited, Awaiting, Execute, Approved
  <1> QED
    BY <1>1, <1>2, <1>3, ApplyOrderHolds, PTL DEF Spec, AppliedToReviewedState
=============================================================================
