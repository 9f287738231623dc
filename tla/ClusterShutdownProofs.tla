------------------------ MODULE ClusterShutdownProofs ------------------------
(***************************************************************************)
(* Proofs about ClusterShutdown, for any set of requests and any number of *)
(* attempts: types, who makes the agent emit the signal and how often, and *)
(* what a false success is the consequence of.                             *)
(***************************************************************************)
EXTENDS ClusterShutdown, TLAPS

Blocking == {"open", "init", "send"}

\* A request in progress has no answer yet; one in a blocking call holds the
\* event loop, and sends only over a bus object that exists.
Progress ==
  \A r \in Requests :
    /\ req[r].step # "done" => req[r].status = "none"
    /\ req[r].step \in Blocking => turn = {r}
    /\ req[r].step = "send" => bus # "none"

Authorised(q) == q.valid /\ q.role = "admin" /\ q.resource = "cluster"

\* Each copy the broker took belongs to an attempt, and only a request that
\* passed the checks of post attempts anything.
Attempts ==
  \A r \in Requests :
    /\ req[r].step \notin {"send", "done"} => sent[r] = 0
    /\ req[r].step = "send" => Authorised(req[r]) /\ sent[r] <= req[r].tries
    /\ sent[r] > 0 => Authorised(req[r])
    /\ sent[r] <= MaxRetryCount

\* A bus without a producer is being initialised, or was given up.
BusExplained ==
  bus = "no_producer" =>
    \E p \in Requests : req[p].step = "init" \/ req[p].status = "no_bus"

-----------------------------------------------------------------------------
\* What a step of r does to the requests.
OthersStay(r) == \A p \in Requests \ {r} : req'[p] = req[p]
SameRequest(q, p) == q.valid = p.valid /\ q.role = p.role /\ q.resource = p.resource

LEMMA GotoEffect ==
  ASSUME TypeOK, NEW r \in Requests, NEW q, Goto(r, q)
  PROVE  req'[r] = q /\ OthersStay(r) /\ (q.step \notin {"body", "done"} => turn' = {r})
BY DEF TypeOK, Goto, OthersStay

LEMMA ConstructEffect ==
  ASSUME TypeOK, NEW r \in Requests, Construct(r)
  PROVE  /\ OthersStay(r)
         /\ req'[r].status = "none"
         /\ \/ req'[r].step = "open" /\ turn' = {r}
            \/ req'[r].step = "body"
<1>1. PICK role \in Roles, resource \in Resources, valid \in BOOLEAN, step \in {"open", "body"} :
        Goto(r, [Blank EXCEPT !.role = role, !.resource = resource, !.valid = valid,
                              !.step = step])
  BY DEF Construct
<1> DEFINE q == [Blank EXCEPT !.role = role, !.resource = resource, !.valid = valid,
                              !.step = step]
<1>2. q.status = "none" /\ q.step = step
  BY DEF Blank
<1> HIDE DEF q
<1>3. Goto(r, q)
  BY <1>1 DEF q
<1> QED
  BY <1>2, <1>3, GotoEffect

LEMMA FirstEffect ==
  ASSUME TypeOK, NEW r \in Requests, NEW step \in {"init", "send"},
         Goto(r, [req[r] EXCEPT !.step = step, !.tries = 0])
  PROVE  /\ OthersStay(r) /\ SameRequest(req'[r], req[r]) /\ turn' = {r}
         /\ req'[r].step = step /\ req'[r].tries = 0 /\ req'[r].status = req[r].status
<1> DEFINE q == [req[r] EXCEPT !.step = step, !.tries = 0]
<1>1. /\ q.step = step /\ q.tries = 0 /\ q.status = req[r].status
      /\ SameRequest(q, req[r])
  BY DEF TypeOK, ReqType, SameRequest
<1>2. Goto(r, q)
  OBVIOUS
<1> HIDE DEF q
<1> QED
  BY <1>1, <1>2, GotoEffect

LEMMA AnswerEffect ==
  ASSUME TypeOK, NEW r \in Requests, NEW status, Answer(r, status)
  PROVE  /\ OthersStay(r) /\ SameRequest(req'[r], req[r])
         /\ req'[r].step = "done" /\ req'[r].status = status
<1> DEFINE q == [req[r] EXCEPT !.step = "done", !.status = status]
<1>1. q.step = "done" /\ q.status = status /\ SameRequest(q, req[r])
  BY DEF TypeOK, ReqType, SameRequest
<1>2. Goto(r, q)
  BY DEF Answer
<1> HIDE DEF q
<1> QED
  BY <1>1, <1>2, GotoEffect

LEMMA RetryEffect ==
  ASSUME TypeOK, NEW r \in Requests, Retry(r), req[r].step \in {"init", "send"}
  PROVE  /\ OthersStay(r) /\ SameRequest(req'[r], req[r]) /\ turn' = {r}
         /\ req'[r].step = req[r].step /\ req'[r].status = req[r].status
         /\ req'[r].tries = req[r].tries + 1
<1> DEFINE q == [req[r] EXCEPT !.tries = @ + 1]
<1>1. /\ q.step = req[r].step /\ q.status = req[r].status
      /\ q.tries = req[r].tries + 1 /\ SameRequest(q, req[r])
  BY DEF TypeOK, ReqType, SameRequest
<1>2. Goto(r, q)
  BY DEF Retry
<1> HIDE DEF q
<1> QED
  BY <1>1, <1>2, GotoEffect

LEMMA BodyEffect ==
  ASSUME TypeOK, NEW r \in Requests, Goto(r, [req[r] EXCEPT !.step = "body"])
  PROVE  /\ OthersStay(r) /\ SameRequest(req'[r], req[r])
         /\ req'[r].step = "body" /\ req'[r].status = req[r].status
<1> DEFINE q == [req[r] EXCEPT !.step = "body"]
<1>1. q.step = "body" /\ q.status = req[r].status /\ SameRequest(q, req[r])
  BY DEF TypeOK, ReqType, SameRequest
<1>2. Goto(r, q)
  OBVIOUS
<1> HIDE DEF q
<1> QED
  BY <1>1, <1>2, GotoEffect

\* post turns the request away, or starts to send.
LEMMA PostEffect ==
  ASSUME TypeOK, NEW r \in Requests, Post(r)
  PROVE  \/ \E status \in {"invalid", "denied", "not_sent"} : Answer(r, status)
         \/ /\ Authorised(req[r]) /\ bus # "none"
            /\ Goto(r, [req[r] EXCEPT !.step = "send", !.tries = 0])
BY DEF Post, TypeOK, ReqType, Authorised

\* A restart leaves answered and future requests alone and drops the others.
LEMMA RestartEffect ==
  ASSUME TypeOK, Restart, NEW r \in Requests
  PROVE  IF req[r].step \in {"idle", "done"} THEN req'[r] = req[r]
         ELSE req'[r].step = "done" /\ req'[r].status = "dropped" /\ SameRequest(req'[r], req[r])
<1> DEFINE q == [req[r] EXCEPT !.step = "done", !.status = "dropped"]
<1>1. q.step = "done" /\ q.status = "dropped" /\ SameRequest(q, req[r])
  BY DEF TypeOK, ReqType, SameRequest
<1>2. req'[r] = IF req[r].step \in {"idle", "done"} THEN req[r] ELSE q
  BY DEF Restart
<1> HIDE DEF q
<1> QED
  BY <1>1, <1>2

-----------------------------------------------------------------------------
LEMMA GotoTyped ==
  ASSUME TypeOK, NEW r \in Requests, NEW q \in ReqType, Goto(r, q)
  PROVE  req' \in [Requests -> ReqType] /\ turn' \in SUBSET Requests
BY DEF TypeOK, Goto

LEMMA AnswerTyped ==
  ASSUME TypeOK, NEW r \in Requests, NEW status \in Statuses, Answer(r, status)
  PROVE  req' \in [Requests -> ReqType] /\ turn' \in SUBSET Requests
<1>1. [req[r] EXCEPT !.step = "done", !.status = status] \in ReqType
  BY DEF TypeOK, ReqType, Steps
<1> QED
  BY <1>1, GotoTyped DEF Answer

LEMMA RetryTyped ==
  ASSUME TypeOK, NEW r \in Requests, Retry(r), MayTry(r)
  PROVE  req' \in [Requests -> ReqType] /\ turn' \in SUBSET Requests
<1>1. [req[r] EXCEPT !.tries = @ + 1] \in ReqType
  BY ShutdownAssumption DEF TypeOK, ReqType, MayTry
<1> QED
  BY <1>1, GotoTyped DEF Retry

\* A first attempt is one of those allowed.
LEMMA FirstTry == 0 \in 0 .. MaxRetryCount
BY ShutdownAssumption

LEMMA InitTyped == Init => TypeOK
BY ShutdownAssumption DEF Init, TypeOK, Blank, ReqType, Roles, Resources, Steps, Statuses

LEMMA NextTyped == TypeOK /\ [Next]_vars => TypeOK'
<1> SUFFICES ASSUME TypeOK, [Next]_vars PROVE TypeOK'
  OBVIOUS
<1>1. CASE UNCHANGED vars
  BY <1>1 DEF vars, TypeOK
<1>2. ASSUME NEW r \in Requests, Construct(r) PROVE TypeOK'
  <2>1. PICK role \in Roles, resource \in Resources, valid \in BOOLEAN, step \in {"open", "body"} :
          Goto(r, [Blank EXCEPT !.role = role, !.resource = resource, !.valid = valid,
                                !.step = step])
    BY <1>2 DEF Construct
  <2>2. [Blank EXCEPT !.role = role, !.resource = resource, !.valid = valid, !.step = step]
          \in ReqType
    BY FirstTry DEF Blank, ReqType, Steps, Statuses
  <2> QED
    BY <1>2, <2>1, <2>2, GotoTyped DEF Construct, TypeOK
<1>3. ASSUME NEW r \in Requests, OpenFails(r) \/ InitGivesUp(r) \/ SendWithoutProducer(r)
                                 \/ SendGivesUp(r)
      PROVE TypeOK'
  BY <1>3, AnswerTyped
     DEF OpenFails, InitGivesUp, SendWithoutProducer, SendGivesUp, TypeOK, Statuses
<1>4. ASSUME NEW r \in Requests, Open(r) PROVE TypeOK'
  <2>1. [req[r] EXCEPT !.step = "init", !.tries = 0] \in ReqType
    BY FirstTry DEF TypeOK, ReqType, Steps
  <2> QED
    BY <1>4, <2>1, GotoTyped DEF Open, TypeOK
<1>5. ASSUME NEW r \in Requests, InitProducer(r) PROVE TypeOK'
  <2>1. [req[r] EXCEPT !.step = "body"] \in ReqType
    BY DEF TypeOK, ReqType, Steps
  <2> QED
    BY <1>5, <2>1, GotoTyped, RetryTyped DEF InitProducer, TypeOK
<1>6. ASSUME NEW r \in Requests, Post(r) PROVE TypeOK'
  <2>1. [req[r] EXCEPT !.step = "send", !.tries = 0] \in ReqType
    BY FirstTry DEF TypeOK, ReqType, Steps
  <2>2. \/ \E status \in Statuses : Answer(r, status)
        \/ Goto(r, [req[r] EXCEPT !.step = "send", !.tries = 0])
    BY <1>6 DEF Post, Statuses, TypeOK, ReqType
  <2> QED
    BY <1>6, <2>1, <2>2, GotoTyped, AnswerTyped DEF Post, TypeOK
<1>7. ASSUME NEW r \in Requests, Send(r) PROVE TypeOK'
  <2>1. req' \in [Requests -> ReqType] /\ turn' \in SUBSET Requests
    BY <1>7, AnswerTyped, RetryTyped DEF Send, Statuses
  <2>2. sent' \in [Requests -> Nat]
    BY <1>7 DEF Send, TypeOK
  <2> QED
    BY <1>7, <2>1, <2>2 DEF Send, TypeOK
<1>8. CASE Restart
  <2>1. ASSUME NEW r \in Requests
        PROVE  [req[r] EXCEPT !.step = "done", !.status = "dropped"] \in ReqType
    BY DEF TypeOK, ReqType, Steps, Statuses
  <2>2. req' \in [Requests -> ReqType]
    BY <1>8, <2>1 DEF Restart, TypeOK
  <2> QED
    BY <1>8, <2>2 DEF Restart, TypeOK
<1> QED
  BY <1>1, <1>2, <1>3, <1>4, <1>5, <1>6, <1>7, <1>8 DEF Next, Step

\* The shutdown path keeps its types: no retry loop runs past its bound.
THEOREM TypeCorrect == Spec => []TypeOK
BY InitTyped, NextTyped, PTL DEF Spec

-----------------------------------------------------------------------------
\* A request moves: it is the one that may, and it keeps its promises.
LEMMA ProgressMove ==
  ASSUME Progress, NEW r \in Requests, OthersStay(r), turn \subseteq {r},
         req'[r].step # "done" => req'[r].status = "none",
         req'[r].step \in Blocking => turn' = {r},
         req'[r].step = "send" => bus' # "none"
  PROVE  Progress'
BY DEF Progress, OthersStay, Blocking

LEMMA InitProgress == Init => Progress
<1>1. Blank.step = "idle" /\ Blank.status = "none"
  BY DEF Blank
<1> QED
  BY <1>1 DEF Init, Progress, Blocking

LEMMA NextProgress == TypeOK /\ Progress /\ [Next]_vars => Progress'
<1> SUFFICES ASSUME TypeOK, Progress, [Next]_vars PROVE Progress'
  OBVIOUS
<1> USE DEF At, Blocking
<1>1. CASE UNCHANGED vars
  BY <1>1 DEF vars, Progress
<1>2. ASSUME NEW r \in Requests, Construct(r) PROVE Progress'
  BY <1>2, ConstructEffect, ProgressMove DEF Construct
<1>3. ASSUME NEW r \in Requests, NEW status, turn \subseteq {r}, Answer(r, status) PROVE Progress'
  BY <1>3, AnswerEffect, ProgressMove
<1>4. ASSUME NEW r \in Requests, turn \subseteq {r}, req[r].step \in {"init", "send"}, Retry(r),
             UNCHANGED bus
      PROVE Progress'
  BY <1>4, RetryEffect, ProgressMove DEF Progress
<1>5. ASSUME NEW r \in Requests, Open(r) PROVE Progress'
  BY <1>5, FirstEffect, ProgressMove DEF Open, Progress
<1>6. ASSUME NEW r \in Requests, InitProducer(r) PROVE Progress'
  <2>1. CASE Goto(r, [req[r] EXCEPT !.step = "body"])
    BY <1>6, <2>1, BodyEffect, ProgressMove DEF InitProducer, Progress
  <2> QED
    BY <1>4, <1>6, <2>1 DEF InitProducer
<1>7. ASSUME NEW r \in Requests, Post(r) PROVE Progress'
  <2>1. CASE bus # "none" /\ Goto(r, [req[r] EXCEPT !.step = "send", !.tries = 0])
    BY <1>7, <2>1, FirstEffect, ProgressMove DEF Post, Progress
  <2> QED
    BY <1>3, <1>7, <2>1, PostEffect DEF Post
<1>8. CASE Restart
  BY <1>8, RestartEffect DEF Progress
<1> QED
  BY <1>1, <1>2, <1>3, <1>4, <1>5, <1>6, <1>7, <1>8
     DEF Next, Step, OpenFails, InitGivesUp, Send, SendWithoutProducer, SendGivesUp

-----------------------------------------------------------------------------
\* A request moves without a copy more.
LEMMA AttemptsMove ==
  ASSUME Attempts, NEW r \in Requests, OthersStay(r), UNCHANGED sent,
         req'[r].step \notin {"send", "done"} => sent[r] = 0,
         req'[r].step = "send" => Authorised(req'[r]) /\ sent[r] <= req'[r].tries,
         sent[r] > 0 => Authorised(req'[r])
  PROVE  Attempts'
BY DEF Attempts, OthersStay

\* The same for a request that has sent nothing and does not begin to.
LEMMA AttemptsIdle ==
  ASSUME Attempts, NEW r \in Requests, OthersStay(r), UNCHANGED sent, sent[r] = 0,
         req'[r].step # "send"
  PROVE  Attempts'
<1>1. ~(sent[r] > 0)
  OBVIOUS
<1> QED
  BY <1>1, AttemptsMove

LEMMA InitAttempts == Init => Attempts
<1>1. Blank.step = "idle"
  BY DEF Blank
<1> SUFFICES ASSUME Init, NEW r \in Requests
             PROVE  /\ req[r].step = "idle" /\ sent[r] = 0
                    /\ ~(sent[r] > 0) /\ sent[r] <= MaxRetryCount
  BY DEF Attempts
<1>2. req[r].step = "idle" /\ sent[r] = 0
  BY <1>1 DEF Init
<1> QED
  BY <1>2, ShutdownAssumption

LEMMA SameAuthorised ==
  ASSUME NEW q, NEW p, SameRequest(q, p), Authorised(p)
  PROVE  Authorised(q)
BY DEF SameRequest, Authorised

LEMMA NextAttempts == TypeOK /\ Attempts /\ [Next]_vars => Attempts'
<1> SUFFICES ASSUME TypeOK, Attempts, [Next]_vars PROVE Attempts'
  OBVIOUS
<1> USE DEF At
<1>1. CASE UNCHANGED vars
  BY <1>1 DEF vars, Attempts
<1>2. ASSUME NEW r \in Requests, Construct(r) PROVE Attempts'
  <2>1. sent[r] = 0
    BY <1>2 DEF Construct, Attempts
  <2> QED
    BY <1>2, <2>1, ConstructEffect, AttemptsIdle DEF Construct
<1>3. ASSUME NEW r \in Requests, NEW status, Answer(r, status), UNCHANGED sent PROVE Attempts'
  <2>1. sent[r] > 0 => Authorised(req'[r])
    BY <1>3, AnswerEffect, SameAuthorised DEF Attempts
  <2> QED
    BY <1>3, <2>1, AnswerEffect, AttemptsMove
<1>4. ASSUME NEW r \in Requests, Open(r) PROVE Attempts'
  <2>1. sent[r] = 0
    BY <1>4 DEF Open, Attempts
  <2> QED
    BY <1>4, <2>1, FirstEffect, AttemptsIdle DEF Open
<1>5. ASSUME NEW r \in Requests, InitProducer(r) PROVE Attempts'
  <2>1. sent[r] = 0
    BY <1>5 DEF InitProducer, Attempts
  <2> QED
    BY <1>5, <2>1, BodyEffect, RetryEffect, AttemptsIdle DEF InitProducer
<1>6. ASSUME NEW r \in Requests, Post(r) PROVE Attempts'
  <2>1. CASE Authorised(req[r]) /\ Goto(r, [req[r] EXCEPT !.step = "send", !.tries = 0])
    <3>1. sent[r] = 0 /\ Authorised(req'[r])
      BY <1>6, <2>1, FirstEffect, SameAuthorised DEF Post, Attempts
    <3>2. UNCHANGED sent /\ OthersStay(r) /\ req'[r].step = "send" /\ req'[r].tries = 0
      BY <1>6, <2>1, FirstEffect DEF Post
    <3>3. sent[r] <= req'[r].tries
      BY <3>1, <3>2
    <3> QED
      BY <3>1, <3>2, <3>3, AttemptsMove
  <2> QED
    BY <1>3, <1>6, <2>1, PostEffect DEF Post
<1>7. ASSUME NEW r \in Requests, Send(r) PROVE Attempts'
  <2>1. /\ Authorised(req[r]) /\ sent[r] <= req[r].tries /\ req[r].tries < MaxRetryCount
        /\ req[r].tries \in Nat /\ sent[r] \in Nat
    BY <1>7 DEF Send, Attempts, MayTry, TypeOK, ReqType
  <2>2. /\ OthersStay(r) /\ SameRequest(req'[r], req[r])
        /\ \/ req'[r].step = "done"
           \/ req'[r].step = "send" /\ req'[r].tries = req[r].tries + 1
    BY <1>7, AnswerEffect, RetryEffect DEF Send
  <2>3. /\ sent'[r] \in {sent[r], sent[r] + 1}
        /\ \A p \in Requests \ {r} : sent'[p] = sent[p]
    BY <1>7 DEF Send, TypeOK
  <2>4. Authorised(req'[r])
    BY <2>1, <2>2, SameAuthorised
  <2>5. sent'[r] <= MaxRetryCount /\ (req'[r].step = "send" => sent'[r] <= req'[r].tries)
    BY <2>1, <2>2, <2>3, ShutdownAssumption
  <2> QED
    BY <2>2, <2>3, <2>4, <2>5 DEF Attempts, OthersStay
<1>8. CASE Restart
  <2>1. \A r \in Requests : Authorised(req[r]) => Authorised(req'[r])
    BY <1>8, RestartEffect, SameAuthorised
  <2> QED
    BY <1>8, <2>1, RestartEffect DEF Restart, Attempts
<1> QED
  BY <1>1, <1>2, <1>3, <1>4, <1>5, <1>6, <1>7, <1>8
     DEF Next, Step, OpenFails, InitGivesUp, SendWithoutProducer, SendGivesUp

\* The agent emits the signal only for a well-formed request of an admin for
\* the cluster, and at most RETRY>retry_count times per request, although every
\* attempt that raised may have been delivered.
THEOREM OnlyAuthorisedSignals == Spec => []SignalsAuthorised
<1>1. Spec => []Attempts
  BY InitAttempts, InitTyped, NextTyped, NextAttempts, PTL DEF Spec
<1>2. Attempts => SignalsAuthorised
  BY DEF Attempts, SignalsAuthorised, Authorised
<1> QED
  BY <1>1, <1>2, PTL

-----------------------------------------------------------------------------
Explained == BusExplained /\ OnlyGivingUpHidesLoss

\* A request in progress moves without a false success, and if it leaves a bus
\* without a producer behind, it initialises or gives up.
LEMMA ExplainedMove ==
  ASSUME Explained, NEW r \in Requests, OthersStay(r), req[r].status = "none",
         \A p \in Requests \ {r} : sent'[p] = sent[p],
         req'[r].status = "ok" => sent'[r] # 0,
         bus' = "no_producer" =>
           \/ req'[r].step = "init" \/ req'[r].status = "no_bus"
           \/ bus = "no_producer" /\ req[r].step # "init"
  PROVE  Explained'
<1>1. \A p \in Requests : req[p].status = "no_bus" => req'[p].status = "no_bus" /\ p # r
  BY DEF OthersStay
<1>2. BusExplained'
  BY <1>1 DEF Explained, BusExplained, OthersStay
<1>3. OnlyGivingUpHidesLoss'
  BY <1>1 DEF Explained, OnlyGivingUpHidesLoss, OthersStay
<1> QED
  BY <1>2, <1>3 DEF Explained

LEMMA NextExplained == TypeOK /\ Progress /\ Explained /\ [Next]_vars => Explained'
<1> SUFFICES ASSUME TypeOK, Progress, Explained, [Next]_vars PROVE Explained'
  OBVIOUS
<1> USE DEF At
<1>1. CASE UNCHANGED vars
  BY <1>1 DEF vars, Explained, BusExplained, OnlyGivingUpHidesLoss
<1>2. ASSUME NEW r \in Requests, Construct(r) PROVE Explained'
  BY <1>2, ConstructEffect, ExplainedMove DEF Construct, Progress
<1>3. ASSUME NEW r \in Requests, NEW status, Answer(r, status), UNCHANGED <<bus, sent>>,
             status # "ok", req[r].step # "done", req[r].step = "init" => status = "no_bus"
      PROVE Explained'
  BY <1>3, AnswerEffect, ExplainedMove DEF Progress
<1>4. ASSUME NEW r \in Requests, Open(r) PROVE Explained'
  BY <1>4, FirstEffect, ExplainedMove DEF Open, Progress
<1>5. ASSUME NEW r \in Requests, InitProducer(r) PROVE Explained'
  BY <1>5, BodyEffect, RetryEffect, ExplainedMove DEF InitProducer, Progress
<1>6. ASSUME NEW r \in Requests, Post(r) PROVE Explained'
  <2>1. CASE Goto(r, [req[r] EXCEPT !.step = "send", !.tries = 0])
    BY <1>6, <2>1, FirstEffect, ExplainedMove DEF Post, Progress
  <2> QED
    BY <1>3, <1>6, <2>1, PostEffect DEF Post
<1>7. ASSUME NEW r \in Requests, Send(r) PROVE Explained'
  <2>1. req[r].status = "none" /\ \A p \in Requests \ {r} : sent'[p] = sent[p]
    BY <1>7 DEF Send, Progress, TypeOK
  <2>2. Answer(r, "ok") => sent'[r] # 0
    BY <1>7, RetryEffect, AnswerEffect DEF Send, TypeOK
  <2>3. OthersStay(r) /\ (req'[r].status = "ok" => sent'[r] # 0)
    BY <1>7, <2>1, <2>2, RetryEffect, AnswerEffect DEF Send
  <2> QED
    BY <1>7, <2>1, <2>3, ExplainedMove DEF Send
<1>8. ASSUME NEW r \in Requests, SendWithoutProducer(r) PROVE Explained'
  <2>1. bus = "no_producer" /\ turn = {r} /\ req[r].status = "none"
    BY <1>8 DEF SendWithoutProducer, Progress, TypeOK, Blocking
  <2>2. PICK p \in Requests : req[p].status = "no_bus"
    BY <1>8, <2>1 DEF SendWithoutProducer, Explained, BusExplained, Progress, Blocking
  <2>3. OthersStay(r)
    BY <1>8, AnswerEffect DEF SendWithoutProducer
  <2>4. p # r /\ req'[p].status = "no_bus"
    BY <2>1, <2>2, <2>3 DEF OthersStay
  <2>5. \A o \in Requests : req[o].status = "no_bus" => req'[o].status = "no_bus"
    BY <2>1, <2>3 DEF OthersStay
  <2> QED
    BY <1>8, <2>3, <2>4, <2>5
       DEF SendWithoutProducer, Explained, BusExplained, OnlyGivingUpHidesLoss, OthersStay
<1>9. CASE Restart
  <2>1. \A p \in Requests : req[p].status # "none" => req'[p] = req[p]
    BY <1>9, RestartEffect DEF Progress
  <2>2. \A p \in Requests : req'[p].status = "ok" => req'[p] = req[p]
    BY <1>9, RestartEffect
  <2>3. BusExplained'
    BY <1>9 DEF Restart, BusExplained
  <2>4. OnlyGivingUpHidesLoss'
    <3>1. UNCHANGED sent
      BY <1>9 DEF Restart
    <3>2. \A p \in Requests : req[p].status = "no_bus" => req'[p].status = "no_bus"
      BY <2>1
    <3> QED
      BY <2>2, <3>1, <3>2 DEF Explained, OnlyGivingUpHidesLoss
  <2> QED
    BY <2>3, <2>4 DEF Explained
<1>10. ASSUME NEW r \in Requests, OpenFails(r) \/ InitGivesUp(r) \/ SendGivesUp(r)
       PROVE Explained'
  BY <1>3, <1>10 DEF OpenFails, InitGivesUp, SendGivesUp
<1> QED
  BY <1>1, <1>2, <1>4, <1>5, <1>6, <1>7, <1>8, <1>9, <1>10 DEF Next, Step

\* A success that was not one is the consequence of an earlier request that
\* gave up the bus, whatever fails and whenever the agent is restarted.
THEOREM LossExplained == Spec => []OnlyGivingUpHidesLoss
<1>1. Init => Explained
  <2>1. Blank.status = "none"
    BY DEF Blank
  <2> QED
    BY <2>1 DEF Init, Explained, BusExplained, OnlyGivingUpHidesLoss
<1>2. Spec => [](TypeOK /\ Progress /\ Explained)
  BY <1>1, InitTyped, InitProgress, NextTyped, NextProgress, NextExplained, PTL DEF Spec
<1> QED
  BY <1>2, PTL DEF Explained
=============================================================================
