---------------------------- MODULE RestApiProofs ----------------------------
(***************************************************************************)
(* Proofs about RestApi: its types, the throttler's counter, the graceful  *)
(* shutdown and the status of error replies, for any set of connections,   *)
(* any quota and any number of signals.                                    *)
(***************************************************************************)
EXTENDS RestApi, ErrorResponsesProofs, FiniteSetTheorems, TLAPS

\* CancelledError is one of the exception classes rest_middleware knows.
LEMMA KnownClasses == "CancelledError" \in Classes
BY DEF Classes, Superclass

\* The counter and the types together: neither is inductive without the other,
\* since the throttler's decrement stays in Nat only because nreq counts tasks.
IInv == TypeOK /\ ThrottlerCounts

\* Every step that moves one task into, inside or out of the chain.
LEMMA CountLemma ==
  ASSUME TypeOK, NEW c \in Connections, NEW st \in TaskStates,
         task' = [task EXCEPT ![c] = st]
  PROVE  /\ InFlight' = IF st \in InFlightStates THEN InFlight \cup {c} ELSE InFlight \ {c}
         /\ Cardinality(InFlight) \in Nat
         /\ Cardinality(InFlight \cup {c}) =
              IF c \in InFlight THEN Cardinality(InFlight) ELSE Cardinality(InFlight) + 1
         /\ Cardinality(InFlight \ {c}) =
              IF c \in InFlight THEN Cardinality(InFlight) - 1 ELSE Cardinality(InFlight)
<1>1. IsFiniteSet(InFlight)
  BY RestApiAssumption, FS_Subset DEF InFlight
<1>2. Cardinality(InFlight) \in Nat
  BY <1>1, FS_CardinalityType
<1>3. InFlight' = IF st \in InFlightStates THEN InFlight \cup {c} ELSE InFlight \ {c}
  BY DEF InFlight, TypeOK
<1>4. QED
  BY <1>1, <1>2, <1>3, FS_AddElement, FS_RemoveElement

\* Initially no request is in flight.
LEMMA InitIInv == Init => IInv
<1> SUFFICES ASSUME Init PROVE IInv
  OBVIOUS
<1>1. TypeOK
  BY DEF Init, TypeOK, TaskStates, ShutStates, Replies, Statuses, NoReply
<1>2. InFlight = {}
  BY DEF Init, InFlight, InFlightStates
<1>3. ThrottlerCounts
  BY <1>2, FS_EmptySet, RestApiAssumption DEF Init, ThrottlerCounts
<1> QED
  BY <1>1, <1>3 DEF IInv

\* What a client does moves no task into or out of the chain.
LEMMA ClientStep ==
  ASSUME IInv, NEW c \in Connections, Client(c)
  PROVE  IInv'
<1> USE DEF IInv
<1>1. CASE Accept(c)
  <2>1. TypeOK'
    BY <1>1 DEF Accept, TypeOK, TaskStates, Replies, Statuses, NoReply, shutVars
  <2>2. InFlight' = InFlight
    BY <1>1 DEF Accept, InFlight, InFlightStates, TypeOK
  <2> QED
    BY <1>1, <2>1, <2>2 DEF Accept, ThrottlerCounts
<1>2. CASE Close(c)
  <2>1. TypeOK'
    BY <1>2 DEF Close, Disconnect, TypeOK, TaskStates, shutVars
  <2>2. InFlight' = InFlight
    BY <1>2 DEF Close, InFlight, InFlightStates, TypeOK
  <2> QED
    BY <1>2, <2>1, <2>2 DEF Close, ThrottlerCounts
<1>3. CASE ClientDisconnect(c)
  <2>1. TypeOK'
    BY <1>3 DEF ClientDisconnect, Disconnect, TypeOK, shutVars
  <2>2. InFlight' = InFlight
    BY <1>3 DEF ClientDisconnect, InFlight
  <2> QED
    BY <1>3, <2>1, <2>2 DEF ClientDisconnect, ThrottlerCounts
<1> QED
  BY <1>1, <1>2, <1>3 DEF Client

\* A request enters the chain with an increment and leaves it with a decrement.
LEMMA ChainStep ==
  ASSUME IInv, NEW c \in Connections, Chain(c)
  PROVE  IInv'
<1> USE DEF IInv
<1>0. TypeOK /\ ThrottlerCounts
  OBVIOUS
<1>1. CASE Block(c) \/ Refuse(c)
  <2>1. PICK st \in {"idle", "ended"} : task' = [task EXCEPT ![c] = st]
    BY <1>1 DEF Block, Refuse, Answer
  <2>2. c \notin InFlight /\ nreq' = nreq
    BY <1>1 DEF Block, Refuse, Runs, InFlight, InFlightStates
  <2>3. PICK status \in Statuses :
          reply' = [reply EXCEPT ![c] = [raised |-> "nothing", status |-> status]]
    BY <1>1 DEF Block, Refuse, Answer, Statuses
  <2>4. reply' \in [Connections -> Replies]
    BY <1>0, <2>3 DEF TypeOK, Replies
  <2>5. nblocked' \in Nat
    BY <1>0, <1>1 DEF Block, Refuse, TypeOK
  <2>6. TypeOK'
    BY <1>0, <1>1, <2>1, <2>2, <2>4, <2>5
       DEF Block, Refuse, Answer, TypeOK, TaskStates, shutVars
  <2> QED
    BY <1>0, <2>1, <2>2, <2>6, CountLemma DEF ThrottlerCounts, TaskStates, InFlightStates
<1>2. CASE Admit(c)
  <2>1. PICK st \in InFlightStates : task' = [task EXCEPT ![c] = st]
    BY <1>2 DEF Admit, Proceed
  <2>2. c \notin InFlight /\ nreq' = nreq + 1 /\ nreq < RequestQuota
    BY <1>2 DEF Admit, Runs, InFlight, InFlightStates
  <2>3. TypeOK'
    BY <1>0, <1>2 DEF Admit, Proceed, TypeOK, TaskStates, InFlightStates, shutVars
  <2>4. Cardinality(InFlight') = Cardinality(InFlight) + 1
    BY <1>0, <2>1, <2>2, CountLemma DEF TaskStates
  <2>5. nreq' <= RequestQuota
    BY <1>0, <2>2, RestApiAssumption DEF TypeOK
  <2> QED
    BY <1>0, <2>2, <2>3, <2>4, <2>5 DEF ThrottlerCounts
<1>3. CASE ReadBody(c) \/ Authorise(c)
  <2>1. PICK st \in InFlightStates : task' = [task EXCEPT ![c] = st]
    BY <1>3 DEF ReadBody, Authorise, Proceed, InFlightStates
  <2>2. c \in InFlight /\ nreq' = nreq
    BY <1>3 DEF ReadBody, Authorise, Runs, InFlight, InFlightStates
  <2>3. TypeOK'
    BY <1>0, <1>3 DEF ReadBody, Authorise, Proceed, TypeOK, TaskStates, InFlightStates, shutVars
  <2> QED
    BY <1>0, <2>1, <2>2, <2>3, CountLemma DEF ThrottlerCounts, TaskStates
<1>4. CASE Reject(c) \/ Return(c) \/ Raise(c)
  <2>1. PICK e \in Classes \cup {"nothing"}, status \in Statuses : Answer(c, e, status)
    <3>1. Answer(c, "nothing", 200) \/ \E e \in Raised : AnswerRaised(c, e)
      BY <1>4 DEF Reject, Return, Raise, AuthFailures
    <3>2. CASE \E e \in Raised : AnswerRaised(c, e)
      <4>1. PICK e \in Raised : AnswerRaised(c, e)
        BY <3>2
      <4>2. e \in Classes /\ StatusOf(e) \in Statuses /\ 500 \in Statuses
        BY RestApiAssumption DEF Statuses
      <4> QED
        BY <4>1, <4>2 DEF AnswerRaised
    <3> QED
      BY <3>1, <3>2 DEF Statuses
  <2>2. PICK st \in {"idle", "ended"} : task' = [task EXCEPT ![c] = st]
    BY <2>1 DEF Answer
  <2>3. c \in InFlight /\ nreq' = nreq - 1 /\ nblocked' = nblocked
    BY <1>4 DEF Reject, Return, Raise, Runs, InFlight, InFlightStates, Release
  <2>4. nreq' = Cardinality(InFlight')
    BY <1>0, <2>2, <2>3, CountLemma DEF ThrottlerCounts, TaskStates, InFlightStates
  <2>5. nreq' \in Nat /\ nreq' <= RequestQuota
    <3>1. InFlight \ {c} = InFlight'
      BY <1>0, <2>2, CountLemma DEF TaskStates, InFlightStates
    <3>2. IsFiniteSet(InFlight')
      BY <3>1, RestApiAssumption, FS_Subset DEF InFlight
    <3> QED
      BY <1>0, <2>3, <2>4, <3>2, FS_CardinalityType, RestApiAssumption DEF ThrottlerCounts, TypeOK
  <2>6. TypeOK'
    BY <1>0, <2>1, <2>2, <2>3, <2>5 DEF Answer, TypeOK, TaskStates, Replies, shutVars
  <2> QED
    BY <2>4, <2>5, <2>6 DEF ThrottlerCounts
<1>5. CASE SwallowCancel(c)
  <2>1. PICK st \in InFlightStates : task' = [task EXCEPT ![c] = st]
    BY <1>5 DEF SwallowCancel, InFlightStates
  <2>2. c \in InFlight /\ nreq' = nreq
    BY <1>5 DEF SwallowCancel, InFlight, InFlightStates
  <2>3. TypeOK'
    BY <1>0, <1>5 DEF SwallowCancel, TypeOK, TaskStates, InFlightStates, shutVars
  <2> QED
    BY <1>0, <2>1, <2>2, <2>3, CountLemma DEF ThrottlerCounts, TaskStates
<1>6. CASE Cancelled(c)
  <2>1. PICK st \in {"idle", "ended"} : task' = [task EXCEPT ![c] = st]
    BY <1>6 DEF Cancelled
  <2>2. c \in InFlight /\ nreq' = nreq - 1
    BY <1>6 DEF Cancelled, Release, InFlight
  <2>3. InFlight' = InFlight \ {c}
    BY <1>0, <2>1, CountLemma DEF TaskStates, InFlightStates
  <2>4. nreq' = Cardinality(InFlight')
    BY <1>0, <2>1, <2>2, <2>3, CountLemma DEF ThrottlerCounts, TaskStates, InFlightStates
  <2>5. nreq' \in Nat /\ nreq' <= RequestQuota
    <3>1. IsFiniteSet(InFlight')
      BY <2>3, RestApiAssumption, FS_Subset DEF InFlight
    <3> QED
      BY <1>0, <2>2, <2>4, <3>1, FS_CardinalityType, RestApiAssumption DEF ThrottlerCounts, TypeOK
  <2>6. reply' \in [Connections -> Replies]
    BY <1>0, <1>6, KnownClasses DEF Cancelled, TypeOK, Replies, Statuses
  <2>7. TypeOK'
    BY <1>0, <1>6, <2>1, <2>5, <2>6 DEF Cancelled, TypeOK, TaskStates, shutVars
  <2> QED
    BY <2>4, <2>5, <2>7 DEF ThrottlerCounts
<1>7. CASE IdleCancelled(c)
  <2>1. TypeOK'
    BY <1>7 DEF IdleCancelled, Disconnect, TypeOK, TaskStates, shutVars
  <2>2. InFlight' = InFlight
    BY <1>7 DEF IdleCancelled, InFlight, InFlightStates, TypeOK
  <2> QED
    BY <1>7, <2>1, <2>2 DEF IdleCancelled, ThrottlerCounts
<1> QED
  BY <1>1, <1>2, <1>3, <1>4, <1>5, <1>6, <1>7 DEF Chain

\* A signal handler cancels tasks; the counter moves when the tasks run.
LEMMA SignalStep ==
  ASSUME IInv, NEW s \in Signals, Signal(s)
  PROVE  IInv'
<1> USE DEF IInv
<1>1. task' = task /\ nreq' = nreq
  BY DEF Signal, HandleSigint, HandleSigterm, CancelAfterDrain, Stop
<1>2. InFlight' = InFlight
  BY <1>1 DEF InFlight
<1>3. TypeOK'
  BY DEF Signal, HandleSigint, HandleSigterm, CancelAfterDrain, Stop, CancelOthers,
         TypeOK, ShutStates
<1> QED
  BY <1>1, <1>2, <1>3 DEF ThrottlerCounts

\* IInv is inductive.
LEMMA NextIInv == IInv /\ [Next]_vars => IInv'
<1> SUFFICES ASSUME IInv, [Next]_vars PROVE IInv'
  OBVIOUS
<1>1. CASE UNCHANGED vars
  BY <1>1 DEF IInv, TypeOK, ThrottlerCounts, InFlight, vars
<1>2. CASE Next
  BY <1>2, ClientStep, ChainStep, SignalStep DEF Next
<1> QED
  BY <1>1, <1>2

\* The state of the front end keeps its types; in particular the throttler's
\* counter, decremented in a finally block, never goes below zero.
THEOREM TypeCorrect == Spec => []TypeOK
<1>1. IInv => TypeOK
  BY DEF IInv
<1> QED
  BY <1>1, InitIInv, NextIInv, PTL DEF Spec

\* Whatever the quota, the number of connections and the interleaving of
\* responses, exceptions, disconnects and shutdowns, __nreq is the number of
\* requests inside the chain and stays within the quota.
THEOREM ThrottlerCorrect == Spec => []ThrottlerCounts
<1>1. IInv => ThrottlerCounts
  BY DEF IInv
<1> QED
  BY <1>1, InitIInv, NextIInv, PTL DEF Spec

-----------------------------------------------------------------------------
\* Clients and requests keep what a waiting SIGTERM knows: a task enters the
\* chain only while no signal was handled, and a connection leaves
\* original_connections only by leaving server.connections.
LEMMA WaitersRequestStep ==
  ASSUME TypeOK, WaitersCoverInFlight, NEW c \in Connections, Client(c) \/ Chain(c)
  PROVE  WaitersCoverInFlight'
<1>1. shut' = shut /\ isShuttingDown' = isShuttingDown
  BY DEF Client, Chain, Accept, Close, ClientDisconnect, Block, Refuse, Admit, ReadBody,
         Authorise, Reject, Return, Raise, AnswerRaised, SwallowCancel, Cancelled,
         IdleCancelled, Answer, Proceed, shutVars
<1>2. CASE Admit(c)
  BY <1>1, <1>2 DEF Admit, WaitersCoverInFlight
<1>3. CASE Accept(c)
  <2>1. InFlight' = InFlight /\ c \notin InFlight
    BY <1>3 DEF Accept, InFlight, InFlightStates, TypeOK
  <2>2. connections' = connections \cup {c} /\ original' = original
    BY <1>3 DEF Accept
  <2> QED
    BY <1>1, <2>1, <2>2 DEF WaitersCoverInFlight
<1>4. CASE Close(c) \/ ClientDisconnect(c) \/ IdleCancelled(c)
  <2>1. InFlight' \subseteq InFlight
    BY <1>4 DEF Close, ClientDisconnect, IdleCancelled, InFlight, InFlightStates, TypeOK
  <2>2. connections' = connections \ {c} /\ original' = [s \in Signals |-> original[s] \ {c}]
    BY <1>4 DEF Close, ClientDisconnect, IdleCancelled, Disconnect
  <2> QED
    BY <1>1, <2>1, <2>2 DEF WaitersCoverInFlight
<1>5. CASE \/ Block(c) \/ Refuse(c) \/ ReadBody(c) \/ Authorise(c)
           \/ Reject(c) \/ Return(c) \/ Raise(c) \/ SwallowCancel(c) \/ Cancelled(c)
  <2>1. connections' = connections /\ original' = original
    BY <1>5 DEF Block, Refuse, ReadBody, Authorise, Reject, Return, Raise, SwallowCancel,
                Cancelled, AnswerRaised, Answer, Proceed
  <2>2. CASE Block(c) \/ Refuse(c) \/ Reject(c) \/ Return(c) \/ Raise(c) \/ Cancelled(c)
    <3>1. PICK st \in {"idle", "ended"} : task' = [task EXCEPT ![c] = st]
      BY <2>2 DEF Block, Refuse, Reject, Return, Raise, Cancelled, AnswerRaised, Answer
    <3>2. InFlight' \subseteq InFlight
      BY <3>1 DEF InFlight, InFlightStates, TypeOK
    <3> QED
      BY <1>1, <2>1, <3>2 DEF WaitersCoverInFlight
  <2>3. CASE ReadBody(c) \/ Authorise(c) \/ SwallowCancel(c)
    <3>1. PICK st \in {"auth", "handler"} : task' = [task EXCEPT ![c] = st]
      BY <2>3 DEF ReadBody, Authorise, SwallowCancel, Proceed
    <3>2. c \in InFlight
      BY <2>3 DEF ReadBody, Authorise, SwallowCancel, Runs, InFlight, InFlightStates
    <3>3. InFlight' \subseteq InFlight
      BY <3>1, <3>2 DEF InFlight, InFlightStates, TypeOK
    <3> QED
      BY <1>1, <2>1, <3>3 DEF WaitersCoverInFlight
  <2> QED
    BY <1>5, <2>2, <2>3
<1> QED
  BY <1>2, <1>3, <1>4, <1>5 DEF Client, Chain

\* The flag and the copy of server.connections are set in one step.
LEMMA WaitersSignalStep ==
  ASSUME TypeOK, WaitersCoverInFlight, NEW s \in Signals, Signal(s)
  PROVE  WaitersCoverInFlight'
<1>1. InFlight' = InFlight /\ connections' = connections
  BY DEF Signal, HandleSigint, HandleSigterm, CancelAfterDrain, Stop, InFlight
<1>2. CASE HandleSigterm(s)
  BY <1>1, <1>2 DEF HandleSigterm, WaitersCoverInFlight, TypeOK
<1>3. CASE HandleSigint(s)
  BY <1>1, <1>3 DEF HandleSigint, CancelOthers, WaitersCoverInFlight, TypeOK
<1>4. CASE CancelAfterDrain(s)
  BY <1>1, <1>4 DEF CancelAfterDrain, CancelOthers, WaitersCoverInFlight, TypeOK
<1>5. CASE Stop(s)
  BY <1>1, <1>5 DEF Stop, WaitersCoverInFlight, TypeOK
<1> QED
  BY <1>2, <1>3, <1>4, <1>5 DEF Signal

\* Every request in flight with a connected client is on a connection that a
\* waiting SIGTERM still waits for.
THEOREM WaitersCorrect == Spec => []WaitersCoverInFlight
<1>1. Init => WaitersCoverInFlight
  BY DEF Init, WaitersCoverInFlight
<1>2. TypeOK /\ WaitersCoverInFlight /\ [Next]_vars => WaitersCoverInFlight'
  <2> SUFFICES ASSUME TypeOK, WaitersCoverInFlight, [Next]_vars
               PROVE  WaitersCoverInFlight'
    OBVIOUS
  <2>1. CASE UNCHANGED vars
    BY <2>1 DEF WaitersCoverInFlight, InFlight, vars
  <2>2. CASE Next
    BY <2>2, WaitersRequestStep, WaitersSignalStep DEF Next
  <2> QED
    BY <2>1, <2>2
<1> QED
  BY <1>1, <1>2, TypeCorrect, PTL DEF Spec

\* SIGTERM alone never cancels a request whose client is still connected.
THEOREM Graceful == Spec => SigtermIsGraceful
<1> DEFINE Step == \/ (\E s \in Signals : Kind[s] = "SIGINT" /\ shut[s] # "none")'
                   \/ (cancelled' \ cancelled) \cap InFlight \cap connections' = {}
<1>1. ASSUME TypeOK, WaitersCoverInFlight, [Next]_vars
      PROVE  [Step]_vars
  <2>1. CASE UNCHANGED vars
    BY <2>1
  <2>2. ASSUME NEW c \in Connections, Client(c) \/ Chain(c)
        PROVE  Step
    <3>1. CASE ClientDisconnect(c)
      BY <3>1 DEF ClientDisconnect, Disconnect
    <3>2. CASE ~ClientDisconnect(c)
      <4>1. cancelled' \subseteq cancelled
        BY <2>2, <3>2 DEF Client, Chain, Accept, Close, Block, Refuse, Admit, ReadBody, Authorise,
            Reject, Return, Raise, AnswerRaised, SwallowCancel, Cancelled, IdleCancelled,
            Answer, Proceed
      <4> QED
        BY <4>1
    <3> QED
      BY <3>1, <3>2
  <2>3. ASSUME NEW s \in Signals, Signal(s)
        PROVE  Step
    <3>1. CASE HandleSigint(s)
      BY <3>1 DEF HandleSigint, CancelOthers, TypeOK
    <3>2. CASE HandleSigterm(s) \/ Stop(s)
      BY <3>2 DEF HandleSigterm, Stop
    <3>3. CASE CancelAfterDrain(s)
      <4>1. shut[s] = "wait" /\ original[s] = {} /\ connections' = connections
        BY <3>3 DEF CancelAfterDrain, Drained
      <4>2. InFlight \cap connections \subseteq original[s]
        BY <1>1, <4>1 DEF WaitersCoverInFlight
      <4> QED
        BY <4>1, <4>2
    <3> QED
      BY <2>3, <3>1, <3>2, <3>3 DEF Signal
  <2> QED
    BY <1>1, <2>1, <2>2, <2>3 DEF Next
<1> QED
  BY <1>1, TypeCorrect, WaitersCorrect, PTL DEF Spec, SigtermIsGraceful

-----------------------------------------------------------------------------
\* An answer that names an exception has the status of its except clause, or is
\* aiohttp's 500 to an exception without text.
Answered ==
  \A c \in Connections : reply[c].raised # "nothing" =>
    /\ reply[c].raised \in Classes
    /\ \/ reply[c].status = StatusOf(reply[c].raised)
       \/ reply[c].raised \in Wordless /\ reply[c].status = 500

\* A request is answered without an exception, or as its exception demands.
LEMMA AnsweredReply ==
  ASSUME TypeOK, Answered, NEW c \in Connections, NEW e, NEW status,
         reply' = [reply EXCEPT ![c] = [raised |-> e, status |-> status]],
         \/ e = "nothing"
         \/ e \in Classes /\ (status = StatusOf(e) \/ (e \in Wordless /\ status = 500))
  PROVE  Answered'
BY DEF TypeOK, Answered

LEMMA AnsweredStep == TypeOK /\ Answered /\ [Next]_vars => Answered'
<1> SUFFICES ASSUME TypeOK, Answered, [Next]_vars PROVE Answered'
  OBVIOUS
<1>1. CASE UNCHANGED reply
  BY <1>1 DEF Answered
<1>2. CASE UNCHANGED vars
  BY <1>1, <1>2 DEF vars
<1>3. ASSUME NEW c \in Connections, Client(c) PROVE Answered'
  <2>1. CASE Accept(c)
    BY <2>1, AnsweredReply DEF Accept, NoReply
  <2> QED
    BY <1>1, <1>3, <2>1 DEF Client, Close, ClientDisconnect
<1>4. ASSUME NEW c \in Connections, Chain(c) PROVE Answered'
  <2>1. CASE Admit(c) \/ ReadBody(c) \/ Authorise(c) \/ SwallowCancel(c) \/ IdleCancelled(c)
    BY <1>1, <2>1 DEF Admit, ReadBody, Authorise, SwallowCancel, IdleCancelled, Proceed
  <2>2. CASE Cancelled(c)
    BY <1>1, <2>2, AnsweredReply, KnownClasses DEF Cancelled
  <2>3. ASSUME NEW status, Answer(c, "nothing", status) PROVE Answered'
    BY <2>3, AnsweredReply DEF Answer
  <2>4. ASSUME NEW e \in Raised, AnswerRaised(c, e) PROVE Answered'
    <3>1. e \in Classes
      BY RestApiAssumption
    <3> QED
      BY <2>4, <3>1, AnsweredReply DEF AnswerRaised, Answer
  <2>5. CASE Block(c) \/ Refuse(c) \/ Return(c)
    BY <2>3, <2>5 DEF Block, Refuse, Return
  <2>6. CASE Reject(c)
    BY <2>4, <2>6 DEF Reject, AuthFailures
  <2>7. CASE Raise(c)
    BY <2>4, <2>7 DEF Raise
  <2> QED
    BY <1>4, <2>1, <2>2, <2>5, <2>6, <2>7 DEF Chain
<1>5. ASSUME NEW s \in Signals, Signal(s) PROVE Answered'
  BY <1>1, <1>5 DEF Signal, HandleSigint, HandleSigterm, CancelAfterDrain, Stop
<1> QED
  BY <1>2, <1>3, <1>4, <1>5 DEF Next

\* Every answer to an exception, also to a cancellation, has the status of the
\* clause that names the nearest superclass of the exception; the one other
\* answer is the 500 that an exception of a Wordless class may get.
THEOREM NearestClauseCorrect == Spec => []NearestClauseAnswers
<1>1. Init => Answered
  BY DEF Init, Answered, NoReply
<1>2. Answered => NearestClauseAnswers
  BY NoClauseShadows DEF Answered, NearestClauseAnswers, StatusTable
<1> QED
  BY <1>1, <1>2, AnsweredStep, TypeCorrect, PTL DEF Spec
=============================================================================
