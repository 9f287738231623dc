------------------------ MODULE ErrorResponsesProofs ------------------------
(***************************************************************************)
(* Proof that no except clause of rest_middleware shadows a later, narrower*)
(* one: the first clause that matches is the one that names the nearest    *)
(* superclass.  The argument is that the clauses go from narrow to broad:  *)
(* the clause that answers a class never comes after the one that answers  *)
(* its superclass.                                                         *)
(***************************************************************************)
EXTENDS ErrorResponses, Integers, TLAPS

\* The clause that answers each class: the one that names it or, for the
\* classes no clause names, its superclass.
Clause ==
  [ CancelledError |-> 1, CsmHttpException |-> 2, HTTPException |-> 3, HTTPNotFound |-> 3,
    DataAccessError |-> 4, InvalidRequest |-> 5, CsmNotFoundError |-> 6,
    CsmPermissionDenied |-> 7, ResourceExist |-> 8, CsmInternalError |-> 9,
    CsmResourceNotAvailable |-> 9, CsmTypeError |-> 9, CsmNotImplemented |-> 10,
    CsmGatewayTimeout |-> 11, CsmServiceConflict |-> 12, CsmUnauthorizedError |-> 13,
    CsmError |-> 14, CsmServiceNotAvailable |-> 14, CsmSetupError |-> 14,
    CsmRequestCancelled |-> 14, KeyError |-> 15,
    ServerDisconnectedError |-> 16, ClientConnectorError |-> 16, ClientOSError |-> 16,
    TimeoutError |-> 16, BaseError |-> 17, AttributeError |-> 17,
    S3ServiceError |-> 17, Exception |-> 17 ]

\* The classes that no clause names; all their superclasses are named.
Unnamed == {"HTTPNotFound", "CsmResourceNotAvailable", "CsmTypeError",
            "CsmServiceNotAvailable", "CsmSetupError", "CsmRequestCancelled",
            "BaseError", "AttributeError", "S3ServiceError"}

\* There are 17 clauses.
LEMMA ClauseCount == DOMAIN ExceptClauses = 1..17
BY DEF ExceptClauses

\* Every class is answered, and its superclass is a class.
LEMMA ClauseTypes == \A e \in Classes : Clause[e] \in 1..17 /\ Above(e) \in Classes
BY DEF Clause, Classes, Superclass, Above

\* Narrow before broad.
LEMMA ClausesNarrowToBroad == \A e \in Classes : Clause[e] <= Clause[Above(e)]
BY DEF Clause, Classes, Superclass, Above

\* A clause names exactly the classes it answers and does not inherit.
LEMMA ClauseNames ==
  ASSUME NEW i \in 1..17, NEW e \in Classes
  PROVE  e \in ExceptClauses[i].of <=> Clause[e] = i /\ e \notin Unnamed
<1>1. /\ ExceptClauses[1].of = {"CancelledError"}
      /\ ExceptClauses[2].of = {"CsmHttpException"}
      /\ ExceptClauses[3].of = {"HTTPException"}
      /\ ExceptClauses[4].of = {"DataAccessError"}
      /\ ExceptClauses[5].of = {"InvalidRequest"}
      /\ ExceptClauses[6].of = {"CsmNotFoundError"}
      /\ ExceptClauses[7].of = {"CsmPermissionDenied"}
      /\ ExceptClauses[8].of = {"ResourceExist"}
      /\ ExceptClauses[9].of = {"CsmInternalError"}
      /\ ExceptClauses[10].of = {"CsmNotImplemented"}
      /\ ExceptClauses[11].of = {"CsmGatewayTimeout"}
      /\ ExceptClauses[12].of = {"CsmServiceConflict"}
      /\ ExceptClauses[13].of = {"CsmUnauthorizedError"}
      /\ ExceptClauses[14].of = {"CsmError"}
      /\ ExceptClauses[15].of = {"KeyError"}
      /\ ExceptClauses[16].of = {"ServerDisconnectedError", "ClientConnectorError", "ClientOSError", "TimeoutError"}
      /\ ExceptClauses[17].of = {"Exception"}
  BY DEF ExceptClauses
<1>2. i \in {1, 2, 3, 4, 5, 6, 7, 8, 9, 10, 11, 12, 13, 14, 15, 16, 17}
  OBVIOUS
<1>3. e \in ExceptClauses[i].of => Clause[e] = i /\ e \notin Unnamed
  BY <1>1, <1>2 DEF Clause, Unnamed
<1>4. e \in Unnamed \/ e \in ExceptClauses[Clause[e]].of
  BY <1>1 DEF Clause, Classes, Superclass, Unnamed
<1> QED
  BY <1>3, <1>4

\* A class no clause names is answered as its superclass is, which has a clause.
LEMMA UnnamedLikeSuperclass ==
  \A e \in Unnamed : e \in Classes /\ Above(e) \in Classes \ Unnamed /\ Clause[Above(e)] = Clause[e]
BY DEF Clause, Classes, Superclass, Above, Unnamed

\* Going up the superclasses never leads to an earlier clause.
LEMMA MatchedBelow ==
  ASSUME NEW e \in Classes, NEW k \in 1..5
  PROVE  Ancestry(e)[k] \in Classes /\ Clause[e] <= Clause[Ancestry(e)[k]]
<1> DEFINE a2 == Above(e)
           a3 == Above(a2)
           a4 == Above(a3)
           a5 == Above(a4)
<1>1. Ancestry(e) = <<e, a2, a3, a4, a5>>
  BY DEF Ancestry
<1>2. a2 \in Classes /\ a3 \in Classes /\ a4 \in Classes /\ a5 \in Classes
  BY ClauseTypes
<1>3. /\ Clause[e] <= Clause[a2] /\ Clause[a2] <= Clause[a3]
      /\ Clause[a3] <= Clause[a4] /\ Clause[a4] <= Clause[a5]
  BY <1>2, ClausesNarrowToBroad
<1>4. /\ Clause[e] \in Int /\ Clause[a2] \in Int /\ Clause[a3] \in Int /\ Clause[a4] \in Int
      /\ Clause[a5] \in Int
  BY <1>2, ClauseTypes
<1> HIDE DEF a2, a3, a4, a5
<1>5. k \in {1, 2, 3, 4, 5}
  OBVIOUS
<1> QED
  BY <1>1, <1>2, <1>3, <1>4, <1>5

\* The clause of a class matches it and no earlier one does.
LEMMA Answering ==
  ASSUME NEW e \in Classes
  PROVE  /\ Matches(Clause[e], e)
         /\ \A j \in 1..(Clause[e] - 1) : ~Matches(j, e)
<1>0. Clause[e] \in 1..17 /\ Above(e) \in Classes
  BY ClauseTypes
<1>1. Ancestry(e)[1] = e /\ Ancestry(e)[2] = Above(e)
  BY DEF Ancestry
<1>2. Matches(Clause[e], e)
  <2>1. CASE e \in Unnamed
    <3>1. Ancestry(e)[2] \in ExceptClauses[Clause[e]].of
      BY <1>0, <1>1, <2>1, UnnamedLikeSuperclass, ClauseNames
    <3> QED
      BY <3>1 DEF Matches
  <2>2. CASE e \notin Unnamed
    <3>1. Ancestry(e)[1] \in ExceptClauses[Clause[e]].of
      BY <1>0, <1>1, <2>2, ClauseNames
    <3> QED
      BY <3>1 DEF Matches
  <2> QED
    BY <2>1, <2>2
<1>3. ASSUME NEW j \in 1..(Clause[e] - 1), Matches(j, e) PROVE FALSE
  <2>1. PICK k \in 1..5 : Ancestry(e)[k] \in ExceptClauses[j].of
    BY <1>3 DEF Matches
  <2>2. Ancestry(e)[k] \in Classes /\ Clause[e] <= Clause[Ancestry(e)[k]]
    BY MatchedBelow
  <2>3. j \in 1..17
    BY <1>0
  <2>4. Clause[Ancestry(e)[k]] = j
    BY <2>1, <2>2, <2>3, ClauseNames
  <2> QED
    BY <1>0, <2>2, <2>3, <2>4
<1> QED
  BY <1>2, <1>3

\* What the chain of except clauses answers.
LEMMA FirstClause ==
  ASSUME NEW e \in Classes PROVE StatusOf(e) = ExceptClauses[Clause[e]].status
<1> DEFINE P(i) == Matches(i, e) /\ \A j \in 1..(i - 1) : ~Matches(j, e)
           first == CHOOSE i \in DOMAIN ExceptClauses : P(i)
<1>0. Clause[e] \in DOMAIN ExceptClauses /\ P(Clause[e])
  BY ClauseTypes, ClauseCount, Answering
<1>1. first \in DOMAIN ExceptClauses /\ P(first)
  <2> HIDE DEF P
  <2> QED
    BY <1>0
<1>2. first = Clause[e]
  <2> SUFFICES ASSUME NEW i \in 1..17, P(i) PROVE i = Clause[e]
    BY <1>1, ClauseCount
  <2>1. ~(i < Clause[e])
    BY <1>0, ClauseCount
  <2>2. ~(i > Clause[e])
    BY <1>0, ClauseCount
  <2> QED
    BY <1>0, <2>1, <2>2, ClauseCount
<1> QED
  BY <1>2 DEF StatusOf

\* What the clause of the nearest superclass answers.
LEMMA NearestClause ==
  ASSUME NEW e \in Classes PROVE NearestStatus(e) = ExceptClauses[Clause[e]].status
<1> DEFINE named(x) == \E i \in DOMAIN ExceptClauses : x \in ExceptClauses[i].of
           P(n) == named(Ancestry(e)[n]) /\ \A m \in 1..(n - 1) : ~named(Ancestry(e)[m])
           k == CHOOSE n \in 1..5 : P(n)
           Q(i) == Ancestry(e)[k] \in ExceptClauses[i].of
           c == CHOOSE i \in DOMAIN ExceptClauses : Q(i)
<1>1. Ancestry(e)[1] = e /\ Ancestry(e)[2] = Above(e)
  BY DEF Ancestry
<1>2. \A x \in Classes : named(x) <=> x \notin Unnamed
  BY ClauseCount, ClauseNames, ClauseTypes
<1>3. P(IF e \in Unnamed THEN 2 ELSE 1)
  BY <1>1, <1>2, ClauseTypes, UnnamedLikeSuperclass
<1>4. k \in 1..5 /\ P(k)
  <2> HIDE DEF P
  <2> QED
    BY <1>3
<1>5. k = IF e \in Unnamed THEN 2 ELSE 1
  <2> HIDE DEF named, k
  <2> QED
    BY <1>3, <1>4
<1>6. Ancestry(e)[k] \in Classes \ Unnamed /\ Clause[Ancestry(e)[k]] = Clause[e]
  <2> HIDE DEF k
  <2> QED
    BY <1>1, <1>5, UnnamedLikeSuperclass
<1>7. \A i \in DOMAIN ExceptClauses : Q(i) <=> i = Clause[e]
  <2> HIDE DEF k
  <2> QED
    BY <1>6, ClauseNames, ClauseCount
<1>8. c = Clause[e]
  <2> HIDE DEF Q
  <2> QED
    BY <1>7, ClauseTypes, ClauseCount
<1> QED
  BY <1>8 DEF NearestStatus

\* Each exception gets the status of the except clause that names its nearest
\* superclass, whatever broader clauses there are: the order of the clauses in
\* rest_middleware decides nothing else.
THEOREM NoClauseShadows == StatusTable = NearestTable
BY FirstClause, NearestClause DEF StatusTable, NearestTable
=============================================================================
