--------------------------- MODULE ErrorResponses ---------------------------
(***************************************************************************)
(* How rest_middleware (csm/core/agent/api.py) turns what a handler raises *)
(* into an HTTP status.  The chain of except clauses is a sequence, tried  *)
(* from first to last; a clause matches an exception whose class, or a     *)
(* superclass of it, the clause names.                                     *)
(***************************************************************************)
EXTENDS Naturals, Sequences

\* csm/common/errors.py and the exceptions rest_middleware imports: each class
\* with its direct superclass.  CommandTerminated is missing: a KeyboardInterrupt
\* is no Exception, and none of the clauses catches it.  On the Python 3.6 the agent is built with
\* (cicd/build.sh), CancelledError is an Exception like any other.
Superclass ==
  [ CancelledError |-> "Exception", HTTPException |-> "Exception",
    CsmHttpException |-> "HTTPException", HTTPNotFound |-> "HTTPException",
    DataAccessError |-> "BaseError", BaseError |-> "Exception",
    CsmError |-> "BaseError", InvalidRequest |-> "CsmError",
    ResourceExist |-> "CsmError", CsmInternalError |-> "CsmError",
    CsmNotFoundError |-> "CsmError", CsmPermissionDenied |-> "CsmError",
    CsmResourceNotAvailable |-> "CsmInternalError", CsmTypeError |-> "CsmInternalError",
    CsmNotImplemented |-> "CsmError", CsmServiceConflict |-> "CsmError",
    CsmGatewayTimeout |-> "CsmError", CsmUnauthorizedError |-> "CsmError",
    CsmServiceNotAvailable |-> "CsmError", CsmSetupError |-> "CsmError",
    CsmRequestCancelled |-> "CsmError", S3ServiceError |-> "Exception", KeyError |-> "Exception",
    ServerDisconnectedError |-> "Exception", ClientOSError |-> "Exception",
    ClientConnectorError |-> "ClientOSError", TimeoutError |-> "Exception",
    AttributeError |-> "Exception" ]

Classes == DOMAIN Superclass \cup {"Exception"}

\* Instances: what isinstance() accepts for an exception of class e, nearest
\* first.  No class is more than four steps below Exception.
Above(e) == IF e = "Exception" THEN e ELSE Superclass[e]
Ancestry(e) == <<e, Above(e), Above(Above(e)), Above(Above(Above(e))),
                 Above(Above(Above(Above(e))))>>

\* An HTTPException carries its own status: that of an unknown path, here.
Own == 404

\* The except clauses in source order, each with the status it answers.
ExceptClauses == <<
  [of |-> {"CancelledError"},         status |-> 499],
  [of |-> {"CsmHttpException"},       status |-> Own],
  [of |-> {"HTTPException"},          status |-> Own],
  [of |-> {"DataAccessError"},        status |-> 503],
  [of |-> {"InvalidRequest"},         status |-> 400],
  [of |-> {"CsmNotFoundError"},       status |-> 404],
  [of |-> {"CsmPermissionDenied"},    status |-> 403],
  [of |-> {"ResourceExist"},          status |-> 409],
  [of |-> {"CsmInternalError"},       status |-> 500],
  [of |-> {"CsmNotImplemented"},      status |-> 501],
  [of |-> {"CsmGatewayTimeout"},      status |-> 504],
  [of |-> {"CsmServiceConflict"},     status |-> 409],
  [of |-> {"CsmUnauthorizedError"},   status |-> 401],
  [of |-> {"CsmError"},               status |-> 400],
  [of |-> {"KeyError"},               status |-> 422],
  [of |-> {"ServerDisconnectedError", "ClientConnectorError", "ClientOSError",
           "TimeoutError"},           status |-> 503],
  [of |-> {"Exception"},              status |-> 500] >>

Matches(i, e) == \E k \in 1..5 : Ancestry(e)[k] \in ExceptClauses[i].of

\* Mutant of StatusOf: the broadest clause comes first.
StatusOfBroadest(e) ==
  LET last == CHOOSE i \in DOMAIN ExceptClauses :
                Matches(i, e) /\ \A j \in DOMAIN ExceptClauses : j > i => ~Matches(j, e)
  IN ExceptClauses[last].status

\* The first clause that matches decides.
StatusOf(e) ==
  LET first == CHOOSE i \in DOMAIN ExceptClauses :
                 Matches(i, e) /\ \A j \in 1..(i - 1) : ~Matches(j, e)
  IN ExceptClauses[first].status

\* Classes whose instances may have no text although error_response takes the
\* text for its message.  It then fails the check of its own schema and returns
\* a variable it has not set: an UnboundLocalError leaves the middlewares, and
\* aiohttp answers 500.
Wordless == {"TimeoutError", "Exception"}

\* Reference: the clause that names the nearest superclass decides, whatever
\* the order of the clauses.
NearestStatus(e) ==
  LET named(x) == \E i \in DOMAIN ExceptClauses : x \in ExceptClauses[i].of
      k == CHOOSE n \in 1..5 : named(Ancestry(e)[n]) /\ \A m \in 1..(n - 1) : ~named(Ancestry(e)[m])
  IN ExceptClauses[CHOOSE i \in DOMAIN ExceptClauses :
                     Ancestry(e)[k] \in ExceptClauses[i].of].status

StatusTable == [e \in Classes |-> StatusOf(e)]
NearestTable == [e \in Classes |-> NearestStatus(e)]
=============================================================================
