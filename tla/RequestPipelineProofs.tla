------------------------ MODULE RequestPipelineProofs ------------------------
(***************************************************************************)
(* Proofs about RequestPipeline, for any number of requests and accounts.  *)
(***************************************************************************)
EXTENDS RequestPipeline, SequenceTheorems, TLAPS

(* What holds of every route, whatever its controller declares.            *)
Fits(h) ==
    /\ h.code \in {200, 201, 204}
    /\ h.pipe \in {None, Invalid, ImageFileValidationPipe}
    /\ \A body \in h.returns : "path" \notin body
    /\ h.throws \subseteq Exceptions

LEMMA ExceptionsHas ==
    /\ Invalid \in Exceptions /\ Failed \in Exceptions
    /\ \A s \in 400..599 : Refused(s) \in Exceptions /\ Exception("HttpException", s) \in Exceptions
    /\ \A name \in {"UQ", "idx", None} : QueryFailed(name) \in Exceptions
    /\ ImageFileValidationPipe \in Exceptions /\ Unauthorized \in Exceptions
    /\ Exception("Error", 0) \in Exceptions
BY DEF Exceptions, Refused, Unauthorized, ImageFileValidationPipe, Failed

LEMMA RoutesFit == \A n \in Routes : Fits(Route[n])
<1> USE ExceptionsHas DEF Fits, Open, Protected, Tells, Profile, LoggedIn
<1>1. \A n \in DOMAIN LoginRoutes : Fits(LoginRoutes[n])
  <2>1. DOMAIN LoginRoutes = {"login", "register", "forgotPassword", "me"}
    BY DEF LoginRoutes
  <2>2. \A n \in {"login", "register", "forgotPassword", "me"} : Fits(LoginRoutes[n])
    BY DEF LoginRoutes
  <2> QED
    BY <2>1, <2>2
<1>2. \A n \in DOMAIN TwoFactorRoutes : Fits(TwoFactorRoutes[n])
  <2>1. DOMAIN TwoFactorRoutes = {"enableTwoFactor", "verifyTwoFactor", "logout"}
    BY DEF TwoFactorRoutes
  <2>2. \A n \in {"enableTwoFactor", "verifyTwoFactor", "logout"} : Fits(TwoFactorRoutes[n])
    BY DEF TwoFactorRoutes
  <2> QED
    BY <2>1, <2>2
<1>3. \A n \in DOMAIN GoogleRoutes : Fits(GoogleRoutes[n])
  <2>1. DOMAIN GoogleRoutes = {"googleLogin"}
    BY DEF GoogleRoutes
  <2>2. Fits(GoogleRoutes["googleLogin"])
    BY DEF GoogleRoutes
  <2> QED
    BY <2>1, <2>2
<1>4. \A n \in DOMAIN UserRoutes : Fits(UserRoutes[n])
  <2>1. DOMAIN UserRoutes = {"getCurrentUser", "uploadAvatar", "changePassword",
                             "requestEmailChange", "confirmEmailChange"}
    BY DEF UserRoutes
  <2>2. \A n \in {"getCurrentUser", "uploadAvatar", "changePassword",
                  "requestEmailChange", "confirmEmailChange"} : Fits(UserRoutes[n])
    BY DEF UserRoutes
  <2> QED
    BY <2>1, <2>2
<1>5. \A n \in DOMAIN UploadRoutes : Fits(UploadRoutes[n])
  <2>1. DOMAIN UploadRoutes = {"uploadImage"}
    BY DEF UploadRoutes
  <2>2. Fits(UploadRoutes["uploadImage"])
    BY DEF UploadRoutes
  <2> QED
    BY <2>1, <2>2
<1>6. \A n \in DOMAIN HealthRoutes : Fits(HealthRoutes[n])
  <2>1. DOMAIN HealthRoutes = {"health"}
    BY DEF HealthRoutes
  <2>2. Fits(HealthRoutes["health"])
    BY DEF HealthRoutes, Terminus
  <2> QED
    BY <2>1, <2>2
<1> HIDE ExceptionsHas DEF Fits
<1> QED
  BY <1>1, <1>2, <1>3, <1>4, <1>5, <1>6 DEF Route, Routes

-----------------------------------------------------------------------------
(* The filter registered last that catches a class.                        *)
LEMMA FiltersAsked ==
    /\ FilterFor("HttpException") = "HttpExceptionFilter"
    /\ FilterFor("BaseI18nException") = "HttpExceptionFilter"
    /\ FilterFor("I18nValidationException") = "CustomI18nValidationExceptionFilter"
    /\ FilterFor("QueryFailedError") = "QueryFailedFilter"
    /\ FilterFor("Error") = "AllExceptionsFilter"
<1> USE DEF FilterFor, Filters, AllExceptionsFilter, HttpExceptionFilter, ValidationFilter,
            QueryFailedFilter, HttpExceptions
<1>1. /\ Catching("HttpException") = {1, 2} /\ Catching("BaseI18nException") = {1, 2}
      /\ Catching("I18nValidationException") = {1, 2, 3}
      /\ Catching("QueryFailedError") = {1, 4} /\ Catching("Error") = {1}
  BY DEF Catching
<1> QED
  BY <1>1

Answers == [status : 200..599, keys : SUBSET Keys, data : SUBSET Keys]

LEMMA AnswersFit ==
    ASSUME NEW e \in Exceptions
    PROVE  LET a == AnswerTo(e) IN
           /\ a \in Answers
           /\ a.status = IF e.class \in HttpExceptions THEN e.status
                         ELSE IF e.constraint = "UQ" THEN 409 ELSE 500
           /\ "errors" \in a.keys <=> e = Invalid
<1>1. ErrorResponse \cup {"errors", "error"} \subseteq Keys
  BY DEF Keys, ErrorResponse
<1>2. \A s, k : /\ Failure(s, k).status = s /\ Failure(s, k).keys = k
                /\ s \in 200..599 /\ k \in SUBSET Keys =>
                     Failure(s, k) \in Answers
  BY DEF Failure, Answers
<1>3. CASE e.class \in {"HttpException", "BaseI18nException"}
  <2>1. e.status \in 400..599 /\ e # Invalid
    BY <1>3 DEF Exceptions, Exception, Invalid, Failed, QueryFailed
  <2>2. AnswerTo(e) = Failure(e.status, ErrorResponse)
    BY <1>3, FiltersAsked DEF AnswerTo, CatchHttp
  <2> QED
    BY <1>1, <1>2, <1>3, <2>1, <2>2 DEF HttpExceptions, ErrorResponse
<1>4. CASE e = Invalid
  <2>1. e.class = "I18nValidationException" /\ e.status = 422
    BY <1>4 DEF Invalid, Exception
  <2>2. AnswerTo(e) = Failure(422, ErrorResponse \cup {"errors"})
    BY <2>1, FiltersAsked DEF AnswerTo, CatchValidation
  <2> QED
    BY <1>1, <1>2, <1>4, <2>1, <2>2 DEF HttpExceptions
<1>5. CASE e = Failed
  <2>1. e.class = "Error" /\ e.constraint # "UQ" /\ e # Invalid
    BY <1>5, NoneIsNothing DEF Failed, Exception, Invalid
  <2>2. AnswerTo(e) = Failure(500, ErrorResponse)
    BY <2>1, FiltersAsked DEF AnswerTo, CatchAll
  <2> QED
    BY <1>1, <1>2, <2>1, <2>2 DEF HttpExceptions, ErrorResponse
<1>6. CASE \E name \in {"UQ", "idx", None} : e = QueryFailed(name)
  <2>1. e.class = "QueryFailedError" /\ e # Invalid
    BY <1>6 DEF QueryFailed, Exception, Invalid
  <2>2. AnswerTo(e) = Failure(IF e.constraint = "UQ" THEN 409 ELSE 500, {"statusCode", "error"})
    BY <2>1, FiltersAsked DEF AnswerTo, CatchQueryFailed
  <2>3. {"statusCode", "error"} \subseteq Keys
    BY DEF Keys, ErrorResponse
  <2> QED
    BY <1>2, <2>1, <2>2, <2>3 DEF HttpExceptions
<1> QED
  BY <1>3, <1>4, <1>5, <1>6 DEF Exceptions, Exception

(* The envelope and what is beside it have all of a body.                  *)
LEMMA WrapKeepsAll ==
    ASSUME NEW n \in Routes, NEW body \in Route[n].returns
    PROVE  LET a == Wrap(body, Route[n].code, Route[n].skip) IN
           /\ a \in Answers
           /\ (IF Envelope \subseteq a.keys THEN a.data \cup (a.keys \ Envelope) ELSE a.keys)
                = body
<1> DEFINE code == Route[n].code
           skip == Route[n].skip
           a == Wrap(body, code, skip)
<1>1. code \in {200, 201, 204} /\ "path" \notin body
  BY RoutesFit DEF Fits
<1>2. body \subseteq Keys /\ Envelope \subseteq Keys /\ "path" \in Envelope /\ "message" \notin Envelope
  BY DEF Keys, Envelope
<1>3. CASE ShouldSkipWrapping(body, skip) \/ code = 204
  <2>1. a = [status |-> code, keys |-> body, data |-> {}]
    BY <1>3 DEF Wrap
  <2> QED
    BY <1>1, <1>2, <2>1 DEF Answers
<1>4. CASE ~(ShouldSkipWrapping(body, skip) \/ code = 204)
  <2>1. a = [status |-> code, keys |-> Envelope \cup (body \cap {"message"}), data |-> UnwrapData(body)]
    BY <1>4 DEF Wrap
  <2>2. UnwrapData(body) \subseteq body /\ UnwrapData(body) \cup (body \cap {"message"}) = body
    BY DEF UnwrapData
  <2> QED
    BY <1>1, <1>2, <2>1, <2>2 DEF Answers
<1> QED
  BY <1>3, <1>4

-----------------------------------------------------------------------------
LEMMA InitInv == Init => Inv
BY EmptySeq DEF Init, Inv, PhaseFits, HistoryFits, NotCome, InFlight, At, Phases, Roles

(* A step of one request leaves the others as they were.                   *)
LEMMA RequestStep ==
    ASSUME Inv, NEW r \in Requests, NEW x, NEW c \in Seq(Nat),
           NEW h \in SUBSET (Roles \cup {None}), x \in Arrived,
           req' = [req EXCEPT ![r] = x], counted' = [counted EXCEPT ![r] = c],
           held' = [held EXCEPT ![r] = h], UNCHANGED <<account, expired>>,
           PhaseFits(r)', HistoryFits(r)'
    PROVE  Inv'
<1>1. ASSUME NEW q \in Requests, q # r PROVE PhaseFits(q)' /\ HistoryFits(q)'
  <2>1. req'[q] = req[q] /\ counted'[q] = counted[q] /\ held'[q] = held[q]
    BY <1>1 DEF Inv
  <2>2. PhaseFits(q) /\ HistoryFits(q)
    BY DEF Inv
  <2>3. PhaseFits(q)'
    BY <2>1, <2>2 DEF PhaseFits, At, Answered, Of
  <2>4. HistoryFits(q)'
    <3>1. /\ Identified(q)' = Identified(q) /\ InFlight(q)' = InFlight(q)
          /\ Of(q)' = Of(q) /\ \A p : At(q, p)' = At(q, p)
      BY <2>1 DEF Identified, InFlight, At, Of
    <3> QED
      BY <2>1, <2>2, <3>1 DEF HistoryFits
  <2> QED
    BY <2>3, <2>4
<1> QED
  BY <1>1 DEF Inv

(* A request that is under way: what a step says of the request itself.    *)
LEMMA UnderWay ==
    ASSUME Inv, NEW r \in Requests, req[r].at # "idle"
    PROVE  /\ req[r] \in Arrived /\ req[r].route \in Routes /\ Fits(Of(r))
           /\ req[r].at \in Phases => req[r].error = None /\ counted[r] = <<>>
           /\ req[r].at \in Phases \ {"handler"} => ~req[r].handled
           /\ At(r, "thrown") => req[r].error # None
           /\ counted[r] \in {<<>>, <<Of(r).code>>}
           /\ req = [req EXCEPT ![r] = req[r]] /\ counted = [counted EXCEPT ![r] = counted[r]]
           /\ held = [held EXCEPT ![r] = held[r]] /\ DOMAIN req = Requests
           /\ counted[r] \in Seq(Nat) /\ held[r] \in SUBSET (Roles \cup {None})
<1>1. req[r] # NotCome /\ PhaseFits(r)
  BY DEF Inv, NotCome
<1>2. req[r].route \in Routes
  BY <1>1 DEF PhaseFits, Arrived
<1>3. req \in [Requests -> {NotCome} \cup Arrived] /\ counted \in [Requests -> Seq(Nat)]
      /\ held \in [Requests -> SUBSET (Roles \cup {None})]
  BY DEF Inv
<1>4. /\ req = [req EXCEPT ![r] = req[r]] /\ counted = [counted EXCEPT ![r] = counted[r]]
      /\ held = [held EXCEPT ![r] = held[r]]
  BY <1>3
<1>5. Fits(Of(r))
  BY <1>2, RoutesFit DEF Of
<1> QED
  BY <1>1, <1>2, <1>3, <1>4, <1>5 DEF PhaseFits

LEMMA ArriveInv ==
    ASSUME Inv, NEW r \in Requests, NEW route \in Routes, NEW token \in Tokens \cup {None},
           Arrive(r, route, token)
    PROVE  Inv'
<1> DEFINE x == [at |-> "throttle", route |-> route, token |-> token, user |-> None,
                 role |-> None, handled |-> FALSE, error |-> None, answer |-> NoAnswer]
           h == IF token = None \/ token \in expired THEN {} ELSE {account[token.user]}
<1>1. At(r, "idle") /\ req' = [req EXCEPT ![r] = x] /\ held' = [held EXCEPT ![r] = h]
      /\ UNCHANGED <<account, expired, counted>>
  BY DEF Arrive
<1>2. counted[r] = <<>>
  BY <1>1 DEF Inv, PhaseFits, At, Arrived, Phases
<1>3. h \in SUBSET (Roles \cup {None})
  BY DEF Inv, Tokens
<1>4. req'[r] = x /\ held'[r] = h /\ counted'[r] = <<>>
  BY <1>1, <1>2 DEF Inv
<1>8. x \in Arrived
  BY DEF Arrived, Phases, NoAnswer
<1>5. PhaseFits(r)'
  BY <1>4, <1>8 DEF PhaseFits, At, Answered, Phases
<1>6. HistoryFits(r)'
  BY <1>1, <1>4 DEF HistoryFits, At, InFlight
<1>7. counted' = [counted EXCEPT ![r] = counted[r]] /\ counted[r] \in Seq(Nat)
  BY <1>1 DEF Inv
<1> HIDE DEF x, h
<1> QED
  BY <1>1, <1>3, <1>5, <1>6, <1>7, <1>8, RequestStep


(* Who a request says it is, in terms of what its guard has read.          *)
Known(x, past) ==
    /\ x.token \in Tokens /\ x.user = x.token.user
    /\ x.token.type = "ACCESS_TOKEN" /\ x.role \in past \cap Roles

Allowed(x) == Route[x.route].roles = {} \/ x.role \in Route[x.route].roles

LEMMA MovedTo ==
    ASSUME NEW s \in Arrived, NEW p \in Phases \cup {"thrown", "answered"}
    PROVE  LET x == [s EXCEPT !.at = p] IN
           /\ x \in Arrived /\ x.at = p /\ x.error = s.error /\ x.answer = s.answer
           /\ x.route = s.route /\ x.token = s.token /\ x.user = s.user /\ x.role = s.role
           /\ x.handled = s.handled
<1> DEFINE P == Phases \cup {"thrown", "answered"}
           T == Tokens \cup {None}
           U == Users \cup {None}
           L == Roles \cup {None}
           E == Exceptions \cup {None}
           A == [status : {0} \cup 200..599, keys : SUBSET Keys, data : SUBSET Keys]
<1>1. Arrived = [at : P, route : Routes, token : T, user : U, role : L, handled : BOOLEAN,
                 error : E, answer : A]
  BY DEF Arrived
<1>2. p \in P
  OBVIOUS
<1> HIDE DEF P, T, U, L, E, A
<1> QED
  BY <1>1, <1>2

LEMMA ThrownWith ==
    ASSUME NEW s \in Arrived, NEW e \in Exceptions
    PROVE  LET x == [s EXCEPT !.at = "thrown", !.error = e] IN
           /\ x \in Arrived /\ x.at = "thrown" /\ x.error = e
           /\ x.route = s.route /\ x.token = s.token /\ x.user = s.user /\ x.role = s.role
           /\ x.handled = s.handled
<1> DEFINE P == Phases \cup {"thrown", "answered"}
           T == Tokens \cup {None}
           U == Users \cup {None}
           L == Roles \cup {None}
           E == Exceptions \cup {None}
           A == [status : {0} \cup 200..599, keys : SUBSET Keys, data : SUBSET Keys]
<1>1. Arrived = [at : P, route : Routes, token : T, user : U, role : L, handled : BOOLEAN,
                 error : E, answer : A]
  BY DEF Arrived
<1>2. "thrown" \in P /\ e \in E
  OBVIOUS
<1> HIDE DEF P, T, U, L, E, A
<1> QED
  BY <1>1, <1>2

LEMMA Handled ==
    ASSUME NEW s \in Arrived
    PROVE  LET x == [s EXCEPT !.at = "handler", !.handled = TRUE] IN
           /\ x \in Arrived /\ x.at = "handler" /\ x.error = s.error
           /\ x.route = s.route /\ x.token = s.token /\ x.user = s.user /\ x.role = s.role
<1> DEFINE P == Phases \cup {"thrown", "answered"}
           T == Tokens \cup {None}
           U == Users \cup {None}
           L == Roles \cup {None}
           E == Exceptions \cup {None}
           A == [status : {0} \cup 200..599, keys : SUBSET Keys, data : SUBSET Keys]
<1>1. Arrived = [at : P, route : Routes, token : T, user : U, role : L, handled : BOOLEAN,
                 error : E, answer : A]
  BY DEF Arrived
<1>2. "handler" \in P
  BY DEF Phases
<1> HIDE DEF P, T, U, L, E, A
<1> QED
  BY <1>1, <1>2

LEMMA AnsweredWith ==
    ASSUME NEW s \in Arrived,
           NEW a \in Answers
    PROVE  LET x == [s EXCEPT !.at = "answered", !.answer = a] IN
           /\ x \in Arrived /\ x.at = "answered" /\ x.error = s.error /\ x.answer = a
           /\ x.route = s.route /\ x.token = s.token /\ x.user = s.user /\ x.role = s.role
           /\ x.handled = s.handled
<1> DEFINE P == Phases \cup {"thrown", "answered"}
           T == Tokens \cup {None}
           U == Users \cup {None}
           L == Roles \cup {None}
           E == Exceptions \cup {None}
           A == [status : {0} \cup 200..599, keys : SUBSET Keys, data : SUBSET Keys]
<1>1. Arrived = [at : P, route : Routes, token : T, user : U, role : L, handled : BOOLEAN,
                 error : E, answer : A]
  BY DEF Arrived
<1>2. "answered" \in P /\ a \in A
  BY DEF Answers
<1> HIDE DEF P, T, U, L, E, A
<1> QED
  BY <1>1, <1>2

(* A step that takes a request from where it is to x.                      *)
LEMMA MoveInv ==
    ASSUME Inv, NEW r \in Requests, InFlight(r), NEW x \in Arrived,
           NEW c \in {<<>>, <<Of(r).code>>},
           x.route = req[r].route, x.token = req[r].token,
           req' = [req EXCEPT ![r] = x], counted' = [counted EXCEPT ![r] = c],
           UNCHANGED <<account, expired, held>>,
           x.at \in Phases => x.error = None /\ c = <<>>,
           x.at \in Phases \ {"handler"} => ~x.handled,
           x.at = "thrown" => x.error # None,
           x.at = "answered" => IF x.error # None
                                  THEN x.answer = AnswerTo(x.error)
                                  ELSE \E body \in Of(r).returns :
                                         x.answer = Wrap(body, Of(r).code, Of(r).skip),
           x.at = "authorize" => Known(x, held[r]),
           Of(r).protected /\ (x.at = "pipes" \/ x.handled) => Known(x, held[r]) /\ Allowed(x)
    PROVE  Inv'
<1>1. req'[r] = x /\ counted'[r] = c /\ held'[r] = held[r]
  BY DEF Inv
<1>2. Of(r)' = Of(r)
  BY <1>1 DEF Of
<1>3. PhaseFits(r)'
  BY <1>1, <1>2 DEF PhaseFits, At, Answered
<1>4. HistoryFits(r)
  BY DEF Inv
<1>5. Known(x, held[r]) => Identified(r)'
  BY <1>1 DEF Known, Identified
<1>6. InFlight(r)' => InFlight(r)
  OBVIOUS
<1>7. HistoryFits(r)'
  BY <1>1, <1>2, <1>4, <1>5, <1>6 DEF HistoryFits, At, Allowed, Of
<1>8. c \in Seq(Nat)
  <2>1. Of(r).code \in Nat
    BY UnderWay DEF Fits, InFlight, Phases
  <2>2. <<>> \in Seq(Nat) /\ \A n \in Nat : <<n>> \in Seq(Nat)
    OBVIOUS
  <2> QED
    BY <2>1, <2>2
<1>9. /\ held' = [held EXCEPT ![r] = held[r]] /\ held[r] \in SUBSET (Roles \cup {None})
  BY DEF Inv
<1> QED
  BY <1>3, <1>7, <1>8, <1>9, RequestStep

(* Where nothing but the phase changes.                                    *)
LEMMA GotoInv ==
    ASSUME Inv, NEW r \in Requests, NEW p \in Phases \ {"handler"},
           req[r].at \in Phases \ {"handler"}, Goto(r, p),
           UNCHANGED <<account, expired, counted, held>>,
           p = "authorize" => Identified(r),
           p = "pipes" /\ Of(r).protected =>
               Identified(r) /\ (Of(r).roles = {} \/ req[r].role \in Of(r).roles)
    PROVE  Inv'
<1> DEFINE x == [req[r] EXCEPT !.at = p]
<1>1. InFlight(r) /\ req[r].at # "idle"
  BY DEF InFlight, Phases
<1>2. req[r] \in Arrived /\ req[r].error = None /\ counted[r] = <<>> /\ ~req[r].handled
  BY <1>1, UnderWay
<1>3. x \in Arrived /\ x.at = p
      /\ x.route = req[r].route /\ x.token = req[r].token /\ x.user = req[r].user
      /\ x.role = req[r].role /\ x.error = None /\ ~x.handled
  BY <1>2, MovedTo
<1>4. req' = [req EXCEPT ![r] = x] /\ counted' = [counted EXCEPT ![r] = <<>>]
  BY <1>1, <1>2, UnderWay DEF Goto
<1>5. Identified(r) => Known(x, held[r])
  BY <1>3 DEF Identified, Known
<1>6. Allowed(x) <=> Of(r).roles = {} \/ req[r].role \in Of(r).roles
  BY <1>3 DEF Allowed, Of
<1>7. p # "thrown" /\ p # "answered"
  BY DEF Phases
<1> HIDE DEF x
<1> QED
  BY <1>1, <1>3, <1>4, <1>5, <1>6, <1>7, MoveInv

(* An exception, counted or not, stops a request wherever it is.           *)
LEMMA ThrowInv ==
    ASSUME Inv, NEW r \in Requests, NEW e \in Exceptions, req[r].at \in Phases, Throw(r, e),
           counted' = counted \/ RecordMetrics(r), UNCHANGED <<account, expired, held>>
    PROVE  Inv'
<1> DEFINE x == [req[r] EXCEPT !.at = "thrown", !.error = e]
<1>1. InFlight(r) /\ req[r].at # "idle" /\ e # None /\ "thrown" \notin Phases
  BY NoneIsNothing DEF InFlight, Phases
<1>2. req[r] \in Arrived /\ counted[r] = <<>>
  BY <1>1, UnderWay
<1>3. x \in Arrived /\ x.at = "thrown" /\ x.error = e
      /\ x.route = req[r].route /\ x.token = req[r].token /\ x.user = req[r].user
      /\ x.role = req[r].role /\ x.handled = req[r].handled
  BY <1>2, ThrownWith
<1>4. req' = [req EXCEPT ![r] = x]
  BY <1>1, <1>2, UnderWay DEF Throw
<1>5. \E c \in {<<>>, <<Of(r).code>>} : counted' = [counted EXCEPT ![r] = c]
  BY <1>1, <1>2, UnderWay DEF RecordMetrics
<1>6. Of(r).protected /\ x.handled => Known(x, held[r]) /\ Allowed(x)
  <2>1. HistoryFits(r) /\ req[r] # NotCome
    BY <1>1 DEF Inv, NotCome
  <2> QED
    BY <1>3, <2>1 DEF HistoryFits, Identified, Known, Allowed, Of
<1> HIDE DEF x
<1> QED
  BY <1>1, <1>3, <1>4, <1>5, <1>6, MoveInv

-----------------------------------------------------------------------------
LEMMA ThrottleInv ==
    ASSUME Inv, NEW r \in Requests, Throttle(r)
    PROVE  Inv'
<1>1. req[r].at = "throttle" /\ req[r].at \in Phases \ {"handler"}
  BY DEF Throttle, At, Phases
<1>2. UNCHANGED <<account, expired, counted, held>>
  BY DEF Throttle
<1>3. CASE Goto(r, IF Of(r).protected THEN "authenticate" ELSE "pipes")
  BY <1>1, <1>2, <1>3, GotoInv DEF Phases
<1>4. CASE Throw(r, Exception("HttpException", 429))
  BY <1>1, <1>2, <1>4, ThrowInv, ExceptionsHas
<1> QED
  BY <1>3, <1>4 DEF Throttle

(* The account is read, and is what the history has of it now.             *)
LEMMA AuthenticateInv ==
    ASSUME Inv, NEW r \in Requests, Authenticate(r)
    PROVE  Inv'
<1> DEFINE t == req[r].token
           x == [req[r] EXCEPT !.at = "authorize", !.user = t.user, !.role = account[t.user]]
<1>1. /\ req[r].at = "authenticate" /\ req[r].at \in Phases /\ InFlight(r)
      /\ UNCHANGED <<account, expired, counted, held>>
  BY DEF Authenticate, At, Phases, InFlight
<1>2. CASE \E e \in {Unauthorized, QueryFailed(None), Failed} : Throw(r, e)
  BY <1>1, <1>2, ThrowInv, ExceptionsHas
<1>3. CASE Accepted(t) /\ req' = [req EXCEPT ![r].at = "authorize", ![r].user = t.user,
                                             ![r].role = account[t.user]]
  <2>1. /\ req[r] \in Arrived /\ req[r].error = None /\ counted[r] = <<>> /\ ~req[r].handled
        /\ req' = [req EXCEPT ![r] = x] /\ counted' = [counted EXCEPT ![r] = <<>>]
    BY <1>1, <1>3, UnderWay DEF Phases
  <2>2. /\ t \in Tokens /\ t \notin expired /\ t # None /\ t.type = "ACCESS_TOKEN"
        /\ account[t.user] # None
    BY <1>3, <2>1 DEF Accepted, Arrived
  <2>3. t.user \in Users /\ account[t.user] \in Roles
    BY <2>2 DEF Tokens, Inv
  <2>4. HistoryFits(r)
    BY DEF Inv
  <2>5. account[t.user] \in held[r]
    BY <1>1, <2>2, <2>4 DEF HistoryFits
  <2>6. x \in Arrived
    <3> DEFINE A == [status : {0} \cup 200..599, keys : SUBSET Keys, data : SUBSET Keys]
    <3>1. Arrived = [at : Phases \cup {"thrown", "answered"}, route : Routes,
                     token : Tokens \cup {None}, user : Users \cup {None},
                     role : Roles \cup {None}, handled : BOOLEAN,
                     error : Exceptions \cup {None}, answer : A]
      BY DEF Arrived
    <3>2. "authorize" \in Phases \cup {"thrown", "answered"}
      BY DEF Phases
    <3> HIDE DEF A
    <3> QED
      BY <2>1, <2>3, <3>1, <3>2
  <2>7. /\ x.at = "authorize" /\ x.route = req[r].route /\ x.token = t /\ x.user = t.user
        /\ x.role = account[t.user] /\ x.error = None /\ ~x.handled
    BY <2>1 DEF Arrived
  <2>8. Known(x, held[r])
    BY <2>2, <2>3, <2>5, <2>7 DEF Known
  <2> HIDE DEF x
  <2> QED
    BY <1>1, <2>1, <2>6, <2>7, <2>8, MoveInv DEF Phases
<1> QED
  BY <1>2, <1>3 DEF Authenticate

LEMMA AuthorizeInv ==
    ASSUME Inv, NEW r \in Requests, Authorize(r)
    PROVE  Inv'
<1>1. /\ req[r].at = "authorize" /\ req[r].at \in Phases \ {"handler"}
      /\ UNCHANGED <<account, expired, counted, held>>
  BY DEF Authorize, At, Phases
<1>2. Identified(r)
  BY <1>1 DEF Inv, HistoryFits, At
<1>3. CASE Of(r).roles = {} \/ req[r].role \in Of(r).roles
  BY <1>1, <1>2, <1>3, GotoInv DEF Authorize, Phases
<1>4. CASE ~(Of(r).roles = {} \/ req[r].role \in Of(r).roles)
  BY <1>1, <1>4, ThrowInv, ExceptionsHas DEF Authorize
<1> QED
  BY <1>3, <1>4

LEMMA ValidateInv ==
    ASSUME Inv, NEW r \in Requests, Validate(r)
    PROVE  Inv'
<1> DEFINE x == [req[r] EXCEPT !.at = "handler", !.handled = TRUE]
<1>1. /\ req[r].at = "pipes" /\ req[r].at \in Phases /\ InFlight(r) /\ req[r] # NotCome
      /\ UNCHANGED <<account, expired, held>>
  BY DEF Validate, At, Phases, InFlight, NotCome
<1>2. CASE Of(r).pipe # None /\ ThrowThrough(r, Of(r).pipe)
  <2>1. Of(r).pipe \in Exceptions
    <3>1. Fits(Of(r))
      BY <1>1, UnderWay
    <3> QED
      BY <1>2, <3>1, ExceptionsHas DEF Fits
  <2> QED
    BY <1>1, <1>2, <2>1, ThrowInv DEF ThrowThrough
<1>3. CASE req' = [req EXCEPT ![r].at = "handler", ![r].handled = TRUE] /\ UNCHANGED counted
  <2>1. /\ req[r] \in Arrived /\ req[r].error = None /\ counted[r] = <<>>
        /\ req' = [req EXCEPT ![r] = x] /\ counted' = [counted EXCEPT ![r] = <<>>]
    BY <1>1, <1>3, UnderWay DEF Phases
  <2>2. /\ x \in Arrived /\ x.at = "handler" /\ x.error = None
        /\ x.route = req[r].route /\ x.token = req[r].token /\ x.user = req[r].user
        /\ x.role = req[r].role
    BY <2>1, Handled
  <2>3. HistoryFits(r)
    BY DEF Inv
  <2>4. Of(r).protected => Known(x, held[r]) /\ Allowed(x)
    BY <1>1, <2>2, <2>3 DEF HistoryFits, At, Identified, Known, Allowed, Of
  <2> HIDE DEF x
  <2> QED
    BY <1>1, <2>1, <2>2, <2>4, MoveInv DEF Phases
<1> QED
  BY <1>2, <1>3 DEF Validate

LEMMA RejectInv ==
    ASSUME Inv, NEW r \in Requests, Reject(r)
    PROVE  Inv'
<1>1. /\ req[r].at = "handler" /\ req[r].at \in Phases /\ InFlight(r)
      /\ UNCHANGED <<account, expired, held>>
  BY DEF Reject, At, Phases, InFlight
<1>2. PICK e \in Of(r).throws : ThrowThrough(r, e)
  BY DEF Reject
<1>3. e \in Exceptions
  BY <1>1, UnderWay DEF Fits
<1> QED
  BY <1>1, <1>2, <1>3, ThrowInv DEF ThrowThrough

(* An answer is what the exception or the result makes it.                 *)
LEMMA AnswerInv ==
    ASSUME Inv, NEW r \in Requests, InFlight(r), NEW a \in Answers,
           NEW c \in {<<>>, <<Of(r).code>>},
           Answer(r, a), counted' = [counted EXCEPT ![r] = c],
           UNCHANGED <<account, expired, held>>,
           IF req[r].error # None
             THEN a = AnswerTo(req[r].error)
             ELSE \E body \in Of(r).returns : a = Wrap(body, Of(r).code, Of(r).skip)
    PROVE  Inv'
<1> DEFINE x == [req[r] EXCEPT !.at = "answered", !.answer = a]
<1>1. req[r].at # "idle" /\ "answered" \notin Phases
  BY DEF InFlight, Phases
<1>2. req[r] \in Arrived /\ req' = [req EXCEPT ![r] = x]
  BY <1>1, UnderWay DEF Answer
<1>3. /\ x \in Arrived /\ x.at = "answered" /\ x.error = req[r].error /\ x.answer = a
      /\ x.route = req[r].route /\ x.token = req[r].token /\ x.user = req[r].user
      /\ x.role = req[r].role /\ x.handled = req[r].handled
  BY <1>2, AnsweredWith
<1>4. HistoryFits(r) /\ req[r] # NotCome
  BY <1>1 DEF Inv, NotCome
<1>5. Of(r).protected /\ x.handled => Known(x, held[r]) /\ Allowed(x)
  BY <1>3, <1>4 DEF HistoryFits, Identified, Known, Allowed, Of
<1> HIDE DEF x
<1> QED
  BY <1>1, <1>2, <1>3, <1>5, MoveInv

LEMMA ReturnInv ==
    ASSUME Inv, NEW r \in Requests, Return(r)
    PROVE  Inv'
<1>1. /\ req[r].at = "handler" /\ req[r].at \in Phases /\ InFlight(r)
      /\ UNCHANGED <<account, expired, held>>
  BY DEF Return, At, Phases, InFlight
<1>2. PICK body \in Of(r).returns : Answer(r, Wrap(body, Of(r).code, Of(r).skip))
  BY DEF Return
<1>3. req[r].route \in Routes /\ req[r].error = None /\ counted[r] = <<>>
  BY <1>1, UnderWay
<1>4. counted' = [counted EXCEPT ![r] = <<Of(r).code>>]
  BY <1>3 DEF Return, RecordMetrics
<1>5. Wrap(body, Of(r).code, Of(r).skip)
        \in Answers
  <2> DEFINE n == req[r].route
  <2>1. n \in Routes /\ Of(r) = Route[n] /\ body \in Route[n].returns
    BY <1>3 DEF Of
  <2> HIDE DEF n
  <2>2. Wrap(body, Route[n].code, Route[n].skip) \in Answers
    BY <2>1, WrapKeepsAll
  <2> QED
    BY <2>1, <2>2
<1> QED
  BY <1>1, <1>2, <1>3, <1>4, <1>5, AnswerInv

LEMMA CatchInv ==
    ASSUME Inv, NEW r \in Requests, Catch(r)
    PROVE  Inv'
<1>1. /\ At(r, "thrown") /\ req[r].at # "idle" /\ InFlight(r)
      /\ Answer(r, AnswerTo(req[r].error)) /\ UNCHANGED <<account, expired, counted, held>>
  BY DEF Catch, At, InFlight
<1>2. req[r] \in Arrived /\ req[r].error # None /\ counted[r] \in {<<>>, <<Of(r).code>>}
      /\ counted' = [counted EXCEPT ![r] = counted[r]]
  BY <1>1, UnderWay
<1>3. req[r].error \in Exceptions
  BY <1>2 DEF Arrived
<1>4. AnswerTo(req[r].error) \in Answers
  BY <1>3, AnswersFit
<1> QED
  BY <1>1, <1>2, <1>4, AnswerInv

-----------------------------------------------------------------------------
(* What becomes of an account is added to the history of its requests.     *)
LEMMA SetAccountInv ==
    ASSUME Inv, NEW u \in Users, NEW role \in Roles \cup {None}, SetAccount(u, role)
    PROVE  Inv'
<1>1. /\ account' = [account EXCEPT ![u] = role] /\ UNCHANGED <<expired, req, counted>>
      /\ held' = [r \in Requests |->
                    IF InFlight(r) /\ held[r] # {} /\ req[r].token.user = u
                      THEN held[r] \cup {role} ELSE held[r]]
  BY DEF SetAccount
<1>2. account' \in [Users -> Roles \cup {None}]
      /\ held' \in [Requests -> SUBSET (Roles \cup {None})]
  BY <1>1 DEF Inv
<1>3. ASSUME NEW r \in Requests PROVE PhaseFits(r)' /\ HistoryFits(r)'
  <2>1. PhaseFits(r)'
    BY <1>1 DEF Inv, PhaseFits, At, Answered, Of
  <2>2. /\ held[r] \subseteq held'[r] /\ InFlight(r)' = InFlight(r) /\ Of(r)' = Of(r)
        /\ (\A p : At(r, p)' = At(r, p)) /\ HistoryFits(r)
    BY <1>1 DEF Inv, InFlight, At, Of
  <2>3. Identified(r) => Identified(r)'
    BY <1>1, <2>2 DEF Identified
  <2>4. ASSUME InFlight(r), req[r].token # None, req[r].token \notin expired
        PROVE  account'[req[r].token.user] \in held'[r]
    <3>1. account[req[r].token.user] \in held[r]
      BY <2>2, <2>4 DEF HistoryFits
    <3>2. CASE req[r].token.user = u
      BY <1>1, <2>4, <3>1, <3>2 DEF Inv
    <3>3. CASE req[r].token.user # u
      BY <1>1, <3>1, <3>3, <2>2 DEF Inv
    <3> QED
      BY <3>2, <3>3
  <2> QED
    BY <1>1, <2>1, <2>2, <2>3, <2>4 DEF HistoryFits
<1> QED
  BY <1>1, <1>2, <1>3 DEF Inv

LEMMA ExpireInv ==
    ASSUME Inv, (\E t \in Tokens : Expire(t)) \/ UNCHANGED vars
    PROVE  Inv'
<1>1. /\ UNCHANGED <<account, req, counted, held>>
      /\ expired \subseteq expired' /\ expired' \subseteq Tokens
  BY DEF Expire, vars, Inv
<1>2. ASSUME NEW r \in Requests PROVE PhaseFits(r)' /\ HistoryFits(r)'
  <2>1. PhaseFits(r)'
    BY <1>1 DEF Inv, PhaseFits, At, Answered, Of
  <2>2. /\ InFlight(r)' = InFlight(r) /\ Of(r)' = Of(r) /\ Identified(r)' = Identified(r)
        /\ (\A p : At(r, p)' = At(r, p)) /\ HistoryFits(r)
    BY <1>1 DEF Inv, InFlight, At, Of, Identified
  <2> QED
    BY <1>1, <2>1, <2>2 DEF HistoryFits
<1> QED
  BY <1>1, <1>2 DEF Inv

LEMMA NextInv == Inv /\ [Next]_vars => Inv'
<1> SUFFICES ASSUME Inv, [Next]_vars PROVE Inv'
  OBVIOUS
<1>1. CASE \E r \in Requests, route \in Routes, t \in Tokens \cup {None} : Arrive(r, route, t)
  BY <1>1, ArriveInv
<1>2. CASE \E r \in Requests : Handle(r)
  BY <1>2, ThrottleInv, AuthenticateInv, AuthorizeInv, ValidateInv, ReturnInv, RejectInv,
     CatchInv DEF Handle
<1>3. CASE \E u \in Users : ChangeRole(u) \/ DeleteUser(u)
  BY <1>3, SetAccountInv DEF ChangeRole, DeleteUser
<1>4. CASE (\E t \in Tokens : Expire(t)) \/ UNCHANGED vars
  BY <1>4, ExpireInv
<1> QED
  BY <1>1, <1>2, <1>3, <1>4 DEF Next

-----------------------------------------------------------------------------
(* Phases, answers and the history agree in every state.                   *)
THEOREM Invariance == Spec => []Inv
BY InitInv, NextInv, PTL DEF Spec

(* Type correctness; no request is counted twice.                          *)
THEOREM TypeCorrect == Spec => []TypeOK
<1>1. Inv => TypeOK
  <2> SUFFICES ASSUME Inv PROVE TypeOK
    OBVIOUS
  <2>1. account \in [Users -> Roles \cup {None}] /\ expired \subseteq Tokens
    BY DEF Inv
  <2>2. ASSUME NEW r \in Requests
        PROVE  /\ Len(counted[r]) <= 1
               /\ held[r] \subseteq Roles \cup {None}
               /\ \/ req[r] = NotCome
                  \/ /\ req[r].at \in Phases \cup {"thrown", "answered"}
                     /\ req[r].user \in Users \cup {None} /\ req[r].role \in Roles \cup {None}
                     /\ req[r].answer.status \in {0} \cup 200..599
                     /\ req[r].answer.keys \subseteq Keys /\ req[r].answer.data \subseteq Keys
    <3>1. counted[r] = <<>> \/ counted[r] = <<Of(r).code>>
      BY DEF Inv, PhaseFits
    <3>2. Len(<<>>) <= 1 /\ Len(<<Of(r).code>>) <= 1
      OBVIOUS
    <3>3. Len(counted[r]) <= 1
      BY <3>1, <3>2
    <3>4. held[r] \subseteq Roles \cup {None}
      BY DEF Inv
    <3>5. req[r] = NotCome \/ req[r] \in Arrived
      BY DEF Inv, PhaseFits
    <3>6. CASE req[r] \in Arrived
      BY <3>3, <3>4, <3>6 DEF Arrived
    <3> QED
      BY <3>3, <3>4, <3>5, <3>6
  <2> QED
    BY <2>1, <2>2, Zenon DEF TypeOK
<1> QED
  BY <1>1, Invariance, PTL

(* A protected handler runs only for a token that was good on arrival and  *)
(* for a role its account has had since, in any number of requests and     *)
(* accounts, whatever becomes of the accounts meanwhile.                   *)
THEOREM EntitledOnly == Spec => []HandledAsEntitled
<1>1. Inv => HandledAsEntitled
  <2> SUFFICES ASSUME Inv, NEW r \in Requests, req[r] # NotCome, req[r].handled,
                      Of(r).protected
               PROVE  /\ req[r].user = req[r].token.user
                      /\ req[r].token.type = "ACCESS_TOKEN"
                      /\ held[r] \cap (IF Of(r).roles = {} THEN Roles ELSE Of(r).roles) # {}
    BY DEF HandledAsEntitled
  <2> QED
    BY DEF Inv, HistoryFits, Identified
<1> QED
  BY <1>1, Invariance, PTL

(* An HttpException keeps its status through the filters, the breach of a  *)
(* constraint named UQ_... is a conflict, what is neither an HttpException *)
(* nor the breach of a constraint a server error.                          *)
THEOREM StatusIsKept == Spec => []ExceptionsAreAnswered
<1>1. Inv => ExceptionsAreAnswered
  <2> SUFFICES ASSUME Inv, NEW r \in Requests, Answered(r), req[r].error # None
               PROVE  LET e == req[r].error
                          a == req[r].answer IN
                      /\ e.class \in HttpExceptions => a.status = e.status
                      /\ e.constraint = "UQ" => a.status = 409
                      /\ e.class \notin HttpExceptions /\ e.constraint = None => a.status = 500
                      /\ "errors" \in a.keys <=> e = Invalid
    BY DEF ExceptionsAreAnswered
  <2>1. req[r].at # "idle" /\ PhaseFits(r)
    BY DEF Answered, At, Inv
  <2>2. req[r].answer = AnswerTo(req[r].error) /\ req[r].error \in Exceptions
    BY <2>1 DEF PhaseFits, NotCome, Arrived
  <2>3. req[r].error.constraint = "UQ" => req[r].error.class \notin HttpExceptions
    BY <2>2, NoneIsNothing
       DEF Exceptions, Exception, QueryFailed, Invalid, Failed, HttpExceptions
  <2>4. None # "UQ"
    BY NoneIsNothing
  <2> QED
    BY <2>2, <2>3, <2>4, AnswersFit
<1> QED
  BY <1>1, Invariance, PTL

(* Nothing of a result is lost between handler and client.                 *)
THEOREM ResultsArrive == Spec => []NothingIsLost
<1>1. Inv => NothingIsLost
  <2> SUFFICES ASSUME Inv, NEW r \in Requests, Answered(r), req[r].error = None
               PROVE  LET a == req[r].answer IN
                      (IF Envelope \subseteq a.keys THEN a.data \cup (a.keys \ Envelope)
                                                    ELSE a.keys) \in Of(r).returns
    BY DEF NothingIsLost
  <2>1. req[r].at # "idle" /\ PhaseFits(r) /\ req[r].route \in Routes
    BY UnderWay DEF Answered, At, Inv
  <2>2. PICK body \in Of(r).returns : req[r].answer = Wrap(body, Of(r).code, Of(r).skip)
    BY <2>1 DEF PhaseFits, NotCome
  <2> DEFINE n == req[r].route
             a == Wrap(body, Route[n].code, Route[n].skip)
  <2>3. n \in Routes /\ Of(r) = Route[n] /\ body \in Route[n].returns /\ req[r].answer = a
    BY <2>1, <2>2 DEF Of
  <2>4. (IF Envelope \subseteq a.keys THEN a.data \cup (a.keys \ Envelope) ELSE a.keys) = body
    BY <2>3, WrapKeepsAll
  <2> HIDE DEF a, n
  <2> QED
    BY <2>3, <2>4
<1> QED
  BY <1>1, Invariance, PTL
=============================================================================
