--------------------------- MODULE RequestPipeline ---------------------------
(***************************************************************************)
(* What a request goes through around its handler: the throttler, the      *)
(* guard that turns a bearer token into an account, the guard of roles,    *)
(* the validation pipe, the interceptors that count and wrap the answer,   *)
(* and the filters that answer for an exception.                           *)
(*                                                                         *)
(* Accounts are deleted, change their role, and tokens expire at any time, *)
(* also between two steps of a request.  A body is the set of its keys;    *)
(* {} stands for no body.  Texts and translations are left out.            *)
(***************************************************************************)
EXTENDS Naturals, Sequences, FiniteSets

CONSTANTS
    Users,     \* accounts
    Requests,  \* HTTP requests
    None

Roles  == {"USER", "ADMIN"}
Tokens == [user : Users, type : {"ACCESS_TOKEN", "TEMP_TOKEN"}]

Terminus == {"status", "info", "error", "details"}

Exception(c, s)   == [class |-> c, status |-> s, constraint |-> None]
QueryFailed(name) == [class |-> "QueryFailedError", status |-> 0, constraint |-> name]

(* Handlers, one for each way in which a controller declares one: behind   *)
(* @Protected or not, the roles asked for, the @HttpCode, whether          *)
(* @SkipResponseWrapping, what the pipes may refuse it with, the bodies it *)
(* may return and the exceptions it may throw.  UQ and idx are the two     *)
(* kinds of names that unique constraints have; Failed stands for what     *)
(* mail, storage and the libraries throw.                                  *)
Invalid    == Exception("I18nValidationException", 422)
Refused(s) == Exception("BaseI18nException", s)
Failed     == Exception("Error", 0)

ImageFileValidationPipe == Refused(400)

(* All that guards, pipes, handlers and libraries throw.                   *)
Exceptions ==
    {Exception(c, s) : c \in {"HttpException", "BaseI18nException"}, s \in 400..599}
    \cup {Invalid, Failed} \cup {QueryFailed(name) : name \in {"UQ", "idx", None}}

ASSUME NoneIsNothing ==
    None \notin Users \cup Tokens \cup Roles \cup {"UQ"} \cup Exceptions

(* Bodies: a UserDto, a LoginPayloadDto, a message.                        *)
Profile  == {"id", "firstName", "lastName", "email", "twoFactorEnabled"}
Tells    == {{"message"}}
LoggedIn == {"user", "accessToken", "refreshToken", "sessionId"}

Open(code, pipe, returns, throws) ==
    [protected |-> FALSE, roles |-> {}, code |-> code, skip |-> FALSE,
     pipe |-> pipe, returns |-> returns, throws |-> throws]
Protected(code, pipe, returns, throws) ==
    [Open(code, pipe, returns, throws) EXCEPT !.protected = TRUE]

(* The first half of AuthController.  Registration is closed.              *)
LoginRoutes ==
  [login    |-> Open(200, Invalid, {LoggedIn, {"user", "tempToken", "requiresTwoFactor"}},
                     {Refused(401), QueryFailed("UQ")}),
   register |-> Open(201, Invalid, {}, {Refused(403)}),
   forgotPassword |-> Open(200, Invalid, Tells, {Failed}),
   me       |-> Protected(200, None, {Profile}, {})]

(* Its second half: the second factor and the sessions.                    *)
TwoFactorRoutes ==
  [enableTwoFactor |-> Protected(200, Invalid, {{"message", "recoveryCodes"}}, {Refused(401)}),
   verifyTwoFactor |-> Open(200, Invalid, {LoggedIn}, {Refused(401), QueryFailed("UQ")}),
   logout          |-> Protected(200, Invalid, Tells, {QueryFailed(None)})]

(* An identity that Google does not confirm is an Error of its library.    *)
GoogleRoutes ==
  [googleLogin |-> Open(200, Invalid, {LoggedIn},
                        {Failed, Refused(401), Refused(403), QueryFailed("UQ")})]

UserRoutes ==
  [getCurrentUser     |-> Protected(200, None, {Profile}, {Refused(404)}),
   uploadAvatar       |-> Protected(200, None, {Profile}, {Refused(400), Refused(404), Failed}),
   changePassword     |-> Protected(204, Invalid, {{}}, {Refused(400), Refused(404)}),
   requestEmailChange |-> Protected(200, Invalid, Tells, {Refused(404), Refused(409), Failed}),
   confirmEmailChange |-> Protected(200, Invalid, {Profile},
                                     {Refused(400), Refused(404), QueryFailed("idx")})]

UploadRoutes ==
  [uploadImage |-> [Protected(200, ImageFileValidationPipe, {{"url"}}, {Failed})
                      EXCEPT !.roles = {"USER"}]]

HealthRoutes ==
  [health |-> [Open(200, None, {Terminus}, {Exception("HttpException", 503)})
                 EXCEPT !.skip = TRUE]]

Routes == UNION {DOMAIN LoginRoutes, DOMAIN TwoFactorRoutes, DOMAIN GoogleRoutes,
                 DOMAIN UserRoutes, DOMAIN UploadRoutes, DOMAIN HealthRoutes}
Route  == [n \in Routes |-> CASE n \in DOMAIN LoginRoutes     -> LoginRoutes[n]
                              [] n \in DOMAIN TwoFactorRoutes -> TwoFactorRoutes[n]
                              [] n \in DOMAIN GoogleRoutes    -> GoogleRoutes[n]
                              [] n \in DOMAIN UserRoutes      -> UserRoutes[n]
                              [] n \in DOMAIN UploadRoutes    -> UploadRoutes[n]
                              [] n \in DOMAIN HealthRoutes    -> HealthRoutes[n]]

VARIABLES
    account,  \* role of each account, None once it has been deleted
    expired,  \* tokens that have expired
    req,      \* local state of each request
    counted,  \* http_requests_total: the status codes recorded for a request
    held      \* history: what the request's account has been since it arrived

vars == <<account, expired, req, counted, held>>

Phases == {"throttle", "authenticate", "authorize", "pipes", "handler"}

NotCome  == [at |-> "idle"]
NoAnswer == [status |-> 0, keys |-> {}, data |-> {}]
InFlight(r) == req[r].at \in Phases \cup {"thrown"}
At(r, p)    == req[r].at = p
Of(r)       == Route[req[r].route]

Init ==
    /\ account \in [Users -> Roles]
    /\ expired = {}
    /\ req = [r \in Requests |-> NotCome]
    /\ counted = [r \in Requests |-> <<>>]
    /\ held = [r \in Requests |-> {}]

-----------------------------------------------------------------------------
(* The success envelope.                                                   *)

Envelope == {"success", "statusCode", "data", "timestamp", "path"}

(* Results that are passed on as they are.  No handler streams, so the     *)
(* test of the content type is left out.                                   *)
ShouldSkipWrapping(body, skip) ==
    \/ skip
    \/ {"success", "statusCode", "timestamp", "path"} \subseteq body
    \/ Terminus \subseteq body

IsPageDto(body) == {"data", "meta"} \subseteq body

UnwrapData(body) == IF IsPageDto(body) THEN body ELSE body \ {"message"}

\* faulty: the message is taken out of the data and put nowhere
WrapWithoutMessage(body, status, skip) ==
    IF ShouldSkipWrapping(body, skip) \/ status = 204
      THEN [status |-> status, keys |-> body, data |-> {}]
      ELSE [status |-> status, keys |-> Envelope, data |-> UnwrapData(body)]

Wrap(body, status, skip) ==
    IF ShouldSkipWrapping(body, skip) \/ status = 204
      THEN [status |-> status, keys |-> body, data |-> {}]
      ELSE [status |-> status, keys |-> Envelope \cup (body \cap {"message"}),
            data |-> UnwrapData(body)]

-----------------------------------------------------------------------------
HttpExceptions == {"HttpException", "BaseI18nException", "I18nValidationException"}

AllExceptionsFilter == [name |-> "AllExceptionsFilter",
                        catches |-> HttpExceptions \cup {"QueryFailedError", "Error"}]
HttpExceptionFilter == [name |-> "HttpExceptionFilter", catches |-> HttpExceptions]
ValidationFilter    == [name |-> "CustomI18nValidationExceptionFilter",
                        catches |-> {"I18nValidationException"}]
QueryFailedFilter   == [name |-> "QueryFailedFilter", catches |-> {"QueryFailedError"}]

\* faulty: from the special to the general
GeneralLast == <<QueryFailedFilter, ValidationFilter, HttpExceptionFilter, AllExceptionsFilter>>

(* The filters in the order of useGlobalFilters.                           *)
Filters == <<AllExceptionsFilter, HttpExceptionFilter, ValidationFilter, QueryFailedFilter>>

Catching(class) == {i \in DOMAIN Filters : class \in Filters[i].catches}

(* The framework asks the filter registered last first.                    *)
FilterFor(class) ==
    Filters[CHOOSE i \in Catching(class) : \A j \in Catching(class) : j <= i].name

ErrorResponse == {"success", "statusCode", "errorCode", "message", "timestamp", "path"}

Failure(status, keys) == [status |-> status, keys |-> keys, data |-> {}]

CatchHttp(e)       == Failure(e.status, ErrorResponse)
CatchAll(e)        == Failure(500, ErrorResponse)
CatchValidation(e) == Failure(422, ErrorResponse \cup {"errors"})

(* constraintErrors has no entry for the constraints of today's tables, so *)
(* the message is undefined and left out of the JSON.                      *)
CatchQueryFailed(e) ==
    Failure(IF e.constraint = "UQ" THEN 409 ELSE 500, {"statusCode", "error"})

AnswerTo(e) ==
    LET filter == FilterFor(e.class) IN
    CASE filter = "AllExceptionsFilter" -> CatchAll(e)
      [] filter = "HttpExceptionFilter" -> CatchHttp(e)
      [] filter = "CustomI18nValidationExceptionFilter" -> CatchValidation(e)
      [] filter = "QueryFailedFilter" -> CatchQueryFailed(e)

-----------------------------------------------------------------------------
Goto(r, p) == req' = [req EXCEPT ![r].at = p]

Throw(r, e) == req' = [req EXCEPT ![r].at = "thrown", ![r].error = e]

(* RecordMetrics: the interceptor reads the status of the response.  The   *)
(* framework has set it to the handler's @HttpCode; a filter sets the      *)
(* status of an exception only after the interceptors are through.         *)
RecordMetrics(r) == counted' = [counted EXCEPT ![r] = Append(@, Of(r).code)]

(* An exception of a pipe or a handler passes the interceptors.            *)
ThrowThrough(r, e) == Throw(r, e) /\ RecordMetrics(r)

Arrive(r, route, token) ==
    /\ At(r, "idle")
    /\ req' = [req EXCEPT ![r] = [at |-> "throttle", route |-> route, token |-> token,
                                  user |-> None, role |-> None, handled |-> FALSE,
                                  error |-> None, answer |-> NoAnswer]]
    /\ held' = [held EXCEPT ![r] =
                  IF token = None \/ token \in expired THEN {} ELSE {account[token.user]}]
    /\ UNCHANGED <<account, expired, counted>>

(* ThrottlerGuard.  The health checks are not exempt: a @SkipThrottle()    *)
(* without names skips the throttler "default", and the three that are     *)
(* configured have other names.                                            *)
Throttle(r) ==
    /\ At(r, "throttle")
    /\ \/ Goto(r, IF Of(r).protected THEN "authenticate" ELSE "pipes")
       \/ Throw(r, Exception("HttpException", 429))
    /\ UNCHANGED <<account, expired, counted, held>>

Unauthorized == Exception("HttpException", 401)

\* faulty: no look-up of the account
AcceptedUnread(t) == t # None /\ t \notin expired /\ t.type = "ACCESS_TOKEN"

(* The token is verified, its type compared and its account read.          *)
Accepted(t) ==
    /\ t # None /\ t \notin expired
    /\ t.type = "ACCESS_TOKEN"
    /\ account[t.user] # None

Authenticate(r) ==
    LET t == req[r].token IN
    /\ At(r, "authenticate")
    /\ \/ /\ Accepted(t)
          /\ req' = [req EXCEPT ![r].at = "authorize", ![r].user = t.user,
                                ![r].role = account[t.user]]
       \/ ~Accepted(t) /\ Throw(r, Unauthorized)
       \/ \E e \in {QueryFailed(None), Failed} : Throw(r, e)   \* the SELECT fails
    /\ UNCHANGED <<account, expired, counted, held>>

(* SystemRoleGuard compares the role of the entity read by the strategy.   *)
Authorize(r) ==
    /\ At(r, "authorize")
    /\ IF Of(r).roles = {} \/ req[r].role \in Of(r).roles
         THEN Goto(r, "pipes")
         ELSE Throw(r, Exception("HttpException", 403))
    /\ UNCHANGED <<account, expired, counted, held>>

Validate(r) ==
    /\ At(r, "pipes")
    /\ \/ req' = [req EXCEPT ![r].at = "handler", ![r].handled = TRUE] /\ UNCHANGED counted
       \/ Of(r).pipe # None /\ ThrowThrough(r, Of(r).pipe)
    /\ UNCHANGED <<account, expired, held>>

Answer(r, a) == req' = [req EXCEPT ![r].at = "answered", ![r].answer = a]

(* The handler returns: counted, wrapped and sent without an await.        *)
Return(r) ==
    /\ At(r, "handler")
    /\ RecordMetrics(r)
    /\ \E body \in Of(r).returns : Answer(r, Wrap(body, Of(r).code, Of(r).skip))
    /\ UNCHANGED <<account, expired, held>>

Reject(r) ==
    /\ At(r, "handler")
    /\ \E e \in Of(r).throws : ThrowThrough(r, e)
    /\ UNCHANGED <<account, expired, held>>

\* faulty: a filter returns without having sent a response
CatchClientErrors(r) ==
    /\ At(r, "thrown") /\ AnswerTo(req[r].error).status < 500
    /\ Answer(r, AnswerTo(req[r].error))
    /\ UNCHANGED <<account, expired, counted, held>>

Catch(r) ==
    /\ At(r, "thrown")
    /\ Answer(r, AnswerTo(req[r].error))
    /\ UNCHANGED <<account, expired, counted, held>>

-----------------------------------------------------------------------------
(* Accounts and tokens change whatever the requests are doing.             *)

SetAccount(u, role) ==
    /\ account[u] # None
    /\ account' = [account EXCEPT ![u] = role]
    /\ held' = [r \in Requests |->
                  IF InFlight(r) /\ held[r] # {} /\ req[r].token.user = u
                    THEN held[r] \cup {role} ELSE held[r]]
    /\ UNCHANGED <<expired, req, counted>>

ChangeRole(u) == \E role \in Roles \ {account[u]} : SetAccount(u, role)
DeleteUser(u) == SetAccount(u, None)

Expire(t) ==
    /\ t \notin expired
    /\ expired' = expired \cup {t}
    /\ UNCHANGED <<account, req, counted, held>>

Handle(r) == \/ Throttle(r) \/ Authenticate(r) \/ Authorize(r) \/ Validate(r)
             \/ Return(r) \/ Reject(r) \/ Catch(r)

Next ==
    \/ \E r \in Requests : \/ \E route \in Routes, t \in Tokens \cup {None} : Arrive(r, route, t)
                           \/ Handle(r)
    \/ \E u \in Users : ChangeRole(u) \/ DeleteUser(u)
    \/ \E t \in Tokens : Expire(t)

(* The event loop runs a request that has arrived.                         *)
Spec == Init /\ [][Next]_vars /\ \A r \in Requests : WF_vars(Handle(r))

-----------------------------------------------------------------------------
Keys == Terminus \cup Envelope \cup ErrorResponse \cup {"errors", "error"}
        \cup UNION {UNION Route[n].returns : n \in Routes}

(* Type invariant; no request is counted twice.                            *)
TypeOK ==
    /\ account \in [Users -> Roles \cup {None}]
    /\ expired \subseteq Tokens
    /\ \A r \in Requests :
         /\ Len(counted[r]) <= 1
         /\ held[r] \subseteq Roles \cup {None}
         /\ \/ req[r] = NotCome
            \/ /\ req[r].at \in Phases \cup {"thrown", "answered"}
               /\ req[r].user \in Users \cup {None} /\ req[r].role \in Roles \cup {None}
               /\ req[r].answer.status \in {0} \cup 200..599
               /\ req[r].answer.keys \subseteq Keys /\ req[r].answer.data \subseteq Keys

Answered(r) == At(r, "answered")

(* A protected handler runs only for a token that was good when the        *)
(* request arrived, and for a role its account has had since then: a       *)
(* deletion or a change of role before the request shows at once, whatever *)
(* the token says, and one during it leaves the role the guard has read.   *)
HandledAsEntitled == \A r \in Requests :
    (req[r] # NotCome /\ req[r].handled /\ Of(r).protected) =>
        /\ req[r].user = req[r].token.user
        /\ req[r].token.type = "ACCESS_TOKEN"
        /\ held[r] \cap (IF Of(r).roles = {} THEN Roles ELSE Of(r).roles) # {}

(* Whichever filter answers: an HttpException keeps its status, a breach   *)
(* of a constraint that TypeORM has named (UQ_...) is answered with a 409, *)
(* what is neither an HttpException nor the breach of a constraint with a  *)
(* 500, and an answer lists errors exactly when the validation pipe has    *)
(* refused the body.  Nothing is asked for constraints with names of their *)
(* own: idx_user_email_unique, which confirmEmailChange may breach, gets a *)
(* 500 where docs/conventions/api-responses.md:337 has a 409.              *)
ExceptionsAreAnswered == \A r \in Requests :
    (Answered(r) /\ req[r].error # None) =>
        LET e == req[r].error
            a == req[r].answer IN
        /\ e.class \in HttpExceptions => a.status = e.status
        /\ e.constraint = "UQ" => a.status = 409
        /\ e.class \notin HttpExceptions /\ e.constraint = None => a.status = 500
        /\ "errors" \in a.keys <=> e = Invalid

(* A client finds all of a result in the answer: its message beside the    *)
(* data, the rest in it or, where there is no envelope, in its place.      *)
NothingIsLost == \A r \in Requests :
    (Answered(r) /\ req[r].error = None) =>
        LET a == req[r].answer IN
        (IF Envelope \subseteq a.keys THEN a.data \cup (a.keys \ Envelope) ELSE a.keys)
            \in Of(r).returns

(* Every request that arrives is answered.                                 *)
EveryRequestIsAnswered == \A r \in Requests : At(r, "throttle") ~> Answered(r)

(* "records the request duration + status code" (docs/architecture.md:49): *)
(* a request that is counted is counted under the status of its answer.    *)
CountedAsAnswered == \A r \in Requests :
    Answered(r) => \A i \in DOMAIN counted[r] : counted[r][i] = req[r].answer.status

-----------------------------------------------------------------------------
(* What the proofs of the three rest on.                                   *)

Arrived ==
    [at : Phases \cup {"thrown", "answered"}, route : Routes, token : Tokens \cup {None},
     user : Users \cup {None}, role : Roles \cup {None}, handled : BOOLEAN,
     error : Exceptions \cup {None},
     answer : [status : {0} \cup 200..599, keys : SUBSET Keys, data : SUBSET Keys]]

(* A request goes through its phases with neither exception nor answer,    *)
(* and is answered for its exception or with a result.                     *)
PhaseFits(r) ==
    \/ req[r] = NotCome /\ counted[r] = <<>>
    \/ /\ req[r] \in Arrived
       /\ req[r].at \in Phases => req[r].error = None /\ counted[r] = <<>>
       /\ req[r].at \in Phases \ {"handler"} => ~req[r].handled
       /\ At(r, "thrown") => req[r].error # None
       /\ Answered(r) => IF req[r].error # None
                           THEN req[r].answer = AnswerTo(req[r].error)
                           ELSE \E body \in Of(r).returns :
                                  req[r].answer = Wrap(body, Of(r).code, Of(r).skip)
       /\ counted[r] \in {<<>>, <<Of(r).code>>}

(* The history has what an unexpired token's account is now, and the       *)
(* account that a guard has read.                                          *)
Identified(r) ==
    /\ req[r].token \in Tokens
    /\ req[r].user = req[r].token.user
    /\ req[r].token.type = "ACCESS_TOKEN"
    /\ req[r].role \in held[r] \cap Roles

HistoryFits(r) ==
    /\ InFlight(r) /\ req[r].token # None /\ req[r].token \notin expired =>
         account[req[r].token.user] \in held[r]
    /\ At(r, "authorize") => Identified(r)
    /\ req[r] # NotCome /\ Of(r).protected /\ (At(r, "pipes") \/ req[r].handled) =>
         Identified(r) /\ (Of(r).roles = {} \/ req[r].role \in Of(r).roles)

Inv ==
    /\ account \in [Users -> Roles \cup {None}] /\ expired \subseteq Tokens
    /\ req \in [Requests -> {NotCome} \cup Arrived]
    /\ counted \in [Requests -> Seq(Nat)] /\ held \in [Requests -> SUBSET (Roles \cup {None})]
    /\ \A r \in Requests : PhaseFits(r) /\ HistoryFits(r)
=============================================================================
