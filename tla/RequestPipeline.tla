-------------------------- MODULE RequestPipeline --------------------------
(***************************************************************************)
(* The way of an HTTP request behind the drain guard of ApiDrain: the      *)
(* middleware of modules/api/index.js and the route createNode of          *)
(* modules/api/methods/_class.js sets up, and what modules/api/swagger.js  *)
(* publishes about that route. A step is the code between two awaits; the  *)
(* server works on a request whether or not its client is still there.     *)
(***************************************************************************)
EXTENDS ApiDrain

CONSTANTS Varied   \* BOUND: the requests that may go to any route

ASSUME RequestPipelineAssumption == Varied \subseteq Request \ Static

(* A config.json: its verb, `use` (yes, no, or not there), what `auth`     *)
(* asks for, whether it declares params and errors of its own. "none" is   *)
(* an unknown URL, "docs" the Swagger UI.                                  *)
Route == [verb : {"get", "post", "none", "docs"}, use : {"yes", "no", "absent"},
          auth : {"none", "token", "role"}, params : BOOLEAN, errors : BOOLEAN]
Ping  == [verb |-> "get", use |-> "yes", auth |-> "none", params |-> FALSE, errors |-> FALSE]

Status == {"200", "302", "400", "401", "403", "404", "413", "415", "429", "500", "503",
           "own"}   \* one that the method chose

VARIABLES route, \* where request r goes
          work   \* the await its handling is at, or the status it was answered with

httpVars == <<vars, route, work>>

HttpTypeOK ==
    /\ TypeOK
    /\ route \in [Request -> Route]
    /\ work \in [Request -> Status \cup {"idle", "body", "userLimit", "method", "sent", "broken"}]

HttpInit ==
    /\ Init
    /\ route \in [Request -> Route]
    /\ \A r \in Request :
        /\ r \notin Varied => route[r] = Ping
        /\ route[r].verb \in {"none", "docs"} => route[r] = [Ping EXCEPT !.verb = route[r].verb]
        /\ route[r].use # "yes" => ~route[r].errors /\ ~route[r].params
    /\ work = [r \in Request |-> "idle"]

---------------------------------------------------------------------------
(* MUTANT of AfterLimit: the roles are checked without `auth`.             *)
AfterLimitRoles(rt) ==
    IF rt.use # "yes" THEN {"503"} ELSE
        {"403", "method"} \cup (IF rt.params THEN {"400"} ELSE {})

(* createNode's handler up to getResponse: `use`, the token, the role, the *)
(* parameters, each with its answer.                                       *)
AfterLimit(rt) ==
    IF rt.use # "yes" THEN {"503"} ELSE
        {"method"} \cup (IF rt.auth # "none" THEN {"401"} ELSE {})
                   \cup (IF rt.auth = "role" THEN {"403"} ELSE {})
                   \cup (IF rt.params THEN {"400"} ELSE {})

(* Methods with `auth` go through the limiter per user first.              *)
AfterBody(rt) == IF rt.auth # "none" THEN {"userLimit"} ELSE AfterLimit(rt)

(* From the guard to the first await: the query may hold markup; a GET has *)
(* no body to parse. swaggerAuthMiddleware refuses, redirects or serves.   *)
AfterGuard(rt) ==
    {"400"} \cup CASE rt.verb = "none" -> {"404"}
                   [] rt.verb = "docs" -> {"403", "302", "200"}
                   [] rt.verb = "post" -> {"body"}
                   [] rt.verb = "get"  -> AfterBody(rt)

(* The guard lets r in (with or without its client) or answers 503.        *)
Enter(r) ==
    /\ Guard(r) \/ GuardGone(r)
    /\ IF draining THEN UNCHANGED work
                   ELSE \E w \in AfterGuard(route[r]) : work' = [work EXCEPT ![r] = w]
    /\ UNCHANGED route

Goes(r, from, to) ==
    /\ work[r] = from
    /\ work' = [work EXCEPT ![r] = to]
    /\ UNCHANGED <<vars, route>>

(* express.json and urlencoded: bad syntax, too long, an unknown charset   *)
(* or encoding, or parsed.                                                 *)
ParseBody(r) ==
    \E w \in {"400", "413", "415"} \cup AfterBody(route[r]) : Goes(r, "body", w)

(* express-rate-limit per user: 429, or 500 when its store fails.          *)
UserLimit(r) ==
    \E w \in {"429", "500"} \cup AfterLimit(route[r]) : Goes(r, "userLimit", w)

(* getResponse sends a response itself and goes on.                        *)
MethodSends(r) == Goes(r, "method", "sent")

(* getResponse returns: a value, or an error_code, which any method may    *)
(* return and which is sent with the `status` beside it or else with 200.  *)
(* Nothing is sent after a response: its status is the method's own.       *)
MethodReturns(r) ==
    \/ Goes(r, "method", "200") \/ Goes(r, "method", "own")
    \/ Goes(r, "sent", "own")

(* getResponse throws: 500. If it had sent a response, setHeader throws    *)
(* and Express destroys the connection; unless its bytes were out already, *)
(* the response never finishes.                                            *)
MethodThrows(r) ==
    \/ Goes(r, "method", "500")
    \/ /\ work[r] = "sent"
       /\ work' = [work EXCEPT ![r] = "broken"]
       /\ req' = [req EXCEPT ![r] = IF @ = "handler" THEN "hungUp" ELSE @]
       /\ UNCHANGED <<active, draining, phase, deadline, cut, route>>

(* A response ends after it was sent.                                      *)
Ends(r) ==
    /\ Finish(r)
    /\ r \notin Static => work[r] \in Status \cup {"sent"}
    /\ UNCHANGED <<route, work>>

---------------------------------------------------------------------------
HttpNext ==
    \/ \E r \in Request :
        \/ Enter(r) \/ ParseBody(r) \/ UserLimit(r) \/ MethodSends(r) \/ MethodReturns(r)
        \/ MethodThrows(r) \/ Ends(r)
        \/ (Arrives(r) \/ Limited(r) \/ ServeStatic(r) \/ HangsUp(r)) /\ UNCHANGED <<route, work>>
    \/ (Stop \/ Deadline \/ Close \/ CutConnections \/ Closed) /\ UNCHANGED <<route, work>>

HttpSpec == HttpInit /\ [][HttpNext]_httpVars
            /\ WF_httpVars(Deadline /\ UNCHANGED <<route, work>>)
            /\ WF_httpVars(Close /\ UNCHANGED <<route, work>>)
            /\ WF_httpVars(CutConnections /\ UNCHANGED <<route, work>>)
            /\ WF_httpVars(Closed /\ UNCHANGED <<route, work>>)

---------------------------------------------------------------------------
(* buildPathItem: the statuses the specification lists for a route. Routes *)
(* with use: false are left out of it by buildSpec.                        *)
Documented(rt) ==
    {"200", "500"} \cup (IF rt.params \/ rt.errors THEN {"400"} ELSE {})
                   \cup (IF rt.auth # "none" THEN {"401", "403"} ELSE {})
                   \cup (IF rt.use # "absent" THEN {"503"} ELSE {})
InSpec(rt) == rt.verb \in {"get", "post"} /\ rt.use # "no"

(* What no route lists: the answers of the middleware before it, and the   *)
(* status a method chooses itself, beside an error_code or in a response   *)
(* it sends.                                                               *)
Unlisted == {"400", "413", "415", "429", "own"}

(* swagger.js:136-175 against _class.js:155-222 - beside those, a route of *)
(* the specification answers with the statuses listed for it only: a token *)
(* or a role is asked for where it says so, and an enabled route never     *)
(* says it is off. A route without `use` is listed as if it worked and     *)
(* answers 503 only (or 500, when the store of the limiter fails).         *)
AnswerDocumented ==
    \A r \in Request : InSpec(route[r]) /\ work[r] \in Status \ Unlisted =>
        IF route[r].use = "yes" THEN work[r] \in Documented(route[r]) \ {"503"}
                                ELSE work[r] \in {"503", "500"}

(* api/index.js:94-98 - the count of the drain guard, exactly: requests    *)
(* being handled, and those it never counts off because their client was   *)
(* gone, or their connection destroyed, before the response was out.       *)
OnCount == {r \in Request : \/ req[r] = "handler"
                            \/ req[r] \in {"hungUp", "cut"} /\ work[r] # "idle"}
CountExplained == active = Cardinality(OnCount)
===========================================================================
