---------------------------- MODULE HttpProofs ----------------------------
(***************************************************************************)
(* Proofs about RequestPipeline for any finite number of requests, to any  *)
(* routes, of clients that hang up and methods that throw.                 *)
(***************************************************************************)
EXTENDS RequestPipeline, FiniteSetTheorems, TLAPS

(* The handling of a request begins behind the guard, and nowhere else.    *)
Behind ==
    \A r \in Request :
        /\ req[r] \in {"new", "limiter", "static", "leaving", "refused"} => work[r] = "idle"
        /\ req[r] = "handler" => work[r] # "idle"
        /\ r \in Static => work[r] = "idle" /\ req[r] # "leaving"

(* No request gets behind the guard once the server drains.                *)
Drained ==
    /\ draining <=> phase # "listening"
    /\ DrainsBeforeClose

(* Only a route with `use` gets as far as its method.                      *)
Used ==
    \A r \in Request : InSpec(route[r]) /\ work[r] \in {"method", "sent"} => route[r].use = "yes"

(* The inductive invariant.                                                *)
IInv == HttpTypeOK /\ Behind /\ CountExplained /\ Drained

LEMMA OnCountFinite == IsFiniteSet(OnCount) /\ IsFiniteSet(OnCount') /\ Cardinality(OnCount) \in Nat
  BY ApiDrainAssumption, FS_Subset, FS_CardinalityType DEF OnCount

(* The answers and awaits a request may go on to.                          *)
LEMMA AfterTypes ==
    ASSUME NEW rt \in Route
    PROVE  /\ AfterLimit(rt) \subseteq (Status \cup {"method"})
           /\ AfterBody(rt) \subseteq (Status \cup {"method", "userLimit"})
           /\ AfterGuard(rt) \subseteq (Status \cup {"method", "userLimit", "body"})
  BY DEF Route, AfterLimit, AfterBody, AfterGuard, Status

---------------------------------------------------------------------------
LEMMA TypePreserved ==
    ASSUME HttpTypeOK, Behind, CountExplained, [HttpNext]_httpVars
    PROVE  HttpTypeOK'
<1> USE AfterTypes DEF HttpTypeOK, TypeOK, Open, Answered
<1>0. /\ \A s \in Status : s # "idle"
      /\ {"200", "400", "413", "415", "429", "500", "own"} \subseteq Status
  BY DEF Status
<1>1. ASSUME NEW r \in Request, Enter(r) PROVE HttpTypeOK'
  <2>1. TypeOK'
    BY <1>1 DEF Enter, Guard, GuardGone
  <2>2. route' = route /\ work' \in [Request -> Status \cup {"idle", "body", "userLimit", "method", "sent", "broken"}]
    BY <1>1 DEF Enter
  <2> QED
    BY <2>1, <2>2
<1>2. ASSUME NEW r \in Request, NEW f, NEW t \in Status \cup {"userLimit", "method", "sent", "broken"},
             Goes(r, f, t)
      PROVE  HttpTypeOK'
  BY <1>2 DEF Goes, vars
<1>3. ASSUME NEW r \in Request, ParseBody(r) \/ UserLimit(r) \/ MethodSends(r) \/ MethodReturns(r)
      PROVE  HttpTypeOK'
  BY <1>0, <1>2, <1>3 DEF ParseBody, UserLimit, MethodSends, MethodReturns
<1>4. ASSUME NEW r \in Request, MethodThrows(r) PROVE HttpTypeOK'
  BY <1>0, <1>2, <1>4 DEF MethodThrows
<1>5. ASSUME NEW r \in Request, Ends(r) PROVE HttpTypeOK'
  <2>1. r \in OnCount => active > 0
    BY OnCountFinite, FS_EmptySet, FS_CardinalityType DEF CountExplained
  <2> QED
    BY <1>5, <2>1 DEF Ends, Finish, OnCount
<1>6. ASSUME NEW r \in Request, UNCHANGED <<route, work>>,
             Arrives(r) \/ Limited(r) \/ ServeStatic(r) \/ HangsUp(r)
      PROVE  HttpTypeOK'
  BY <1>6 DEF Arrives, Limited, ServeStatic, HangsUp
<1>7. ASSUME UNCHANGED <<route, work>>, Stop \/ Deadline \/ Close \/ CutConnections \/ Closed
      PROVE  HttpTypeOK'
  BY <1>7 DEF Stop, Deadline, Close, CutConnections, Closed
<1>8. CASE UNCHANGED httpVars
  BY <1>8 DEF httpVars, vars
<1> QED
  BY <1>1, <1>3, <1>4, <1>5, <1>6, <1>7, <1>8 DEF HttpNext

---------------------------------------------------------------------------
LEMMA BehindPreserved ==
    ASSUME HttpTypeOK, Behind, [HttpNext]_httpVars
    PROVE  Behind'
<1> USE AfterTypes DEF HttpTypeOK, TypeOK, Behind
<1>0. \A s \in Status \cup {"body", "userLimit", "method", "sent", "broken"} : s # "idle"
  BY DEF Status
<1>1. ASSUME NEW r \in Request, Enter(r) PROVE Behind'
  <2>1. CASE draining
    BY <1>1, <2>1 DEF Enter, Guard, GuardGone
  <2>2. CASE ~draining
    <3>1. PICK w \in AfterGuard(route[r]) : work' = [work EXCEPT ![r] = w]
      BY <1>1, <2>2 DEF Enter
    <3>2. w # "idle"
      BY <1>0, <3>1
    <3> QED
      BY <1>1, <2>2, <3>1, <3>2, ApiDrainAssumption DEF Enter, Guard, GuardGone
  <2> QED
    BY <2>1, <2>2
<1>2. ASSUME NEW r \in Request, NEW f, NEW t, f # "idle", t # "idle", Goes(r, f, t)
      PROVE  Behind'
  BY <1>2 DEF Goes, vars
<1>3. ASSUME NEW r \in Request, ParseBody(r) \/ UserLimit(r) \/ MethodSends(r) \/ MethodReturns(r)
      PROVE  Behind'
  BY <1>0, <1>2, <1>3 DEF ParseBody, UserLimit, MethodSends, MethodReturns, Status
<1>4. ASSUME NEW r \in Request, MethodThrows(r) PROVE Behind'
  <2>1. CASE Goes(r, "method", "500")
    BY <1>2, <2>1
  <2>2. CASE ~Goes(r, "method", "500")
    <3>1. /\ work[r] = "sent" /\ work' = [work EXCEPT ![r] = "broken"]
          /\ req' = [req EXCEPT ![r] = IF @ = "handler" THEN "hungUp" ELSE @]
      BY <1>4, <2>2 DEF MethodThrows
    <3> QED
      BY <3>1
  <2> QED
    BY <2>1, <2>2
<1>5. ASSUME NEW r \in Request, Ends(r) PROVE Behind'
  BY <1>5 DEF Ends, Finish
<1>6. ASSUME NEW r \in Request, UNCHANGED <<route, work>>,
             Arrives(r) \/ Limited(r) \/ ServeStatic(r) \/ HangsUp(r)
      PROVE  Behind'
  BY <1>6 DEF Arrives, Limited, ServeStatic, HangsUp, Open
<1>7. ASSUME UNCHANGED <<route, work>>, Stop \/ Deadline \/ Close \/ CutConnections \/ Closed
      PROVE  Behind'
  BY <1>7 DEF Stop, Deadline, Close, CutConnections, Closed
<1>8. CASE UNCHANGED httpVars
  BY <1>8 DEF httpVars, vars
<1> QED
  BY <1>1, <1>3, <1>4, <1>5, <1>6, <1>7, <1>8 DEF HttpNext

---------------------------------------------------------------------------
(* A step that leaves the set of counted requests alone, adds one or takes *)
(* one away does the same to the count.                                    *)
LEMMA CountFollows ==
    ASSUME CountExplained, NEW r \in Request,
           \/ OnCount' = OnCount /\ active' = active
           \/ r \notin OnCount /\ OnCount' = OnCount \cup {r} /\ active' = active + 1
           \/ r \in OnCount /\ OnCount' = OnCount \ {r} /\ active' = active - 1
    PROVE  CountExplained'
  BY OnCountFinite, FS_AddElement, FS_RemoveElement DEF CountExplained

LEMMA CountPreserved ==
    ASSUME HttpTypeOK, Behind, CountExplained, [HttpNext]_httpVars
    PROVE  CountExplained'
<1> USE AfterTypes DEF HttpTypeOK, TypeOK, Behind
<1>0. \A s \in Status \cup {"body", "userLimit", "method", "sent", "broken"} : s # "idle"
  BY DEF Status
<1>1. ASSUME NEW r \in Request, Enter(r) PROVE CountExplained'
  <2>1. CASE draining
    <3>1. OnCount' = OnCount /\ active' = active
      BY <1>1, <2>1 DEF Enter, Guard, GuardGone, OnCount
    <3> QED
      BY <3>1, CountFollows
  <2>2. CASE ~draining
    <3>1. PICK w \in AfterGuard(route[r]) : work' = [work EXCEPT ![r] = w]
      BY <1>1, <2>2 DEF Enter
    <3>2. w # "idle"
      BY <1>0, <3>1
    <3>3. req[r] \in {"limiter", "leaving"} /\ work[r] = "idle"
      BY <1>1 DEF Enter, Guard, GuardGone
    <3>4. \E to \in {"handler", "hungUp"} : req' = [req EXCEPT ![r] = to]
      BY <1>1, <2>2 DEF Enter, Guard, GuardGone
    <3>5. r \notin OnCount /\ OnCount' = OnCount \cup {r}
      BY <3>1, <3>2, <3>3, <3>4 DEF OnCount
    <3>6. active' = active + 1
      BY <1>1, <2>2 DEF Enter, Guard, GuardGone
    <3> QED
      BY <3>5, <3>6, CountFollows
  <2> QED
    BY <2>1, <2>2
<1>2. ASSUME NEW r \in Request, NEW f, NEW t, f # "idle", t # "idle", Goes(r, f, t)
      PROVE  CountExplained'
  <2>1. OnCount' = OnCount /\ active' = active
    BY <1>2 DEF Goes, vars, OnCount
  <2> QED
    BY <2>1, CountFollows
<1>3. ASSUME NEW r \in Request, ParseBody(r) \/ UserLimit(r) \/ MethodSends(r) \/ MethodReturns(r)
      PROVE  CountExplained'
  BY <1>0, <1>2, <1>3 DEF ParseBody, UserLimit, MethodSends, MethodReturns, Status
<1>4. ASSUME NEW r \in Request, MethodThrows(r) PROVE CountExplained'
  <2>1. CASE Goes(r, "method", "500")
    BY <1>2, <2>1
  <2>2. CASE ~Goes(r, "method", "500")
    <3>1. OnCount' = OnCount /\ active' = active
      BY <1>4, <2>2 DEF MethodThrows, OnCount
    <3> QED
      BY <3>1, CountFollows
  <2> QED
    BY <2>1, <2>2
<1>5. ASSUME NEW r \in Request, Ends(r) PROVE CountExplained'
  <2>1. CASE req[r] = "handler"
    <3>1. r \in OnCount /\ OnCount' = OnCount \ {r} /\ active' = active - 1
      BY <1>5, <2>1 DEF Ends, Finish, OnCount
    <3> QED
      BY <3>1, CountFollows
  <2>2. CASE req[r] = "static"
    <3>1. OnCount' = OnCount /\ active' = active
      BY <1>5, <2>2 DEF Ends, Finish, OnCount
    <3> QED
      BY <3>1, CountFollows
  <2> QED
    BY <1>5, <2>1, <2>2 DEF Ends, Finish
<1>6. ASSUME NEW r \in Request, UNCHANGED <<route, work>>,
             Arrives(r) \/ Limited(r) \/ ServeStatic(r) \/ HangsUp(r)
      PROVE  CountExplained'
  <2>1. OnCount' = OnCount /\ active' = active
    BY <1>6 DEF Arrives, Limited, ServeStatic, HangsUp, Open, OnCount
  <2> QED
    BY <2>1, CountFollows
<1>7. ASSUME UNCHANGED <<route, work>>, Stop \/ Deadline \/ Close \/ CutConnections \/ Closed
      PROVE  CountExplained'
  <2>1. OnCount' = OnCount /\ active' = active
    BY <1>7 DEF Stop, Deadline, Close, CutConnections, Closed, Open, OnCount
  <2> QED
    BY <2>1 DEF CountExplained
<1>8. CASE UNCHANGED httpVars
  BY <1>8 DEF httpVars, vars, CountExplained, OnCount
<1> QED
  BY <1>1, <1>3, <1>4, <1>5, <1>6, <1>7, <1>8 DEF HttpNext

---------------------------------------------------------------------------
(* Nobody counted is missed by the count.                                  *)
LEMMA CountIsSafe ==
    ASSUME CountExplained, active = 0
    PROVE  Counted = {}
  BY OnCountFinite, FS_EmptySet DEF CountExplained, OnCount, Counted

LEMMA DrainedPreserved ==
    ASSUME HttpTypeOK, Behind, CountExplained, Drained, [HttpNext]_httpVars
    PROVE  Drained'
<1> USE DEF HttpTypeOK, TypeOK, Behind, Drained, DrainsBeforeClose, Counted
<1>1. ASSUME NEW r \in Request, Enter(r) PROVE Drained'
  BY <1>1 DEF Enter, Guard, GuardGone
<1>2. ASSUME NEW r \in Request, NEW f, NEW t, Goes(r, f, t) PROVE Drained'
  BY <1>2 DEF Goes, vars
<1>3. ASSUME NEW r \in Request, ParseBody(r) \/ UserLimit(r) \/ MethodSends(r) \/ MethodReturns(r)
      PROVE  Drained'
  BY <1>2, <1>3 DEF ParseBody, UserLimit, MethodSends, MethodReturns
<1>4. ASSUME NEW r \in Request, MethodThrows(r) PROVE Drained'
  BY <1>2, <1>4 DEF MethodThrows
<1>5. ASSUME NEW r \in Request, Ends(r) PROVE Drained'
  BY <1>5 DEF Ends, Finish
<1>6. ASSUME NEW r \in Request, UNCHANGED <<route, work>>,
             Arrives(r) \/ Limited(r) \/ ServeStatic(r) \/ HangsUp(r)
      PROVE  Drained'
  BY <1>6 DEF Arrives, Limited, ServeStatic, HangsUp, Open
<1>7. ASSUME UNCHANGED <<route, work>>, Stop \/ Deadline \/ CutConnections \/ Closed
      PROVE  Drained'
  BY <1>7 DEF Stop, Deadline, CutConnections, Closed, Open
<1>8. CASE Close
  BY <1>8, CountIsSafe DEF Close
<1>9. CASE UNCHANGED httpVars
  BY <1>9 DEF httpVars, vars
<1> QED
  BY <1>1, <1>3, <1>4, <1>5, <1>6, <1>7, <1>8, <1>9 DEF HttpNext

---------------------------------------------------------------------------
LEMMA InitHolds == HttpInit => IInv
<1> SUFFICES ASSUME HttpInit PROVE IInv
  OBVIOUS
<1> USE DEF HttpInit, Init
<1>1. HttpTypeOK
  BY DEF HttpTypeOK, TypeOK
<1>2. Behind /\ Drained
  BY DEF Behind, Drained, DrainsBeforeClose
<1>3. OnCount = {} /\ active = 0
  BY DEF OnCount
<1>4. CountExplained
  BY <1>3, FS_EmptySet DEF CountExplained
<1> QED
  BY <1>1, <1>2, <1>4 DEF IInv

(* The inductive invariant of api/index.js:94-225 and the route behind it.  *)
THEOREM Inductive == HttpSpec => []IInv
<1>1. HttpInit => IInv
  BY InitHolds
<1>2. IInv /\ [HttpNext]_httpVars => IInv'
  BY TypePreserved, BehindPreserved, CountPreserved, DrainedPreserved DEF IInv
<1> QED
  BY <1>1, <1>2, PTL DEF HttpSpec

(* The types of the server, the routes and the requests under way.         *)
THEOREM HttpTypeCorrect == HttpSpec => []HttpTypeOK
  BY Inductive, PTL DEF IInv

(* api/index.js:94-98 - the counter of the drain guard is the number of    *)
(* requests being handled and of those that lost their client or their     *)
(* connection while they were counted.                                     *)
THEOREM CountIsExplained == HttpSpec => []CountExplained
  BY Inductive, PTL DEF IInv

(* README.md:147 - before its 5 s are over the drain does not close the    *)
(* server on a request that is being handled, however many requests wait   *)
(* in the asynchronous rate limiter.                                       *)
THEOREM DrainIsComplete == HttpSpec => []DrainsBeforeClose
<1>1. IInv => DrainsBeforeClose
  BY DEF IInv, Drained
<1> QED
  BY <1>1, Inductive, PTL

---------------------------------------------------------------------------
(* The answers of a route of the specification.                            *)
Early(rt) == Unlisted \cup IF rt.use = "yes" THEN Documented(rt) \ {"503"} ELSE {"503", "500"}

LEMMA EarlyAnswers ==
    ASSUME NEW rt \in Route, InSpec(rt)
    PROVE  /\ AfterLimit(rt) \subseteq (Early(rt) \cup IF rt.use = "yes" THEN {"method"} ELSE {})
           /\ AfterBody(rt) \subseteq (AfterLimit(rt) \cup {"userLimit"})
           /\ AfterGuard(rt) \subseteq (AfterLimit(rt) \cup {"400", "body", "userLimit"})
           /\ {"400", "413", "415", "429", "500"} \subseteq Early(rt)
<1> USE DEF Route, InSpec, Early, Documented, Unlisted
<1>1. AfterLimit(rt) \subseteq (Early(rt) \cup IF rt.use = "yes" THEN {"method"} ELSE {})
  BY DEF AfterLimit
<1>2. AfterBody(rt) \subseteq (AfterLimit(rt) \cup {"userLimit"})
  BY DEF AfterBody
<1>3. AfterGuard(rt) \subseteq (AfterLimit(rt) \cup {"400", "body", "userLimit"})
  BY <1>2 DEF AfterGuard
<1> QED
  BY <1>1, <1>2, <1>3

(* The two invariants in one form: how far a listed route may get.         *)
Listed(r, w) ==
    InSpec(route[r]) => /\ w \in Status => w \in Early(route[r])
                        /\ w \in {"method", "sent"} => route[r].use = "yes"

LEMMA ListedAll == Used /\ AnswerDocumented <=> \A r \in Request : Listed(r, work[r])
  BY DEF Used, AnswerDocumented, Listed, Early

LEMMA ListedGoes ==
    ASSUME HttpTypeOK, \A r \in Request : Listed(r, work[r]), route' = route,
           NEW q \in Request, NEW w, work' = [work EXCEPT ![q] = w], Listed(q, w)
    PROVE  \A r \in Request : Listed(r, work[r])'
  BY DEF HttpTypeOK, Listed

LEMMA BeforeMethodListed ==
    ASSUME NEW r \in Request, route[r] \in Route,
           NEW w \in AfterLimit(route[r]) \cup AfterBody(route[r]) \cup AfterGuard(route[r])
                     \cup {"400", "413", "415", "429", "500"}
    PROVE  Listed(r, w)
<1> SUFFICES ASSUME InSpec(route[r])
             PROVE  /\ w \in Status => w \in Early(route[r])
                    /\ w \in {"method", "sent"} => route[r].use = "yes"
  BY DEF Listed
<1>1. "sent" \notin Status /\ "method" \notin Status /\ "body" \notin Status /\ "userLimit" \notin Status
  BY DEF Status
<1>2. w \in AfterLimit(route[r]) \/ w \in {"400", "413", "415", "429", "500", "body", "userLimit"}
  BY EarlyAnswers
<1>3. CASE w \in AfterLimit(route[r])
  <2>1. w \in Early(route[r]) \/ (w = "method" /\ route[r].use = "yes")
    BY <1>3, EarlyAnswers
  <2>2. w # "sent"
    BY <1>1, <1>3, AfterTypes
  <2>3. w = "method" => route[r].use = "yes"
    BY <1>3 DEF AfterLimit
  <2> QED
    BY <1>1, <2>1, <2>2, <2>3
<1>4. CASE w \in {"400", "413", "415", "429", "500", "body", "userLimit"}
  BY <1>1, <1>4, EarlyAnswers
<1> QED
  BY <1>2, <1>3, <1>4

LEMMA ListedPreserved ==
    ASSUME HttpTypeOK, Used, AnswerDocumented, [HttpNext]_httpVars
    PROVE  (Used /\ AnswerDocumented)'
<1> DEFINE Goal == \A r \in Request : Listed(r, work[r])'
<1> SUFFICES Goal
  BY DEF Used, AnswerDocumented, Listed, Early
<1>a. \A r \in Request : Listed(r, work[r])
  BY ListedAll
<1>b. \A r \in Request : route[r] \in Route
  BY DEF HttpTypeOK
<1>0. /\ {"idle", "body", "userLimit", "method", "sent", "broken"} \cap Status = {}
      /\ \A rt \in Route : AfterLimit(rt) \subseteq (Status \cup {"method"})
  BY AfterTypes DEF Status
<1> HIDE DEF Goal
<1>1. ASSUME NEW r \in Request, Enter(r) PROVE Goal
  <2>1. CASE draining
    BY <1>1, <1>a, <2>1 DEF Enter, Goal, Listed
  <2>2. CASE ~draining
    <3>1. PICK w \in AfterGuard(route[r]) : work' = [work EXCEPT ![r] = w]
      BY <1>1, <2>2 DEF Enter
    <3>2. Listed(r, w)
      BY <1>b, BeforeMethodListed
    <3>3. route' = route
      BY <1>1 DEF Enter
    <3> QED
      BY <1>a, <3>1, <3>2, <3>3, ListedGoes DEF Goal
  <2> QED
    BY <2>1, <2>2
<1>2. ASSUME NEW r \in Request, NEW f, NEW w, Goes(r, f, w), Listed(r, w) PROVE Goal
  BY <1>2, <1>a, ListedGoes DEF Goes, Goal
<1>3. ASSUME NEW r \in Request, ParseBody(r) \/ UserLimit(r) PROVE Goal
  <2>1. \A w \in {"400", "413", "415", "429", "500"} \cup AfterBody(route[r]) \cup AfterLimit(route[r]) : Listed(r, w)
    BY <1>b, BeforeMethodListed
  <2> QED
    BY <1>2, <1>3, <2>1 DEF ParseBody, UserLimit
<1>4. ASSUME NEW r \in Request, NEW w \in {"sent", "200", "500", "own"}, NEW f \in {"method", "sent"},
             Goes(r, f, w)
      PROVE  Goal
  <2>1. Listed(r, w)
    BY <1>0, <1>4, <1>a DEF Goes, Listed, Early, Unlisted, Documented
  <2> QED
    BY <1>2, <1>4, <2>1
<1>6. ASSUME NEW r \in Request, MethodSends(r) \/ MethodReturns(r) PROVE Goal
  BY <1>4, <1>6 DEF MethodSends, MethodReturns
<1>7. ASSUME NEW r \in Request, MethodThrows(r) PROVE Goal
  <2>1. CASE Goes(r, "method", "500")
    BY <1>4, <2>1
  <2>2. CASE ~Goes(r, "method", "500")
    <3>1. work' = [work EXCEPT ![r] = "broken"] /\ route' = route
      BY <1>7, <2>2 DEF MethodThrows
    <3>2. Listed(r, "broken")
      BY <1>0 DEF Listed
    <3> QED
      BY <1>a, <3>1, <3>2, ListedGoes DEF Goal
  <2> QED
    BY <2>1, <2>2
<1>8. ASSUME UNCHANGED <<route, work>> PROVE Goal
  BY <1>8, <1>a DEF Goal, Listed
<1> QED
  BY <1>1, <1>3, <1>6, <1>7, <1>8 DEF HttpNext, Ends, httpVars

(* swagger.js:136-175 - beside what the middleware and the method itself   *)
(* choose, a route of the published specification answers with the         *)
(* statuses listed for it only, for any configuration of its verb, `use`,  *)
(* `auth`, params and errors.                                              *)
THEOREM AnswersAreDocumented == HttpSpec => []AnswerDocumented
<1>1. HttpInit => Used /\ AnswerDocumented
  BY DEF HttpInit, Used, AnswerDocumented, Status
<1>2. HttpTypeOK /\ Used /\ AnswerDocumented /\ [HttpNext]_httpVars => (Used /\ AnswerDocumented)'
  BY ListedPreserved
<1> QED
  BY <1>1, <1>2, HttpTypeCorrect, PTL DEF HttpSpec
===========================================================================
