----------------------------- MODULE ApiDrain -----------------------------
(***************************************************************************)
(* modules/api: the drain guard of the HTTP server and its graceful stop.  *)
(*                                                                         *)
(* A request first passes the global rate limit (asynchronous, when it     *)
(* counts in Redis), then static files and OPTIONS are answered, and only  *)
(* then comes the guard: it refuses the request while the server drains,   *)
(* or counts it until its response is finished. stop() polls the count     *)
(* every 100 ms for at most 5 s, closes the server, and 2 s later cuts the *)
(* connections that are left.                                              *)
(***************************************************************************)
EXTENDS Naturals, FiniteSets

CONSTANTS Request,  \* BOUND: the requests clients may send
          Static,   \* those for static files, and OPTIONS
          Aborts    \* may a client hang up before it has its response?

ASSUME ApiDrainAssumption ==
    IsFiniteSet(Request) /\ Static \subseteq Request /\ Aborts \in BOOLEAN

VARIABLES req,      \* req[r]: how far request r is
          active,   \* #activeRequests
          draining, \* #draining
          phase,    \* the server: "listening", "draining" (the poll loop), "closing", "closed"
          deadline, \* the 5 s of the poll loop are over
          cut       \* closeAllConnections was called

vars == <<req, active, draining, phase, deadline, cut>>

Open     == {"limiter", "static", "handler"}  \* the client waits for a response
Answered == {"done", "refused"}

TypeOK ==
    /\ req \in [Request -> Open \cup Answered \cup {"new", "leaving", "hungUp", "cut"}]
    /\ active \in Nat
    /\ {draining, deadline, cut} \subseteq BOOLEAN
    /\ phase \in {"listening", "draining", "closing", "closed"}

Init ==
    /\ req = [r \in Request |-> "new"]
    /\ active = 0
    /\ draining = FALSE
    /\ phase = "listening"
    /\ deadline = FALSE /\ cut = FALSE

Counted == {r \in Request : req[r] = "handler"}

---------------------------------------------------------------------------
(* A request reaches the server, which accepts connections until close().  *)
Arrives(r) ==
    /\ req[r] = "new"
    /\ phase \in {"listening", "draining"}
    /\ req' = [req EXCEPT ![r] = "limiter"]
    /\ UNCHANGED <<active, draining, phase, deadline, cut>>

(* The rate limiter answers 429 itself.                                    *)
Limited(r) ==
    /\ req[r] = "limiter"
    /\ req' = [req EXCEPT ![r] = "refused"]
    /\ UNCHANGED <<active, draining, phase, deadline, cut>>

(* The rate limiter lets a request for a static file or an OPTIONS pass:   *)
(* it never reaches the guard.                                             *)
ServeStatic(r) ==
    /\ req[r] = "limiter" /\ r \in Static
    /\ req' = [req EXCEPT ![r] = "static"]
    /\ UNCHANGED <<active, draining, phase, deadline, cut>>

(* MUTANT of Guard: nothing is refused, requests in flight still get in.   *)
GuardOpen(r) ==
    /\ req[r] = "limiter" /\ r \notin Static
    /\ req' = [req EXCEPT ![r] = "handler"]
    /\ active' = active + 1
    /\ UNCHANGED <<draining, phase, deadline, cut>>

(* The drain guard: 503 while draining, else the request is counted.       *)
Guard(r) ==
    /\ req[r] = "limiter" /\ r \notin Static
    /\ \/ /\ draining
          /\ req' = [req EXCEPT ![r] = "refused"]
          /\ UNCHANGED active
       \/ /\ ~draining
          /\ req' = [req EXCEPT ![r] = "handler"]
          /\ active' = active + 1
    /\ UNCHANGED <<draining, phase, deadline, cut>>

(* MUTANTS of Finish: the response is counted off when it is sent and once *)
(* more in `finish`; or a response that was never counted is counted off.  *)
FinishTwice(r) ==
    /\ req[r] \in {"static", "handler"}
    /\ req' = [req EXCEPT ![r] = "done"]
    /\ active' = IF r \in Static \/ active = 0 THEN active ELSE IF active = 1 THEN 0 ELSE active - 2
    /\ UNCHANGED <<draining, phase, deadline, cut>>
FinishBelowZero(r) ==
    /\ req[r] \in {"static", "handler"}
    /\ req' = [req EXCEPT ![r] = "done"]
    /\ active' = active - 1
    /\ UNCHANGED <<draining, phase, deadline, cut>>

(* The last byte of the response is out: the `finish` event counts it off. *)
Finish(r) ==
    /\ req[r] \in {"static", "handler"}
    /\ req' = [req EXCEPT ![r] = "done"]
    /\ active' = IF req[r] = "handler" THEN active - 1 ELSE active
    /\ UNCHANGED <<draining, phase, deadline, cut>>

(* The client hangs up: the response emits `close` but no `finish`. A      *)
(* request still in the limiter goes on to the guard without its client.   *)
HangsUp(r) ==
    /\ Aborts
    /\ req[r] \in Open
    /\ req' = [req EXCEPT ![r] = IF req[r] = "limiter" /\ r \notin Static
                                 THEN "leaving" ELSE "hungUp"]
    /\ UNCHANGED <<active, draining, phase, deadline, cut>>

(* The guard counts a request whose client is gone, for good: its response *)
(* never finishes.                                                         *)
GuardGone(r) ==
    /\ req[r] = "leaving"
    /\ req' = [req EXCEPT ![r] = "hungUp"]
    /\ active' = IF draining THEN active ELSE active + 1
    /\ UNCHANGED <<draining, phase, deadline, cut>>

---------------------------------------------------------------------------
(* stop(): the server drains from here on.                                 *)
Stop ==
    /\ phase = "listening"
    /\ draining' = TRUE
    /\ phase' = "draining"
    /\ UNCHANGED <<req, active, deadline, cut>>

(* The 5 s are over.                                                       *)
Deadline ==
    /\ phase = "draining" /\ ~deadline
    /\ deadline' = TRUE
    /\ UNCHANGED <<req, active, draining, phase, cut>>

(* The poll loop ends and the server is closed to new connections.         *)
Close ==
    /\ phase = "draining"
    /\ active = 0 \/ deadline
    /\ phase' = "closing"
    /\ UNCHANGED <<req, active, draining, deadline, cut>>

(* MUTANT of CutConnections: no forced close.                              *)
CutNothing ==
    /\ FALSE
    /\ UNCHANGED vars

(* closeAllConnections, 2 s after close().                                 *)
CutConnections ==
    /\ phase = "closing" /\ ~cut
    /\ cut' = TRUE
    /\ req' = [r \in Request |-> IF req[r] \in Open THEN "cut" ELSE req[r]]
    /\ UNCHANGED <<active, draining, phase, deadline>>

(* The callback of close(): no connection is left.                         *)
Closed ==
    /\ phase = "closing"
    /\ \A r \in Request : req[r] \notin Open
    /\ phase' = "closed"
    /\ UNCHANGED <<req, active, draining, deadline, cut>>

---------------------------------------------------------------------------
(* README.md:147 - active requests are drained: before the 5 s are over    *)
(* the server is not closed while a counted request is being handled, and  *)
(* none that was held up in the limiter gets in afterwards.                *)
DrainsBeforeClose == phase \in {"closing", "closed"} /\ ~deadline => Counted = {}

(* stop() resolves, whatever handlers, clients and the count do.           *)
StopEnds == draining ~> phase = "closed"
===========================================================================
