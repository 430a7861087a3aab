--------------------------- MODULE ProcessProofs ---------------------------
(***************************************************************************)
(* Proofs about ApiProcess for launch queues of any length, any of whose   *)
(* modules may be switched off or fail. The first part is about a signal   *)
(* after the launch (with one during the launch CleanExit fails:           *)
(* lifecycle_early), the second about a signal at any time.                *)
(***************************************************************************)
EXTENDS ApiProcess, TLAPS

(* Until the launch is over nothing stops, and what it has not come to is  *)
(* not on; it ends early at a module of priority only.                     *)
Launching ==
    /\ launch # "done" => \A m \in Module : m >= at => status[m] # "on"
    /\ launch = "waiting" => at = 0
    /\ launch \in {"waiting", "starting"} => proc # "exit0" /\ \A k \in Signal : stopping[k] = 0
    /\ launch = "halted" => at \in Priority /\ \A k \in Signal : stopping[k] < at

(* What is above the module that stops is stopped.                         *)
StoppedAbove ==
    \A k \in Signal, m \in Module : stopping[k] # 0 /\ m >= stopping[k] => status[m] # "on"

(* An enabled module of priority is on, or not yet on, or on its way down. *)
PriorityOn ==
    proc = "running" =>
        \A d \in Priority : use[d] =>
            \/ status[d] = "on"
            \/ launch # "done" /\ d >= at
            \/ \E k \in Signal : stopping[k] # 0 /\ stopping[k] <= d

(* A connection that is open belongs to a module that will be stopped, or  *)
(* to sockets while it starts, unless nobody can close it any more.        *)
HeldByLive ==
    \A m \in Module : \A c \in HeldBy(m) : c \in open =>
        c \in unclosed \/ Alive(m) \/ (m = Sockets /\ Starting(m))

LEMMA Positions ==
    /\ Module \subseteq Nat \ {0} /\ Priority \subseteq Module /\ N \in Nat
    /\ {Db, Cache, Api} \subseteq Module /\ Db # Cache /\ Db # Api /\ Cache # Api
    /\ \A p \in Priority, m \in Module \ Priority : p < m
    /\ \E k : Signal = {k}
<1>1. Module \subseteq Nat \ {0} /\ N \in Nat /\ Priority \subseteq Module
  BY LifecycleAssumption DEF Module
<1> QED
  BY <1>1, LifecycleAssumption, ApiProcessAssumption

LEMMA Owners ==
    /\ {Db, Cache, Api, Sockets, Logger} \subseteq Module
    /\ Db # Cache /\ Db # Sockets /\ Cache # Sockets /\ Api # Sockets /\ Logger # Sockets
  BY LifecycleAssumption, ApiProcessAssumption

---------------------------------------------------------------------------
(* launch() from position m on: up to n, where the next module starts.     *)
LEMMA LaunchFromFacts ==
    ASSUME TypeOK, NEW m \in 1 .. N + 1, NEW st \in [Module -> {"off", "on", "null"}],
           LaunchFrom(m, st)
    PROVE  \E n \in m .. N + 1 :
              /\ at' = n
              /\ launch' = IF n \in Module THEN "starting" ELSE "done"
              /\ status' \in [Module -> {"off", "on", "null"}]
              /\ \A i \in Module : i >= n \/ i < m => status'[i] = st[i]
              /\ \A i \in Module : m <= i /\ i < n => ~use[i] /\ status'[i] = "null"
<1>1. PICK n \in m .. N + 1 :
          /\ \A i \in m .. n - 1 : ~use[i]
          /\ status' = [i \in Module |-> IF i \in m .. n - 1 THEN "null" ELSE st[i]]
          /\ at' = n
          /\ launch' = IF n \in Module THEN "starting" ELSE "done"
  BY DEF LaunchFrom
<1> QED
  BY <1>1, Positions DEF Module

(* The invariant about the launch and the shutdown, without what is held.  *)
Ordered == TypeOK /\ Launching /\ StoppedAbove /\ PriorityOn /\ CleanExit

(* A step of the launch, from the module m, with the statuses st.          *)
LEMMA LaunchStep ==
    ASSUME Ordered, proc = "running", \A k \in Signal : stopping[k] = 0,
           NEW m \in 1 .. N + 1, NEW st \in [Module -> {"off", "on", "null"}],
           LaunchFrom(m, st), UNCHANGED <<use, stopping, proc>>,
           \A i \in Module : i >= m => st[i] # "on",
           \A d \in Priority : use[d] => st[d] = "on" \/ d >= m
    PROVE  Ordered'
<1> USE Positions DEF Ordered
<1>1. PICK n \in m .. N + 1 :
          /\ at' = n
          /\ launch' = IF n \in Module THEN "starting" ELSE "done"
          /\ status' \in [Module -> {"off", "on", "null"}]
          /\ \A i \in Module : i >= n \/ i < m => status'[i] = st[i]
          /\ \A i \in Module : m <= i /\ i < n => ~use[i] /\ status'[i] = "null"
  BY LaunchFromFacts
<1>2. TypeOK'
  BY <1>1 DEF TypeOK, Module
<1>3. Launching'
  BY <1>1 DEF Launching, TypeOK
<1>4. StoppedAbove' /\ CleanExit'
  BY DEF StoppedAbove, CleanExit
<1>5. PriorityOn'
  BY <1>1 DEF PriorityOn, TypeOK, Module
<1> QED
  BY <1>2, <1>3, <1>4, <1>5

LEMMA LaunchBeginsOrdered == Ordered /\ LaunchBegins => Ordered'
<1> SUFFICES ASSUME Ordered, LaunchBegins PROVE Ordered'
  OBVIOUS
<1> USE Positions DEF Ordered
<1>1. 1 \in 1 .. N + 1 /\ status \in [Module -> {"off", "on", "null"}]
  BY DEF TypeOK
<1>2. /\ proc = "running" /\ LaunchFrom(1, status) /\ UNCHANGED <<use, stopping, proc>>
      /\ \A k \in Signal : stopping[k] = 0
      /\ \A i \in Module : status[i] # "on"
  BY DEF LaunchBegins, Launching
<1> QED
  BY <1>1, <1>2, LaunchStep

LEMMA StartResolvesOrdered == Ordered /\ StartResolves => Ordered'
<1> SUFFICES ASSUME Ordered, StartResolves PROVE Ordered'
  OBVIOUS
<1> USE Positions DEF Ordered
<1> DEFINE st == [status EXCEPT ![at] = "on"]
<1>1. at \in Module /\ launch = "starting" /\ proc = "running"
  BY DEF StartResolves, TypeOK
<1>2. at + 1 \in 1 .. N + 1 /\ st \in [Module -> {"off", "on", "null"}]
  BY <1>1 DEF TypeOK, Module
<1>3. \A k \in Signal : stopping[k] = 0
  BY <1>1 DEF Launching
<1>4. \A i \in Module : i >= at + 1 => st[i] # "on"
  BY <1>1 DEF Launching, TypeOK
<1>5. \A d \in Priority : use[d] => st[d] = "on" \/ d >= at + 1
  BY <1>1, <1>3 DEF PriorityOn, TypeOK
<1>6. LaunchFrom(at + 1, st) /\ UNCHANGED <<use, stopping, proc>>
  BY DEF StartResolves
<1> QED
  BY <1>1, <1>2, <1>3, <1>4, <1>5, <1>6, LaunchStep

LEMMA StartFailsOrdered == Ordered /\ StartFails => Ordered'
<1> SUFFICES ASSUME Ordered, StartFails PROVE Ordered'
  OBVIOUS
<1> USE Positions DEF Ordered
<1>1. at \in Module /\ launch = "starting" /\ proc = "running" /\ UNCHANGED <<use, stopping, proc>>
  BY DEF StartFails, TypeOK
<1>2. \A k \in Signal : stopping[k] = 0
  BY <1>1 DEF Launching
<1>3. CASE at \in Priority /\ launch' = "halted" /\ UNCHANGED <<status, at>>
  BY <1>1, <1>2, <1>3 DEF TypeOK, Launching, StoppedAbove, PriorityOn, CleanExit
<1>4. CASE at \notin Priority /\ LaunchFrom(at + 1, status)
  <2>1. at + 1 \in 1 .. N + 1 /\ status \in [Module -> {"off", "on", "null"}]
    BY <1>1 DEF TypeOK, Module
  <2>2. \A i \in Module : i >= at + 1 => status[i] # "on"
    BY <1>1 DEF Launching
  <2>3. \A d \in Priority : use[d] => status[d] = "on" \/ d >= at + 1
    BY <1>1, <1>2, <1>4 DEF PriorityOn
  <2> QED
    BY <1>1, <1>2, <1>4, <2>1, <2>2, <2>3, LaunchStep
<1> QED
  BY <1>3, <1>4 DEF StartFails

---------------------------------------------------------------------------
(* A step of the shutdown.                                                 *)
LEMMA StopStep ==
    ASSUME Ordered, proc = "running", launch \in {"halted", "done"},
           NEW k \in Signal, NEW top \in 0 .. N,
           StopBelow(k, top), UNCHANGED <<use, launch, at>>,
           \/ stopping[k] = 0 /\ top = N
           \/ stopping[k] # 0 /\ top = stopping[k] - 1
    PROVE  Ordered'
<1> USE Positions DEF Ordered
<1>0. Signal = {k} /\ stopping[k] \in 0 .. N
  BY DEF TypeOK
<1>1. \A i \in Module : i > top => status[i] # "on"
  BY <1>0 DEF StoppedAbove, Module, TypeOK
<1>2. ASSUME NEW m \in 1 .. top, status[m] = "on",
             \A i \in 1 .. top : status[i] = "on" => i <= m,
             status' = [status EXCEPT ![m] = "off"],
             stopping' = [stopping EXCEPT ![k] = m], UNCHANGED proc
      PROVE  Ordered'
  <2>1. m \in Module /\ m \in 1 .. N
    BY <1>2 DEF Module
  <2>2. TypeOK'
    BY <1>2, <2>1 DEF TypeOK
  <2>3. Launching'
    BY <1>0, <1>2, <2>1 DEF Launching, TypeOK
  <2>4. StoppedAbove'
    BY <1>0, <1>1, <1>2, <2>1 DEF StoppedAbove, TypeOK, Module
  <2>5. PriorityOn'
    BY <1>0, <1>2, <2>1 DEF PriorityOn, TypeOK
  <2>6. CleanExit'
    BY <1>2 DEF CleanExit
  <2> QED
    BY <2>2, <2>3, <2>4, <2>5, <2>6
<1>3. ASSUME \A i \in 1 .. top : status[i] # "on", proc' = "exit0",
             stopping' = [stopping EXCEPT ![k] = 0], UNCHANGED status
      PROVE  Ordered'
  <2>1. \A i \in Module : status[i] # "on"
    BY <1>1, <1>3 DEF Module
  <2>2. TypeOK' /\ StoppedAbove' /\ PriorityOn'
    BY <1>0, <1>3 DEF TypeOK, StoppedAbove, PriorityOn
  <2>3. Launching'
    BY <1>0, <1>3, <2>1 DEF Launching, TypeOK
  <2>4. Stopping' = {}
    BY <1>0, <1>3 DEF Stopping, TypeOK
  <2>5. CleanExit'
    BY <1>3, <2>1, <2>4 DEF CleanExit, Alive
  <2> QED
    BY <2>2, <2>3, <2>5
<1> QED
  BY <1>2, <1>3 DEF StopBelow

LEMMA SignalOrdered ==
    ASSUME ~EarlySignals, Ordered, NEW k \in Signal, SignalComes(k)
    PROVE  Ordered'
<1>1. N \in 0 .. N
  BY Positions
<1> QED
  BY <1>1, StopStep DEF SignalComes

LEMMA SettlesOrdered ==
    ASSUME Ordered, NEW k \in Signal, StopSettles(k)
    PROVE  Ordered'
<1>1. stopping[k] \in 1 .. N /\ stopping[k] - 1 \in 0 .. N
  BY Positions DEF StopSettles, Ordered, TypeOK
<1>2. launch \in {"halted", "done"}
  BY DEF StopSettles, Ordered, TypeOK, Launching
<1> QED
  BY <1>1, <1>2, StopStep DEF StopSettles

LEMMA EndOrdered ==
    ASSUME Ordered, Crash \/ \E k \in Signal : ForceExit(k)
    PROVE  Ordered'
  BY DEF Ordered, Crash, ForceExit, TypeOK, Launching, StoppedAbove, PriorityOn, CleanExit

---------------------------------------------------------------------------
(* Which modules are alive: the launch takes none away, the shutdown only  *)
(* the one whose stop has ended.                                           *)
LEMMA LaunchKeepsAlive ==
    ASSUME Ordered, LaunchBegins \/ StartResolves \/ StartFails,
           NEW i \in Module, Alive(i)
    PROVE  Alive(i)'
<1> USE Positions DEF Ordered
<1>1. /\ UNCHANGED stopping
      /\ launch \in {"waiting", "starting"} /\ \A k \in Signal : stopping[k] = 0
      /\ \A m \in Module : m >= at => status[m] # "on"
  BY DEF LaunchBegins, StartResolves, StartFails, Launching
<1>2. status[i] = "on" /\ i < at
  BY <1>1 DEF Alive, Stopping, TypeOK
<1>3. CASE LaunchBegins
  BY <1>2, <1>3 DEF LaunchBegins, Launching
<1>4. CASE StartResolves
  <2>1. at \in Module /\ at + 1 \in 1 .. N + 1
    BY <1>4 DEF StartResolves, TypeOK, Module
  <2>2. [status EXCEPT ![at] = "on"] \in [Module -> {"off", "on", "null"}]
    BY DEF TypeOK
  <2> DEFINE st == [status EXCEPT ![at] = "on"]
  <2>3. st \in [Module -> {"off", "on", "null"}] /\ LaunchFrom(at + 1, st)
    BY <1>4, <2>2 DEF StartResolves
  <2>4. i < at + 1
    BY <1>2, <2>1
  <2> HIDE DEF st
  <2>5. status'[i] = st[i]
    BY <2>1, <2>3, <2>4, LaunchFromFacts
  <2>6. status'[i] = "on"
    BY <1>2, <2>1, <2>5 DEF TypeOK, st
  <2> QED
    BY <2>6 DEF Alive
<1>5. CASE StartFails
  <2>1. at \in Module /\ at + 1 \in 1 .. N + 1 /\ status \in [Module -> {"off", "on", "null"}]
    BY <1>5 DEF StartFails, TypeOK, Module
  <2>2. CASE LaunchFrom(at + 1, status)
    <3>1. status'[i] = status[i]
      BY <1>2, <2>1, <2>2, LaunchFromFacts
    <3> QED
      BY <1>2, <3>1 DEF Alive
  <2>3. CASE UNCHANGED status
    BY <1>2, <2>3 DEF Alive
  <2> QED
    BY <1>5, <2>2, <2>3 DEF StartFails
<1> QED
  BY <1>3, <1>4, <1>5

LEMMA StopKeepsAlive ==
    ASSUME Ordered, NEW k \in Signal, NEW top, StopBelow(k, top),
           NEW i \in Module, Alive(i), i # stopping[k]
    PROVE  Alive(i)'
<1> USE Positions DEF Ordered
<1>1. Signal = {k} /\ stopping[k] \in 0 .. N
  BY DEF TypeOK
<1>2. status[i] = "on"
  BY <1>1 DEF Alive, Stopping
<1>3. ASSUME NEW m \in 1 .. top, status' = [status EXCEPT ![m] = "off"],
             stopping' = [stopping EXCEPT ![k] = m], status[m] = "on"
      PROVE  Alive(i)'
  <2>1. CASE i = m
    <3>1. stopping'[k] = i /\ i # 0
      BY <1>3, <2>1 DEF TypeOK
    <3> QED
      BY <3>1 DEF Alive, Stopping
  <2>2. CASE i # m
    BY <1>2, <1>3, <2>2 DEF Alive, TypeOK
  <2> QED
    BY <2>1, <2>2
<1>4. CASE UNCHANGED status
  BY <1>2, <1>4 DEF Alive
<1> QED
  BY <1>3, <1>4 DEF StopBelow

(* A module that has been started is alive.                                *)
LEMMA ResolvedAlive ==
    ASSUME Ordered, NEW m \in Module, Starting(m), StartResolves
    PROVE  Alive(m)'
<1> USE Positions DEF Ordered
<1> DEFINE st == [status EXCEPT ![m] = "on"]
<1>1. at = m /\ m + 1 \in 1 .. N + 1 /\ st[m] = "on"
  BY DEF Starting, TypeOK, Module
<1>2. st \in [Module -> {"off", "on", "null"}]
  BY DEF TypeOK
<1>3. LaunchFrom(m + 1, st)
  BY <1>1 DEF StartResolves
<1>4. m < m + 1
  OBVIOUS
<1> HIDE DEF st
<1>5. status'[m] = st[m]
  BY <1>1, <1>2, <1>3, <1>4, LaunchFromFacts
<1> QED
  BY <1>1, <1>5 DEF Alive

---------------------------------------------------------------------------
(* What is held stays with its module: a step that opens nothing and ends  *)
(* no module.                                                              *)
LEMMA HeldKept ==
    ASSUME HeldByLive,
           \A c : c \in open' /\ c \notin unclosed' => c \in open /\ c \notin unclosed,
           \A m \in Module : Alive(m) => Alive(m)',
           Starting(Sockets) => Starting(Sockets)'
    PROVE  HeldByLive'
  BY DEF HeldByLive, HeldBy

Start == LaunchBegins \/ StartResolves \/ StartFails

(* A step of the launch, from a module that holds nothing yet.             *)
LEMMA LaunchHeld ==
    ASSUME Ordered, HeldByLive, Start, UNCHANGED <<open, unclosed>>, ~Starting(Sockets)
    PROVE  HeldByLive'
<1>1. \A i \in Module : Alive(i) => Alive(i)'
  BY LaunchKeepsAlive DEF Start
<1> QED
  BY <1>1, HeldKept

(* A module that starts, and is alive then for what it opened.             *)
LEMMA OpensHeld ==
    ASSUME Ordered, HeldByLive, NEW m \in Module, Starting(m), StartResolves, m # Sockets,
           NEW C \in SUBSET HeldBy(m), open' = open \cup C, UNCHANGED unclosed
    PROVE  HeldByLive'
<1>1. \A i \in Module : Alive(i) => Alive(i)'
  BY LaunchKeepsAlive
<1>2. Alive(m)' /\ ~Starting(Sockets)
  BY ResolvedAlive DEF Starting
<1> SUFFICES ASSUME NEW i \in Module, NEW c \in HeldBy(i), c \in open', c \notin unclosed'
             PROVE  Alive(i)'
  BY DEF HeldByLive, HeldBy
<1>3. CASE c \in C
  <2>1. i = m
    BY <1>3, Owners DEF HeldBy
  <2> QED
    BY <1>2, <2>1
<1>4. CASE c \in open
  BY <1>1, <1>2, <1>4 DEF HeldByLive
<1> QED
  BY <1>3, <1>4

LEMMA StartDbHeld == Ordered /\ HeldByLive /\ StartDb => HeldByLive'
<1> SUFFICES ASSUME Ordered, HeldByLive, StartDb PROVE HeldByLive'
  OBVIOUS
<1>1. Starting(Db) /\ Db \in Module /\ Db # Sockets /\ ~Starting(Sockets)
  BY Owners DEF StartDb, Starting
<1>2. \A C \in MongoOpens : C \subseteq HeldBy(Db)
  BY Owners DEF MongoOpens, HeldBy
<1>3. CASE StartResolves /\ (\E C \in MongoOpens : open' = open \cup C) /\ UNCHANGED unclosed
  BY <1>1, <1>2, <1>3, OpensHeld
<1>4. CASE StartFails /\ \E C : open' = open \cup C /\ unclosed' = unclosed \cup C
  <2>1. \A i \in Module : Alive(i) => Alive(i)'
    BY <1>4, LaunchKeepsAlive
  <2> QED
    BY <1>1, <1>4, <2>1, HeldKept
<1> QED
  BY <1>3, <1>4 DEF StartDb

LEMMA StartCacheHeld == Ordered /\ HeldByLive /\ StartCache => HeldByLive'
<1> SUFFICES ASSUME Ordered, HeldByLive, StartCache PROVE HeldByLive'
  OBVIOUS
<1>1. Starting(Cache) /\ Cache \in Module /\ Cache # Sockets /\ ~Starting(Sockets) /\ UNCHANGED unclosed
  BY Owners DEF StartCache, Starting
<1>2. CASE StartResolves /\ open' = open \cup {"redis"}
  <2>1. {"redis"} \subseteq HeldBy(Cache)
    BY Owners DEF HeldBy
  <2> QED
    BY <1>1, <1>2, <2>1, OpensHeld
<1>3. CASE StartFails /\ UNCHANGED open
  BY <1>1, <1>3, LaunchHeld DEF Start
<1> QED
  BY <1>2, <1>3 DEF StartCache

(* The adapter belongs to sockets from the beginning of its start.         *)
LEMMA StartSocketsHeld ==
    ASSUME Ordered, HeldByLive, SetupRedisAdapter \/ StartSockets
    PROVE  HeldByLive'
<1>1. Sockets \in Module /\ Starting(Sockets)
  BY Owners DEF SetupRedisAdapter, StartSockets
<1>2. CASE SetupRedisAdapter
  <2>1. UNCHANGED <<status, stopping, at, launch, unclosed>> /\ open' = open \cup {"adapter"}
    BY <1>2 DEF SetupRedisAdapter, vars
  <2>2. Starting(Sockets)' /\ \A i \in Module : Alive(i) => Alive(i)'
    BY <1>1, <2>1 DEF Starting, Alive, Stopping
  <2>3. \A i \in Module : "adapter" \in HeldBy(i) => i = Sockets
    BY Owners DEF HeldBy
  <2> QED
    BY <1>1, <2>1, <2>2, <2>3 DEF HeldByLive
<1>3. CASE StartSockets
  <2>1. \A i \in Module : Alive(i) => Alive(i)'
    BY <1>3, LaunchKeepsAlive DEF StartSockets
  <2>2. Alive(Sockets)' \/ unclosed' = unclosed \cup (open \cap {"adapter"})
    BY <1>1, <1>3, ResolvedAlive DEF StartSockets
  <2>3. UNCHANGED open /\ unclosed \subseteq unclosed' /\ HeldBy(Sockets) = {"adapter"}
    BY <1>3, Owners DEF StartSockets, HeldBy
  <2> SUFFICES ASSUME NEW i \in Module, NEW c \in HeldBy(i), c \in open', c \notin unclosed'
               PROVE  Alive(i)'
    BY DEF HeldByLive, HeldBy
  <2>4. CASE i = Sockets
    BY <2>2, <2>3, <2>4
  <2>5. CASE i # Sockets
    BY <2>1, <2>3, <2>5 DEF HeldByLive
  <2> QED
    BY <2>4, <2>5
<1> QED
  BY <1>2, <1>3

LEMMA StartOtherHeld ==
    ASSUME Ordered, HeldByLive, StartOther
    PROVE  HeldByLive'
  BY Owners, LaunchHeld DEF StartOther, Start, Starting, held

LEMMA SignalledHeld ==
    ASSUME Ordered, HeldByLive, NEW k \in Signal, Signalled(k)
    PROVE  HeldByLive'
<1>1. StopBelow(k, N) /\ stopping[k] = 0 /\ UNCHANGED <<launch, at, held>>
  BY DEF Signalled, SignalComes
<1>2. \A i \in Module : i # 0
  BY Positions
<1>3. \A i \in Module : Alive(i) => Alive(i)'
  BY <1>1, <1>2, StopKeepsAlive
<1> QED
  BY <1>1, <1>3, HeldKept DEF held, Starting

LEMMA SettlesHeld ==
    ASSUME Ordered, HeldByLive, NEW k \in Signal, Settles(k)
    PROVE  HeldByLive'
<1>1. StopBelow(k, stopping[k] - 1) /\ UNCHANGED <<launch, at>>
  BY DEF Settles, StopSettles
<1>2. \A i \in Module : Alive(i) /\ i # stopping[k] => Alive(i)'
  BY <1>1, StopKeepsAlive
<1>3. PICK failed \in SUBSET (HeldBy(stopping[k]) \cap open) :
          open' = (open \ HeldBy(stopping[k])) \cup failed /\ unclosed' = unclosed \cup failed
  BY DEF Settles, Stopped, Closed
<1> SUFFICES ASSUME NEW i \in Module, NEW c \in HeldBy(i), c \in open', c \notin unclosed'
             PROVE  Alive(i)' \/ (i = Sockets /\ Starting(i)')
  BY DEF HeldByLive, HeldBy
<1>4. c \in open /\ c \notin unclosed /\ i # stopping[k]
  BY <1>3
<1> QED
  BY <1>1, <1>2, <1>4 DEF HeldByLive, Starting

(* What changes no status and stops nothing keeps every module alive.      *)
LEMMA SameAlive ==
    ASSUME UNCHANGED <<status, stopping>>, NEW i
    PROVE  Alive(i)' <=> Alive(i)
  BY DEF Alive, Stopping

---------------------------------------------------------------------------
LEMMA InductiveInit == ProcessInit => Ordered /\ HeldByLive
<1> SUFFICES ASSUME ProcessInit PROVE Ordered /\ HeldByLive
  OBVIOUS
<1> USE Positions DEF ProcessInit, Init
<1>1. TypeOK
  BY DEF TypeOK
<1>2. Launching /\ StoppedAbove /\ CleanExit
  BY DEF Launching, StoppedAbove, CleanExit
<1>3. PriorityOn
  BY DEF PriorityOn
<1>4. HeldByLive
  BY DEF HeldByLive
<1> QED
  BY <1>1, <1>2, <1>3, <1>4 DEF Ordered

(* Ordered speaks of the variables of Lifecycle only.                      *)
LEMMA OrderedStutter == Ordered /\ UNCHANGED vars => Ordered'
  BY DEF Ordered, vars, TypeOK, Launching, StoppedAbove, PriorityOn, CleanExit, Alive, Stopping

LEMMA OrderedStep ==
    ASSUME ~EarlySignals, Ordered, ProcessNext
    PROVE  Ordered'
<1>1. CASE Start
  BY <1>1, LaunchBeginsOrdered, StartResolvesOrdered, StartFailsOrdered DEF Start
<1>2. CASE Crash
  BY <1>2, EndOrdered
<1>3. CASE \E k \in Signal : SignalComes(k)
  BY <1>3, SignalOrdered
<1>4. CASE \E k \in Signal : StopSettles(k)
  BY <1>4, SettlesOrdered
<1>5. CASE \E k \in Signal : ForceExit(k)
  BY <1>5, EndOrdered
<1>6. CASE UNCHANGED vars
  BY <1>6, OrderedStutter
<1>7. \/ Start \/ Crash \/ UNCHANGED vars
      \/ \E k \in Signal : SignalComes(k) \/ StopSettles(k) \/ ForceExit(k)
  BY DEF ProcessNext, Start, StartDb, StartCache, SetupRedisAdapter, StartSockets, StartOther,
         Redis, GivesUp, Signalled, Second, Settles, Forced
<1> QED
  BY <1>1, <1>2, <1>3, <1>4, <1>5, <1>6, <1>7

LEMMA HeldStep ==
    ASSUME Ordered, HeldByLive, ProcessNext
    PROVE  HeldByLive'
<1>1. CASE LaunchBegins /\ UNCHANGED held
  BY <1>1, LaunchHeld DEF Start, LaunchBegins, Starting, held
<1>2. CASE UNCHANGED <<status, stopping, launch, at, unclosed>> /\ open' \subseteq open
  BY <1>2, SameAlive, HeldKept DEF Starting
<1>3. CASE SetupRedisAdapter \/ StartSockets
  BY <1>3, StartSocketsHeld
<1>4. CASE StartDb \/ StartCache \/ StartOther
  BY <1>4, StartDbHeld, StartCacheHeld, StartOtherHeld
<1>5. CASE \E k \in Signal : Signalled(k)
  BY <1>5, SignalledHeld
<1>6. CASE \E k \in Signal : Settles(k)
  BY <1>6, SettlesHeld
<1>7. Redis \/ GivesUp \/ (Crash /\ UNCHANGED held) \/ (\E k \in Signal : Second(k) \/ Forced(k))
        => UNCHANGED <<status, stopping, launch, at, unclosed>> /\ open' \subseteq open
  BY DEF Redis, GivesUp, Crash, Second, Forced, ForceExit, held, vars
<1> QED
  BY <1>1, <1>2, <1>3, <1>4, <1>5, <1>6, <1>7 DEF ProcessNext

(* The inductive invariant holds of every behaviour of the process.        *)
THEOREM Inductive ==
    ASSUME ~EarlySignals
    PROVE  ProcessSpec => [](Ordered /\ HeldByLive)
<1>1. ProcessInit => Ordered /\ HeldByLive
  BY InductiveInit
<1>2. Ordered /\ HeldByLive /\ [ProcessNext]_processVars => (Ordered /\ HeldByLive)'
  <2> SUFFICES ASSUME Ordered, HeldByLive, [ProcessNext]_processVars
               PROVE  (Ordered /\ HeldByLive)'
    OBVIOUS
  <2>1. CASE ProcessNext
    BY <2>1, OrderedStep, HeldStep
  <2>2. CASE UNCHANGED processVars
    <3>1. UNCHANGED <<status, stopping, launch, at, open, unclosed>> /\ UNCHANGED vars
      BY <2>2 DEF processVars, vars, held
    <3> QED
      BY <3>1, OrderedStutter, SameAlive, HeldKept DEF Starting
  <2> QED
    BY <2>1, <2>2
<1> QED
  BY <1>1, <1>2, PTL DEF ProcessSpec

(* DependenciesUp for every launch queue: db, cache and the logger are up  *)
(* for as long as a module that is not of priority is up or stopping. (It  *)
(* is on below `at`, and nothing above the stopping module is on.)         *)
THEOREM DependenciesAreUp ==
    ASSUME ~EarlySignals
    PROVE  ProcessSpec => []DependenciesUp
<1>1. Ordered => DependenciesUp
  <2> SUFFICES ASSUME Ordered, proc = "running",
                      NEW m \in Module \ Priority, Alive(m),
                      NEW d \in Priority, use[d]
               PROVE  status[d] = "on"
    BY DEF DependenciesUp
  <2> USE Positions DEF Ordered
  <2>1. d < m /\ d \in Module
    OBVIOUS
  <2>2. m < at \/ launch = "done"
    <3>1. CASE status[m] = "on"
      BY <3>1 DEF Launching, TypeOK
    <3>2. CASE \E k \in Signal : stopping[k] = m
      <4>1. launch \notin {"waiting", "starting"}
        BY <3>2 DEF Launching
      <4>2. launch = "halted" => m < at
        BY <3>2 DEF Launching
      <4> QED
        BY <4>1, <4>2 DEF TypeOK
    <3> QED
      BY <3>1, <3>2 DEF Alive, Stopping
  <2>3. ~(launch # "done" /\ d >= at)
    BY <2>1, <2>2 DEF TypeOK
  <2>4. ASSUME NEW k \in Signal, stopping[k] # 0, stopping[k] <= d PROVE FALSE
    <3>1. stopping[k] \in 0 .. N /\ m >= stopping[k] /\ stopping[k] # m
      BY <2>1, <2>4 DEF TypeOK
    <3>2. status[m] # "on"
      BY <2>4, <3>1 DEF StoppedAbove
    <3>3. m \notin Stopping
      BY <3>1 DEF Stopping
    <3> QED
      BY <3>2, <3>3 DEF Alive
  <2> QED
    BY <2>3, <2>4 DEF PriorityOn
<1> QED
  BY <1>1, Inductive, PTL

---------------------------------------------------------------------------
(***************************************************************************)
(* What holds whenever the signal comes: the types, and the ten seconds of *)
(* the shutdown.                                                           *)
(***************************************************************************)
Known == {Logger, Db, Cache, Api, Sockets}

(* Only the modules that the queue holds can be up or stop.                *)
OnlyKnown == \A m \in Module : Alive(m) => m \in Known

(* The time of the shutdown so far is that of the modules stopped so far:  *)
(* while api or sockets stops, nothing else has.                           *)
Clock ==
    /\ spent[Api] <= 7
    /\ \A k \in Signal :
          stopping[k] = 0 /\ proc = "running" => elapsed = 0 /\ spent[Api] = 0 /\ spent[Sockets] = 0
    /\ \A k \in Signal :
          stopping[k] \in {Api, Sockets} => elapsed = spent[Api] + spent[Sockets]

TimeType == elapsed \in 0 .. Timeout /\ spent \in [Module -> 0 .. elapsed]
HeldType ==
    /\ open \subseteq Connection /\ unclosed \subseteq Connection
    /\ redis \in {"none", "ready", "retrying", "ended"}

LEMMA ProcessTypeParts == ProcessTypeOK <=> TypeOK /\ HeldType /\ TimeType
  BY DEF ProcessTypeOK, HeldType, TimeType

LEMMA Places ==
    /\ Known \subseteq Module /\ Api # Sockets /\ Module \subseteq Nat \ {0} /\ 0 \notin Module
    /\ {Logger, Db, Cache} \subseteq Priority
    /\ \A p \in {Logger, Db, Cache}, m \in {Api, Sockets} : p < m
  BY Positions, LifecycleAssumption, ApiProcessAssumption DEF Known

---------------------------------------------------------------------------
(* Every step of the process is one of Lifecycle, or leaves it alone.      *)
LEMMA LifecycleStep == ProcessNext => Next \/ UNCHANGED vars
  BY DEF ProcessNext, Next, StartDb, StartCache, SetupRedisAdapter, StartSockets, StartOther,
         Redis, GivesUp, Signalled, Second, Settles, Forced

(* What a step of the launch does: only the module it is at can come up.   *)
LEMMA LaunchEffect ==
    ASSUME TypeOK, Start
    PROVE  /\ TypeOK' /\ UNCHANGED <<stopping, proc>>
           /\ \A i \in Module : status'[i] = "on" => status[i] = "on" \/ (i = at /\ launch = "starting")
<1> USE Positions
<1>1. ASSUME NEW m \in 1 .. N + 1, NEW st \in [Module -> {"off", "on", "null"}],
             LaunchFrom(m, st), UNCHANGED <<use, stopping, proc>>
      PROVE  TypeOK' /\ \A i \in Module : status'[i] = "on" => st[i] = "on"
  <2>1. PICK n \in m .. N + 1 :
          /\ at' = n
          /\ launch' = IF n \in Module THEN "starting" ELSE "done"
          /\ status' \in [Module -> {"off", "on", "null"}]
          /\ \A i \in Module : i >= n \/ i < m => status'[i] = st[i]
          /\ \A i \in Module : m <= i /\ i < n => ~use[i] /\ status'[i] = "null"
    BY <1>1, LaunchFromFacts
  <2>2. TypeOK'
    BY <1>1, <2>1 DEF TypeOK, Module
  <2>3. \A i \in Module : status'[i] = "on" => st[i] = "on"
    BY <2>1
  <2> QED
    BY <2>2, <2>3
<1>2. CASE LaunchBegins
  <2>1. 1 \in 1 .. N + 1 /\ status \in [Module -> {"off", "on", "null"}]
    BY DEF TypeOK
  <2> QED
    BY <1>1, <1>2, <2>1 DEF LaunchBegins
<1>3. ASSUME launch = "starting"
      PROVE  /\ at \in Module /\ at + 1 \in 1 .. N + 1
             /\ status \in [Module -> {"off", "on", "null"}]
             /\ [status EXCEPT ![at] = "on"] \in [Module -> {"off", "on", "null"}]
  BY <1>3 DEF TypeOK, Module
<1>4. CASE StartResolves
  <2> DEFINE st == [status EXCEPT ![at] = "on"]
  <2>1. launch = "starting" /\ LaunchFrom(at + 1, st) /\ UNCHANGED <<use, stopping, proc>>
    BY <1>4 DEF StartResolves
  <2>2. at + 1 \in 1 .. N + 1 /\ st \in [Module -> {"off", "on", "null"}]
    BY <1>3, <2>1
  <2>3. \A i \in Module : st[i] = "on" => status[i] = "on" \/ i = at
    BY <1>3, <2>1
  <2> HIDE DEF st
  <2>4. TypeOK' /\ \A i \in Module : status'[i] = "on" => st[i] = "on"
    BY <1>1, <2>1, <2>2
  <2> QED
    BY <2>1, <2>3, <2>4
<1>5. CASE StartFails
  <2>1. launch = "starting" /\ UNCHANGED <<use, stopping, proc>>
    BY <1>5 DEF StartFails
  <2>2. CASE at \in Priority /\ launch' = "halted" /\ UNCHANGED <<status, at>>
    BY <2>1, <2>2 DEF TypeOK
  <2>3. CASE LaunchFrom(at + 1, status)
    BY <1>1, <1>3, <2>1, <2>3
  <2> QED
    BY <1>5, <2>2, <2>3 DEF StartFails
<1> QED
  BY <1>2, <1>4, <1>5 DEF Start

(* What a step of the shutdown does: it stops a module that was on, below  *)
(* the one that stopped last, or ends the process.                         *)
LEMMA StopEffect ==
    ASSUME TypeOK, NEW k \in Signal, NEW top \in 0 .. N, StopBelow(k, top),
           UNCHANGED <<use, launch, at>>
    PROVE  /\ TypeOK' /\ Signal = {k}
           /\ \A i \in Module : status'[i] = "on" => status[i] = "on"
           /\ \/ /\ stopping'[k] \in Module /\ stopping'[k] <= top
                 /\ status[stopping'[k]] = "on" /\ UNCHANGED proc
              \/ stopping'[k] = 0 /\ proc' = "exit0"
<1> USE Positions
<1>1. Signal = {k}
  OBVIOUS
<1>2. ASSUME NEW m \in 1 .. top, status[m] = "on",
             status' = [status EXCEPT ![m] = "off"],
             stopping' = [stopping EXCEPT ![k] = m], UNCHANGED proc
      PROVE  /\ TypeOK' /\ \A i \in Module : status'[i] = "on" => status[i] = "on"
             /\ stopping'[k] = m /\ m \in Module
  BY <1>1, <1>2 DEF TypeOK, Module
<1>3. ASSUME proc' = "exit0", stopping' = [stopping EXCEPT ![k] = 0], UNCHANGED status
      PROVE  TypeOK' /\ stopping'[k] = 0
  BY <1>1, <1>3 DEF TypeOK
<1> QED
  BY <1>1, <1>2, <1>3 DEF StopBelow

LEMMA TypeStep == TypeOK /\ [Next]_vars => TypeOK'
<1> SUFFICES ASSUME TypeOK, [Next]_vars PROVE TypeOK'
  OBVIOUS
<1>1. CASE Start
  BY <1>1, LaunchEffect
<1>2. CASE Crash
  BY <1>2 DEF Crash, TypeOK
<1>3. ASSUME NEW k \in Signal, SignalComes(k) PROVE TypeOK'
  <2>1. N \in 0 .. N
    BY Positions
  <2> QED
    BY <1>3, <2>1, StopEffect DEF SignalComes
<1>4. ASSUME NEW k \in Signal, StopSettles(k) PROVE TypeOK'
  <2>1. stopping[k] - 1 \in 0 .. N
    BY <1>4, Positions DEF StopSettles, TypeOK
  <2> QED
    BY <1>4, <2>1, StopEffect DEF StopSettles
<1>5. ASSUME NEW k \in Signal, ForceExit(k) PROVE TypeOK'
  BY <1>5 DEF ForceExit, TypeOK
<1>6. CASE UNCHANGED vars
  BY <1>6 DEF vars, TypeOK
<1> QED
  BY <1>1, <1>2, <1>3, <1>4, <1>5, <1>6 DEF Next, Start

LEMMA HeldTypeStep == HeldType /\ [ProcessNext]_processVars => HeldType'
<1> SUFFICES ASSUME HeldType, [ProcessNext]_processVars PROVE HeldType'
  OBVIOUS
<1> USE DEF HeldType, Connection
<1>1. CASE UNCHANGED held
  BY <1>1 DEF held
<1>2. CASE StartDb
  BY <1>2 DEF StartDb, MongoOpens
<1>3. CASE StartCache
  BY <1>3 DEF StartCache
<1>4. CASE SetupRedisAdapter \/ StartSockets
  BY <1>4 DEF SetupRedisAdapter, StartSockets
<1>5. CASE Redis \/ GivesUp
  BY <1>5 DEF Redis, GivesUp
<1>6. CASE \E k \in Signal : Settles(k)
  BY <1>6 DEF Settles, Stopped, Closed
<1>7. ProcessNext =>
         \/ StartDb \/ StartCache \/ SetupRedisAdapter \/ StartSockets \/ Redis \/ GivesUp
         \/ UNCHANGED held \/ \E k \in Signal : Settles(k)
  BY DEF ProcessNext, StartOther, Signalled, Second, Forced
<1> QED
  BY <1>1, <1>2, <1>3, <1>4, <1>5, <1>6, <1>7 DEF processVars

(* Only Second takes time.                                                 *)
LEMMA TimePasses ==
    ASSUME [ProcessNext]_processVars
    PROVE  UNCHANGED time \/ \E k \in Signal : Second(k)
  BY DEF ProcessNext, StartDb, StartCache, SetupRedisAdapter, StartSockets, StartOther,
         Redis, GivesUp, Signalled, Settles, Forced, processVars

LEMMA TimeTypeStep == TypeOK /\ TimeType /\ [ProcessNext]_processVars => TimeType'
<1> SUFFICES ASSUME TypeOK, TimeType, [ProcessNext]_processVars PROVE TimeType'
  OBVIOUS
<1>1. CASE UNCHANGED time
  BY <1>1 DEF time, TimeType
<1>2. ASSUME NEW k \in Signal, Second(k) PROVE TimeType'
  BY <1>2 DEF Second, TimeType, TypeOK, Module, Timeout
<1> QED
  BY <1>1, <1>2, TimePasses

LEMMA ProcessTypeInit == ProcessInit => ProcessTypeOK
<1> SUFFICES ASSUME ProcessInit PROVE ProcessTypeOK
  OBVIOUS
<1>1. TypeOK
  BY Positions DEF ProcessInit, Init, TypeOK
<1>2. HeldType
  BY DEF ProcessInit, HeldType
<1>3. TimeType
  BY DEF ProcessInit, TimeType, Timeout
<1> QED
  BY <1>1, <1>2, <1>3, ProcessTypeParts

LEMMA ProcessTypeStep == ProcessTypeOK /\ [ProcessNext]_processVars => ProcessTypeOK'
<1> SUFFICES ASSUME ProcessTypeOK, [ProcessNext]_processVars PROVE ProcessTypeOK'
  OBVIOUS
<1>1. TypeOK /\ HeldType /\ TimeType
  BY ProcessTypeParts
<1>2. [Next]_vars
  BY LifecycleStep DEF processVars
<1>3. TypeOK' /\ HeldType' /\ TimeType'
  BY <1>1, <1>2, TypeStep, HeldTypeStep, TimeTypeStep
<1> QED
  BY <1>3 DEF ProcessTypeOK, HeldType, TimeType

---------------------------------------------------------------------------
LEMMA OnlyKnownStep ==
    ASSUME TypeOK, OnlyKnown, [ProcessNext]_processVars
    PROVE  OnlyKnown'
<1>0. \A i \in Module, k \in Signal : status[i] = "on" \/ stopping[k] = i => i \in Known
  BY Places DEF OnlyKnown, Alive, Stopping
<1>i. ASSUME \A i \in Module, k \in Signal : status'[i] = "on" \/ stopping'[k] = i => i \in Known
      PROVE  OnlyKnown'
  BY <1>i, Positions DEF OnlyKnown, Alive, Stopping
<1>1. ASSUME Start, launch = "starting" => at \in Known
      PROVE  OnlyKnown'
  BY <1>0, <1>i, <1>1, LaunchEffect
<1>2. ASSUME NEW k \in Signal, SignalComes(k) PROVE OnlyKnown'
  <2>1. N \in 0 .. N
    BY Positions
  <2> QED
    BY <1>0, <1>i, <1>2, <2>1, StopEffect, Places DEF SignalComes
<1>3. ASSUME NEW k \in Signal, StopSettles(k) PROVE OnlyKnown'
  <2>1. stopping[k] - 1 \in 0 .. N
    BY <1>3, Positions DEF StopSettles, TypeOK
  <2> QED
    BY <1>0, <1>i, <1>3, <2>1, StopEffect, Places DEF StopSettles
<1>4. CASE UNCHANGED <<status, stopping>>
  BY <1>4, <1>0, <1>i
<1>5. \/ Start /\ (launch = "starting" => at \in Known)
      \/ \E k \in Signal : SignalComes(k) \/ StopSettles(k)
      \/ UNCHANGED <<status, stopping>>
  BY DEF ProcessNext, Start, Starting, Known, LaunchBegins, StartDb, StartCache,
         SetupRedisAdapter, StartSockets, StartOther, Redis, GivesUp, Crash, Signalled, Second, Settles, Forced, ForceExit,
         processVars, vars
<1> QED
  BY <1>1, <1>2, <1>3, <1>4, <1>5

(* The parts of Clock for the one signal.                                  *)
LEMMA ClockStep ==
    ASSUME ProcessTypeOK, OnlyKnown, Clock, [ProcessNext]_processVars
    PROVE  Clock'
<1>0. PICK k : Signal = {k}
  BY Positions
<1>1. /\ TypeOK /\ stopping[k] \in 0 .. N /\ elapsed \in Nat
      /\ spent[Api] \in Nat /\ spent[Sockets] \in Nat
      /\ stopping[k] # 0 => stopping[k] \in Known
      /\ \A i \in Module : status[i] = "on" => i \in Known
  BY <1>0, Places DEF ProcessTypeOK, TypeOK, Timeout, Known, OnlyKnown, Alive, Stopping, Module
<1>2. ASSUME UNCHANGED time,
             proc' = "running" /\ stopping'[k] = 0 => proc = "running" /\ stopping[k] = 0,
             stopping'[k] \in {Api, Sockets} => \/ stopping[k] \in {Api, Sockets}
                                                \/ stopping[k] = 0 /\ proc = "running"
      PROVE  Clock'
  BY <1>0, <1>1, <1>2 DEF Clock, time
<1>3. CASE Second(k)
  <2>1. /\ stopping[k] # 0 /\ elapsed' = elapsed + 1 /\ UNCHANGED <<stopping, proc>>
        /\ spent' = [spent EXCEPT ![stopping[k]] = @ + 1]
        /\ spent[stopping[k]] < Longest(stopping[k])
    BY <1>3 DEF Second, vars
  <2>2. spent \in [Module -> Nat] /\ stopping[k] \in Module
    BY <1>1, <2>1, Places DEF ProcessTypeOK, Timeout
  <2>s. /\ spent[Api] <= 7 /\ {Api, Sockets} \subseteq Module /\ Api # Sockets
        /\ stopping[k] \in {Api, Sockets} => elapsed = spent[Api] + spent[Sockets]
    BY <1>0, Places DEF Clock, Known
  <2>c. ASSUME spent'[Api] <= 7,
               stopping[k] \in {Api, Sockets} => elapsed' = spent'[Api] + spent'[Sockets]
        PROVE  Clock'
    BY <1>0, <2>1, <2>c DEF Clock
  <2>3. CASE stopping[k] = Api
    <3>1. spent[Api] < 7
      BY <2>1, <2>3, Places DEF Longest
    <3>2. spent'[Api] = spent[Api] + 1 /\ spent'[Sockets] = spent[Sockets]
      BY <2>1, <2>2, <2>3, <2>s
    <3> QED
      BY <1>1, <2>1, <2>3, <2>s, <2>c, <3>1, <3>2
  <2>4. CASE stopping[k] = Sockets
    <3>1. spent'[Sockets] = spent[Sockets] + 1 /\ spent'[Api] = spent[Api]
      BY <2>1, <2>2, <2>4, <2>s
    <3> QED
      BY <1>1, <2>1, <2>4, <2>s, <2>c, <3>1
  <2>5. CASE stopping[k] \notin {Api, Sockets}
    <3>1. spent'[Sockets] = spent[Sockets] /\ spent'[Api] = spent[Api]
      BY <2>1, <2>2, <2>5, <2>s
    <3> QED
      BY <2>5, <2>s, <2>c, <3>1
  <2> QED
    BY <2>3, <2>4, <2>5
<1>4. CASE SignalComes(k) /\ UNCHANGED time
  <2>1. N \in 0 .. N
    BY Positions
  <2>2. stopping[k] = 0 /\ proc = "running" /\ (stopping'[k] # 0 \/ proc' # "running")
    BY <1>0, <1>1, <1>4, <2>1, StopEffect, Places DEF SignalComes
  <2> QED
    BY <1>2, <1>4, <2>2
<1>5. CASE StopSettles(k) /\ UNCHANGED time
  <2>1. stopping[k] # 0 /\ stopping[k] - 1 \in 0 .. N /\ StopBelow(k, stopping[k] - 1)
    BY Positions, <1>0, <1>1, <1>5 DEF StopSettles
  <2>2. \/ stopping'[k] \in Known /\ stopping'[k] <= stopping[k] - 1
        \/ stopping'[k] = 0 /\ proc' = "exit0"
    BY <1>0, <1>1, <1>5, <2>1, StopEffect DEF StopSettles
  <2>3. stopping'[k] \in {Api, Sockets} => stopping[k] \in {Api, Sockets}
    <3>1. SUFFICES ASSUME stopping'[k] \in {Api, Sockets}, stopping[k] \in {Logger, Db, Cache}
                   PROVE  FALSE
      BY <1>1, <2>1 DEF Known
    <3>2. stopping'[k] \in Nat /\ stopping[k] \in Nat /\ stopping[k] < stopping'[k]
      BY <3>1, Places DEF Known
    <3>3. stopping'[k] <= stopping[k] - 1
      BY <2>2, <3>1, Places DEF Known
    <3> QED
      BY <3>2, <3>3
  <2>4. ~(proc' = "running" /\ stopping'[k] = 0)
    BY <2>2, Places
  <2> QED
    BY <1>2, <1>5, <2>3, <2>4
<1>6. CASE UNCHANGED <<stopping, time>> /\ (proc' = "running" => proc = "running")
  BY <1>1, <1>2, <1>6 DEF Clock
<1>7. \/ UNCHANGED <<stopping, time>> /\ (proc' = "running" => proc = "running")
      \/ (SignalComes(k) \/ StopSettles(k)) /\ UNCHANGED time
      \/ Second(k)
  BY <1>0 DEF ProcessNext, LaunchBegins, StartResolves, StartFails, StartDb, StartCache,
     SetupRedisAdapter, StartSockets, StartOther, Redis, GivesUp, Crash, Signalled, Second, Settles, Forced, ForceExit,
     processVars, vars
<1> QED
  BY <1>3, <1>4, <1>5, <1>6, <1>7

LEMMA BudgetInductive == ProcessSpec => [](ProcessTypeOK /\ OnlyKnown /\ Clock)
<1>1. ProcessInit => ProcessTypeOK /\ OnlyKnown /\ Clock
  <2> SUFFICES ASSUME ProcessInit PROVE ProcessTypeOK /\ OnlyKnown /\ Clock
    OBVIOUS
  <2>1. OnlyKnown
    BY Places DEF ProcessInit, Init, OnlyKnown, Alive, Stopping
  <2>2. Clock
    BY Places DEF ProcessInit, Init, Clock, Known
  <2> QED
    BY <2>1, <2>2, ProcessTypeInit
<1>2. ProcessTypeOK /\ OnlyKnown /\ Clock /\ [ProcessNext]_processVars
        => (ProcessTypeOK /\ OnlyKnown /\ Clock)'
  BY ProcessTypeStep, OnlyKnownStep, ClockStep DEF ProcessTypeOK
<1> QED
  BY <1>1, <1>2, PTL DEF ProcessSpec

---------------------------------------------------------------------------
(* The variables keep their types: no stop is given more seconds than have *)
(* passed since the signal.                                                *)
THEOREM ProcessTypeCorrect == ProcessSpec => []ProcessTypeOK
  BY BudgetInductive, PTL

(* BudgetKept for every launch queue: SHUTDOWN_TIMEOUT of shutdown() finds *)
(* api or sockets stopping only if both took all that their own timers     *)
(* allow, or the quit of the adapter's clients hung. (While they stop, the *)
(* clock is the sum of their two times.)                                   *)
THEOREM BudgetSuffices == ProcessSpec => []BudgetKept
<1>1. ASSUME ProcessTypeOK, Clock PROVE BudgetKept
  <2>1. spent[Api] \in Nat /\ spent[Sockets] \in Nat
    <3>1. Api \in Module /\ Sockets \in Module
      BY Places DEF Known
    <3>2. elapsed \in Nat /\ spent \in [Module -> 0 .. elapsed]
      BY <1>1 DEF ProcessTypeOK, Timeout
    <3> QED
      BY <3>1, <3>2
  <2> QED
    BY <1>1, <2>1 DEF BudgetKept, Clock, Timeout
<1> QED
  BY <1>1, BudgetInductive, PTL

(* GracefulClose for every launch queue: when the process ends with exit   *)
(* code 0, a connection is open only if its close failed, or if the start  *)
(* of its module did. (A connection is with a module that will be stopped, *)
(* or with sockets while it starts: no step opens one for any other.)      *)
THEOREM ClosesGracefully ==
    ASSUME ~EarlySignals
    PROVE  ProcessSpec => []GracefulClose
<1>1. HeldType => \A c \in open : \E m \in Module : c \in HeldBy(m)
  BY Owners DEF HeldType, Connection, HeldBy
<1>2. Ordered /\ HeldByLive /\ HeldType => GracefulClose
  BY <1>1 DEF Ordered, Launching, HeldByLive, Starting, GracefulClose, CleanExit
<1>3. ProcessSpec => []HeldType
  BY BudgetInductive, ProcessTypeParts, PTL
<1> QED
  BY <1>2, <1>3, Inductive, PTL
=============================================================================
