-------------------------- MODULE NotifierProofs --------------------------
(***************************************************************************)
(* Proofs about Notifier for any number of processes, jobs and             *)
(* simultaneous calls. What is true depends on what the environment may do *)
(* (Faults), and each theorem says what it allows. With "drop" a job may   *)
(* run twice in one process (the run notifier_drop); with "overrun" an     *)
(* expired lock is free for the next process while its job still runs.     *)
(***************************************************************************)
EXTENDS Notifier, FiniteSetTheorems, TLAPS

Tame == Faults \subseteq {"degraded", "crash"}

(* A process that is down has no call under way.                           *)
DownIdle == \A c \in Call : phase[ProcOf(c)] = "down" => pc[c] = "idle"

(* Whoever waits for Redis has a connection.                               *)
Waiting == {"setnxSent", "setnxOK", "setnxNil", "delSent", "delDone"}
WaitsConnected == \A c \in Call : pc[c] \in Waiting => ready[ProcOf(c)]

(* Only a call that uses the lock asks for it or returns it, and a granted *)
(* lock is its owner's until its DEL.                                      *)
OwnsLock ==
    \A c \in Call :
        /\ pc[c] \in {"setnxSent", "setnxOK", "delSent"} => useLock[c]
        /\ useLock[c] /\ pc[c] \in {"setnxOK", "run", "delSent"} => lock[JobOf(c)] = c

(* Beside a run without a lock no other call of the process runs the job   *)
(* or is about to.                                                         *)
UnlockedAlone ==
    \A c, d \in Call :
        /\ ProcOf(c) = ProcOf(d) /\ JobOf(c) = JobOf(d) /\ c # d
        /\ pc[c] = "run" /\ ~useLock[c]
        => pc[d] \notin {"setnxSent", "setnxOK", "run"}

(* The inductive invariant.                                                *)
IInv == /\ TypeOK /\ DownIdle /\ WaitsConnected /\ OwnsLock
        /\ UnlockedAlone /\ GuardComplete

LEMMA CallFacts ==
    ASSUME NEW c \in Call
    PROVE  /\ ProcOf(c) \in Process
           /\ JobOf(c) \in Job
           /\ NoCall \notin Call
  BY NotifierAssumption DEF Call, ProcOf, JobOf

(* Two calls made at start by one process for one job are the same call.   *)
LEMMA FirstCallUnique ==
    ASSUME NEW p \in Process, NEW c \in FirstCalls(p), NEW d \in FirstCalls(p),
           JobOf(c) = JobOf(d)
    PROVE  c = d
  BY DEF FirstCalls, CallsOf, Call, ProcOf, JobOf

---------------------------------------------------------------------------
LEMMA TypePreserved ==
    ASSUME TypeOK, [Next]_vars
    PROVE  TypeOK'
<1> USE DEF TypeOK, PC
<1>1. ASSUME NEW c \in Call, TimerFires(c) \/ RunJobNow(c) PROVE TypeOK'
  BY <1>1, CallFacts DEF TimerFires, RunJobNow, EnterRunJob
<1>2. ASSUME NEW c \in Call, CallStep(c) PROVE TypeOK'
  BY <1>2, CallFacts DEF CallStep, RedisSetnx, SetnxResolves, SetnxRefused, JobEnds,
                         RedisDel, DelReturns
<1>3. ASSUME NEW p \in Process, Start(p) PROVE TypeOK'
  BY <1>3, NotifierAssumption DEF Start
<1>4. ASSUME NEW p \in Process, ConnectionLost(p) PROVE TypeOK'
  BY <1>4 DEF ConnectionLost
<1>5. ASSUME NEW p \in Process, Reconnect(p) \/ Stop(p) \/ CacheStop(p) PROVE TypeOK'
  BY <1>5 DEF Reconnect, Stop, CacheStop
<1>6. ASSUME NEW p \in Process, Exit(p) \/ Crash(p) PROVE TypeOK'
  BY <1>6 DEF Exit, Crash, GoDown
<1>7. ASSUME NEW j \in Job, Expire(j) PROVE TypeOK'
  BY <1>7 DEF Expire
<1>8. CASE UNCHANGED vars
  BY <1>8 DEF vars
<1> QED
  BY <1>1, <1>2, <1>3, <1>4, <1>5, <1>6, <1>7, <1>8 DEF Next

(* Every variable of the notifier keeps its type, whatever faults the      *)
(* environment shows.                                                      *)
THEOREM TypeCorrect == Spec => []TypeOK
<1>1. Init => TypeOK
  BY DEF Init, TypeOK, PC
<1>2. TypeOK /\ [Next]_vars => TypeOK'
  BY TypePreserved
<1> QED
  BY <1>1, <1>2, PTL DEF Spec

---------------------------------------------------------------------------
LEMMA DownIdlePreserved ==
    ASSUME TypeOK, DownIdle, [Next]_vars
    PROVE  DownIdle'
<1> USE CallFacts DEF TypeOK, DownIdle
<1>1. ASSUME NEW c \in Call, TimerFires(c) \/ RunJobNow(c) PROVE DownIdle'
  BY <1>1 DEF TimerFires, RunJobNow, EnterRunJob
<1>2. ASSUME NEW c \in Call, CallStep(c) PROVE DownIdle'
  BY <1>2 DEF CallStep, RedisSetnx, SetnxResolves, SetnxRefused, JobEnds, RedisDel, DelReturns
<1>3. ASSUME NEW p \in Process, Start(p) PROVE DownIdle'
  BY <1>3 DEF Start, FirstCalls, CallsOf
<1>4. ASSUME NEW p \in Process, ConnectionLost(p) PROVE DownIdle'
  BY <1>4 DEF ConnectionLost
<1>5. ASSUME NEW p \in Process, Reconnect(p) \/ Stop(p) \/ CacheStop(p) PROVE DownIdle'
  BY <1>5 DEF Reconnect, Stop, CacheStop
<1>6. ASSUME NEW p \in Process, Exit(p) \/ Crash(p) PROVE DownIdle'
  BY <1>6 DEF Exit, Crash, GoDown
<1>7. ASSUME NEW j \in Job, Expire(j) PROVE DownIdle'
  BY <1>7 DEF Expire
<1>8. CASE UNCHANGED vars
  BY <1>8 DEF vars
<1> QED
  BY <1>1, <1>2, <1>3, <1>4, <1>5, <1>6, <1>7, <1>8 DEF Next

(* A call that runs in the next state keeps the guard of its job sound.    *)
LEMMA SoundWhereRun ==
    ASSUME NEW p \in Process, NEW j \in Job, NEW c \in Call,
           ProcOf(c) = p, JobOf(c) = j, pc'[c] = "run"
    PROVE  (Runs(j) \cap CallsOf(p))' # {}
  BY DEF Runs, CallsOf

LEMMA GuardSoundPreserved ==
    ASSUME TypeOK, DownIdle, GuardSound, [Next]_vars
    PROVE  GuardSound'
<1> USE CallFacts DEF TypeOK, GuardSound
<1>1. ASSUME NEW c \in Call, TimerFires(c) \/ RunJobNow(c) PROVE GuardSound'
  BY <1>1 DEF TimerFires, RunJobNow, EnterRunJob, Runs, CallsOf
<1>2. ASSUME NEW c \in Call, SetnxResolves(c) PROVE GuardSound'
  BY <1>2 DEF SetnxResolves, Runs, CallsOf
<1>3. ASSUME NEW c \in Call, JobEnds(c) PROVE GuardSound'
  BY <1>3 DEF JobEnds, Runs, CallsOf
<1>4. ASSUME NEW c \in Call,
             RedisSetnx(c) \/ SetnxRefused(c) \/ RedisDel(c) \/ DelReturns(c)
      PROVE  GuardSound'
  BY <1>4 DEF RedisSetnx, SetnxRefused, RedisDel, DelReturns, Runs, CallsOf
<1>5. ASSUME NEW p \in Process, Start(p) PROVE GuardSound'
  <2>1. \A c \in Call : ProcOf(c) = p => pc[c] = "idle"
    BY <1>5 DEF Start, DownIdle
  <2>2. running[p] = {}
    BY <2>1 DEF Runs, CallsOf
  <2>3. \A c \in Call : ProcOf(c) # p => pc'[c] = pc[c]
    BY <1>5 DEF Start, FirstCalls, CallsOf
  <2>4. ASSUME NEW q \in Process, q # p, NEW j \in running'[q]
        PROVE  (Runs(j) \cap CallsOf(q))' # {}
    <3>1. running'[q] = running[q]
      BY <1>5, <2>4 DEF Start
    <3>2. PICK c \in Call : ProcOf(c) = q /\ JobOf(c) = j /\ pc[c] = "run"
      BY <2>4, <3>1 DEF Runs, CallsOf
    <3> QED
      BY <2>3, <2>4, <3>2 DEF Runs, CallsOf
  <2>5. ASSUME NEW j \in running'[p] PROVE (Runs(j) \cap CallsOf(p))' # {}
    <3> DEFINE first == <<p, j, FirstSlot>>
    <3>1. j \in IntervalJob /\ \A c \in FirstCalls(p) : pc'[c] = "run"
      BY <1>5, <2>2, <2>5 DEF Start, FirstCalls, CallsOf
    <3>2. first \in FirstCalls(p) /\ first \in Call /\ ProcOf(first) = p /\ JobOf(first) = j
      BY <3>1, NotifierAssumption DEF FirstCalls, CallsOf, Call, ProcOf, JobOf
    <3>3. j \in Job /\ pc'[first] = "run"
      BY <3>1, <3>2
    <3> QED
      BY <3>2, <3>3, SoundWhereRun
  <2> QED
    BY <2>4, <2>5
<1>6. ASSUME NEW p \in Process, ConnectionLost(p) PROVE GuardSound'
  <2>1. \A c \in Call : (pc'[c] = "run") <=> (pc[c] = "run")
    BY <1>6 DEF ConnectionLost
  <2> QED
    BY <1>6, <2>1 DEF ConnectionLost, Runs, CallsOf
<1>7. ASSUME NEW p \in Process, Reconnect(p) \/ Stop(p) \/ CacheStop(p) PROVE GuardSound'
  BY <1>7 DEF Reconnect, Stop, CacheStop, Runs, CallsOf
<1>8. ASSUME NEW p \in Process, Exit(p) \/ Crash(p) PROVE GuardSound'
  <2>1. running' = [running EXCEPT ![p] = {}]
    BY <1>8 DEF Exit, Crash, GoDown
  <2>2. \A c \in Call : ProcOf(c) # p => pc'[c] = pc[c]
    BY <1>8 DEF Exit, Crash, GoDown
  <2>3. ASSUME NEW q \in Process, NEW j \in running'[q]
        PROVE  (Runs(j) \cap CallsOf(q))' # {}
    <3>1. q # p /\ j \in running[q]
      BY <2>1, <2>3
    <3>2. PICK c \in Call : ProcOf(c) = q /\ JobOf(c) = j /\ pc[c] = "run"
      BY <3>1 DEF Runs, CallsOf
    <3>3. j \in Job /\ pc'[c] = "run"
      BY <2>2, <3>1, <3>2
    <3> QED
      BY <3>2, <3>3, SoundWhereRun
  <2> QED
    BY <2>3
<1>9. ASSUME NEW j \in Job, Expire(j) PROVE GuardSound'
  BY <1>9 DEF Expire, Runs, CallsOf
<1>10. CASE UNCHANGED vars
  BY <1>10 DEF vars, Runs, CallsOf
<1> QED
  BY <1>1, <1>2, <1>3, <1>4, <1>5, <1>6, <1>7, <1>8, <1>9, <1>10 DEF Next, CallStep

(* A job in #runningJobs really runs, whatever faults the environment      *)
(* shows: no path through notifier/index.js:132 leaves an entry behind     *)
(* that would keep the job from running until a restart.                   *)
THEOREM GuardNeverStuck == Spec => []GuardSound
<1>1. Init => TypeOK /\ DownIdle /\ GuardSound
  BY CallFacts DEF Init, TypeOK, PC, DownIdle, GuardSound
<1>2. TypeOK /\ DownIdle /\ GuardSound /\ [Next]_vars
        => (TypeOK /\ DownIdle /\ GuardSound)'
  BY TypePreserved, DownIdlePreserved, GuardSoundPreserved
<1> QED
  BY <1>1, <1>2, PTL DEF Spec

---------------------------------------------------------------------------
(* Two runs of a job in a process are one: locked ones are both named by   *)
(* the lock, an unlocked one is alone.                                     *)
LEMMA OneRun ==
    ASSUME IInv, NEW c \in Call, NEW d \in Call, pc[c] = "run", pc[d] = "run",
           ProcOf(c) = ProcOf(d), JobOf(c) = JobOf(d)
    PROVE  c = d
<1>1. CASE useLock[c] /\ useLock[d]
  BY <1>1 DEF IInv, OwnsLock
<1>2. CASE ~useLock[c] \/ ~useLock[d]
  BY <1>2 DEF IInv, UnlockedAlone
<1> QED
  BY <1>1, <1>2

LEMMA InitIInv == Init => IInv
<1> SUFFICES ASSUME Init PROVE IInv
  OBVIOUS
<1>1. TypeOK
  BY DEF Init, TypeOK, PC
<1> QED
  BY <1>1, CallFacts DEF Init, IInv, DownIdle, WaitsConnected, Waiting, OwnsLock,
                          UnlockedAlone, GuardComplete

(* startFunction: the interval jobs send their SETNX or run.               *)
LEMMA StartIInv ==
    ASSUME IInv, TypeOK', DownIdle', NEW p \in Process, Start(p)
    PROVE  IInv'
<1> USE DEF IInv, TypeOK
<1>1. PICK connected \in BOOLEAN :
        /\ ready' = [ready EXCEPT ![p] = connected]
        /\ useLock' = [c \in Call |-> IF c \in FirstCalls(p) THEN connected ELSE useLock[c]]
        /\ pc' = [c \in Call |-> IF c \notin FirstCalls(p) THEN pc[c]
                                 ELSE IF connected THEN "setnxSent" ELSE "run"]
        /\ running' = [running EXCEPT ![p] = IF connected THEN @ ELSE IntervalJob]
  BY DEF Start
<1>2. \A c \in Call : c \in FirstCalls(p) => ProcOf(c) = p /\ JobOf(c) \in IntervalJob
  BY DEF FirstCalls, CallsOf
<1>3. \A c \in Call : ProcOf(c) = p => pc[c] = "idle"
  BY DEF Start, DownIdle
<1>4. WaitsConnected'
  BY <1>1, <1>2, <1>3, CallFacts DEF WaitsConnected, Waiting
<1>5. OwnsLock'
  BY <1>1, <1>2, <1>3, CallFacts DEF Start, OwnsLock
<1>6. UnlockedAlone'
  BY <1>1, <1>2, <1>3, FirstCallUnique, CallFacts DEF UnlockedAlone
<1>7. GuardComplete'
  BY <1>1, <1>2, <1>3, CallFacts DEF GuardComplete
<1> QED
  BY <1>4, <1>5, <1>6, <1>7

(* A timer or a manual run: the guard keeps it from an unlocked run, and   *)
(* without Redis nobody else waits for the lock.                           *)
LEMMA EnterIInv ==
    ASSUME IInv, TypeOK', DownIdle', NEW c \in Call, phase[ProcOf(c)] = "on", EnterRunJob(c)
    PROVE  IInv'
<1> USE CallFacts DEF IInv, TypeOK, EnterRunJob
<1>1. WaitsConnected'
  BY DEF WaitsConnected, Waiting
<1>2. OwnsLock'
  BY DEF OwnsLock
<1>3. UnlockedAlone'
  BY DEF UnlockedAlone, GuardComplete, WaitsConnected, Waiting
<1>4. GuardComplete'
  BY DEF GuardComplete
<1> QED
  BY <1>1, <1>2, <1>3, <1>4

(* The steps of one call after it entered runJob.                          *)
LEMMA SetnxIInv ==
    ASSUME IInv, TypeOK', DownIdle', NEW c \in Call,
           RedisSetnx(c) \/ SetnxResolves(c) \/ SetnxRefused(c)
    PROVE  IInv'
<1> USE CallFacts DEF IInv, TypeOK, RedisSetnx, SetnxResolves, SetnxRefused
<1>1. WaitsConnected'
  BY DEF WaitsConnected, Waiting
<1>2. OwnsLock'
  BY DEF OwnsLock
<1>3. UnlockedAlone'
  BY DEF UnlockedAlone, OwnsLock
<1>4. GuardComplete'
  BY DEF GuardComplete
<1> QED
  BY <1>1, <1>2, <1>3, <1>4

LEMMA EndIInv ==
    ASSUME IInv, TypeOK', DownIdle', NEW c \in Call, JobEnds(c) \/ RedisDel(c) \/ DelReturns(c)
    PROVE  IInv'
<1>1. WaitsConnected'
  BY CallFacts DEF IInv, TypeOK, JobEnds, RedisDel, DelReturns, WaitsConnected, Waiting
<1>2. OwnsLock'
  BY CallFacts DEF IInv, TypeOK, JobEnds, RedisDel, DelReturns, OwnsLock
<1>3. UnlockedAlone'
  BY CallFacts DEF IInv, TypeOK, JobEnds, RedisDel, DelReturns, UnlockedAlone
<1>4. GuardComplete'
  BY OneRun, CallFacts DEF IInv, TypeOK, JobEnds, RedisDel, DelReturns, GuardComplete
<1> QED
  BY <1>1, <1>2, <1>3, <1>4 DEF IInv

(* A lock expires only when its call no longer needs it.                   *)
LEMMA ExpireIInv ==
    ASSUME Tame, IInv, TypeOK', DownIdle', NEW j \in Job, Expire(j)
    PROVE  IInv'
<1>1. OwnsLock'
  BY CallFacts DEF Tame, Expire, Holds, IInv, TypeOK, OwnsLock
<1> QED
  BY <1>1 DEF Expire, IInv, DownIdle, WaitsConnected, UnlockedAlone, GuardComplete

(* The process goes: its calls are gone, its locks stay.                   *)
LEMMA DownIInv ==
    ASSUME IInv, TypeOK', DownIdle', NEW p \in Process, GoDown(p)
    PROVE  IInv'
<1> USE CallFacts DEF IInv, TypeOK, GoDown
<1>1. WaitsConnected'
  BY DEF WaitsConnected, Waiting
<1>2. OwnsLock'
  BY DEF OwnsLock
<1>3. UnlockedAlone'
  BY DEF UnlockedAlone
<1>4. GuardComplete'
  BY DEF GuardComplete
<1> QED
  BY <1>1, <1>2, <1>3, <1>4

(* Redis comes back, or the process stops; quit waits for the answers.     *)
LEMMA ProcessIInv ==
    ASSUME IInv, TypeOK', DownIdle', NEW p \in Process, Reconnect(p) \/ Stop(p) \/ CacheStop(p)
    PROVE  IInv'
<1> USE CallFacts DEF IInv, TypeOK, Reconnect, Stop, CacheStop
<1>1. WaitsConnected'
  BY DEF WaitsConnected, Waiting, CallsOf
<1> QED
  BY <1>1 DEF OwnsLock, UnlockedAlone, GuardComplete

LEMMA NextIInv ==
    ASSUME Tame, IInv, [Next]_vars
    PROVE  IInv'
<1>0. TypeOK' /\ DownIdle'
  BY TypePreserved, DownIdlePreserved DEF IInv
<1>1. ASSUME NEW c \in Call, TimerFires(c) \/ RunJobNow(c) PROVE IInv'
  BY <1>0, <1>1, EnterIInv DEF TimerFires, RunJobNow
<1>2. ASSUME NEW c \in Call, CallStep(c) PROVE IInv'
  BY <1>0, <1>2, SetnxIInv, EndIInv DEF CallStep
<1>3. ASSUME NEW p \in Process, Start(p) PROVE IInv'
  BY <1>0, <1>3, StartIInv
<1>4. ASSUME NEW p \in Process, ConnectionLost(p) PROVE IInv'
  BY <1>4 DEF ConnectionLost, Tame
<1>5. ASSUME NEW p \in Process, Reconnect(p) \/ Stop(p) \/ CacheStop(p) PROVE IInv'
  BY <1>0, <1>5, ProcessIInv
<1>6. ASSUME NEW p \in Process, Exit(p) \/ Crash(p) PROVE IInv'
  BY <1>0, <1>6, DownIInv DEF Exit, Crash
<1>7. ASSUME NEW j \in Job, Expire(j) PROVE IInv'
  BY <1>0, <1>7, ExpireIInv
<1>8. CASE UNCHANGED vars
  BY <1>8 DEF vars, IInv, TypeOK, DownIdle, WaitsConnected, OwnsLock, UnlockedAlone,
              GuardComplete
<1> QED
  BY <1>1, <1>2, <1>3, <1>4, <1>5, <1>6, <1>7, <1>8 DEF Next

LEMMA Invariance ==
    ASSUME Tame
    PROVE  Spec => []IInv
<1>1. Init => IInv
  BY InitIInv
<1>2. IInv /\ [Next]_vars => IInv'
  BY NextIInv
<1> QED
  BY <1>1, <1>2, PTL DEF Spec

(* Nobody takes the lock from a call that still needs it: the DELs and     *)
(* SETNXs of notifier/index.js:142 and :162 never touch it, also when some *)
(* processes run without Redis.                                            *)
THEOREM LocksAreOwned ==
    ASSUME Tame
    PROVE  Spec => []LockOwned
<1>1. IInv => LockOwned
  BY DEF IInv, OwnsLock, LockOwned
<1> QED
  BY <1>1, Invariance, PTL

(* Redis or not, a process never runs a job twice at a time, as long as no *)
(* connection breaks (notifier/index.js:133).                              *)
THEOREM JobsRunAloneInProcess ==
    ASSUME Tame
    PROVE  Spec => []InProcessExclusion
<1>1. ASSUME IInv, NEW p \in Process, NEW j \in Job
      PROVE  Cardinality(Runs(j) \cap CallsOf(p)) <= 1
  <2>1. CASE Runs(j) \cap CallsOf(p) = {}
    BY <2>1, FS_EmptySet
  <2>2. CASE \E c : c \in Runs(j) \cap CallsOf(p)
    <3>1. PICK c : c \in Runs(j) \cap CallsOf(p)
      BY <2>2
    <3>2. Runs(j) \cap CallsOf(p) = {c}
      BY <1>1, <3>1, OneRun DEF Runs, CallsOf
    <3> QED
      BY <3>2, FS_Singleton
  <2> QED
    BY <2>1, <2>2
<1>2. IInv => InProcessExclusion
  BY <1>1 DEF InProcessExclusion
<1> QED
  BY <1>2, Invariance, PTL

---------------------------------------------------------------------------
(* However many processes are up, crash and restart, with Redis or without *)
(* it, a job never has two runs under the lock (notifier/index.js:19): all *)
(* of them are the call that the lock names.                               *)
THEOREM JobsRunAlone ==
    ASSUME Tame
    PROVE  Spec => []MutualExclusion
<1>1. ASSUME IInv, NEW j \in Job PROVE Cardinality(LockedRuns(j)) <= 1
  <2>1. LockedRuns(j) \subseteq {lock[j]}
    BY <1>1 DEF IInv, OwnsLock, LockedRuns, Runs
  <2>2. IsFiniteSet({lock[j]}) /\ Cardinality({lock[j]}) = 1
    BY FS_Singleton
  <2> QED
    BY <2>1, <2>2, FS_Subset
<1>2. IInv => MutualExclusion
  BY <1>1 DEF MutualExclusion
<1> QED
  BY <1>2, Invariance, PTL

(* A job that runs is in #runningJobs, so that a second call of it skips,  *)
(* in every process, with Redis or without it.                             *)
THEOREM GuardIsComplete ==
    ASSUME Tame
    PROVE  Spec => []GuardComplete
<1>1. IInv => GuardComplete
  BY DEF IInv
<1> QED
  BY <1>1, Invariance, PTL

---------------------------------------------------------------------------
(* Redis is reached by every process that has not stopped its cache, and   *)
(* so nobody runs without a lock.                                          *)
AllLocked ==
    /\ \A p \in Process : phase[p] \in {"on", "stopped"} => ready[p]
    /\ \A c \in Call : pc[c] = "run" => useLock[c]

LEMMA NextAllLocked ==
    ASSUME Faults \subseteq {"crash"}, IInv, AllLocked, [Next]_vars
    PROVE  AllLocked'
<1> USE DEF IInv, TypeOK, AllLocked
<1>1. ASSUME NEW c \in Call, TimerFires(c) \/ RunJobNow(c) PROVE AllLocked'
  BY <1>1, CallFacts DEF TimerFires, RunJobNow, EnterRunJob
<1>2. ASSUME NEW c \in Call, CallStep(c) PROVE AllLocked'
  BY <1>2, CallFacts DEF CallStep, RedisSetnx, SetnxResolves, SetnxRefused, JobEnds,
                         RedisDel, DelReturns, OwnsLock
<1>3. ASSUME NEW p \in Process, Start(p) PROVE AllLocked'
  BY <1>3, CallFacts DEF Start
<1>4. ASSUME NEW p \in Process, ConnectionLost(p) \/ Reconnect(p) PROVE AllLocked'
  BY <1>4 DEF ConnectionLost, Reconnect
<1>5. ASSUME NEW p \in Process, Stop(p) \/ CacheStop(p) PROVE AllLocked'
  BY <1>5 DEF Stop, CacheStop
<1>6. ASSUME NEW p \in Process, Exit(p) \/ Crash(p) PROVE AllLocked'
  BY <1>6, CallFacts DEF Exit, Crash, GoDown
<1>7. ASSUME NEW j \in Job, Expire(j) PROVE AllLocked'
  BY <1>7 DEF Expire
<1>8. CASE UNCHANGED vars
  BY <1>8 DEF vars
<1> QED
  BY <1>1, <1>2, <1>3, <1>4, <1>5, <1>6, <1>7, <1>8 DEF Next

(* Where Redis is always there, no two runs of a job overlap at all.       *)
THEOREM JobsRunAloneWithRedis ==
    ASSUME Faults \subseteq {"crash"}
    PROVE  Spec => [](\A j \in Job : Cardinality(Runs(j)) <= 1)
<1>1. Spec => []MutualExclusion
  BY JobsRunAlone DEF Tame
<1>2. Spec => []IInv
  BY Invariance DEF Tame
<1>3. Init => AllLocked
  BY CallFacts DEF Init, AllLocked
<1>4. IInv /\ AllLocked /\ [Next]_vars => AllLocked'
  BY NextAllLocked
<1>5. AllLocked => \A j \in Job : LockedRuns(j) = Runs(j)
  BY DEF AllLocked, LockedRuns, Runs
<1>6. AllLocked /\ MutualExclusion => \A j \in Job : Cardinality(Runs(j)) <= 1
  BY <1>5 DEF MutualExclusion
<1> QED
  BY <1>1, <1>2, <1>3, <1>4, <1>6, PTL DEF Spec

---------------------------------------------------------------------------
(* Refinement: runs under the lock begin in SetnxResolves, end in JobEnds, *)
(* and are cut off when their process goes; every other step leaves them   *)
(* alone.                                                                  *)
runs == [j \in Job |-> LockedRuns(j)]

(* Call c runs its job under the lock.                                     *)
RunsLocked(c) == pc[c] = "run" /\ useLock[c]

LEMMA SameRuns ==
    ASSUME \A c \in Call : RunsLocked(c)' <=> RunsLocked(c)
    PROVE  runs' = runs
  BY DEF runs, LockedRuns, Runs, RunsLocked

LEMMA BeginRun ==
    ASSUME IInv, NEW c \in Call, SetnxResolves(c)
    PROVE  Abstract!Begin(JobOf(c), c)
<1>1. useLock[c] /\ lock[JobOf(c)] = c
  BY DEF SetnxResolves, IInv, OwnsLock
<1>2. runs[JobOf(c)] = {}
  <2>1. \A d \in Call : JobOf(d) = JobOf(c) => ~RunsLocked(d)
    BY <1>1 DEF SetnxResolves, IInv, OwnsLock, RunsLocked
  <2> QED
    BY <2>1, CallFacts DEF runs, LockedRuns, Runs, RunsLocked
<1>3. \A d \in Call : RunsLocked(d)' <=> (RunsLocked(d) \/ d = c)
  BY <1>1 DEF SetnxResolves, IInv, TypeOK, RunsLocked
<1>4. runs' = [runs EXCEPT ![JobOf(c)] = {c}]
  <2>1. LockedRuns(JobOf(c))' = {c}
    BY <1>2, <1>3, CallFacts DEF runs, LockedRuns, Runs, RunsLocked
  <2>2. \A j \in Job : j # JobOf(c) => LockedRuns(j)' = LockedRuns(j)
    BY <1>3 DEF LockedRuns, Runs, RunsLocked
  <2> QED
    BY <2>1, <2>2, CallFacts DEF runs
<1> QED
  BY <1>2, <1>4 DEF Abstract!Begin, runs

LEMMA EndRun ==
    ASSUME IInv, NEW c \in Call, JobEnds(c)
    PROVE  Abstract!Next \/ runs' = runs
<1>1. \A d \in Call : RunsLocked(d)' <=> (RunsLocked(d) /\ d # c)
  BY DEF JobEnds, IInv, TypeOK, RunsLocked
<1>2. CASE ~useLock[c]
  <2>1. \A d \in Call : RunsLocked(d)' <=> RunsLocked(d)
    BY <1>1, <1>2 DEF RunsLocked
  <2> QED
    BY <2>1, SameRuns
<1>3. CASE useLock[c]
  <2>1. c \in runs[JobOf(c)]
    BY <1>3, CallFacts DEF JobEnds, runs, LockedRuns, Runs
  <2>2. LockedRuns(JobOf(c))' = LockedRuns(JobOf(c)) \ {c}
    BY <1>1 DEF LockedRuns, Runs, RunsLocked
  <2>3. \A j \in Job : j # JobOf(c) => LockedRuns(j)' = LockedRuns(j)
    BY <1>1 DEF LockedRuns, Runs, RunsLocked
  <2>4. runs' = [runs EXCEPT ![JobOf(c)] = @ \ {c}]
    BY <2>2, <2>3, CallFacts DEF runs
  <2>5. Abstract!End(JobOf(c), c)
    BY <2>1, <2>4 DEF Abstract!End, runs
  <2> QED
    BY <2>5, CallFacts DEF Abstract!Next
<1> QED
  BY <1>2, <1>3

LEMMA CutRuns ==
    ASSUME IInv, NEW p \in Process, GoDown(p)
    PROVE  Abstract!Next \/ runs' = runs
<1> DEFINE gone == {c \in CallsOf(p) : RunsLocked(c)}
<1>1. \A c \in Call : RunsLocked(c)' <=> (RunsLocked(c) /\ ProcOf(c) # p)
  BY DEF GoDown, IInv, TypeOK, RunsLocked
<1>2. runs' = [j \in Job |-> runs[j] \ gone]
  <2>1. \A j \in Job : LockedRuns(j)' = LockedRuns(j) \ gone
    BY <1>1 DEF LockedRuns, Runs, CallsOf, RunsLocked
  <2> QED
    BY <2>1 DEF runs
<1>3. CASE gone = {}
  <2>1. \A c \in Call : RunsLocked(c)' <=> RunsLocked(c)
    BY <1>1, <1>3 DEF CallsOf
  <2> QED
    BY <2>1, SameRuns
<1>4. CASE gone # {}
  <2>1. PICK c \in gone : TRUE
    BY <1>4
  <2>2. c \in gone \cap runs[JobOf(c)] /\ JobOf(c) \in Job
    BY <2>1, CallFacts DEF CallsOf, runs, LockedRuns, Runs, RunsLocked
  <2>3. gone \in SUBSET UNION {runs[j] : j \in Job}
    BY CallFacts DEF CallsOf, runs, LockedRuns, Runs, RunsLocked
  <2>4. Abstract!Death(gone)
    BY <1>2, <2>2 DEF Abstract!Death, runs
  <2> QED
    BY <2>3, <2>4 DEF Abstract!Next, runs
<1> QED
  BY <1>3, <1>4

LEMMA NextRefines ==
    ASSUME Tame, IInv, [Next]_vars
    PROVE  Abstract!Next \/ runs' = runs
<1> USE DEF IInv, TypeOK, RunsLocked
<1>1. ASSUME NEW c \in Call, TimerFires(c) \/ RunJobNow(c) PROVE runs' = runs
  BY <1>1, CallFacts, SameRuns DEF TimerFires, RunJobNow, EnterRunJob
<1>2. ASSUME NEW c \in Call, SetnxResolves(c) PROVE Abstract!Next
  BY <1>2, BeginRun, CallFacts DEF Abstract!Next
<1>3. ASSUME NEW c \in Call, JobEnds(c) PROVE Abstract!Next \/ runs' = runs
  BY <1>3, EndRun
<1>4. ASSUME NEW c \in Call,
             RedisSetnx(c) \/ SetnxRefused(c) \/ RedisDel(c) \/ DelReturns(c)
      PROVE  runs' = runs
  BY <1>4, SameRuns DEF RedisSetnx, SetnxRefused, RedisDel, DelReturns
<1>5. ASSUME NEW p \in Process, Start(p) PROVE runs' = runs
  <2>1. \A c \in Call : ProcOf(c) = p => pc[c] = "idle"
    BY <1>5 DEF Start, DownIdle
  <2>2. \A c \in FirstCalls(p) : ProcOf(c) = p
    BY DEF FirstCalls, CallsOf
  <2>3. \A c \in Call : RunsLocked(c)' <=> RunsLocked(c)
    BY <1>5, <2>1, <2>2 DEF Start
  <2> QED
    BY <2>3, SameRuns
<1>6. ASSUME NEW p \in Process, ConnectionLost(p) \/ Reconnect(p) \/ Stop(p) \/ CacheStop(p)
      PROVE  runs' = runs
  BY <1>6, SameRuns DEF ConnectionLost, Reconnect, Stop, CacheStop
<1>7. ASSUME NEW p \in Process, Exit(p) \/ Crash(p)
      PROVE  Abstract!Next \/ runs' = runs
  BY <1>7, CutRuns DEF Exit, Crash
<1>8. ASSUME NEW j \in Job, Expire(j) PROVE runs' = runs
  BY <1>8, SameRuns DEF Expire
<1>9. CASE UNCHANGED vars
  BY <1>9, SameRuns DEF vars
<1> QED
  BY <1>1, <1>2, <1>3, <1>4, <1>5, <1>6, <1>7, <1>8, <1>9 DEF Next, CallStep

(* The runs under the lock implement the promise of ExclusiveJob: any      *)
(* number of processes together behave like one scheduler that runs a job  *)
(* once at a time, beside those that have lost Redis.                      *)
THEOREM Refinement ==
    ASSUME Tame
    PROVE  Spec => ImplementsExclusiveJob
<1>1. Init => Abstract!Init
  BY CallFacts DEF Init, Abstract!Init, LockedRuns, Runs
<1>2. IInv /\ [Next]_vars => [Abstract!Next]_runs
  BY NextRefines
<1> QED
  BY <1>1, <1>2, Invariance, PTL DEF Spec, ImplementsExclusiveJob, Abstract!Spec, runs
===========================================================================
