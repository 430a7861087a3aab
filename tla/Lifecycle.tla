---------------------------- MODULE Lifecycle ----------------------------
(***************************************************************************)
(* The entry points index.js (API process) and notifier.js (background     *)
(* jobs): they start the modules of a launch queue one after the other and *)
(* stop them in reverse on SIGTERM or SIGINT. Both files hold the same     *)
(* code and differ in the queue, so a module is a position 1..N here.      *)
(*                                                                         *)
(* Every await is a point where a signal may come in: the launch goes on   *)
(* while a shutdown runs, and every signal runs a shutdown of its own.     *)
(* Module.start (modules/_class.js) sets the status after startFunction,   *)
(* Module.stop before stopFunction.                                        *)
(***************************************************************************)
EXTENDS Naturals

CONSTANTS N,            \* length of the launch queue
          Priority,     \* positions of logger, db, cache
          Logger,       \* the position of the logger
          NeedsLogger,  \* modules that call modules.logger.log without `?.`
          Signal,       \* BOUND: the signals the process may receive
          EarlySignals  \* may they come before the launch is over?

Module == 1 .. N

ASSUME LifecycleAssumption ==
    /\ N \in Nat \ {0}
    /\ Priority \subseteq Module
    /\ \A p \in Priority, m \in Module \ Priority : p < m   \* launch_queue's sort
    /\ Logger \in Priority
    /\ NeedsLogger \subseteq Module
    /\ EarlySignals \in BOOLEAN

VARIABLES use,      \* use[m]: the flag `use` of its config is not false
          status,   \* status[m]: getStatus(), or "null" for modules[m] = null
          launch,   \* where launch() is
          at,       \* the position launch() is at
          stopping, \* stopping[k]: whose stop() signal k's shutdown awaits; 0: none
          proc      \* "running", or the exit code

vars == <<use, status, launch, at, stopping, proc>>

TypeOK ==
    /\ use \in [Module -> BOOLEAN]
    /\ status \in [Module -> {"off", "on", "null"}]
    /\ launch \in {"waiting", "starting", "halted", "done"}
    /\ at \in 0 .. N + 1
    /\ launch = "starting" => at \in Module
    /\ stopping \in [Signal -> 0 .. N]
    /\ proc \in {"running", "exit0", "exit1"}

Init ==
    /\ use \in [Module -> BOOLEAN]
    /\ status = [m \in Module |-> "off"]
    /\ launch = "waiting"
    /\ at = 0
    /\ stopping = [k \in Signal |-> 0]
    /\ proc = "running"

---------------------------------------------------------------------------
(* launch(m), up to its first await, from statuses st: modules with        *)
(* use: false are replaced by null, the first enabled one begins to start. *)
LaunchFrom(m, st) ==
    \E n \in m .. N + 1 :
        /\ \A i \in m .. n - 1 : ~use[i]
        /\ n \in Module => use[n]
        /\ status' = [i \in Module |-> IF i \in m .. n - 1 THEN "null" ELSE st[i]]
        /\ at' = n
        /\ launch' = IF n \in Module THEN "starting" ELSE "done"

(* run(): the delay of one second is over.                                 *)
LaunchBegins ==
    /\ proc = "running"
    /\ launch = "waiting"
    /\ LaunchFrom(1, status)
    /\ UNCHANGED <<use, stopping, proc>>

(* start() resolves. With the logger switched off a module that logs in    *)
(* its start without `?.` throws instead: it fails or crashes the process. *)
StartResolves ==
    /\ proc = "running"
    /\ launch = "starting"
    /\ at \in NeedsLogger => status[Logger] # "null"
    /\ LaunchFrom(at + 1, [status EXCEPT ![at] = "on"])
    /\ UNCHANGED <<use, stopping, proc>>

(* MUTANT of StartFails: the launch goes on without the priority module.   *)
StartFailsAnyway ==
    /\ proc = "running"
    /\ launch = "starting"
    /\ LaunchFrom(at + 1, status)
    /\ UNCHANGED <<use, stopping, proc>>

(* start() rejects: a priority module ends the launch, another is skipped. *)
StartFails ==
    /\ proc = "running"
    /\ launch = "starting"
    /\ \/ /\ at \in Priority
          /\ launch' = "halted"
          /\ UNCHANGED <<status, at>>
       \/ /\ at \notin Priority
          /\ LaunchFrom(at + 1, status)
    /\ UNCHANGED <<use, stopping, proc>>

---------------------------------------------------------------------------
(* MUTANT of StopBelow: stop() sets a status getStatus() does not promise. *)
StopMarksStopped(k, top) ==
    LET rest == {m \in 1 .. top : status[m] = "on"} IN
    \/ \E m \in rest :
        /\ \A i \in rest : i <= m
        /\ status' = [status EXCEPT ![m] = "stopped"]
        /\ stopping' = [stopping EXCEPT ![k] = m]
        /\ UNCHANGED proc
    \/ /\ rest = {}
       /\ proc' = "exit0"
       /\ UNCHANGED <<status, stopping>>

(* shutdown() of signal k from position top downwards, up to its next      *)
(* await: the last module that is on begins to stop (and is `off` at once),*)
(* or there is none left and the process exits.                            *)
StopBelow(k, top) ==
    LET rest == {m \in 1 .. top : status[m] = "on"} IN
    \/ \E m \in rest :
        /\ \A i \in rest : i <= m
        /\ status' = [status EXCEPT ![m] = "off"]
        /\ stopping' = [stopping EXCEPT ![k] = m]
        /\ UNCHANGED proc
    \/ /\ rest = {}
       /\ proc' = "exit0"
       /\ stopping' = [stopping EXCEPT ![k] = 0]
       /\ UNCHANGED status

(* SIGTERM or SIGINT: the 10 s timer is set and shutdown() begins.         *)
SignalComes(k) ==
    /\ proc = "running"
    /\ stopping[k] = 0
    /\ EarlySignals \/ launch \in {"halted", "done"}
    /\ StopBelow(k, N)
    /\ UNCHANGED <<use, launch, at>>

(* The awaited stop() resolves, or rejects and the error is logged.        *)
StopSettles(k) ==
    /\ proc = "running"
    /\ stopping[k] # 0
    /\ StopBelow(k, stopping[k] - 1)
    /\ UNCHANGED <<use, launch, at>>

(* MUTANT of ForceExit: the timer is only set for the first module.        *)
ForceExitOnce(k) ==
    /\ proc = "running"
    /\ stopping[k] = N
    /\ proc' = "exit1"
    /\ UNCHANGED <<use, status, launch, at, stopping>>

(* SHUTDOWN_TIMEOUT after signal k: the forced exit.                       *)
ForceExit(k) ==
    /\ proc = "running"
    /\ stopping[k] # 0
    /\ proc' = "exit1"
    /\ UNCHANGED <<use, status, launch, at, stopping>>

(* uncaughtException or unhandledRejection, at any time.                   *)
Crash ==
    /\ proc = "running"
    /\ proc' = "exit1"
    /\ UNCHANGED <<use, status, launch, at, stopping>>

---------------------------------------------------------------------------
Next ==
    \/ LaunchBegins \/ StartResolves \/ StartFails \/ Crash
    \/ \E k \in Signal : SignalComes(k) \/ StopSettles(k) \/ ForceExit(k)

Spec == Init /\ [][Next]_vars

---------------------------------------------------------------------------
Stopping == {stopping[k] : k \in Signal} \ {0}

(* m has been started and not been stopped to the end.                     *)
Alive(m) == status[m] = "on" \/ m \in Stopping

(* A module that serves requests, sockets or jobs, or still drains them,   *)
(* finds logger, db and cache up, those that are enabled: they start first *)
(* and stop last.                                                          *)
DependenciesUp ==
    proc = "running" =>
        \A m \in Module \ Priority : Alive(m) =>
            \A d \in Priority : use[d] => status[d] = "on"

(* Exit code 0 means that every module that had started was stopped, and   *)
(* its stop() was waited for.                                              *)
CleanExit == proc = "exit0" => \A m \in Module : ~Alive(m)

(* A signalled process is gone in the end, whatever hangs in a stop().     *)
ShutdownEnds == \A k \in Signal : stopping[k] # 0 ~> proc # "running"
==========================================================================
