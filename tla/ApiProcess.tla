---------------------------- MODULE ApiProcess ----------------------------
(***************************************************************************)
(* The API process: the Lifecycle of index.js with the connections its     *)
(* modules hold. db opens those to Mongo, cache the client of Redis, and   *)
(* sockets duplicates that client for its adapter; each may fail to close. *)
(* The stops take time, out of the 10 s of the shutdown.                   *)
(***************************************************************************)
EXTENDS Lifecycle

CONSTANTS Db, Cache, Api, Sockets,   \* positions in the launch queue
          LogsToDb                   \* the logger's db_enabled

ASSUME ApiProcessAssumption ==
    /\ {Db, Cache} \subseteq Priority
    /\ {Api, Sockets} \subseteq Module \ Priority
    /\ Db # Cache /\ Logger \notin {Db, Cache} /\ Api # Sockets
    /\ \E k \in Signal : Signal = {k}   \* one clock for one shutdown
    /\ LogsToDb \in BOOLEAN

Timeout == 10   \* SHUTDOWN_TIMEOUT, in seconds

Connection == {"models", "logs", "redis", "adapter"}

VARIABLES open,     \* the connections that are open, or that ioredis retries
          redis,    \* status of the cache's client; "none" without one
          unclosed, \* history: those whose close failed, or left by a failed start
          elapsed,  \* seconds since the signal
          spent     \* spent[m]: the seconds of them that the stop of m took

held == <<open, redis, unclosed>>
time == <<elapsed, spent>>
processVars == <<vars, held, time>>

ProcessTypeOK ==
    /\ TypeOK
    /\ open \subseteq Connection /\ unclosed \subseteq Connection
    /\ redis \in {"none", "ready", "retrying", "ended"}
    /\ elapsed \in 0 .. Timeout /\ spent \in [Module -> 0 .. elapsed]

ProcessInit ==
    /\ Init
    /\ open = {} /\ redis = "none" /\ unclosed = {}
    /\ elapsed = 0 /\ spent = [m \in Module |-> 0]

---------------------------------------------------------------------------
Starting(m) == at = m /\ launch = "starting"

(* The connections of db: the one for the logs is optional.                *)
MongoOpens ==
    {{"models"}} \cup IF LogsToDb /\ status[Logger] = "on" THEN {{"models", "logs"}} ELSE {}

(* Nobody stops a db that failed to start, on its connection or after it.  *)
StartDb ==
    /\ Starting(Db)
    /\ \/ StartResolves /\ (\E C \in MongoOpens : open' = open \cup C) /\ UNCHANGED unclosed
       \/ /\ StartFails
          /\ \E C \in MongoOpens \cup {{}} : open' = open \cup C /\ unclosed' = unclosed \cup C
    /\ UNCHANGED <<redis, time>>

(* cache starts with or without Redis; only its configuration may fail.    *)
StartCache ==
    /\ Starting(Cache)
    /\ \/ StartResolves /\ redis' \in {"ready", "retrying"} /\ open' = open \cup {"redis"}
       \/ StartFails /\ UNCHANGED <<redis, open>>
    /\ UNCHANGED <<unclosed, time>>

(* sockets, at the beginning of its start: a client that is connected is   *)
(* duplicated for the adapter, over connections of its own. (An error, or  *)
(* no client, leaves it with a single node: this step is not taken.)       *)
SetupRedisAdapter ==
    /\ proc = "running" /\ Starting(Sockets)
    /\ redis = "ready" /\ "adapter" \notin open
    /\ open' = open \cup {"adapter"}
    /\ UNCHANGED <<vars, redis, unclosed, time>>

(* Nobody stops sockets, with its adapter, when its events fail to load.   *)
StartSockets ==
    /\ Starting(Sockets)
    /\ \/ StartResolves /\ UNCHANGED unclosed
       \/ StartFails /\ unclosed' = unclosed \cup (open \cap {"adapter"})
    /\ UNCHANGED <<open, redis, time>>

(* The logger and api hold no connection of their own.                     *)
StartOther ==
    /\ Starting(Logger) \/ Starting(Api)
    /\ StartResolves \/ StartFails
    /\ UNCHANGED <<held, time>>

(* ioredis loses the connection of the cache and gets it back.             *)
Redis ==
    /\ proc = "running"
    /\ \/ redis = "ready" /\ redis' = "retrying"
       \/ redis = "retrying" /\ redis' = "ready"
    /\ UNCHANGED <<vars, open, unclosed, time>>

(* A client gives up after 10 tries, of the cache or of the adapter.       *)
GivesUp ==
    /\ proc = "running"
    /\ \/ /\ "redis" \in open /\ redis # "ready"
          /\ open' = open \ {"redis"}
          /\ redis' = IF redis = "retrying" THEN "ended" ELSE redis
       \/ "adapter" \in open /\ open' = open \ {"adapter"} /\ UNCHANGED redis
    /\ UNCHANGED <<vars, unclosed, time>>

---------------------------------------------------------------------------
(* What the stop of m closes.                                              *)
HeldBy(m) == CASE m = Db -> {"models", "logs"}
               [] m = Cache -> {"redis"}
               [] m = Sockets -> {"adapter"}
               [] OTHER -> {}

(* The stop of m tried to close C: some may have failed, which cache and   *)
(* sockets ignore, db for the logs, and which rejects its stop for the     *)
(* models. The cache forgets its client in any case.                       *)
Closed(m, C) ==
    /\ \E failed \in SUBSET (C \cap open) :
          open' = (open \ C) \cup failed /\ unclosed' = unclosed \cup failed
    /\ redis' = IF m = Cache THEN "none" ELSE redis

(* MUTANT of Stopped: the connection for the logs is forgotten.            *)
StoppedModels(m) == Closed(m, HeldBy(m) \ {"logs"})

Stopped(m) == Closed(m, HeldBy(m))

(* MUTANT of Longest: the 100 ms poll of api waits for as long as it takes.*)
LongestPoll(m) == IF m = Sockets /\ "adapter" \notin open THEN 3 ELSE Timeout

(* The longest stop: 3 s for the clients of sockets (and then the quit of  *)
(* the adapter's clients), 5 + 2 s for the requests and connections of     *)
(* api; the others have no timer of their own.                             *)
Longest(m) == CASE m = Sockets /\ "adapter" \notin open -> 3
                [] m = Api -> 7
                [] OTHER -> Timeout

(* A second of the shutdown. The exit's timer was set before the others.   *)
Second(k) ==
    /\ proc = "running"
    /\ stopping[k] # 0
    /\ elapsed < Timeout
    /\ spent[stopping[k]] < Longest(stopping[k])
    /\ elapsed' = elapsed + 1
    /\ spent' = [spent EXCEPT ![stopping[k]] = @ + 1]
    /\ UNCHANGED <<vars, held>>

Signalled(k) == SignalComes(k) /\ UNCHANGED <<held, time>>

(* The stop resolves or rejects.                                           *)
Settles(k) ==
    /\ elapsed < Timeout
    /\ StopSettles(k)
    /\ Stopped(stopping[k])
    /\ UNCHANGED time

Forced(k) == elapsed = Timeout /\ ForceExit(k) /\ UNCHANGED <<held, time>>

ProcessNext ==
    \/ (LaunchBegins \/ Crash) /\ UNCHANGED <<held, time>>
    \/ StartDb \/ StartCache \/ SetupRedisAdapter \/ StartSockets \/ StartOther
    \/ Redis \/ GivesUp
    \/ \E k \in Signal : Signalled(k) \/ Second(k) \/ Settles(k) \/ Forced(k)

(* Time goes on, and a stop with a timer ends by it; others may hang.      *)
ProcessSpec ==
    /\ ProcessInit /\ [][ProcessNext]_processVars
    /\ \A k \in Signal : WF_processVars(Second(k)) /\ WF_processVars(Forced(k))
    /\ \A k \in Signal : WF_processVars(Settles(k) /\ spent[stopping[k]] >= Longest(stopping[k]))

---------------------------------------------------------------------------
(* README.md:147 - exit code 0 means that every module was stopped, after  *)
(* the launch as far as it came, and every connection was closed that can  *)
(* be: what is still open failed to close, or belonged to a db or sockets  *)
(* whose start failed, which nobody stops.                                 *)
GracefulClose == CleanExit /\ (proc = "exit0" => open \subseteq unclosed)

(* The 10 s are enough for sockets and api: the forced exit finds one of   *)
(* them stopping only if both took all the time their timers allow (then   *)
(* cache, db and the logger are not stopped), or if the quit of the        *)
(* adapter's clients, which has no timer, hung.                            *)
BudgetKept ==
    \A k \in Signal : stopping[k] \in {Api, Sockets} /\ elapsed = Timeout =>
        spent[Sockets] > 3 \/ (spent[Sockets] = 3 /\ spent[Api] = 7)
===========================================================================
