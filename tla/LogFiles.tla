------------------------------ MODULE LogFiles ------------------------------
(***************************************************************************)
(* The log files of modules/logger on disk. Every process of the server    *)
(* (the workers of the PM2 cluster, notifier.js, health.js) has a logger   *)
(* of its own, and all of them write to the one file of the day in the one *)
(* directory. The file is created by whoever finds it missing: existsSync, *)
(* then writeFileSync that truncates, two system calls between which       *)
(* another process may do anything. A line handed to a stream is in memory *)
(* until the stream has written it. LogSink models the MongoDB sink.       *)
(***************************************************************************)
EXTENDS Integers, FiniteSets

CONSTANTS Process,
          Keep,      \* save_logs
          Days,      \* BOUND: days
          MaxLines,  \* BOUND: lines logged
          Crashes    \* BOUND: crashes

(* A file is not old while a process still writes to it.                   *)
ASSUME LogFilesAssumption ==
    {Days, MaxLines} \subseteq Nat \ {0} /\ Crashes \in Nat /\ Keep \in Nat \ {0, 1}

Day  == 1 .. Days
None == 0
Line == 1 .. MaxLines

VARIABLES day,      \* today
          files,    \* the days whose file exists
          lines,    \* lines[d]: the lines in it
          mtime,    \* mtime[d]: the day of its last change
          state,    \* state[p]: "down", "loaded" (constructed), "on", "ending"
          missing,  \* missing[p]: the day whose file p found missing and creates
          stream,   \* stream[p]: the day of #stream, #streamDate
          pending,  \* pending[p][d]: lines in memory, in a stream of day d
          sweep,    \* sweep[p]: the day of the start whose #cleanOldLogs is due
          logged,   \* logged[d]: lines handed to a stream of day d
          crashes,  \* crashes so far
          spoiled   \* days with a crash, a late creation or a late exit

disk == <<files, lines, mtime>>
vars == <<day, disk, state, missing, stream, pending, sweep, logged, crashes, spoiled>>

TypeOK ==
    /\ day \in Day /\ {files, spoiled} \subseteq SUBSET Day
    /\ lines \in [Day -> SUBSET Line] /\ logged \in [Day -> SUBSET Line]
    /\ \A d \in Day : lines[d] \subseteq logged[d] /\ (d \notin files => lines[d] = {})
    /\ mtime \in [Day -> 0 .. Days]
    /\ state \in [Process -> {"down", "loaded", "on", "ending"}]
    /\ {missing, stream, sweep} \subseteq [Process -> Day \cup {None}]
    /\ pending \in [Process -> [Day -> SUBSET Line]]
    /\ crashes \in 0 .. Crashes

Init ==
    /\ day = 1 /\ files = {} /\ spoiled = {} /\ crashes = 0
    /\ lines = [d \in Day |-> {}] /\ logged = lines /\ mtime = [d \in Day |-> 0]
    /\ state = [p \in Process |-> "down"]
    /\ missing = [p \in Process |-> None] /\ stream = missing /\ sweep = missing
    /\ pending = [p \in Process |-> lines]

---------------------------------------------------------------------------
(* The next line goes to the stream p has open, or opens, for day d.       *)
NewLine == Cardinality(UNION {logged[d] : d \in Day}) + 1

WriteTo(p, d) ==
    /\ NewLine \in Line
    /\ pending' = [pending EXCEPT ![p][d] = @ \cup {NewLine}]
    /\ logged' = [logged EXCEPT ![d] = @ \cup {NewLine}]
    /\ stream' = [stream EXCEPT ![p] = d]

(* The constructor: #checkFileSync looks for today's file.                 *)
Load(p) ==
    /\ state[p] = "down"
    /\ state' = [state EXCEPT ![p] = "loaded"]
    /\ missing' = [missing EXCEPT ![p] = IF day \in files THEN None ELSE day]
    /\ UNCHANGED <<day, disk, stream, pending, sweep, logged, crashes, spoiled>>

(* startFunction                                                           *)
Start(p) ==
    /\ state[p] = "loaded" /\ missing[p] = None
    /\ state' = [state EXCEPT ![p] = "on"]
    /\ sweep' = [sweep EXCEPT ![p] = day]
    /\ UNCHANGED <<day, disk, missing, stream, pending, logged, crashes, spoiled>>

(* log(): #getStream ends the stream of another day without waiting for it *)
(* and looks for the file.                                                 *)
Log(p) ==
    /\ state[p] = "on" /\ missing[p] = None /\ NewLine \in Line
    /\ IF stream[p] = day \/ day \in files
       THEN WriteTo(p, day) /\ UNCHANGED missing
       ELSE /\ missing' = [missing EXCEPT ![p] = day]
            /\ stream' = [stream EXCEPT ![p] = None]
            /\ UNCHANGED <<pending, logged>>
    /\ UNCHANGED <<day, disk, state, sweep, crashes, spoiled>>

(* writeFileSync with w+ empties a file that has appeared since. For log() *)
(* the line follows. It fails: the constructor ignores it, the line goes   *)
(* nowhere.                                                                *)
Create(p) ==
    LET d == missing[p] IN
    /\ d # None
    /\ missing' = [missing EXCEPT ![p] = None]
    /\ \/ /\ files' = files \cup {d}
          /\ lines' = [lines EXCEPT ![d] = {}]
          /\ mtime' = [mtime EXCEPT ![d] = day]
          /\ spoiled' = IF d \in files THEN spoiled \cup {d} ELSE spoiled
          /\ IF state[p] = "on" THEN WriteTo(p, d) ELSE UNCHANGED <<pending, logged, stream>>
       \/ UNCHANGED <<disk, spoiled, pending, logged, stream>>
    /\ UNCHANGED <<day, state, sweep, crashes>>

(* MUTANT of Append: the stream was opened with flags w.                   *)
AppendOver(p, d) ==
    /\ files' = files \cup {d}
    /\ mtime' = [mtime EXCEPT ![d] = day]
    /\ \E l \in pending[p][d] :
          /\ \A k \in pending[p][d] : l <= k
          /\ lines' = [lines EXCEPT ![d] = {l}]
          /\ pending' = [pending EXCEPT ![p][d] = @ \ {l}]
    /\ UNCHANGED <<day, state, missing, stream, sweep, logged, crashes, spoiled>>

(* MUTANT of Append: a line is also given to the stream of today.          *)
AppendAstray(p, d) ==
    /\ files' = files \cup {day}
    /\ mtime' = [mtime EXCEPT ![day] = day]
    /\ \E l \in pending[p][d] :
          /\ \A k \in pending[p][d] : l <= k
          /\ lines' = [lines EXCEPT ![day] = @ \cup {l}]
          /\ pending' = [pending EXCEPT ![p][d] = @ \ {l}]
    /\ UNCHANGED <<day, state, missing, stream, sweep, logged, crashes, spoiled>>

(* The stream of day d, opened with flags a, writes its next line.         *)
Append(p, d) ==
    /\ files' = files \cup {d}
    /\ mtime' = [mtime EXCEPT ![d] = day]
    /\ \E l \in pending[p][d] :
          /\ \A k \in pending[p][d] : l <= k
          /\ lines' = [lines EXCEPT ![d] = @ \cup {l}]
          /\ pending' = [pending EXCEPT ![p][d] = @ \ {l}]
    /\ UNCHANGED <<day, state, missing, stream, sweep, logged, crashes, spoiled>>

(* Files last changed save_logs days before the start or earlier; of those *)
(* changed on the very day the time of the day decides.                    *)
Old(p) == {d \in files : sweep[p] - mtime[d] >= Keep}

(* #cleanOldLogs                                                           *)
Clean(p) ==
    /\ state[p] # "down" /\ sweep[p] # None
    /\ \E gone \in SUBSET Old(p) :
          /\ {d \in Old(p) : sweep[p] - mtime[d] > Keep} \subseteq gone
          /\ files' = files \ gone
          /\ lines' = [d \in Day |-> IF d \in gone THEN {} ELSE lines[d]]
    /\ sweep' = [sweep EXCEPT ![p] = None]
    /\ UNCHANGED <<day, mtime, state, missing, stream, pending, logged, crashes, spoiled>>

---------------------------------------------------------------------------
(* stopFunction: #logging off, end() of the stream of #stream.             *)
Stop(p) ==
    /\ state[p] = "on" /\ missing[p] = None
    /\ state' = [state EXCEPT ![p] = "ending"]
    /\ UNCHANGED <<day, disk, missing, stream, pending, sweep, logged, crashes, spoiled>>

Gone(p) ==
    /\ state' = [state EXCEPT ![p] = "down"]
    /\ missing' = [missing EXCEPT ![p] = None]
    /\ stream' = [stream EXCEPT ![p] = None]
    /\ sweep' = [sweep EXCEPT ![p] = None]
    /\ pending' = [pending EXCEPT ![p] = [d \in Day |-> {}]]
    /\ UNCHANGED <<day, disk, logged>>

(* MUTANT of Exit: stop() does not wait for the stream.                    *)
ExitAtOnce(p) ==
    /\ state[p] = "ending"
    /\ spoiled' = spoiled \cup {d \in Day \ {stream[p]} : pending[p][d] # {}}
    /\ Gone(p)
    /\ UNCHANGED crashes

(* The stream has ended and the process exits, an older stream or not.     *)
Exit(p) ==
    /\ state[p] = "ending"
    /\ stream[p] # None => pending[p][stream[p]] = {}
    /\ spoiled' = spoiled \cup {d \in Day \ {stream[p]} : pending[p][d] # {}}
    /\ Gone(p)
    /\ UNCHANGED crashes

(* A crash, the exit of uncaughtException and unhandledRejection right     *)
(* after they have logged the reason, or the forced exit of a shutdown.    *)
Crash(p) ==
    /\ state[p] # "down" /\ crashes < Crashes
    /\ crashes' = crashes + 1
    /\ spoiled' = spoiled \cup {d \in Day : pending[p][d] # {}}
    /\ Gone(p)

(* BOUND: what was begun on a day is done before the day after is over.    *)
Midnight ==
    /\ day < Days
    /\ \A p \in Process : /\ missing[p] \in {None, day}
                          /\ \A d \in 1 .. day - 1 : pending[p][d] = {}
    /\ day' = day + 1
    /\ UNCHANGED <<disk, state, missing, stream, pending, sweep, logged, crashes, spoiled>>

Next ==
    \/ Midnight
    \/ \E p \in Process :
          \/ Load(p) \/ Start(p) \/ Log(p) \/ Create(p) \/ Clean(p)
          \/ Stop(p) \/ Exit(p) \/ Crash(p)
          \/ \E d \in Day : Append(p, d)

Spec == Init /\ [][Next]_vars

---------------------------------------------------------------------------
(* logger/index.js:103-126, 38-53 - the file of a day that is not old has  *)
(* every line that was logged for it, once no stream has lines of the day. *)
(* Lines are lost only by a crash with lines in memory, by a process that  *)
(* found the file missing and empties it after another created it, and by  *)
(* a graceful exit right after midnight, which waits for the new stream    *)
(* and not for the one it replaced.                                        *)
WholeDay ==
    \A d \in Day \ spoiled :
        \/ logged[d] = lines[d] \cup UNION {pending[p][d] : p \in Process}
        \/ day - mtime[d] >= Keep

(* logger/index.js:116-121, 131-150 - a line in a file stays there for     *)
(* save_logs days, but for that late creation.                             *)
KeepsLines ==
    [][\A d \in Day : \/ lines[d] \subseteq lines'[d]
                      \/ day - mtime[d] >= Keep
                      \/ \E p \in Process : missing[p] = d /\ missing'[p] = None /\ d \in files]_vars
=============================================================================
