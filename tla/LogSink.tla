----------------------------- MODULE LogSink -----------------------------
(***************************************************************************)
(* modules/logger with its two sinks: the file of the day and, with        *)
(* db_enabled, MongoDB, fed in batches from a buffer in memory. Messages   *)
(* logged before MongoDB is connected wait in the buffer, of which the     *)
(* oldest are dropped; connectToDb, called by the entry point once the db  *)
(* module is up, starts the timer that flushes it.                         *)
(*                                                                         *)
(* On a graceful shutdown the entry point stops the db module before the   *)
(* logger (Lifecycle) and calls process.exit as soon as stop() of the      *)
(* logger has resolved, without returning to the event loop.               *)
(* A document is named by its number in the order of the log() calls.      *)
(***************************************************************************)
EXTENDS Naturals, Sequences, SequencesExt

CONSTANTS MaxDocs,      \* BOUND: documents logged for MongoDB
          BatchSize,    \* db_batch_size
          MaxBuffer,    \* #maxBufferSize
          InsertFails   \* may insertMany fail while MongoDB is connected?

ASSUME LogSinkAssumption ==
    /\ MaxDocs \in Nat /\ BatchSize \in Nat \ {0} /\ MaxBuffer \in Nat \ {0}
    /\ InsertFails \in BOOLEAN

Doc == 1 .. MaxDocs

VARIABLES logger,   \* "off", "on", "ending" (stop() awaits the stream), "exited"
          logging,  \* #logging
          stream,   \* #stream: "none", "open", "ended" (end() was called on it)
          late,     \* something was written to a stream after its end()
          db,       \* the db module: "down", "up", "closed"
          dbReady,  \* #dbReady, #logModel is set
          timer,    \* #flushTimer is armed
          count,    \* documents logged so far
          buffer,   \* #buffer
          inflight, \* batches whose insertMany has not settled
          stored,   \* documents in MongoDB
          lost,     \* documents of which insertMany reported a failure
          final     \* history: the documents of the last flush, that of stop()

vars == <<logger, logging, stream, late, db, dbReady, timer, count, buffer,
          inflight, stored, lost, final>>
files == <<logger, logging, stream, late>>
store == <<stored, lost, final>>

TypeOK ==
    /\ logger \in {"off", "on", "ending", "exited"}
    /\ stream \in {"none", "open", "ended"}
    /\ db \in {"down", "up", "closed"}
    /\ {logging, late, dbReady, timer} \subseteq BOOLEAN
    /\ count \in 0 .. MaxDocs
    /\ buffer \in Seq(Doc)
    /\ inflight \subseteq (SUBSET Doc) \ {{}}   \* insertMany is given something
    /\ stored \subseteq Doc /\ lost \subseteq Doc /\ final \subseteq Doc

Init ==
    /\ logger = "off" /\ logging = FALSE /\ stream = "none" /\ late = FALSE
    /\ db = "down" /\ dbReady = FALSE /\ timer = FALSE
    /\ count = 0 /\ buffer = <<>> /\ inflight = {}
    /\ stored = {} /\ lost = {} /\ final = {}

Buffered == ToSet(buffer)

---------------------------------------------------------------------------
(* MUTANTS of Flush: an empty buffer is sent as well; or the batch is      *)
(* copied and only its first document taken from the buffer.               *)
FlushEmpty(buf) ==
    IF dbReady
    THEN inflight' = inflight \cup {ToSet(buf)} /\ buffer' = <<>>
    ELSE UNCHANGED inflight /\ buffer' = buf
FlushCopies(buf) ==
    IF dbReady /\ buf # <<>>
    THEN inflight' = inflight \cup {ToSet(buf)} /\ buffer' = Tail(buf)
    ELSE UNCHANGED inflight /\ buffer' = buf

(* #flush on buffer contents buf: insertMany takes all of it at once, and  *)
(* nobody waits for it.                                                    *)
Flush(buf) ==
    IF dbReady /\ buf # <<>>
    THEN inflight' = inflight \cup {ToSet(buf)} /\ buffer' = <<>>
    ELSE UNCHANGED inflight /\ buffer' = buf

(* startFunction                                                           *)
Start ==
    /\ logger = "off"
    /\ logger' = "on"
    /\ logging' = TRUE
    /\ UNCHANGED <<stream, late, db, dbReady, timer, count, buffer, inflight, store>>

(* The file sink of log(): the stream is opened on the first message.      *)
WriteToFile ==
    IF logging
    THEN /\ stream' = IF stream = "none" THEN "open" ELSE stream
         /\ late' = (late \/ stream = "ended")
    ELSE UNCHANGED <<stream, late>>

(* MUTANT of Push: a full buffer drops the newest document.                *)
PushDropsNewest(d) ==
    LET buf == Append(buffer, d) IN
    IF dbReady THEN IF Len(buf) >= BatchSize THEN Flush(buf) ELSE UNCHANGED inflight /\ buffer' = buf
    ELSE /\ buffer' = IF Len(buf) > MaxBuffer THEN buffer ELSE buf
         /\ UNCHANGED inflight

(* The MongoDB sink of log(): a full batch is flushed; while MongoDB is    *)
(* not connected the buffer drops its oldest document instead.             *)
Push(d) ==
    LET buf == Append(buffer, d) IN
    IF dbReady
    THEN IF Len(buf) >= BatchSize
         THEN Flush(buf)
         ELSE UNCHANGED inflight /\ buffer' = buf
    ELSE /\ buffer' = IF Len(buf) > MaxBuffer THEN Tail(buf) ELSE buf
         /\ UNCHANGED inflight

(* log() of a message that also goes to MongoDB, from anywhere in the      *)
(* process; #dbEnabled stays set while the logger stops.                   *)
LogToDb ==
    /\ logger \in {"on", "ending"}
    /\ count < MaxDocs
    /\ count' = count + 1
    /\ WriteToFile
    /\ Push(count + 1)
    /\ UNCHANGED <<logger, logging, db, dbReady, timer, store>>

(* log() of a message below db_levels.                                     *)
LogToFile ==
    /\ logger # "exited"
    /\ WriteToFile
    /\ UNCHANGED <<logger, logging, db, dbReady, timer, count, buffer, inflight, store>>

---------------------------------------------------------------------------
(* MUTANT of ConnectToDb: the timer is forgotten.                          *)
ConnectWithoutTimer ==
    /\ logger = "on" /\ db = "down"
    /\ db' = "up"
    /\ dbReady' = TRUE
    /\ UNCHANGED <<files, timer, count, buffer, inflight, store>>

(* The db module is up and the entry point calls connectToDb: the backlog  *)
(* goes out as one batch.                                                  *)
ConnectToDb ==
    /\ logger = "on" /\ db = "down"
    /\ db' = "up"
    /\ dbReady' = TRUE
    /\ timer' = TRUE
    /\ inflight' = IF buffer = <<>> THEN inflight ELSE inflight \cup {ToSet(buffer)}
    /\ buffer' = <<>>
    /\ UNCHANGED <<files, count, store>>

(* The interval of db_flush_interval_ms.                                   *)
TimerFlush ==
    /\ timer /\ logger # "exited"
    /\ Flush(buffer)
    /\ UNCHANGED <<files, db, dbReady, timer, count, store>>

(* insertMany settles. It is unordered: it may store a part of the batch,  *)
(* and the catch handler drops the rest. Once the connection is closed it  *)
(* can only fail.                                                          *)
InsertSettles(batch) ==
    /\ logger # "exited"
    /\ inflight' = inflight \ {batch}
    /\ \E part \in SUBSET batch :
        /\ part # {} => db = "up"
        /\ part # batch => InsertFails \/ db = "closed"
        /\ stored' = stored \cup part
        /\ lost' = lost \cup (batch \ part)
    /\ UNCHANGED <<files, db, dbReady, timer, count, buffer, final>>

---------------------------------------------------------------------------
(* The graceful shutdown: stop() of the db module closes the connections.  *)
DbStops ==
    /\ db = "up" /\ logger = "on"
    /\ db' = "closed"
    /\ UNCHANGED <<files, dbReady, timer, count, buffer, inflight, store>>

(* MUTANT of Stop: the file sink is not switched off before the stream is  *)
(* ended.                                                                  *)
StopStillLogging ==
    /\ logger = "on" /\ db # "up"
    /\ timer' = FALSE
    /\ Flush(buffer)
    /\ final' = Buffered
    /\ stream' = IF stream = "open" THEN "ended" ELSE stream
    /\ logger' = IF stream = "open" THEN "ending" ELSE "exited"
    /\ UNCHANGED <<logging, late, db, dbReady, count, stored, lost>>

(* stop() of the logger up to its await: the file sink is off, the last    *)
(* flush is sent, the timer cleared, and end() called on the stream. With  *)
(* no stream there is nothing to wait for, not even for the flush.         *)
Stop ==
    /\ logger = "on" /\ db # "up"
    /\ logging' = FALSE
    /\ timer' = FALSE
    /\ Flush(buffer)
    /\ final' = Buffered
    /\ stream' = IF stream = "open" THEN "ended" ELSE stream
    /\ logger' = IF stream = "open" THEN "ending" ELSE "exited"
    /\ UNCHANGED <<late, db, dbReady, count, stored, lost>>

(* The stream has ended: stop() resolves, and shutdown() exits.            *)
StreamEnds ==
    /\ logger = "ending"
    /\ logger' = "exited"
    /\ stream' = "none"
    /\ UNCHANGED <<logging, late, db, dbReady, timer, count, buffer, inflight, store>>

Next ==
    \/ Start \/ LogToDb \/ LogToFile \/ ConnectToDb \/ TimerFlush
    \/ \E batch \in inflight : InsertSettles(batch)
    \/ DbStops \/ Stop \/ StreamEnds

Spec == Init /\ [][Next]_vars

(* The timer fires and MongoDB answers or fails.                           *)
FairSpec == Spec /\ WF_vars(TimerFlush)
                 /\ WF_vars(\E batch \in inflight : InsertSettles(batch))

---------------------------------------------------------------------------
Sent == UNION inflight

(* No document is written to MongoDB twice or given up while it is still   *)
(* to be written: buffer, batches on their way, stored and lost documents  *)
(* share nothing, however timer, full batch and stop() race to flush.      *)
NoDocTwice ==
    /\ Buffered \cap (Sent \cup stored \cup lost) = {}
    /\ Sent \cap (stored \cup lost) = {}
    /\ \A b1, b2 \in inflight : b1 = b2 \/ b1 \cap b2 = {}

(* Memory is bounded whatever happens to MongoDB: by #maxBufferSize before *)
(* it is connected, by one batch from then on, also when it went away or   *)
(* the timer is cleared. What the bound drops is the oldest: the buffer    *)
(* holds the most recent documents without a gap.                          *)
KeepsNewest ==
    /\ IF dbReady THEN Len(buffer) < BatchSize ELSE Len(buffer) <= MaxBuffer
    /\ Buffered = count - Len(buffer) + 1 .. count

(* Nothing is ever written to a stream that has been ended (the error      *)
(* event of such a write would crash the process in its shutdown).         *)
NoLateWrite == ~late

(* A buffered document does not stay in memory while MongoDB is connected. *)
BacklogDrains ==
    \A d \in Doc : (d \in Buffered /\ dbReady) ~> (d \notin Buffered \/ logger # "on")

(* README.md:147, logger/index.js:41 - the graceful shutdown flushes the   *)
(* logs: when MongoDB was connected and refuses nothing, what stop() still *)
(* found in the buffer is stored when the process exits.                   *)
FlushedAtExit == logger = "exited" /\ dbReady => final \subseteq stored
===========================================================================
