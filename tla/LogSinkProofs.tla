-------------------------- MODULE LogSinkProofs --------------------------
(***************************************************************************)
(* Proofs about LogSink for batches and a buffer of any size and any       *)
(* number of documents. The buffer is what has been logged since the last  *)
(* flush, or its newest end; whatever left it is older.                    *)
(***************************************************************************)
EXTENDS LogSink, SequenceTheorems, TLAPS

(* buf holds the newest of the first c documents, in order, without a gap. *)
Newest(buf, c) ==
    /\ Len(buf) <= c
    /\ \A i \in 1 .. Len(buf) : buf[i] = c - Len(buf) + i

(* What has left the buffer is older than what is in it.                   *)
SentOlder(bound) == \A d \in Sent \cup stored \cup lost : d <= bound

(* No document is in two batches, or in a batch and settled.               *)
BatchesApart ==
    /\ Sent \cap (stored \cup lost) = {}
    /\ \A b1, b2 \in inflight : b1 = b2 \/ b1 \cap b2 = {}

Bounded == IF dbReady THEN Len(buffer) < BatchSize ELSE Len(buffer) <= MaxBuffer

(* MongoDB is connected to only once.                                      *)
ReadyOnce == db = "down" => ~dbReady

(* While messages go to the file, its stream has not been ended.           *)
OpenWhileLogging ==
    /\ logging \/ logger = "off" => stream # "ended"
    /\ ~late

Inv ==
    /\ TypeOK /\ Newest(buffer, count) /\ SentOlder(count - Len(buffer))
    /\ BatchesApart /\ Bounded /\ ReadyOnce /\ OpenWhileLogging

---------------------------------------------------------------------------
(* A buffer without a gap is an interval of document numbers.              *)
LEMMA BufferIsInterval ==
    ASSUME NEW buf \in Seq(Doc), NEW c \in Nat, Newest(buf, c)
    PROVE  ToSet(buf) = c - Len(buf) + 1 .. c
<1>1. Len(buf) \in Nat /\ DOMAIN buf = 1 .. Len(buf)
  BY LenProperties
<1>2. ASSUME NEW d \in ToSet(buf) PROVE d \in c - Len(buf) + 1 .. c
  <2>1. PICK i \in 1 .. Len(buf) : d = buf[i]
    BY <1>1 DEF ToSet
  <2> QED
    BY <1>1, <2>1 DEF Newest
<1>3. ASSUME NEW d \in c - Len(buf) + 1 .. c PROVE d \in ToSet(buf)
  <2>1. d - (c - Len(buf)) \in 1 .. Len(buf)
    BY <1>1, <1>3
  <2>2. buf[d - (c - Len(buf))] = d
    BY <1>1, <2>1 DEF Newest
  <2> QED
    BY <1>1, <2>1, <2>2 DEF ToSet
<1> QED
  BY <1>2, <1>3

(* One more document: appended it is the newest, and dropping the oldest   *)
(* leaves no gap.                                                          *)
LEMMA AppendNewest ==
    ASSUME NEW buf \in Seq(Doc), NEW c \in Nat, c + 1 \in Doc, Newest(buf, c)
    PROVE  /\ Append(buf, c + 1) \in Seq(Doc) /\ Newest(Append(buf, c + 1), c + 1)
           /\ Len(Append(buf, c + 1)) = Len(buf) + 1
           /\ Tail(Append(buf, c + 1)) \in Seq(Doc)
           /\ Len(Tail(Append(buf, c + 1))) = Len(buf)
           /\ Newest(Tail(Append(buf, c + 1)), c + 1)
<1> DEFINE new == Append(buf, c + 1)
<1>1. Len(buf) \in Nat
  BY LenProperties
<1>2. /\ new \in Seq(Doc) /\ Len(new) = Len(buf) + 1 /\ new # <<>>
      /\ \A i \in 1 .. Len(buf) : new[i] = buf[i]
      /\ new[Len(buf) + 1] = c + 1
  BY <1>1, AppendProperties
<1>3. Newest(new, c + 1)
  BY <1>1, <1>2 DEF Newest
<1>4. /\ Tail(new) \in Seq(Doc) /\ Len(Tail(new)) = Len(buf)
      /\ \A i \in 1 .. Len(buf) : Tail(new)[i] = new[i + 1]
  BY <1>1, <1>2, HeadTailProperties
<1>5. ASSUME NEW i \in 1 .. Len(buf) PROVE Tail(new)[i] = c + 1 - Len(buf) + i
  <2>1. i + 1 \in 1 .. Len(new) /\ Tail(new)[i] = new[i + 1]
    BY <1>1, <1>2, <1>4
  <2> QED
    BY <1>1, <1>2, <1>3, <2>1 DEF Newest
<1>6. Newest(Tail(new), c + 1)
  <2>1. Len(buf) <= c + 1 /\ c + 1 \in Nat
    BY <1>1 DEF Newest
  <2> DEFINE rest == Tail(new)
  <2>2. Len(rest) = Len(buf) /\ \A i \in 1 .. Len(buf) : rest[i] = c + 1 - Len(buf) + i
    BY <1>4, <1>5
  <2> HIDE DEF rest
  <2>3. Newest(rest, c + 1)
    BY <1>1, <2>1, <2>2 DEF Newest
  <2> QED
    BY <2>3 DEF rest
<1> QED
  BY <1>2, <1>3, <1>4, <1>6

(* A buffer goes out as one batch: it is apart from everything before it.  *)
LEMMA SendBuffer ==
    ASSUME TypeOK, BatchesApart, UNCHANGED <<stored, lost>>,
           NEW buf \in Seq(Doc), NEW c \in Nat, Newest(buf, c), SentOlder(c - Len(buf)),
           buf # <<>>, inflight' = inflight \cup {ToSet(buf)}
    PROVE  inflight' \subseteq (SUBSET Doc) \ {{}} /\ SentOlder(c)' /\ BatchesApart'
<1> DEFINE batch == ToSet(buf)
<1>1. Len(buf) \in Nat /\ batch \subseteq Doc
  BY LenProperties DEF ToSet
<1>2. batch = c - Len(buf) + 1 .. c
  BY BufferIsInterval
<1>n. batch # {}
  <2>1. Len(buf) # 0
    BY EmptySeq
  <2>2. c \in c - Len(buf) + 1 .. c
    BY <1>1, <2>1
  <2> QED
    BY <1>2, <2>2
<1>3. Sent' = Sent \cup batch
  BY DEF Sent
<1>4. \A d \in Sent \cup stored \cup lost : d <= c - Len(buf) /\ d \in Nat
  BY LogSinkAssumption DEF SentOlder, TypeOK, Sent, Doc
<1>5. batch \cap (Sent \cup stored \cup lost) = {}
  BY <1>1, <1>2, <1>4
<1>6. \A b \in inflight : batch \cap b = {}
  BY <1>5 DEF Sent
<1>7. SentOlder(c)'
  BY <1>1, <1>2, <1>3, <1>4 DEF SentOlder, store
<1>8. BatchesApart'
  BY <1>3, <1>5, <1>6 DEF BatchesApart, store
<1> QED
  BY <1>1, <1>n, <1>7, <1>8 DEF TypeOK

---------------------------------------------------------------------------
(* What a flush, or the want of one, leaves of the invariant.              *)
BufferInv ==
    /\ buffer \in Seq(Doc) /\ inflight \subseteq (SUBSET Doc) \ {{}}
    /\ Newest(buffer, count) /\ SentOlder(count - Len(buffer)) /\ BatchesApart

LEMMA EmptyNewest ==
    ASSUME NEW c \in Nat
    PROVE  /\ <<>> \in Seq(Doc) /\ Len(<<>>) = 0 /\ Newest(<<>>, c)
<1>1. <<>> \in Seq(Doc) /\ Len(<<>>) = 0
  BY EmptySeq
<1> QED
  BY <1>1 DEF Newest

LEMMA BufferUnchanged ==
    ASSUME TypeOK, BatchesApart, UNCHANGED <<inflight, stored, lost>>, buffer' \in Seq(Doc),
           NEW low \in Int, SentOlder(low), low <= count' - Len(buffer'), count' \in Nat,
           Newest(buffer', count')
    PROVE  BufferInv'
<1>1. Sent' = Sent /\ Len(buffer') \in Nat
  BY LenProperties DEF Sent
<1>2. Sent \cup stored \cup lost \subseteq Nat
  BY LogSinkAssumption DEF TypeOK, Sent, Doc
<1>3. SentOlder(count - Len(buffer))'
  BY <1>1, <1>2 DEF SentOlder, store
<1>4. inflight' \subseteq (SUBSET Doc) \ {{}} /\ BatchesApart'
  BY <1>1 DEF TypeOK, BatchesApart, store
<1>5. Newest(buffer, count)'
  BY DEF Newest
<1> QED
  BY <1>3, <1>4, <1>5 DEF BufferInv

LEMMA BufferSent ==
    ASSUME TypeOK, BatchesApart, UNCHANGED <<stored, lost>>, count' \in Nat,
           NEW buf \in Seq(Doc), Newest(buf, count'), SentOlder(count' - Len(buf)),
           buf # <<>>, inflight' = inflight \cup {ToSet(buf)}, buffer' = <<>>
    PROVE  BufferInv' /\ Len(buffer') = 0
<1>1. inflight' \subseteq (SUBSET Doc) \ {{}} /\ SentOlder(count)' /\ BatchesApart'
  BY SendBuffer DEF SentOlder
<1>2. buffer' \in Seq(Doc) /\ Len(buffer') = 0 /\ Newest(buffer', count')
  BY EmptyNewest
<1>3. Newest(buffer, count)'
  BY <1>2 DEF Newest
<1>4. SentOlder(count - Len(buffer))'
  BY <1>1, <1>2 DEF SentOlder
<1> QED
  BY <1>1, <1>2, <1>3, <1>4 DEF BufferInv

LEMMA FlushKeeps ==
    ASSUME TypeOK, BatchesApart, UNCHANGED <<stored, lost>>, count' \in Nat,
           NEW buf \in Seq(Doc), Newest(buf, count'), SentOlder(count' - Len(buf)),
           Flush(buf)
    PROVE  /\ BufferInv'
           /\ IF dbReady THEN Len(buffer') = 0 ELSE Len(buffer') = Len(buf)
<1>1. CASE dbReady /\ buf # <<>>
  BY <1>1, BufferSent DEF Flush
<1>2. CASE ~(dbReady /\ buf # <<>>)
  <2>1. inflight' = inflight /\ buffer' = buf
    BY <1>2 DEF Flush
  <2>2. Len(buf) \in Nat
    BY LenProperties
  <2>3. BufferInv'
    BY <2>1, <2>2, BufferUnchanged
  <2> QED
    BY <1>2, <2>1, <2>3, EmptyNewest
<1> QED
  BY <1>1, <1>2

---------------------------------------------------------------------------
(* The parts of the invariant apart from the buffer and the batches.       *)
TypeRest ==
    /\ logger \in {"off", "on", "ending", "exited"}
    /\ stream \in {"none", "open", "ended"}
    /\ db \in {"down", "up", "closed"}
    /\ logging \in BOOLEAN /\ late \in BOOLEAN /\ dbReady \in BOOLEAN
    /\ timer \in BOOLEAN
    /\ count \in 0 .. MaxDocs
    /\ stored \subseteq Doc /\ lost \subseteq Doc /\ final \subseteq Doc

LEMMA TypeParts == TypeOK <=> TypeRest /\ buffer \in Seq(Doc) /\ inflight \subseteq (SUBSET Doc) \ {{}}
  BY DEF TypeOK, TypeRest

LEMMA InvInit == Init => Inv
<1> SUFFICES ASSUME Init PROVE Inv
  OBVIOUS
<1>1. <<>> \in Seq(Doc) /\ Len(<<>>) = 0 /\ Newest(<<>>, 0)
  BY EmptyNewest
<1>2. TypeOK
  <2>1. TypeRest
    <3>1. count \in 0 .. MaxDocs
      BY LogSinkAssumption DEF Init
    <3> QED
      BY <3>1, Zenon DEF Init, TypeRest
  <2>2. buffer \in Seq(Doc) /\ inflight \subseteq (SUBSET Doc) \ {{}}
    BY <1>1 DEF Init
  <2> QED
    BY <2>1, <2>2, TypeParts
<1>3. Newest(buffer, count) /\ SentOlder(count - Len(buffer)) /\ BatchesApart
  BY <1>1 DEF Init, SentOlder, BatchesApart, Sent
<1> QED
  BY <1>1, <1>2, <1>3, LogSinkAssumption DEF Init, Inv, Bounded, ReadyOnce, OpenWhileLogging

LEMMA InvNext == Inv /\ [Next]_vars => Inv'
<1> SUFFICES ASSUME Inv, [Next]_vars PROVE Inv'
  OBVIOUS
<1> USE DEF Inv
<1>t. TypeOK /\ TypeRest /\ count \in Nat /\ Len(buffer) \in Nat /\ count - Len(buffer) \in Int
  BY TypeParts, LenProperties, LogSinkAssumption DEF TypeRest
<1>i. ASSUME BufferInv', TypeRest', Bounded', ReadyOnce', OpenWhileLogging' PROVE Inv'
  BY <1>i, TypeParts DEF BufferInv, TypeOK, TypeRest
<1>same. ASSUME UNCHANGED <<buffer, inflight, count, stored, lost>> PROVE BufferInv'
  BY <1>t, <1>same, BufferUnchanged DEF TypeOK
<1>flush. ASSUME Flush(buffer), UNCHANGED <<count, stored, lost>>
          PROVE BufferInv' /\ IF dbReady THEN Len(buffer') = 0 ELSE Len(buffer') = Len(buffer)
  BY <1>t, <1>flush, FlushKeeps DEF TypeOK
<1>file. ASSUME WriteToFile, UNCHANGED <<logger, logging>>
         PROVE OpenWhileLogging' /\ stream' \in {"none", "open", "ended"} /\ late' \in BOOLEAN
  BY <1>t, <1>file DEF WriteToFile, OpenWhileLogging, TypeRest
<1>1. CASE Start
  BY <1>1, <1>t, <1>i, <1>same DEF Start, TypeRest, Bounded, ReadyOnce, OpenWhileLogging, store
<1>2. CASE LogToDb
  <2>1. count' = count + 1 /\ count + 1 \in Doc /\ UNCHANGED <<stored, lost, final>>
    BY <1>2, <1>t, LogSinkAssumption DEF LogToDb, Doc, store
  <2> DEFINE buf == Append(buffer, count + 1)
  <2>2. /\ buf \in Seq(Doc) /\ Newest(buf, count + 1) /\ Len(buf) = Len(buffer) + 1
        /\ Tail(buf) \in Seq(Doc) /\ Len(Tail(buf)) = Len(buffer)
        /\ Newest(Tail(buf), count + 1)
    BY <1>t, <2>1, AppendNewest DEF TypeOK
  <2>3. BufferInv' /\ Bounded'
    <3>0. UNCHANGED dbReady /\ UNCHANGED <<stored, lost>> /\ Push(count + 1)
      BY <1>2 DEF LogToDb, store
    <3>s. SentOlder(count + 1 - Len(buf))
      BY <1>t, <2>2 DEF SentOlder
    <3>1. CASE dbReady /\ Len(buf) >= BatchSize
      <4>1. Flush(buf)
        BY <3>0, <3>1 DEF Push
      <4>2. BufferInv' /\ Len(buffer') = 0
        <5>1. /\ count' \in Nat /\ Newest(buf, count') /\ SentOlder(count' - Len(buf))
              /\ UNCHANGED <<stored, lost>> /\ buf \in Seq(Doc)
          BY <1>t, <2>1, <2>2, <3>0, <3>s
        <5> HIDE DEF buf
        <5> QED
          BY <1>t, <3>1, <4>1, <5>1, FlushKeeps
      <4> QED
        BY <3>0, <3>1, <4>2, LogSinkAssumption DEF Bounded
    <3>2. CASE dbReady /\ ~(Len(buf) >= BatchSize)
      <4>1. inflight' = inflight /\ buffer' = buf
        BY <3>0, <3>2 DEF Push
      <4>2. BufferInv'
        BY <1>t, <2>1, <2>2, <3>0, <4>1, BufferUnchanged
      <4> QED
        BY <1>t, <2>2, <3>0, <3>2, <4>1, <4>2, LogSinkAssumption DEF Bounded
    <3>3. CASE ~dbReady
      <4>1. inflight' = inflight /\ buffer' = IF Len(buf) > MaxBuffer THEN Tail(buf) ELSE buf
        BY <3>0, <3>3 DEF Push
      <4>2. buffer' \in Seq(Doc) /\ Newest(buffer', count') /\ Len(buffer') \in {Len(buffer), Len(buffer) + 1}
        BY <2>1, <2>2, <4>1
      <4>3. BufferInv'
        BY <1>t, <2>1, <3>0, <4>1, <4>2, BufferUnchanged
      <4> QED
        BY <1>t, <2>2, <3>0, <3>3, <4>1, <4>3, LogSinkAssumption DEF Bounded
    <3> QED
      BY <3>1, <3>2, <3>3
  <2>4. TypeRest' /\ ReadyOnce' /\ OpenWhileLogging'
    BY <1>2, <1>t, <1>file, <2>1, LogSinkAssumption DEF LogToDb, TypeRest, ReadyOnce, Doc
  <2> QED
    BY <1>i, <2>3, <2>4
<1>3. CASE LogToFile
  BY <1>3, <1>t, <1>i, <1>same, <1>file DEF LogToFile, TypeRest, Bounded, ReadyOnce, store
<1>4. CASE ConnectToDb
  <2>1. BufferInv' /\ Len(buffer') = 0
    <3>1. UNCHANGED <<count, stored, lost>>
      BY <1>4 DEF ConnectToDb, store
    <3>2. CASE buffer = <<>>
      <4>1. UNCHANGED <<buffer, inflight>>
        BY <1>4, <3>2 DEF ConnectToDb
      <4> QED
        BY <3>1, <3>2, <4>1, <1>same, EmptyNewest
    <3>3. CASE buffer # <<>>
      BY <1>4, <1>t, <3>1, <3>3, BufferSent DEF ConnectToDb, TypeOK
    <3> QED
      BY <3>2, <3>3
  <2> QED
    BY <1>4, <1>t, <1>i, <2>1, LogSinkAssumption
       DEF ConnectToDb, TypeRest, Bounded, ReadyOnce, OpenWhileLogging, files, store
<1>5. CASE TimerFlush
  BY <1>5, <1>t, <1>i, <1>flush, LogSinkAssumption
     DEF TimerFlush, TypeRest, Bounded, ReadyOnce, OpenWhileLogging, files, store
<1>6. CASE \E batch \in inflight : InsertSettles(batch)
  <2>1. PICK batch \in inflight : InsertSettles(batch)
    BY <1>6
  <2>2. /\ inflight' = inflight \ {batch} /\ UNCHANGED <<buffer, count>>
        /\ stored' \cup lost' = stored \cup lost \cup batch
        /\ stored' \subseteq stored \cup batch /\ lost' \subseteq lost \cup batch
    <3>1. PICK part \in SUBSET batch : stored' = stored \cup part /\ lost' = lost \cup (batch \ part)
      BY <2>1 DEF InsertSettles
    <3> QED
      BY <2>1, <3>1 DEF InsertSettles
  <2>3. batch \subseteq Sent /\ batch \subseteq Doc /\ \A b \in inflight' : b \cap batch = {}
    BY <2>2, <1>t DEF Sent, TypeOK, BatchesApart
  <2>4. Sent' \subseteq Sent /\ Sent' \cap batch = {}
    BY <2>2, <2>3 DEF Sent
  <2>5. BatchesApart'
    BY <2>2, <2>4 DEF BatchesApart
  <2>6. SentOlder(count - Len(buffer))'
    BY <2>2, <2>3, <2>4 DEF SentOlder
  <2>7. BufferInv'
    BY <1>t, <2>2, <2>5, <2>6 DEF BufferInv, TypeOK, Newest
  <2> QED
    BY <2>1, <2>2, <2>3, <2>7, <1>t, <1>i
       DEF InsertSettles, TypeRest, Bounded, ReadyOnce, OpenWhileLogging, files
<1>7. CASE DbStops
  BY <1>7, <1>t, <1>i, <1>same DEF DbStops, TypeRest, Bounded, ReadyOnce, OpenWhileLogging, files, store
<1>8. CASE Stop
  <2>1. BufferInv' /\ Bounded'
    BY <1>8, <1>t, <1>flush, LogSinkAssumption DEF Stop, Bounded
  <2>2. logger' \in {"ending", "exited"} /\ stream' \in {"none", "ended"}
    BY <1>8, <1>t DEF Stop, TypeRest
  <2>f. final' \subseteq Doc
    <3>1. buffer \in Seq(Doc)
      BY <1>t DEF TypeOK
    <3> QED
      BY <1>8, <3>1, LenProperties DEF Stop, Buffered, ToSet
  <2>3. TypeRest' /\ ReadyOnce' /\ OpenWhileLogging'
    BY <1>8, <1>t, <2>2, <2>f DEF Stop, TypeRest, ReadyOnce, OpenWhileLogging
  <2> QED
    BY <1>i, <2>1, <2>3
<1>9. CASE StreamEnds
  BY <1>9, <1>t, <1>i, <1>same
     DEF StreamEnds, TypeRest, Bounded, ReadyOnce, OpenWhileLogging, store
<1>11. CASE UNCHANGED vars
  BY <1>11, <1>t, <1>i, <1>same
     DEF vars, TypeRest, Bounded, ReadyOnce, OpenWhileLogging, files, store
<1> QED
  BY <1>1, <1>2, <1>3, <1>4, <1>5, <1>6, <1>7, <1>8, <1>9, <1>11 DEF Next

LEMMA InvHolds == Spec => []Inv
  BY InvInit, InvNext, PTL DEF Spec

---------------------------------------------------------------------------
(* The variables keep their types.                                         *)
THEOREM SinkTypeCorrect == Spec => []TypeOK
<1>1. Inv => TypeOK
  BY DEF Inv
<1> QED
  BY <1>1, InvHolds, PTL

(* No document is on its way twice, or still to be written when it is      *)
(* stored or given up, however the timer, a full batch, connectToDb and    *)
(* stop() race to #flush.                                                  *)
THEOREM NothingTwice == Spec => []NoDocTwice
<1>1. ASSUME Inv PROVE NoDocTwice
  <2>1. Len(buffer) \in Nat /\ count \in Nat /\ buffer \in Seq(Doc)
    BY <1>1, LenProperties DEF Inv, TypeOK
  <2>2. Buffered = count - Len(buffer) + 1 .. count
    BY <1>1, <2>1, BufferIsInterval DEF Inv, Buffered
  <2>3. Sent \cup stored \cup lost \subseteq Nat
    BY <1>1, LogSinkAssumption DEF Inv, TypeOK, Sent, Doc
  <2>4. \A d \in Sent \cup stored \cup lost : d \notin Buffered
    BY <1>1, <2>1, <2>2, <2>3 DEF Inv, SentOlder
  <2> QED
    BY <1>1, <2>4 DEF Inv, NoDocTwice, BatchesApart
<1> QED
  BY <1>1, InvHolds, PTL

(* #buffer never outgrows #maxBufferSize before MongoDB is connected, nor  *)
(* one batch afterwards, and holds the newest documents without a gap.     *)
THEOREM NewestKept == Spec => []KeepsNewest
<1>1. ASSUME Inv PROVE KeepsNewest
  <2>1. Buffered = count - Len(buffer) + 1 .. count
    BY <1>1, BufferIsInterval DEF Inv, TypeOK, Buffered
  <2> QED
    BY <1>1, <2>1 DEF Inv, Bounded, KeepsNewest
<1> QED
  BY <1>1, InvHolds, PTL

(* log() never writes to the stream after stop() has called its end().     *)
THEOREM NoWriteAfterEnd == Spec => []NoLateWrite
<1>1. Inv => NoLateWrite
  BY DEF Inv, OpenWhileLogging, NoLateWrite
<1> QED
  BY <1>1, InvHolds, PTL
===========================================================================
