-------------------------- MODULE LogFilesProofs --------------------------
(***************************************************************************)
(* Proofs about LogFiles for any number of processes, days, lines and      *)
(* crashes, and any save_logs from two days on.                            *)
(***************************************************************************)
EXTENDS LogFiles, TLAPS

(* Nothing lies in the future, and only yesterday's work is unfinished.    *)
Recent ==
    /\ \A p \in Process : missing[p] # None => missing[p] \in {day - 1, day}
    /\ \A p \in Process, d \in Day : pending[p][d] # {} => d \in {day - 1, day}
    /\ \A p \in Process : sweep[p] <= day

(* A file that is there, a stream or a line that was logged for a day: the *)
(* file of the day has been created, on that day or later.                 *)
Touched ==
    \A d \in Day :
        /\ mtime[d] = 0 \/ d <= mtime[d]
        /\ mtime[d] = 0 => /\ d \notin files /\ logged[d] = {}
                           /\ \A p \in Process : stream[p] # d

(* A line in memory has been logged.                                       *)
PendingLogged == \A p \in Process, d \in Day : pending[p][d] \subseteq logged[d]

(* No line logged for d is missing.                                        *)
Complete(d) ==
    \A l \in logged[d] : l \in lines[d] \/ \E p \in Process : l \in pending[p][d]

(* WholeDay, with a file that is old only if it was there once.            *)
CompleteOrOld ==
    \A d \in Day \ spoiled : Complete(d) \/ (mtime[d] # 0 /\ day - mtime[d] >= Keep)

Inv == TypeOK /\ Recent /\ Touched /\ PendingLogged /\ CompleteOrOld

---------------------------------------------------------------------------
(* The parts of TypeOK by variable.                                        *)
DiskType ==
    /\ files \subseteq Day /\ spoiled \subseteq Day
    /\ lines \in [Day -> SUBSET Line] /\ logged \in [Day -> SUBSET Line]
    /\ \A d \in Day : lines[d] \subseteq logged[d] /\ (d \notin files => lines[d] = {})
    /\ mtime \in [Day -> 0 .. Days]

ProcessesType ==
    /\ state \in [Process -> {"down", "loaded", "on", "ending"}]
    /\ missing \in [Process -> Day \cup {None}]
    /\ stream \in [Process -> Day \cup {None}]
    /\ sweep \in [Process -> Day \cup {None}]
    /\ pending \in [Process -> [Day -> SUBSET Line]]

LEMMA TypeParts ==
    TypeOK <=> day \in Day /\ crashes \in 0 .. Crashes /\ DiskType /\ ProcessesType
  BY DEF TypeOK, DiskType, ProcessesType

LEMMA DayFacts ==
    ASSUME day \in Day
    PROVE  /\ Day \subseteq Nat /\ None \notin Day /\ None = 0
           /\ Days \in Nat /\ day \in 0 .. Days /\ Keep \in Nat /\ Keep >= 2
  BY LogFilesAssumption DEF Day, None

(* A file whose stream still has lines, or that is about to be created, is *)
(* not old: save_logs is two days at least.                                *)
LEMMA RecentNotOld ==
    ASSUME TypeOK, Touched, NEW d \in Day, d \in {day - 1, day}
    PROVE  ~(mtime[d] # 0 /\ day - mtime[d] >= Keep)
<1>1. mtime[d] \in Nat /\ d \in Nat /\ day \in Nat /\ Keep \in Nat /\ Keep >= 2
  BY TypeParts, DayFacts DEF DiskType
<1> QED
  BY <1>1 DEF Touched

(* A file that is swept is old today.                                      *)
LEMMA SweptIsOld ==
    ASSUME TypeOK, Recent, Touched, NEW p \in Process, NEW d \in Old(p)
    PROVE  d \in Day /\ mtime[d] # 0 /\ day - mtime[d] >= Keep
<1>1. d \in Day /\ d \in files /\ sweep[p] - mtime[d] >= Keep
  BY TypeParts DEF Old, DiskType
<1>2. mtime[d] \in Int /\ sweep[p] \in Int /\ day \in Int /\ Keep \in Int /\ sweep[p] <= day
  BY <1>1, TypeParts, DayFacts DEF DiskType, ProcessesType, Recent
<1>3. mtime[d] # 0
  BY <1>1 DEF Touched
<1> QED
  BY <1>1, <1>2, <1>3

(* What a stream takes, or gives away, of the lines in memory.             *)
LEMMA PendingExcept ==
    ASSUME ProcessesType, NEW p \in Process, NEW d \in Day, NEW new \in SUBSET Line,
           pending' = [pending EXCEPT ![p][d] = new]
    PROVE  /\ pending' \in [Process -> [Day -> SUBSET Line]]
           /\ pending'[p][d] = new
           /\ \A q \in Process, e \in Day : q # p \/ e # d => pending'[q][e] = pending[q][e]
  BY DEF ProcessesType

---------------------------------------------------------------------------
LEMMA InvInit == Init => Inv
<1> SUFFICES ASSUME Init PROVE Inv
  OBVIOUS
<1>1. day \in Day
  BY LogFilesAssumption DEF Init, Day
<1>2. TypeOK
  <2>1. DiskType
    BY <1>1, DayFacts DEF Init, DiskType
  <2>2. ProcessesType
    BY DEF Init, ProcessesType
  <2> QED
    BY <1>1, <2>1, <2>2, TypeParts, LogFilesAssumption DEF Init
<1>3. Recent
  BY <1>1, DayFacts DEF Init, Recent
<1>4. Touched /\ PendingLogged /\ CompleteOrOld
  BY <1>1, DayFacts DEF Init, Touched, PendingLogged, CompleteOrOld, Complete
<1> QED
  BY <1>2, <1>3, <1>4 DEF Inv

---------------------------------------------------------------------------
(* A line handed to a stream of day d is in memory and logged, and nothing *)
(* else changes.                                                           *)
LEMMA WriteFacts ==
    ASSUME DiskType, ProcessesType, NEW p \in Process, NEW d \in Day, WriteTo(p, d)
    PROVE  /\ pending' \in [Process -> [Day -> SUBSET Line]]
           /\ logged' \in [Day -> SUBSET Line]
           /\ stream' \in [Process -> Day \cup {None}]
           /\ \A q \in Process : stream'[q] = stream[q] \/ stream'[q] = d
           /\ \A q \in Process, e \in Day : pending[q][e] \subseteq pending'[q][e]
           /\ \A q \in Process, e \in Day : e # d => pending'[q][e] = pending[q][e]
           /\ \A e \in Day : logged[e] \subseteq logged'[e]
           /\ \A e \in Day : e # d => logged'[e] = logged[e]
           /\ \A q \in Process : pending'[q][d] \subseteq pending[q][d] \cup (logged'[d] \cap pending'[p][d])
           /\ \A l \in logged'[d] : l \in logged[d] \/ l \in pending'[p][d]
<1> DEFINE new == pending[p][d] \cup {NewLine}
<1>1. NewLine \in Line
  BY DEF WriteTo
<1>2. new \in SUBSET Line
  BY <1>1 DEF ProcessesType
<1>3. pending' = [pending EXCEPT ![p][d] = new]
  BY DEF WriteTo
<1> HIDE DEF new
<1>4. /\ pending' \in [Process -> [Day -> SUBSET Line]] /\ pending'[p][d] = new
      /\ \A q \in Process, e \in Day : q # p \/ e # d => pending'[q][e] = pending[q][e]
  BY <1>2, <1>3, PendingExcept
<1>5. /\ logged' \in [Day -> SUBSET Line] /\ logged'[d] = logged[d] \cup {NewLine}
      /\ \A e \in Day : e # d => logged'[e] = logged[e]
  BY <1>1 DEF WriteTo, DiskType
<1>6. stream' \in [Process -> Day \cup {None}] /\ \A q \in Process : stream'[q] = stream[q] \/ stream'[q] = d
  BY DEF WriteTo, ProcessesType
<1>7. NewLine \in new /\ new \subseteq pending[p][d] \cup {NewLine} /\ pending[p][d] \subseteq new
  BY DEF new
<1> QED
  BY <1>4, <1>5, <1>6, <1>7

(* It keeps the invariant when the file of the day has been there and has  *)
(* lost nothing; the file may have been created, empty, in the same step.  *)
LEMMA WriteKeeps ==
    ASSUME Inv, NEW p \in Process, NEW d \in Day, d \in {day - 1, day}, WriteTo(p, d),
           UNCHANGED <<day, lines, state, sweep, crashes>>,
           files' \in {files, files \cup {d}}, spoiled' = spoiled,
           mtime' \in [Day -> 0 .. Days], \A e \in Day : e # d => mtime'[e] = mtime[e],
           mtime'[d] # 0, d <= mtime'[d],
           missing' \in [Process -> Day \cup {None}],
           \A q \in Process : missing'[q] \in {None, missing[q]}
    PROVE  Inv'
<1>1. day \in Day /\ crashes \in 0 .. Crashes /\ DiskType /\ ProcessesType
  BY TypeParts DEF Inv
<1>2. /\ pending' \in [Process -> [Day -> SUBSET Line]]
      /\ logged' \in [Day -> SUBSET Line]
      /\ stream' \in [Process -> Day \cup {None}]
      /\ \A q \in Process : stream'[q] = stream[q] \/ stream'[q] = d
      /\ \A q \in Process, e \in Day : pending[q][e] \subseteq pending'[q][e]
      /\ \A q \in Process, e \in Day : e # d => pending'[q][e] = pending[q][e]
      /\ \A e \in Day : logged[e] \subseteq logged'[e]
      /\ \A e \in Day : e # d => logged'[e] = logged[e]
      /\ \A q \in Process : pending'[q][d] \subseteq pending[q][d] \cup (logged'[d] \cap pending'[p][d])
      /\ \A l \in logged'[d] : l \in logged[d] \/ l \in pending'[p][d]
  BY <1>1, WriteFacts
<1>3. TypeOK'
  <2>1. DiskType'
    BY <1>1, <1>2 DEF DiskType
  <2>2. ProcessesType'
    BY <1>1, <1>2 DEF ProcessesType
  <2> QED
    BY <1>1, <2>1, <2>2 DEF TypeOK, DiskType, ProcessesType
<1>4. Recent'
  <2>1. \A q \in Process : missing'[q] # None => missing'[q] \in {day' - 1, day'}
    BY DEF Inv, Recent
  <2>2. \A q \in Process, e \in Day : pending'[q][e] # {} => e \in {day' - 1, day'}
    BY <1>2 DEF Inv, Recent
  <2>3. \A q \in Process : sweep'[q] <= day'
    BY DEF Inv, Recent
  <2> QED
    BY <2>1, <2>2, <2>3 DEF Recent
<1>5. Touched'
  <2> SUFFICES ASSUME NEW e \in Day
               PROVE  /\ mtime'[e] = 0 \/ e <= mtime'[e]
                      /\ mtime'[e] = 0 => /\ e \notin files' /\ logged'[e] = {}
                                          /\ \A q \in Process : stream'[q] # e
    BY DEF Touched
  <2>1. CASE e = d
    BY <2>1
  <2>2. CASE e # d
    <3>1. mtime'[e] = mtime[e] /\ (e \in files' => e \in files) /\ logged'[e] = logged[e]
      BY <1>2, <2>2
    <3>2. \A q \in Process : stream'[q] = e => stream[q] = e
      BY <1>2, <2>2
    <3>3. /\ mtime[e] = 0 \/ e <= mtime[e]
          /\ mtime[e] = 0 => /\ e \notin files /\ logged[e] = {}
                             /\ \A q \in Process : stream[q] # e
      BY DEF Inv, Touched
    <3> QED
      BY <3>1, <3>2, <3>3
  <2> QED
    BY <2>1, <2>2
<1>6. PendingLogged'
  BY <1>2 DEF Inv, PendingLogged
<1>7. CompleteOrOld'
  <2>1. Complete(d)' \/ d \in spoiled
    <3>1. Complete(d) \/ d \in spoiled
      BY RecentNotOld DEF Inv, CompleteOrOld
    <3> QED
      BY <1>2, <3>1 DEF Complete
  <2>2. \A e \in Day : e # d /\ Complete(e) => Complete(e)'
    BY <1>2 DEF Complete
  <2> QED
    BY <2>1, <2>2 DEF Inv, CompleteOrOld
<1> QED
  BY <1>3, <1>4, <1>5, <1>6, <1>7 DEF Inv

(* Steps that leave the disk and the lines in memory alone.                *)
LEMMA QuietKeeps ==
    ASSUME Inv, UNCHANGED <<disk, pending, logged, spoiled, crashes>>, day' = day,
           ProcessesType',
           \A p \in Process : missing'[p] \in {None, missing[p], day},
           \A p \in Process : sweep'[p] \in {None, sweep[p], day},
           \A p \in Process : stream'[p] \in {None, stream[p]}
    PROVE  Inv'
<1>1. day \in Day /\ crashes \in 0 .. Crashes /\ DiskType /\ None \notin Day /\ None = 0
      /\ day \in Nat
  BY TypeParts, DayFacts DEF Inv
<1>2. TypeOK'
  BY <1>1 DEF TypeOK, DiskType, ProcessesType, disk
<1>3. Recent'
  <2>1. \A p \in Process : missing'[p] # None => missing'[p] \in {day' - 1, day'}
    BY DEF Inv, Recent
  <2>2. \A p \in Process : sweep'[p] <= day'
    BY <1>1 DEF Inv, Recent
  <2> QED
    BY <2>1, <2>2 DEF Inv, Recent
<1>4. Touched' /\ PendingLogged' /\ CompleteOrOld'
  BY <1>1 DEF Inv, Touched, PendingLogged, CompleteOrOld, Complete, disk
<1> QED
  BY <1>2, <1>3, <1>4 DEF Inv

LEMMA LoadKeeps == ASSUME Inv, NEW p \in Process, Load(p) PROVE Inv'
<1>1. day \in Day /\ ProcessesType
  BY TypeParts DEF Inv
<1>2. ProcessesType' /\ \A q \in Process : missing'[q] \in {None, missing[q], day}
  BY <1>1 DEF Load, ProcessesType
<1> QED
  BY <1>2, QuietKeeps DEF Load

LEMMA StartKeeps == ASSUME Inv, NEW p \in Process, Start(p) PROVE Inv'
<1>1. day \in Day /\ ProcessesType
  BY TypeParts DEF Inv
<1>2. ProcessesType' /\ \A q \in Process : sweep'[q] \in {None, sweep[q], day}
  BY <1>1 DEF Start, ProcessesType
<1> QED
  BY <1>2, QuietKeeps DEF Start

LEMMA StopKeeps == ASSUME Inv, NEW p \in Process, Stop(p) PROVE Inv'
<1>1. ProcessesType'
  BY TypeParts DEF Inv, Stop, ProcessesType
<1> QED
  BY <1>1, QuietKeeps DEF Stop

LEMMA LogKeeps == ASSUME Inv, NEW p \in Process, Log(p) PROVE Inv'
<1>1. day \in Day /\ DiskType /\ ProcessesType
  BY TypeParts DEF Inv
<1>2. CASE stream[p] = day \/ day \in files
  <2>1. WriteTo(p, day) /\ UNCHANGED <<missing, day, disk, state, sweep, crashes, spoiled>>
    BY <1>2 DEF Log
  <2>2. mtime[day] # 0 /\ day <= mtime[day]
    BY <1>1, <1>2 DEF Inv, Touched
  <2> QED
    BY <1>1, <2>1, <2>2, WriteKeeps DEF DiskType, ProcessesType, disk
<1>3. CASE ~(stream[p] = day \/ day \in files)
  <2>1. /\ missing' = [missing EXCEPT ![p] = day] /\ stream' = [stream EXCEPT ![p] = None]
        /\ UNCHANGED <<pending, logged, day, disk, state, sweep, crashes, spoiled>>
    BY <1>3 DEF Log
  <2>2. /\ ProcessesType' /\ \A q \in Process : missing'[q] \in {None, missing[q], day}
        /\ \A q \in Process : stream'[q] \in {None, stream[q]}
    BY <1>1, <2>1 DEF ProcessesType
  <2> QED
    BY <2>1, <2>2, QuietKeeps
<1> QED
  BY <1>2, <1>3

LEMMA CreateKeeps == ASSUME Inv, NEW p \in Process, Create(p) PROVE Inv'
<1> DEFINE d == missing[p]
<1>1. day \in Day /\ crashes \in 0 .. Crashes /\ DiskType /\ ProcessesType
  BY TypeParts DEF Inv
<1>2. d \in Day /\ d \in {day - 1, day}
  BY <1>1 DEF Create, ProcessesType, Inv, Recent
<1>3. /\ missing' = [missing EXCEPT ![p] = None] /\ UNCHANGED <<day, state, sweep, crashes>>
      /\ missing' \in [Process -> Day \cup {None}]
      /\ \A q \in Process : missing'[q] \in {None, missing[q]}
  BY <1>1 DEF Create, ProcessesType
<1>4. CASE UNCHANGED <<disk, spoiled, pending, logged, stream>>
  <2>1. ProcessesType'
    BY <1>1, <1>3, <1>4 DEF ProcessesType
  <2> QED
    BY <1>3, <1>4, <2>1, QuietKeeps
<1>5. ASSUME files' = files \cup {d}, lines' = [lines EXCEPT ![d] = {}],
             mtime' = [mtime EXCEPT ![d] = day],
             spoiled' = IF d \in files THEN spoiled \cup {d} ELSE spoiled,
             IF state[p] = "on" THEN WriteTo(p, d) ELSE UNCHANGED <<pending, logged, stream>>
      PROVE  Inv'
  <2>1. /\ mtime' \in [Day -> 0 .. Days] /\ mtime'[d] = day /\ day # 0 /\ d <= day
        /\ \A e \in Day : e # d => mtime'[e] = mtime[e]
    BY <1>1, <1>2, <1>5, DayFacts DEF DiskType
  <2>2. /\ lines' \in [Day -> SUBSET Line] /\ lines'[d] = {}
        /\ \A e \in Day : e # d => lines'[e] = lines[e]
    BY <1>1, <1>2, <1>5 DEF DiskType
  <2>3. CASE d \in files
    <3>1. /\ pending' \in [Process -> [Day -> SUBSET Line]]
          /\ logged' \in [Day -> SUBSET Line]
          /\ stream' \in [Process -> Day \cup {None}]
          /\ \A q \in Process : stream'[q] = stream[q] \/ stream'[q] = d
          /\ \A q \in Process, e \in Day : e # d => pending'[q][e] = pending[q][e]
          /\ \A e \in Day : e # d => logged'[e] = logged[e]
          /\ \A q \in Process : pending'[q][d] \subseteq pending[q][d] \cup logged'[d]
          /\ logged[d] \subseteq logged'[d]
      <4>1. CASE state[p] = "on"
        BY <1>1, <1>2, <1>5, <4>1, WriteFacts
      <4>2. CASE state[p] # "on"
        BY <1>1, <1>2, <1>5, <4>2 DEF DiskType, ProcessesType
      <4> QED
        BY <4>1, <4>2
    <3>2. TypeOK'
      <4>1. DiskType'
        BY <1>1, <1>2, <1>5, <2>1, <2>2, <2>3, <3>1 DEF DiskType
      <4>2. ProcessesType'
        BY <1>1, <1>3, <3>1 DEF ProcessesType
      <4> QED
        BY <1>1, <1>3, <4>1, <4>2 DEF TypeOK, DiskType, ProcessesType
    <3>3. Recent'
      BY <1>2, <1>3, <3>1 DEF Inv, Recent
    <3>4. Touched'
      <4> SUFFICES ASSUME NEW e \in Day
                   PROVE  /\ mtime'[e] = 0 \/ e <= mtime'[e]
                          /\ mtime'[e] = 0 => /\ e \notin files' /\ logged'[e] = {}
                                              /\ \A q \in Process : stream'[q] # e
        BY DEF Touched
      <4>1. CASE e = d
        BY <2>1, <4>1
      <4>2. CASE e # d
        BY <1>5, <2>1, <3>1, <4>2 DEF Inv, Touched
      <4> QED
        BY <4>1, <4>2
    <3>5. PendingLogged'
      BY <3>1 DEF Inv, PendingLogged
    <3>6. \A e \in Day : e # d /\ Complete(e) => Complete(e)'
      BY <2>2, <3>1 DEF Complete
    <3>7. CompleteOrOld'
      BY <1>3, <1>5, <2>1, <2>3, <3>6 DEF Inv, CompleteOrOld
    <3> QED
      BY <3>2, <3>3, <3>4, <3>5, <3>7 DEF Inv
  <2>4. CASE d \notin files
    <3>1. lines[d] = {} /\ lines' = lines /\ spoiled' = spoiled
      BY <1>1, <1>2, <1>5, <2>2, <2>4 DEF DiskType
    <3>2. CASE state[p] = "on"
      BY <1>1, <1>2, <1>3, <1>5, <2>1, <3>1, <3>2, WriteKeeps
    <3>3. CASE state[p] # "on"
      <4>1. UNCHANGED <<pending, logged, stream>>
        BY <1>5, <3>3
      <4>2. TypeOK'
        <5>1. DiskType'
          BY <1>1, <1>2, <1>5, <2>1, <3>1, <4>1 DEF DiskType
        <5>2. ProcessesType'
          BY <1>1, <1>3, <4>1 DEF ProcessesType
        <5> QED
          BY <1>1, <1>3, <5>1, <5>2 DEF TypeOK, DiskType, ProcessesType
      <4>3. Recent' /\ PendingLogged'
        BY <1>3, <4>1 DEF Inv, Recent, PendingLogged
      <4>4. Touched'
        BY <1>5, <2>1, <4>1 DEF Inv, Touched
      <4>5. Complete(d) \/ d \in spoiled
        BY <1>2, RecentNotOld DEF Inv, CompleteOrOld
      <4>6. \A e \in Day : Complete(e) => Complete(e)'
        BY <3>1, <4>1 DEF Complete
      <4>7. CompleteOrOld'
        BY <1>3, <2>1, <3>1, <4>5, <4>6 DEF Inv, CompleteOrOld
      <4> QED
        BY <4>2, <4>3, <4>4, <4>7 DEF Inv
    <3> QED
      BY <3>2, <3>3
  <2> QED
    BY <2>3, <2>4
<1> QED
  BY <1>4, <1>5 DEF Create

LEMMA AppendKeeps == ASSUME Inv, NEW p \in Process, NEW d \in Day, Append(p, d) PROVE Inv'
<1>1. day \in Day /\ crashes \in 0 .. Crashes /\ DiskType /\ ProcessesType
  BY TypeParts DEF Inv
<1>2. PICK l \in pending[p][d] :
         lines' = [lines EXCEPT ![d] = @ \cup {l}] /\ pending' = [pending EXCEPT ![p][d] = @ \ {l}]
  BY DEF Append
<1>3. /\ files' = files \cup {d} /\ mtime' = [mtime EXCEPT ![d] = day]
      /\ UNCHANGED <<day, state, missing, stream, sweep, logged, crashes, spoiled>>
  BY DEF Append
<1>4. d \in {day - 1, day} /\ l \in Line /\ l \in logged[d]
  BY <1>1, <1>2 DEF Inv, Recent, PendingLogged, ProcessesType
<1> DEFINE rest == pending[p][d] \ {l}
<1>5. /\ pending' \in [Process -> [Day -> SUBSET Line]] /\ pending'[p][d] = rest
      /\ \A q \in Process, e \in Day : q # p \/ e # d => pending'[q][e] = pending[q][e]
  <2>1. rest \in SUBSET Line /\ pending' = [pending EXCEPT ![p][d] = rest]
    BY <1>1, <1>2 DEF ProcessesType
  <2> HIDE DEF rest
  <2> QED
    BY <1>1, <2>1, PendingExcept
<1>6. /\ lines' \in [Day -> SUBSET Line] /\ lines'[d] = lines[d] \cup {l}
      /\ \A e \in Day : e # d => lines'[e] = lines[e]
  BY <1>1, <1>2, <1>4 DEF DiskType
<1>7. /\ mtime' \in [Day -> 0 .. Days] /\ mtime'[d] = day /\ day # 0 /\ d <= day
      /\ \A e \in Day : e # d => mtime'[e] = mtime[e]
  BY <1>1, <1>3, <1>4, DayFacts DEF DiskType
<1>8. TypeOK'
  <2>1. DiskType'
    BY <1>1, <1>3, <1>4, <1>6, <1>7 DEF DiskType
  <2>2. ProcessesType'
    BY <1>1, <1>3, <1>5 DEF ProcessesType
  <2> QED
    BY <1>1, <1>3, <2>1, <2>2 DEF TypeOK, DiskType, ProcessesType
<1>9. \A q \in Process, e \in Day : pending'[q][e] \subseteq pending[q][e]
  BY <1>5
<1>10. Recent' /\ PendingLogged'
  BY <1>3, <1>9 DEF Inv, Recent, PendingLogged
<1>11. Touched'
  BY <1>3, <1>7 DEF Inv, Touched
<1>12. \A e \in Day : Complete(e) => Complete(e)'
  BY <1>3, <1>5, <1>6 DEF Complete
<1>13. Complete(d) \/ d \in spoiled
  BY <1>4, RecentNotOld DEF Inv, CompleteOrOld
<1>14. CompleteOrOld'
  BY <1>3, <1>7, <1>12, <1>13 DEF Inv, CompleteOrOld
<1> QED
  BY <1>8, <1>10, <1>11, <1>14 DEF Inv

LEMMA CleanKeeps == ASSUME Inv, NEW p \in Process, Clean(p) PROVE Inv'
<1>1. day \in Day /\ crashes \in 0 .. Crashes /\ DiskType /\ ProcessesType
  BY TypeParts DEF Inv
<1>2. PICK gone \in SUBSET Old(p) :
         /\ files' = files \ gone
         /\ lines' = [d \in Day |-> IF d \in gone THEN {} ELSE lines[d]]
  BY DEF Clean
<1>3. /\ sweep' = [sweep EXCEPT ![p] = None]
      /\ UNCHANGED <<day, mtime, state, missing, stream, pending, logged, crashes, spoiled>>
  BY DEF Clean
<1>4. \A d \in gone : mtime[d] # 0 /\ day - mtime[d] >= Keep
  BY <1>2, SweptIsOld DEF Inv
<1>5. TypeOK'
  <2>1. DiskType'
    BY <1>1, <1>2, <1>3 DEF DiskType
  <2>2. ProcessesType'
    BY <1>1, <1>3 DEF ProcessesType
  <2> QED
    BY <1>1, <1>3, <2>1, <2>2 DEF TypeOK, DiskType, ProcessesType
<1>6. Recent'
  BY <1>1, <1>3, DayFacts DEF Inv, Recent, ProcessesType
<1>7. Touched' /\ PendingLogged'
  BY <1>2, <1>3 DEF Inv, Touched, PendingLogged
<1>8. \A e \in Day : e \notin gone /\ Complete(e) => Complete(e)'
  BY <1>2, <1>3 DEF Complete
<1>9. CompleteOrOld'
  BY <1>3, <1>4, <1>8 DEF Inv, CompleteOrOld
<1> QED
  BY <1>5, <1>6, <1>7, <1>9 DEF Inv

(* A process that is gone takes the lines it has in memory with it.        *)
LEMMA GoneKeeps ==
    ASSUME Inv, NEW p \in Process, Gone(p), crashes' \in 0 .. Crashes,
           spoiled' \subseteq Day, spoiled \subseteq spoiled',
           \A d \in Day : pending[p][d] # {} => d \in spoiled'
    PROVE  Inv'
<1>1. day \in Day /\ DiskType /\ ProcessesType
  BY TypeParts DEF Inv
<1>2. /\ pending' \in [Process -> [Day -> SUBSET Line]]
      /\ \A d \in Day : pending'[p][d] = {}
      /\ \A q \in Process, d \in Day : q # p => pending'[q][d] = pending[q][d]
  BY <1>1 DEF Gone, ProcessesType
<1>3. /\ UNCHANGED <<day, files, lines, mtime, logged>>
      /\ missing' = [missing EXCEPT ![p] = None] /\ stream' = [stream EXCEPT ![p] = None]
      /\ sweep' = [sweep EXCEPT ![p] = None] /\ state' = [state EXCEPT ![p] = "down"]
  BY DEF Gone, disk
<1>4. TypeOK'
  <2>1. DiskType'
    BY <1>1, <1>3 DEF DiskType
  <2>2. ProcessesType'
    BY <1>1, <1>2, <1>3 DEF ProcessesType
  <2> QED
    BY <1>1, <1>3, <2>1, <2>2 DEF TypeOK, DiskType, ProcessesType
<1>5. Recent'
  BY <1>1, <1>2, <1>3, DayFacts DEF Inv, Recent, ProcessesType
<1>6. Touched'
  BY <1>1, <1>3, DayFacts DEF Inv, Touched, ProcessesType
<1>7. PendingLogged'
  BY <1>2, <1>3 DEF Inv, PendingLogged
<1>8. \A e \in Day \ spoiled' : Complete(e) => Complete(e)'
  BY <1>2, <1>3 DEF Complete
<1>9. CompleteOrOld'
  BY <1>3, <1>8 DEF Inv, CompleteOrOld
<1> QED
  BY <1>4, <1>5, <1>6, <1>7, <1>9 DEF Inv

LEMMA ExitKeeps == ASSUME Inv, NEW p \in Process, Exit(p) PROVE Inv'
<1>1. crashes \in 0 .. Crashes /\ spoiled \subseteq Day /\ None \notin Day
  BY TypeParts, DayFacts DEF Inv, DiskType
<1>2. \A d \in Day : pending[p][d] # {} => d \in spoiled'
  BY <1>1 DEF Exit
<1> QED
  BY <1>1, <1>2, GoneKeeps DEF Exit

LEMMA CrashKeeps == ASSUME Inv, NEW p \in Process, Crash(p) PROVE Inv'
<1>1. crashes \in 0 .. Crashes /\ spoiled \subseteq Day
  BY TypeParts DEF Inv, DiskType
<1>2. crashes' \in 0 .. Crashes
  BY <1>1, LogFilesAssumption DEF Crash
<1> QED
  BY <1>1, <1>2, GoneKeeps DEF Crash

LEMMA MidnightKeeps == ASSUME Inv, Midnight PROVE Inv'
<1>1. day \in Day /\ crashes \in 0 .. Crashes /\ DiskType /\ ProcessesType
  BY TypeParts DEF Inv
<1>2. /\ day' = day + 1 /\ day < Days
      /\ UNCHANGED <<files, lines, mtime, state, missing, stream, pending, sweep, logged, crashes, spoiled>>
  BY DEF Midnight, disk
<1>3. day' \in Day /\ day \in Nat /\ Keep \in Nat /\ Day \subseteq Nat
  BY <1>1, <1>2, LogFilesAssumption DEF Day
<1>4. TypeOK'
  BY <1>1, <1>2, <1>3 DEF TypeOK, DiskType, ProcessesType
<1>5. Recent'
  <2>1. \A p \in Process : missing'[p] # None => missing'[p] \in {day' - 1, day'}
    BY <1>2, <1>3 DEF Midnight
  <2>2. ASSUME NEW p \in Process, NEW d \in Day, pending'[p][d] # {} PROVE d \in {day' - 1, day'}
    <3>1. d \in {day - 1, day} /\ d \in Nat \ {0}
      BY <1>2, <2>2, LogFilesAssumption DEF Inv, Recent, Day
    <3>2. d \notin 1 .. day - 1
      BY <1>2, <2>2 DEF Midnight
    <3> QED
      BY <1>2, <1>3, <3>1, <3>2
  <2>3. ASSUME NEW p \in Process PROVE sweep'[p] <= day'
    <3>1. sweep[p] \in Nat /\ sweep[p] <= day /\ sweep'[p] = sweep[p]
      BY <1>1, <1>2, DayFacts DEF Inv, Recent, ProcessesType
    <3> QED
      BY <1>2, <1>3, <3>1
  <2> QED
    BY <2>1, <2>2, <2>3 DEF Recent
<1>6. Touched' /\ PendingLogged'
  BY <1>2 DEF Inv, Touched, PendingLogged
<1>7. \A e \in Day : Complete(e) => Complete(e)'
  BY <1>2 DEF Complete
<1>8. CompleteOrOld'
  <2>1. \A e \in Day : mtime[e] \in Nat
    BY <1>1, DayFacts DEF DiskType
  <2> QED
    BY <1>2, <1>3, <1>7, <2>1 DEF Inv, CompleteOrOld
<1> QED
  BY <1>4, <1>5, <1>6, <1>8 DEF Inv

LEMMA InvNext == Inv /\ [Next]_vars => Inv'
<1> SUFFICES ASSUME Inv, [Next]_vars PROVE Inv'
  OBVIOUS
<1>1. ASSUME NEW p \in Process,
             \/ Load(p) \/ Start(p) \/ Log(p) \/ Create(p) \/ Clean(p)
             \/ Stop(p) \/ Exit(p) \/ Crash(p)
      PROVE  Inv'
  BY <1>1, LoadKeeps, StartKeeps, LogKeeps, CreateKeeps, CleanKeeps, StopKeeps, ExitKeeps, CrashKeeps
<1>2. ASSUME NEW p \in Process, NEW d \in Day, Append(p, d) PROVE Inv'
  BY <1>2, AppendKeeps
<1>3. CASE Midnight
  BY <1>3, MidnightKeeps
<1>4. CASE UNCHANGED vars
  <2>1. ProcessesType'
    BY <1>4, TypeParts DEF Inv, vars, ProcessesType
  <2> QED
    BY <1>4, <2>1, QuietKeeps DEF vars
<1> QED
  BY <1>1, <1>2, <1>3, <1>4 DEF Next

LEMMA InvHolds == Spec => []Inv
  BY InvInit, InvNext, PTL DEF Spec

---------------------------------------------------------------------------
(* The variables keep their types; a file holds only lines logged for its  *)
(* day, and a missing one none.                                            *)
THEOREM FilesTypeCorrect == Spec => []TypeOK
<1>1. Inv => TypeOK
  BY DEF Inv
<1> QED
  BY <1>1, InvHolds, PTL

(* WholeDay for every number of processes and days: #getStream, the        *)
(* creation of the file and the sweep of #cleanOldLogs lose no line of a   *)
(* day but those that a crash, a late creation or a late exit takes.       *)
THEOREM DayIsWhole == Spec => []WholeDay
<1>1. ASSUME Inv PROVE WholeDay
  <2> SUFFICES ASSUME NEW d \in Day \ spoiled
               PROVE  \/ logged[d] = lines[d] \cup UNION {pending[p][d] : p \in Process}
                      \/ day - mtime[d] >= Keep
    BY DEF WholeDay
  <2>1. lines[d] \subseteq logged[d] /\ \A p \in Process : pending[p][d] \subseteq logged[d]
    BY <1>1, TypeParts DEF Inv, PendingLogged, DiskType
  <2>2. CASE Complete(d)
    BY <2>1, <2>2 DEF Complete
  <2> QED
    BY <1>1, <2>2 DEF Inv, CompleteOrOld
<1> QED
  BY <1>1, InvHolds, PTL

(* KeepsLines for every number of processes and days: a step takes a line  *)
(* from a file only in a sweep of an old file or in a late creation.       *)
THEOREM LinesAreKept == Spec => KeepsLines
<1>1. ASSUME Inv, [Next]_vars, NEW d \in Day
      PROVE  \/ lines[d] \subseteq lines'[d]
             \/ day - mtime[d] >= Keep
             \/ \E p \in Process : missing[p] = d /\ missing'[p] = None /\ d \in files
  <2>1. DiskType /\ ProcessesType
    BY <1>1, TypeParts DEF Inv
  <2>2. CASE UNCHANGED lines
    BY <2>2
  <2>3. ASSUME NEW p \in Process, Create(p), lines' = [lines EXCEPT ![missing[p]] = {}]
        PROVE  lines[d] \subseteq lines'[d] \/ (missing[p] = d /\ missing'[p] = None /\ d \in files)
    BY <2>1, <2>3 DEF Create, DiskType, ProcessesType
  <2>4. ASSUME NEW p \in Process, Clean(p)
        PROVE  lines[d] \subseteq lines'[d] \/ day - mtime[d] >= Keep
    BY <1>1, <2>4, SweptIsOld DEF Inv, Clean
  <2>5. ASSUME NEW p \in Process, NEW e \in Day, Append(p, e) PROVE lines[d] \subseteq lines'[d]
    BY <2>1, <2>5 DEF Append, DiskType
  <2>6. \/ UNCHANGED lines
        \/ \E p \in Process : Create(p) /\ lines' = [lines EXCEPT ![missing[p]] = {}]
        \/ \E p \in Process : Clean(p)
        \/ \E p \in Process, e \in Day : Append(p, e)
    BY <1>1 DEF Next, vars, disk, Midnight, Load, Start, Log, Create, Stop, Exit, Crash, Gone
  <2> QED
    BY <2>2, <2>3, <2>4, <2>5, <2>6
<1>2. Inv /\ [Next]_vars =>
         \A d \in Day : \/ lines[d] \subseteq lines'[d]
                        \/ day - mtime[d] >= Keep
                        \/ \E p \in Process : missing[p] = d /\ missing'[p] = None /\ d \in files
  BY <1>1
<1> QED
  BY <1>2, InvHolds, PTL DEF Spec, KeepsLines
===========================================================================
