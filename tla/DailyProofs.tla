---------------------------- MODULE DailyProofs ----------------------------
(***************************************************************************)
(* Proofs about DailyJob for any number of users and days, any length of   *)
(* the day, time of the job, ttl of the lock and number of faults.         *)
(***************************************************************************)
EXTENDS DailyJob, TLAPS

Begins(d) == d * Slots   \* the first tick of day d

(* Everybody is notified on day d, or will be by the run that goes on.     *)
Covered(d) ==
    \/ \A u \in User : got[d][u] >= 1
    \/ Today(now) = d /\ job # "idle"

(* The timer is set for the time of the job, today or tomorrow.            *)
Planned ==
    alive => due \in {Begins(Today(now)) + Target, Begins(Today(now) + 1) + Target}

(* A run knows its date; whoever it skips has been notified.               *)
Running ==
    /\ job # "idle" => Today(now) \in Day
    /\ job \in {"send", "mark"} =>
          /\ key = Today(now)
          /\ \A u \in User : u \in todo \ batch \/ got[key][u] >= 1
    /\ \A d \in Day : \A u \in sets[d] : got[d][u] >= 1

(* A lock that no run here holds stands in the way of days that are hit,   *)
(* or covered already.                                                     *)
LeftBehind ==
    /\ lock # 0 => lock >= now
    /\ locked => job # "idle"
    /\ lock # 0 /\ ~locked =>
          \A d \in Day : Today(now) <= d /\ d <= Today(lock) => d \in hit \/ Covered(d)
    /\ lock # 0 /\ locked /\ ~redis =>
          \A d \in Day : Today(now) < d /\ d <= Today(lock) => d \in hit

(* Every day that is over is served, and today is when its timer is gone.  *)
Served ==
    /\ \A d \in Day \ hit, u \in User : d < Today(now) => got[d][u] >= 1
    /\ Today(now) \in Day \ hit =>
          alive /\ (due = Begins(Today(now)) + Target \/ Covered(Today(now)))

ServedInv == TypeOK /\ Planned /\ Running /\ LeftBehind /\ Served

(* What is known of a day on which Redis worked and nothing crashed.       *)
Quiet == Day \ (hit \cup dark)

Once ==
    /\ \A d \in Day : sets[d] # {} => expiry[d] >= Begins(d + 1)
    /\ ~redis /\ Today(now) \in Day => Today(now) \in dark
    /\ \A d \in Day, u \in User : d > Today(now) => got[d][u] = 0
    /\ \A d \in Quiet, u \in User : got[d][u] <= 1
    /\ Today(now) \in Quiet =>
          \A u \in User : got[Today(now)][u] = 1 => u \in sets[Today(now)] \cup batch
    /\ Today(now) \in Quiet /\ job \in {"send", "mark"} =>
          \A u \in todo \ batch : got[Today(now)][u] = 0

Inv == ServedInv /\ Once

---------------------------------------------------------------------------
(* Arithmetic about days. Nothing below looks into Today or Begins.        *)
LEMMA Numbers ==
    /\ Slots \in Nat \ {0} /\ Target \in Nat /\ Late \in Nat /\ LockTtl \in Nat /\ Days \in Nat
    /\ Target + Late < Slots /\ Horizon \in Nat /\ Day \subseteq Nat
    /\ Manual \in Nat /\ Faults \in Nat
<1>1. Slots \in Nat /\ Target \in Nat /\ Late \in Nat /\ Days \in Nat /\ Target + Late < Slots
  BY DailyJobAssumption
<1>2. Slots \in Nat \ {0}
  BY <1>1
<1>3. Horizon \in Nat
  BY <1>1 DEF Horizon
<1> QED
  BY <1>1, <1>2, <1>3, DailyJobAssumption DEF Day

LEMMA BeginsFacts ==
    /\ \A d \in Nat : Begins(d) \in Nat /\ Begins(d + 1) = Begins(d) + Slots
    /\ \A d, e \in Nat : d < e => Begins(d + 1) <= Begins(e)
<1>1. ASSUME NEW d \in Nat PROVE Begins(d) \in Nat /\ Begins(d + 1) = Begins(d) + Slots
  BY Numbers DEF Begins
<1>2. ASSUME NEW d \in Nat, NEW e \in Nat, d < e PROVE Begins(d + 1) <= Begins(e)
  <2>1. PICK n \in Nat : e = d + 1 + n
    <3>1. e - d - 1 \in Nat /\ e = d + 1 + (e - d - 1)
      BY <1>2
    <3> QED
      BY <3>1
  <2>2. n * Slots \in Nat
    BY Numbers
  <2>3. (d + 1 + n) * Slots = (d + 1) * Slots + n * Slots
    BY Numbers
  <2>4. (d + 1) * Slots \in Nat
    BY Numbers
  <2> QED
    BY <2>1, <2>2, <2>3, <2>4 DEF Begins
<1> QED
  BY <1>1, <1>2

LEMMA TodayFacts ==
    ASSUME NEW t \in Nat
    PROVE  Today(t) \in Nat /\ Begins(Today(t)) <= t /\ t < Begins(Today(t) + 1)
<1>1. Today(t) \in Nat
  BY Numbers DEF Today
<1>2. t = (Slots * Today(t)) + (t % Slots) /\ t % Slots \in 0 .. Slots - 1
  BY Numbers DEF Today
<1>3. Begins(Today(t)) = Slots * Today(t)
  BY <1>1, Numbers DEF Begins
<1> QED
  BY <1>1, <1>2, <1>3, BeginsFacts, Numbers

LEMMA TodayMonotone ==
    ASSUME NEW s \in Nat, NEW t \in Nat, s <= t
    PROVE  Today(s) <= Today(t)
<1>1. SUFFICES ASSUME Today(t) < Today(s) PROVE FALSE
  BY TodayFacts
<1>2. Begins(Today(t) + 1) <= Begins(Today(s))
  BY <1>1, TodayFacts, BeginsFacts
<1>3. /\ Begins(Today(s)) \in Nat /\ Begins(Today(t) + 1) \in Nat
      /\ Begins(Today(s)) <= s /\ t < Begins(Today(t) + 1)
  BY TodayFacts, BeginsFacts
<1> QED
  BY <1>2, <1>3

LEMMA Tomorrow ==
    ASSUME NEW t \in Nat
    PROVE  \/ Today(t + 1) = Today(t) /\ t + 1 < Begins(Today(t) + 1)
           \/ Today(t + 1) = Today(t) + 1 /\ t + 1 = Begins(Today(t) + 1)
<1>1. /\ Today(t) \in Nat /\ Begins(Today(t)) <= t /\ t < Begins(Today(t) + 1)
      /\ Today(t + 1) \in Nat /\ Begins(Today(t + 1)) <= t + 1 /\ t + 1 < Begins(Today(t + 1) + 1)
  BY TodayFacts
<1>2. Today(t) <= Today(t + 1)
  BY TodayMonotone
<1>3. /\ Begins(Today(t) + 1) \in Nat /\ Begins(Today(t + 1)) \in Nat
      /\ Begins(Today(t) + 1 + 1) = Begins(Today(t) + 1) + Slots
  BY <1>1, BeginsFacts
<1>4. CASE Today(t + 1) = Today(t)
  BY <1>1, <1>4
<1>5. CASE Today(t + 1) = Today(t) + 1
  BY <1>1, <1>3, <1>5
<1>6. ASSUME Today(t) + 1 < Today(t + 1) PROVE FALSE
  <2>0. Today(t) + 1 \in Nat /\ Today(t + 1) \in Nat
    BY <1>1
  <2>1. Begins(Today(t) + 1 + 1) <= Begins(Today(t + 1))
    BY <1>6, <2>0, BeginsFacts
  <2> QED
    BY <1>1, <1>3, <2>1, Numbers
<1> QED
  BY <1>1, <1>2, <1>4, <1>5, <1>6

LEMMA NextAtFacts ==
    ASSUME NEW t \in Nat
    PROVE  /\ NextAt(t) \in {Begins(Today(t)) + Target, Begins(Today(t) + 1) + Target}
           /\ NextAt(t) \in Nat /\ NextAt(t) <= t + Slots
<1> DEFINE at == Begins(Today(t)) + Target
<1>1. /\ Today(t) \in Nat /\ Begins(Today(t)) \in Nat /\ Begins(Today(t)) <= t
      /\ Begins(Today(t) + 1) = Begins(Today(t)) + Slots
  BY TodayFacts, BeginsFacts
<1>2. NextAt(t) = IF at <= t THEN at + Slots ELSE at
  BY DEF NextAt, Begins
<1> QED
  BY <1>1, <1>2, Numbers

LEMMA LastDay ==
    ASSUME NEW t \in 0 .. Horizon
    PROVE  Today(t) \in 0 .. Days
<1>1. Horizon = Begins(Days) /\ Begins(Days + 1) = Begins(Days) + Slots
  BY Numbers, BeginsFacts DEF Horizon, Begins
<1>2. t \in Nat /\ Today(t) \in Nat /\ Begins(Today(t)) \in Nat /\ Begins(Today(t)) <= t /\ Begins(Days) \in Nat
  BY Numbers, TodayFacts, BeginsFacts
<1>3. ASSUME Days < Today(t) PROVE FALSE
  <2>1. Begins(Days + 1) <= Begins(Today(t))
    BY <1>2, <1>3, Numbers, BeginsFacts
  <2> QED
    BY <1>1, <1>2, <2>1, Numbers
<1> QED
  BY <1>2, <1>3, Numbers

---------------------------------------------------------------------------
(* TypeOK in parts: the clock and the timer, the run, what is in Redis.    *)
ClockType ==
    /\ now \in 0 .. Horizon /\ due \in 0 .. Horizon + Slots
    /\ alive \in BOOLEAN /\ soon \in BOOLEAN
    /\ manual \in 0 .. Manual /\ faults \in 0 .. Faults /\ hit \subseteq Day /\ dark \subseteq Day

RunType ==
    /\ job \in {"idle", "filter", "send", "mark"} /\ key \in 0 .. Days
    /\ todo \subseteq User /\ batch \subseteq todo
    /\ job = "mark" <=> batch # {}
    /\ locked \in BOOLEAN

StoreType ==
    /\ redis \in BOOLEAN /\ lock \in 0 .. Horizon + LockTtl
    /\ sets \in [Day -> SUBSET User] /\ expiry \in [Day -> 0 .. Horizon + Slots]
    /\ got \in [Day -> [User -> Nat]]

LEMMA TypeParts == TypeOK <=> ClockType /\ RunType /\ StoreType
  BY DEF TypeOK, ClockType, RunType, StoreType

LEMMA NowFacts ==
    ASSUME ClockType
    PROVE  /\ now \in Nat /\ Today(now) \in Nat /\ Today(now) \in 0 .. Days
           /\ Begins(Today(now)) \in Nat /\ Begins(Today(now)) <= now
           /\ Begins(Today(now) + 1) = Begins(Today(now)) + Slots
           /\ NextAt(now) \in {Begins(Today(now)) + Target, Begins(Today(now) + 1) + Target}
           /\ NextAt(now) \in 0 .. Horizon + Slots
<1>1. now \in Nat /\ now <= Horizon /\ Horizon \in Nat
  BY Numbers DEF ClockType
<1> QED
  BY <1>1, TodayFacts, BeginsFacts, NextAtFacts, LastDay, Numbers

(* One fault more stays within the bound.                                  *)
LEMMA FaultCounted ==
    ASSUME ClockType, Fault
    PROVE  faults' \in 0 .. Faults
<1>1. faults \in 0 .. Faults /\ Faults \in Nat /\ faults < Faults /\ faults' = faults + 1
  BY Numbers DEF ClockType, Fault
<1> QED
  BY <1>1

(* A run begins, or one is going on, or the day is known to be disturbed.  *)
LEMMA BeginKeeps ==
    ASSUME ServedInv, Begin, Today(now) \in Day,
           UNCHANGED <<now, redis, sets, expiry, got>>
    PROVE  /\ RunType' /\ lock' \in 0 .. Horizon + LockTtl /\ Running' /\ LeftBehind'
           /\ Today(now) \in hit' \/ Covered(Today(now))'
           /\ faults' \in 0 .. Faults /\ hit \subseteq hit' /\ hit' \subseteq Day
           /\ UNCHANGED <<batch, todo>>
           /\ job' \in {"send", "mark"} => job \in {"send", "mark"}
<1>1. RunType /\ StoreType /\ ClockType
  BY TypeParts DEF ServedInv
<1>2. now \in Nat /\ Today(now) \in Nat /\ now <= Horizon /\ Horizon \in Nat
  BY <1>1, NowFacts, Numbers DEF ClockType
<1>3. CASE RunBegins
  <2>1. /\ job' = "filter" /\ locked' = redis /\ UNCHANGED <<key, todo, batch, faults, hit>>
        /\ lock' = IF redis THEN now + LockTtl ELSE lock
        /\ job = "idle" /\ (redis => lock = 0)
    BY <1>3 DEF RunBegins
  <2>2. RunType'
    BY <1>1, <2>1 DEF RunType, StoreType
  <2>3. lock' \in 0 .. Horizon + LockTtl
    BY <1>1, <1>2, <2>1, Numbers DEF StoreType
  <2>4. Running'
    BY <2>1 DEF ServedInv, Running
  <2>5. Covered(Today(now))'
    BY <2>1 DEF Covered
  <2>6. LeftBehind'
    <3>1. lock' # 0 => lock' >= now
      BY <1>2, <2>1, Numbers DEF ServedInv, LeftBehind
    <3>2. ASSUME lock' # 0, ~locked', NEW d \in Day, Today(now) <= d, d <= Today(lock')
          PROVE  d \in hit \/ \A u \in User : got[d][u] >= 1
      <4>1. ~redis /\ lock' = lock /\ ~locked
        BY <2>1, <3>2 DEF ServedInv, LeftBehind
      <4>2. d \in hit \/ Covered(d)
        BY <3>2, <4>1 DEF ServedInv, LeftBehind
      <4> QED
        BY <2>1, <4>2 DEF Covered
    <3> QED
      BY <2>1, <3>1, <3>2 DEF LeftBehind, Covered
  <2>7. faults' \in 0 .. Faults /\ hit' \subseteq Day
    BY <1>1, <2>1 DEF ClockType
  <2> QED
    BY <2>1, <2>2, <2>3, <2>4, <2>5, <2>6, <2>7
<1>4. CASE TurnedAway
  <2>1. /\ UNCHANGED <<job, key, todo, batch, locked, lock, faults, hit>>
        /\ job # "idle" \/ (redis /\ lock # 0)
    BY <1>4 DEF TurnedAway, run
  <2>2. /\ RunType' /\ lock' \in 0 .. Horizon + LockTtl /\ Running' /\ LeftBehind'
        /\ faults' \in 0 .. Faults /\ hit' \subseteq Day
    BY <1>1, <2>1 DEF ServedInv, RunType, StoreType, ClockType, Running, LeftBehind, Covered
  <2>3. CASE job # "idle"
    BY <2>1, <2>2, <2>3 DEF Covered
  <2>4. CASE job = "idle"
    <3>1. lock # 0 /\ ~locked /\ lock >= now
      BY <2>1, <2>4 DEF ServedInv, LeftBehind
    <3>2. Today(now) <= Today(lock)
      BY <1>1, <1>2, <3>1, Numbers, TodayMonotone DEF StoreType
    <3>3. Today(now) \in hit \/ Covered(Today(now))
      BY <1>2, <3>1, <3>2 DEF ServedInv, LeftBehind
    <3> QED
      BY <2>1, <2>2, <3>3 DEF Covered
  <2> QED
    BY <2>3, <2>4
<1>5. CASE SetnxFails
  <2>1. /\ UNCHANGED <<job, key, todo, batch, locked>> /\ job = "idle"
        /\ lock' \in {lock, now + LockTtl}
        /\ hit' = hit \cup ThisDay \cup LeftLock(lock')
    BY <1>5 DEF SetnxFails, run
  <2>2. /\ RunType' /\ Running' /\ lock' \in 0 .. Horizon + LockTtl
        /\ lock' # 0 => lock' >= now
    BY <1>1, <1>2, <2>1, Numbers DEF ServedInv, RunType, StoreType, Running, LeftBehind
  <2>3. faults' \in 0 .. Faults
    BY <1>1, <1>5, FaultCounted DEF SetnxFails
  <2>4. hit \subseteq hit' /\ hit' \subseteq Day /\ Today(now) \in hit'
    BY <1>1, <2>1 DEF ThisDay, LeftLock, ClockType
  <2>5. ASSUME lock' # 0, NEW d \in Day, Today(now) <= d, d <= Today(lock') PROVE d \in hit'
    <3>1. CASE Today(now) = d
      BY <2>4, <3>1
    <3>2. CASE Today(now) # d
      <4>1. Today(now) < d
        BY <1>2, <2>5, <3>2, Numbers
      <4> QED
        BY <2>1, <2>5, <4>1 DEF LeftLock
    <3> QED
      BY <3>1, <3>2
  <2>6. LeftBehind'
    BY <2>1, <2>2, <2>5 DEF ServedInv, LeftBehind
  <2> QED
    BY <2>1, <2>2, <2>3, <2>4, <2>6
<1> QED
  BY <1>3, <1>4, <1>5 DEF Begin

(* A run goes on, or ends when everybody is notified.                      *)
LEMMA ContinueKeeps ==
    ASSUME ServedInv, job # "idle", Continue(Today(now)),
           UNCHANGED <<now, redis, got, hit>>, todo' \subseteq User, batch' = {},
           todo' = {} => \A u \in User : got[Today(now)][u] >= 1
    PROVE  /\ RunType' /\ lock' \in 0 .. Horizon + LockTtl /\ LeftBehind'
           /\ Covered(Today(now))' /\ job' \in {"idle", "send"}
           /\ job' # "idle" => key' = Today(now)
<1>1. RunType /\ StoreType /\ ClockType
  BY TypeParts DEF ServedInv
<1>2. Today(now) \in 0 .. Days /\ Horizon \in Nat /\ Days \in Nat /\ LockTtl \in Nat
  BY <1>1, NowFacts, Numbers
<1>3. CASE todo' = {}
  <2>1. /\ job' = "idle" /\ locked' = FALSE /\ key' = 0
        /\ lock' = IF locked /\ redis THEN 0 ELSE lock
    BY <1>3 DEF Continue, RunEnds
  <2>2. \A u \in User : got'[Today(now)][u] >= 1
    BY <1>3
  <2>3. RunType' /\ lock' \in 0 .. Horizon + LockTtl
    <3>1. lock' \in {0, lock} /\ lock \in 0 .. Horizon + LockTtl
      BY <1>1, <2>1 DEF StoreType
    <3>2. RunType'
      <4>1. key' \in 0 .. Days
        BY <1>2, <2>1
      <4>2. todo' \subseteq User /\ batch' \subseteq todo'
        BY <1>3
      <4>3. job' = "mark" <=> batch' # {}
        BY <2>1
      <4> QED
        BY <2>1, <4>1, <4>2, <4>3 DEF RunType
    <3> QED
      BY <1>2, <3>1, <3>2
  <2>4. ASSUME lock' # 0, NEW d \in Day, Today(now) <= d, d <= Today(lock')
        PROVE  d \in hit \/ \A u \in User : got[d][u] >= 1
    <3>1. lock # 0 /\ lock' = lock /\ ~(locked /\ redis) /\ locked \in BOOLEAN
      BY <1>1, <2>1, <2>4 DEF RunType
    <3>2. CASE d = Today(now)
      BY <2>2, <3>2
    <3>3. CASE d # Today(now)
      <4>1. Today(now) < d
        BY <1>2, <2>4, <3>3, Numbers
      <4> QED
        BY <2>4, <3>1, <3>3, <4>1 DEF ServedInv, LeftBehind, Covered
    <3> QED
      BY <3>2, <3>3
  <2>5. LeftBehind'
    <3>1. lock' # 0 => lock' >= now
      BY <2>1 DEF ServedInv, LeftBehind
    <3> QED
      BY <2>1, <2>4, <3>1 DEF LeftBehind, Covered
  <2> QED
    BY <2>1, <2>2, <2>3, <2>5 DEF Covered
<1>4. CASE todo' # {}
  <2>1. job' = "send" /\ key' = Today(now) /\ UNCHANGED <<locked, lock>>
    BY <1>4 DEF Continue
  <2>2. RunType' /\ lock' \in 0 .. Horizon + LockTtl
    BY <1>1, <1>2, <2>1 DEF RunType, StoreType
  <2>3. \A d : Covered(d) => Covered(d)'
    BY <2>1 DEF Covered
  <2>4. LeftBehind'
    BY <2>1, <2>3 DEF ServedInv, LeftBehind
  <2> QED
    BY <2>1, <2>2, <2>4 DEF Covered
<1> QED
  BY <1>3, <1>4

(* What a step within a day owes to Served.                                *)
LEMMA ServedKept ==
    ASSUME ServedInv, UNCHANGED <<now, alive>>, hit \subseteq hit',
           \A d \in Day, u \in User : got[d][u] >= 1 => got'[d][u] >= 1,
           Today(now) \in Day \ hit' =>
              Covered(Today(now))' \/ (due' = due /\ (Covered(Today(now)) => Covered(Today(now))'))
    PROVE  Served'
  BY DEF ServedInv, Served

(* What a step that leaves Redis and the notifications alone owes to Once. *)
LEMMA OnceKept ==
    ASSUME Once, UNCHANGED <<now, redis, sets, expiry, got, dark, batch>>, hit \subseteq hit',
           job' \in {"send", "mark"} => job \in {"send", "mark"} /\ todo' = todo
    PROVE  Once'
  BY DEF Once, Quiet

---------------------------------------------------------------------------
LEMMA FireKeeps == Inv /\ Fire => Inv'
<1> SUFFICES ASSUME Inv, Fire PROVE Inv'
  OBVIOUS
<1>1. ServedInv /\ Once /\ RunType /\ StoreType /\ ClockType
  BY TypeParts DEF Inv, ServedInv
<1>2. /\ Today(now) \in Day /\ soon' = (now < due) /\ due' = NextAt(now) /\ Begin
      /\ UNCHANGED <<now, alive, redis, sets, expiry, got, manual, dark>>
  BY DEF Fire
<1>3. /\ RunType' /\ lock' \in 0 .. Horizon + LockTtl /\ Running' /\ LeftBehind'
      /\ Today(now) \in hit' \/ Covered(Today(now))'
      /\ faults' \in 0 .. Faults /\ hit \subseteq hit' /\ hit' \subseteq Day
      /\ UNCHANGED <<batch, todo>>
      /\ job' \in {"send", "mark"} => job \in {"send", "mark"}
  BY <1>1, <1>2, BeginKeeps
<1>4. TypeOK'
  <2>1. ClockType'
    BY <1>1, <1>2, <1>3, NowFacts DEF ClockType
  <2>2. StoreType'
    BY <1>1, <1>2, <1>3 DEF StoreType
  <2> QED
    BY <1>3, <2>1, <2>2 DEF TypeOK, ClockType, RunType, StoreType
<1>5. Planned'
  BY <1>1, <1>2, NowFacts DEF Planned
<1>6. Served'
  BY <1>1, <1>2, <1>3, ServedKept
<1>7. Once'
  BY <1>1, <1>2, <1>3, OnceKept
<1> QED
  BY <1>3, <1>4, <1>5, <1>6, <1>7 DEF Inv, ServedInv

LEMMA RunNowKeeps == Inv /\ RunNow => Inv'
<1> SUFFICES ASSUME Inv, RunNow PROVE Inv'
  OBVIOUS
<1>1. ServedInv /\ Once /\ RunType /\ StoreType /\ ClockType
  BY TypeParts DEF Inv, ServedInv
<1>2. /\ Today(now) \in Day /\ manual < Manual /\ manual' = manual + 1 /\ Begin
      /\ UNCHANGED <<now, alive, due, soon, redis, sets, expiry, got, dark>>
  BY DEF RunNow
<1>3. /\ RunType' /\ lock' \in 0 .. Horizon + LockTtl /\ Running' /\ LeftBehind'
      /\ Today(now) \in hit' \/ Covered(Today(now))'
      /\ faults' \in 0 .. Faults /\ hit \subseteq hit' /\ hit' \subseteq Day
      /\ UNCHANGED <<batch, todo>>
      /\ job' \in {"send", "mark"} => job \in {"send", "mark"}
  BY <1>1, <1>2, BeginKeeps
<1>4. TypeOK'
  <2>1. ClockType'
    BY <1>1, <1>2, <1>3, Numbers DEF ClockType
  <2>2. StoreType'
    BY <1>1, <1>2, <1>3 DEF StoreType
  <2> QED
    BY <1>3, <2>1, <2>2 DEF TypeOK, ClockType, RunType, StoreType
<1>5. Planned'
  BY <1>1, <1>2 DEF ServedInv, Planned
<1>6. Served'
  BY <1>1, <1>2, <1>3, ServedKept
<1>7. Once'
  BY <1>1, <1>2, <1>3, OnceKept
<1> QED
  BY <1>3, <1>4, <1>5, <1>6, <1>7 DEF Inv, ServedInv

(* Whoever filterNotSent leaves out has been notified today; on a quiet    *)
(* day nobody else has.                                                    *)
LEMMA FilterKeeps == Inv /\ FilterNotSent => Inv'
<1> SUFFICES ASSUME Inv, FilterNotSent PROVE Inv'
  OBVIOUS
<1>1. ServedInv /\ Once /\ RunType /\ StoreType /\ ClockType
  BY TypeParts DEF Inv, ServedInv
<1>2. /\ job = "filter" /\ Continue(Today(now))
      /\ todo' = IF redis THEN User \ sets[Today(now)] ELSE User
      /\ UNCHANGED <<now, alive, due, soon, batch, redis, sets, expiry, got, manual, faults, hit, dark>>
  BY DEF FilterNotSent
<1>3. Today(now) \in Day /\ batch = {} /\ todo' \subseteq User
  BY <1>1, <1>2 DEF ServedInv, Running, RunType
<1>4. \A u \in User \ todo' : got[Today(now)][u] >= 1
  BY <1>1, <1>2, <1>3 DEF ServedInv, Running
<1>5. /\ RunType' /\ lock' \in 0 .. Horizon + LockTtl /\ LeftBehind'
      /\ Covered(Today(now))' /\ job' \in {"idle", "send"}
      /\ job' # "idle" => key' = Today(now)
  BY <1>1, <1>2, <1>3, <1>4, ContinueKeeps
<1>6. TypeOK'
  <2>1. ClockType' /\ StoreType'
    BY <1>1, <1>2, <1>5 DEF ClockType, StoreType
  <2> QED
    BY <1>5, <2>1 DEF TypeOK, ClockType, RunType, StoreType
<1>7. Planned'
  BY <1>1, <1>2 DEF ServedInv, Planned
<1>8. Running'
  BY <1>1, <1>2, <1>3, <1>4, <1>5 DEF ServedInv, Running
<1>9. Served'
  BY <1>1, <1>2, <1>5, ServedKept
<1>10. Once'
  <2>1. ASSUME Today(now) \in Quiet, NEW u \in todo' PROVE got[Today(now)][u] = 0
    <3>1. redis /\ u \in User /\ u \notin sets[Today(now)]
      BY <1>1, <1>2, <2>1 DEF Once, Quiet, StoreType
    <3>2. got[Today(now)][u] # 1 /\ got[Today(now)][u] <= 1
      BY <1>1, <1>3, <2>1, <3>1 DEF Once, Quiet
    <3>3. got[Today(now)][u] \in Nat
      BY <1>1, <1>3, <3>1 DEF StoreType
    <3> QED
      BY <3>2, <3>3
  <2>2. Quiet' = Quiet
    BY <1>2 DEF Quiet
  <2> QED
    BY <1>1, <1>2, <1>3, <2>1, <2>2 DEF Once
<1> QED
  BY <1>5, <1>6, <1>7, <1>8, <1>9, <1>10 DEF Inv, ServedInv

LEMMA SendKeeps == Inv /\ Send => Inv'
<1> SUFFICES ASSUME Inv, Send PROVE Inv'
  OBVIOUS
<1>1. ServedInv /\ Once /\ RunType /\ StoreType /\ ClockType
  BY TypeParts DEF Inv, ServedInv
<1>2. /\ job = "send" /\ batch' \subseteq todo /\ batch' # {} /\ job' = "mark"
      /\ UNCHANGED <<now, alive, due, soon, key, todo, locked, redis, lock, sets, expiry, manual, faults, hit, dark>>
  BY DEF Send
<1>3. Today(now) \in Day /\ key = Today(now) /\ batch = {}
  BY <1>1, <1>2 DEF ServedInv, Running, RunType
<1>4. /\ got' \in [Day -> [User -> Nat]]
      /\ \A u \in batch' : got'[key][u] = got[key][u] + 1
      /\ \A u \in User \ batch' : got'[key][u] = got[key][u]
      /\ \A d \in Day : d # key => got'[d] = got[d]
  <2> DEFINE more == [u \in User |-> got[key][u] + (IF u \in batch' THEN 1 ELSE 0)]
  <2>1. got' = [got EXCEPT ![key] = more]
    BY Zenon DEF Send
  <2>2. more \in [User -> Nat]
    BY <1>1, <1>3 DEF StoreType
  <2>3. /\ \A u \in batch' : more[u] = got[key][u] + 1
        /\ \A u \in User \ batch' : more[u] = got[key][u]
    BY <1>1, <1>2, <1>3 DEF StoreType, RunType
  <2> HIDE DEF more
  <2> QED
    BY <1>1, <1>3, <2>1, <2>2, <2>3 DEF StoreType
<1>5. \A d \in Day, u \in User : got[d][u] \in Nat /\ got'[d][u] >= got[d][u]
  BY <1>1, <1>3, <1>4 DEF StoreType
<1>6. TypeOK'
  <2>1. ClockType' /\ StoreType'
    BY <1>1, <1>2, <1>4 DEF ClockType, StoreType
  <2>2. RunType'
    BY <1>1, <1>2 DEF RunType
  <2> QED
    BY <2>1, <2>2 DEF TypeOK, ClockType, RunType, StoreType
<1>7. Planned'
  BY <1>1, <1>2 DEF ServedInv, Planned
<1>8. \A d \in Day, u \in User : got[d][u] >= 1 => got'[d][u] >= 1
  BY <1>1, <1>5, <1>6 DEF StoreType, TypeOK
<1>9. \A d \in Day : Covered(d) => Covered(d)'
  BY <1>2, <1>8 DEF Covered
<1>10. Running'
  <2>1. \A u \in User : u \in todo \ batch' \/ got'[key][u] >= 1
    <3>1. \A u \in batch' : got'[key][u] >= 1
      BY <1>1, <1>2, <1>3, <1>4, <1>5 DEF RunType
    <3>2. \A u \in User : u \in todo \/ got[key][u] >= 1
      BY <1>1, <1>2, <1>3 DEF ServedInv, Running
    <3> QED
      BY <1>3, <1>8, <3>1, <3>2
  <2>2. \A d \in Day : \A u \in sets[d] : got'[d][u] >= 1
    BY <1>1, <1>8 DEF ServedInv, Running, StoreType
  <2> QED
    BY <1>2, <1>3, <2>1, <2>2 DEF Running
<1>11. LeftBehind'
  BY <1>1, <1>2, <1>9 DEF ServedInv, LeftBehind
<1>12. Served'
  BY <1>1, <1>2, <1>8, <1>9, ServedKept
<1>13. Once'
  <2>1. \A d \in Day, u \in User : d > Today(now) => got'[d][u] = 0
    <3>1. ASSUME NEW d \in Day, d > Today(now) PROVE got'[d] = got[d]
      BY <1>3, <1>4, <3>1, Numbers
    <3>2. \A d \in Day, u \in User : d > Today(now) => got[d][u] = 0
      BY <1>1 DEF Once
    <3> QED
      BY <3>1, <3>2
  <2>2. key \in Quiet => \A u \in batch' : got[key][u] = 0
    BY <1>1, <1>2, <1>3 DEF Once
  <2>3. \A d \in Quiet, u \in User : got'[d][u] <= 1
    <3>1. \A d \in Quiet, u \in User : d # key \/ u \notin batch' => got'[d][u] = got[d][u]
      BY <1>3, <1>4 DEF Quiet
    <3>2. key \in Quiet => \A u \in batch' : got'[key][u] <= 1
      BY <1>1, <1>2, <1>4, <2>2 DEF RunType
    <3> QED
      BY <1>1, <3>1, <3>2 DEF Once
  <2>4. key \in Quiet => \A u \in User : got'[key][u] = 1 => u \in sets[key] \cup batch'
    BY <1>1, <1>3, <1>4 DEF Once
  <2>5. key \in Quiet => \A u \in todo \ batch' : got'[key][u] = 0
    BY <1>1, <1>2, <1>3, <1>4 DEF Once, RunType
  <2>6. Quiet' = Quiet
    BY <1>2 DEF Quiet
  <2> QED
    BY <1>1, <1>2, <1>3, <2>1, <2>3, <2>4, <2>5, <2>6 DEF Once
<1> QED
  BY <1>6, <1>7, <1>10, <1>11, <1>12, <1>13 DEF Inv, ServedInv

LEMMA MarkKeeps == Inv /\ MarkSent => Inv'
<1> SUFFICES ASSUME Inv, MarkSent PROVE Inv'
  OBVIOUS
<1>1. ServedInv /\ Once /\ RunType /\ StoreType /\ ClockType
  BY TypeParts DEF Inv, ServedInv
<1>2. /\ job = "mark" /\ todo' = todo \ batch /\ batch' = {} /\ Continue(key)
      /\ IF redis THEN Marked ELSE UNCHANGED <<sets, expiry>>
      /\ UNCHANGED <<now, alive, due, soon, redis, got, manual, faults, hit, dark>>
  BY DEF MarkSent
<1>3. Today(now) \in Day /\ key = Today(now) /\ batch \subseteq User /\ todo \subseteq User
  BY <1>1, <1>2 DEF ServedInv, Running, RunType
<1>4. \A u \in User : u \in todo' \/ got[key][u] >= 1
  BY <1>1, <1>2 DEF ServedInv, Running
<1>5. /\ RunType' /\ lock' \in 0 .. Horizon + LockTtl /\ LeftBehind'
      /\ Covered(Today(now))' /\ job' \in {"idle", "send"}
      /\ job' # "idle" => key' = Today(now)
  BY <1>1, <1>2, <1>3, <1>4, ContinueKeeps
<1>6. /\ now \in Nat /\ now <= Horizon /\ Begins(Today(now)) <= now
      /\ Begins(Today(now) + 1) = Begins(Today(now)) + Slots /\ Begins(Today(now)) \in Nat
  BY <1>1, NowFacts, Numbers DEF ClockType
<1>7. /\ sets' \in [Day -> SUBSET User] /\ expiry' \in [Day -> 0 .. Horizon + Slots]
      /\ \A d \in Day : d # key => sets'[d] = sets[d] /\ expiry'[d] = expiry[d]
      /\ \/ redis /\ sets'[key] = sets[key] \cup batch /\ expiry'[key] >= Begins(Today(now) + 1)
         \/ ~redis /\ sets'[key] = sets[key] /\ expiry'[key] = expiry[key]
  <2>1. CASE redis
    <3>1. sets' = [sets EXCEPT ![key] = @ \cup batch] /\ expiry' = [expiry EXCEPT ![key] = now + Slots]
      BY <1>2, <2>1 DEF Marked
    <3>2. now + Slots \in 0 .. Horizon + Slots /\ now + Slots >= Begins(Today(now) + 1)
      BY <1>6, Numbers
    <3> QED
      BY <1>1, <1>3, <2>1, <3>1, <3>2 DEF StoreType
  <2>2. CASE ~redis
    BY <1>1, <1>2, <2>2 DEF StoreType
  <2> QED
    BY <2>1, <2>2
<1>8. TypeOK'
  <2>1. ClockType' /\ StoreType'
    BY <1>1, <1>2, <1>5, <1>7 DEF ClockType, StoreType
  <2> QED
    BY <1>5, <2>1 DEF TypeOK, ClockType, RunType, StoreType
<1>9. Planned'
  BY <1>1, <1>2 DEF ServedInv, Planned
<1>10. Running'
  <2>1. \A u \in batch : got[key][u] >= 1
    BY <1>2, <1>3, <1>4
  <2>2. \A d \in Day : \A u \in sets'[d] : got[d][u] >= 1
    BY <1>1, <1>3, <1>7, <2>1 DEF ServedInv, Running
  <2> QED
    BY <1>2, <1>3, <1>4, <1>5, <2>2 DEF Running
<1>11. Served'
  BY <1>1, <1>2, <1>5, ServedKept
<1>12. Once'
  <2>1. \A d \in Day : sets'[d] # {} => expiry'[d] >= Begins(d + 1)
    BY <1>1, <1>3, <1>7 DEF Once
  <2>2. Today(now) \in Quiet => \A u \in User : got[Today(now)][u] = 1 => u \in sets'[Today(now)]
    BY <1>1, <1>3, <1>7 DEF Once, Quiet
  <2>3. Quiet' = Quiet
    BY <1>2 DEF Quiet
  <2>4. Today(now) \in Quiet => \A u \in todo' \ batch' : got[Today(now)][u] = 0
    BY <1>1, <1>2 DEF Once
  <2> QED
    BY <1>1, <1>2, <2>1, <2>2, <2>3, <2>4 DEF Once
<1> QED
  BY <1>5, <1>8, <1>9, <1>10, <1>11, <1>12 DEF Inv, ServedInv

---------------------------------------------------------------------------
(* The clock. A day is over only when its timer has fired and the run that *)
(* covers it has ended; the set of today does not expire before tomorrow.  *)
LEMMA TickKeeps == Inv /\ Tick => Inv'
<1> SUFFICES ASSUME Inv, Tick PROVE Inv'
  OBVIOUS
<1> DEFINE today == Today(now)
           next == Today(now + 1)
<1>1. ServedInv /\ Once /\ RunType /\ StoreType /\ ClockType
  BY TypeParts DEF Inv, ServedInv
<1>2. /\ now < Horizon /\ now' = now + 1 /\ (alive => now < due + Late)
      /\ job # "idle" => next = today
      /\ UNCHANGED <<alive, due, soon, job, key, todo, batch, locked, redis, got, manual, faults>>
      /\ lock' = IF lock <= now + 1 THEN 0 ELSE lock
      /\ sets' = [d \in Day |-> IF expiry[d] <= now + 1 THEN {} ELSE sets[d]]
      /\ expiry' = [d \in Day |-> IF expiry[d] <= now + 1 THEN 0 ELSE expiry[d]]
      /\ hit' = IF alive THEN hit ELSE hit \cup (Day \cap {next})
      /\ dark' = IF redis THEN dark ELSE dark \cup (Day \cap {next})
  BY DEF Tick, run
<1>3. /\ now \in Nat /\ now + 1 \in Nat /\ today \in Nat /\ next \in Nat /\ Today(now') = next
      /\ Begins(today) \in Nat /\ Begins(today + 1) = Begins(today) + Slots /\ Horizon \in Nat
  BY <1>1, <1>2, NowFacts, TodayFacts, Numbers
<1>4. \/ next = today /\ now + 1 < Begins(today + 1)
      \/ next = today + 1 /\ now + 1 = Begins(today + 1) /\ job = "idle"
  BY <1>2, <1>3, Tomorrow
<1> HIDE DEF today, next
<1>5. next = today + 1 /\ alive => due # Begins(today) + Target
  BY <1>2, <1>3, <1>4, Numbers
<1>6. TypeOK'
  <2>1. ClockType'
    BY <1>1, <1>2, <1>3 DEF ClockType
  <2>2. StoreType'
    <3>1. lock' \in 0 .. Horizon + LockTtl
      BY <1>1, <1>2, <1>3, Numbers DEF StoreType
    <3>2. sets' \in [Day -> SUBSET User] /\ expiry' \in [Day -> 0 .. Horizon + Slots]
      BY <1>1, <1>2, <1>3, Numbers DEF StoreType
    <3> QED
      BY <1>1, <1>2, <3>1, <3>2 DEF StoreType
  <2>3. RunType'
    BY <1>1, <1>2 DEF RunType
  <2> QED
    BY <2>1, <2>2, <2>3 DEF TypeOK, ClockType, RunType, StoreType
<1>7. Planned'
  <2>1. alive => due \in {Begins(today) + Target, Begins(today + 1) + Target}
    BY <1>1 DEF ServedInv, Planned, today
  <2>2. alive => due \in {Begins(next) + Target, Begins(next + 1) + Target}
    BY <1>4, <1>5, <2>1
  <2> QED
    BY <1>2, <1>3, <2>2 DEF Planned
<1>8. \A d \in Day : sets'[d] \subseteq sets[d]
  BY <1>1, <1>2 DEF StoreType
<1>9. Running'
  <2>1. job # "idle" => today \in Day /\ next = today
    BY <1>1, <1>2 DEF ServedInv, Running, today
  <2> QED
    BY <1>1, <1>2, <1>3, <1>8, <2>1 DEF ServedInv, Running, today
<1>10. ASSUME NEW d \in Day, Covered(d), next <= d PROVE Covered(d)'
  BY <1>2, <1>3, <1>4, <1>10 DEF Covered, today
<1>11. LeftBehind'
  <2>1. lock' # 0 => lock' = lock /\ lock' >= now + 1
    BY <1>1, <1>2, <1>3 DEF StoreType
  <2>2. ASSUME lock' # 0, NEW d \in Day, next <= d, d <= Today(lock'), d \notin hit
        PROVE  /\ lock # 0 /\ lock' = lock /\ d <= Today(lock)
               /\ today <= d /\ (next < d => today < d)
    BY <1>3, <1>4, <2>1, <2>2, Numbers
  <2>3. hit \subseteq hit'
    BY <1>2
  <2>4. lock' # 0 /\ ~locked => \A d \in Day : next <= d /\ d <= Today(lock') => d \in hit \/ Covered(d)'
    <3> SUFFICES ASSUME lock' # 0, ~locked, NEW d \in Day, next <= d, d <= Today(lock'), d \notin hit
                 PROVE  Covered(d)'
      OBVIOUS
    <3>1. Covered(d)
      BY <1>1, <2>2 DEF ServedInv, LeftBehind, today
    <3> QED
      BY <1>10, <3>1
  <2>5. lock' # 0 /\ locked /\ ~redis => \A d \in Day : next < d /\ d <= Today(lock') => d \in hit
    <3> SUFFICES ASSUME lock' # 0, locked, ~redis, NEW d \in Day, next < d, d <= Today(lock'), d \notin hit
                 PROVE  FALSE
      OBVIOUS
    <3>1. next <= d
      BY <1>3, Numbers
    <3>2. lock # 0 /\ today < d /\ d <= Today(lock)
      BY <2>2, <3>1
    <3> QED
      BY <1>1, <3>2 DEF ServedInv, LeftBehind, today
  <2> QED
    BY <1>1, <1>2, <1>3, <2>1, <2>3, <2>4, <2>5 DEF ServedInv, LeftBehind
<1>12. Served'
  <2>1. today \in Day \ hit => alive /\ (due = Begins(today) + Target \/ Covered(today))
    BY <1>1 DEF ServedInv, Served, today
  <2>2. ASSUME NEW d \in Day \ hit', NEW u \in User, d < next PROVE got[d][u] >= 1
    <3>1. d \in Day \ hit
      BY <1>2, <2>2
    <3>2. CASE d < today
      BY <1>1, <3>1, <3>2 DEF ServedInv, Served, today
    <3>3. CASE ~(d < today)
      <4>1. d = today /\ next = today + 1 /\ job = "idle"
        BY <1>3, <1>4, <2>2, <3>3, Numbers
      <4>2. Covered(today)
        BY <1>5, <2>1, <3>1, <4>1
      <4> QED
        BY <4>1, <4>2 DEF Covered
    <3> QED
      BY <3>2, <3>3
  <2>3. ASSUME NEW d \in Day \ hit', d = next
        PROVE  alive /\ (due = Begins(d) + Target \/ Covered(d)')
    <3>1. alive /\ d \in Day \ hit
      BY <1>2, <2>3
    <3>2. CASE d = today
      <4>1. next <= d
        BY <1>3, <2>3, Numbers
      <4>2. Covered(d) => Covered(d)'
        BY <1>10, <3>1, <4>1
      <4> QED
        BY <2>1, <3>1, <3>2, <4>2
    <3>3. CASE d # today
      <4>1. next # today
        BY <2>3, <3>3
      <4>2. due = Begins(today + 1) + Target
        BY <1>1, <1>4, <1>5, <3>1, <4>1 DEF ServedInv, Planned, today
      <4> QED
        BY <1>4, <2>3, <3>1, <4>1, <4>2
    <3> QED
      BY <3>2, <3>3
  <2>4. next \in Day \ hit' => alive' /\ (due' = Begins(next) + Target \/ Covered(Today(now))')
    BY <1>2, <1>3, <2>3 DEF Covered
  <2>5. \A d \in Day \ hit', u \in User : d < next => got'[d][u] >= 1
    BY <1>2, <2>2
  <2> QED
    BY <1>3, <2>4, <2>5 DEF Served
<1>13. Once'
  <2>1. \A d \in Day : sets'[d] # {} => sets'[d] = sets[d] /\ expiry'[d] = expiry[d]
    BY <1>2
  <2>2. \A d \in Day : sets'[d] # {} => expiry'[d] >= Begins(d + 1)
    BY <1>1, <2>1 DEF Once
  <2>3. ~redis /\ next \in Day => next \in dark'
    BY <1>2
  <2>4. \A d \in Day, u \in User : d > next => got[d][u] = 0
    <3>1. \A d \in Day : d > next => d > today
      BY <1>3, <1>4, Numbers
    <3> QED
      BY <1>1, <3>1 DEF Once, today
  <2>5. Quiet' \subseteq Quiet
    BY <1>2 DEF Quiet
  <2>6. ASSUME next \in Quiet', NEW u \in User, got[next][u] = 1 PROVE u \in sets'[next] \cup batch
    <3>1. next \in Quiet /\ next \in Day
      BY <2>5, <2>6 DEF Quiet
    <3>2. CASE next = today
      <4>1. u \in sets[today] \cup batch
        BY <1>1, <2>6, <3>1, <3>2 DEF Once, today
      <4>2. CASE u \in sets[today]
        <5>1. expiry[today] >= Begins(today + 1) /\ expiry[today] \in Nat
          BY <1>1, <3>1, <3>2, <4>2, <1>3, Numbers DEF Once, StoreType
        <5>2. ~(expiry[today] <= now + 1)
          BY <1>3, <1>4, <3>2, <5>1, Numbers
        <5> QED
          BY <1>2, <3>1, <3>2, <4>2, <5>2
      <4> QED
        BY <4>1, <4>2
    <3>3. CASE next # today
      <4>1. next > today
        BY <1>3, <1>4, <3>3
      <4>2. got[next][u] = 0
        BY <1>1, <3>1, <4>1 DEF Once, today
      <4> QED
        BY <2>6, <4>2
    <3> QED
      BY <3>2, <3>3
  <2>7. next \in Quiet' /\ job \in {"send", "mark"} => \A u \in todo \ batch : got[next][u] = 0
    BY <1>1, <1>2, <2>5 DEF Once, today
  <2> QED
    BY <1>1, <1>2, <1>3, <2>2, <2>3, <2>4, <2>5, <2>6, <2>7 DEF Once
<1> QED
  BY <1>6, <1>7, <1>9, <1>11, <1>12, <1>13 DEF Inv, ServedInv

---------------------------------------------------------------------------
LEMMA ThrowKeeps == Inv /\ JobThrows => Inv'
<1> SUFFICES ASSUME Inv, JobThrows PROVE Inv'
  OBVIOUS
<1>1. ServedInv /\ Once /\ RunType /\ StoreType /\ ClockType
  BY TypeParts DEF Inv, ServedInv
<1>2. /\ job # "idle" /\ Fault /\ hit' = hit \cup ThisDay
      /\ job' = "idle" /\ todo' = {} /\ batch' = {} /\ locked' = FALSE /\ key' = 0
      /\ lock' = IF locked /\ redis THEN 0 ELSE lock
      /\ UNCHANGED <<now, alive, due, soon, redis, sets, expiry, got, manual, dark>>
  BY DEF JobThrows, RunEnds
<1>3. hit \subseteq hit' /\ hit' \subseteq Day /\ Today(now) \in Day \cap hit'
  BY <1>1, <1>2 DEF ThisDay, ClockType, ServedInv, Running
<1>4. TypeOK'
  <2>1. ClockType'
    BY <1>1, <1>2, <1>3, FaultCounted, Zenon DEF ClockType
  <2>2. StoreType'
    <3>1. lock' \in {0, lock} /\ 0 \in 0 .. Horizon + LockTtl
      BY <1>2, Numbers
    <3> QED
      BY <1>1, <1>2, <3>1 DEF StoreType
  <2>3. 0 \in 0 .. Days
    BY Numbers
  <2>4. RunType'
    BY <1>2, <2>3, Zenon DEF RunType
  <2> QED
    BY <2>1, <2>2, <2>4 DEF TypeOK, ClockType, RunType, StoreType
<1>5. Planned'
  BY <1>1, <1>2 DEF ServedInv, Planned
<1>6. Running'
  BY <1>1, <1>2 DEF ServedInv, Running
<1>7. LeftBehind'
  <2>1. ASSUME lock' # 0, NEW d \in Day, Today(now) <= d, d <= Today(lock') 
        PROVE  d \in hit' \/ \A u \in User : got[d][u] >= 1
    <3>1. lock # 0 /\ lock' = lock /\ ~(locked /\ redis) /\ locked \in BOOLEAN
      BY <1>1, <1>2, <2>1 DEF RunType
    <3>2. CASE Today(now) = d
      BY <1>3, <3>2
    <3>3. CASE Today(now) # d
      <4>1. Today(now) < d
        BY <1>1, <2>1, <3>3, NowFacts, Numbers
      <4>2. CASE ~locked
        <5>1. d \in hit \/ Covered(d)
          BY <1>1, <2>1, <3>1, <4>2 DEF ServedInv, LeftBehind
        <5>2. Covered(d) => \A u \in User : got[d][u] >= 1
          BY <4>1, NowFacts, Numbers, <1>1 DEF Covered
        <5> QED
          BY <1>3, <5>1, <5>2
      <4>3. CASE locked
        BY <1>1, <1>3, <2>1, <3>1, <4>1, <4>3 DEF ServedInv, LeftBehind
      <4> QED
        BY <4>2, <4>3
    <3> QED
      BY <3>2, <3>3
  <2>2. lock' # 0 => lock' >= now
    BY <1>1, <1>2 DEF ServedInv, LeftBehind
  <2> QED
    BY <1>2, <2>1, <2>2 DEF LeftBehind, Covered
<1>8. Served'
  BY <1>1, <1>2, <1>3 DEF ServedInv, Served
<1>9. Once'
  <2>1. Quiet' \subseteq Quiet /\ Today(now) \notin Quiet'
    BY <1>2, <1>3 DEF Quiet
  <2> QED
    BY <1>1, <1>2, <2>1 DEF Once
<1> QED
  BY <1>4, <1>5, <1>6, <1>7, <1>8, <1>9 DEF Inv, ServedInv

LEMMA CrashKeeps == Inv /\ Crash => Inv'
<1> SUFFICES ASSUME Inv, Crash PROVE Inv'
  OBVIOUS
<1>1. ServedInv /\ Once /\ RunType /\ StoreType /\ ClockType
  BY TypeParts DEF Inv, ServedInv
<1>2. /\ alive' = FALSE /\ faults < Faults /\ faults' = faults + 1
      /\ job' = "idle" /\ todo' = {} /\ batch' = {} /\ locked' = FALSE /\ key' = 0
      /\ hit' = hit \cup ThisDay \cup LeftLock(lock)
      /\ UNCHANGED <<now, due, soon, redis, lock, sets, expiry, got, manual, dark>>
  BY DEF Crash, Fault
<1>3. hit \subseteq hit' /\ hit' \subseteq Day /\ (Today(now) \in Day => Today(now) \in hit')
  BY <1>1, <1>2 DEF LeftLock, ThisDay, ClockType
<1>4. TypeOK'
  <2>1. ClockType'
    <3>1. faults' \in 0 .. Faults
      BY <1>1, <1>2, Numbers DEF ClockType
    <3> QED
      BY <1>1, <1>2, <1>3, <3>1, Zenon DEF ClockType
  <2>2. StoreType'
    BY <1>1, <1>2 DEF StoreType
  <2>3. 0 \in 0 .. Days
    BY Numbers
  <2>4. RunType'
    BY <1>2, <2>3, Zenon DEF RunType
  <2> QED
    BY <2>1, <2>2, <2>4 DEF TypeOK, ClockType, RunType, StoreType
<1>5. Planned'
  BY <1>2 DEF Planned
<1>6. Running'
  BY <1>1, <1>2 DEF ServedInv, Running
<1>7. LeftBehind'
  <2>1. ASSUME lock # 0, NEW d \in Day, Today(now) <= d, d <= Today(lock) PROVE d \in hit'
    <3>1. CASE Today(now) = d
      BY <1>3, <3>1
    <3>2. CASE Today(now) # d
      <4>1. Today(now) < d
        BY <1>1, <2>1, <3>2, NowFacts, Numbers
      <4> QED
        BY <1>2, <2>1, <4>1 DEF LeftLock
    <3> QED
      BY <3>1, <3>2
  <2> QED
    BY <1>1, <1>2, <2>1 DEF ServedInv, LeftBehind
<1>8. Served'
  BY <1>1, <1>2, <1>3 DEF ServedInv, Served
<1>9. Once'
  <2>1. Quiet' \subseteq Quiet /\ Today(now) \notin Quiet'
    BY <1>2, <1>3 DEF Quiet
  <2> QED
    BY <1>1, <1>2, <2>1 DEF Once
<1> QED
  BY <1>4, <1>5, <1>6, <1>7, <1>8, <1>9 DEF Inv, ServedInv

LEMMA RestartKeeps == Inv /\ Restart => Inv'
<1> SUFFICES ASSUME Inv, Restart PROVE Inv'
  OBVIOUS
<1>1. ServedInv /\ Once /\ RunType /\ StoreType /\ ClockType
  BY TypeParts DEF Inv, ServedInv
<1>2. /\ ~alive /\ alive' = TRUE /\ due' = NextAt(now) /\ soon' = FALSE
      /\ UNCHANGED <<now, job, key, todo, batch, locked, redis, lock, sets, expiry, got, manual, faults, hit, dark>>
  BY DEF Restart, run
<1>3. TypeOK'
  <2>1. ClockType'
    BY <1>1, <1>2, NowFacts DEF ClockType
  <2>2. StoreType' /\ RunType'
    BY <1>1, <1>2 DEF StoreType, RunType
  <2> QED
    BY <2>1, <2>2 DEF TypeOK, ClockType, RunType, StoreType
<1>4. Planned'
  BY <1>1, <1>2, NowFacts DEF Planned
<1>5. Running' /\ LeftBehind'
  BY <1>1, <1>2 DEF ServedInv, Running, LeftBehind, Covered
<1>6. Served'
  BY <1>1, <1>2 DEF ServedInv, Served
<1>7. Once'
  BY <1>1, <1>2, OnceKept
<1> QED
  BY <1>3, <1>4, <1>5, <1>6, <1>7 DEF Inv, ServedInv

LEMMA RedisKeeps == Inv /\ Redis => Inv'
<1> SUFFICES ASSUME Inv, Redis PROVE Inv'
  OBVIOUS
<1>1. ServedInv /\ Once /\ RunType /\ StoreType /\ ClockType
  BY TypeParts DEF Inv, ServedInv
<1>2. /\ dark' = dark \cup ThisDay
      /\ hit' = IF redis' THEN hit ELSE hit \cup LeftLock(lock)
      /\ UNCHANGED <<now, alive, due, soon, job, key, todo, batch, locked, got, manual>>
  BY DEF Redis, run
<1>3. /\ redis' \in BOOLEAN /\ lock' \in {lock, 0} /\ faults' \in 0 .. Faults
      /\ sets' \in [Day -> SUBSET User] /\ expiry' \in [Day -> 0 .. Horizon + Slots]
      /\ \A d \in Day : sets'[d] = {} \/ (sets'[d] = sets[d] /\ expiry'[d] = expiry[d])
  <2>0. faults \in 0 .. Faults /\ Faults \in Nat /\ Horizon + Slots \in Nat
    BY <1>1, Numbers DEF ClockType
  <2>1. CASE \E d \in Day : /\ sets[d] # {}
                            /\ sets' = [sets EXCEPT ![d] = {}] /\ expiry' = [expiry EXCEPT ![d] = 0]
                            /\ Fault
                            /\ UNCHANGED <<redis, lock>>
    BY <1>1, <2>0, <2>1 DEF Fault, StoreType
  <2>2. CASE UNCHANGED <<sets, expiry>>
    <3>1. redis' \in BOOLEAN /\ lock' \in {lock, 0} /\ faults' \in {faults, faults + 1}
          /\ (faults' = faults \/ faults < Faults)
      BY <1>1, <2>2 DEF Redis, Fault, StoreType
    <3>2. faults' \in 0 .. Faults
      BY <2>0, <3>1
    <3> QED
      BY <1>1, <2>2, <3>1, <3>2 DEF StoreType
  <2> QED
    BY <2>1, <2>2 DEF Redis
<1>4. hit \subseteq hit' /\ hit' \subseteq Day
  BY <1>1, <1>2 DEF LeftLock, ThisDay, ClockType
<1>5. TypeOK'
  <2>1. ClockType'
    BY <1>1, <1>2, <1>3, <1>4 DEF ThisDay, ClockType
  <2>2. StoreType'
    BY <1>1, <1>2, <1>3, Numbers DEF StoreType
  <2>3. RunType'
    BY <1>1, <1>2 DEF RunType
  <2> QED
    BY <2>1, <2>2, <2>3 DEF TypeOK, ClockType, RunType, StoreType
<1>6. Planned' /\ Running'
  BY <1>1, <1>2, <1>3 DEF ServedInv, Planned, Running
<1>7. \A d : Covered(d) => Covered(d)'
  BY <1>2 DEF Covered
<1>8. LeftBehind'
  <2>1. ASSUME lock' # 0, ~redis', NEW d \in Day, Today(now) < d, d <= Today(lock') PROVE d \in hit'
    BY <1>2, <1>3, <2>1 DEF LeftLock
  <2>2. lock' # 0 => lock' = lock
    BY <1>3
  <2> QED
    BY <1>1, <1>2, <1>4, <1>7, <2>1, <2>2 DEF ServedInv, LeftBehind
<1>9. Served'
  BY <1>1, <1>2, <1>4, <1>7 DEF ServedInv, Served
<1>10. Once'
  <2>1. Quiet' \subseteq Quiet /\ Today(now) \notin Quiet'
    BY <1>2, <1>4 DEF Quiet, ThisDay
  <2>2. \A d \in Day : sets'[d] # {} => expiry'[d] >= Begins(d + 1)
    BY <1>1, <1>3 DEF Once
  <2>3. Today(now) \in Day => Today(now) \in dark'
    BY <1>2 DEF ThisDay
  <2> QED
    BY <1>1, <1>2, <2>1, <2>2, <2>3 DEF Once
<1> QED
  BY <1>5, <1>6, <1>8, <1>9, <1>10 DEF Inv, ServedInv

---------------------------------------------------------------------------
LEMMA InvInit == Init => Inv
<1> SUFFICES ASSUME Init PROVE Inv
  OBVIOUS
<1>1. /\ now = 0 /\ alive = TRUE /\ due = NextAt(0) /\ soon = FALSE
      /\ job = "idle" /\ key = 0 /\ todo = {} /\ batch = {} /\ locked = FALSE
      /\ redis = TRUE /\ lock = 0 /\ sets = [d \in Day |-> {}] /\ expiry = [d \in Day |-> 0]
      /\ got = [d \in Day |-> [u \in User |-> 0]]
      /\ manual = 0 /\ faults = 0 /\ dark = {}
      /\ hit = IF Target = 0 THEN Day \cap {0} ELSE {}
  BY DEF Init
<1>2. now \in 0 .. Horizon /\ 0 \in 0 .. Manual /\ 0 \in 0 .. Faults /\ 0 \in 0 .. Days
  BY <1>1, Numbers
<1>3. RunType
  BY <1>1, <1>2, Zenon DEF RunType
<1>4. StoreType
  <2>1. 0 \in 0 .. Horizon + LockTtl /\ 0 \in 0 .. Horizon + Slots
    BY Numbers
  <2> QED
    BY <1>1, <2>1 DEF StoreType
<1>5. /\ Today(0) = 0 /\ Begins(0) = 0
      /\ NextAt(0) \in {Begins(Today(0)) + Target, Begins(Today(0) + 1) + Target}
      /\ NextAt(0) \in 0 .. Horizon + Slots
      /\ Target # 0 => NextAt(0) = Begins(Today(0)) + Target
  <2>1. Today(0) \in Nat /\ Begins(Today(0)) <= 0 /\ Begins(0) = 0
    BY TodayFacts, Numbers DEF Begins
  <2>2. Today(0) = 0
    <3>1. SUFFICES ASSUME 0 < Today(0) PROVE FALSE
      BY <2>1
    <3>2. Begins(0 + 1) <= Begins(Today(0)) /\ Begins(0 + 1) = Begins(0) + Slots /\ Begins(Today(0)) \in Nat
      BY <2>1, <3>1, BeginsFacts
    <3> QED
      BY <2>1, <3>2, Numbers
  <2>3. Today(0) * Slots = Begins(Today(0))
    BY DEF Begins
  <2>4. Target # 0 => NextAt(0) = Begins(Today(0)) + Target
    BY <2>1, <2>2, <2>3, Numbers DEF NextAt
  <2>5. NextAt(0) \in Nat /\ NextAt(0) <= 0 + Slots
        /\ NextAt(0) \in {Begins(Today(0)) + Target, Begins(Today(0) + 1) + Target}
    BY NextAtFacts
  <2> QED
    BY <2>1, <2>2, <2>4, <2>5, Numbers
<1>6. ClockType
  BY <1>1, <1>2, <1>5 DEF ClockType
<1>7. TypeOK
  BY <1>3, <1>4, <1>6, TypeParts
<1>8. Planned /\ Running /\ LeftBehind
  BY <1>1, <1>5 DEF Planned, Running, LeftBehind
<1>9. Served
  <2>1. \A d \in Day : ~(d < Today(now))
    BY <1>1, <1>5, Numbers
  <2>2. Today(now) \in Day \ hit => Target # 0
    BY <1>1, <1>5
  <2> QED
    BY <1>1, <1>5, <2>1, <2>2 DEF Served
<1>10. Once
  BY <1>1 DEF Once, Quiet
<1> QED
  BY <1>7, <1>8, <1>9, <1>10 DEF Inv, ServedInv

LEMMA StutterKeeps == Inv /\ UNCHANGED vars => Inv'
<1> SUFFICES ASSUME Inv, UNCHANGED vars PROVE Inv'
  OBVIOUS
<1>1. UNCHANGED <<now, alive, due, soon, job, key, todo, batch, locked, redis, lock, sets, expiry,
                  got, manual, faults, hit, dark>>
  BY DEF vars, run
<1>2. TypeOK'
  BY <1>1 DEF Inv, ServedInv, TypeOK
<1>3. Planned' /\ Running' /\ LeftBehind' /\ Served'
  BY <1>1 DEF Inv, ServedInv, Planned, Running, LeftBehind, Served, Covered
<1>4. Once'
  BY <1>1, OnceKept DEF Inv
<1> QED
  BY <1>2, <1>3, <1>4 DEF Inv, ServedInv

LEMMA InvHolds == Spec => []Inv
<1>1. Inv /\ [Next]_vars => Inv'
  BY TickKeeps, FireKeeps, RunNowKeeps, FilterKeeps, SendKeeps, MarkKeeps, ThrowKeeps, CrashKeeps,
     RestartKeeps, RedisKeeps, StutterKeeps DEF Next
<1> QED
  BY <1>1, InvInit, PTL DEF Spec

---------------------------------------------------------------------------
(* The variables keep their types.                                         *)
THEOREM DailyTypeCorrect == Spec => []TypeOK
<1>1. Inv => TypeOK
  BY DEF Inv, ServedInv
<1> QED
  BY <1>1, InvHolds, PTL

(* NeverTwice for any length of a day: filterNotSent and markSent let no   *)
(* user be notified twice on a day on which Redis worked and nothing       *)
(* crashed. (Who has been notified today is in the set of the day, or in   *)
(* the batch about to be marked, and the set lives until tomorrow.)        *)
THEOREM NobodyTwice == Spec => []NeverTwice
<1>1. Inv => NeverTwice
  BY DEF Inv, Once, Quiet, NeverTwice
<1> QED
  BY <1>1, InvHolds, PTL

(* NeverMissed for any length of a day, any time of the job and any ttl of *)
(* the lock: #scheduleJob comes to every day, early or late, and the guard *)
(* of #runJob turns it away only when a run of the day is going on or is   *)
(* over, or on a day that a lock left behind may disturb.                  *)
THEOREM NobodyMissed == Spec => []NeverMissed
<1>1. Inv => NeverMissed
  BY DEF Inv, ServedInv, Served, NeverMissed
<1> QED
  BY <1>1, InvHolds, PTL
=============================================================================
