---------------------------- MODULE RateLimiter ----------------------------
(***************************************************************************)
(* functions/rateLimiter.js: a token bucket shared by concurrent callers   *)
(* of acquire(). A caller that finds less than one token computes how long *)
(* one will take, sleeps that long, and then takes a token without looking *)
(* again; callers that sleep at the same time do not know of one another.  *)
(* setTimeout may fire a little before the Date.now() difference it was    *)
(* given has passed, and any time after.                                   *)
(*                                                                         *)
(* Fractions of a token are whole units here: a token is Cost units, Rate  *)
(* units flow in per tick of the clock. Times are relative, so that the    *)
(* state space is finite; the floating-point rounding is left out.         *)
(***************************************************************************)
EXTENDS Integers, FiniteSets

CONSTANTS Caller,     \* the concurrent callers, a finite set
          Cost,       \* units in one token; like the others not 0
          Rate,       \* #refillRate, in units per tick
          MaxTokens,  \* #maxTokens
          Early       \* ticks a timer may fire early

VARIABLES tokens,   \* #tokens, in units
          elapsed,  \* Date.now() - #lastRefill
          wait      \* wait[c]: ticks until c's setTimeout may fire; Awake without one

limiterVars == <<tokens, elapsed, wait>>

Awake == -1
Cap   == MaxTokens * Cost

(* BOUND: from here on more elapsed time makes no difference to a refill.  *)
MaxElapsed == (Cap + Cardinality(Caller) * Cost) \div Rate + 1 + Early

Higher(a, b)   == IF a > b THEN a ELSE b
Lower(a, b)    == IF a < b THEN a ELSE b
CeilDiv(a, b)  == (a + b - 1) \div b

Init ==
    /\ tokens = Cap
    /\ elapsed = 0
    /\ wait = [c \in Caller |-> Awake]

---------------------------------------------------------------------------
(* The tokens after #refill().                                             *)
Refilled == Lower(Cap, tokens + elapsed * Rate)

(* acquire() of a caller: a token at once.                                 *)
TakesToken(c) ==
    /\ wait[c] = Awake
    /\ Refilled >= Cost
    /\ tokens' = Refilled - Cost
    /\ elapsed' = 0
    /\ UNCHANGED wait

(* MUTANT of Sleeps: the wait is computed for the missing part of a token  *)
(* rounded down.                                                           *)
SleepsShort(c) ==
    /\ wait[c] = Awake
    /\ Refilled < Cost
    /\ tokens' = Refilled
    /\ elapsed' = 0
    /\ wait' = [wait EXCEPT ![c] = Higher(0, (Cost - Refilled) \div Rate - Early)]

(* acquire() of a caller: no token, sleep until there should be one.       *)
Sleeps(c) ==
    /\ wait[c] = Awake
    /\ Refilled < Cost
    /\ tokens' = Refilled
    /\ elapsed' = 0
    /\ wait' = [wait EXCEPT ![c] = Higher(0, CeilDiv(Cost - Refilled, Rate) - Early)]

(* Its timer fires, early or late: the token is taken, there or not.       *)
WakesAndTakes(c) ==
    /\ wait[c] = 0
    /\ tokens' = Refilled - Cost
    /\ elapsed' = 0
    /\ wait' = [wait EXCEPT ![c] = Awake]

(* The clock.                                                              *)
Tick ==
    /\ elapsed' = Lower(elapsed + 1, MaxElapsed)
    /\ wait' = [c \in Caller |-> IF wait[c] > 0 THEN wait[c] - 1 ELSE wait[c]]
    /\ UNCHANGED tokens

LimiterTypeOK ==
    /\ tokens \in Int /\ tokens <= Cap
    /\ elapsed \in 0 .. MaxElapsed
    /\ wait \in [Caller -> Nat \cup {Awake}]
============================================================================
