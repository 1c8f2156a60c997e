------------------------------ MODULE PitDelay ------------------------------
(***************************************************************************)
(* The tick counter of drivers/pit.cpp and pit::delay, which the disk      *)
(* drivers wait with.  ticks has 64 bits and the machine words of 32: a    *)
(* reading takes two instructions, and an interrupt may come between them. *)
(* A tick is a millisecond, for frequency is 1000.                         *)
(***************************************************************************)
EXTENDS Integers

CONSTANTS Word,    \* the values of a machine word, 2^32 in the code
          Delays   \* the arguments of delay

ASSUME PitAssumption == Word \in Nat \ {0} /\ Delays \subseteq 1..Word

VARIABLES ticks,
          at,          \* "out", or which word the loop of delay reads next
          lowFirst,    \* the order of the two words, the compiler's choice
          word,        \* the word that was read first
          targetTicks,
          ms, begun    \* the argument of delay; history: the tick of the call

delaying == <<at, lowFirst, word, targetTicks, ms, begun>>
pit == <<ticks, delaying>>

Low(n) == n % Word
High(n) == n \div Word

PitInit == /\ ticks = 0 /\ at = "out" /\ lowFirst \in BOOLEAN
           /\ word = 0 /\ targetTicks = 0 /\ ms = 0 /\ begun = 0
-----------------------------------------------------------------------------
\* Bound: the counter goes round in its third word.  A target is less than two
\* words, so that no delay tells the third from the ones behind it.
Tick(n) == IF n = 3 * Word - 1 THEN 2 * Word ELSE n + 1

onIrq0 == ticks' = Tick(ticks) /\ UNCHANGED delaying

\* Mutant: the tick that has begun counts.
TargetTooEarly(m) == Low(ticks) + m - 1

\* start is an uint32_t.
Target(m) == Low(ticks) + m

delay(m) == /\ at = "out"
            /\ at' = "first"
            /\ targetTicks' = Target(m) /\ ms' = m /\ begun' = ticks
            /\ UNCHANGED <<ticks, lowFirst, word>>

ReadFirst == /\ at = "first"
             /\ at' = "second"
             /\ word' = IF lowFirst THEN Low(ticks) ELSE High(ticks)
             /\ UNCHANGED <<ticks, lowFirst, targetTicks, ms, begun>>

\* Mutant: the loop waits for that very tick.
IsReached(n) == n = targetTicks

Reached(n) == n >= targetTicks

\* The loop goes on, or delay returns and its variables are gone.
ReadSecond ==
  /\ at = "second"
  /\ LET n == IF lowFirst THEN Word * High(ticks) + word
                          ELSE Word * word + Low(ticks)
     IN IF Reached(n)
        THEN at' = "out" /\ word' = 0 /\ targetTicks' = 0 /\ ms' = 0 /\ begun' = 0
        ELSE at' = "first" /\ word' = 0 /\ UNCHANGED <<targetTicks, ms, begun>>
  /\ UNCHANGED <<ticks, lowFirst>>

PitNext == onIrq0 \/ (\E m \in Delays : delay(m)) \/ ReadFirst \/ ReadSecond

PitSpec == PitInit /\ [][PitNext]_pit
-----------------------------------------------------------------------------
Returns == at = "second" /\ at' = "out"

(***************************************************************************)
(* "Waits for `ms` milliseconds" (pit.cpp): delay waits that long if it    *)
(* has to end before the counter leaves its low word, some 49 days after   *)
(* the start, however ticks fall between the two halves of a reading.      *)
(***************************************************************************)
DelayWaitsBeforeWrap ==
  [][Returns /\ begun + ms <= Word => ticks - begun >= ms]_pit
=============================================================================
