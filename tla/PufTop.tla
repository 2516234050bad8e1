--------------------------------- MODULE PufTop ---------------------------------
(***************************************************************************)
(* The ring-oscillator PUF of kp_puf_top.sv, one system clock at a time:   *)
(* the control FSM, the challenge LFSR, two oscillators that run with      *)
(* their own clocks, the comparator, its two-flop synchronizer and the     *)
(* response shift register.                                                *)
(*                                                                         *)
(* The oscillators know nothing of the system clock.  cnt is what their    *)
(* counters hold at the END of a clock period, which is what the next edge *)
(* samples.  In a period they are enabled they advance by any number of    *)
(* Ticks, each its own; a pulse already on its way may still arrive in the *)
(* first period after they were disabled.  A comparator sampled while its  *)
(* counters run is mid-transition, so either value may be caught.          *)
(***************************************************************************)
EXTENDS Naturals

CONSTANTS
  BitCount,      \* BIT_COUNT
  RefCycles,     \* REF_CYCLES, how long a race lasts
  ResetCycles,   \* RESET_CYCLES
  SettleCycles,  \* SETTLE_CYCLES
  Ticks          \* by how much a counter can advance in one clock period

\* The synchronizer delays the comparison by two clocks: one settling cycle
\* would capture a value sampled while the oscillators were running.
ASSUME PufParameters ==
  /\ BitCount \in Nat \ {0}
  /\ RefCycles \in Nat \ {0}
  /\ ResetCycles \in Nat \ {0}
  /\ SettleCycles \in Nat \ {0, 1}
  /\ Ticks \subseteq Nat

PufStates == {"S_IDLE", "S_LOAD", "S_RESET", "S_MEASURE", "S_QUIESCE", "S_CAPTURE", "S_DONE"}
Rings  == {0, 1}
Races  == [challenge : Nat, winner : BOOLEAN]

VARIABLES
  pufState,       \* the control FSM
  bitCnt, refCnt, resetCnt, settleCnt,
  challenge,   \* how often the LFSR has stepped since the seed was loaded
  cnt,         \* cnt0 and cnt1
  meta, sync,  \* winner_meta and winner_sync
  response,    \* the shift register; the oldest bit at index 1
  races,       \* history: what each race since the start was run on and won by
  raced        \* history: the number of races since the start

ctrlVars == <<pufState, bitCnt, refCnt, resetCnt, settleCnt>>
pufVars  == <<ctrlVars, challenge, cnt, meta, sync, response, races, raced>>

(***************************************************************************)
(* Outputs of the FSM and of the comparator.                               *)
(***************************************************************************)
RoEn(s)   == s = "S_MEASURE"
CntRst(s) == s \in {"S_IDLE", "S_LOAD", "S_RESET", "S_DONE"}
Busy(s)   == s \notin {"S_IDLE", "S_DONE"}
LastBit   == bitCnt = BitCount - 1
Winner(c) == c[0] <= c[1]

PufInit ==
  /\ pufState = "S_IDLE"
  /\ bitCnt = 0
  /\ refCnt = 0
  /\ resetCnt = 0
  /\ settleCnt = 0
  /\ challenge = 0
  /\ cnt = [r \in Rings |-> 0]
  /\ meta = FALSE
  /\ sync = FALSE
  /\ response = [i \in 1 .. BitCount |-> FALSE]
  /\ races = [i \in 1 .. BitCount |-> [challenge |-> 0, winner |-> FALSE]]
  /\ raced = 0

(***************************************************************************)
(* What the clock edge does.  start is the request of SYS_CTRL.            *)
(***************************************************************************)
StateAfter(start, lastSettle) ==
  CASE pufState = "S_IDLE"    -> IF start THEN "S_LOAD" ELSE "S_IDLE"
    [] pufState = "S_LOAD"    -> "S_RESET"
    [] pufState = "S_RESET"   -> IF resetCnt = ResetCycles - 1 THEN "S_MEASURE" ELSE "S_RESET"
    [] pufState = "S_MEASURE" -> IF refCnt = RefCycles - 1 THEN "S_QUIESCE" ELSE "S_MEASURE"
    [] pufState = "S_QUIESCE" -> IF settleCnt = lastSettle THEN "S_CAPTURE" ELSE "S_QUIESCE"
    [] pufState = "S_CAPTURE" -> IF bitCnt = BitCount - 1 THEN "S_DONE" ELSE "S_RESET"
    [] OTHER               -> "S_IDLE"

\* Fault: the capture comes one clock too early.
StateAfterUnsettled(start) == StateAfter(start, SettleCycles - 2)

NextState(start) == StateAfter(start, SettleCycles - 1)

CountersWith(counting) ==
  /\ bitCnt' = CASE pufState \in {"S_IDLE", "S_LOAD", "S_DONE"} -> 0
                 [] pufState = "S_CAPTURE" /\ ~LastBit -> bitCnt + 1
                 [] OTHER -> bitCnt
  /\ refCnt' = CASE pufState = "S_MEASURE" -> refCnt + 1
                 [] pufState = "S_QUIESCE" -> refCnt
                 [] OTHER -> 0
  /\ resetCnt' = CASE pufState \in counting -> resetCnt + 1
                   [] pufState \in {"S_MEASURE", "S_QUIESCE"} -> resetCnt
                   [] OTHER -> 0
  /\ settleCnt' = IF pufState = "S_QUIESCE" THEN settleCnt + 1 ELSE 0

\* Fault: the reset counter is never counted up.
CountersStuck == CountersWith({})

Counters == CountersWith({"S_RESET"})

\* Fault: the LFSR steps when the next race begins instead of before it.
LfsrLate ==
  challenge' = CASE pufState = "S_LOAD" -> 0
                 [] pufState' = "S_MEASURE" /\ pufState = "S_RESET" /\ bitCnt > 0 -> challenge + 1
                 [] OTHER -> challenge

Lfsr ==
  challenge' = CASE pufState = "S_LOAD" -> 0
                 [] pufState = "S_CAPTURE" /\ ~LastBit -> challenge + 1
                 [] OTHER -> challenge

\* The counters during the period that begins now.
Oscillators ==
  \/ /\ CntRst(pufState')
     /\ cnt' = [r \in Rings |-> 0]
  \/ /\ RoEn(pufState) \/ RoEn(pufState')
     /\ \E t \in [Rings -> Ticks] : cnt' = [r \in Rings |-> cnt[r] + t[r]]
  \/ /\ ~(CntRst(pufState') \/ RoEn(pufState) \/ RoEn(pufState'))
     /\ cnt' = cnt

Synchronizer ==
  /\ meta' \in IF RoEn(pufState) THEN BOOLEAN ELSE {Winner(cnt)}
  /\ sync' = meta

ShiftRegister ==
  response' = IF pufState = "S_CAPTURE"
                THEN [i \in 1 .. BitCount |-> IF i = BitCount THEN sync ELSE response[i + 1]]
                ELSE response

\* A race ends with the last pulse, in the first quiet period.
History ==
  IF RoEn(pufState) /\ ~RoEn(pufState')
    THEN /\ raced' = raced + 1
         /\ races' = [races EXCEPT ![raced + 1] =
                        [challenge |-> challenge, winner |-> Winner(cnt')]]
    ELSE /\ raced' = IF pufState = "S_LOAD" THEN 0 ELSE raced
         /\ races' = races

Clock ==
  \E start \in BOOLEAN :
    /\ pufState' = NextState(start)
    /\ Counters
    /\ Lfsr
    /\ Oscillators
    /\ Synchronizer
    /\ ShiftRegister
    /\ History

\* rst_n is asynchronous and can come in the middle of a measurement.
MidReset ==
  /\ pufState' = "S_IDLE"
  /\ bitCnt' = 0
  /\ refCnt' = 0
  /\ resetCnt' = 0
  /\ settleCnt' = 0
  /\ challenge' = 0
  /\ cnt' = [r \in Rings |-> 0]
  /\ meta' = FALSE
  /\ sync' = FALSE
  /\ response' = [i \in 1 .. BitCount |-> FALSE]
  /\ UNCHANGED <<races, raced>>

PufNext == Clock \/ MidReset
PufSpec == PufInit /\ [][PufNext]_pufVars
PufFairSpec == PufSpec /\ WF_pufVars(Clock)

--------------------------------------------------------------------------------
(***************************************************************************)
(* Properties.                                                             *)
(***************************************************************************)
\* The FSM counters stay in their ranges, the other registers in their types.
PufTypeOK ==
  /\ pufState \in PufStates
  /\ bitCnt \in 0 .. BitCount - 1
  /\ refCnt \in 0 .. RefCycles
  /\ resetCnt \in 0 .. ResetCycles
  /\ settleCnt \in 0 .. SettleCycles
  /\ challenge \in 0 .. BitCount - 1
  /\ cnt \in [Rings -> Nat]
  /\ meta \in BOOLEAN
  /\ sync \in BOOLEAN
  /\ response \in [1 .. BitCount -> BOOLEAN]
  /\ races \in [1 .. BitCount -> Races]
  /\ raced \in 0 .. BitCount

\* The number of bits shifted in since the start.
Captured == IF pufState = "S_DONE" THEN BitCount ELSE bitCnt

\* The FSM counters keep step with the races and with the challenge.
InStep ==
  /\ pufState = "S_RESET" => resetCnt < ResetCycles
  /\ pufState = "S_MEASURE" => refCnt < RefCycles
  /\ pufState = "S_QUIESCE" => settleCnt < SettleCycles
  /\ pufState \in {"S_RESET", "S_MEASURE"} => raced = bitCnt /\ challenge = bitCnt
  /\ pufState \in {"S_QUIESCE", "S_CAPTURE"} => raced = bitCnt + 1 /\ challenge = bitCnt
  /\ pufState = "S_DONE" => raced = BitCount

\* While the FSM waits, the settled comparison moves through the synchronizer
\* flop by flop and is there when the bit is captured.
Settled ==
  /\ pufState \in {"S_QUIESCE", "S_CAPTURE"} => races[raced].winner = Winner(cnt)
  /\ pufState = "S_QUIESCE" /\ settleCnt >= 1 => meta = Winner(cnt)
  /\ pufState = "S_QUIESCE" /\ settleCnt >= 2 => sync = Winner(cnt)
  /\ pufState = "S_CAPTURE" => sync = Winner(cnt)

\* The last bits of the shift register are the results of the races so far.
Shifted ==
  pufState \notin {"S_IDLE", "S_LOAD"} =>
    /\ \A i \in 1 .. Captured : response[BitCount - Captured + i] = races[i].winner
    /\ \A i \in 1 .. raced : races[i].challenge = i - 1

PufInv == InStep /\ Settled /\ Shifted

\* When done is pulsed, every bit of the response is the final result of one
\* race, and the races were run on the successive challenges of the seed: no
\* bit is lost or doubled, none is left of an earlier measurement and none was
\* sampled while its counters were running (SETTLE_CYCLES, BIT_COUNT).
ResponseIsMeasured ==
  pufState = "S_DONE" =>
    \A i \in 1 .. BitCount : races[i] = [challenge |-> i - 1, winner |-> response[i]]

\* The assertion of kp_puf_top.sv: the challenge an oscillator pair runs on is
\* the one of the clock before, so that the multiplexed clock has no runt pulse.
ChallengeStable == [][RoEn(pufState') => challenge' = challenge]_pufVars

\* A measurement ends by itself; firmware only watches it with a timeout.
MeasurementEnds == Busy(pufState) ~> ~Busy(pufState)

================================================================================
