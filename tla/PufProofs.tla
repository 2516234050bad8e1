-------------------------------- MODULE PufProofs --------------------------------
(***************************************************************************)
(* The response of the PUF is what was measured, for every number of bits, *)
(* every length of a race and of its reset and settling windows, and for   *)
(* oscillators of any speed.  The only timing the proof uses is that two   *)
(* or more settling cycles follow a race (PufParameters).                  *)
(***************************************************************************)
EXTENDS PufTop, TLAPS

USE DEF PufStates, Rings, Races

\* The transitions of the FSM, read backwards.
LEMMA Edges ==
  ASSUME pufState \in PufStates, Clock
  PROVE  /\ pufState' \in PufStates
         /\ pufState' = "S_RESET" =>
              \/ pufState = "S_LOAD"
              \/ pufState = "S_RESET" /\ resetCnt # ResetCycles - 1
              \/ pufState = "S_CAPTURE" /\ bitCnt # BitCount - 1
         /\ pufState' = "S_MEASURE" =>
              \/ pufState = "S_RESET"
              \/ pufState = "S_MEASURE" /\ refCnt # RefCycles - 1
         /\ pufState' = "S_QUIESCE" =>
              \/ pufState = "S_MEASURE"
              \/ pufState = "S_QUIESCE" /\ settleCnt # SettleCycles - 1
         /\ pufState' = "S_CAPTURE" => pufState = "S_QUIESCE" /\ settleCnt = SettleCycles - 1
         /\ pufState' = "S_DONE" => pufState = "S_CAPTURE" /\ bitCnt = BitCount - 1
<1>1. PICK start \in BOOLEAN : pufState' = NextState(start)
  BY DEF Clock
<1>2. QED BY <1>1 DEF NextState, StateAfter

\* What an edge does to the counters, one state at a time.
LEMMA Counting ==
  ASSUME pufState \in PufStates, Clock
  PROVE  /\ pufState \in {"S_IDLE", "S_LOAD", "S_DONE"} => bitCnt' = 0
         /\ pufState \in {"S_RESET", "S_MEASURE", "S_QUIESCE"} => bitCnt' = bitCnt
         /\ pufState = "S_CAPTURE" => bitCnt' = IF bitCnt = BitCount - 1 THEN bitCnt ELSE bitCnt + 1
         /\ pufState = "S_MEASURE" => refCnt' = refCnt + 1
         /\ pufState = "S_QUIESCE" => refCnt' = refCnt
         /\ pufState \notin {"S_MEASURE", "S_QUIESCE"} => refCnt' = 0
         /\ pufState = "S_RESET" => resetCnt' = resetCnt + 1
         /\ pufState \in {"S_MEASURE", "S_QUIESCE"} => resetCnt' = resetCnt
         /\ pufState \notin {"S_RESET", "S_MEASURE", "S_QUIESCE"} => resetCnt' = 0
         /\ settleCnt' = IF pufState = "S_QUIESCE" THEN settleCnt + 1 ELSE 0
BY DEF Clock, Counters, CountersWith, LastBit

\* A clock edge in which the counters of the FSM keep their ranges.
LEMMA ClockType ==
  ASSUME PufTypeOK, InStep, Clock
  PROVE  PufTypeOK'
<1>1. PICK start \in BOOLEAN : pufState' = NextState(start)
  BY DEF Clock
<1>2. pufState' \in PufStates
  BY <1>1 DEF NextState, StateAfter
<1>3. /\ bitCnt' \in 0 .. BitCount - 1
      /\ refCnt' \in 0 .. RefCycles
      /\ resetCnt' \in 0 .. ResetCycles
      /\ settleCnt' \in 0 .. SettleCycles
  <2>1. bitCnt' \in 0 .. BitCount - 1
    BY Counting, PufParameters DEF PufTypeOK
  <2>2. refCnt' \in 0 .. RefCycles
    BY Counting, PufParameters DEF PufTypeOK, InStep
  <2>3. resetCnt' \in 0 .. ResetCycles
    BY Counting, PufParameters DEF PufTypeOK, InStep
  <2>4. settleCnt' \in 0 .. SettleCycles
    BY Counting, PufParameters DEF PufTypeOK, InStep
  <2>5. QED BY <2>1, <2>2, <2>3, <2>4
<1>4. challenge' \in 0 .. BitCount - 1
  BY PufParameters DEF Clock, Lfsr, LastBit, PufTypeOK, InStep
<1>5. cnt' \in [Rings -> Nat]
  <2>1. CASE \E t \in [Rings -> Ticks] : cnt' = [r \in Rings |-> cnt[r] + t[r]]
    <3>1. PICK t \in [Rings -> Ticks] : cnt' = [r \in Rings |-> cnt[r] + t[r]]
      BY <2>1
    <3>2. \A r \in Rings : cnt[r] + t[r] \in Nat
      <4> TAKE r \in Rings
      <4>1. t[r] \in Nat /\ cnt[r] \in Nat
        BY PufParameters DEF PufTypeOK
      <4>2. QED BY <4>1
    <3>3. QED BY <3>1, <3>2
  <2>2. CASE cnt' = [r \in Rings |-> 0] \/ cnt' = cnt
    BY <2>2 DEF PufTypeOK
  <2>3. QED BY <2>1, <2>2 DEF Clock, Oscillators
<1>6. meta' \in BOOLEAN /\ sync' \in BOOLEAN
  <2>1. Winner(cnt) \in BOOLEAN
    BY DEF Winner
  <2>2. QED BY <2>1, Zenon DEF Clock, Synchronizer, PufTypeOK
<1>7. response' \in [1 .. BitCount -> BOOLEAN]
  BY PufParameters DEF Clock, ShiftRegister, PufTypeOK
<1>8. races' \in [1 .. BitCount -> Races] /\ raced' \in 0 .. BitCount
  <2>1. CASE RoEn(pufState) /\ ~RoEn(pufState')
    <3>1. raced = bitCnt /\ raced + 1 \in 1 .. BitCount
      BY <2>1, PufParameters DEF RoEn, PufTypeOK, InStep
    <3>2. [challenge |-> challenge, winner |-> Winner(cnt')] \in Races
      BY <1>5 DEF PufTypeOK, Winner
    <3>3. QED BY <2>1, <3>1, <3>2 DEF Clock, History, PufTypeOK
  <2>2. CASE ~(RoEn(pufState) /\ ~RoEn(pufState'))
    BY <2>2, PufParameters DEF Clock, History, PufTypeOK
  <2>3. QED BY <2>1, <2>2
<1>9. QED BY <1>2, <1>3, <1>4, <1>5, <1>6, <1>7, <1>8 DEF PufTypeOK

\* The FSM counters keep step with the races.
LEMMA ClockInStep ==
  ASSUME PufTypeOK, InStep, Clock
  PROVE  InStep'
<1> USE Edges, Counting, PufParameters DEF PufTypeOK
<1>1. pufState' = "S_RESET" => resetCnt' < ResetCycles
  BY DEF InStep
<1>2. pufState' = "S_MEASURE" => refCnt' < RefCycles
  BY DEF InStep
<1>3. pufState' = "S_QUIESCE" => settleCnt' < SettleCycles
  BY DEF InStep
<1>4. pufState' \in {"S_RESET", "S_MEASURE"} => raced' = bitCnt' /\ challenge' = bitCnt'
  BY DEF Clock, Lfsr, History, RoEn, LastBit, InStep
<1>5. pufState' \in {"S_QUIESCE", "S_CAPTURE"} => raced' = bitCnt' + 1 /\ challenge' = bitCnt'
  BY DEF Clock, Lfsr, History, RoEn, InStep
<1>6. pufState' = "S_DONE" => raced' = BitCount
  <2> SUFFICES ASSUME pufState' = "S_DONE" PROVE raced' = BitCount
    OBVIOUS
  <2>1. pufState = "S_CAPTURE" /\ raced = BitCount
    BY DEF InStep
  <2>2. QED BY <2>1 DEF Clock, History, RoEn
<1>7. QED BY <1>1, <1>2, <1>3, <1>4, <1>5, <1>6 DEF InStep

\* The settled comparison moves through the synchronizer.
LEMMA ClockSettled ==
  ASSUME PufTypeOK, InStep, Settled, Clock
  PROVE  Settled'
<1>1. PICK start \in BOOLEAN : pufState' = NextState(start)
  BY DEF Clock
<1>2. CASE pufState = "S_MEASURE" /\ pufState' = "S_QUIESCE"
  <2>1. settleCnt' = 0
    BY <1>2 DEF Clock, Counters, CountersWith
  <2>2. raced' = raced + 1 /\ raced + 1 \in 1 .. BitCount
    BY <1>2, PufParameters DEF Clock, History, RoEn, InStep, PufTypeOK
  <2>3. races'[raced'].winner = Winner(cnt')
    <3>1. races' = [races EXCEPT ![raced + 1] =
                      [challenge |-> challenge, winner |-> Winner(cnt')]]
      BY <1>2 DEF Clock, History, RoEn
    <3>2. QED BY <2>2, <3>1 DEF PufTypeOK
  <2>4. QED BY <1>2, <2>1, <2>3 DEF Settled, Winner
<1>3. CASE pufState = "S_QUIESCE"
  <2>1. cnt' = cnt /\ raced' = raced /\ races' = races
    BY <1>1, <1>3 DEF NextState, StateAfter, Clock, Oscillators, History, RoEn, CntRst
  <2>2. meta' = Winner(cnt) /\ sync' = meta
    BY <1>3 DEF Clock, Synchronizer, RoEn
  <2>3. settleCnt' = settleCnt + 1
    BY <1>3 DEF Clock, Counters, CountersWith
  <2>4. pufState' = "S_CAPTURE" => settleCnt >= 1
    BY <1>1, <1>3, PufParameters DEF NextState, StateAfter, PufTypeOK
  <2>5. settleCnt \in Nat
    BY PufParameters DEF PufTypeOK
  <2>6. Winner(cnt)' = Winner(cnt)
    BY <2>1 DEF Winner
  <2>7. QED BY <1>3, <2>1, <2>2, <2>3, <2>4, <2>5, <2>6 DEF Settled
<1>4. CASE pufState # "S_QUIESCE" /\ ~(pufState = "S_MEASURE" /\ pufState' = "S_QUIESCE")
  <2>1. pufState' \notin {"S_QUIESCE", "S_CAPTURE"}
    BY <1>1, <1>4 DEF NextState, StateAfter, PufTypeOK
  <2>2. QED BY <2>1 DEF Settled
<1>5. QED BY <1>2, <1>3, <1>4 DEF PufTypeOK

\* The response register and the history of races stay aligned.
LEMMA ClockShifted ==
  ASSUME PufTypeOK, InStep, Settled, Shifted, Clock
  PROVE  Shifted'
<1>1. PICK start \in BOOLEAN : pufState' = NextState(start)
  BY DEF Clock
<1>2. CASE pufState \in {"S_IDLE", "S_DONE"}
  BY <1>1, <1>2 DEF NextState, StateAfter, Shifted
<1>3. CASE pufState = "S_LOAD"
  <2>1. pufState' = "S_RESET" /\ bitCnt' = 0 /\ raced' = 0
    BY <1>1, <1>3 DEF NextState, StateAfter, Clock, Counters, CountersWith, History, RoEn
  <2>2. QED BY <2>1 DEF Shifted, Captured
<1>4. CASE pufState \in {"S_RESET", "S_QUIESCE"}
  <2>1. /\ pufState' \in {"S_RESET", "S_MEASURE", "S_QUIESCE", "S_CAPTURE"}
        /\ bitCnt' = bitCnt /\ raced' = raced /\ races' = races /\ response' = response
    BY <1>1, <1>4 DEF NextState, StateAfter, Clock, Counters, CountersWith, History, RoEn,
                      ShiftRegister
  <2>2. QED BY <1>4, <2>1 DEF Shifted, Captured
<1>5. CASE pufState = "S_MEASURE"
  <2>1. /\ pufState' \in {"S_MEASURE", "S_QUIESCE"}
        /\ bitCnt' = bitCnt /\ response' = response
        /\ bitCnt \in 0 .. BitCount - 1 /\ raced = bitCnt /\ challenge = bitCnt
    BY <1>1, <1>5 DEF NextState, StateAfter, Clock, Counters, CountersWith, ShiftRegister,
                      InStep, PufTypeOK
  <2>2. CASE pufState' = "S_MEASURE"
    BY <1>5, <2>1, <2>2 DEF Shifted, Captured, Clock, History, RoEn
  <2>3. CASE pufState' = "S_QUIESCE"
    <3>1. /\ raced' = raced + 1
          /\ races' = [races EXCEPT ![raced + 1] =
                         [challenge |-> challenge, winner |-> Winner(cnt')]]
      BY <1>5, <2>3 DEF Clock, History, RoEn
    <3>2. raced + 1 \in 1 .. BitCount
      BY <2>1, PufParameters
    <3>3. \A i \in 1 .. bitCnt : races'[i] = races[i]
      BY <3>1, <2>1, PufParameters DEF PufTypeOK
    <3>4. races'[raced + 1].challenge = raced
      BY <3>1, <3>2, <2>1 DEF PufTypeOK
    <3>5. QED
      BY <1>5, <2>1, <2>3, <3>1, <3>3, <3>4, PufParameters DEF Shifted, Captured
  <2>4. QED BY <2>1, <2>2, <2>3
<1>6. CASE pufState = "S_CAPTURE"
  <2> DEFINE n == bitCnt + 1
  <2>1. /\ raced' = raced /\ races' = races
        /\ raced = n /\ bitCnt \in 0 .. BitCount - 1
        /\ sync = races[n].winner
    BY <1>6 DEF Clock, History, RoEn, InStep, Settled, PufTypeOK
  <2>2. pufState' # "S_LOAD" /\ pufState' # "S_IDLE" /\ Captured' = n
    <3>1. CASE bitCnt = BitCount - 1
      BY <1>1, <1>6, <3>1, PufParameters DEF NextState, StateAfter, Captured
    <3>2. CASE bitCnt # BitCount - 1
      BY <1>1, <1>6, <3>2, PufParameters
      DEF NextState, StateAfter, Captured, Clock, Counters, CountersWith, LastBit, PufTypeOK
    <3>3. QED BY <3>1, <3>2
  <2>3. ASSUME NEW i \in 1 .. n
        PROVE  response'[BitCount - n + i] = races[i].winner
    <3>1. response' = [k \in 1 .. BitCount |-> IF k = BitCount THEN sync ELSE response[k + 1]]
      BY <1>6 DEF Clock, ShiftRegister
    <3>2. BitCount - n + i \in 1 .. BitCount
      BY <2>1, PufParameters
    <3>3. CASE i = n
      BY <3>1, <3>2, <3>3, <2>1, PufParameters
    <3>4. CASE i # n
      <4>1. i \in 1 .. bitCnt /\ BitCount - n + i # BitCount
        BY <2>1, <3>4, PufParameters
      <4>2. BitCount - n + i + 1 = BitCount - bitCnt + i
        BY <2>1, PufParameters
      <4>3. response[BitCount - bitCnt + i] = races[i].winner
        BY <1>6, <4>1 DEF Shifted, Captured
      <4>4. QED BY <3>1, <3>2, <4>1, <4>2, <4>3
    <3>5. QED BY <3>3, <3>4
  <2>4. \A i \in 1 .. raced : races[i].challenge = i - 1
    BY <1>6 DEF Shifted
  <2>5. QED BY <2>1, <2>2, <2>3, <2>4 DEF Shifted
<1>7. QED BY <1>2, <1>3, <1>4, <1>5, <1>6 DEF PufTypeOK

--------------------------------------------------------------------------------
\* The inductive invariant: types, counters, synchronizer and shift register.
THEOREM PufInvAlways == PufSpec => [](PufTypeOK /\ PufInv)
<1>1. PufInit => PufTypeOK /\ PufInv
  <2>1. PufInit => PufTypeOK
    <3> SUFFICES ASSUME PufInit PROVE PufTypeOK
      OBVIOUS
    <3>1. cnt \in [Rings -> Nat] /\ response \in [1 .. BitCount -> BOOLEAN]
      BY DEF PufInit
    <3>2. races \in [1 .. BitCount -> Races]
      BY DEF PufInit
    <3>3. meta \in BOOLEAN /\ sync \in BOOLEAN
      BY Zenon DEF PufInit
    <3>4. QED BY <3>1, <3>2, <3>3, PufParameters DEF PufInit, PufTypeOK
  <2>2. PufInit => PufInv
    BY DEF PufInit, PufInv, InStep, Settled, Shifted
  <2>3. QED BY <2>1, <2>2
<1>2. PufTypeOK /\ PufInv /\ [PufNext]_pufVars => (PufTypeOK /\ PufInv)'
  <2> SUFFICES ASSUME PufTypeOK, PufInv, [PufNext]_pufVars PROVE (PufTypeOK /\ PufInv)'
    OBVIOUS
  <2>1. CASE Clock
    BY <2>1, ClockType, ClockInStep, ClockSettled, ClockShifted DEF PufInv
  <2>2. CASE MidReset
    <3>1. PufTypeOK'
      <4>1. cnt' \in [Rings -> Nat] /\ response' \in [1 .. BitCount -> BOOLEAN]
        BY <2>2 DEF MidReset
      <4>2. meta' \in BOOLEAN /\ sync' \in BOOLEAN
        BY <2>2, Zenon DEF MidReset
      <4>3. QED BY <2>2, <4>1, <4>2, PufParameters DEF MidReset, PufTypeOK
    <3>2. PufInv'
      BY <2>2 DEF MidReset, PufInv, InStep, Settled, Shifted
    <3>3. QED BY <3>1, <3>2
  <2>3. CASE UNCHANGED pufVars
    BY <2>3 DEF pufVars, ctrlVars, PufTypeOK, PufInv, InStep, Settled, Shifted, Captured, Winner
  <2>4. QED BY <2>1, <2>2, <2>3 DEF PufNext
<1>3. QED BY <1>1, <1>2, PTL DEF PufSpec

\* When done is pulsed, every bit of the response is the final result of the
\* race on its own challenge, in order.
THEOREM ResponseIsMeasuredAlways == PufSpec => []ResponseIsMeasured
<1>1. PufTypeOK /\ PufInv => ResponseIsMeasured
  <2> SUFFICES ASSUME PufTypeOK, PufInv, pufState = "S_DONE", NEW i \in 1 .. BitCount
               PROVE  races[i] = [challenge |-> i - 1, winner |-> response[i]]
    BY DEF ResponseIsMeasured
  <2>1. Captured = BitCount /\ raced = BitCount
    BY DEF Captured, PufInv, InStep
  <2>2. response[BitCount - BitCount + i] = races[i].winner /\ races[i].challenge = i - 1
    BY <2>1 DEF PufInv, Shifted
  <2>3. BitCount - BitCount + i = i
    BY PufParameters
  <2>4. races[i] \in Races
    BY DEF PufTypeOK
  <2>5. QED BY <2>2, <2>3, <2>4
<1>2. QED BY <1>1, PufInvAlways, PTL

\* The challenge is never changed on running oscillators.
THEOREM ChallengeStableAlways == PufSpec => ChallengeStable
<1>1. PufTypeOK /\ [PufNext]_pufVars => [RoEn(pufState') => challenge' = challenge]_pufVars
  <2> SUFFICES ASSUME PufTypeOK, PufNext, RoEn(pufState') PROVE challenge' = challenge
    BY DEF pufVars
  <2>1. CASE Clock
    <3>1. PICK start \in BOOLEAN : pufState' = NextState(start)
      BY <2>1 DEF Clock
    <3>2. pufState \notin {"S_LOAD", "S_CAPTURE"}
      BY <3>1 DEF RoEn, NextState, StateAfter
    <3>3. QED BY <2>1, <3>2 DEF Clock, Lfsr
  <2>2. CASE MidReset
    BY <2>2 DEF MidReset, RoEn
  <2>3. QED BY <2>1, <2>2 DEF PufNext
<1>2. QED BY <1>1, PufInvAlways, PTL DEF PufSpec, ChallengeStable

================================================================================
