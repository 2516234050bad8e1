--------------------------------- MODULE Sponge ---------------------------------
(***************************************************************************)
(* The FIPS 202 byte-stream controller fips202_sponge.sv with the clocked  *)
(* permutation it drives (ALGORITHM.v): SpongeClock is one clock edge.     *)
(*                                                                         *)
(* The permutation is symbolic.  A byte is the set of the things that were *)
(* xored into it: a message byte, the domain suffix, the final bit.  The   *)
(* state is the sequence of what was permuted so far and what was xored    *)
(* over it since; the round register is what went in and the round         *)
(* constants applied to it, so that a round too many, too few or out of    *)
(* order gives a value that is no permutation of anything.                 *)
(***************************************************************************)
EXTENDS Naturals, Sequences

CONSTANTS
  Modes,       \* the functions offered
  Rate,        \* rate_bytes of each mode
  DigestLen,   \* the only output length of a SHA3 mode; AnyLen of a SHAKE mode
  AnyLen,
  StateBytes,  \* 200 in the code
  Rounds       \* 24 in the code

ASSUME SpongeParameters ==
  /\ StateBytes \in Nat
  /\ Rounds \in Nat \ {0}
  /\ Rate \in [Modes -> 1 .. StateBytes]
  /\ \A m \in Modes : DigestLen[m] \in Nat \cup {AnyLen}
  /\ AnyLen \notin Nat

Index  == 0 .. StateBytes - 1
ByteOf(m, i) == {<<m, i>>}  \* byte i of message m
Dom    == {<<"dom", 0>>}
Final  == {<<"end", 0>>}
Xor(a, b) == (a \ b) \cup (b \ a)

ZeroBlock == [i \in Index |-> {}]
Zeroed    == [permuted |-> << >>, block |-> ZeroBlock]
NotPermuted == [permuted |-> <<"garbage">>, block |-> ZeroBlock]
NoRound   == [of |-> Zeroed, rounds |-> << >>]
AllRounds == [r \in 1 .. Rounds |-> r - 1]

Reasons == {"ABSORB_CONT", "PAD_EXTRA", "FINAL", "SQUEEZE"}
SpongeStates == {"ST_IDLE", "ST_ABSORB", "ST_PAD", "ST_PERM_START", "ST_PERMUTE", "ST_PERM_CAPTURE",
                 "ST_SQUEEZE", "ST_DONE", "ST_RESET_CLEAR"}

VARIABLES
  spState, spMode, reason,
  absorbPos, squeezePos, msgRemaining, outRemaining,
  sponge,      \* sponge_state
  permInput,
  algo,        \* algo_out, the register of IOTA.v
  round, permActive,
  spDone, spError

modeVars   == <<spMode, reason>>
countVars  == <<absorbPos, squeezePos, msgRemaining, outRemaining>>
permVars   == <<permInput, round, permActive>>
spongeVars == <<spState, modeVars, countVars, sponge, permVars, algo, spDone, spError>>

\* The wide registers have no reset; the mode and its rate mean nothing before
\* the next start.
SpongeReset ==
  /\ spState' = "ST_RESET_CLEAR"
  /\ reason' = "FINAL"
  /\ absorbPos' = 0
  /\ squeezePos' = 0
  /\ msgRemaining' = 0
  /\ outRemaining' = 0
  /\ algo' = NoRound
  /\ round' = 0
  /\ permActive' = FALSE
  /\ spDone' = FALSE
  /\ spError' = FALSE
  /\ UNCHANGED <<spMode, sponge, permInput>>

SpongeInit ==
  /\ spState = "ST_RESET_CLEAR"
  /\ spMode \in Modes
  /\ reason = "FINAL"
  /\ absorbPos = 0
  /\ squeezePos = 0
  /\ msgRemaining = 0
  /\ outRemaining = 0
  /\ sponge = NotPermuted
  /\ permInput = NotPermuted
  /\ algo = NoRound
  /\ round = 0
  /\ permActive = FALSE
  /\ spDone = FALSE
  /\ spError = FALSE

--------------------------------------------------------------------------------
(***************************************************************************)
(* Outputs.                                                                *)
(***************************************************************************)
inReady  == spState = "ST_ABSORB" /\ msgRemaining # 0
outValid == spState = "ST_SQUEEZE" /\ outRemaining # 0
outLast  == outValid /\ outRemaining = 1
outData  == [permuted |-> sponge.permuted, byte |-> squeezePos, over |-> sponge.block[squeezePos]]

lastByte == Rate[spMode] - 1
XorInto(s, pos, byte) == [s EXCEPT !.block[pos] = Xor(@, byte)]

(***************************************************************************)
(* The permutation: one round in each clock it is enabled in, nothing left *)
(* of it in a clock it is not.                                             *)
(***************************************************************************)
Algorithm ==
  algo' = CASE ~permActive -> NoRound
            [] permActive /\ round = 0 -> [of |-> permInput, rounds |-> <<0>>]
            [] permActive /\ round # 0 -> [algo EXCEPT !.rounds = Append(@, round)]

AlgoOut ==
  IF algo.rounds = AllRounds
    THEN [permuted |-> Append(algo.of.permuted, algo.of.block), block |-> ZeroBlock]
    ELSE NotPermuted

(***************************************************************************)
(* One action per state of the FSM.                                        *)
(***************************************************************************)
SpGoto(s) == spState' = s
Quiet == spDone' = FALSE /\ spError' = FALSE

SpResetClear ==
  /\ spState = "ST_RESET_CLEAR"
  /\ sponge' = Zeroed
  /\ permInput' = Zeroed
  /\ SpGoto("ST_IDLE")
  /\ Quiet
  /\ UNCHANGED <<modeVars, countVars, round, permActive>>

\* A SHA3 mode has one output length; anything else is refused at once.
SpRefuse(mode, outLen) ==
  /\ spState = "ST_IDLE"
  /\ DigestLen[mode] \notin {AnyLen, outLen}
  /\ spDone' = TRUE
  /\ spError' = TRUE
  /\ permActive' = FALSE
  /\ UNCHANGED <<spState, modeVars, countVars, sponge, permInput, round>>

SpStart(mode, msgLen, outLen) ==
  /\ spState = "ST_IDLE"
  /\ DigestLen[mode] \in {AnyLen, outLen}
  /\ spMode' = mode
  /\ absorbPos' = 0
  /\ squeezePos' = 0
  /\ msgRemaining' = msgLen
  /\ outRemaining' = outLen
  /\ round' = 0
  /\ permActive' = FALSE
  /\ sponge' = Zeroed
  /\ permInput' = Zeroed
  /\ SpGoto(IF msgLen = 0 THEN "ST_PAD" ELSE "ST_ABSORB")
  /\ Quiet
  /\ UNCHANGED reason

SpIdle ==
  /\ spState = "ST_IDLE"
  /\ permActive' = FALSE
  /\ Quiet
  /\ UNCHANGED <<spState, modeVars, countVars, sponge, permInput, round>>

SpAbsorbWith(inValid, byte, fullBlock) ==
  /\ spState = "ST_ABSORB"
  /\ IF ~(inValid /\ inReady)
       THEN UNCHANGED <<spState, reason, countVars, sponge>>
       ELSE /\ sponge' = XorInto(sponge, absorbPos, byte)
            /\ msgRemaining' = msgRemaining - 1
            /\ IF absorbPos = lastByte
                 THEN absorbPos' = 0 /\ fullBlock
                 ELSE /\ absorbPos' = absorbPos + 1
                      /\ spState' = IF msgRemaining = 1 THEN "ST_PAD" ELSE spState
                      /\ UNCHANGED reason
            /\ UNCHANGED <<squeezePos, outRemaining>>
  /\ Quiet
  /\ UNCHANGED <<spMode, permVars>>

\* Fault: a message that ends with a block gets no padding block of its own.
SpAbsorbNoExtra(inValid, byte) ==
  SpAbsorbWith(inValid, byte,
    /\ SpGoto("ST_PERM_START")
    /\ reason' = IF msgRemaining = 1 THEN "FINAL" ELSE "ABSORB_CONT")

SpAbsorb(inValid, byte) ==
  SpAbsorbWith(inValid, byte,
    /\ SpGoto("ST_PERM_START")
    /\ reason' = IF msgRemaining = 1 THEN "PAD_EXTRA" ELSE "ABSORB_CONT")

SpPad ==
  /\ spState = "ST_PAD"
  /\ sponge' = XorInto(XorInto(sponge, absorbPos, Dom), lastByte, Final)
  /\ reason' = "FINAL"
  /\ SpGoto("ST_PERM_START")
  /\ Quiet
  /\ UNCHANGED <<spMode, countVars, permVars>>

SpPermStart ==
  /\ spState = "ST_PERM_START"
  /\ permInput' = sponge
  /\ round' = 0
  /\ permActive' = TRUE
  /\ SpGoto("ST_PERMUTE")
  /\ Quiet
  /\ UNCHANGED <<modeVars, countVars, sponge>>

SpPermute ==
  /\ spState = "ST_PERMUTE"
  /\ round' = round + 1
  /\ SpGoto(IF round = Rounds - 1 THEN "ST_PERM_CAPTURE" ELSE spState)
  /\ Quiet
  /\ UNCHANGED <<modeVars, countVars, sponge, permInput, permActive>>

SpCapture ==
  /\ spState = "ST_PERM_CAPTURE"
  /\ sponge' = AlgoOut
  /\ round' = 0
  /\ permActive' = FALSE
  /\ absorbPos' = IF reason \in {"ABSORB_CONT", "PAD_EXTRA"} THEN 0 ELSE absorbPos
  /\ squeezePos' = IF reason \in {"FINAL", "SQUEEZE"} THEN 0 ELSE squeezePos
  /\ SpGoto(CASE reason = "ABSORB_CONT" -> "ST_ABSORB"
              [] reason = "PAD_EXTRA"   -> "ST_PAD"
              [] reason = "FINAL"       -> IF outRemaining = 0 THEN "ST_DONE" ELSE "ST_SQUEEZE"
              [] reason = "SQUEEZE"     -> "ST_SQUEEZE")
  /\ Quiet
  /\ UNCHANGED <<modeVars, msgRemaining, outRemaining, permInput>>

SpSqueeze(outReady) ==
  /\ spState = "ST_SQUEEZE"
  /\ IF ~(outValid /\ outReady)
       THEN UNCHANGED <<spState, reason, countVars>>
       ELSE /\ outRemaining' = outRemaining - 1
            /\ \/ /\ outRemaining = 1
                  /\ SpGoto("ST_DONE")
                  /\ UNCHANGED <<squeezePos, reason>>
               \/ /\ outRemaining # 1 /\ squeezePos = lastByte
                  /\ squeezePos' = 0
                  /\ reason' = "SQUEEZE"
                  /\ SpGoto("ST_PERM_START")
               \/ /\ outRemaining # 1 /\ squeezePos # lastByte
                  /\ squeezePos' = squeezePos + 1
                  /\ UNCHANGED <<spState, reason>>
            /\ UNCHANGED <<absorbPos, msgRemaining>>
  /\ Quiet
  /\ UNCHANGED <<spMode, sponge, permVars>>

\* Fault: what the permutation was given is kept.
SpFinishKeeping ==
  /\ spState = "ST_DONE"
  /\ sponge' = Zeroed
  /\ spDone' = TRUE
  /\ spError' = FALSE
  /\ SpGoto("ST_IDLE")
  /\ UNCHANGED <<modeVars, countVars, permVars>>

SpFinish ==
  /\ spState = "ST_DONE"
  /\ sponge' = Zeroed
  /\ permInput' = Zeroed
  /\ spDone' = TRUE
  /\ spError' = FALSE
  /\ SpGoto("ST_IDLE")
  /\ UNCHANGED <<modeVars, countVars, round, permActive>>

SpongeClock(start, mode, msgLen, outLen, inValid, byte, outReady) ==
  /\ Algorithm
  /\ \/ SpResetClear
     \/ start /\ (SpRefuse(mode, outLen) \/ SpStart(mode, msgLen, outLen))
     \/ ~start /\ SpIdle
     \/ SpAbsorb(inValid, byte)
     \/ SpPad
     \/ SpPermStart
     \/ SpPermute
     \/ SpCapture
     \/ SpSqueeze(outReady)
     \/ SpFinish

--------------------------------------------------------------------------------
(***************************************************************************)
(* The reference: pad, absorb block by block, squeeze (FIPS 202).          *)
(***************************************************************************)
Blocks(mode, m, msgLen) ==
  LET r == Rate[mode]
      n == msgLen \div r + 1
      ByteAt(i) == (IF i < msgLen THEN ByteOf(m, i) ELSE {}) \cup (IF i = msgLen THEN Dom ELSE {})
                   \cup (IF i = n * r - 1 THEN Final ELSE {})
  IN  [k \in 1 .. n |-> [p \in Index |-> IF p < r THEN ByteAt((k - 1) * r + p) ELSE {}]]

DigestByte(mode, m, msgLen, j) ==
  [permuted |-> Blocks(mode, m, msgLen) \o [k \in 1 .. j \div Rate[mode] |-> ZeroBlock],
   byte     |-> j % Rate[mode],
   over     |-> {}]

SpongeTypeOK ==
  /\ spState \in SpongeStates
  /\ spMode \in Modes
  /\ reason \in Reasons
  /\ absorbPos \in 0 .. lastByte
  /\ squeezePos \in 0 .. lastByte
  /\ {msgRemaining, outRemaining} \subseteq Nat
  /\ round \in 0 .. Rounds
  /\ {permActive, spDone, spError} \subseteq BOOLEAN

\* The permutation runs only between its start and its capture, and what it
\* leaves in its register is gone a clock later.
PermutationQuiet ==
  /\ permActive => spState \in {"ST_PERMUTE", "ST_PERM_CAPTURE"}
  /\ spState \in {"ST_IDLE", "ST_RESET_CLEAR"} => algo = NoRound

\* Between two transactions nothing of a message is left, neither in the wide
\* registers without reset nor in the permutation, also after a reset that
\* came in the middle of one.
IdleErased ==
  spState = "ST_IDLE" => sponge = Zeroed /\ permInput = Zeroed /\ algo = NoRound

================================================================================
