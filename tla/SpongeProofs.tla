------------------------------ MODULE SpongeProofs ------------------------------
(***************************************************************************)
(* Theorems about the sponge and its users, for every rate, length, number *)
(* of rounds and pace, also with resets in the middle of a transaction:    *)
(* nothing of a message outlives it; what is given out is the digest of    *)
(* what was taken; a seed is the digest of its key.  At the end the import *)
(* of the test vectors, for every text.                                    *)
(***************************************************************************)
EXTENDS SpongeUsers, SequenceTheorems, FiniteSetTheorems, TLAPS

ErasedInv == PermutationQuiet /\ IdleErased /\ reason \in Reasons

\* What a clock edge does to the round register.
LEMMA AlgorithmStep ==
  ASSUME Algorithm, ~permActive
  PROVE  algo' = NoRound
  BY DEF Algorithm

\* One clock edge of the sponge keeps the invariant: ST_IDLE is entered only
\* from ST_RESET_CLEAR and ST_DONE, both of which clear the wide registers and
\* neither of which the permutation runs in.
LEMMA ErasedInClock ==
  ASSUME NEW start, NEW mode, NEW msgLen, NEW outLen, NEW inValid, NEW byte, NEW outReady,
         ErasedInv, SpongeClock(start, mode, msgLen, outLen, inValid, byte, outReady)
  PROVE  ErasedInv'
<1> USE DEF ErasedInv, PermutationQuiet, IdleErased, modeVars
<1>0. Algorithm
  BY DEF SpongeClock
<1>1. CASE SpResetClear
  BY <1>0, <1>1, AlgorithmStep DEF SpResetClear, SpGoto
<1>2. CASE SpRefuse(mode, outLen)
  BY <1>0, <1>2, AlgorithmStep DEF SpRefuse
<1>3. CASE SpStart(mode, msgLen, outLen)
  BY <1>3 DEF SpStart, SpGoto
<1>4. CASE SpIdle
  BY <1>0, <1>4, AlgorithmStep DEF SpIdle
<1>5. CASE SpAbsorb(inValid, byte)
  <2>1. spState = "ST_ABSORB" /\ UNCHANGED permActive
    BY <1>5 DEF SpAbsorb, SpAbsorbWith, permVars
  <2>2. spState' \in {"ST_ABSORB", "ST_PAD", "ST_PERM_START"} /\ reason' \in Reasons
    BY <1>5, <2>1 DEF SpAbsorb, SpAbsorbWith, SpGoto, Reasons
  <2> QED
    BY <2>1, <2>2
<1>6. CASE SpPad
  BY <1>6 DEF SpPad, SpGoto, permVars, Reasons
<1>7. CASE SpPermStart
  BY <1>7 DEF SpPermStart, SpGoto
<1>8. CASE SpPermute
  BY <1>8 DEF SpPermute, SpGoto
<1>9. CASE SpCapture
  <2>1. spState' \in {"ST_ABSORB", "ST_PAD", "ST_DONE", "ST_SQUEEZE"}
    BY <1>9 DEF SpCapture, SpGoto, Reasons
  <2>2. ~permActive' /\ reason' \in Reasons
    BY <1>9 DEF SpCapture
  <2> QED
    BY <2>1, <2>2
<1>10. CASE SpSqueeze(outReady)
  <2>1. spState = "ST_SQUEEZE" /\ UNCHANGED permActive
    BY <1>10 DEF SpSqueeze, permVars
  <2>2. spState' \in {"ST_SQUEEZE", "ST_DONE", "ST_PERM_START"} /\ reason' \in Reasons
    BY <1>10, <2>1 DEF SpSqueeze, SpGoto, Reasons
  <2> QED
    BY <2>1, <2>2
<1>11. CASE SpFinish
  BY <1>0, <1>11, AlgorithmStep DEF SpFinish, SpGoto
<1> QED
  BY <1>1, <1>2, <1>3, <1>4, <1>5, <1>6, <1>7, <1>8, <1>9, <1>10, <1>11 DEF SpongeClock

\* Whoever uses the sponge, and whenever it is reset.
THEOREM IdleErasedAlways == UsersSpec => []IdleErased
<1>1. UsersInit => ErasedInv
  BY DEF UsersInit, Init, SpongeInit, ErasedInv, PermutationQuiet, IdleErased, Reasons
<1>2. ErasedInv /\ [UsersNext]_usersVars => ErasedInv'
  <2> SUFFICES ASSUME ErasedInv, [UsersNext]_usersVars
               PROVE  ErasedInv'
    OBVIOUS
  <2>1. CASE KdfUses(Clock)
    <3>1. Clock
      BY <2>1 DEF KdfUses
    <3> QED
      BY <3>1, ErasedInClock DEF Clock
  <2>2. CASE StreamUses(StreamClock)
    <3>1. StreamClock
      BY <2>2 DEF StreamUses
    <3> QED
      BY <3>1, ErasedInClock DEF StreamClock
  <2>3. CASE SpongeReset
    BY <2>3 DEF SpongeReset, ErasedInv, PermutationQuiet, IdleErased, Reasons
  <2>4. CASE UNCHANGED kdfVars
    BY <2>4 DEF kdfVars, spongeVars, modeVars, countVars, permVars,
                ErasedInv, PermutationQuiet, IdleErased
  <2>5. Imports(ImportNext) \/ UNCHANGED usersVars => UNCHANGED kdfVars
    BY DEF Imports, usersVars
  <2> QED
    BY <2>1, <2>2, <2>3, <2>4, <2>5
    DEF UsersNext, KdfUses, StreamUses, Next, StreamNext, MidReset, StreamReset
<1>3. ErasedInv => IdleErased
  BY DEF ErasedInv
<1> QED
  BY <1>1, <1>2, <1>3, PTL DEF UsersSpec

--------------------------------------------------------------------------------
(***************************************************************************)
(* A transaction in progress: message m of L bytes absorbed in mode md, t  *)
(* bytes of it taken, g of the N bytes asked for given out, c blocks       *)
(* permuted.                                                               *)
(***************************************************************************)
InTransaction == spState \notin {"ST_IDLE", "ST_RESET_CLEAR"}

NumBlocks(md, L) == L \div Rate[md] + 1

\* Byte i of the padded message.
PaddedByte(md, m, L, i) ==
  (IF i < L THEN ByteOf(m, i) ELSE {}) \cup (IF i = L THEN Dom ELSE {})
  \cup (IF i = NumBlocks(md, L) * Rate[md] - 1 THEN Final ELSE {})

\* What is xored in before permutation k: the blocks of the message, then nothing.
BlockNo(md, m, L, k) ==
  IF k <= NumBlocks(md, L)
  THEN [p \in Index |-> IF p < Rate[md] THEN PaddedByte(md, m, L, (k - 1) * Rate[md] + p) ELSE {}]
  ELSE ZeroBlock

Prefix(md, m, L, c) == [k \in 1 .. c |-> BlockNo(md, m, L, k)]

\* The block after c whole ones, with q bytes of the message in it.
Filled(md, m, c, q) ==
  [p \in Index |-> IF p < q THEN ByteOf(m, c * Rate[md] + p) ELSE {}]

Holds(md, m, L, c, b) == sponge = [permuted |-> Prefix(md, m, L, c), block |-> b]

Absorbing(md, m, L, c, t, g) ==
  /\ g = 0
  /\ absorbPos \in 0 .. Rate[md] - 1
  /\ t = c * Rate[md] + absorbPos
  /\ Holds(md, m, L, c, Filled(md, m, c, absorbPos))

\* Block c + 1 is complete and on its way through the permutation, for one of four reasons.
Permuting(md, m, L, N, c, t, g) ==
  /\ Holds(md, m, L, c, BlockNo(md, m, L, c + 1))
  /\ \/ reason = "ABSORB_CONT" /\ g = 0 /\ t < L /\ t = (c + 1) * Rate[md]
     \/ reason = "PAD_EXTRA" /\ g = 0 /\ t = L /\ t = (c + 1) * Rate[md]
     \/ reason = "FINAL" /\ g = 0 /\ t = L /\ c + 1 = NumBlocks(md, L)
     \/ /\ reason = "SQUEEZE" /\ g < N /\ t = L
        /\ c + 1 > NumBlocks(md, L)
        /\ g = (c + 1 - NumBlocks(md, L)) * Rate[md]

\* The first n bytes given out.
Digest(md, m, L, n) == [j \in 1 .. n |-> DigestByte(md, m, L, j - 1)]

RoundsUpTo(n) == [i \in 1 .. n |-> i - 1]

Rounded(n) == algo = [of |-> sponge, rounds |-> RoundsUpTo(n)]

Squeezing(md, m, L, N, c, t, g) ==
  /\ t = L /\ g < N
  /\ c >= NumBlocks(md, L)
  /\ squeezePos \in 0 .. Rate[md] - 1
  /\ g = (c - NumBlocks(md, L)) * Rate[md] + squeezePos
  /\ Holds(md, m, L, c, ZeroBlock)

TransactionAt(md, m, L, N, c, t, g) ==
  /\ InTransaction
  /\ spState \in SpongeStates
  /\ spMode = md
  /\ msgRemaining = L - t
  /\ outRemaining = N - g
  /\ ~spDone
  /\ spState = "ST_ABSORB" => t < L /\ Absorbing(md, m, L, c, t, g)
  /\ spState = "ST_PAD" => t = L /\ Absorbing(md, m, L, c, t, g)
  /\ spState \in {"ST_PERM_START", "ST_PERMUTE", "ST_PERM_CAPTURE"} => Permuting(md, m, L, N, c, t, g)
  /\ spState = "ST_PERMUTE" => /\ permActive
                               /\ permInput = sponge
                               /\ round \in 0 .. Rounds - 1
                               /\ round > 0 => Rounded(round)
  /\ spState = "ST_PERM_CAPTURE" => Rounded(Rounds)
  /\ spState = "ST_SQUEEZE" => Squeezing(md, m, L, N, c, t, g)
  /\ spState = "ST_DONE" => t = L /\ g = N

Transaction(md, m, L, N, t, g) == \E c \in Nat : TransactionAt(md, m, L, N, c, t, g)

--------------------------------------------------------------------------------
(***************************************************************************)
(* Counting in blocks.                                                     *)
(***************************************************************************)
LEMMA RateType ==
  ASSUME NEW md \in Modes
  PROVE  Rate[md] \in Nat /\ Rate[md] >= 1 /\ Rate[md] - 1 \in Index /\ 0 .. Rate[md] - 1 \subseteq Index
  BY SpongeParameters DEF Index

LEMMA ProductGrows ==
  ASSUME NEW r \in Nat, NEW a \in Nat, NEW b \in Nat, a < b
  PROVE  a * r + r <= b * r
<1>1. PICK d \in Nat : b = a + 1 + d
  <2>1. b - a - 1 \in Nat /\ b = a + 1 + (b - a - 1)
    OBVIOUS
  <2> QED
    BY <2>1
<1>2. b * r = a * r + r + d * r
  BY <1>1
<1>3. d * r \in Nat /\ a * r \in Nat
  OBVIOUS
<1> QED
  BY <1>2, <1>3

\* A number has one way to be so many blocks and a rest.
LEMMA OneRest ==
  ASSUME NEW r \in Nat, NEW a \in Nat, NEW b \in Nat, NEW p \in 0 .. r - 1, NEW q \in 0 .. r - 1,
         a * r + p = b * r + q
  PROVE  a = b /\ p = q
<1>0. a * r \in Nat /\ b * r \in Nat
  OBVIOUS
<1>1. ~(a < b)
  BY <1>0, ProductGrows
<1>2. ~(b < a)
  BY <1>0, ProductGrows
<1>3. a = b
  BY <1>1, <1>2
<1> QED
  BY <1>0, <1>3

LEMMA Division ==
  ASSUME NEW r \in Nat, r >= 1, NEW L \in Nat
  PROVE  /\ L \div r \in Nat
         /\ L % r \in 0 .. r - 1
         /\ L = (L \div r) * r + (L % r)
  OBVIOUS

LEMMA DivisionIs ==
  ASSUME NEW r \in Nat, r >= 1, NEW L \in Nat, NEW c \in Nat, NEW p \in 0 .. r - 1, L = c * r + p
  PROVE  L \div r = c /\ L % r = p
<1>1. L \div r \in Nat /\ L % r \in 0 .. r - 1 /\ L = (L \div r) * r + (L % r)
  BY Division

<1> QED
  BY <1>1, OneRest

--------------------------------------------------------------------------------
(***************************************************************************)
(* Blocks, filled byte by byte.                                            *)
(***************************************************************************)
\* The last block is the one the message ends in: it has room for at least one
\* byte more.
LEMMA LastBlockNo ==
  ASSUME NEW md \in Modes, NEW L \in Nat, NEW c \in Nat, NEW q \in 0 .. Rate[md] - 1,
         L = c * Rate[md] + q
  PROVE  NumBlocks(md, L) = c + 1
<1>1. L \div Rate[md] = c
  BY DivisionIs, RateType
<1> QED
  BY <1>1 DEF NumBlocks

LEMMA BlocksReachBeyond ==
  ASSUME NEW md \in Modes, NEW L \in Nat
  PROVE  /\ NumBlocks(md, L) \in Nat \ {0}
         /\ NumBlocks(md, L) * Rate[md] \in Nat
         /\ L < NumBlocks(md, L) * Rate[md]
<1> DEFINE r == Rate[md]
<1>0. r \in Nat /\ r >= 1
  BY RateType
<1> HIDE DEF r
<1>1. PICK k \in Nat, p \in 0 .. r - 1 : k = L \div r /\ L = k * r + p
  BY <1>0, Division
<1>2. (k + 1) * r = k * r + r /\ k * r \in Nat
  BY <1>0
<1>3. NumBlocks(md, L) = k + 1
  BY <1>1 DEF NumBlocks, r
<1>4. (k + 1) * r \in Nat /\ L < (k + 1) * r
  BY <1>0, <1>1, <1>2
<1>5. NumBlocks(md, L) * Rate[md] = (k + 1) * r
  BY <1>3 DEF r
<1> QED
  BY <1>3, <1>4, <1>5

LEMMA MessageByte ==
  ASSUME NEW md \in Modes, NEW m, NEW L \in Nat, NEW i \in Nat, i < L
  PROVE  PaddedByte(md, m, L, i) = ByteOf(m, i)
<1>1. i # NumBlocks(md, L) * Rate[md] - 1
  BY BlocksReachBeyond
<1> QED
  BY <1>1 DEF PaddedByte

\* A block the message fills needs no padding.
LEMMA FullBlock ==
  ASSUME NEW md \in Modes, NEW m, NEW L \in Nat, NEW c \in Nat, (c + 1) * Rate[md] <= L
  PROVE  /\ c + 1 < NumBlocks(md, L)
         /\ Filled(md, m, c, Rate[md]) = BlockNo(md, m, L, c + 1)
<1> DEFINE r == Rate[md]
<1>0. r \in Nat /\ r >= 1
  BY RateType
<1>1. c + 1 < NumBlocks(md, L)
  <2>1. PICK n \in Nat : n = NumBlocks(md, L)
    BY BlocksReachBeyond
  <2>2. L < n * r
    BY <2>1, BlocksReachBeyond
  <2> HIDE DEF r
  <2>3. (c + 1) * r <= L
    BY DEF r
  <2>4. n * r \in Nat /\ (c + 1) * r \in Nat
    BY <1>0, <2>1
  <2>5. ~(n < c + 1)
    BY <1>0, <2>1, <2>2, <2>3, <2>4, ProductGrows
  <2>6. n # c + 1
    BY <2>2, <2>3, <2>4
  <2> QED
    BY <2>1, <2>5, <2>6
<1>2. ASSUME NEW p \in Index, p < r
      PROVE  PaddedByte(md, m, L, (c + 1 - 1) * r + p) = ByteOf(m, c * r + p)
  <2>1. (c + 1) * r = c * r + r /\ c * r \in Nat
    BY <1>0
  <2>2. c * r + p \in Nat /\ c * r + p < L
    BY <1>0, <1>2, <2>1 DEF Index
  <2>3. PaddedByte(md, m, L, c * r + p) = ByteOf(m, c * r + p)
    BY <2>2, MessageByte
  <2>4. c + 1 - 1 = c
    OBVIOUS
  <2> QED
    BY <2>3, <2>4
<1>3. BlockNo(md, m, L, c + 1)
      = [p \in Index |-> IF p < r THEN PaddedByte(md, m, L, (c + 1 - 1) * r + p) ELSE {}]
  <2>1. c + 1 <= NumBlocks(md, L)
    BY <1>1, BlocksReachBeyond
  <2> QED
    BY <2>1 DEF BlockNo
<1> QED
  BY <1>1, <1>2, <1>3 DEF Filled

LEMMA XorIntoIs ==
  ASSUME NEW P, NEW b, b = [p \in Index |-> b[p]], NEW pos \in Index, NEW byte
  PROVE  XorInto([permuted |-> P, block |-> b], pos, byte)
         = [permuted |-> P, block |-> [p \in Index |-> IF p = pos THEN Xor(b[p], byte) ELSE b[p]]]
<1>1. [b EXCEPT ![pos] = Xor(@, byte)] = [p \in Index |-> IF p = pos THEN Xor(b[p], byte) ELSE b[p]]
  OBVIOUS
<1>2. XorInto([permuted |-> P, block |-> b], pos, byte)
      = [permuted |-> P, block |-> [b EXCEPT ![pos] = Xor(@, byte)]]
  <2> DEFINE s == [permuted |-> P, block |-> b]
  <2>1. s.block = b /\ s.permuted = P
    OBVIOUS
  <2>2. XorInto(s, pos, byte) = [s EXCEPT !.block = [b EXCEPT ![pos] = Xor(b[pos], byte)]]
    BY <2>1 DEF XorInto
  <2> QED
    BY <2>2
<1> QED
  BY <1>1, <1>2

\* One more byte of the message.
LEMMA ByteAbsorbed ==
  ASSUME NEW md \in Modes, NEW m, NEW P, NEW c \in Nat, NEW q \in 0 .. Rate[md] - 1
  PROVE  XorInto([permuted |-> P, block |-> Filled(md, m, c, q)], q, ByteOf(m, c * Rate[md] + q))
         = [permuted |-> P, block |-> Filled(md, m, c, q + 1)]
<1> DEFINE b == Filled(md, m, c, q)
           byte == ByteOf(m, c * Rate[md] + q)
<1>1. b = [p \in Index |-> b[p]]
  BY DEF Filled
<1>2. q \in Index
  BY RateType
<1>3. Xor({}, byte) = byte
  BY DEF Xor
<1>4. b[q] = {}
  BY <1>2 DEF Filled
<1>5. [p \in Index |-> IF p = q THEN Xor(b[p], byte) ELSE b[p]] = Filled(md, m, c, q + 1)
  <2>1. ASSUME NEW p \in Index
        PROVE  (IF p = q THEN Xor(b[p], byte) ELSE b[p])
               = (IF p < q + 1 THEN ByteOf(m, c * Rate[md] + p) ELSE {})
    <3>1. CASE p = q
      <4>1. p < q + 1 /\ b[p] = {}
        BY <1>4, <3>1
      <4>2. ByteOf(m, c * Rate[md] + p) = byte
        BY <3>1
      <4> QED
        BY <1>3, <3>1, <4>1, <4>2
    <3>2. CASE p # q
      <4>1. p < q + 1 <=> p < q
        BY <3>2, RateType DEF Index
      <4> QED
        BY <3>2, <4>1 DEF Filled
    <3> QED
      BY <3>1, <3>2
  <2> HIDE DEF b, byte
  <2> QED
    BY <2>1 DEF Filled
<1> HIDE DEF b, byte
<1>6. XorInto([permuted |-> P, block |-> b], q, byte)
      = [permuted |-> P, block |-> [p \in Index |-> IF p = q THEN Xor(b[p], byte) ELSE b[p]]]
  BY <1>1, <1>2, XorIntoIs
<1> QED
  BY <1>5, <1>6 DEF b, byte

\* The padding, also where suffix and final bit meet in one byte.
LEMMA BlockPadded ==
  ASSUME NEW md \in Modes, NEW m, NEW L \in Nat, NEW P, NEW c \in Nat, NEW q \in 0 .. Rate[md] - 1,
         L = c * Rate[md] + q
  PROVE  XorInto(XorInto([permuted |-> P, block |-> Filled(md, m, c, q)], q, Dom), Rate[md] - 1, Final)
         = [permuted |-> P, block |-> BlockNo(md, m, L, c + 1)]
<1> DEFINE r == Rate[md]
           b == Filled(md, m, c, q)
           b1 == [p \in Index |-> IF p = q THEN Xor(b[p], Dom) ELSE b[p]]
           b2 == [p \in Index |-> IF p = r - 1 THEN Xor(b1[p], Final) ELSE b1[p]]
<1>0. r \in Nat /\ r >= 1 /\ r - 1 \in Index /\ q \in Index
  BY RateType
<1>1. b = [p \in Index |-> b[p]] /\ b1 = [p \in Index |-> b1[p]]
  BY DEF Filled
<1>2. \A p \in Index : b[p] = IF p < q THEN ByteOf(m, c * r + p) ELSE {}
  BY DEF Filled
<1>3. Xor({}, Dom) = Dom /\ Xor({}, Final) = Final /\ Xor(Dom, Final) = Dom \cup Final
  BY DEF Xor, Dom, Final
<1>4. NumBlocks(md, L) = c + 1
  BY LastBlockNo
<1>5. BlockNo(md, m, L, c + 1)
      = [p \in Index |-> IF p < r THEN PaddedByte(md, m, L, (c + 1 - 1) * r + p) ELSE {}]
  BY <1>4 DEF BlockNo
<1>6. ASSUME NEW p \in Index
      PROVE  b2[p] = IF p < r THEN PaddedByte(md, m, L, (c + 1 - 1) * r + p) ELSE {}
  <2>1. PICK i \in Nat : i = c * r + p
    BY <1>0 DEF Index
  <2>2. (c + 1 - 1) * r + p = i
    BY <2>1
  <2>3. NumBlocks(md, L) * r - 1 = c * r + (r - 1)
    BY <1>0, <1>4
  <2>4. (i < L <=> p < q) /\ (i = L <=> p = q) /\ (i = NumBlocks(md, L) * r - 1 <=> p = r - 1)
    <3>1. c * r \in Nat /\ p \in Nat /\ q \in Nat /\ L = c * r + q
      BY <1>0 DEF Index
    <3> HIDE DEF r
    <3> QED
      BY <1>0, <2>1, <2>3, <3>1
  <2>5. PaddedByte(md, m, L, i) = (IF p < q THEN ByteOf(m, i) ELSE {}) \cup (IF p = q THEN Dom ELSE {})
                                  \cup (IF p = r - 1 THEN Final ELSE {})
    BY <2>4 DEF PaddedByte
  <2>6. b1[p] = IF p = q THEN Xor(b[p], Dom) ELSE b[p]
    OBVIOUS
  <2>7. b2[p] = IF p = r - 1 THEN Xor(b1[p], Final) ELSE b1[p]
    OBVIOUS
  <2>8. b[p] = IF p < q THEN ByteOf(m, i) ELSE {}
    BY <1>2, <2>1
  <2>9. p \in Nat /\ q < r
    BY <1>0 DEF Index
  <2> HIDE DEF r, b, b1, b2
  <2>10. CASE p < q
    <3>1. p # q /\ p # r - 1 /\ p < r
      BY <1>0, <2>9, <2>10
    <3>2. b2[p] = ByteOf(m, i)
      BY <2>6, <2>7, <2>8, <2>10, <3>1
    <3>3. PaddedByte(md, m, L, i) = ByteOf(m, i)
      BY <2>5, <2>10, <3>1
    <3> QED
      BY <2>2, <3>1, <3>2, <3>3
  <2>11. CASE p = q
    <3>1. b1[p] = Dom
      BY <1>3, <2>6, <2>8, <2>9, <2>11
    <3>2. b2[p] = Dom \cup (IF p = r - 1 THEN Final ELSE {})
      BY <1>3, <2>7, <3>1
    <3>3. ~(p < q) /\ p < r
      BY <2>9, <2>11
    <3> QED
      BY <2>2, <2>5, <2>11, <3>2, <3>3
  <2>12. CASE ~(p < q) /\ p # q
    <3>1. b1[p] = {}
      BY <2>6, <2>8, <2>12
    <3>2. b2[p] = IF p = r - 1 THEN Final ELSE {}
      BY <1>3, <2>7, <3>1
    <3>3. p = r - 1 => p < r
      BY <1>0
    <3> QED
      BY <2>2, <2>5, <2>12, <3>2, <3>3
  <2> QED
    BY <2>10, <2>11, <2>12
<1>7. b2 = BlockNo(md, m, L, c + 1)
  <2>1. b2 = [p \in Index |-> b2[p]]
    OBVIOUS
  <2> HIDE DEF b2, r
  <2>2. [p \in Index |-> b2[p]]
        = [p \in Index |-> IF p < r THEN PaddedByte(md, m, L, (c + 1 - 1) * r + p) ELSE {}]
    BY <1>6
  <2> QED
    BY <1>5, <2>1, <2>2
<1>8. XorInto([permuted |-> P, block |-> b], q, Dom) = [permuted |-> P, block |-> b1]
  <2> HIDE DEF b
  <2> QED
    BY <1>0, <1>1, XorIntoIs
<1>9. XorInto([permuted |-> P, block |-> b1], r - 1, Final) = [permuted |-> P, block |-> b2]
  <2> HIDE DEF b1, r
  <2> QED
    BY <1>0, <1>1, XorIntoIs
<1> QED
  BY <1>7, <1>8, <1>9

--------------------------------------------------------------------------------
(***************************************************************************)
(* What is permuted, the rounds applied and the digest, element by element.*)
(***************************************************************************)
\* A sequence is made longer by its next element.
LEMMA AppendNext ==
  ASSUME NEW n \in Nat, NEW f
  PROVE  Append([k \in 1 .. n |-> f[k]], f[n + 1]) = [k \in 1 .. n + 1 |-> f[k]]
<1> DEFINE S == {f[k] : k \in 1 .. n + 1}
           s == [k \in 1 .. n |-> f[k]]
           t == [k \in 1 .. n + 1 |-> f[k]]
<1>1. s \in Seq(S) /\ Len(s) = n
  OBVIOUS
<1>2. t \in Seq(S) /\ Len(t) = n + 1
  OBVIOUS
<1>3. f[n + 1] \in S
  OBVIOUS
<1>4. \A k \in 1 .. n : s[k] = f[k]
  OBVIOUS
<1>5. \A k \in 1 .. n + 1 : t[k] = f[k]
  OBVIOUS
<1> HIDE DEF S, s, t
<1>6. /\ Append(s, f[n + 1]) \in Seq(S)
      /\ Len(Append(s, f[n + 1])) = n + 1
      /\ \A k \in 1 .. n : Append(s, f[n + 1])[k] = f[k]
      /\ Append(s, f[n + 1])[n + 1] = f[n + 1]
  BY <1>1, <1>3, <1>4, AppendProperties
<1>7. \A k \in 1 .. n + 1 : Append(s, f[n + 1])[k] = t[k]
  BY <1>5, <1>6
<1>8. Append(s, f[n + 1]) = t
  BY <1>2, <1>6, <1>7, SeqEqual
<1> QED
  BY <1>8 DEF s, t

LEMMA NothingYet ==
  ASSUME NEW f
  PROVE  [k \in 1 .. 0 |-> f[k]] = << >>
  OBVIOUS

LEMMA PrefixGrows ==
  ASSUME NEW md, NEW m, NEW L, NEW c \in Nat
  PROVE  /\ Append(Prefix(md, m, L, c), BlockNo(md, m, L, c + 1)) = Prefix(md, m, L, c + 1)
         /\ Prefix(md, m, L, 0) = << >>
<1> DEFINE f == [k \in Nat |-> BlockNo(md, m, L, k)]
<1>1. \A n \in Nat : Prefix(md, m, L, n) = [k \in 1 .. n |-> f[k]]
  BY DEF Prefix
<1>2. BlockNo(md, m, L, c + 1) = f[c + 1]
  OBVIOUS
<1>3. 0 \in Nat /\ c + 1 \in Nat
  OBVIOUS
<1> HIDE DEF f
<1>4. Append([k \in 1 .. c |-> f[k]], f[c + 1]) = [k \in 1 .. c + 1 |-> f[k]]
  BY AppendNext
<1>5. [k \in 1 .. 0 |-> f[k]] = << >>
  BY NothingYet
<1>6. Prefix(md, m, L, 0) = << >>
  BY <1>1, <1>3, <1>5
<1>7. Prefix(md, m, L, c) = [k \in 1 .. c |-> f[k]]
  BY <1>1
<1>8. Prefix(md, m, L, c + 1) = [k \in 1 .. c + 1 |-> f[k]]
  BY <1>1, <1>3
<1> QED
  BY <1>2, <1>4, <1>6, <1>7, <1>8

LEMMA RoundsGrow ==
  ASSUME NEW n \in Nat
  PROVE  /\ Append(RoundsUpTo(n), n) = RoundsUpTo(n + 1)
         /\ RoundsUpTo(1) = <<0>>
         /\ RoundsUpTo(Rounds) = AllRounds
<1> DEFINE f == [k \in Nat |-> k - 1]
<1>1. \A i \in Nat : RoundsUpTo(i) = [k \in 1 .. i |-> f[k]]
  BY DEF RoundsUpTo
<1>2. n = f[n + 1] /\ n + 1 \in Nat
  OBVIOUS
<1> HIDE DEF f
<1>3. Append([k \in 1 .. n |-> f[k]], f[n + 1]) = [k \in 1 .. n + 1 |-> f[k]]
  BY AppendNext
<1>4. RoundsUpTo(1) = <<0>>
  BY DEF RoundsUpTo
<1> QED
  BY <1>1, <1>2, <1>3, <1>4 DEF AllRounds, RoundsUpTo

LEMMA DigestGrows ==
  ASSUME NEW md, NEW m, NEW L, NEW n \in Nat
  PROVE  /\ Append(Digest(md, m, L, n), DigestByte(md, m, L, n)) = Digest(md, m, L, n + 1)
         /\ Digest(md, m, L, 0) = << >>
         /\ Len(Digest(md, m, L, n)) = n
<1> DEFINE f == [k \in Nat |-> DigestByte(md, m, L, k - 1)]
<1>1. \A i \in Nat : Digest(md, m, L, i) = [k \in 1 .. i |-> f[k]]
  BY DEF Digest
<1>2. DigestByte(md, m, L, n) = f[n + 1]
  <2>1. n + 1 - 1 = n /\ n + 1 \in Nat
    OBVIOUS
  <2> QED
    BY <2>1
<1>3. 0 \in Nat /\ n + 1 \in Nat
  OBVIOUS
<1> HIDE DEF f
<1>4. Append([k \in 1 .. n |-> f[k]], f[n + 1]) = [k \in 1 .. n + 1 |-> f[k]]
  BY AppendNext
<1>5. [k \in 1 .. 0 |-> f[k]] = << >>
  BY NothingYet
<1>6. Digest(md, m, L, 0) = << >>
  BY <1>1, <1>3, <1>5
<1>7. Digest(md, m, L, n) = [k \in 1 .. n |-> f[k]]
  BY <1>1
<1>8. Digest(md, m, L, n + 1) = [k \in 1 .. n + 1 |-> f[k]]
  BY <1>1, <1>3
<1>9. Len([k \in 1 .. n |-> f[k]]) = n
  OBVIOUS
<1> QED
  BY <1>2, <1>4, <1>6, <1>7, <1>8, <1>9

\* What the sponge shows of its state is the byte the reference has there.
LEMMA SqueezedByte ==
  ASSUME NEW md \in Modes, NEW m, NEW L \in Nat, NEW N, NEW c \in Nat, NEW t, NEW g \in Nat,
         Squeezing(md, m, L, N, c, t, g)
  PROVE  DigestByte(md, m, L, g) = [permuted |-> Prefix(md, m, L, c), byte |-> squeezePos, over |-> {}]
<1>0. PICK q \in 0 .. Rate[md] - 1 :
        q = squeezePos /\ c >= NumBlocks(md, L) /\ g = (c - NumBlocks(md, L)) * Rate[md] + q
  BY DEF Squeezing
<1>1. PICK n \in Nat : n = NumBlocks(md, L)
  BY BlocksReachBeyond
<1>2. PICK z \in Nat : z = c - n
  BY <1>0, <1>1
<1>3. g \div Rate[md] = z /\ g % Rate[md] = q
  <2>1. g = z * Rate[md] + q
    BY <1>0, <1>1, <1>2
  <2> QED
    BY <2>1, DivisionIs, RateType
<1>4. Blocks(md, m, L) = Prefix(md, m, L, n)
  <2>1. Prefix(md, m, L, n)
        = [k \in 1 .. n |-> [p \in Index |-> IF p < Rate[md] THEN PaddedByte(md, m, L, (k - 1) * Rate[md] + p) ELSE {}]]
    BY <1>1 DEF Prefix, BlockNo
  <2> QED
    BY <1>1, <2>1 DEF Blocks, PaddedByte, NumBlocks
<1>5. Prefix(md, m, L, n) \o [k \in 1 .. z |-> ZeroBlock] = Prefix(md, m, L, c)
  <2> DEFINE S == {BlockNo(md, m, L, k) : k \in 1 .. c} \cup {ZeroBlock}
             s == Prefix(md, m, L, n)
             e == [k \in 1 .. z |-> ZeroBlock]
             w == Prefix(md, m, L, c)
  <2>0. c = n + z /\ n <= c
    BY <1>1, <1>2
  <2>1. s \in Seq(S) /\ Len(s) = n
    BY <2>0 DEF Prefix
  <2>2. e \in Seq(S) /\ Len(e) = z
    OBVIOUS
  <2>3. w \in Seq(S) /\ Len(w) = n + z
    BY <2>0 DEF Prefix
  <2>4. ASSUME NEW i \in 1 .. n + z
        PROVE  w[i] = IF i <= n THEN s[i] ELSE e[i - n]
    <3>1. w[i] = BlockNo(md, m, L, i)
      BY <2>0 DEF Prefix
    <3>2. CASE i <= n
      BY <3>1, <3>2 DEF Prefix
    <3>3. CASE ~(i <= n)
      <4>1. BlockNo(md, m, L, i) = ZeroBlock
        BY <1>1, <3>3 DEF BlockNo
      <4>2. i - n \in 1 .. z
        BY <3>3
      <4> QED
        BY <3>1, <3>3, <4>1, <4>2
    <3> QED
      BY <3>2, <3>3
  <2> HIDE DEF S, s, e, w
  <2>5. /\ s \o e \in Seq(S)
        /\ Len(s \o e) = n + z
        /\ \A i \in 1 .. n + z : (s \o e)[i] = IF i <= n THEN s[i] ELSE e[i - n]
    BY <2>1, <2>2, ConcatProperties, ZenonT(30)
  <2>6. \A i \in 1 .. n + z : (s \o e)[i] = w[i]
    BY <2>4, <2>5
  <2>7. s \o e = w
    BY <2>3, <2>5, <2>6, SeqEqual
  <2> QED
    BY <2>7 DEF s, e, w
<1> QED
  BY <1>0, <1>3, <1>4, <1>5 DEF DigestByte

--------------------------------------------------------------------------------
(***************************************************************************)
(* A transaction, clock by clock: one lemma for each state of the FSM.     *)
(***************************************************************************)
LEMMA TransactionStarts ==
  ASSUME NEW md \in Modes, NEW m, NEW L \in Nat, NEW N \in Nat, SpStart(md, L, N)
  PROVE  Transaction(md, m, L, N, 0, 0)'
<1>0. Rate[md] \in Nat /\ Rate[md] >= 1
  BY RateType
<1>1. Prefix(md, m, L, 0) = << >>
  BY PrefixGrows
<1>2. Filled(md, m, 0, 0) = ZeroBlock
  BY DEF Filled, ZeroBlock, Index
<1>3. Absorbing(md, m, L, 0, 0, 0)'
  BY <1>0, <1>1, <1>2 DEF SpStart, Absorbing, Holds, Zeroed
<1>4. spState' = (IF L = 0 THEN "ST_PAD" ELSE "ST_ABSORB")
  BY DEF SpStart, SpGoto
<1>5. spMode' = md /\ msgRemaining' = L - 0 /\ outRemaining' = N - 0 /\ ~spDone'
  BY DEF SpStart, Quiet
<1>6. TransactionAt(md, m, L, N, 0, 0, 0)'
  BY <1>3, <1>4, <1>5 DEF TransactionAt, InTransaction, SpongeStates
<1> QED
  BY <1>6 DEF Transaction

LEMMA AbsorbClock ==
  ASSUME NEW md \in Modes, NEW m, NEW L \in Nat, NEW N \in Nat, NEW c \in Nat, NEW t \in Nat, NEW g \in Nat,
         NEW inValid \in BOOLEAN, NEW byte, NEW t2,
         TransactionAt(md, m, L, N, c, t, g), SpAbsorb(inValid, byte),
         t2 = IF inValid THEN t + 1 ELSE t,
         inValid => byte = ByteOf(m, t)
  PROVE  inReady /\ Transaction(md, m, L, N, t2, g)'
<1> DEFINE r == Rate[md]
<1>0. r \in Nat /\ r >= 1
  BY RateType
<1>1. spState = "ST_ABSORB" /\ spMode = md
  BY DEF SpAbsorb, SpAbsorbWith, TransactionAt
<1>2. t < L /\ g = 0 /\ msgRemaining = L - t /\ outRemaining = N - g
  BY <1>1 DEF TransactionAt, Absorbing
<1>3. inReady
  BY <1>1, <1>2 DEF inReady
<1>4. absorbPos \in 0 .. r - 1 /\ t = c * r + absorbPos
  BY <1>1 DEF TransactionAt, Absorbing
<1>5. sponge = [permuted |-> Prefix(md, m, L, c), block |-> Filled(md, m, c, absorbPos)]
  BY <1>1 DEF TransactionAt, Absorbing, Holds
<1>6. ~spDone' /\ spMode' = md
  BY <1>1 DEF SpAbsorb, SpAbsorbWith, Quiet
<1>7. CASE ~inValid
  <2>1. UNCHANGED <<spState, reason, countVars, sponge, spMode>>
    BY <1>7 DEF SpAbsorb, SpAbsorbWith
  <2>2. TransactionAt(md, m, L, N, c, t2, g)'
    BY <1>1, <1>2, <1>4, <1>5, <1>6, <1>7, <2>1
    DEF TransactionAt, InTransaction, SpongeStates, Absorbing, Holds, countVars
  <2> QED
    BY <1>3, <2>2 DEF Transaction
<1>8. CASE inValid
  <2>0. t2 = t + 1 /\ t2 \in Nat
    BY <1>8
  <2>1. sponge' = XorInto(sponge, absorbPos, byte) /\ msgRemaining' = L - t2 /\ outRemaining' = N - g
    BY <1>2, <1>3, <1>8, <2>0 DEF SpAbsorb, SpAbsorbWith
  <2>2. sponge' = [permuted |-> Prefix(md, m, L, c), block |-> Filled(md, m, c, absorbPos + 1)]
    <3>1. byte = ByteOf(m, c * r + absorbPos)
      BY <1>4, <1>8
    <3> QED
      BY <1>4, <1>5, <2>1, <3>1, ByteAbsorbed
  <2>3. msgRemaining = 1 <=> t2 = L
    BY <1>2, <2>0
  <2>4. CASE absorbPos = r - 1
    <3>1. /\ spState' = "ST_PERM_START"
          /\ reason' = IF msgRemaining = 1 THEN "PAD_EXTRA" ELSE "ABSORB_CONT"
      BY <1>1, <1>3, <1>8, <2>4 DEF SpAbsorb, SpAbsorbWith, SpGoto, lastByte
    <3>2. t2 = (c + 1) * r
      <4>1. (c + 1) * r = c * r + r /\ c * r \in Nat
        BY <1>0
      <4> QED
        BY <1>0, <1>4, <2>0, <2>4, <4>1
    <3>3. Filled(md, m, c, absorbPos + 1) = BlockNo(md, m, L, c + 1)
      <4>1. absorbPos + 1 = r
        BY <1>0, <2>4
      <4>2. (c + 1) * r <= L
        BY <1>2, <2>0, <3>2
      <4> QED
        BY <4>1, <4>2, FullBlock
    <3>4. t2 # L => t2 < L
      BY <1>2, <2>0
    <3>5. Permuting(md, m, L, N, c, t2, g)'
      BY <1>2, <2>2, <2>3, <3>1, <3>2, <3>3, <3>4 DEF Permuting, Holds
    <3>6. TransactionAt(md, m, L, N, c, t2, g)'
      BY <1>6, <2>1, <3>1, <3>5 DEF TransactionAt, InTransaction, SpongeStates
    <3> QED
      BY <1>3, <3>6 DEF Transaction
  <2>5. CASE absorbPos # r - 1
    <3>1. absorbPos' = absorbPos + 1 /\ spState' = IF msgRemaining = 1 THEN "ST_PAD" ELSE spState
      BY <1>1, <1>3, <1>8, <2>5 DEF SpAbsorb, SpAbsorbWith, lastByte
    <3>2. absorbPos' \in 0 .. r - 1 /\ t2 = c * r + absorbPos'
      <4>1. c * r \in Nat
        BY <1>0
      <4> HIDE DEF r
      <4> QED
        BY <1>0, <1>4, <2>0, <2>5, <3>1, <4>1
    <3>3. Absorbing(md, m, L, c, t2, g)'
      BY <1>2, <2>2, <3>1, <3>2 DEF Absorbing, Holds
    <3>4. t2 # L => t2 < L
      BY <1>2, <2>0
    <3>5. TransactionAt(md, m, L, N, c, t2, g)'
      BY <1>1, <1>6, <2>1, <2>3, <3>1, <3>3, <3>4 DEF TransactionAt, InTransaction, SpongeStates
    <3> QED
      BY <1>3, <3>5 DEF Transaction
  <2> QED
    BY <2>4, <2>5
<1> QED
  BY <1>7, <1>8

LEMMA PadClock ==
  ASSUME NEW md \in Modes, NEW m, NEW L \in Nat, NEW N \in Nat, NEW c \in Nat, NEW t \in Nat, NEW g \in Nat,
         TransactionAt(md, m, L, N, c, t, g), SpPad
  PROVE  Transaction(md, m, L, N, t, g)'
<1>1. spState = "ST_PAD" /\ spMode = md
  BY DEF SpPad, TransactionAt
<1>2. t = L /\ g = 0 /\ Absorbing(md, m, L, c, t, g)
  BY <1>1 DEF TransactionAt, Absorbing
<1>3. sponge' = [permuted |-> Prefix(md, m, L, c), block |-> BlockNo(md, m, L, c + 1)]
  <2>1. sponge = [permuted |-> Prefix(md, m, L, c), block |-> Filled(md, m, c, absorbPos)]
    BY <1>2 DEF Absorbing, Holds
  <2>2. sponge' = XorInto(XorInto(sponge, absorbPos, Dom), Rate[md] - 1, Final)
    BY <1>1 DEF SpPad, lastByte
  <2>3. absorbPos \in 0 .. Rate[md] - 1 /\ L = c * Rate[md] + absorbPos
    BY <1>2 DEF Absorbing
  <2> QED
    BY <2>1, <2>2, <2>3, BlockPadded
<1>4. c + 1 = NumBlocks(md, L)
  BY <1>2, LastBlockNo DEF Absorbing
<1>5. spState' = "ST_PERM_START" /\ reason' = "FINAL" /\ ~spDone' /\ spMode' = md
      /\ msgRemaining' = msgRemaining /\ outRemaining' = outRemaining
  BY <1>1 DEF SpPad, SpGoto, Quiet, countVars
<1>6. Permuting(md, m, L, N, c, t, g)'
  BY <1>2, <1>3, <1>4, <1>5 DEF Permuting, Holds
<1>7. TransactionAt(md, m, L, N, c, t, g)'
  BY <1>5, <1>6 DEF TransactionAt, InTransaction, SpongeStates
<1> QED
  BY <1>7 DEF Transaction

LEMMA PermStartClock ==
  ASSUME NEW md \in Modes, NEW m, NEW L \in Nat, NEW N \in Nat, NEW c \in Nat, NEW t \in Nat, NEW g \in Nat,
         TransactionAt(md, m, L, N, c, t, g), SpPermStart
  PROVE  Transaction(md, m, L, N, t, g)'
<1>1. spState = "ST_PERM_START" /\ Permuting(md, m, L, N, c, t, g)
  BY DEF SpPermStart, TransactionAt
<1>2. /\ spState' = "ST_PERMUTE" /\ permActive' /\ permInput' = sponge /\ round' = 0 /\ ~spDone'
      /\ UNCHANGED <<spMode, reason, msgRemaining, outRemaining, sponge>>
  BY DEF SpPermStart, SpGoto, Quiet, modeVars, countVars
<1>3. Permuting(md, m, L, N, c, t, g)'
  BY <1>1, <1>2 DEF Permuting, Holds
<1>4. 0 \in 0 .. Rounds - 1
  BY SpongeParameters
<1>5. TransactionAt(md, m, L, N, c, t, g)'
  BY <1>2, <1>3, <1>4 DEF TransactionAt, InTransaction, SpongeStates
<1> QED
  BY <1>5 DEF Transaction

LEMMA PermuteClock ==
  ASSUME NEW md \in Modes, NEW m, NEW L \in Nat, NEW N \in Nat, NEW c \in Nat, NEW t \in Nat, NEW g \in Nat,
         TransactionAt(md, m, L, N, c, t, g), SpPermute, Algorithm
  PROVE  Transaction(md, m, L, N, t, g)'
<1>1. spState = "ST_PERMUTE" /\ Permuting(md, m, L, N, c, t, g)
  BY DEF SpPermute, TransactionAt
<1>2. permActive /\ permInput = sponge /\ round \in 0 .. Rounds - 1 /\ (round > 0 => Rounded(round))
  BY <1>1 DEF TransactionAt
<1>3. /\ spState' = (IF round = Rounds - 1 THEN "ST_PERM_CAPTURE" ELSE "ST_PERMUTE")
      /\ round' = round + 1 /\ ~spDone'
      /\ UNCHANGED <<spMode, reason, msgRemaining, outRemaining, sponge, permInput, permActive>>
  BY DEF SpPermute, SpGoto, Quiet, modeVars, countVars
<1>4. Permuting(md, m, L, N, c, t, g)'
  BY <1>1, <1>3 DEF Permuting, Holds
<1>5. algo' = [of |-> sponge, rounds |-> RoundsUpTo(round + 1)]
  <2>1. CASE round = 0
    BY <1>2, <2>1, RoundsGrow DEF Algorithm
  <2>2. CASE round # 0
    <3>1. round \in Nat /\ round > 0
      BY <1>2, <2>2, SpongeParameters
    <3>2. algo = [of |-> sponge, rounds |-> RoundsUpTo(round)]
      BY <1>2, <3>1 DEF Rounded
    <3>3. algo' = [algo EXCEPT !.rounds = Append(@, round)]
      BY <1>2, <2>2 DEF Algorithm
    <3>4. algo' = [of |-> sponge, rounds |-> Append(RoundsUpTo(round), round)]
      BY <3>2, <3>3
    <3> QED
      BY <3>1, <3>4, RoundsGrow
  <2> QED
    BY <2>1, <2>2
<1>6. round' \in Nat /\ (round = Rounds - 1 => round' = Rounds) /\ (round # Rounds - 1 => round' \in 0 .. Rounds - 1)
  BY <1>2, <1>3, SpongeParameters
<1>7. TransactionAt(md, m, L, N, c, t, g)'
  <2>1. algo' = [of |-> sponge', rounds |-> RoundsUpTo(round')]
    BY <1>3, <1>5
  <2>2. CASE round = Rounds - 1
    <3>1. Rounded(Rounds)'
      BY <1>6, <2>1, <2>2 DEF Rounded
    <3>2. spState' = "ST_PERM_CAPTURE"
      BY <1>3, <2>2
    <3> QED
      BY <1>3, <1>4, <3>1, <3>2 DEF TransactionAt, InTransaction, SpongeStates
  <2>3. CASE round # Rounds - 1
    <3>1. Rounded(round)'
      BY <2>1 DEF Rounded
    <3>2. spState' = "ST_PERMUTE" /\ permActive' /\ permInput' = sponge' /\ round' \in 0 .. Rounds - 1
      BY <1>2, <1>3, <1>6, <2>3
    <3> QED
      BY <1>3, <1>4, <3>1, <3>2 DEF TransactionAt, InTransaction, SpongeStates
  <2> QED
    BY <2>2, <2>3
<1> QED
  BY <1>7 DEF Transaction

LEMMA CaptureClock ==
  ASSUME NEW md \in Modes, NEW m, NEW L \in Nat, NEW N \in Nat, NEW c \in Nat, NEW t \in Nat, NEW g \in Nat,
         TransactionAt(md, m, L, N, c, t, g), SpCapture
  PROVE  Transaction(md, m, L, N, t, g)'
<1> DEFINE r == Rate[md]
<1>0. r \in Nat /\ r >= 1 /\ 0 \in 0 .. r - 1
  BY RateType
<1>1. spState = "ST_PERM_CAPTURE" /\ Permuting(md, m, L, N, c, t, g) /\ Rounded(Rounds)
  BY DEF SpCapture, TransactionAt
<1>2. sponge' = [permuted |-> Prefix(md, m, L, c + 1), block |-> ZeroBlock]
  <2>1. sponge = [permuted |-> Prefix(md, m, L, c), block |-> BlockNo(md, m, L, c + 1)]
    BY <1>1 DEF Permuting, Holds
  <2>2. algo.rounds = AllRounds /\ algo.of = sponge
    BY <1>1, RoundsGrow DEF Rounded
  <2>3. sponge' = [permuted |-> Append(sponge.permuted, sponge.block), block |-> ZeroBlock]
    BY <2>2 DEF SpCapture, AlgoOut
  <2> QED
    BY <2>1, <2>3, PrefixGrows
<1>3. Filled(md, m, c + 1, 0) = ZeroBlock
  BY DEF Filled, ZeroBlock, Index
<1>4. ~spDone' /\ UNCHANGED <<spMode, reason, msgRemaining, outRemaining>>
  BY DEF SpCapture, Quiet, modeVars
<1>5. spMode' = md /\ msgRemaining' = L - t /\ outRemaining' = N - g
  BY <1>4 DEF TransactionAt
<1>6. c + 1 \in Nat
  OBVIOUS
<1>7. CASE reason \in {"ABSORB_CONT", "PAD_EXTRA"}
  <2>1. g = 0 /\ t = (c + 1) * r /\ (reason = "ABSORB_CONT" => t < L) /\ (reason = "PAD_EXTRA" => t = L)
    BY <1>1, <1>7 DEF Permuting
  <2>2. spState' = (IF reason = "ABSORB_CONT" THEN "ST_ABSORB" ELSE "ST_PAD") /\ absorbPos' = 0
    BY <1>7 DEF SpCapture, SpGoto
  <2>3. t = (c + 1) * r + 0
    BY <1>0, <2>1
  <2>4. Absorbing(md, m, L, c + 1, t, g)'
    BY <1>0, <1>2, <1>3, <2>1, <2>2, <2>3 DEF Absorbing, Holds
  <2>5. TransactionAt(md, m, L, N, c + 1, t, g)'
    BY <1>4, <1>5, <1>7, <2>1, <2>2, <2>4 DEF TransactionAt, InTransaction, SpongeStates
  <2> QED
    BY <1>6, <2>5 DEF Transaction
<1>8. CASE reason = "FINAL" /\ N - g = 0
  <2>1. spState' = "ST_DONE"
    BY <1>8 DEF SpCapture, SpGoto, TransactionAt
  <2>2. t = L /\ g = N
    BY <1>1, <1>8 DEF Permuting
  <2>3. TransactionAt(md, m, L, N, c + 1, t, g)'
    BY <1>4, <1>5, <2>1, <2>2 DEF TransactionAt, InTransaction, SpongeStates
  <2> QED
    BY <1>6, <2>3 DEF Transaction
<1>9. CASE reason = "SQUEEZE" \/ (reason = "FINAL" /\ N - g # 0)
  <2>1. spState' = "ST_SQUEEZE" /\ squeezePos' = 0
    BY <1>9 DEF SpCapture, SpGoto, TransactionAt
  <2>2. PICK n \in Nat : n = NumBlocks(md, L)
    BY BlocksReachBeyond
  <2>3. t = L /\ g < N /\ c + 1 >= n /\ g = (c + 1 - n) * r
    <3>1. CASE reason = "SQUEEZE"
      BY <1>1, <2>2, <3>1 DEF Permuting
    <3>2. CASE reason = "FINAL" /\ N - g # 0
      <4>1. g = 0 /\ t = L /\ c + 1 = n
        BY <1>1, <2>2, <3>2 DEF Permuting
      <4>2. (c + 1 - n) * r = 0
        BY <1>0, <4>1
      <4> QED
        BY <3>2, <4>1, <4>2
    <3> QED
      BY <1>9, <3>1, <3>2
  <2>4. g = (c + 1 - n) * r + 0
    BY <1>0, <2>3
  <2>5. Squeezing(md, m, L, N, c + 1, t, g)'
    BY <1>0, <1>2, <2>1, <2>2, <2>3, <2>4 DEF Squeezing, Holds
  <2>6. TransactionAt(md, m, L, N, c + 1, t, g)'
    BY <1>4, <1>5, <2>1, <2>5 DEF TransactionAt, InTransaction, SpongeStates
  <2> QED
    BY <1>6, <2>6 DEF Transaction
<1> QED
  BY <1>1, <1>7, <1>8, <1>9 DEF Permuting

LEMMA SqueezeClock ==
  ASSUME NEW md \in Modes, NEW m, NEW L \in Nat, NEW N \in Nat, NEW c \in Nat, NEW t \in Nat, NEW g \in Nat,
         NEW outReady \in BOOLEAN, NEW g2,
         TransactionAt(md, m, L, N, c, t, g), SpSqueeze(outReady),
         g2 = IF outReady THEN g + 1 ELSE g
  PROVE  /\ outValid
         /\ outData = DigestByte(md, m, L, g)
         /\ outLast <=> g + 1 = N
         /\ Transaction(md, m, L, N, t, g2)'
<1> DEFINE r == Rate[md]
<1>0. r \in Nat /\ r >= 1
  BY RateType
<1>1. spState = "ST_SQUEEZE" /\ spMode = md /\ Squeezing(md, m, L, N, c, t, g)
  BY DEF SpSqueeze, TransactionAt
<1>2. PICK n \in Nat : n = NumBlocks(md, L)
  BY BlocksReachBeyond
<1>3. /\ t = L /\ g < N /\ c >= n
      /\ squeezePos \in 0 .. r - 1
      /\ g = (c - n) * r + squeezePos
      /\ sponge = [permuted |-> Prefix(md, m, L, c), block |-> ZeroBlock]
  BY <1>1, <1>2 DEF Squeezing, Holds
<1>4. msgRemaining = L - t /\ outRemaining = N - g
  BY DEF TransactionAt
<1>5. outValid
  BY <1>1, <1>3, <1>4 DEF outValid
<1>6. outLast <=> g + 1 = N
  BY <1>3, <1>4, <1>5 DEF outLast
<1>7. outData = DigestByte(md, m, L, g)
  <2>1. squeezePos \in Index
    BY <1>3, RateType
  <2>2. sponge.block[squeezePos] = {} /\ sponge.permuted = Prefix(md, m, L, c)
    BY <1>3, <2>1 DEF ZeroBlock
  <2>3. outData = [permuted |-> Prefix(md, m, L, c), byte |-> squeezePos, over |-> {}]
    BY <2>2 DEF outData
  <2>4. DigestByte(md, m, L, g) = [permuted |-> Prefix(md, m, L, c), byte |-> squeezePos, over |-> {}]
    BY <1>1, SqueezedByte
  <2> QED
    BY <2>3, <2>4
<1>8. ~spDone' /\ UNCHANGED <<spMode, sponge>>
  BY DEF SpSqueeze, Quiet
<1>9. CASE ~outReady
  <2>1. UNCHANGED <<spState, reason, countVars>>
    BY <1>9 DEF SpSqueeze
  <2>2. TransactionAt(md, m, L, N, c, t, g2)'
    BY <1>1, <1>4, <1>8, <1>9, <2>1
    DEF TransactionAt, InTransaction, SpongeStates, Squeezing, Holds, countVars
  <2> QED
    BY <1>5, <1>6, <1>7, <2>2 DEF Transaction
<1>10. CASE outReady
  <2>0. g2 = g + 1 /\ g2 \in Nat
    BY <1>10
  <2>1. outRemaining' = N - g2 /\ msgRemaining' = L - t
    BY <1>3, <1>4, <1>5, <1>10, <2>0 DEF SpSqueeze
  <2>2. outRemaining = 1 <=> g2 = N
    BY <1>3, <1>4, <2>0
  <2>3. CASE outRemaining = 1
    <3>1. spState' = "ST_DONE"
      BY <1>5, <1>10, <2>3 DEF SpSqueeze, SpGoto
    <3>2. TransactionAt(md, m, L, N, c, t, g2)'
      BY <1>1, <1>3, <1>8, <2>1, <2>2, <2>3, <3>1 DEF TransactionAt, InTransaction, SpongeStates
    <3> QED
      BY <1>5, <1>6, <1>7, <3>2 DEF Transaction
  <2>4. CASE outRemaining # 1 /\ squeezePos = r - 1
    <3>1. spState' = "ST_PERM_START" /\ reason' = "SQUEEZE"
      BY <1>1, <1>5, <1>10, <2>4 DEF SpSqueeze, SpGoto, lastByte
    <3>2. g2 < N
      BY <1>3, <2>0, <2>2, <2>4
    <3>3. c + 1 > n /\ g2 = (c + 1 - n) * r
      <4>1. PICK z \in Nat : z = c - n
        BY <1>3
      <4>2. c + 1 - n = z + 1 /\ (z + 1) * r = z * r + r /\ z * r \in Nat
        BY <1>0, <4>1
      <4>3. g = z * r + (r - 1)
        BY <1>3, <2>4, <4>1
      <4> HIDE DEF r
      <4>4. g2 = (z + 1) * r
        BY <1>0, <2>0, <4>2, <4>3
      <4> QED
        BY <1>3, <4>2, <4>4
    <3>4. BlockNo(md, m, L, c + 1) = ZeroBlock
      BY <1>2, <3>3 DEF BlockNo
    <3>5. Permuting(md, m, L, N, c, t, g2)'
      BY <1>2, <1>3, <1>8, <3>1, <3>2, <3>3, <3>4 DEF Permuting, Holds
    <3>6. TransactionAt(md, m, L, N, c, t, g2)'
      BY <1>1, <1>8, <2>1, <3>1, <3>5 DEF TransactionAt, InTransaction, SpongeStates
    <3> QED
      BY <1>5, <1>6, <1>7, <3>6 DEF Transaction
  <2>5. CASE outRemaining # 1 /\ squeezePos # r - 1
    <3>1. spState' = spState /\ squeezePos' = squeezePos + 1
      BY <1>1, <1>5, <1>10, <2>5 DEF SpSqueeze, lastByte
    <3>2. g2 < N
      BY <1>3, <2>0, <2>2, <2>5
    <3>3. squeezePos' \in 0 .. r - 1 /\ g2 = (c - n) * r + squeezePos'
      <4>1. PICK y \in Int : y = (c - n) * r
        BY <1>0
      <4> HIDE DEF r
      <4> QED
        BY <1>0, <1>3, <2>0, <2>5, <3>1, <4>1
    <3>4. Squeezing(md, m, L, N, c, t, g2)'
      BY <1>2, <1>3, <1>8, <3>2, <3>3 DEF Squeezing, Holds
    <3>5. TransactionAt(md, m, L, N, c, t, g2)'
      BY <1>1, <1>8, <2>1, <3>1, <3>4 DEF TransactionAt, InTransaction, SpongeStates
    <3> QED
      BY <1>5, <1>6, <1>7, <3>5 DEF Transaction
  <2> QED
    BY <2>3, <2>4, <2>5
<1> QED
  BY <1>9, <1>10

LEMMA FinishClock ==
  ASSUME NEW md \in Modes, NEW m, NEW L \in Nat, NEW N \in Nat, NEW c \in Nat, NEW t \in Nat, NEW g \in Nat,
         TransactionAt(md, m, L, N, c, t, g), SpFinish
  PROVE  spState = "ST_DONE" /\ spState' = "ST_IDLE" /\ spDone' /\ ~spError' /\ t = L /\ g = N
  BY DEF TransactionAt, SpFinish, SpGoto

\* One clock edge of a transaction: it goes on with the byte that was taken or
\* given, or is done with all of them.
LEMMA TransactionClock ==
  ASSUME NEW md \in Modes, NEW m, NEW L \in Nat, NEW N \in Nat, NEW t \in Nat, NEW g \in Nat,
         NEW start, NEW mode, NEW msgLen, NEW outLen, NEW inValid \in BOOLEAN, NEW byte, NEW outReady \in BOOLEAN,
         NEW t2, NEW g2,
         Transaction(md, m, L, N, t, g),
         SpongeClock(start, mode, msgLen, outLen, inValid, byte, outReady),
         inValid => byte = ByteOf(m, t),
         t2 = IF inValid /\ inReady THEN t + 1 ELSE t,
         g2 = IF outValid /\ outReady THEN g + 1 ELSE g
  PROVE  /\ InTransaction
         /\ inReady => t < L
         /\ outValid => outData = DigestByte(md, m, L, g) /\ g < N /\ (outLast <=> g + 1 = N)
         /\ \/ Transaction(md, m, L, N, t2, g2)'
            \/ spState' = "ST_IDLE" /\ spDone' /\ ~spError' /\ t = L /\ g = N /\ t2 = t /\ g2 = g
<1>1. PICK c \in Nat : TransactionAt(md, m, L, N, c, t, g)
  BY DEF Transaction
<1>2. InTransaction /\ spState \in SpongeStates
  BY <1>1 DEF TransactionAt
<1>3. inReady => spState = "ST_ABSORB" /\ t < L
  BY <1>1 DEF TransactionAt, inReady
<1>4. outValid => spState = "ST_SQUEEZE" /\ g < N
  BY <1>1 DEF TransactionAt, outValid, Squeezing
<1>5. spState # "ST_ABSORB" => t2 = t
  BY <1>3
<1>6. spState # "ST_SQUEEZE" => g2 = g /\ ~outValid
  BY <1>4
<1>7. ~SpResetClear /\ ~SpIdle /\ ~SpRefuse(mode, outLen) /\ ~SpStart(mode, msgLen, outLen)
  BY <1>2 DEF InTransaction, SpResetClear, SpIdle, SpRefuse, SpStart
<1>8. CASE SpAbsorb(inValid, byte)
  <2>1. spState = "ST_ABSORB"
    BY <1>8 DEF SpAbsorb, SpAbsorbWith
  <2>2. inReady
    <3>1. t < L /\ msgRemaining = L - t
      BY <1>1, <2>1 DEF TransactionAt
    <3> QED
      BY <2>1, <3>1 DEF inReady
  <2>3. t2 = IF inValid THEN t + 1 ELSE t
    BY <2>2
  <2>4. Transaction(md, m, L, N, t2, g)'
    BY <1>1, <1>8, <2>3, AbsorbClock
  <2>5. g2 = g /\ ~outValid
    BY <1>6, <2>1
  <2> QED
    BY <1>2, <1>3, <2>4, <2>5
<1>9. CASE SpPad
  <2>1. Transaction(md, m, L, N, t, g)'
    BY <1>1, <1>9, PadClock
  <2>2. spState = "ST_PAD"
    BY <1>9 DEF SpPad
  <2>3. t2 = t /\ g2 = g /\ ~outValid
    BY <1>5, <1>6, <2>2
  <2> QED
    BY <1>2, <1>3, <2>1, <2>3
<1>10. CASE SpPermStart
  <2>1. Transaction(md, m, L, N, t, g)'
    BY <1>1, <1>10, PermStartClock
  <2>2. spState = "ST_PERM_START"
    BY <1>10 DEF SpPermStart
  <2>3. t2 = t /\ g2 = g /\ ~outValid
    BY <1>5, <1>6, <2>2
  <2> QED
    BY <1>2, <1>3, <2>1, <2>3
<1>11. CASE SpPermute
  <2>0. Algorithm
    BY DEF SpongeClock
  <2>1. Transaction(md, m, L, N, t, g)'
    BY <1>1, <1>11, <2>0, PermuteClock
  <2>2. spState = "ST_PERMUTE"
    BY <1>11 DEF SpPermute
  <2>3. t2 = t /\ g2 = g /\ ~outValid
    BY <1>5, <1>6, <2>2
  <2> QED
    BY <1>2, <1>3, <2>1, <2>3
<1>12. CASE SpCapture
  <2>1. Transaction(md, m, L, N, t, g)'
    BY <1>1, <1>12, CaptureClock
  <2>2. spState = "ST_PERM_CAPTURE"
    BY <1>12 DEF SpCapture
  <2>3. t2 = t /\ g2 = g /\ ~outValid
    BY <1>5, <1>6, <2>2
  <2> QED
    BY <1>2, <1>3, <2>1, <2>3
<1>13. CASE SpSqueeze(outReady)
  <2>1. outValid
    BY <1>1, <1>13, SqueezeClock
  <2>2. g2 = IF outReady THEN g + 1 ELSE g
    BY <2>1
  <2>3. /\ outData = DigestByte(md, m, L, g)
        /\ outLast <=> g + 1 = N
        /\ Transaction(md, m, L, N, t, g2)'
    BY <1>1, <1>13, <2>2, SqueezeClock
  <2>4. t2 = t
    BY <1>4, <1>5, <2>1
  <2> QED
    BY <1>2, <1>3, <1>4, <2>3, <2>4
<1>14. CASE SpFinish
  <2>1. spState = "ST_DONE" /\ spState' = "ST_IDLE" /\ spDone' /\ ~spError' /\ t = L /\ g = N
    BY <1>1, <1>14, FinishClock
  <2>2. t2 = t /\ g2 = g /\ ~outValid
    BY <1>5, <1>6, <2>1
  <2> QED
    BY <1>2, <1>3, <2>1, <2>2
<1> QED
  BY <1>7, <1>8, <1>9, <1>10, <1>11, <1>12, <1>13, <1>14 DEF SpongeClock

\* A clock edge between two transactions.
LEMMA QuietClock ==
  ASSUME NEW start, NEW mode, NEW msgLen, NEW outLen, NEW inValid, NEW byte, NEW outReady,
         ~InTransaction, SpongeClock(start, mode, msgLen, outLen, inValid, byte, outReady)
  PROVE  /\ ~inReady /\ ~outValid
         /\ \/ SpStart(mode, msgLen, outLen) /\ start
            \/ ~InTransaction' /\ (spDone' => spError' /\ start)
         /\ SpStart(mode, msgLen, outLen) => spState = "ST_IDLE" /\ DigestLen[mode] \in {AnyLen, outLen}
         /\ ~(start /\ spState = "ST_IDLE") => spState' = "ST_IDLE"
<1>1. ~inReady /\ ~outValid
  BY DEF InTransaction, inReady, outValid
<1>2. spState \in {"ST_IDLE", "ST_RESET_CLEAR"}
  BY DEF InTransaction
<1>3. \/ SpResetClear
      \/ start /\ (SpRefuse(mode, outLen) \/ SpStart(mode, msgLen, outLen))
      \/ ~start /\ SpIdle
  BY <1>2 DEF SpongeClock, SpAbsorb, SpAbsorbWith, SpPad, SpPermStart, SpPermute, SpCapture, SpSqueeze, SpFinish
<1>4. SpStart(mode, msgLen, outLen) => spState = "ST_IDLE" /\ DigestLen[mode] \in {AnyLen, outLen}
  BY DEF SpStart
<1>5. CASE SpResetClear
  BY <1>1, <1>4, <1>5 DEF SpResetClear, SpGoto, Quiet, InTransaction
<1>6. CASE start /\ SpRefuse(mode, outLen)
  BY <1>1, <1>4, <1>6 DEF SpRefuse, InTransaction
<1>7. CASE start /\ SpStart(mode, msgLen, outLen)
  BY <1>1, <1>4, <1>7
<1>8. CASE ~start /\ SpIdle
  BY <1>1, <1>4, <1>8 DEF SpIdle, Quiet, InTransaction
<1> QED
  BY <1>3, <1>5, <1>6, <1>7, <1>8

LEMMA StartAccepted ==
  ASSUME NEW start, NEW mode, NEW msgLen, NEW outLen, NEW inValid, NEW byte, NEW outReady,
         start, spState = "ST_IDLE", DigestLen[mode] \in {AnyLen, outLen},
         SpongeClock(start, mode, msgLen, outLen, inValid, byte, outReady)
  PROVE  SpStart(mode, msgLen, outLen)
  BY DEF SpongeClock, SpResetClear, SpRefuse, SpIdle, SpAbsorb, SpAbsorbWith, SpPad, SpPermStart, SpPermute,
         SpCapture, SpSqueeze, SpFinish

LEMMA TransactionStutters ==
  ASSUME NEW md, NEW m, NEW L, NEW N, NEW t, NEW g, UNCHANGED spongeVars, Transaction(md, m, L, N, t, g)
  PROVE  Transaction(md, m, L, N, t, g)'
<1>1. PICK c \in Nat : TransactionAt(md, m, L, N, c, t, g)
  BY DEF Transaction
<1>2. UNCHANGED <<spState, spMode, reason, absorbPos, squeezePos, msgRemaining, outRemaining, sponge, permInput,
                  algo, round, permActive, spDone, spError>>
  BY DEF spongeVars, modeVars, countVars, permVars
<1>3. TransactionAt(md, m, L, N, c, t, g)'
  BY <1>1, <1>2 DEF TransactionAt, InTransaction, Absorbing, Permuting, Squeezing, Rounded, Holds
<1> QED
  BY <1>3 DEF Transaction

--------------------------------------------------------------------------------
(***************************************************************************)
(* A user of the byte streams.                                             *)
(***************************************************************************)
StreamAt(md, L, N, t, g) ==
  /\ job = [mode |-> md, msgLen |-> L, outLen |-> N]
  /\ taken = t
  /\ given = Digest(md, "msg", L, g)
  /\ InTransaction => Transaction(md, "msg", L, N, t, g)
  /\ spDone /\ ~spError => t = L /\ g = N

StreamUntouched == job = NoJob /\ taken = 0 /\ given = << >>

StreamInv ==
  IF user = "stream" THEN \E md \in Modes, L, N, t, g \in Nat : StreamAt(md, L, N, t, g)
                     ELSE StreamUntouched

LEMMA StreamClockStep ==
  ASSUME NEW md \in Modes, NEW L \in Nat, NEW N \in Nat, NEW t \in Nat, NEW g \in Nat,
         StreamAt(md, L, N, t, g), StreamClock
  PROVE  \E md2 \in Modes, L2, N2, t2, g2 \in Nat : StreamAt(md2, L2, N2, t2, g2)'
<1>1. PICK start, inValid, outReady \in BOOLEAN, mode \in Modes, msgLen, outLen \in Lengths :
        /\ SpongeClock(start, mode, msgLen, outLen, inValid, ByteOf("msg", taken), outReady)
        /\ IF Accepts(start, mode, outLen)
             THEN /\ job' = [mode |-> mode, msgLen |-> msgLen, outLen |-> outLen]
                  /\ taken' = 0
                  /\ given' = << >>
             ELSE /\ UNCHANGED job
                  /\ taken' = IF inValid /\ inReady THEN taken + 1 ELSE taken
                  /\ given' = IF outValid /\ outReady THEN Append(given, outData) ELSE given
  BY DEF StreamClock
<1>2. PICK byte : byte = ByteOf("msg", taken)
  OBVIOUS
<1>3. SpongeClock(start, mode, msgLen, outLen, inValid, byte, outReady)
  BY <1>1, <1>2
<1>4. /\ job = [mode |-> md, msgLen |-> L, outLen |-> N]
      /\ taken = t
      /\ given = Digest(md, "msg", L, g)
      /\ InTransaction => Transaction(md, "msg", L, N, t, g)
  BY DEF StreamAt
<1>5. CASE InTransaction
  <2>1. ~Accepts(start, mode, outLen)
    BY <1>5 DEF Accepts, InTransaction
  <2>2. PICK t2 \in Nat : t2 = IF inValid /\ inReady THEN t + 1 ELSE t
    OBVIOUS
  <2>3. PICK g2 \in Nat : g2 = IF outValid /\ outReady THEN g + 1 ELSE g
    OBVIOUS
  <2>4. inValid => byte = ByteOf("msg", t)
    BY <1>2, <1>4
  <2>5. /\ outValid => outData = DigestByte(md, "msg", L, g)
        /\ \/ Transaction(md, "msg", L, N, t2, g2)'
           \/ spState' = "ST_IDLE" /\ spDone' /\ ~spError' /\ t = L /\ g = N /\ t2 = t /\ g2 = g
    BY <1>3, <1>4, <1>5, <2>2, <2>3, <2>4, TransactionClock
  <2>6. given' = Digest(md, "msg", L, g2)
    <3>1. CASE outValid /\ outReady
      <4>1. given' = Append(Digest(md, "msg", L, g), DigestByte(md, "msg", L, g))
        BY <1>1, <1>4, <2>1, <2>5, <3>1
      <4>2. Append(Digest(md, "msg", L, g), DigestByte(md, "msg", L, g)) = Digest(md, "msg", L, g + 1)
        BY DigestGrows
      <4> QED
        BY <2>3, <3>1, <4>1, <4>2
    <3>2. CASE ~(outValid /\ outReady)
      BY <1>1, <1>4, <2>1, <2>3, <3>2
    <3> QED
      BY <3>1, <3>2
  <2>7. job' = [mode |-> md, msgLen |-> L, outLen |-> N] /\ taken' = t2
    BY <1>1, <1>4, <2>1, <2>2
  <2>8. CASE Transaction(md, "msg", L, N, t2, g2)'
    <3>1. ~spDone'
      BY <2>8 DEF Transaction, TransactionAt
    <3>2. StreamAt(md, L, N, t2, g2)'
      BY <2>6, <2>7, <2>8, <3>1 DEF StreamAt, Digest, DigestByte
    <3> QED
      BY <3>2
  <2>9. CASE spState' = "ST_IDLE" /\ t = L /\ g = N /\ t2 = t /\ g2 = g
    <3>1. ~InTransaction'
      BY <2>9 DEF InTransaction
    <3>2. StreamAt(md, L, N, t2, g2)'
      BY <2>6, <2>7, <2>9, <3>1 DEF StreamAt
    <3> QED
      BY <3>2
  <2> QED
    BY <2>5, <2>8, <2>9
<1>6. CASE ~InTransaction
  <2>1. ~inReady /\ ~outValid
    BY <1>3, <1>6, QuietClock
  <2>2. CASE Accepts(start, mode, outLen)
    <3>0. start /\ spState = "ST_IDLE" /\ DigestLen[mode] \in {AnyLen, outLen}
      BY <2>2 DEF Accepts
    <3>1. SpStart(mode, msgLen, outLen)
      BY <1>3, <3>0, StartAccepted
    <3>2. msgLen \in Nat /\ outLen \in Nat
      BY LengthsAssumption
    <3>3. Transaction(mode, "msg", msgLen, outLen, 0, 0)'
      BY <3>1, <3>2, TransactionStarts
    <3>4. ~spDone'
      BY <3>1 DEF SpStart, Quiet
    <3>5. Digest(mode, "msg", msgLen, 0) = << >>
      BY DigestGrows
    <3>6. StreamAt(mode, msgLen, outLen, 0, 0)'
      BY <1>1, <2>2, <3>3, <3>4, <3>5 DEF StreamAt
    <3> QED
      BY <3>2, <3>6
  <2>3. CASE ~Accepts(start, mode, outLen)
    <3>1. ~SpStart(mode, msgLen, outLen) \/ ~start
      BY <1>3, <1>6, <2>3, QuietClock DEF Accepts
    <3>2. ~InTransaction' /\ (spDone' => spError')
      BY <1>3, <1>6, <3>1, QuietClock
    <3>3. UNCHANGED <<job, taken, given>>
      BY <1>1, <2>1, <2>3
    <3>4. StreamAt(md, L, N, t, g)'
      BY <1>4, <3>2, <3>3 DEF StreamAt
    <3> QED
      BY <3>4
  <2> QED
    BY <2>2, <2>3
<1> QED
  BY <1>5, <1>6

LEMMA StreamResetStep ==
  ASSUME NEW md \in Modes, StreamReset
  PROVE  \E md2 \in Modes, L2, N2, t2, g2 \in Nat : StreamAt(md2, L2, N2, t2, g2)'
<1>1. NoJob.mode \in Modes /\ NoJob = [mode |-> NoJob.mode, msgLen |-> 0, outLen |-> 0]
  BY DEF NoJob
<1>2. PICK mode \in Modes : mode = NoJob.mode
  BY <1>1
<1>3. job' = [mode |-> mode, msgLen |-> 0, outLen |-> 0] /\ taken' = 0 /\ given' = << >>
  BY <1>1, <1>2 DEF StreamReset
<1>4. Digest(mode, "msg", 0, 0) = << >>
  BY DigestGrows
<1>5. ~InTransaction' /\ ~spDone'
  BY DEF StreamReset, SpongeReset, InTransaction
<1>6. StreamAt(mode, 0, 0, 0, 0)'
  BY <1>3, <1>4, <1>5 DEF StreamAt
<1> QED
  BY <1>6

LEMMA StreamInvImplies == StreamInv => DigestIsRight
<1>1. CASE user = "stream"
  <2> SUFFICES ASSUME StreamInv PROVE DigestIsRight
    OBVIOUS
  <2>1. PICK md \in Modes, L \in Nat, N \in Nat, t \in Nat, g \in Nat : StreamAt(md, L, N, t, g)
    BY <1>1 DEF StreamInv
  <2>2. job.mode = md /\ job.msgLen = L /\ job.outLen = N /\ taken = t /\ given = Digest(md, "msg", L, g)
    BY <2>1 DEF StreamAt
  <2>3. Len(given) = g
    BY <2>2, DigestGrows
  <2>4. \A j \in 1 .. g : given[j] = DigestByte(md, "msg", L, j - 1)
    BY <2>2 DEF Digest
  <2>5. spDone /\ ~spError => t = L /\ g = N
    BY <2>1 DEF StreamAt
  <2> QED
    BY <2>2, <2>3, <2>4, <2>5 DEF DigestIsRight
<1>2. CASE user # "stream"
  <2> SUFFICES ASSUME StreamInv PROVE DigestIsRight
    OBVIOUS
  <2>1. job = NoJob /\ taken = 0 /\ given = << >>
    BY <1>2 DEF StreamInv, StreamUntouched
  <2>2. Len(given) = 0 /\ job.msgLen = 0 /\ job.outLen = 0
    BY <2>1 DEF NoJob
  <2> QED
    BY <2>1, <2>2 DEF DigestIsRight
<1> QED
  BY <1>1, <1>2

\* Whoever uses the sponge, the invariant of the streams holds.
LEMMA StreamStep ==
  ASSUME StreamInv, [UsersNext]_usersVars
  PROVE  StreamInv'
<1>1. user' = user
  BY DEF UsersNext, KdfUses, StreamUses, Imports, usersVars
<1>2. CASE user = "stream"
  <2>1. PICK md \in Modes, L \in Nat, N \in Nat, t \in Nat, g \in Nat : StreamAt(md, L, N, t, g)
    BY <1>2 DEF StreamInv
  <2>2. CASE StreamNext
    <3>1. \E md2 \in Modes, L2, N2, t2, g2 \in Nat : StreamAt(md2, L2, N2, t2, g2)'
      BY <2>1, <2>2, StreamClockStep, StreamResetStep DEF StreamNext
    <3> QED
      BY <1>1, <1>2, <3>1 DEF StreamInv
  <2>3. CASE UNCHANGED usersVars
    <3>1. UNCHANGED spongeVars /\ UNCHANGED <<job, taken, given>>
      BY <2>3 DEF usersVars, kdfVars, streamUserVars
    <3>2. UNCHANGED <<spState, spDone, spError>>
      BY <3>1 DEF spongeVars
    <3>3. InTransaction' => Transaction(md, "msg", L, N, t, g)'
      BY <2>1, <3>1, <3>2, TransactionStutters DEF StreamAt, InTransaction
    <3>4. StreamAt(md, L, N, t, g)'
      BY <2>1, <3>1, <3>2, <3>3 DEF StreamAt
    <3> QED
      BY <1>1, <1>2, <3>4 DEF StreamInv
  <2> QED
    BY <1>2, <2>2, <2>3 DEF UsersNext, KdfUses, StreamUses, Imports
<1>3. CASE user # "stream"
  <2>1. StreamUntouched
    BY <1>3 DEF StreamInv
  <2>2. UNCHANGED <<job, taken, given>>
    BY <1>3 DEF UsersNext, KdfUses, StreamUses, Imports, usersVars, streamUserVars
  <2>3. StreamUntouched'
    BY <2>1, <2>2 DEF StreamUntouched
  <2> QED
    BY <1>1, <1>3, <2>3 DEF StreamInv
<1> QED
  BY <1>2, <1>3

LEMMA StreamInitially == UsersInit => StreamInv
<1> SUFFICES ASSUME UsersInit PROVE StreamInv
  OBVIOUS
<1>1. StreamInit /\ SpongeInit
  BY DEF UsersInit, StreamInit
<1>2. StreamUntouched /\ ~spDone /\ ~InTransaction
  BY <1>1 DEF StreamInit, SpongeInit, StreamUntouched, InTransaction
<1>3. Modes # {}
  BY <1>1 DEF SpongeInit
<1>4. NoJob.mode \in Modes /\ NoJob = [mode |-> NoJob.mode, msgLen |-> 0, outLen |-> 0]
  BY <1>3 DEF NoJob
<1>5. Digest(NoJob.mode, "msg", 0, 0) = << >>
  BY DigestGrows
<1>6. StreamAt(NoJob.mode, 0, 0, 0, 0)
  BY <1>2, <1>4, <1>5 DEF StreamAt, StreamUntouched
<1>7. 0 \in Nat
  OBVIOUS
<1> QED
  BY <1>2, <1>4, <1>6, <1>7 DEF StreamInv

\* What the sponge gives out is the digest of the bytes it took, for every rate, length, number of
\* rounds and pace of the user.
THEOREM DigestIsRightAlways == UsersSpec => []DigestIsRight
<1>1. UsersInit => StreamInv
  BY StreamInitially
<1>2. StreamInv /\ [UsersNext]_usersVars => StreamInv'
  BY StreamStep
<1>3. StreamInv => DigestIsRight
  BY StreamInvImplies
<1> QED
  BY <1>1, <1>2, <1>3, PTL DEF UsersSpec

--------------------------------------------------------------------------------
(***************************************************************************)
(* The key derivation.                                                     *)
(***************************************************************************)
Seed(key, n) == [i \in 0 .. SeedBytes - 1 |-> IF i < n THEN DigestByte(Kdf256, key, KeyBytes, i) ELSE NoByte]

Deriving(key, t, g) ==
  /\ Transaction(Kdf256, key, KeyBytes, SeedBytes, t, g)
  /\ seedOut = Seed(key, g)

DerivationAt(key, n) ==
  /\ derivedOf = key
  /\ byteCount = n
  /\ kdState \in KdfStates
  /\ kdState = "ST_IDLE" => ~InTransaction
  /\ kdState = "ST_START" => /\ spState = "ST_IDLE"
                             /\ keyShift = [key |-> key, from |-> 0]
                             /\ n = 0
                             /\ seedOut = NoSeed
  /\ kdState = "ST_FEED" => /\ n < KeyBytes
                            /\ keyShift = [key |-> key, from |-> n]
                            /\ Deriving(key, n, 0)
  /\ kdState = "ST_READ" => n < SeedBytes /\ Deriving(key, KeyBytes, n)
  /\ kdState = "ST_WAIT" => /\ seedOut = Seed(key, SeedBytes)
                            /\ \/ Transaction(Kdf256, key, KeyBytes, SeedBytes, KeyBytes, SeedBytes)
                               \/ spState = "ST_IDLE" /\ spDone /\ ~spError
  /\ kdDone => kdState = "ST_IDLE" /\ seedOut = Seed(key, SeedBytes)

DerivationInv == \E key \in Keys \cup {NoKey}, n \in Nat : DerivationAt(key, n)

KdfInv == IF user = "kdf" THEN DerivationInv ELSE ~kdDone

LEMMA SeedGrows ==
  ASSUME NEW key, NEW n \in 0 .. SeedBytes - 1
  PROVE  /\ [Seed(key, n) EXCEPT ![n] = DigestByte(Kdf256, key, KeyBytes, n)] = Seed(key, n + 1)
         /\ Seed(key, 0) = NoSeed
<1>1. SeedBytes \in Nat
  BY KdfParameters
<1>2. Seed(key, 0) = NoSeed
  BY <1>1 DEF Seed, NoSeed
<1>3. [Seed(key, n) EXCEPT ![n] = DigestByte(Kdf256, key, KeyBytes, n)] = Seed(key, n + 1)
  <2>1. \A i \in 0 .. SeedBytes - 1 : i # n => (i < n <=> i < n + 1)
    BY <1>1
  <2>2. n < n + 1
    BY <1>1
  <2> QED
    BY <2>1, <2>2 DEF Seed
<1> QED
  BY <1>2, <1>3

LEMMA DerivationClock ==
  ASSUME NEW key \in Keys \cup {NoKey}, NEW n \in Nat, DerivationAt(key, n), Clock
  PROVE  \E key2 \in Keys \cup {NoKey}, n2 \in Nat : DerivationAt(key2, n2)'
<1>0. KeyBytes \in Nat \ {0} /\ SeedBytes \in Nat \ {0} /\ Kdf256 \in Modes /\ DigestLen[Kdf256] = AnyLen
  BY KdfParameters
<1>1. PICK start \in BOOLEAN, k \in Keys :
        /\ KdfClock(start, k)
        /\ SpongeClock(kdState = "ST_START", Kdf256, KeyBytes, SeedBytes,
                       kdState = "ST_FEED", ByteOf(keyShift.key, keyShift.from), kdState = "ST_READ")
  BY DEF Clock
<1>2. PICK st \in BOOLEAN, inValid \in BOOLEAN, outReady \in BOOLEAN :
        /\ st = (kdState = "ST_START")
        /\ inValid = (kdState = "ST_FEED")
        /\ outReady = (kdState = "ST_READ")
  OBVIOUS
<1>3. PICK byte : byte = ByteOf(keyShift.key, keyShift.from)
  OBVIOUS
<1>4. SpongeClock(st, Kdf256, KeyBytes, SeedBytes, inValid, byte, outReady)
  BY <1>1, <1>2, <1>3
<1>5. derivedOf = key /\ byteCount = n /\ kdState \in KdfStates
  BY DEF DerivationAt
<1>6. CASE kdState = "ST_IDLE"
  <2>1. ~InTransaction /\ ~st
    BY <1>2, <1>6 DEF DerivationAt
  <2>2. ~InTransaction' /\ spState' = "ST_IDLE" /\ ~spDone'
    BY <1>4, <2>1, QuietClock
  <2>3. KdIdle(start, k)
    BY <1>1, <1>6 DEF KdfClock, KdStart, KdFeed, KdFeedUntil, KdRead, KdReadAt, KdWait
  <2>4. CASE start
    <3>1. /\ kdState' = "ST_START" /\ derivedOf' = k /\ byteCount' = 0 /\ ~kdDone'
          /\ keyShift' = [key |-> k, from |-> 0] /\ seedOut' = NoSeed
      BY <2>3, <2>4 DEF KdIdle
    <3>2. DerivationAt(k, 0)'
      BY <2>2, <3>1 DEF DerivationAt, KdfStates
    <3> QED
      BY <3>2
  <2>5. CASE ~start
    <3>1. UNCHANGED <<kdState, derivedOf, byteCount>> /\ ~kdDone'
      BY <2>3, <2>5 DEF KdIdle
    <3>2. DerivationAt(key, n)'
      BY <1>5, <1>6, <2>2, <3>1 DEF DerivationAt
    <3> QED
      BY <3>2
  <2> QED
    BY <2>4, <2>5
<1>7. CASE kdState = "ST_START"
  <2>1. spState = "ST_IDLE" /\ st /\ keyShift = [key |-> key, from |-> 0] /\ n = 0 /\ seedOut = NoSeed
    BY <1>2, <1>7 DEF DerivationAt
  <2>2. ~InTransaction
    BY <2>1 DEF InTransaction
  <2>3. SpStart(Kdf256, KeyBytes, SeedBytes)
    BY <1>0, <1>4, <2>1, StartAccepted
  <2>4. Transaction(Kdf256, key, KeyBytes, SeedBytes, 0, 0)'
    BY <1>0, <2>3, TransactionStarts
  <2>5. KdStart
    BY <1>1, <1>7 DEF KdfClock, KdIdle, KdFeed, KdFeedUntil, KdRead, KdReadAt, KdWait
  <2>6. kdState' = "ST_FEED" /\ ~kdDone' /\ UNCHANGED <<keyShift, seedOut, byteCount, derivedOf>>
    BY <2>5 DEF KdStart
  <2>7. Seed(key, 0) = NoSeed
    <3>1. 0 \in 0 .. SeedBytes - 1
      BY <1>0
    <3> QED
      BY <3>1, SeedGrows
  <2>8. Deriving(key, 0, 0)'
    BY <2>1, <2>4, <2>6, <2>7 DEF Deriving
  <2>9. DerivationAt(key, 0)'
    BY <1>0, <1>5, <2>1, <2>6, <2>8 DEF DerivationAt, KdfStates
  <2> QED
    BY <2>9
<1>8. CASE kdState = "ST_FEED"
  <2>1. n < KeyBytes /\ keyShift = [key |-> key, from |-> n] /\ Deriving(key, n, 0)
    BY <1>8 DEF DerivationAt
  <2>2. Transaction(Kdf256, key, KeyBytes, SeedBytes, n, 0) /\ seedOut = Seed(key, 0)
    BY <2>1 DEF Deriving
  <2>3. inValid /\ ~outReady /\ byte = ByteOf(key, n)
    BY <1>2, <1>3, <1>8, <2>1
  <2>4. PICK n2 \in Nat : n2 = IF inReady THEN n + 1 ELSE n
    OBVIOUS
  <2>5. n2 = IF inValid /\ inReady THEN n + 1 ELSE n
    BY <2>3, <2>4
  <2>6. PICK g2 \in Nat : g2 = IF outValid /\ outReady THEN 0 + 1 ELSE 0
    OBVIOUS
  <2>7. \/ Transaction(Kdf256, key, KeyBytes, SeedBytes, n2, g2)'
        \/ n = KeyBytes
    <3>1. KeyBytes \in Nat /\ SeedBytes \in Nat /\ 0 \in Nat /\ (inValid => byte = ByteOf(key, n))
      BY <1>0, <2>3
    <3>2. PICK z \in Nat : z = 0
      OBVIOUS
    <3>3. Transaction(Kdf256, key, KeyBytes, SeedBytes, n, z) /\ g2 = IF outValid /\ outReady THEN z + 1 ELSE z
      BY <2>2, <2>6, <3>2
    <3>4. \/ Transaction(Kdf256, key, KeyBytes, SeedBytes, n2, g2)'
          \/ n = KeyBytes
      BY <1>0, <1>4, <2>5, <3>1, <3>3, TransactionClock
    <3> QED
      BY <3>4
  <2>8. Transaction(Kdf256, key, KeyBytes, SeedBytes, n2, 0)'
    <3>1. g2 = 0
      BY <2>3, <2>6
    <3>2. n # KeyBytes
      BY <1>0, <2>1
    <3> QED
      BY <2>7, <3>1, <3>2
  <2>9. KdFeed
    BY <1>1, <1>8 DEF KdfClock, KdIdle, KdStart, KdRead, KdReadAt, KdWait
  <2>10. UNCHANGED <<seedOut, derivedOf>> /\ ~kdDone'
    BY <2>9 DEF KdFeed, KdFeedUntil
  <2>11. Deriving(key, n2, 0)'
    BY <2>2, <2>8, <2>10 DEF Deriving
  <2>12. CASE ~inReady
    <3>1. UNCHANGED <<keyShift, byteCount, kdState>> /\ n2 = n
      BY <2>4, <2>9, <2>12 DEF KdFeed, KdFeedUntil
    <3>2. DerivationAt(key, n)'
      BY <1>5, <1>8, <2>1, <2>10, <2>11, <3>1 DEF DerivationAt
    <3> QED
      BY <3>2
  <2>13. CASE inReady /\ n = KeyBytes - 1
    <3>1. byteCount' = 0 /\ kdState' = "ST_READ"
      BY <1>5, <2>9, <2>13 DEF KdFeed, KdFeedUntil
    <3>2. n2 = KeyBytes
      BY <1>0, <2>4, <2>13
    <3>3. DerivationAt(key, 0)'
      BY <1>0, <1>5, <2>10, <2>11, <3>1, <3>2 DEF DerivationAt, KdfStates
    <3> QED
      BY <3>3
  <2>14. CASE inReady /\ n # KeyBytes - 1
    <3>1. byteCount' = n + 1 /\ kdState' = "ST_FEED" /\ keyShift' = [key |-> key, from |-> n + 1]
      BY <1>5, <1>8, <2>1, <2>9, <2>14 DEF KdFeed, KdFeedUntil
    <3>2. n2 = n + 1 /\ n + 1 < KeyBytes
      BY <1>0, <2>1, <2>4, <2>14
    <3>3. DerivationAt(key, n2)'
      BY <1>5, <2>10, <2>11, <3>1, <3>2 DEF DerivationAt, KdfStates
    <3> QED
      BY <3>3
  <2> QED
    BY <2>12, <2>13, <2>14
<1>9. CASE kdState = "ST_READ"
  <2>1. n < SeedBytes /\ Transaction(Kdf256, key, KeyBytes, SeedBytes, KeyBytes, n) /\ seedOut = Seed(key, n)
    BY <1>9 DEF DerivationAt, Deriving
  <2>2. ~inValid /\ outReady
    BY <1>2, <1>9
  <2>3. PICK n2 \in Nat : n2 = IF outValid THEN n + 1 ELSE n
    OBVIOUS
  <2>4. n2 = IF outValid /\ outReady THEN n + 1 ELSE n
    BY <2>2, <2>3
  <2>5. PICK t2 \in Nat : t2 = IF inValid /\ inReady THEN KeyBytes + 1 ELSE KeyBytes
    BY <1>0
  <2>6. /\ outValid => outData = DigestByte(Kdf256, key, KeyBytes, n) /\ (outLast <=> n + 1 = SeedBytes)
        /\ \/ Transaction(Kdf256, key, KeyBytes, SeedBytes, t2, n2)'
           \/ n = SeedBytes
    <3>1. KeyBytes \in Nat /\ SeedBytes \in Nat /\ (inValid => byte = ByteOf(key, KeyBytes))
      BY <1>0, <2>2
    <3> QED
      BY <1>0, <1>4, <2>1, <2>4, <2>5, <3>1, TransactionClock
  <2>7. Transaction(Kdf256, key, KeyBytes, SeedBytes, KeyBytes, n2)'
    <3>1. t2 = KeyBytes
      BY <2>2, <2>5
    <3>2. n # SeedBytes
      BY <1>0, <2>1
    <3> QED
      BY <2>6, <3>1, <3>2
  <2>8. KdRead
    BY <1>1, <1>9 DEF KdfClock, KdIdle, KdStart, KdFeed, KdFeedUntil, KdWait
  <2>9. UNCHANGED <<keyShift, derivedOf>> /\ ~kdDone'
    BY <2>8 DEF KdRead, KdReadAt
  <2>10. CASE ~outValid
    <3>1. UNCHANGED <<seedOut, byteCount, kdState>> /\ n2 = n
      BY <2>3, <2>8, <2>10 DEF KdRead, KdReadAt
    <3>2. Deriving(key, KeyBytes, n)'
      BY <2>1, <2>7, <3>1 DEF Deriving
    <3>3. DerivationAt(key, n)'
      BY <1>5, <1>9, <2>1, <2>9, <3>1, <3>2 DEF DerivationAt
    <3> QED
      BY <3>3
  <2>11. CASE outValid
    <3>1. n2 = n + 1 /\ seedOut' = Seed(key, n + 1)
      <4>1. seedOut' = [Seed(key, n) EXCEPT ![n] = DigestByte(Kdf256, key, KeyBytes, n)]
        BY <1>5, <2>1, <2>6, <2>8, <2>11 DEF KdRead, KdReadAt
      <4>2. n \in 0 .. SeedBytes - 1
        BY <1>0, <2>1
      <4> QED
        BY <2>3, <2>11, <4>1, <4>2, SeedGrows
    <3>2. CASE outLast
      <4>1. n + 1 = SeedBytes
        BY <2>6, <2>11, <3>2
      <4>2. kdState' = "ST_WAIT" /\ byteCount' = 0
        BY <2>8, <2>11, <3>2 DEF KdRead, KdReadAt
      <4>3. DerivationAt(key, 0)'
        BY <1>5, <2>7, <2>9, <3>1, <4>1, <4>2 DEF DerivationAt, KdfStates
      <4> QED
        BY <4>3
    <3>3. CASE ~outLast
      <4>1. n + 1 < SeedBytes
        BY <1>0, <2>1, <2>6, <2>11, <3>3
      <4>2. kdState' = "ST_READ" /\ byteCount' = n + 1
        BY <1>5, <1>9, <2>8, <2>11, <3>3 DEF KdRead, KdReadAt
      <4>3. Deriving(key, KeyBytes, n + 1)'
        BY <2>7, <3>1 DEF Deriving
      <4>4. DerivationAt(key, n + 1)'
        BY <1>5, <2>9, <4>1, <4>2, <4>3 DEF DerivationAt, KdfStates
      <4> QED
        BY <4>4
    <3> QED
      BY <3>2, <3>3
  <2> QED
    BY <2>10, <2>11
<1>10. CASE kdState = "ST_WAIT"
  <2>0. ~st /\ ~inValid /\ ~outReady
    BY <1>2, <1>10
  <2>1. KdWait
    BY <1>1, <1>10 DEF KdfClock, KdIdle, KdStart, KdFeed, KdFeedUntil, KdRead, KdReadAt
  <2>2. seedOut = Seed(key, SeedBytes) /\ UNCHANGED <<byteCount, derivedOf>>
    BY <1>10, <2>1 DEF DerivationAt, KdWait
  <2>3. CASE Transaction(Kdf256, key, KeyBytes, SeedBytes, KeyBytes, SeedBytes)
    <3>1. ~spDone
      BY <2>3 DEF Transaction, TransactionAt
    <3>2. ~kdDone' /\ UNCHANGED <<seedOut, kdState>>
      BY <1>10, <2>1, <3>1 DEF KdWait
    <3>3. /\ KeyBytes = IF inValid /\ inReady THEN KeyBytes + 1 ELSE KeyBytes
          /\ SeedBytes = IF outValid /\ outReady THEN SeedBytes + 1 ELSE SeedBytes
      BY <2>0
    <3>4. \/ Transaction(Kdf256, key, KeyBytes, SeedBytes, KeyBytes, SeedBytes)'
          \/ spState' = "ST_IDLE" /\ spDone' /\ ~spError'
      BY <1>0, <1>4, <2>0, <2>3, <3>3, TransactionClock
    <3>5. DerivationAt(key, n)'
      BY <1>5, <1>10, <2>2, <3>2, <3>4 DEF DerivationAt
    <3> QED
      BY <3>5
  <2>4. CASE spState = "ST_IDLE" /\ spDone /\ ~spError
    <3>1. ~InTransaction
      BY <2>4 DEF InTransaction
    <3>2. ~InTransaction'
      BY <1>4, <2>0, <3>1, QuietClock
    <3>3. kdState' = "ST_IDLE" /\ UNCHANGED seedOut
      BY <2>1, <2>4 DEF KdWait
    <3>4. DerivationAt(key, n)'
      BY <1>5, <2>2, <3>2, <3>3 DEF DerivationAt, KdfStates
    <3> QED
      BY <3>4
  <2> QED
    BY <1>10, <2>3, <2>4 DEF DerivationAt
<1> QED
  BY <1>5, <1>6, <1>7, <1>8, <1>9, <1>10 DEF KdfStates

LEMMA KdfStep ==
  ASSUME KdfInv, [UsersNext]_usersVars
  PROVE  KdfInv'
<1>1. user' = user
  BY DEF UsersNext, KdfUses, StreamUses, Imports, usersVars
<1>2. CASE user = "kdf"
  <2>1. PICK key \in Keys \cup {NoKey}, n \in Nat : DerivationAt(key, n)
    BY <1>2 DEF KdfInv, DerivationInv
  <2>2. CASE Clock
    <3>1. \E key2 \in Keys \cup {NoKey}, n2 \in Nat : DerivationAt(key2, n2)'
      BY <2>1, <2>2, DerivationClock
    <3> QED
      BY <1>1, <1>2, <3>1 DEF KdfInv, DerivationInv
  <2>3. CASE MidReset
    <3>1. derivedOf' = NoKey /\ byteCount' = 0 /\ kdState' = "ST_IDLE" /\ ~kdDone' /\ ~InTransaction'
      BY <2>3 DEF MidReset, SpongeReset, InTransaction
    <3>2. DerivationAt(NoKey, 0)'
      BY <3>1 DEF DerivationAt, KdfStates
    <3> QED
      BY <1>1, <1>2, <3>2 DEF KdfInv, DerivationInv
  <2>4. CASE UNCHANGED usersVars
    <3>1. UNCHANGED spongeVars /\ UNCHANGED <<kdState, byteCount, keyShift, seedOut, kdDone, derivedOf>>
      BY <2>4 DEF usersVars, kdfVars
    <3>2. UNCHANGED <<spState, spDone, spError>>
      BY <3>1 DEF spongeVars
    <3>3. ASSUME NEW t, NEW g, Transaction(Kdf256, key, KeyBytes, SeedBytes, t, g)
          PROVE  Transaction(Kdf256, key, KeyBytes, SeedBytes, t, g)'
      BY <3>1, <3>3, TransactionStutters
    <3>4. ASSUME NEW t, NEW g, Deriving(key, t, g)
          PROVE  Deriving(key, t, g)'
      BY <3>1, <3>3, <3>4 DEF Deriving
    <3>5. DerivationAt(key, n)'
      BY <2>1, <3>1, <3>2, <3>3, <3>4 DEF DerivationAt, InTransaction
    <3> QED
      BY <1>1, <1>2, <3>5 DEF KdfInv, DerivationInv
  <2> QED
    BY <1>2, <2>2, <2>3, <2>4 DEF UsersNext, KdfUses, StreamUses, Imports, Next
<1>3. CASE user # "kdf"
  <2>1. UNCHANGED kdDone
    BY <1>3 DEF UsersNext, KdfUses, StreamUses, Imports, usersVars, kdfVars, kdVars
  <2> QED
    BY <1>1, <1>3, <2>1 DEF KdfInv
<1> QED
  BY <1>2, <1>3

\* A seed that is announced is SHAKE256 of the key at the start.
THEOREM SeedIsDigestAlways == UsersSpec => []SeedIsDigest
<1>1. UsersInit => KdfInv
  <2> SUFFICES ASSUME UsersInit PROVE KdfInv
    OBVIOUS
  <2>1. derivedOf = NoKey /\ byteCount = 0 /\ kdState = "ST_IDLE" /\ ~kdDone /\ ~InTransaction
    BY DEF UsersInit, Init, SpongeInit, InTransaction
  <2>2. DerivationAt(NoKey, 0)
    BY <2>1 DEF DerivationAt, KdfStates
  <2>3. 0 \in Nat
    OBVIOUS
  <2> QED
    BY <2>1, <2>2, <2>3 DEF KdfInv, DerivationInv
<1>2. KdfInv /\ [UsersNext]_usersVars => KdfInv'
  BY KdfStep
<1>3. KdfInv => SeedIsDigest
  <2> SUFFICES ASSUME KdfInv, kdDone
               PROVE  \A i \in 0 .. SeedBytes - 1 : seedOut[i] = DigestByte(Kdf256, derivedOf, KeyBytes, i)
    BY DEF SeedIsDigest
  <2>1. PICK key \in Keys \cup {NoKey}, n \in Nat : DerivationAt(key, n)
    BY DEF KdfInv, DerivationInv
  <2>2. seedOut = Seed(key, SeedBytes) /\ derivedOf = key
    BY <2>1 DEF DerivationAt
  <2>3. \A i \in 0 .. SeedBytes - 1 : i < SeedBytes
    BY KdfParameters
  <2> QED
    BY <2>2, <2>3 DEF Seed
<1> QED
  BY <1>1, <1>2, <1>3, PTL DEF UsersSpec

--------------------------------------------------------------------------------
(***************************************************************************)
(* The import.                                                             *)
(***************************************************************************)
FieldsOf(b) == {k \in Fields : <<b, k>> \in present}
Complete == {b \in 0 .. block - 1 : {"Msg", "result"} \subseteq FieldsOf(b)}

FieldsAt(D) == [D -> [is : ToSet(Wanted) \cup CavpMessages, from : Nat]]
RecordSet == UNION {FieldsAt(D) : D \in SUBSET Fields}

ImportInv ==
  /\ block \in Nat
  /\ present \subseteq (0 .. block) \X Fields
  /\ current \in FieldsAt(FieldsOf(block))
  /\ \A k \in DOMAIN current : current[k].from = block
  /\ records \in Seq(RecordSet)
  /\ RecordsAreBlocks

\* RecordsAreBlocks, with names for what it speaks of.
Placed(i) ==
  /\ records[i].Msg.from \in Complete
  /\ DOMAIN records[i] = FieldsOf(records[i].Msg.from)
  /\ \A k \in DOMAIN records[i] : records[i][k].from = records[i].Msg.from
  /\ \A j \in 1 .. i - 1 : records[j].Msg.from < records[i].Msg.from

LEMMA RecordsAre == RecordsAreBlocks <=> /\ Len(records) = Cardinality(Complete)
                                         /\ \A i \in DOMAIN records : Placed(i)
  BY DEF RecordsAreBlocks, Placed, Complete, FieldsOf

LEMMA CompleteFinite ==
  ASSUME block \in Nat
  PROVE  IsFiniteSet(Complete) /\ Cardinality(Complete) \in Nat
<1>1. IsFiniteSet(0 .. block - 1)
  BY FS_Interval
<1>2. Complete \subseteq 0 .. block - 1
  BY DEF Complete
<1>3. IsFiniteSet(Complete)
  BY <1>1, <1>2, FS_Subset
<1> QED
  BY <1>3, FS_CardinalityType

LEMMA FileStarts ==
  ASSUME NEW f, StartFile(f)
  PROVE  ImportInv'
<1>1. current' = NoRecord /\ records' = << >> /\ block' = 0 /\ present' = {}
  BY DEF StartFile
<1>2. FieldsOf(block)' = {} /\ Complete' = {}
  BY <1>1 DEF FieldsOf, Complete
<1>3. current' \in FieldsAt({}) /\ DOMAIN current' = {}
  BY <1>1 DEF NoRecord, FieldsAt
<1>4. records' \in Seq(RecordSet) /\ Len(records') = 0 /\ DOMAIN records' = {}
  BY <1>1
<1>5. Cardinality({}) = 0
  BY FS_EmptySet
<1>6. RecordsAreBlocks'
  BY <1>1, <1>2, <1>4, <1>5 DEF RecordsAreBlocks, Complete, FieldsOf
<1>7. current' \in FieldsAt(FieldsOf(block))'
  BY <1>1, <1>3 DEF FieldsAt, FieldsOf
<1> QED
  BY <1>1, <1>3, <1>4, <1>6, <1>7 DEF ImportInv

\* A blank line, or the end of the text.
LEMMA BlockEnds ==
  ASSUME ImportInv, FinishRecord, block' = block + 1, UNCHANGED present
  PROVE  ImportInv'
<1>1. /\ block \in Nat
      /\ present \subseteq (0 .. block) \X Fields
      /\ current \in FieldsAt(FieldsOf(block))
      /\ \A k \in DOMAIN current : current[k].from = block
      /\ records \in Seq(RecordSet)
      /\ Len(records) = Cardinality(Complete)
      /\ \A i \in DOMAIN records : Placed(i)
  BY RecordsAre DEF ImportInv
<1>2. DOMAIN current = FieldsOf(block)
  BY <1>1 DEF FieldsAt
<1>3. \A b : FieldsOf(b)' = FieldsOf(b)
  BY DEF FieldsOf
<1>4. present' \subseteq (0 .. block') \X Fields /\ block' \in Nat
  BY <1>1
<1>5. FieldsOf(block + 1) = {}
  BY <1>1 DEF FieldsOf
<1>6. current' = NoRecord /\ DOMAIN current' = {}
  BY DEF FinishRecord, NoRecord
<1>7. current' \in FieldsAt(FieldsOf(block))'
  <2>1. NoRecord \in [{} -> [is : ToSet(Wanted) \cup CavpMessages, from : Nat]]
    BY DEF NoRecord
  <2>2. {k \in Fields : <<block', k>> \in present'} = {}
    BY <1>5 DEF FieldsOf
  <2> QED
    BY <1>6, <2>1, <2>2 DEF FieldsAt, FieldsOf
<1>8. block \notin Complete /\ \A b \in Complete : b \in Nat /\ b < block
  BY <1>1 DEF Complete
<1>9. CASE {"Msg", "result"} \subseteq DOMAIN current
  <2>1. records' = Append(records, current)
    BY <1>9 DEF FinishRecord
  <2>2. current \in RecordSet
    <3>1. FieldsOf(block) \in SUBSET Fields
      BY DEF FieldsOf
    <3> QED
      BY <1>1, <3>1 DEF RecordSet
  <2>3. Complete' = Complete \cup {block}
    <3>1. \A b : b \in 0 .. block' - 1 <=> (b \in 0 .. block - 1 \/ b = block)
      BY <1>1
    <3> QED
      BY <1>2, <1>3, <1>9, <3>1 DEF Complete, FieldsOf
  <2>4. Cardinality(Complete') = Cardinality(Complete) + 1
    BY <1>1, <1>8, <2>3, CompleteFinite, FS_AddElement
  <2>5. PICK n \in Nat : n = Len(records)
    BY <1>1, LenProperties
  <2>6. DOMAIN records = 1 .. n
    BY <1>1, <2>5, LenProperties
  <2>7. /\ records' \in Seq(RecordSet)
        /\ Len(records') = n + 1
        /\ \A i \in 1 .. n : records'[i] = records[i]
        /\ records'[n + 1] = current
    BY <1>1, <2>1, <2>2, <2>5, AppendProperties
  <2>8. DOMAIN records' = 1 .. n + 1
    BY <2>7, LenProperties
  <2>9. ASSUME NEW i \in 1 .. n
        PROVE  Placed(i)'
    <3>1. Placed(i)
      BY <1>1, <2>6
    <3>2. \A j \in 1 .. i : records'[j] = records[j]
      BY <2>7
    <3>3. i \in 1 .. i
      OBVIOUS
    <3>4. /\ records[i].Msg.from \in Complete'
          /\ DOMAIN records[i] = {k \in Fields : <<records[i].Msg.from, k>> \in present'}
      BY <2>3, <3>1 DEF Placed, FieldsOf
    <3>5. \A j \in 1 .. i - 1 : records'[j].Msg.from < records[i].Msg.from
      BY <3>1, <3>2 DEF Placed
    <3> QED
      BY <3>1, <3>2, <3>3, <3>4, <3>5 DEF Placed, FieldsOf
  <2>10. Placed(n + 1)'
    <3>1. "Msg" \in DOMAIN current /\ current.Msg.from = block
      BY <1>1, <1>9
    <3>2. records'[n + 1].Msg.from = block
      BY <2>7, <3>1
    <3>3. ASSUME NEW j \in 1 .. n
          PROVE  records'[j].Msg.from < block
      <4>1. Placed(j)
        BY <1>1, <2>6
      <4> QED
        BY <1>8, <2>7, <4>1 DEF Placed
    <3>4. \A j \in 1 .. n + 1 - 1 : records'[j].Msg.from < records'[n + 1].Msg.from
      BY <3>2, <3>3
    <3>5. DOMAIN records'[n + 1] = {k \in Fields : <<records'[n + 1].Msg.from, k>> \in present'}
      BY <1>2, <2>7, <3>2 DEF FieldsOf
    <3>6. \A k \in DOMAIN records'[n + 1] : records'[n + 1][k].from = records'[n + 1].Msg.from
      BY <1>1, <2>7, <3>2
    <3>7. records'[n + 1].Msg.from \in Complete'
      BY <2>3, <3>2
    <3> QED
      BY <3>4, <3>5, <3>6, <3>7 DEF Placed, FieldsOf
  <2>11. \A i \in 1 .. n + 1 : Placed(i)'
    <3>1. \A i \in 1 .. n + 1 : i \in 1 .. n \/ i = n + 1
      OBVIOUS
    <3> QED
      BY <2>9, <2>10, <3>1
  <2>12. RecordsAreBlocks'
    <3>1. Len(records') = Cardinality(Complete')
      BY <1>1, <2>4, <2>5, <2>7
    <3> QED
      BY <2>8, <2>11, <3>1 DEF RecordsAreBlocks, Placed, Complete, FieldsOf
  <2> QED
    BY <1>4, <1>6, <1>7, <2>7, <2>12 DEF ImportInv
<1>10. CASE ~({"Msg", "result"} \subseteq DOMAIN current)
  <2>1. UNCHANGED records
    BY <1>10 DEF FinishRecord
  <2>2. Complete' = Complete
    <3>1. \A b : b \in 0 .. block' - 1 <=> (b \in 0 .. block - 1 \/ b = block)
      BY <1>1
    <3> QED
      BY <1>2, <1>3, <1>10, <3>1 DEF Complete, FieldsOf
  <2>3. \A i \in DOMAIN records : Placed(i)'
    BY <1>1, <2>1, <2>2 DEF Placed, FieldsOf
  <2>4. RecordsAreBlocks'
    BY <1>1, <2>1, <2>2, <2>3 DEF RecordsAreBlocks, Placed, Complete, FieldsOf
  <2> QED
    BY <1>1, <1>4, <1>6, <1>7, <2>1, <2>4 DEF ImportInv
<1> QED
  BY <1>9, <1>10

\* A field goes to the block being read and disturbs none before it.
LEMMA FieldRead ==
  ASSUME ImportInv, FieldLine
  PROVE  ImportInv'
<1>1. /\ block \in Nat
      /\ present \subseteq (0 .. block) \X Fields
      /\ current \in FieldsAt(FieldsOf(block))
      /\ \A k \in DOMAIN current : current[k].from = block
      /\ records \in Seq(RecordSet)
      /\ Len(records) = Cardinality(Complete)
      /\ \A i \in DOMAIN records : Placed(i)
  BY RecordsAre DEF ImportInv
<1>2. UNCHANGED <<block, records>>
  BY DEF FieldLine
<1>3. PICK key \in Fields, value \in ToSet(Wanted) \cup CavpMessages :
        /\ current' = [k \in {key} \cup DOMAIN current |->
                          IF k = key THEN [is |-> value, from |-> block] ELSE current[k]]
        /\ present' = present \cup {<<block, key>>}
  BY DEF FieldLine, Values
<1>4. present' \subseteq (0 .. block') \X Fields
  BY <1>1, <1>2, <1>3
<1>5. {k \in Fields : <<block, k>> \in present'} = {key} \cup FieldsOf(block)
  BY <1>3 DEF FieldsOf
<1>6. /\ DOMAIN current = FieldsOf(block)
      /\ \A x \in DOMAIN current : current[x] \in [is : ToSet(Wanted) \cup CavpMessages, from : Nat]
  BY <1>1 DEF FieldsAt
<1>7. [is |-> value, from |-> block] \in [is : ToSet(Wanted) \cup CavpMessages, from : Nat]
  BY <1>1
<1>8. current' \in [{key} \cup FieldsOf(block) -> [is : ToSet(Wanted) \cup CavpMessages, from : Nat]]
  BY <1>3, <1>6, <1>7
<1>9. current' \in FieldsAt(FieldsOf(block))'
  BY <1>2, <1>5, <1>8 DEF FieldsAt, FieldsOf
<1>10. \A k \in DOMAIN current' : current'[k].from = block'
  BY <1>1, <1>2, <1>3
<1>11. ASSUME NEW b, b # block
       PROVE  FieldsOf(b)' = FieldsOf(b)
  BY <1>3, <1>11 DEF FieldsOf
<1>12. Complete' = Complete
  BY <1>1, <1>2, <1>3 DEF Complete, FieldsOf
<1>13. ASSUME NEW i \in DOMAIN records
       PROVE  Placed(i)'
  <2>1. Placed(i)
    BY <1>1
  <2>2. records[i].Msg.from \in Complete /\ records[i].Msg.from # block
    BY <1>1, <2>1 DEF Placed, Complete
  <2>3. {k \in Fields : <<records[i].Msg.from, k>> \in present'} = FieldsOf(records[i].Msg.from)
    BY <1>3, <2>2 DEF FieldsOf
  <2> QED
    BY <1>2, <1>12, <2>1, <2>3 DEF Placed, FieldsOf
<1>14. RecordsAreBlocks'
  BY <1>1, <1>2, <1>12, <1>13 DEF RecordsAreBlocks, Placed, Complete, FieldsOf
<1> QED
  BY <1>1, <1>2, <1>4, <1>9, <1>10, <1>14 DEF ImportInv

LEMMA NothingRead ==
  ASSUME ImportInv, UNCHANGED <<current, records, block, present>>
  PROVE  ImportInv'
  BY DEF ImportInv, RecordsAreBlocks, FieldsOf

\* The records are the complete blocks of any text.
THEOREM RecordsAreBlocksAlways == UsersSpec => []RecordsAreBlocks
<1>1. UsersInit => ImportInv
  <2> SUFFICES ASSUME ImportInit PROVE ImportInv
    BY DEF UsersInit
  <2>1. current = NoRecord /\ records = << >> /\ block = 0 /\ present = {}
    BY DEF ImportInit
  <2>2. FieldsOf(block) = {} /\ Complete = {}
    BY <2>1 DEF FieldsOf, Complete
  <2>3. current \in FieldsAt({}) /\ DOMAIN current = {}
    BY <2>1 DEF NoRecord, FieldsAt
  <2>4. records \in Seq(RecordSet) /\ Len(records) = 0 /\ DOMAIN records = {}
    BY <2>1
  <2>5. RecordsAreBlocks
    BY <2>2, <2>4, FS_EmptySet, RecordsAre
  <2> QED
    BY <2>1, <2>2, <2>3, <2>4, <2>5 DEF ImportInv
<1>2. ImportInv /\ [UsersNext]_usersVars => ImportInv'
  <2> SUFFICES ASSUME ImportInv, [UsersNext]_usersVars
               PROVE  ImportInv'
    OBVIOUS
  <2>1. CASE BlankLine
    BY <2>1, BlockEnds DEF BlankLine
  <2>2. CASE OtherLine
    BY <2>2, NothingRead DEF OtherLine
  <2>3. CASE FieldLine
    BY <2>3, FieldRead
  <2>4. CASE EndOfText
    BY <2>4, BlockEnds DEF EndOfText
  <2>5. CASE SelectByLength
    BY <2>5, FileStarts DEF SelectByLength, Gather
  <2>6. CASE SelectLongest
    BY <2>6, FileStarts DEF SelectLongest, Gather
  <2>7. CASE UNCHANGED importVars
    BY <2>7, NothingRead DEF importVars
  <2> QED
    BY <2>1, <2>2, <2>3, <2>4, <2>5, <2>6, <2>7
    DEF UsersNext, KdfUses, StreamUses, Imports, ImportNext, usersVars
<1>3. ImportInv => RecordsAreBlocks
  BY DEF ImportInv
<1> QED
  BY <1>1, <1>2, <1>3, PTL DEF UsersSpec

================================================================================
