------------------------------ MODULE FuzzyProofs ------------------------------
(***************************************************************************)
(* Theorems about the fuzzy extractor, for every code that corrects T      *)
(* words, every length of it, and every sequence of operations.            *)
(*                                                                         *)
(* First what a code is and why the error the decoder finds is the one     *)
(* that was made; then the encoder and the decoder clock by clock; then    *)
(* what each state of an operation hands to the next.                      *)
(***************************************************************************)
EXTENDS FuzzyExtractor, SequenceTheorems, FiniteSetTheorems, TLAPS

LEMMA Sizes ==
  /\ DataWords \in Nat /\ DataWords >= 2
  /\ CodeWords \in Nat /\ CodeWords > DataWords
BY CodeParameters

\* Words are equal if they are everywhere.
LEMMA SameCode ==
  ASSUME NEW a \in Code, NEW b \in Code, \A i \in 1 .. CodeWords : a[i] = b[i]
  PROVE  a = b
<1>1. a = [i \in 1 .. CodeWords |-> a[i]] /\ b = [i \in 1 .. CodeWords |-> b[i]]
  BY DEF Code
<1>2. QED BY <1>1

\* A codeword is the data words, then the check words.
LEMMA EncodeAt ==
  ASSUME NEW d \in Data
  PROVE  /\ Encode(d) \in Code
         /\ \A i \in 1 .. DataWords : Encode(d)[i] = d[i]
         /\ \A i \in DataWords + 1 .. CodeWords : Encode(d)[i] = Ecc(d)[i - DataWords]
<1> USE Sizes
<1>1. d \in Seq(Word) /\ Len(d) = DataWords
  BY SeqDef, LenProperties DEF Data
<1>2. Ecc(d) \in [1 .. CodeWords - DataWords -> Word] /\ CodeWords - DataWords \in Nat
  BY CodeParameters
<1>3. Ecc(d) \in Seq(Word) /\ Len(Ecc(d)) = CodeWords - DataWords
  BY <1>2, SeqDef, LenProperties
<1> DEFINE c == d \o Ecc(d)
<1>4. /\ c \in Seq(Word) /\ Len(c) = CodeWords
      /\ \A i \in 1 .. CodeWords : c[i] = IF i <= DataWords THEN d[i] ELSE Ecc(d)[i - DataWords]
  <2>1. /\ d \o Ecc(d) \in Seq(Word)
        /\ Len(d \o Ecc(d)) = Len(d) + Len(Ecc(d))
        /\ \A i \in 1 .. Len(d) + Len(Ecc(d)) :
             (d \o Ecc(d))[i] = IF i <= Len(d) THEN d[i] ELSE Ecc(d)[i - Len(d)]
    BY <1>1, <1>3, ConcatProperties, Zenon
  <2>2. Len(d) + Len(Ecc(d)) = CodeWords
    BY <1>1, <1>3
  <2>3. QED BY <1>1, <2>1, <2>2
<1>5. c \in Code
  BY <1>4, LenProperties DEF Code
<1>6. QED BY <1>4, <1>5 DEF Encode

\* The data words of a received word are its first ones.
LEMMA DataOfAt ==
  ASSUME NEW c \in Code
  PROVE  DataOf(c) \in Data /\ \A i \in 1 .. DataWords : DataOf(c)[i] = c[i]
<1> USE Sizes
<1>1. c \in Seq(Word) /\ Len(c) = CodeWords
  BY SeqDef, LenProperties DEF Code
<1>2. /\ DataOf(c) \in Seq(Word) /\ Len(DataOf(c)) = DataWords
      /\ \A i \in 1 .. DataWords : DataOf(c)[i] = c[i]
  BY <1>1, SubSeqProperties DEF DataOf
<1>3. DataOf(c) \in Data
  BY <1>2, LenProperties DEF Data
<1>4. QED BY <1>2, <1>3

\* The code is systematic.
LEMMA DataOfEncode ==
  ASSUME NEW d \in Data
  PROVE  DataOf(Encode(d)) = d
<1> USE Sizes
<1>1. Encode(d) \in Code /\ \A i \in 1 .. DataWords : Encode(d)[i] = d[i]
  BY EncodeAt
<1>2. DataOf(Encode(d)) \in Data /\ \A i \in 1 .. DataWords : DataOf(Encode(d))[i] = d[i]
  BY <1>1, DataOfAt
<1>3. QED BY <1>2 DEF Data

\* The register loses its oldest word and takes the new one.
LEMMA ShiftAt ==
  ASSUME NEW reg \in Code, NEW w \in Word
  PROVE  /\ Shift(reg, w) \in Code
         /\ \A i \in 1 .. CodeWords - 1 : Shift(reg, w)[i] = reg[i + 1]
         /\ Shift(reg, w)[CodeWords] = w
<1> USE Sizes
<1>1. reg \in Seq(Word) /\ Len(reg) = CodeWords /\ reg # << >>
  <2>1. reg \in Seq(Word) /\ Len(reg) = CodeWords
    BY SeqDef, LenProperties DEF Code
  <2>2. QED BY <2>1, EmptySeq
<1> DEFINE tail == Tail(reg)
<1>2. /\ tail \in Seq(Word) /\ Len(tail) = CodeWords - 1
      /\ \A i \in 1 .. CodeWords - 1 : tail[i] = reg[i + 1]
  BY <1>1, HeadTailProperties
<1> HIDE DEF tail
<1>3. /\ Append(tail, w) \in Seq(Word) /\ Len(Append(tail, w)) = CodeWords
      /\ \A i \in 1 .. CodeWords - 1 : Append(tail, w)[i] = tail[i]
      /\ Append(tail, w)[CodeWords] = w
  BY <1>2, AppendProperties
<1>4. Append(tail, w) \in Code
  BY <1>3, LenProperties DEF Code
<1>5. QED BY <1>2, <1>3, <1>4 DEF Shift, tail

--------------------------------------------------------------------------------
\* A mask taken twice is off again.
LEMMA XorTwice ==
  ASSUME NEW a \in Code, NEW b \in Code
  PROVE  /\ Xor(a, b) \in Code
         /\ Xor(Xor(a, b), b) = a
<1>1. Xor(a, b) \in Code
  BY DEF Xor, Code, Word
<1>2. Xor(Xor(a, b), b) \in Code
  BY DEF Xor, Code, Word
<1>3. \A i \in 1 .. CodeWords : Xor(Xor(a, b), b)[i] = a[i]
  <2> TAKE i \in 1 .. CodeWords
  <2>1. Xor(a, b)[i] = (a[i] # b[i]) /\ Xor(Xor(a, b), b)[i] = (Xor(a, b)[i] # b[i])
    BY DEF Xor
  <2>2. a[i] \in BOOLEAN /\ b[i] \in BOOLEAN
    BY DEF Code, Word
  <2>3. QED BY <2>1, <2>2
<1>4. QED BY <1>1, <1>2, <1>3, SameCode

\* What the helper data hides: the difference of the two responses.
LEMMA MaskMoves ==
  ASSUME NEW c \in Code, NEW o \in Code, NEW r \in Code
  PROVE  Xor(Xor(c, o), r) = Xor(c, Xor(o, r))
<1>1. Xor(Xor(c, o), r) \in Code /\ Xor(c, Xor(o, r)) \in Code
  BY XorTwice
<1>2. \A i \in 1 .. CodeWords : Xor(Xor(c, o), r)[i] = Xor(c, Xor(o, r))[i]
  <2> TAKE i \in 1 .. CodeWords
  <2>1. /\ Xor(Xor(c, o), r)[i] = (Xor(c, o)[i] # r[i])
        /\ Xor(c, o)[i] = (c[i] # o[i])
        /\ Xor(c, Xor(o, r))[i] = (c[i] # Xor(o, r)[i])
        /\ Xor(o, r)[i] = (o[i] # r[i])
    BY DEF Xor
  <2>2. c[i] \in BOOLEAN /\ o[i] \in BOOLEAN /\ r[i] \in BOOLEAN
    BY DEF Code, Word
  <2>3. QED BY <2>1, <2>2
<1>3. QED BY <1>1, <1>2, SameCode

\* A distance is a number.
LEMMA WrongPlaces ==
  ASSUME NEW a \in Code, NEW b \in Code
  PROVE  /\ IsFiniteSet({i \in 1 .. CodeWords : a[i] # b[i]})
         /\ Distance(a, b) \in Nat
<1>1. IsFiniteSet(1 .. CodeWords)
  BY Sizes, FS_Interval
<1>2. IsFiniteSet({i \in 1 .. CodeWords : a[i] # b[i]})
  BY <1>1, FS_Subset
<1>3. QED BY <1>2, FS_CardinalityType DEF Distance

\* Two codewords that one word is T away from are the same: the decoder finds the
\* error that was made.
LEMMA ErrorIsFound ==
  ASSUME NEW d \in Data, NEW n \in Code, Distance(n, Zeros(CodeWords)) <= T,
         NEW e \in ErrorsOf(Xor(Encode(d), n))
  PROVE  e = n
<1> DEFINE zero == Zeros(CodeWords)
           cw == Encode(d)
           received == Xor(cw, n)
           close == {x \in Code : \E y \in Data : received = Xor(Encode(y), x) /\ Distance(x, zero) <= T}
<1>1. zero \in Code /\ \A i \in 1 .. CodeWords : zero[i] = FALSE
  BY DEF Zeros, Code, Word
<1>2. cw \in Code
  BY EncodeAt
<1>3. n \in close
  OBVIOUS
<1>4. e \in close
  <2>1. close # {}
    BY <1>3
  <2>2. ErrorsOf(received) = close
    BY <2>1 DEF ErrorsOf
  <2>3. QED BY <2>2
<1>5. PICK y \in Data : received = Xor(Encode(y), e) /\ Distance(e, zero) <= T
  BY <1>4
<1> DEFINE other == Encode(y)
<1>6. e \in Code /\ other \in Code
  BY <1>4, EncodeAt
<1> DEFINE A == {i \in 1 .. CodeWords : n[i] # zero[i]}
           B == {i \in 1 .. CodeWords : e[i] # zero[i]}
           D == {i \in 1 .. CodeWords : cw[i] # other[i]}
<1>7. D \subseteq A \cup B
  <2> SUFFICES ASSUME NEW i \in 1 .. CodeWords, n[i] = zero[i], e[i] = zero[i]
               PROVE  cw[i] = other[i]
    OBVIOUS
  <2>1. Xor(cw, n)[i] = (cw[i] # n[i]) /\ Xor(other, e)[i] = (other[i] # e[i])
    BY DEF Xor
  <2>2. (cw[i] # n[i]) = (other[i] # e[i])
    BY <1>5, <2>1
  <2>3. n[i] = FALSE /\ e[i] = FALSE
    BY <1>1
  <2>4. cw[i] \in BOOLEAN /\ other[i] \in BOOLEAN
    BY <1>2, <1>6 DEF Code, Word
  <2> HIDE DEF cw, other
  <2>5. QED BY <2>2, <2>3, <2>4
<1>8. /\ IsFiniteSet(A) /\ Cardinality(A) \in Nat /\ Cardinality(A) <= T
      /\ IsFiniteSet(B) /\ Cardinality(B) \in Nat /\ Cardinality(B) <= T
      /\ IsFiniteSet(D) /\ Cardinality(D) \in Nat
  BY <1>1, <1>2, <1>5, <1>6, WrongPlaces DEF Distance
<1>9. Cardinality(D) <= T + T
  <2> HIDE DEF A, B, D
  <2>1. IsFiniteSet(A \cup B) /\ Cardinality(A \cup B) <= Cardinality(A) + Cardinality(B)
    <3>1. IsFiniteSet(A \cap B)
      BY <1>8, FS_Subset
    <3>2. /\ IsFiniteSet(A \cup B)
          /\ Cardinality(A \cup B) = Cardinality(A) + Cardinality(B) - Cardinality(A \cap B)
      BY <1>8, FS_Union
    <3>3. Cardinality(A \cap B) \in Nat
      BY <3>1, FS_CardinalityType
    <3>4. QED BY <1>8, <3>2, <3>3
  <2>2. Cardinality(D) <= Cardinality(A \cup B)
    BY <1>7, <2>1, FS_Subset
  <2>3. Cardinality(A \cup B) \in Nat
    BY <2>1, FS_CardinalityType
  <2>4. QED BY <1>8, <2>1, <2>2, <2>3, CodeParameters
<1>10. y = d
  <2>1. d # y => Distance(cw, other) > 2 * T
    BY CodeParameters
  <2>2. Distance(cw, other) = Cardinality(D)
    BY DEF Distance
  <2> HIDE DEF D, cw, other
  <2>3. QED BY <1>8, <1>9, <2>1, <2>2, CodeParameters
<1>11. Xor(cw, n) = Xor(cw, e)
  BY <1>5, <1>10
<1>12. \A i \in 1 .. CodeWords : n[i] = e[i]
  <2> TAKE i \in 1 .. CodeWords
  <2>1. Xor(cw, n)[i] = (cw[i] # n[i]) /\ Xor(cw, e)[i] = (cw[i] # e[i])
    BY DEF Xor
  <2>2. (cw[i] # n[i]) = (cw[i] # e[i])
    BY <1>11, <2>1
  <2>3. cw[i] \in BOOLEAN /\ n[i] \in BOOLEAN /\ e[i] \in BOOLEAN
    BY <1>2, <1>6 DEF Code, Word
  <2> HIDE DEF cw
  <2>4. QED BY <2>2, <2>3
<1>13. QED BY <1>6, <1>12, SameCode

\* What enrolment gave out and a response near the enrolled one lead the decoder
\* back to the codeword of the enrolled key.
LEMMA Recovered ==
  ASSUME NEW o \in Code, NEW r \in Code, Distance(r, o) <= T,
         NEW rx, rx = Xor(Xor(Encode(DataOf(o)), o), r), NEW e \in ErrorsOf(rx)
  PROVE  Xor(rx, e) = Encode(DataOf(o))
<1> DEFINE d == DataOf(o)
           n == Xor(o, r)
           zero == Zeros(CodeWords)
<1>1. d \in Data /\ Encode(d) \in Code
  BY DataOfAt, EncodeAt
<1>2. n \in Code
  BY XorTwice
<1>3. rx = Xor(Encode(d), n)
  BY <1>1, MaskMoves
<1>4. Distance(n, zero) <= T
  <2>1. \A i \in 1 .. CodeWords : n[i] # zero[i] <=> r[i] # o[i]
    <3> TAKE i \in 1 .. CodeWords
    <3>1. n[i] = (o[i] # r[i]) /\ zero[i] = FALSE
      BY DEF Xor, Zeros
    <3>2. o[i] \in BOOLEAN /\ r[i] \in BOOLEAN
      BY DEF Code, Word
    <3> HIDE DEF n, zero
    <3>3. QED BY <3>1, <3>2
  <2> HIDE DEF n, zero
  <2>2. {i \in 1 .. CodeWords : n[i] # zero[i]} = {i \in 1 .. CodeWords : r[i] # o[i]}
    BY <2>1
  <2>3. Distance(n, zero) = Distance(r, o)
    BY <2>2 DEF Distance
  <2>4. QED BY <2>3
<1>5. e = n
  BY <1>1, <1>2, <1>3, <1>4, ErrorIsFound
<1>6. QED BY <1>1, <1>2, <1>3, <1>5, XorTwice

\* What the decoder finds has the length of a codeword.
LEMMA ErrorsType == \A c : ErrorsOf(c) \subseteq Code
BY CodeParameters DEF ErrorsOf

--------------------------------------------------------------------------------
(***************************************************************************)
(* The encoder.  n counts the clocks of the FSM in an encoding state: in   *)
(* clock n the encoder sees what the FSM gave it two clocks before, and    *)
(* the FSM what the encoder gave out two clocks before.                    *)
(***************************************************************************)
Least(a, b) == IF a < b THEN a ELSE b
Prefix(s, m) == [i \in 1 .. m |-> s[i]]

\* What the FSM gives the encoder in its clock m.
InAt(in, m) ==
  /\ in.start <=> m = 0
  /\ m >= 0 => in.ce
  /\ m \in 0 .. DataWords - 1 => in.word = keyReg[m + 1]

\* What the encoder gives out in clock m.
OutAt(out, m) ==
  /\ out.first <=> m = 2
  /\ out.last <=> m = CodeWords + 1
  /\ m \in 2 .. CodeWords + 1 => out.word = Encode(keyReg)[m - 1]

LfsrAt(n) ==
  /\ encBusy <=> n \in 3 .. CodeWords + 1
  /\ encLast <=> n = CodeWords + 1
  /\ encLoad <=> n \in 3 .. DataWords + 1
  /\ n \in 3 .. CodeWords + 1 => encCount = n - 3
  /\ n >= 3 => encData = Prefix(keyReg, Least(n - 2, DataWords))

\* The newest words of the codeword are in the register, oldest first.
CapturedAt(n) ==
  /\ cap <=> n >= 5
  /\ \A i \in 1 .. n - 4 : cwReg[CodeWords - (n - 4) + i] = Encode(keyReg)[i]

EncAt(n) ==
  /\ wordCnt = Least(n, DataWords)
  /\ InAt(encIn[1], n - 2) /\ InAt(encIn[2], n - 1)
  /\ OutAt(encOut[1], n - 2) /\ OutAt(encOut[2], n - 1)
  /\ LfsrAt(n)
  /\ CapturedAt(n)

\* Nothing of an encoding is left in the encoder.
EncQuiet ==
  /\ ~encBusy /\ ~encLast /\ ~encLoad
  /\ \A k \in 1 .. 2 : ~encIn[k].start /\ ~encOut[k].first /\ ~encOut[k].last

Clocks == 0 .. CodeWords + 3

EncInv == IF Encoding THEN \E n \in Clocks : EncAt(n) ELSE EncQuiet

FeType ==
  /\ state \in States
  /\ wordCnt \in 0 .. CodeWords - 1
  /\ respReg \in Code /\ rReg \in Code /\ helperOut \in Code /\ origin \in Code
  /\ cwReg \in Code /\ errReg \in Code /\ corrected \in Code
  /\ keyReg \in Data /\ keyOut \in Data
  /\ job \in [mode : {"none", "enroll", "reconstruct"}, resp : Code]
  /\ encCount \in 0 .. CodeWords - 1
  /\ Len(encData) \in 0 .. DataWords

\* The prefixes of a sequence grow word by word.
LEMMA PrefixType ==
  ASSUME NEW N \in Nat, NEW s \in [1 .. N -> Word], NEW m \in 0 .. N
  PROVE  /\ Prefix(s, m) \in Seq(Word) /\ Len(Prefix(s, m)) = m
         /\ m < N => Append(Prefix(s, m), s[m + 1]) = Prefix(s, m + 1)
         /\ Prefix(s, N) = s
<1>1. ASSUME NEW k \in 0 .. N
      PROVE  Prefix(s, k) \in Seq(Word) /\ Len(Prefix(s, k)) = k
  <2>1. Prefix(s, k) \in [1 .. k -> Word]
    BY DEF Prefix
  <2>2. QED BY <2>1, SeqDef, LenProperties
<1>2. ASSUME m < N
      PROVE  Append(Prefix(s, m), s[m + 1]) = Prefix(s, m + 1)
  <2> DEFINE long == Append(Prefix(s, m), s[m + 1])
             next == Prefix(s, m + 1)
  <2>1. s[m + 1] \in Word
    BY <1>2
  <2>2. /\ long \in Seq(Word) /\ Len(long) = m + 1
        /\ \A i \in 1 .. m : long[i] = Prefix(s, m)[i]
        /\ long[m + 1] = s[m + 1]
    BY <1>1, <2>1, AppendProperties
  <2>3. next \in Seq(Word) /\ Len(next) = m + 1
    BY <1>1, <1>2
  <2>4. \A i \in 1 .. m + 1 : next[i] = s[i]
    BY DEF Prefix
  <2>5. \A i \in 1 .. m : long[i] = s[i]
    BY <2>2 DEF Prefix
  <2> HIDE DEF long, next
  <2>6. \A i \in 1 .. Len(long) : long[i] = next[i]
    BY <2>2, <2>4, <2>5
  <2>7. long = next
    BY <2>2, <2>3, <2>6, SeqEqual
  <2>8. QED BY <2>7 DEF long, next
<1>3. Prefix(s, N) = s
  BY DEF Prefix
<1>4. QED BY <1>1, <1>2, <1>3

\* The FSM gives the encoder the words of the key, from the first one on.
LEMMA InputNow ==
  ASSUME FeType, Encoding, NEW n \in Clocks, wordCnt = Least(n, DataWords)
  PROVE  InAt(EncoderInput, n)
<1> USE Sizes
<1>1. wordCnt = 0 <=> n = 0
  BY DEF Least, Clocks
<1>2. EncoderInput = [word |-> wordCnt < DataWords /\ keyReg[wordCnt + 1], start |-> wordCnt = 0, ce |-> TRUE]
  BY DEF EncoderInput
<1>3. EncoderInput.start <=> n = 0
  BY <1>1, <1>2
<1>4. EncoderInput.ce
  BY <1>2
<1>5. n \in 0 .. DataWords - 1 => EncoderInput.word = keyReg[n + 1]
  <2> HAVE n \in 0 .. DataWords - 1
  <2>1. wordCnt = n
    BY DEF Least
  <2>2. EncoderInput.word = (n < DataWords /\ keyReg[n + 1])
    BY <1>2, <2>1
  <2>3. keyReg[n + 1] \in BOOLEAN
    BY DEF FeType, Data, Word
  <2>4. QED BY <2>2, <2>3
<1>6. QED BY <1>3, <1>4, <1>5 DEF InAt

\* The encoder gives out the codeword of the key, word by word.
LEMMA OutputNow ==
  ASSUME FeType, NEW n \in Clocks, EncAt(n), NEW out,
         out = [word |-> EncoderWord(encIn[1]), first |-> encIn[1].start /\ ~encBusy, last |-> encLast]
  PROVE  OutAt(out, n)
<1> USE Sizes DEF Clocks
<1>0. LfsrAt(n) /\ InAt(encIn[1], n - 2) /\ keyReg \in Data
  BY DEF EncAt, FeType
<1>1. out.first <=> n = 2
  <2>1. out.first <=> encIn[1].start /\ ~encBusy
    OBVIOUS
  <2>2. QED BY <1>0, <2>1 DEF LfsrAt, InAt
<1>2. out.last <=> n = CodeWords + 1
  <2>1. out.last <=> encLast
    OBVIOUS
  <2>2. QED BY <1>0, <2>1 DEF LfsrAt
<1>3. n \in 2 .. CodeWords + 1 => out.word = Encode(keyReg)[n - 1]
  <2> HAVE n \in 2 .. CodeWords + 1
  <2>1. out.word = EncoderWord(encIn[1])
    OBVIOUS
  <2>2. CASE n <= DataWords + 1
    <3>1. encIn[1].start \/ encLoad
      BY <1>0, <2>2 DEF LfsrAt, InAt
    <3>2. encIn[1].word = keyReg[n - 1]
      BY <1>0, <2>2 DEF InAt
    <3>3. EncoderWord(encIn[1]) = encIn[1].word
      BY <3>1 DEF EncoderWord
    <3>4. Encode(keyReg)[n - 1] = keyReg[n - 1]
      BY <1>0, <2>2, EncodeAt
    <3>5. QED BY <2>1, <3>2, <3>3, <3>4
  <2>3. CASE n > DataWords + 1
    <3>1. ~encIn[1].start /\ ~encLoad
      BY <1>0, <2>3 DEF LfsrAt, InAt
    <3>2. encData = keyReg /\ Len(encData) = DataWords
      <4>1. encData = Prefix(keyReg, DataWords)
        BY <1>0, <2>3 DEF LfsrAt, Least
      <4>2. QED BY <1>0, <4>1, PrefixType DEF Data
    <3>3. encCount = n - 3 /\ encCount + 2 = n - 1 /\ n - 1 \in DataWords + 1 .. CodeWords
      BY <1>0, <2>3 DEF LfsrAt
    <3> DEFINE check == Ecc(keyReg)[n - 1 - DataWords]
    <3>4. check \in BOOLEAN
      <4>1. Ecc(keyReg) \in [1 .. CodeWords - DataWords -> Word]
        BY <1>0, CodeParameters
      <4>2. QED BY <3>3, <4>1 DEF Word
    <3> DEFINE shifted == Ecc(encData)[encCount + 2 - DataWords]
    <3>5. shifted = check
      <4>1. encCount + 2 - DataWords = n - 1 - DataWords
        BY <3>3
      <4>2. QED BY <3>2, <4>1, Zenon
    <3>6. EncoderWord(encIn[1]) = check
      <4> HIDE DEF check
      <4>1. EncoderWord(encIn[1]) = (Len(encData) = DataWords /\ encCount + 2 \in DataWords + 1 .. CodeWords /\ shifted)
        BY <3>1, Zenon DEF EncoderWord
      <4> HIDE DEF shifted
      <4>2. QED BY <3>2, <3>3, <3>4, <3>5, <4>1
    <3>7. Encode(keyReg)[n - 1] = check
      BY <1>0, <3>3, EncodeAt
    <3>8. QED BY <2>1, <3>6, <3>7
  <2>4. QED BY <2>2, <2>3
<1>4. QED BY <1>1, <1>2, <1>3 DEF OutAt

\* The LFSR has taken the data words once its load phase ends.
LEMMA LfsrNow ==
  ASSUME FeType, NEW n \in Clocks, EncAt(n), Encoder, keyReg' = keyReg
  PROVE  /\ n < CodeWords + 3 => LfsrAt(n + 1)'
         /\ n = CodeWords + 3 => ~encBusy' /\ ~encLast' /\ ~encLoad'
         /\ encCount' \in 0 .. CodeWords - 1 /\ Len(encData') \in 0 .. DataWords
<1> USE Sizes DEF Clocks
<1> DEFINE in == encIn[1]
<1>0. LfsrAt(n) /\ InAt(in, n - 2) /\ keyReg \in Data
  BY DEF EncAt, FeType
<1>1. ~in.ce => UNCHANGED <<encBusy, encLast, encLoad, encCount, encData>>
  BY DEF Encoder, EncoderAt
<1>2. in.ce /\ in.start =>
        encBusy' = TRUE /\ encLast' = FALSE /\ encLoad' = TRUE /\ encCount' = 0 /\ encData' = <<in.word>>
  BY DEF Encoder, EncoderAt
<1>3. in.ce /\ ~in.start =>
        /\ encLast' <=> encCount = CodeWords - 3 /\ encBusy
        /\ encBusy' <=> encBusy /\ ~(encLast /\ encCount # CodeWords - 3)
        /\ encLoad' <=> encLoad /\ encCount # DataWords - 2
        /\ encCount' = IF encBusy THEN encCount + 1 ELSE encCount
        /\ encData' = IF encLoad THEN Append(encData, in.word) ELSE encData
  BY DEF Encoder, EncoderAt
<1> HIDE DEF in
<1>4. CASE n < 2
  <2>1. ~in.start /\ ~encBusy /\ ~encLast /\ ~encLoad
    BY <1>0, <1>4 DEF InAt, LfsrAt
  <2>2. ~encBusy' /\ ~encLast' /\ ~encLoad' /\ encCount' = encCount /\ encData' = encData
    BY <1>1, <1>3, <2>1
  <2>3. QED BY <1>4, <2>2 DEF LfsrAt, FeType
<1>5. CASE n = 2
  <2>1. in.ce /\ in.start /\ in.word = keyReg[1]
    BY <1>0, <1>5 DEF InAt
  <2>2. encBusy' = TRUE /\ encLast' = FALSE /\ encLoad' = TRUE /\ encCount' = 0 /\ encData' = <<keyReg[1]>>
    BY <1>2, <2>1
  <2>3. <<keyReg[1]>> = Prefix(keyReg, 1) /\ Len(<<keyReg[1]>>) = 1
    <3>1. Prefix(keyReg, 0) = << >>
      BY DEF Prefix
    <3>2. Append(Prefix(keyReg, 0), keyReg[0 + 1]) = Prefix(keyReg, 0 + 1) /\ Len(Prefix(keyReg, 1)) = 1
      <4>1. keyReg \in [1 .. DataWords -> Word] /\ 0 \in 0 .. DataWords /\ 1 \in 0 .. DataWords /\ 0 < DataWords
        BY <1>0 DEF Data
      <4>2. Append(Prefix(keyReg, 0), keyReg[0 + 1]) = Prefix(keyReg, 0 + 1)
        BY <4>1, PrefixType
      <4>3. Len(Prefix(keyReg, 1)) = 1
        BY <4>1, PrefixType
      <4>4. QED BY <4>2, <4>3
    <3>3. Append(<< >>, keyReg[1]) = <<keyReg[1]>>
      OBVIOUS
    <3>4. QED BY <3>1, <3>2, <3>3
  <2>4. QED BY <1>5, <2>2, <2>3 DEF LfsrAt, Least
<1>6. CASE n > 2
  <2>1. in.ce /\ ~in.start
    BY <1>0, <1>6 DEF InAt
  <2>2. n < CodeWords + 3 =>
          /\ encBusy' <=> n + 1 \in 3 .. CodeWords + 1
          /\ encLast' <=> n + 1 = CodeWords + 1
          /\ encLoad' <=> n + 1 \in 3 .. DataWords + 1
          /\ n + 1 \in 3 .. CodeWords + 1 => encCount' = n + 1 - 3
    BY <1>0, <1>3, <1>6, <2>1 DEF LfsrAt
  <2>3. encData' = Prefix(keyReg, Least(n - 1, DataWords))
    <3>1. CASE n <= DataWords + 1
      <4>1. encData = Prefix(keyReg, n - 2) /\ encLoad
        BY <1>0, <1>6, <3>1 DEF LfsrAt, Least
      <4>2. in.word = keyReg[n - 2 + 1]
        BY <1>0, <1>6, <3>1 DEF InAt
      <4>3. n - 2 \in 0 .. DataWords /\ n - 2 < DataWords
        BY <1>6, <3>1
      <4>4. Append(Prefix(keyReg, n - 2), keyReg[n - 2 + 1]) = Prefix(keyReg, n - 2 + 1)
        BY <1>0, <4>3, PrefixType DEF Data
      <4>5. encData' = Append(Prefix(keyReg, n - 2), keyReg[n - 2 + 1])
        BY <1>3, <2>1, <4>1, <4>2
      <4>6. Least(n - 1, DataWords) = n - 2 + 1
        BY <1>6, <3>1 DEF Least
      <4>7. QED BY <4>4, <4>5, <4>6
    <3>2. CASE n > DataWords + 1
      <4>1. encData' = encData
        BY <1>0, <1>3, <2>1, <3>2 DEF LfsrAt
      <4>2. Least(n - 1, DataWords) = Least(n - 2, DataWords)
        BY <3>2 DEF Least
      <4>3. QED BY <1>0, <1>6, <4>1, <4>2 DEF LfsrAt
    <3>3. QED BY <3>1, <3>2
  <2>4. Len(encData') \in 0 .. DataWords
    <3>1. Least(n - 1, DataWords) \in 0 .. DataWords
      BY <1>6 DEF Least
    <3>2. QED BY <1>0, <2>3, <3>1, PrefixType DEF Data
  <2>5. encCount' \in 0 .. CodeWords - 1
    BY <1>0, <1>3, <1>6, <2>1 DEF LfsrAt, FeType
  <2>6. n = CodeWords + 3 => ~encBusy' /\ ~encLast' /\ ~encLoad'
    BY <1>0, <1>3, <1>6, <2>1 DEF LfsrAt
  <2>7. Least(n - 1, DataWords) = Least(n + 1 - 2, DataWords)
    BY DEF Least
  <2>8. QED BY <2>2, <2>3, <2>4, <2>5, <2>6, <2>7 DEF LfsrAt
<1>7. QED BY <1>4, <1>5, <1>6

\* The FSM captures from the first word on and leaves with the last one.
LEMMA CaptureNow ==
  ASSUME FeType, NEW n \in Clocks, EncAt(n), NEW next, EncodeClock(next)
  PROVE  /\ keyReg' = keyReg /\ cwReg' \in Code
         /\ n < CodeWords + 3 => state' = state /\ CapturedAt(n + 1)' /\ wordCnt' = Least(n + 1, DataWords)
         /\ n = CodeWords + 3 => state' = next /\ cwReg' = Encode(keyReg)
         /\ wordCnt' \in 0 .. CodeWords - 1
<1> USE Sizes DEF Clocks
<1>0. /\ CapturedAt(n) /\ OutAt(encOut[1], n - 2) /\ wordCnt = Least(n, DataWords)
      /\ keyReg \in Data /\ cwReg \in Code /\ keyReg' = keyReg
  BY DEF EncAt, FeType, EncodeClock
<1>1. /\ encFirst <=> n = 4
      /\ encLastOut <=> n = CodeWords + 3
      /\ n \in 4 .. CodeWords + 3 => encWord = Encode(keyReg)[n - 3]
  BY <1>0 DEF OutAt, encFirst, encLastOut, encWord
<1>2. /\ wordCnt' = IF wordCnt < DataWords THEN wordCnt + 1 ELSE wordCnt
      /\ cap' <=> (cap \/ encFirst) /\ ~encLastOut
      /\ cwReg' = IF cap \/ encFirst THEN Shift(cwReg, encWord) ELSE cwReg
      /\ state' = IF encLastOut THEN next ELSE state
  BY DEF EncodeClock, Goto
<1>3. wordCnt' = Least(n + 1, DataWords) /\ wordCnt' \in 0 .. CodeWords - 1
  BY <1>0, <1>2 DEF Least
<1>4. CASE n < 4
  BY <1>0, <1>1, <1>2, <1>3, <1>4 DEF CapturedAt
<1>5. CASE n >= 4
  <2>1. encWord = Encode(keyReg)[n - 3] /\ encWord \in Word
    <3>1. Encode(keyReg) \in Code /\ n - 3 \in 1 .. CodeWords
      BY <1>0, <1>5, EncodeAt
    <3>2. QED BY <1>1, <1>5, <3>1 DEF Code
  <2>2. cwReg' = Shift(cwReg, encWord)
    BY <1>0, <1>1, <1>2, <1>5 DEF CapturedAt
  <2>3. /\ cwReg' \in Code
        /\ \A i \in 1 .. CodeWords - 1 : cwReg'[i] = cwReg[i + 1]
        /\ cwReg'[CodeWords] = encWord
    BY <1>0, <2>1, <2>2, ShiftAt
  <2>4. \A i \in 1 .. n - 3 : cwReg'[CodeWords - (n - 3) + i] = Encode(keyReg)[i]
    <3> TAKE i \in 1 .. n - 3
    <3>1. CASE i = n - 3
      BY <2>1, <2>3, <3>1
    <3>2. CASE i < n - 3
      <4>1. CodeWords - (n - 3) + i \in 1 .. CodeWords - 1
        BY <1>5, <3>2
      <4>2. cwReg[CodeWords - (n - 4) + i] = Encode(keyReg)[i]
        BY <1>0, <1>5, <3>2 DEF CapturedAt
      <4>3. CodeWords - (n - 3) + i + 1 = CodeWords - (n - 4) + i
        BY <1>5
      <4>4. cwReg'[CodeWords - (n - 3) + i] = cwReg[CodeWords - (n - 3) + i + 1]
        BY <2>3, <4>1
      <4>5. QED BY <4>2, <4>3, <4>4
    <3>3. QED BY <3>1, <3>2
  <2>5. n < CodeWords + 3 => CapturedAt(n + 1)'
    <3> HAVE n < CodeWords + 3
    <3>1. cap'
      BY <1>0, <1>1, <1>2, <1>5 DEF CapturedAt
    <3>2. n + 1 - 4 = n - 3
      BY <1>5
    <3>3. \A i \in 1 .. n + 1 - 4 : cwReg'[CodeWords - (n + 1 - 4) + i] = Encode(keyReg')[i]
      BY <1>0, <2>4, <3>2
    <3>4. QED BY <1>5, <3>1, <3>3 DEF CapturedAt
  <2>6. n = CodeWords + 3 => cwReg' = Encode(keyReg)
    <3> HAVE n = CodeWords + 3
    <3>1. \A i \in 1 .. CodeWords : cwReg'[i] = Encode(keyReg)[i]
      <4> TAKE i \in 1 .. CodeWords
      <4>1. CodeWords - (n - 3) + i = i /\ i \in 1 .. n - 3
        OBVIOUS
      <4>2. QED BY <2>4, <4>1
    <3>2. QED BY <1>0, <2>3, <3>1, EncodeAt, SameCode
  <2>7. QED BY <1>0, <1>1, <1>2, <1>3, <2>3, <2>5, <2>6
<1>6. QED BY <1>4, <1>5

\* A clock of an encoding.
LEMMA EncodingStep ==
  ASSUME FeType, Encoding, NEW n \in Clocks, EncAt(n), NEW next, EncodeClock(next), Encoder
  PROVE  /\ n < CodeWords + 3 => state' = state /\ EncAt(n + 1)'
         /\ n = CodeWords + 3 => state' = next /\ EncQuiet' /\ cwReg' = Encode(keyReg)
<1> USE Sizes DEF Clocks
<1> DEFINE out == [word |-> EncoderWord(encIn[1]), first |-> encIn[1].start /\ ~encBusy, last |-> encLast]
<1>1. /\ encIn'[1] = encIn[2] /\ encIn'[2] = EncoderInput
      /\ encOut'[1] = encOut[2] /\ encOut'[2] = out
  BY DEF Encoder, EncoderAt
<1>2. keyReg' = keyReg
  BY DEF EncodeClock
<1>3. InAt(encIn[2], n - 1) /\ OutAt(encOut[2], n - 1)
  BY DEF EncAt
<1>4. InAt(EncoderInput, n) /\ OutAt(out, n)
  BY InputNow, OutputNow DEF EncAt
<1> HIDE DEF out
<1>5. CASE n < CodeWords + 3
  <2>1. InAt(encIn[1], n + 1 - 2)' /\ OutAt(encOut[1], n + 1 - 2)'
    <3>1. n + 1 - 2 = n - 1
      OBVIOUS
    <3>2. InAt(encIn[1], n - 1)' /\ OutAt(encOut[1], n - 1)'
      BY <1>1, <1>2, <1>3 DEF InAt, OutAt
    <3>3. QED BY <3>1, <3>2
  <2>2. InAt(encIn[2], n + 1 - 1)' /\ OutAt(encOut[2], n + 1 - 1)'
    <3>1. n + 1 - 1 = n
      OBVIOUS
    <3>2. InAt(encIn[2], n)' /\ OutAt(encOut[2], n)'
      BY <1>1, <1>2, <1>4 DEF InAt, OutAt
    <3>3. QED BY <3>1, <3>2
  <2>3. LfsrAt(n + 1)' /\ CapturedAt(n + 1)' /\ wordCnt' = Least(n + 1, DataWords) /\ state' = state
    BY <1>2, <1>5, LfsrNow, CaptureNow
  <2>4. QED BY <1>5, <2>1, <2>2, <2>3 DEF EncAt
<1>6. CASE n = CodeWords + 3
  <2>1. ~encBusy' /\ ~encLast' /\ ~encLoad' /\ state' = next /\ cwReg' = Encode(keyReg)
    BY <1>2, <1>6, LfsrNow, CaptureNow
  <2>2. /\ ~encIn[2].start /\ ~EncoderInput.start
        /\ ~encOut[2].first /\ ~encOut[2].last /\ ~out.first /\ ~out.last
    BY <1>3, <1>4, <1>6 DEF InAt, OutAt
  <2>3. QED BY <1>1, <1>6, <2>1, <2>2 DEF EncQuiet
<1>7. QED BY <1>5, <1>6

\* A clock without an encoding.
LEMMA QuietStep ==
  ASSUME ~Encoding, EncQuiet, Encoder
  PROVE  EncQuiet' /\ encCount' = encCount /\ encData' = encData
<1> DEFINE in == encIn[1]
           word == EncoderWord(in)
           first == in.start /\ ~encBusy
           out == [word |-> word, first |-> first, last |-> encLast]
<1>1. /\ encIn'[1] = encIn[2] /\ encIn'[2] = NoIn
      /\ encOut'[1] = encOut[2] /\ encOut'[2] = out
  BY DEF Encoder, EncoderAt, EncoderInput
<1>2. ~first /\ ~encLast /\ ~encIn[2].start /\ ~encOut[2].first /\ ~encOut[2].last
  BY DEF EncQuiet
<1>3. in.ce =>
        /\ encLast' <=> ~in.start /\ encCount = CodeWords - 3 /\ encBusy
        /\ encBusy' <=> in.start \/ (encBusy /\ ~(encLast /\ encCount # CodeWords - 3))
        /\ encLoad' <=> in.start \/ (encLoad /\ encCount # DataWords - 2)
        /\ ~in.start /\ ~encBusy => encCount' = encCount
        /\ ~in.start /\ ~encLoad => encData' = encData
  BY DEF Encoder, EncoderAt
<1>4. ~in.ce => UNCHANGED <<encBusy, encLast, encLoad, encCount, encData>>
  BY DEF Encoder, EncoderAt
<1>5. ~in.start /\ ~encBusy /\ ~encLast /\ ~encLoad
  BY DEF EncQuiet
<1> HIDE DEF in, word, first
<1>6. ~encBusy' /\ ~encLast' /\ ~encLoad' /\ encCount' = encCount /\ encData' = encData
  BY <1>3, <1>4, <1>5
<1>7. ~encIn'[2].start
  BY <1>1 DEF NoIn
<1>8. ~encOut'[2].first /\ ~encOut'[2].last
  <2>1. out.first = first /\ out.last = encLast
    OBVIOUS
  <2>2. QED BY <1>1, <1>2, <2>1
<1> HIDE DEF out
<1>9. ~encIn'[1].start /\ ~encOut'[1].first /\ ~encOut'[1].last
  BY <1>1, <1>2
<1>10. QED BY <1>6, <1>7, <1>8, <1>9 DEF EncQuiet

--------------------------------------------------------------------------------
(***************************************************************************)
(* The decoder: the words it was fed are those of rReg, and those it gives *)
(* out are the ones of an error pattern of rReg, in order.                 *)
(***************************************************************************)
Suffix(s, m) == [i \in 1 .. CodeWords - m |-> s[m + i]]

\* Nothing of a decoding is left in the decoder.
DecQuiet == dec.fed = << >> /\ dec.found = << >> /\ ~dec.out.first /\ ~decIn.start

\* The FSM has handed k words to the stage before the decoder.
Taken(k) ==
  /\ dec.found = << >> /\ ~dec.out.first
  /\ decIn.start <=> k = 1
  /\ k \in 1 .. CodeWords => decIn.word = rReg[k]
  /\ dec.fed = Prefix(rReg, k - 1)

\* The FSM has captured k words of e.
Given(e, k) ==
  /\ dec.fed = << >> /\ ~decIn.start
  /\ dec.found = Suffix(e, k + 1)
  /\ dec.out.first <=> k = 0
  /\ dec.out.word = e[k + 1]
  /\ \A i \in 1 .. k : errReg[CodeWords - k + i] = e[i]

DecStates == {"S_DEC_FEED", "S_DEC_WAIT", "S_DEC_CAP"}

DecInv ==
  /\ state \notin DecStates => DecQuiet
  /\ state = "S_DEC_FEED" => Taken(wordCnt)
  /\ state = "S_DEC_WAIT" => \/ \E k \in CodeWords .. CodeWords + 1 : Taken(k)
                             \/ \E e \in ErrorsOf(rReg) : Given(e, 0)
  /\ state = "S_DEC_CAP" =>
       wordCnt <= CodeWords - 2 /\ \E e \in ErrorsOf(rReg) : Given(e, wordCnt + 1)

\* The suffixes of a word shrink word by word.
LEMMA SuffixType ==
  ASSUME NEW e \in Code, NEW m \in 0 .. CodeWords
  PROVE  /\ Suffix(e, m) \in Seq(Word) /\ Len(Suffix(e, m)) = CodeWords - m
         /\ m < CodeWords => /\ Suffix(e, m) # << >>
                             /\ Head(Suffix(e, m)) = e[m + 1]
                             /\ Tail(Suffix(e, m)) = Suffix(e, m + 1)
         /\ Suffix(e, CodeWords) = << >>
         /\ Suffix(e, 0) = e
<1> USE Sizes
<1>1. ASSUME NEW k \in 0 .. CodeWords
      PROVE  Suffix(e, k) \in Seq(Word) /\ Len(Suffix(e, k)) = CodeWords - k
  <2>1. Suffix(e, k) \in [1 .. CodeWords - k -> Word] /\ CodeWords - k \in Nat
    <3>1. \A i \in 1 .. CodeWords - k : k + i \in 1 .. CodeWords
      OBVIOUS
    <3>2. QED BY <3>1 DEF Suffix, Code
  <2>2. QED BY <2>1, SeqDef, LenProperties
<1>2. ASSUME m < CodeWords
      PROVE  /\ Suffix(e, m) # << >>
             /\ Head(Suffix(e, m)) = e[m + 1]
             /\ Tail(Suffix(e, m)) = Suffix(e, m + 1)
  <2> DEFINE s == Suffix(e, m)
             t == Suffix(e, m + 1)
  <2>1. /\ s \in Seq(Word) /\ Len(s) = CodeWords - m
        /\ t \in Seq(Word) /\ Len(t) = CodeWords - m - 1
    <3>1. s \in Seq(Word) /\ Len(s) = CodeWords - m
      BY <1>1
    <3>2. m + 1 \in 0 .. CodeWords
      BY <1>2
    <3>3. t \in Seq(Word) /\ Len(t) = CodeWords - (m + 1)
      BY <1>1, <3>2
    <3>4. CodeWords - (m + 1) = CodeWords - m - 1
      OBVIOUS
    <3>5. QED BY <3>1, <3>3, <3>4
  <2>2. \A i \in 1 .. CodeWords - m : s[i] = e[m + i]
    BY DEF Suffix
  <2>3. \A i \in 1 .. CodeWords - m - 1 : t[i] = e[m + 1 + i]
    BY DEF Suffix
  <2> HIDE DEF s, t
  <2>4. s # << >> /\ Head(s) = s[1]
    <3>1. Len(s) # 0
      BY <1>2, <2>1
    <3>2. s # << >>
      BY <3>1, EmptySeq
    <3>3. QED BY <2>1, <3>2
  <2>5. /\ Tail(s) \in Seq(Word) /\ Len(Tail(s)) = Len(s) - 1
        /\ \A i \in 1 .. Len(Tail(s)) : Tail(s)[i] = s[i + 1]
    BY <2>1, <2>4, HeadTailProperties
  <2>6. \A i \in 1 .. CodeWords - m - 1 : Tail(s)[i] = t[i]
    BY <2>1, <2>2, <2>3, <2>5
  <2>7. Tail(s) = t
    BY <2>1, <2>5, <2>6, SeqEqual
  <2>8. QED BY <1>2, <2>2, <2>4, <2>7 DEF s, t
<1>3. Suffix(e, CodeWords) = << >>
  BY DEF Suffix
<1>4. Suffix(e, 0) = e
  <2>1. Suffix(e, 0) \in Code /\ \A i \in 1 .. CodeWords : Suffix(e, 0)[i] = e[i]
    BY DEF Suffix, Code
  <2>2. QED BY <2>1, SameCode
<1>5. QED BY <1>1, <1>2, <1>3, <1>4

\* The decoder takes the next word.
LEMMA TakenStep ==
  ASSUME FeType, rReg' = rReg, NEW k \in 0 .. CodeWords + 1, Taken(k), DecoderTakes,
         k < CodeWords => (decIn'.start <=> k = 0) /\ decIn'.word = rReg[k + 1],
         k >= CodeWords => ~decIn'.start
  PROVE  Taken(Least(k + 1, CodeWords + 1))'
<1> USE Sizes
<1>1. dec'.found = << >> /\ ~dec'.out.first /\ dec'.fed = Fed
  BY DEF DecoderTakes, NoOut
<1>2. rReg \in [1 .. CodeWords -> Word]
  BY DEF FeType, Code
<1>3. Prefix(rReg, 0) = << >> /\ Prefix(rReg, 0 - 1) = << >>
  BY DEF Prefix
<1>4. Fed = Prefix(rReg, Least(k, CodeWords))
  <2>1. CASE k = 0
    <3>1. ~decIn.start /\ dec.fed = << >>
      BY <1>3, <2>1 DEF Taken
    <3>2. Fed = << >>
      BY <3>1 DEF Fed
    <3>3. QED BY <1>3, <2>1, <3>2 DEF Least
  <2>2. CASE k = 1
    <3>1. decIn.start /\ decIn.word = rReg[1]
      BY <2>2 DEF Taken
    <3>2. Fed = <<rReg[1]>>
      BY <3>1 DEF Fed
    <3>3. Append(Prefix(rReg, 0), rReg[0 + 1]) = Prefix(rReg, 0 + 1)
      <4>1. 0 \in 0 .. CodeWords /\ 0 < CodeWords
        OBVIOUS
      <4>2. QED BY <1>2, <4>1, PrefixType
    <3>4. Append(<< >>, rReg[1]) = <<rReg[1]>>
      OBVIOUS
    <3>5. QED BY <1>3, <2>2, <3>2, <3>3, <3>4 DEF Least
  <2>3. CASE k \in 2 .. CodeWords
    <3>1. ~decIn.start /\ decIn.word = rReg[k] /\ dec.fed = Prefix(rReg, k - 1)
      BY <2>3 DEF Taken
    <3>2. k - 1 \in 0 .. CodeWords /\ k - 1 < CodeWords
      BY <2>3
    <3>3. /\ Prefix(rReg, k - 1) \in Seq(Word) /\ Len(Prefix(rReg, k - 1)) = k - 1
          /\ Append(Prefix(rReg, k - 1), rReg[k - 1 + 1]) = Prefix(rReg, k - 1 + 1)
      BY <1>2, <3>2, PrefixType
    <3>4. Prefix(rReg, k - 1) # << >>
      <4>1. Len(Prefix(rReg, k - 1)) # 0
        BY <2>3, <3>3
      <4>2. QED BY <4>1, EmptySeq
    <3>5. Fed = Append(dec.fed, decIn.word)
      BY <3>1, <3>2, <3>3, <3>4 DEF Fed
    <3>6. k - 1 + 1 = k
      BY <2>3
    <3>7. QED BY <2>3, <3>1, <3>3, <3>5, <3>6 DEF Least
  <2>4. CASE k = CodeWords + 1
    <3>1. ~decIn.start /\ dec.fed = Prefix(rReg, CodeWords)
      BY <2>4 DEF Taken
    <3>2. Len(Prefix(rReg, CodeWords)) = CodeWords
      BY <1>2, PrefixType
    <3>3. Fed = dec.fed
      BY <3>1, <3>2 DEF Fed
    <3>4. QED BY <2>4, <3>1, <3>3 DEF Least
  <2>5. QED BY <2>1, <2>2, <2>3, <2>4
<1> DEFINE next == Least(k + 1, CodeWords + 1)
<1>5. next \in 1 .. CodeWords + 1 /\ next - 1 = Least(k, CodeWords)
  BY DEF Least
<1>6. decIn'.start <=> next = 1
  BY DEF Least
<1>7. next \in 1 .. CodeWords => decIn'.word = rReg[next]
  BY DEF Least
<1> HIDE DEF next
<1>8. QED BY <1>1, <1>4, <1>5, <1>6, <1>7 DEF Taken, next

\* The decoder gives out the next word.
LEMMA GivenStep ==
  ASSUME FeType, NEW e \in Code, NEW k \in 0 .. CodeWords - 1, Given(e, k), Decoder,
         state # "S_DEC_FEED", errReg' = Shift(errReg, decWord)
  PROVE  /\ errReg' \in Code
         /\ k < CodeWords - 1 => Given(e, k + 1)'
         /\ k = CodeWords - 1 => DecQuiet' /\ errReg' = e
<1> USE Sizes
<1>1. decWord = e[k + 1] /\ decWord \in Word
  <2>1. decWord = e[k + 1]
    BY DEF Given, decWord
  <2>2. QED BY <2>1 DEF Code
<1>2. /\ errReg' \in Code
      /\ \A i \in 1 .. CodeWords - 1 : errReg'[i] = errReg[i + 1]
      /\ errReg'[CodeWords] = e[k + 1]
  BY <1>1, ShiftAt DEF FeType
<1>3. \A i \in 1 .. k + 1 : errReg'[CodeWords - (k + 1) + i] = e[i]
  <2> TAKE i \in 1 .. k + 1
  <2>1. CASE i = k + 1
    BY <1>2, <2>1
  <2>2. CASE i < k + 1
    <3>1. CodeWords - (k + 1) + i \in 1 .. CodeWords - 1 /\ CodeWords - (k + 1) + i + 1 = CodeWords - k + i
      BY <2>2
    <3>2. errReg[CodeWords - k + i] = e[i]
      BY <2>2 DEF Given
    <3>3. errReg'[CodeWords - (k + 1) + i] = errReg[CodeWords - (k + 1) + i + 1]
      BY <1>2, <3>1
    <3>4. QED BY <3>1, <3>2, <3>3
  <2>3. QED BY <2>1, <2>2
<1>4. ~decIn'.start
  BY DEF Decoder, DecoderInput, NoDec
<1>5. Fed = << >> /\ dec.fed = << >> /\ dec.found = Suffix(e, k + 1)
  BY DEF Given, Fed
<1>6. Len(dec.fed) # CodeWords
  BY <1>5, EmptySeq
<1>7. CASE k < CodeWords - 1
  <2>1. /\ dec.found # << >>
        /\ Head(dec.found) = e[k + 1 + 1]
        /\ Tail(dec.found) = Suffix(e, k + 1 + 1)
    BY <1>5, <1>7, SuffixType
  <2>2. DecoderGoesOn
    BY <2>1 DEF Decoder, DecoderTakes, DecoderAnswers
  <2>3. /\ dec'.fed = << >> /\ dec'.found = Suffix(e, k + 1 + 1)
        /\ dec'.out.first = FALSE /\ dec'.out.word = e[k + 1 + 1]
    BY <1>5, <2>1, <2>2 DEF DecoderGoesOn, NoOut
  <2>4. QED BY <1>2, <1>3, <1>4, <1>7, <2>3 DEF Given
<1>8. CASE k = CodeWords - 1
  <2>1. dec.found = << >>
    BY <1>5, <1>8, SuffixType
  <2>2. DecoderTakes
    BY <1>6, <2>1 DEF Decoder, DecoderGoesOn, DecoderAnswers
  <2>3. DecQuiet'
    BY <1>4, <1>5, <2>2 DEF DecoderTakes, NoOut, DecQuiet
  <2>4. \A i \in 1 .. CodeWords : errReg'[i] = e[i]
    <3> TAKE i \in 1 .. CodeWords
    <3>1. i \in 1 .. k + 1 /\ CodeWords - (k + 1) + i = i
      BY <1>8
    <3>2. QED BY <1>3, <3>1
  <2>5. errReg' = e
    BY <1>2, <2>4, SameCode
  <2>6. QED BY <1>2, <1>8, <2>3, <2>5
<1>9. QED BY <1>7, <1>8

\* A clock of the decoder, in any state of the FSM.
LEMMA DecStep ==
  ASSUME FeType, DecInv, Fsm, Decoder
  PROVE  /\ DecInv' /\ errReg' \in Code
         /\ state = "S_DEC_CAP" /\ state' = "S_KEYOUT" => errReg' \in ErrorsOf(rReg)
<1> USE Sizes
<1>1. ASSUME state \notin DecStates
      PROVE  DecQuiet'
  <2>1. dec.fed = << >> /\ dec.found = << >> /\ ~decIn.start
    BY <1>1 DEF DecInv, DecQuiet
  <2>2. Fed = << >> /\ Len(dec.fed) # CodeWords
    BY <2>1, EmptySeq DEF Fed
  <2>3. DecoderTakes
    BY <2>1, <2>2 DEF Decoder, DecoderAnswers, DecoderGoesOn
  <2>4. ~decIn'.start
    BY <1>1 DEF Decoder, DecoderInput, NoDec, DecStates
  <2>5. QED BY <2>2, <2>3, <2>4 DEF DecoderTakes, NoOut, DecQuiet
<1>2. CASE Idle
  <2>1. state \notin DecStates /\ state' \in {"S_IDLE", "S_ENC", "S_DEC_FEED"} /\ wordCnt' = 0 /\ errReg' = errReg
    BY <1>2 DEF Idle, Start, DecStates
  <2>2. Prefix(rReg', 0 - 1) = << >>
    BY DEF Prefix
  <2>3. DecQuiet' => Taken(0)'
    BY <2>2 DEF DecQuiet, Taken
  <2>4. QED BY <1>1, <2>1, <2>3 DEF DecInv, DecStates, FeType
<1>3. CASE Enc \/ VerifyEnc \/ HelperOut \/ KeyOut \/ VerifyCmp
  <2>1. state \notin DecStates /\ state' \notin DecStates /\ errReg' = errReg
    BY <1>3 DEF Enc, VerifyEnc, HelperOut, KeyOut, VerifyCmp, EncodeClock, KeyOutCounting, Goto, DecStates
  <2>2. state # "S_DEC_CAP" /\ state' \notin {"S_DEC_FEED", "S_DEC_WAIT", "S_DEC_CAP"}
    BY <2>1 DEF DecStates
  <2>3. QED BY <1>1, <2>1, <2>2 DEF DecInv, FeType
<1>4. CASE DecFeed
  <2>1. /\ state = "S_DEC_FEED" /\ wordCnt \in 0 .. CodeWords - 1 /\ errReg' = errReg /\ rReg' = rReg
        /\ wordCnt < CodeWords - 1 => state' = "S_DEC_FEED" /\ wordCnt' = wordCnt + 1
        /\ wordCnt = CodeWords - 1 => state' = "S_DEC_WAIT"
    BY <1>4 DEF DecFeed, Goto, Latched, FeType
  <2>2. Taken(wordCnt)
    BY <2>1 DEF DecInv
  <2>3. decIn' = [word |-> rReg[wordCnt + 1], start |-> wordCnt = 0]
    BY <2>1 DEF Decoder, DecoderInput
  <2>4. (decIn'.start <=> wordCnt = 0) /\ decIn'.word = rReg[wordCnt + 1]
    BY <2>3
  <2>5. DecoderTakes
    <3>1. Prefix(rReg, 0 - 1) = << >>
      BY DEF Prefix
    <3>2. wordCnt - 1 \in 0 .. CodeWords => Len(Prefix(rReg, wordCnt - 1)) = wordCnt - 1
      BY <2>1, PrefixType DEF FeType, Code
    <3>3. Len(dec.fed) # CodeWords
      BY <2>1, <2>2, <3>1, <3>2, EmptySeq DEF Taken
    <3>4. QED BY <2>2, <3>3 DEF Decoder, DecoderAnswers, DecoderGoesOn, Taken
  <2> PICK k \in 0 .. CodeWords - 1 : k = wordCnt
    BY <2>1
  <2>6. Taken(Least(k + 1, CodeWords + 1))'
    <3>1. k \in 0 .. CodeWords + 1 /\ Taken(k)
      BY <2>2
    <3>2. QED BY <2>1, <2>4, <2>5, <3>1, TakenStep
  <2>7. Least(k + 1, CodeWords + 1) = k + 1
    BY DEF Least
  <2>8. CASE wordCnt < CodeWords - 1
    <3>1. Taken(wordCnt)'
      BY <2>1, <2>6, <2>7, <2>8 DEF Taken
    <3>2. QED BY <2>1, <2>8, <3>1 DEF DecInv, DecStates, FeType
  <2>9. CASE wordCnt = CodeWords - 1
    <3>1. Taken(CodeWords)'
      BY <2>1, <2>6, <2>7, <2>9 DEF Taken
    <3>2. QED BY <2>1, <2>9, <3>1 DEF DecInv, DecStates, FeType
  <2>10. QED BY <2>1, <2>8, <2>9
<1>5. CASE DecWait
  <2>1. /\ state = "S_DEC_WAIT" /\ wordCnt' = 0 /\ rReg' = rReg
        /\ decFirst => state' = "S_DEC_CAP" /\ errReg' = Shift(errReg, decWord)
        /\ ~decFirst => state' = "S_DEC_WAIT" /\ errReg' = errReg
    BY <1>5 DEF DecWait, Goto, Latched
  <2>2. ~decIn'.start
    BY <2>1 DEF Decoder, DecoderInput, NoDec
  <2>3. ASSUME NEW k \in CodeWords .. CodeWords + 1, Taken(k)
        PROVE  DecInv' /\ errReg' \in Code /\ state' = "S_DEC_WAIT"
    <3>1. state' = "S_DEC_WAIT" /\ errReg' = errReg
      BY <2>1, <2>3 DEF Taken, decFirst
    <3>2. CASE DecoderTakes
      <4>1. Taken(Least(k + 1, CodeWords + 1))'
        BY <2>1, <2>2, <2>3, <3>2, TakenStep
      <4>2. Least(k + 1, CodeWords + 1) = CodeWords + 1
        BY DEF Least
      <4>3. Taken(CodeWords + 1)'
        BY <4>1, <4>2
      <4>4. QED BY <3>1, <4>3 DEF DecInv, DecStates, FeType
    <3>3. CASE DecoderAnswers
      <4>1. Len(Prefix(rReg, k - 1)) = k - 1 /\ Prefix(rReg, CodeWords) = rReg
        <5>1. k - 1 \in 0 .. CodeWords
          OBVIOUS
        <5>2. QED BY <5>1, PrefixType DEF FeType, Code
      <4>2. k = CodeWords + 1
        BY <2>3, <3>3, <4>1 DEF DecoderAnswers, Taken
      <4>3. dec.fed = rReg
        BY <2>3, <4>1, <4>2 DEF Taken
      <4>4. PICK e \in ErrorsOf(rReg) :
              dec' = [fed |-> << >>, found |-> Tail(e), out |-> [NoOut EXCEPT !.word = Head(e), !.first = TRUE]]
        BY <3>3, <4>3 DEF DecoderAnswers
      <4>5. e \in Code
        BY ErrorsType
      <4>6. Head(e) = e[0 + 1] /\ Tail(e) = Suffix(e, 0 + 1)
        <5>1. 0 \in 0 .. CodeWords /\ 0 < CodeWords
          OBVIOUS
        <5>2. QED BY <4>5, <5>1, SuffixType
      <4>7. /\ dec'.fed = << >> /\ dec'.found = Suffix(e, 0 + 1)
            /\ dec'.out.first = TRUE /\ dec'.out.word = e[0 + 1]
        BY <4>4, <4>6 DEF NoOut
      <4>8. Given(e, 0)'
        BY <2>2, <4>7 DEF Given
      <4>9. QED BY <2>1, <3>1, <4>8 DEF DecInv, DecStates, FeType
    <3>4. QED BY <2>3, <3>2, <3>3 DEF Decoder, DecoderGoesOn, Taken
  <2>4. ASSUME NEW e \in ErrorsOf(rReg), Given(e, 0)
        PROVE  DecInv' /\ errReg' \in Code /\ state' = "S_DEC_CAP"
    <3>1. state' = "S_DEC_CAP" /\ errReg' = Shift(errReg, decWord)
      BY <2>1, <2>4 DEF Given, decFirst
    <3>2. errReg' \in Code /\ Given(e, 0 + 1)'
      <4>1. e \in Code /\ 0 \in 0 .. CodeWords - 1 /\ 0 < CodeWords - 1
        BY ErrorsType
      <4>2. QED BY <2>1, <2>4, <3>1, <4>1, GivenStep
    <3>3. Given(e, wordCnt + 1)' /\ wordCnt' <= CodeWords - 2 /\ e \in ErrorsOf(rReg)'
      BY <2>1, <3>2
    <3>4. QED BY <3>1, <3>2, <3>3 DEF DecInv, DecStates
  <2>5. QED BY <2>1, <2>3, <2>4 DEF DecInv
<1>6. CASE DecCap
  <2> PICK k \in Nat : k = wordCnt
    BY DEF FeType
  <2>1. /\ state = "S_DEC_CAP" /\ rReg' = rReg /\ errReg' = Shift(errReg, decWord)
        /\ wordCnt < CodeWords - 2 => state' = "S_DEC_CAP" /\ wordCnt' = wordCnt + 1
        /\ wordCnt = CodeWords - 2 => state' = "S_KEYOUT"
    BY <1>6 DEF DecCap, DecCapUntil, Goto, Latched, FeType
  <2>2. PICK e \in ErrorsOf(rReg) : Given(e, k + 1)
    BY <2>1 DEF DecInv
  <2>3. k <= CodeWords - 2 /\ k + 1 \in 0 .. CodeWords - 1 /\ e \in Code
    BY <2>1, ErrorsType DEF DecInv
  <2>4. /\ errReg' \in Code
        /\ k + 1 < CodeWords - 1 => Given(e, k + 1 + 1)'
        /\ k + 1 = CodeWords - 1 => DecQuiet' /\ errReg' = e
    BY <2>1, <2>2, <2>3, GivenStep
  <2>5. CASE wordCnt < CodeWords - 2
    <3>1. Given(e, wordCnt + 1)' /\ wordCnt' <= CodeWords - 2 /\ e \in ErrorsOf(rReg)'
      BY <2>1, <2>4, <2>5
    <3>2. QED BY <2>1, <2>4, <2>5, <3>1 DEF DecInv, DecStates
  <2>6. CASE wordCnt = CodeWords - 2
    BY <2>1, <2>4, <2>6 DEF DecInv, DecStates
  <2>7. QED BY <2>3, <2>1, <2>5, <2>6
<1>7. QED BY <1>2, <1>3, <1>4, <1>5, <1>6 DEF Fsm

--------------------------------------------------------------------------------
(***************************************************************************)
(* The operations.                                                         *)
(***************************************************************************)
EnrolStates == {"S_ENC", "S_HELPER"}

\* What each state of an operation relies on.
JobInv ==
  /\ job.mode = "none" => job = NoJob /\ state = "S_IDLE"
  /\ state \in EnrolStates =>
       job.mode = "enroll" /\ origin = job.resp /\ respReg = job.resp /\ keyReg = DataOf(job.resp)
  /\ job.mode # "none" /\ state \notin EnrolStates => helperOut = Xor(Encode(DataOf(origin)), origin)
  /\ state \notin EnrolStates \cup {"S_IDLE"} => job.mode = "reconstruct" /\ rReg = Xor(helperOut, job.resp)
  /\ state \in {"S_HELPER", "S_VERIFY_CMP"} => cwReg = Encode(keyReg)
  /\ state = "S_KEYOUT" => errReg \in ErrorsOf(rReg)
  /\ state \in {"S_VERIFY_ENC", "S_VERIFY_CMP"} =>
       /\ keyOut = keyReg /\ keyReg = DataOf(corrected)
       /\ \E e \in ErrorsOf(rReg) : corrected = Xor(rReg, e)

\* A result is there for one clock, in S_IDLE.
ResultInv ==
  /\ done => state = "S_IDLE"
  /\ EnrolmentIsCodeword
  /\ KeyRecovered
  /\ SuccessIsCodeword

FeInv == FeType /\ EncInv /\ DecInv /\ JobInv /\ ResultInv

LEMMA ZerosType == Zeros(CodeWords) \in Code /\ Zeros(DataWords) \in Data
BY DEF Zeros, Code, Data, Word

\* A clock of the encoder, in any state of the FSM.
LEMMA EncStep ==
  ASSUME FeType, EncInv, Fsm, Encoder
  PROVE  /\ EncInv' /\ cwReg' \in Code
         /\ encCount' \in 0 .. CodeWords - 1 /\ Len(encData') \in 0 .. DataWords
         /\ state \in {"S_ENC", "S_VERIFY_ENC"} =>
              \/ state' = state
              \/ /\ state' = IF state = "S_ENC" THEN "S_HELPER" ELSE "S_VERIFY_CMP"
                 /\ cwReg' = Encode(keyReg)
<1> USE Sizes
<1>1. ASSUME NEW next \in {"S_HELPER", "S_VERIFY_CMP"}, Encoding, EncodeClock(next)
      PROVE  /\ EncInv' /\ cwReg' \in Code
             /\ encCount' \in 0 .. CodeWords - 1 /\ Len(encData') \in 0 .. DataWords
             /\ state' = state \/ (state' = next /\ cwReg' = Encode(keyReg))
  <2>1. PICK n \in Clocks : EncAt(n)
    BY <1>1 DEF EncInv
  <2>2. /\ n < CodeWords + 3 => state' = state /\ EncAt(n + 1)'
        /\ n = CodeWords + 3 => state' = next /\ EncQuiet' /\ cwReg' = Encode(keyReg)
    BY <1>1, <2>1, EncodingStep
  <2>3. cwReg' \in Code /\ encCount' \in 0 .. CodeWords - 1 /\ Len(encData') \in 0 .. DataWords
    <3>1. keyReg' = keyReg /\ cwReg' \in Code
      BY <1>1, <2>1, CaptureNow
    <3>2. QED BY <2>1, <3>1, LfsrNow
  <2>4. CASE n < CodeWords + 3
    <3>1. n + 1 \in Clocks /\ EncAt(n + 1)' /\ state' = state
      BY <2>2, <2>4 DEF Clocks
    <3>2. Encoding'
      BY <1>1, <3>1 DEF Encoding
    <3>3. EncInv'
      BY <3>1, <3>2 DEF EncInv
    <3>4. QED BY <2>3, <3>1, <3>3
  <2>5. CASE n = CodeWords + 3
    <3>1. state' = next /\ EncQuiet' /\ cwReg' = Encode(keyReg)
      BY <2>2, <2>5
    <3>2. ~Encoding'
      BY <1>1, <3>1 DEF Encoding
    <3>3. EncInv'
      BY <3>1, <3>2 DEF EncInv
    <3>4. QED BY <2>3, <3>1, <3>3
  <2>6. QED BY <2>4, <2>5 DEF Clocks
<1>2. ASSUME ~Encoding
      PROVE  /\ EncQuiet'
             /\ encCount' \in 0 .. CodeWords - 1 /\ Len(encData') \in 0 .. DataWords
  <2>1. EncQuiet' /\ encCount' = encCount /\ encData' = encData
    BY <1>2, QuietStep DEF EncInv
  <2>2. QED BY <2>1 DEF FeType
<1>3. EncQuiet' /\ wordCnt' = 0 /\ ~cap' => EncInv'
  <2> HAVE EncQuiet' /\ wordCnt' = 0 /\ ~cap'
  <2>1. EncAt(0)' /\ 0 \in Clocks
    BY DEF EncQuiet, EncAt, InAt, OutAt, LfsrAt, CapturedAt, Least, Clocks
  <2>2. QED BY <2>1 DEF EncInv
<1>4. CASE Enc
  <2>1. state = "S_ENC" /\ EncodeClock("S_HELPER") /\ Encoding
    BY <1>4 DEF Enc, Encoding
  <2>2. QED BY <1>1, <2>1
<1>5. CASE VerifyEnc
  <2>1. state = "S_VERIFY_ENC" /\ EncodeClock("S_VERIFY_CMP") /\ Encoding
    BY <1>5 DEF VerifyEnc, Encoding
  <2>2. QED BY <1>1, <2>1
<1>6. CASE Idle \/ KeyOut
  <2>1. /\ ~Encoding /\ state \notin {"S_ENC", "S_VERIFY_ENC"} /\ wordCnt' = 0 /\ cap' = FALSE
        /\ cwReg' = Zeros(CodeWords)
    BY <1>6 DEF Idle, KeyOut, KeyOutCounting, Encoding
  <2>2. QED BY <1>2, <1>3, <2>1, ZerosType
<1>7. CASE HelperOut \/ DecFeed \/ DecWait \/ DecCap \/ VerifyCmp
  <2>1. ~Encoding /\ state \notin {"S_ENC", "S_VERIFY_ENC"} /\ ~Encoding' /\ cwReg' = cwReg
    BY <1>7 DEF HelperOut, DecFeed, DecWait, DecCap, DecCapUntil, VerifyCmp, Goto, Encoding
  <2>2. EncInv'
    BY <1>2, <2>1 DEF EncInv
  <2>3. QED BY <1>2, <2>1, <2>2 DEF FeType
<1>8. QED BY <1>4, <1>5, <1>6, <1>7 DEF Fsm

\* The registers of the FSM stay in range.
LEMMA TypeStep ==
  ASSUME FeType, Fsm, cwReg' \in Code, errReg' \in Code,
         encCount' \in 0 .. CodeWords - 1, Len(encData') \in 0 .. DataWords
  PROVE  FeType'
<1> USE Sizes DEF FeType
<1>1. CASE Idle
  <2>1. \A mode \in {"enroll", "reconstruct"}, resp \in Code, helper \in Code :
          Start(mode, resp, helper) =>
            /\ state' \in States
            /\ respReg' \in Code /\ rReg' \in Code /\ keyReg' \in Data /\ origin' \in Code
            /\ job' \in [mode : {"none", "enroll", "reconstruct"}, resp : Code]
    BY XorTwice, DataOfAt DEF Start, States
  <2>2. /\ state' \in States
        /\ respReg' \in Code /\ rReg' \in Code /\ keyReg' \in Data /\ origin' \in Code
        /\ job' \in [mode : {"none", "enroll", "reconstruct"}, resp : Code]
    <3>1. CASE \E resp \in Enrolled : Start("enroll", resp, Zeros(CodeWords))
      BY <2>1, <3>1, ZerosType, CodeParameters
    <3>2. CASE \E n \in Noise : Start("reconstruct", Xor(origin, n), helperOut)
      <4>1. PICK n \in Noise : Start("reconstruct", Xor(origin, n), helperOut)
        BY <3>2
      <4>2. Xor(origin, n) \in Code
        BY XorTwice, CodeParameters
      <4>3. QED BY <2>1, <4>1, <4>2
    <3>3. CASE UNCHANGED <<respReg, rReg, keyReg, state, origin, job>>
      BY <3>3
    <3>4. QED BY <1>1, <3>1, <3>2, <3>3 DEF Idle
  <2>3. wordCnt' = 0 /\ UNCHANGED <<helperOut, keyOut, corrected>>
    BY <1>1 DEF Idle, Silent
  <2>4. QED BY <2>2, <2>3
<1>2. CASE Enc \/ VerifyEnc
  <2>1. /\ wordCnt' = IF wordCnt < DataWords THEN wordCnt + 1 ELSE wordCnt
        /\ state' \in States
        /\ UNCHANGED <<keyReg, corrected, helperOut, keyOut, respReg, rReg, origin, job>>
    BY <1>2 DEF Enc, VerifyEnc, EncodeClock, Goto, Silent, Latched, States
  <2>2. QED BY <2>1
<1>3. CASE HelperOut
  <2>1. /\ state' = "S_IDLE" /\ helperOut' = Xor(cwReg, respReg) /\ keyOut' = keyReg
        /\ UNCHANGED <<wordCnt, keyReg, corrected, respReg, rReg, origin, job>>
    BY <1>3 DEF HelperOut, Goto, Latched
  <2>2. QED BY <2>1, XorTwice DEF States
<1>4. CASE DecFeed \/ DecWait \/ DecCap
  <2>1. /\ state' \in States /\ wordCnt' \in 0 .. CodeWords - 1
        /\ UNCHANGED <<keyReg, corrected, helperOut, keyOut, respReg, rReg, origin, job>>
    BY <1>4 DEF DecFeed, DecWait, DecCap, DecCapUntil, Goto, Silent, Latched, States
  <2>2. QED BY <2>1
<1>5. CASE KeyOut
  <2>1. /\ state' = "S_VERIFY_ENC" /\ wordCnt' = 0
        /\ corrected' = Xor(rReg, errReg) /\ keyReg' = DataOf(Xor(rReg, errReg)) /\ keyOut' = keyReg'
        /\ UNCHANGED <<helperOut, respReg, rReg, origin, job>>
    BY <1>5 DEF KeyOut, KeyOutCounting, decKey, Goto, Latched
  <2>2. QED BY <2>1, XorTwice, DataOfAt DEF States
<1>6. CASE VerifyCmp
  <2>1. /\ state' = "S_IDLE"
        /\ UNCHANGED <<wordCnt, keyReg, corrected, helperOut, keyOut, respReg, rReg, origin, job>>
    BY <1>6 DEF VerifyCmp, Goto, Latched
  <2>2. QED BY <2>1 DEF States
<1>7. QED BY <1>1, <1>2, <1>3, <1>4, <1>5, <1>6 DEF Fsm

\* What a finished enrolment leaves for later reconstructions, and what each state
\* of an operation hands to the next.
LEMMA JobStep ==
  ASSUME FeType, JobInv, Fsm,
         state \in {"S_ENC", "S_VERIFY_ENC"} =>
           \/ state' = state
           \/ /\ state' = IF state = "S_ENC" THEN "S_HELPER" ELSE "S_VERIFY_CMP"
              /\ cwReg' = Encode(keyReg),
         state = "S_DEC_CAP" /\ state' = "S_KEYOUT" => errReg' \in ErrorsOf(rReg)
  PROVE  JobInv'
<1> USE DEF EnrolStates
<1>0. job \in [mode : {"none", "enroll", "reconstruct"}, resp : Code] /\ origin \in Code
  BY DEF FeType
<1>1. CASE Idle
  <2>0. state = "S_IDLE" /\ helperOut' = helperOut
    BY <1>1 DEF Idle, Silent
  <2>1. CASE \E resp \in Enrolled : Start("enroll", resp, Zeros(CodeWords))
    <3>1. PICK resp \in Enrolled : Start("enroll", resp, Zeros(CodeWords))
      BY <2>1
    <3>2. /\ state' = "S_ENC" /\ respReg' = resp /\ keyReg' = DataOf(resp) /\ origin' = resp
          /\ job'.mode = "enroll" /\ job'.resp = resp
      BY <3>1 DEF Start
    <3>3. QED BY <3>2 DEF JobInv
  <2>2. CASE job # NoJob /\ \E n \in Noise : Start("reconstruct", Xor(origin, n), helperOut)
    <3>1. PICK n \in Noise : Start("reconstruct", Xor(origin, n), helperOut)
      BY <2>2
    <3>2. /\ state' = "S_DEC_FEED" /\ rReg' = Xor(helperOut, Xor(origin, n)) /\ origin' = origin
          /\ job'.mode = "reconstruct" /\ job'.resp = Xor(origin, n)
      BY <3>1 DEF Start
    <3>3. helperOut = Xor(Encode(DataOf(origin)), origin)
      BY <2>0, <2>2 DEF JobInv
    <3>4. QED BY <2>0, <3>2, <3>3 DEF JobInv
  <2>3. CASE UNCHANGED <<respReg, rReg, keyReg, state, origin, job>>
    BY <2>0, <2>3 DEF JobInv
  <2>4. QED BY <1>1, <2>1, <2>2, <2>3 DEF Idle
<1>2. CASE Enc
  <2>1. state = "S_ENC" /\ UNCHANGED <<keyReg, respReg, helperOut, origin, job>>
    BY <1>2 DEF Enc, EncodeClock, Silent, Latched
  <2>2. CASE state' = "S_ENC"
    BY <2>1, <2>2 DEF JobInv
  <2>3. CASE state' = "S_HELPER" /\ cwReg' = Encode(keyReg)
    BY <2>1, <2>3 DEF JobInv
  <2>4. QED BY <2>1, <2>2, <2>3
<1>3. CASE HelperOut
  <2>1. /\ state = "S_HELPER" /\ state' = "S_IDLE" /\ helperOut' = Xor(cwReg, respReg)
        /\ UNCHANGED <<origin, job>>
    BY <1>3 DEF HelperOut, Goto, Latched
  <2>2. helperOut' = Xor(Encode(DataOf(origin)), origin) /\ job.mode = "enroll"
    BY <2>1 DEF JobInv
  <2>3. QED BY <2>1, <2>2 DEF JobInv
<1>4. CASE DecFeed \/ DecWait \/ DecCap
  <2>1. /\ state \in {"S_DEC_FEED", "S_DEC_WAIT", "S_DEC_CAP"}
        /\ state' \in {"S_DEC_FEED", "S_DEC_WAIT", "S_DEC_CAP", "S_KEYOUT"}
        /\ state' = "S_KEYOUT" => state = "S_DEC_CAP"
        /\ UNCHANGED <<rReg, helperOut, origin, job>>
    BY <1>4 DEF DecFeed, DecWait, DecCap, DecCapUntil, Goto, Silent, Latched
  <2>2. state' = "S_KEYOUT" => errReg' \in ErrorsOf(rReg')
    BY <2>1
  <2>3. QED BY <2>1, <2>2 DEF JobInv
<1>5. CASE KeyOut
  <2>1. /\ state = "S_KEYOUT" /\ state' = "S_VERIFY_ENC"
        /\ corrected' = Xor(rReg, errReg) /\ keyReg' = DataOf(Xor(rReg, errReg)) /\ keyOut' = keyReg'
        /\ UNCHANGED <<rReg, helperOut, origin, job>>
    BY <1>5 DEF KeyOut, KeyOutCounting, decKey, Goto, Latched
  <2>2. errReg \in ErrorsOf(rReg)
    BY <2>1 DEF JobInv
  <2>3. \E e \in ErrorsOf(rReg') : corrected' = Xor(rReg', e)
    BY <2>1, <2>2
  <2>4. QED BY <2>1, <2>3 DEF JobInv
<1>6. CASE VerifyEnc
  <2>1. /\ state = "S_VERIFY_ENC"
        /\ UNCHANGED <<keyReg, keyOut, corrected, rReg, helperOut, origin, job>>
    BY <1>6 DEF VerifyEnc, EncodeClock, Silent, Latched
  <2>2. CASE state' = "S_VERIFY_ENC"
    BY <2>1, <2>2 DEF JobInv
  <2>3. CASE state' = "S_VERIFY_CMP" /\ cwReg' = Encode(keyReg)
    BY <2>1, <2>3 DEF JobInv
  <2>4. QED BY <2>1, <2>2, <2>3
<1>7. CASE VerifyCmp
  <2>1. state = "S_VERIFY_CMP" /\ state' = "S_IDLE" /\ UNCHANGED <<helperOut, origin, job>>
    BY <1>7 DEF VerifyCmp, Goto, Latched
  <2>2. QED BY <2>1 DEF JobInv
<1>8. QED BY <1>1, <1>2, <1>3, <1>4, <1>5, <1>6, <1>7 DEF Fsm

\* The two clocks in which a result appears.
LEMMA ResultStep ==
  ASSUME FeType, JobInv, Fsm
  PROVE  ResultInv'
<1>0. job \in [mode : {"none", "enroll", "reconstruct"}, resp : Code] /\ origin \in Code /\ keyReg \in Data
  BY DEF FeType
<1>1. CASE Idle \/ Enc \/ VerifyEnc \/ DecFeed \/ DecWait \/ DecCap \/ KeyOut
  <2>1. done' = FALSE
    BY <1>1 DEF Idle, Enc, VerifyEnc, EncodeClock, DecFeed, DecWait, DecCap, DecCapUntil, KeyOut,
                KeyOutCounting, Silent
  <2>2. QED BY <2>1 DEF ResultInv, EnrolmentIsCodeword, KeyRecovered, SuccessIsCodeword
<1>2. CASE HelperOut
  <2>1. /\ state = "S_HELPER" /\ state' = "S_IDLE" /\ success' = TRUE
        /\ helperOut' = Xor(cwReg, respReg) /\ keyOut' = keyReg /\ job' = job
    BY <1>2 DEF HelperOut, Goto, Latched
  <2>2. /\ job.mode = "enroll" /\ respReg = job.resp /\ keyReg = DataOf(job.resp)
        /\ cwReg = Encode(keyReg)
    BY <2>1 DEF JobInv, EnrolStates
  <2>3. QED BY <2>1, <2>2 DEF ResultInv, EnrolmentIsCodeword, KeyRecovered, SuccessIsCodeword
<1>3. CASE VerifyCmp
  <2>1. /\ state = "S_VERIFY_CMP" /\ state' = "S_IDLE" /\ (success' <=> cwReg = corrected)
        /\ UNCHANGED <<keyOut, corrected, helperOut, origin, job>>
    BY <1>3 DEF VerifyCmp, Goto, Latched
  <2>2. /\ job.mode = "reconstruct" /\ rReg = Xor(helperOut, job.resp)
        /\ helperOut = Xor(Encode(DataOf(origin)), origin)
        /\ cwReg = Encode(keyReg) /\ keyOut = keyReg /\ keyReg = DataOf(corrected)
    BY <2>1 DEF JobInv, EnrolStates
  <2>3. SuccessIsCodeword'
    BY <2>1, <2>2 DEF SuccessIsCodeword
  <2>4. KeyRecovered'
    <3>1. SUFFICES ASSUME Distance(job.resp, origin) <= T
                   PROVE  success' /\ keyOut = DataOf(origin)
      BY <2>1 DEF KeyRecovered
    <3>2. PICK e \in ErrorsOf(rReg) : corrected = Xor(rReg, e)
      BY <2>1 DEF JobInv
    <3>3. job.resp \in Code
      BY <1>0
    <3>4. corrected = Encode(DataOf(origin))
      BY <1>0, <2>2, <3>1, <3>2, <3>3, Recovered
    <3>5. keyReg = DataOf(origin)
      BY <1>0, <2>2, <3>4, DataOfAt, DataOfEncode
    <3>6. QED BY <2>1, <2>2, <3>4, <3>5
  <2>5. QED BY <2>1, <2>2, <2>3, <2>4 DEF ResultInv, EnrolmentIsCodeword
<1>4. QED BY <1>1, <1>2, <1>3 DEF Fsm

--------------------------------------------------------------------------------
LEMMA FeInitially ==
  ASSUME Init
  PROVE  FeInv
<1> USE Sizes, ZerosType DEF Init
<1>1. FeType
  <2>1. NoJob \in [mode : {"none", "enroll", "reconstruct"}, resp : Code]
    BY DEF NoJob
  <2>2. Len(encData) = 0
    BY EmptySeq
  <2>3. QED BY <2>1, <2>2 DEF FeType, States
<1>2. EncInv
  BY DEF EncInv, Encoding, EncQuiet, NoIn, NoOut
<1>3. DecInv
  BY DEF DecInv, DecStates, DecQuiet, NoOut, NoDec
<1>4. JobInv
  BY DEF JobInv, EnrolStates, NoJob
<1>5. ResultInv
  BY DEF ResultInv, EnrolmentIsCodeword, KeyRecovered, SuccessIsCodeword
<1>6. QED BY <1>1, <1>2, <1>3, <1>4, <1>5 DEF FeInv

LEMMA FeStep ==
  ASSUME FeInv, Next
  PROVE  FeInv'
<1>1. FeType /\ EncInv /\ DecInv /\ JobInv /\ Fsm /\ Encoder /\ Decoder
  BY DEF FeInv, Next
<1>2. EncInv' /\ DecInv' /\ ResultInv'
  BY <1>1, EncStep, DecStep, ResultStep
<1>3. JobInv'
  BY <1>1, EncStep, DecStep, JobStep
<1>4. FeType'
  BY <1>1, EncStep, DecStep, TypeStep
<1>5. QED BY <1>2, <1>3, <1>4 DEF FeInv

\* The pipelines around the encoder and the stream of the decoder are in step with
\* the FSM in every clock.
THEOREM FeInvAlways == Spec => []FeInv
<1>1. Init => FeInv
  BY FeInitially
<1>2. FeInv /\ [Next]_feVars => FeInv'
  <2> SUFFICES ASSUME FeInv, [Next]_feVars
               PROVE  FeInv'
    OBVIOUS
  <2>1. CASE Next
    BY <2>1, FeStep
  <2>2. CASE UNCHANGED feVars
    <3>1. FeType' /\ JobInv' /\ ResultInv'
      BY <2>2 DEF feVars, fsmVars, regVars, outVars, encVars, FeInv, FeType, JobInv, ResultInv,
                  EnrolmentIsCodeword, KeyRecovered, SuccessIsCodeword
    <3>2. EncInv'
      BY <2>2 DEF feVars, fsmVars, regVars, encVars, FeInv, EncInv, Encoding, EncAt, InAt, OutAt, LfsrAt,
                  CapturedAt, EncQuiet
    <3>3. DecInv'
      BY <2>2 DEF feVars, fsmVars, regVars, decVars, FeInv, DecInv, DecQuiet, Taken, Given
    <3>4. QED BY <3>1, <3>2, <3>3 DEF FeInv
  <2>3. QED BY <2>1, <2>2
<1>3. QED BY <1>1, <1>2, PTL DEF Spec

\* The decoder holds at most one word of the code.
LEMMA DecoderSizes ==
  ASSUME FeInv
  PROVE  Len(dec.fed) <= CodeWords /\ Len(dec.found) < CodeWords
<1> USE Sizes
<1>1. FeType /\ DecInv /\ rReg \in [1 .. CodeWords -> Word] /\ wordCnt \in 0 .. CodeWords - 1
  BY DEF FeInv, FeType, Code
<1>2. ASSUME NEW k \in 0 .. CodeWords + 1, Taken(k)
      PROVE  Len(dec.fed) <= CodeWords /\ Len(dec.found) < CodeWords
  <2>1. CASE k = 0
    <3>1. Prefix(rReg, 0 - 1) = << >>
      BY DEF Prefix
    <3>2. QED BY <1>2, <2>1, <3>1, EmptySeq DEF Taken
  <2>2. CASE k # 0
    <3>1. k - 1 \in 0 .. CodeWords
      BY <2>2
    <3>2. Len(Prefix(rReg, k - 1)) = k - 1
      BY <1>1, <3>1, PrefixType
    <3>3. QED BY <1>2, <3>1, <3>2, EmptySeq DEF Taken
  <2>3. QED BY <2>1, <2>2
<1>3. ASSUME NEW e \in ErrorsOf(rReg), NEW k \in 0 .. CodeWords - 1, Given(e, k)
      PROVE  Len(dec.fed) <= CodeWords /\ Len(dec.found) < CodeWords
  <2>1. e \in Code /\ k + 1 \in 0 .. CodeWords
    BY ErrorsType
  <2>2. Len(Suffix(e, k + 1)) = CodeWords - (k + 1)
    BY <2>1, SuffixType
  <2>3. QED BY <1>3, <2>2, EmptySeq DEF Given
<1>4. CASE state = "S_DEC_FEED"
  BY <1>1, <1>2, <1>4 DEF DecInv
<1>5. CASE state = "S_DEC_WAIT"
  <2>1. CASE \E k \in CodeWords .. CodeWords + 1 : Taken(k)
    BY <1>2, <2>1
  <2>2. CASE \E e \in ErrorsOf(rReg) : Given(e, 0)
    BY <1>3, <2>2
  <2>3. QED BY <1>1, <1>5, <2>1, <2>2 DEF DecInv
<1>6. CASE state = "S_DEC_CAP"
  <2>1. wordCnt + 1 \in 0 .. CodeWords - 1 /\ \E e \in ErrorsOf(rReg) : Given(e, wordCnt + 1)
    BY <1>1, <1>6 DEF DecInv
  <2>2. QED BY <1>3, <2>1
<1>7. CASE state \notin DecStates
  BY <1>1, <1>7, EmptySeq DEF DecInv, DecQuiet
<1>8. QED BY <1>4, <1>5, <1>6, <1>7 DEF DecStates

Flags == {cap, done, success, encBusy, encLast, encLoad} \subseteq BOOLEAN

\* TypeOK: no counter or register of the extractor leaves its range.
THEOREM TypeAlways == Spec => []TypeOK
<1>1. Init => Flags
  BY DEF Init, Flags
<1>2. Flags /\ [Next]_feVars => Flags'
  <2> SUFFICES ASSUME Flags, [Next]_feVars
               PROVE  Flags'
    OBVIOUS
  <2> USE DEF Flags
  <2>1. CASE UNCHANGED feVars
    BY <2>1 DEF feVars, fsmVars, outVars, encVars
  <2>2. CASE Next
    <3>1. {encBusy', encLast', encLoad'} \subseteq BOOLEAN
      BY <2>2 DEF Next, Encoder, EncoderAt
    <3>2. {cap', done', success'} \subseteq BOOLEAN
      BY <2>2 DEF Next, Fsm, Idle, Enc, VerifyEnc, EncodeClock, HelperOut, DecFeed, DecWait, DecCap,
                  DecCapUntil, KeyOut, KeyOutCounting, VerifyCmp, Silent
    <3>3. QED BY <3>1, <3>2
  <2>3. QED BY <2>1, <2>2
<1>3. FeInv /\ Flags => TypeOK
  <2> SUFFICES ASSUME FeInv, Flags
               PROVE  TypeOK
    OBVIOUS
  <2>1. FeType /\ Len(dec.fed) <= CodeWords /\ Len(dec.found) < CodeWords
    BY DecoderSizes DEF FeInv
  <2>2. encCount \in 0 .. CodeWords + 3 /\ Len(encData) <= DataWords
    BY <2>1, Sizes DEF FeType
  <2>3. QED BY <2>1, <2>2 DEF TypeOK, FeType, Flags
<1>4. QED BY <1>1, <1>2, <1>3, FeInvAlways, PTL DEF Spec

\* EnrolmentIsCodeword: what the pipelines around the encoder delay is neither lost
\* nor taken twice, for every code and every sequence of operations before.
THEOREM EnrolmentIsCodewordAlways == Spec => []EnrolmentIsCodeword
<1>1. FeInv => EnrolmentIsCodeword
  BY DEF FeInv, ResultInv
<1>2. QED BY <1>1, FeInvAlways, PTL

\* KeyRecovered: a response within T words of the enrolled one gives its key, for
\* every code that corrects T words and any duration of the decoding.
THEOREM KeyRecoveredAlways == Spec => []KeyRecovered
<1>1. FeInv => KeyRecovered
  BY DEF FeInv, ResultInv
<1>2. QED BY <1>1, FeInvAlways, PTL

\* SuccessIsCodeword: the flag tells whether the corrected word is a codeword, also
\* of a response the decoder could not correct.
THEOREM SuccessIsCodewordAlways == Spec => []SuccessIsCodeword
<1>1. FeInv => SuccessIsCodeword
  BY DEF FeInv, ResultInv
<1>2. QED BY <1>1, FeInvAlways, PTL

================================================================================
