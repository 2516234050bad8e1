----------------------------- MODULE ProtocolLemmas -----------------------------
(***************************************************************************)
(* What the proofs about either end of the line need of the bytes of the   *)
(* protocol: where the bytes of a helper word are, and how the replies     *)
(* grow as they are sent.                                                  *)
(***************************************************************************)
EXTENDS ProtocolBytes, SequenceTheorems, TLAPS

--------------------------------------------------------------------------------
(***************************************************************************)
(* Parts of sequences.                                                     *)
(***************************************************************************)
\* A sequence is its first m elements and the rest.
LEMMA SplitAt ==
  ASSUME NEW S, NEW f \in Seq(S), NEW m \in Nat, NEW n \in Nat, m <= n, n <= Len(f)
  PROVE  /\ SubSeq(f, m + 1, n) \in Seq(S)
         /\ Len(SubSeq(f, m + 1, n)) = n - m
         /\ \A i \in 1 .. n - m : SubSeq(f, m + 1, n)[i] = f[m + i]
<1>0. Len(f) \in Nat
  BY LenProperties
<1>1. m + 1 \in Int /\ n \in Int
  OBVIOUS
<1>2. \A i \in m + 1 .. n : f[i] \in S
  <2> SUFFICES ASSUME NEW i \in m + 1 .. n
               PROVE  f[i] \in S
    OBVIOUS
  <2>1. i \in 1 .. Len(f)
    BY <1>0
  <2> QED
    BY <2>1, ElementOfSeq
<1>3. PICK a \in Int : a = m + 1
  BY <1>1
<1>4. /\ SubSeq(f, a, n) \in Seq(S)
      /\ Len(SubSeq(f, a, n)) = IF a <= n THEN n - a + 1 ELSE 0
      /\ \A i \in 1 .. n - a + 1 : SubSeq(f, a, n)[i] = f[a + i - 1]
  BY <1>1, <1>2, <1>3, SubSeqProperties
<1>5. Len(SubSeq(f, a, n)) = n - m
  BY <1>3, <1>4
<1>6. ASSUME NEW i \in 1 .. n - m
      PROVE  SubSeq(f, a, n)[i] = f[m + i]
  <2>1. i \in 1 .. n - a + 1 /\ a + i - 1 = m + i
    BY <1>3
  <2> QED
    BY <1>4, <2>1
<1> QED
  BY <1>3, <1>4, <1>5, <1>6

LEMMA FirstPart ==
  ASSUME NEW S, NEW f \in Seq(S), NEW n \in Nat, n <= Len(f)
  PROVE  /\ SubSeq(f, 1, n) \in Seq(S)
         /\ Len(SubSeq(f, 1, n)) = n
         /\ \A i \in 1 .. n : SubSeq(f, 1, n)[i] = f[i]
<1>1. 0 \in Nat /\ 0 <= n /\ 0 + 1 = 1 /\ n - 0 = n /\ \A i \in 1 .. n : 0 + i = i
  OBVIOUS
<1>2. /\ SubSeq(f, 0 + 1, n) \in Seq(S)
      /\ Len(SubSeq(f, 0 + 1, n)) = n - 0
      /\ \A i \in 1 .. n - 0 : SubSeq(f, 0 + 1, n)[i] = f[0 + i]
  BY <1>1, SplitAt
<1> QED
  BY <1>1, <1>2

LEMMA LastPart ==
  ASSUME NEW S, NEW f \in Seq(S), NEW m \in Nat, m <= Len(f)
  PROVE  /\ SubSeq(f, m + 1, Len(f)) \in Seq(S)
         /\ Len(SubSeq(f, m + 1, Len(f))) = Len(f) - m
         /\ \A i \in 1 .. Len(f) - m : SubSeq(f, m + 1, Len(f))[i] = f[m + i]
<1>1. PICK n \in Nat : n = Len(f)
  BY LenProperties
<1>2. m <= n /\ n <= Len(f)
  BY <1>1
<1>3. /\ SubSeq(f, m + 1, n) \in Seq(S)
      /\ Len(SubSeq(f, m + 1, n)) = n - m
      /\ \A i \in 1 .. n - m : SubSeq(f, m + 1, n)[i] = f[m + i]
  BY <1>2, SplitAt
<1> QED
  BY <1>1, <1>3

\* A reply begins with what was sent of it.
LEMMA PrefixOf ==
  ASSUME NEW s \in Seq(0 .. 255), NEW t \in Seq(0 .. 255)
  PROVE  IsPrefix(s, s \o t)
<1>1. /\ s \o t \in Seq(0 .. 255) /\ Len(s \o t) = Len(s) + Len(t)
      /\ \A i \in 1 .. Len(s) : (s \o t)[i] = s[i]
      /\ Len(s) \in Nat /\ Len(t) \in Nat
  BY ConcatProperties, LenProperties
<1>2. PICK u \in Seq(0 .. 255) : u = s \o t
  BY <1>1
<1>3. SubSeq(u, 1, Len(s)) = SubSeq(s, 1, Len(s))
  BY <1>1, <1>2
<1> QED
  BY <1>1, <1>2, <1>3 DEF IsPrefix

--------------------------------------------------------------------------------
(***************************************************************************)
(* Helper data: its words and its bytes.                                   *)
(***************************************************************************)
LEMMA BytesInPositive ==
  ASSUME NEW w \in 0 .. NumWords
  PROVE  BytesIn(w) \in Nat \ {0}
BY WordShape DEF BytesIn

LEMMA NoHelperType == NoHelper \in Helper
<1>1. \A w \in 0 .. NumWords : [i \in 1 .. BytesIn(w) |-> 0] \in Seq(0 .. 255)
  <2> TAKE w \in 0 .. NumWords
  <2>1. [i \in 1 .. BytesIn(w) |-> 0] \in [1 .. BytesIn(w) -> 0 .. 255]
    OBVIOUS
  <2>2. QED BY <2>1, BytesInPositive, SeqDef
<1>2. QED BY <1>1 DEF NoHelper, Helper

LEMMA NoHelperWhole == NoHelper \in Whole
BY NoHelperType, BytesInPositive DEF NoHelper, Whole

\* A byte of the helper data is in one word.
LEMMA WordOfByte ==
  ASSUME NEW w \in Nat, NEW r \in 0 .. BytesPerWord - 1
  PROVE  /\ (w * BytesPerWord + r) \div BytesPerWord = w
         /\ (w * BytesPerWord + r) % BytesPerWord = r
<1>0. BytesPerWord \in Nat \ {0}
  BY WordShape
<1>1. PICK m \in Nat : m = w * BytesPerWord
  BY <1>0
<1>2. PICK q \in Nat : q = (m + r) \div BytesPerWord
  BY <1>0, <1>1
<1>3. PICK s \in 0 .. BytesPerWord - 1 : s = (m + r) % BytesPerWord
  BY <1>0, <1>1
<1>4. m + r = q * BytesPerWord + s
  BY <1>0, <1>1, <1>2, <1>3
<1>5. ASSUME NEW a \in Nat, NEW b \in Nat, a < b
      PROVE  a * BytesPerWord + BytesPerWord <= b * BytesPerWord
  <2>1. PICK d \in Nat : b = a + 1 + d
    <3>1. b - a - 1 \in Nat /\ b = a + 1 + (b - a - 1)
      BY <1>5
    <3> QED
      BY <3>1
  <2>2. b * BytesPerWord = a * BytesPerWord + BytesPerWord + d * BytesPerWord
    BY <1>0, <2>1
  <2>3. d * BytesPerWord \in Nat /\ a * BytesPerWord \in Nat
    BY <1>0
  <2> QED
    BY <1>0, <2>2, <2>3
<1>6. q * BytesPerWord \in Nat
  BY <1>0
<1>7. q = w
  <2>1. ~(q < w)
    BY <1>0, <1>1, <1>4, <1>5, <1>6
  <2>2. ~(w < q)
    BY <1>0, <1>1, <1>4, <1>5, <1>6
  <2> QED
    BY <2>1, <2>2
<1>8. s = r
  BY <1>0, <1>1, <1>4, <1>6, <1>7
<1> QED
  BY <1>1, <1>2, <1>3, <1>7, <1>8

LEMMA FlattenType ==
  ASSUME NEW h \in Whole
  PROVE  /\ FlattenWords(h) \in Seq(0 .. 255)
         /\ Len(FlattenWords(h)) = HelperLength
         /\ HelperLength \in Nat
         /\ NumWords * BytesPerWord + BytesIn(NumWords) = HelperLength
         /\ \A w \in 0 .. NumWords : \A i \in 1 .. BytesIn(w) :
              /\ w * BytesPerWord + i \in 1 .. HelperLength
              /\ FlattenWords(h)[w * BytesPerWord + i] = h[w][i]
<1>0. BytesPerWord \in Nat \ {0} /\ NumWords \in 1 .. 9
  BY WordShape
<1>1. PICK total \in Nat : total = NumWords * BytesPerWord
  BY <1>0
<1>2. HelperLength = total + 1
  BY <1>1 DEF HelperLength
<1>3. ASSUME NEW i \in 1 .. HelperLength
      PROVE  h[(i - 1) \div BytesPerWord][((i - 1) % BytesPerWord) + 1] \in 0 .. 255
  <2>1. PICK w \in Nat : w = (i - 1) \div BytesPerWord
    BY <1>0, <1>2
  <2>2. PICK r \in 0 .. BytesPerWord - 1 : r = (i - 1) % BytesPerWord
    BY <1>0, <1>2
  <2>3. i - 1 = w * BytesPerWord + r /\ w * BytesPerWord \in Nat
    BY <1>0, <1>2, <2>1, <2>2
  <2>4. w \in 0 .. NumWords /\ (w = NumWords => r = 0)
    <3>1. w > NumWords => w * BytesPerWord >= total + BytesPerWord
      <4>1. w > NumWords => w - NumWords - 1 \in Nat /\ w = NumWords + 1 + (w - NumWords - 1)
        BY <1>0
      <4>2. ASSUME NEW d \in Nat, w = NumWords + 1 + d
            PROVE  w * BytesPerWord >= total + BytesPerWord
        <5>1. w * BytesPerWord = total + BytesPerWord + d * BytesPerWord
          BY <1>0, <1>1, <4>2
        <5>2. d * BytesPerWord \in Nat
          BY <1>0
        <5> QED
          BY <1>0, <5>1, <5>2
      <4> QED
        BY <4>1, <4>2
    <3>2. w = NumWords => w * BytesPerWord = total
      BY <1>1
    <3> QED
      BY <1>0, <1>2, <2>3, <3>1, <3>2
  <2>5. h[w] \in Seq(0 .. 255) /\ Len(h[w]) = BytesIn(w)
    BY <2>4 DEF Whole, Helper
  <2>6. r + 1 \in 1 .. BytesIn(w)
    BY <1>0, <2>4 DEF BytesIn
  <2>7. h[w][r + 1] \in 0 .. 255
    BY <2>5, <2>6, ElementOfSeq
  <2> QED
    BY <2>1, <2>2, <2>7
<1>4. FlattenWords(h) \in [1 .. HelperLength -> 0 .. 255]
  BY <1>3 DEF FlattenWords
<1>5. FlattenWords(h) \in Seq(0 .. 255) /\ Len(FlattenWords(h)) = HelperLength /\ HelperLength \in Nat
  BY <1>2, <1>4
<1>6. NumWords * BytesPerWord + BytesIn(NumWords) = HelperLength
  BY DEF BytesIn, HelperLength
<1>7. ASSUME NEW w \in 0 .. NumWords, NEW i \in 1 .. BytesIn(w)
      PROVE  /\ w * BytesPerWord + i \in 1 .. HelperLength
             /\ FlattenWords(h)[w * BytesPerWord + i] = h[w][i]
  <2>0. w \in Nat /\ i - 1 \in 0 .. BytesPerWord - 1
    BY <1>0 DEF BytesIn
  <2>1. PICK m \in Nat : m = w * BytesPerWord
    BY <1>0
  <2>2. m + i \in 1 .. HelperLength
    <3>1. CASE w = NumWords
      BY <1>1, <1>2, <2>1, <3>1 DEF BytesIn
    <3>2. CASE w # NumWords
      <4>1. PICK d \in Nat : NumWords = w + 1 + d
        <5>1. NumWords - w - 1 \in Nat /\ NumWords = w + 1 + (NumWords - w - 1)
          BY <1>0, <3>2
        <5> QED
          BY <5>1
      <4>2. total = m + BytesPerWord + d * BytesPerWord
        BY <1>0, <1>1, <2>0, <2>1, <4>1
      <4>3. d * BytesPerWord \in Nat
        BY <1>0
      <4> QED
        BY <1>0, <1>2, <2>0, <4>2, <4>3
    <3> QED
      BY <3>1, <3>2
  <2>3. m + i - 1 = m + (i - 1)
    BY <2>0
  <2>4. (m + i - 1) \div BytesPerWord = w /\ ((m + i - 1) % BytesPerWord) + 1 = i
    <3>1. (m + (i - 1)) \div BytesPerWord = w /\ (m + (i - 1)) % BytesPerWord = i - 1
      BY <2>0, <2>1, WordOfByte
    <3> QED
      BY <2>3, <3>1
  <2>5. FlattenWords(h)[m + i] = h[(m + i - 1) \div BytesPerWord][((m + i - 1) % BytesPerWord) + 1]
    BY <2>2 DEF FlattenWords
  <2> QED
    BY <2>1, <2>2, <2>4, <2>5
<1> QED
  BY <1>5, <1>6, <1>7

\* Sending a word of helper data.
LEMMA WordSent ==
  ASSUME NEW h \in Whole, NEW w \in 0 .. NumWords
  PROVE  /\ SubSeq(FlattenWords(h), 1, 0 * BytesPerWord) = << >>
         /\ SubSeq(FlattenWords(h), 1, w * BytesPerWord) \in Seq(0 .. 255)
         /\ h[w] \in Seq(0 .. 255)
         /\ w # NumWords => SubSeq(FlattenWords(h), 1, w * BytesPerWord) \o h[w]
                              = SubSeq(FlattenWords(h), 1, (w + 1) * BytesPerWord)
         /\ w = NumWords => SubSeq(FlattenWords(h), 1, w * BytesPerWord) \o h[w] = FlattenWords(h)
         /\ \E rest \in Seq(0 .. 255) :
              FlattenWords(h) = SubSeq(FlattenWords(h), 1, w * BytesPerWord) \o rest
<1>0. BytesPerWord \in Nat \ {0} /\ NumWords \in 1 .. 9
  BY WordShape
<1>1. PICK f \in Seq(0 .. 255) : f = FlattenWords(h)
  BY FlattenType
<1>2. PICK m \in Nat : m = w * BytesPerWord
  BY <1>0
<1>3. PICK b \in Nat : b = BytesIn(w)
  BY BytesInPositive
<1>4. h[w] \in Seq(0 .. 255) /\ Len(h[w]) = b
  BY <1>3 DEF Whole, Helper
<1>5. PICK word0 \in Seq(0 .. 255) : word0 = h[w] /\ Len(word0) = b
  BY <1>4
<1>6. b >= 1 /\ \A i \in 1 .. b : m + i \in 1 .. Len(f) /\ f[m + i] = word0[i]
  BY <1>1, <1>2, <1>3, <1>5, FlattenType, BytesInPositive
<1>7. m + b <= Len(f) /\ Len(f) \in Nat /\ m + b \in Nat /\ m <= Len(f)
  <2>1. b \in 1 .. b /\ Len(f) \in Nat
    BY <1>6, LenProperties
  <2>2. m + b \in 1 .. Len(f)
    BY <1>6, <2>1
  <2> QED
    BY <2>1, <2>2
<1>8. SubSeq(f, 1, m) \in Seq(0 .. 255) /\ Len(SubSeq(f, 1, m)) = m
      /\ \A i \in 1 .. m : SubSeq(f, 1, m)[i] = f[i]
  BY <1>7, FirstPart
<1>9. SubSeq(f, 1, m + b) \in Seq(0 .. 255) /\ Len(SubSeq(f, 1, m + b)) = m + b
      /\ \A i \in 1 .. m + b : SubSeq(f, 1, m + b)[i] = f[i]
  BY <1>7, FirstPart
<1>10. SubSeq(f, 1, m) \o word0 = SubSeq(f, 1, m + b)
  <2>1. /\ SubSeq(f, 1, m) \o word0 \in Seq(0 .. 255)
        /\ Len(SubSeq(f, 1, m) \o word0) = m + b
        /\ \A i \in 1 .. m + b : (SubSeq(f, 1, m) \o word0)[i]
                                   = IF i <= m THEN SubSeq(f, 1, m)[i] ELSE word0[i - m]
    <3>1. PICK p \in Seq(0 .. 255) : p = SubSeq(f, 1, m) /\ Len(p) = m
      BY <1>8
    <3>2. /\ p \o word0 \in Seq(0 .. 255)
          /\ Len(p \o word0) = Len(p) + Len(word0)
          /\ \A i \in 1 .. Len(p) + Len(word0) :
               (p \o word0)[i] = IF i <= Len(p) THEN p[i] ELSE word0[i - Len(p)]
      BY ConcatProperties
    <3> QED
      BY <1>5, <3>1, <3>2
  <2>2. \A i \in 1 .. m + b : (SubSeq(f, 1, m) \o word0)[i] = f[i]
    <3> SUFFICES ASSUME NEW i \in 1 .. m + b
                 PROVE  (SubSeq(f, 1, m) \o word0)[i] = f[i]
      OBVIOUS
    <3>1. CASE i <= m
      BY <1>8, <2>1, <3>1
    <3>2. CASE ~(i <= m)
      <4>1. i - m \in 1 .. b /\ m + (i - m) = i
        BY <3>2
      <4> QED
        BY <1>6, <2>1, <3>2, <4>1
    <3> QED
      BY <3>1, <3>2
  <2> QED
    BY <1>9, <2>1, <2>2, SeqEqual
<1>11. w # NumWords => m + b = (w + 1) * BytesPerWord
  BY <1>0, <1>2, <1>3 DEF BytesIn
<1>12. w = NumWords => m + b = Len(f)
  BY <1>1, <1>2, <1>3, FlattenType
<1>13. SubSeq(f, 1, Len(f)) = f
  BY SubSeqFull
<1>14. \E rest \in Seq(0 .. 255) : f = SubSeq(f, 1, m) \o rest
  <2>1. SubSeq(f, m + 1, Len(f)) \in Seq(0 .. 255) /\ Len(SubSeq(f, m + 1, Len(f))) = Len(f) - m
        /\ \A i \in 1 .. Len(f) - m : SubSeq(f, m + 1, Len(f))[i] = f[m + i]
    BY <1>7, LastPart
  <2>2. PICK rest \in Seq(0 .. 255) : /\ Len(rest) = Len(f) - m
                                      /\ \A i \in 1 .. Len(f) - m : rest[i] = f[m + i]
    BY <2>1
  <2>3. /\ SubSeq(f, 1, m) \o rest \in Seq(0 .. 255)
        /\ Len(SubSeq(f, 1, m) \o rest) = Len(f)
        /\ \A i \in 1 .. Len(f) : (SubSeq(f, 1, m) \o rest)[i]
                                    = IF i <= m THEN SubSeq(f, 1, m)[i] ELSE rest[i - m]
    BY <1>7, <1>8, <2>2, ConcatProperties
  <2>4. \A i \in 1 .. Len(f) : (SubSeq(f, 1, m) \o rest)[i] = f[i]
    <3> SUFFICES ASSUME NEW i \in 1 .. Len(f)
                 PROVE  (SubSeq(f, 1, m) \o rest)[i] = f[i]
      OBVIOUS
    <3>1. CASE i <= m
      BY <1>8, <2>3, <3>1
    <3>2. CASE ~(i <= m)
      <4>1. i - m \in 1 .. Len(f) - m /\ m + (i - m) = i
        BY <1>7, <3>2
      <4> QED
        BY <2>2, <2>3, <3>2, <4>1
    <3> QED
      BY <3>1, <3>2
  <2>5. SubSeq(f, 1, m) \o rest = f
    BY <2>3, <2>4, SeqEqual
  <2> QED
    BY <2>5
<1>15. SubSeq(f, 1, 0 * BytesPerWord) = << >>
  <2>1. 0 * BytesPerWord = 0
    BY <1>0
  <2> QED
    BY <2>1, SubSeqEmpty
<1> QED
  BY <1>1, <1>2, <1>4, <1>5, <1>8, <1>10, <1>11, <1>12, <1>13, <1>14, <1>15

--------------------------------------------------------------------------------
(***************************************************************************)
(* Replies.                                                                *)
(***************************************************************************)
LEMMA ReplyBytes ==
  /\ \A i \in 1 .. 7 : Marker(i) \in 0 .. 255
  /\ \A w \in 0 .. NumWords : Ack(w) \in 0 .. 255
  /\ HelperRequest \in 0 .. 255
BY WordShape DEF Marker, Ack, HelperRequest

LEMMA AcksType ==
  ASSUME NEW n \in 0 .. NumWords + 1
  PROVE  Acks(n) \in Seq(0 .. 255) /\ Len(Acks(n)) = n /\ \A i \in 1 .. n : Acks(n)[i] = Ack(i - 1)
<1>1. n \in Nat /\ \A i \in 1 .. n : Ack(i - 1) \in 0 .. 255
  BY WordShape DEF Ack
<1> QED
  BY <1>1 DEF Acks

LEMMA AcksNext ==
  ASSUME NEW n \in 0 .. NumWords
  PROVE  Acks(n) \o <<Ack(n)>> = Acks(n + 1)
<1>0. n \in Nat /\ n + 1 \in 0 .. NumWords + 1 /\ n \in 0 .. NumWords + 1
  BY WordShape
<1>1. <<Ack(n)>> \in Seq(0 .. 255) /\ Len(<<Ack(n)>>) = 1 /\ <<Ack(n)>>[1] = Ack(n)
  BY ReplyBytes
<1>2. Acks(n) \in Seq(0 .. 255) /\ Len(Acks(n)) = n /\ \A i \in 1 .. n : Acks(n)[i] = Ack(i - 1)
  BY <1>0, AcksType
<1>3. /\ Acks(n + 1) \in Seq(0 .. 255) /\ Len(Acks(n + 1)) = n + 1
      /\ \A i \in 1 .. n + 1 : Acks(n + 1)[i] = Ack(i - 1)
  BY <1>0, AcksType
<1>4. /\ Acks(n) \o <<Ack(n)>> \in Seq(0 .. 255) /\ Len(Acks(n) \o <<Ack(n)>>) = n + 1
      /\ \A i \in 1 .. n + 1 : (Acks(n) \o <<Ack(n)>>)[i]
                                 = IF i <= n THEN Acks(n)[i] ELSE <<Ack(n)>>[i - n]
  BY <1>1, <1>2, ConcatProperties
<1>5. \A i \in 1 .. n + 1 : (Acks(n) \o <<Ack(n)>>)[i] = Acks(n + 1)[i]
  <2> SUFFICES ASSUME NEW i \in 1 .. n + 1
               PROVE  (Acks(n) \o <<Ack(n)>>)[i] = Acks(n + 1)[i]
    OBVIOUS
  <2>1. CASE i <= n
    BY <1>2, <1>3, <1>4, <2>1
  <2>2. CASE i = n + 1
    <3>1. i - n = 1 /\ ~(i <= n) /\ i - 1 = n
      BY <1>0, <2>2
    <3>2. (Acks(n) \o <<Ack(n)>>)[i] = <<Ack(n)>>[1]
      BY <1>4, <3>1
    <3>3. Acks(n + 1)[i] = Ack(n)
      BY <1>3, <3>1
    <3> QED
      BY <1>1, <3>2, <3>3
  <2>3. i <= n \/ i = n + 1
    OBVIOUS
  <2> QED
    BY <2>1, <2>2, <2>3
<1> QED
  BY <1>3, <1>4, <1>5, SeqEqual

LEMMA ProgressType ==
  ASSUME NEW k \in 0 .. 7
  PROVE  /\ Progress(k) \in Seq(0 .. 255) /\ Len(Progress(k)) = k
         /\ \A i \in 1 .. k : Progress(k)[i] = Marker(i)
<1>1. k \in Nat /\ \A i \in 1 .. k : Marker(i) \in 0 .. 255
  BY DEF Marker
<1> QED
  BY <1>1 DEF Progress

LEMMA ProgressNext ==
  ASSUME NEW n \in 0 .. 6
  PROVE  /\ Progress(n) \o <<Marker(n + 1)>> = Progress(n + 1)
         /\ Progress(0) = << >>
<1>0. n \in Nat /\ n \in 0 .. 7 /\ n + 1 \in 0 .. 7
  OBVIOUS
<1>1. PICK a \in Seq(0 .. 255) :
        a = Progress(n) /\ Len(a) = n /\ \A i \in 1 .. n : a[i] = Marker(i)
  BY <1>0, ProgressType
<1>2. PICK c \in Seq(0 .. 255) :
        c = Progress(n + 1) /\ Len(c) = n + 1 /\ \A i \in 1 .. n + 1 : c[i] = Marker(i)
  BY <1>0, ProgressType
<1>3. PICK b \in Seq(0 .. 255) : b = <<Marker(n + 1)>> /\ Len(b) = 1 /\ b[1] = Marker(n + 1)
  <2>1. PICK v \in 0 .. 255 : v = Marker(n + 1)
    BY DEF Marker
  <2>2. <<v>> \in Seq(0 .. 255) /\ Len(<<v>>) = 1 /\ <<v>>[1] = v
    OBVIOUS
  <2> QED
    BY <2>1, <2>2
<1>4. /\ a \o b \in Seq(0 .. 255) /\ Len(a \o b) = n + 1
      /\ \A i \in 1 .. n + 1 : (a \o b)[i] = IF i <= n THEN a[i] ELSE b[i - n]
  BY <1>1, <1>3, ConcatProperties
<1>5. ASSUME NEW i \in 1 .. n + 1
      PROVE  (a \o b)[i] = c[i]
  <2>1. CASE i <= n
    <3>1. i \in 1 .. n
      BY <2>1
    <3> QED
      BY <1>1, <1>2, <1>4, <2>1, <3>1
  <2>2. CASE i = n + 1
    <3>1. i - n = 1 /\ ~(i <= n)
      BY <1>0, <2>2
    <3> QED
      BY <1>2, <1>3, <1>4, <2>2, <3>1
  <2>3. i <= n \/ i = n + 1
    OBVIOUS
  <2> QED
    BY <2>1, <2>2, <2>3
<1>6. a \o b = c
  BY <1>2, <1>4, <1>5, SeqEqual
<1>7. Progress(0) = << >>
  BY DEF Progress
<1> QED
  BY <1>1, <1>2, <1>3, <1>6, <1>7

\* The bytes of a reconstruction that has got as far as marker n.
LEMMA AcceptedNext ==
  /\ \A n \in 0 .. 7 : Accepted(n) \in Seq(0 .. 255)
  /\ \A n \in 0 .. 6 : Accepted(n) \o <<Marker(n + 1)>> = Accepted(n + 1)
  /\ (<<HelperRequest>> \o Acks(NumWords)) \o <<Ack(NumWords), Marker(1)>> = Accepted(1)
  /\ Accepted(4) \o <<Marker(5), Marker(6)>> = Accepted(6)
  /\ Accepted(6) \o <<Marker(7), StatusSuccess, 0>> = Accepted(7) \o <<StatusSuccess, 0>>
  /\ \A w \in 0 .. NumWords : /\ <<HelperRequest>> \o Acks(w) \in Seq(0 .. 255)
                              /\ (<<HelperRequest>> \o Acks(w)) \o <<Ack(w)>>
                                   = <<HelperRequest>> \o Acks(w + 1)
<1> DEFINE S == Seq(0 .. 255)
<1>0. /\ <<HelperRequest>> \in S /\ \A i \in 1 .. 7 : <<Marker(i)>> \in S
      /\ \A w \in 0 .. NumWords : <<Ack(w)>> \in S
      /\ NumWords \in 0 .. NumWords /\ NumWords + 1 \in 0 .. NumWords + 1
  BY ReplyBytes, WordShape
<1>t. <<StatusSuccess, 0>> \in S
  BY DEF StatusSuccess
<1>1. PICK head \in S : head = <<HelperRequest>> \o Acks(NumWords + 1)
  BY <1>0, AcksType, ConcatProperties
<1>2. \A n \in 0 .. 7 : Accepted(n) = head \o Progress(n)
  BY <1>1 DEF Accepted
<1>3. \A n \in 0 .. 7 : Progress(n) \in S
  BY ProgressType
<1>4. \A n \in 0 .. 7 : Accepted(n) \in S
  <2> SUFFICES ASSUME NEW n \in 0 .. 7
               PROVE  Accepted(n) \in S
    OBVIOUS
  <2>1. PICK a \in S : a = Progress(n)
    BY <1>3
  <2>2. head \o a \in S
    BY ConcatProperties
  <2> QED
    BY <1>2, <2>1, <2>2
<1>5. ASSUME NEW n \in 0 .. 6
      PROVE  Accepted(n) \o <<Marker(n + 1)>> = Accepted(n + 1)
  <2>0. n \in 0 .. 7 /\ n + 1 \in 0 .. 7 /\ n + 1 \in 1 .. 7
    OBVIOUS
  <2>1. PICK a \in S : a = Progress(n)
    BY <1>3, <2>0
  <2>2. PICK b \in S : b = <<Marker(n + 1)>>
    BY <1>0, <2>0
  <2>3. (head \o a) \o b = head \o (a \o b)
    BY ConcatAssociative
  <2>4. a \o b = Progress(n + 1)
    BY <2>1, <2>2, ProgressNext
  <2>5. Accepted(n) = head \o a /\ Accepted(n + 1) = head \o Progress(n + 1)
    BY <1>2, <2>0, <2>1
  <2> QED
    BY <2>2, <2>3, <2>4, <2>5
<1>6. ASSUME NEW w \in 0 .. NumWords
      PROVE  /\ <<HelperRequest>> \o Acks(w) \in S
             /\ (<<HelperRequest>> \o Acks(w)) \o <<Ack(w)>> = <<HelperRequest>> \o Acks(w + 1)
  <2>0. w \in 0 .. NumWords + 1
    BY WordShape
  <2>1. PICK a \in S : a = Acks(w)
    BY <2>0, AcksType
  <2>2. PICK b \in S : b = <<Ack(w)>>
    BY <1>0
  <2>3. PICK r \in S : r = <<HelperRequest>>
    BY <1>0
  <2>4. (r \o a) \o b = r \o (a \o b) /\ r \o a \in S
    BY ConcatAssociative, ConcatProperties
  <2>5. a \o b = Acks(w + 1)
    BY <2>1, <2>2, AcksNext
  <2> QED
    BY <2>1, <2>2, <2>3, <2>4, <2>5
<1>7. ASSUME NEW a \in 0 .. 255
      PROVE  <<a>> \in S
  OBVIOUS
<1>8. Accepted(4) \o <<Marker(5), Marker(6)>> = Accepted(6)
  <2>1. PICK s \in S : s = Accepted(4)
    BY <1>4
  <2>2. PICK a \in 0 .. 255 : a = Marker(5)
    BY DEF Marker
  <2>3. PICK b \in 0 .. 255 : b = Marker(6)
    BY DEF Marker
  <2>4. <<a>> \in S /\ <<b>> \in S
    BY <1>7
  <2>5. <<a, b>> = <<a>> \o <<b>>
    OBVIOUS
  <2>6. (s \o <<a>>) \o <<b>> = s \o (<<a>> \o <<b>>)
    BY <2>4, ConcatAssociative
  <2>7. 4 \in 0 .. 6 /\ 5 \in 0 .. 6 /\ 4 + 1 = 5 /\ 5 + 1 = 6
    OBVIOUS
  <2>8. Accepted(4) \o <<Marker(5)>> = Accepted(5) /\ Accepted(5) \o <<Marker(6)>> = Accepted(6)
    BY <1>5, <2>7
  <2> QED
    BY <2>1, <2>2, <2>3, <2>5, <2>6, <2>8
<1>9. Accepted(6) \o <<Marker(7), StatusSuccess, 0>> = Accepted(7) \o <<StatusSuccess, 0>>
  <2>1. PICK s \in S : s = Accepted(6)
    BY <1>4
  <2>2. PICK a \in 0 .. 255 : a = Marker(7)
    BY DEF Marker
  <2>3. PICK t \in S : t = <<StatusSuccess, 0>>
    BY <1>t
  <2>4. <<a>> \in S
    BY <1>7
  <2>5. <<a, StatusSuccess, 0>> = <<a>> \o <<StatusSuccess, 0>>
    OBVIOUS
  <2>6. (s \o <<a>>) \o t = s \o (<<a>> \o t)
    BY <2>4, ConcatAssociative
  <2>7. 6 \in 0 .. 6 /\ 6 + 1 = 7
    OBVIOUS
  <2>8. Accepted(6) \o <<Marker(7)>> = Accepted(7)
    BY <1>5, <2>7
  <2> QED
    BY <2>1, <2>2, <2>3, <2>5, <2>6, <2>8
<1>10. (<<HelperRequest>> \o Acks(NumWords)) \o <<Ack(NumWords), Marker(1)>> = Accepted(1)
  <2>1. PICK s \in S : s = <<HelperRequest>> \o Acks(NumWords)
    BY <1>0, <1>6
  <2>2. PICK a \in 0 .. 255 : a = Ack(NumWords)
    BY WordShape DEF Ack
  <2>3. PICK b \in 0 .. 255 : b = Marker(1)
    BY DEF Marker
  <2>4. <<a>> \in S /\ <<b>> \in S
    BY <1>7
  <2>5. <<a, b>> = <<a>> \o <<b>>
    OBVIOUS
  <2>6. (s \o <<a>>) \o <<b>> = s \o (<<a>> \o <<b>>)
    BY <2>4, ConcatAssociative
  <2>7. s \o <<a>> = head
    BY <1>0, <1>1, <1>6, <2>1, <2>2
  <2>8. 0 \in 0 .. 6 /\ 0 \in 0 .. 7 /\ 0 + 1 = 1
    OBVIOUS
  <2>9. head = Accepted(0)
    <3>1. Progress(0) = << >>
      BY <2>8, ProgressNext
    <3>2. head \o << >> = head
      BY ConcatEmptySeq
    <3> QED
      BY <1>2, <2>8, <3>1, <3>2
  <2>10. Accepted(0) \o <<Marker(1)>> = Accepted(1)
    BY <1>5, <2>8
  <2> QED
    BY <2>1, <2>2, <2>3, <2>5, <2>6, <2>7, <2>9, <2>10
<1> QED
  BY <1>4, <1>5, <1>6, <1>8, <1>9, <1>10

================================================================================
