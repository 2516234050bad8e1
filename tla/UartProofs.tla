------------------------------- MODULE UartProofs ------------------------------
(***************************************************************************)
(* Theorems about the UART: the two lines first, then the registers        *)
(* between them and the processor.                                         *)
(*                                                                         *)
(* The receiver reports the bytes that were sent, for every number of      *)
(* clocks per bit, every width of a byte and every drift that leaves the   *)
(* receiver one clock of the bit it samples.  The invariant places both    *)
(* FSMs in the frame by the clocks since it began, t for the transmitter   *)
(* and p for the receiver, and bounds how far apart the two may be.        *)
(***************************************************************************)
EXTENDS UartLink, SocPeripherals, SequenceTheorems, TLAPS

\* Clocks from the start state of the receiver to the middle of the start bit.
Half == (ClksPerBit - 1) \div 2

\* The clock a bit of the frame begins with.  The start bit is number 0, the stop
\* bit number DataBits + 1, and the one clock of s_CLEANUP follows it.
Edge(j) == ClksPerBit * j

\* The line in each bit of a frame.
Level(byte, j) == j > DataBits \/ (j \in 1 .. DataBits /\ byte[j - 1])

\* The line shows a bit from its second clock to the first of the next.
Shown(byte, s, c) ==
  IF c # 0 THEN Level(byte, s) ELSE s = 0 \/ Level(byte, s - 1)

\* The transmitter in clock c of bit s.
TxPlace(s, c) ==
  /\ txCount = c
  /\ s = 0 => txState = "s_START_BIT" /\ txBit = 0
  /\ s \in 1 .. DataBits => txState = "s_DATA_BITS" /\ txBit = s - 1
  /\ s = DataBits + 1 => txState = "s_STOP_BIT"
  /\ s = DataBits + 2 => txState = "s_CLEANUP" /\ c = 0
  /\ (serial <=> Shown(txData, s, c))

\* Clock t of a frame.
TxAt(t) ==
  \E s \in 0 .. DataBits + 2, c \in 0 .. ClksPerBit - 1 : t = Edge(s) + c /\ TxPlace(s, c)

\* What the receiver does p clocks after it first took a low level into its flops.
RxStart(p) ==
  /\ p \in 2 .. Half + 2
  /\ rxState = "s_START_BIT" /\ rxCount = p - 2 /\ rxBit = 0 /\ ~rxDv

RxBits(p, byte, i, c) ==
  /\ p = Edge(i) + Half + 3 + c
  /\ rxState = "s_DATA_BITS" /\ rxCount = c /\ rxBit = i /\ ~rxDv
  /\ \A b \in 0 .. i - 1 : rxByte[b] = byte[b]

RxStop(p, byte, c) ==
  /\ p = Edge(DataBits) + Half + 3 + c
  /\ rxState = "s_STOP_BIT" /\ rxCount = c /\ ~rxDv
  /\ rxByte = byte

LastClock == Edge(DataBits + 1) + Half + 3

RxIn(p, byte) ==
  \/ p = 1 /\ rxState = "s_IDLE" /\ ~rxDv
  \/ RxStart(p)
  \/ \E i \in 0 .. DataBits - 1, c \in 0 .. ClksPerBit - 1 : RxBits(p, byte, i, c)
  \/ \E c \in 0 .. ClksPerBit - 1 : RxStop(p, byte, c)
  \/ p = LastClock /\ rxState = "s_CLEANUP" /\ rxDv /\ rxByte = byte

\* What its flops hold when it looks at them, and after the frame.
FlopsAt(p, byte) ==
  /\ p = 0 => ~rxDataR /\ rxData
  /\ p = 1 => ~rxData
  /\ \A j \in 0 .. DataBits : /\ p = Edge(j) + Half + 1 => (rxDataR <=> Level(byte, j))
                              /\ p = Edge(j) + Half + 2 => (rxData <=> Level(byte, j))
  /\ p > Edge(DataBits + 1) + Half => rxDataR
  /\ p > Edge(DataBits + 1) + Half + 1 => rxData

High == rxDataR /\ rxData

Firsts(s, n) == [i \in 1 .. n |-> s[i]]

Got(n) == n \in 0 .. Len(sent) /\ received = Firsts(sent, n)

\* The receiver is in the last clocks of a frame: it has reported the byte in q clocks.
Ending(q, byte) ==
  /\ rxByte = byte
  /\ \/ q = 1 /\ rxState = "s_CLEANUP" /\ rxDv
     \/ q \in 2 .. 3 /\ rxState = "s_STOP_BIT" /\ rxCount = ClksPerBit + 1 - q /\ ~rxDv

\* The receiver is q clocks from having reported byte n, the last it knows of.
Behind(q, n) ==
  \/ q = 0 /\ rxState = "s_IDLE" /\ ~rxDv /\ Got(n)
  \/ q \in 1 .. 3 /\ n \in 1 .. Len(sent) /\ Ending(q, sent[n]) /\ Got(n - 1)

LineIdle ==
  /\ txState = "s_IDLE" /\ serial /\ rxDataR
  /\ \E q \in 0 .. 3 : Behind(q, Len(sent)) /\ (q < 3 => rxData)

Sending(n) == Len(sent) = n + 1 /\ sent[n + 1] = txData

\* The transmitter has begun a frame, the receiver has not seen it.
Starting(t, n) ==
  /\ Sending(n) /\ TxAt(t)
  /\ t = 0 \/ (t <= ahead + 1 /\ ahead <= t + MaxDrift)
  /\ High
  /\ \E q \in 0 .. 2 : Behind(q, n)

\* Both are in the frame; the clocks differ by what the drift allows and by
\* the clocks it took to see the start.
Near(t, p) == t >= 1 /\ t <= p + ahead + 2 /\ p + ahead + 1 <= t + MaxDrift

InFrame(t, p, n) ==
  /\ Sending(n) /\ TxAt(t) /\ Near(t, p) /\ FlopsAt(p, txData)
  /\ \/ p = 0 /\ \E q \in 0 .. 1 : Behind(q, n)
     \/ p >= 1 /\ RxIn(p, txData) /\ Got(n)

\* The receiver is done with the frame, the transmitter is not.
Reported(t) ==
  /\ TxAt(t) /\ t > Edge(DataBits + 1)
  /\ High
  /\ Behind(0, Len(sent))

LinkType ==
  /\ sent \in Seq(Bytes)
  /\ txData \in Bytes /\ rxByte \in Bytes
  /\ serial \in BOOLEAN /\ rxDataR \in BOOLEAN /\ rxData \in BOOLEAN
  /\ ahead \in 0 .. MaxDrift

LinkPhase ==
  \/ LineIdle
  \/ \E t, n \in Nat : Starting(t, n)
  \/ \E t, p, n \in Nat : InFrame(t, p, n)
  \/ \E t \in Nat : Reported(t)

LinkInv == LinkType /\ LinkPhase

--------------------------------------------------------------------------------
(***************************************************************************)
(* Clocks and bits.                                                        *)
(***************************************************************************)
LEMMA Sizes ==
  /\ ClksPerBit \in Nat /\ ClksPerBit >= 2
  /\ DataBits \in Nat /\ DataBits >= 1
  /\ Half \in Nat /\ MaxDrift \in Nat
  /\ Half + MaxDrift + 2 <= ClksPerBit /\ MaxDrift <= Half
  /\ Half <= ClksPerBit - 1
BY UartParameters, LinkParameters DEF Half

LEMMA EdgeStep ==
  ASSUME NEW j \in Nat
  PROVE  /\ Edge(j) \in Nat
         /\ Edge(0) = 0
         /\ Edge(j + 1) = Edge(j) + ClksPerBit
BY Sizes DEF Edge

\* A later bit begins after the earlier one is over.
LEMMA EdgesApart ==
  ASSUME NEW a \in Nat, NEW b \in Nat, a < b
  PROVE  Edge(a) + ClksPerBit <= Edge(b)
<1>1. PICK d \in Nat : b = a + 1 + d
  <2>1. b - a - 1 \in Nat /\ b = a + 1 + (b - a - 1)
    OBVIOUS
  <2> QED
    BY <2>1
<1>2. ClksPerBit * b = ClksPerBit * a + ClksPerBit + ClksPerBit * d
  BY <1>1, Sizes
<1>3. ClksPerBit * d \in Nat /\ ClksPerBit * a \in Nat
  BY Sizes
<1> QED
  BY <1>2, <1>3, Sizes DEF Edge

\* A clock belongs to one bit.
LEMMA OneBit ==
  ASSUME NEW a \in Nat, NEW b \in Nat, NEW c \in 0 .. ClksPerBit - 1, NEW d \in 0 .. ClksPerBit - 1,
         Edge(a) + c = Edge(b) + d
  PROVE  a = b /\ c = d
<1>0. Edge(a) \in Nat /\ Edge(b) \in Nat
  BY EdgeStep
<1>1. ~(a < b)
  BY <1>0, EdgesApart, Sizes
<1>2. ~(b < a)
  BY <1>0, EdgesApart, Sizes
<1>3. a = b
  BY <1>1, <1>2
<1> QED
  BY <1>0, <1>3, Sizes

\* The clocks in which the line shows bit j.
LEMMA ShownBit ==
  ASSUME NEW byte, NEW s \in Nat, NEW c \in 0 .. ClksPerBit - 1, NEW j \in Nat,
         Edge(j) + 1 <= Edge(s) + c, Edge(s) + c <= Edge(j) + ClksPerBit
  PROVE  Shown(byte, s, c) <=> Level(byte, j)
<1>0. Edge(j) \in Nat /\ Edge(s) \in Nat /\ Edge(j + 1) = Edge(j) + ClksPerBit /\ j + 1 \in Nat
  BY EdgeStep
<1>1. CASE c = 0
  <2>1. ~(s < j + 1)
    <3>1. s < j + 1 => s < j \/ s = j
      OBVIOUS
    <3> QED
      BY <1>0, <1>1, <3>1, EdgesApart, Sizes
  <2>2. ~(j + 1 < s)
    BY <1>0, <1>1, EdgesApart, Sizes
  <2>3. s = j + 1
    BY <2>1, <2>2
  <2> QED
    BY <1>1, <2>3 DEF Shown
<1>2. CASE c # 0
  <2>1. ~(s < j)
    BY <1>0, EdgesApart, Sizes
  <2>2. ~(j < s)
    BY <1>0, <1>2, EdgesApart, Sizes
  <2>3. s = j
    BY <2>1, <2>2
  <2> QED
    BY <1>2, <2>3 DEF Shown
<1> QED
  BY <1>1, <1>2

\* What the receiver samples in the clocks of bit j.
LEMMA LineShows ==
  ASSUME NEW t \in Nat, TxAt(t), NEW j \in Nat,
         Edge(j) + 1 <= t, t <= Edge(j) + ClksPerBit
  PROVE  serial <=> Level(txData, j)
<1>1. PICK s \in 0 .. DataBits + 2, c \in 0 .. ClksPerBit - 1 : t = Edge(s) + c /\ TxPlace(s, c)
  BY DEF TxAt
<1>2. s \in Nat
  BY Sizes
<1>3. serial <=> Shown(txData, s, c)
  BY <1>1 DEF TxPlace
<1> QED
  BY <1>1, <1>2, <1>3, ShownBit

\* The line is high in the clock a frame begins, and from the stop bit on.
LEMMA LineHigh ==
  ASSUME NEW t \in Nat, TxAt(t), t = 0 \/ t > Edge(DataBits + 1)
  PROVE  serial
<1>1. PICK s \in 0 .. DataBits + 2, c \in 0 .. ClksPerBit - 1 : t = Edge(s) + c /\ TxPlace(s, c)
  BY DEF TxAt
<1>0. s \in Nat /\ DataBits + 1 \in Nat
  BY Sizes
<1>2. Edge(s) \in Nat /\ Edge(DataBits + 1) \in Nat
  BY <1>0, EdgeStep
<1>3. serial <=> Shown(txData, s, c)
  BY <1>1 DEF TxPlace
<1>4. CASE t = 0
  <2>1. s = 0 /\ c = 0
    <3>1. ~(0 < s)
      BY <1>1, <1>2, <1>4, EdgesApart, EdgeStep, Sizes
    <3> QED
      BY <1>1, <1>2, <1>4, <3>1
  <2> QED
    BY <1>3, <2>1 DEF Shown
<1>5. CASE t > Edge(DataBits + 1)
  <2>1. Level(txData, DataBits + 1)
    BY Sizes DEF Level
  <2>2. ~(s < DataBits + 1)
    BY <1>1, <1>2, <1>5, EdgesApart, Sizes
  <2>3. CASE s = DataBits + 1
    BY <1>1, <1>2, <1>3, <1>5, <2>1, <2>3 DEF Shown
  <2>4. CASE s = DataBits + 2
    BY <1>1, <1>3, <2>1, <2>4, Sizes DEF Shown, TxPlace
  <2> QED
    BY <2>2, <2>3, <2>4, Sizes
<1> QED
  BY <1>4, <1>5

--------------------------------------------------------------------------------
(***************************************************************************)
(* A clock of the transmitter.                                             *)
(***************************************************************************)
FrameEnd == Edge(DataBits + 2)

LEMMA TxPlaceStep ==
  ASSUME txData \in Bytes, NEW s \in 0 .. DataBits + 2, NEW c \in 0 .. ClksPerBit - 1,
         s # DataBits + 2, TxPlace(s, c), NEW dv, NEW byte, TxClock(dv, byte)
  PROVE  /\ txData' = txData /\ serial' \in BOOLEAN
         /\ c # ClksPerBit - 1 => TxPlace(s, c + 1)'
         /\ c = ClksPerBit - 1 => TxPlace(s + 1, 0)'
<1>0. /\ ClksPerBit \in Nat /\ ClksPerBit >= 2
      /\ DataBits \in Nat /\ DataBits >= 1
  BY Sizes
<1>1. CASE s = 0
  <2>1. txState = "s_START_BIT" /\ txBit = 0 /\ txCount = c
    BY <1>1 DEF TxPlace
  <2>2. TxStartBit
    BY <2>1 DEF TxClock, TxIdle, TxDataBits, TxStopBit, TxCleanup
  <2>3. serial' = FALSE /\ txData' = txData /\ txBit' = 0
    BY <2>1, <2>2 DEF TxStartBit
  <2>4. ~Level(txData, 0)
    BY <1>0 DEF Level
  <2>5. CASE c # ClksPerBit - 1
    <3>1. txState' = "s_START_BIT" /\ txCount' = c + 1
      BY <2>1, <2>2, <2>5 DEF TxStartBit, TxTiming, TxBitOver
    <3>2. ~Shown(txData, s, c + 1)
      BY <1>0, <1>1, <2>4 DEF Shown
    <3>3. TxPlace(s, c + 1)'
      BY <1>0, <1>1, <2>3, <3>1, <3>2 DEF TxPlace
    <3> QED
      BY <2>3, <2>5, <3>3
  <2>6. CASE c = ClksPerBit - 1
    <3>1. txState' = "s_DATA_BITS" /\ txCount' = 0
      BY <2>1, <2>2, <2>6 DEF TxStartBit, TxTiming, TxBitOver
    <3>2. ~Shown(txData, s + 1, 0)
      BY <1>0, <1>1, <2>4 DEF Shown
    <3>3. TxPlace(s + 1, 0)'
      BY <1>0, <1>1, <2>3, <3>1, <3>2 DEF TxPlace
    <3> QED
      BY <2>3, <2>6, <3>3
  <2> QED
    BY <2>3, <2>5, <2>6
<1>2. CASE s \in 1 .. DataBits
  <2>1. txState = "s_DATA_BITS" /\ txBit = s - 1 /\ txCount = c
    BY <1>2 DEF TxPlace
  <2>0. txData[s - 1] \in BOOLEAN
    BY <1>0, <1>2 DEF Bytes
  <2>2. TxDataBits
    BY <2>1 DEF TxClock, TxIdle, TxStartBit, TxStopBit, TxCleanup
  <2>3. serial' = txData[s - 1] /\ txData' = txData
    BY <2>1, <2>2 DEF TxDataBits
  <2>4. Level(txData, s) <=> txData[s - 1]
    BY <1>0, <1>2 DEF Level
  <2>5. CASE c # ClksPerBit - 1
    <3>1. txState' = "s_DATA_BITS" /\ txBit' = s - 1 /\ txCount' = c + 1
      BY <2>1, <2>2, <2>5 DEF TxDataBits, TxTiming, TxBitOver
    <3>2. Shown(txData, s, c + 1) <=> txData[s - 1]
      BY <1>0, <2>4 DEF Shown
    <3>3. TxPlace(s, c + 1)'
      BY <1>0, <1>2, <2>0, <2>3, <3>1, <3>2 DEF TxPlace
    <3> QED
      BY <2>0, <2>3, <2>5, <3>3
  <2>6. CASE c = ClksPerBit - 1
    <3>0. txCount' = 0 /\ (Shown(txData, s + 1, 0) <=> txData[s - 1])
      BY <1>0, <1>2, <2>1, <2>2, <2>4, <2>6 DEF TxDataBits, TxTiming, TxBitOver, Shown
    <3>1. CASE s = DataBits
      <4>1. txState' = "s_STOP_BIT"
        BY <1>0, <2>1, <2>2, <2>6, <3>1 DEF TxDataBits, TxBitOver
      <4>2. TxPlace(s + 1, 0)'
        BY <1>0, <1>2, <2>0, <2>3, <3>0, <3>1, <4>1 DEF TxPlace
      <4> QED
        BY <2>0, <2>3, <2>6, <4>2
    <3>2. CASE s # DataBits
      <4>1. txState' = "s_DATA_BITS" /\ txBit' = (s - 1 + 1) % DataBits
        BY <1>0, <1>2, <2>1, <2>2, <2>6, <3>2 DEF TxDataBits, TxBitOver
      <4>2. (s - 1 + 1) % DataBits = s + 1 - 1
        BY <1>0, <1>2, <3>2
      <4>3. TxPlace(s + 1, 0)'
        BY <1>0, <1>2, <2>0, <2>3, <3>0, <3>2, <4>1, <4>2 DEF TxPlace
      <4> QED
        BY <2>0, <2>3, <2>6, <4>3
    <3> QED
      BY <3>1, <3>2
  <2> QED
    BY <2>0, <2>3, <2>5, <2>6
<1>3. CASE s = DataBits + 1
  <2>1. txState = "s_STOP_BIT" /\ txCount = c
    BY <1>3 DEF TxPlace
  <2>2. TxStopBit
    BY <2>1 DEF TxClock, TxIdle, TxStartBit, TxDataBits, TxCleanup
  <2>3. serial' = TRUE /\ txData' = txData
    BY <2>1, <2>2 DEF TxStopBit
  <2>4. Level(txData, s)
    BY <1>0, <1>3 DEF Level
  <2>5. CASE c # ClksPerBit - 1
    BY <1>0, <1>3, <2>1, <2>2, <2>3, <2>4, <2>5
    DEF TxStopBit, TxTiming, TxBitOver, TxPlace, Shown
  <2>6. CASE c = ClksPerBit - 1
    BY <1>0, <1>3, <2>1, <2>2, <2>3, <2>4, <2>6
    DEF TxStopBit, TxTiming, TxBitOver, TxPlace, Shown
  <2> QED
    BY <2>3, <2>5, <2>6
<1> QED
  BY <1>0, <1>1, <1>2, <1>3

\* The transmitter goes through its frame clock by clock; then the line is idle.
LEMMA TxStep ==
  ASSUME txData \in Bytes, serial \in BOOLEAN, NEW t \in Nat, TxAt(t), NEW dv, NEW byte, TxClock(dv, byte)
  PROVE  /\ txData' = txData /\ serial' \in BOOLEAN
         /\ TxAt(t + 1)' \/ (t = FrameEnd /\ txState' = "s_IDLE" /\ serial')
<1>0. /\ ClksPerBit \in Nat /\ ClksPerBit >= 2
      /\ DataBits \in Nat /\ DataBits >= 1
  BY Sizes
<1>1. PICK s \in 0 .. DataBits + 2, c \in 0 .. ClksPerBit - 1 : t = Edge(s) + c /\ TxPlace(s, c)
  BY DEF TxAt
<1>2. CASE s = DataBits + 2
  <2>1. txState = "s_CLEANUP" /\ c = 0
    BY <1>1, <1>2 DEF TxPlace
  <2>2. TxCleanup
    BY <2>1 DEF TxClock, TxIdle, TxStartBit, TxDataBits, TxStopBit
  <2>3. t = FrameEnd
    BY <1>0, <1>1, <1>2, <2>1, EdgeStep DEF FrameEnd
  <2>4. t > Edge(DataBits + 1)
    BY <1>0, <2>3, EdgesApart, EdgeStep DEF FrameEnd
  <2>5. serial
    BY <2>4, LineHigh
  <2> QED
    BY <2>2, <2>3, <2>5 DEF TxCleanup
<1>3. CASE s # DataBits + 2
  <2>1. /\ txData' = txData /\ serial' \in BOOLEAN
        /\ c # ClksPerBit - 1 => TxPlace(s, c + 1)'
        /\ c = ClksPerBit - 1 => TxPlace(s + 1, 0)'
    BY <1>1, <1>3, TxPlaceStep
  <2>2. CASE c # ClksPerBit - 1
    <3>1. c + 1 \in 0 .. ClksPerBit - 1 /\ t + 1 = Edge(s) + (c + 1)
      BY <1>0, <1>1, <2>2, EdgeStep
    <3> QED
      BY <2>1, <2>2, <3>1 DEF TxAt, Edge
  <2>3. CASE c = ClksPerBit - 1
    <3>1. s + 1 \in 0 .. DataBits + 2 /\ 0 \in 0 .. ClksPerBit - 1 /\ t + 1 = Edge(s + 1) + 0
      BY <1>0, <1>1, <1>3, <2>3, EdgeStep
    <3> QED
      BY <2>1, <2>3, <3>1 DEF TxAt, Edge
  <2> QED
    BY <2>1, <2>2, <2>3
<1> QED
  BY <1>2, <1>3

\* A frame begins.
LEMMA TxBegins ==
  ASSUME NEW byte, TxIdle(TRUE, byte)
  PROVE  TxAt(0)' /\ txData' = byte
<1>0. 0 \in 0 .. DataBits + 2 /\ 0 \in 0 .. ClksPerBit - 1 /\ 0 = Edge(0) + 0
  BY Sizes, EdgeStep
<1>1. txState' = "s_START_BIT" /\ txBit' = 0 /\ txCount' = 0 /\ serial' = TRUE /\ txData' = byte
  BY DEF TxIdle
<1>2. TxPlace(0, 0)'
  BY <1>1, Sizes DEF TxPlace, Shown
<1> QED
  BY <1>0, <1>1, <1>2 DEF TxAt, Edge

--------------------------------------------------------------------------------
(***************************************************************************)
(* A clock of the receiver.                                                *)
(***************************************************************************)
LEMMA RxStartStep ==
  ASSUME NEW p \in Nat, RxStart(p), p = Half + 2 => ~rxData, NEW line, RxClock(line)
  PROVE  /\ rxByte' = rxByte /\ ~rxDv
         /\ p # Half + 2 => RxStart(p + 1)'
         /\ p = Half + 2 => RxBits(p + 1, txData, 0, 0)'
<1>0. Half \in Nat /\ Half = (ClksPerBit - 1) \div 2 /\ Edge(0) = 0
  BY Sizes, EdgeStep DEF Half
<1>1. RxStartBit
  BY DEF RxStart, RxClock, RxIdle, RxDataBits, RxStopBit, RxCleanup
<1>2. rxByte' = rxByte /\ rxDv' = rxDv /\ rxBit' = rxBit
  BY <1>1 DEF RxStartBit, RxStartAt
<1>3. ASSUME p # Half + 2
      PROVE  RxStart(p + 1)'
  <2>1. rxState' = "s_START_BIT" /\ rxCount' = p + 1 - 2
    BY <1>0, <1>1, <1>3 DEF RxStartBit, RxStartAt, RxStart
  <2> QED
    BY <1>0, <1>2, <1>3, <2>1 DEF RxStart, Half
<1>4. ASSUME p = Half + 2
      PROVE  RxBits(p + 1, txData, 0, 0)'
  <2>1. rxState' = "s_DATA_BITS" /\ rxCount' = 0
    BY <1>0, <1>1, <1>4 DEF RxStartBit, RxStartAt, RxStart
  <2>2. p + 1 = Edge(0) + Half + 3 + 0
    BY <1>0, <1>4
  <2> QED
    BY <1>0, <1>2, <2>1, <2>2 DEF RxStart, RxBits, Edge, Half
<1> QED
  BY <1>2, <1>3, <1>4 DEF RxStart

\* With the last clock of a bit the receiver takes the level that its second flop has.
LEMMA RxBitsStep ==
  ASSUME txData \in Bytes, txData' = txData, rxByte \in Bytes, rxData \in BOOLEAN,
         NEW p \in Nat, NEW i \in 0 .. DataBits - 1, NEW c \in 0 .. ClksPerBit - 1,
         RxBits(p, txData, i, c), FlopsAt(p, txData), NEW line, RxClock(line)
  PROVE  /\ rxByte' \in Bytes /\ ~rxDv
         /\ c # ClksPerBit - 1 => RxBits(p + 1, txData, i, c + 1)'
         /\ c = ClksPerBit - 1 /\ i # DataBits - 1 => RxBits(p + 1, txData, i + 1, 0)'
         /\ c = ClksPerBit - 1 /\ i = DataBits - 1 => RxStop(p + 1, txData, 0)'
<1>0. /\ ClksPerBit \in Nat /\ ClksPerBit >= 2 /\ DataBits \in Nat /\ DataBits >= 1
      /\ Half \in Nat /\ i \in Nat
  BY Sizes
<1>e. Edge(i) \in Nat /\ Edge(i + 1) = Edge(i) + ClksPerBit
  BY <1>0, EdgeStep
<1>1. /\ p = Edge(i) + Half + 3 + c
      /\ rxState = "s_DATA_BITS" /\ rxCount = c /\ rxBit = i /\ ~rxDv
      /\ \A b \in 0 .. i - 1 : rxByte[b] = txData[b]
  BY DEF RxBits
<1>2. RxDataBits
  BY <1>1 DEF RxClock, RxIdle, RxStartBit, RxStartAt, RxStopBit, RxCleanup
<1>3. ~rxDv'
  BY <1>1, <1>2 DEF RxDataBits
<1>4. CASE c # ClksPerBit - 1
  <2>1. /\ rxState' = "s_DATA_BITS" /\ rxCount' = c + 1 /\ rxBit' = i /\ rxByte' = rxByte
    BY <1>1, <1>2, <1>4 DEF RxDataBits, RxTiming, RxBitOver
  <2>2. p + 1 = Edge(i) + Half + 3 + (c + 1)
    BY <1>0, <1>1, <1>e
  <2>3. RxBits(p + 1, txData, i, c + 1)'
    BY <1>1, <1>3, <2>1, <2>2 DEF RxBits, Edge, Half
  <2> QED
    BY <1>1, <1>4, <2>1, <2>3
<1>5. CASE c = ClksPerBit - 1
  <2>1. rxCount' = 0 /\ rxByte' = [rxByte EXCEPT ![i] = rxData]
    BY <1>1, <1>2, <1>5 DEF RxDataBits, RxTiming, RxBitOver
  <2>2. p = Edge(i + 1) + Half + 2 /\ i + 1 \in 0 .. DataBits
    BY <1>0, <1>1, <1>5, <1>e
  <2>3. rxData <=> Level(txData, i + 1)
    BY <2>2 DEF FlopsAt
  <2>4. Level(txData, i + 1) <=> txData[i]
    BY <1>0 DEF Level
  <2>5. rxData = txData[i]
    <3>1. txData[i] \in BOOLEAN
      BY DEF Bytes
    <3> QED
      BY <2>3, <2>4, <3>1
  <2>6. rxByte' \in Bytes /\ rxByte'[i] = txData[i] /\ \A b \in 0 .. i - 1 : rxByte'[b] = rxByte[b]
    BY <2>1, <2>5 DEF Bytes
  <2>7. \A b \in 0 .. i : rxByte'[b] = txData[b]
    BY <1>1, <2>6
  <2>8. ASSUME i # DataBits - 1
        PROVE  RxBits(p + 1, txData, i + 1, 0)'
    <3>1. rxState' = "s_DATA_BITS" /\ rxBit' = (i + 1) % DataBits
      BY <1>1, <1>2, <1>5, <2>8 DEF RxDataBits, RxBitOver
    <3>2. (i + 1) % DataBits = i + 1
      BY <1>0, <2>8
    <3>3. p + 1 = Edge(i + 1) + Half + 3 + 0 /\ i + 1 - 1 = i
      BY <1>0, <1>e, <2>2
    <3> QED
      BY <1>3, <2>1, <2>7, <3>1, <3>2, <3>3 DEF RxBits, Edge, Half
  <2>9. ASSUME i = DataBits - 1
        PROVE  RxStop(p + 1, txData, 0)'
    <3>1. rxState' = "s_STOP_BIT"
      BY <1>1, <1>2, <1>5, <2>9 DEF RxDataBits, RxBitOver
    <3>2. rxByte' = txData
      BY <2>6, <2>7, <2>9 DEF Bytes
    <3>3. p + 1 = Edge(DataBits) + Half + 3 + 0
      BY <1>0, <1>e, <2>2, <2>9
    <3> QED
      BY <1>3, <2>1, <3>1, <3>2, <3>3 DEF RxStop, Edge, Half
  <2> QED
    BY <1>1, <1>5, <2>6, <2>8, <2>9
<1> QED
  BY <1>4, <1>5

LEMMA RxStopStep ==
  ASSUME txData' = txData, NEW p \in Nat, NEW c \in 0 .. ClksPerBit - 1,
         RxStop(p, txData, c), NEW line, RxClock(line)
  PROVE  /\ rxByte' = rxByte /\ ~rxDv
         /\ c # ClksPerBit - 1 => RxStop(p + 1, txData, c + 1)'
         /\ c = ClksPerBit - 1 => /\ p + 1 = LastClock
                                  /\ rxState' = "s_CLEANUP" /\ rxDv' /\ rxByte' = txData
<1>0. ClksPerBit \in Nat /\ DataBits \in Nat /\ Half \in Nat
  BY Sizes
<1>e. Edge(DataBits) \in Nat /\ Edge(DataBits + 1) = Edge(DataBits) + ClksPerBit
  BY <1>0, EdgeStep
<1>1. /\ p = Edge(DataBits) + Half + 3 + c
      /\ rxState = "s_STOP_BIT" /\ rxCount = c /\ ~rxDv /\ rxByte = txData
  BY DEF RxStop
<1>2. RxStopBit
  BY <1>1 DEF RxClock, RxIdle, RxStartBit, RxStartAt, RxDataBits, RxCleanup
<1>3. rxByte' = rxByte
  BY <1>2 DEF RxStopBit
<1>4. ASSUME c # ClksPerBit - 1
      PROVE  RxStop(p + 1, txData, c + 1)'
  <2>1. rxState' = "s_STOP_BIT" /\ rxCount' = c + 1 /\ ~rxDv'
    BY <1>1, <1>2, <1>4 DEF RxStopBit, RxTiming, RxBitOver
  <2>2. p + 1 = Edge(DataBits) + Half + 3 + (c + 1)
    BY <1>0, <1>1, <1>e
  <2> QED
    BY <1>1, <1>3, <2>1, <2>2 DEF RxStop, Edge, Half
<1>5. ASSUME c = ClksPerBit - 1
      PROVE  p + 1 = LastClock /\ rxState' = "s_CLEANUP" /\ rxDv' /\ rxByte' = txData
  <2>1. p + 1 = LastClock
    BY <1>0, <1>1, <1>5, <1>e DEF LastClock
  <2> QED
    BY <1>1, <1>2, <1>3, <1>5, <2>1 DEF RxStopBit, RxBitOver
<1> QED
  BY <1>1, <1>3, <1>4, <1>5

\* The receiver goes through its frame clock by clock; with the last of them
\* it reports the byte.
LEMMA RxStep ==
  ASSUME txData \in Bytes, txData' = txData, rxByte \in Bytes, rxData \in BOOLEAN,
         NEW p \in Nat, RxIn(p, txData), FlopsAt(p, txData), NEW line, RxClock(line)
  PROVE  /\ rxByte' \in Bytes
         /\ \/ ~rxDv /\ RxIn(p + 1, txData)'
            \/ /\ p = LastClock /\ rxDv /\ rxByte = txData
               /\ rxState' = "s_IDLE" /\ ~rxDv'
<1>0. ClksPerBit \in Nat /\ ClksPerBit >= 2 /\ DataBits \in Nat /\ DataBits >= 1 /\ Half \in Nat
  BY Sizes
<1>e. Edge(0) = 0
  BY EdgeStep
<1>1. CASE p = 1 /\ rxState = "s_IDLE" /\ ~rxDv
  <2>1. RxIdle /\ ~rxData
    BY <1>1 DEF RxClock, RxStartBit, RxStartAt, RxDataBits, RxStopBit, RxCleanup, FlopsAt
  <2>2. rxState' = "s_START_BIT" /\ rxCount' = 0 /\ rxBit' = 0 /\ ~rxDv' /\ rxByte' = rxByte
    BY <2>1 DEF RxIdle
  <2>3. RxStart(p + 1)'
    BY <1>0, <1>1, <2>2 DEF RxStart, Half
  <2> QED
    BY <1>1, <2>2, <2>3 DEF RxIn
<1>2. CASE RxStart(p)
  <2>1. p = Half + 2 => ~rxData
    <3>1. p = Half + 2 => p = Edge(0) + Half + 2 /\ 0 \in 0 .. DataBits
      BY <1>0, <1>e
    <3>2. ~Level(txData, 0)
      BY <1>0 DEF Level
    <3> QED
      BY <3>1, <3>2 DEF FlopsAt
  <2>2. /\ rxByte' = rxByte /\ ~rxDv
        /\ p # Half + 2 => RxStart(p + 1)'
        /\ p = Half + 2 => RxBits(p + 1, txData, 0, 0)'
    BY <1>2, <2>1, RxStartStep
  <2>3. 0 \in 0 .. DataBits - 1 /\ 0 \in 0 .. ClksPerBit - 1
    BY <1>0
  <2> QED
    BY <2>2, <2>3 DEF RxIn
<1>3. CASE \E i \in 0 .. DataBits - 1, c \in 0 .. ClksPerBit - 1 : RxBits(p, txData, i, c)
  <2>1. PICK i \in 0 .. DataBits - 1, c \in 0 .. ClksPerBit - 1 : RxBits(p, txData, i, c)
    BY <1>3
  <2>2. /\ rxByte' \in Bytes /\ ~rxDv
        /\ c # ClksPerBit - 1 => RxBits(p + 1, txData, i, c + 1)'
        /\ c = ClksPerBit - 1 /\ i # DataBits - 1 => RxBits(p + 1, txData, i + 1, 0)'
        /\ c = ClksPerBit - 1 /\ i = DataBits - 1 => RxStop(p + 1, txData, 0)'
    BY <2>1, RxBitsStep
  <2>3. /\ c # ClksPerBit - 1 => c + 1 \in 0 .. ClksPerBit - 1
        /\ i # DataBits - 1 => i + 1 \in 0 .. DataBits - 1
        /\ 0 \in 0 .. ClksPerBit - 1
    BY <1>0
  <2> QED
    BY <2>2, <2>3 DEF RxIn
<1>4. CASE \E c \in 0 .. ClksPerBit - 1 : RxStop(p, txData, c)
  <2>1. PICK c \in 0 .. ClksPerBit - 1 : RxStop(p, txData, c)
    BY <1>4
  <2>2. /\ rxByte' = rxByte /\ ~rxDv
        /\ c # ClksPerBit - 1 => RxStop(p + 1, txData, c + 1)'
        /\ c = ClksPerBit - 1 => /\ p + 1 = LastClock
                                 /\ rxState' = "s_CLEANUP" /\ rxDv' /\ rxByte' = txData
    BY <2>1, RxStopStep
  <2>3. c # ClksPerBit - 1 => c + 1 \in 0 .. ClksPerBit - 1
    BY <1>0
  <2>4. CASE c # ClksPerBit - 1
    BY <2>2, <2>3, <2>4 DEF RxIn
  <2>5. CASE c = ClksPerBit - 1
    <3>1. (p + 1 = LastClock /\ rxState = "s_CLEANUP" /\ rxDv /\ rxByte = txData)'
      BY <2>2, <2>5 DEF LastClock, Edge, Half
    <3> QED
      BY <2>2, <3>1 DEF RxIn
  <2> QED
    BY <2>4, <2>5
<1>5. CASE p = LastClock /\ rxState = "s_CLEANUP" /\ rxDv /\ rxByte = txData
  <2>1. RxCleanup
    BY <1>5 DEF RxClock, RxIdle, RxStartBit, RxStartAt, RxDataBits, RxStopBit
  <2> QED
    BY <1>5, <2>1 DEF RxCleanup
<1> QED
  BY <1>1, <1>2, <1>3, <1>4, <1>5 DEF RxIn

\* After the step: what is left of a frame after its last bit but one clock.
LEMMA EndingNext ==
  ASSUME NEW p \in Nat, RxIn(p, txData)'
  PROVE  /\ p <= LastClock
         /\ \A q \in 1 .. 3 : p >= 1 /\ p + q = LastClock + 1 => Ending(q, txData)'
<1>0. ClksPerBit \in Nat /\ ClksPerBit >= 2 /\ DataBits \in Nat /\ DataBits >= 1 /\ Half \in Nat
  BY Sizes
<1>1. Edge(DataBits) \in Nat /\ LastClock = Edge(DataBits) + ClksPerBit + Half + 3
  BY <1>0, EdgeStep DEF LastClock
<1>2. Edge(0) + ClksPerBit <= Edge(DataBits) /\ Edge(0) = 0
  BY <1>0, EdgesApart, EdgeStep
<1>3. CASE p = 1 \/ RxStart(p)'
  BY <1>0, <1>1, <1>2, <1>3 DEF RxStart, Half
<1>5. CASE \E i \in 0 .. DataBits - 1, c \in 0 .. ClksPerBit - 1 : RxBits(p, txData, i, c)'
  <2>1. PICK i \in 0 .. DataBits - 1, c \in 0 .. ClksPerBit - 1 : RxBits(p, txData, i, c)'
    BY <1>5
  <2>2. i \in Nat /\ i < DataBits /\ p = Edge(i) + Half + 3 + c
    BY <1>0, <2>1 DEF RxBits, Edge, Half
  <2>3. Edge(i) + ClksPerBit <= Edge(DataBits) /\ Edge(i) \in Nat
    BY <1>0, <2>2, EdgesApart, EdgeStep
  <2> QED
    BY <1>0, <1>1, <2>2, <2>3
<1>6. CASE \E c \in 0 .. ClksPerBit - 1 : RxStop(p, txData, c)'
  <2>1. PICK c \in 0 .. ClksPerBit - 1 : RxStop(p, txData, c)'
    BY <1>6
  <2>2. /\ p = Edge(DataBits) + Half + 3 + c
        /\ rxState' = "s_STOP_BIT" /\ rxCount' = c /\ ~rxDv' /\ rxByte' = txData'
    BY <2>1 DEF RxStop, Edge, Half
  <2>3. ASSUME NEW q \in 1 .. 3, p + q = LastClock + 1
        PROVE  Ending(q, txData)'
    <3>1. c = ClksPerBit + 1 - q /\ q \in 2 .. 3
      BY <1>0, <1>1, <2>2, <2>3
    <3> QED
      BY <2>2, <3>1 DEF Ending
  <2> QED
    BY <1>0, <1>1, <2>2, <2>3
<1>7. CASE p = LastClock /\ rxState' = "s_CLEANUP" /\ rxDv' /\ rxByte' = txData'
  <2>1. \A q \in 1 .. 3 : p + q = LastClock + 1 => q = 1
    BY <1>0, <1>1, <1>7
  <2>2. Ending(1, txData)'
    BY <1>7 DEF Ending
  <2> QED
    BY <1>0, <1>1, <1>7, <2>1, <2>2
<1> QED
  BY <1>3, <1>5, <1>6, <1>7 DEF RxIn, LastClock, Edge, Half

\* A clock of the flops: what they take from the line is the bit that the
\* receiver wants to see, however far the clocks have drifted apart.
LEMMA FlopsStep ==
  ASSUME txData' = txData, ahead \in 0 .. MaxDrift, NEW t \in Nat, NEW p \in Nat,
         TxAt(t), Near(t, p), FlopsAt(p, txData), RxSync(serial)
  PROVE  FlopsAt(p + 1, txData)'
<1>0. /\ ClksPerBit \in Nat /\ DataBits \in Nat /\ Half \in Nat /\ MaxDrift \in Nat
      /\ Half + MaxDrift + 2 <= ClksPerBit /\ MaxDrift <= Half
  BY Sizes
<1>1. rxDataR' = serial /\ rxData' = rxDataR
  BY DEF RxSync
<1>2. p + 1 - MaxDrift <= t /\ t <= p + MaxDrift + 2
  BY <1>0 DEF Near
<1>3. p + 1 = 1 => ~rxData'
  BY <1>1 DEF FlopsAt
<1>4. \A j \in 0 .. DataBits : p + 1 = Edge(j) + Half + 1 => (rxDataR' <=> Level(txData, j))
  <2> SUFFICES ASSUME NEW j \in 0 .. DataBits, p + 1 = Edge(j) + Half + 1
               PROVE  serial <=> Level(txData, j)
    BY <1>1
  <2>0. j \in Nat /\ Edge(j) \in Nat
    BY <1>0, EdgeStep
  <2>1. Edge(j) + 1 <= t /\ t <= Edge(j) + ClksPerBit
    BY <1>0, <1>2, <2>0
  <2> QED
    BY <2>0, <2>1, LineShows
<1>5. \A j \in 0 .. DataBits : p + 1 = Edge(j) + Half + 2 => (rxData' <=> Level(txData, j))
  <2> SUFFICES ASSUME NEW j \in 0 .. DataBits, p + 1 = Edge(j) + Half + 2
               PROVE  rxDataR <=> Level(txData, j)
    BY <1>1
  <2>0. j \in Nat /\ Edge(j) \in Nat
    BY <1>0, EdgeStep
  <2>1. p = Edge(j) + Half + 1
    BY <1>0, <2>0
  <2> QED
    BY <2>1 DEF FlopsAt
<1>6. Edge(DataBits + 1) \in Nat
  BY <1>0, EdgeStep
<1>7. p + 1 > Edge(DataBits + 1) + Half => rxDataR'
  <2>1. p + 1 > Edge(DataBits + 1) + Half => t > Edge(DataBits + 1)
    BY <1>0, <1>2, <1>6
  <2> QED
    BY <1>1, <2>1, LineHigh
<1>8. p + 1 > Edge(DataBits + 1) + Half + 1 => rxData'
  BY <1>0, <1>1, <1>6 DEF FlopsAt
<1> QED
  BY <1>1, <1>3, <1>4, <1>5, <1>7, <1>8 DEF FlopsAt, Edge, Half

--------------------------------------------------------------------------------
(***************************************************************************)
(* The histories.                                                          *)
(***************************************************************************)
LEMMA FirstsKept ==
  ASSUME NEW s \in Seq(Bytes), NEW byte \in Bytes, NEW n \in 0 .. Len(s)
  PROVE  /\ Firsts(Append(s, byte), n) = Firsts(s, n)
         /\ Append(s, byte) \in Seq(Bytes)
         /\ Len(Append(s, byte)) = Len(s) + 1
         /\ Append(s, byte)[Len(s) + 1] = byte
         /\ \A i \in 1 .. Len(s) : Append(s, byte)[i] = s[i]
<1>1. /\ Append(s, byte) \in Seq(Bytes)
      /\ Len(Append(s, byte)) = Len(s) + 1
      /\ Append(s, byte)[Len(s) + 1] = byte
      /\ \A i \in 1 .. Len(s) : Append(s, byte)[i] = s[i]
  BY AppendProperties
<1>2. \A i \in 1 .. n : Append(s, byte)[i] = s[i]
  BY <1>1
<1> QED
  BY <1>1, <1>2 DEF Firsts

LEMMA FirstsNext ==
  ASSUME NEW s \in Seq(Bytes), NEW n \in 1 .. Len(s)
  PROVE  Append(Firsts(s, n - 1), s[n]) = Firsts(s, n)
<1>1. Firsts(s, n - 1) \in Seq(Bytes) /\ Len(Firsts(s, n - 1)) = n - 1 /\ s[n] \in Bytes
  BY DEF Firsts
<1>2. /\ Append(Firsts(s, n - 1), s[n]) \in Seq(Bytes)
      /\ Len(Append(Firsts(s, n - 1), s[n])) = n
      /\ Append(Firsts(s, n - 1), s[n])[n] = s[n]
      /\ \A i \in 1 .. n - 1 : Append(Firsts(s, n - 1), s[n])[i] = Firsts(s, n - 1)[i]
  BY <1>1, AppendProperties
<1>3. Firsts(s, n) \in Seq(Bytes) /\ Len(Firsts(s, n)) = n
  BY DEF Firsts
<1>4. \A i \in 1 .. n : Append(Firsts(s, n - 1), s[n])[i] = Firsts(s, n)[i]
  BY <1>2 DEF Firsts
<1> QED
  BY <1>2, <1>3, <1>4, SeqEqual

\* A byte given to the transmitter changes nothing of those before it.
SentStep == sent' = sent \/ \E byte \in Bytes : sent' = Append(sent, byte)

LEMMA SentKept ==
  ASSUME sent \in Seq(Bytes), SentStep, NEW n \in 0 .. Len(sent)
  PROVE  /\ sent' \in Seq(Bytes)
         /\ n \in 0 .. Len(sent')
         /\ Firsts(sent', n) = Firsts(sent, n)
         /\ n # 0 => sent'[n] = sent[n]
<1>1. CASE sent' = sent
  BY <1>1
<1>2. CASE \E byte \in Bytes : sent' = Append(sent, byte)
  <2>1. PICK byte \in Bytes : sent' = Append(sent, byte)
    BY <1>2
  <2>2. /\ Firsts(sent', n) = Firsts(sent, n)
        /\ sent' \in Seq(Bytes)
        /\ Len(sent') = Len(sent) + 1
        /\ \A i \in 1 .. Len(sent) : sent'[i] = sent[i]
    BY <2>1, FirstsKept
  <2> QED
    BY <2>2
<1> QED
  BY <1>1, <1>2 DEF SentStep

LEMMA GotKept ==
  ASSUME sent \in Seq(Bytes), SentStep, received' = received, NEW n, Got(n)
  PROVE  Got(n)'
<1>1. n \in 0 .. Len(sent') /\ Firsts(sent', n) = Firsts(sent, n)
  BY SentKept DEF Got
<1> QED
  BY <1>1 DEF Got, Firsts

\* The receiver reports the next byte.
LEMMA GotMore ==
  ASSUME sent \in Seq(Bytes), SentStep, NEW n \in 1 .. Len(sent), Got(n - 1),
         rxByte = sent[n], received' = Append(received, rxByte)
  PROVE  Got(n)'
<1>1. n \in 0 .. Len(sent') /\ Firsts(sent', n) = Firsts(sent, n)
  BY SentKept
<1>2. received' = Firsts(sent, n)
  BY FirstsNext DEF Got
<1> QED
  BY <1>1, <1>2 DEF Got, Firsts

--------------------------------------------------------------------------------
\* The receiver comes to the end of a frame it has seen all data bits of, and
\* waits for the line to fall.
LEMMA BehindStep ==
  ASSUME sent \in Seq(Bytes), SentStep, NEW q \in 0 .. 3, NEW n, Behind(q, n),
         q = 0 => rxData, Receive
  PROVE  /\ rxByte' = rxByte
         /\ Behind(IF q = 0 THEN 0 ELSE q - 1, n)'
<1>0. ClksPerBit \in Nat /\ ClksPerBit >= 2
  BY Sizes
<1>r. RxClock(serial) /\ (~rxDv => received' = received)
      /\ (rxDv => received' = Append(received, rxByte))
  BY DEF Receive
<1>1. CASE q = 0 /\ rxState = "s_IDLE" /\ ~rxDv /\ Got(n)
  <2>1. RxIdle
    BY <1>1, <1>r DEF RxClock, RxStartBit, RxStartAt, RxDataBits, RxStopBit, RxCleanup
  <2>2. rxState' = "s_IDLE" /\ ~rxDv' /\ rxByte' = rxByte
    BY <1>1, <2>1 DEF RxIdle
  <2>3. Got(n)'
    BY <1>1, <1>r, GotKept
  <2> QED
    BY <1>1, <2>2, <2>3 DEF Behind
<1>2. CASE q \in 1 .. 3 /\ n \in 1 .. Len(sent) /\ Ending(q, sent[n]) /\ Got(n - 1)
  <2>0. sent'[n] = sent[n] /\ n \in 1 .. Len(sent') /\ rxByte = sent[n]
    BY <1>2, SentKept DEF Ending
  <2>1. CASE q = 1
    <3>1. rxState = "s_CLEANUP" /\ rxDv
      BY <1>2, <2>1 DEF Ending
    <3>2. RxCleanup
      BY <3>1, <1>r DEF RxClock, RxIdle, RxStartBit, RxStartAt, RxDataBits, RxStopBit
    <3>3. rxState' = "s_IDLE" /\ ~rxDv' /\ rxByte' = rxByte
      BY <3>2 DEF RxCleanup
    <3>4. Got(n)'
      BY <1>2, <1>r, <2>0, <3>1, GotMore
    <3> QED
      BY <2>1, <3>3, <3>4 DEF Behind
  <2>2. CASE q \in 2 .. 3
    <3>1. rxState = "s_STOP_BIT" /\ rxCount = ClksPerBit + 1 - q /\ ~rxDv
      BY <1>2, <2>2 DEF Ending
    <3>2. RxStopBit
      BY <3>1, <1>r DEF RxClock, RxIdle, RxStartBit, RxStartAt, RxDataBits, RxCleanup
    <3>3. Got(n - 1)'
      BY <1>2, <1>r, <3>1, GotKept
    <3>4. rxByte' = rxByte
      BY <3>2 DEF RxStopBit
    <3>5. CASE q = 2
      <4>0. RxBitOver
        BY <1>0, <3>1, <3>5 DEF RxBitOver
      <4>1. rxState' = "s_CLEANUP" /\ rxDv'
        BY <3>2, <4>0 DEF RxStopBit
      <4>2. Ending(1, sent[n])'
        BY <2>0, <3>4, <4>1 DEF Ending
      <4> QED
        BY <2>0, <3>3, <3>4, <3>5, <4>2 DEF Behind
    <3>6. CASE q = 3
      <4>0. ~RxBitOver /\ rxCount + 1 = ClksPerBit + 1 - 2
        BY <1>0, <3>1, <3>6 DEF RxBitOver
      <4>1. rxState' = "s_STOP_BIT" /\ rxCount' = ClksPerBit + 1 - 2 /\ ~rxDv'
        BY <3>1, <3>2, <4>0 DEF RxStopBit, RxTiming
      <4>2. Ending(2, sent[n])'
        BY <2>0, <3>4, <4>1 DEF Ending
      <4> QED
        BY <2>0, <3>3, <3>4, <3>6, <4>2 DEF Behind
    <3> QED
      BY <2>2, <3>5, <3>6
  <2> QED
    BY <1>2, <2>1, <2>2
<1> QED
  BY <1>1, <1>2 DEF Behind

LEMMA BehindKept ==
  ASSUME sent \in Seq(Bytes), sent' = sent, NEW q, NEW n, Behind(q, n),
         UNCHANGED <<rxVars, received>>
  PROVE  Behind(q, n)'
<1>1. SentStep
  BY DEF SentStep
<1>2. \A k : Got(k) => Got(k)'
  BY <1>1, GotKept
<1>3. rxByte' = rxByte /\ rxState' = rxState /\ rxCount' = rxCount /\ (rxDv <=> rxDv')
  BY DEF rxVars
<1>4. CASE q = 0 /\ rxState = "s_IDLE" /\ ~rxDv /\ Got(n)
  BY <1>2, <1>3, <1>4 DEF Behind
<1>5. CASE q \in 1 .. 3 /\ n \in 1 .. Len(sent) /\ Ending(q, sent[n]) /\ Got(n - 1)
  <2>1. Ending(q, sent[n])'
    BY <1>3, <1>5 DEF Ending
  <2>2. Got(n - 1)'
    BY <1>2, <1>5
  <2> QED
    BY <1>5, <2>1, <2>2 DEF Behind
<1> QED
  BY <1>4, <1>5 DEF Behind

--------------------------------------------------------------------------------
(***************************************************************************)
(* A step in a frame: the transmitter goes mt clocks and the receiver mr.  *)
(***************************************************************************)
FrameMove(t, mt, mr) ==
  /\ TxAt(t + mt)' \/ (mt = 1 /\ t = FrameEnd /\ txState' = "s_IDLE" /\ serial')
  /\ txData' = txData /\ serial' \in BOOLEAN
  /\ sent' = sent
  /\ ahead' = ahead + mt - mr /\ ahead' \in 0 .. MaxDrift
  /\ mr = 0 => mt = 1 /\ UNCHANGED <<rxVars, received>>
  /\ mr = 1 => Receive

LEMMA FrameStep ==
  ASSUME LinkType, NEW t \in Nat, TxAt(t), LinkNext
  PROVE  \E mt \in 0 .. 1, mr \in 0 .. 1 : FrameMove(t, mt, mr)
<1>0. ahead \in 0 .. MaxDrift /\ MaxDrift \in Nat /\ txData \in Bytes /\ serial \in BOOLEAN
  BY Sizes DEF LinkType
<1>1. txState # "s_IDLE"
  <2>1. PICK s \in 0 .. DataBits + 2, c \in 0 .. ClksPerBit - 1 : TxPlace(s, c)
    BY DEF TxAt
  <2>2. s = 0 \/ s \in 1 .. DataBits \/ s = DataBits + 1 \/ s = DataBits + 2
    BY Sizes
  <2> QED
    BY <2>1, <2>2 DEF TxPlace
<1>2. ASSUME NEW drift, Transmit(drift)
      PROVE  /\ TxAt(t + 1)' \/ (t = FrameEnd /\ txState' = "s_IDLE" /\ serial')
             /\ txData' = txData /\ serial' \in BOOLEAN
             /\ sent' = sent /\ ahead' = drift
  <2>1. PICK dv \in BOOLEAN, byte \in Bytes :
          /\ dv => txState = "s_IDLE"
          /\ TxClock(dv, byte)
          /\ sent' = IF dv THEN Append(sent, byte) ELSE sent
          /\ ahead' \in IF dv THEN 0 .. MaxDrift ELSE {drift}
    BY <1>2 DEF Transmit
  <2>2. sent' = sent /\ ahead' = drift
    BY <1>1, <2>1
  <2> QED
    BY <1>0, <2>1, <2>2, TxStep
<1>3. CASE Both
  <2>1. FrameMove(t, 1, 1)
    BY <1>0, <1>2, <1>3 DEF Both, FrameMove
  <2> QED
    BY <2>1
<1>4. CASE TransmitterGains
  <2>1. FrameMove(t, 1, 0)
    BY <1>0, <1>2, <1>4 DEF TransmitterGains, FrameMove
  <2> QED
    BY <2>1
<1>5. CASE ReceiverGains
  <2>0. txState' = txState /\ txCount' = txCount /\ txBit' = txBit /\ txData' = txData
        /\ serial' = serial
    BY <1>5 DEF ReceiverGains, txVars
  <2>1. TxAt(t + 0)'
    BY <2>0 DEF TxAt, TxPlace, Shown, Level, Edge
  <2>2. FrameMove(t, 0, 1)
    BY <1>0, <1>5, <2>0, <2>1 DEF ReceiverGains, FrameMove
  <2> QED
    BY <2>2
<1> QED
  BY <1>3, <1>4, <1>5 DEF LinkNext

LEMMA FlopsType ==
  ASSUME LinkType, NEW t, NEW mt \in 0 .. 1, NEW mr \in 0 .. 1, FrameMove(t, mt, mr)
  PROVE  rxDataR' \in BOOLEAN /\ rxData' \in BOOLEAN
<1>1. CASE mr = 0
  BY <1>1 DEF FrameMove, rxVars, LinkType
<1>2. CASE mr = 1
  BY <1>2 DEF FrameMove, Receive, RxClock, RxSync, LinkType
<1> QED
  BY <1>1, <1>2

\* What comes of the last bytes, in a step of a frame that the line is not low in for them.
LEMMA BehindMove ==
  ASSUME LinkType, NEW t, NEW mt \in 0 .. 1, NEW mr \in 0 .. 1, FrameMove(t, mt, mr),
         NEW q \in 0 .. 3, NEW n, Behind(q, n), rxData
  PROVE  rxByte' \in Bytes /\ Behind(IF mr = 0 \/ q = 0 THEN q ELSE q - 1, n)'
<1>0. SentStep /\ sent \in Seq(Bytes) /\ sent' = sent /\ rxByte \in Bytes
  BY DEF FrameMove, SentStep, LinkType
<1>1. CASE mr = 0
  <2>1. UNCHANGED <<rxVars, received>>
    BY <1>1 DEF FrameMove
  <2>2. Behind(q, n)'
    BY <1>0, <2>1, BehindKept
  <2> QED
    BY <1>0, <1>1, <2>1, <2>2 DEF rxVars
<1>2. CASE mr = 1
  <2>1. Receive
    BY <1>2 DEF FrameMove
  <2>2. rxByte' = rxByte /\ Behind(IF q = 0 THEN 0 ELSE q - 1, n)'
    BY <1>0, <2>1, BehindStep
  <2> QED
    BY <1>0, <1>2, <2>2
<1> QED
  BY <1>1, <1>2

--------------------------------------------------------------------------------
\* A frame has begun.
LEMMA StartingStep ==
  ASSUME LinkType, NEW t \in Nat, NEW n \in Nat, Starting(t, n),
         NEW mt \in 0 .. 1, NEW mr \in 0 .. 1, FrameMove(t, mt, mr)
  PROVE  rxByte' \in Bytes /\ LinkPhase'
<1>0. /\ ClksPerBit \in Nat /\ DataBits \in Nat /\ Half \in Nat /\ MaxDrift \in Nat
      /\ Half + MaxDrift + 2 <= ClksPerBit
      /\ ahead \in 0 .. MaxDrift
      /\ ahead' = ahead + mt - mr /\ ahead' \in 0 .. MaxDrift
  BY Sizes DEF LinkType, FrameMove
<1>1. TxAt(t) /\ rxDataR /\ rxData /\ (t = 0 \/ (t <= ahead + 1 /\ ahead <= t + MaxDrift))
  BY DEF Starting, High
<1>2. Edge(0) = 0 /\ DataBits + 2 \in Nat /\ 0 < DataBits + 2
  BY <1>0, EdgeStep
<1>3. ClksPerBit <= FrameEnd
  BY <1>0, <1>2, EdgesApart, EdgeStep DEF FrameEnd
<1>4. TxAt(t + mt)' /\ t + mt \in Nat
  BY <1>0, <1>1, <1>3 DEF FrameMove
<1>5. Sending(n)'
  BY DEF Starting, Sending, FrameMove
<1>6. PICK q \in 0 .. 2 : Behind(q, n)
  BY DEF Starting
<1>7. PICK r \in 0 .. 2 : r = IF mr = 0 \/ q = 0 THEN q ELSE q - 1
  OBVIOUS
<1>8. rxByte' \in Bytes /\ Behind(r, n)'
  BY <1>1, <1>6, <1>7, BehindMove
<1>9. CASE mr = 0
  <2>1. High' /\ mt = 1
    BY <1>1, <1>9 DEF High, FrameMove, rxVars
  <2>2. t + 1 <= ahead' + 1 /\ ahead' <= t + 1 + MaxDrift
    BY <1>0, <1>1, <1>9, <2>1
  <2>3. Starting(t + mt, n)'
    BY <1>4, <1>5, <1>8, <2>1, <2>2 DEF Starting
  <2> QED
    BY <1>4, <1>8, <2>3 DEF LinkPhase
<1>10. CASE mr = 1
  <2>1. rxDataR' = serial /\ rxData' = rxDataR
    BY <1>10 DEF FrameMove, Receive, RxClock, RxSync
  <2>2. CASE t = 0
    <3>1. High'
      BY <1>1, <2>1, <2>2, LineHigh DEF High
    <3>2. t + mt = 0 \/ (t + mt <= ahead' + 1 /\ ahead' <= t + mt + MaxDrift)
      BY <1>0, <1>10, <2>2
    <3>3. Starting(t + mt, n)'
      BY <1>4, <1>5, <1>8, <3>1, <3>2 DEF Starting
    <3> QED
      BY <1>4, <1>8, <3>3 DEF LinkPhase
  <2>3. CASE t # 0
    <3>1. ~serial
      <4>1. Edge(0) + 1 <= t /\ t <= Edge(0) + ClksPerBit
        BY <1>0, <1>1, <1>2, <2>3
      <4>2. ~Level(txData, 0)
        BY <1>0 DEF Level
      <4> QED
        BY <1>1, <4>1, <4>2, LineShows
    <3>2. ~rxDataR' /\ rxData'
      BY <1>1, <2>1, <3>1
    <3>3. \A j \in 0 .. DataBits + 1 : Edge(j) \in Nat
      BY <1>0, EdgeStep
    <3>4. FlopsAt(0, txData)'
      BY <1>0, <3>2, <3>3 DEF FlopsAt, Edge, Half
    <3>5. Near(t + mt, 0)'
      BY <1>0, <1>1, <1>10, <2>3 DEF Near
    <3>6. r \in 0 .. 1
      BY <1>7, <1>10
    <3>7. InFrame(t + mt, 0, n)'
      BY <1>4, <1>5, <1>8, <3>4, <3>5, <3>6 DEF InFrame
    <3> QED
      BY <1>4, <1>8, <3>7 DEF LinkPhase
  <2> QED
    BY <2>2, <2>3
<1> QED
  BY <1>9, <1>10

--------------------------------------------------------------------------------
\* The receiver in a step of a frame it has seen the start of: it goes on, or has
\* reported the byte.
LEMMA ReceiverMove ==
  ASSUME LinkType, NEW t \in Nat, NEW p \in Nat, NEW n \in Nat, InFrame(t, p, n),
         NEW mt \in 0 .. 1, NEW mr \in 0 .. 1, FrameMove(t, mt, mr)
  PROVE  /\ rxByte' \in Bytes
         /\ FlopsAt(p + mr, txData)'
         /\ \/ p + mr = 0 /\ \E q \in 0 .. 1 : Behind(q, n)'
            \/ p + mr >= 1 /\ RxIn(p + mr, txData)' /\ Got(n)'
            \/ p + mr = LastClock + 1 /\ Behind(0, n + 1)'
<1>0. /\ SentStep /\ sent \in Seq(Bytes) /\ sent' = sent /\ rxByte \in Bytes
      /\ txData \in Bytes /\ txData' = txData /\ rxData \in BOOLEAN
      /\ ahead \in 0 .. MaxDrift
  BY DEF FrameMove, SentStep, LinkType
<1>1. TxAt(t) /\ Near(t, p) /\ FlopsAt(p, txData) /\ Sending(n)
  BY DEF InFrame
<1>2. CASE mr = 0
  <2>0. p + mr = p
    BY <1>2
  <2>1. /\ rxState' = rxState /\ rxCount' = rxCount /\ rxBit' = rxBit /\ rxByte' = rxByte
        /\ rxDv' = rxDv /\ rxDataR' = rxDataR /\ rxData' = rxData /\ received' = received
    BY <1>2 DEF FrameMove, rxVars
  <2>2. FlopsAt(p, txData)'
    BY <1>0, <1>1, <2>1 DEF FlopsAt, Level, Edge, Half
  <2>3. CASE p = 0 /\ \E q \in 0 .. 1 : Behind(q, n)
    <3>1. PICK q \in 0 .. 1 : Behind(q, n)
      BY <2>3
    <3>2. Behind(q, n)'
      BY <1>0, <2>1, <3>1, BehindKept DEF rxVars
    <3> QED
      BY <1>0, <2>0, <2>1, <2>2, <2>3, <3>2
  <2>4. CASE p >= 1 /\ RxIn(p, txData) /\ Got(n)
    <3>1. RxIn(p, txData)'
      BY <1>0, <2>1, <2>4 DEF RxIn, RxStart, RxBits, RxStop, LastClock, Edge, Half
    <3>2. Got(n)'
      BY <1>0, <2>1, <2>4, GotKept
    <3> QED
      BY <1>0, <2>0, <2>1, <2>2, <2>4, <3>1, <3>2
  <2> QED
    BY <2>3, <2>4 DEF InFrame
<1>3. CASE mr = 1
  <2>0. p + mr = p + 1
    BY <1>3
  <2>1. Receive
    BY <1>3 DEF FrameMove
  <2>2. /\ RxClock(serial) /\ RxSync(serial)
        /\ rxDv => received' = Append(received, rxByte)
        /\ ~rxDv => received' = received
    BY <2>1 DEF Receive, RxClock
  <2>3. FlopsAt(p + 1, txData)'
    BY <1>0, <1>1, <2>2, FlopsStep
  <2>4. CASE p = 0 /\ \E q \in 0 .. 1 : Behind(q, n)
    <3>1. PICK q \in 0 .. 1 : Behind(q, n)
      BY <2>4
    <3>2. rxData
      BY <1>1, <2>4 DEF FlopsAt
    <3>3. rxByte' = rxByte /\ Behind(IF q = 0 THEN 0 ELSE q - 1, n)'
      BY <1>0, <2>1, <3>1, <3>2, BehindStep
    <3>4. (IF q = 0 THEN 0 ELSE q - 1) = 0
      OBVIOUS
    <3>5. rxState' = "s_IDLE" /\ ~rxDv' /\ Got(n)'
      BY <3>3, <3>4 DEF Behind
    <3>6. RxIn(p + 1, txData)'
      BY <2>4, <3>5 DEF RxIn
    <3> QED
      BY <1>0, <2>0, <2>3, <3>3, <3>5, <3>6
  <2>5. CASE p >= 1 /\ RxIn(p, txData) /\ Got(n)
    <3>1. /\ rxByte' \in Bytes
          /\ \/ ~rxDv /\ RxIn(p + 1, txData)'
             \/ /\ p = LastClock /\ rxDv /\ rxByte = txData
                /\ rxState' = "s_IDLE" /\ ~rxDv'
      BY <1>0, <1>1, <2>2, <2>5, RxStep
    <3>2. CASE ~rxDv /\ RxIn(p + 1, txData)'
      <4>1. Got(n)'
        BY <1>0, <2>2, <2>5, <3>2, GotKept
      <4> QED
        BY <2>0, <2>3, <3>1, <3>2, <4>1
    <3>3. CASE p = LastClock /\ rxDv /\ rxByte = txData /\ rxState' = "s_IDLE" /\ ~rxDv'
      <4>1. n + 1 \in 1 .. Len(sent) /\ n + 1 - 1 = n /\ rxByte = sent[n + 1]
        BY <1>1, <3>3 DEF Sending
      <4>2. Got(n + 1)'
        BY <1>0, <2>2, <2>5, <3>3, <4>1, GotMore
      <4>3. Behind(0, n + 1)'
        BY <3>3, <4>2 DEF Behind
      <4> QED
        BY <2>0, <2>3, <3>1, <3>3, <4>3
    <3> QED
      BY <3>1, <3>2, <3>3
  <2> QED
    BY <2>4, <2>5 DEF InFrame
<1> QED
  BY <1>2, <1>3

\* Both are in the frame.
LEMMA InFrameStep ==
  ASSUME LinkType, NEW t \in Nat, NEW p \in Nat, NEW n \in Nat, InFrame(t, p, n),
         NEW mt \in 0 .. 1, NEW mr \in 0 .. 1, FrameMove(t, mt, mr)
  PROVE  rxByte' \in Bytes /\ LinkPhase'
<1>0. /\ ClksPerBit \in Nat /\ DataBits \in Nat /\ Half \in Nat /\ MaxDrift \in Nat
      /\ Half + MaxDrift + 2 <= ClksPerBit /\ MaxDrift <= Half
      /\ ahead \in 0 .. MaxDrift
      /\ ahead' = ahead + mt - mr /\ ahead' \in 0 .. MaxDrift
  BY Sizes DEF LinkType, FrameMove
<1>1. PICK u \in Nat : u = t + mt
  OBVIOUS
<1>2. PICK r \in Nat : r = p + mr
  OBVIOUS
<1>3. /\ rxByte' \in Bytes
      /\ FlopsAt(r, txData)'
      /\ \/ r = 0 /\ \E q \in 0 .. 1 : Behind(q, n)'
         \/ r >= 1 /\ RxIn(r, txData)' /\ Got(n)'
         \/ r = LastClock + 1 /\ Behind(0, n + 1)'
  BY <1>2, ReceiverMove
<1>4. u >= 1 /\ u <= r + ahead' + 2 /\ r + ahead' + 1 <= u + MaxDrift
  BY <1>0, <1>1, <1>2 DEF InFrame, Near
<1>5. Sending(n)' /\ Len(sent') = n + 1
  BY DEF InFrame, Sending, FrameMove
<1>6. TxAt(u)' \/ (u = FrameEnd + 1 /\ txState' = "s_IDLE" /\ serial')
  BY <1>1 DEF FrameMove
<1>7. /\ Edge(DataBits + 1) \in Nat
      /\ FrameEnd = Edge(DataBits + 1) + ClksPerBit
      /\ LastClock = Edge(DataBits + 1) + Half + 3
  BY <1>0, EdgeStep DEF FrameEnd, LastClock
<1>8. /\ r > Edge(DataBits + 1) + Half => rxDataR'
      /\ r > Edge(DataBits + 1) + Half + 1 => rxData'
  BY <1>3 DEF FlopsAt, Edge, Half
<1>9. CASE TxAt(u)'
  <2>1. CASE r = LastClock + 1 /\ Behind(0, n + 1)'
    <3>1. High' /\ u > Edge(DataBits + 1)
      BY <1>0, <1>4, <1>7, <1>8, <2>1 DEF High
    <3>2. Behind(0, Len(sent))'
      BY <1>5, <2>1
    <3>3. Reported(u)'
      BY <1>9, <3>1, <3>2 DEF Reported, Edge
    <3> QED
      BY <1>3, <3>3 DEF LinkPhase
  <2>2. CASE ~(r = LastClock + 1 /\ Behind(0, n + 1)')
    <3>1. Near(u, r)'
      BY <1>4 DEF Near
    <3>2. InFrame(u, r, n)'
      BY <1>3, <1>5, <1>9, <2>2, <3>1 DEF InFrame
    <3> QED
      BY <1>3, <3>2 DEF LinkPhase
  <2> QED
    BY <2>1, <2>2
<1>10. CASE u = FrameEnd + 1 /\ txState' = "s_IDLE" /\ serial'
  <2>1. r > Edge(DataBits + 1) + Half
    BY <1>0, <1>4, <1>7, <1>10
  <2>2. CASE r = LastClock + 1 /\ Behind(0, n + 1)'
    <3>1. rxData' /\ Behind(0, Len(sent))'
      BY <1>0, <1>5, <1>7, <1>8, <2>2
    <3>2. LineIdle'
      BY <1>8, <1>10, <2>1, <3>1 DEF LineIdle
    <3> QED
      BY <1>3, <3>2 DEF LinkPhase
  <2>3. CASE RxIn(r, txData)' /\ Got(n)'
    <3>1. r <= LastClock
      BY <2>3, EndingNext
    <3>2. PICK q \in 1 .. 3 : r + q = LastClock + 1
      <4>1. LastClock + 1 - r \in 1 .. 3 /\ r + (LastClock + 1 - r) = LastClock + 1
        BY <1>0, <1>7, <2>1, <3>1
      <4> QED
        BY <4>1
    <3>3. Ending(q, txData)'
      BY <1>0, <2>1, <2>3, <3>2, <1>7, EndingNext
    <3>4. txData' = sent'[n + 1] /\ n + 1 \in 1 .. Len(sent') /\ n + 1 - 1 = n
      BY <1>5 DEF Sending
    <3>5. Behind(q, n + 1)'
      BY <2>3, <3>3, <3>4 DEF Behind, Ending
    <3>6. q < 3 => rxData'
      BY <1>0, <1>7, <1>8, <3>2
    <3>7. LineIdle'
      BY <1>5, <1>8, <1>10, <2>1, <3>5, <3>6 DEF LineIdle
    <3> QED
      BY <1>3, <3>7 DEF LinkPhase
  <2>4. r # 0
    BY <1>0, <1>7, <2>1
  <2> QED
    BY <1>3, <2>2, <2>3, <2>4
<1> QED
  BY <1>6, <1>9, <1>10

\* The receiver has reported the byte and waits for the next.
LEMMA ReportedStep ==
  ASSUME LinkType, NEW t \in Nat, Reported(t),
         NEW mt \in 0 .. 1, NEW mr \in 0 .. 1, FrameMove(t, mt, mr)
  PROVE  rxByte' \in Bytes /\ LinkPhase'
<1>1. TxAt(t) /\ t > Edge(DataBits + 1) /\ rxDataR /\ rxData /\ Behind(0, Len(sent))
  BY DEF Reported, High
<1>2. serial
  BY <1>1, LineHigh
<1>3. High'
  <2>1. CASE mr = 0
    BY <1>1, <2>1 DEF FrameMove, rxVars, High
  <2>2. CASE mr = 1
    <3>1. rxDataR' = serial /\ rxData' = rxDataR
      BY <2>2 DEF FrameMove, Receive, RxClock, RxSync
    <3> QED
      BY <1>1, <1>2, <3>1 DEF High
  <2> QED
    BY <2>1, <2>2
<1>4. PICK n \in Nat : n = Len(sent)
  BY DEF LinkType
<1>5. PICK q \in 0 .. 3 : q = 0
  OBVIOUS
<1>6. rxByte' \in Bytes /\ Behind(0, n)'
  <2>1. Behind(q, n)
    BY <1>1, <1>4, <1>5
  <2>2. rxByte' \in Bytes /\ Behind(IF mr = 0 \/ q = 0 THEN q ELSE q - 1, n)'
    BY <1>1, <2>1, BehindMove
  <2> QED
    BY <1>5, <2>2
<1>7. Len(sent') = n
  BY <1>4 DEF FrameMove
<1>8. CASE TxAt(t + mt)'
  <2>1. t + mt > Edge(DataBits + 1) /\ t + mt \in Nat
    <3>1. Edge(DataBits + 1) \in Nat
      BY Sizes, EdgeStep
    <3> QED
      BY <1>1, <3>1
  <2>2. Reported(t + mt)'
    BY <1>3, <1>6, <1>7, <1>8, <2>1 DEF Reported, Edge
  <2> QED
    BY <1>6, <2>1, <2>2 DEF LinkPhase
<1>9. CASE txState' = "s_IDLE" /\ serial'
  <2>1. LineIdle'
    BY <1>3, <1>6, <1>7, <1>9 DEF LineIdle, High
  <2> QED
    BY <1>6, <2>1 DEF LinkPhase
<1> QED
  BY <1>8, <1>9 DEF FrameMove

\* The line is idle; the next frame may begin.
LEMMA LineIdleStep ==
  ASSUME LinkType, LineIdle, LinkNext
  PROVE  LinkType' /\ LinkPhase'
<1>1. txState = "s_IDLE" /\ serial /\ rxDataR
  BY DEF LineIdle
<1>2. Transmit(ahead) /\ Receive
  BY <1>1 DEF LinkNext, Both, TransmitterGains, ReceiverGains
<1>3. PICK dv \in BOOLEAN, byte \in Bytes :
        /\ TxClock(dv, byte)
        /\ sent' = IF dv THEN Append(sent, byte) ELSE sent
        /\ ahead' \in IF dv THEN 0 .. MaxDrift ELSE {ahead}
  BY <1>2 DEF Transmit
<1>4. TxIdle(dv, byte)
  BY <1>1, <1>3 DEF TxClock, TxStartBit, TxDataBits, TxStopBit, TxCleanup
<1>5. /\ serial' = TRUE
      /\ ~dv => txState' = txState /\ txData' = txData
  BY <1>4 DEF TxIdle
<1>6. rxDataR' = serial /\ rxData' = rxDataR
  BY <1>2 DEF Receive, RxClock, RxSync
<1>7. PICK n \in Nat : n = Len(sent)
  BY DEF LinkType
<1>8. PICK q \in 0 .. 3 : Behind(q, n) /\ (q < 3 => rxData)
  BY <1>7 DEF LineIdle
<1>9. PICK r \in 0 .. 2 : r = IF q = 0 THEN 0 ELSE q - 1
  OBVIOUS
<1>10. SentStep
  BY <1>3 DEF SentStep
<1>11. rxByte' = rxByte /\ Behind(r, n)'
  BY <1>2, <1>8, <1>9, <1>10, BehindStep DEF LinkType
<1>12. High'
  BY <1>1, <1>6 DEF High
<1>13. ahead' \in 0 .. MaxDrift
  BY <1>3, Sizes DEF LinkType
<1>14. /\ dv => /\ sent' \in Seq(Bytes) /\ Len(sent') = n + 1 /\ sent'[n + 1] = byte
       /\ ~dv => sent' = sent
  BY <1>3, <1>7, FirstsKept DEF LinkType
<1>15. CASE dv
  <2>1. TxAt(0)' /\ txData' = byte
    BY <1>4, <1>15, TxBegins
  <2>2. LinkType'
    BY <1>1, <1>5, <1>6, <1>11, <1>13, <1>14, <1>15, <2>1 DEF LinkType
  <2>3. Sending(n)'
    BY <1>14, <1>15, <2>1 DEF Sending
  <2>4. Starting(0, n)'
    BY <1>11, <1>12, <2>1, <2>3 DEF Starting
  <2> QED
    BY <2>2, <2>4 DEF LinkPhase
<1>16. CASE ~dv
  <2>1. LinkType'
    BY <1>1, <1>5, <1>6, <1>11, <1>13, <1>14, <1>16 DEF LinkType
  <2>2. LineIdle'
    BY <1>1, <1>5, <1>7, <1>11, <1>12, <1>14, <1>16 DEF LineIdle, High
  <2> QED
    BY <2>1, <2>2 DEF LinkPhase
<1> QED
  BY <1>15, <1>16

--------------------------------------------------------------------------------
LEMMA LinkStep ==
  ASSUME LinkInv, LinkNext
  PROVE  LinkInv'
<1>1. LinkType
  BY DEF LinkInv
<1>2. ASSUME NEW t \in Nat, NEW mt \in 0 .. 1, NEW mr \in 0 .. 1, FrameMove(t, mt, mr),
             rxByte' \in Bytes
      PROVE  LinkType'
  BY <1>1, <1>2, FlopsType DEF LinkType, FrameMove
<1>3. CASE LineIdle
  BY <1>1, <1>3, LineIdleStep DEF LinkInv
<1>4. CASE \E t, n \in Nat : Starting(t, n)
  <2>1. PICK t \in Nat, n \in Nat : Starting(t, n)
    BY <1>4
  <2>2. PICK mt \in 0 .. 1, mr \in 0 .. 1 : FrameMove(t, mt, mr)
    BY <1>1, <2>1, FrameStep DEF Starting
  <2>3. rxByte' \in Bytes /\ LinkPhase'
    BY <1>1, <2>1, <2>2, StartingStep
  <2> QED
    BY <1>2, <2>2, <2>3 DEF LinkInv
<1>5. CASE \E t, p, n \in Nat : InFrame(t, p, n)
  <2>1. PICK t \in Nat, p \in Nat, n \in Nat : InFrame(t, p, n)
    BY <1>5
  <2>2. PICK mt \in 0 .. 1, mr \in 0 .. 1 : FrameMove(t, mt, mr)
    BY <1>1, <2>1, FrameStep DEF InFrame
  <2>3. rxByte' \in Bytes /\ LinkPhase'
    BY <1>1, <2>1, <2>2, InFrameStep
  <2> QED
    BY <1>2, <2>2, <2>3 DEF LinkInv
<1>6. CASE \E t \in Nat : Reported(t)
  <2>1. PICK t \in Nat : Reported(t)
    BY <1>6
  <2>2. PICK mt \in 0 .. 1, mr \in 0 .. 1 : FrameMove(t, mt, mr)
    BY <1>1, <2>1, FrameStep DEF Reported
  <2>3. rxByte' \in Bytes /\ LinkPhase'
    BY <1>1, <2>1, <2>2, ReportedStep
  <2> QED
    BY <1>2, <2>2, <2>3 DEF LinkInv
<1> QED
  BY <1>3, <1>4, <1>5, <1>6 DEF LinkInv, LinkPhase

LEMMA LinkStart ==
  ASSUME LinkInit
  PROVE  LinkInv
<1>1. LinkType
  BY Sizes DEF LinkInit, TxInit, RxInit, LinkType, Bytes, ZeroByte
<1>2. Got(0)
  BY DEF LinkInit, Got, Firsts
<1>3. Behind(0, Len(sent))
  BY <1>2 DEF LinkInit, RxInit, Behind
<1>4. LineIdle
  BY <1>3 DEF LinkInit, TxInit, RxInit, LineIdle
<1> QED
  BY <1>1, <1>4 DEF LinkInv, LinkPhase

\* uart_tx and uart_rx at their places in the frame, in every clock of either.
THEOREM LinkInvAlways == LinkSpec => []LinkInv
<1>1. LinkInit => LinkInv
  BY LinkStart
<1>2. LinkInv /\ [LinkNext]_linkVars => LinkInv'
  <2>1. ASSUME LinkInv, UNCHANGED linkVars
        PROVE  LinkInv'
    BY <2>1 DEF linkVars, txVars, rxVars, LinkInv, LinkType, LinkPhase, LineIdle, Starting,
                InFrame, Reported, Sending, Near, High, Behind, Ending, Got, Firsts, FlopsAt,
                RxIn, RxStart, RxBits, RxStop, LastClock, TxAt, TxPlace, Shown, Level, Edge, Half
  <2> QED
    BY <2>1, LinkStep
<1> QED
  BY <1>1, <1>2, PTL DEF LinkSpec

\* The bytes uart_rx signals are those given to uart_tx, in order, none lost, doubled
\* or changed, while the clocks drift apart by less than what the bit leaves.
THEOREM ReceivedAsSentAlways == LinkSpec => []ReceivedAsSent
<1>1. LinkInv => ReceivedAsSent
  <2> SUFFICES ASSUME LinkInv
               PROVE  ReceivedAsSent
    OBVIOUS
  <2>1. sent \in Seq(Bytes)
    BY DEF LinkInv, LinkType
  <2>2. PICK n \in 0 .. Len(sent) : received = Firsts(sent, n)
    BY <2>1 DEF LinkInv, LinkPhase, LineIdle, Starting, InFrame, Reported, Behind, Got
  <2>3. received \in Seq(Bytes) /\ Len(received) = n
    BY <2>1, <2>2 DEF Firsts
  <2>4. SubSeq(received, 1, n) = SubSeq(sent, 1, n)
    BY <2>1, <2>2, <2>3 DEF Firsts
  <2> QED
    BY <2>1, <2>3, <2>4 DEF ReceivedAsSent, IsPrefix
<1> QED
  BY <1>1, LinkInvAlways, PTL

--------------------------------------------------------------------------------
(***************************************************************************)
(* Theorems about soc_peripherals.sv, for every bit time and byte width of *)
(* the transmitter, every number of FIFO slots and every set of cores.     *)
(*                                                                         *)
(* The inductive invariant says what the processor may rely on during the  *)
(* two clocks of an access: that a transmitter it saw idle still is, that  *)
(* the byte it was given is still the oldest of the FIFO, and that the     *)
(* core it waits for is in exactly one stage from start pulse to latch.    *)
(***************************************************************************)

\* o_Tx_Active is low exactly in the two states between frames.
ActiveInv == txActive <=> txState \in {"s_START_BIT", "s_DATA_BITS", "s_STOP_BIT"}

\* An access is answered while its request is up, and the strobe to the
\* transmitter is high while a write of UART_DATA is answered.
AccessInv ==
  /\ memReady => memValid
  /\ txDv <=> Answered("putchar")

\* What firmware knows of the transmitter is true until it writes a byte.
IdleKnown ==
  /\ Answered("status") /\ ~rdData.active => txState = "s_IDLE"
  /\ txFree => txState = "s_IDLE"
  /\ memValid /\ request.kind = "putchar" => txFree

\* The byte returned by an access of UART_DATA is the oldest one until the
\* second clock of the access removes it.
ByteKnown ==
  Answered("getchar") /\ rdData.valid => ~rxEmpty /\ rdData.byte = rxFifo[rdPtr]

\* The awaited core is in one of four stages; unless an earlier run of it goes on,
\* in one only, and takes them one after the other.
Launched == awaited \in started /\ awaited \notin running \cup pulsing \cup sticky
Working  == awaited \in running /\ awaited \notin started \cup pulsing \cup sticky
Finished == awaited \in pulsing \cup sticky /\ awaited \notin started \cup running

WaitInv ==
  /\ awaited # Nobody => awaited \in started \cup running \cup pulsing \cup sticky
  /\ awaited # Nobody /\ ~overlap => Launched \/ Working \/ Finished
  /\ Accepted => (request.kind = "poll" <=> awaited # Nobody)
  /\ Answered("poll") => rdData.done \subseteq sticky

SocInv == TypeOK /\ ActiveInv /\ AccessInv /\ IdleKnown /\ ByteKnown /\ WaitInv

--------------------------------------------------------------------------------
(***************************************************************************)
(* Types.                                                                  *)
(***************************************************************************)
\* The transmitter keeps its types, and moves through its states in a cycle.
LEMMA TxTypeStep ==
  ASSUME TxTypeOK, NEW dv \in BOOLEAN, NEW byte \in Bytes, TxClock(dv, byte)
  PROVE  TxTypeOK'
<1> USE UartParameters DEF TxTypeOK, UartStates
<1>1. CASE TxIdle(dv, byte)
  <2>1. txState' \in UartStates /\ txActive' \in BOOLEAN /\ txData' \in Bytes
    BY <1>1 DEF TxIdle
  <2>2. txCount' \in 0 .. ClksPerBit - 1 /\ txBit' \in 0 .. DataBits - 1
    BY <1>1 DEF TxIdle
  <2>3. txDone' \in BOOLEAN /\ serial' \in BOOLEAN
    BY <1>1 DEF TxIdle
  <2>4. QED BY <2>1, <2>2, <2>3
<1>2. CASE TxStartBit
  <2>1. txCount' \in 0 .. ClksPerBit - 1
    BY <1>2 DEF TxStartBit, TxTiming, TxBitOver
  <2>2. txState' \in UartStates
    BY <1>2 DEF TxStartBit
  <2>3. QED BY <1>2, <2>1, <2>2 DEF TxStartBit
<1>3. CASE TxDataBits
  <2>1. txData[txBit] \in BOOLEAN
    BY DEF Bytes
  <2>2. txBit' \in 0 .. DataBits - 1
    BY <1>3 DEF TxDataBits
  <2>3. txCount' \in 0 .. ClksPerBit - 1
    BY <1>3 DEF TxDataBits, TxTiming, TxBitOver
  <2>4. txState' \in UartStates
    BY <1>3 DEF TxDataBits
  <2>5. QED BY <1>3, <2>1, <2>2, <2>3, <2>4 DEF TxDataBits
<1>4. CASE TxStopBit
  <2>1. txCount' \in 0 .. ClksPerBit - 1
    BY <1>4 DEF TxStopBit, TxTiming, TxBitOver
  <2>2. txState' \in UartStates /\ txDone' \in BOOLEAN /\ txActive' \in BOOLEAN
    BY <1>4 DEF TxStopBit
  <2>3. QED BY <1>4, <2>1, <2>2 DEF TxStopBit
<1>5. CASE TxCleanup
  BY <1>5 DEF TxCleanup
<1>6. QED BY <1>1, <1>2, <1>3, <1>4, <1>5 DEF TxClock

LEMMA ZeroByteType == ZeroByte \in Bytes
BY DEF ZeroByte, Bytes

LEMMA ReadType ==
  /\ NoRead \in ReadValues
  /\ \A v \in BOOLEAN, b \in Bytes :
       [NoRead EXCEPT !.valid = v, !.byte = b] \in ReadValues
  /\ \A a \in BOOLEAN, o \in BOOLEAN :
       [NoRead EXCEPT !.active = a, !.overflow = o] \in ReadValues
  /\ \A d \in SUBSET Cores : [NoRead EXCEPT !.done = d] \in ReadValues
BY ZeroByteType DEF NoRead, ReadValues

\* The argument of a request is a byte for putchar and a core for start.
LEMMA RequestType ==
  ASSUME NEW r \in Requests
  PROVE  /\ r.kind = "putchar" => r.arg \in Bytes
         /\ r.kind = "start" => r.arg \in Cores
BY DEF Requests, Request

LEMMA TypeStep ==
  ASSUME TypeOK, Clock
  PROVE  TypeOK'
<1> USE DEF TypeOK
<1>1. PICK arrived \in BOOLEAN, byte \in Bytes :
        /\ Bus /\ Fifo(arrived, byte) /\ Latches /\ CoreSteps
        /\ TxClock(txDv, txByte) /\ Cpu /\ Firmware /\ History
  BY DEF Clock
<1>2. TxTypeOK'
  BY <1>1, TxTypeStep
<1>3. memValid' \in BOOLEAN /\ request' \in Requests
  BY <1>1 DEF Cpu
<1>4. memReady' \in BOOLEAN /\ txDv' \in BOOLEAN
  BY <1>1 DEF Bus, Accepted, Accepts
<1>5. txByte' \in Bytes /\ started' \subseteq Cores
  BY <1>1, RequestType DEF Bus, Accepts
<1>6. rdData' \in ReadValues
  <2>1. rxFifo[rdPtr] \in Bytes /\ txActive \in BOOLEAN
    BY DEF TxTypeOK
  <2> DEFINE got  == [NoRead EXCEPT !.valid = ~rxEmpty, !.byte = rxFifo[rdPtr]]
             seen == [NoRead EXCEPT !.active = txActive, !.overflow = rxOverflow]
             poll == [NoRead EXCEPT !.done = sticky]
  <2>3. {got, seen, poll} \subseteq ReadValues
    BY <2>1, ReadType
  <2>4. rdData' \in {got, seen, poll, rdData}
    BY <1>1 DEF Bus
  <2> HIDE DEF got, seen, poll
  <2>5. QED BY <2>3, <2>4
<1>7. /\ rxFifo' \in [0 .. Slots - 1 -> Bytes]
      /\ wrPtr' \in 0 .. Slots - 1 /\ rdPtr' \in 0 .. Slots - 1
      /\ rxOverflow' \in BOOLEAN
  BY <1>1, PeripheralParameters DEF Fifo, ReceiveFifo
<1>8. txFree' \in BOOLEAN /\ awaited' \in Cores \cup {Nobody}
  BY <1>1, RequestType DEF Firmware, Accepts, ReadValues
<1>9. taken' \in Bytes /\ overlap' \in BOOLEAN
  <2>1. taken' \in Bytes
    BY <1>1 DEF History, ReadValues
  <2>2. overlap' \in BOOLEAN
    <3>1. (request.arg \in running \cup started) \in BOOLEAN
      OBVIOUS
    <3>2. overlap' = (request.arg \in running \cup started) \/ overlap' = overlap
      BY <1>1, Zenon DEF History
    <3>3. QED BY <3>1, <3>2
  <2>3. QED BY <2>1, <2>2
<1>10. {running', pulsing', sticky'} \subseteq SUBSET Cores
  BY <1>1 DEF CoreSteps, Latches
<1>11. QED
  BY <1>2, <1>3, <1>4, <1>5, <1>6, <1>7, <1>8, <1>9, <1>10

--------------------------------------------------------------------------------
(***************************************************************************)
(* The parts of the invariant.                                             *)
(***************************************************************************)
LEMMA ActiveStep ==
  ASSUME TxTypeOK, ActiveInv, NEW dv \in BOOLEAN, NEW byte, TxClock(dv, byte)
  PROVE  /\ ActiveInv'
         /\ ~dv /\ ~txActive => txState' = "s_IDLE"
<1> USE DEF TxTypeOK, ActiveInv, UartStates
<1>1. CASE TxIdle(dv, byte)
  BY <1>1 DEF TxIdle
<1>2. CASE TxStartBit
  BY <1>2 DEF TxStartBit
<1>3. CASE TxDataBits
  BY <1>3 DEF TxDataBits
<1>4. CASE TxStopBit
  BY <1>4 DEF TxStopBit
<1>5. CASE TxCleanup
  BY <1>5 DEF TxCleanup
<1>6. QED BY <1>1, <1>2, <1>3, <1>4, <1>5 DEF TxClock

\* A request that is up stays the same until it has been answered.
LEMMA AccessStep ==
  ASSUME TypeOK, AccessInv, Bus, Cpu
  PROVE  /\ AccessInv'
         /\ \A k : Answered(k)' <=> Accepts(k)
         /\ Accepted' => ~memValid /\ \E r \in Requests : Allowed(r) /\ request' = r
<1> USE DEF TypeOK, AccessInv
<1>1. CASE Accepted
  <2>1. memValid' /\ request' = request /\ memReady'
    BY <1>1 DEF Accepted, Bus, Cpu
  <2>2. txDv' <=> Accepts("putchar")
    BY DEF Bus
  <2>3. QED BY <1>1, <2>1, <2>2 DEF Accepted, Accepts, Answered
<1>2. CASE ~Accepted
  <2>1. ~memReady' /\ ~txDv'
    BY <1>2 DEF Bus, Accepts
  <2>2. memValid => ~memValid'
    BY <1>2 DEF Accepted, Cpu
  <2>3. AccessInv' /\ \A k : ~Answered(k)' /\ ~Accepts(k)
    BY <1>2, <2>1 DEF Accepts, Answered
  <2>4. memValid' => ~memValid /\ \E r \in Requests : Allowed(r) /\ request' = r
    BY <2>2 DEF Cpu
  <2>5. QED BY <2>3, <2>4 DEF Accepted
<1>3. QED BY <1>1, <1>2

\* After the status read the transmitter has a clock to leave s_CLEANUP, and no
\* strobe can reach it before the write that needs it idle.
LEMMA IdleStep ==
  ASSUME TypeOK, ActiveInv, AccessInv, IdleKnown, Clock
  PROVE  IdleKnown'
<1> USE DEF TypeOK
<1>1. Bus /\ Cpu /\ Firmware /\ \E byte : TxClock(txDv, byte)
  BY DEF Clock
<1>2. ~txDv /\ ~txActive => txState' = "s_IDLE"
  BY <1>1, ActiveStep
<1>3. ~txActive <=> txState \in {"s_IDLE", "s_CLEANUP"}
  BY DEF ActiveInv, TxTypeOK, UartStates
<1>4. /\ \A k : Answered(k)' <=> Accepts(k)
      /\ Accepted' => ~memValid /\ \E r \in Requests : Allowed(r) /\ request' = r
  BY <1>1, AccessStep
<1>5. ASSUME Answered("status")', ~rdData'.active
      PROVE  txState' = "s_IDLE"
  <2>1. Accepts("status")
    BY <1>4, <1>5
  <2>2. rdData' = [NoRead EXCEPT !.active = txActive, !.overflow = rxOverflow]
    BY <1>1, <2>1 DEF Bus, Accepts
  <2>3. ~txActive
    BY <1>5, <2>2 DEF NoRead
  <2>4. ~txDv
    BY <2>1 DEF AccessInv, Accepts, Accepted, Answered
  <2>5. QED BY <1>2, <2>3, <2>4
<1>6. ASSUME txFree'
      PROVE  txState' = "s_IDLE"
  <2>1. CASE Answered("status") /\ ~rdData.active
    <3>1. txState = "s_IDLE" /\ ~txDv
      BY <2>1 DEF IdleKnown, AccessInv, Answered
    <3>2. QED BY <1>2, <1>3, <3>1
  <2>2. CASE txFree /\ ~Answered("putchar")
    BY <1>2, <1>3, <2>2 DEF IdleKnown, AccessInv
  <2>3. QED BY <1>1, <1>6, <2>1, <2>2 DEF Firmware, Answered
<1>7. ASSUME memValid', request'.kind = "putchar"
      PROVE  txFree'
  <2>1. CASE memValid
    <3>1. ~memReady /\ request' = request
      BY <1>1, <1>7, <2>1 DEF Cpu
    <3>2. txFree /\ ~Answered("putchar") /\ ~Answered("status")
      BY <1>7, <2>1, <3>1 DEF IdleKnown, Answered
    <3>3. QED BY <1>1, <3>2 DEF Firmware
  <2>2. CASE ~memValid
    <3>1. txFree
      BY <1>1, <1>7, <2>2 DEF Cpu, Allowed
    <3>2. QED BY <1>1, <2>2, <3>1 DEF Firmware, Answered
  <2>3. QED BY <2>1, <2>2
<1>8. QED BY <1>5, <1>6, <1>7 DEF IdleKnown

\* Whatever arrives between the two clocks of an access goes to another slot.
LEMMA ByteStep ==
  ASSUME TypeOK, AccessInv, ByteKnown, Clock
  PROVE  ByteKnown'
<1> USE PeripheralParameters DEF TypeOK
<1>1. PICK arrived \in BOOLEAN, byte \in Bytes : Bus /\ Cpu /\ Fifo(arrived, byte)
  BY DEF Clock
<1> SUFFICES ASSUME Answered("getchar")', rdData'.valid
             PROVE  ~rxEmpty' /\ rdData'.byte = rxFifo'[rdPtr']
  BY DEF ByteKnown
<1>2. Accepts("getchar")
  BY <1>1, AccessStep
<1>3. rdData' = [NoRead EXCEPT !.valid = ~rxEmpty, !.byte = rxFifo[rdPtr]]
  BY <1>1, <1>2 DEF Bus, Accepts
<1>4. ~rxEmpty /\ rdData'.byte = rxFifo[rdPtr]
  BY <1>3 DEF NoRead
<1>5. ~Answered("getchar")
  BY <1>2 DEF Accepts, Accepted, Answered
<1>6. rdPtr' = rdPtr
  BY <1>1, <1>5 DEF Fifo, ReceiveFifo
<1>7. rxFifo'[rdPtr] = rxFifo[rdPtr]
  BY <1>1, <1>4 DEF Fifo, ReceiveFifo, rxEmpty
<1>8. wrPtr' # rdPtr
  BY <1>1, <1>4 DEF Fifo, ReceiveFifo, rxEmpty, rxFull
<1>9. QED BY <1>4, <1>6, <1>7, <1>8 DEF rxEmpty

\* The awaited core goes from one stage to the next.
LEMMA WaitStep ==
  ASSUME TypeOK, AccessInv, WaitInv, Clock
  PROVE  WaitInv'
<1> USE PeripheralParameters DEF TypeOK
<1>1. Bus /\ Cpu /\ Firmware /\ Latches /\ History
  BY DEF Clock
<1>2. PICK finished \in SUBSET running :
        pulsing' = finished /\ running' = (running \ finished) \cup started
  BY DEF Clock, CoreSteps
<1>3. /\ \A k : Answered(k)' <=> Accepts(k)
      /\ Accepted' => ~memValid /\ \E r \in Requests : Allowed(r) /\ request' = r
  BY <1>1, AccessStep
<1>4. CASE Accepts("start")
  <2>1. request.arg \in Cores /\ request.arg # Nobody
    BY <1>4, RequestType DEF Accepts
  <2>2. started' = {request.arg} /\ sticky' = {} /\ awaited' = request.arg
    BY <1>1, <1>4 DEF Bus, Latches, Firmware, Accepts, Answered, Accepted
  <2>3. ~overlap' => request.arg \notin running' \cup pulsing'
    BY <1>1, <1>2, <1>4 DEF History
  <2>4. ~Accepted' /\ ~Answered("poll")'
    BY <1>3, <1>4 DEF Accepts, Accepted
  <2>5. QED BY <2>1, <2>2, <2>3, <2>4 DEF WaitInv, Launched
<1>5. CASE ~Accepts("start")
  <2>1. started' = {} /\ sticky' = sticky \cup pulsing /\ overlap' = overlap
    BY <1>1, <1>5 DEF Bus, Latches, History
  <2>2. Answered("poll")' => rdData'.done \subseteq sticky'
    <3>1. HAVE Answered("poll")'
    <3>2. Accepts("poll")
      BY <1>3, <3>1
    <3>3. rdData' = [NoRead EXCEPT !.done = sticky]
      BY <1>1, <3>2 DEF Bus, Accepts
    <3>4. rdData'.done = sticky
      BY <3>3 DEF NoRead
    <3>5. QED BY <2>1, <3>4
  <2>3. \/ awaited' = Nobody /\ Answered("poll")
        \/ awaited' = awaited
    BY <1>1, <1>5 DEF Firmware
  <2>4. CASE awaited' = Nobody /\ Answered("poll")
    <3>1. ~Accepted'
      BY <1>3, <2>4 DEF Answered
    <3>2. QED BY <2>2, <2>4, <3>1 DEF WaitInv
  <2>5. CASE awaited' = awaited
    <3>1. awaited # Nobody => awaited \in running' \cup pulsing' \cup sticky'
      BY <1>2, <2>1 DEF WaitInv
    <3>2. awaited # Nobody /\ ~overlap => (Launched \/ Working \/ Finished)'
      <4>1. HAVE awaited # Nobody /\ ~overlap
      <4>2. CASE Launched
        BY <1>2, <2>1, <2>5, <4>2 DEF Launched, Working
      <4>3. CASE Working
        BY <1>2, <2>1, <2>5, <4>3 DEF Working, Finished
      <4>4. CASE Finished
        BY <1>2, <2>1, <2>5, <4>4 DEF Finished
      <4>5. QED BY <4>1, <4>2, <4>3, <4>4 DEF WaitInv
    <3>3. Accepted' => (request'.kind = "poll" <=> awaited # Nobody)
      BY <1>3 DEF Allowed
    <3>4. QED BY <2>1, <2>2, <2>5, <3>1, <3>2, <3>3 DEF WaitInv
  <2>6. QED BY <2>3, <2>4, <2>5
<1>6. QED BY <1>4, <1>5

\* The peripherals keep the promises of an access for its two clocks.
THEOREM SocInvAlways == Spec => []SocInv
<1>1. Init => SocInv
  <2> SUFFICES ASSUME Init PROVE SocInv
    OBVIOUS
  <2> USE PeripheralParameters, UartParameters, ZeroByteType
  <2>1. TxTypeOK
    <3>1. txState \in UartStates /\ txData \in Bytes
      BY DEF Init, TxInit, UartStates
    <3>2. txCount \in 0 .. ClksPerBit - 1 /\ txBit \in 0 .. DataBits - 1
      BY DEF Init, TxInit
    <3>3. {txActive, txDone, serial} \subseteq BOOLEAN
      BY DEF Init, TxInit
    <3>4. QED BY <3>1, <3>2, <3>3 DEF TxTypeOK
  <2>2. TypeOK
    <3>1. memValid \in BOOLEAN /\ memReady \in BOOLEAN /\ request \in Requests
      BY DEF Init
    <3>2. rxFifo \in [0 .. Slots - 1 -> Bytes] /\ rdData \in ReadValues
      BY ReadType DEF Init
    <3>3. wrPtr \in 0 .. Slots - 1 /\ rdPtr \in 0 .. Slots - 1
      BY DEF Init
    <3>4. {rxOverflow, txDv, txFree, overlap} \subseteq BOOLEAN /\ {txByte, taken} \subseteq Bytes
      BY DEF Init
    <3>5. /\ {started, running, pulsing, sticky} \subseteq SUBSET Cores
          /\ awaited \in Cores \cup {Nobody}
      BY DEF Init
    <3>6. QED BY <2>1, <3>1, <3>2, <3>3, <3>4, <3>5 DEF TypeOK
  <2>3. ActiveInv /\ AccessInv /\ IdleKnown /\ ByteKnown
    BY DEF Init, TxInit, ActiveInv, AccessInv, IdleKnown, ByteKnown, Answered
  <2>4. WaitInv
    BY DEF Init, WaitInv, Accepted, Answered
  <2>5. QED BY <2>2, <2>3, <2>4 DEF SocInv
<1>2. SocInv /\ [Next]_socVars => SocInv'
  <2>1. CASE SocInv /\ Clock
    <3>1. ActiveInv'
      <4>1. \E byte : TxClock(txDv, byte)
        BY <2>1 DEF Clock
      <4>2. QED BY <2>1, <4>1, ActiveStep DEF SocInv, TypeOK
    <3>2. AccessInv'
      <4>1. Bus /\ Cpu
        BY <2>1 DEF Clock
      <4>2. QED BY <2>1, <4>1, AccessStep DEF SocInv
    <3>3. QED BY <2>1, <3>1, <3>2, TypeStep, IdleStep, ByteStep, WaitStep DEF SocInv
  <2>2. CASE SocInv /\ UNCHANGED socVars
    BY <2>2
    DEF socVars, busVars, fifoVars, coreVars, cpuVars, txVars, SocInv, TypeOK, TxTypeOK,
        ActiveInv, AccessInv, IdleKnown, ByteKnown, WaitInv, Launched, Working, Finished, Answered,
        Accepted, rxEmpty
  <2>3. QED BY <2>1, <2>2 DEF Next
<1>3. QED BY <1>1, <1>2, PTL DEF Spec

--------------------------------------------------------------------------------
(***************************************************************************)
(* The safety properties.                                                  *)
(***************************************************************************)
\* A byte written by uart_putchar finds uart_tx in s_IDLE, where it is taken.
THEOREM NoByteLostAlways == Spec => []NoByteLost
<1>1. SocInv => NoByteLost
  BY DEF SocInv, AccessInv, IdleKnown, Answered, NoByteLost
<1>2. QED BY <1>1, SocInvAlways, PTL

\* The done pulse of the awaited core is never lost between start and latch.
THEOREM DoneNeverLostAlways == Spec => []DoneNeverLost
<1>1. SocInv => DoneNeverLost
  BY DEF SocInv, WaitInv, DoneNeverLost
<1>2. QED BY <1>1, SocInvAlways, PTL

\* A latched done bit of the awaited core is that of its latest start, unless that
\* start found an earlier run of the core going on.
THEOREM DoneIsFreshAlways == Spec => []DoneIsFresh
<1>1. SocInv => DoneIsFresh
  <2> SUFFICES ASSUME SocInv, awaited \in sticky, ~overlap
               PROVE  awaited \notin started \cup running
    BY DEF DoneIsFresh
  <2>1. awaited # Nobody
    BY PeripheralParameters DEF SocInv, TypeOK
  <2>2. QED BY <2>1 DEF SocInv, WaitInv, Launched, Working, Finished
<1>2. QED BY <1>1, SocInvAlways, PTL

--------------------------------------------------------------------------------
(***************************************************************************)
(* The receive FIFO implements a queue of Slots - 1 bytes.                 *)
(***************************************************************************)
\* Pointers and differences of pointers wrap once at most.
LEMMA WrapNext ==
  ASSUME NEW p \in 0 .. Slots - 1
  PROVE  (p + 1) % Slots = IF p = Slots - 1 THEN 0 ELSE p + 1
BY PeripheralParameters

LEMMA WrapCount ==
  ASSUME NEW w \in 0 .. Slots - 1, NEW r \in 0 .. Slots - 1
  PROVE  /\ (w + Slots - r) % Slots = IF r <= w THEN w - r ELSE w + Slots - r
         /\ (w + Slots - r) % Slots \in 0 .. Slots - 1
BY PeripheralParameters

LEMMA WrapPlace ==
  ASSUME NEW r \in 0 .. Slots - 1, NEW i \in 1 .. Slots
  PROVE  /\ (r + i - 1) % Slots = IF r + i - 1 < Slots THEN r + i - 1 ELSE r + i - 1 - Slots
         /\ (r + i - 1) % Slots \in 0 .. Slots - 1
BY PeripheralParameters

Count    == (wrPtr + Slots - rdPtr) % Slots
Place(i) == (rdPtr + i - 1) % Slots

\* The bytes in the FIFO and the flags; no place in use is the one written next.
LEMMA ContentsType ==
  ASSUME TypeOK
  PROVE  /\ Count = IF rdPtr <= wrPtr THEN wrPtr - rdPtr ELSE wrPtr + Slots - rdPtr
         /\ Count \in 0 .. Slots - 1
         /\ FifoContents \in Seq(Bytes)
         /\ Len(FifoContents) = Count
         /\ rxEmpty <=> Count = 0
         /\ rxFull <=> Count = Slots - 1
         /\ \A i \in 1 .. Count :
              /\ Place(i) \in (0 .. Slots - 1) \ {wrPtr}
              /\ FifoContents[i] = rxFifo[Place(i)]
<1>0. /\ wrPtr \in 0 .. Slots - 1 /\ rdPtr \in 0 .. Slots - 1 /\ Slots \in Nat \ {0, 1}
      /\ rxFifo \in [0 .. Slots - 1 -> Bytes]
  BY PeripheralParameters DEF TypeOK
<1>1. Count = IF rdPtr <= wrPtr THEN wrPtr - rdPtr ELSE wrPtr + Slots - rdPtr
  BY <1>0, WrapCount DEF Count
<1>2. Count \in 0 .. Slots - 1
  BY <1>0, <1>1
<1>3. rxEmpty <=> Count = 0
  BY <1>0, <1>1 DEF rxEmpty
<1>4. rxFull <=> Count = Slots - 1
  <2>1. rxFull <=> (IF wrPtr = Slots - 1 THEN 0 ELSE wrPtr + 1) = rdPtr
    BY <1>0, WrapNext DEF rxFull
  <2>2. QED BY <1>0, <1>1, <2>1
<1>5. \A i \in 1 .. Count : Place(i) \in (0 .. Slots - 1) \ {wrPtr}
  <2> TAKE i \in 1 .. Count
  <2>1. i \in 1 .. Slots
    BY <1>0, <1>2
  <2>2. Place(i) = IF rdPtr + i - 1 < Slots THEN rdPtr + i - 1 ELSE rdPtr + i - 1 - Slots
    BY <1>0, <2>1, WrapPlace DEF Place
  <2>3. QED BY <1>0, <1>1, <1>2, <2>2
<1>6. FifoContents = [i \in 1 .. Count |-> rxFifo[Place(i)]]
  BY DEF FifoContents, Count, Place
<1>7. FifoContents \in [1 .. Count -> Bytes]
  BY <1>0, <1>5, <1>6
<1>8. FifoContents \in Seq(Bytes) /\ Len(FifoContents) = Count
  BY <1>2, <1>7
<1>9. QED BY <1>1, <1>2, <1>3, <1>4, <1>5, <1>6, <1>8

\* What a clock does to the number of bytes and to their places.
LEMMA FifoPlaces ==
  ASSUME TypeOK, TypeOK', NEW arrived \in BOOLEAN, NEW byte \in Bytes,
         NEW popping \in BOOLEAN, popping => ~rxEmpty,
         ReceiveFifo(arrived, byte, popping)
  PROVE  LET added == IF arrived /\ ~rxFull THEN 1 ELSE 0
             gone  == IF popping THEN 1 ELSE 0
         IN  /\ Count' = Count + added - gone
             /\ \A i \in 1 .. Count - gone : Place(i)' = Place(i + gone)
             /\ \A i \in 1 .. Count : rxFifo'[Place(i)] = rxFifo[Place(i)]
             /\ added = 1 => Place(Count)' = wrPtr /\ rxFifo'[wrPtr] = byte
<1> DEFINE added == IF arrived /\ ~rxFull THEN 1 ELSE 0
           gone  == IF popping THEN 1 ELSE 0
<1>0. /\ wrPtr \in 0 .. Slots - 1 /\ rdPtr \in 0 .. Slots - 1
      /\ wrPtr' \in 0 .. Slots - 1 /\ rdPtr' \in 0 .. Slots - 1
      /\ rxFifo \in [0 .. Slots - 1 -> Bytes] /\ Slots \in Nat \ {0, 1}
  BY PeripheralParameters DEF TypeOK
<1>1. /\ wrPtr' = IF added = 0 THEN wrPtr ELSE IF wrPtr = Slots - 1 THEN 0 ELSE wrPtr + 1
      /\ rdPtr' = IF gone = 0 THEN rdPtr ELSE IF rdPtr = Slots - 1 THEN 0 ELSE rdPtr + 1
  <2>1. /\ (wrPtr + 1) % Slots = IF wrPtr = Slots - 1 THEN 0 ELSE wrPtr + 1
        /\ (rdPtr + 1) % Slots = IF rdPtr = Slots - 1 THEN 0 ELSE rdPtr + 1
    BY <1>0, WrapNext
  <2>2. QED BY <2>1 DEF ReceiveFifo
<1>2. /\ Count = IF rdPtr <= wrPtr THEN wrPtr - rdPtr ELSE wrPtr + Slots - rdPtr
      /\ Count' = IF rdPtr' <= wrPtr' THEN wrPtr' - rdPtr' ELSE wrPtr' + Slots - rdPtr'
  BY <1>0, WrapCount DEF Count
<1>3. added \in {0, 1} /\ gone \in {0, 1}
  OBVIOUS
<1>4. added = 1 => Count # Slots - 1
  BY ContentsType
<1>5. gone = 1 => Count # 0
  BY ContentsType
<1>6. \A i \in 1 .. Count : rxFifo'[Place(i)] = rxFifo[Place(i)]
  BY <1>0, ContentsType DEF ReceiveFifo
<1>7. added = 1 => rxFifo'[wrPtr] = byte
  BY <1>0 DEF ReceiveFifo
<1> HIDE DEF added, gone
<1>8. Count' = Count + added - gone
  <2>1. CASE added = 0
    BY <1>0, <1>1, <1>2, <1>3, <1>5, <2>1
  <2>2. CASE added = 1 /\ gone = 0
    BY <1>0, <1>1, <1>2, <1>4, <2>2
  <2>3. CASE added = 1 /\ gone = 1
    BY <1>0, <1>1, <1>2, <1>4, <1>5, <2>3
  <2>4. QED BY <1>3, <2>1, <2>2, <2>3
<1>9. Count \in 0 .. Slots - 1
  BY ContentsType
<1>10. \A i \in 1 .. Slots :
         Place(i)' = IF rdPtr' + i - 1 < Slots THEN rdPtr' + i - 1 ELSE rdPtr' + i - 1 - Slots
  BY <1>0, WrapPlace DEF Place
<1>11. \A i \in 1 .. Slots :
         Place(i) = IF rdPtr + i - 1 < Slots THEN rdPtr + i - 1 ELSE rdPtr + i - 1 - Slots
  BY <1>0, WrapPlace DEF Place
<1>12. \A i \in 1 .. Count - gone : Place(i)' = Place(i + gone)
  <2> TAKE i \in 1 .. Count - gone
  <2>1. i \in 1 .. Slots /\ i + gone \in 1 .. Slots
    BY <1>0, <1>3, <1>9
  <2>2. QED BY <1>0, <1>1, <1>3, <1>10, <1>11, <2>1
<1>13. added = 1 => Place(Count)' = wrPtr
  <2>1. HAVE added = 1
  <2>2. Count' = Count + 1 - gone /\ Count' \in 1 .. Slots
    BY <1>0, <1>3, <1>4, <1>5, <1>8, <1>9, <2>1
  <2>3. Place(Count)' = IF rdPtr' + Count' - 1 < Slots THEN rdPtr' + Count' - 1
                        ELSE rdPtr' + Count' - 1 - Slots
    BY <1>0, <2>2, WrapPlace DEF Place
  <2>4. QED BY <1>0, <1>1, <1>2, <1>3, <1>5, <1>9, <2>1, <2>2, <2>3
<1>14. QED BY <1>6, <1>7, <1>8, <1>12, <1>13 DEF added, gone

\* A byte that arrives goes to the end, the byte that is read goes from the front.
LEMMA ContentsStep ==
  ASSUME TypeOK, TypeOK', NEW arrived \in BOOLEAN, NEW byte \in Bytes,
         NEW popping \in BOOLEAN, popping => ~rxEmpty,
         ReceiveFifo(arrived, byte, popping)
  PROVE  LET rest == IF popping THEN Tail(FifoContents) ELSE FifoContents
         IN  FifoContents' = IF arrived /\ ~rxFull THEN Append(rest, byte) ELSE rest
<1> DEFINE added == IF arrived /\ ~rxFull THEN 1 ELSE 0
           gone  == IF popping THEN 1 ELSE 0
           rest  == IF popping THEN Tail(FifoContents) ELSE FifoContents
           next  == IF arrived /\ ~rxFull THEN Append(rest, byte) ELSE rest
<1>1. /\ Count' = Count + added - gone
      /\ \A i \in 1 .. Count - gone : Place(i)' = Place(i + gone)
      /\ \A i \in 1 .. Count : rxFifo'[Place(i)] = rxFifo[Place(i)]
      /\ added = 1 => Place(Count)' = wrPtr /\ rxFifo'[wrPtr] = byte
  BY FifoPlaces
<1>2. /\ FifoContents' \in Seq(Bytes) /\ Len(FifoContents') = Count'
      /\ \A i \in 1 .. Count' : FifoContents'[i] = rxFifo'[Place(i)']
      /\ Count' \in Nat
  <2>0. wrPtr' \in 0 .. Slots - 1 /\ rdPtr' \in 0 .. Slots - 1 /\ Slots \in Nat \ {0, 1}
    BY PeripheralParameters DEF TypeOK
  <2>1. Count' \in 0 .. Slots - 1
    BY <2>0, WrapCount DEF Count
  <2>2. \A i \in 1 .. Count' : Place(i)' \in 0 .. Slots - 1
    <3> TAKE i \in 1 .. Count'
    <3>1. i \in 1 .. Slots
      BY <2>0, <2>1
    <3>2. QED BY <2>0, <3>1, WrapPlace DEF Place
  <2>3. FifoContents' = [i \in 1 .. Count' |-> rxFifo'[Place(i)']]
    BY DEF FifoContents, Count, Place
  <2>4. FifoContents' \in [1 .. Count' -> Bytes]
    BY <2>2, <2>3 DEF TypeOK
  <2>5. QED BY <2>1, <2>3, <2>4
<1>3. Count \in Nat /\ FifoContents \in Seq(Bytes) /\ Len(FifoContents) = Count
  BY ContentsType
<1>4. /\ rest \in Seq(Bytes) /\ Len(rest) = Count - gone /\ Count - gone \in Nat
      /\ \A i \in 1 .. Count - gone : rest[i] = FifoContents[i + gone]
  <2>1. CASE popping
    <3>1. FifoContents # << >> /\ Count > 0
      BY <1>3, <2>1, ContentsType
    <3>2. QED BY <1>3, <2>1, <3>1, HeadTailProperties
  <2>2. CASE ~popping
    BY <1>3, <2>2
  <2>3. QED BY <2>1, <2>2
<1>5. added \in {0, 1} /\ gone \in {0, 1}
  OBVIOUS
<1>6. /\ next \in Seq(Bytes) /\ Len(next) = Count'
      /\ \A i \in 1 .. Count - gone : next[i] = rest[i]
      /\ added = 1 => next[Count'] = byte
  <2>1. CASE arrived /\ ~rxFull
    <3>1. next = Append(rest, byte) /\ Count' = Len(rest) + 1
      BY <1>1, <1>3, <1>4, <1>5, <2>1
    <3> HIDE DEF next, rest
    <3>2. QED BY <1>4, <3>1, AppendProperties
  <2>2. CASE ~(arrived /\ ~rxFull)
    <3>1. next = rest /\ added = 0 /\ Count' = Len(rest)
      BY <1>1, <1>3, <1>4, <1>5, <2>2
    <3> HIDE DEF next, rest, added
    <3>2. QED BY <1>4, <3>1
  <2>3. QED BY <2>1, <2>2
<1> HIDE DEF added, gone, rest, next
<1>7. ASSUME NEW i \in 1 .. Count'
      PROVE  FifoContents'[i] = next[i]
  <2>1. FifoContents'[i] = rxFifo'[Place(i)']
    BY <1>2
  <2>2. CASE i \in 1 .. Count - gone
    <3>1. i + gone \in 1 .. Count
      BY <1>3, <1>4, <1>5, <2>2
    <3>2. rxFifo'[Place(i)'] = FifoContents[i + gone]
      BY <1>1, <2>2, <3>1, ContentsType
    <3>3. QED BY <1>4, <1>6, <2>1, <2>2, <3>2
  <2>3. CASE i \notin 1 .. Count - gone
    <3>1. added = 1 /\ i = Count'
      <4>1. Count' = Count + added - gone /\ i > Count - gone
        BY <1>1, <1>4, <2>3
      <4>2. QED BY <1>2, <1>3, <1>5, <4>1
    <3>2. Place(i)' = Place(Count)'
      BY <3>1 DEF Place
    <3>3. QED BY <1>1, <1>6, <2>1, <3>1, <3>2
  <2>4. QED BY <2>2, <2>3
<1>8. FifoContents' = next
  BY <1>2, <1>6, <1>7, SeqEqual
<1>9. QED BY <1>8 DEF next, rest

\* A clock of the peripherals is a step of the queue.
LEMMA QueueStep ==
  ASSUME SocInv, SocInv', Clock
  PROVE  Queue!QueueNext \/ UNCHANGED Queue!queueVars
<1>1. PICK arrived \in BOOLEAN, byte \in Bytes : Fifo(arrived, byte) /\ History
  BY DEF Clock
<1> DEFINE popping == Answered("getchar") /\ rdData.valid
<1>2. popping \in BOOLEAN /\ (popping => ~rxEmpty /\ rdData.byte = rxFifo[rdPtr])
  BY DEF SocInv, ByteKnown, Answered
<1>3. TypeOK /\ TypeOK'
  BY DEF SocInv
<1>4. ReceiveFifo(arrived, byte, popping)
  BY <1>1 DEF Fifo
<1>5. popping => FifoContents # << >> /\ taken' = Head(FifoContents)
  <2>1. HAVE popping
  <2>2. Count > 0 /\ 1 \in 1 .. Count
    BY <1>2, <1>3, <2>1, ContentsType
  <2>3. FifoContents # << >> /\ Head(FifoContents) = FifoContents[1]
    BY <1>3, <2>2, ContentsType, HeadTailProperties
  <2>4. Place(1) = rdPtr
    <3>1. rdPtr \in 0 .. Slots - 1 /\ 1 \in 1 .. Slots /\ Slots \in Nat \ {0, 1}
      BY <1>3, PeripheralParameters DEF TypeOK
    <3>2. QED BY <3>1, WrapPlace DEF Place
  <2>5. taken' = rdData.byte
    BY <1>1, <2>1 DEF History
  <2>6. QED BY <1>2, <1>3, <2>1, <2>2, <2>3, <2>4, <2>5, ContentsType
<1>6. ~popping => taken' = taken
  BY <1>1 DEF History
<1> DEFINE rest == IF popping THEN Tail(FifoContents) ELSE FifoContents
<1>7. FifoContents' = IF arrived /\ ~rxFull THEN Append(rest, byte) ELSE rest
  <2> HIDE DEF popping
  <2>1. QED BY <1>2, <1>3, <1>4, ContentsStep
<1>8. Queue!Room <=> ~rxFull
  <2>1. Len(FifoContents) \in 0 .. Slots - 1 /\ (rxFull <=> Len(FifoContents) = Slots - 1)
    BY <1>3, ContentsType
  <2>2. QED BY <2>1, PeripheralParameters DEF Queue!Room
<1>9. Queue!Flag(arrived /\ ~Queue!Room)
  BY <1>3, <1>4, <1>8 DEF ReceiveFifo, Queue!Flag, TypeOK
<1> HIDE DEF popping
<1>10. CASE arrived /\ popping
  <2>1. Queue!TakeArrive(byte)
    BY <1>5, <1>7, <1>8, <1>10 DEF Queue!TakeArrive
  <2>2. QED BY <1>9, <1>10, <2>1 DEF Queue!QueueNext
<1>11. CASE arrived /\ ~popping
  <2>1. Queue!Arrive(byte)
    BY <1>6, <1>7, <1>8, <1>11 DEF Queue!Arrive
  <2>2. QED BY <1>9, <1>11, <2>1 DEF Queue!QueueNext
<1>12. CASE ~arrived /\ popping
  <2>1. Queue!Take
    BY <1>5, <1>7, <1>12 DEF Queue!Take
  <2>2. QED BY <1>9, <1>12, <2>1 DEF Queue!QueueNext
<1>13. CASE ~arrived /\ ~popping
  <2>1. UNCHANGED <<FifoContents, taken>>
    BY <1>6, <1>7, <1>13
  <2>2. QED BY <1>9, <1>13, <2>1 DEF Queue!QueueNext
<1>14. QED BY <1>10, <1>11, <1>12, <1>13

\* The receive FIFO with its wrapping pointers and its two-clock read is a
\* queue of Slots - 1 bytes: each byte is read once, in order, and a drop is
\* reported.
THEOREM ImplementsQueueAlways == Spec => ImplementsQueue
<1>1. Init => Queue!QueueInit
  <2> SUFFICES ASSUME Init PROVE Queue!QueueInit
    OBVIOUS
  <2>1. wrPtr = 0 /\ rdPtr = 0 /\ 0 \in 0 .. Slots - 1
    BY PeripheralParameters DEF Init
  <2>2. (wrPtr + Slots - rdPtr) % Slots = 0
    BY <2>1, WrapCount
  <2>3. FifoContents = << >>
    BY <2>2 DEF FifoContents
  <2>4. QED BY <2>3, ZeroByteType DEF Init, Queue!QueueInit
<1>2. SocInv /\ SocInv' /\ [Next]_socVars => [Queue!QueueNext]_(Queue!queueVars)
  <2>1. CASE SocInv /\ SocInv' /\ Clock
    BY <2>1, QueueStep
  <2>2. CASE UNCHANGED socVars
    BY <2>2 DEF socVars, fifoVars, cpuVars, Queue!queueVars, FifoContents
  <2>3. QED BY <2>1, <2>2 DEF Next
<1>3. QED
  BY <1>1, <1>2, SocInvAlways, PTL DEF Spec, ImplementsQueue, Queue!QueueSpec

================================================================================
