------------------------------- MODULE HostProofs -------------------------------
(***************************************************************************)
(* Theorems about the tool and the device on the two ends of the line, for *)
(* every size of the helper data, every enrolment and key, every number of *)
(* sessions and reloads and every interleaving of the two ends.            *)
(*                                                                         *)
(* In this order: types; why a session that met an idle device stays in    *)
(* step with it; why what it saves is the enrolment made for it.           *)
(***************************************************************************)
EXTENDS HostLink, ProtocolLemmas

--------------------------------------------------------------------------------
(***************************************************************************)
(* Types, and the ranges of the counters of both ends.                     *)
(***************************************************************************)
Bytes == Seq(0 .. 255)
Optional == {None} \cup Bytes

Memory == [got : Bytes, word : 0 .. NumWords + 1, progress : 0 .. 7, helper : Optional,
           count : Nat, reference : Optional, passed : Nat, failed : Nat]

Loaded(h) == h \in Bytes /\ Len(h) = HelperLength

HostTypeOK ==
  /\ step \in Steps
  /\ command \in Commands
  /\ mem \in Memory
  /\ verdict \in {"none", "ok", "failed", "killed"}
  /\ file \in Optional
  /\ drv \in Bytes /\ wire \in Bytes /\ line \in Bytes

DeviceTypeOK ==
  /\ stage \in Device!Stages
  /\ word \in 0 .. NumWords
  /\ code \in 0 .. ErrKeyMismatch
  /\ rx \in Bytes /\ fed \in Bytes /\ resp \in Bytes
  /\ export \in BOOLEAN
  /\ used \in Optional
  /\ clean \in BOOLEAN /\ faulted \in BOOLEAN

\* Where the device is in its loops over the helper words.
LoopInv ==
  /\ stage \notin {"sending", "helper"} => word = 0
  /\ stage \notin {"helper", "pipeline"} => fed = << >>
  /\ stage = "sending" => out \in Enrolments
  /\ stage = "helper" => /\ word * BytesPerWord <= Len(fed)
                         /\ Len(fed) < word * BytesPerWord + BytesIn(word)

\* Where the tool is in its reads, and which subcommand brings it there.
ToolInv ==
  /\ step \in {"settle", "stress", "info", "enroll", "enroll_status", "save", "saving",
               "reconstruct"} => mem.got = << >>
  /\ step = "info_reply" => Len(mem.got) < 5 /\ command = "info"
  /\ step = "enroll_helper" => Len(mem.got) < HelperLength
  /\ step = "key" => Len(mem.got) < KeyLength
  /\ step \in {"enroll", "enroll_status", "enroll_helper", "save", "saving"}
       => command \in {"enroll", "stress"}
  /\ step \in {"reconstruct", "ready", "word", "ack", "marker", "status", "flags", "key"}
       => command \in {"reconstruct", "stress"}
  /\ step = "info" => command = "info"
  /\ step = "stress" => command = "stress"
  /\ step \in {"word", "ack"} => mem.word <= NumWords
  /\ step \in {"ready", "word", "ack"} => mem.progress = 0
  /\ step = "ready" => mem.word = 0
  /\ step = "marker" => mem.progress <= 6
  /\ step \in {"ready", "word", "ack", "marker", "status", "flags", "key"}
       => Loaded(mem.helper)
  /\ step \in {"save", "saving"} => Loaded(mem.helper)
  /\ step = "reconstruct" /\ command = "stress" => Loaded(mem.helper)

TypeInv == HostTypeOK /\ DeviceTypeOK /\ LoopInv /\ ToolInv

LEMMA Empty == << >> \in Bytes /\ Len(<< >>) = 0 /\ None \notin Bytes
BY EmptySeq, HostAssumption DEF Bytes

LEMMA Regrouped ==
  \A x \in Bytes : \A y \in Bytes : \A z \in Bytes : (x \o y) \o z = x \o (y \o z)
<1>1. ASSUME NEW x \in Seq(0 .. 255), NEW y \in Seq(0 .. 255), NEW z \in Seq(0 .. 255)
      PROVE  (x \o y) \o z = x \o (y \o z)
  BY <1>1, ConcatAssociative
<1> QED
  BY <1>1 DEF Bytes

\* What a step of the device adds to the bytes it has sent goes on the line.
LEMMA NewBytes ==
  ASSUME NEW s \in Bytes, NEW t \in Bytes
  PROVE  /\ s \o t \in Bytes /\ Len(s \o t) = Len(s) + Len(t)
         /\ Len(s) \in Nat /\ Len(t) \in Nat
         /\ \A i \in 1 .. Len(s) + Len(t) :
              (s \o t)[i] = IF i <= Len(s) THEN s[i] ELSE t[i - Len(s)]
         /\ SubSeq(s \o t, Len(s) + 1, Len(s \o t)) = t
<1> USE DEF Bytes
<1>1. /\ s \o t \in Seq(0 .. 255) /\ Len(s \o t) = Len(s) + Len(t)
      /\ Len(s) \in Nat /\ Len(t) \in Nat
      /\ \A i \in 1 .. Len(s) + Len(t) :
           (s \o t)[i] = IF i <= Len(s) THEN s[i] ELSE t[i - Len(s)]
  BY ConcatProperties, LenProperties
<1>2. PICK u \in Seq(0 .. 255) : u = s \o t
  BY <1>1
<1>3. PICK m \in Nat : m = Len(s)
  BY <1>1
<1>4. PICK r : r = SubSeq(u, m + 1, Len(u))
  OBVIOUS
<1>5. m <= Len(u)
  BY <1>1, <1>2, <1>3
<1>6. /\ SubSeq(u, m + 1, Len(u)) \in Seq(0 .. 255)
      /\ Len(SubSeq(u, m + 1, Len(u))) = Len(u) - m
      /\ \A i \in 1 .. Len(u) - m : SubSeq(u, m + 1, Len(u))[i] = u[m + i]
  BY <1>5, LastPart
<1>7. /\ r \in Seq(0 .. 255) /\ Len(r) = Len(t)
      /\ \A i \in 1 .. Len(t) : r[i] = u[m + i]
  BY <1>1, <1>2, <1>3, <1>4, <1>6
<1>8. \A i \in 1 .. Len(t) : r[i] = t[i]
  <2> SUFFICES ASSUME NEW i \in 1 .. Len(t)
               PROVE  r[i] = t[i]
    OBVIOUS
  <2>1. /\ m + i \in 1 .. Len(s) + Len(t) /\ ~(m + i <= Len(s)) /\ m + i - Len(s) = i
    BY <1>1, <1>3
  <2> QED
    BY <1>1, <1>2, <1>7, <2>1
<1>9. r = t
  BY <1>7, <1>8, SeqEqual
<1> QED
  BY <1>1, <1>2, <1>3, <1>4, <1>9

LEMMA Said ==
  ASSUME resp \in Bytes, line' = line \o Sent, stage # "cmd", NEW t \in Bytes, resp' = resp \o t
  PROVE  line' = line \o t
BY NewBytes DEF Sent

LEMMA SaidFirst ==
  ASSUME line' = line \o Sent, stage = "cmd"
  PROVE  line' = line \o resp'
BY DEF Sent

LEMMA ByteValues ==
  /\ Banner \in Bytes /\ Len(Banner) = 5
  /\ \A e \in BOOLEAN : InfoReplyOf(e) \in Bytes /\ Len(InfoReplyOf(e)) = 5
  /\ \A b \in 0 .. 255 : <<b>> \in Bytes /\ Len(<<b>>) = 1 /\ <<b>>[1] = b
  /\ \A a, b \in 0 .. 255 : <<a, b>> \in Bytes /\ Len(<<a, b>>) = 2
  /\ \A a, b, c \in 0 .. 255 : <<a, b, c>> \in Bytes /\ Len(<<a, b, c>>) = 3
<1> USE DEF Bytes
<1>1. Banner \in Bytes /\ Len(Banner) = 5
  BY DEF Banner
<1>2. ASSUME NEW e \in BOOLEAN
      PROVE  InfoReplyOf(e) \in Bytes /\ Len(InfoReplyOf(e)) = 5
  <2>1. CASE e
    BY <2>1 DEF InfoReplyOf
  <2>2. CASE ~e
    BY <2>2 DEF InfoReplyOf
  <2> QED
    BY <2>1, <2>2
<1>3. \A b \in 0 .. 255 : <<b>> \in Bytes /\ Len(<<b>>) = 1 /\ <<b>>[1] = b
  OBVIOUS
<1>4. \A a, b \in 0 .. 255 : <<a, b>> \in Bytes /\ Len(<<a, b>>) = 2
  OBVIOUS
<1>5. \A a, b, c \in 0 .. 255 : <<a, b, c>> \in Bytes /\ Len(<<a, b, c>>) = 3
  OBVIOUS
<1> QED
  BY <1>1, <1>2, <1>3, <1>4, <1>5

LEMMA ProtocolValues ==
  /\ {CmdInfo, CmdEnroll, CmdRecon, StatusSuccess, StatusFail, HelperRequest, Unknown} \subseteq 0 .. 255
  /\ \A w \in 0 .. NumWords : Ack(w) \in 0 .. 255
  /\ \A i \in 1 .. 7 : Marker(i) \in 0 .. 255
  /\ 0 .. ErrKeyMismatch \subseteq 0 .. 255
  /\ 1 \in 0 .. 255 /\ 0 \in 0 .. 255
BY WordShape DEF CmdInfo, CmdEnroll, CmdRecon, StatusSuccess, StatusFail, HelperRequest, Unknown,
                 Ack, Marker, ErrKeyMismatch

--------------------------------------------------------------------------------
\* One byte out of ser.read().
LEMMA OneByte ==
  ASSUME TypeInv, drv # << >>
  PROVE  /\ Head(drv) \in 0 .. 255 /\ Head(drv) = drv[1]
         /\ Tail(drv) \in Bytes /\ Len(Tail(drv)) = Len(drv) - 1
         /\ Len(drv) \in Nat /\ Len(drv) >= 1
         /\ \A i \in 1 .. Len(drv) - 1 : Tail(drv)[i] = drv[i + 1]
         /\ Gathered \in Bytes /\ Len(Gathered) = Len(mem.got) + 1
         /\ \A i \in 1 .. Len(mem.got) : Gathered[i] = mem.got[i]
         /\ Gathered[Len(mem.got) + 1] = Head(drv)
         /\ Len(mem.got) \in Nat
<1> USE DEF Bytes
<1>1. drv \in Seq(0 .. 255) /\ mem.got \in Seq(0 .. 255)
  BY DEF TypeInv, HostTypeOK, Memory
<1>2. /\ Head(drv) \in 0 .. 255 /\ Head(drv) = drv[1] /\ Tail(drv) \in Bytes
      /\ Len(Tail(drv)) = Len(drv) - 1 /\ Len(drv) \in Nat /\ Len(drv) >= 1
      /\ \A i \in 1 .. Len(drv) - 1 : Tail(drv)[i] = drv[i + 1]
  BY <1>1, HeadTailProperties, LenProperties, EmptySeq
<1>3. PICK g \in Seq(0 .. 255) : g = mem.got
  BY <1>1
<1>4. PICK b \in 0 .. 255 : b = Head(drv)
  BY <1>2
<1>5. /\ Append(g, b) \in Seq(0 .. 255) /\ Len(Append(g, b)) = Len(g) + 1
      /\ \A i \in 1 .. Len(g) : Append(g, b)[i] = g[i]
      /\ Append(g, b)[Len(g) + 1] = b
      /\ Len(g) \in Nat
  BY AppendProperties, LenProperties
<1> QED
  BY <1>2, <1>3, <1>4, <1>5 DEF Gathered

\* The sizes of what is counted through.
LEMMA Shape ==
  /\ NumWords \in 1 .. 9 /\ BytesPerWord \in Nat \ {0} /\ KeyLength \in Nat \ {0}
  /\ HelperLength \in Nat /\ HelperLength = NumWords * BytesPerWord + 1
  /\ NumWords * BytesPerWord \in Nat
  /\ RxCapacity \in Nat /\ BytesPerWord <= RxCapacity
<1>1. NumWords \in 1 .. 9 /\ BytesPerWord \in Nat \ {0} /\ KeyLength \in Nat \ {0}
      /\ RxCapacity \in Nat /\ BytesPerWord <= RxCapacity
  BY WordShape, HostAssumption, LinkAssumption
<1>2. NumWords * BytesPerWord \in Nat
  BY <1>1
<1> QED
  BY <1>1, <1>2 DEF HelperLength

\* Positions of the words, one by one and together.
LEMMA Position ==
  ASSUME NEW w \in 0 .. NumWords
  PROVE  /\ w * BytesPerWord \in Nat /\ BytesIn(w) \in Nat /\ BytesIn(w) >= 1
         /\ BytesIn(w) <= BytesPerWord
         /\ 0 * BytesPerWord = 0
         /\ (w + 1) * BytesPerWord = w * BytesPerWord + BytesPerWord
         /\ w # NumWords => w * BytesPerWord + BytesIn(w) = (w + 1) * BytesPerWord
         /\ w * BytesPerWord + BytesIn(w) <= HelperLength
         /\ w # NumWords => w * BytesPerWord + BytesIn(w) < HelperLength
         /\ w = NumWords => w * BytesPerWord + BytesIn(w) = HelperLength /\ BytesIn(w) = 1
         /\ \A v \in 0 .. w : v * BytesPerWord \in Nat /\ v * BytesPerWord <= w * BytesPerWord
         /\ \A v \in 0 .. w : v # w => v * BytesPerWord + BytesPerWord <= w * BytesPerWord
<1> USE Shape
<1>1. w * BytesPerWord \in Nat /\ (w + 1) * BytesPerWord = w * BytesPerWord + BytesPerWord
      /\ 0 * BytesPerWord = 0
  OBVIOUS
<1>2. BytesIn(w) \in Nat /\ BytesIn(w) >= 1 /\ BytesIn(w) <= BytesPerWord
  BY DEF BytesIn
<1>3. ASSUME NEW a \in Nat, NEW b \in Nat, a < b
      PROVE  a * BytesPerWord + BytesPerWord <= b * BytesPerWord
  <2>1. PICK d \in Nat : b = a + 1 + d
    <3>1. b - a - 1 \in Nat /\ b = a + 1 + (b - a - 1)
      BY <1>3
    <3> QED
      BY <3>1
  <2>2. b * BytesPerWord = a * BytesPerWord + BytesPerWord + d * BytesPerWord
    BY <2>1
  <2>3. d * BytesPerWord \in Nat /\ a * BytesPerWord \in Nat /\ b * BytesPerWord \in Nat
    OBVIOUS
  <2> QED
    BY <2>2, <2>3
<1>4. w # NumWords => w * BytesPerWord + BytesPerWord <= NumWords * BytesPerWord
  <2>1. w # NumWords => w < NumWords /\ w \in Nat /\ NumWords \in Nat
    OBVIOUS
  <2> QED
    BY <1>3, <2>1
<1>5. ASSUME NEW v \in 0 .. w
      PROVE  /\ v * BytesPerWord \in Nat
             /\ v # w => v * BytesPerWord + BytesPerWord <= w * BytesPerWord
  <2>1. v \in Nat /\ w \in Nat /\ (v # w => v < w)
    OBVIOUS
  <2> QED
    BY <1>3, <2>1
<1>6. w # NumWords => BytesIn(w) = BytesPerWord
  BY DEF BytesIn
<1>7. w = NumWords => BytesIn(w) = 1
  BY DEF BytesIn
<1>8. PICK m \in Nat : m = w * BytesPerWord
  BY <1>1
<1>9. PICK t \in Nat : t = NumWords * BytesPerWord /\ HelperLength = t + 1
  OBVIOUS
<1>10. /\ w # NumWords => m + BytesPerWord <= t
       /\ w = NumWords => m = t
  BY <1>4, <1>8, <1>9
<1>11. /\ w # NumWords => w * BytesPerWord + BytesIn(w) = (w + 1) * BytesPerWord
       /\ w * BytesPerWord + BytesIn(w) <= HelperLength
       /\ w # NumWords => w * BytesPerWord + BytesIn(w) < HelperLength
       /\ w = NumWords => w * BytesPerWord + BytesIn(w) = HelperLength /\ BytesIn(w) = 1
  BY <1>1, <1>6, <1>7, <1>8, <1>9, <1>10
<1>12. \A v \in 0 .. w : v * BytesPerWord <= w * BytesPerWord
  BY <1>1, <1>5
<1> QED
  BY <1>1, <1>2, <1>5, <1>11, <1>12

\* What the tool writes to the line.
LEMMA Written ==
  ASSUME TypeInv
  PROVE  /\ \A c \in {CmdInfo, CmdEnroll, CmdRecon} : wire \o <<c>> \in Bytes
         /\ step = "word" =>
              /\ Slice(mem.helper, mem.word) \in Bytes
              /\ Len(Slice(mem.helper, mem.word)) = BytesIn(mem.word)
              /\ \A i \in 1 .. BytesIn(mem.word) :
                   Slice(mem.helper, mem.word)[i] = mem.helper[mem.word * BytesPerWord + i]
              /\ wire \o Slice(mem.helper, mem.word) \in Bytes
<1>1. wire \in Bytes
  BY DEF TypeInv, HostTypeOK
<1>2. \A c \in {CmdInfo, CmdEnroll, CmdRecon} : wire \o <<c>> \in Bytes
  BY <1>1, NewBytes, ByteValues, ProtocolValues
<1>3. ASSUME step = "word"
      PROVE  /\ Slice(mem.helper, mem.word) \in Bytes
             /\ Len(Slice(mem.helper, mem.word)) = BytesIn(mem.word)
             /\ \A i \in 1 .. BytesIn(mem.word) :
                  Slice(mem.helper, mem.word)[i] = mem.helper[mem.word * BytesPerWord + i]
  <2>1. PICK h \in Seq(0 .. 255) : h = mem.helper /\ Len(h) = HelperLength
    BY <1>3 DEF TypeInv, ToolInv, Loaded, Bytes
  <2>2. PICK w \in 0 .. NumWords : w = mem.word
    BY <1>3, Shape DEF TypeInv, ToolInv, HostTypeOK, Memory
  <2>3. PICK m \in Nat : m = w * BytesPerWord
    BY Position
  <2>4. PICK n \in Nat : n = m + BytesIn(w)
    BY Position
  <2>5. m <= n /\ n <= Len(h) /\ n - m = BytesIn(w)
    BY <2>1, <2>3, <2>4, Position
  <2>6. /\ SubSeq(h, m + 1, n) \in Seq(0 .. 255)
        /\ Len(SubSeq(h, m + 1, n)) = n - m
        /\ \A i \in 1 .. n - m : SubSeq(h, m + 1, n)[i] = h[m + i]
    BY <2>5, SplitAt
  <2>7. Slice(mem.helper, mem.word) = SubSeq(h, m + 1, n)
    BY <2>1, <2>2, <2>3, <2>4 DEF Slice
  <2> QED
    BY <2>1, <2>2, <2>3, <2>5, <2>6, <2>7 DEF Bytes
<1> QED
  BY <1>1, <1>2, <1>3, NewBytes

\* What it remembers when its process ends.
LEMMA Forgotten ==
  NoMemory \in Memory /\ NoMemory.got = << >>
BY Shape, Empty DEF NoMemory, Memory, Optional

LEMMA Later ==
  ASSUME TypeInv, drv # << >>, ~(Len(mem.got) < 5)
  PROVE  /\ Tail(Gathered) \in Bytes /\ Len(Tail(Gathered)) = Len(mem.got)
         /\ \A i \in 1 .. Len(mem.got) : Tail(Gathered)[i] = Gathered[i + 1]
<1>1. PICK g \in Seq(0 .. 255) : g = Gathered /\ Len(g) = Len(mem.got) + 1 /\ Len(mem.got) \in Nat
  BY OneByte DEF Bytes
<1>2. g # << >>
  BY <1>1, Empty
<1> QED
  BY <1>1, <1>2, HeadTailProperties DEF Bytes

\* A transaction is over: the process ends, or stress begins the next one.
LEMMA Reconstructs ==
  ASSUME TypeInv, NEW key \in Bytes, Reconstructed(key), step \in {"flags", "key"}
  PROVE  /\ mem' \in Memory
         /\ verdict' \in {"none", "ok", "failed", "killed"}
         /\ \/ step' = "closed" /\ mem' = NoMemory
            \/ /\ step' = "reconstruct" /\ command = "stress" /\ UNCHANGED verdict
               /\ mem'.got = << >> /\ mem'.helper = mem.helper /\ Loaded(mem.helper)
<1> USE DEF Exit, Continue
<1>0. mem \in Memory /\ verdict \in {"none", "ok", "failed", "killed"} /\ Loaded(mem.helper)
  BY DEF TypeInv, HostTypeOK, ToolInv
<1>1. CASE command # "stress"
  BY <1>0, <1>1, Forgotten DEF Reconstructed
<1>2. CASE command = "stress"
  <2>1. PICK reference : reference = IF mem.reference = None THEN key ELSE mem.reference
    OBVIOUS
  <2>2. PICK passed : passed = mem.passed + (IF key = reference THEN 1 ELSE 0)
    OBVIOUS
  <2>3. PICK failed : failed = mem.failed + (IF key = reference THEN 0 ELSE 1)
    OBVIOUS
  <2>4. reference \in Optional /\ passed \in Nat /\ failed \in Nat
    BY <1>0, <2>1, <2>2, <2>3 DEF Memory, Optional
  <2>5. \/ /\ mem' = NoMemory /\ step' = "closed" /\ verdict' \in {"ok", "failed"}
        \/ /\ step' = "reconstruct" /\ UNCHANGED verdict
           /\ mem' = [mem EXCEPT !.reference = reference, !.passed = passed,
                                 !.failed = failed, !.got = << >>]
    BY <1>2, <2>1, <2>2, <2>3 DEF Reconstructed
  <2> QED
    BY <1>0, <1>2, <2>4, <2>5, Forgotten, Empty DEF Memory
<1> QED
  BY <1>1, <1>2

LEMMA WorkType ==
  ASSUME TypeInv, HostStep, line' = line
  PROVE  HostTypeOK' /\ ToolInv'
<1> USE Shape, Empty DEF HostTypeOK, Memory, Exit, Continue, Loaded, Steps, Commands, Optional
<1>0. HostTypeOK /\ ToolInv
  BY DEF TypeInv
<1>1. ASSUME WaitForStart PROVE HostTypeOK' /\ ToolInv'
  <2>0. drv # << >> /\ step = "banner"
    BY <1>1 DEF WaitForStart, Read
  <2>1. PICK buf : buf = IF Len(mem.got) < Len(Banner) THEN Gathered ELSE Tail(Gathered)
    OBVIOUS
  <2>2. buf \in Bytes
    BY <2>0, <2>1, OneByte, Later, ByteValues
  <2>3. /\ UNCHANGED <<command, file, wire, verdict>> /\ drv' = Tail(drv)
        /\ \/ step' = command /\ mem' = [mem EXCEPT !.got = << >>]
           \/ step' = "banner" /\ mem' = [mem EXCEPT !.got = buf]
    BY <1>1, <2>1 DEF WaitForStart, Read
  <2>4. HostTypeOK'
    BY <1>0, <2>0, <2>2, <2>3, OneByte
  <2>5. ToolInv'
    BY <1>0, <2>3 DEF ToolInv
  <2> QED
    BY <2>4, <2>5
<1>2. ASSUME SendInfo PROVE HostTypeOK' /\ ToolInv'
  <2>1. HostTypeOK'
    BY <1>0, <1>2, Written DEF ToolInv, SendInfo, Write
  <2>2. ToolInv'
    BY <1>0, <1>2 DEF ToolInv, SendInfo, Write
  <2> QED
    BY <2>1, <2>2
<1>3. ASSUME ReadInfo PROVE HostTypeOK' /\ ToolInv'
  <2>1. HostTypeOK'
    BY <1>0, <1>3, Forgotten, OneByte DEF ToolInv, ReadInfo, Read
  <2>2. ToolInv'
    BY <1>0, <1>3, Forgotten, OneByte, ByteValues DEF ToolInv, ReadInfo, Read
  <2> QED
    BY <2>1, <2>2
<1>4. ASSUME StartStress PROVE HostTypeOK' /\ ToolInv'
  <2>1. HostTypeOK'
    BY <1>0, <1>4, Forgotten DEF ToolInv, StartStress, Write
  <2>2. ToolInv'
    BY <1>0, <1>4, Forgotten DEF ToolInv, StartStress, Write
  <2> QED
    BY <2>1, <2>2
<1>5. ASSUME SendEnroll PROVE HostTypeOK' /\ ToolInv'
  <2>1. HostTypeOK'
    BY <1>0, <1>5, Written DEF ToolInv, SendEnroll, Write
  <2>2. ToolInv'
    BY <1>0, <1>5 DEF ToolInv, SendEnroll, Write
  <2> QED
    BY <2>1, <2>2
<1>6. ASSUME ReadEnrollStatus PROVE HostTypeOK' /\ ToolInv'
  <2>1. HostTypeOK'
    BY <1>0, <1>6, Forgotten, OneByte DEF ToolInv, ReadEnrollStatus, Read, Answer
  <2>2. ToolInv'
    BY <1>0, <1>6, Forgotten, OneByte DEF ToolInv, ReadEnrollStatus, Read, Answer
  <2> QED
    BY <2>1, <2>2
<1>7. ASSUME ReadEnrollHelper PROVE HostTypeOK' /\ ToolInv'
  <2>0. drv # << >> /\ step = "enroll_helper"
    BY <1>7 DEF ReadEnrollHelper, Read
  <2>1. /\ UNCHANGED <<command, file, wire, verdict>> /\ drv' = Tail(drv)
        /\ \/ /\ Len(Gathered) < HelperLength
              /\ step' = "enroll_helper" /\ mem' = [mem EXCEPT !.got = Gathered]
           \/ /\ ~(Len(Gathered) < HelperLength)
              /\ step' = "save" /\ mem' = [mem EXCEPT !.got = << >>, !.helper = Gathered]
    BY <1>7 DEF ReadEnrollHelper, Read
  <2>2. HostTypeOK'
    BY <1>0, <2>0, <2>1, OneByte
  <2>3. Len(mem.got) < HelperLength /\ Gathered \in Bytes /\ Len(Gathered) = Len(mem.got) + 1
        /\ Len(mem.got) \in Nat
    BY <1>0, <2>0, OneByte DEF ToolInv
  <2>4. ASSUME Len(Gathered) < HelperLength
        PROVE  ToolInv'
    <3>1. mem'.got = Gathered /\ step' = "enroll_helper" /\ command' = command
      BY <1>0, <2>1, <2>4
    <3> QED
      BY <1>0, <2>0, <2>4, <3>1 DEF ToolInv
  <2>5. ASSUME ~(Len(Gathered) < HelperLength)
        PROVE  ToolInv'
    <3>1. mem'.got = << >> /\ mem'.helper = Gathered /\ step' = "save" /\ command' = command
      BY <1>0, <2>1, <2>5
    <3>2. Len(Gathered) = HelperLength
      BY <2>3, <2>5
    <3> QED
      BY <1>0, <2>0, <2>3, <3>1, <3>2 DEF ToolInv
  <2> QED
    BY <2>2, <2>4, <2>5
<1>8. ASSUME OpenFile PROVE HostTypeOK' /\ ToolInv'
  <2>1. HostTypeOK'
    BY <1>0, <1>8 DEF ToolInv, OpenFile, Write
  <2>2. ToolInv'
    BY <1>0, <1>8 DEF ToolInv, OpenFile, Write
  <2> QED
    BY <2>1, <2>2
<1>9. ASSUME SaveFile PROVE HostTypeOK' /\ ToolInv'
  <2>1. HostTypeOK'
    BY <1>0, <1>9, Forgotten DEF ToolInv, SaveFile, Write
  <2>2. ToolInv'
    BY <1>0, <1>9, Forgotten DEF ToolInv, SaveFile, Write
  <2> QED
    BY <2>1, <2>2
<1>10. ASSUME SendRecon PROVE HostTypeOK' /\ ToolInv'
  <2>1. PICK data : data = IF mem.helper = None THEN file ELSE mem.helper
    OBVIOUS
  <2>2. step = "reconstruct" /\ UNCHANGED <<command, file, drv>>
        /\ \/ /\ Usable(data) /\ wire' = wire \o <<CmdRecon>>
              /\ step' = "ready" /\ UNCHANGED verdict
              /\ mem' = [mem EXCEPT !.helper = data, !.word = 0, !.progress = 0]
           \/ step' = "closed" /\ verdict' = "failed" /\ mem' = NoMemory /\ wire' = wire
    BY <1>10, <2>1 DEF SendRecon, Write
  <2>3. Usable(data) => data \in Bytes /\ Len(data) = HelperLength
    BY <1>0, <2>1 DEF Usable
  <2>m. mem' \in Memory
    <3>1. mem \in Memory /\ 0 \in 0 .. NumWords + 1 /\ 0 \in 0 .. 7
      BY <1>0
    <3>2. Usable(data) => [mem EXCEPT !.helper = data, !.word = 0, !.progress = 0] \in Memory
      BY <2>3, <3>1
    <3> QED
      BY <2>2, <3>2, Forgotten
  <2>4. HostTypeOK'
    <3>1. wire' \in Bytes
      BY <1>0, <2>2, Written
    <3> QED
      BY <1>0, <2>2, <2>m, <3>1
  <2>5. ToolInv'
    BY <1>0, <2>2, <2>3 DEF ToolInv
  <2> QED
    BY <2>4, <2>5
<1>11. ASSUME ReadReady PROVE HostTypeOK' /\ ToolInv'
  <2>1. HostTypeOK'
    BY <1>0, <1>11, Forgotten, OneByte DEF ToolInv, ReadReady, Read, Answer
  <2>2. ToolInv'
    BY <1>0, <1>11, Forgotten, OneByte DEF ToolInv, ReadReady, Read, Answer
  <2> QED
    BY <2>1, <2>2
<1>12. ASSUME SendWord PROVE HostTypeOK' /\ ToolInv'
  <2>1. HostTypeOK'
    BY <1>0, <1>12, Written DEF ToolInv, SendWord, Write
  <2>2. ToolInv'
    BY <1>0, <1>12 DEF ToolInv, SendWord, Write
  <2> QED
    BY <2>1, <2>2
<1>13. ASSUME ReadAck PROVE HostTypeOK' /\ ToolInv'
  <2>0. drv # << >> /\ step = "ack"
    BY <1>13 DEF ReadAck, Answer, Read
  <2>1. /\ UNCHANGED <<command, file, wire>> /\ drv' = Tail(drv)
        /\ \/ step' = "fail_code" /\ UNCHANGED <<verdict, mem>>
           \/ /\ step' = IF mem.word = NumWords THEN "marker" ELSE "word"
              /\ mem' = [mem EXCEPT !.word = mem.word + 1] /\ UNCHANGED verdict
           \/ step' = "closed" /\ verdict' = "failed" /\ mem' = NoMemory
    BY <1>13 DEF ReadAck, Answer, Read
  <2>2. mem.word \in 0 .. NumWords /\ mem.progress = 0 /\ Loaded(mem.helper)
        /\ command \in {"reconstruct", "stress"}
    BY <1>0, <2>0 DEF ToolInv
  <2>m. mem' \in Memory
    <3>1. mem \in Memory /\ mem.word + 1 \in 0 .. NumWords + 1
      BY <1>0, <2>2
    <3>2. [mem EXCEPT !.word = mem.word + 1] \in Memory
      BY <3>1
    <3> QED
      BY <2>1, <3>1, <3>2, Forgotten
  <2>3. HostTypeOK'
    BY <1>0, <2>0, <2>1, <2>m, OneByte
  <2>4. CASE step' \in {"fail_code", "closed"}
    BY <2>3, <2>4 DEF ToolInv
  <2>5. CASE step' \notin {"fail_code", "closed"}
    <3>1. mem' = [mem EXCEPT !.word = mem.word + 1]
      BY <2>1, <2>5
    <3>2. mem'.word = mem.word + 1 /\ mem'.progress = mem.progress /\ mem'.helper = mem.helper
      BY <1>0, <2>2, <3>1
    <3>3. command' = command /\ step' = IF mem.word = NumWords THEN "marker" ELSE "word"
      BY <2>1, <2>5
    <3> QED
      BY <2>2, <2>3, <3>2, <3>3 DEF ToolInv
  <2> QED
    BY <2>3, <2>4, <2>5
<1>14. ASSUME ReadMarker PROVE HostTypeOK' /\ ToolInv'
  <2>0. drv # << >> /\ step = "marker"
    BY <1>14 DEF ReadMarker, Answer, Read
  <2>1. /\ UNCHANGED <<command, file, wire>> /\ drv' = Tail(drv)
        /\ \/ step' = "fail_code" /\ UNCHANGED <<verdict, mem>>
           \/ /\ step' = IF mem.progress = 6 THEN "status" ELSE "marker"
              /\ mem' = [mem EXCEPT !.progress = mem.progress + 1] /\ UNCHANGED verdict
           \/ step' = "closed" /\ verdict' = "failed" /\ mem' = NoMemory
    BY <1>14 DEF ReadMarker, Answer, Read
  <2>2. mem.progress \in 0 .. 6 /\ Loaded(mem.helper) /\ command \in {"reconstruct", "stress"}
    BY <1>0, <2>0 DEF ToolInv
  <2>m. mem' \in Memory
    <3>1. mem \in Memory /\ mem.progress + 1 \in 0 .. 7
      BY <1>0, <2>2
    <3>2. [mem EXCEPT !.progress = mem.progress + 1] \in Memory
      BY <3>1
    <3> QED
      BY <2>1, <3>1, <3>2, Forgotten
  <2>3. HostTypeOK'
    BY <1>0, <2>0, <2>1, <2>m, OneByte
  <2>4. CASE step' \in {"fail_code", "closed"}
    BY <2>3, <2>4 DEF ToolInv
  <2>5. CASE step' \notin {"fail_code", "closed"}
    <3>1. mem' = [mem EXCEPT !.progress = mem.progress + 1]
      BY <2>1, <2>5
    <3>2. mem'.progress = mem.progress + 1 /\ mem'.helper = mem.helper
      BY <1>0, <2>2, <3>1
    <3>3. command' = command /\ step' = IF mem.progress = 6 THEN "status" ELSE "marker"
      BY <2>1, <2>5
    <3> QED
      BY <2>2, <2>3, <3>2, <3>3 DEF ToolInv
  <2> QED
    BY <2>3, <2>4, <2>5
<1>15. ASSUME ReadStatus PROVE HostTypeOK' /\ ToolInv'
  <2>1. HostTypeOK'
    BY <1>0, <1>15, Forgotten, OneByte DEF ToolInv, ReadStatus, Read, Answer
  <2>2. ToolInv'
    BY <1>0, <1>15, Forgotten, OneByte DEF ToolInv, ReadStatus, Read, Answer
  <2> QED
    BY <2>1, <2>2
<1>16. ASSUME ReadFlags PROVE HostTypeOK' /\ ToolInv'
  <2>0. drv # << >> /\ step = "flags"
    BY <1>16 DEF ReadFlags, Read
  <2>1. /\ UNCHANGED <<command, file, wire>> /\ drv' = Tail(drv)
        /\ \/ Reconstructed(<< >>)
           \/ step' = "key" /\ mem' = [mem EXCEPT !.got = << >>] /\ UNCHANGED verdict
           \/ step' = "closed" /\ verdict' = "failed" /\ mem' = NoMemory
    BY <1>16 DEF ReadFlags, Read
  <2>2. CASE Reconstructed(<< >>)
    <3>1. HostTypeOK'
      BY <1>0, <2>0, <2>1, <2>2, OneByte, Reconstructs
    <3>2. ToolInv'
      BY <1>0, <2>0, <2>1, <2>2, Reconstructs DEF ToolInv
    <3> QED
      BY <3>1, <3>2
  <2>3. CASE ~Reconstructed(<< >>)
    <3>1. HostTypeOK'
      BY <1>0, <2>0, <2>1, <2>3, OneByte, Forgotten
    <3>2. ToolInv'
      BY <1>0, <2>0, <2>1, <2>3 DEF ToolInv
    <3> QED
      BY <3>1, <3>2
  <2> QED
    BY <2>2, <2>3
<1>17. ASSUME ReadKey PROVE HostTypeOK' /\ ToolInv'
  <2>0. drv # << >> /\ step = "key"
    BY <1>17 DEF ReadKey, Read
  <2>1. /\ UNCHANGED <<command, file, wire>> /\ drv' = Tail(drv)
        /\ \/ Reconstructed(Gathered)
           \/ /\ Len(Gathered) < KeyLength /\ step' = "key" /\ UNCHANGED verdict
              /\ mem' = [mem EXCEPT !.got = Gathered]
    BY <1>17 DEF ReadKey, Read
  <2>2. CASE Reconstructed(Gathered)
    <3>1. HostTypeOK'
      BY <1>0, <2>0, <2>1, <2>2, OneByte, Reconstructs
    <3>2. ToolInv'
      BY <1>0, <2>0, <2>1, <2>2, OneByte, Reconstructs DEF ToolInv
    <3> QED
      BY <3>1, <3>2
  <2>3. CASE ~Reconstructed(Gathered)
    <3>1. HostTypeOK'
      BY <1>0, <2>0, <2>1, <2>3, OneByte
    <3>2. ToolInv'
      BY <1>0, <2>0, <2>1, <2>3 DEF ToolInv
    <3> QED
      BY <3>1, <3>2
  <2> QED
    BY <2>2, <2>3
<1>18. ASSUME ReadFailCode PROVE HostTypeOK' /\ ToolInv'
  <2>1. HostTypeOK'
    BY <1>0, <1>18, Forgotten, OneByte DEF ToolInv, ReadFailCode, Read, Answer
  <2>2. ToolInv'
    BY <1>0, <1>18, Forgotten, OneByte DEF ToolInv, ReadFailCode, Read, Answer
  <2> QED
    BY <2>1, <2>2
<1> QED
  BY <1>1, <1>2, <1>3, <1>4, <1>5, <1>6, <1>7, <1>8, <1>9, <1>10, <1>11, <1>12, <1>13, <1>14, <1>15, <1>16, <1>17, <1>18 DEF HostStep

--------------------------------------------------------------------------------
\* Both modules read the same definitions of the protocol.
LEMMA SameBytes ==
  /\ Device!CmdInfo = CmdInfo /\ Device!CmdEnroll = CmdEnroll /\ Device!CmdRecon = CmdRecon
  /\ Device!StatusSuccess = StatusSuccess /\ Device!StatusFail = StatusFail
  /\ Device!HelperRequest = HelperRequest /\ Device!Unknown = Unknown
  /\ Device!Banner = Banner /\ Device!NoHelper = NoHelper
  /\ \A e : Device!InfoReplyOf(e) = InfoReplyOf(e)
  /\ \A i : Device!Marker(i) = Marker(i)
  /\ \A w : Device!Ack(w) = Ack(w) /\ Device!BytesIn(w) = BytesIn(w)
BY DEF CmdInfo, CmdEnroll, CmdRecon, StatusSuccess, StatusFail, HelperRequest, Unknown, Banner,
       NoHelper, InfoReplyOf, Marker, Ack, BytesIn, Device!CmdInfo, Device!CmdEnroll,
       Device!CmdRecon, Device!StatusSuccess, Device!StatusFail, Device!HelperRequest,
       Device!Unknown, Device!Banner, Device!NoHelper, Device!InfoReplyOf, Device!Marker,
       Device!Ack, Device!BytesIn

\* A key the diagnostic build shows.
LEMMA KeyType ==
  ASSUME NEW key \in Keys
  PROVE  key \in Bytes /\ Len(key) = KeyLength
<1>1. key \in [1 .. KeyLength -> 0 .. 255] /\ KeyLength \in Nat
  BY LinkAssumption, Shape
<1> QED
  BY <1>1 DEF Bytes

LEMMA HelperType ==
  ASSUME NEW h \in Enrolments
  PROVE  /\ FlattenWords(h) \in Bytes /\ Len(FlattenWords(h)) = HelperLength
         /\ \A w \in 0 .. NumWords :
              /\ h[w] \in Bytes /\ Len(h[w]) = BytesIn(w)
              /\ \A i \in 1 .. BytesIn(w) : FlattenWords(h)[w * BytesPerWord + i] = h[w][i]
<1>1. h \in Whole
  BY LinkAssumption
<1>2. \A w \in 0 .. NumWords : h[w] \in Bytes /\ Len(h[w]) = BytesIn(w)
  BY <1>1 DEF Whole, Helper, Bytes
<1> QED
  BY <1>1, <1>2, FlattenType DEF Bytes

\* The parts of the reply each step of the device sends.
LEMMA Parts ==
  ASSUME TypeInv
  PROVE  /\ \A e \in BOOLEAN : InfoReplyOf(e) \in Bytes
         /\ Banner \in Bytes /\ <<Unknown>> \in Bytes /\ << >> \in Bytes
         /\ <<HelperRequest>> \in Bytes /\ <<StatusSuccess>> \in Bytes
         /\ <<Ack(word)>> \in Bytes /\ <<Ack(word), Marker(1)>> \in Bytes
         /\ \A i \in 1 .. 3 : <<Marker(i + 1)>> \in Bytes
         /\ <<Marker(5), Marker(6)>> \in Bytes
         /\ <<Marker(7), StatusSuccess, 0>> \in Bytes
         /\ <<Marker(7), StatusSuccess, 1>> \in Bytes
         /\ <<StatusFail, code>> \in Bytes
         /\ stage = "sending" => out[word] \in Bytes /\ Len(out[word]) = BytesIn(word)
<1>1. word \in 0 .. NumWords /\ code \in 0 .. 255 /\ (stage = "sending" => out \in Enrolments)
  BY ProtocolValues DEF TypeInv, DeviceTypeOK, LoopInv, ErrKeyMismatch
<1>2. \A i \in 1 .. 3 : Marker(i + 1) \in 0 .. 255
  BY DEF Marker
<1>3. Marker(1) \in 0 .. 255 /\ Marker(5) \in 0 .. 255 /\ Marker(6) \in 0 .. 255 /\ Marker(7) \in 0 .. 255
  BY DEF Marker
<1>4. Ack(word) \in 0 .. 255
  BY <1>1, ProtocolValues
<1>5. StatusSuccess \in 0 .. 255 /\ StatusFail \in 0 .. 255 /\ Unknown \in 0 .. 255
      /\ HelperRequest \in 0 .. 255 /\ 0 \in 0 .. 255 /\ 1 \in 0 .. 255
  BY ProtocolValues
<1>6. <<Marker(7), StatusSuccess, 0>> \in Bytes /\ <<Marker(7), StatusSuccess, 1>> \in Bytes
  BY <1>3, <1>5, ByteValues
<1>7. <<Ack(word), Marker(1)>> \in Bytes /\ <<Marker(5), Marker(6)>> \in Bytes /\ <<StatusFail, code>> \in Bytes
  BY <1>1, <1>3, <1>4, <1>5, ByteValues
<1>8. /\ <<Unknown>> \in Bytes /\ <<HelperRequest>> \in Bytes /\ <<StatusSuccess>> \in Bytes
      /\ <<Ack(word)>> \in Bytes /\ \A i \in 1 .. 3 : <<Marker(i + 1)>> \in Bytes
  BY <1>2, <1>4, <1>5, ByteValues
<1>9. stage = "sending" => out[word] \in Bytes /\ Len(out[word]) = BytesIn(word)
  BY <1>1, HelperType
<1> QED
  BY <1>6, <1>7, <1>8, <1>9, ByteValues, Empty

\* The same for the step that ends a transaction.
LEMMA KeyShown ==
  ASSUME TypeInv, Device!Succeed
  PROVE  \E t \in Bytes :
           /\ resp' = resp \o t
           /\ Len(t) = IF export THEN 3 + KeyLength ELSE 3
           /\ t[1] = Marker(7) /\ t[2] = StatusSuccess /\ t[3] = (IF export THEN 1 ELSE 0)
           /\ export => \E key \in Keys : \A i \in 1 .. KeyLength : t[3 + i] = key[i]
<1>1. CASE ~export
  <2>1. resp' = resp \o <<Marker(7), StatusSuccess, 0>>
    BY <1>1, SameBytes DEF Device!Succeed, Device!Send
  <2>2. PICK t \in Bytes : t = <<Marker(7), StatusSuccess, 0>>
    BY Parts
  <2>3. Len(t) = 3 /\ t[1] = Marker(7) /\ t[2] = StatusSuccess /\ t[3] = 0
    BY <2>2
  <2> QED
    BY <1>1, <2>1, <2>2, <2>3
<1>2. CASE export
  <2>1. PICK key \in Keys : resp' = resp \o (<<Marker(7), StatusSuccess, 1>> \o key)
    BY <1>2, SameBytes DEF Device!Succeed, Device!Send
  <2>2. PICK k \in Bytes : k = key /\ Len(k) = KeyLength
    BY KeyType
  <2>3. PICK u \in Bytes : u = <<Marker(7), StatusSuccess, 1>>
    BY Parts
  <2>4. Len(u) = 3 /\ u[1] = Marker(7) /\ u[2] = StatusSuccess /\ u[3] = 1
    BY <2>3
  <2>5. PICK t : t = u \o k
    OBVIOUS
  <2>6. t \in Bytes /\ Len(t) = 3 + KeyLength
        /\ \A i \in 1 .. 3 + KeyLength : t[i] = IF i <= 3 THEN u[i] ELSE k[i - 3]
    <3>1. /\ u \o k \in Bytes /\ Len(u \o k) = Len(u) + Len(k)
          /\ \A i \in 1 .. Len(u) + Len(k) : (u \o k)[i] = IF i <= Len(u) THEN u[i] ELSE k[i - Len(u)]
      BY NewBytes
    <3> QED
      BY <2>2, <2>4, <2>5, <3>1
  <2>7. t[1] = Marker(7) /\ t[2] = StatusSuccess /\ t[3] = 1
    <3>1. 1 \in 1 .. 3 + KeyLength /\ 2 \in 1 .. 3 + KeyLength /\ 3 \in 1 .. 3 + KeyLength
      BY Shape
    <3> QED
      BY <2>4, <2>6, <3>1
  <2>8. \A i \in 1 .. KeyLength : t[3 + i] = key[i]
    <3> SUFFICES ASSUME NEW i \in 1 .. KeyLength
                 PROVE  t[3 + i] = key[i]
      OBVIOUS
    <3>1. 3 + i \in 1 .. 3 + KeyLength /\ ~(3 + i <= 3) /\ 3 + i - 3 = i
      BY Shape
    <3> QED
      BY <2>2, <2>6, <3>1
  <2>9. resp' = resp \o t
    BY <2>1, <2>2, <2>3, <2>5
  <2> QED
    BY <1>2, <2>6, <2>7, <2>8, <2>9
<1> QED
  BY <1>1, <1>2 DEF TypeInv, DeviceTypeOK

\* The bytes a step of the device puts on the line.
Speaks(t) ==
  /\ t \in Bytes
  /\ line' = line \o t
  /\ resp' = IF stage = "cmd" THEN t ELSE resp \o t

LEMMA SpeaksType ==
  ASSUME TypeInv, NEW t, Speaks(t)
  PROVE  resp' \in Bytes /\ line' \in Bytes /\ t \in Bytes
BY NewBytes DEF TypeInv, HostTypeOK, DeviceTypeOK, Speaks

LEMMA Later1 ==
  ASSUME TypeInv, line' = line \o Sent, stage # "cmd", NEW t \in Bytes, resp' = resp \o t
  PROVE  Speaks(t)
BY Said DEF Speaks, TypeInv, DeviceTypeOK

LEMMA Silent ==
  ASSUME TypeInv, line' = line \o Sent, stage # "cmd", resp' = resp
  PROVE  Speaks(<< >>)
<1>1. resp \in Seq(0 .. 255)
  BY DEF TypeInv, DeviceTypeOK, Bytes
<1>2. resp \o << >> = resp
  BY <1>1, ConcatEmptySeq
<1> QED
  BY <1>2, Later1, Empty

LEMMA First1 ==
  ASSUME line' = line \o Sent, stage = "cmd", NEW t \in Bytes, resp' = t
  PROVE  Speaks(t)
BY SaidFirst DEF Speaks

LEMMA Speech ==
  ASSUME TypeInv, Run
  PROVE  /\ Device!Boot => Speaks(Banner)
         /\ Device!Info => Speaks(InfoReplyOf(export))
         /\ Device!UnknownCommand => Speaks(<<Unknown>>)
         /\ Device!Enroll => Speaks(<< >>)
         /\ Device!Recon => Speaks(<<HelperRequest>>)
         /\ Device!EnrollAccept => Speaks(<<StatusSuccess>>)
         /\ Device!EnrollSend => Speaks(out[word])
         /\ Device!HelperByte =>
              IF Len(fed') < word * BytesPerWord + BytesIn(word) THEN Speaks(<< >>)
              ELSE IF word = NumWords THEN Speaks(<<Ack(word), Marker(1)>>)
                   ELSE Speaks(<<Ack(word)>>)
         /\ Device!Progressed =>
              \/ \E i \in 1 .. 3 : Len(resp) = NumWords + 2 + i /\ Speaks(<<Marker(i + 1)>>)
              \/ Len(resp) = NumWords + 6 /\ Speaks(<<Marker(5), Marker(6)>>)
         /\ Device!Succeed =>
              /\ Len(resp) = NumWords + 8
              /\ \E t : /\ Speaks(t)
                        /\ Len(t) = IF export THEN 3 + KeyLength ELSE 3
                        /\ t[1] = Marker(7) /\ t[2] = StatusSuccess
                        /\ t[3] = (IF export THEN 1 ELSE 0)
                        /\ export => \E key \in Keys : \A i \in 1 .. KeyLength : t[3 + i] = key[i]
         /\ Device!Close \/ Device!EnrollFail \/ Device!HelperTimeout \/ Device!PipelineFail
              => Speaks(<< >>)
         /\ Device!FailReport => Speaks(<<StatusFail, code>>)
<1> USE SameBytes, Parts, Shape
<1>0. line' = line \o Sent /\ export \in BOOLEAN /\ Len(resp) \in Nat
  BY LenProperties DEF Run, TypeInv, DeviceTypeOK, Bytes
<1>1. Device!Boot => Speaks(Banner)
  BY <1>0, Later1 DEF Device!Boot, Device!Goto, Device!Send
<1>2. Device!Info => Speaks(InfoReplyOf(export))
  BY <1>0, First1 DEF Device!Info, Device!ReadCommand
<1>3. Device!UnknownCommand => Speaks(<<Unknown>>)
  BY <1>0, First1 DEF Device!UnknownCommand, Device!ReadCommand
<1>4. Device!Enroll => Speaks(<< >>)
  BY <1>0, First1 DEF Device!Enroll, Device!ReadCommand
<1>5. Device!Recon => Speaks(<<HelperRequest>>)
  BY <1>0, First1 DEF Device!Recon, Device!ReadCommand
<1>6. Device!EnrollAccept => Speaks(<<StatusSuccess>>)
  BY <1>0, Later1 DEF Device!EnrollAccept, Device!Goto, Device!Send
<1>7. Device!EnrollSend => Speaks(out[word])
  BY <1>0, Later1 DEF Device!EnrollSend, Device!Send
<1>8. Device!HelperByte =>
        IF Len(fed') < word * BytesPerWord + BytesIn(word) THEN Speaks(<< >>)
        ELSE IF word = NumWords THEN Speaks(<<Ack(word), Marker(1)>>) ELSE Speaks(<<Ack(word)>>)
  BY <1>0, Later1, Silent DEF Device!HelperByte, Device!Send
<1>9. Device!Progressed =>
        \/ \E i \in 1 .. 3 : Len(resp) = NumWords + 2 + i /\ Speaks(<<Marker(i + 1)>>)
        \/ Len(resp) = NumWords + 6 /\ Speaks(<<Marker(5), Marker(6)>>)
  <2> SUFFICES ASSUME Device!Progressed
               PROVE  \/ \E i \in 1 .. 3 : Len(resp) = NumWords + 2 + i /\ Speaks(<<Marker(i + 1)>>)
                      \/ Len(resp) = NumWords + 6 /\ Speaks(<<Marker(5), Marker(6)>>)
    OBVIOUS
  <2>1. CASE Device!Reached \in 1 .. 3 /\ resp' = resp \o <<Marker(Device!Reached + 1)>>
    <3>1. PICK i \in 1 .. 3 : i = Device!Reached
      BY <2>1
    <3>2. Len(resp) = NumWords + 2 + i
      BY <1>0, <3>1 DEF Device!Reached
    <3>3. Speaks(<<Marker(i + 1)>>)
      BY <1>0, <2>1, <3>1, Later1 DEF Device!Progressed
    <3> QED
      BY <3>2, <3>3
  <2>2. CASE Device!Reached = 4 /\ resp' = resp \o <<Marker(5), Marker(6)>>
    <3>1. Len(resp) = NumWords + 6
      BY <1>0, <2>2 DEF Device!Reached
    <3>2. PICK t \in Bytes : t = <<Marker(5), Marker(6)>>
      OBVIOUS
    <3>3. stage # "cmd"
      BY DEF Device!Progressed
    <3>4. Speaks(t)
      BY <1>0, <2>2, <3>2, <3>3, Later1
    <3> QED
      BY <3>1, <3>2, <3>4
  <2>3. \/ Device!Reached \in 1 .. 3 /\ resp' = resp \o <<Device!Marker(Device!Reached + 1)>>
        \/ Device!Reached = 4 /\ resp' = resp \o <<Device!Marker(5), Device!Marker(6)>>
    BY Zenon DEF Device!Progressed, Device!Send
  <2>4. /\ Device!Marker(Device!Reached + 1) = Marker(Device!Reached + 1)
        /\ Device!Marker(5) = Marker(5) /\ Device!Marker(6) = Marker(6)
    BY SameBytes
  <2> QED
    BY <2>1, <2>2, <2>3, <2>4
<1>10. Device!Succeed =>
         /\ Len(resp) = NumWords + 8
         /\ \E t : /\ Speaks(t)
                   /\ Len(t) = IF export THEN 3 + KeyLength ELSE 3
                   /\ t[1] = Marker(7) /\ t[2] = StatusSuccess
                   /\ t[3] = (IF export THEN 1 ELSE 0)
                   /\ export => \E key \in Keys : \A i \in 1 .. KeyLength : t[3 + i] = key[i]
  <2> SUFFICES ASSUME Device!Succeed
               PROVE  /\ Len(resp) = NumWords + 8
                      /\ \E t : /\ Speaks(t)
                                /\ Len(t) = IF export THEN 3 + KeyLength ELSE 3
                                /\ t[1] = Marker(7) /\ t[2] = StatusSuccess
                                /\ t[3] = (IF export THEN 1 ELSE 0)
                                /\ export => \E key \in Keys : \A i \in 1 .. KeyLength : t[3 + i] = key[i]
    OBVIOUS
  <2>1. PICK t \in Bytes : /\ resp' = resp \o t
                           /\ Len(t) = IF export THEN 3 + KeyLength ELSE 3
                           /\ t[1] = Marker(7) /\ t[2] = StatusSuccess /\ t[3] = (IF export THEN 1 ELSE 0)
                           /\ export => \E key \in Keys : \A i \in 1 .. KeyLength : t[3 + i] = key[i]
    BY KeyShown
  <2>2. stage # "cmd" /\ Len(resp) = NumWords + 8
    BY <1>0 DEF Device!Succeed, Device!Goto, Device!Reached
  <2>3. Speaks(t)
    BY <1>0, <2>1, <2>2, Later1
  <2> QED
    BY <2>1, <2>2, <2>3
<1>11. Device!Close \/ Device!EnrollFail \/ Device!HelperTimeout \/ Device!PipelineFail => Speaks(<< >>)
  BY <1>0, Silent DEF Device!Close, Device!EnrollFail, Device!HelperTimeout, Device!PipelineFail,
                      Device!Fail, Device!Goto
<1>12. Device!FailReport => Speaks(<<StatusFail, code>>)
  BY <1>0, Later1 DEF Device!FailReport, Device!Goto, Device!Send
<1> QED
  BY <1>1, <1>2, <1>3, <1>4, <1>5, <1>6, <1>7, <1>8, <1>9, <1>10, <1>11, <1>12

\* A step of the device.
LEMMA RunType ==
  ASSUME TypeInv, Run
  PROVE  DeviceTypeOK' /\ LoopInv' /\ line' \in Bytes
<1> USE Shape, Empty DEF DeviceTypeOK, LoopInv, Device!Stages
<1>0. DeviceTypeOK /\ LoopInv
  BY DEF TypeInv
<1>1. used' \in Optional /\ faulted' \in BOOLEAN /\ clean' \in BOOLEAN
  BY <1>0 DEF Run, Optional
<1>2. \A t : Speaks(t) => resp' \in Bytes /\ line' \in Bytes
  BY SpeaksType
<1>3. rx # << >> => Head(rx) \in 0 .. 255 /\ Tail(rx) \in Bytes
  BY <1>0, HeadTailProperties DEF Bytes
<1>4. ASSUME Device!Boot PROVE DeviceTypeOK' /\ LoopInv' /\ line' \in Bytes
  BY <1>0, <1>1, <1>2, <1>4, Speech DEF Device!Boot, Device!Goto
<1>5. ASSUME Device!Info PROVE DeviceTypeOK' /\ LoopInv' /\ line' \in Bytes
  BY <1>0, <1>1, <1>2, <1>3, <1>5, Speech DEF Device!Info, Device!ReadCommand
<1>6. ASSUME Device!UnknownCommand PROVE DeviceTypeOK' /\ LoopInv' /\ line' \in Bytes
  BY <1>0, <1>1, <1>2, <1>3, <1>6, Speech DEF Device!UnknownCommand, Device!ReadCommand
<1>7. ASSUME Device!Enroll PROVE DeviceTypeOK' /\ LoopInv' /\ line' \in Bytes
  BY <1>0, <1>1, <1>2, <1>3, <1>7, Speech DEF Device!Enroll, Device!ReadCommand
<1>8. ASSUME Device!Recon PROVE DeviceTypeOK' /\ LoopInv' /\ line' \in Bytes
  <2>1. /\ fed' = << >> /\ word' = 0 /\ stage' = "helper"
        /\ UNCHANGED <<code, out, export>> /\ rx' \in Bytes
    BY <1>0, <1>3, <1>8 DEF Device!Recon, Device!ReadCommand
  <2>2. 0 \in 0 .. NumWords /\ 0 * BytesPerWord = 0 /\ BytesIn(0) >= 1 /\ BytesIn(0) \in Nat
    <3>1. 0 \in 0 .. NumWords
      OBVIOUS
    <3> QED
      BY <3>1, Position
  <2> QED
    BY <1>0, <1>1, <1>2, <1>8, <2>1, <2>2, Speech
<1>9. ASSUME Device!EnrollAccept PROVE DeviceTypeOK' /\ LoopInv' /\ line' \in Bytes
  BY <1>0, <1>1, <1>2, <1>9, Speech DEF Device!EnrollAccept, Device!Goto
<1>10. ASSUME Device!EnrollSend PROVE DeviceTypeOK' /\ LoopInv' /\ line' \in Bytes
  BY <1>0, <1>1, <1>2, <1>10, Speech DEF Device!EnrollSend
<1>11. ASSUME Device!HelperByte PROVE DeviceTypeOK' /\ LoopInv' /\ line' \in Bytes
  <2>1. /\ stage = "helper" /\ rx # << >> /\ rx' = Tail(rx) /\ fed' = Append(fed, Head(rx))
        /\ UNCHANGED <<code, out, export>>
        /\ IF Len(fed') < word * BytesPerWord + BytesIn(word)
           THEN UNCHANGED <<stage, word>>
           ELSE IF word = NumWords
                THEN stage' = "pipeline" /\ word' = 0
                ELSE stage' = stage /\ word' = word + 1
    BY <1>11, SameBytes DEF Device!HelperByte
  <2>2. fed' \in Bytes /\ Len(fed') = Len(fed) + 1 /\ Len(fed) \in Nat
    BY <1>0, <1>3, <2>1, AppendProperties, LenProperties DEF Bytes
  <2>3. PICK m \in Nat : m = word * BytesPerWord
    BY <1>0, Position
  <2>4. m <= Len(fed) /\ Len(fed) < m + BytesIn(word) /\ BytesIn(word) \in Nat
    BY <1>0, <2>1, <2>3, Position
  <2>5. resp' \in Bytes /\ line' \in Bytes
    BY <1>2, <1>11, Speech
  <2>6. word # NumWords => /\ m + BytesIn(word) = (word + 1) * BytesPerWord
                           /\ word + 1 \in 0 .. NumWords
                           /\ BytesIn(word + 1) \in Nat /\ BytesIn(word + 1) >= 1
    <3>1. word # NumWords => word + 1 \in 0 .. NumWords
      BY <1>0
    <3> QED
      BY <1>0, <2>3, <3>1, Position
  <2>7. DeviceTypeOK'
    BY <1>0, <1>1, <1>3, <2>1, <2>2, <2>5, <2>6
  <2>8. LoopInv'
    <3>1. CASE Len(fed') < word * BytesPerWord + BytesIn(word)
      BY <1>0, <2>1, <2>2, <2>3, <2>4, <3>1
    <3>2. CASE ~(Len(fed') < word * BytesPerWord + BytesIn(word)) /\ word = NumWords
      BY <2>1, <3>2
    <3>3. CASE ~(Len(fed') < word * BytesPerWord + BytesIn(word)) /\ word # NumWords
      <4>1. stage' = "helper" /\ word' = word + 1 /\ Len(fed') = (word + 1) * BytesPerWord
        BY <2>1, <2>2, <2>3, <2>4, <2>6, <3>3
      <4>2. (word + 1) * BytesPerWord \in Nat
        BY <2>6, <3>3, <2>3, <2>4
      <4> QED
        BY <2>6, <3>3, <4>1, <4>2
    <3> QED
      BY <3>1, <3>2, <3>3
  <2> QED
    BY <2>5, <2>7, <2>8
<1>12. ASSUME Device!Progressed PROVE DeviceTypeOK' /\ LoopInv' /\ line' \in Bytes
  BY <1>0, <1>1, <1>2, <1>12, Speech DEF Device!Progressed
<1>13. ASSUME Device!Succeed PROVE DeviceTypeOK' /\ LoopInv' /\ line' \in Bytes
  BY <1>0, <1>1, <1>2, <1>13, Speech DEF Device!Succeed, Device!Goto
<1>14. ASSUME Device!Close PROVE DeviceTypeOK' /\ LoopInv' /\ line' \in Bytes
  BY <1>0, <1>1, <1>2, <1>14, Speech DEF Device!Close, Device!Goto
<1>15. ASSUME Device!EnrollFail \/ Device!HelperTimeout \/ Device!PipelineFail
       PROVE  DeviceTypeOK' /\ LoopInv' /\ line' \in Bytes
  <2>1. \E c \in 0 .. ErrKeyMismatch : /\ stage' = "failing" /\ code' = c /\ word' = 0 /\ fed' = << >>
                                       /\ UNCHANGED <<rx, out, export, resp>>
    BY <1>15 DEF Device!EnrollFail, Device!HelperTimeout, Device!PipelineFail, Device!Fail, Device!Goto,
       Device!ErrPufTimeout, Device!ErrFeTimeout, Device!ErrUartTimeout, Device!StageErrors,
       Device!ErrFeDecode, Device!ErrKdfTimeout, Device!ErrKyberConfig, Device!ErrKyberTimeout,
       Device!ErrKeyMismatch, ErrKeyMismatch
  <2> QED
    BY <1>0, <1>1, <1>2, <1>15, <2>1, Speech
<1>16. ASSUME Device!FailReport PROVE DeviceTypeOK' /\ LoopInv' /\ line' \in Bytes
  BY <1>0, <1>1, <1>2, <1>16, Speech DEF Device!FailReport, Device!Goto, ErrKeyMismatch
<1> QED
  BY <1>4, <1>5, <1>6, <1>7, <1>8, <1>9, <1>10, <1>11, <1>12, <1>13, <1>14, <1>15, <1>16
     DEF Run, Device!DeviceStep

\* What the tool does is one of these, and leaves the device alone.
LEMMA OtherType ==
  ASSUME TypeInv, OpenPort \/ Settle \/ GiveUp \/ Interrupt
  PROVE  HostTypeOK' /\ ToolInv'
<1> USE Forgotten, Empty, Shape DEF HostTypeOK, Steps, Commands, Exit, Continue
<1>0. HostTypeOK /\ ToolInv
  BY DEF TypeInv
<1>c. ASSUME step' = "closed"
      PROVE  ToolInv'
  BY <1>c DEF ToolInv
<1>1. ASSUME OpenPort, Open PROVE HostTypeOK' /\ ToolInv'
  <2>1. PICK c \in Commands, waits \in BOOLEAN, n \in Counts :
          /\ command' = c
          /\ step' = IF waits THEN "banner" ELSE "settle"
          /\ mem' = [NoMemory EXCEPT !.count = IF c = "stress" THEN n ELSE 0]
    BY <1>1 DEF Open
  <2>2. n \in Nat /\ 0 \in Nat
    BY HostAssumption
  <2>3. mem' \in Memory /\ mem'.got = << >>
    BY <2>1, <2>2 DEF Memory
  <2>4. HostTypeOK'
    BY <1>0, <1>1, <2>1, <2>3 DEF OpenPort, Open
  <2> QED
    BY <2>1, <2>3, <2>4 DEF ToolInv
<1>2. ASSUME OpenPort, OpenFails PROVE HostTypeOK' /\ ToolInv'
  BY <1>0, <1>2, <1>c DEF OpenPort, OpenFails
<1>3. ASSUME Settle PROVE HostTypeOK' /\ ToolInv'
  <2>1. HostTypeOK'
    BY <1>0, <1>3 DEF Settle, Discard
  <2>2. ToolInv'
    BY <1>0, <1>3 DEF Settle, Discard, ToolInv
  <2> QED
    BY <2>1, <2>2
<1>4. ASSUME GiveUp PROVE HostTypeOK' /\ ToolInv'
  BY <1>0, <1>4, <1>c DEF GiveUp, ReadTimeout, BannerTimeout
<1>5. ASSUME Interrupt PROVE HostTypeOK' /\ ToolInv'
  BY <1>0, <1>5, <1>c DEF Interrupt, Kill
<1> QED
  BY <1>1, <1>2, <1>3, <1>4, <1>5 DEF OpenPort

LEMMA TypeStep == ASSUME TypeInv, [Next]_vars PROVE TypeInv'
<1>0. HostTypeOK /\ ToolInv /\ DeviceTypeOK /\ LoopInv
  BY DEF TypeInv
<1>d. ASSUME UNCHANGED deviceVars, used' \in Optional, clean' \in BOOLEAN, faulted' \in BOOLEAN
      PROVE  DeviceTypeOK' /\ LoopInv'
  BY <1>0, <1>d DEF deviceVars, DeviceTypeOK, LoopInv
<1>1. ASSUME OpenPort PROVE TypeInv'
  BY <1>0, <1>1, <1>d, OtherType DEF OpenPort, TypeInv, Optional
<1>2. ASSUME Settle PROVE TypeInv'
  <2>1. clean' \in BOOLEAN
    BY <1>2 DEF Settle, DeviceIdle
  <2> QED
    BY <1>0, <1>2, <1>d, <2>1, OtherType DEF Settle, TypeInv, DeviceTypeOK
<1>3. ASSUME Work PROVE TypeInv'
  <2>1. HostTypeOK' /\ ToolInv'
    BY <1>3, WorkType DEF Work
  <2>2. used' \in Optional /\ clean' \in BOOLEAN /\ faulted' \in BOOLEAN
    BY <1>0, <1>3 DEF Work, DeviceTypeOK, Optional, Quiet
  <2> QED
    BY <1>3, <1>d, <2>1, <2>2 DEF Work, TypeInv
<1>4. ASSUME GiveUp PROVE TypeInv'
  BY <1>0, <1>4, <1>d, OtherType DEF GiveUp, TypeInv, DeviceTypeOK, historyVars
<1>5. ASSUME Interrupt PROVE TypeInv'
  BY <1>0, <1>5, <1>d, OtherType DEF Interrupt, TypeInv, DeviceTypeOK, historyVars
<1>6. ASSUME Run PROVE TypeInv'
  <2>1. DeviceTypeOK' /\ LoopInv' /\ line' \in Bytes
    BY <1>6, RunType
  <2>2. UNCHANGED hostVars
    BY <1>6 DEF Run
  <2> QED
    BY <1>0, <2>1, <2>2 DEF TypeInv, HostTypeOK, ToolInv, hostVars
<1>7. ASSUME ToDriver PROVE TypeInv'
  <2>1. drv' \in Bytes /\ line' \in Bytes
    BY <1>0, <1>7, NewBytes, Empty DEF ToDriver, HostTypeOK
  <2> QED
    BY <1>0, <1>7, <1>d, <2>1 DEF ToDriver, TypeInv, HostTypeOK, ToolInv, DeviceTypeOK, historyVars
<1>8. ASSUME ToDevice PROVE TypeInv'
  <2>1. Head(wire) \in 0 .. 255 /\ Tail(wire) \in Bytes
    BY <1>0, <1>8, HeadTailProperties DEF ToDevice, HostTypeOK, Bytes
  <2>2. Append(rx, Head(wire)) \in Bytes
    BY <1>0, <2>1, AppendProperties DEF DeviceTypeOK, Bytes
  <2>3. /\ rx' \in Bytes /\ wire' \in Bytes
        /\ UNCHANGED <<stage, word, code, fed, out, export, resp>>
        /\ UNCHANGED <<step, command, mem, verdict, file, drv, line, historyVars>>
    BY <1>0, <1>8, <2>1, <2>2 DEF ToDevice, Device!Arrive, DeviceTypeOK
  <2>4. DeviceTypeOK' /\ LoopInv'
    BY <1>0, <2>3 DEF DeviceTypeOK, LoopInv, historyVars
  <2>5. HostTypeOK' /\ ToolInv'
    BY <1>0, <2>3 DEF HostTypeOK, ToolInv
  <2> QED
    BY <2>4, <2>5 DEF TypeInv
<1>9. ASSUME Reload PROVE TypeInv'
  <2>1. HostTypeOK' /\ ToolInv'
    BY <1>0, <1>9, Empty DEF Reload, HostTypeOK, ToolInv
  <2>2. DeviceTypeOK' /\ LoopInv'
    <3>1. /\ stage' = "boot" /\ word' = 0 /\ code' = 0 /\ rx' = << >> /\ fed' = << >>
          /\ resp' = << >> /\ clean' = FALSE /\ faulted' = FALSE /\ used' = None /\ UNCHANGED export
      BY <1>9 DEF Reload
    <3>2. 0 \in 0 .. NumWords /\ 0 \in 0 .. ErrKeyMismatch /\ "boot" \in Device!Stages
      BY Shape DEF ErrKeyMismatch, Device!Stages
    <3>3. DeviceTypeOK'
      BY <1>0, <3>1, <3>2, Empty DEF DeviceTypeOK, Optional
    <3> QED
      BY <3>1, <3>3 DEF LoopInv
  <2> QED
    BY <2>1, <2>2 DEF TypeInv
<1>10. ASSUME UNCHANGED vars PROVE TypeInv'
  BY <1>0, <1>10, <1>d DEF vars, hostVars, deviceVars, historyVars, TypeInv, HostTypeOK, ToolInv, DeviceTypeOK
<1> QED
  BY <1>1, <1>2, <1>3, <1>4, <1>5, <1>6, <1>7, <1>8, <1>9, <1>10 DEF Next

LEMMA TypeInitially == ASSUME Init PROVE TypeInv
<1> USE Empty, Shape, Forgotten DEF Init, HostInit, Device!Init
<1>1. HostTypeOK
  BY DEF HostTypeOK, Steps, Commands, Optional
<1>2. ToolInv
  BY DEF ToolInv
<1>3. DeviceTypeOK
  <2>1. export \in BOOLEAN
    BY LinkAssumption
  <2>2. used \in Optional /\ clean \in BOOLEAN /\ faulted \in BOOLEAN
    BY DEF Optional
  <2>3. stage \in Device!Stages
    BY DEF Device!Stages
  <2>4. word \in 0 .. NumWords /\ code \in 0 .. ErrKeyMismatch
    BY DEF ErrKeyMismatch
  <2>5. rx \in Bytes /\ fed \in Bytes /\ resp \in Bytes
    OBVIOUS
  <2> QED
    BY <2>1, <2>2, <2>3, <2>4, <2>5 DEF DeviceTypeOK
<1>4. LoopInv
  BY DEF LoopInv
<1> QED
  BY <1>1, <1>2, <1>3, <1>4 DEF TypeInv

\* The counters of both ends stay in their ranges and their buffers hold bytes,
\* whatever processes are killed and whenever the device is reloaded.
THEOREM TypeAlways == Spec => []TypeInv
<1>1. Init => TypeInv
  BY TypeInitially
<1>2. TypeInv /\ [Next]_vars => TypeInv'
  BY TypeStep
<1> QED
  BY <1>1, <1>2, PTL DEF Spec

--------------------------------------------------------------------------------
\* what the device has sent and the tool has not read
Unread == drv \o line

\* r is s without its first k bytes.
IsRest(r, s, k) ==
  /\ k \in 0 .. Len(s)
  /\ r \in Bytes /\ Len(r) = Len(s) - k
  /\ \A i \in 1 .. Len(r) : r[i] = s[k + i]

LEMMA UnreadType ==
  ASSUME TypeInv
  PROVE  Unread \in Bytes
BY NewBytes DEF TypeInv, HostTypeOK, Unread

LEMMA UnreadTail ==
  ASSUME TypeInv, drv # << >>
  PROVE  /\ Tail(drv) \o line \in Bytes /\ Len(Unread) = Len(Tail(drv) \o line) + 1
         /\ Unread[1] = Head(drv)
         /\ \A i \in 1 .. Len(Tail(drv) \o line) : Unread[i + 1] = (Tail(drv) \o line)[i]
<1>1. PICK d \in Bytes, l \in Bytes : d = drv /\ l = line
  BY DEF TypeInv, HostTypeOK
<1>2. PICK t \in Bytes : t = Tail(drv)
  BY OneByte
<1>3. /\ Len(t) = Len(d) - 1 /\ Len(d) \in Nat /\ Len(d) >= 1 /\ Head(drv) = d[1]
      /\ \A i \in 1 .. Len(d) - 1 : t[i] = d[i + 1]
  BY <1>1, <1>2, OneByte
<1>4. /\ d \o l \in Bytes /\ Len(d \o l) = Len(d) + Len(l) /\ Len(l) \in Nat
      /\ \A i \in 1 .. Len(d) + Len(l) : (d \o l)[i] = IF i <= Len(d) THEN d[i] ELSE l[i - Len(d)]
  BY NewBytes
<1>5. /\ t \o l \in Bytes /\ Len(t \o l) = Len(t) + Len(l)
      /\ \A i \in 1 .. Len(t) + Len(l) : (t \o l)[i] = IF i <= Len(t) THEN t[i] ELSE l[i - Len(t)]
  BY NewBytes
<1>6. PICK x, y : x = d \o l /\ y = t \o l
  OBVIOUS
<1>7. ASSUME NEW i \in 1 .. Len(t) + Len(l)
      PROVE  x[i + 1] = y[i]
  <2>1. i + 1 \in 1 .. Len(d) + Len(l) /\ i + 1 - Len(d) = i - Len(t) /\ (i + 1 <= Len(d) <=> i <= Len(t))
    BY <1>3, <1>4
  <2>2. i <= Len(t) => t[i] = d[i + 1]
    BY <1>3
  <2>3. y[i] = IF i <= Len(t) THEN t[i] ELSE l[i - Len(t)]
    BY <1>5, <1>6
  <2>4. x[i + 1] = IF i + 1 <= Len(d) THEN d[i + 1] ELSE l[i + 1 - Len(d)]
    BY <1>4, <1>6, <2>1
  <2> QED
    BY <2>1, <2>2, <2>3, <2>4
<1>8. x[1] = d[1]
  <2>1. 1 \in 1 .. Len(d) + Len(l) /\ 1 <= Len(d)
    BY <1>3, <1>4
  <2> QED
    BY <1>4, <1>6, <2>1
<1>9. Unread = x /\ Tail(drv) \o line = y
  BY <1>1, <1>2, <1>6 DEF Unread
<1>10. y \in Bytes /\ Len(x) = Len(y) + 1 /\ Len(y) = Len(t) + Len(l)
  BY <1>3, <1>4, <1>5, <1>6
<1> QED
  BY <1>3, <1>7, <1>8, <1>9, <1>10

--------------------------------------------------------------------------------
(***************************************************************************)
(* A session that met an idle device stays in step with it.  What the      *)
(* device has sent for the command is known from where it is in its        *)
(* loops; what the tool has not read is the rest of it; and what is on its *)
(* way to the device is the rest of what the tool has written.             *)
(***************************************************************************)
\* the bytes of a reply to RECON up to the status
Expected(k) ==
  IF k = 1 THEN HelperRequest
  ELSE IF k <= NumWords + 2 THEN Ack(k - 2) ELSE Marker(k - (NumWords + 2))

Good(p) == p <= Len(resp) /\ \A i \in 1 .. p : resp[i] = Expected(i)

FullReply ==
  /\ Len(resp) = NumWords + 11 + (IF export THEN KeyLength ELSE 0)
  /\ Good(NumWords + 9)
  /\ resp[NumWords + 10] = StatusSuccess
  /\ resp[NumWords + 11] = IF export THEN 1 ELSE 0

\* What the device has sent in the transaction it is in.
ReplyInv ==
  /\ stage = "enroll" => resp = << >>
  /\ stage = "sending" => Len(resp) = 1 + word * BytesPerWord /\ resp[1] = StatusSuccess
  /\ stage = "helper" => Len(resp) = 1 + word /\ Good(1 + word)
  /\ stage = "pipeline" => Len(resp) - (NumWords + 2) \in {1, 2, 3, 4, 6} /\ Good(Len(resp))
  /\ stage = "closing" => FullReply
  /\ stage = "failing" => Len(resp) <= NumWords + 8 /\ Good(Len(resp))

\* bytes of the reply the tool has read
Taken ==
  CASE step = "info_reply" -> Len(mem.got)
    [] step = "enroll_helper" -> 1 + Len(mem.got)
    [] step \in {"word", "ack"} -> 1 + mem.word
    [] step = "marker" -> NumWords + 2 + mem.progress
    [] step = "status" -> NumWords + 9
    [] step = "flags" -> NumWords + 10
    [] step = "key" -> NumWords + 11 + Len(mem.got)
    [] OTHER -> 0

\* bytes on their way to the device
Pending == rx \o wire

\* bytes of helper data the tool has written
Fed == CASE step = "word" -> mem.word * BytesPerWord
         [] step = "ack" -> mem.word * BytesPerWord + BytesIn(mem.word)
         [] OTHER -> 0

Asking ==
  /\ stage \in {"cmd", "closing"} /\ Unread = << >>
  /\ \/ step = "info_reply" /\ mem.got = << >> /\ Pending = <<CmdInfo>>
     \/ step = "enroll_status" /\ Pending = <<CmdEnroll>>
     \/ step = "ready" /\ Pending = <<CmdRecon>>

Informed ==
  /\ step = "info_reply" /\ stage = "cmd" /\ Pending = << >>
  /\ resp = InfoReplyOf(export) /\ IsRest(Unread, resp, Taken)
  /\ \A i \in 1 .. Len(mem.got) : mem.got[i] = resp[i]

Enrolling ==
  /\ step \in {"enroll_status", "enroll_helper"} /\ Pending = << >>
  /\ IsRest(Unread, resp, Taken)
  /\ \/ stage \in {"enroll", "sending"}
     \/ stage = "cmd" /\ Len(resp) = 1 + HelperLength /\ resp[1] = StatusSuccess

Helping ==
  /\ step \in {"ready", "word", "ack"} /\ stage = "helper"
  /\ IsRest(Unread, resp, Taken)
  /\ Len(fed) + Len(Pending) = Fed
  /\ \A i \in 1 .. Len(fed) : fed[i] = mem.helper[i]
  /\ \A i \in 1 .. Len(Pending) : Pending[i] = mem.helper[Len(fed) + i]

Working ==
  /\ (step = "ack" /\ mem.word = NumWords) \/ step = "marker"
  /\ stage = "pipeline" /\ Pending = << >> /\ fed = mem.helper
  /\ IsRest(Unread, resp, Taken)

Finished ==
  /\ \/ step = "ack" /\ mem.word = NumWords
     \/ step \in {"marker", "status", "flags"}
     \/ step = "key" /\ export
  /\ stage \in {"closing", "cmd"} /\ Pending = << >> /\ used = mem.helper
  /\ FullReply /\ IsRest(Unread, resp, Taken)

Idle ==
  /\ step \in {"stress", "info", "enroll", "save", "saving", "reconstruct"}
  /\ stage \in {"closing", "cmd"} /\ Pending = << >> /\ Unread = << >>
  /\ step \in {"save", "saving"} => Len(resp) = 1 + HelperLength /\ resp[1] = StatusSuccess

\* The device gave up after p bytes of its reply; what it does after is not read.
Broken(p) ==
  /\ faulted /\ step \in {"enroll_status", "ready", "word", "ack", "marker"}
  /\ p \in Taken .. NumWords + 8
  /\ p - Taken <= Len(Unread)
  /\ \A i \in 1 .. p - Taken : Unread[i] = Expected(Taken + i)
  /\ \/ stage = "failing" /\ Len(Unread) = p - Taken
     \/ Len(Unread) > p - Taken /\ Unread[p - Taken + 1] = StatusFail

InStep ==
  \/ Asking \/ Informed \/ Enrolling \/ Helping \/ Working \/ Finished \/ Idle
  \/ step = "fail_code" /\ faulted
  \/ \E p \in 0 .. NumWords + 8 : Broken(p)

\* While it waits a session has not met the device, and it has no statistics yet.
StartInv ==
  /\ step \in {"settle", "banner"} => ~clean
  /\ step \in {"settle", "banner", "stress", "info", "enroll", "enroll_status",
               "enroll_helper", "save", "saving"} => mem.failed = 0 /\ mem.reference = None

CleanInv ==
  /\ clean /\ step # "closed" => InStep
  /\ clean /\ command = "stress" /\ ~export =>
       mem.failed = 0 /\ mem.reference \in {None, << >>}

SessionInv == ReplyInv /\ StartInv /\ CleanInv /\ NoFalseAlarm

LEMMA SpeakRest ==
  ASSUME NEW s \in Bytes, NEW t \in Bytes, NEW v, NEW k, IsRest(v, s, k)
  PROVE  IsRest(v \o t, s \o t, k)
<1>0. /\ s \o t \in Bytes /\ Len(s \o t) = Len(s) + Len(t) /\ Len(s) \in Nat /\ Len(t) \in Nat
      /\ \A i \in 1 .. Len(s) + Len(t) : (s \o t)[i] = IF i <= Len(s) THEN s[i] ELSE t[i - Len(s)]
  BY NewBytes
<1>1. k \in 0 .. Len(s) /\ v \in Bytes /\ Len(v) = Len(s) - k /\ \A i \in 1 .. Len(v) : v[i] = s[k + i]
  BY DEF IsRest
<1>2. /\ v \o t \in Bytes /\ Len(v \o t) = Len(v) + Len(t) /\ Len(v) \in Nat
      /\ \A i \in 1 .. Len(v) + Len(t) : (v \o t)[i] = IF i <= Len(v) THEN v[i] ELSE t[i - Len(v)]
  BY <1>1, NewBytes
<1>3. PICK x, y : x = s \o t /\ y = v \o t
  OBVIOUS
<1>4. ASSUME NEW i \in 1 .. Len(v) + Len(t)
      PROVE  y[i] = x[k + i]
  <2>0. PICK m \in Nat, n \in Nat, l \in Nat, j \in Nat : m = Len(s) /\ n = Len(v) /\ l = Len(t) /\ j = k
    BY <1>0, <1>1, <1>2
  <2>a. PICK d \in 1 .. m + l : d = j + i /\ (d <= m <=> i <= n) /\ d - m = i - n
    BY <1>1, <2>0
  <2>1. k + i = d
    BY <2>0, <2>a
  <2>2. x[d] = IF d <= m THEN s[d] ELSE t[d - m]
    BY <1>0, <1>3, <2>0, <2>a
  <2>3. y[i] = IF i <= Len(v) THEN v[i] ELSE t[i - Len(v)]
    BY <1>2, <1>3
  <2>4. i <= n => v[i] = s[d]
    <3>1. i <= n => i \in 1 .. Len(v)
      BY <2>0
    <3>2. i <= n => v[i] = s[k + i]
      BY <1>1, <3>1
    <3> QED
      BY <2>1, <3>2
  <2>5. y[i] = IF i <= n THEN v[i] ELSE t[i - n]
    BY <2>0, <2>3
  <2>6. y[i] = x[d]
    <3>1. CASE i <= n
      BY <2>a, <2>2, <2>4, <2>5, <3>1
    <3>2. CASE ~(i <= n)
      BY <2>a, <2>2, <2>5, <3>2
    <3> QED
      BY <3>1, <3>2
  <2> QED
    BY <2>1, <2>6
<1>5. k \in 0 .. Len(x) /\ y \in Bytes /\ Len(y) = Len(x) - k /\ Len(y) = Len(v) + Len(t)
  BY <1>0, <1>1, <1>2, <1>3
<1> QED
  BY <1>3, <1>4, <1>5 DEF IsRest

\* The byte the tool reads is the next one of the reply.
LEMMA NextByte ==
  ASSUME TypeInv, drv # << >>, drv' = Tail(drv), line' = line,
         NEW s \in Bytes, NEW k, IsRest(Unread, s, k)
  PROVE  /\ k \in Nat /\ k + 1 <= Len(s) /\ Len(s) \in Nat /\ Head(drv) = s[k + 1]
         /\ IsRest(Unread', s, k + 1)
         /\ Len(Unread') = Len(Unread) - 1 /\ Len(Unread) \in Nat \ {0}
<1>1. PICK v \in Bytes : v = Unread
  BY UnreadType
<1>2. PICK w \in Bytes : w = Tail(drv) \o line
  BY UnreadTail
<1>3. Len(v) = Len(w) + 1 /\ v[1] = Head(drv) /\ \A i \in 1 .. Len(w) : v[i + 1] = w[i]
  BY <1>1, <1>2, UnreadTail
<1>4. Unread' = w
  BY <1>2 DEF Unread
<1>5. k \in 0 .. Len(s) /\ Len(v) = Len(s) - k /\ (\A i \in 1 .. Len(v) : v[i] = s[k + i])
      /\ Len(s) \in Nat /\ Len(w) \in Nat
  BY <1>1, LenProperties DEF IsRest, Bytes
<1>6. s[k + 1] = v[1] /\ k + 1 \in 0 .. Len(s) /\ Len(w) = Len(s) - (k + 1)
  <2>0. PICK m \in Nat, n \in Nat, l \in Nat, j \in Nat : m = Len(s) /\ n = Len(v) /\ l = Len(w) /\ j = k
    BY <1>3, <1>5
  <2>a. n = l + 1 /\ n = m - j
    BY <1>3, <1>5, <2>0
  <2>1. 1 \in 1 .. Len(v) /\ k + 1 \in 0 .. Len(s) /\ Len(w) = Len(s) - (k + 1)
    BY <2>0, <2>a
  <2>2. v[1] = s[k + 1]
    BY <1>5, <2>1
  <2> QED
    BY <2>1, <2>2
<1>7. ASSUME NEW i \in 1 .. Len(w)
      PROVE  w[i] = s[k + 1 + i]
  <2>1. i + 1 \in 1 .. Len(v) /\ k + (i + 1) = k + 1 + i
    BY <1>3, <1>5
  <2> QED
    BY <1>3, <1>5, <2>1
<1>8. IsRest(w, s, k + 1)
  BY <1>6, <1>7 DEF IsRest
<1> QED
  BY <1>1, <1>3, <1>4, <1>5, <1>6, <1>8

\* The same for bytes of which nothing else is known.
LEMMA NextUnread ==
  ASSUME TypeInv, drv # << >>, drv' = Tail(drv), line' = line
  PROVE  /\ Unread \in Bytes /\ Unread' \in Bytes
         /\ Len(Unread) \in Nat \ {0} /\ Len(Unread') = Len(Unread) - 1
         /\ Head(drv) = Unread[1] /\ \A i \in 1 .. Len(Unread) - 1 : Unread'[i] = Unread[i + 1]
<1>1. PICK v \in Bytes : v = Unread
  BY UnreadType
<1>2. PICK w \in Bytes : w = Tail(drv) \o line
  BY UnreadTail
<1>3. Len(v) = Len(w) + 1 /\ v[1] = Head(drv) /\ \A i \in 1 .. Len(w) : v[i + 1] = w[i]
  BY <1>1, <1>2, UnreadTail
<1>4. Unread' = w
  BY <1>2 DEF Unread
<1>5. Len(v) \in Nat /\ Len(w) \in Nat /\ Len(w) = Len(v) - 1
  BY <1>3, LenProperties DEF Bytes
<1> QED
  BY <1>1, <1>3, <1>4, <1>5

\* What is written, delivered and read is what is on its way.
LEMMA PendingType ==
  ASSUME TypeInv
  PROVE  /\ Pending \in Bytes /\ Len(Pending) = Len(rx) + Len(wire) /\ Len(rx) \in Nat /\ Len(wire) \in Nat
         /\ (Pending = << >> <=> rx = << >> /\ wire = << >>)
         /\ rx # << >> => Pending[1] = Head(rx)
<1>1. PICK a \in Bytes, b \in Bytes : a = rx /\ b = wire
  BY DEF TypeInv, HostTypeOK, DeviceTypeOK
<1>2. /\ a \o b \in Bytes /\ Len(a \o b) = Len(a) + Len(b) /\ Len(a) \in Nat /\ Len(b) \in Nat
      /\ \A i \in 1 .. Len(a) + Len(b) : (a \o b)[i] = IF i <= Len(a) THEN a[i] ELSE b[i - Len(a)]
  BY NewBytes
<1>3. PICK c \in Bytes : c = a \o b
  BY <1>2
<1>4. \A s \in Bytes : s = << >> <=> Len(s) = 0
  BY EmptySeq DEF Bytes
<1>5. c = << >> <=> a = << >> /\ b = << >>
  <2>1. Len(c) = 0 <=> Len(a) = 0 /\ Len(b) = 0
    BY <1>2, <1>3
  <2> QED
    BY <1>4, <2>1
<1>6. a # << >> => c[1] = Head(a)
  <2>1. a # << >> => Head(a) = a[1] /\ Len(a) # 0
    BY <1>4, HeadTailProperties DEF Bytes
  <2>2. Len(a) # 0 => 1 \in 1 .. Len(a) + Len(b) /\ 1 <= Len(a)
    BY <1>2
  <2> QED
    BY <1>2, <1>3, <2>1, <2>2
<1>7. Pending = c
  BY <1>1, <1>3 DEF Pending
<1> QED
  BY <1>1, <1>2, <1>3, <1>5, <1>6, <1>7

\* The device takes a byte out of its FIFO.
LEMMA PendingTail ==
  ASSUME TypeInv, rx # << >>, rx' = Tail(rx), wire' = wire
  PROVE  /\ Pending' \in Bytes /\ Len(Pending') = Len(Pending) - 1
         /\ Len(Pending) \in Nat /\ Len(Pending) >= 1
         /\ \A i \in 1 .. Len(Pending) - 1 : Pending'[i] = Pending[i + 1]
<1>1. PICK d \in Bytes, l \in Bytes : d = rx /\ l = wire
  BY DEF TypeInv, HostTypeOK, DeviceTypeOK
<1>2. PICK t \in Bytes : t = Tail(d)
  BY <1>1, HeadTailProperties DEF Bytes
<1>3. /\ Len(t) = Len(d) - 1 /\ Len(d) \in Nat /\ Len(d) >= 1
      /\ \A i \in 1 .. Len(d) - 1 : t[i] = d[i + 1]
  BY <1>1, <1>2, HeadTailProperties, LenProperties, EmptySeq DEF Bytes
<1>4. /\ d \o l \in Bytes /\ Len(d \o l) = Len(d) + Len(l) /\ Len(l) \in Nat
      /\ \A i \in 1 .. Len(d) + Len(l) : (d \o l)[i] = IF i <= Len(d) THEN d[i] ELSE l[i - Len(d)]
  BY NewBytes
<1>5. /\ t \o l \in Bytes /\ Len(t \o l) = Len(t) + Len(l)
      /\ \A i \in 1 .. Len(t) + Len(l) : (t \o l)[i] = IF i <= Len(t) THEN t[i] ELSE l[i - Len(t)]
  BY NewBytes
<1>6. PICK x, y : x = d \o l /\ y = t \o l
  OBVIOUS
<1>7. ASSUME NEW i \in 1 .. Len(t) + Len(l)
      PROVE  y[i] = x[i + 1]
  <2>1. i + 1 \in 1 .. Len(d) + Len(l) /\ i + 1 - Len(d) = i - Len(t) /\ (i + 1 <= Len(d) <=> i <= Len(t))
    BY <1>3, <1>4
  <2>2. i <= Len(t) => t[i] = d[i + 1]
    BY <1>3
  <2>3. y[i] = IF i <= Len(t) THEN t[i] ELSE l[i - Len(t)]
    BY <1>5, <1>6
  <2>4. x[i + 1] = IF i + 1 <= Len(d) THEN d[i + 1] ELSE l[i + 1 - Len(d)]
    BY <1>4, <1>6, <2>1
  <2> QED
    BY <2>1, <2>2, <2>3, <2>4
<1>8. Pending = x /\ Pending' = y
  BY <1>1, <1>2, <1>6 DEF Pending
<1>9. y \in Bytes /\ Len(y) = Len(x) - 1 /\ Len(x) \in Nat /\ Len(x) >= 1 /\ Len(x) - 1 = Len(t) + Len(l)
  BY <1>3, <1>4, <1>5, <1>6
<1> QED
  BY <1>7, <1>8, <1>9

\* A byte reaches the device, which has room for it.
LEMMA PendingSame ==
  ASSUME TypeInv, wire # << >>, wire' = Tail(wire), rx' = Append(rx, Head(wire))
  PROVE  Pending' = Pending
<1>1. PICK a \in Bytes, b \in Bytes : a = rx /\ b = wire
  BY DEF TypeInv, HostTypeOK, DeviceTypeOK
<1>2. PICK c \in 0 .. 255, t \in Bytes : c = Head(b) /\ t = Tail(b)
  BY <1>1, HeadTailProperties DEF Bytes
<1>3. PICK e \in Bytes : e = <<c>>
  BY <1>2, ByteValues
<1>4. b = e \o t
  <2>1. /\ Len(e) = 1 /\ e[1] = c
    BY <1>2, <1>3, ByteValues
  <2>2. /\ e \o t \in Bytes /\ Len(e \o t) = Len(e) + Len(t) /\ Len(t) \in Nat
        /\ \A i \in 1 .. Len(e) + Len(t) : (e \o t)[i] = IF i <= Len(e) THEN e[i] ELSE t[i - Len(e)]
    BY NewBytes
  <2>3. /\ Len(t) = Len(b) - 1 /\ Len(b) \in Nat /\ Len(b) >= 1 /\ b[1] = c
        /\ \A i \in 1 .. Len(b) - 1 : t[i] = b[i + 1]
    BY <1>1, <1>2, HeadTailProperties, LenProperties, EmptySeq DEF Bytes
  <2>4. PICK y \in Bytes : y = e \o t
    BY <2>2
  <2>5. ASSUME NEW i \in 1 .. Len(b)
        PROVE  y[i] = b[i]
    <3>1. y[i] = IF i <= 1 THEN e[i] ELSE t[i - 1]
      BY <2>1, <2>2, <2>3, <2>4
    <3>2. CASE i = 1
      BY <2>1, <2>3, <3>1, <3>2
    <3>3. CASE i # 1
      <4>1. i - 1 \in 1 .. Len(b) - 1 /\ i - 1 + 1 = i /\ ~(i <= 1)
        BY <2>3, <3>3
      <4> QED
        BY <2>3, <3>1, <4>1
    <3> QED
      BY <3>2, <3>3
  <2>6. Len(y) = Len(b)
    BY <2>1, <2>2, <2>3, <2>4
  <2> QED
    BY <2>4, <2>5, <2>6, SeqEqual DEF Bytes
<1>5. Append(a, c) = a \o e
  BY <1>2, <1>3, AppendIsConcat DEF Bytes
<1>6. (a \o e) \o t = a \o (e \o t)
  BY <1>1, <1>2, <1>3, Regrouped
<1> QED
  BY <1>1, <1>2, <1>4, <1>5, <1>6 DEF Pending

\* What the reply to RECON is made of; neither status is part of it.
LEMMA Letters ==
  /\ Expected(1) = HelperRequest
  /\ \A w \in 0 .. NumWords : Expected(2 + w) = Ack(w) /\ Ack(w) # StatusFail
  /\ \A i \in 1 .. 7 : Expected(NumWords + 2 + i) = Marker(i) /\ Marker(i) # StatusFail
  /\ HelperRequest \notin {StatusFail, StatusSuccess}
  /\ StatusSuccess # StatusFail
<1>1. NumWords \in Nat /\ NumWords <= 9
  BY Shape
<1>2. ASSUME NEW w \in 0 .. NumWords
      PROVE  Expected(2 + w) = Ack(w) /\ Ack(w) # StatusFail
  <2>1. 2 + w # 1 /\ 2 + w <= NumWords + 2 /\ 2 + w - 2 = w /\ 48 + w # 255
    BY <1>1
  <2> QED
    BY <2>1 DEF Expected, Ack, StatusFail
<1>3. ASSUME NEW i \in 1 .. 7
      PROVE  Expected(NumWords + 2 + i) = Marker(i) /\ Marker(i) # StatusFail
  <2>1. 64 + i # 255
    OBVIOUS
  <2>2. PICK k \in Nat : k = NumWords + 2 + i
    BY <1>1
  <2>a. k # 1 /\ ~(k <= NumWords + 2) /\ k - (NumWords + 2) = i
    BY <1>1, <2>2
  <2>3. Expected(k) = Marker(k - (NumWords + 2))
    BY <2>a DEF Expected
  <2>4. Marker(i) # StatusFail
    BY <2>1 DEF Marker, StatusFail
  <2> QED
    BY <2>2, <2>a, <2>3, <2>4
<1> QED
  BY <1>2, <1>3 DEF Expected, HelperRequest, StatusFail, StatusSuccess

\* What the device adds to the bytes it has sent.
LEMMA Extends ==
  ASSUME TypeInv, NEW p \in Nat, p = Len(resp), NEW t \in Bytes, resp' = resp \o t
  PROVE  /\ Len(resp') = p + Len(t) /\ Len(t) \in Nat
         /\ \A i \in 1 .. p : resp'[i] = resp[i]
         /\ \A i \in 1 .. Len(t) : resp'[p + i] = t[i]
         /\ \A m \in 0 .. Len(t) :
              Good(p) /\ (\A i \in 1 .. m : t[i] = Expected(p + i)) => Good(p + m)'
<1>1. PICK s \in Bytes : s = resp
  BY DEF TypeInv, DeviceTypeOK
<1>2. /\ s \o t \in Bytes /\ Len(s \o t) = Len(s) + Len(t) /\ Len(s) \in Nat /\ Len(t) \in Nat
      /\ \A i \in 1 .. Len(s) + Len(t) : (s \o t)[i] = IF i <= Len(s) THEN s[i] ELSE t[i - Len(s)]
  BY NewBytes
<1>3. PICK x : x = s \o t /\ x = resp'
  BY <1>1
<1>4. PICK n \in Nat : n = Len(t)
  BY <1>2
<1>5. Len(x) = p + n /\ \A i \in 1 .. p + n : x[i] = IF i <= p THEN s[i] ELSE t[i - p]
  BY <1>1, <1>2, <1>3, <1>4
<1>6. \A i \in 1 .. p : x[i] = s[i]
  BY <1>4, <1>5
<1>7. ASSUME NEW i \in 1 .. n
      PROVE  x[p + i] = t[i]
  <2>1. p + i \in 1 .. p + n /\ ~(p + i <= p) /\ p + i - p = i
    BY <1>4
  <2> QED
    BY <1>5, <2>1
<1>8. ASSUME NEW m \in 0 .. n, Good(p), \A i \in 1 .. m : t[i] = Expected(p + i)
      PROVE  p + m <= Len(x) /\ \A i \in 1 .. p + m : x[i] = Expected(i)
  <2>1. p + m <= Len(x)
    BY <1>4, <1>5
  <2>2. ASSUME NEW i \in 1 .. p + m
        PROVE  x[i] = Expected(i)
    <3>1. CASE i <= p
      BY <1>1, <1>6, <1>8, <3>1 DEF Good
    <3>2. CASE ~(i <= p)
      <4>1. PICK j \in 1 .. m : i = p + j
        <5>1. i - p \in 1 .. m /\ i = p + (i - p)
          BY <3>2
        <5> QED
          BY <5>1
      <4>2. j \in 1 .. n
        BY <1>4
      <4> QED
        BY <1>7, <1>8, <4>1, <4>2
    <3> QED
      BY <3>1, <3>2
  <2> QED
    BY <2>1, <2>2
<1> QED
  BY <1>1, <1>3, <1>4, <1>5, <1>6, <1>7, <1>8 DEF Good

\* The device adds a byte or two of the reply to RECON.
LEMMA Said1 ==
  ASSUME TypeInv, NEW p \in Nat, p = Len(resp), Good(p), NEW b \in 0 .. 255, b = Expected(p + 1),
         resp' = resp \o <<b>>
  PROVE  Len(resp') = p + 1 /\ Good(p + 1)'
<1>1. PICK t \in Bytes : t = <<b>> /\ Len(t) = 1 /\ t[1] = b
  BY ByteValues
<1>2. 1 \in 0 .. Len(t) /\ \A i \in 1 .. 1 : t[i] = Expected(p + i)
  BY <1>1
<1>3. resp' = resp \o t
  BY <1>1
<1> QED
  BY <1>1, <1>2, <1>3, Extends

LEMMA Said2 ==
  ASSUME TypeInv, NEW p \in Nat, p = Len(resp), Good(p),
         NEW b \in 0 .. 255, b = Expected(p + 1), NEW c \in 0 .. 255, c = Expected(p + 2),
         resp' = resp \o <<b, c>>
  PROVE  Len(resp') = p + 2 /\ Good(p + 2)'
<1>1. PICK t \in Bytes : t = <<b, c>> /\ Len(t) = 2 /\ t[1] = b /\ t[2] = c
  <2>1. <<b, c>> \in Bytes /\ Len(<<b, c>>) = 2
    BY ByteValues
  <2> QED
    BY <2>1
<1>2. 2 \in 0 .. Len(t) /\ \A i \in 1 .. 2 : t[i] = Expected(p + i)
  <2>1. \A i \in 1 .. 2 : i = 1 \/ i = 2
    OBVIOUS
  <2> QED
    BY <1>1, <2>1
<1>3. resp' = resp \o t
  BY <1>1
<1> QED
  BY <1>1, <1>2, <1>3, Extends

\* A step of the device follows the protocol.
LEMMA RunReply ==
  ASSUME TypeInv, ReplyInv, Run
  PROVE  ReplyInv'
<1>1. PICK p \in Nat : p = Len(resp)
  BY LenProperties DEF TypeInv, DeviceTypeOK, Bytes
<1>2. NumWords \in Nat /\ NumWords <= 9 /\ word \in 0 .. NumWords
  BY Shape DEF TypeInv, DeviceTypeOK
<1>3. CASE \/ Device!Boot \/ Device!Info \/ Device!UnknownCommand \/ Device!Close \/ Device!FailReport
  <2>1. stage' = "cmd"
    BY <1>3 DEF Device!Boot, Device!Info, Device!UnknownCommand, Device!Close, Device!FailReport,
                Device!Goto, Device!ReadCommand
  <2> QED
    BY <2>1 DEF ReplyInv
<1>4. CASE Device!Enroll
  <2>1. stage' = "enroll" /\ resp' = << >>
    BY <1>4 DEF Device!Enroll
  <2> QED
    BY <2>1 DEF ReplyInv
<1>5. CASE Device!Recon
  <2>1. stage = "cmd" /\ stage' = "helper" /\ resp' = <<HelperRequest>> /\ word' = word /\ word = 0
    BY <1>5, SameBytes DEF Device!Recon, Device!ReadCommand, TypeInv, LoopInv
  <2>2. PICK u : u = <<HelperRequest>> /\ u = resp' /\ Len(u) = 1 /\ u[1] = HelperRequest
    BY <2>1
  <2>3. 1 <= Len(u) /\ \A i \in 1 .. 1 : u[i] = Expected(i)
    BY <2>2, Letters
  <2> QED
    BY <2>1, <2>2, <2>3 DEF ReplyInv, Good
<1>6. CASE Device!EnrollAccept
  <2>1. stage = "enroll" /\ stage' = "sending" /\ resp' = resp \o <<StatusSuccess>> /\ word' = word /\ word = 0
    BY <1>6, SameBytes DEF Device!EnrollAccept, Device!Goto, Device!Send, TypeInv, LoopInv
  <2>2. PICK t \in Bytes : t = <<StatusSuccess>> /\ Len(t) = 1 /\ t[1] = StatusSuccess
    BY ByteValues, ProtocolValues
  <2>3. resp' = resp \o t
    BY <2>1, <2>2
  <2>4. p = 0
    BY <1>1, <2>1, Empty DEF ReplyInv
  <2>5. Len(resp') = 1 /\ \A i \in 1 .. 1 : resp'[0 + i] = t[i]
    <3>1. Len(resp') = p + Len(t) /\ \A i \in 1 .. Len(t) : resp'[p + i] = t[i]
      BY <1>1, <2>3, Extends
    <3> QED
      BY <2>2, <2>4, <3>1
  <2>6. resp'[1] = StatusSuccess
    BY <2>2, <2>5
  <2>7. word' * BytesPerWord = 0
    BY <2>1, <1>2, Position
  <2> QED
    BY <2>1, <2>5, <2>6, <2>7 DEF ReplyInv
<1>7. CASE Device!EnrollSend
  <2>1. CASE word = NumWords
    <3>1. stage' = "cmd"
      BY <1>7, <2>1 DEF Device!EnrollSend
    <3> QED
      BY <3>1 DEF ReplyInv
  <2>2. CASE word # NumWords
    <3>1. stage = "sending" /\ stage' = "sending" /\ resp' = resp \o out[word] /\ word' = word + 1
      BY <1>7, <2>2 DEF Device!EnrollSend, Device!Send
    <3>2. PICK t \in Bytes : t = out[word] /\ Len(t) = BytesIn(word)
      BY <3>1, Parts
    <3>3. resp' = resp \o t
      BY <3>1, <3>2
    <3>4. PICK m \in Nat, b \in Nat, n \in Nat :
            m = word * BytesPerWord /\ b = BytesIn(word) /\ n = word' * BytesPerWord /\ m + b = n
      BY <1>2, <2>2, <3>1, Position
    <3>5. p = 1 + m /\ resp[1] = StatusSuccess
      BY <1>1, <3>1, <3>4 DEF ReplyInv
    <3>6. Len(resp') = p + b /\ \A i \in 1 .. p : resp'[i] = resp[i]
      BY <1>1, <3>2, <3>3, <3>4, Extends
    <3>7. 1 \in 1 .. p /\ p + b = 1 + n
      BY <3>4, <3>5
    <3>8. resp'[1] = StatusSuccess /\ Len(resp') = 1 + n
      BY <3>5, <3>6, <3>7
    <3> QED
      BY <3>1, <3>4, <3>8 DEF ReplyInv
  <2> QED
    BY <2>1, <2>2
<1>8. CASE Device!HelperByte
  <2>1. stage = "helper" /\ p = 1 + word /\ Good(p)
    BY <1>1, <1>8 DEF Device!HelperByte, ReplyInv
  <2>2. p + 1 = 2 + word /\ p + 2 = NumWords + 2 + 1 <=> word = NumWords
    BY <1>2, <2>1
  <2>3. Expected(2 + word) = Ack(word) /\ Expected(NumWords + 2 + 1) = Marker(1)
    BY <1>2, Letters
  <2>4. Ack(word) \in 0 .. 255 /\ Marker(1) \in 0 .. 255 /\ p + 1 = 2 + word
    BY <1>2, <2>1, ProtocolValues
  <2>5. CASE UNCHANGED <<stage, word, resp>>
    BY <2>5, <2>1 DEF ReplyInv, Good
  <2>6. CASE word = NumWords /\ resp' = resp \o <<Ack(word), Marker(1)>> /\ stage' = "pipeline"
    <3>1. p + 2 = NumWords + 2 + 1
      BY <1>2, <2>1, <2>6
    <3>2. Len(resp') = p + 2 /\ Good(p + 2)'
      BY <1>1, <2>1, <2>3, <2>4, <2>6, <3>1, Said2
    <3>3. Len(resp') - (NumWords + 2) = 1
      BY <1>2, <3>1, <3>2
    <3> QED
      BY <2>6, <3>2, <3>3 DEF ReplyInv
  <2>7. CASE resp' = resp \o <<Ack(word)>> /\ stage' = stage /\ word' = word + 1
    <3>1. Len(resp') = p + 1 /\ Good(p + 1)'
      BY <1>1, <2>1, <2>3, <2>4, <2>7, Said1
    <3>2. p + 1 = 1 + word'
      BY <1>2, <2>1, <2>7
    <3> QED
      BY <2>1, <2>7, <3>1, <3>2 DEF ReplyInv
  <2> QED
    BY <1>8, <2>5, <2>6, <2>7, SameBytes DEF Device!HelperByte, Device!Send
<1>9. CASE Device!Progressed
  <2>1. stage = "pipeline" /\ stage' = "pipeline" /\ Good(p) /\ p - (NumWords + 2) \in {1, 2, 3, 4, 6}
    BY <1>1, <1>9 DEF Device!Progressed, ReplyInv
  <2>2. \/ \E i \in 1 .. 3 : p = NumWords + 2 + i /\ resp' = resp \o <<Marker(i + 1)>>
        \/ p = NumWords + 6 /\ resp' = resp \o <<Marker(5), Marker(6)>>
    BY <1>1, <1>9, <2>1, Speech DEF Speaks
  <2>3. CASE \E i \in 1 .. 3 : p = NumWords + 2 + i /\ resp' = resp \o <<Marker(i + 1)>>
    <3>1. PICK i \in 1 .. 3 : p = NumWords + 2 + i /\ resp' = resp \o <<Marker(i + 1)>>
      BY <2>3
    <3>2. i + 1 \in 1 .. 7 /\ p + 1 = NumWords + 2 + (i + 1) /\ p + 1 - (NumWords + 2) \in {2, 3, 4}
      BY <1>2, <3>1
    <3>3. Expected(p + 1) = Marker(i + 1) /\ Marker(i + 1) \in 0 .. 255
      BY <3>2, Letters, ProtocolValues
    <3>4. Len(resp') = p + 1 /\ Good(p + 1)'
      BY <1>1, <2>1, <3>1, <3>3, Said1
    <3>5. Good(Len(resp))'
      BY <3>4 DEF Good
    <3>6. Len(resp') - (NumWords + 2) \in {2, 3, 4}
      BY <1>2, <3>2, <3>4
    <3> QED
      BY <2>1, <3>5, <3>6 DEF ReplyInv
  <2>4. CASE p = NumWords + 6 /\ resp' = resp \o <<Marker(5), Marker(6)>>
    <3>1. p + 1 = NumWords + 2 + 5 /\ p + 2 = NumWords + 2 + 6 /\ p + 2 - (NumWords + 2) = 6
      BY <1>2, <2>4
    <3>2. Expected(p + 1) = Marker(5) /\ Marker(5) \in 0 .. 255 /\ Expected(p + 2) = Marker(6) /\ Marker(6) \in 0 .. 255
      <4>1. 5 \in 1 .. 7 /\ 6 \in 1 .. 7
        OBVIOUS
      <4> QED
        BY <3>1, <4>1, Letters, ProtocolValues
    <3>3. Len(resp') = p + 2 /\ Good(p + 2)'
      BY <1>1, <2>1, <2>4, <3>2, Said2
    <3>4. Good(Len(resp))'
      BY <3>3 DEF Good
    <3>5. Len(resp') - (NumWords + 2) = 6
      BY <1>2, <3>1, <3>3
    <3> QED
      BY <2>1, <3>4, <3>5 DEF ReplyInv
  <2> QED
    BY <2>2, <2>3, <2>4
<1>10. CASE Device!Succeed
  <2>1. stage = "pipeline" /\ stage' = "closing" /\ export' = export /\ Good(p)
    BY <1>1, <1>10 DEF Device!Succeed, Device!Goto, ReplyInv
  <2>2. p = NumWords + 8
    BY <1>1, <1>10, Speech
  <2>3. PICK t \in Bytes : /\ resp' = resp \o t
                           /\ Len(t) = IF export THEN 3 + KeyLength ELSE 3
                           /\ t[1] = Marker(7) /\ t[2] = StatusSuccess
                           /\ t[3] = (IF export THEN 1 ELSE 0)
    BY <1>10, KeyShown
  <2>4. Len(resp') = NumWords + 11 + (IF export THEN KeyLength ELSE 0) /\ 3 <= Len(t) /\ Len(t) \in Nat
    <3>1. Len(resp') = p + Len(t) /\ Len(t) \in Nat
      BY <1>1, <2>3, Extends
    <3>2. export \in BOOLEAN /\ KeyLength \in Nat
      BY Shape DEF TypeInv, DeviceTypeOK
    <3>3. CASE export
      BY <1>2, <2>2, <2>3, <3>1, <3>2, <3>3
    <3>4. CASE ~export
      BY <1>2, <2>2, <2>3, <3>1, <3>2, <3>4
    <3> QED
      BY <3>3, <3>4
  <2>5. p + 1 = NumWords + 2 + 7 /\ p + 1 = NumWords + 9 /\ p + 2 = NumWords + 10 /\ p + 3 = NumWords + 11
    BY <1>2, <2>2
  <2>6. Expected(p + 1) = Marker(7)
    <3>1. 7 \in 1 .. 7
      OBVIOUS
    <3> QED
      BY <2>5, <3>1, Letters
  <2>7. Good(p + 1)'
    <3>1. 1 \in 0 .. Len(t) /\ \A i \in 1 .. 1 : t[i] = Expected(p + i)
      BY <2>3, <2>4, <2>6
    <3> QED
      BY <1>1, <2>1, <2>3, <3>1, Extends
  <2>8. resp'[p + 2] = StatusSuccess /\ resp'[p + 3] = IF export THEN 1 ELSE 0
    <3>1. 2 \in 1 .. Len(t) /\ 3 \in 1 .. Len(t)
      BY <2>4
    <3> QED
      BY <1>1, <2>3, <3>1, Extends
  <2> QED
    BY <2>1, <2>4, <2>5, <2>7, <2>8 DEF ReplyInv, FullReply
<1>11. CASE Device!EnrollFail \/ Device!HelperTimeout \/ Device!PipelineFail
  <2>1. stage \in {"enroll", "helper", "pipeline"} /\ stage' = "failing" /\ resp' = resp
    BY <1>11 DEF Device!EnrollFail, Device!HelperTimeout, Device!PipelineFail, Device!Fail, Device!Goto
  <2>2. p <= NumWords + 8 /\ Good(p)
    <3>1. CASE stage = "enroll"
      BY <1>1, <1>2, <3>1, Empty DEF ReplyInv, Good
    <3>2. CASE stage = "helper"
      BY <1>1, <1>2, <3>2 DEF ReplyInv
    <3>3. CASE stage = "pipeline"
      BY <1>1, <1>2, <3>3 DEF ReplyInv
    <3> QED
      BY <2>1, <3>1, <3>2, <3>3
  <2> QED
    BY <1>1, <2>1, <2>2 DEF ReplyInv, Good
<1> QED
  BY <1>3, <1>4, <1>5, <1>6, <1>7, <1>8, <1>9, <1>10, <1>11 DEF Run, Device!DeviceStep

--------------------------------------------------------------------------------
\* What the device can do at each stage.
LEMMA AtStage ==
  ASSUME Run
  PROVE  /\ stage = "boot" => Device!Boot
         /\ stage = "cmd" => rx # << >> /\ (Device!Info \/ Device!UnknownCommand \/ Device!Enroll \/ Device!Recon)
         /\ stage = "enroll" => Device!EnrollAccept \/ Device!EnrollFail
         /\ stage = "sending" => Device!EnrollSend
         /\ stage = "helper" => Device!HelperByte \/ Device!HelperTimeout
         /\ stage = "pipeline" => Device!Progressed \/ Device!Succeed \/ Device!PipelineFail
         /\ stage = "closing" => Device!Close
         /\ stage = "failing" => Device!FailReport
BY DEF Run, Device!DeviceStep, Device!Boot, Device!Info, Device!UnknownCommand, Device!Enroll, Device!Recon,
       Device!EnrollAccept, Device!EnrollFail, Device!EnrollSend, Device!HelperByte, Device!HelperTimeout,
       Device!Progressed, Device!Succeed, Device!PipelineFail, Device!Close, Device!FailReport,
       Device!Goto, Device!Fail, Device!ReadCommand

\* What it leaves alone.
LEMMA RunFrame ==
  ASSUME Run
  PROVE  /\ UNCHANGED <<step, command, mem, verdict, file, drv, wire, clean, export>>
         /\ Taken' = Taken /\ Fed' = Fed
         /\ faulted => faulted'
         /\ clean /\ stage' = "failing" => faulted'
<1>1. UNCHANGED <<step, command, mem, verdict, file, drv, wire, clean>>
  BY DEF Run, hostVars
<1>2. UNCHANGED export
  BY DEF Run, Device!DeviceStep, Device!Boot, Device!Info, Device!UnknownCommand, Device!Enroll, Device!Recon,
       Device!EnrollAccept, Device!EnrollFail, Device!EnrollSend, Device!HelperByte, Device!HelperTimeout,
       Device!Progressed, Device!Succeed, Device!PipelineFail, Device!Close, Device!FailReport,
       Device!Fail, Device!ReadCommand
<1>3. Taken' = Taken /\ Fed' = Fed
  BY <1>1 DEF Taken, Fed
<1>4. (faulted => faulted') /\ (clean /\ stage' = "failing" => faulted')
  BY DEF Run
<1> QED
  BY <1>1, <1>2, <1>3, <1>4

\* What the device says comes after what is not read yet.
LEMMA Heard ==
  ASSUME TypeInv, NEW t, Speaks(t), drv' = drv
  PROVE  Unread' = Unread \o t /\ t \in Bytes /\ Unread \in Bytes
<1>1. PICK d \in Bytes, l \in Bytes : d = drv /\ l = line
  BY DEF TypeInv, HostTypeOK
<1>2. t \in Bytes /\ line' = l \o t
  BY <1>1 DEF Speaks
<1>3. (d \o l) \o t = d \o (l \o t)
  BY <1>2, Regrouped
<1>4. d \o l \in Bytes
  BY NewBytes
<1> QED
  BY <1>1, <1>2, <1>3, <1>4 DEF Unread

LEMMA HeardRest ==
  ASSUME TypeInv, NEW t, Speaks(t), drv' = drv, stage # "cmd", NEW k, IsRest(Unread, resp, k)
  PROVE  IsRest(Unread', resp', k)
<1>1. PICK s \in Bytes, v \in Bytes : s = resp /\ v = Unread
  BY UnreadType DEF TypeInv, DeviceTypeOK
<1>2. t \in Bytes /\ Unread' = v \o t /\ resp' = s \o t
  BY <1>1, Heard DEF Speaks
<1>3. IsRest(v, s, k)
  BY <1>1
<1>4. IsRest(v \o t, s \o t, k)
  BY <1>2, <1>3, SpeakRest
<1> QED
  BY <1>2, <1>4

LEMMA HeardFirst ==
  ASSUME TypeInv, NEW t, Speaks(t), drv' = drv, stage = "cmd", Unread = << >>
  PROVE  Unread' = t /\ resp' = t /\ t \in Bytes /\ IsRest(Unread', resp', 0)
<1>1. Unread' = << >> \o t /\ t \in Bytes /\ resp' = t
  BY Heard DEF Speaks
<1>2. << >> \o t = t
  BY <1>1, ConcatEmptySeq DEF Bytes
<1>3. Len(t) \in Nat /\ 0 \in 0 .. Len(t) /\ Len(t) - 0 = Len(t)
  BY <1>1, LenProperties DEF Bytes
<1>4. \A i \in 1 .. Len(t) : t[i] = t[0 + i]
  <2> SUFFICES ASSUME NEW i \in 1 .. Len(t)
               PROVE  t[i] = t[0 + i]
    OBVIOUS
  <2>1. 0 + i = i
    BY <1>3
  <2> QED
    BY <2>1
<1>5. IsRest(t, t, 0)
  BY <1>1, <1>3, <1>4 DEF IsRest
<1> QED
  BY <1>1, <1>2, <1>5

LEMMA HeardNothing ==
  ASSUME TypeInv, Speaks(<< >>), drv' = drv
  PROVE  Unread' = Unread
<1>1. PICK v \in Bytes : v = Unread
  BY UnreadType
<1>2. Unread' = v \o << >>
  BY <1>1, Heard
<1>3. v \o << >> = v
  BY ConcatEmptySeq DEF Bytes
<1> QED
  BY <1>1, <1>2, <1>3

\* Nothing is left on the way to the device.
LEMMA NonePending ==
  ASSUME TypeInv, Pending = << >>, wire' = wire, rx' = rx
  PROVE  Pending' = << >> /\ rx = << >> /\ wire = << >>
BY PendingType DEF Pending

\* The command the tool has asked for is the one the device reads.
LEMMA RunAsking ==
  ASSUME TypeInv, ReplyInv, Run, Asking
  PROVE  InStep'
<1> USE SameBytes
<1>1. UNCHANGED <<step, mem, drv, wire, export>> /\ Taken' = Taken /\ Fed' = Fed
  BY RunFrame
<1>2. stage \in {"cmd", "closing"} /\ Unread = << >>
  BY DEF Asking
<1>3. CASE stage = "closing"
  <2>1. Device!Close
    BY <1>3, AtStage
  <2>2. stage' = "cmd" /\ rx' = rx
    BY <2>1 DEF Device!Close, Device!Goto
  <2>3. Speaks(<< >>)
    BY <2>1, Speech
  <2>4. Unread' = << >>
    BY <1>1, <1>2, <2>3, HeardNothing
  <2>5. Pending' = Pending
    BY <1>1, <2>2 DEF Pending
  <2>6. Asking'
    BY <1>1, <2>2, <2>4, <2>5 DEF Asking
  <2> QED
    BY <2>6 DEF InStep
<1>4. CASE stage = "cmd"
  <2>1. PICK c \in {CmdInfo, CmdEnroll, CmdRecon} :
          /\ Pending = <<c>>
          /\ c = CmdInfo => step = "info_reply" /\ mem.got = << >>
          /\ c = CmdEnroll => step = "enroll_status"
          /\ c = CmdRecon => step = "ready"
    BY DEF Asking, CmdInfo, CmdEnroll, CmdRecon
  <2>2. rx # << >> /\ (Device!Info \/ Device!UnknownCommand \/ Device!Enroll \/ Device!Recon)
    BY <1>4, AtStage
  <2>3. PICK q \in Bytes : q = Pending /\ Len(q) = 1 /\ q[1] = c
    BY <2>1, ByteValues, ProtocolValues
  <2>4. Head(rx) = c
    BY <2>2, <2>3, PendingType
  <2>5. rx' = Tail(rx) /\ stage = "cmd"
    BY <2>2 DEF Device!Info, Device!UnknownCommand, Device!Enroll, Device!Recon, Device!ReadCommand
  <2>6. Pending' = << >>
    <3>1. Pending' \in Bytes /\ Len(Pending') = 1 - 1
      BY <1>1, <2>2, <2>3, <2>5, PendingTail
    <3> QED
      BY <3>1, EmptySeq DEF Bytes
  <2>7. CASE c = CmdInfo
    <3>1. Device!Info
      BY <2>2, <2>4, <2>7 DEF Device!UnknownCommand, Device!Enroll, Device!Recon, Device!ReadCommand,
                              CmdInfo, CmdEnroll, CmdRecon
    <3>2. Speaks(InfoReplyOf(export)) /\ stage' = "cmd"
      BY <1>4, <3>1, Speech DEF Device!Info
    <3>3. resp' = InfoReplyOf(export') /\ IsRest(Unread', resp', 0)
      BY <1>1, <1>2, <1>4, <3>2, HeardFirst
    <3>4. Taken' = 0 /\ step' = "info_reply" /\ mem'.got = << >>
      BY <1>1, <2>1, <2>7, Empty DEF Taken
    <3>5. Informed'
      BY <2>6, <3>2, <3>3, <3>4, Empty DEF Informed
    <3> QED
      BY <3>5 DEF InStep
  <2>8. CASE c = CmdEnroll
    <3>1. Device!Enroll
      BY <2>2, <2>4, <2>8 DEF Device!UnknownCommand, Device!Info, Device!Recon, Device!ReadCommand,
                              CmdInfo, CmdEnroll, CmdRecon
    <3>2. Speaks(<< >>) /\ stage' = "enroll"
      BY <3>1, Speech DEF Device!Enroll
    <3>3. IsRest(Unread', resp', 0)
      BY <1>1, <1>2, <1>4, <3>2, HeardFirst
    <3>4. Taken' = 0 /\ step' = "enroll_status"
      BY <1>1, <2>1, <2>8 DEF Taken
    <3>5. Enrolling'
      BY <2>6, <3>2, <3>3, <3>4 DEF Enrolling
    <3> QED
      BY <3>5 DEF InStep
  <2>9. CASE c = CmdRecon
    <3>1. Device!Recon
      BY <2>2, <2>4, <2>9 DEF Device!UnknownCommand, Device!Info, Device!Enroll, Device!ReadCommand,
                              CmdInfo, CmdEnroll, CmdRecon
    <3>2. Speaks(<<HelperRequest>>) /\ stage' = "helper" /\ fed' = fed /\ fed = << >>
      BY <1>4, <3>1, Speech DEF Device!Recon, TypeInv, LoopInv
    <3>3. IsRest(Unread', resp', 0)
      BY <1>1, <1>2, <1>4, <3>2, HeardFirst
    <3>4. Taken' = 0 /\ step' = "ready" /\ Fed' = 0
      BY <1>1, <2>1, <2>9 DEF Taken, Fed
    <3>5. Helping'
      <4>1. fed' = << >>
        BY <3>2
      <4>2. Len(fed') = 0 /\ Len(Pending') = 0
        BY <2>6, <4>1, Empty
      <4> QED
        BY <3>2, <3>3, <3>4, <4>2 DEF Helping
    <3> QED
      BY <3>5 DEF InStep
  <2> QED
    BY <2>7, <2>8, <2>9
<1> QED
  BY <1>2, <1>3, <1>4

\* INFO has been answered; nothing more can happen until the tool has read it.
LEMMA RunInformed ==
  ASSUME TypeInv, Run
  PROVE  ~Informed
<1>1. ASSUME Informed
      PROVE  FALSE
  <2>1. stage = "cmd" /\ Pending = << >>
    BY <1>1 DEF Informed
  <2>2. rx # << >>
    BY <2>1, AtStage
  <2> QED
    BY <2>1, <2>2, PendingType
<1> QED
  BY <1>1

\* The device in an enrolment, or failing to begin one.
LEMMA RunEnrolling ==
  ASSUME TypeInv, ReplyInv, ReplyInv', Run, clean, Enrolling
  PROVE  InStep'
<1>1. UNCHANGED <<step, mem, drv, wire, export>> /\ Taken' = Taken
      /\ (stage' = "failing" => faulted')
  BY RunFrame
<1>2. step \in {"enroll_status", "enroll_helper"} /\ Pending = << >> /\ rx = << >>
  BY PendingType DEF Enrolling
<1>3. stage \in {"enroll", "sending"}
  BY <1>2, AtStage DEF Enrolling
<1>4. PICK k : k = Taken /\ IsRest(Unread, resp, k)
  BY DEF Enrolling
<1>5. CASE Device!EnrollAccept
  <2>1. Speaks(<<StatusSuccess>>) /\ stage' = "sending" /\ rx' = rx
    BY <1>5, Speech DEF Device!EnrollAccept, Device!Goto
  <2>2. IsRest(Unread', resp', k)
    BY <1>1, <1>3, <1>4, <2>1, HeardRest
  <2>3. Pending' = << >>
    BY <1>1, <1>2, <2>1, NonePending
  <2>4. Enrolling'
    BY <1>1, <1>2, <1>4, <2>1, <2>2, <2>3 DEF Enrolling
  <2> QED
    BY <2>4 DEF InStep
<1>6. CASE Device!EnrollSend
  <2>1. Speaks(out[word]) /\ rx' = rx /\ stage = "sending"
    BY <1>6, Speech DEF Device!EnrollSend
  <2>2. IsRest(Unread', resp', k)
    <3>1. PICK t : t = out[word]
      OBVIOUS
    <3> QED
      BY <1>1, <1>3, <1>4, <2>1, <3>1, HeardRest
  <2>3. Pending' = << >>
    BY <1>1, <1>2, <2>1, NonePending
  <2>4. \/ stage' = "sending"
        \/ stage' = "cmd" /\ Len(resp') = 1 + HelperLength /\ resp'[1] = StatusSuccess
    <3>1. CASE word # NumWords
      BY <1>6, <2>1, <3>1 DEF Device!EnrollSend
    <3>2. CASE word = NumWords
      <4>1. stage' = "cmd"
        BY <1>6, <3>2 DEF Device!EnrollSend
      <4>2. PICK t \in Bytes : t = out[word] /\ Len(t) = 1
        <5>1. word \in 0 .. NumWords
          BY DEF TypeInv, DeviceTypeOK
        <5> QED
          BY <2>1, <3>2, <5>1, Parts, Position
      <4>3. resp' = resp \o t
        BY <2>1, <4>2 DEF Speaks
      <4>4. PICK p \in Nat : p = Len(resp)
        BY LenProperties DEF TypeInv, DeviceTypeOK, Bytes
      <4>5. p = 1 + NumWords * BytesPerWord /\ resp[1] = StatusSuccess
        BY <2>1, <3>2, <4>4 DEF ReplyInv
      <4>6. Len(resp') = p + 1 /\ \A i \in 1 .. p : resp'[i] = resp[i]
        BY <4>2, <4>3, <4>4, Extends
      <4>7. PICK n \in Nat : n = NumWords * BytesPerWord /\ HelperLength = n + 1
        BY Shape
      <4>8. 1 \in 1 .. p /\ p + 1 = 1 + HelperLength
        BY <4>5, <4>7
      <4> QED
        BY <4>1, <4>5, <4>6, <4>8
    <3> QED
      BY <3>1, <3>2
  <2>5. Enrolling'
    BY <1>1, <1>2, <1>4, <2>2, <2>3, <2>4 DEF Enrolling
  <2> QED
    BY <2>5 DEF InStep
<1>7. CASE Device!EnrollFail
  <2>1. Speaks(<< >>) /\ stage = "enroll" /\ stage' = "failing"
    BY <1>7, Speech DEF Device!EnrollFail, Device!Fail, Device!Goto
  <2>2. resp = << >> /\ Len(resp) = 0
    BY <2>1, Empty DEF ReplyInv
  <2>3. Unread' = Unread
    BY <1>1, <2>1, HeardNothing
  <2>4. k = 0 /\ Len(Unread) = 0
    <3>1. k \in 0 .. 0 /\ Len(Unread) = 0 - k
      BY <1>4, <2>2 DEF IsRest
    <3>2. k = 0
      BY <3>1
    <3> QED
      BY <3>1, <3>2
  <2>5. step = "enroll_status"
    <3>1. mem.got \in Bytes
      BY DEF TypeInv, HostTypeOK, Memory
    <3>2. Len(mem.got) \in Nat
      BY <3>1, LenProperties DEF Bytes
    <3>3. step = "enroll_helper" => k = 1 + Len(mem.got)
      BY <1>4 DEF Taken
    <3> QED
      BY <1>2, <2>4, <3>2, <3>3
  <2>6. 0 \in 0 .. NumWords + 8
    BY Shape
  <2>7. Taken' = 0 /\ Len(Unread') = 0
    BY <1>1, <1>4, <2>3, <2>4
  <2>8. Broken(0)'
    BY <1>1, <2>1, <2>5, <2>6, <2>7 DEF Broken
  <2> QED
    BY <2>6, <2>8 DEF InStep
<1> QED
  BY <1>3, <1>5, <1>6, <1>7, AtStage

\* How much helper data the tool has written when it waits at each step.
LEMMA FedBound ==
  ASSUME TypeInv, step \in {"ready", "word", "ack"}
  PROVE  /\ Fed \in Nat /\ Fed <= HelperLength
         /\ Fed = HelperLength => step = "ack" /\ mem.word = NumWords
<1>1. HelperLength \in Nat /\ HelperLength # 0
  BY Shape
<1>2. CASE step = "ready"
  BY <1>1, <1>2 DEF Fed
<1>3. CASE step \in {"word", "ack"}
  <2>1. PICK w \in 0 .. NumWords : w = mem.word
    BY <1>3, Shape DEF TypeInv, ToolInv, HostTypeOK, Memory
  <2>2. PICK m \in Nat, b \in Nat : m = w * BytesPerWord /\ b = BytesIn(w) /\ b >= 1
    BY Position
  <2>3. m + b <= HelperLength /\ (w # NumWords => m + b < HelperLength)
    BY <2>2, Position
  <2>4. Fed = IF step = "word" THEN m ELSE m + b
    BY <1>3, <2>1, <2>2 DEF Fed
  <2> QED
    BY <1>1, <1>3, <2>1, <2>2, <2>3, <2>4
<1> QED
  BY <1>2, <1>3

\* The device takes helper bytes, or waits for them in vain.
LEMMA RunHelping ==
  ASSUME TypeInv, ReplyInv, ReplyInv', Run, clean, Helping
  PROVE  InStep'
<1>1. UNCHANGED <<step, mem, drv, wire, export>> /\ Taken' = Taken /\ Fed' = Fed
      /\ (stage' = "failing" => faulted')
  BY RunFrame
<1>2. step \in {"ready", "word", "ack"} /\ stage = "helper"
  BY DEF Helping
<1>3. PICK k : k = Taken /\ IsRest(Unread, resp, k)
  BY DEF Helping
<1>4. CASE Device!HelperByte
  <2>1. PICK f \in Bytes, q \in Bytes, h \in Bytes : f = fed /\ q = Pending /\ h = mem.helper
    <3>1. step = "ready" => Loaded(mem.helper)
      BY DEF TypeInv, ToolInv
    <3>2. Loaded(mem.helper)
      BY <1>2 DEF TypeInv, ToolInv
    <3> QED
      BY <3>2, PendingType DEF Loaded, TypeInv, DeviceTypeOK
  <2>2. Len(h) = HelperLength
    BY <1>2, <2>1 DEF TypeInv, ToolInv, Loaded
  <2>3. /\ Len(f) + Len(q) = Fed
        /\ \A i \in 1 .. Len(f) : f[i] = h[i]
        /\ \A i \in 1 .. Len(q) : q[i] = h[Len(f) + i]
    BY <2>1 DEF Helping
  <2>4. rx # << >> /\ rx' = Tail(rx) /\ fed' = Append(fed, Head(rx))
    BY <1>4 DEF Device!HelperByte
  <2>5. PICK b \in 0 .. 255 : b = Head(rx) /\ b = q[1]
    <3>1. rx \in Bytes
      BY DEF TypeInv, DeviceTypeOK
    <3> QED
      BY <2>1, <2>4, <3>1, PendingType, HeadTailProperties DEF Bytes
  <2>6. PICK g \in Bytes : /\ g = fed' /\ Len(g) = Len(f) + 1 /\ g[Len(f) + 1] = b
                           /\ \A i \in 1 .. Len(f) : g[i] = f[i]
    <3>1. fed' = Append(f, b)
      BY <2>1, <2>4, <2>5
    <3>2. /\ Append(f, b) \in Bytes /\ Len(Append(f, b)) = Len(f) + 1 /\ Append(f, b)[Len(f) + 1] = b
          /\ \A i \in 1 .. Len(f) : Append(f, b)[i] = f[i]
      BY AppendProperties DEF Bytes
    <3> QED
      BY <3>1, <3>2
  <2>7. PICK r \in Bytes : /\ r = Pending' /\ Len(r) = Len(q) - 1 /\ Len(q) >= 1
                           /\ \A i \in 1 .. Len(q) - 1 : r[i] = q[i + 1]
    BY <1>1, <2>1, <2>4, PendingTail
  <2>8. PICK m \in Nat, n \in Nat : m = Len(f) /\ n = Len(q)
    BY LenProperties DEF Bytes
  <2>9. Len(g) + Len(r) = Fed /\ Len(g) = m + 1 /\ Len(r) = n - 1 /\ n >= 1
    BY <2>3, <2>6, <2>7, <2>8
  <2>10. \A i \in 1 .. Len(g) : g[i] = h[i]
    <3> SUFFICES ASSUME NEW i \in 1 .. m + 1
                 PROVE  g[i] = h[i]
      BY <2>9
    <3>1. CASE i <= m
      <4>1. i \in 1 .. Len(f)
        BY <2>8, <3>1
      <4> QED
        BY <2>3, <2>6, <4>1
    <3>2. CASE i = m + 1
      <4>1. q[1] = h[Len(f) + 1]
        <5>1. 1 \in 1 .. Len(q)
          BY <2>8, <2>9
        <5> QED
          BY <2>3, <5>1
      <4> QED
        BY <2>5, <2>6, <2>8, <3>2, <4>1
    <3> QED
      BY <3>1, <3>2
  <2>11. \A i \in 1 .. Len(r) : r[i] = h[Len(g) + i]
    <3> SUFFICES ASSUME NEW i \in 1 .. n - 1
                 PROVE  r[i] = h[m + 1 + i]
      BY <2>9
    <3>1. i \in 1 .. Len(q) - 1 /\ i + 1 \in 1 .. Len(q) /\ Len(f) + (i + 1) = m + 1 + i
      BY <2>8
    <3>2. r[i] = q[i + 1] /\ q[i + 1] = h[Len(f) + (i + 1)]
      BY <2>3, <2>7, <3>1
    <3> QED
      BY <3>1, <3>2
  <2>12. \E t : Speaks(t)
    <3>1. IF Len(fed') < word * BytesPerWord + BytesIn(word) THEN Speaks(<< >>)
          ELSE IF word = NumWords THEN Speaks(<<Ack(word), Marker(1)>>)
               ELSE Speaks(<<Ack(word)>>)
      BY <1>4, Speech
    <3> QED
      BY <3>1
  <2>13. IsRest(Unread', resp', k)
    BY <1>1, <1>2, <1>3, <2>12, HeardRest
  <2>14. CASE stage' = "helper"
    <3>1. Helping'
      BY <1>1, <1>2, <1>3, <2>1, <2>6, <2>7, <2>9, <2>10, <2>11, <2>13, <2>14 DEF Helping
    <3> QED
      BY <3>1 DEF InStep
  <2>15. CASE stage' # "helper"
    <3>1. /\ stage' = "pipeline" /\ word = NumWords
          /\ ~(Len(fed') < word * BytesPerWord + BytesIn(word))
      BY <1>2, <1>4, <2>15, SameBytes DEF Device!HelperByte
    <3>2. Len(g) >= HelperLength
      <4>1. PICK z \in Nat : z = NumWords * BytesPerWord
        BY Shape
      <4>2. HelperLength = z + 1 /\ BytesIn(NumWords) = 1
        BY <4>1 DEF HelperLength, BytesIn
      <4>3. ~(Len(g) < z + 1)
        BY <2>6, <3>1, <4>1, <4>2
      <4> QED
        BY <2>9, <4>2, <4>3
    <3>3. Fed \in Nat /\ Fed <= HelperLength /\ (Fed = HelperLength => step = "ack" /\ mem.word = NumWords)
      BY <1>2, FedBound
    <3>4. HelperLength \in Nat
      BY Shape
    <3>5. Len(r) = 0 /\ Len(g) = HelperLength /\ Fed = HelperLength
      BY <2>8, <2>9, <3>2, <3>3, <3>4
    <3>6. r = << >> /\ g = h
      BY <2>2, <2>10, <3>5, EmptySeq, SeqEqual DEF Bytes
    <3>7. Working'
      BY <1>1, <1>3, <2>1, <2>6, <2>7, <2>13, <3>1, <3>3, <3>5, <3>6 DEF Working
    <3> QED
      BY <3>7 DEF InStep
  <2> QED
    BY <2>14, <2>15
<1>5. CASE Device!HelperTimeout
  <2>1. Speaks(<< >>) /\ stage' = "failing" /\ resp' = resp
    BY <1>5, Speech DEF Device!HelperTimeout, Device!Fail, Device!Goto
  <2>2. Unread' = Unread
    BY <1>1, <2>1, HeardNothing
  <2>3. PICK p \in Nat : p = Len(resp) /\ p <= NumWords + 8 /\ Good(p)
    <3>1. Len(resp) \in Nat
      BY LenProperties DEF TypeInv, DeviceTypeOK, Bytes
    <3> QED
      BY <2>1, <3>1 DEF ReplyInv, Good
  <2>4. k \in 0 .. p /\ Len(Unread) = p - k /\ \A i \in 1 .. p - k : Unread[i] = resp[k + i]
    BY <1>3, <2>3 DEF IsRest
  <2>5. \A i \in 1 .. p - k : Unread[i] = Expected(k + i)
    <3> SUFFICES ASSUME NEW i \in 1 .. p - k
                 PROVE  Unread[i] = Expected(k + i)
      OBVIOUS
    <3>1. k + i \in 1 .. p
      BY <2>4
    <3> QED
      BY <2>3, <2>4, <3>1 DEF Good
  <2>6. p \in 0 .. NumWords + 8 /\ p \in k .. NumWords + 8 /\ p - k <= Len(Unread)
    BY <2>3, <2>4, Shape
  <2>7. Taken' = k /\ faulted' /\ step' = step
    BY <1>1, <1>3, <2>1
  <2>8. Broken(p)'
    BY <1>2, <2>1, <2>2, <2>4, <2>5, <2>6, <2>7 DEF Broken
  <2> QED
    BY <2>6, <2>8 DEF InStep
<1> QED
  BY <1>2, <1>4, <1>5, AtStage

\* The device works through its pipeline on the helper bytes the tool has sent.
LEMMA RunWorking ==
  ASSUME TypeInv, ReplyInv, ReplyInv', Run, clean, Working
  PROVE  InStep'
<1>1. UNCHANGED <<step, mem, drv, wire, export>> /\ Taken' = Taken
      /\ (stage' = "failing" => faulted')
  BY RunFrame
<1>2. /\ (step = "ack" /\ mem.word = NumWords) \/ step = "marker"
      /\ stage = "pipeline" /\ Pending = << >> /\ fed = mem.helper
  BY DEF Working
<1>3. PICK k : k = Taken /\ IsRest(Unread, resp, k)
  BY DEF Working
<1>4. CASE Device!Progressed
  <2>1. stage' = "pipeline" /\ fed' = fed /\ rx' = rx
    BY <1>2, <1>4 DEF Device!Progressed
  <2>2. \E t : Speaks(t)
    BY <1>4, Speech
  <2>3. IsRest(Unread', resp', k)
    BY <1>1, <1>2, <1>3, <2>2, HeardRest
  <2>4. Pending' = << >>
    BY <1>1, <1>2, <2>1, NonePending
  <2>5. Working'
    BY <1>1, <1>2, <1>3, <2>1, <2>3, <2>4 DEF Working
  <2> QED
    BY <2>5 DEF InStep
<1>5. CASE Device!Succeed
  <2>1. stage' = "closing" /\ rx' = rx
    BY <1>5 DEF Device!Succeed, Device!Goto
  <2>2. \E t : Speaks(t)
    BY <1>5, Speech
  <2>3. IsRest(Unread', resp', k)
    BY <1>1, <1>2, <1>3, <2>2, HeardRest
  <2>4. Pending' = << >>
    BY <1>1, <1>2, <2>1, NonePending
  <2>5. used' = mem'.helper
    BY <1>1, <1>2, <2>1 DEF Run
  <2>6. FullReply'
    BY <2>1 DEF ReplyInv
  <2>7. Finished'
    BY <1>1, <1>2, <1>3, <2>1, <2>3, <2>4, <2>5, <2>6 DEF Finished
  <2> QED
    BY <2>7 DEF InStep
<1>6. CASE Device!PipelineFail
  <2>1. Speaks(<< >>) /\ stage' = "failing" /\ resp' = resp
    BY <1>6, Speech DEF Device!PipelineFail, Device!Fail, Device!Goto
  <2>2. Unread' = Unread
    BY <1>1, <2>1, HeardNothing
  <2>3. PICK p \in Nat : p = Len(resp) /\ p <= NumWords + 8 /\ Good(p)
    <3>1. Len(resp) \in Nat
      BY LenProperties DEF TypeInv, DeviceTypeOK, Bytes
    <3> QED
      BY <2>1, <3>1 DEF ReplyInv, Good
  <2>4. k \in 0 .. p /\ Len(Unread) = p - k /\ \A i \in 1 .. p - k : Unread[i] = resp[k + i]
    BY <1>3, <2>3 DEF IsRest
  <2>5. \A i \in 1 .. p - k : Unread[i] = Expected(k + i)
    <3> SUFFICES ASSUME NEW i \in 1 .. p - k
                 PROVE  Unread[i] = Expected(k + i)
      OBVIOUS
    <3>1. k + i \in 1 .. p
      BY <2>4
    <3> QED
      BY <2>3, <2>4, <3>1 DEF Good
  <2>6. p \in 0 .. NumWords + 8 /\ p \in k .. NumWords + 8 /\ p - k <= Len(Unread)
    BY <2>3, <2>4, Shape
  <2>7. Taken' = k /\ faulted' /\ step' = step
    BY <1>1, <1>3, <2>1
  <2>8. Broken(p)'
    BY <1>2, <2>1, <2>2, <2>4, <2>5, <2>6, <2>7 DEF Broken
  <2> QED
    BY <2>6, <2>8 DEF InStep
<1> QED
  BY <1>2, <1>4, <1>5, <1>6, AtStage

\* The device has finished: at most it goes back to its loop.
LEMMA RunFinished ==
  ASSUME TypeInv, Run, Finished \/ Idle
  PROVE  InStep'
<1>1. UNCHANGED <<step, mem, drv, wire, export>> /\ Taken' = Taken
  BY RunFrame
<1>2. stage \in {"closing", "cmd"} /\ Pending = << >> /\ rx = << >>
  BY PendingType DEF Finished, Idle
<1>3. Device!Close
  BY <1>2, AtStage
<1>4. Speaks(<< >>) /\ stage' = "cmd" /\ rx' = rx /\ resp' = resp /\ used' = used
  BY <1>3, Speech DEF Device!Close, Device!Goto, Run
<1>5. Unread' = Unread
  BY <1>1, <1>4, HeardNothing
<1>6. Pending' = << >>
  BY <1>1, <1>2, <1>4, NonePending
<1>7. FullReply => FullReply'
  BY <1>1, <1>4 DEF FullReply, Good
<1>8. Finished => Finished'
  BY <1>1, <1>4, <1>5, <1>6, <1>7 DEF Finished
<1>9. Idle => Idle'
  BY <1>1, <1>4, <1>5, <1>6 DEF Idle
<1> QED
  BY <1>8, <1>9 DEF InStep

LEMMA TakenType ==
  ASSUME TypeInv
  PROVE  Taken \in Nat
<1>1. mem \in Memory
  BY DEF TypeInv, HostTypeOK
<1>2. Len(mem.got) \in Nat /\ mem.word \in Nat /\ mem.progress \in Nat /\ NumWords \in Nat
  BY <1>1, Shape, LenProperties DEF Memory, Bytes
<1> QED
  BY <1>2 DEF Taken

LEMMA Joined ==
  ASSUME NEW v \in Bytes, NEW t \in Bytes, NEW n \in Nat, n = Len(v)
  PROVE  /\ Len(v \o t) = n + Len(t) /\ Len(t) \in Nat
         /\ \A i \in 1 .. n : (v \o t)[i] = v[i]
         /\ \A i \in 1 .. Len(t) : (v \o t)[n + i] = t[i]
<1>1. /\ Len(v \o t) = Len(v) + Len(t) /\ Len(v) \in Nat /\ Len(t) \in Nat
      /\ \A i \in 1 .. Len(v) + Len(t) : (v \o t)[i] = IF i <= Len(v) THEN v[i] ELSE t[i - Len(v)]
  BY NewBytes
<1>2. PICK x, l : l \in Nat /\ x = v \o t /\ l = Len(t)
  BY <1>1
<1>3. \A i \in 1 .. n + l : x[i] = IF i <= n THEN v[i] ELSE t[i - n]
  BY <1>1, <1>2
<1>4. ASSUME NEW i \in 1 .. l
      PROVE  x[n + i] = t[i]
  <2>1. n + i \in 1 .. n + l /\ ~(n + i <= n) /\ n + i - n = i
    BY <1>2
  <2> QED
    BY <1>3, <2>1
<1>5. \A i \in 1 .. n : x[i] = v[i]
  BY <1>2, <1>3
<1> QED
  BY <1>1, <1>2, <1>4, <1>5

LEMMA AnySpeech ==
  ASSUME TypeInv, Run
  PROVE  \E t \in Bytes : Speaks(t)
<1>1. \E t : Speaks(t)
  BY Speech DEF Run, Device!DeviceStep
<1> QED
  BY <1>1 DEF Speaks

\* The device has given up: what it says next begins with the report.
LEMMA RunBroken ==
  ASSUME TypeInv, Run, NEW p \in 0 .. NumWords + 8, Broken(p)
  PROVE  InStep'
<1>1. UNCHANGED <<step, mem, drv, wire, export>> /\ Taken' = Taken /\ faulted'
  BY RunFrame DEF Broken
<1>2. PICK k : k = Taken
  OBVIOUS
<1>3. /\ step \in {"enroll_status", "ready", "word", "ack", "marker"}
      /\ p \in k .. NumWords + 8
      /\ p - k <= Len(Unread)
      /\ \A i \in 1 .. p - k : Unread[i] = Expected(k + i)
      /\ \/ stage = "failing" /\ Len(Unread) = p - k
         \/ Len(Unread) > p - k /\ Unread[p - k + 1] = StatusFail
  BY <1>2 DEF Broken
<1>4. PICK v \in Bytes, d \in Nat, n \in Nat : v = Unread /\ n = Len(v) /\ d = p - k
  <2>1. k \in Nat /\ p - k \in Nat
    BY <1>2, <1>3, TakenType
  <2> QED
    BY <2>1, UnreadType, LenProperties DEF Bytes
<1>5. PICK t \in Bytes : Speaks(t)
  BY AnySpeech
<1>6. PICK w : w = Unread' /\ w = v \o t
  BY <1>1, <1>4, <1>5, Heard
<1>7. /\ Len(w) = n + Len(t) /\ Len(t) \in Nat
      /\ \A i \in 1 .. n : w[i] = v[i]
      /\ \A i \in 1 .. Len(t) : w[n + i] = t[i]
  BY <1>4, <1>6, Joined
<1>8. d <= n /\ \A i \in 1 .. d : w[i] = Expected(k + i)
  BY <1>3, <1>4, <1>7
<1>9. Len(w) > d /\ w[d + 1] = StatusFail
  <2>1. CASE n > d /\ v[d + 1] = StatusFail
    <3>1. d + 1 \in 1 .. n
      BY <2>1
    <3> QED
      BY <1>7, <2>1, <3>1
  <2>2. CASE stage = "failing" /\ n = d
    <3>1. Speaks(<<StatusFail, code>>) /\ <<StatusFail, code>> \in Bytes
      BY <2>2, AtStage, Speech, Parts
    <3>2. PICK u \in Bytes : u = <<StatusFail, code>> /\ Len(u) = 2 /\ u[1] = StatusFail
      BY <3>1
    <3>3. w = v \o u
      BY <1>1, <1>4, <1>6, <3>1, <3>2, Heard
    <3>4. Len(w) = n + 2 /\ \A i \in 1 .. 2 : w[n + i] = u[i]
      BY <1>4, <3>2, <3>3, Joined
    <3>5. 1 \in 1 .. 2
      OBVIOUS
    <3> QED
      BY <2>2, <3>2, <3>4, <3>5
  <2> QED
    BY <1>3, <1>4, <2>1, <2>2
<1>10. Broken(p)'
  <2>1. w[p - k + 1] = StatusFail /\ Len(w) > p - k /\ p - k <= Len(w)
    BY <1>4, <1>7, <1>8, <1>9
  <2>2. \A i \in 1 .. p - k : w[i] = Expected(k + i)
    BY <1>4, <1>8
  <2> QED
    BY <1>1, <1>2, <1>3, <1>6, <2>1, <2>2 DEF Broken
<1> QED
  BY <1>10 DEF InStep

\* A session in step with the device stays in step whatever the device does.
LEMMA RunInStep ==
  ASSUME TypeInv, ReplyInv, ReplyInv', Run, clean, InStep
  PROVE  InStep'
<1>1. ASSUME step = "fail_code", faulted
      PROVE  InStep'
  BY <1>1, RunFrame DEF InStep
<1>2. ASSUME NEW p \in 0 .. NumWords + 8, Broken(p)
      PROVE  InStep'
  BY <1>2, RunBroken
<1> QED
  BY <1>1, <1>2, RunAsking, RunInformed, RunEnrolling, RunHelping, RunWorking, RunFinished DEF InStep

LEMMA RunSession ==
  ASSUME TypeInv, SessionInv, Run
  PROVE  SessionInv' /\ ~Accepts
<1>1. ReplyInv'
  BY RunReply DEF SessionInv
<1>2. UNCHANGED <<step, command, mem, verdict, clean, export>> /\ (faulted => faulted')
  BY RunFrame
<1>3. clean /\ step # "closed" => InStep'
  BY <1>1, RunInStep DEF SessionInv, CleanInv
<1>4. CleanInv'
  BY <1>2, <1>3 DEF SessionInv, CleanInv
<1>5. StartInv'
  BY <1>2 DEF SessionInv, StartInv
<1>6. NoFalseAlarm'
  BY <1>2 DEF SessionInv, NoFalseAlarm
<1>7. ~Accepts
  <2>1. mem.passed \in Nat
    BY DEF TypeInv, HostTypeOK, Memory
  <2> QED
    BY <1>2, <2>1 DEF Accepts
<1> QED
  BY <1>1, <1>4, <1>5, <1>6, <1>7 DEF SessionInv

--------------------------------------------------------------------------------
\* What an accepting step establishes, for the two action properties.
Outcome ==
  Accepts /\ clean =>
    /\ Quiet' /\ stage \in {"cmd", "closing"}
    /\ command \in {"reconstruct", "stress"} => used = mem.helper

\* The device is as it was, and with it what it has said.
LEMMA ReplySame ==
  ASSUME ReplyInv, UNCHANGED deviceVars
  PROVE  ReplyInv'
BY DEF ReplyInv, FullReply, Good, deviceVars

\* A step that ends the process.
LEMMA Ended ==
  ASSUME TypeInv, step' = "closed", mem' = NoMemory,
         verdict' = "failed" /\ clean' /\ ~faulted' => (command = "stress" /\ export),
         UNCHANGED <<command, export>>
  PROVE  StartInv' /\ CleanInv' /\ NoFalseAlarm' /\ (verdict' # "ok" => Outcome)
<1>1. NoMemory.failed = 0 /\ NoMemory.reference = None /\ NoMemory.passed = 0
  BY DEF NoMemory
<1>2. StartInv'
  BY <1>1 DEF StartInv
<1>3. CleanInv'
  BY <1>1 DEF CleanInv
<1>4. NoFalseAlarm'
  BY DEF NoFalseAlarm
<1>5. verdict' # "ok" => Outcome
  <2>1. mem.passed \in Nat
    BY DEF TypeInv, HostTypeOK, Memory
  <2>2. ~(0 > mem.passed)
    BY <2>1
  <2> QED
    BY <1>1, <2>2 DEF Outcome, Accepts
<1> QED
  BY <1>2, <1>3, <1>4, <1>5

\* A step after which the transaction goes on.
LEMMA Continued ==
  ASSUME TypeInv, CleanInv, StartInv, UNCHANGED <<command, export, verdict>>,
         step' \in {"info_reply", "enroll_status", "enroll_helper", "save", "saving", "ready", "word", "ack",
                    "marker", "status", "flags", "key", "fail_code"},
         step' \in {"enroll_status", "enroll_helper", "save", "saving"}
           => step \in {"enroll", "enroll_status", "enroll_helper", "save"},
         mem'.failed = mem.failed, mem'.reference = mem.reference, mem'.passed = mem.passed,
         clean' => InStep' /\ clean
  PROVE  StartInv' /\ CleanInv' /\ NoFalseAlarm' /\ Outcome
<1>1. StartInv'
  BY DEF StartInv
<1>2. CleanInv'
  <2>1. clean' /\ command' = "stress" /\ ~export' => mem'.failed = 0 /\ mem'.reference \in {None, << >>}
    BY DEF CleanInv
  <2> QED
    BY <2>1 DEF CleanInv
<1>3. NoFalseAlarm'
  BY DEF NoFalseAlarm
<1>4. Outcome
  <2>1. mem.passed \in Nat
    BY DEF TypeInv, HostTypeOK, Memory
  <2> QED
    BY <2>1 DEF Outcome, Accepts
<1> QED
  BY <1>1, <1>2, <1>3, <1>4

\* Bytes move on.
LEMMA DriverSession ==
  ASSUME TypeInv, SessionInv, ToDriver
  PROVE  SessionInv' /\ Outcome
<1>1. UNCHANGED <<step, command, mem, verdict, clean, faulted, used, wire>> /\ UNCHANGED deviceVars
  BY DEF ToDriver, historyVars
<1>2. Unread' = Unread
  <2>1. PICK v \in Bytes : v = drv \o line
    BY UnreadType DEF Unread
  <2>2. v \o << >> = v
    BY ConcatEmptySeq DEF Bytes
  <2> QED
    BY <2>1, <2>2 DEF ToDriver, Unread
<1>3. ReplyInv'
  BY <1>1, ReplySame DEF SessionInv
<1>4. UNCHANGED <<Pending, Taken, Fed>>
  BY <1>1 DEF Pending, Taken, Fed, deviceVars
<1>5. InStep => InStep'
  BY <1>1, <1>2, <1>4 DEF InStep, Asking, Informed, Enrolling, Helping, Working, Finished, Idle, Broken,
                          FullReply, Good, deviceVars
<1>6. mem.passed \in Nat
  BY DEF TypeInv, HostTypeOK, Memory
<1> QED
  BY <1>1, <1>3, <1>5, <1>6 DEF SessionInv, StartInv, CleanInv, NoFalseAlarm, Outcome, Accepts, deviceVars

\* In a session that is in step the receive FIFO has room for what is written.
LEMMA Room ==
  ASSUME TypeInv, ReplyInv, InStep, wire # << >>
  PROVE  \/ Len(rx) < RxCapacity
         \/ step = "fail_code" /\ faulted
         \/ \E p \in 0 .. NumWords + 8 : Broken(p)
<1>1. Pending # << >> /\ Len(Pending) = Len(rx) + Len(wire) /\ Len(rx) \in Nat /\ Len(wire) \in Nat
  BY PendingType
<1>2. Len(wire) >= 1
  <2>1. wire \in Seq(0 .. 255)
    BY DEF TypeInv, HostTypeOK, Bytes
  <2> QED
    BY <1>1, <2>1, EmptySeq
<1>3. BytesPerWord \in Nat \ {0} /\ BytesPerWord <= RxCapacity /\ RxCapacity \in Nat
  BY Shape
<1>4. ~Informed /\ ~Enrolling /\ ~Working /\ ~Finished /\ ~Idle
  BY <1>1 DEF Informed, Enrolling, Working, Finished, Idle
<1>5. CASE Asking
  <2>1. \A b \in 0 .. 255 : Len(<<b>>) = 1
    BY ByteValues
  <2>2. Len(Pending) = 1
    BY <1>5, <2>1, ProtocolValues DEF Asking
  <2>3. PICK a \in Nat, b \in Nat : a = Len(rx) /\ b = Len(wire)
    BY <1>1
  <2>a. Len(Pending) = Len(rx) + Len(wire)
    BY <1>1
  <2>b. 1 = a + b /\ b >= 1
    BY <1>2, <2>2, <2>3, <2>a
  <2>4. a = 0
    BY <2>b
  <2>5. 0 < RxCapacity
    BY <1>3
  <2> QED
    BY <2>3, <2>4, <2>5
<1>6. CASE Helping
  <2>1. /\ step \in {"ready", "word", "ack"} /\ stage = "helper" /\ IsRest(Unread, resp, Taken)
        /\ Len(fed) + Len(Pending) = Fed
    BY <1>6 DEF Helping
  <2>2. Len(Pending) \in Nat \ {0} /\ Len(fed) \in Nat
    <3>1. fed \in Bytes
      BY DEF TypeInv, DeviceTypeOK
    <3> QED
      BY <1>1, <1>2, <3>1, LenProperties DEF Bytes
  <2>3. step # "ready"
    BY <2>1, <2>2 DEF Fed
  <2>4. PICK w \in 0 .. NumWords, d \in 0 .. NumWords : w = mem.word /\ d = word
    BY <2>1, <2>3, Shape DEF TypeInv, ToolInv, HostTypeOK, DeviceTypeOK, Memory
  <2>5. w <= d
    <3>1. Taken = 1 + w /\ Len(resp) = 1 + d
      BY <2>1, <2>3, <2>4 DEF Taken, ReplyInv
    <3>2. 1 + w \in 0 .. 1 + d
      BY <2>1, <3>1 DEF IsRest
    <3> QED
      BY <3>2
  <2>6. PICK m \in Nat, n \in Nat, b \in Nat :
          m = w * BytesPerWord /\ n = d * BytesPerWord /\ b = BytesIn(w) /\ b <= BytesPerWord /\ m <= n
    BY <2>4, <2>5, Position
  <2>7. n <= Len(fed) /\ Fed <= m + b
    <3>1. n <= Len(fed)
      BY <2>1, <2>4, <2>6 DEF TypeInv, LoopInv
    <3>2. Fed = IF step = "word" THEN m ELSE m + b
      BY <2>1, <2>3, <2>4, <2>6 DEF Fed
    <3> QED
      BY <2>6, <3>1, <3>2
  <2>8. Len(Pending) <= BytesPerWord
    BY <2>1, <2>2, <2>6, <2>7, <1>3
  <2> QED
    BY <1>1, <1>2, <1>3, <2>8
<1> QED
  BY <1>4, <1>5, <1>6 DEF InStep

LEMMA DeviceSession ==
  ASSUME TypeInv, SessionInv, ToDevice
  PROVE  SessionInv' /\ Outcome
<1>1. /\ UNCHANGED <<step, command, mem, verdict, clean, faulted, used, drv, line>>
      /\ UNCHANGED <<stage, word, code, fed, out, export, resp>>
  BY DEF ToDevice, Device!Arrive, historyVars
<1>2. UNCHANGED <<Unread, Taken, Fed>>
  BY <1>1 DEF Unread, Taken, Fed
<1>3. ReplyInv'
  BY <1>1 DEF SessionInv, ReplyInv, FullReply, Good
<1>4. ASSUME InStep
      PROVE  InStep'
  <2>1. CASE Len(rx) < RxCapacity
    <3>1. Pending' = Pending
      BY <2>1, PendingSame DEF ToDevice, Device!Arrive
    <3> QED
      BY <1>1, <1>2, <1>4, <3>1 DEF InStep, Asking, Informed, Enrolling, Helping, Working, Finished, Idle, Broken,
                              FullReply, Good
  <2>2. CASE step = "fail_code" /\ faulted
    BY <1>1, <2>2 DEF InStep
  <2>3. CASE \E p \in 0 .. NumWords + 8 : Broken(p)
    BY <1>1, <1>2, <2>3 DEF InStep, Broken
  <2> QED
    BY <1>4, <2>1, <2>2, <2>3, Room DEF SessionInv, ToDevice
<1>5. mem.passed \in Nat
  BY DEF TypeInv, HostTypeOK, Memory
<1> QED
  BY <1>1, <1>3, <1>4, <1>5 DEF SessionInv, StartInv, CleanInv, NoFalseAlarm, Outcome, Accepts

\* A device that waits for the tool and a tool that waits for the device: one of
\* them has been told that something failed.
LEMMA NotStuck ==
  ASSUME TypeInv, ReplyInv, InStep, Quiet, stage \in {"boot", "cmd", "helper"}, step \in Reads
  PROVE  faulted
<1>1. Unread = << >> /\ Pending = << >>
  <2>1. << >> \o << >> = << >>
    BY Empty, ConcatEmptySeq DEF Bytes
  <2> QED
    BY <2>1 DEF Quiet, Unread, Pending
<1>2. PICK p \in Nat : p = Len(resp)
  BY LenProperties DEF TypeInv, DeviceTypeOK, Bytes
<1>3. IsRest(Unread, resp, Taken) => Taken = p
  <2>1. ASSUME IsRest(Unread, resp, Taken)
        PROVE  Taken = p
    <3>1. Taken \in 0 .. p /\ Len(Unread) = p - Taken
      BY <1>2, <2>1 DEF IsRest
    <3>2. p - Taken = 0
      BY <1>1, <3>1, Empty
    <3> QED
      BY <3>1, <3>2
  <2> QED
    BY <2>1
<1>4. PICK g \in Nat : g = Len(mem.got)
  BY LenProperties DEF TypeInv, HostTypeOK, Memory, Bytes
<1>5. mem.word \in Nat /\ mem.progress \in Nat /\ NumWords \in Nat /\ KeyLength \in Nat /\ HelperLength \in Nat
  BY Shape DEF TypeInv, HostTypeOK, Memory
<1>6. ~Asking /\ ~Working /\ ~Idle
  BY <1>1 DEF Asking, Working, Idle, Reads
<1>7. ~Informed
  <2>1. ASSUME Informed
        PROVE  FALSE
    <3>1. p = 5
      <4>1. export \in BOOLEAN /\ resp = InfoReplyOf(export)
        BY <2>1 DEF Informed, TypeInv, DeviceTypeOK
      <4> QED
        BY <1>2, <4>1, ByteValues
    <3>2. Taken = g /\ g < 5
      BY <1>4, <2>1 DEF Informed, Taken, TypeInv, ToolInv
    <3> QED
      BY <1>3, <2>1, <3>1, <3>2 DEF Informed
  <2> QED
    BY <2>1
<1>8. ~Enrolling
  <2>1. ASSUME Enrolling
        PROVE  FALSE
    <3>1. p = 1 + HelperLength /\ step \in {"enroll_status", "enroll_helper"} /\ Taken = p
      BY <1>2, <1>3, <2>1 DEF Enrolling
    <3>2. step = "enroll_helper" => Taken = 1 + g /\ g < HelperLength
      BY <1>4 DEF Taken, TypeInv, ToolInv
    <3>3. step = "enroll_status" => Taken = 0
      BY DEF Taken
    <3> QED
      BY <1>5, <3>1, <3>2, <3>3
  <2> QED
    BY <2>1
<1>9. ~Helping
  <2>1. ASSUME Helping
        PROVE  FALSE
    <3>1. step \in {"ready", "ack"} /\ Taken = p /\ stage = "helper" /\ Len(fed) + Len(Pending) = Fed
      BY <1>3, <2>1 DEF Helping, Reads
    <3>2. p = 1 + word /\ word \in 0 .. NumWords
      BY <1>2, <3>1 DEF ReplyInv, TypeInv, DeviceTypeOK
    <3>3. step = "ack" /\ mem.word = word
      BY <1>5, <3>1, <3>2 DEF Taken
    <3>4. Len(fed) < word * BytesPerWord + BytesIn(word)
      BY <3>1 DEF TypeInv, LoopInv
    <3>5. Fed = word * BytesPerWord + BytesIn(word)
      BY <3>3 DEF Fed
    <3>6. PICK n \in Nat : n = Len(fed)
      BY LenProperties DEF TypeInv, DeviceTypeOK, Bytes
    <3>7. n + 0 = Fed
      BY <1>1, <3>1, <3>6, Empty
    <3>8. PICK z \in Nat : z = word * BytesPerWord + BytesIn(word)
      BY <3>2, Position
    <3> QED
      BY <3>4, <3>5, <3>6, <3>7, <3>8
  <2> QED
    BY <2>1
<1>10. ~Finished
  <2>1. ASSUME Finished
        PROVE  FALSE
    <3>1. Taken = p /\ p = NumWords + 11 + (IF export THEN KeyLength ELSE 0)
      BY <1>2, <1>3, <2>1 DEF Finished, FullReply
    <3>2. p >= NumWords + 11 /\ (export => p = NumWords + 11 + KeyLength)
      BY <1>5, <3>1
    <3>3. CASE step = "ack" /\ mem.word = NumWords
      <4>1. Taken = 1 + NumWords
        BY <3>3 DEF Taken
      <4> QED
        BY <1>5, <3>1, <3>2, <4>1
    <3>4. CASE step = "marker"
      <4>1. Taken = NumWords + 2 + mem.progress /\ mem.progress <= 6
        BY <3>4 DEF Taken, TypeInv, ToolInv
      <4> QED
        BY <1>5, <3>1, <3>2, <4>1
    <3>5. CASE step \in {"status", "flags"}
      <4>1. Taken = NumWords + 9 \/ Taken = NumWords + 10
        BY <3>5 DEF Taken
      <4> QED
        BY <1>5, <3>1, <3>2, <4>1
    <3>6. CASE step = "key" /\ export
      <4>1. Taken = NumWords + 11 + g /\ g < KeyLength
        BY <1>4, <3>6 DEF Taken, TypeInv, ToolInv
      <4> QED
        BY <1>5, <3>1, <3>2, <3>6, <4>1
    <3> QED
      BY <2>1, <3>3, <3>4, <3>5, <3>6 DEF Finished
  <2> QED
    BY <2>1
<1> QED
  BY <1>6, <1>7, <1>8, <1>9, <1>10 DEF InStep, Broken

\* A read that ends before its bytes have come.
LEMMA NotStarved ==
  ASSUME TypeInv, ReplyInv, InStep, Starved, step \in Reads
  PROVE  faulted \/ stage = "enroll"
<1>1. CASE stage \in {"boot", "cmd", "helper"} /\ rx = << >>
  <2>1. Quiet
    BY <1>1 DEF Starved, Quiet
  <2> QED
    BY <1>1, <2>1, NotStuck
<1>2. CASE stage = "pipeline" /\ step \in {"info_reply", "enroll_helper", "key"}
  BY <1>2 DEF InStep, Asking, Informed, Enrolling, Helping, Working, Finished, Idle, Broken
<1> QED
  BY <1>1, <1>2 DEF Starved

\* A session that finds an idle device begins in step with it.
LEMMA MetIdle ==
  ASSUME TypeInv, DeviceIdle, drv' = << >>, UNCHANGED <<line, rx, wire, stage>>, step' \in Commands
  PROVE  InStep'
<1>1. << >> \o << >> = << >>
  BY Empty, ConcatEmptySeq DEF Bytes
<1>2. Unread' = << >> /\ Pending' = << >> /\ stage' = "cmd"
  BY <1>1 DEF DeviceIdle, Unread, Pending
<1> QED
  BY <1>2 DEF InStep, Idle, Commands

\* A process begins or ends, or the device is loaded again.
LEMMA OthersSession ==
  ASSUME TypeInv, SessionInv, OpenPort \/ Settle \/ GiveUp \/ Interrupt \/ Reload
  PROVE  SessionInv' /\ Outcome
<1> USE DEF SessionInv
<1>0. NoMemory.failed = 0 /\ NoMemory.reference = None /\ NoMemory.passed = 0 /\ mem.passed \in Nat
  BY DEF NoMemory, TypeInv, HostTypeOK, Memory
<1>1. CASE OpenPort
  <2>1. ReplyInv' /\ ~clean'
    BY <1>1, ReplySame DEF OpenPort
  <2>2. /\ step = "closed" /\ verdict' # "ok" /\ step' \in {"closed", "banner", "settle"}
        /\ mem'.failed = 0 /\ mem'.reference = None
    BY <1>0, <1>1 DEF OpenPort, Open, OpenFails, Exit, NoMemory
  <2> QED
    BY <2>1, <2>2 DEF StartInv, CleanInv, NoFalseAlarm, Outcome, Accepts
<1>2. CASE Settle
  <2>1. ReplyInv'
    BY <1>2, ReplySame DEF Settle
  <2>2. /\ step = "settle" /\ step' = command /\ command \in Commands
        /\ UNCHANGED <<mem, verdict, command, line, rx, wire, stage>>
        /\ clean' => DeviceIdle /\ drv' = << >>
    BY <1>2 DEF Settle, Discard, Continue, deviceVars, TypeInv, HostTypeOK
  <2>3. clean' => InStep'
    BY <2>2, MetIdle
  <2>4. mem.failed = 0 /\ mem.reference = None
    BY <2>2 DEF StartInv
  <2> QED
    BY <1>0, <2>1, <2>2, <2>3, <2>4 DEF StartInv, CleanInv, NoFalseAlarm, Outcome, Accepts, Commands
<1>3. CASE GiveUp
  <2>1. ReplyInv' /\ UNCHANGED <<clean, command, export>>
        /\ (clean /\ (faulted \/ stage = "enroll") => faulted')
    BY <1>3, ReplySame DEF GiveUp, BannerTimeout, ReadTimeout, deviceVars
  <2>2. step' = "closed" /\ mem' = NoMemory /\ verdict' = "failed"
    BY <1>3 DEF GiveUp, BannerTimeout, ReadTimeout, Exit
  <2>3. clean => faulted \/ stage = "enroll"
    <3>1. CASE BannerTimeout
      BY <3>1 DEF BannerTimeout, StartInv
    <3>2. CASE Starved /\ ReadTimeout
      <4>1. step \in Reads /\ step # "closed"
        BY <3>2 DEF ReadTimeout, Reads
      <4> QED
        BY <3>2, <4>1, NotStarved DEF CleanInv
    <3> QED
      BY <1>3, <3>1, <3>2 DEF GiveUp
  <2> QED
    BY <2>1, <2>2, <2>3, Ended
<1>4. CASE Interrupt
  <2>1. ReplyInv' /\ UNCHANGED <<command, export>>
    BY <1>4, ReplySame DEF Interrupt, Kill, deviceVars
  <2>2. step' = "closed" /\ mem' = NoMemory /\ verdict' = "killed"
    BY <1>4 DEF Interrupt, Kill
  <2> QED
    BY <2>1, <2>2, Ended
<1>5. CASE Reload
  <2>1. /\ UNCHANGED <<step, mem, verdict>> /\ ~clean' /\ stage' = "boot"
    BY <1>5 DEF Reload
  <2>2. ReplyInv'
    BY <2>1 DEF ReplyInv
  <2> QED
    BY <1>0, <2>1, <2>2 DEF StartInv, CleanInv, NoFalseAlarm, Outcome, Accepts
<1> QED
  BY <1>1, <1>2, <1>3, <1>4, <1>5

--------------------------------------------------------------------------------
(***************************************************************************)
(* The steps of the tool.                                                  *)
(***************************************************************************)
Kept == StartInv' /\ CleanInv' /\ NoFalseAlarm' /\ Outcome

LEMMA WorkFrame ==
  ASSUME TypeInv, Work
  PROVE  /\ UNCHANGED <<stage, word, rx, fed, out, export, resp, line, faulted>>
         /\ step # "banner" => (clean' => clean)
         /\ step # "banner" /\ ~Refuses => clean' = clean
         /\ step # "reconstruct" => used' = used
         /\ command' = command
         /\ step = "banner" => step' \in {"banner", command}
<1>1. command' = command
  BY DEF Work, HostStep, WaitForStart, SendInfo, ReadInfo, StartStress, SendEnroll, ReadEnrollStatus,
         ReadEnrollHelper, OpenFile, SaveFile, SendRecon, ReadReady, SendWord, ReadAck, ReadMarker,
         ReadStatus, ReadFlags, ReadKey, ReadFailCode, Answer, Read
<1>2. step = "banner" => WaitForStart
  BY DEF Work, HostStep, WaitForStart, SendInfo, ReadInfo, StartStress, SendEnroll, ReadEnrollStatus,
         ReadEnrollHelper, OpenFile, SaveFile, SendRecon, ReadReady, SendWord, ReadAck, ReadMarker,
         ReadStatus, ReadFlags, ReadKey, ReadFailCode, Answer, Read
<1>3. step = "banner" => step' \in {"banner", command}
  BY <1>2 DEF WaitForStart, Continue
<1>4. step # "banner" => (clean' => clean)
  BY DEF Work
<1>5. step # "banner" /\ ~Refuses => clean' = clean
  <2>1. step # "banner" => clean' = (clean /\ ~Refuses)
    BY DEF Work
  <2>2. clean \in BOOLEAN
    BY DEF TypeInv, DeviceTypeOK
  <2> QED
    BY <2>1, <2>2
<1> QED
  BY <1>1, <1>3, <1>4, <1>5 DEF Work, deviceVars

\* The transaction goes on.
LEMMA GoesOn ==
  ASSUME TypeInv, SessionInv, Work, verdict' = verdict,
         step' \in {"info_reply", "enroll_status", "enroll_helper", "save", "saving", "ready", "word", "ack",
                    "marker", "status", "flags", "key", "fail_code"},
         step' \in {"enroll_status", "enroll_helper", "save", "saving"}
           => step \in {"enroll", "enroll_status", "enroll_helper", "save"},
         mem'.failed = mem.failed, mem'.reference = mem.reference, mem'.passed = mem.passed,
         clean => InStep'
  PROVE  Kept
<1>1. UNCHANGED <<command, export, verdict>> /\ step # "banner"
  BY WorkFrame DEF TypeInv, HostTypeOK, Commands
<1>2. clean' => clean
  BY <1>1, WorkFrame
<1> QED
  BY <1>1, <1>2, Continued DEF Kept, SessionInv

\* The device has reported a failure, or said something else in a session that
\* did not meet it idle.
LEMMA Refused ==
  ASSUME TypeInv, SessionInv, Work, clean => faulted,
         \/ step' = "fail_code" /\ mem' = mem /\ verdict' = verdict
         \/ step' = "closed" /\ mem' = NoMemory /\ verdict' = "failed"
  PROVE  Kept
<1>1. UNCHANGED <<command, export, faulted>>
  BY WorkFrame
<1>2. CASE step' = "fail_code" /\ mem' = mem /\ verdict' = verdict
  <2>1. clean => InStep'
    BY <1>1, <1>2 DEF InStep
  <2> QED
    BY <1>2, <2>1, GoesOn
<1>3. CASE step' = "closed" /\ mem' = NoMemory /\ verdict' = "failed"
  <2>1. verdict' # "ok" /\ step # "banner"
    BY <1>3, WorkFrame DEF TypeInv, HostTypeOK, Commands
  <2>2. clean' => clean
    BY <2>1, WorkFrame
  <2> QED
    BY <1>1, <1>3, <2>1, <2>2, Ended DEF Kept
<1> QED
  BY <1>2, <1>3

\* The first command of a session, and each RECON of a stress run.
LEMMA Asks ==
  ASSUME TypeInv, Pending = << >>, rx' = rx, NEW c \in 0 .. 255, wire' = wire \o <<c>>
  PROVE  Pending' = <<c>>
<1>1. rx = << >> /\ wire = << >>
  BY PendingType
<1>2. PICK t \in Bytes : t = <<c>>
  BY ByteValues
<1>3. << >> \o t = t
  BY ConcatEmptySeq DEF Bytes
<1> QED
  BY <1>1, <1>2, <1>3 DEF Pending

LEMMA BothQuiet ==
  ASSUME TypeInv, drv' \in Bytes, line' = line, Unread' = << >>, Pending = << >>, rx' = rx, wire' = wire
  PROVE  Quiet'
<1>1. rx' = << >> /\ wire' = << >>
  BY PendingType
<1>2. PICK d \in Bytes, l \in Bytes : d = drv' /\ l = line'
  BY DEF TypeInv, HostTypeOK
<1>3. /\ Len(d \o l) = Len(d) + Len(l) /\ Len(d) \in Nat /\ Len(l) \in Nat
  BY NewBytes
<1>4. Len(d \o l) = 0
  BY <1>2, Empty DEF Unread
<1>5. Len(d) = 0 /\ Len(l) = 0
  BY <1>3, <1>4
<1>6. d = << >> /\ l = << >>
  BY <1>5, EmptySeq DEF Bytes
<1> QED
  BY <1>1, <1>2, <1>6 DEF Quiet

\* The session meets the device and sends its first command.
LEMMA StartSession ==
  ASSUME TypeInv, SessionInv, Work, WaitForStart \/ StartStress \/ SendInfo \/ SendEnroll
  PROVE  Kept
<1> USE DEF SessionInv
<1>0. mem \in Memory /\ mem.passed \in Nat
  BY DEF TypeInv, HostTypeOK, Memory
<1>1. /\ mem.failed = 0 /\ mem.reference = None /\ command' = command
      /\ UNCHANGED <<export, stage, rx, line>>
  BY WorkFrame DEF StartInv, WaitForStart, Read, StartStress, SendInfo, SendEnroll
<1>2. CASE WaitForStart
  <2>1. step = "banner" /\ step' \in {"banner", command} /\ verdict' = verdict /\ wire' = wire
        /\ command \in Commands
    BY <1>2 DEF WaitForStart, Read, Continue, TypeInv, HostTypeOK
  <2>2. mem'.failed = 0 /\ mem'.reference = None /\ mem'.passed = mem.passed
    BY <1>0, <1>1, <1>2 DEF WaitForStart, Memory
  <2>3. clean' = (step' # "banner" /\ DeviceIdle /\ drv' = << >>)
    BY <2>1 DEF Work
  <2>4. clean' => InStep'
    BY <1>1, <2>1, <2>3, MetIdle
  <2> QED
    BY <1>0, <1>1, <2>1, <2>2, <2>3, <2>4 DEF Kept, StartInv, CleanInv, NoFalseAlarm, Outcome, Accepts, Commands
<1>3. CASE StartStress
  <2>1. step = "stress" /\ command = "stress" /\ UNCHANGED <<drv, wire>>
    BY <1>3 DEF StartStress, TypeInv, ToolInv
  <2>2. CASE mem.count = 0
    <3>1. step' = "closed" /\ mem' = NoMemory /\ verdict' = "failed"
      BY <1>3, <2>2 DEF StartStress, Exit
    <3>2. ~clean'
      BY <2>1, <3>1 DEF Work, Refuses
    <3> QED
      BY <1>1, <3>1, <3>2, Ended DEF Kept
  <2>3. CASE mem.count # 0
    <3>1. step' = "enroll" /\ mem' = mem /\ verdict' = verdict
      BY <1>3, <2>3 DEF StartStress, Continue
    <3>2. clean' => clean
      BY <2>1, WorkFrame
    <3>3. clean => Idle
      BY <2>1 DEF CleanInv, InStep, Asking, Informed, Enrolling, Helping, Working, Finished, Broken
    <3>4. Idle => Idle'
      BY <1>1, <2>1, <3>1 DEF Idle, Unread, Pending
    <3> QED
      BY <1>0, <1>1, <3>1, <3>2, <3>3, <3>4
      DEF Kept, StartInv, CleanInv, NoFalseAlarm, Outcome, Accepts, InStep
  <2> QED
    BY <2>2, <2>3
<1>4. CASE SendInfo \/ SendEnroll
  <2>1. PICK c \in {CmdInfo, CmdEnroll} :
          /\ wire' = wire \o <<c>> /\ mem' = mem /\ drv' = drv /\ verdict' = verdict
          /\ c = CmdInfo => step = "info" /\ step' = "info_reply"
          /\ c = CmdEnroll => step = "enroll" /\ step' = "enroll_status"
    BY <1>4 DEF SendInfo, SendEnroll, Write, Continue, CmdInfo, CmdEnroll
  <2>2. step \in {"info", "enroll"} /\ step' \in {"info_reply", "enroll_status"}
        /\ (step' = "enroll_status" => step = "enroll")
    BY <2>1 DEF CmdInfo, CmdEnroll
  <2>3. mem.got = << >>
    BY <2>1 DEF TypeInv, ToolInv, CmdInfo, CmdEnroll
  <2>4. clean => InStep'
    <3> SUFFICES ASSUME clean
                 PROVE  InStep'
      OBVIOUS
    <3>1. Unread = << >> /\ Pending = << >> /\ stage \in {"cmd", "closing"}
      BY <2>2 DEF CleanInv, InStep, Asking, Informed, Enrolling, Helping, Working, Finished, Idle, Broken
    <3>2. Pending' = <<c>>
      <4>1. c \in 0 .. 255 /\ wire' = wire \o <<c>> /\ rx' = rx
        BY <1>1, <2>1, ProtocolValues
      <4> QED
        BY <3>1, <4>1, Asks
    <3>3. Unread' = << >>
      BY <1>1, <2>1, <3>1 DEF Unread
    <3>4. Asking'
      BY <1>1, <2>1, <2>3, <3>1, <3>2, <3>3 DEF Asking
    <3> QED
      BY <3>4 DEF InStep
  <2> QED
    BY <1>1, <2>1, <2>2, <2>4, GoesOn
<1> QED
  BY <1>2, <1>3, <1>4

\* A byte is read: what is on its way to the device stays, and the number of bytes
\* of the reply that were taken is the place of the one that is read.
LEMMA ReadFrame ==
  ASSUME TypeInv, Work, step \in Reads, drv # << >>, drv' = Tail(drv), wire' = wire
  PROVE  /\ Pending' = Pending /\ clean' = clean /\ drv' \in Bytes
         /\ Unread # << >> /\ Len(Unread) \in Nat \ {0} /\ Head(drv) = Unread[1]
         /\ UNCHANGED <<command, stage, word, rx, fed, out, export, resp, line, faulted>>
         /\ FullReply => FullReply'
<1>1. UNCHANGED <<command, stage, word, rx, fed, out, export, resp, line, faulted>> /\ clean' = clean
  BY WorkFrame DEF Reads, Refuses, TypeInv, HostTypeOK, Commands
<1>2. Pending' = Pending
  BY <1>1 DEF Pending
<1>3. Len(Unread) \in Nat \ {0} /\ Head(drv) = Unread[1]
  BY <1>1, NextUnread
<1>4. Unread # << >>
  BY <1>3, Empty
<1>5. drv' \in Bytes
  BY OneByte
<1>6. FullReply => FullReply'
  BY <1>1 DEF FullReply, Good
<1> QED
  BY <1>1, <1>2, <1>3, <1>4, <1>5, <1>6

\* The next byte of a reply of which k bytes have been taken.
LEMMA ReadReply ==
  ASSUME TypeInv, Work, drv # << >>, drv' = Tail(drv), wire' = wire, NEW k, k = Taken,
         IsRest(Unread, resp, Taken)
  PROVE  /\ k \in Nat /\ k + 1 <= Len(resp) /\ Len(resp) \in Nat /\ Head(drv) = resp[k + 1]
         /\ IsRest(Unread', resp', k + 1)
         /\ k + 1 = Len(resp) => Unread' = << >>
<1>1. PICK s \in Bytes : s = resp
  BY DEF TypeInv, DeviceTypeOK
<1>2. resp' = s /\ line' = line
  BY <1>1, WorkFrame
<1>3. /\ k \in Nat /\ k + 1 <= Len(s) /\ Len(s) \in Nat /\ Head(drv) = s[k + 1]
      /\ IsRest(Unread', s, k + 1)
  BY <1>1, <1>2, NextByte
<1>4. k + 1 = Len(s) => Unread' = << >>
  <2>1. PICK v \in Bytes : v = Unread' /\ Len(v) = Len(s) - (k + 1)
    BY <1>3 DEF IsRest
  <2>2. k + 1 = Len(s) => Len(v) = 0
    BY <1>3, <2>1
  <2> QED
    BY <2>1, <2>2, EmptySeq DEF Bytes
<1> QED
  BY <1>1, <1>2, <1>3, <1>4

\* The reply to INFO.
LEMMA InfoSession ==
  ASSUME TypeInv, SessionInv, Work, ReadInfo
  PROVE  Kept
<1> USE DEF SessionInv
<1>0. mem \in Memory /\ step = "info_reply" /\ command = "info" /\ Len(mem.got) < 5
  BY DEF TypeInv, HostTypeOK, ToolInv, ReadInfo, Read
<1>1. /\ drv # << >> /\ drv' = Tail(drv) /\ wire' = wire
      /\ IF Len(Gathered) < 5
         THEN step' = "info_reply" /\ verdict' = verdict /\ mem' = [mem EXCEPT !.got = Gathered]
         ELSE /\ step' = "closed" /\ mem' = NoMemory
              /\ verdict' = IF SubSeq(Gathered, 1, 3) = SubSeq(InfoReplyOf(FALSE), 1, 3)
                            THEN "ok" ELSE "failed"
  <2>1. Len(InfoReplyOf(FALSE)) = 5
    BY ByteValues
  <2> QED
    BY <2>1 DEF ReadInfo, Read, Exit, Continue
<1>2. /\ Pending' = Pending /\ clean' = clean /\ drv' \in Bytes /\ Unread # << >>
      /\ UNCHANGED <<command, stage, rx, export, resp, line, faulted>>
  BY <1>0, <1>1, ReadFrame DEF Reads
<1>3. clean => Informed
  BY <1>0, <1>2 DEF CleanInv, InStep, Asking, Enrolling, Helping, Working, Finished, Idle, Broken
<1>4. PICK k \in Nat, g \in Bytes, h \in Bytes : k = Taken /\ g = Gathered /\ h = mem.got /\ k = Len(h)
  <2>1. Gathered \in Bytes /\ mem.got \in Bytes /\ Len(mem.got) \in Nat
    BY <1>0, <1>1, OneByte DEF Memory
  <2>2. Taken = Len(mem.got)
    BY <1>0 DEF Taken
  <2> QED
    BY <2>1, <2>2
<1>5. /\ Len(g) = k + 1 /\ g[k + 1] = Head(drv) /\ k \in Nat
      /\ \A i \in 1 .. k : g[i] = h[i]
  BY <1>1, <1>4, OneByte
<1>6. ASSUME clean
      PROVE  /\ IsRest(Unread', resp', k + 1) /\ k + 1 <= 5
             /\ k + 1 = 5 => Unread' = << >>
             /\ \A i \in 1 .. k + 1 : g[i] = resp[i]
             /\ Len(resp) = 5 /\ resp = InfoReplyOf(export) /\ export \in BOOLEAN
             /\ Pending = << >> /\ stage = "cmd"
  <2>1. /\ IsRest(Unread, resp, Taken) /\ Pending = << >> /\ stage = "cmd" /\ resp = InfoReplyOf(export)
        /\ \A i \in 1 .. k : h[i] = resp[i]
    BY <1>3, <1>4, <1>6 DEF Informed
  <2>2. export \in BOOLEAN /\ Len(resp) = 5
    BY <2>1, ByteValues DEF TypeInv, DeviceTypeOK
  <2>3. /\ k + 1 <= Len(resp) /\ Head(drv) = resp[k + 1] /\ IsRest(Unread', resp', k + 1)
        /\ k + 1 = Len(resp) => Unread' = << >>
    BY <1>1, <1>4, <2>1, ReadReply
  <2>4. \A i \in 1 .. k + 1 : g[i] = resp[i]
    <3> SUFFICES ASSUME NEW i \in 1 .. k + 1
                 PROVE  g[i] = resp[i]
      OBVIOUS
    <3>1. CASE i \in 1 .. k
      BY <1>5, <2>1, <3>1
    <3>2. CASE i = k + 1
      BY <1>5, <2>3, <3>2
    <3> QED
      BY <1>5, <3>1, <3>2
  <2> QED
    BY <2>1, <2>2, <2>3, <2>4
<1>7. CASE Len(Gathered) < 5
  <2>1. /\ step' = "info_reply" /\ verdict' = verdict /\ mem' = [mem EXCEPT !.got = Gathered]
    BY <1>1, <1>7
  <2>2. mem'.got = g /\ mem'.failed = mem.failed /\ mem'.reference = mem.reference /\ mem'.passed = mem.passed
    BY <1>0, <1>4, <2>1 DEF Memory
  <2>3. Taken' = k + 1
    BY <1>5, <2>1, <2>2 DEF Taken
  <2>4. ASSUME clean
        PROVE  InStep'
    <3>1. \A i \in 1 .. Len(mem'.got) : mem'.got[i] = resp'[i]
      BY <1>2, <1>5, <1>6, <2>2, <2>4
    <3>2. Informed'
      BY <1>2, <1>6, <2>1, <2>3, <2>4, <3>1 DEF Informed
    <3> QED
      BY <3>2 DEF InStep
  <2> QED
    BY <1>0, <1>1, <2>1, <2>2, <2>4, GoesOn
<1>8. CASE ~(Len(Gathered) < 5)
  <2>1. step' = "closed" /\ mem' = NoMemory
        /\ verdict' = IF SubSeq(g, 1, 3) = SubSeq(InfoReplyOf(FALSE), 1, 3) THEN "ok" ELSE "failed"
    BY <1>1, <1>4, <1>8
  <2>2. k + 1 = 5
    BY <1>0, <1>4, <1>5, <1>8
  <2>3. ASSUME clean
        PROVE  SubSeq(g, 1, 3) = SubSeq(InfoReplyOf(FALSE), 1, 3)
    <3>1. PICK r \in Bytes : r = InfoReplyOf(export) /\ Len(r) = 5 /\ \A i \in 1 .. 5 : g[i] = r[i]
      BY <1>6, <2>2, <2>3, ByteValues
    <3>2. PICK q \in Bytes : q = InfoReplyOf(FALSE) /\ Len(q) = 5
      BY ByteValues
    <3>3. \A i \in 1 .. 3 : r[i] = q[i]
      <4>1. \A i \in 1 .. 3 : i = 1 \/ i = 2 \/ i = 3
        OBVIOUS
      <4> QED
        BY <3>1, <3>2, <4>1 DEF InfoReplyOf
    <3>4. Len(g) = 5 /\ \A i \in 1 .. 3 : g[i] = q[i]
      BY <1>5, <2>2, <3>1, <3>3
    <3>5. /\ SubSeq(g, 1, 3) \in Seq(0 .. 255) /\ Len(SubSeq(g, 1, 3)) = 3
          /\ \A i \in 1 .. 3 : SubSeq(g, 1, 3)[i] = g[i]
      <4>1. g \in Seq(0 .. 255) /\ 3 \in Nat /\ 3 <= Len(g)
        BY <3>4 DEF Bytes
      <4> QED
        BY <4>1, FirstPart
    <3>6. /\ SubSeq(q, 1, 3) \in Seq(0 .. 255) /\ Len(SubSeq(q, 1, 3)) = 3
          /\ \A i \in 1 .. 3 : SubSeq(q, 1, 3)[i] = q[i]
      <4>0. q \in Bytes /\ Len(q) = 5
        BY <3>2
      <4>1. q \in Seq(0 .. 255) /\ 3 \in Nat /\ 3 <= Len(q)
        BY <4>0 DEF Bytes
      <4> QED
        BY <4>1, FirstPart
    <3>7. SubSeq(g, 1, 3) = SubSeq(q, 1, 3)
      <4>1. PICK a \in Seq(0 .. 255), b \in Seq(0 .. 255) : a = SubSeq(g, 1, 3) /\ b = SubSeq(q, 1, 3)
        BY <3>5, <3>6
      <4> QED
        BY <3>4, <3>5, <3>6, <4>1, SeqEqual
    <3> QED
      BY <3>2, <3>7
  <2>4. StartInv' /\ CleanInv' /\ NoFalseAlarm'
    BY <1>2, <2>1, <2>3, Ended
  <2>5. Outcome
    <3>1. ASSUME clean
          PROVE  Quiet' /\ stage \in {"cmd", "closing"}
      BY <1>1, <1>2, <1>6, <2>2, <3>1, BothQuiet
    <3> QED
      BY <1>0, <3>1 DEF Outcome
  <2> QED
    BY <2>4, <2>5 DEF Kept
<1> QED
  BY <1>7, <1>8

\* A device that gave up: the tool reads what it had said before, then the report.
LEMMA BrokenRead ==
  ASSUME TypeInv, Work, drv # << >>, drv' = Tail(drv), wire' = wire,
         NEW p \in 0 .. NumWords + 8, Broken(p), NEW k, k = Taken
  PROVE  /\ k \in Nat /\ p \in k .. NumWords + 8
         /\ p = k => Head(drv) = StatusFail
         /\ p # k => /\ Head(drv) = Expected(k + 1) /\ k + 1 <= p
                     /\ (step' \in {"enroll_status", "ready", "word", "ack", "marker"} /\ Taken' = k + 1
                           => Broken(p)')
<1>1. /\ step \in {"enroll_status", "ready", "word", "ack", "marker"} /\ faulted
      /\ p \in k .. NumWords + 8
      /\ p - k <= Len(Unread)
      /\ \A i \in 1 .. p - k : Unread[i] = Expected(k + i)
      /\ \/ stage = "failing" /\ Len(Unread) = p - k
         \/ Len(Unread) > p - k /\ Unread[p - k + 1] = StatusFail
  BY DEF Broken
<1>2. stage' = stage /\ faulted' = faulted /\ line' = line
  BY WorkFrame
<1>3. k \in Nat /\ p \in Nat
  BY TakenType, Shape
<1>4. PICK v \in Bytes, w \in Bytes, n \in Nat : v = Unread /\ w = Unread' /\ n = Len(v)
  BY <1>2, NextUnread
<1>5. n # 0 /\ Len(w) = n - 1 /\ Head(drv) = v[1] /\ \A i \in 1 .. n - 1 : w[i] = v[i + 1]
  BY <1>2, <1>4, NextUnread
<1>6. PICK d \in Nat : d = p - k
  BY <1>1, <1>3
<1>7. /\ d <= n /\ \A i \in 1 .. d : v[i] = Expected(k + i)
      /\ \/ stage = "failing" /\ n = d
         \/ n > d /\ v[d + 1] = StatusFail
  BY <1>1, <1>4, <1>6
<1>8. CASE d = 0
  <2>1. v[1] = StatusFail
    BY <1>5, <1>7, <1>8
  <2>2. p = k
    BY <1>3, <1>6, <1>8
  <2> QED
    BY <1>1, <1>3, <1>5, <2>1, <2>2
<1>9. CASE d # 0
  <2>1. 1 \in 1 .. d /\ p # k /\ k + 1 <= p /\ p \in k + 1 .. NumWords + 8 /\ p - (k + 1) = d - 1
    BY <1>1, <1>3, <1>6, <1>9, Shape
  <2>2. v[1] = Expected(k + 1)
    BY <1>7, <2>1
  <2>3. d - 1 <= Len(w) /\ \A i \in 1 .. d - 1 : w[i] = Expected(k + 1 + i)
    <3>1. d - 1 <= Len(w)
      BY <1>5, <1>7
    <3>2. ASSUME NEW i \in 1 .. d - 1
          PROVE  w[i] = Expected(k + 1 + i)
      <4>1. i \in 1 .. n - 1 /\ i + 1 \in 1 .. d /\ k + (i + 1) = k + 1 + i
        BY <1>3, <1>7
      <4>2. w[i] = v[i + 1] /\ v[i + 1] = Expected(k + (i + 1))
        BY <1>5, <1>7, <4>1
      <4> QED
        BY <4>1, <4>2
    <3> QED
      BY <3>1, <3>2
  <2>4. \/ stage' = "failing" /\ Len(w) = d - 1
        \/ Len(w) > d - 1 /\ w[d - 1 + 1] = StatusFail
    <3>1. CASE stage = "failing" /\ n = d
      BY <1>2, <1>5, <3>1
    <3>2. CASE n > d /\ v[d + 1] = StatusFail
      <4>1. d \in 1 .. n - 1 /\ d - 1 + 1 = d /\ n - 1 > d - 1
        BY <1>9, <3>2
      <4>2. w[d] = v[d + 1]
        BY <1>5, <4>1
      <4> QED
        BY <1>5, <3>2, <4>1, <4>2
    <3> QED
      BY <1>7, <3>1, <3>2
  <2>5. ASSUME step' \in {"enroll_status", "ready", "word", "ack", "marker"}, Taken' = k + 1
        PROVE  Broken(p)'
    BY <1>1, <1>2, <1>4, <2>1, <2>3, <2>4, <2>5 DEF Broken
  <2> QED
    BY <1>1, <1>3, <1>5, <2>1, <2>2, <2>5
<1> QED
  BY <1>8, <1>9

\* The status of an enrolment.
LEMMA StatusSession ==
  ASSUME TypeInv, SessionInv, Work, ReadEnrollStatus
  PROVE  Kept
<1> USE DEF SessionInv
<1>0. mem \in Memory /\ step = "enroll_status" /\ mem.got = << >> /\ Taken = 0
  BY DEF TypeInv, HostTypeOK, ToolInv, ReadEnrollStatus, Answer, Read, Taken
<1>1. /\ drv # << >> /\ drv' = Tail(drv) /\ wire' = wire
      /\ \/ Head(drv) = StatusFail /\ step' = "fail_code" /\ verdict' = verdict /\ mem' = mem
         \/ Head(drv) = StatusSuccess /\ step' = "enroll_helper" /\ verdict' = verdict /\ mem' = mem
         \/ Head(drv) \notin {StatusFail, StatusSuccess} /\ step' = "closed" /\ mem' = NoMemory /\ verdict' = "failed"
  BY DEF ReadEnrollStatus, Answer, Read, Exit, Continue
<1>2. /\ Pending' = Pending /\ clean' = clean /\ Unread # << >>
      /\ UNCHANGED <<command, stage, rx, export, resp, line, faulted>>
  BY <1>0, <1>1, ReadFrame DEF Reads
<1>3. clean => Enrolling \/ \E p \in 0 .. NumWords + 8 : Broken(p)
  BY <1>0, <1>2 DEF CleanInv, InStep, Asking, Informed, Helping, Working, Finished, Idle
<1>4. ASSUME Enrolling
      PROVE  /\ Head(drv) = StatusSuccess
             /\ step' = "enroll_helper" => Enrolling'
  <2>1. /\ IsRest(Unread, resp, Taken) /\ Pending = << >>
        /\ \/ stage \in {"enroll", "sending"}
           \/ stage = "cmd" /\ Len(resp) = 1 + HelperLength /\ resp[1] = StatusSuccess
    BY <1>4 DEF Enrolling
  <2>2. /\ 0 + 1 <= Len(resp) /\ Head(drv) = resp[0 + 1] /\ IsRest(Unread', resp', 0 + 1)
    BY <1>0, <1>1, <2>1, ReadReply
  <2>3. stage # "enroll"
    BY <2>2, Empty DEF ReplyInv
  <2>4. resp[1] = StatusSuccess
    BY <2>1, <2>3 DEF ReplyInv
  <2>5. step' = "enroll_helper" => Taken' = 1
    <3>1. Head(drv) = StatusSuccess
      BY <2>2, <2>4
    <3>2. mem' = mem
      BY <1>1, <3>1, Letters
    <3>3. Len(mem'.got) = 0
      BY <1>0, <3>2, Empty
    <3> QED
      BY <3>3 DEF Taken
  <2>6. step' = "enroll_helper" => Enrolling'
    BY <1>2, <2>1, <2>2, <2>5 DEF Enrolling
  <2> QED
    BY <2>2, <2>4, <2>6
<1>5. ASSUME NEW p \in 0 .. NumWords + 8, Broken(p)
      PROVE  faulted /\ Head(drv) # StatusSuccess
  <2>1. /\ p = 0 => Head(drv) = StatusFail
        /\ p # 0 => Head(drv) = Expected(0 + 1)
    BY <1>0, <1>1, <1>5, BrokenRead
  <2>2. StatusFail # StatusSuccess /\ Expected(1) # StatusSuccess
    BY Letters
  <2> QED
    BY <1>5, <2>1, <2>2 DEF Broken
<1>6. CASE Head(drv) = StatusSuccess
  <2>1. step' = "enroll_helper" /\ verdict' = verdict /\ mem' = mem
    BY <1>1, <1>6, Letters
  <2>2. clean => InStep'
    BY <1>3, <1>4, <1>5, <1>6, <2>1 DEF InStep
  <2> QED
    BY <1>0, <1>1, <2>1, <2>2, GoesOn
<1>7. CASE Head(drv) # StatusSuccess
  <2>1. clean => faulted
    BY <1>3, <1>4, <1>5, <1>7
  <2> QED
    BY <1>1, <1>7, <2>1, Refused
<1> QED
  BY <1>6, <1>7

\* The helper data of an enrolment.
LEMMA HelperSession ==
  ASSUME TypeInv, SessionInv, Work, ReadEnrollHelper
  PROVE  Kept
<1> USE DEF SessionInv
<1>0. mem \in Memory /\ step = "enroll_helper" /\ Len(mem.got) < HelperLength
  BY DEF TypeInv, HostTypeOK, ToolInv, ReadEnrollHelper, Read
<1>1. /\ drv # << >> /\ drv' = Tail(drv) /\ wire' = wire /\ verdict' = verdict
      /\ IF Len(Gathered) < HelperLength
         THEN step' = "enroll_helper" /\ mem' = [mem EXCEPT !.got = Gathered]
         ELSE step' = "save" /\ mem' = [mem EXCEPT !.got = << >>, !.helper = Gathered]
  BY DEF ReadEnrollHelper, Read, Continue
<1>2. /\ Pending' = Pending /\ clean' = clean /\ Unread # << >>
      /\ UNCHANGED <<command, stage, rx, export, resp, line, faulted>>
  BY <1>0, <1>1, ReadFrame DEF Reads
<1>3. clean => Enrolling
  BY <1>0, <1>2 DEF CleanInv, InStep, Asking, Informed, Helping, Working, Finished, Idle, Broken
<1>4. PICK k \in Nat, l \in Nat : k = Len(mem.got) /\ l = HelperLength /\ Taken = 1 + k /\ k < l
  <2>1. Len(mem.got) \in Nat
    BY <1>0, LenProperties DEF Memory, Bytes
  <2> QED
    BY <1>0, <2>1, Shape DEF Taken
<1>5. Len(Gathered) = k + 1
  BY <1>1, <1>4, OneByte
<1>6. /\ mem'.failed = mem.failed /\ mem'.reference = mem.reference /\ mem'.passed = mem.passed
      /\ step' \in {"enroll_helper", "save"}
      /\ step' = "enroll_helper" => mem'.got = Gathered
      /\ step' = "save" <=> ~(k + 1 < l)
  BY <1>0, <1>1, <1>4, <1>5 DEF Memory
<1>7. ASSUME clean
      PROVE  InStep'
  <2>1. /\ IsRest(Unread, resp, Taken) /\ Pending = << >>
        /\ \/ stage \in {"enroll", "sending"}
           \/ stage = "cmd" /\ Len(resp) = 1 + HelperLength /\ resp[1] = StatusSuccess
    BY <1>3, <1>7 DEF Enrolling
  <2>2. PICK a \in Nat : a = 1 + k
    OBVIOUS
  <2>3. /\ a + 1 <= Len(resp) /\ Len(resp) \in Nat /\ IsRest(Unread', resp', a + 1)
        /\ a + 1 = Len(resp) => Unread' = << >>
    BY <1>1, <1>4, <2>1, <2>2, ReadReply
  <2>4. CASE step' = "enroll_helper"
    <3>1. Taken' = a + 1
      <4>1. Taken' = 1 + (k + 1)
        BY <1>5, <1>6, <2>4 DEF Taken
      <4> QED
        BY <2>2, <4>1
    <3>2. Enrolling'
      BY <1>2, <2>1, <2>3, <2>4, <3>1 DEF Enrolling
    <3> QED
      BY <3>2 DEF InStep
  <2>5. CASE step' = "save"
    <3>1. a + 1 = 1 + l
      BY <1>4, <1>6, <2>2, <2>5
    <3>2. stage # "enroll"
      <4>1. stage = "enroll" => Len(resp) = 0
        BY Empty DEF ReplyInv
      <4> QED
        BY <2>3, <4>1
    <3>3. stage # "sending"
      <4>1. ASSUME stage = "sending"
            PROVE  FALSE
        <5>1. PICK w \in 0 .. NumWords : w = word
          BY DEF TypeInv, DeviceTypeOK
        <5>2. PICK m \in Nat, b \in Nat : m = w * BytesPerWord /\ b = BytesIn(w) /\ b >= 1 /\ m + b <= HelperLength
          BY Position
        <5>3. Len(resp) = 1 + m
          BY <4>1, <5>1, <5>2 DEF ReplyInv
        <5> QED
          BY <1>4, <2>3, <3>1, <5>2, <5>3
      <4> QED
        BY <4>1
    <3>4. Unread' = << >> /\ stage = "cmd"
      BY <1>4, <2>1, <2>3, <3>1, <3>2, <3>3
    <3>5. Idle'
      BY <1>2, <2>1, <2>5, <3>4 DEF Idle
    <3> QED
      BY <3>5 DEF InStep
  <2> QED
    BY <1>6, <2>4, <2>5
<1> QED
  BY <1>0, <1>1, <1>6, <1>7, GoesOn

\* The helper data is saved.
LEMMA SaveSession ==
  ASSUME TypeInv, SessionInv, Work, OpenFile \/ SaveFile
  PROVE  Kept
<1> USE DEF SessionInv
<1>0. mem \in Memory /\ step \in {"save", "saving"} /\ mem.passed \in Nat /\ command \in {"enroll", "stress"}
  BY DEF TypeInv, HostTypeOK, ToolInv, OpenFile, SaveFile, Memory
<1>1. /\ wire' = wire /\ drv' = drv
      /\ \/ step = "save" /\ step' = "saving" /\ mem' = mem /\ verdict' = verdict
         \/ step = "saving" /\ command = "stress" /\ step' = "reconstruct" /\ mem' = mem /\ verdict' = verdict
         \/ step = "saving" /\ command # "stress" /\ step' = "closed" /\ mem' = NoMemory /\ verdict' = "ok"
  BY DEF OpenFile, SaveFile, Exit, Continue
<1>2. UNCHANGED <<command, stage, rx, export, resp, line, faulted>> /\ clean' = clean
  BY <1>0, <1>1, WorkFrame DEF Refuses
<1>3. Pending' = Pending /\ Unread' = Unread
  BY <1>1, <1>2 DEF Pending, Unread
<1>4. clean => Idle
  BY <1>0 DEF CleanInv, InStep, Asking, Informed, Enrolling, Helping, Working, Finished, Broken
<1>5. clean /\ step' \in {"saving", "reconstruct"} => InStep'
  BY <1>0, <1>2, <1>3, <1>4 DEF Idle, InStep
<1>6. CASE step' = "saving"
  BY <1>0, <1>1, <1>5, <1>6, GoesOn
<1>7. CASE step' = "reconstruct"
  <2>1. command = "stress" /\ mem' = mem /\ verdict' = verdict
    BY <1>1, <1>7
  <2> QED
    BY <1>0, <1>2, <1>5, <1>7, <2>1 DEF Kept, StartInv, CleanInv, NoFalseAlarm, Outcome, Accepts
<1>8. CASE step' = "closed"
  <2>1. mem' = NoMemory /\ verdict' = "ok" /\ command = "enroll"
    BY <1>0, <1>1, <1>8
  <2>2. StartInv' /\ CleanInv' /\ NoFalseAlarm'
    BY <1>2, <1>8, <2>1, Ended
  <2>3. clean => Quiet' /\ stage \in {"cmd", "closing"}
    <3>1. drv' \in Bytes
      BY <1>1 DEF TypeInv, HostTypeOK
    <3> QED
      BY <1>1, <1>2, <1>3, <1>4, <3>1, BothQuiet DEF Idle
  <2> QED
    BY <2>1, <2>2, <2>3 DEF Kept, Outcome
<1> QED
  BY <1>1, <1>6, <1>7, <1>8

\* The command RECON of a session that begins with it, and those of a stress run.
LEMMA ReconSession ==
  ASSUME TypeInv, SessionInv, Work, SendRecon
  PROVE  Kept
<1> USE DEF SessionInv
<1>0. mem \in Memory /\ step = "reconstruct" /\ command \in {"reconstruct", "stress"}
      /\ (command = "stress" => Loaded(mem.helper))
  BY DEF TypeInv, HostTypeOK, ToolInv, SendRecon
<1>1. PICK data : data = IF mem.helper = None THEN file ELSE mem.helper
  OBVIOUS
<1>2. IF Usable(data)
      THEN /\ wire' = wire \o <<CmdRecon>> /\ step' = "ready" /\ verdict' = verdict
           /\ mem' = [mem EXCEPT !.helper = data, !.word = 0, !.progress = 0]
      ELSE step' = "closed" /\ mem' = NoMemory /\ verdict' = "failed" /\ wire' = wire
  BY <1>1 DEF SendRecon, Write, Continue, Exit
<1>3. UNCHANGED <<command, stage, rx, export, resp, line, faulted>> /\ drv' = drv
  BY WorkFrame DEF SendRecon
<1>4. CASE Usable(data)
  <2>1. /\ wire' = wire \o <<CmdRecon>> /\ step' = "ready" /\ verdict' = verdict
        /\ mem' = [mem EXCEPT !.helper = data, !.word = 0, !.progress = 0]
    BY <1>2, <1>4
  <2>2. mem'.failed = mem.failed /\ mem'.reference = mem.reference /\ mem'.passed = mem.passed
    BY <1>0, <2>1 DEF Memory
  <2>3. clean => Unread = << >> /\ Pending = << >> /\ stage \in {"cmd", "closing"}
    BY <1>0 DEF CleanInv, InStep, Asking, Informed, Enrolling, Helping, Working, Finished, Idle, Broken
  <2>4. clean => InStep'
    <3> SUFFICES ASSUME clean
                 PROVE  InStep'
      OBVIOUS
    <3>1. Pending' = <<CmdRecon>>
      <4>1. CmdRecon \in 0 .. 255 /\ rx' = rx /\ Pending = << >>
        BY <1>3, <2>3, ProtocolValues
      <4> QED
        BY <2>1, <4>1, Asks
    <3>2. Unread' = << >>
      BY <1>3, <2>3 DEF Unread
    <3>3. Asking'
      BY <1>3, <2>1, <2>3, <3>1, <3>2 DEF Asking
    <3> QED
      BY <3>3 DEF InStep
  <2> QED
    BY <1>3, <2>1, <2>2, <2>4, GoesOn
<1>5. CASE ~Usable(data)
  <2>1. command = "stress" => data = mem.helper
    BY <1>0, <1>1, Empty DEF Loaded
  <2>2. command = "stress" => Usable(data)
    BY <1>0, <2>1, Empty DEF Usable, Loaded
  <2>3. step' = "closed" /\ mem' = NoMemory /\ verdict' = "failed" /\ step = command
    BY <1>0, <1>2, <1>5, <2>2
  <2>4. ~clean'
    BY <1>0, <2>3 DEF Work, Refuses
  <2> QED
    BY <1>3, <2>3, <2>4, Ended DEF Kept
<1> QED
  BY <1>4, <1>5

\* The request for the helper data.
LEMMA ReadySession ==
  ASSUME TypeInv, SessionInv, Work, ReadReady
  PROVE  Kept
<1> USE DEF SessionInv
<1>0. mem \in Memory /\ step = "ready" /\ mem.word = 0 /\ Taken = 0
  BY DEF TypeInv, HostTypeOK, ToolInv, ReadReady, Answer, Read, Taken
<1>1. /\ drv # << >> /\ drv' = Tail(drv) /\ wire' = wire
      /\ \/ Head(drv) = StatusFail /\ step' = "fail_code" /\ verdict' = verdict /\ mem' = mem
         \/ Head(drv) = HelperRequest /\ step' = "word" /\ verdict' = verdict /\ mem' = mem
         \/ Head(drv) \notin {StatusFail, HelperRequest} /\ step' = "closed" /\ mem' = NoMemory /\ verdict' = "failed"
  BY DEF ReadReady, Answer, Read, Exit, Continue
<1>2. /\ Pending' = Pending /\ clean' = clean /\ Unread # << >>
      /\ UNCHANGED <<command, stage, word, rx, fed, export, resp, line, faulted>>
  BY <1>0, <1>1, ReadFrame DEF Reads
<1>3. clean => Helping \/ \E p \in 0 .. NumWords + 8 : Broken(p)
  BY <1>0, <1>2 DEF CleanInv, InStep, Asking, Informed, Enrolling, Working, Finished, Idle
<1>4. step' = "word" => mem' = mem /\ Taken' = 0 + 1
  <2>1. step' = "word" => mem' = mem
    BY <1>1
  <2> QED
    BY <1>0, <2>1 DEF Taken
<1>5. ASSUME Helping
      PROVE  Head(drv) = HelperRequest /\ (step' = "word" => Helping')
  <2>1. /\ stage = "helper" /\ IsRest(Unread, resp, Taken)
        /\ Len(fed) + Len(Pending) = 0
        /\ \A i \in 1 .. Len(fed) : fed[i] = mem.helper[i]
        /\ \A i \in 1 .. Len(Pending) : Pending[i] = mem.helper[Len(fed) + i]
    BY <1>0, <1>5 DEF Helping, Fed
  <2>2. /\ Head(drv) = resp[0 + 1] /\ IsRest(Unread', resp', 0 + 1)
    BY <1>0, <1>1, <2>1, ReadReply
  <2>3. resp[1] = Expected(1)
    <3>1. word \in Nat
      BY DEF TypeInv, DeviceTypeOK
    <3>2. Good(1 + word) /\ 1 \in 1 .. 1 + word
      BY <2>1, <3>1 DEF ReplyInv
    <3> QED
      BY <3>2 DEF Good
  <2>4. step' = "word" => Fed' = 0
    <3>1. PICK b \in Nat \ {0} : b = BytesPerWord
      BY Shape
    <3>2. step' = "word" => Fed' = 0 * b
      BY <1>0, <1>4, <3>1 DEF Fed
    <3> QED
      BY <3>1, <3>2
  <2>5. step' = "word" => Helping'
    BY <1>2, <1>4, <2>1, <2>2, <2>4 DEF Helping
  <2> QED
    BY <2>2, <2>3, <2>5, Letters
<1>6. ASSUME NEW p \in 0 .. NumWords + 8, Broken(p)
      PROVE  /\ faulted /\ Head(drv) \in {StatusFail, HelperRequest}
             /\ step' = "word" => Broken(p)'
  <2>1. /\ p = 0 => Head(drv) = StatusFail
        /\ p # 0 => /\ Head(drv) = Expected(0 + 1)
                    /\ step' = "word" => Broken(p)'
    BY <1>0, <1>1, <1>4, <1>6, BrokenRead
  <2>2. p = 0 => step' # "word"
    BY <1>1, <2>1, Letters
  <2> QED
    BY <1>6, <2>1, <2>2, Letters DEF Broken
<1>7. CASE Head(drv) = HelperRequest
  <2>1. step' = "word" /\ verdict' = verdict /\ mem' = mem
    BY <1>1, <1>7, Letters
  <2>2. clean => InStep'
    BY <1>3, <1>5, <1>6, <2>1 DEF InStep
  <2> QED
    BY <1>0, <1>1, <2>1, <2>2, GoesOn
<1>8. CASE Head(drv) # HelperRequest
  <2>1. clean => faulted
    BY <1>3, <1>5, <1>6, <1>8
  <2> QED
    BY <1>1, <1>8, <2>1, Refused
<1> QED
  BY <1>7, <1>8

\* A word of helper data.
LEMMA WordSession ==
  ASSUME TypeInv, SessionInv, Work, SendWord
  PROVE  Kept
<1> USE DEF SessionInv
<1>0. mem \in Memory /\ step = "word" /\ mem.word \in 0 .. NumWords /\ command \in {"reconstruct", "stress"}
  BY Shape DEF TypeInv, HostTypeOK, ToolInv, SendWord, Memory
<1>1. /\ wire' = wire \o Slice(mem.helper, mem.word) /\ drv' = drv
      /\ step' = "ack" /\ verdict' = verdict /\ mem' = mem
  BY DEF SendWord, Write, Continue
<1>2. UNCHANGED <<command, stage, word, rx, fed, export, resp, line, faulted>>
  BY WorkFrame
<1>3. clean' = clean
  BY <1>0, WorkFrame DEF Refuses
<1>4. Unread' = Unread /\ Taken' = Taken /\ Taken = 1 + mem.word
  BY <1>0, <1>1, <1>2 DEF Unread, Taken
<1>5. clean => Helping \/ \E p \in 0 .. NumWords + 8 : Broken(p)
  BY <1>0 DEF CleanInv, InStep, Asking, Informed, Enrolling, Working, Finished, Idle
<1>6. ASSUME Helping
      PROVE  Helping'
  <2>1. PICK w \in 0 .. NumWords, m \in Nat, b \in Nat, t \in Bytes :
          /\ w = mem.word /\ m = w * BytesPerWord /\ b = BytesIn(w)
          /\ t = Slice(mem.helper, w)
    <3>1. Slice(mem.helper, mem.word) \in Bytes
      BY <1>0, Written
    <3> QED
      BY <1>0, <3>1, Position
  <2>2. Len(t) = b /\ \A i \in 1 .. b : t[i] = mem.helper[m + i]
    BY <1>0, <2>1, Written
  <2>3. /\ stage = "helper" /\ IsRest(Unread, resp, Taken) /\ Len(fed) + Len(Pending) = m
        /\ \A i \in 1 .. Len(fed) : fed[i] = mem.helper[i]
    BY <1>0, <1>6, <2>1 DEF Helping, Fed
  <2>4. Len(resp) = 1 + word /\ word \in 0 .. NumWords /\ word * BytesPerWord <= Len(fed)
    BY <2>3 DEF ReplyInv, TypeInv, DeviceTypeOK, LoopInv
  <2>5. PICK v \in 0 .. NumWords, n \in Nat : v = word /\ n = v * BytesPerWord
    BY <2>4, Position
  <2>6. w <= v
    <3>1. 1 + w \in 0 .. 1 + v
      BY <1>4, <2>1, <2>3, <2>4, <2>5 DEF IsRest
    <3> QED
      BY <2>1, <2>5, <3>1, Shape
  <2>7. m <= n
    <3>1. w \in 0 .. v
      BY <2>1, <2>5, <2>6, Shape
    <3> QED
      BY <2>1, <2>5, <3>1, Position
  <2>8. Len(fed) = m /\ Len(Pending) = 0
    <3>1. Len(fed) \in Nat /\ Len(Pending) \in Nat
      BY PendingType, LenProperties DEF TypeInv, DeviceTypeOK, Bytes
    <3> QED
      BY <2>1, <2>3, <2>4, <2>5, <2>7, <3>1
  <2>9. Pending' = t
    <3>1. Pending = << >>
      BY <2>8, PendingType, EmptySeq DEF Bytes
    <3>2. rx = << >> /\ wire = << >>
      BY <3>1, PendingType
    <3>3. << >> \o t = t
      BY ConcatEmptySeq DEF Bytes
    <3> QED
      BY <1>1, <1>2, <2>1, <3>2, <3>3 DEF Pending
  <2>10. Fed' = m + b
    BY <1>1, <2>1 DEF Fed
  <2>11. Len(fed') + Len(Pending') = Fed'
    BY <1>2, <2>2, <2>8, <2>9, <2>10
  <2>12. \A i \in 1 .. Len(Pending') : Pending'[i] = mem'.helper[Len(fed') + i]
    BY <1>1, <1>2, <2>2, <2>8, <2>9
  <2> QED
    BY <1>1, <1>2, <1>4, <2>3, <2>11, <2>12 DEF Helping
<1>7. ASSUME NEW p \in 0 .. NumWords + 8, Broken(p)
      PROVE  Broken(p)'
  BY <1>1, <1>2, <1>4, <1>7 DEF Broken
<1>8. clean => InStep'
  BY <1>5, <1>6, <1>7 DEF InStep
<1> QED
  BY <1>0, <1>1, <1>2, <1>3, <1>8, Continued DEF Kept

\* The acknowledge of a word.
LEMMA AckSession ==
  ASSUME TypeInv, SessionInv, Work, ReadAck
  PROVE  Kept
<1> USE DEF SessionInv
<1>0. mem \in Memory /\ step = "ack" /\ mem.word \in 0 .. NumWords /\ mem.progress = 0 /\ Taken = 1 + mem.word
  BY Shape DEF TypeInv, HostTypeOK, ToolInv, ReadAck, Answer, Read, Taken, Memory
<1>1. /\ drv # << >> /\ drv' = Tail(drv) /\ wire' = wire
      /\ \/ Head(drv) = StatusFail /\ step' = "fail_code" /\ verdict' = verdict /\ mem' = mem
         \/ /\ Head(drv) = Ack(mem.word) /\ verdict' = verdict
            /\ step' = IF mem.word = NumWords THEN "marker" ELSE "word"
            /\ mem' = [mem EXCEPT !.word = @ + 1]
         \/ Head(drv) \notin {StatusFail, Ack(mem.word)} /\ step' = "closed" /\ mem' = NoMemory /\ verdict' = "failed"
  BY DEF ReadAck, Answer, Read, Exit, Continue
<1>2. /\ Pending' = Pending /\ clean' = clean /\ Unread # << >>
      /\ UNCHANGED <<command, stage, word, rx, fed, export, resp, line, faulted>>
      /\ FullReply => FullReply'
  BY <1>0, <1>1, ReadFrame DEF Reads
<1>3. used' = used
  BY <1>0, WorkFrame
<1>4. clean => Helping \/ Working \/ Finished \/ \E p \in 0 .. NumWords + 8 : Broken(p)
  BY <1>0, <1>2 DEF CleanInv, InStep, Asking, Informed, Enrolling, Idle
<1>5. PICK w \in 0 .. NumWords, a \in Nat, N \in Nat : w = mem.word /\ a = 1 + w /\ N = NumWords /\ N <= 9
  BY <1>0, Shape
<1>6. Expected(a + 1) = Ack(w) /\ Ack(w) # StatusFail
  <2>1. a + 1 = 2 + w
    BY <1>5
  <2> QED
    BY <2>1, Letters
<1>7. ASSUME Head(drv) = Ack(w)
      PROVE  /\ step' = IF w = N THEN "marker" ELSE "word"
             /\ verdict' = verdict /\ mem'.word = w + 1 /\ mem'.progress = 0 /\ mem'.helper = mem.helper
             /\ mem'.failed = mem.failed /\ mem'.reference = mem.reference /\ mem'.passed = mem.passed
             /\ Taken' = a + 1
  <2>1. /\ step' = IF w = N THEN "marker" ELSE "word"
        /\ verdict' = verdict /\ mem' = [mem EXCEPT !.word = @ + 1]
    BY <1>1, <1>5, <1>6, <1>7
  <2>2. /\ mem'.word = w + 1 /\ mem'.progress = 0 /\ mem'.helper = mem.helper
        /\ mem'.failed = mem.failed /\ mem'.reference = mem.reference /\ mem'.passed = mem.passed
    BY <1>0, <1>5, <2>1 DEF Memory
  <2>3. CASE w = N
    <3>1. Taken' = N + 2 + 0
      BY <1>5, <2>1, <2>2, <2>3 DEF Taken
    <3> QED
      BY <1>5, <2>1, <2>2, <2>3, <3>1
  <2>4. CASE w # N
    <3>1. Taken' = 1 + (w + 1)
      BY <2>1, <2>2, <2>4 DEF Taken
    <3> QED
      BY <1>5, <2>1, <2>2, <2>4, <3>1
  <2> QED
    BY <2>3, <2>4
<1>8. ASSUME IsRest(Unread, resp, Taken)
      PROVE  a + 1 <= Len(resp) /\ Len(resp) \in Nat /\ Head(drv) = resp[a + 1] /\ IsRest(Unread', resp', a + 1)
  BY <1>0, <1>1, <1>5, <1>8, ReadReply
<1>9. ASSUME Helping
      PROVE  Head(drv) = Ack(w) /\ (Head(drv) = Ack(w) => InStep')
  <2>1. /\ stage = "helper" /\ IsRest(Unread, resp, Taken)
        /\ Len(fed) + Len(Pending) = Fed
        /\ \A i \in 1 .. Len(fed) : fed[i] = mem.helper[i]
        /\ \A i \in 1 .. Len(Pending) : Pending[i] = mem.helper[Len(fed) + i]
    BY <1>9 DEF Helping
  <2>2. Len(resp) = 1 + word /\ word \in 0 .. NumWords /\ Good(1 + word)
    BY <2>1 DEF ReplyInv, TypeInv, DeviceTypeOK
  <2>3. PICK v \in 0 .. NumWords : v = word
    BY <2>2
  <2>4. w # N /\ w < N /\ a + 1 \in 1 .. 1 + v
    BY <1>5, <1>8, <2>1, <2>2, <2>3
  <2>5. resp[a + 1] = Expected(a + 1)
    BY <2>2, <2>3, <2>4 DEF Good
  <2>6. ASSUME Head(drv) = Ack(w)
        PROVE  Helping'
    <3>1. step' = "word" /\ mem'.word = w + 1 /\ mem'.helper = mem.helper /\ Taken' = a + 1
      BY <1>7, <2>4, <2>6
    <3>2. Fed' = Fed
      <4>1. Fed' = (w + 1) * BytesPerWord
        BY <3>1 DEF Fed
      <4>2. Fed = w * BytesPerWord + BytesIn(w)
        BY <1>0, <1>5 DEF Fed
      <4>3. w * BytesPerWord + BytesIn(w) = (w + 1) * BytesPerWord
        BY <1>5, <2>4, Position
      <4> QED
        BY <4>1, <4>2, <4>3
    <3> QED
      BY <1>2, <1>8, <2>1, <3>1, <3>2 DEF Helping
  <2> QED
    BY <1>6, <1>8, <2>1, <2>5, <2>6 DEF InStep
<1>10. ASSUME Working
       PROVE  Head(drv) = Ack(w) /\ (Head(drv) = Ack(w) => InStep')
  <2>1. /\ w = N /\ stage = "pipeline" /\ Pending = << >> /\ fed = mem.helper
        /\ IsRest(Unread, resp, Taken)
    BY <1>0, <1>5, <1>10 DEF Working
  <2>2. Good(Len(resp))
    BY <2>1 DEF ReplyInv
  <2>3. a + 1 \in 1 .. Len(resp)
    BY <1>5, <1>8, <2>1
  <2>4. resp[a + 1] = Expected(a + 1)
    BY <2>2, <2>3 DEF Good
  <2>5. ASSUME Head(drv) = Ack(w)
        PROVE  Working'
    <3>1. step' = "marker" /\ mem'.helper = mem.helper /\ Taken' = a + 1
      BY <1>7, <2>1, <2>5
    <3> QED
      BY <1>2, <1>8, <2>1, <3>1 DEF Working
  <2> QED
    BY <1>6, <1>8, <2>1, <2>4, <2>5 DEF InStep
<1>11. ASSUME Finished
       PROVE  Head(drv) = Ack(w) /\ (Head(drv) = Ack(w) => InStep')
  <2>1. /\ w = N /\ stage \in {"closing", "cmd"} /\ Pending = << >> /\ used = mem.helper
        /\ FullReply /\ IsRest(Unread, resp, Taken)
    BY <1>0, <1>5, <1>11 DEF Finished
  <2>2. Good(NumWords + 9)
    BY <2>1 DEF FullReply
  <2>3. a + 1 \in 1 .. NumWords + 9
    BY <1>5, <2>1
  <2>4. resp[a + 1] = Expected(a + 1)
    BY <2>2, <2>3 DEF Good
  <2>5. ASSUME Head(drv) = Ack(w)
        PROVE  Finished'
    <3>1. step' = "marker" /\ mem'.helper = mem.helper /\ Taken' = a + 1
      BY <1>7, <2>1, <2>5
    <3> QED
      BY <1>2, <1>3, <1>8, <2>1, <3>1 DEF Finished
  <2> QED
    BY <1>6, <1>8, <2>1, <2>4, <2>5 DEF InStep
<1>12. ASSUME NEW p \in 0 .. NumWords + 8, Broken(p)
       PROVE  /\ faulted /\ Head(drv) \in {StatusFail, Ack(w)}
              /\ Head(drv) = Ack(w) => InStep'
  <2>1. /\ p = a => Head(drv) = StatusFail
        /\ p # a => /\ Head(drv) = Expected(a + 1)
                    /\ step' \in {"enroll_status", "ready", "word", "ack", "marker"} /\ Taken' = a + 1
                         => Broken(p)'
    BY <1>0, <1>1, <1>5, <1>12, BrokenRead
  <2>2. Head(drv) = Ack(w) => Broken(p)'
    BY <1>6, <1>7, <2>1
  <2> QED
    BY <1>6, <1>12, <2>1, <2>2 DEF Broken, InStep
<1>13. CASE Head(drv) = Ack(w)
  <2>1. clean => InStep'
    BY <1>4, <1>9, <1>10, <1>11, <1>12, <1>13
  <2>2. step' \in {"marker", "word"}
    BY <1>7, <1>13
  <2> QED
    BY <1>1, <1>7, <1>13, <2>1, <2>2, GoesOn
<1>14. CASE Head(drv) # Ack(w)
  <2>1. clean => faulted
    BY <1>4, <1>9, <1>10, <1>11, <1>12, <1>14
  <2> QED
    BY <1>1, <1>5, <1>14, <2>1, Refused
<1> QED
  BY <1>13, <1>14

\* A marker of the progress.
LEMMA MarkerSession ==
  ASSUME TypeInv, SessionInv, Work, ReadMarker
  PROVE  Kept
<1> USE DEF SessionInv
<1>0. mem \in Memory /\ step = "marker" /\ mem.progress \in 0 .. 6 /\ Taken = NumWords + 2 + mem.progress
  BY Shape DEF TypeInv, HostTypeOK, ToolInv, ReadMarker, Answer, Read, Taken, Memory
<1>1. /\ drv # << >> /\ drv' = Tail(drv) /\ wire' = wire
      /\ \/ Head(drv) = StatusFail /\ step' = "fail_code" /\ verdict' = verdict /\ mem' = mem
         \/ /\ Head(drv) = Marker(mem.progress + 1) /\ verdict' = verdict
            /\ step' = IF mem.progress = 6 THEN "status" ELSE "marker"
            /\ mem' = [mem EXCEPT !.progress = @ + 1]
         \/ Head(drv) \notin {StatusFail, Marker(mem.progress + 1)} /\ step' = "closed" /\ mem' = NoMemory
            /\ verdict' = "failed"
  BY DEF ReadMarker, Answer, Read, Exit, Continue
<1>2. /\ Pending' = Pending /\ clean' = clean /\ Unread # << >>
      /\ UNCHANGED <<command, stage, word, rx, fed, export, resp, line, faulted>>
      /\ FullReply => FullReply'
  BY <1>0, <1>1, ReadFrame DEF Reads
<1>3. used' = used
  BY <1>0, WorkFrame
<1>4. clean => Working \/ Finished \/ \E p \in 0 .. NumWords + 8 : Broken(p)
  BY <1>0, <1>2 DEF CleanInv, InStep, Asking, Informed, Enrolling, Helping, Idle
<1>5. PICK i \in 0 .. 6, j \in 1 .. 7, a \in Nat, N \in Nat :
        i = mem.progress /\ j = i + 1 /\ a = N + 2 + i /\ N = NumWords /\ N <= 9
  BY <1>0, Shape
<1>6. Expected(a + 1) = Marker(j) /\ Marker(j) # StatusFail
  <2>1. a + 1 = NumWords + 2 + j
    BY <1>5
  <2> QED
    BY <2>1, Letters
<1>7. ASSUME Head(drv) = Marker(j)
      PROVE  /\ step' = IF i = 6 THEN "status" ELSE "marker"
             /\ verdict' = verdict /\ mem'.helper = mem.helper
             /\ mem'.failed = mem.failed /\ mem'.reference = mem.reference /\ mem'.passed = mem.passed
             /\ Taken' = a + 1
  <2>1. /\ step' = IF i = 6 THEN "status" ELSE "marker"
        /\ verdict' = verdict /\ mem' = [mem EXCEPT !.progress = @ + 1]
    BY <1>1, <1>5, <1>6, <1>7
  <2>2. /\ mem'.progress = i + 1 /\ mem'.helper = mem.helper
        /\ mem'.failed = mem.failed /\ mem'.reference = mem.reference /\ mem'.passed = mem.passed
    BY <1>0, <1>5, <2>1 DEF Memory
  <2>3. CASE i = 6
    <3>1. Taken' = N + 9
      BY <1>5, <2>1, <2>3 DEF Taken
    <3> QED
      BY <1>5, <2>1, <2>2, <2>3, <3>1
  <2>4. CASE i # 6
    <3>1. Taken' = N + 2 + (i + 1)
      BY <1>5, <2>1, <2>2, <2>4 DEF Taken
    <3> QED
      BY <1>5, <2>1, <2>2, <2>4, <3>1
  <2> QED
    BY <2>3, <2>4
<1>8. ASSUME IsRest(Unread, resp, Taken)
      PROVE  a + 1 <= Len(resp) /\ Len(resp) \in Nat /\ Head(drv) = resp[a + 1] /\ IsRest(Unread', resp', a + 1)
  BY <1>0, <1>1, <1>5, <1>8, ReadReply
<1>9. ASSUME Working
      PROVE  Head(drv) = Marker(j) /\ (Head(drv) = Marker(j) => InStep')
  <2>1. /\ stage = "pipeline" /\ Pending = << >> /\ fed = mem.helper /\ IsRest(Unread, resp, Taken)
    BY <1>9 DEF Working
  <2>2. Good(Len(resp)) /\ Len(resp) - (NumWords + 2) \in {1, 2, 3, 4, 6}
    BY <2>1 DEF ReplyInv
  <2>3. a + 1 \in 1 .. Len(resp) /\ i # 6
    BY <1>5, <1>8, <2>1, <2>2
  <2>4. resp[a + 1] = Expected(a + 1)
    BY <2>2, <2>3 DEF Good
  <2>5. ASSUME Head(drv) = Marker(j)
        PROVE  Working'
    <3>1. step' = "marker" /\ mem'.helper = mem.helper /\ Taken' = a + 1
      BY <1>7, <2>3, <2>5
    <3> QED
      BY <1>2, <1>8, <2>1, <3>1 DEF Working
  <2> QED
    BY <1>6, <1>8, <2>1, <2>4, <2>5 DEF InStep
<1>10. ASSUME Finished
       PROVE  Head(drv) = Marker(j) /\ (Head(drv) = Marker(j) => InStep')
  <2>1. /\ stage \in {"closing", "cmd"} /\ Pending = << >> /\ used = mem.helper
        /\ FullReply /\ IsRest(Unread, resp, Taken)
    BY <1>10 DEF Finished
  <2>2. Good(NumWords + 9)
    BY <2>1 DEF FullReply
  <2>3. a + 1 \in 1 .. NumWords + 9
    BY <1>5
  <2>4. resp[a + 1] = Expected(a + 1)
    BY <2>2, <2>3 DEF Good
  <2>5. ASSUME Head(drv) = Marker(j)
        PROVE  Finished'
    <3>1. step' \in {"marker", "status"} /\ mem'.helper = mem.helper /\ Taken' = a + 1
      BY <1>7, <2>5
    <3> QED
      BY <1>2, <1>3, <1>8, <2>1, <3>1 DEF Finished
  <2> QED
    BY <1>6, <1>8, <2>1, <2>4, <2>5 DEF InStep
<1>11. ASSUME NEW p \in 0 .. NumWords + 8, Broken(p)
       PROVE  /\ faulted /\ Head(drv) \in {StatusFail, Marker(j)}
              /\ Head(drv) = Marker(j) => InStep'
  <2>1. /\ p \in a .. NumWords + 8
        /\ p = a => Head(drv) = StatusFail
        /\ p # a => /\ Head(drv) = Expected(a + 1) /\ a + 1 <= p
                    /\ step' \in {"enroll_status", "ready", "word", "ack", "marker"} /\ Taken' = a + 1
                         => Broken(p)'
    BY <1>0, <1>1, <1>5, <1>11, BrokenRead
  <2>2. p # a => i # 6
    BY <1>5, <2>1
  <2>3. Head(drv) = Marker(j) => Broken(p)'
    BY <1>6, <1>7, <2>1, <2>2
  <2> QED
    BY <1>6, <1>11, <2>1, <2>3 DEF Broken, InStep
<1>12. CASE Head(drv) = Marker(j)
  <2>1. clean => InStep'
    BY <1>4, <1>9, <1>10, <1>11, <1>12
  <2>2. step' \in {"marker", "status"}
    BY <1>7, <1>12
  <2> QED
    BY <1>1, <1>7, <1>12, <2>1, <2>2, GoesOn
<1>13. CASE Head(drv) # Marker(j)
  <2>1. clean => faulted
    BY <1>4, <1>9, <1>10, <1>11, <1>13
  <2> QED
    BY <1>1, <1>5, <1>13, <2>1, Refused
<1> QED
  BY <1>12, <1>13

\* The status of a reconstruction.
LEMMA SuccessSession ==
  ASSUME TypeInv, SessionInv, Work, ReadStatus
  PROVE  Kept
<1> USE DEF SessionInv
<1>0. mem \in Memory /\ step = "status" /\ Taken = NumWords + 9
  BY DEF TypeInv, HostTypeOK, ReadStatus, Answer, Read, Taken
<1>1. /\ drv # << >> /\ drv' = Tail(drv) /\ wire' = wire
      /\ \/ Head(drv) = StatusFail /\ step' = "fail_code" /\ verdict' = verdict /\ mem' = mem
         \/ Head(drv) = StatusSuccess /\ step' = "flags" /\ verdict' = verdict /\ mem' = mem
         \/ Head(drv) \notin {StatusFail, StatusSuccess} /\ step' = "closed" /\ mem' = NoMemory /\ verdict' = "failed"
  BY DEF ReadStatus, Answer, Read, Exit, Continue
<1>2. /\ Pending' = Pending /\ clean' = clean /\ Unread # << >>
      /\ UNCHANGED <<command, stage, word, rx, fed, export, resp, line, faulted>>
      /\ FullReply => FullReply'
  BY <1>0, <1>1, ReadFrame DEF Reads
<1>3. used' = used
  BY <1>0, WorkFrame
<1>4. clean => Finished
  BY <1>0, <1>2 DEF CleanInv, InStep, Asking, Informed, Enrolling, Helping, Working, Idle, Broken
<1>5. PICK a \in Nat : a = NumWords + 9 /\ a + 1 = NumWords + 10
  BY Shape
<1>6. ASSUME Finished
      PROVE  Head(drv) = StatusSuccess /\ (step' = "flags" => InStep')
  <2>1. /\ stage \in {"closing", "cmd"} /\ Pending = << >> /\ used = mem.helper
        /\ FullReply /\ IsRest(Unread, resp, Taken)
    BY <1>6 DEF Finished
  <2>2. Head(drv) = resp[a + 1] /\ IsRest(Unread', resp', a + 1)
    BY <1>0, <1>1, <1>5, <2>1, ReadReply
  <2>3. resp[a + 1] = StatusSuccess
    BY <1>5, <2>1 DEF FullReply
  <2>4. ASSUME step' = "flags"
        PROVE  Finished'
    <3>1. mem' = mem
      BY <1>1, <2>4
    <3>2. Taken' = a + 1
      BY <1>5, <2>4 DEF Taken
    <3> QED
      BY <1>2, <1>3, <2>1, <2>2, <2>4, <3>1, <3>2 DEF Finished
  <2> QED
    BY <2>2, <2>3, <2>4 DEF InStep
<1>7. CASE Head(drv) = StatusSuccess
  <2>1. step' = "flags" /\ verdict' = verdict /\ mem' = mem
    BY <1>1, <1>7, Letters
  <2>2. clean => InStep'
    BY <1>4, <1>6, <2>1
  <2> QED
    BY <1>1, <2>1, <2>2, GoesOn
<1>8. CASE Head(drv) # StatusSuccess
  <2>1. clean => faulted
    BY <1>4, <1>6, <1>8
  <2> QED
    BY <1>1, <1>8, <2>1, Refused
<1> QED
  BY <1>7, <1>8

\* A reconstruction is accepted: its reply has been read to the end.
LEMMA KeySession ==
  ASSUME TypeInv, SessionInv, Work, drv # << >>, drv' = Tail(drv), wire' = wire,
         NEW key \in Bytes, Reconstructed(key), step \in {"flags", "key"},
         clean => Finished /\ Unread' = << >>,
         clean /\ ~export => key = << >>
  PROVE  Kept
<1> USE DEF SessionInv
<1>0. mem \in Memory /\ mem.failed \in Nat /\ mem.passed \in Nat /\ command \in {"reconstruct", "stress"}
  BY DEF TypeInv, HostTypeOK, ToolInv, Memory
<1>1. /\ Pending' = Pending /\ clean' = clean /\ drv' \in Bytes
      /\ UNCHANGED <<command, stage, rx, export, line, faulted>>
  BY ReadFrame DEF Reads
<1>2. clean => /\ Quiet' /\ stage \in {"cmd", "closing"} /\ used = mem.helper
               /\ Pending = << >> /\ Unread' = << >>
  <2>1. clean => stage \in {"cmd", "closing"} /\ used = mem.helper /\ Pending = << >>
    BY DEF Finished
  <2> QED
    BY <1>1, <2>1, BothQuiet
<1>3. Outcome
  BY <1>2 DEF Outcome
<1>4. CASE command = "reconstruct"
  <2>1. step' = "closed" /\ mem' = NoMemory /\ verdict' = "ok"
    BY <1>4 DEF Reconstructed, Exit
  <2>2. StartInv' /\ CleanInv' /\ NoFalseAlarm'
    BY <1>1, <2>1, Ended
  <2> QED
    BY <1>3, <2>2 DEF Kept
<1>5. CASE command = "stress"
  <2>1. PICK reference, passed, failed :
          /\ reference = (IF mem.reference = None THEN key ELSE mem.reference)
          /\ passed = mem.passed + (IF key = reference THEN 1 ELSE 0)
          /\ failed = mem.failed + (IF key = reference THEN 0 ELSE 1)
    OBVIOUS
  <2>2. IF passed + failed = mem.count
        THEN step' = "closed" /\ mem' = NoMemory /\ verdict' = IF failed = 0 THEN "ok" ELSE "failed"
        ELSE /\ step' = "reconstruct" /\ verdict' = verdict
             /\ mem' = [mem EXCEPT !.reference = reference, !.passed = passed,
                                   !.failed = failed, !.got = << >>]
    BY <1>5, <2>1 DEF Reconstructed, Exit, Continue
  <2>3. clean /\ ~export => failed = 0 /\ reference = << >>
    <3>1. clean /\ ~export => mem.failed = 0 /\ mem.reference \in {None, << >>} /\ key = << >>
      BY <1>5 DEF CleanInv
    <3>2. clean /\ ~export => reference = << >>
      BY <2>1, <3>1
    <3> QED
      BY <1>0, <2>1, <3>1, <3>2
  <2>4. CASE passed + failed = mem.count
    <3>1. step' = "closed" /\ mem' = NoMemory /\ verdict' = IF failed = 0 THEN "ok" ELSE "failed"
      BY <2>2, <2>4
    <3>2. verdict' = "failed" /\ clean' => command = "stress" /\ export
      BY <1>1, <1>5, <2>3, <3>1
    <3>3. StartInv' /\ CleanInv' /\ NoFalseAlarm'
      BY <1>1, <3>1, <3>2, Ended
    <3> QED
      BY <1>3, <3>3 DEF Kept
  <2>5. CASE ~(passed + failed = mem.count)
    <3>1. /\ step' = "reconstruct" /\ verdict' = verdict
          /\ mem' = [mem EXCEPT !.reference = reference, !.passed = passed,
                                !.failed = failed, !.got = << >>]
      BY <2>2, <2>5
    <3>2. mem'.failed = failed /\ mem'.reference = reference
      BY <1>0, <3>1 DEF Memory
    <3>3. clean => Idle'
      BY <1>1, <1>2, <3>1 DEF Idle
    <3>4. StartInv'
      BY <1>1, <1>5, <3>1 DEF StartInv
    <3>5. CleanInv'
      BY <1>1, <2>3, <3>2, <3>3 DEF CleanInv, InStep
    <3>6. NoFalseAlarm'
      BY <3>1 DEF NoFalseAlarm
    <3> QED
      BY <1>3, <3>4, <3>5, <3>6 DEF Kept
  <2> QED
    BY <2>4, <2>5
<1> QED
  BY <1>0, <1>4, <1>5

\* The flags, which say whether the key follows.
LEMMA FlagsSession ==
  ASSUME TypeInv, SessionInv, Work, ReadFlags
  PROVE  Kept
<1> USE DEF SessionInv
<1>0. mem \in Memory /\ step = "flags" /\ Taken = NumWords + 10
  BY DEF TypeInv, HostTypeOK, ReadFlags, Read, Taken
<1>1. /\ drv # << >> /\ drv' = Tail(drv) /\ wire' = wire
      /\ \/ Head(drv) = 0 /\ Reconstructed(<< >>)
         \/ Head(drv) = 1 /\ step' = "key" /\ verdict' = verdict /\ mem' = [mem EXCEPT !.got = << >>]
         \/ Head(drv) \notin {0, 1} /\ step' = "closed" /\ mem' = NoMemory /\ verdict' = "failed"
  BY DEF ReadFlags, Read, Exit, Continue
<1>2. /\ Pending' = Pending /\ clean' = clean /\ Unread # << >>
      /\ UNCHANGED <<command, stage, word, rx, fed, export, resp, line, faulted>>
      /\ FullReply => FullReply'
  BY <1>0, <1>1, ReadFrame DEF Reads
<1>3. used' = used
  BY <1>0, WorkFrame
<1>4. clean => Finished
  BY <1>0, <1>2 DEF CleanInv, InStep, Asking, Informed, Enrolling, Helping, Working, Idle, Broken
<1>5. PICK a \in Nat : a = NumWords + 10 /\ a + 1 = NumWords + 11
  BY Shape
<1>6. ASSUME Finished
      PROVE  /\ stage \in {"closing", "cmd"} /\ Pending = << >> /\ used = mem.helper /\ FullReply
             /\ Head(drv) = (IF export THEN 1 ELSE 0)
             /\ IsRest(Unread', resp', a + 1)
             /\ ~export => Unread' = << >>
  <2>1. /\ stage \in {"closing", "cmd"} /\ Pending = << >> /\ used = mem.helper
        /\ FullReply /\ IsRest(Unread, resp, Taken)
    BY <1>6 DEF Finished
  <2>2. Head(drv) = resp[a + 1] /\ IsRest(Unread', resp', a + 1)
        /\ (a + 1 = Len(resp) => Unread' = << >>)
    BY <1>0, <1>1, <1>5, <2>1, ReadReply
  <2>3. resp[a + 1] = IF export THEN 1 ELSE 0
    BY <1>5, <2>1 DEF FullReply
  <2>4. ~export => a + 1 = Len(resp)
    BY <1>5, <2>1, Shape DEF FullReply
  <2> QED
    BY <2>1, <2>2, <2>3, <2>4
<1>7. CASE Head(drv) = 0
  <2>1. Reconstructed(<< >>)
    BY <1>1, <1>7
  <2>2. clean => Finished /\ Unread' = << >>
    BY <1>4, <1>6, <1>7
  <2>3. << >> \in Bytes
    BY Empty
  <2> QED
    BY <1>0, <1>1, <2>1, <2>2, <2>3, KeySession
<1>8. CASE Head(drv) = 1
  <2>1. step' = "key" /\ verdict' = verdict /\ mem' = [mem EXCEPT !.got = << >>]
    BY <1>1, <1>8
  <2>2. /\ mem'.failed = mem.failed /\ mem'.reference = mem.reference /\ mem'.passed = mem.passed
        /\ mem'.helper = mem.helper /\ mem'.got = << >>
    BY <1>0, <2>1 DEF Memory
  <2>3. Taken' = a + 1
    <3>1. Taken' = NumWords + 11 + 0
      BY <2>1, <2>2, Empty DEF Taken
    <3> QED
      BY <1>5, <3>1, Shape
  <2>4. ASSUME clean
        PROVE  InStep'
    <3>1. export
      BY <1>4, <1>6, <1>8, <2>4
    <3>2. Finished'
      BY <1>2, <1>3, <1>4, <1>6, <2>1, <2>2, <2>3, <2>4, <3>1 DEF Finished
    <3> QED
      BY <3>2 DEF InStep
  <2> QED
    BY <1>1, <2>1, <2>2, <2>4, GoesOn
<1>9. CASE Head(drv) \notin {0, 1}
  <2>1. ~clean
    BY <1>4, <1>6, <1>9
  <2> QED
    BY <1>1, <1>9, <2>1, Refused
<1> QED
  BY <1>7, <1>8, <1>9

\* The bytes of an exported key.
LEMMA ExportSession ==
  ASSUME TypeInv, SessionInv, Work, ReadKey
  PROVE  Kept
<1> USE DEF SessionInv
<1>0. mem \in Memory /\ step = "key" /\ Len(mem.got) < KeyLength
  BY DEF TypeInv, HostTypeOK, ToolInv, ReadKey, Read
<1>1. /\ drv # << >> /\ drv' = Tail(drv) /\ wire' = wire
      /\ IF Len(Gathered) < KeyLength
         THEN step' = "key" /\ verdict' = verdict /\ mem' = [mem EXCEPT !.got = Gathered]
         ELSE Reconstructed(Gathered)
  BY DEF ReadKey, Read, Continue
<1>2. /\ Pending' = Pending /\ clean' = clean /\ Unread # << >>
      /\ UNCHANGED <<command, stage, word, rx, fed, export, resp, line, faulted>>
      /\ FullReply => FullReply'
  BY <1>0, <1>1, ReadFrame DEF Reads
<1>3. used' = used
  BY <1>0, WorkFrame
<1>4. clean => Finished
  BY <1>0, <1>2 DEF CleanInv, InStep, Asking, Informed, Enrolling, Helping, Working, Idle, Broken
<1>5. PICK N \in Nat, k \in Nat, l \in Nat, a \in Nat, g \in Bytes :
        /\ N = NumWords /\ a = N + 11 + k /\ a + 1 = N + 11 + (k + 1)
        /\ k + 1 = l => a + 1 = N + 11 + l
        /\ k = Len(mem.got) /\ l = KeyLength /\ k < l /\ Taken = a
        /\ g = Gathered /\ Len(g) = k + 1
  <2>1. Len(mem.got) \in Nat /\ Gathered \in Bytes /\ Len(Gathered) = Len(mem.got) + 1
    BY <1>1, OneByte
  <2>2. PICK N \in Nat, k \in Nat, l \in Nat :
          N = NumWords /\ k = Len(mem.got) /\ l = KeyLength
    BY <2>1, Shape
  <2>3. PICK a \in Nat : /\ a = N + 11 + k /\ a + 1 = N + 11 + (k + 1)
                         /\ k + 1 = l => a + 1 = N + 11 + l
    OBVIOUS
  <2>4. Taken = a
    BY <1>0, <2>2, <2>3 DEF Taken
  <2> QED
    BY <1>0, <2>1, <2>2, <2>3, <2>4
<1>6. ASSUME Finished
      PROVE  /\ stage \in {"closing", "cmd"} /\ Pending = << >> /\ used = mem.helper /\ FullReply /\ export
             /\ IsRest(Unread', resp', a + 1)
             /\ k + 1 = l => Unread' = << >>
  <2>1. /\ stage \in {"closing", "cmd"} /\ Pending = << >> /\ used = mem.helper
        /\ FullReply /\ IsRest(Unread, resp, Taken) /\ export
    BY <1>0, <1>6 DEF Finished
  <2>2. IsRest(Unread', resp', a + 1) /\ (a + 1 = Len(resp) => Unread' = << >>)
    BY <1>1, <1>5, <2>1, ReadReply
  <2>3. k + 1 = l => a + 1 = Len(resp)
    <3>1. Len(resp) = N + 11 + l
      BY <1>5, <2>1 DEF FullReply
    <3> QED
      BY <1>5, <3>1
  <2> QED
    BY <2>1, <2>2, <2>3
<1>7. CASE Len(Gathered) < KeyLength
  <2>1. step' = "key" /\ verdict' = verdict /\ mem' = [mem EXCEPT !.got = Gathered]
    BY <1>1, <1>7
  <2>2. /\ mem'.failed = mem.failed /\ mem'.reference = mem.reference /\ mem'.passed = mem.passed
        /\ mem'.helper = mem.helper /\ mem'.got = g
    BY <1>0, <1>5, <2>1 DEF Memory
  <2>3. Taken' = a + 1
    <3>1. Taken' = N + 11 + (k + 1)
      BY <1>5, <2>1, <2>2 DEF Taken
    <3> QED
      BY <1>5, <3>1
  <2>4. ASSUME clean
        PROVE  InStep'
    <3>1. Finished'
      BY <1>2, <1>3, <1>4, <1>6, <2>1, <2>2, <2>3, <2>4 DEF Finished
    <3> QED
      BY <3>1 DEF InStep
  <2> QED
    BY <1>1, <2>1, <2>2, <2>4, GoesOn
<1>8. CASE ~(Len(Gathered) < KeyLength)
  <2>1. Reconstructed(g) /\ k + 1 = l
    BY <1>1, <1>5, <1>8
  <2>2. clean => Finished /\ Unread' = << >> /\ export
    BY <1>4, <1>6, <2>1
  <2> QED
    BY <1>0, <1>1, <2>1, <2>2, KeySession
<1> QED
  BY <1>7, <1>8

\* The code of a failure.
LEMMA FailSession ==
  ASSUME TypeInv, SessionInv, Work, ReadFailCode
  PROVE  Kept
<1>1. step = "fail_code" /\ wire' = wire /\ step' = "closed" /\ mem' = NoMemory /\ verdict' = "failed"
  BY DEF ReadFailCode, Read, Exit
<1>2. clean => faulted
  BY <1>1 DEF SessionInv, CleanInv, InStep, Asking, Informed, Enrolling, Helping, Working, Finished, Idle, Broken
<1> QED
  BY <1>1, <1>2, Refused

\* A step of the tool in its transaction.
LEMMA WorkSession ==
  ASSUME TypeInv, SessionInv, Work
  PROVE  SessionInv' /\ Outcome
<1>1. Kept
  BY StartSession, InfoSession, StatusSession, HelperSession, SaveSession, ReconSession, ReadySession,
     WordSession, AckSession, MarkerSession, SuccessSession, FlagsSession, ExportSession, FailSession
     DEF Work, HostStep
<1>2. ReplyInv'
  <2>1. UNCHANGED deviceVars
    BY DEF Work
  <2> QED
    BY <2>1, ReplySame DEF SessionInv
<1> QED
  BY <1>1, <1>2 DEF Kept, SessionInv

LEMMA SessionStep ==
  ASSUME TypeInv, SessionInv, [Next]_vars
  PROVE  SessionInv' /\ (Next => Outcome)
<1>1. CASE Next
  <2>1. Run => Outcome
    BY RunSession DEF Outcome
  <2> QED
    BY <1>1, <2>1, WorkSession, RunSession, OthersSession, DriverSession, DeviceSession DEF Next
<1>2. CASE UNCHANGED vars
  <2>1. /\ UNCHANGED <<step, command, mem, verdict, file, drv, wire>> /\ UNCHANGED deviceVars
        /\ UNCHANGED <<line, used, clean, faulted>>
    BY <1>2 DEF vars, hostVars, historyVars
  <2>2. UNCHANGED <<stage, rx, fed, export, resp, word>>
    BY <2>1 DEF deviceVars
  <2>3. ReplyInv'
    BY <2>1, ReplySame DEF SessionInv
  <2>4. Taken' = Taken /\ Pending' = Pending /\ Unread' = Unread /\ Fed' = Fed /\ (FullReply => FullReply')
    BY <2>1, <2>2 DEF Taken, Pending, Unread, Fed, FullReply, Good
  <2>5. InStep => InStep'
    <3>1. /\ Asking => Asking'
          /\ Informed => Informed'
          /\ Enrolling => Enrolling'
      BY <2>1, <2>2, <2>4 DEF Asking, Informed, Enrolling
    <3>2. /\ Helping => Helping'
          /\ Working => Working'
          /\ Finished => Finished'
          /\ Idle => Idle'
      BY <2>1, <2>2, <2>4 DEF Helping, Working, Finished, Idle
    <3>3. \A p \in 0 .. NumWords + 8 : Broken(p) => Broken(p)'
      BY <2>1, <2>2, <2>4 DEF Broken
    <3> QED
      BY <2>1, <3>1, <3>2, <3>3 DEF InStep
  <2>6. StartInv' /\ CleanInv' /\ NoFalseAlarm'
    BY <2>1, <2>2, <2>5 DEF SessionInv, StartInv, CleanInv, NoFalseAlarm
  <2>7. Outcome
    <3>1. mem.passed \in Nat
      BY DEF TypeInv, HostTypeOK, Memory
    <3>2. ~Accepts
      BY <2>1, <3>1 DEF Accepts
    <3> QED
      BY <3>2 DEF Outcome
  <2> QED
    BY <2>3, <2>6, <2>7 DEF SessionInv
<1> QED
  BY <1>1, <1>2

LEMMA SessionInitially == ASSUME Init PROVE SessionInv
<1>1. /\ step = "closed" /\ verdict = "none" /\ clean = FALSE /\ stage = "boot"
  BY DEF Init, HostInit, Device!Init
<1>2. ReplyInv
  BY <1>1 DEF ReplyInv
<1> QED
  BY <1>1, <1>2 DEF SessionInv, StartInv, CleanInv, NoFalseAlarm

--------------------------------------------------------------------------------
(***************************************************************************)
(* What a session that met an idle device saves.  A reply that begins with *)
(* the success of an enrolment is one, and what the tool has kept of it is *)
(* its beginning.                                                          *)
(***************************************************************************)
\* The device has sent an enrolment whole.
Enrolled == \E h \in Enrolments : resp = <<StatusSuccess>> \o FlattenWords(h)

SaysInv ==
  /\ stage = "boot" => resp = << >>
  /\ stage = "sending" =>
       resp = <<StatusSuccess>> \o SubSeq(FlattenWords(out), 1, word * BytesPerWord)
  /\ stage # "sending" /\ resp # << >> /\ resp[1] = StatusSuccess => Enrolled

HeldInv ==
  /\ clean /\ step = "enroll_helper" => \A i \in 1 .. Len(mem.got) : mem.got[i] = resp[1 + i]
  /\ clean /\ step \in {"save", "saving"} =>
       \A i \in 1 .. HelperLength : mem.helper[i] = resp[1 + i]

\* What is added to a reply leaves its first byte.
LEMMA SameFirst ==
  ASSUME TypeInv, NEW t, Speaks(t), stage # "cmd", resp # << >>
  PROVE  resp'[1] = resp[1]
<1>1. PICK p \in Nat : p = Len(resp)
  BY LenProperties DEF TypeInv, DeviceTypeOK, Bytes
<1>2. p >= 1
  BY <1>1, EmptySeq DEF TypeInv, DeviceTypeOK, Bytes
<1>3. t \in Bytes /\ resp' = resp \o t
  BY DEF Speaks
<1>4. \A i \in 1 .. p : resp'[i] = resp[i]
  BY <1>1, <1>3, Extends
<1> QED
  BY <1>2, <1>4

\* Other replies of the device begin with another byte.
LEMMA OtherFirst ==
  /\ Banner # << >> /\ Banner[1] # StatusSuccess
  /\ \A e : InfoReplyOf(e)[1] # StatusSuccess
  /\ \A c : <<Unknown>>[1] # StatusSuccess /\ <<HelperRequest>>[1] # StatusSuccess
            /\ <<StatusFail, c>>[1] # StatusSuccess
BY DEF Banner, InfoReplyOf, Unknown, HelperRequest, StatusFail, StatusSuccess

LEMMA RunEnrols ==
  ASSUME TypeInv, ReplyInv, SaysInv, Run, Device!EnrollAccept \/ Device!EnrollSend
  PROVE  SaysInv'
<1>0. word \in 0 .. NumWords
  BY DEF TypeInv, DeviceTypeOK
<1>1. PICK t \in Bytes : t = <<StatusSuccess>>
  BY Parts
<1>2. CASE Device!EnrollAccept
  <2>1. /\ stage = "enroll" /\ stage' = "sending" /\ word' = 0 /\ resp = << >>
        /\ out' \in Enrolments
    BY <1>2 DEF Device!EnrollAccept, Device!Goto, TypeInv, LoopInv, ReplyInv
  <2>2. resp' = << >> \o t
    BY <1>1, <1>2, <2>1, Speech DEF Speaks
  <2>3. out' \in Whole /\ 0 \in 0 .. NumWords
    BY <2>1, LinkAssumption, Shape
  <2>4. SubSeq(FlattenWords(out'), 1, 0 * BytesPerWord) = << >>
    BY <2>3, WordSent
  <2>5. << >> \o t = t /\ t \o << >> = t
    BY ConcatEmptySeq DEF Bytes
  <2> QED
    BY <1>1, <2>1, <2>2, <2>4, <2>5 DEF SaysInv
<1>3. CASE Device!EnrollSend
  <2>1. stage = "sending" /\ out \in Enrolments
    BY <1>3 DEF Device!EnrollSend, TypeInv, LoopInv
  <2>2. PICK h \in Whole : h = out
    BY <2>1, LinkAssumption
  <2>3. PICK a \in Bytes : a = SubSeq(FlattenWords(h), 1, word * BytesPerWord)
    BY <1>0, WordSent DEF Bytes
  <2>4. PICK u \in Bytes : u = h[word]
    BY <1>0, WordSent DEF Bytes
  <2>5. resp = t \o a
    BY <1>1, <2>1, <2>2, <2>3 DEF SaysInv
  <2>6. resp' = resp \o u
    BY <1>3, <2>1, <2>2, <2>4, Speech DEF Speaks
  <2>7. (t \o a) \o u = t \o (a \o u)
    BY Regrouped
  <2>8. resp' = t \o (a \o u)
    BY <2>5, <2>6, <2>7
  <2>9. CASE word = NumWords
    <3>1. stage' = "cmd" /\ a \o u = FlattenWords(h)
      BY <1>0, <1>3, <2>3, <2>4, <2>9, WordSent DEF Device!EnrollSend
    <3>2. \E g \in Enrolments : resp' = <<StatusSuccess>> \o FlattenWords(g)
      BY <1>1, <2>1, <2>2, <2>8, <3>1
    <3> QED
      BY <3>1, <3>2 DEF SaysInv, Enrolled
  <2>10. CASE word # NumWords
    <3>1. stage' = "sending" /\ out' = out /\ word' = word + 1
      BY <1>3, <2>1, <2>10 DEF Device!EnrollSend
    <3>2. a \o u = SubSeq(FlattenWords(h), 1, (word + 1) * BytesPerWord)
      BY <1>0, <2>3, <2>4, <2>10, WordSent
    <3> QED
      BY <1>1, <2>2, <2>8, <3>1, <3>2 DEF SaysInv
  <2> QED
    BY <2>9, <2>10
<1> QED
  BY <1>2, <1>3

LEMMA RunSays ==
  ASSUME TypeInv, ReplyInv, SaysInv, Run
  PROVE  SaysInv'
<1> USE SameBytes
<1>1. CASE Device!Boot
  <2>1. resp = << >> /\ stage # "cmd" /\ stage' = "cmd"
    BY <1>1 DEF Device!Boot, Device!Goto, SaysInv
  <2>2. PICK t \in Bytes : t = Banner
    BY ByteValues
  <2>3. resp' = << >> \o t /\ << >> \o t = t
    BY <1>1, <2>1, <2>2, Speech, ConcatEmptySeq DEF Speaks, Bytes
  <2> QED
    BY <2>1, <2>2, <2>3, OtherFirst DEF SaysInv
<1>2. CASE Device!Info \/ Device!UnknownCommand \/ Device!Recon
  <2>1. stage = "cmd" /\ stage' \in {"cmd", "helper"}
    BY <1>2 DEF Device!Info, Device!UnknownCommand, Device!Recon, Device!ReadCommand
  <2>2. \/ resp' = InfoReplyOf(export)
        \/ resp' = <<Unknown>>
        \/ resp' = <<HelperRequest>>
    BY <1>2, <2>1, Speech DEF Speaks
  <2>3. resp'[1] # StatusSuccess
    BY <2>2, OtherFirst
  <2> QED
    BY <2>1, <2>3 DEF SaysInv
<1>3. CASE Device!Enroll
  <2>1. stage' = "enroll" /\ resp' = << >>
    BY <1>3 DEF Device!Enroll
  <2> QED
    BY <2>1 DEF SaysInv
<1>4. ASSUME resp' = resp, stage # "sending", stage' \notin {"sending", "boot"}
      PROVE  SaysInv'
  BY <1>4 DEF SaysInv, Enrolled
<1>5. CASE Device!Close \/ Device!EnrollFail \/ Device!HelperTimeout \/ Device!PipelineFail
  <2>1. resp' = resp /\ stage # "sending" /\ stage' \in {"cmd", "failing"}
    BY <1>5 DEF Device!Close, Device!EnrollFail, Device!HelperTimeout, Device!PipelineFail, Device!Fail, Device!Goto
  <2> QED
    BY <1>4, <2>1
<1>6. CASE Device!HelperByte \/ Device!Progressed \/ Device!Succeed
  <2>1. stage \in {"helper", "pipeline"} /\ stage' \in {"helper", "pipeline", "closing"}
    BY <1>6 DEF Device!HelperByte, Device!Progressed, Device!Succeed, Device!Goto
  <2>2. resp # << >> /\ resp[1] # StatusSuccess
    <3>1. PICK n \in Nat : n = NumWords
      BY Shape
    <3>2. PICK p \in Nat : p = Len(resp)
      BY LenProperties DEF TypeInv, DeviceTypeOK, Bytes
    <3>3. p >= 1 /\ Good(p)
      BY <2>1, <3>1, <3>2 DEF ReplyInv, TypeInv, DeviceTypeOK
    <3>4. resp[1] = Expected(1)
      BY <3>3 DEF Good
    <3> QED
      BY <3>2, <3>3, <3>4, Letters, Empty
  <2>3. \E t : Speaks(t)
    BY <1>6, Speech
  <2>4. resp'[1] # StatusSuccess
    BY <2>1, <2>2, <2>3, SameFirst
  <2> QED
    BY <2>1, <2>4 DEF SaysInv
<1>7. CASE Device!FailReport
  <2>1. stage = "failing" /\ stage' = "cmd"
    BY <1>7 DEF Device!FailReport, Device!Goto
  <2>2. PICK t \in Bytes : t = <<StatusFail, code>> /\ Speaks(t)
    BY <1>7, Parts, Speech
  <2>3. resp'[1] # StatusSuccess
    <3>1. CASE resp = << >>
      <4>1. resp' = << >> \o t /\ << >> \o t = t
        BY <2>1, <2>2, <3>1, ConcatEmptySeq DEF Speaks, Bytes
      <4> QED
        BY <2>2, <4>1, OtherFirst
    <3>2. CASE resp # << >>
      <4>1. PICK p \in Nat : p = Len(resp)
        BY LenProperties DEF TypeInv, DeviceTypeOK, Bytes
      <4>2. p >= 1 /\ Good(p)
        BY <2>1, <3>2, <4>1, EmptySeq DEF ReplyInv, TypeInv, DeviceTypeOK, Bytes
      <4>3. resp[1] = Expected(1)
        BY <4>2 DEF Good
      <4> QED
        BY <2>1, <2>2, <3>2, <4>3, SameFirst, Letters
    <3> QED
      BY <3>1, <3>2
  <2> QED
    BY <2>1, <2>3 DEF SaysInv
<1> QED
  BY <1>1, <1>2, <1>3, <1>5, <1>6, <1>7, RunEnrols DEF Run, Device!DeviceStep

\* A step of the device adds to an enrolment and leaves what it has sent.
LEMMA RunHeld ==
  ASSUME TypeInv, SessionInv, HeldInv, Run
  PROVE  HeldInv'
<1>1. UNCHANGED <<step, mem, clean>>
  BY RunFrame
<1>2. CASE clean /\ step = "enroll_helper"
  <2>1. Enrolling
    BY <1>2 DEF SessionInv, CleanInv, InStep, Asking, Informed, Helping, Working, Finished, Idle, Broken
  <2>2. PICK g \in Nat, p \in Nat : g = Len(mem.got) /\ p = Len(resp)
    BY LenProperties DEF TypeInv, HostTypeOK, DeviceTypeOK, Memory, Bytes
  <2>3. 1 + g <= p /\ rx = << >> /\ stage \in {"enroll", "sending", "cmd"}
    <3>1. Taken = 1 + g /\ Taken \in 0 .. p
      BY <1>2, <2>1, <2>2 DEF Taken, Enrolling, IsRest
    <3> QED
      BY <2>1, <3>1, PendingType DEF Enrolling
  <2>4. stage # "enroll"
    <3>1. stage = "enroll" => p = 0
      BY <2>2, Empty DEF SessionInv, ReplyInv
    <3> QED
      BY <2>2, <2>3, <3>1
  <2>5. Device!EnrollSend
    BY <2>3, <2>4, AtStage
  <2>6. PICK t \in Bytes : resp' = resp \o t
    BY <2>5, Speech DEF Speaks, Device!EnrollSend
  <2>7. \A i \in 1 .. p : resp'[i] = resp[i]
    BY <2>2, <2>6, Extends
  <2>8. \A i \in 1 .. g : 1 + i \in 1 .. p
    BY <2>2, <2>3
  <2> QED
    BY <1>1, <1>2, <2>2, <2>7, <2>8 DEF HeldInv
<1>3. CASE clean /\ step \in {"save", "saving"}
  <2>1. Idle
    BY <1>3 DEF SessionInv, CleanInv, InStep, Asking, Informed, Enrolling, Helping, Working, Finished, Broken
  <2>2. rx = << >> /\ stage \in {"closing", "cmd"}
    BY <2>1, PendingType DEF Idle
  <2>3. resp' = resp
    BY <2>2, AtStage DEF Device!Close
  <2> QED
    BY <1>1, <1>3, <2>3 DEF HeldInv
<1> QED
  BY <1>1, <1>2, <1>3 DEF HeldInv

\* The tool keeps the bytes it reads.
LEMMA WorkHeld ==
  ASSUME TypeInv, SessionInv, HeldInv, Work
  PROVE  HeldInv'
<1>1. resp' = resp /\ (step # "banner" => (clean' => clean))
  BY WorkFrame
<1>2. CASE ReadEnrollStatus
  <2>1. mem.got = << >> /\ step' \in {"fail_code", "enroll_helper", "closed"}
        /\ (step' = "enroll_helper" => mem' = mem)
    BY <1>2 DEF ReadEnrollStatus, Answer, Read, Continue, Exit, TypeInv, ToolInv
  <2>2. 1 .. Len(<< >>) = {}
    BY Empty
  <2> QED
    BY <2>1, <2>2 DEF HeldInv
<1>3. CASE ReadEnrollHelper
  <2> SUFFICES ASSUME clean'
               PROVE  HeldInv'
    BY DEF HeldInv
  <2>0. step = "enroll_helper" /\ clean /\ mem \in Memory /\ step \in Reads
    BY <1>1, <1>3 DEF ReadEnrollHelper, Read, Reads, TypeInv, HostTypeOK
  <2>1. /\ drv # << >> /\ drv' = Tail(drv) /\ wire' = wire
        /\ IF Len(Gathered) < HelperLength
           THEN step' = "enroll_helper" /\ mem' = [mem EXCEPT !.got = Gathered]
           ELSE step' = "save" /\ mem' = [mem EXCEPT !.got = << >>, !.helper = Gathered]
    BY <1>3 DEF ReadEnrollHelper, Read, Continue
  <2>2. PICK k \in Nat, l \in Nat : k = Len(mem.got) /\ l = HelperLength /\ k < l
    <3>1. Len(mem.got) \in Nat
      BY <2>0, LenProperties DEF Memory, Bytes
    <3> QED
      BY <2>0, <3>1, Shape DEF TypeInv, ToolInv
  <2>3. /\ Len(Gathered) = k + 1 /\ Gathered[k + 1] = Head(drv)
        /\ \A i \in 1 .. k : Gathered[i] = mem.got[i]
    BY <2>1, <2>2, OneByte
  <2>4. IsRest(Unread, resp, Taken) /\ Taken = 1 + k
    BY <2>0, <2>2 DEF SessionInv, CleanInv, InStep, Asking, Informed, Enrolling, Helping, Working, Finished,
                      Idle, Broken, Taken
  <2>5. Head(drv) = resp[1 + (k + 1)]
    <3>1. PICK a \in Nat : a = 1 + k
      OBVIOUS
    <3>2. Head(drv) = resp[a + 1]
      BY <2>1, <2>4, <3>1, ReadReply, <2>0
    <3>3. a + 1 = 1 + (k + 1)
      BY <3>1
    <3> QED
      BY <3>2, <3>3
  <2>6. ASSUME NEW i \in 1 .. k + 1
        PROVE  Gathered[i] = resp[1 + i]
    <3>1. CASE i = k + 1
      BY <2>3, <2>5, <3>1
    <3>2. CASE i # k + 1
      <4>1. i \in 1 .. k
        BY <3>2
      <4> QED
        BY <2>0, <2>2, <2>3, <4>1 DEF HeldInv
    <3> QED
      BY <3>1, <3>2
  <2>7. CASE k + 1 < l
    <3>1. step' = "enroll_helper" /\ mem'.got = Gathered
      BY <2>0, <2>1, <2>2, <2>3, <2>7 DEF Memory
    <3> QED
      BY <1>1, <2>3, <2>6, <3>1 DEF HeldInv
  <2>8. CASE ~(k + 1 < l)
    <3>1. ~(Len(Gathered) < HelperLength) /\ l = k + 1
      BY <2>2, <2>3, <2>8
    <3>2. step' = "save" /\ mem' = [mem EXCEPT !.got = << >>, !.helper = Gathered]
      BY <2>1, <3>1
    <3>3. mem'.helper = Gathered
      BY <2>0, <3>2 DEF Memory
    <3> QED
      BY <1>1, <2>2, <2>6, <3>1, <3>2, <3>3 DEF HeldInv
  <2> QED
    BY <2>7, <2>8
<1>4. CASE OpenFile
  <2>1. step = "save" /\ step' = "saving" /\ mem' = mem
    BY <1>4 DEF OpenFile, Continue
  <2> QED
    BY <1>1, <2>1 DEF HeldInv
<1>5. CASE \/ WaitForStart \/ SendInfo \/ ReadInfo \/ StartStress \/ SendEnroll \/ SaveFile \/ SendRecon
           \/ ReadReady \/ SendWord \/ ReadAck \/ ReadMarker \/ ReadStatus \/ ReadFlags \/ ReadKey \/ ReadFailCode
  <2>1. step' \notin {"enroll_helper", "save", "saving"}
    BY <1>5 DEF WaitForStart, SendInfo, ReadInfo, StartStress, SendEnroll, SaveFile, SendRecon, ReadReady, SendWord,
                ReadAck, ReadMarker, ReadStatus, ReadFlags, ReadKey, ReadFailCode, Answer, Read, Continue, Exit,
                Reconstructed, TypeInv, HostTypeOK, Commands
  <2> QED
    BY <2>1 DEF HeldInv
<1> QED
  BY <1>2, <1>3, <1>4, <1>5 DEF Work, HostStep

EnrolInv == SaysInv /\ HeldInv

LEMMA EnrolStep ==
  ASSUME TypeInv, SessionInv, EnrolInv, [Next]_vars
  PROVE  EnrolInv'
<1> USE DEF EnrolInv
<1>1. ASSUME UNCHANGED <<stage, word, out, resp>>
      PROVE  SaysInv'
  BY <1>1 DEF SaysInv, Enrolled
<1>2. ASSUME UNCHANGED <<step, mem, resp>>, clean' => clean
      PROVE  HeldInv'
  BY <1>2 DEF HeldInv
<1>3. ASSUME step' \notin {"enroll_helper", "save", "saving"}
      PROVE  HeldInv'
  BY <1>3 DEF HeldInv
<1>4. CASE OpenPort \/ Settle \/ GiveUp \/ Interrupt
  <2>1. UNCHANGED <<stage, word, out, resp>>
    BY <1>4 DEF OpenPort, Settle, GiveUp, Interrupt, deviceVars
  <2>2. step' \notin {"enroll_helper", "save", "saving"}
    BY <1>4 DEF OpenPort, Open, OpenFails, Settle, Discard, GiveUp, ReadTimeout, BannerTimeout, Interrupt, Kill,
                Exit, Continue, TypeInv, HostTypeOK, Commands
  <2> QED
    BY <1>1, <1>3, <2>1, <2>2
<1>5. CASE Work
  <2>1. UNCHANGED <<stage, word, out, resp>>
    BY <1>5, WorkFrame
  <2> QED
    BY <1>1, <1>5, <2>1, WorkHeld
<1>6. CASE Run
  BY <1>6, RunSays, RunHeld DEF SessionInv
<1>7. CASE ToDriver \/ ToDevice
  <2>1. UNCHANGED <<stage, word, out, resp, step, mem, clean>>
    BY <1>7 DEF ToDriver, ToDevice, Device!Arrive, deviceVars, historyVars
  <2> QED
    BY <1>1, <1>2, <2>1
<1>8. CASE Reload
  <2>1. stage' = "boot" /\ resp' = << >> /\ clean' = FALSE
    BY <1>8 DEF Reload
  <2> QED
    BY <2>1 DEF SaysInv, HeldInv
<1>9. CASE UNCHANGED vars
  <2>1. UNCHANGED <<stage, word, out, resp, step, mem, clean>>
    BY <1>9 DEF vars, hostVars, deviceVars, historyVars
  <2> QED
    BY <1>1, <1>2, <2>1
<1> QED
  BY <1>4, <1>5, <1>6, <1>7, <1>8, <1>9 DEF Next

LEMMA EnrolInitially == ASSUME Init PROVE EnrolInv
<1>1. step = "closed" /\ stage = "boot" /\ resp = << >>
  BY DEF Init, HostInit, Device!Init
<1> QED
  BY <1>1 DEF EnrolInv, SaysInv, HeldInv

\* What the tool has is the whole reply without its first byte.
LEMMA HeldWhole ==
  ASSUME TypeInv, SessionInv, EnrolInv, clean, step = "saving"
  PROVE  /\ resp = <<StatusSuccess>> \o mem.helper
         /\ mem.helper \in {FlattenWords(h) : h \in Enrolments}
<1>1. Idle
  BY DEF SessionInv, CleanInv, InStep, Asking, Informed, Enrolling, Helping, Working, Finished, Broken
<1>2. Len(resp) = 1 + HelperLength /\ resp[1] = StatusSuccess /\ stage # "sending"
  BY <1>1 DEF Idle
<1>3. PICK l \in Nat : l = HelperLength
  BY Shape
<1>4. PICK f \in Bytes : f = mem.helper /\ Len(f) = l
  BY <1>3 DEF TypeInv, ToolInv, Loaded
<1>5. PICK t \in Bytes : t = <<StatusSuccess>> /\ Len(t) = 1 /\ t[1] = StatusSuccess
  BY ByteValues, ProtocolValues
<1>6. PICK s \in Bytes : s = resp /\ Len(s) = 1 + l
  BY <1>2, <1>3 DEF TypeInv, DeviceTypeOK
<1>7. ASSUME NEW g \in Bytes, Len(g) = l
      PROVE  /\ t \o g \in Bytes /\ Len(t \o g) = 1 + l /\ (t \o g)[1] = StatusSuccess
             /\ \A i \in 1 .. l : (t \o g)[1 + i] = g[i]
  <2>1. /\ t \o g \in Bytes /\ Len(t \o g) = Len(t) + Len(g)
        /\ \A i \in 1 .. Len(t) + Len(g) : (t \o g)[i] = IF i <= Len(t) THEN t[i] ELSE g[i - Len(t)]
    BY NewBytes
  <2>2. PICK x : x = t \o g
    OBVIOUS
  <2>3. \A i \in 1 .. 1 + l : x[i] = IF i <= 1 THEN t[i] ELSE g[i - 1]
    BY <1>5, <1>7, <2>1, <2>2
  <2>4. x[1] = StatusSuccess
    BY <1>5, <2>3
  <2>5. ASSUME NEW i \in 1 .. l
        PROVE  x[1 + i] = g[i]
    <3>1. 1 + i \in 1 .. 1 + l /\ ~(1 + i <= 1) /\ 1 + i - 1 = i
      OBVIOUS
    <3> QED
      BY <2>3, <3>1
  <2> QED
    BY <1>5, <1>7, <2>1, <2>2, <2>4, <2>5
<1>8. s = t \o f
  <2>1. PICK u \in Bytes : u = t \o f /\ Len(u) = 1 + l /\ u[1] = StatusSuccess /\ \A i \in 1 .. l : u[1 + i] = f[i]
    BY <1>4, <1>7
  <2>2. ASSUME NEW j \in 1 .. 1 + l
        PROVE  s[j] = u[j]
    <3>1. CASE j = 1
      BY <1>2, <1>6, <2>1, <3>1
    <3>2. CASE j # 1
      <4>1. PICK i \in 1 .. l : j = 1 + i
        <5>1. j - 1 \in 1 .. l /\ j = 1 + (j - 1)
          BY <3>2
        <5> QED
          BY <5>1
      <4>2. f[i] = s[1 + i]
        BY <1>3, <1>4, <1>6 DEF EnrolInv, HeldInv
      <4> QED
        BY <2>1, <4>1, <4>2
    <3> QED
      BY <3>1, <3>2
  <2> QED
    BY <1>6, <2>1, <2>2, SeqEqual DEF Bytes
<1>9. PICK h \in Enrolments : resp = <<StatusSuccess>> \o FlattenWords(h)
  <2>1. resp # << >>
    BY <1>6, Empty
  <2> QED
    BY <1>2, <2>1 DEF EnrolInv, SaysInv, Enrolled
<1>10. PICK g \in Bytes : g = FlattenWords(h) /\ Len(g) = l
  BY <1>3, HelperType
<1>11. f = g
  <2>1. s = t \o g
    BY <1>5, <1>6, <1>9, <1>10
  <2>2. PICK u : u = s
    OBVIOUS
  <2>3. \A i \in 1 .. l : u[1 + i] = g[i]
    BY <1>7, <1>10, <2>1, <2>2
  <2>4. \A i \in 1 .. l : u[1 + i] = f[i]
    BY <1>4, <1>7, <1>8, <2>2
  <2>5. \A i \in 1 .. l : f[i] = g[i]
    BY <2>3, <2>4
  <2> QED
    BY <1>4, <1>10, <2>5, SeqEqual DEF Bytes
<1> QED
  BY <1>4, <1>5, <1>6, <1>8, <1>10, <1>11

\* A session that met an idle device saves byte for byte the helper data of the
\* enrolment the device made for its command, and nothing an earlier process left:
\* for every size of the helper data and any number of processes, kills and reloads.
THEOREM SavesOwnAlways == Spec => SavesOwnEnrolment
<1>1. Init => TypeInv /\ SessionInv /\ EnrolInv
  BY TypeInitially, SessionInitially, EnrolInitially
<1>2. TypeInv /\ SessionInv /\ EnrolInv /\ [Next]_vars => (TypeInv /\ SessionInv /\ EnrolInv)'
  BY TypeStep, SessionStep, EnrolStep
<1>3. TypeInv /\ SessionInv /\ EnrolInv /\ [Next]_vars
        => [Saving /\ clean => /\ resp = <<StatusSuccess>> \o file'
                              /\ file' \in {FlattenWords(h) : h \in Enrolments}]_vars
  <2> SUFFICES ASSUME TypeInv, SessionInv, EnrolInv, Next, Saving, clean
               PROVE  /\ resp = <<StatusSuccess>> \o file'
                      /\ file' \in {FlattenWords(h) : h \in Enrolments}
    OBVIOUS
  <2>1. SaveFile
    BY DEF Next, Saving, OpenPort, Open, OpenFails, Settle, Discard, GiveUp, ReadTimeout, BannerTimeout, Reads,
           Interrupt, Kill, Run, hostVars, ToDriver, ToDevice, Reload, Work, HostStep, WaitForStart, SendInfo,
           ReadInfo, StartStress, SendEnroll, ReadEnrollStatus, ReadEnrollHelper, OpenFile, SendRecon, ReadReady,
           SendWord, ReadAck, ReadMarker, ReadStatus, ReadFlags, ReadKey, ReadFailCode, Answer, Read
  <2>2. file' = mem.helper
    BY <2>1 DEF SaveFile
  <2> QED
    BY <2>2, HeldWhole DEF Saving
<1> QED
  BY <1>1, <1>2, <1>3, PTL DEF Spec, SavesOwnEnrolment

\* A session that met an idle device only fails when the device reports a failure,
\* for every size of the helper data and the key, every number of processes, kills
\* and reloads; what killed processes left behind does not matter once the device
\* was found idle.
THEOREM AlarmIsTrue == Spec => []NoFalseAlarm
<1>1. Init => TypeInv /\ SessionInv
  BY TypeInitially, SessionInitially
<1>2. TypeInv /\ SessionInv /\ [Next]_vars => (TypeInv /\ SessionInv)'
  BY TypeStep, SessionStep
<1>3. SessionInv => NoFalseAlarm
  BY DEF SessionInv
<1> QED
  BY <1>1, <1>2, <1>3, PTL DEF Spec

\* In a session that met an idle device do_reconstruct() only accepts the reply to
\* its own command: the device finished a KEM on exactly the helper bytes it sent.
THEOREM AcceptsOwnReply == Spec => AcceptedIsUsed
<1>1. Init => TypeInv /\ SessionInv
  BY TypeInitially, SessionInitially
<1>2. TypeInv /\ SessionInv /\ [Next]_vars => (TypeInv /\ SessionInv)'
  BY TypeStep, SessionStep
<1>3. TypeInv /\ SessionInv /\ [Next]_vars
        => [Accepts /\ clean /\ command \in {"reconstruct", "stress"} => used = mem.helper]_vars
  BY SessionStep DEF Outcome
<1> QED
  BY <1>1, <1>2, <1>3, PTL DEF Spec, AcceptedIsUsed

\* What a session that met an idle device accepts leaves no byte unread on either
\* side and the device in its command loop, between the iterations of do_stress() too.
THEOREM AcceptsWholeReply == Spec => LeavesNothingBehind
<1>1. Init => TypeInv /\ SessionInv
  BY TypeInitially, SessionInitially
<1>2. TypeInv /\ SessionInv /\ [Next]_vars => (TypeInv /\ SessionInv)'
  BY TypeStep, SessionStep
<1>3. TypeInv /\ SessionInv /\ [Next]_vars
        => [Accepts /\ clean => Quiet' /\ stage \in {"cmd", "closing"}]_vars
  BY SessionStep DEF Outcome
<1> QED
  BY <1>1, <1>2, <1>3, PTL DEF Spec, LeavesNothingBehind

================================================================================
