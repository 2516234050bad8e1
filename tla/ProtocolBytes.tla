----------------------------- MODULE ProtocolBytes -----------------------------
(***************************************************************************)
(* The bytes of UART protocol v1.2: the definitions at the head of         *)
(* firmware/main.c and of host/uart_host.py, which have to agree, and the  *)
(* shape of the helper data both ends count through.                       *)
(***************************************************************************)
EXTENDS Naturals, Sequences, SequencesExt

CONSTANTS
  NumWords,      \* full helper words (8 in the code)
  BytesPerWord,  \* bytes in each of them (4); one more word holds one byte
  Byte           \* byte values that can appear in helper data

ASSUME WordShape ==
  /\ NumWords \in 1 .. 9        \* the words are acknowledged with a digit
  /\ BytesPerWord \in Nat \ {0}
  /\ Byte \subseteq 0 .. 255

CmdInfo   == 0
CmdEnroll == 1
CmdRecon  == 2

StatusSuccess == 170
StatusFail    == 255

ErrUartTimeout  == 1
ErrPufTimeout   == 2
ErrFeTimeout    == 3
ErrFeDecode     == 4
ErrKdfTimeout   == 5
ErrKyberConfig  == 6
ErrKyberTimeout == 7
ErrKeyMismatch  == 8

\* 'X', the progress markers 'A' .. 'G' and the word acknowledge '0' + w.
HelperRequest == 88
Marker(i) == 64 + i
Ack(w) == 48 + w
Unknown == 63
Banner == <<83, 84, 65, 82, 84>>

\* 'K', 'P', version 1.2 and the capabilities; bit 0 is the export of the key.
InfoReplyOf(export) == <<75, 80, 1, 2, IF export THEN 7 ELSE 6>>

BytesIn(w) == IF w = NumWords THEN 1 ELSE BytesPerWord
Helper  == [0 .. NumWords -> Seq(0 .. 255)]
Whole   == {h \in Helper : \A w \in 0 .. NumWords : Len(h[w]) = BytesIn(w)}

\* Registers come out of reset as zero.
NoHelper == [w \in 0 .. NumWords |-> [i \in 1 .. BytesIn(w) |-> 0]]

\* the bytes of word w among all those of a helper
Slice(bytes, w) == SubSeq(bytes, w * BytesPerWord + 1, w * BytesPerWord + BytesIn(w))

HelperLength == NumWords * BytesPerWord + 1

FlattenWords(h) ==
  [i \in 1 .. HelperLength |-> h[(i - 1) \div BytesPerWord][((i - 1) % BytesPerWord) + 1]]

--------------------------------------------------------------------------------
(***************************************************************************)
(* Replies.  A KEM failure follows 'F'; before that the code names the     *)
(* marker reached.                                                         *)
(***************************************************************************)
Acks(n) == [i \in 1 .. n |-> Ack(i - 1)]
Progress(n) == [i \in 1 .. n |-> Marker(i)]
Accepted(n) == <<HelperRequest>> \o Acks(NumWords + 1) \o Progress(n)

StageErrors == {<<1, ErrPufTimeout>>, <<2, ErrFeTimeout>>, <<3, ErrFeDecode>>,
                <<4, ErrKdfTimeout>>, <<6, ErrKyberConfig>>,
                <<6, ErrKyberTimeout>>, <<6, ErrKeyMismatch>>}

================================================================================
