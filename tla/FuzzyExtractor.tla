----------------------------- MODULE FuzzyExtractor -----------------------------
(***************************************************************************)
(* The fuzzy extractor of fuzzy_extractor.sv, one clock at a time: its FSM *)
(* with the shift registers it fills, the BCH encoder with the two-stage   *)
(* pipelines around it (xilinx_encode.v, bch_encode.v), and the decoder    *)
(* (xilinx_decoder.v) as a stream: it takes a word a clock after its start *)
(* strobe and, any number of clocks after the last one, gives out the      *)
(* error pattern word by word.                                             *)
(*                                                                         *)
(* A word is one bit here: T counts bits in the code, and words here.  The *)
(* code is a parameter: Ecc gives the check words of the data words, and   *)
(* the decoder finds the error of any word within distance T of a          *)
(* codeword; for other words it finds any of Miscorrected.                 *)
(***************************************************************************)
EXTENDS Naturals, Sequences, FiniteSets

CONSTANTS
  DataWords,   \* DATA_WORDS: 24 in the code
  CodeWords,   \* CODE_WORDS: 33 in the code
  T,           \* how many wrong words the decoder corrects
  Ecc(_),      \* the check words of a sequence of data words
  Enrolled,    \* responses the enrolment of this instance starts from
  Noise,       \* bound: in which words a later response may differ
  Miscorrected \* bound: what the decoder finds in a word it cannot correct

Word    == BOOLEAN
Data    == [1 .. DataWords -> Word]
Code    == [1 .. CodeWords -> Word]
Xor(a, b) == [i \in 1 .. CodeWords |-> a[i] # b[i]]
Zeros(n)  == [i \in 1 .. n |-> FALSE]
DataOf(c) == SubSeq(c, 1, DataWords)
Encode(d) == d \o Ecc(d)
Distance(a, b) == Cardinality({i \in 1 .. CodeWords : a[i] # b[i]})

ASSUME CodeParameters ==
  /\ DataWords \in Nat \ {0, 1}
  /\ CodeWords \in Nat
  /\ CodeWords > DataWords
  /\ T \in Nat
  /\ Enrolled \subseteq Code /\ Noise \subseteq Code /\ Miscorrected \subseteq Code
  /\ \A d \in Data : Ecc(d) \in [1 .. CodeWords - DataWords -> Word]
  \* The decoder corrects T errors: codewords are more than 2 T apart.
  /\ \A c, d \in Data : c # d => Distance(Encode(c), Encode(d)) > 2 * T

\* The error pattern the decoder finds.
ErrorsOf(c) ==
  LET close == {e \in Code : \E d \in Data : c = Xor(Encode(d), e) /\ Distance(e, Zeros(CodeWords)) <= T}
  IN  IF close = {} THEN Miscorrected ELSE close

States == {"S_IDLE", "S_ENC", "S_HELPER", "S_DEC_FEED", "S_DEC_WAIT", "S_DEC_CAP", "S_KEYOUT",
           "S_VERIFY_ENC", "S_VERIFY_CMP"}

VARIABLES
  state, wordCnt, cap,
  respReg, rReg, keyReg, cwReg, errReg, corrected,
  helperOut, keyOut, done, success,
  encIn,       \* the two stages before the encoder, oldest first
  encOut,      \* the two stages after it
  encBusy, encLast, encLoad, encCount,  \* busy, last, load_lfsr, count of bch_encode
  encData,     \* the data words the LFSR was fed since start
  dec,         \* words in the decoder: what it was fed, what it still gives out
  decIn,       \* the stage before the decoder
  origin,      \* history: the response enrolment was done with
  job          \* history: the operation in progress and its response

fsmVars == <<state, wordCnt, cap>>
regVars == <<respReg, rReg, keyReg, cwReg, errReg, corrected>>
outVars == <<helperOut, keyOut, done, success>>
encVars == <<encIn, encOut, encBusy, encLast, encLoad, encCount, encData>>
decVars == <<dec, decIn>>
feVars  == <<fsmVars, regVars, outVars, encVars, decVars, origin, job>>

NoIn  == [word |-> FALSE, start |-> FALSE, ce |-> FALSE]
NoOut == [word |-> FALSE, first |-> FALSE, last |-> FALSE]
NoDec == [word |-> FALSE, start |-> FALSE]
NoJob == [mode |-> "none", resp |-> Zeros(CodeWords)]

Init ==
  /\ state = "S_IDLE"
  /\ wordCnt = 0
  /\ cap = FALSE
  /\ respReg = Zeros(CodeWords)
  /\ rReg = Zeros(CodeWords)
  /\ keyReg = Zeros(DataWords)
  /\ cwReg = Zeros(CodeWords)
  /\ errReg = Zeros(CodeWords)
  /\ corrected = Zeros(CodeWords)
  /\ helperOut = Zeros(CodeWords)
  /\ keyOut = Zeros(DataWords)
  /\ done = FALSE
  /\ success = FALSE
  /\ encIn = <<NoIn, NoIn>>
  /\ encOut = <<NoOut, NoOut>>
  /\ encBusy = FALSE
  /\ encLast = FALSE
  /\ encLoad = FALSE
  /\ encCount = 0
  /\ encData = << >>
  /\ dec = [fed |-> << >>, found |-> << >>, out |-> NoOut]
  /\ decIn = NoDec
  /\ origin = Zeros(CodeWords)
  /\ job = NoJob

--------------------------------------------------------------------------------
(***************************************************************************)
(* The encoder: bch_encode between two pipelines of two stages.            *)
(***************************************************************************)
Encoding == state \in {"S_ENC", "S_VERIFY_ENC"}

EncoderInput ==
  IF ~Encoding THEN NoIn
  ELSE [word  |-> wordCnt < DataWords /\ keyReg[wordCnt + 1],
        start |-> wordCnt = 0,
        ce    |-> TRUE]

\* What bch_encode puts out in this clock: the data words as they come, then
\* the check words shifted out of the LFSR.
EncoderWord(in) ==
  IF in.start \/ encLoad THEN in.word
  ELSE Len(encData) = DataWords /\ encCount + 2 \in DataWords + 1 .. CodeWords
       /\ Ecc(encData)[encCount + 2 - DataWords]

EncoderAt(lastCount) ==
  LET in == encIn[1] IN
  /\ encIn' = <<encIn[2], EncoderInput>>
  /\ encOut' = <<encOut[2], [word  |-> EncoderWord(in),
                             first |-> in.start /\ ~encBusy,
                             last  |-> encLast]>>
  /\ IF ~in.ce THEN UNCHANGED <<encBusy, encLast, encLoad, encCount, encData>>
     ELSE /\ encLast' = CASE in.start -> FALSE
                          [] ~in.start /\ encCount = lastCount /\ encBusy -> TRUE
                          [] OTHER -> FALSE
          /\ encBusy' = (in.start \/ (encBusy /\ ~(encLast /\ encCount # lastCount)))
          /\ encLoad' = (in.start \/ (encLoad /\ encCount # DataWords - 2))
          /\ encCount' = CASE in.start -> 0
                           [] encBusy /\ ~in.start -> encCount + 1
                           [] OTHER -> encCount
          /\ encData' = CASE in.start -> <<in.word>>
                          [] encLoad /\ ~in.start -> Append(encData, in.word)
                          [] OTHER -> encData

\* Fault: the encoder says last one word early.
EncoderShort == EncoderAt(CodeWords - 4)

Encoder == EncoderAt(CodeWords - 3)

encFirst == encOut[1].first
encLastOut == encOut[1].last
encWord == encOut[1].word

(***************************************************************************)
(* The decoder: one stage before it, one after it, and between them the    *)
(* syndromes, the key equation and the Chien search, of any duration.      *)
(***************************************************************************)
DecoderInput ==
  IF state = "S_DEC_FEED"
  THEN [word |-> rReg[wordCnt + 1], start |-> wordCnt = 0]
  ELSE NoDec

\* It takes CodeWords words from its start strobe on.
Fed ==
  CASE decIn.start -> <<decIn.word>>
    [] ~decIn.start /\ dec.fed # << >> /\ Len(dec.fed) < CodeWords -> Append(dec.fed, decIn.word)
    [] OTHER -> dec.fed

DecoderTakes ==
  /\ dec.found = << >>
  /\ dec' = [fed |-> Fed, found |-> << >>, out |-> NoOut]

DecoderAnswers ==
  /\ dec.found = << >>
  /\ Len(dec.fed) = CodeWords
  /\ \E e \in ErrorsOf(dec.fed) :
       dec' = [fed |-> << >>, found |-> Tail(e), out |-> [NoOut EXCEPT !.word = Head(e), !.first = TRUE]]

DecoderGoesOn ==
  /\ dec.found # << >>
  /\ dec' = [fed |-> Fed, found |-> Tail(dec.found), out |-> [NoOut EXCEPT !.word = Head(dec.found)]]

Decoder == decIn' = DecoderInput /\ (DecoderTakes \/ DecoderAnswers \/ DecoderGoesOn)

decFirst == dec.out.first
decWord  == dec.out.word

--------------------------------------------------------------------------------
(***************************************************************************)
(* The FSM.  One action per state; each is a whole clock of the FSM.       *)
(***************************************************************************)
Goto(s) == state' = s
Shift(reg, w) == Append(Tail(reg), w)
Silent == done' = FALSE /\ UNCHANGED <<helperOut, keyOut, success>>
Latched == UNCHANGED <<respReg, rReg, origin, job>>

Start(mode, resp, helper) ==
  /\ respReg' = resp
  /\ rReg' = Xor(helper, resp)
  /\ keyReg' = DataOf(resp)
  /\ state' = IF mode = "enroll" THEN "S_ENC" ELSE "S_DEC_FEED"
  /\ job' = [mode |-> mode, resp |-> resp]
  /\ origin' = IF mode = "enroll" THEN resp ELSE origin

\* Enrolment takes any of its responses; reconstruction a noisy version of the
\* one enrolled, with the helper data enrolment gave out.
Idle ==
  /\ state = "S_IDLE"
  /\ wordCnt' = 0
  /\ cap' = FALSE
  /\ cwReg' = Zeros(CodeWords)
  /\ \/ \E resp \in Enrolled : Start("enroll", resp, Zeros(CodeWords))
     \/ /\ job # NoJob
        /\ \E n \in Noise : Start("reconstruct", Xor(origin, n), helperOut)
     \/ UNCHANGED <<respReg, rReg, keyReg, state, origin, job>>
  /\ Silent
  /\ UNCHANGED <<errReg, corrected>>

\* S_ENC and S_VERIFY_ENC: feed the key, capture the codeword.
EncodeClock(next) ==
  /\ wordCnt' = IF wordCnt < DataWords THEN wordCnt + 1 ELSE wordCnt
  /\ cap' = ((cap \/ encFirst) /\ ~encLastOut)
  /\ cwReg' = IF cap \/ encFirst THEN Shift(cwReg, encWord) ELSE cwReg
  /\ Goto(IF encLastOut THEN next ELSE state)
  /\ Silent
  /\ Latched
  /\ UNCHANGED <<keyReg, errReg, corrected>>

Enc       == state = "S_ENC" /\ EncodeClock("S_HELPER")
VerifyEnc == state = "S_VERIFY_ENC" /\ EncodeClock("S_VERIFY_CMP")

HelperOut ==
  /\ state = "S_HELPER"
  /\ helperOut' = Xor(cwReg, respReg)
  /\ keyOut' = keyReg
  /\ success' = TRUE
  /\ done' = TRUE
  /\ Goto("S_IDLE")
  /\ Latched
  /\ UNCHANGED <<wordCnt, cap, keyReg, cwReg, errReg, corrected>>

DecFeed ==
  /\ state = "S_DEC_FEED"
  /\ wordCnt' = IF wordCnt < CodeWords - 1 THEN wordCnt + 1 ELSE wordCnt
  /\ Goto(IF wordCnt = CodeWords - 1 THEN "S_DEC_WAIT" ELSE state)
  /\ Silent
  /\ Latched
  /\ UNCHANGED <<cap, keyReg, cwReg, errReg, corrected>>

DecWait ==
  /\ state = "S_DEC_WAIT"
  /\ wordCnt' = 0
  /\ errReg' = IF decFirst THEN Shift(errReg, decWord) ELSE errReg
  /\ Goto(IF decFirst THEN "S_DEC_CAP" ELSE state)
  /\ Silent
  /\ Latched
  /\ UNCHANGED <<cap, keyReg, cwReg, corrected>>

DecCapUntil(lastWord) ==
  /\ state = "S_DEC_CAP"
  /\ errReg' = Shift(errReg, decWord)
  /\ wordCnt' = IF wordCnt < CodeWords - 1 THEN wordCnt + 1 ELSE wordCnt
  /\ Goto(IF wordCnt = lastWord THEN "S_KEYOUT" ELSE state)
  /\ Silent
  /\ Latched
  /\ UNCHANGED <<cap, keyReg, cwReg, corrected>>

\* Fault: the word captured in S_DEC_WAIT is forgotten.
DecCapLong == DecCapUntil(CodeWords - 1)

DecCap == DecCapUntil(CodeWords - 2)

decKey == DataOf(Xor(rReg, errReg))

KeyOutCounting(cnt) ==
  /\ state = "S_KEYOUT"
  /\ corrected' = Xor(rReg, errReg)
  /\ keyReg' = decKey
  /\ keyOut' = decKey
  /\ wordCnt' = cnt
  /\ cap' = FALSE
  /\ cwReg' = Zeros(CodeWords)
  /\ Goto("S_VERIFY_ENC")
  /\ done' = FALSE
  /\ Latched
  /\ UNCHANGED <<errReg, helperOut, success>>

\* Fault: the word counter is not reset before the second encoding.
KeyOutUncleared == KeyOutCounting(wordCnt)

KeyOut == KeyOutCounting(0)

\* Fault: any decoded word is reported as a success.
VerifyUnchecked ==
  /\ state = "S_VERIFY_CMP"
  /\ success' = TRUE
  /\ done' = TRUE
  /\ Goto("S_IDLE")
  /\ Latched
  /\ UNCHANGED <<wordCnt, cap, keyReg, cwReg, errReg, corrected, helperOut, keyOut>>

VerifyCmp ==
  /\ state = "S_VERIFY_CMP"
  /\ success' = (cwReg = corrected)
  /\ done' = TRUE
  /\ Goto("S_IDLE")
  /\ Latched
  /\ UNCHANGED <<wordCnt, cap, keyReg, cwReg, errReg, corrected, helperOut, keyOut>>

Fsm ==
  \/ Idle
  \/ Enc \/ HelperOut
  \/ DecFeed \/ DecWait \/ DecCap \/ KeyOut \/ VerifyEnc \/ VerifyCmp

Next == Fsm /\ Encoder /\ Decoder
Spec == Init /\ [][Next]_feVars

\* The clock runs, and the decoder, which only counts clocks, answers.
Fairness == WF_feVars(Next) /\ WF_feVars(Next /\ DecoderAnswers)
FairSpec == Spec /\ Fairness

--------------------------------------------------------------------------------
(***************************************************************************)
(* Properties                                                              *)
(***************************************************************************)
\* The registers hold what they are declared to hold, in range.
TypeOK ==
  /\ state \in States
  /\ wordCnt \in 0 .. CodeWords - 1
  /\ {cap, done, success, encBusy, encLast, encLoad} \subseteq BOOLEAN
  /\ {respReg, rReg, cwReg, errReg, corrected, helperOut, origin} \subseteq Code
  /\ {keyReg, keyOut} \subseteq Data
  /\ encCount \in 0 .. CodeWords + 3
  /\ Len(encData) <= DataWords
  /\ Len(dec.fed) <= CodeWords /\ Len(dec.found) < CodeWords

\* Enrolment gives out the key taken from the response and helper data that is
\* the whole codeword of that key, in order, over the response: what the
\* pipelines around the encoder delay is neither lost nor taken twice, also
\* when the encoder ran before.
EnrolmentIsCodeword ==
  done /\ job.mode = "enroll" =>
    /\ success
    /\ keyOut = DataOf(job.resp)
    /\ helperOut = Xor(Encode(keyOut), job.resp)

\* A response at most T words away from the enrolled one gives the enrolled key,
\* however long the decoder takes.
KeyRecovered ==
  done /\ job.mode = "reconstruct" /\ Distance(job.resp, origin) <= T =>
    success /\ keyOut = DataOf(origin)

\* The success flag of a reconstruction says that the corrected word is the
\* codeword of the key given out, whatever the decoder found.
SuccessIsCodeword ==
  done /\ job.mode = "reconstruct" => (success <=> corrected = Encode(keyOut))

\* Every operation ends: no strobe of the encoder or the decoder is missed.
OperationEnds == (state # "S_IDLE") ~> done

================================================================================
