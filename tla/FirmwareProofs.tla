----------------------------- MODULE FirmwareProofs -----------------------------
(***************************************************************************)
(* Theorems about the firmware, for every helper size, every FIFO depth,   *)
(* every number of transactions and every host.                            *)
(*                                                                         *)
(* In this order: types; what is erased; that everything a command uses    *)
(* was made for it; the seeds of a running KEM; the protocol on the line;   *)
(* the replies.                                                            *)
(***************************************************************************)
EXTENDS Firmware, ProtocolLemmas

--------------------------------------------------------------------------------
(***************************************************************************)
(* Types.                                                                  *)
(***************************************************************************)
\* The word a helper byte completes is the tail of what was received.
LEMMA SliceType ==
  ASSUME NEW bytes \in Seq(Byte), NEW w \in 0 .. NumWords,
         w * BytesPerWord + BytesIn(w) <= Len(bytes)
  PROVE  Slice(bytes, w) \in Seq(0 .. 255)
<1> DEFINE m == w * BytesPerWord + 1
           n == w * BytesPerWord + BytesIn(w)
<1>1. m \in Nat /\ n \in Nat /\ m >= 1 /\ n <= Len(bytes)
  BY BytesInPositive, HelperShape, WordShape
<1>2. \A i \in m .. n : bytes[i] \in 0 .. 255
  <2> TAKE i \in m .. n
  <2>1. i \in 1 .. Len(bytes)
    BY <1>1, LenProperties
  <2>2. QED BY <2>1, ElementOfSeq, HelperShape, WordShape
<1> HIDE DEF m, n
<1>3. SubSeq(bytes, m, n) \in Seq(0 .. 255)
  BY <1>1, <1>2, SubSeqProperties
<1>4. QED BY <1>3 DEF Slice, m, n

LEMMA EmptyType == << >> \in Seq(Byte) /\ << >> \in Seq(0 .. 255)
BY EmptySeq

LEMMA NoJobType == NoJob \in Job
BY NoHelperType DEF NoJob, Job

\* Every register, FIFO and counter keeps its type; the bytes sent are bytes.
THEOREM TypeCorrect == Spec => []TypeOK
<1> USE DEF SysTypeOK, Kem!KemTypeOK
<1>1. Init => TypeOK
  <2> SUFFICES ASSUME Init PROVE TypeOK
    OBVIOUS
  <2>1. SysTypeOK
    BY NoJobType, NoHelperType DEF Init, SysInit
  <2>2. Kem!KemTypeOK
    BY DEF Init, Kem!KemInit
  <2>3. /\ pc \in Stages
        /\ word \in 0 .. NumWords
        /\ code \in 0 .. ErrKeyMismatch
    BY HelperShape, WordShape DEF Init, Stages, ErrKeyMismatch
  <2>4. /\ rx \in Seq(Byte) /\ fed \in Seq(Byte) /\ resp \in Seq(0 .. 255)
        /\ txn \in Nat /\ krun = Zero
    BY EmptyType DEF Init
  <2>5. QED BY <2>1, <2>2, <2>3, <2>4 DEF TypeOK
<1>2. TypeOK /\ [Next]_vars => TypeOK'
  <2> SUFFICES ASSUME TypeOK, [Next]_vars PROVE TypeOK'
    OBVIOUS
  <2> USE DEF TypeOK
  <2>1. CASE FirmwareStep
    <3> USE HelperShape, WordShape DEF Goto, Quiet, Local, Fail, sysVars, kemVars
    <3>a. \A s \in Seq(0 .. 255) : resp \o s \in Seq(0 .. 255)
      BY ConcatProperties
    <3>b. \A c \in 0 .. ErrKeyMismatch : <<StatusFail, c>> \in Seq(0 .. 255)
      BY DEF ErrKeyMismatch, StatusFail
    <3>c. rx # << >> => Head(rx) \in Byte /\ Tail(rx) \in Seq(Byte)
      BY HeadTailProperties
    <3>d. ASSUME NEW c \in 0 .. ErrKeyMismatch, NEW from, Fail(from, c)
          PROVE  pc' \in Stages /\ code' \in 0 .. ErrKeyMismatch
      BY <3>d DEF Stages
    <3>1. CASE FailZeroize BY <3>1 DEF FailZeroize, Kem!Zeroize, Stages
    <3>2. CASE FailReport BY <3>2, <3>a, <3>b DEF FailReport, Send, Stages
    <3>3. CASE Boot BY <3>3, <3>a DEF Boot, Send, Banner, Stages
    <3>4. CASE Info \/ UnknownCommand
      <4>1. InfoReply \in Seq(0 .. 255) /\ <<Unknown>> \in Seq(0 .. 255)
        BY DEF InfoReply, InfoReplyOf, Unknown
      <4>2. rx' \in Seq(Byte) /\ resp' \in Seq(0 .. 255)
        BY <3>4, <3>c, <4>1 DEF Info, UnknownCommand, ReadCommand
      <4>3. QED BY <3>4, <4>2 DEF Info, UnknownCommand, ReadCommand
    <3>5. CASE Enroll
      <4>1. rx' \in Seq(Byte) /\ resp' \in Seq(0 .. 255)
        BY <3>5, <3>c, EmptyType DEF Enroll, ReadCommand
      <4>2. QED BY <3>5, <4>1 DEF Enroll, ReadCommand, Stages
    <3>r. CASE Recon
      <4>1. resp' \in Seq(0 .. 255)
        BY <3>r DEF Recon, HelperRequest
      <4>2. rx' \in Seq(Byte) /\ fed' \in Seq(Byte)
        BY <3>r, <3>c, EmptyType DEF Recon, ReadCommand
      <4>3. word' \in 0 .. NumWords
        BY <3>r DEF Recon
      <4>4. QED BY <3>r, <4>1, <4>2, <4>3 DEF Recon, ReadCommand, Stages
    <3>6. ASSUME NEW m \in Nat, NEW from, NEW to \in Stages, Goto(from, to),
                 StartPuf(m), Quiet, Local, UNCHANGED <<kemVars, code, rx>>
          PROVE  TypeOK'
      BY <3>6 DEF StartPuf, Start, Cores
    <3>7. ASSUME NEW mode \in {"enc", "dec"}, NEW from, NEW to \in Stages, Goto(from, to),
                 StartFe(mode), Quiet, Local, UNCHANGED <<kemVars, code, rx>>
          PROVE  TypeOK'
      <4>1. [mode |-> mode, response |-> response, helper |-> helperReg] \in Job
        BY DEF Job
      <4>2. QED BY <3>7, <4>1 DEF StartFe, Start, Cores
    <3>8. ASSUME NEW c, NEW from, NEW to \in Stages, NEW bytes \in Seq(0 .. 255),
                 Await(c, from, to, bytes)
          PROVE  TypeOK'
      BY <3>8, <3>a DEF Await, Send
    <3>9. ASSUME NEW c, NEW from, NEW err \in 0 .. ErrKeyMismatch, Expire(c, from, err)
          PROVE  TypeOK'
      BY <3>9, <3>d DEF Expire
    <3>10. /\ <<Marker(2)>> \in Seq(0 .. 255)
           /\ <<Marker(3)>> \in Seq(0 .. 255)
           /\ <<Marker(4)>> \in Seq(0 .. 255)
      BY DEF Marker
    <3>11. CASE EnrollPuf \/ ReconPuf
      BY <3>11, <3>6 DEF EnrollPuf, ReconPuf, Stages
    <3>12. CASE EnrollPufDone \/ ReconPufDone \/ ReconFeDone \/ ReconFeAccept
                \/ ReconKdfDone
      <4>1. <<Marker(5), Marker(6)>> \in Seq(0 .. 255) BY DEF Marker
      <4>2. {"enroll_fe", "recon_fe", "recon_fe_check", "recon_kdf", "recon_seed"}
              \subseteq Stages
        BY DEF Stages
      <4>3. CASE EnrollPufDone
        BY <4>3, <3>8, <4>2, EmptyType DEF EnrollPufDone
      <4>4. CASE ReconPufDone
        BY <4>4, <3>8, <3>10, <4>2 DEF ReconPufDone
      <4>5. CASE ReconFeDone
        BY <4>5, <3>8, <3>10, <4>2 DEF ReconFeDone
      <4>6. CASE ReconFeAccept
        BY <4>6, <3>8, <3>10, <4>2 DEF ReconFeAccept
      <4>7. CASE ReconKdfDone
        BY <4>7, <3>8, <4>1, <4>2 DEF ReconKdfDone
      <4>8. QED BY <3>12, <4>3, <4>4, <4>5, <4>6, <4>7
    <3>13. CASE EnrollPufTimeout \/ EnrollFeTimeout \/ ReconPufTimeout \/ ReconFeTimeout
                \/ ReconKdfTimeout
      BY <3>13, <3>9
      DEF EnrollPufTimeout, EnrollFeTimeout, ReconPufTimeout, ReconFeTimeout,
          ReconKdfTimeout, ErrPufTimeout, ErrFeTimeout, ErrKdfTimeout, ErrKeyMismatch
    <3>14. CASE EnrollFe \/ ReconFe
      BY <3>14, <3>7 DEF EnrollFe, ReconFe, Stages
    <3>15. CASE EnrollFeDone
      BY <3>15, <3>a DEF EnrollFeDone, Send, StatusSuccess, Stages
    <3>16. CASE EnrollSend
      <4>1. helperOut[word] \in Seq(0 .. 255)
        BY DEF Helper
      <4>2. resp' \in Seq(0 .. 255)
        BY <3>16, <3>a, <4>1 DEF EnrollSend, Send
      <4>3. word' \in 0 .. NumWords /\ pc' \in Stages
        BY <3>16 DEF EnrollSend, Stages
      <4>4. QED BY <3>16, <4>2, <4>3 DEF EnrollSend
    <3>17. CASE ReadHelperByte
      <4>1. /\ rx' \in Seq(Byte) /\ fed' \in Seq(Byte)
        BY <3>17, <3>c, AppendProperties DEF ReadHelperByte
      <4>2. CASE Len(fed') = word * BytesPerWord + BytesIn(word)
        <5>1. Slice(fed', word) \in Seq(0 .. 255)
          <6>1. fed' \in Seq(Byte) /\ word \in 0 .. NumWords
            BY <4>1
          <6>2. word * BytesPerWord + BytesIn(word) <= Len(fed')
            BY <4>2, <4>1, LenProperties
          <6> HIDE DEF TypeOK
          <6>3. QED BY <6>1, <6>2, SliceType
        <5>2. helperReg' \in Helper
          BY <3>17, <4>2, <5>1 DEF ReadHelperByte, WriteHelper, Helper
        <5>3. <<Ack(word)>> \in Seq(0 .. 255) /\ <<Ack(word), Marker(1)>> \in Seq(0 .. 255)
          <6>1. word \in 0 .. NumWords
            BY <4>1
          <6>2. Ack(word) \in 0 .. 255 /\ Marker(1) \in 0 .. 255
            BY <6>1 DEF Ack, Marker
          <6> HIDE HelperShape DEF TypeOK
          <6>3. QED BY <6>2
        <5>4. resp' \in Seq(0 .. 255)
          <6>1. CASE word = NumWords
            BY <3>17, <4>2, <5>3, <3>a, <6>1 DEF ReadHelperByte, Send
          <6>2. CASE word # NumWords
            BY <3>17, <4>2, <5>3, <3>a, <6>2 DEF ReadHelperByte, Send
          <6>3. QED BY <6>1, <6>2
        <5>5. word' \in 0 .. NumWords /\ pc' \in Stages
          BY <3>17, <4>2 DEF ReadHelperByte, Stages
        <5>6. QED
          BY <3>17, <4>1, <4>2, <5>2, <5>4, <5>5 DEF ReadHelperByte, WriteHelper
      <4>3. CASE Len(fed') # word * BytesPerWord + BytesIn(word)
        BY <3>17, <4>1, <4>3 DEF ReadHelperByte
      <4>4. QED BY <4>2, <4>3
    <3>18. CASE HelperTimeout \/ ReconFeReject \/ ReconConfigError \/ ReconKemTimeout
                \/ ReconMismatch
      BY <3>18, <3>d
      DEF HelperTimeout, ReconFeReject, ReconConfigError, ReconKemTimeout, ReconMismatch,
          ErrUartTimeout, ErrFeDecode, ErrKyberConfig, ErrKyberTimeout, ErrKeyMismatch
    <3>19. CASE ReconKdf
      BY <3>19, NoJobType DEF ReconKdf, StartKdf, Start, Cores, Stages
    <3>20. CASE ReconSeed BY <3>20 DEF ReconSeed, Kem!WriteSeed, Stages
    <3>21. CASE ReconParam BY <3>21 DEF ReconParam, Kem!WriteParam, Stages
    <3>22. CASE ReconLaunch
      BY <3>22 DEF ReconLaunch, Kem!Launch, Kem!kemVars, Stages
    <3>23. CASE ReconParamOk \/ ReconKemDone
      BY <3>23 DEF ReconParamOk, ReconKemDone, Stages
    <3>24. CASE ReconSuccess
      BY <3>24, <3>a DEF ReconSuccess, Send, Marker, StatusSuccess, Stages
    <3>25. CASE ReconZeroize BY <3>25 DEF ReconZeroize, Kem!Zeroize, Stages
    <3>26. QED
      BY <2>1, <3>1, <3>2, <3>3, <3>4, <3>5, <3>r, <3>11, <3>12, <3>13, <3>14, <3>15, <3>16,
         <3>17, <3>18, <3>19, <3>20, <3>21, <3>22, <3>23, <3>24, <3>25
      DEF FirmwareStep
  <2>2. CASE CoreStep
    <3> USE DEF kemVars, cpuVars, Cores, Flags
    <3>1. CASE FinishPuf
      BY <2>2, <3>1 DEF CoreStep, FinishPuf
    <3>2. ASSUME NEW h \in HelperOutputs, FinishEncode(h) PROVE TypeOK'
      BY <2>2, <3>2, HelperShape, WordShape DEF CoreStep, FinishEncode, Helper, Whole
    <3>3. ASSUME NEW success \in BOOLEAN, FinishDecode(success) PROVE TypeOK'
      BY <2>2, <3>3 DEF CoreStep, FinishDecode
    <3>4. CASE FinishKdf
      BY <2>2, <3>4 DEF CoreStep, FinishKdf
    <3>5. ASSUME NEW c \in Cores, Hang(c) PROVE TypeOK'
      BY <2>2, <3>5 DEF CoreStep, Hang
    <3>6. QED BY <2>2, <3>1, <3>2, <3>3, <3>4, <3>5 DEF CoreStep
  <2>3. CASE KemStep
    BY <2>3 DEF KemStep, Kem!Complete, sysVars, cpuVars
  <2>4. CASE HostByte
    BY <2>4, AppendProperties DEF HostByte, sysVars, kemVars, cpuVars
  <2>5. CASE UNCHANGED vars
    BY <2>5 DEF vars, sysVars, kemVars, cpuVars
  <2>6. QED BY <2>1, <2>2, <2>3, <2>4, <2>5 DEF Next
<1>3. QED BY <1>1, <1>2, PTL DEF Spec

--------------------------------------------------------------------------------
(***************************************************************************)
(* Secrets are erased.  The property is inductive as it stands: only the   *)
(* KEM stage loads seeds or launches, and each of its exits zeroizes.      *)
(***************************************************************************)

\* Outside its KEM stage the firmware leaves the peripheral's registers alone
\* and they stay cleared, because a core that was never launched cannot finish.
THEOREM SecretsErasedAlways == Spec => []SecretsErased
<1>1. Init => SecretsErased
  BY DEF Init, SecretsErased, Kem!KemInit
<1>2. SecretsErased /\ [Next]_vars => SecretsErased'
  <2> SUFFICES ASSUME SecretsErased, [Next]_vars PROVE SecretsErased'
    OBVIOUS
  <2> USE DEF SecretsErased, KemStages, Kem!KemInit
  <2>1. CASE FirmwareStep
    <3> USE DEF Goto, Fail, kemVars
    <3>1. CASE FailZeroize BY <3>1 DEF FailZeroize, Kem!Zeroize
    <3>2. CASE ReconZeroize BY <3>2 DEF ReconZeroize, Kem!Zeroize
    <3>3. CASE ReconSeed BY <3>3 DEF ReconSeed
    <3>4. CASE ReconParam BY <3>4 DEF ReconParam
    <3>5. CASE ReconLaunch BY <3>5 DEF ReconLaunch
    <3>6. CASE Boot \/ FailReport \/ Info \/ UnknownCommand \/ Enroll \/ Recon
      BY <3>6 DEF Boot, FailReport, Info, UnknownCommand, Enroll, Recon, ReadCommand
    <3>7. CASE EnrollPuf \/ EnrollPufDone \/ EnrollPufTimeout \/ EnrollFe
               \/ EnrollFeDone \/ EnrollFeTimeout \/ EnrollSend
      BY <3>7 DEF EnrollPuf, EnrollPufDone, EnrollPufTimeout, EnrollFe, EnrollFeDone,
                  EnrollFeTimeout, EnrollSend, Await, Expire, ErrPufTimeout,
                  ErrFeTimeout, ErrKyberConfig, ErrKyberTimeout, ErrKeyMismatch
    <3>8. CASE ReadHelperByte \/ HelperTimeout \/ ReconPuf \/ ReconPufDone
               \/ ReconPufTimeout \/ ReconFe \/ ReconFeDone \/ ReconFeTimeout
               \/ ReconFeAccept \/ ReconFeReject
      BY <3>8 DEF ReadHelperByte, HelperTimeout, ReconPuf, ReconPufDone, ReconPufTimeout,
                  ReconFe, ReconFeDone, ReconFeTimeout, ReconFeAccept, ReconFeReject,
                  Await, Expire, ErrUartTimeout, ErrPufTimeout, ErrFeTimeout, ErrFeDecode,
                  ErrKyberConfig, ErrKyberTimeout, ErrKeyMismatch
    <3>9. CASE ReconKdf \/ ReconKdfDone \/ ReconKdfTimeout
      BY <3>9 DEF ReconKdf, ReconKdfDone, ReconKdfTimeout, Await, Expire, ErrKdfTimeout,
                  ErrKyberConfig, ErrKyberTimeout, ErrKeyMismatch
    <3>10. CASE ReconParamOk \/ ReconConfigError \/ ReconKemDone \/ ReconKemTimeout
                \/ ReconMismatch \/ ReconSuccess
      BY <3>10 DEF ReconParamOk, ReconConfigError, ReconKemDone, ReconKemTimeout,
                   ReconMismatch, ReconSuccess
    <3>11. QED
      BY <2>1, <3>1, <3>2, <3>3, <3>4, <3>5, <3>6, <3>7, <3>8, <3>9, <3>10
      DEF FirmwareStep
  <2>2. CASE CoreStep BY <2>2 DEF CoreStep, kemVars, cpuVars
  <2>3. CASE KemStep BY <2>3 DEF KemStep, Kem!Complete, cpuVars
  <2>4. CASE HostByte BY <2>4 DEF HostByte, kemVars, cpuVars
  <2>5. CASE UNCHANGED vars BY <2>5 DEF vars, kemVars, cpuVars
  <2>6. QED BY <2>1, <2>2, <2>3, <2>4, <2>5 DEF Next
<1>3. QED BY <1>1, <1>2, PTL DEF Spec

--------------------------------------------------------------------------------
(***************************************************************************)
(* When no core answers after its watchdog expired, everything a command   *)
(* uses was made for that command.  The argument is PipelineInv: at each   *)
(* stage, what the stages after it will read already is of this            *)
(* transaction.                                                            *)
(***************************************************************************)
\* A received byte changes none of the words received before it.
LEMMA SliceOfAppend ==
  ASSUME NEW bytes \in Seq(Byte), NEW b \in Byte, NEW w \in 0 .. NumWords,
         w * BytesPerWord + BytesIn(w) <= Len(bytes)
  PROVE  Slice(Append(bytes, b), w) = Slice(bytes, w)
<1> DEFINE m == w * BytesPerWord + 1
           n == w * BytesPerWord + BytesIn(w)
           longer == Append(bytes, b)
<1>1. m \in Nat /\ n \in Nat /\ m >= 1 /\ n <= Len(bytes)
  BY BytesInPositive, HelperShape, WordShape
<1>2. /\ longer \in Seq(Byte)
      /\ Len(longer) = Len(bytes) + 1
      /\ \A i \in 1 .. Len(bytes) : longer[i] = bytes[i]
  BY AppendProperties
<1> HIDE DEF m, n, longer
<1>3. \A i \in m .. n : i \in 1 .. Len(bytes) /\ i \in 1 .. Len(longer)
  BY <1>1, <1>2, LenProperties
<1>4. SubSeq(longer, m, n) = SubSeq(bytes, m, n)
  BY <1>1, <1>2, <1>3
<1>5. QED BY <1>4 DEF Slice, m, n, longer

\* Words lie one after the other in the bytes received.
LEMMA WordsInOrder ==
  ASSUME NEW w \in 0 .. NumWords, NEW v \in 0 .. w - 1
  PROVE  /\ v \in 0 .. NumWords
         /\ BytesIn(v) = BytesPerWord
         /\ v * BytesPerWord + BytesIn(v) <= w * BytesPerWord
<1>1. v \in 0 .. NumWords /\ v < NumWords /\ v + 1 <= w
  BY HelperShape, WordShape
<1>2. BytesIn(v) = BytesPerWord
  BY <1>1, HelperShape, WordShape DEF BytesIn
<1>3. (v + 1) * BytesPerWord <= w * BytesPerWord
  BY <1>1, HelperShape, WordShape
<1>4. (v + 1) * BytesPerWord = v * BytesPerWord + BytesPerWord
  BY <1>1, HelperShape, WordShape
<1>5. QED BY <1>1, <1>2, <1>3, <1>4

--------------------------------------------------------------------------------
LEMMA PipelineInit == Init => PipelineInv
BY DEF Init, SysInit, PipelineInv, CoreInv, HelperInv, Measured, Encoded, Decoded,
       Derived, Seeded, Waits, Cores

\* Bytes from the host change nothing but the FIFO, a core that finishes only
\* turns "is working on" into "has answered", a KEM that finishes changes only
\* the status bits.
LEMMA PipelineHardware ==
  ASSUME TypeOK, PipelineInv, CoreStep \/ KemStep \/ HostByte \/ UNCHANGED vars
  PROVE  PipelineInv'
<1>0. FreshJob' = FreshJob /\ HelperOf(fed)' = HelperOf(fed)
  BY DEF CoreStep, KemStep, HostByte, vars, cpuVars, FreshJob, HelperOf, Slice
<1>1. CASE KemStep \/ HostByte \/ UNCHANGED vars
  <2>1. UNCHANGED <<latched, core, measuring, response, helperReg, job, keyOut, kdfJob,
                    kdfOut, seed, pc, word, txn, krun, fed>>
    BY <1>1 DEF KemStep, Kem!Complete, HostByte, vars, sysVars, kemVars, cpuVars
  <2>2. CoreInv' /\ Measured' /\ Encoded'
    BY <2>1 DEF PipelineInv, CoreInv, Measured, Encoded, Encoding
  <2>3. HelperInv'
    BY <1>0, <2>1 DEF PipelineInv, HelperInv, Slice, BytesIn
  <2>4. Decoded' /\ Derived' /\ Seeded'
    BY <1>0, <2>1 DEF PipelineInv, Decoded, Derived, Seeded
  <2>5. QED BY <2>2, <2>3, <2>4 DEF PipelineInv
<1>2. CASE CoreStep
  <2> USE DEF TypeOK, SysTypeOK, PipelineInv
  <2>0. /\ UNCHANGED <<helperReg, measuring, job, kdfJob>>
        /\ UNCHANGED <<pc, word, fed, txn, seed, krun>>
    BY <1>2 DEF CoreStep, FinishPuf, FinishEncode, FinishDecode, FinishKdf, Hang,
                kemVars, cpuVars
  <2>1. CoreInv'
    BY <1>2, <2>0 DEF CoreStep, FinishPuf, FinishEncode, FinishDecode, FinishKdf, Hang,
                      CoreInv, Cores
  <2>2. HelperInv' /\ Seeded'
    BY <1>0, <2>0 DEF HelperInv, Seeded, Slice, BytesIn
  <2>3. Measured'
    BY <1>2, <2>0 DEF CoreStep, FinishPuf, FinishEncode, FinishDecode, FinishKdf, Hang,
                      CoreInv, Cores, Measured, Waits
  <2>4. Encoded'
    BY <1>2, <2>0 DEF CoreStep, FinishPuf, FinishEncode, FinishDecode, FinishKdf, Hang,
                      CoreInv, Cores, Encoded, Encoding, Waits
  <2>5. Decoded'
    BY <1>0, <1>2, <2>0
    DEF CoreStep, FinishPuf, FinishEncode, FinishDecode, FinishKdf, Hang,
        CoreInv, Cores, Decoded, Waits
  <2>6. Derived'
    BY <1>0, <1>2, <2>0
    DEF CoreStep, FinishPuf, FinishEncode, FinishDecode, FinishKdf, Hang,
        CoreInv, Cores, Derived, Waits
  <2>7. QED BY <2>1, <2>2, <2>3, <2>4, <2>5, <2>6
<1>3. QED BY <1>1, <1>2

\* A watchdog that expires leaves nothing behind: the core it gave up hangs.
LEMMA PipelineExpire ==
  ASSUME TypeOK, PipelineInv, LateCores = {},
         NEW c \in Cores, NEW from \in Waits(c), NEW err, Expire(c, from, err)
  PROVE  PipelineInv'
<1>1. pc' \in {"fail", "fail_kem"} /\ UNCHANGED sysVars /\ core[c] = "hung"
  BY DEF Expire, Fail, Goto, Watchdog
<1>2. \A d \in Cores : core[d] # "run"
  BY <1>1 DEF Expire, Fail, Goto, PipelineInv, CoreInv, Waits, Cores
<1>3. QED
  BY <1>1, <1>2
  DEF PipelineInv, CoreInv, HelperInv, Measured, Encoded, Decoded, Derived, Seeded,
      Waits, Cores, sysVars

LEMMA PipelineHelper ==
  ASSUME TypeOK, PipelineInv, ReadHelperByte
  PROVE  PipelineInv'
<1> USE DEF TypeOK, SysTypeOK
<1> DEFINE complete == Len(fed') = word * BytesPerWord + BytesIn(word)
<1>1. /\ Head(rx) \in Byte /\ fed' = Append(fed, Head(rx)) /\ fed' \in Seq(Byte)
      /\ Len(fed') = Len(fed) + 1
      /\ Len(fed) \in Nat
  BY HeadTailProperties, AppendProperties, LenProperties DEF ReadHelperByte
<1>2. /\ word * BytesPerWord <= Len(fed)
      /\ Len(fed) < word * BytesPerWord + BytesIn(word)
      /\ \A w \in 0 .. word - 1 : helperReg[w] = Slice(fed, w)
  BY DEF ReadHelperByte, PipelineInv, HelperInv
<1>3. /\ word \in Nat /\ word * BytesPerWord \in Nat /\ BytesIn(word) \in Nat \ {0}
      /\ NumWords \in Nat /\ BytesPerWord \in Nat \ {0}
  BY HelperShape, WordShape, BytesInPositive
<1>4. \A w \in 0 .. word - 1 : helperReg[w] = Slice(fed', w)
  <2> TAKE w \in 0 .. word - 1
  <2>1. w \in 0 .. NumWords /\ w * BytesPerWord + BytesIn(w) <= Len(fed)
    <3>1. w * BytesPerWord + BytesIn(w) <= word * BytesPerWord /\ w \in 0 .. NumWords
      BY WordsInOrder
    <3>2. w * BytesPerWord + BytesIn(w) \in Nat
      BY <3>1, BytesInPositive, <1>3
    <3>3. QED BY <3>1, <3>2, <1>1, <1>2, <1>3
  <2>2. Slice(Append(fed, Head(rx)), w) = Slice(fed, w)
    BY <2>1, <1>1, SliceOfAppend
  <2>3. QED BY <2>2, <1>1, <1>2
<1>5. CoreInv' /\ Measured' /\ Encoded' /\ Decoded' /\ Derived' /\ Seeded'
  BY DEF ReadHelperByte, WriteHelper, PipelineInv, CoreInv, Measured, Encoded, Decoded,
         Derived, Seeded, Waits, Cores, sysVars
<1>6. HelperInv'
  <2>1. CASE ~complete
    <3>1. UNCHANGED <<pc, word, helperReg>>
      BY <2>1 DEF ReadHelperByte, sysVars
    <3>2. Len(fed') < word * BytesPerWord + BytesIn(word)
      BY <2>1, <1>1, <1>2, <1>3
    <3>3. QED
      BY <3>1, <3>2, <1>1, <1>2, <1>3, <1>4 DEF ReadHelperByte, HelperInv, BytesIn
  <2>2. CASE complete /\ word # NumWords
    <3>1. /\ pc' = "recon_helper" /\ word' = word + 1 /\ word + 1 \in 0 .. NumWords
          /\ helperReg' = [helperReg EXCEPT ![word] = Slice(fed', word)]
      BY <2>2, <1>3 DEF ReadHelperByte, WriteHelper
    <3>2. (word + 1) * BytesPerWord = Len(fed')
      BY <2>2, <1>3 DEF BytesIn
    <3>3. BytesIn(word + 1) \in Nat \ {0}
      BY <3>1, BytesInPositive
    <3>4. \A w \in 0 .. word : helperReg'[w] = Slice(fed', w)
      BY <3>1, <1>3, <1>4 DEF Helper
    <3>5. BytesIn(word)' = BytesIn(word + 1)
      BY <3>1 DEF BytesIn
    <3>6. (word * BytesPerWord)' = Len(fed') /\ Len(fed') < Len(fed') + BytesIn(word + 1)
      BY <3>1, <3>2, <3>3, <1>1
    <3>7. (\A w \in 0 .. word - 1 : helperReg[w] = Slice(fed, w))'
      BY <3>1, <3>4, <1>3 DEF Slice, BytesIn
    <3>8. QED BY <3>1, <3>5, <3>6, <3>7, <1>1 DEF HelperInv
  <2>3. CASE complete /\ word = NumWords
    <3>1. pc' = "recon_puf" /\ helperReg' = [helperReg EXCEPT ![word] = Slice(fed', word)]
      BY <2>3 DEF ReadHelperByte, WriteHelper
    <3>2. \A w \in 0 .. NumWords : helperReg'[w] = Slice(fed', w)
      BY <3>1, <2>3, <1>3, <1>4 DEF Helper
    <3>3. helperReg' = HelperOf(fed')
      BY <3>1, <3>2 DEF Helper, HelperOf
    <3>4. HelperOf(fed)' = HelperOf(fed')
      BY DEF HelperOf, Slice
    <3>5. QED BY <3>1, <3>3, <3>4 DEF HelperInv
  <2>4. QED BY <2>1, <2>2, <2>3
<1>7. QED BY <1>5, <1>6 DEF PipelineInv

--------------------------------------------------------------------------------
LEMMA PipelineFirmware ==
  ASSUME TypeOK, PipelineInv, LateCores = {}, FirmwareStep
  PROVE  PipelineInv'
<1> USE DEF TypeOK, SysTypeOK, Goto, Local, Quiet
<1>1. CASE Boot \/ FailZeroize \/ FailReport \/ Info \/ UnknownCommand \/ Enroll
  <2>1. /\ pc \in {"boot", "fail_kem", "fail", "cmd"}
        /\ pc' \in {"cmd", "fail", "enroll_puf"}
        /\ UNCHANGED sysVars
        /\ pc # "fail_kem" => UNCHANGED seed
    BY <1>1 DEF Boot, FailZeroize, FailReport, Info, UnknownCommand, Enroll, ReadCommand,
                kemVars
  <2>2. QED
    BY <2>1 DEF PipelineInv, CoreInv, HelperInv, Measured, Encoded, Decoded, Derived,
                Seeded, Waits, Cores, sysVars
<1>2. CASE Recon
  <2>1. /\ pc = "cmd" /\ pc' = "recon_helper" /\ word' = 0 /\ fed' = << >>
        /\ UNCHANGED sysVars
    BY <1>2 DEF Recon, ReadCommand
  <2>2. Len(fed') = 0 /\ word' * BytesPerWord = 0 /\ BytesIn(word)' \in Nat \ {0}
    BY <2>1, BytesInPositive, HelperShape, WordShape DEF BytesIn
  <2>3. HelperInv'
    BY <2>1, <2>2 DEF HelperInv
  <2>4. QED
    BY <2>1, <2>3 DEF PipelineInv, CoreInv, Measured, Encoded, Decoded, Derived,
                      Seeded, Waits, Cores, sysVars
<1>3. CASE EnrollPufTimeout \/ EnrollFeTimeout \/ ReconPufTimeout \/ ReconFeTimeout
           \/ ReconKdfTimeout
  BY <1>3, PipelineExpire
  DEF EnrollPufTimeout, EnrollFeTimeout, ReconPufTimeout, ReconFeTimeout,
      ReconKdfTimeout, Waits, Cores
<1>4. CASE HelperTimeout \/ ReconFeReject \/ ReconConfigError \/ ReconKemTimeout
           \/ ReconMismatch \/ ReconZeroize
  <2>1. /\ pc \in {"recon_helper", "recon_fe_check", "recon_param_check",
                   "recon_kem_wait", "recon_match", "recon_zeroize"}
        /\ pc' \in {"cmd", "fail", "fail_kem"}
        /\ UNCHANGED sysVars
    BY <1>4 DEF HelperTimeout, ReconFeReject, ReconConfigError, ReconKemTimeout,
                ReconMismatch, ReconZeroize, Fail
  <2>2. QED
    BY <2>1 DEF PipelineInv, CoreInv, HelperInv, Measured, Encoded, Decoded, Derived,
                Seeded, Waits, Cores, sysVars
<1>5. CASE ReadHelperByte BY <1>5, PipelineHelper
<1>6. CASE EnrollPuf \/ ReconPuf
  <2>1. /\ \/ pc = "enroll_puf" /\ pc' = "enroll_puf_wait"
           \/ pc = "recon_puf" /\ pc' = "recon_puf_wait"
        /\ UNCHANGED <<txn, fed, helperReg, job, keyOut, kdfJob, kdfOut>>
        /\ StartPuf(txn)
    BY <1>6 DEF EnrollPuf, ReconPuf, StartPuf
  <2>2. HelperOf(fed)' = HelperOf(fed)
    BY <2>1 DEF HelperOf, Slice
  <2>3. CoreInv' /\ Measured'
    BY <2>1 DEF PipelineInv, CoreInv, Measured, StartPuf, Start, Waits, Cores
  <2>4. HelperInv'
    BY <2>1, <2>2 DEF PipelineInv, HelperInv
  <2>5. QED
    BY <2>1, <2>3, <2>4 DEF PipelineInv, Encoded, Decoded, Derived, Seeded
<1>7. CASE EnrollFe \/ ReconFe
  <2>1. /\ \/ pc = "enroll_fe" /\ pc' = "enroll_fe_wait" /\ StartFe("enc")
           \/ pc = "recon_fe" /\ pc' = "recon_fe_wait" /\ StartFe("dec")
        /\ UNCHANGED <<txn, fed>>
        /\ latched' = {} /\ core["fe"] # "run"
    BY <1>7 DEF EnrollFe, ReconFe, StartFe, Start, PipelineInv, CoreInv, Waits, Cores
  <2>2. FreshJob' = FreshJob
    BY <2>1 DEF FreshJob, HelperOf, Slice
  <2>3. CoreInv'
    BY <2>1 DEF PipelineInv, CoreInv, StartFe, Start, Waits, Cores
  <2>4. Encoded'
    BY <2>1 DEF PipelineInv, Measured, Encoded, Encoding, StartFe, Start, Cores
  <2>5. Decoded'
    BY <2>1, <2>2
    DEF PipelineInv, Measured, HelperInv, Decoded, FreshJob, StartFe, Start, Cores
  <2>6. QED
    BY <2>1, <2>3, <2>4, <2>5 DEF PipelineInv, HelperInv, Measured, Derived, Seeded, Waits
<1>8. CASE ReconKdf
  <2>1. /\ pc = "recon_kdf" /\ pc' = "recon_kdf_wait" /\ StartKdf
        /\ UNCHANGED <<txn, fed>>
        /\ latched' = {} /\ core["kdf"] # "run"
    BY <1>8 DEF ReconKdf, StartKdf, Start, PipelineInv, CoreInv, Waits, Cores
  <2>2. FreshJob' = FreshJob
    BY <2>1 DEF FreshJob, HelperOf, Slice
  <2>3. CoreInv'
    BY <2>1 DEF PipelineInv, CoreInv, StartKdf, Start, Waits, Cores
  <2>4. Derived'
    BY <2>1, <2>2 DEF PipelineInv, Decoded, Derived, StartKdf, Start, Cores
  <2>5. QED
    BY <2>1, <2>3, <2>4
    DEF PipelineInv, HelperInv, Measured, Encoded, Decoded, Seeded, Waits
<1>9. CASE EnrollPufDone \/ ReconPufDone \/ ReconFeDone \/ ReconFeAccept \/ ReconKdfDone
  <2>1. /\ \/ pc = "enroll_puf_wait" /\ pc' = "enroll_fe" /\ "puf" \in latched
           \/ pc = "recon_puf_wait" /\ pc' = "recon_fe" /\ "puf" \in latched
           \/ pc = "recon_fe_wait" /\ pc' = "recon_fe_check" /\ "fe" \in latched
           \/ pc = "recon_fe_check" /\ pc' = "recon_kdf"
           \/ pc = "recon_kdf_wait" /\ pc' = "recon_seed" /\ "kdf" \in latched
        /\ UNCHANGED <<sysVars, txn, fed>>
    BY <1>9 DEF EnrollPufDone, ReconPufDone, ReconFeDone, ReconFeAccept, ReconKdfDone,
                Await, Ready
  <2>2. FreshJob' = FreshJob /\ HelperOf(fed)' = HelperOf(fed)
    BY <2>1 DEF FreshJob, HelperOf, Slice
  <2>3. CoreInv'
    BY <2>1 DEF PipelineInv, CoreInv, Waits, Cores, sysVars
  <2>4. HelperInv' /\ Measured' /\ Encoded' /\ Seeded'
    BY <2>1, <2>2 DEF PipelineInv, HelperInv, Measured, Encoded, Seeded, Waits, sysVars
  <2>5. Decoded' /\ Derived'
    BY <2>1, <2>2 DEF PipelineInv, Decoded, Derived, sysVars
  <2>6. QED BY <2>3, <2>4, <2>5 DEF PipelineInv
<1>10. CASE EnrollFeDone \/ EnrollSend
  <2>1. /\ \/ pc = "enroll_fe_wait" /\ pc' = "enroll_send" /\ "fe" \in latched
           \/ pc = "enroll_send" /\ pc' \in {"enroll_send", "cmd"}
        /\ UNCHANGED <<sysVars, txn>>
    BY <1>10 DEF EnrollFeDone, EnrollSend, Ready
  <2>2. CoreInv'
    BY <2>1 DEF PipelineInv, CoreInv, Waits, Cores, sysVars
  <2>3. Encoded'
    BY <2>1 DEF PipelineInv, Encoded, Encoding, sysVars
  <2>4. QED
    BY <2>1, <2>2, <2>3 DEF PipelineInv, HelperInv, Measured, Decoded, Derived, Seeded, Waits
<1>11. CASE ReconSeed \/ ReconParam \/ ReconParamOk \/ ReconLaunch \/ ReconKemDone
            \/ ReconSuccess
  <2>1. /\ \/ pc = "recon_seed" /\ pc' = "recon_param" /\ seed' = kdfOut
           \/ pc = "recon_param" /\ pc' = "recon_param_check" /\ seed' = seed
           \/ pc = "recon_param_check" /\ pc' = "recon_launch" /\ seed' = seed
           \/ pc = "recon_launch" /\ pc' = "recon_kem_wait" /\ krun' = seed
           \/ pc = "recon_kem_wait" /\ pc' = "recon_match" /\ krun' = krun
           \/ pc = "recon_match" /\ pc' = "recon_zeroize" /\ krun' = krun
        /\ UNCHANGED <<sysVars, txn, fed>>
    BY <1>11 DEF ReconSeed, ReconParam, ReconParamOk, ReconLaunch, ReconKemDone,
                 ReconSuccess, Kem!WriteSeed, Kem!WriteParam, kemVars
  <2>2. FreshJob' = FreshJob
    BY <2>1 DEF FreshJob, HelperOf, Slice
  <2>3. CoreInv'
    BY <2>1 DEF PipelineInv, CoreInv, Waits, Cores, sysVars
  <2>4. Seeded'
    BY <2>1, <2>2 DEF PipelineInv, Derived, Seeded
  <2>5. QED
    BY <2>1, <2>3, <2>4
    DEF PipelineInv, HelperInv, Measured, Encoded, Decoded, Derived, Waits
<1>12. QED
  BY <1>1, <1>2, <1>3, <1>4, <1>5, <1>6, <1>7, <1>8, <1>9, <1>10, <1>11 DEF FirmwareStep

\* Without late cores the pipeline invariant holds in every state.
THEOREM PipelineAlways ==
  ASSUME LateCores = {}
  PROVE  Spec => []PipelineInv
<1>1. TypeOK /\ PipelineInv /\ [Next]_vars => PipelineInv'
  BY PipelineHardware, PipelineFirmware DEF Next
<1>2. QED BY <1>1, PipelineInit, TypeCorrect, PTL DEF Spec

\* The KEM that is judged ran on the key decoded in this transaction, from a
\* measurement made and helper bytes received in this transaction.
THEOREM KeyIsFreshAlways ==
  ASSUME LateCores = {}
  PROVE  Spec => []KeyIsFresh
<1>1. PipelineInv => KeyIsFresh
  BY DEF PipelineInv, Seeded, KeyIsFresh
<1>2. QED BY <1>1, PipelineAlways, PTL

\* The helper data returned by ENROLL masks a measurement made for it.
THEOREM EnrolmentIsFreshAlways ==
  ASSUME LateCores = {}
  PROVE  Spec => []EnrolmentIsFresh
<1>1. PipelineInv => EnrolmentIsFresh
  BY DEF PipelineInv, Encoded, Encoding, EnrolmentIsFresh
<1>2. QED BY <1>1, PipelineAlways, PTL

--------------------------------------------------------------------------------
(***************************************************************************)
(* The seeds of a running KEM.                                             *)
(***************************************************************************)
\* A KEM runs on loaded seeds, and from the seed write to the launch the
\* registers hold a key.
LoadedInv ==
  /\ busy => seed \in Job
  /\ pc \in {"recon_param", "recon_param_check", "recon_launch"} => seed \in Job

LEMMA LoadedAlways == Spec => []LoadedInv
<1>1. Init => LoadedInv
  BY DEF Init, Kem!KemInit, LoadedInv
<1>2. TypeOK /\ SecretsErased /\ LoadedInv /\ [Next]_vars => LoadedInv'
  <2> SUFFICES ASSUME TypeOK, SecretsErased, LoadedInv, [Next]_vars PROVE LoadedInv'
    OBVIOUS
  <2> USE DEF LoadedInv
  <2>1. CASE FailZeroize \/ ReconZeroize
    BY <2>1 DEF FailZeroize, ReconZeroize, Kem!Zeroize, Goto
  <2>2. CASE ReconSeed
    BY <2>2 DEF ReconSeed, Kem!WriteSeed, Goto, TypeOK, SysTypeOK
  <2>3. CASE ReconParam
    BY <2>3 DEF ReconParam, Kem!WriteParam, Goto
  <2>4. CASE ReconLaunch
    BY <2>4 DEF ReconLaunch, Kem!Launch, Kem!kemVars, Goto
  <2>5. CASE KemStep
    BY <2>5 DEF KemStep, Kem!Complete, cpuVars
  <2>6. ASSUME UNCHANGED kemVars,
               pc' \in {"recon_param", "recon_param_check", "recon_launch"} =>
                 pc \in {"recon_param", "recon_param_check", "recon_launch"}
        PROVE  LoadedInv'
    BY <2>6 DEF kemVars
  <2>7. CASE FirmwareStep /\ ~(FailZeroize \/ ReconZeroize \/ ReconSeed \/ ReconParam
                               \/ ReconLaunch)
    <3> USE DEF Goto, Fail, Await, Expire
    <3>1. CASE Boot \/ FailReport \/ Info \/ UnknownCommand \/ Enroll \/ Recon
      BY <2>6, <3>1 DEF Boot, FailReport, Info, UnknownCommand, Enroll, Recon, ReadCommand
    <3>2. CASE EnrollPuf \/ EnrollPufDone \/ EnrollPufTimeout \/ EnrollFe
               \/ EnrollFeDone \/ EnrollFeTimeout \/ EnrollSend
      BY <2>6, <3>2 DEF EnrollPuf, EnrollPufDone, EnrollPufTimeout, EnrollFe,
                        EnrollFeDone, EnrollFeTimeout, EnrollSend
    <3>3. CASE ReadHelperByte \/ HelperTimeout \/ ReconPuf \/ ReconPufDone
               \/ ReconPufTimeout \/ ReconFe \/ ReconFeDone \/ ReconFeTimeout
               \/ ReconFeAccept \/ ReconFeReject
      BY <2>6, <3>3 DEF ReadHelperByte, HelperTimeout, ReconPuf, ReconPufDone,
                        ReconPufTimeout, ReconFe, ReconFeDone, ReconFeTimeout,
                        ReconFeAccept, ReconFeReject
    <3>4. CASE ReconKdf \/ ReconKdfDone \/ ReconKdfTimeout
      BY <2>6, <3>4 DEF ReconKdf, ReconKdfDone, ReconKdfTimeout
    <3>5. CASE ReconParamOk \/ ReconConfigError \/ ReconKemDone \/ ReconKemTimeout
               \/ ReconMismatch \/ ReconSuccess
      BY <2>6, <3>5 DEF ReconParamOk, ReconConfigError, ReconKemDone, ReconKemTimeout,
                        ReconMismatch, ReconSuccess
    <3>6. QED BY <2>7, <3>1, <3>2, <3>3, <3>4, <3>5 DEF FirmwareStep
  <2>8. CASE CoreStep \/ HostByte \/ UNCHANGED vars
    BY <2>6, <2>8 DEF CoreStep, HostByte, vars, cpuVars
  <2>9. QED BY <2>1, <2>2, <2>3, <2>4, <2>5, <2>7, <2>8 DEF Next
<1>3. QED BY <1>1, <1>2, TypeCorrect, SecretsErasedAlways, PTL DEF Spec

\* Nothing but a zeroize changes the seeds while a KEM runs.
THEOREM SeedsHeldAlways == Spec => SeedsHeldWhileBusy
<1>1. SecretsErased /\ LoadedInv /\ [Next]_vars
        => [busy /\ busy' => seed # Zero /\ seed' = seed]_vars
  <2> SUFFICES ASSUME SecretsErased, LoadedInv, Next, busy, busy'
               PROVE  seed # Zero /\ seed' = seed
    OBVIOUS
  <2>1. seed # Zero
    BY FirmwareAssumption DEF LoadedInv
  <2>2. pc # "recon_seed"
    BY DEF SecretsErased, KemStages, Kem!KemInit
  <2>3. CASE FirmwareStep
    <3>1. ~FailZeroize /\ ~ReconZeroize /\ ~ReconSeed
      BY <2>2 DEF FailZeroize, ReconZeroize, ReconSeed, Kem!Zeroize, Goto
    <3>2. CASE ReconParam
      BY <2>1, <3>2 DEF ReconParam, Kem!WriteParam
    <3>3. CASE ReconLaunch
      BY <2>1, <3>3 DEF ReconLaunch, Kem!Launch, Kem!kemVars
    <3>4. CASE ~ReconParam /\ ~ReconLaunch
      <4>1. UNCHANGED kemVars
        BY <2>3, <3>1, <3>4
        DEF FirmwareStep, Await, Expire, Boot, FailReport, Info, UnknownCommand,
            Enroll, Recon, ReadCommand, EnrollPuf, EnrollPufDone, EnrollPufTimeout,
            EnrollFe, EnrollFeDone, EnrollFeTimeout, EnrollSend, ReadHelperByte,
            HelperTimeout, ReconPuf, ReconPufDone, ReconPufTimeout, ReconFe, ReconFeDone,
            ReconFeTimeout, ReconFeAccept, ReconFeReject, ReconKdf, ReconKdfDone,
            ReconKdfTimeout, ReconParamOk, ReconConfigError, ReconKemDone,
            ReconKemTimeout, ReconMismatch, ReconSuccess
      <4>2. QED BY <4>1, <2>1 DEF kemVars
    <3>5. QED BY <3>2, <3>3, <3>4
  <2>4. CASE CoreStep \/ KemStep \/ HostByte
    <3>1. UNCHANGED seed
      BY <2>4 DEF CoreStep, KemStep, HostByte, Kem!Complete, kemVars
    <3>2. QED BY <3>1, <2>1
  <2>5. QED BY <2>1, <2>3, <2>4 DEF Next
<1>2. QED
  BY <1>1, SecretsErasedAlways, LoadedAlways, PTL DEF Spec, SeedsHeldWhileBusy

--------------------------------------------------------------------------------
(***************************************************************************)
(* The firmware with its hardware implements UartProtocol, for every shape *)
(* of the helper data, every FIFO depth and every host, also when a core   *)
(* answers after its watchdog expired: a late answer can be taken for that *)
(* of another start, but not show on the line.  A register access is       *)
(* either invisible there or one step of the protocol.                     *)
(***************************************************************************)
\* How many bytes of the reply are out at each stage: the protocol tells its stages
\* apart by that number, the firmware by its program counter.
RepliedInv ==
  /\ pc = "recon_helper" => Len(resp) = word + 1
  /\ pc \in {"recon_puf", "recon_puf_wait"} => Len(resp) = NumWords + 3
  /\ pc \in {"recon_fe", "recon_fe_wait"} => Len(resp) = NumWords + 4
  /\ pc = "recon_fe_check" => Len(resp) = NumWords + 5
  /\ pc \in {"recon_kdf", "recon_kdf_wait"} => Len(resp) = NumWords + 6
  /\ pc \in {"recon_seed", "recon_param", "recon_param_check", "recon_launch",
             "recon_kem_wait", "recon_match"} => Len(resp) = NumWords + 8

\* The word being received is incomplete.
CountInv ==
  pc = "recon_helper" =>
    /\ word * BytesPerWord <= Len(fed)
    /\ Len(fed) < word * BytesPerWord + BytesIn(word)

\* A core whose answer is on record has stopped, so the helper data that is being
\* sent stays what it is.
AnswerInv ==
  /\ \A c \in Cores : c \in latched => core[c] = "idle"
  /\ pc = "enroll_send" => core["fe"] = "idle"

LineInv == RepliedInv /\ CountInv /\ AnswerInv

LEMMA SentLength ==
  ASSUME TypeOK, NEW a \in 0 .. 255, NEW b \in 0 .. 255
  PROVE  /\ Len(resp \o <<a>>) = Len(resp) + 1
         /\ Len(resp \o <<a, b>>) = Len(resp) + 2
         /\ resp \o << >> = resp
         /\ Len(resp) \in Nat
<1>1. resp \in Seq(0 .. 255)
  BY DEF TypeOK
<1>2. <<a>> \in Seq(0 .. 255) /\ Len(<<a>>) = 1
  OBVIOUS
<1>3. <<a, b>> \in Seq(0 .. 255) /\ Len(<<a, b>>) = 2
  OBVIOUS
<1>4. resp \o << >> = resp
  BY <1>1, ConcatEmptySeq
<1>5. QED BY <1>1, <1>2, <1>3, <1>4, ConcatProperties, LenProperties

LEMMA RepliedStep == ASSUME TypeOK, RepliedInv, [Next]_vars PROVE RepliedInv'
<1> USE DEF Goto, Quiet, Local, Send
<1>0. word \in 0 .. NumWords /\ NumWords \in Nat
  BY WordShape DEF TypeOK
<1>1. CASE FirmwareStep
  <2>1. CASE FailZeroize \/ FailReport \/ Boot \/ Info \/ UnknownCommand \/ Enroll
    BY <2>1 DEF FailZeroize, FailReport, Boot, Info, UnknownCommand, Enroll, ReadCommand,
                RepliedInv
  <2>2. CASE Recon
    <3>1. Len(<<HelperRequest>>) = 1
      OBVIOUS
    <3>2. QED BY <2>2, <3>1 DEF Recon, RepliedInv
  <2>3. CASE EnrollPuf \/ EnrollPufDone \/ EnrollPufTimeout \/ EnrollFe
             \/ EnrollFeDone \/ EnrollFeTimeout \/ EnrollSend
    BY <2>3 DEF EnrollPuf, EnrollPufDone, EnrollPufTimeout, EnrollFe, EnrollFeDone,
                EnrollFeTimeout, EnrollSend, Await, Expire, Fail, RepliedInv
  <2>4. CASE ReadHelperByte
    <3>1. /\ Len(resp \o <<Ack(word)>>) = Len(resp) + 1
          /\ Len(resp \o <<Ack(word), Marker(1)>>) = Len(resp) + 2
          /\ Len(resp) \in Nat
      BY <1>0, ReplyBytes, SentLength
    <3>2. QED BY <1>0, <2>4, <3>1 DEF ReadHelperByte, RepliedInv
  <2>5. CASE HelperTimeout \/ ReconPufTimeout \/ ReconFeTimeout \/ ReconFeReject
             \/ ReconKdfTimeout \/ ReconConfigError \/ ReconKemTimeout \/ ReconMismatch
             \/ ReconSuccess \/ ReconZeroize
    BY <2>5 DEF HelperTimeout, ReconPufTimeout, ReconFeTimeout, ReconFeReject,
                ReconKdfTimeout, ReconConfigError, ReconKemTimeout, ReconMismatch,
                ReconSuccess, ReconZeroize, Expire, Fail, RepliedInv
  <2>6. CASE ReconPuf \/ ReconFe \/ ReconKdf \/ ReconSeed \/ ReconParam \/ ReconParamOk
             \/ ReconLaunch \/ ReconKemDone
    BY <2>6 DEF ReconPuf, ReconFe, ReconKdf, ReconSeed, ReconParam, ReconParamOk,
                ReconLaunch, ReconKemDone, RepliedInv
  <2>7. CASE ReconPufDone \/ ReconFeDone \/ ReconFeAccept \/ ReconKdfDone
    <3>1. /\ \A i \in 1 .. 7 : Len(resp \o <<Marker(i)>>) = Len(resp) + 1
          /\ Len(resp \o <<Marker(5), Marker(6)>>) = Len(resp) + 2
          /\ Len(resp) \in Nat
      BY ReplyBytes, SentLength
    <3>2. QED BY <1>0, <2>7, <3>1
              DEF ReconPufDone, ReconFeDone, ReconFeAccept, ReconKdfDone, Await, RepliedInv
  <2>8. QED BY <1>1, <2>1, <2>2, <2>3, <2>4, <2>5, <2>6, <2>7 DEF FirmwareStep
<1>2. CASE CoreStep \/ KemStep \/ HostByte \/ UNCHANGED vars
  BY <1>2 DEF CoreStep, KemStep, HostByte, vars, cpuVars, RepliedInv
<1>3. QED BY <1>1, <1>2 DEF Next

LEMMA CountStep == ASSUME TypeOK, CountInv, [Next]_vars PROVE CountInv'
<1> USE DEF TypeOK
<1>1. CASE ReadHelperByte
  <2>1. /\ fed' = Append(fed, Head(rx)) /\ Len(fed') = Len(fed) + 1 /\ Len(fed) \in Nat
    BY <1>1, HeadTailProperties, AppendProperties, LenProperties DEF ReadHelperByte
  <2>2. /\ word \in Nat /\ word * BytesPerWord \in Nat /\ BytesIn(word) \in Nat \ {0}
        /\ NumWords \in Nat /\ BytesPerWord \in Nat \ {0}
    BY HelperShape, WordShape, BytesInPositive
  <2>3. /\ word * BytesPerWord <= Len(fed)
        /\ Len(fed) < word * BytesPerWord + BytesIn(word)
    BY <1>1 DEF ReadHelperByte, CountInv
  <2>4. CASE Len(fed') # word * BytesPerWord + BytesIn(word)
    <3>1. UNCHANGED <<pc, word>>
      BY <1>1, <2>4 DEF ReadHelperByte
    <3>2. Len(fed') < word * BytesPerWord + BytesIn(word)
      BY <2>1, <2>2, <2>3, <2>4
    <3>3. QED BY <3>1, <3>2, <2>1, <2>2, <2>3 DEF CountInv, BytesIn
  <2>5. CASE Len(fed') = word * BytesPerWord + BytesIn(word) /\ word # NumWords
    <3>1. word' = word + 1 /\ word + 1 \in 0 .. NumWords
      BY <1>1, <2>5, <2>2 DEF ReadHelperByte
    <3>2. (word + 1) * BytesPerWord = Len(fed')
      BY <2>5, <2>2 DEF BytesIn
    <3>3. BytesIn(word + 1) \in Nat \ {0}
      BY <3>1, BytesInPositive
    <3>4. BytesIn(word)' = BytesIn(word + 1) /\ (word * BytesPerWord)' = Len(fed')
      BY <3>1, <3>2 DEF BytesIn
    <3>5. Len(fed') < Len(fed') + BytesIn(word + 1) /\ Len(fed') <= Len(fed')
      BY <3>3, <2>1
    <3>6. QED BY <3>4, <3>5 DEF CountInv
  <2>6. CASE Len(fed') = word * BytesPerWord + BytesIn(word) /\ word = NumWords
    BY <1>1, <2>6 DEF ReadHelperByte, CountInv
  <2>7. QED BY <2>4, <2>5, <2>6
<1>2. CASE Recon
  <2>1. Len(fed') = 0 /\ word' = 0 /\ BytesIn(0) \in Nat \ {0}
    BY <1>2, BytesInPositive, HelperShape, WordShape DEF Recon
  <2>2. BytesIn(word)' = BytesIn(0) /\ (word * BytesPerWord)' = 0
    BY <2>1, WordShape DEF BytesIn
  <2>3. QED BY <2>1, <2>2 DEF CountInv
<1>3. CASE FirmwareStep /\ ~ReadHelperByte /\ ~Recon
  <2>1. pc' # "recon_helper" \/ UNCHANGED <<pc, word, fed>>
    <3> USE <1>3 DEF Goto, Local, Fail, Await, Expire
    <3>1. CASE FailZeroize \/ FailReport \/ Boot \/ Info \/ UnknownCommand \/ Enroll
      BY <3>1 DEF FailZeroize, FailReport, Boot, Info, UnknownCommand, Enroll, ReadCommand
    <3>2. CASE EnrollPuf \/ EnrollPufDone \/ EnrollPufTimeout \/ EnrollFe
               \/ EnrollFeDone \/ EnrollFeTimeout \/ EnrollSend
      BY <3>2 DEF EnrollPuf, EnrollPufDone, EnrollPufTimeout, EnrollFe, EnrollFeDone,
                  EnrollFeTimeout, EnrollSend
    <3>3. CASE HelperTimeout \/ ReconPufTimeout \/ ReconFeTimeout \/ ReconFeReject
               \/ ReconKdfTimeout \/ ReconConfigError \/ ReconKemTimeout
               \/ ReconMismatch \/ ReconSuccess \/ ReconZeroize
      BY <3>3 DEF HelperTimeout, ReconPufTimeout, ReconFeTimeout, ReconFeReject,
                  ReconKdfTimeout, ReconConfigError, ReconKemTimeout, ReconMismatch,
                  ReconSuccess, ReconZeroize
    <3>4. CASE ReconPuf \/ ReconFe \/ ReconKdf \/ ReconSeed \/ ReconParam
               \/ ReconParamOk \/ ReconLaunch \/ ReconKemDone \/ ReconPufDone
               \/ ReconFeDone \/ ReconFeAccept \/ ReconKdfDone
      BY <3>4 DEF ReconPuf, ReconFe, ReconKdf, ReconSeed, ReconParam, ReconParamOk,
                  ReconLaunch, ReconKemDone, ReconPufDone, ReconFeDone, ReconFeAccept,
                  ReconKdfDone
    <3>5. QED BY <1>3, <3>1, <3>2, <3>3, <3>4 DEF FirmwareStep
  <2>2. QED BY <2>1 DEF CountInv, BytesIn
<1>4. CASE CoreStep \/ KemStep \/ HostByte \/ UNCHANGED vars
  BY <1>4 DEF CoreStep, KemStep, HostByte, vars, cpuVars, CountInv, BytesIn
<1>5. QED BY <1>1, <1>2, <1>3, <1>4 DEF Next

LEMMA AnswerStep == ASSUME TypeOK, AnswerInv, [Next]_vars PROVE AnswerInv'
<1> USE DEF AnswerInv, Goto, TypeOK, SysTypeOK
<1>1. CASE EnrollPuf \/ EnrollFe \/ ReconPuf \/ ReconFe \/ ReconKdf
  BY <1>1 DEF EnrollPuf, EnrollFe, ReconPuf, ReconFe, ReconKdf, StartPuf, StartFe,
              StartKdf, Start
<1>2. CASE EnrollFeDone
  BY <1>2 DEF EnrollFeDone, Ready, sysVars, Cores
<1>3. CASE FirmwareStep /\ ~(EnrollPuf \/ EnrollFe \/ ReconPuf \/ ReconFe \/ ReconKdf)
             /\ ~EnrollFeDone
  <2>1. UNCHANGED <<latched, core>> /\ (pc' = "enroll_send" => pc = "enroll_send")
    <3> USE <1>3 DEF Fail, Await, Expire, sysVars
    <3>1. CASE FailZeroize \/ FailReport \/ Boot \/ Info \/ UnknownCommand \/ Enroll
               \/ Recon
      BY <3>1 DEF FailZeroize, FailReport, Boot, Info, UnknownCommand, Enroll, Recon,
                  ReadCommand
    <3>2. CASE EnrollPufDone \/ EnrollPufTimeout \/ EnrollFeTimeout \/ EnrollSend
               \/ ReadHelperByte
      BY <3>2 DEF EnrollPufDone, EnrollPufTimeout, EnrollFeTimeout, EnrollSend,
                  ReadHelperByte, WriteHelper
    <3>3. CASE HelperTimeout \/ ReconPufTimeout \/ ReconFeTimeout \/ ReconFeReject
               \/ ReconKdfTimeout \/ ReconConfigError \/ ReconKemTimeout
               \/ ReconMismatch \/ ReconSuccess \/ ReconZeroize
      BY <3>3 DEF HelperTimeout, ReconPufTimeout, ReconFeTimeout, ReconFeReject,
                  ReconKdfTimeout, ReconConfigError, ReconKemTimeout, ReconMismatch,
                  ReconSuccess, ReconZeroize
    <3>4. CASE ReconSeed \/ ReconParam \/ ReconParamOk \/ ReconLaunch \/ ReconKemDone
               \/ ReconPufDone \/ ReconFeDone \/ ReconFeAccept \/ ReconKdfDone
      BY <3>4 DEF ReconSeed, ReconParam, ReconParamOk, ReconLaunch, ReconKemDone,
                  ReconPufDone, ReconFeDone, ReconFeAccept, ReconKdfDone
    <3>5. QED BY <1>3, <3>1, <3>2, <3>3, <3>4 DEF FirmwareStep
  <2>2. QED BY <2>1
<1>4. CASE CoreStep
  BY <1>4 DEF CoreStep, FinishPuf, FinishEncode, FinishDecode, FinishKdf, Hang, cpuVars,
              Cores
<1>5. CASE KemStep \/ HostByte \/ UNCHANGED vars
  BY <1>5 DEF KemStep, HostByte, vars, cpuVars, sysVars
<1>6. QED BY <1>1, <1>2, <1>3, <1>4, <1>5 DEF Next

--------------------------------------------------------------------------------
\* Both modules mean the same bytes.
LEMMA SameBytes ==
  /\ Line!NoHelper = NoHelper
  /\ \A w \in 0 .. NumWords : Line!BytesIn(w) = BytesIn(w) /\ Line!Ack(w) = Ack(w)
  /\ \A i \in 1 .. 7 : Line!Marker(i) = Marker(i)
  /\ Line!HelperRequest = HelperRequest /\ Line!Unknown = Unknown /\ Line!Banner = Banner
  /\ Line!InfoReplyOf(FALSE) = InfoReply
BY DEF Line!NoHelper, NoHelper, Line!BytesIn, BytesIn, Line!Ack, Ack, Line!Marker, Marker,
       Line!HelperRequest, HelperRequest, Line!Unknown, Unknown, Line!Banner, Banner,
       Line!InfoReplyOf, InfoReplyOf, InfoReply

\* What the host does, and what the hardware does, which it does not see.
LEMMA LineHardware ==
  ASSUME AnswerInv, CoreStep \/ KemStep \/ HostByte \/ UNCHANGED vars
  PROVE  [Line!Next]_Line!protocolVars
<1>1. CASE HostByte
  <2>1. PICK b \in Byte : rx' = IF Len(rx) < RxCapacity THEN Append(rx, b) ELSE rx
    BY <1>1 DEF HostByte
  <2>2. UNCHANGED <<pc, word, code, fed, helperOut, resp>>
    BY <1>1 DEF HostByte, sysVars, cpuVars
  <2>3. Line!Arrive(b)
    BY <2>1, <2>2 DEF Line!Arrive, StageOf
  <2>4. QED BY <2>3 DEF Line!Next
<1>2. CASE CoreStep \/ KemStep \/ UNCHANGED vars
  <2>1. UNCHANGED <<pc, word, code, fed, rx, resp>>
    BY <1>2 DEF CoreStep, KemStep, vars, cpuVars
  <2>2. pc = "enroll_send" => UNCHANGED helperOut
    BY <1>2 DEF CoreStep, KemStep, vars, sysVars, FinishPuf, FinishEncode, FinishDecode,
                FinishKdf, Hang, AnswerInv, Cores
  <2>3. UNCHANGED Line!protocolVars
    BY <2>1, <2>2 DEF Line!protocolVars, StageOf, EnrollStages
  <2>4. QED BY <2>3
<1>3. QED BY <1>1, <1>2

\* The loop that reads commands.
LEMMA LineCommand ==
  ASSUME Boot \/ Info \/ UnknownCommand \/ Enroll \/ Recon
  PROVE  [Line!Next]_Line!protocolVars
<1> USE SameBytes DEF StageOf, EnrollStages, Line!ReadCommand, ReadCommand
<1>1. CASE Boot
  <2>1. Line!Boot
    BY <1>1 DEF Boot, Line!Boot, Goto, Line!Goto, Send, Line!Send, Local
  <2>2. QED BY <2>1 DEF Line!Next, Line!DeviceStep
<1>2. CASE Info
  <2>1. Line!Info
    BY <1>2 DEF Info, Line!Info, CmdInfo, Line!CmdInfo
  <2>2. QED BY <2>1 DEF Line!Next, Line!DeviceStep
<1>3. CASE UnknownCommand
  <2>1. Line!UnknownCommand
    BY <1>3 DEF UnknownCommand, Line!UnknownCommand, CmdInfo, Line!CmdInfo, CmdEnroll,
                Line!CmdEnroll, CmdRecon, Line!CmdRecon
  <2>2. QED BY <2>1 DEF Line!Next, Line!DeviceStep
<1>4. CASE Enroll
  <2>1. Line!Enroll
    BY <1>4 DEF Enroll, Line!Enroll, CmdEnroll, Line!CmdEnroll
  <2>2. QED BY <2>1 DEF Line!Next, Line!DeviceStep
<1>5. CASE Recon
  <2>1. Line!Recon
    BY <1>5 DEF Recon, Line!Recon, CmdRecon, Line!CmdRecon
  <2>2. QED BY <2>1 DEF Line!Next, Line!DeviceStep
<1>6. QED BY <1>1, <1>2, <1>3, <1>4, <1>5

--------------------------------------------------------------------------------
\* Wherever a command gives up, the protocol fails with the same code.
LEMMA LineFail ==
  ASSUME NEW s \in {"enroll", "helper", "pipeline"}, StageOf = s,
         NEW from, NEW c, Fail(from, c), Quiet, UNCHANGED rx
  PROVE  Line!Fail(s, c)
<1>1. pc' \in {"fail", "fail_kem"} /\ code' = c
  BY DEF Fail, Goto
<1>2. StageOf' = "failing"
  BY <1>1 DEF StageOf, EnrollStages
<1>3. QED BY <1>1, <1>2 DEF Line!Fail, Line!Goto, Quiet

\* A step from one place of a stage to another that neither reads nor sends.
LEMMA LineQuiet ==
  ASSUME NEW s \in {"enroll", "pipeline", "failing"}, StageOf = s, StageOf' = s,
         UNCHANGED <<code, fed, rx, resp>>
  PROVE  UNCHANGED Line!protocolVars
BY DEF Line!protocolVars

LEMMA LineEnroll ==
  ASSUME TypeOK,
         EnrollPuf \/ EnrollPufDone \/ EnrollPufTimeout \/ EnrollFe
           \/ EnrollFeDone \/ EnrollFeTimeout \/ EnrollSend
  PROVE  [Line!Next]_Line!protocolVars
<1>1. CASE EnrollPuf \/ EnrollPufDone \/ EnrollFe
  <2>1. UNCHANGED <<code, fed, rx, resp>>
    BY <1>1, SentLength
    DEF EnrollPuf, EnrollPufDone, EnrollFe, Await, Send, Quiet, Local, StatusSuccess
  <2>2. StageOf = "enroll" /\ StageOf' = "enroll"
    BY <1>1 DEF EnrollPuf, EnrollPufDone, EnrollFe, Await, Goto, StageOf, EnrollStages
  <2>3. QED BY <2>1, <2>2, LineQuiet
<1>2. CASE EnrollPufTimeout \/ EnrollFeTimeout
  <2>1. PICK c \in {ErrPufTimeout, ErrFeTimeout} :
          \E from \in {"enroll_puf_wait", "enroll_fe_wait"} :
            Fail(from, c) /\ Quiet /\ UNCHANGED rx
    BY <1>2 DEF EnrollPufTimeout, EnrollFeTimeout, Expire
  <2>2. StageOf = "enroll"
    BY <2>1 DEF Fail, Goto, StageOf, EnrollStages
  <2>3. Line!Fail("enroll", c)
    BY <2>1, <2>2, LineFail
  <2>4. QED
    BY <2>1, <2>3 DEF Line!Next, Line!DeviceStep, Line!EnrollFail, ErrPufTimeout,
                      ErrFeTimeout, Line!ErrPufTimeout, Line!ErrFeTimeout
<1>3. CASE EnrollFeDone
  <2>1. /\ StageOf = "enroll" /\ StageOf' = "sending" /\ word' = 0
        /\ resp' = resp \o <<StatusSuccess>> /\ rx' = rx /\ helperOut' = helperOut
    BY <1>3 DEF EnrollFeDone, Goto, Send, sysVars, StageOf, EnrollStages
  <2>2. helperOut \in Helper
    BY DEF TypeOK, SysTypeOK
  <2>3. Line!EnrollAccept
    BY <2>1, <2>2 DEF Line!EnrollAccept, Line!Goto, Line!Send, StatusSuccess,
                      Line!StatusSuccess
  <2>4. QED BY <2>3 DEF Line!Next, Line!DeviceStep
<1>4. CASE EnrollSend
  <2>1. /\ pc = "enroll_send" /\ StageOf = "sending"
        /\ resp' = resp \o helperOut[word] /\ rx' = rx /\ helperOut' = helperOut
    BY <1>4 DEF EnrollSend, Send, sysVars, StageOf, EnrollStages
  <2>2. CASE word = NumWords
    <3>1. StageOf' = "cmd"
      <4>1. pc' = "cmd"
        BY <1>4, <2>2 DEF EnrollSend
      <4>2. QED BY <4>1 DEF StageOf, EnrollStages
    <3>2. Line!EnrollSend
      BY <2>1, <2>2, <3>1, SameBytes DEF Line!EnrollSend, Line!Send
    <3>3. QED BY <3>2 DEF Line!Next, Line!DeviceStep
  <2>3. CASE word # NumWords
    <3>1. StageOf' = "sending" /\ word' = word + 1
      BY <1>4, <2>1, <2>3 DEF EnrollSend, StageOf, EnrollStages
    <3>2. Line!EnrollSend
      BY <2>1, <2>3, <3>1 DEF Line!EnrollSend, Line!Send
    <3>3. QED BY <3>2 DEF Line!Next, Line!DeviceStep
  <2>4. QED BY <2>2, <2>3
<1>5. QED BY <1>1, <1>2, <1>3, <1>4

--------------------------------------------------------------------------------
\* receive_helper() never waits for more bytes than the current word lacks.
LEMMA LineHelper ==
  ASSUME TypeOK, CountInv, ReadHelperByte \/ HelperTimeout
  PROVE  [Line!Next]_Line!protocolVars
<1>1. CASE HelperTimeout
  <2>1. rx = << >> /\ Fail("recon_helper", ErrUartTimeout) /\ Quiet /\ UNCHANGED rx
    BY <1>1 DEF HelperTimeout
  <2>2. StageOf = "helper"
    BY <2>1 DEF Fail, Goto, StageOf, EnrollStages
  <2>3. Line!Fail("helper", ErrUartTimeout)
    BY <2>1, <2>2, LineFail
  <2>4. QED
    BY <2>1, <2>3 DEF Line!Next, Line!DeviceStep, Line!HelperTimeout, ErrUartTimeout,
                      Line!ErrUartTimeout
<1>2. CASE ReadHelperByte
  <2>1. /\ pc = "recon_helper" /\ rx # << >> /\ rx' = Tail(rx)
        /\ fed' = Append(fed, Head(rx)) /\ UNCHANGED code
    BY <1>2 DEF ReadHelperByte
  <2>2. StageOf = "helper"
    BY <2>1 DEF StageOf, EnrollStages
  <2>3. /\ Len(fed') = Len(fed) + 1 /\ Len(fed) \in Nat
        /\ Len(fed) < word * BytesPerWord + BytesIn(word)
    BY <2>1, HeadTailProperties, AppendProperties, LenProperties
    DEF TypeOK, CountInv
  <2>4. /\ word \in 0 .. NumWords /\ word * BytesPerWord + BytesIn(word) \in Nat
    BY WordShape, BytesInPositive DEF TypeOK
  <2> DEFINE total == word * BytesPerWord + BytesIn(word)
  <2>5. Len(fed') = total \/ Len(fed') < total
    BY <2>3, <2>4
  <2>6. total = word * BytesPerWord + Line!BytesIn(word) /\ total \in Nat
    BY <2>4, SameBytes
  <2> HIDE DEF total
  <2>7. CASE Len(fed') < total
    <3>1. UNCHANGED <<pc, word, resp>>
      BY <1>2, <2>7, <2>3, <2>6 DEF ReadHelperByte, total
    <3>2. StageOf' = "helper"
      BY <3>1, <2>1 DEF StageOf, EnrollStages
    <3>3. Line!HelperByte
      BY <2>1, <2>2, <2>6, <2>7, <3>1, <3>2 DEF Line!HelperByte
    <3>4. QED BY <3>3 DEF Line!Next, Line!DeviceStep
  <2>8. CASE Len(fed') = total /\ word # NumWords
    <3>1. pc' = pc /\ word' = word + 1 /\ resp' = resp \o <<Ack(word)>>
      BY <1>2, <2>8 DEF ReadHelperByte, Send, total
    <3>2. StageOf' = "helper"
      BY <3>1, <2>1 DEF StageOf, EnrollStages
    <3>3. ~(Len(fed') < total)
      BY <2>8, <2>6
    <3>4. Line!HelperByte
      BY <2>1, <2>2, <2>4, <2>6, <2>8, <3>1, <3>2, <3>3, SameBytes
      DEF Line!HelperByte, Line!Send
    <3>5. QED BY <3>4 DEF Line!Next, Line!DeviceStep
  <2>9. CASE Len(fed') = total /\ word = NumWords
    <3>1. pc' = "recon_puf" /\ resp' = resp \o <<Ack(word), Marker(1)>>
      BY <1>2, <2>9 DEF ReadHelperByte, Send, total
    <3>2. StageOf' = "pipeline"
      BY <3>1 DEF StageOf, EnrollStages
    <3>3. ~(Len(fed') < total)
      BY <2>9, <2>6
    <3>4. Line!HelperByte
      BY <2>1, <2>2, <2>4, <2>6, <2>9, <3>1, <3>2, <3>3, SameBytes
      DEF Line!HelperByte, Line!Send
    <3>5. QED BY <3>4 DEF Line!Next, Line!DeviceStep
  <2>10. QED BY <2>5, <2>7, <2>8, <2>9
<1>3. QED BY <1>1, <1>2

--------------------------------------------------------------------------------
\* The stages of RECON that send nothing, and those that give up.
LEMMA LineSilent ==
  ASSUME ReconPuf \/ ReconFe \/ ReconKdf \/ ReconSeed \/ ReconParam \/ ReconParamOk
           \/ ReconLaunch \/ ReconKemDone \/ FailZeroize
  PROVE  [Line!Next]_Line!protocolVars
<1>1. UNCHANGED <<code, fed, rx, resp>>
  BY DEF ReconPuf, ReconFe, ReconKdf, ReconSeed, ReconParam, ReconParamOk, ReconLaunch,
         ReconKemDone, FailZeroize, Quiet, Local
<1>2. CASE FailZeroize
  <2>1. StageOf = "failing" /\ StageOf' = "failing"
    BY <1>2 DEF FailZeroize, Goto, StageOf, EnrollStages
  <2>2. QED BY <1>1, <2>1, LineQuiet
<1>3. CASE ~FailZeroize
  <2>1. StageOf = "pipeline" /\ StageOf' = "pipeline"
    BY <1>3 DEF ReconPuf, ReconFe, ReconKdf, ReconSeed, ReconParam, ReconParamOk,
                ReconLaunch, ReconKemDone, Goto, StageOf, EnrollStages
  <2>2. QED BY <1>1, <2>1, LineQuiet
<1>4. QED BY <1>2, <1>3

LEMMA LineGivesUp ==
  ASSUME TypeOK, RepliedInv,
         ReconPufTimeout \/ ReconFeTimeout \/ ReconFeReject \/ ReconKdfTimeout
           \/ ReconConfigError \/ ReconKemTimeout \/ ReconMismatch
  PROVE  [Line!Next]_Line!protocolVars
<1>1. PICK e \in StageErrors :
        /\ Len(resp) = NumWords + 2 + e[1]
        /\ \E from : Fail(from, e[2]) /\ Quiet /\ UNCHANGED rx /\ StageOf = "pipeline"
  <2>0. NumWords \in Nat
    BY WordShape
  <2>1. CASE ReconPufTimeout
    <3>1. Fail("recon_puf_wait", ErrPufTimeout) /\ Quiet /\ UNCHANGED rx
      BY <2>1 DEF ReconPufTimeout, Expire
    <3>2. StageOf = "pipeline" /\ Len(resp) = NumWords + 2 + 1
      BY <3>1, <2>0 DEF Fail, Goto, StageOf, EnrollStages, RepliedInv
    <3>3. <<1, ErrPufTimeout>> \in StageErrors
      BY DEF StageErrors
    <3>4. QED BY <3>1, <3>2, <3>3
  <2>2. CASE ReconFeTimeout
    <3>1. Fail("recon_fe_wait", ErrFeTimeout) /\ Quiet /\ UNCHANGED rx
      BY <2>2 DEF ReconFeTimeout, Expire
    <3>2. StageOf = "pipeline" /\ Len(resp) = NumWords + 2 + 2
      BY <3>1, <2>0 DEF Fail, Goto, StageOf, EnrollStages, RepliedInv
    <3>3. <<2, ErrFeTimeout>> \in StageErrors
      BY DEF StageErrors
    <3>4. QED BY <3>1, <3>2, <3>3
  <2>3. CASE ReconFeReject
    <3>1. Fail("recon_fe_check", ErrFeDecode) /\ Quiet /\ UNCHANGED rx
      BY <2>3 DEF ReconFeReject
    <3>2. StageOf = "pipeline" /\ Len(resp) = NumWords + 2 + 3
      BY <3>1, <2>0 DEF Fail, Goto, StageOf, EnrollStages, RepliedInv
    <3>3. <<3, ErrFeDecode>> \in StageErrors
      BY DEF StageErrors
    <3>4. QED BY <3>1, <3>2, <3>3
  <2>4. CASE ReconKdfTimeout
    <3>1. Fail("recon_kdf_wait", ErrKdfTimeout) /\ Quiet /\ UNCHANGED rx
      BY <2>4 DEF ReconKdfTimeout, Expire
    <3>2. StageOf = "pipeline" /\ Len(resp) = NumWords + 2 + 4
      BY <3>1, <2>0 DEF Fail, Goto, StageOf, EnrollStages, RepliedInv
    <3>3. <<4, ErrKdfTimeout>> \in StageErrors
      BY DEF StageErrors
    <3>4. QED BY <3>1, <3>2, <3>3
  <2>5. CASE ReconConfigError \/ ReconKemTimeout \/ ReconMismatch
    <3>1. PICK from \in {"recon_param_check", "recon_kem_wait", "recon_match"},
               c \in {ErrKyberConfig, ErrKyberTimeout, ErrKeyMismatch} :
            Fail(from, c) /\ Quiet /\ UNCHANGED rx
      BY <2>5 DEF ReconConfigError, ReconKemTimeout, ReconMismatch
    <3>2. StageOf = "pipeline" /\ Len(resp) = NumWords + 2 + 6
      BY <3>1, <2>0 DEF Fail, Goto, StageOf, EnrollStages, RepliedInv
    <3>3. <<6, c>> \in StageErrors
      BY <3>1 DEF StageErrors
    <3>4. QED BY <3>1, <3>2, <3>3
  <2>6. QED BY <2>1, <2>2, <2>3, <2>4, <2>5
<1>2. Line!Fail("pipeline", e[2])
  BY <1>1, LineFail
<1>3. Line!Reached = e[1]
  <2>1. e[1] \in Nat
    BY DEF StageErrors
  <2>2. QED BY <1>1, <2>1, WordShape DEF Line!Reached
<1>4. Line!StageErrors = StageErrors
  BY DEF Line!StageErrors, StageErrors, ErrPufTimeout, ErrFeTimeout, ErrFeDecode,
         ErrKdfTimeout, ErrKyberConfig, ErrKyberTimeout, ErrKeyMismatch,
         Line!ErrPufTimeout, Line!ErrFeTimeout, Line!ErrFeDecode, Line!ErrKdfTimeout,
         Line!ErrKyberConfig, Line!ErrKyberTimeout, Line!ErrKeyMismatch
<1>5. Line!PipelineFail
  BY <1>2, <1>3, <1>4 DEF Line!PipelineFail
<1>6. QED BY <1>5 DEF Line!Next, Line!DeviceStep

\* The stages that send a marker, and the end of a transaction.
LEMMA LineProgress ==
  ASSUME TypeOK, RepliedInv,
         ReconPufDone \/ ReconFeDone \/ ReconFeAccept \/ ReconKdfDone
  PROVE  [Line!Next]_Line!protocolVars
<1> USE SameBytes, WordShape DEF StageOf, EnrollStages, Await, Goto, Send, Local
<1>1. /\ StageOf = "pipeline" /\ StageOf' = "pipeline"
      /\ UNCHANGED <<code, fed, rx>>
  BY DEF ReconPufDone, ReconFeDone, ReconFeAccept, ReconKdfDone
<1>2. CASE ReconPufDone
  <2>1. Line!Reached = 1 /\ resp' = resp \o <<Marker(2)>>
    BY <1>2 DEF ReconPufDone, RepliedInv, Line!Reached
  <2>2. Line!Progressed
    BY <1>1, <2>1 DEF Line!Progressed, Line!Send
  <2>3. QED BY <2>2 DEF Line!Next, Line!DeviceStep
<1>3. CASE ReconFeDone
  <2>1. Line!Reached = 2 /\ resp' = resp \o <<Marker(3)>>
    BY <1>3 DEF ReconFeDone, RepliedInv, Line!Reached
  <2>2. Line!Progressed
    BY <1>1, <2>1 DEF Line!Progressed, Line!Send
  <2>3. QED BY <2>2 DEF Line!Next, Line!DeviceStep
<1>4. CASE ReconFeAccept
  <2>1. Line!Reached = 3 /\ resp' = resp \o <<Marker(4)>>
    BY <1>4 DEF ReconFeAccept, RepliedInv, Line!Reached
  <2>2. Line!Progressed
    BY <1>1, <2>1 DEF Line!Progressed, Line!Send
  <2>3. QED BY <2>2 DEF Line!Next, Line!DeviceStep
<1>5. CASE ReconKdfDone
  <2>1. Line!Reached = 4 /\ resp' = resp \o <<Marker(5), Marker(6)>>
    BY <1>5 DEF ReconKdfDone, RepliedInv, Line!Reached
  <2>2. Line!Progressed
    BY <1>1, <2>1 DEF Line!Progressed, Line!Send
  <2>3. QED BY <2>2 DEF Line!Next, Line!DeviceStep
<1>6. QED BY <1>2, <1>3, <1>4, <1>5

LEMMA LineEnd ==
  ASSUME TypeOK, RepliedInv, ReconSuccess \/ ReconZeroize \/ FailReport
  PROVE  [Line!Next]_Line!protocolVars
<1> USE DEF StageOf, EnrollStages, Goto, Local
<1>1. CASE ReconSuccess
  <2>1. /\ StageOf = "pipeline" /\ StageOf' = "closing" /\ UNCHANGED <<code, rx>>
        /\ Len(resp) = NumWords + 8
        /\ resp' = resp \o <<Marker(7), StatusSuccess, 0>>
    BY <1>1 DEF ReconSuccess, RepliedInv, Send
  <2>2. Line!Reached = 6
    BY <2>1, WordShape DEF Line!Reached
  <2>3. Line!Succeed
    BY <2>1, <2>2, SameBytes DEF Line!Succeed, Line!Goto, Line!Send, StatusSuccess,
                                 Line!StatusSuccess
  <2>4. QED BY <2>3 DEF Line!Next, Line!DeviceStep
<1>2. CASE ReconZeroize
  <2>1. Line!Close
    BY <1>2 DEF ReconZeroize, Quiet, Line!Close, Line!Goto
  <2>2. QED BY <2>1 DEF Line!Next, Line!DeviceStep
<1>3. CASE FailReport
  <2>1. Line!FailReport
    BY <1>3 DEF FailReport, Send, Line!FailReport, Line!Goto, Line!Send, StatusFail,
                Line!StatusFail
  <2>2. QED BY <2>1 DEF Line!Next, Line!DeviceStep
<1>4. QED BY <1>1, <1>2, <1>3

--------------------------------------------------------------------------------
LEMMA LineInit == ASSUME Init PROVE Line!Init
<1>1. StageOf = "boot"
  BY DEF Init, StageOf, EnrollStages
<1>2. QED BY <1>1, SameBytes DEF Init, Line!Init

LEMMA LineStep ==
  ASSUME TypeOK, LineInv, [Next]_vars
  PROVE  [Line!Next]_Line!protocolVars
<1>1. CASE FirmwareStep
  BY <1>1, LineCommand, LineEnroll, LineHelper, LineSilent, LineGivesUp, LineProgress,
     LineEnd DEF FirmwareStep, LineInv
<1>2. CASE CoreStep \/ KemStep \/ HostByte \/ UNCHANGED vars
  BY <1>2, LineHardware DEF LineInv
<1>3. QED BY <1>1, <1>2 DEF Next

\* What the line shows is in step with the program counter.
THEOREM LineInvAlways == Spec => []LineInv
<1>1. Init => LineInv
  BY DEF Init, SysInit, LineInv, RepliedInv, CountInv, AnswerInv
<1>2. TypeOK /\ LineInv /\ [Next]_vars => LineInv'
  BY RepliedStep, CountStep, AnswerStep DEF LineInv
<1>3. QED BY <1>1, <1>2, TypeCorrect, PTL DEF Spec

\* Whatever the cores, the KEM and the host do, the bytes on the serial line are a
\* behaviour of UartProtocol, which is what host/uart_host.py is written against.
THEOREM ImplementsProtocolAlways == Spec => ImplementsProtocol
BY LineInit, LineStep, LineInvAlways, TypeCorrect, PTL
DEF Spec, ImplementsProtocol, Line!Spec

--------------------------------------------------------------------------------
(***************************************************************************)
(* The replies.  At each place of the program the bytes sent so far are    *)
(* known; what a failure still has to add makes them a complete reply.     *)
(***************************************************************************)
\* The helper data sent so far is what the registers hold from the start of it.
SentWords(n) == SubSeq(FlattenWords(helperOut), 1, n * BytesPerWord)

SaidInv ==
  /\ pc \in (EnrollStages \cup {"boot"}) \ {"enroll_send"} => resp = << >>
  /\ pc = "enroll_send" => resp = <<StatusSuccess>> \o SentWords(word)
  /\ pc = "recon_helper" => resp = <<HelperRequest>> \o Acks(word)
  /\ pc \in {"recon_puf", "recon_puf_wait"} => resp = Accepted(1)
  /\ pc \in {"recon_fe", "recon_fe_wait"} => resp = Accepted(2)
  /\ pc = "recon_fe_check" => resp = Accepted(3)
  /\ pc \in {"recon_kdf", "recon_kdf_wait"} => resp = Accepted(4)
  /\ pc \in {"recon_seed", "recon_param", "recon_param_check", "recon_launch",
             "recon_kem_wait", "recon_match"} => resp = Accepted(6)
  /\ pc = "recon_zeroize" => resp = Accepted(7) \o <<StatusSuccess, 0>>
  /\ pc = "fail" => resp \o <<StatusFail, code>> \in Replies
  /\ pc = "fail_kem" => resp \o <<StatusFail, code>> \in ReconReplies
  /\ pc = "cmd" => resp \in Replies

OutInv == helperOut \in HelperOutputs \cup {NoHelper}

--------------------------------------------------------------------------------
\* Every failure of a stage, reported there, completes a reply.
LEMMA FailureReplies ==
  /\ << >> \o <<StatusFail, ErrPufTimeout>> \in EnrollReplies
  /\ << >> \o <<StatusFail, ErrFeTimeout>> \in EnrollReplies
  /\ \A w \in 0 .. NumWords :
       (<<HelperRequest>> \o Acks(w)) \o <<StatusFail, ErrUartTimeout>> \in ReconReplies
  /\ \A e \in StageErrors : Accepted(e[1]) \o <<StatusFail, e[2]>> \in ReconReplies
  /\ Accepted(7) \o <<StatusSuccess, 0>> \in ReconReplies
  /\ EnrollReplies \subseteq Replies /\ ReconReplies \subseteq Replies
<1>1. /\ <<StatusFail, ErrPufTimeout>> \in Seq(0 .. 255)
      /\ <<StatusFail, ErrFeTimeout>> \in Seq(0 .. 255)
  BY DEF StatusFail, ErrPufTimeout, ErrFeTimeout
<1>2. /\ << >> \o <<StatusFail, ErrPufTimeout>> = <<StatusFail, ErrPufTimeout>>
      /\ << >> \o <<StatusFail, ErrFeTimeout>> = <<StatusFail, ErrFeTimeout>>
  BY <1>1, ConcatEmptySeq
<1>3. /\ <<StatusFail, ErrPufTimeout>> \in EnrollReplies
      /\ <<StatusFail, ErrFeTimeout>> \in EnrollReplies
  BY Zenon DEF EnrollReplies
<1>4. \A w \in 0 .. NumWords :
        (<<HelperRequest>> \o Acks(w)) \o <<StatusFail, ErrUartTimeout>> \in ReconReplies
  BY Zenon DEF ReconReplies
<1>5. \A e \in StageErrors : Accepted(e[1]) \o <<StatusFail, e[2]>> \in ReconReplies
  BY Zenon DEF ReconReplies
<1>6. Accepted(7) \o <<StatusSuccess, 0>> \in ReconReplies
  BY Zenon DEF ReconReplies
<1>7. EnrollReplies \subseteq Replies /\ ReconReplies \subseteq Replies
  BY Zenon DEF Replies
<1> QED
  BY <1>2, <1>3, <1>4, <1>5, <1>6, <1>7

LEMMA StageFailures ==
  /\ Accepted(1) \o <<StatusFail, ErrPufTimeout>> \in ReconReplies
  /\ Accepted(2) \o <<StatusFail, ErrFeTimeout>> \in ReconReplies
  /\ Accepted(3) \o <<StatusFail, ErrFeDecode>> \in ReconReplies
  /\ Accepted(4) \o <<StatusFail, ErrKdfTimeout>> \in ReconReplies
  /\ \A c \in {ErrKyberConfig, ErrKyberTimeout, ErrKeyMismatch} :
       Accepted(6) \o <<StatusFail, c>> \in ReconReplies
<1>1. \A n, c : <<n, c>> \in StageErrors => Accepted(n) \o <<StatusFail, c>> \in ReconReplies
  <2> SUFFICES ASSUME NEW n, NEW c, <<n, c>> \in StageErrors
               PROVE  Accepted(n) \o <<StatusFail, c>> \in ReconReplies
    OBVIOUS
  <2>1. PICK e \in StageErrors : e = <<n, c>>
    OBVIOUS
  <2>2. e[1] = n /\ e[2] = c
    BY <2>1
  <2>3. Accepted(e[1]) \o <<StatusFail, e[2]>> \in ReconReplies
    BY FailureReplies
  <2> QED
    BY <2>2, <2>3
<1>2. /\ <<1, ErrPufTimeout>> \in StageErrors /\ <<2, ErrFeTimeout>> \in StageErrors
      /\ <<3, ErrFeDecode>> \in StageErrors /\ <<4, ErrKdfTimeout>> \in StageErrors
      /\ \A c \in {ErrKyberConfig, ErrKyberTimeout, ErrKeyMismatch} : <<6, c>> \in StageErrors
  BY DEF StageErrors
<1> QED
  BY <1>1, <1>2

\* Zeroizing or not, a failure comes to its report with a reply to complete.
LEMMA SaidFail ==
  ASSUME NEW from, NEW c, Fail(from, c), Quiet,
         \/ c \notin {ErrKyberConfig, ErrKyberTimeout, ErrKeyMismatch}
            /\ resp \o <<StatusFail, c>> \in Replies
         \/ resp \o <<StatusFail, c>> \in ReconReplies
  PROVE  SaidInv'
<1>1. code' = c /\ resp' = resp /\ pc' \in {"fail", "fail_kem"}
      /\ (pc' = "fail_kem" => c \in {ErrKyberConfig, ErrKyberTimeout, ErrKeyMismatch})
  BY DEF Fail, Goto, Quiet
<1>2. resp \o <<StatusFail, c>> \in Replies
  BY FailureReplies
<1>3. resp' \o <<StatusFail, code'>> \in Replies
      /\ (pc' = "fail_kem" => resp' \o <<StatusFail, code'>> \in ReconReplies)
  BY <1>1, <1>2
<1> QED
  BY <1>1, <1>3 DEF SaidInv, EnrollStages

LEMMA OutWhole == ASSUME OutInv PROVE helperOut \in Whole
BY NoHelperWhole, HelperShape DEF OutInv

LEMMA OutStep == ASSUME OutInv, [Next]_vars PROVE OutInv'
<1>1. CASE CoreStep
  BY <1>1 DEF CoreStep, FinishPuf, FinishEncode, FinishDecode, FinishKdf, Hang, OutInv
<1>2. CASE KemStep \/ HostByte \/ UNCHANGED vars
  BY <1>2 DEF KemStep, HostByte, vars, sysVars, OutInv
<1>3. CASE FirmwareStep
  <2> USE <1>3 DEF Expire, Await, sysVars, OutInv
  <2>1. CASE FailZeroize \/ FailReport \/ Boot \/ Info \/ UnknownCommand \/ Enroll \/ Recon
             \/ HelperTimeout \/ ReadHelperByte
    BY <2>1 DEF FailZeroize, FailReport, Boot, Info, UnknownCommand, Enroll, Recon,
                ReadCommand, HelperTimeout, ReadHelperByte, WriteHelper
  <2>2. CASE EnrollPuf \/ EnrollPufDone \/ EnrollPufTimeout \/ EnrollFe
             \/ EnrollFeDone \/ EnrollFeTimeout \/ EnrollSend
    BY <2>2 DEF EnrollPuf, EnrollPufDone, EnrollPufTimeout, EnrollFe, EnrollFeDone,
                EnrollFeTimeout, EnrollSend, StartPuf, StartFe
  <2>3. CASE ReconPufTimeout \/ ReconFeTimeout \/ ReconFeReject
             \/ ReconKdfTimeout \/ ReconConfigError \/ ReconKemTimeout \/ ReconMismatch
             \/ ReconSuccess \/ ReconZeroize
    BY <2>3 DEF ReconPufTimeout, ReconFeTimeout, ReconFeReject, ReconKdfTimeout,
                ReconConfigError, ReconKemTimeout, ReconMismatch, ReconSuccess, ReconZeroize
  <2>4. CASE ReconPuf \/ ReconFe \/ ReconKdf \/ ReconSeed \/ ReconParam \/ ReconParamOk
             \/ ReconLaunch \/ ReconKemDone
    BY <2>4 DEF ReconPuf, ReconFe, ReconKdf, ReconSeed, ReconParam, ReconParamOk,
                ReconLaunch, ReconKemDone, StartPuf, StartFe, StartKdf
  <2>5. CASE ReconPufDone \/ ReconFeDone \/ ReconFeAccept \/ ReconKdfDone
    BY <2>5 DEF ReconPufDone, ReconFeDone, ReconFeAccept, ReconKdfDone
  <2> QED
    BY <2>1, <2>2, <2>3, <2>4, <2>5 DEF FirmwareStep
<1> QED
  BY <1>1, <1>2, <1>3 DEF Next

\* Nothing but the processor moves what is sent, or what it is sent from.
LEMMA SaidHardware ==
  ASSUME AnswerInv, SaidInv, CoreStep \/ KemStep \/ HostByte \/ UNCHANGED vars
  PROVE  SaidInv'
<1>1. UNCHANGED <<pc, word, code, resp>>
  BY DEF CoreStep, KemStep, HostByte, vars, cpuVars
<1>2. pc = "enroll_send" => UNCHANGED helperOut
  BY DEF CoreStep, KemStep, HostByte, vars, sysVars, FinishPuf, FinishEncode, FinishDecode,
         FinishKdf, Hang, AnswerInv, Cores
<1>3. CASE pc = "enroll_send"
  <2>1. SentWords(word)' = SentWords(word)
    BY <1>1, <1>2, <1>3 DEF SentWords
  <2> QED
    BY <1>1, <1>3, <2>1 DEF SaidInv, EnrollStages
<1>4. CASE pc # "enroll_send"
  BY <1>1, <1>4 DEF SaidInv
<1> QED
  BY <1>3, <1>4

LEMMA SaidCommand ==
  ASSUME SaidInv, Boot \/ Info \/ UnknownCommand \/ Enroll \/ Recon \/ FailZeroize \/ FailReport
  PROVE  SaidInv'
<1> USE DEF Goto, ReadCommand, Quiet, Send
<1>1. CASE Boot
  <2>1. Banner \in Seq(0 .. 255) /\ Banner \in Replies
    BY DEF Banner, Replies
  <2>2. resp' = << >> \o Banner /\ pc' = "cmd"
    BY <1>1 DEF Boot, SaidInv
  <2>3. resp' \in Replies
    BY <2>1, <2>2, ConcatEmptySeq
  <2> QED
    BY <2>2, <2>3 DEF SaidInv, EnrollStages
<1>2. CASE Info \/ UnknownCommand
  <2>1. pc' = "cmd" /\ resp' \in {InfoReply, <<Unknown>>}
    BY <1>2 DEF Info, UnknownCommand
  <2>2. resp' \in Replies
    BY <2>1 DEF Replies
  <2> QED
    BY <2>1, <2>2 DEF SaidInv, EnrollStages
<1>3. CASE Enroll
  <2>1. pc' = "enroll_puf" /\ resp' = << >>
    BY <1>3 DEF Enroll
  <2> QED
    BY <2>1 DEF SaidInv, EnrollStages
<1>4. CASE Recon
  <2>1. pc' = "recon_helper" /\ word' = 0 /\ resp' = <<HelperRequest>>
    BY <1>4 DEF Recon
  <2>2. <<HelperRequest>> \o Acks(0) = <<HelperRequest>>
    <3>1. Acks(0) = << >>
      BY DEF Acks
    <3>2. <<HelperRequest>> \in Seq(0 .. 255)
      BY ReplyBytes
    <3> QED
      BY <3>1, <3>2, ConcatEmptySeq
  <2>3. resp' = <<HelperRequest>> \o Acks(word')
    BY <2>1, <2>2
  <2> QED
    BY <2>1, <2>3 DEF SaidInv, EnrollStages
<1>5. CASE FailZeroize
  <2>1. /\ pc = "fail_kem" /\ pc' = "fail" /\ resp' = resp /\ code' = code
    BY <1>5 DEF FailZeroize
  <2>2. resp \o <<StatusFail, code>> \in Replies
    BY <2>1, FailureReplies DEF SaidInv
  <2>3. resp' \o <<StatusFail, code'>> \in Replies
    BY <2>1, <2>2
  <2> QED
    BY <2>1, <2>3 DEF SaidInv, EnrollStages
<1>6. CASE FailReport
  <2>1. pc = "fail" /\ pc' = "cmd" /\ resp' = resp \o <<StatusFail, code>>
    BY <1>6 DEF FailReport
  <2>2. resp' \in Replies
    BY <2>1 DEF SaidInv
  <2> QED
    BY <2>1, <2>2 DEF SaidInv, EnrollStages
<1> QED
  BY <1>1, <1>2, <1>3, <1>4, <1>5, <1>6

LEMMA SaidEnroll ==
  ASSUME TypeOK, OutInv, SaidInv,
         EnrollPuf \/ EnrollPufDone \/ EnrollPufTimeout \/ EnrollFe
           \/ EnrollFeDone \/ EnrollFeTimeout \/ EnrollSend
  PROVE  SaidInv'
<1> USE DEF Goto, Quiet, Send
<1>0. /\ << >> \o << >> = << >> /\ word \in 0 .. NumWords /\ helperOut \in Whole
      /\ NumWords \in 1 .. 9
  BY EmptyType, ConcatEmptySeq, OutWhole, WordShape DEF TypeOK
<1>1. CASE EnrollPuf \/ EnrollPufDone \/ EnrollFe
  <2>1. pc' \in EnrollStages \ {"enroll_send"} /\ resp' = << >>
    BY <1>0, <1>1 DEF EnrollPuf, EnrollPufDone, EnrollFe, Await, SaidInv, EnrollStages
  <2> QED
    BY <2>1 DEF SaidInv, EnrollStages
<1>2. CASE EnrollPufTimeout
  <2>1. resp = << >> /\ Fail("enroll_puf_wait", ErrPufTimeout) /\ Quiet
    BY <1>2 DEF EnrollPufTimeout, Expire, Fail, SaidInv, EnrollStages
  <2>2. ErrPufTimeout \notin {ErrKyberConfig, ErrKyberTimeout, ErrKeyMismatch}
    BY DEF ErrPufTimeout, ErrKyberConfig, ErrKyberTimeout, ErrKeyMismatch
  <2>3. resp \o <<StatusFail, ErrPufTimeout>> \in Replies
    BY <2>1, FailureReplies
  <2> QED
    BY <2>1, <2>2, <2>3, SaidFail
<1>3. CASE EnrollFeTimeout
  <2>1. resp = << >> /\ Fail("enroll_fe_wait", ErrFeTimeout) /\ Quiet
    BY <1>3 DEF EnrollFeTimeout, Expire, Fail, SaidInv, EnrollStages
  <2>2. ErrFeTimeout \notin {ErrKyberConfig, ErrKyberTimeout, ErrKeyMismatch}
    BY DEF ErrFeTimeout, ErrKyberConfig, ErrKyberTimeout, ErrKeyMismatch
  <2>3. resp \o <<StatusFail, ErrFeTimeout>> \in Replies
    BY <2>1, FailureReplies
  <2> QED
    BY <2>1, <2>2, <2>3, SaidFail
<1>a. <<StatusSuccess>> \in Seq(0 .. 255)
  BY DEF StatusSuccess
<1>4. CASE EnrollFeDone
  <2>1. /\ pc' = "enroll_send" /\ word' = 0 /\ helperOut' = helperOut
        /\ resp' = << >> \o <<StatusSuccess>>
    BY <1>4 DEF EnrollFeDone, sysVars, SaidInv, EnrollStages
  <2>2. << >> \o <<StatusSuccess>> = <<StatusSuccess>>
        /\ <<StatusSuccess>> \o << >> = <<StatusSuccess>>
    BY <1>a, ConcatEmptySeq
  <2>3. SentWords(word)' = << >>
    <3>1. 0 \in 0 .. NumWords
      BY <1>0
    <3>2. SubSeq(FlattenWords(helperOut), 1, 0 * BytesPerWord) = << >>
      BY <1>0, <3>1, WordSent
    <3> QED
      BY <2>1, <3>2 DEF SentWords
  <2>4. resp' = <<StatusSuccess>> \o SentWords(word)'
    BY <2>1, <2>2, <2>3
  <2> QED
    BY <2>1, <2>4 DEF SaidInv, EnrollStages
<1>5. CASE EnrollSend
  <2>1. /\ pc = "enroll_send" /\ helperOut' = helperOut
        /\ resp' = (<<StatusSuccess>> \o SentWords(word)) \o helperOut[word]
    BY <1>5 DEF EnrollSend, sysVars, SaidInv
  <2>2. SentWords(word) \in Seq(0 .. 255) /\ helperOut[word] \in Seq(0 .. 255)
    BY <1>0, WordSent DEF SentWords
  <2>3. resp' = <<StatusSuccess>> \o (SentWords(word) \o helperOut[word])
    <3>1. PICK s \in Seq(0 .. 255) : s = <<StatusSuccess>>
      BY <1>a
    <3>2. PICK t \in Seq(0 .. 255) : t = SentWords(word)
      BY <2>2
    <3>3. PICK u \in Seq(0 .. 255) : u = helperOut[word]
      BY <2>2
    <3>4. (s \o t) \o u = s \o (t \o u)
      BY ConcatAssociative
    <3> QED
      BY <2>1, <3>1, <3>2, <3>3, <3>4
  <2>4. CASE word = NumWords
    <3>1. pc' = "cmd"
      BY <1>5, <2>4 DEF EnrollSend
    <3>2. SentWords(word) \o helperOut[word] = FlattenWords(helperOut)
      BY <1>0, <2>4, WordSent DEF SentWords
    <3>3. <<StatusSuccess>> \o FlattenWords(helperOut) \in EnrollReplies
      BY Zenon DEF EnrollReplies, OutInv
    <3>4. resp' \in Replies
      BY <2>3, <3>2, <3>3, FailureReplies
    <3> QED
      BY <3>1, <3>4 DEF SaidInv, EnrollStages
  <2>5. CASE word # NumWords
    <3>1. pc' = "enroll_send" /\ word' = word + 1
      BY <1>5, <2>1, <2>5 DEF EnrollSend
    <3>2. SentWords(word) \o helperOut[word] = SentWords(word + 1)
      BY <1>0, <2>5, WordSent DEF SentWords
    <3>3. SentWords(word)' = SentWords(word + 1)
      BY <2>1, <3>1 DEF SentWords
    <3>4. resp' = <<StatusSuccess>> \o SentWords(word)'
      BY <2>3, <3>2, <3>3
    <3> QED
      BY <3>1, <3>4 DEF SaidInv, EnrollStages
  <2> QED
    BY <2>4, <2>5
<1> QED
  BY <1>1, <1>2, <1>3, <1>4, <1>5

LEMMA SaidHelper ==
  ASSUME TypeOK, SaidInv, ReadHelperByte \/ HelperTimeout
  PROVE  SaidInv'
<1> USE DEF Goto, Quiet, Send
<1>0. word \in 0 .. NumWords /\ NumWords \in 0 .. NumWords
  BY WordShape DEF TypeOK
<1>1. CASE ReadHelperByte
  <2>0. pc = "recon_helper" /\ resp = <<HelperRequest>> \o Acks(word)
    BY <1>1 DEF ReadHelperByte, SaidInv
  <2>1. CASE UNCHANGED <<pc, word, resp>>
    BY <2>0, <2>1 DEF SaidInv, EnrollStages
  <2>2. CASE word = NumWords /\ resp' = resp \o <<Ack(word), Marker(1)>> /\ pc' = "recon_puf"
    <3>1. resp' = Accepted(1)
      BY <2>0, <2>2, AcceptedNext
    <3> QED
      BY <2>2, <3>1 DEF SaidInv, EnrollStages
  <2>3. CASE word # NumWords /\ resp' = resp \o <<Ack(word)>> /\ pc' = pc /\ word' = word + 1
    <3>1. resp' = <<HelperRequest>> \o Acks(word')
      BY <1>0, <2>0, <2>3, AcceptedNext
    <3> QED
      BY <2>0, <2>3, <3>1 DEF SaidInv, EnrollStages
  <2> QED
    BY <1>1, <2>1, <2>2, <2>3 DEF ReadHelperByte
<1>2. CASE HelperTimeout
  <2>1. /\ resp = <<HelperRequest>> \o Acks(word)
        /\ Fail("recon_helper", ErrUartTimeout) /\ Quiet
    BY <1>2 DEF HelperTimeout, Fail, SaidInv
  <2>2. resp \o <<StatusFail, ErrUartTimeout>> \in ReconReplies
    BY <1>0, <2>1, FailureReplies
  <2> QED
    BY <2>1, <2>2, SaidFail
<1> QED
  BY <1>1, <1>2

LEMMA SaidGivesUp ==
  ASSUME SaidInv,
         \/ ReconPufTimeout \/ ReconFeTimeout \/ ReconFeReject \/ ReconKdfTimeout
         \/ ReconConfigError \/ ReconKemTimeout \/ ReconMismatch
  PROVE  SaidInv'
<1> USE DEF Goto, Expire
<1>1. CASE ReconPufTimeout
  <2>1. resp = Accepted(1) /\ Fail("recon_puf_wait", ErrPufTimeout) /\ Quiet
    BY <1>1 DEF ReconPufTimeout, Fail, SaidInv
  <2> QED
    BY <2>1, StageFailures, SaidFail
<1>2. CASE ReconFeTimeout
  <2>1. resp = Accepted(2) /\ Fail("recon_fe_wait", ErrFeTimeout) /\ Quiet
    BY <1>2 DEF ReconFeTimeout, Fail, SaidInv
  <2> QED
    BY <2>1, StageFailures, SaidFail
<1>3. CASE ReconFeReject
  <2>1. resp = Accepted(3) /\ Fail("recon_fe_check", ErrFeDecode) /\ Quiet
    BY <1>3 DEF ReconFeReject, Fail, SaidInv
  <2> QED
    BY <2>1, StageFailures, SaidFail
<1>4. CASE ReconKdfTimeout
  <2>1. resp = Accepted(4) /\ Fail("recon_kdf_wait", ErrKdfTimeout) /\ Quiet
    BY <1>4 DEF ReconKdfTimeout, Fail, SaidInv
  <2> QED
    BY <2>1, StageFailures, SaidFail
<1>5. CASE ReconConfigError \/ ReconKemTimeout \/ ReconMismatch
  <2>1. PICK c \in {ErrKyberConfig, ErrKyberTimeout, ErrKeyMismatch} :
          \E from \in {"recon_param_check", "recon_kem_wait", "recon_match"} :
            Fail(from, c) /\ Quiet
    BY <1>5 DEF ReconConfigError, ReconKemTimeout, ReconMismatch
  <2>2. PICK from \in {"recon_param_check", "recon_kem_wait", "recon_match"} :
          Fail(from, c) /\ Quiet
    BY <2>1
  <2>3. resp = Accepted(6)
    BY <2>2 DEF Fail, SaidInv
  <2>4. resp \o <<StatusFail, c>> \in ReconReplies
    BY <2>3, StageFailures
  <2> QED
    BY <2>2, <2>4, SaidFail
<1> QED
  BY <1>1, <1>2, <1>3, <1>4, <1>5

LEMMA SaidRecon ==
  ASSUME SaidInv,
         \/ ReconPuf \/ ReconPufDone \/ ReconFe \/ ReconFeDone \/ ReconFeAccept
         \/ ReconKdf \/ ReconKdfDone \/ ReconSeed \/ ReconParam \/ ReconParamOk
         \/ ReconLaunch \/ ReconKemDone \/ ReconSuccess \/ ReconZeroize
  PROVE  SaidInv'
<1> USE DEF Goto, Quiet, Send
<1>1. CASE ReconPuf \/ ReconFe \/ ReconKdf \/ ReconSeed \/ ReconParam \/ ReconParamOk
           \/ ReconLaunch \/ ReconKemDone
  BY <1>1 DEF ReconPuf, ReconFe, ReconKdf, ReconSeed, ReconParam, ReconParamOk,
              ReconLaunch, ReconKemDone, SaidInv, EnrollStages
<1>2. /\ Accepted(1) \o <<Marker(2)>> = Accepted(2)
      /\ Accepted(2) \o <<Marker(3)>> = Accepted(3)
      /\ Accepted(3) \o <<Marker(4)>> = Accepted(4)
  <2>1. /\ 1 \in 0 .. 6 /\ 2 \in 0 .. 6 /\ 3 \in 0 .. 6
        /\ 1 + 1 = 2 /\ 2 + 1 = 3 /\ 3 + 1 = 4
    OBVIOUS
  <2>2. \A n \in 0 .. 6 : Accepted(n) \o <<Marker(n + 1)>> = Accepted(n + 1)
    BY AcceptedNext
  <2> QED
    BY <2>1, <2>2
<1>3. CASE ReconPufDone \/ ReconFeDone \/ ReconFeAccept \/ ReconKdfDone
  <2>1. CASE ReconPufDone
    <3>1. pc' = "recon_fe" /\ resp' = Accepted(2)
      BY <1>2, <2>1 DEF ReconPufDone, Await, SaidInv
    <3> QED
      BY <3>1 DEF SaidInv, EnrollStages
  <2>2. CASE ReconFeDone
    <3>1. pc' = "recon_fe_check" /\ resp' = Accepted(3)
      BY <1>2, <2>2 DEF ReconFeDone, Await, SaidInv
    <3> QED
      BY <3>1 DEF SaidInv, EnrollStages
  <2>3. CASE ReconFeAccept
    <3>1. pc' = "recon_kdf" /\ resp' = Accepted(4)
      BY <1>2, <2>3 DEF ReconFeAccept, Await, SaidInv
    <3> QED
      BY <3>1 DEF SaidInv, EnrollStages
  <2>4. CASE ReconKdfDone
    <3>1. pc' = "recon_seed" /\ resp' = Accepted(6)
      BY <2>4, AcceptedNext DEF ReconKdfDone, Await, SaidInv
    <3> QED
      BY <3>1 DEF SaidInv, EnrollStages
  <2> QED
    BY <1>3, <2>1, <2>2, <2>3, <2>4
<1>4. CASE ReconSuccess
  <2>1. pc' = "recon_zeroize" /\ resp' = Accepted(7) \o <<StatusSuccess, 0>>
    BY <1>4, AcceptedNext DEF ReconSuccess, SaidInv
  <2> QED
    BY <2>1 DEF SaidInv, EnrollStages
<1>5. CASE ReconZeroize
  <2>1. pc' = "cmd" /\ resp' = Accepted(7) \o <<StatusSuccess, 0>>
    BY <1>5 DEF ReconZeroize, SaidInv
  <2>2. resp' \in Replies
    BY <2>1, FailureReplies
  <2> QED
    BY <2>1, <2>2 DEF SaidInv, EnrollStages
<1> QED
  BY <1>1, <1>3, <1>4, <1>5

LEMMA SaidStep ==
  ASSUME TypeOK, AnswerInv, OutInv, SaidInv, [Next]_vars
  PROVE  SaidInv'
BY SaidHardware, SaidCommand, SaidEnroll, SaidHelper, SaidGivesUp, SaidRecon
   DEF Next, FirmwareStep

\* What was sent at any place of the program begins one of the protocol's replies.
LEMMA SaidBegins ==
  ASSUME TypeOK, OutInv, SaidInv
  PROVE  ReplyFollowsProtocol
<1>0. /\ resp \in Seq(0 .. 255) /\ word \in 0 .. NumWords /\ helperOut \in Whole
      /\ <<StatusSuccess>> \in Seq(0 .. 255)
      /\ \A c \in 0 .. ErrKeyMismatch : <<StatusFail, c>> \in Seq(0 .. 255)
      /\ <<StatusSuccess, 0>> \in Seq(0 .. 255)
  BY OutWhole DEF TypeOK, StatusSuccess, StatusFail, ErrKeyMismatch
<1>1. ASSUME NEW t \in Seq(0 .. 255), NEW R, resp \o t \in R
      PROVE  \E r \in R : IsPrefix(resp, r)
  BY <1>0, <1>1, PrefixOf
<1>2. pc = "cmd" => resp \in Replies
  BY DEF SaidInv
<1>3. ASSUME pc \in EnrollStages
      PROVE  \E r \in EnrollReplies : IsPrefix(resp, r)
  <2>1. CASE pc # "enroll_send"
    <3>1. resp = << >>
      BY <1>3, <2>1 DEF SaidInv
    <3>2. <<StatusFail, ErrPufTimeout>> \in Seq(0 .. 255)
      BY DEF StatusFail, ErrPufTimeout
    <3> QED
      BY <1>1, <3>1, <3>2, FailureReplies
  <2>2. CASE pc = "enroll_send"
    <3>1. resp = <<StatusSuccess>> \o SentWords(word)
      BY <2>2 DEF SaidInv
    <3>2. PICK s \in Seq(0 .. 255) : s = <<StatusSuccess>>
      BY <1>0
    <3>3. PICK t \in Seq(0 .. 255) : t = SentWords(word)
      BY <1>0, WordSent DEF SentWords
    <3>4. PICK rest \in Seq(0 .. 255) : FlattenWords(helperOut) = t \o rest
      BY <1>0, <3>3, WordSent DEF SentWords
    <3>5. (s \o t) \o rest = s \o (t \o rest)
      BY ConcatAssociative
    <3>6. resp \o rest = <<StatusSuccess>> \o FlattenWords(helperOut)
      BY <3>1, <3>2, <3>3, <3>4, <3>5
    <3>7. <<StatusSuccess>> \o FlattenWords(helperOut) \in EnrollReplies
      BY Zenon DEF EnrollReplies, OutInv
    <3> QED
      BY <1>1, <3>6, <3>7
  <2> QED
    BY <2>1, <2>2
<1>4. ASSUME pc \in ReconStages
      PROVE  \E r \in ReconReplies : IsPrefix(resp, r)
  <2>0. /\ <<StatusFail, ErrUartTimeout>> \in Seq(0 .. 255)
        /\ <<StatusFail, ErrPufTimeout>> \in Seq(0 .. 255)
        /\ <<StatusFail, ErrFeTimeout>> \in Seq(0 .. 255)
        /\ <<StatusFail, ErrFeDecode>> \in Seq(0 .. 255)
        /\ <<StatusFail, ErrKdfTimeout>> \in Seq(0 .. 255)
        /\ <<StatusFail, ErrKeyMismatch>> \in Seq(0 .. 255)
    BY DEF StatusFail, ErrUartTimeout, ErrPufTimeout, ErrFeTimeout, ErrFeDecode, ErrKdfTimeout,
           ErrKeyMismatch
  <2>1. CASE pc = "recon_helper"
    <3>1. resp \o <<StatusFail, ErrUartTimeout>> \in ReconReplies
      BY <1>0, <2>1, FailureReplies DEF SaidInv
    <3> QED
      BY <1>1, <2>0, <3>1
  <2>2. CASE pc \in {"recon_puf", "recon_puf_wait"}
    <3>1. resp \o <<StatusFail, ErrPufTimeout>> \in ReconReplies
      BY <2>2, StageFailures DEF SaidInv
    <3> QED
      BY <1>1, <2>0, <3>1
  <2>3. CASE pc \in {"recon_fe", "recon_fe_wait"}
    <3>1. resp \o <<StatusFail, ErrFeTimeout>> \in ReconReplies
      BY <2>3, StageFailures DEF SaidInv
    <3> QED
      BY <1>1, <2>0, <3>1
  <2>4. CASE pc = "recon_fe_check"
    <3>1. resp \o <<StatusFail, ErrFeDecode>> \in ReconReplies
      BY <2>4, StageFailures DEF SaidInv
    <3> QED
      BY <1>1, <2>0, <3>1
  <2>5. CASE pc \in {"recon_kdf", "recon_kdf_wait"}
    <3>1. resp \o <<StatusFail, ErrKdfTimeout>> \in ReconReplies
      BY <2>5, StageFailures DEF SaidInv
    <3> QED
      BY <1>1, <2>0, <3>1
  <2>6. CASE pc \in {"recon_seed", "recon_param", "recon_param_check", "recon_launch",
                     "recon_kem_wait", "recon_match"}
    <3>1. resp \o <<StatusFail, ErrKeyMismatch>> \in ReconReplies
      BY <2>6, StageFailures DEF SaidInv
    <3> QED
      BY <1>1, <2>0, <3>1
  <2>7. CASE pc = "recon_zeroize"
    <3>1. resp \o << >> = resp /\ resp \in ReconReplies
      BY <1>0, <2>7, FailureReplies, ConcatEmptySeq DEF SaidInv
    <3> QED
      BY <1>1, <3>1, EmptyType
  <2>8. CASE pc = "fail_kem"
    <3>1. resp \o <<StatusFail, code>> \in ReconReplies /\ code \in 0 .. ErrKeyMismatch
      BY <2>8 DEF SaidInv, TypeOK
    <3> QED
      BY <1>0, <1>1, <3>1
  <2> QED
    BY <1>4, <2>1, <2>2, <2>3, <2>4, <2>5, <2>6, <2>7, <2>8 DEF ReconStages, KemStages
<1> QED
  BY <1>2, <1>3, <1>4 DEF ReplyFollowsProtocol

\* The reply of every command is one of the protocol's, whatever fails and whenever:
\* complete when the loop reads the next command, and the beginning of one until then.
THEOREM ReplyFollowsProtocolAlways == Spec => []ReplyFollowsProtocol
<1>1. Init => OutInv /\ SaidInv
  BY DEF Init, SysInit, OutInv, SaidInv, EnrollStages
<1>2. TypeOK /\ AnswerInv /\ OutInv /\ SaidInv /\ [Next]_vars => OutInv' /\ SaidInv'
  BY OutStep, SaidStep
<1>3. TypeOK /\ OutInv /\ SaidInv => ReplyFollowsProtocol
  BY SaidBegins
<1>4. LineInv => AnswerInv
  BY DEF LineInv
<1> QED
  BY <1>1, <1>2, <1>3, <1>4, TypeCorrect, LineInvAlways, PTL DEF Spec

================================================================================
