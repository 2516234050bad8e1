-------------------------------- MODULE Firmware --------------------------------
(***************************************************************************)
(* firmware/main.c: the command loop and the three command handlers, over  *)
(* the registers of SysDevice and KemDevice and a UART.  Every register    *)
(* access the hardware or the host can race with is a step of its own;     *)
(* uart_putchar only waits for the transmitter, which always becomes free, *)
(* so the bytes a step sends are part of that step.                        *)
(*                                                                         *)
(* Each recovered secret is the FE job it was decoded from, so a value in  *)
(* KemDevice's seed bank says which measurement and which helper bytes it  *)
(* was derived from.                                                       *)
(***************************************************************************)
EXTENDS SysDevice

CONSTANTS
  RxCapacity,  \* bytes the receive FIFO holds (15)
  MaxTxn,      \* bound on the ENROLL and RECON commands executed
  LateCores,   \* cores that may answer after their watchdog expired
  Param,       \* the parameter set the firmware asks for (2, Kyber-512)
  Zero         \* the value of a cleared seed bank

ASSUME FirmwareAssumption ==
  /\ RxCapacity \in Nat \ {0}
  /\ MaxTxn \in Nat
  /\ LateCores \subseteq Cores
  /\ Param \in Nat
  /\ Zero \notin Job

InfoReply == InfoReplyOf(FALSE)

VARIABLES
  seed, busy, done, match, cfgerr   \* the registers of KemDevice

Kem == INSTANCE KemDevice WITH Secrets <- Job

VARIABLES
  pc,      \* where main() is
  word,    \* loop counter over helper words
  code,    \* error code a failure is about to report
  rx,      \* receive FIFO, oldest byte first
  txn,     \* how many ENROLL and RECON commands were started
  krun,    \* history: the seeds the last launched KEM ran on
  fed,     \* history: helper bytes read for this RECON
  resp     \* history: bytes sent since the last command was read

kemVars == <<seed, busy, done, match, cfgerr>>
cpuVars == <<pc, word, code, txn, krun, fed, resp>>
vars == <<sysVars, kemVars, cpuVars, rx>>

Stages == {"boot", "cmd", "fail", "fail_kem",
           "enroll_puf", "enroll_puf_wait", "enroll_fe", "enroll_fe_wait",
           "enroll_send", "recon_helper", "recon_puf", "recon_puf_wait",
           "recon_fe", "recon_fe_wait", "recon_fe_check", "recon_kdf",
           "recon_kdf_wait", "recon_seed", "recon_param", "recon_param_check",
           "recon_launch", "recon_kem_wait", "recon_match", "recon_zeroize"}

TypeOK ==
  /\ SysTypeOK
  /\ Kem!KemTypeOK
  /\ pc \in Stages
  /\ word \in 0 .. NumWords
  /\ code \in 0 .. ErrKeyMismatch
  /\ rx \in Seq(Byte)
  /\ txn \in Nat
  /\ krun = Zero \/ krun \in Job
  /\ fed \in Seq(Byte)
  /\ resp \in Seq(0 .. 255)

Init ==
  /\ SysInit
  /\ Kem!KemInit
  /\ pc = "boot"
  /\ word = 0
  /\ code = 0
  /\ rx = << >>
  /\ txn = 0
  /\ krun = Zero
  /\ fed = << >>
  /\ resp = << >>

--------------------------------------------------------------------------------
(***************************************************************************)
(* Control flow.                                                           *)
(***************************************************************************)
Goto(from, to) == pc = from /\ pc' = to

Send(bytes) == resp' = resp \o bytes
Quiet == UNCHANGED resp

\* What a step leaves alone when it is not about helper words or seeds.
Local == UNCHANGED <<word, txn, krun, fed>>

\* mutant: a KEM timeout is reported without a zeroize
FailTimeoutUnerased(from, c) ==
  /\ Goto(from, IF c \in {ErrKyberConfig, ErrKeyMismatch} THEN "fail_kem" ELSE "fail")
  /\ code' = c

\* mutant: a configuration error is reported without a zeroize
FailConfigUnerased(from, c) ==
  /\ Goto(from, IF c \in {ErrKyberTimeout, ErrKeyMismatch} THEN "fail_kem" ELSE "fail")
  /\ code' = c

\* send_failure(): a failure of the KEM stage zeroizes before it reports.
Fail(from, c) ==
  /\ Goto(from, IF c \in {ErrKyberConfig, ErrKyberTimeout, ErrKeyMismatch}
                THEN "fail_kem" ELSE "fail")
  /\ code' = c

FailZeroize ==
  /\ Goto("fail_kem", "fail")
  /\ Kem!Zeroize
  /\ Quiet /\ Local /\ UNCHANGED <<sysVars, code, rx>>

FailReport ==
  /\ Goto("fail", "cmd")
  /\ Send(<<StatusFail, code>>)
  /\ Local /\ UNCHANGED <<sysVars, kemVars, code, rx>>

Boot ==
  /\ Goto("boot", "cmd")
  /\ Send(Banner)
  /\ Local /\ UNCHANGED <<sysVars, kemVars, code, rx>>

(***************************************************************************)
(* main(): read one byte, dispatch on it.                                  *)
(***************************************************************************)
ReadCommand(c) ==
  /\ pc = "cmd"
  /\ rx # << >>
  /\ Head(rx) = c
  /\ rx' = Tail(rx)
  /\ UNCHANGED <<sysVars, kemVars, code, krun>>

Info ==
  /\ ReadCommand(CmdInfo)
  /\ resp' = InfoReply
  /\ UNCHANGED <<pc, word, txn, fed>>

UnknownCommand ==
  /\ \E c \in Byte \ {CmdInfo, CmdEnroll, CmdRecon} : ReadCommand(c)
  /\ resp' = <<Unknown>>
  /\ UNCHANGED <<pc, word, txn, fed>>

Enroll ==
  /\ ReadCommand(CmdEnroll)
  /\ txn < MaxTxn
  /\ txn' = txn + 1
  /\ pc' = "enroll_puf"
  /\ resp' = << >>
  /\ UNCHANGED <<word, fed>>

Recon ==
  /\ ReadCommand(CmdRecon)
  /\ txn < MaxTxn
  /\ txn' = txn + 1
  /\ pc' = "recon_helper"
  /\ word' = 0
  /\ fed' = << >>
  /\ resp' = <<HelperRequest>>

(***************************************************************************)
(* wait_sys_status(): HW_TIMEOUT polls outlast a core that works by orders *)
(* of magnitude, so the watchdog only fires on a core that hangs, unless   *)
(* the instance says that core may be late.                                *)
(***************************************************************************)
Ready(flag) == flag \in latched

\* mutant: the wait loops have no bound
WatchdogNever(c) == c \in {}

Watchdog(c) ==
  /\ c \notin latched
  /\ core[c] = "hung" \/ c \in LateCores

Await(c, from, to, bytes) ==
  /\ Ready(c)
  /\ Goto(from, to)
  /\ Send(bytes)
  /\ Local /\ UNCHANGED <<sysVars, kemVars, code, rx>>

Expire(c, from, err) ==
  /\ Watchdog(c)
  /\ Fail(from, err)
  /\ Quiet /\ Local /\ UNCHANGED <<sysVars, kemVars, rx>>

--------------------------------------------------------------------------------
(***************************************************************************)
(* process_enroll()                                                        *)
(***************************************************************************)
EnrollPuf ==
  /\ Goto("enroll_puf", "enroll_puf_wait")
  /\ StartPuf(txn)
  /\ Quiet /\ Local /\ UNCHANGED <<kemVars, code, rx>>

EnrollPufDone == Await("puf", "enroll_puf_wait", "enroll_fe", << >>)
EnrollPufTimeout == Expire("puf", "enroll_puf_wait", ErrPufTimeout)

EnrollFe ==
  /\ Goto("enroll_fe", "enroll_fe_wait")
  /\ StartFe("enc")
  /\ Quiet /\ Local /\ UNCHANGED <<kemVars, code, rx>>

EnrollFeDone ==
  /\ Ready("fe")
  /\ Goto("enroll_fe_wait", "enroll_send")
  /\ Send(<<StatusSuccess>>)
  /\ word' = 0
  /\ UNCHANGED <<sysVars, kemVars, code, txn, krun, fed, rx>>

EnrollFeTimeout == Expire("fe", "enroll_fe_wait", ErrFeTimeout)

\* mutant: the byte that ends the helper data is not sent
EnrollSendShort ==
  /\ pc = "enroll_send"
  /\ Send(helperOut[word])
  /\ IF word + 1 = NumWords
     THEN pc' = "cmd" /\ word' = word
     ELSE pc' = pc /\ word' = word + 1
  /\ UNCHANGED <<sysVars, kemVars, code, txn, krun, fed, rx>>

\* One turn of the loop that reads a helper word and sends its bytes.
EnrollSend ==
  /\ pc = "enroll_send"
  /\ Send(helperOut[word])
  /\ IF word = NumWords
     THEN pc' = "cmd" /\ word' = word
     ELSE pc' = pc /\ word' = word + 1
  /\ UNCHANGED <<sysVars, kemVars, code, txn, krun, fed, rx>>

--------------------------------------------------------------------------------
(***************************************************************************)
(* process_recon(): receive_helper() first, one byte at a time.  A word    *)
(* goes to its register, and is acknowledged, when its last byte arrives.  *)
(***************************************************************************)
ReadHelperByte ==
  /\ pc = "recon_helper"
  /\ rx # << >>
  /\ rx' = Tail(rx)
  /\ fed' = Append(fed, Head(rx))
  /\ IF Len(fed') = word * BytesPerWord + BytesIn(word)
     THEN /\ WriteHelper(word, Slice(fed', word))
          /\ IF word = NumWords
             THEN /\ Send(<<Ack(word), Marker(1)>>)
                  /\ pc' = "recon_puf"
                  /\ word' = word
             ELSE /\ Send(<<Ack(word)>>)
                  /\ pc' = pc
                  /\ word' = word + 1
     ELSE UNCHANGED <<sysVars, pc, word, resp>>
  /\ UNCHANGED <<kemVars, code, txn, krun>>

\* UART_TIMEOUT polls found the FIFO empty: the host may be silent that long.
HelperTimeout ==
  /\ rx = << >>
  /\ Fail("recon_helper", ErrUartTimeout)
  /\ Quiet /\ Local /\ UNCHANGED <<sysVars, kemVars, rx>>

ReconPuf ==
  /\ Goto("recon_puf", "recon_puf_wait")
  /\ StartPuf(txn)
  /\ Quiet /\ Local /\ UNCHANGED <<kemVars, code, rx>>

ReconPufDone == Await("puf", "recon_puf_wait", "recon_fe", <<Marker(2)>>)
ReconPufTimeout == Expire("puf", "recon_puf_wait", ErrPufTimeout)

ReconFe ==
  /\ Goto("recon_fe", "recon_fe_wait")
  /\ StartFe("dec")
  /\ Quiet /\ Local /\ UNCHANGED <<kemVars, code, rx>>

\* mutant: the marker C is forgotten
ReconFeDoneUnmarked == Await("fe", "recon_fe_wait", "recon_fe_check", << >>)

ReconFeDone == Await("fe", "recon_fe_wait", "recon_fe_check", <<Marker(3)>>)
ReconFeTimeout == Expire("fe", "recon_fe_wait", ErrFeTimeout)

\* SYS_CTRL is read a second time for the verdict.
ReconFeAccept == Await("ok", "recon_fe_check", "recon_kdf", <<Marker(4)>>)

ReconFeReject ==
  /\ ~Ready("ok")
  /\ Fail("recon_fe_check", ErrFeDecode)
  /\ Quiet /\ Local /\ UNCHANGED <<sysVars, kemVars, rx>>

ReconKdf ==
  /\ Goto("recon_kdf", "recon_kdf_wait")
  /\ StartKdf
  /\ Quiet /\ Local /\ UNCHANGED <<kemVars, code, rx>>

ReconKdfDone == Await("kdf", "recon_kdf_wait", "recon_seed", <<Marker(5), Marker(6)>>)
ReconKdfTimeout == Expire("kdf", "recon_kdf_wait", ErrKdfTimeout)

(***************************************************************************)
(* The KEM stage.                                                          *)
(***************************************************************************)
ReconSeed ==
  /\ Goto("recon_seed", "recon_param")
  /\ Kem!WriteSeed(kdfOut)
  /\ Quiet /\ Local /\ UNCHANGED <<sysVars, code, rx>>

ReconParam ==
  /\ Goto("recon_param", "recon_param_check")
  /\ Kem!WriteParam(Param)
  /\ Quiet /\ Local /\ UNCHANGED <<sysVars, code, rx>>

ReconParamOk ==
  /\ Goto("recon_param_check", "recon_launch")
  /\ ~cfgerr
  /\ Quiet /\ Local /\ UNCHANGED <<sysVars, kemVars, code, rx>>

ReconLaunch ==
  /\ Goto("recon_launch", "recon_kem_wait")
  /\ Kem!Launch
  /\ krun' = seed
  /\ Quiet /\ UNCHANGED <<sysVars, word, code, txn, fed, rx>>

\* Read back by the check before the launch, and by every poll after it.
ReconConfigError ==
  /\ cfgerr
  /\ \E from \in {"recon_param_check", "recon_kem_wait"} : Fail(from, ErrKyberConfig)
  /\ Quiet /\ Local /\ UNCHANGED <<sysVars, kemVars, rx>>

ReconKemDone ==
  /\ done /\ ~busy /\ ~cfgerr
  /\ Goto("recon_kem_wait", "recon_match")
  /\ Quiet /\ Local /\ UNCHANGED <<sysVars, kemVars, code, rx>>

\* The last of KYBER_TIMEOUT polls did not find DONE.
ReconKemTimeout ==
  /\ ~cfgerr
  /\ ~done \/ busy
  /\ Fail("recon_kem_wait", ErrKyberTimeout)
  /\ Quiet /\ Local /\ UNCHANGED <<sysVars, kemVars, rx>>

ReconMismatch ==
  /\ ~match
  /\ Fail("recon_match", ErrKeyMismatch)
  /\ Quiet /\ Local /\ UNCHANGED <<sysVars, kemVars, rx>>

ReconSuccess ==
  /\ match
  /\ Goto("recon_match", "recon_zeroize")
  /\ Send(<<Marker(7), StatusSuccess, 0>>)
  /\ Local /\ UNCHANGED <<sysVars, kemVars, code, rx>>

ReconZeroize ==
  /\ Goto("recon_zeroize", "cmd")
  /\ Kem!Zeroize
  /\ Quiet /\ Local /\ UNCHANGED <<sysVars, code, rx>>

--------------------------------------------------------------------------------
(***************************************************************************)
(* The hardware and the host.                                              *)
(***************************************************************************)
CoreStep ==
  /\ \/ FinishPuf
     \/ \E h \in HelperOutputs : FinishEncode(h)
     \/ \E success \in BOOLEAN : FinishDecode(success)
     \/ FinishKdf
     \/ \E c \in Cores : Hang(c)
  /\ UNCHANGED <<kemVars, cpuVars, rx>>

KemStep ==
  /\ \E m \in BOOLEAN : Kem!Complete(m)
  /\ UNCHANGED <<sysVars, cpuVars, rx>>

\* A byte that finds the FIFO full is dropped.
HostByte ==
  /\ \E b \in Byte : rx' = IF Len(rx) < RxCapacity THEN Append(rx, b) ELSE rx
  /\ UNCHANGED <<sysVars, kemVars, cpuVars>>

FirmwareStep ==
  \/ Boot \/ Info \/ UnknownCommand \/ Enroll \/ Recon
  \/ EnrollPuf \/ EnrollPufDone \/ EnrollPufTimeout
  \/ EnrollFe \/ EnrollFeDone \/ EnrollFeTimeout \/ EnrollSend
  \/ ReadHelperByte \/ HelperTimeout
  \/ ReconPuf \/ ReconPufDone \/ ReconPufTimeout
  \/ ReconFe \/ ReconFeDone \/ ReconFeTimeout \/ ReconFeAccept \/ ReconFeReject
  \/ ReconKdf \/ ReconKdfDone \/ ReconKdfTimeout
  \/ ReconSeed \/ ReconParam \/ ReconParamOk \/ ReconLaunch \/ ReconConfigError
  \/ ReconKemDone \/ ReconKemTimeout \/ ReconMismatch \/ ReconSuccess
  \/ ReconZeroize \/ FailZeroize \/ FailReport

Next == FirmwareStep \/ CoreStep \/ KemStep \/ HostByte

(***************************************************************************)
(* The processor keeps executing, and a running core answers or hangs.     *)
(* The host owes the firmware nothing.                                     *)
(***************************************************************************)
Spec == Init /\ [][Next]_vars

FairSpec == Spec /\ WF_vars(FirmwareStep) /\ WF_vars(CoreStep)

--------------------------------------------------------------------------------
(***************************************************************************)
(* Properties.                                                             *)
(***************************************************************************)
ReconReplies ==
  {<<HelperRequest>> \o Acks(n) \o <<StatusFail, ErrUartTimeout>> : n \in 0 .. NumWords}
  \cup {Accepted(e[1]) \o <<StatusFail, e[2]>> : e \in StageErrors}
  \cup {Accepted(7) \o <<StatusSuccess, 0>>}

EnrollReplies ==
  {<<StatusFail, ErrPufTimeout>>, <<StatusFail, ErrFeTimeout>>}
  \cup {<<StatusSuccess>> \o FlattenWords(h) : h \in HelperOutputs \cup {NoHelper}}

Replies == {Banner, InfoReply, <<Unknown>>} \cup EnrollReplies \cup ReconReplies

EnrollStages == {"enroll_puf", "enroll_puf_wait", "enroll_fe", "enroll_fe_wait",
                 "enroll_send"}

KemStages == {"recon_param", "recon_param_check", "recon_launch",
              "recon_kem_wait", "recon_match", "recon_zeroize", "fail_kem"}

ReconStages == KemStages \cup
  {"recon_helper", "recon_puf", "recon_puf_wait", "recon_fe", "recon_fe_wait",
   "recon_fe_check", "recon_kdf", "recon_kdf_wait", "recon_seed"}

\* Whatever fails and wherever, the bytes sent for a command are those of the
\* protocol: when the loop reads its next command the reply is a complete one,
\* with the error code of the stage reached, and until then a prefix of one.
ReplyFollowsProtocol ==
  /\ pc = "cmd" => resp \in Replies
  /\ pc \in EnrollStages => \E r \in EnrollReplies : IsPrefix(resp, r)
  /\ pc \in ReconStages => \E r \in ReconReplies : IsPrefix(resp, r)

\* The stage of the protocol at each place of the program.
StageOf ==
  CASE pc \in {"boot", "cmd"} -> pc
    [] pc = "recon_helper" -> "helper"
    [] pc = "enroll_send" -> "sending"
    [] pc = "recon_zeroize" -> "closing"
    [] pc \in {"fail", "fail_kem"} -> "failing"
    [] pc \in EnrollStages \ {"enroll_send"} -> "enroll"
    [] OTHER -> "pipeline"

Line == INSTANCE UartProtocol WITH
          stage <- StageOf,
          word <- IF StageOf \in {"sending", "helper"} THEN word ELSE 0,
          code <- IF StageOf = "failing" THEN code ELSE 0,
          fed <- IF StageOf \in {"helper", "pipeline"} THEN fed ELSE << >>,
          out <- IF StageOf = "sending" THEN helperOut ELSE NoHelper,
          export <- FALSE, Builds <- {FALSE}, Keys <- {}, Enrolments <- Helper

\* Seen from the line, the whole program with its hardware is the protocol: every
\* register access is either invisible or one step of UartProtocol, whatever
\* fails and whatever the host sends.
ImplementsProtocol == Line!Spec

\* No seed and no KEM status outlives its transaction: outside the KEM stage,
\* and so before a KEM failure is reported and before the next command is read,
\* the peripheral is as it was after reset.
SecretsErased == pc \notin KemStages => Kem!KemInit

HelperOf(bytes) == [w \in 0 .. NumWords |-> Slice(bytes, w)]

FreshJob == [mode |-> "dec", response |-> txn, helper |-> HelperOf(fed)]

\* A launched KEM that is judged ran on the key decoded in this transaction,
\* from a measurement made in this transaction and from exactly the helper
\* bytes the host sent in this transaction.
KeyIsFresh == pc \in {"recon_match", "recon_zeroize"} => krun = FreshJob

\* The helper data returned by ENROLL masks a measurement made for it.
EnrolmentIsFresh ==
  pc = "enroll_send" => keyOut.mode = "enc" /\ keyOut.response = txn

\* The cores read the seed registers after the launch: nothing but a zeroize
\* changes them while a KEM runs, and a KEM only runs on loaded seeds.
SeedsHeldWhileBusy ==
  [][busy /\ busy' => seed # Zero /\ seed' = seed]_vars

\* Every command, however it ends, brings the firmware back to its loop.
CommandAnswered == pc # "cmd" ~> pc = "cmd"

--------------------------------------------------------------------------------
(***************************************************************************)
(* The strengthening that makes freshness inductive when no core is late.  *)
(***************************************************************************)
Waits(c) ==
  CASE c = "puf" -> {"enroll_puf_wait", "recon_puf_wait"}
    [] c = "fe"  -> {"enroll_fe_wait", "recon_fe_wait"}
    [] c = "kdf" -> {"recon_kdf_wait"}

\* A core only works while the firmware waits for it, and an answer on record
\* is the answer of a core that has finished.
CoreInv ==
  \A c \in Cores : /\ core[c] = "run" => pc \in Waits(c)
                   /\ c \in latched => core[c] = "idle"

\* Every word already acknowledged is in its register; the next is incomplete.
HelperInv ==
  /\ pc = "recon_helper" =>
       /\ word * BytesPerWord <= Len(fed)
       /\ Len(fed) < word * BytesPerWord + BytesIn(word)
       /\ \A w \in 0 .. word - 1 : helperReg[w] = Slice(fed, w)
  /\ pc \in {"recon_puf", "recon_puf_wait", "recon_fe"} => helperReg = HelperOf(fed)

Measured ==
  /\ pc \in Waits("puf") =>
       /\ core["puf"] = "run" => measuring = txn
       /\ "puf" \in latched => response = txn
  /\ pc \in {"enroll_fe", "recon_fe"} => response = txn

Encoding(j) == j.mode = "enc" /\ j.response = txn

Encoded ==
  /\ pc = "enroll_fe_wait" =>
       /\ core["fe"] = "run" => Encoding(job)
       /\ "fe" \in latched => Encoding(keyOut)
  /\ pc = "enroll_send" => Encoding(keyOut)

Decoded ==
  /\ pc = "recon_fe_wait" =>
       /\ core["fe"] = "run" => job = FreshJob
       /\ "fe" \in latched => keyOut = FreshJob
  /\ pc \in {"recon_fe_check", "recon_kdf"} => keyOut = FreshJob

Derived ==
  /\ pc = "recon_kdf_wait" =>
       /\ core["kdf"] = "run" => kdfJob = FreshJob
       /\ "kdf" \in latched => kdfOut = FreshJob
  /\ pc = "recon_seed" => kdfOut = FreshJob

Seeded ==
  /\ pc \in {"recon_param", "recon_param_check", "recon_launch"} => seed = FreshJob
  /\ pc \in {"recon_kem_wait", "recon_match", "recon_zeroize"} => krun = FreshJob

\* At each stage, what the stages after it will read already comes from this
\* transaction.
PipelineInv ==
  CoreInv /\ HelperInv /\ Measured /\ Encoded /\ Decoded /\ Derived /\ Seeded

================================================================================
