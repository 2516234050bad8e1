------------------------------ MODULE UartProtocol ------------------------------
(***************************************************************************)
(* What the device promises on its serial line: the command loop of        *)
(* firmware/main.c reduced to the bytes it reads and sends.  Firmware      *)
(* implements this module; HostLink puts host/uart_host.py on the other    *)
(* end of the line.                                                        *)
(***************************************************************************)
EXTENDS ProtocolBytes

CONSTANTS
  Enrolments,  \* helper data an enrolment can return
  Keys,        \* shared keys a KEM of the diagnostic build can agree on
  Builds,      \* {FALSE}: release firmware only; TRUE exports the key
  RxCapacity   \* bytes the receive FIFO holds (15)

VARIABLES
  stage,   \* what the command loop is doing
  word,    \* loop counter over helper words, zero outside the loops
  code,    \* error code a failure is about to report, zero if none is
  rx,      \* receive FIFO, oldest byte first
  fed,     \* helper bytes read for the RECON in progress
  out,     \* helper data being sent
  export,  \* whether the firmware is a diagnostic build
  resp     \* bytes sent since the last command was read

protocolVars == <<stage, word, code, rx, fed, out, export, resp>>

Stages == {"boot", "cmd", "enroll", "sending", "helper", "pipeline", "closing", "failing"}

Init ==
  /\ stage = "boot"
  /\ word = 0
  /\ code = 0
  /\ rx = << >>
  /\ fed = << >>
  /\ out = NoHelper
  /\ export \in Builds
  /\ resp = << >>

Goto(from, to) == stage = from /\ stage' = to

Send(bytes) == resp' = resp \o bytes

Boot ==
  /\ Goto("boot", "cmd")
  /\ Send(Banner)
  /\ UNCHANGED <<word, code, rx, fed, out, export>>

ReadCommand(c) ==
  /\ stage = "cmd"
  /\ rx # << >>
  /\ Head(rx) = c
  /\ rx' = Tail(rx)
  /\ UNCHANGED <<code, out, export>>

Info ==
  /\ ReadCommand(CmdInfo)
  /\ resp' = InfoReplyOf(export)
  /\ UNCHANGED <<stage, word, fed>>

UnknownCommand ==
  /\ \E c \in Byte \ {CmdInfo, CmdEnroll, CmdRecon} : ReadCommand(c)
  /\ resp' = <<Unknown>>
  /\ UNCHANGED <<stage, word, fed>>

Enroll ==
  /\ ReadCommand(CmdEnroll)
  /\ stage' = "enroll"
  /\ resp' = << >>
  /\ UNCHANGED <<word, fed>>

Recon ==
  /\ ReadCommand(CmdRecon)
  /\ stage' = "helper"
  /\ resp' = <<HelperRequest>>
  /\ UNCHANGED <<word, fed>>

\* The PUF and the encoder have answered: the status comes before the helper.
EnrollAccept ==
  /\ Goto("enroll", "sending")
  /\ Send(<<StatusSuccess>>)
  /\ out' \in Enrolments
  /\ UNCHANGED <<word, code, rx, fed, export>>

EnrollSend ==
  /\ stage = "sending"
  /\ Send(out[word])
  /\ IF word = NumWords
     THEN stage' = "cmd" /\ word' = 0 /\ out' = NoHelper
     ELSE stage' = stage /\ word' = word + 1 /\ out' = out
  /\ UNCHANGED <<code, rx, fed, export>>

HelperByte ==
  /\ stage = "helper"
  /\ rx # << >>
  /\ rx' = Tail(rx)
  /\ fed' = Append(fed, Head(rx))
  /\ IF Len(fed') < word * BytesPerWord + BytesIn(word)
     THEN UNCHANGED <<stage, word, resp>>
     ELSE IF word = NumWords
          THEN Send(<<Ack(word), Marker(1)>>) /\ stage' = "pipeline" /\ word' = 0
          ELSE Send(<<Ack(word)>>) /\ stage' = stage /\ word' = word + 1
  /\ UNCHANGED <<code, out, export>>

\* progress markers sent in this transaction
Reached == Len(resp) - (NumWords + 2)

\* A stage is over: its marker, or those up to the next wait.
Progressed ==
  /\ stage = "pipeline"
  /\ \/ Reached \in 1 .. 3 /\ Send(<<Marker(Reached + 1)>>)
     \/ Reached = 4 /\ Send(<<Marker(5), Marker(6)>>)
  /\ UNCHANGED <<stage, word, code, rx, fed, out, export>>

\* The two keys matched; the diagnostic build shows the key.
Succeed ==
  /\ Goto("pipeline", "closing")
  /\ Reached = 6
  /\ \/ ~export /\ Send(<<Marker(7), StatusSuccess, 0>>)
     \/ export /\ \E key \in Keys : Send(<<Marker(7), StatusSuccess, 1>> \o key)
  /\ fed' = << >>
  /\ UNCHANGED <<word, code, rx, out, export>>

Close ==
  /\ Goto("closing", "cmd")
  /\ UNCHANGED <<word, code, rx, fed, out, export, resp>>

Fail(from, c) ==
  /\ Goto(from, "failing")
  /\ code' = c
  /\ word' = 0
  /\ fed' = << >>
  /\ UNCHANGED <<rx, out, export, resp>>

EnrollFail == \E c \in {ErrPufTimeout, ErrFeTimeout} : Fail("enroll", c)
HelperTimeout == rx = << >> /\ Fail("helper", ErrUartTimeout)
PipelineFail == \E e \in StageErrors : Reached = e[1] /\ Fail("pipeline", e[2])

FailReport ==
  /\ Goto("failing", "cmd")
  /\ Send(<<StatusFail, code>>)
  /\ code' = 0
  /\ UNCHANGED <<word, rx, fed, out, export>>

\* A byte that finds the FIFO full is dropped.
Arrive(b) ==
  /\ rx' = IF Len(rx) < RxCapacity THEN Append(rx, b) ELSE rx
  /\ UNCHANGED <<stage, word, code, fed, out, export, resp>>

DeviceStep ==
  \/ Boot \/ Info \/ UnknownCommand \/ Enroll \/ Recon
  \/ EnrollAccept \/ EnrollSend \/ HelperByte
  \/ Progressed \/ Succeed \/ Close
  \/ EnrollFail \/ HelperTimeout \/ PipelineFail \/ FailReport

Next == DeviceStep \/ \E b \in Byte : Arrive(b)

Spec == Init /\ [][Next]_protocolVars

================================================================================
