-------------------------------- MODULE HostTool --------------------------------
(***************************************************************************)
(* host/uart_host.py: one process per invocation, which opens the serial   *)
(* port, sends a command and reads its reply with a time limit on every    *)
(* read.  ser.read(n) takes bytes one at a time here; drv is what the      *)
(* serial driver has received and nobody has read, wire what was written   *)
(* and has not reached the device.  What a process remembers is lost when  *)
(* it ends, the helper file stays.                                         *)
(***************************************************************************)
EXTENDS ProtocolBytes

CONSTANTS
  KeyLength,  \* bytes of a shared key (32)
  Counts,     \* values of --count
  None        \* Python's None; a file that does not exist

ASSUME HostAssumption ==
  /\ KeyLength \in Nat \ {0}
  /\ Counts \subseteq Nat
  /\ None \notin Seq(0 .. 255)

VARIABLES
  step,     \* what the process does next, "closed" when there is none
  command,  \* the subcommand
  mem,      \* its local variables
  verdict,  \* how the last process ended
  file,     \* content of the helper file
  drv, wire

hostVars == <<step, command, mem, verdict, file, drv, wire>>

Commands == {"info", "enroll", "reconstruct", "stress"}

Steps == {"closed", "settle", "banner", "stress", "info", "info_reply",
          "enroll", "enroll_status", "enroll_helper", "save", "saving",
          "reconstruct", "ready", "word", "ack", "marker", "status", "flags",
          "key", "fail_code"}

\* steps that are a ser.read() with no loop around it
Reads == {"info_reply", "enroll_status", "enroll_helper", "ready", "ack",
          "marker", "status", "flags", "key", "fail_code"}

NoMemory == [got |-> << >>, word |-> 0, progress |-> 0, helper |-> None,
             count |-> 0, reference |-> None, passed |-> 0, failed |-> 0]

HostInit ==
  /\ step = "closed"
  /\ command = "info"
  /\ mem = NoMemory
  /\ verdict = "none"
  /\ file = None
  /\ drv = << >>
  /\ wire = << >>

--------------------------------------------------------------------------------
Continue(to) == step' = to /\ UNCHANGED verdict

\* ser.close() and sys.exit(0 if ok else 1)
Exit(ok) ==
  /\ step' = "closed"
  /\ verdict' = IF ok THEN "ok" ELSE "failed"
  /\ mem' = NoMemory

\* ser.write()
Write(bytes) == wire' = wire \o bytes

\* one byte out of ser.read()
Read(from) ==
  /\ step = from
  /\ drv # << >>
  /\ drv' = Tail(drv)
  /\ UNCHANGED <<command, file>>

Gathered == Append(mem.got, Head(drv))

\* The three answers to a one-byte read: FAIL, what the protocol says, other.
Answer(from, good, then) ==
  /\ Read(from)
  /\ \/ Head(drv) = StatusFail /\ Continue("fail_code") /\ UNCHANGED mem
     \/ Head(drv) = good /\ then
     \/ Head(drv) \notin {StatusFail, good} /\ Exit(FALSE)
  /\ UNCHANGED wire

--------------------------------------------------------------------------------
(***************************************************************************)
(* main(): open, then either drop what has arrived or wait for START.      *)
(***************************************************************************)
Open ==
  /\ step = "closed"
  /\ \E c \in Commands, waits \in BOOLEAN, n \in Counts :
       /\ command' = c
       /\ step' = IF waits THEN "banner" ELSE "settle"
       /\ mem' = [NoMemory EXCEPT !.count = IF c = "stress" THEN n ELSE 0]
  /\ verdict' = "none"
  /\ UNCHANGED <<file, drv, wire>>

\* The port cannot be opened.
OpenFails ==
  /\ step = "closed"
  /\ Exit(FALSE)
  /\ UNCHANGED <<command, file, drv, wire>>

\* mutant: the bytes that wait are counted and not read
DiscardCounted ==
  /\ step = "settle"
  /\ Continue(command)
  /\ UNCHANGED <<command, mem, file, drv, wire>>

\* discard_stale_rx(), at the end of its sleep
Discard ==
  /\ step = "settle"
  /\ drv' = << >>
  /\ Continue(command)
  /\ UNCHANGED <<command, mem, file, wire>>

\* ten seconds without the banner, whatever else came
BannerTimeout ==
  /\ step = "banner"
  /\ Exit(FALSE)
  /\ UNCHANGED <<command, file, drv, wire>>

\* buf.endswith(b"START") looks at the last five bytes only.
WaitForStart ==
  /\ Read("banner")
  /\ LET buf == IF Len(mem.got) < Len(Banner) THEN Gathered ELSE Tail(Gathered)
     IN  IF buf = Banner
         THEN Continue(command) /\ mem' = [mem EXCEPT !.got = << >>]
         ELSE Continue("banner") /\ mem' = [mem EXCEPT !.got = buf]
  /\ UNCHANGED wire

SendInfo ==
  /\ step = "info"
  /\ Write(<<CmdInfo>>)
  /\ Continue("info_reply")
  /\ UNCHANGED <<command, mem, file, drv>>

ReadInfo ==
  /\ Read("info_reply")
  /\ IF Len(Gathered) < Len(InfoReplyOf(FALSE))
     THEN Continue("info_reply") /\ mem' = [mem EXCEPT !.got = Gathered]
     ELSE Exit(SubSeq(Gathered, 1, 3) = SubSeq(InfoReplyOf(FALSE), 1, 3))
  /\ UNCHANGED wire

--------------------------------------------------------------------------------
(***************************************************************************)
(* do_enroll()                                                             *)
(***************************************************************************)
SendEnroll ==
  /\ step = "enroll"
  /\ Write(<<CmdEnroll>>)
  /\ Continue("enroll_status")
  /\ UNCHANGED <<command, mem, file, drv>>

ReadEnrollStatus ==
  Answer("enroll_status", StatusSuccess, Continue("enroll_helper") /\ UNCHANGED mem)

ReadEnrollHelper ==
  /\ Read("enroll_helper")
  /\ IF Len(Gathered) < HelperLength
     THEN Continue("enroll_helper") /\ mem' = [mem EXCEPT !.got = Gathered]
     ELSE Continue("save") /\ mem' = [mem EXCEPT !.got = << >>, !.helper = Gathered]
  /\ UNCHANGED wire

\* open(..., "wb") empties the file before there is anything to write
OpenFile ==
  /\ step = "save"
  /\ file' = << >>
  /\ Continue("saving")
  /\ UNCHANGED <<command, mem, drv, wire>>

SaveFile ==
  /\ step = "saving"
  /\ file' = mem.helper
  /\ IF command = "stress" THEN Continue("reconstruct") /\ UNCHANGED mem ELSE Exit(TRUE)
  /\ UNCHANGED <<command, drv, wire>>

--------------------------------------------------------------------------------
(***************************************************************************)
(* do_reconstruct()                                                        *)
(***************************************************************************)
Usable(data) == data # None /\ Len(data) = HelperLength

SendRecon ==
  /\ step = "reconstruct"
  /\ LET data == IF mem.helper = None THEN file ELSE mem.helper
     IN  IF Usable(data)
         THEN /\ Write(<<CmdRecon>>)
              /\ Continue("ready")
              /\ mem' = [mem EXCEPT !.helper = data, !.word = 0, !.progress = 0]
         ELSE Exit(FALSE) /\ UNCHANGED wire
  /\ UNCHANGED <<command, file, drv>>

ReadReady == Answer("ready", HelperRequest, Continue("word") /\ UNCHANGED mem)

\* mutant: every word is taken from the start of the helper data
SendWordUnsliced ==
  /\ step = "word"
  /\ Write(SubSeq(mem.helper, 1, BytesIn(mem.word)))
  /\ Continue("ack")
  /\ UNCHANGED <<command, mem, file, drv>>

SendWord ==
  /\ step = "word"
  /\ Write(Slice(mem.helper, mem.word))
  /\ Continue("ack")
  /\ UNCHANGED <<command, mem, file, drv>>

ReadAck ==
  Answer("ack", Ack(mem.word),
         /\ Continue(IF mem.word = NumWords THEN "marker" ELSE "word")
         /\ mem' = [mem EXCEPT !.word = @ + 1])

\* mutant: the markers are A to F
ReadMarkerShort ==
  Answer("marker", Marker(mem.progress + 1),
         /\ Continue(IF mem.progress = 5 THEN "status" ELSE "marker")
         /\ mem' = [mem EXCEPT !.progress = @ + 1])

ReadMarker ==
  Answer("marker", Marker(mem.progress + 1),
         /\ Continue(IF mem.progress = 6 THEN "status" ELSE "marker")
         /\ mem' = [mem EXCEPT !.progress = @ + 1])

\* What do_reconstruct() returns goes to main() or into the statistics of
\* do_stress(), which ends after count transactions.
Reconstructed(key) ==
  IF command # "stress"
  THEN Exit(TRUE)
  ELSE LET reference == IF mem.reference = None THEN key ELSE mem.reference
           passed == mem.passed + (IF key = reference THEN 1 ELSE 0)
           failed == mem.failed + (IF key = reference THEN 0 ELSE 1)
       IN  IF passed + failed = mem.count
           THEN Exit(failed = 0)
           ELSE /\ Continue("reconstruct")
                /\ mem' = [mem EXCEPT !.reference = reference, !.passed = passed,
                                      !.failed = failed, !.got = << >>]

\* mutant: the release build's empty key is not told from an exported one
ReadStatusOnly == Answer("status", StatusSuccess, Reconstructed(<< >>))

ReadStatus == Answer("status", StatusSuccess, Continue("flags") /\ UNCHANGED mem)

ReadFlags ==
  /\ Read("flags")
  /\ \/ Head(drv) = 0 /\ Reconstructed(<< >>)
     \/ Head(drv) = 1 /\ Continue("key") /\ mem' = [mem EXCEPT !.got = << >>]
     \/ Head(drv) \notin {0, 1} /\ Exit(FALSE)
  /\ UNCHANGED wire

ReadKey ==
  /\ Read("key")
  /\ IF Len(Gathered) < KeyLength
     THEN Continue("key") /\ mem' = [mem EXCEPT !.got = Gathered]
     ELSE Reconstructed(Gathered)
  /\ UNCHANGED wire

\* report_firmware_failure(): the caller gives up, and a stress run with it.
ReadFailCode == Read("fail_code") /\ Exit(FALSE) /\ UNCHANGED wire

--------------------------------------------------------------------------------
StartStress ==
  /\ step = "stress"
  /\ IF mem.count = 0 THEN Exit(FALSE) ELSE Continue("enroll") /\ UNCHANGED mem
  /\ UNCHANGED <<command, file, drv, wire>>

\* mutant: a read that came back short is repeated
ReadTimeoutRepeated ==
  /\ step \in Reads
  /\ drv = << >>
  /\ UNCHANGED hostVars

\* A read came back short: every caller gives up.
ReadTimeout ==
  /\ step \in Reads
  /\ drv = << >>
  /\ Exit(FALSE)
  /\ UNCHANGED <<command, file, drv, wire>>

\* The process is interrupted between two steps.
Kill ==
  /\ step # "closed"
  /\ step' = "closed"
  /\ verdict' = "killed"
  /\ mem' = NoMemory
  /\ UNCHANGED <<command, file, drv, wire>>

HostStep ==
  \/ WaitForStart \/ SendInfo \/ ReadInfo \/ StartStress
  \/ SendEnroll \/ ReadEnrollStatus \/ ReadEnrollHelper \/ OpenFile \/ SaveFile
  \/ SendRecon \/ ReadReady \/ SendWord \/ ReadAck \/ ReadMarker
  \/ ReadStatus \/ ReadFlags \/ ReadKey \/ ReadFailCode

================================================================================
