-------------------------------- MODULE HostLink --------------------------------
(***************************************************************************)
(* host/uart_host.py and the device (module UartProtocol) on the two ends  *)
(* of a serial line.  Processes of the tool follow one another; each may   *)
(* be killed at any step, and the device may be reloaded at any time, so a *)
(* process can meet the half-finished transaction and the unread bytes of  *)
(* an earlier one.                                                         *)
(***************************************************************************)
EXTENDS HostTool

CONSTANTS
  Enrolments, Keys, Builds, RxCapacity,  \* those of UartProtocol
  MaxSessions,  \* bound on the invocations of the tool; the last is not killed
  MaxResets     \* bound on the reloads of the bitstream

ASSUME LinkAssumption ==
  /\ Enrolments \subseteq Whole
  /\ Keys \subseteq [1 .. KeyLength -> 0 .. 255]
  /\ Builds \subseteq BOOLEAN
  /\ RxCapacity \in Nat
  /\ BytesPerWord <= RxCapacity  \* a word waits in the receive FIFO

VARIABLES
  stage, word, code, rx, fed, out, export, resp,  \* those of UartProtocol
  line,      \* bytes sent by the device and not yet in the driver
  sessions, resets,
  clean,     \* history: the tool found an idle device when it was done with waiting,
             \* and has not refused the command itself
  used,      \* history: in such a session, helper bytes of the last KEM that matched
  faulted    \* history: in such a session, the device reported a failure, or was at
             \* an enrolment when a read ended

Device == INSTANCE UartProtocol

deviceVars == <<stage, word, code, rx, fed, out, export, resp>>
historyVars == <<sessions, resets, used, clean, faulted>>
vars == <<hostVars, deviceVars, line, historyVars>>

Init ==
  /\ HostInit
  /\ Device!Init
  /\ line = << >>
  /\ sessions = 0
  /\ resets = 0
  /\ used = None
  /\ clean = FALSE
  /\ faulted = FALSE

--------------------------------------------------------------------------------
\* Nothing is under way and the device waits for a command.
DeviceIdle == wire = << >> /\ rx = << >> /\ line = << >> /\ stage = "cmd"

Quiet == drv = << >> /\ wire = << >> /\ rx = << >> /\ line = << >>

OpenPort ==
  /\ sessions < MaxSessions
  /\ Open \/ OpenFails
  /\ sessions' = sessions + 1
  /\ faulted' = FALSE
  /\ clean' = FALSE /\ used' = None
  /\ UNCHANGED <<deviceVars, line, resets>>

\* The sleep of a tenth of a second ends at any time, in the middle of a reply too.
Settle ==
  /\ Discard
  /\ clean' = DeviceIdle
  /\ UNCHANGED <<deviceVars, line, sessions, resets, used, faulted>>

\* The command ends before anything is sent: no usable helper file, or no iterations.
Refuses == step = command /\ step' = "closed"

Work ==
  /\ HostStep
  /\ clean' = IF step = "banner" THEN step' # "banner" /\ DeviceIdle /\ drv' = << >>
              ELSE clean /\ ~Refuses
  /\ used' = IF step = "reconstruct" THEN None ELSE used
  /\ UNCHANGED <<deviceVars, line, sessions, resets, faulted>>

\* A read outlasts one watchdog of the device.  Nothing comes in the time of a
\* read from a device that waits for a byte or is being loaded; too little may come
\* from one that enrols, with two waits before its first byte, or that sends marker
\* by marker to a read of several bytes.
Starved ==
  /\ drv = << >> /\ line = << >> /\ wire = << >>
  /\ \/ stage \in {"boot", "cmd", "helper"} /\ rx = << >>
     \/ stage = "enroll"
     \/ stage = "pipeline" /\ step \in {"info_reply", "enroll_helper", "key"}

GiveUp ==
  /\ \/ Starved /\ ReadTimeout
     \/ BannerTimeout
  /\ faulted' = (faulted \/ (clean /\ stage = "enroll"))
  /\ UNCHANGED <<deviceVars, line, sessions, resets, used, clean>>

Interrupt ==
  /\ sessions < MaxSessions
  /\ Kill
  /\ UNCHANGED <<deviceVars, line, historyVars>>

--------------------------------------------------------------------------------
\* What a step of the device puts on the line.
Sent == IF stage = "cmd" THEN resp' ELSE SubSeq(resp', Len(resp) + 1, Len(resp'))

Run ==
  /\ Device!DeviceStep
  /\ line' = line \o Sent
  /\ used' = IF clean /\ stage' = "closing" THEN fed ELSE used
  /\ faulted' = (faulted \/ (clean /\ stage' = "failing"))
  /\ UNCHANGED <<hostVars, sessions, resets, clean>>

\* The USB adapter hands over what it has.
ToDriver ==
  /\ line # << >>
  /\ line' = << >>
  /\ drv' = drv \o line
  /\ UNCHANGED <<step, command, mem, verdict, file, wire, deviceVars, historyVars>>

ToDevice ==
  /\ wire # << >>
  /\ wire' = Tail(wire)
  /\ Device!Arrive(Head(wire))
  /\ UNCHANGED <<step, command, mem, verdict, file, drv, line, historyVars>>

\* The bitstream is loaded again: what was written to the old one is lost.
Reload ==
  /\ resets < MaxResets
  /\ resets' = resets + 1
  /\ stage' = "boot"
  /\ word' = 0 /\ code' = 0 /\ rx' = << >> /\ fed' = << >> /\ out' = NoHelper /\ resp' = << >>
  /\ wire' = << >>
  /\ clean' = FALSE /\ used' = None /\ faulted' = FALSE
  /\ UNCHANGED <<step, command, mem, verdict, file, drv, export, line, sessions>>

Next == OpenPort \/ Settle \/ Work \/ GiveUp \/ Interrupt
        \/ Run \/ ToDriver \/ ToDevice \/ Reload

Spec == Init /\ [][Next]_vars

(***************************************************************************)
(* The tool runs, its sleeps and reads end, bytes arrive and the device    *)
(* runs.  Nobody has to start the tool, kill it or reload the device.      *)
(***************************************************************************)
FairSpec ==
  /\ Spec
  /\ WF_vars(Settle) /\ WF_vars(Work) /\ WF_vars(GiveUp)
  /\ WF_vars(Run) /\ WF_vars(ToDriver) /\ WF_vars(ToDevice)

--------------------------------------------------------------------------------
(***************************************************************************)
(* Properties.                                                             *)
(***************************************************************************)
Saving == step = "saving" /\ step' # "saving" /\ verdict' # "killed"

\* A session that found an idle device saves byte for byte the helper data of the
\* enrolment the device made for its own command.
SavesOwnEnrolment ==
  [][Saving /\ clean => /\ resp = <<StatusSuccess>> \o file'
                        /\ file' \in {FlattenWords(h) : h \in Enrolments}]_vars

\* discard_stale_rx() "prevents a late byte from being mistaken for helper data":
\* the helper file holds nothing, the empty file an interrupted save left, or the
\* helper data of one enrolment, whatever earlier processes left.
SavedIsEnrolled == file \in {None, << >>} \cup {FlattenWords(h) : h \in Enrolments}

\* The tool accepts what the device did: a session or an iteration of stress.
Accepts ==
  \/ verdict' = "ok" /\ verdict # "ok"
  \/ step # "closed" /\ mem'.passed > mem.passed

\* In a session that met an idle device each accepted reconstruction is one the
\* device finished after this command was sent, with exactly the helper bytes this
\* process sent.
AcceptedIsUsed ==
  [][Accepts /\ clean /\ command \in {"reconstruct", "stress"} => used = mem.helper]_vars

\* A session that met an idle device stays in step: what it accepts leaves no byte
\* unread on either side and the device back in its loop, also between the
\* iterations of a stress run.
LeavesNothingBehind == [][Accepts /\ clean => Quiet' /\ stage \in {"cmd", "closing"}]_vars

\* A session that met an idle device only fails when the device reports a failure.
\* Stressing the diagnostic build is the exception: each transaction of the
\* firmware makes its own key, which do_stress() reports as a mismatch.
NoFalseAlarm ==
  step = "closed" /\ verdict = "failed" /\ clean /\ ~faulted
    => command = "stress" /\ export

\* Every invocation of the tool comes to an end by itself.
SessionEnds == step # "closed" ~> step = "closed"

================================================================================
