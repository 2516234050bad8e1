-------------------------------- MODULE UartLink --------------------------------
(***************************************************************************)
(* A transmitter and a receiver on one wire, each with its own clock.  In  *)
(* a step both clocks tick, or one of them gains a tick on the other; in   *)
(* one frame they drift apart by at most MaxDrift ticks, in either         *)
(* direction.  The receiver sees the line through its two flops only.  The *)
(* sender hands over a byte whenever the transmitter is idle and shows it  *)
(* by its active flag, back to back or not.                                *)
(***************************************************************************)
EXTENDS UartTx, UartRx, Sequences, SequencesExt

CONSTANTS
  MaxDrift,  \* by how many ticks the clocks may drift apart in one frame
  MaxBytes   \* bound: how many bytes are sent

\* The receiver looks at a bit (ClksPerBit - 1) \div 2 clocks after it began, two
\* flops late: less than the rest of the bit must be left to the drift.
ASSUME LinkParameters ==
  /\ MaxDrift \in Nat
  /\ (ClksPerBit - 1) \div 2 + MaxDrift + 2 <= ClksPerBit

VARIABLES
  ahead,     \* how far ahead the transmitter is of the furthest it may fall behind
  sent,      \* history: bytes given to the transmitter
  received   \* history: bytes the receiver signalled with o_Rx_DV

linkVars == <<txVars, rxVars, ahead, sent, received>>

LinkInit ==
  /\ TxInit
  /\ RxInit
  /\ ahead = 0
  /\ sent = << >>
  /\ received = << >>

\* The receiver lines up again with every start bit: a frame begins with any
\* of its drift still to come on either side.
Transmit(drift) ==
  \E dv \in BOOLEAN, byte \in Bytes :
    /\ ~dv => byte = ZeroByte
    /\ dv => txState = "s_IDLE" /\ ~txActive /\ Len(sent) < MaxBytes
    /\ TxClock(dv, byte)
    /\ sent' = IF dv THEN Append(sent, byte) ELSE sent
    /\ ahead' \in IF dv THEN 0 .. MaxDrift ELSE {drift}

Receive ==
  /\ RxClock(serial)
  /\ received' = IF rxDv THEN Append(received, rxByte) ELSE received

\* Only a sending transmitter drifts: on an idle line there is nothing to measure by.
Both == Transmit(ahead) /\ Receive
TransmitterGains ==
  /\ txState # "s_IDLE"
  /\ ahead < MaxDrift
  /\ Transmit(ahead + 1)
  /\ UNCHANGED <<rxVars, received>>
ReceiverGains ==
  /\ txState # "s_IDLE"
  /\ ahead > 0
  /\ ahead' = ahead - 1
  /\ Receive
  /\ UNCHANGED <<txVars, sent>>

LinkNext == Both \/ TransmitterGains \/ ReceiverGains
LinkSpec == LinkInit /\ [][LinkNext]_linkVars
LinkFairSpec == LinkSpec /\ WF_linkVars(Both)

--------------------------------------------------------------------------------
LinkTypeOK ==
  /\ TxTypeOK
  /\ RxTypeOK
  /\ ahead \in 0 .. MaxDrift
  /\ {sent, received} \subseteq Seq(Bytes)

\* The receiver reports exactly the bytes that were sent, in order, also when
\* frames follow each other without a gap and the clocks drift.
ReceivedAsSent == IsPrefix(received, sent)

\* Every byte given to the transmitter is reported in the end, and the active
\* flag that uart_putchar waits for without a watchdog falls again.
AllReceived ==
  /\ \A n \in 1 .. MaxBytes : Len(sent) >= n ~> Len(received) >= n
  /\ txActive ~> ~txActive

================================================================================
