------------------------------- MODULE UartFrame -------------------------------
(***************************************************************************)
(* What the serial transmitter and receiver share: the length of a bit,    *)
(* the shape of a byte and the states of their FSMs.                       *)
(***************************************************************************)
EXTENDS Naturals

CONSTANTS
  ClksPerBit,  \* CLKS_PER_BIT: 434 on the board
  DataBits     \* 8 in the code

ASSUME UartParameters ==
  /\ ClksPerBit \in Nat \ {0}
  /\ DataBits \in Nat \ {0}

\* A byte is sent least significant bit first; TRUE is a high line.
Bytes      == [0 .. DataBits - 1 -> BOOLEAN]
ZeroByte   == [i \in 0 .. DataBits - 1 |-> FALSE]
UartStates == {"s_IDLE", "s_START_BIT", "s_DATA_BITS", "s_STOP_BIT", "s_CLEANUP"}

================================================================================
