------------------------------- MODULE ByteQueue -------------------------------
(***************************************************************************)
(* What the receive path of soc_peripherals.sv promises the firmware: a    *)
(* queue of Capacity bytes that drops what arrives while it is full and    *)
(* gives out the rest in order, each byte once.  A byte can arrive in the  *)
(* clock in which another one is taken; whether there is room is decided   *)
(* before the taking.                                                      *)
(***************************************************************************)
EXTENDS Naturals, Sequences

CONSTANTS Byte, Capacity

VARIABLES
  queue,     \* the bytes received and not yet read
  taken,     \* the byte the processor read last
  overflow   \* UART_STATUS[2]

queueVars == <<queue, taken, overflow>>

QueueInit ==
  /\ queue = << >>
  /\ taken \in Byte
  /\ overflow = FALSE

Room == Len(queue) < Capacity

Arrive(b) ==
  /\ queue' = IF Room THEN Append(queue, b) ELSE queue
  /\ UNCHANGED taken

Take ==
  /\ queue # << >>
  /\ taken' = Head(queue)
  /\ queue' = Tail(queue)

TakeArrive(b) ==
  /\ queue # << >>
  /\ taken' = Head(queue)
  /\ queue' = IF Room THEN Append(Tail(queue), b) ELSE Tail(queue)

\* A drop sets the overflow flag unless the processor clears it in that clock.
Flag(dropped) ==
  \/ overflow' = (overflow \/ dropped)
  \/ overflow' = FALSE

QueueNext ==
  \/ Take /\ Flag(FALSE)
  \/ \E b \in Byte : (Arrive(b) \/ TakeArrive(b)) /\ Flag(~Room)
  \/ UNCHANGED <<queue, taken>> /\ Flag(FALSE)

QueueSpec == QueueInit /\ [][QueueNext]_queueVars

================================================================================
