----------------------------- MODULE SocPeripherals -----------------------------
(***************************************************************************)
(* soc_peripherals.sv, one clock at a time: the native bus, the receive    *)
(* FIFO, the transmitter behind UART_DATA, the start pulses of SYS_CTRL    *)
(* and the sticky done latches.  The processor is PicoRV32 running the     *)
(* access routines of firmware/main.c; the receiver may signal a byte in   *)
(* any clock, the cores work for any time.                                 *)
(*                                                                         *)
(* The helper and KDF registers, plain storage with no handshake, are      *)
(* modelled at the level of the firmware (module SysDevice).               *)
(***************************************************************************)
EXTENDS UartTx, Sequences

CONSTANTS
  Slots,       \* entries of rx_fifo: 16 in the code
  Cores,       \* the accelerators SYS_CTRL starts
  Nobody       \* no core

ASSUME PeripheralParameters == Slots \in Nat \ {0, 1} /\ Nobody \notin Cores

\* getchar and putchar read UART_DATA and UART_STATUS and write UART_DATA, ack
\* writes UART_STATUS[2], start and poll write and read SYS_CTRL.
Request(kind, arg) == [kind |-> kind, arg |-> arg]
Requests ==
  {Request(k, Nobody) : k \in {"getchar", "status", "ack", "poll"}}
  \cup {Request("putchar", b) : b \in Bytes}
  \cup {Request("start", c) : c \in Cores}

VARIABLES
  memValid, request, memReady,  \* the native bus
  rdData,                       \* mem_rdata: what the read returned
  rxFifo, wrPtr, rdPtr,         \* rx_fifo, rx_wr_ptr, rx_rd_ptr
  rxOverflow,
  txDv, txByte,                 \* the strobe to uart_tx and its byte
  started,                      \* cores whose start pulse is high
  running, pulsing,             \* cores at work; cores whose done pulse is high
  sticky,                       \* cores whose done latch is set
  txFree,    \* firmware: the last UART_STATUS read showed an idle transmitter
  awaited,   \* firmware: the core it waits for
  taken,     \* history: the byte the last successful getchar returned
  overlap    \* history: the last start found an earlier run of its core unfinished

busVars  == <<memValid, request, memReady, rdData>>
fifoVars == <<rxFifo, wrPtr, rdPtr, rxOverflow>>
coreVars == <<started, running, pulsing, sticky>>
cpuVars  == <<txFree, awaited, taken>>
socVars  == <<busVars, fifoVars, coreVars, cpuVars, overlap, txDv, txByte, txVars>>

\* What a read can return: an unread byte if any, status bits, latches.
ReadValues ==
  [valid : BOOLEAN, byte : Bytes, active : BOOLEAN, overflow : BOOLEAN, done : SUBSET Cores]
NoRead == [valid |-> FALSE, byte |-> ZeroByte, active |-> FALSE, overflow |-> FALSE, done |-> {}]

Init ==
  /\ memValid = FALSE
  /\ request \in Requests
  /\ memReady = FALSE
  /\ rdData = NoRead
  /\ rxFifo = [i \in 0 .. Slots - 1 |-> ZeroByte]
  /\ wrPtr = 0
  /\ rdPtr = 0
  /\ rxOverflow = FALSE
  /\ TxInit
  /\ txDv = FALSE
  /\ txByte = ZeroByte
  /\ started = {}
  /\ running = {}
  /\ pulsing = {}
  /\ sticky = {}
  /\ txFree = FALSE
  /\ awaited = Nobody
  /\ taken = ZeroByte
  /\ overlap = FALSE

--------------------------------------------------------------------------------
(***************************************************************************)
(* The bus.  An access is accepted in the clock in which it is seen and    *)
(* answered in the next one.                                               *)
(***************************************************************************)
Accepted == memValid /\ ~memReady
Accepts(kind) == Accepted /\ request.kind = kind
Answered(kind) == memValid /\ memReady /\ request.kind = kind

rxEmpty == wrPtr = rdPtr
rxFull  == (wrPtr + 1) % Slots = rdPtr

Bus ==
  /\ memReady' = Accepted
  /\ rdData' =
       CASE Accepts("getchar") -> [NoRead EXCEPT !.valid = ~rxEmpty, !.byte = rxFifo[rdPtr]]
         [] Accepts("status")  -> [NoRead EXCEPT !.active = txActive, !.overflow = rxOverflow]
         [] Accepts("poll")    -> [NoRead EXCEPT !.done = sticky]
         [] OTHER              -> rdData
  /\ txDv' = Accepts("putchar")
  /\ txByte' = IF Accepts("putchar") THEN request.arg ELSE txByte
  /\ started' = IF Accepts("start") THEN {request.arg} ELSE {}

\* arrived: o_Rx_DV is high; byte: o_Rx_Byte.
ReceiveFifo(arrived, byte, popping) ==
  /\ rxFifo' = IF arrived /\ ~rxFull THEN [rxFifo EXCEPT ![wrPtr] = byte] ELSE rxFifo
  /\ wrPtr' = IF arrived /\ ~rxFull THEN (wrPtr + 1) % Slots ELSE wrPtr
  /\ rxOverflow' = (~Accepts("ack") /\ (rxOverflow \/ (arrived /\ rxFull)))
  /\ rdPtr' = IF popping THEN (rdPtr + 1) % Slots ELSE rdPtr

\* Fault: the read pointer moves on the FIFO not being empty in the second
\* clock of the access instead of on what the access returned.
FifoByOccupancy(arrived, byte) ==
  ReceiveFifo(arrived, byte, Answered("getchar") /\ ~rxEmpty)

Fifo(arrived, byte) == ReceiveFifo(arrived, byte, Answered("getchar") /\ rdData.valid)

\* Fault: the latches follow the pulses.
LatchesTransparent == sticky' = pulsing

\* Fault: the start of an operation does not clear the latch a late pulse sets
\* in the same clock.
LatchesPulseFirst == sticky' = (IF Accepts("start") THEN {} ELSE sticky) \cup pulsing

Latches == sticky' = IF Accepts("start") THEN {} ELSE sticky \cup pulsing

\* A core starts on its pulse unless it is at work, and ends with a pulse.
CoreSteps ==
  \E finished \in SUBSET running :
    /\ pulsing' = finished
    /\ running' = (running \ finished) \cup started

--------------------------------------------------------------------------------
(***************************************************************************)
(* The processor: a request stays up until it is answered, then the bus is *)
(* quiet for at least a clock.  uart_putchar writes only after it read an  *)
(* idle transmitter; from the start of a core it does nothing but poll,    *)
(* until a poll finds it done or HW_TIMEOUT is over (wait_sys_status).     *)
(***************************************************************************)
Allowed(r) ==
  /\ r.kind = "putchar" => txFree
  /\ r.kind = "poll" <=> awaited # Nobody

Cpu ==
  IF memValid
  THEN memValid' = ~memReady /\ UNCHANGED request
  ELSE \/ memValid' = TRUE /\ \E r \in Requests : Allowed(r) /\ request' = r
       \/ UNCHANGED <<memValid, request>>

Firmware ==
  /\ txFree' = CASE Answered("status") -> ~rdData.active
                 [] Answered("putchar") -> FALSE
                 [] OTHER -> txFree
  /\ awaited' \in CASE Accepts("start") -> {request.arg}
                    [] Answered("poll") /\ awaited \in rdData.done -> {Nobody}
                    [] Answered("poll") /\ awaited \notin rdData.done -> {awaited, Nobody}
                    [] OTHER -> {awaited}

History ==
  /\ taken' = IF Answered("getchar") /\ rdData.valid THEN rdData.byte ELSE taken
  /\ overlap' = IF Accepts("start") THEN request.arg \in running \cup started ELSE overlap

Clock ==
  \E arrived \in BOOLEAN, byte \in Bytes :
    /\ arrived \/ byte = ZeroByte
    /\ Bus
    /\ Fifo(arrived, byte)
    /\ Latches
    /\ CoreSteps
    /\ TxClock(txDv, txByte)
    /\ Cpu
    /\ Firmware
    /\ History

Next == Clock
Spec == Init /\ [][Next]_socVars

--------------------------------------------------------------------------------
TypeOK ==
  /\ TxTypeOK
  /\ memValid \in BOOLEAN
  /\ memReady \in BOOLEAN
  /\ request \in Requests
  /\ rdData \in ReadValues
  /\ rxFifo \in [0 .. Slots - 1 -> Bytes]
  /\ wrPtr \in 0 .. Slots - 1
  /\ rdPtr \in 0 .. Slots - 1
  /\ {rxOverflow, txDv, txFree, overlap} \subseteq BOOLEAN
  /\ {txByte, taken} \subseteq Bytes
  /\ {started, running, pulsing, sticky} \subseteq SUBSET Cores
  /\ awaited \in Cores \cup {Nobody}

\* A byte written by uart_putchar reaches the transmitter in s_IDLE, the only
\* state in which it looks at its strobe, although the firmware has last seen
\* o_Tx_Active several clocks before and the flag falls a clock before s_IDLE.
NoByteLost == txDv => txState = "s_IDLE"

\* The core the firmware waits for is about to start, at work, pulsing done or
\* latched: its one-clock pulse is never lost, so polling ends.
DoneNeverLost ==
  awaited # Nobody => awaited \in started \cup running \cup pulsing \cup sticky

\* What a poll returns for the awaited core is this start's completion, not an
\* earlier one's, also when that one was given up and pulses as late as in the
\* clock of the start; only a run that is still going on then can be mistaken.
DoneIsFresh == awaited \in sticky /\ ~overlap => awaited \notin started \cup running

\* The FIFO with its two pointers and its two-clock read is a queue with one
\* place less than it has slots.
FifoContents ==
  [i \in 1 .. (wrPtr + Slots - rdPtr) % Slots |-> rxFifo[(rdPtr + i - 1) % Slots]]
Queue == INSTANCE ByteQueue
           WITH Byte <- Bytes, Capacity <- Slots - 1,
                queue <- FifoContents, overflow <- rxOverflow
ImplementsQueue == Queue!QueueSpec

================================================================================
