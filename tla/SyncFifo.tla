-------------------------------- MODULE SyncFifo --------------------------------
(***************************************************************************)
(* The one-clock FIFO generic_fifo_sync of generic_fifo.sv, which every    *)
(* wrapper of fifo_wrappers.v instantiates: one clock edge with any of its *)
(* inputs.                                                                 *)
(*                                                                         *)
(* A pointer of ADDR_WIDTH + 1 bits is its top bit and the address below.  *)
(* DEPTH is a power of two in every instance, so the address runs from 0   *)
(* to Depth - 1 and its carry flips the top bit.                           *)
(***************************************************************************)
EXTENDS Integers, Sequences

CONSTANTS
  Depth,     \* DEPTH
  Word,      \* the words written
  FifoZero   \* what the registers are reset to

ASSUME FifoParameters == Depth \in Nat \ {0} /\ FifoZero \in Word

VARIABLES mem, wrPtr, rdPtr, rdData

fifoVars == <<mem, wrPtr, rdPtr, rdData>>

Address == 0 .. Depth - 1
Pointer == [top : BOOLEAN, at : Address]
Origin == [top |-> FALSE, at |-> 0]

Advance(p) == IF p.at = Depth - 1 THEN [top |-> ~p.top, at |-> 0]
                                  ELSE [top |-> p.top, at |-> p.at + 1]

wrFull  == wrPtr.top # rdPtr.top /\ wrPtr.at = rdPtr.at

rdEmpty == wrPtr = rdPtr

\* wr_count and rd_count, which prog_full of the wrappers compares with a threshold.
Count == IF wrPtr.top = rdPtr.top THEN wrPtr.at - rdPtr.at ELSE Depth + wrPtr.at - rdPtr.at

\* What power-on leaves in the memory is not read before it is written.
FifoInit ==
  /\ mem \in [Address -> Word]
  /\ wrPtr = Origin /\ rdPtr = Origin
  /\ rdData = FifoZero

WritePort(wrEn, word) ==
  /\ wrPtr' = IF wrEn /\ ~wrFull THEN Advance(wrPtr) ELSE wrPtr
  /\ mem' = IF wrEn /\ ~wrFull THEN [mem EXCEPT ![wrPtr.at] = word] ELSE mem

\* mutant: an empty FIFO is read
ReadPortAlways(rdEn) ==
  /\ rdPtr' = IF rdEn THEN Advance(rdPtr) ELSE rdPtr
  /\ rdData' = IF rdEn THEN mem[rdPtr.at] ELSE rdData

ReadPort(rdEn) ==
  /\ rdPtr' = IF rdEn /\ ~rdEmpty THEN Advance(rdPtr) ELSE rdPtr
  /\ rdData' = IF rdEn /\ ~rdEmpty THEN mem[rdPtr.at] ELSE rdData

FifoClock == \E wrEn, rdEn \in BOOLEAN, word \in Word : WritePort(wrEn, word) /\ ReadPort(rdEn)

\* The memory is written in a block of its own that knows no reset.
Reset ==
  /\ wrPtr' = Origin /\ rdPtr' = Origin /\ rdData' = FifoZero
  /\ \E wrEn \in BOOLEAN, word \in Word :
       mem' = IF wrEn /\ ~wrFull THEN [mem EXCEPT ![wrPtr.at] = word] ELSE mem

FifoNext == FifoClock \/ Reset

FifoSpec == FifoInit /\ [][FifoNext]_fifoVars

--------------------------------------------------------------------------------
\* The registers keep their types and the write pointer is at most one turn
\* ahead of the read pointer.
FifoTypeOK ==
  /\ mem \in [Address -> Word]
  /\ wrPtr \in Pointer
  /\ rdPtr \in Pointer
  /\ rdData \in Word
  /\ wrPtr.top = rdPtr.top => rdPtr.at <= wrPtr.at
  /\ wrPtr.top # rdPtr.top => wrPtr.at <= rdPtr.at

Slot(i) == IF rdPtr.at + i - 1 < Depth THEN rdPtr.at + i - 1 ELSE rdPtr.at + i - 1 - Depth
Stored == [i \in 1 .. Count |-> mem[Slot(i)]]

\* The words between the pointers are a queue: none is lost, doubled, overtaken
\* or overwritten, whatever both ends do in one clock.
Queue == INSTANCE FifoQueue WITH Capacity <- Depth, Zero <- FifoZero, queue <- Stored, out <- rdData
ImplementsQueue == Queue!QueueSpec

================================================================================
