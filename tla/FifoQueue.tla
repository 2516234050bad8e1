------------------------------- MODULE FifoQueue -------------------------------
(***************************************************************************)
(* What a FIFO of the Kyber cores promises the FSMs at its two ends: a     *)
(* queue of Capacity words that ignores a write while it is full and a     *)
(* read while it is empty.  The word read is on the output from the next   *)
(* clock on.  Both ends may act in one clock, and each decides on what was *)
(* in the queue before it: a full queue takes no word in the clock in      *)
(* which one is read, an empty one gives none in the clock in which one    *)
(* is written.                                                             *)
(***************************************************************************)
EXTENDS Naturals, Sequences

CONSTANTS Word, Capacity, Zero

VARIABLES
  queue,  \* the words written and not yet read
  out     \* the word read last

QueueInit == queue = << >> /\ out = Zero

Accepted(write, word) == IF write /\ Len(queue) < Capacity THEN <<word>> ELSE << >>
Remaining(read) == IF read /\ queue # << >> THEN Tail(queue) ELSE queue

QueueStep(write, word, read) ==
  /\ queue' = Remaining(read) \o Accepted(write, word)
  /\ out' = IF read /\ queue # << >> THEN Head(queue) ELSE out

QueueReset == queue' = << >> /\ out' = Zero

QueueNext ==
  \/ \E write, read \in BOOLEAN, word \in Word : QueueStep(write, word, read)
  \/ QueueReset

QueueSpec == QueueInit /\ [][QueueNext]_<<queue, out>>

================================================================================
