-------------------------------- MODULE NttFeed --------------------------------
(***************************************************************************)
(* The multiplication of a matrix by a vector in the NTT cores: the phase  *)
(* states that take the coefficients of the matrix from the FIFO the       *)
(* rejection sampling of the hash core fills.  The FSM looks at fifo0_empty *)
(* and counts; the FIFO is read by the same state two clocks later and the *)
(* word is multiplied another clock later, at the address counted then.    *)
(*                                                                         *)
(* The sampling of the noise and the transforms between two rows are one   *)
(* state of any duration.  A product is the number of the word it is of,   *)
(* and is in RAM4 as soon as its word is in the butterfly: a column is far *)
(* longer than the butterfly.                                              *)
(***************************************************************************)
EXTENDS SyncFifo

CONSTANTS
  Coefs,  \* words of a column (128)
  Rank    \* rows and columns of the matrix (k)

Total == Rank * Rank * Coefs

\* The FIFO holds the whole matrix; the pipeline is shorter than a column.
ASSUME FeedParameters ==
  /\ Coefs \in Nat /\ Coefs > 3
  /\ Rank \in Nat \ {0}
  /\ Depth >= Total
  /\ Word = 0 .. Total /\ FifoZero = 0

VARIABLES
  waits,         \* a column begins in state a: key generation in the Server
  state, ctrK, col, row,
  pipe,          \* state_r1 .. state_r3: whether it was b, and ctr_k then
  ram4,          \* the words multiplied, by address
  produced,      \* words the hash core has written
  dry            \* history: the FIFO was empty while the phase wanted a word

phaseVars == <<state, ctrK, col, row>>
feedVars == <<fifoVars, waits, phaseVars, pipe, ram4, produced, dry>>

Index == 0 .. Coefs - 1
NoWish == [on |-> FALSE, at |-> 0]

FeedInit ==
  /\ mem = [a \in Address |-> FifoZero]
  /\ wrPtr = Origin /\ rdPtr = Origin /\ rdData = FifoZero
  /\ waits \in BOOLEAN
  /\ state = "row" /\ ctrK = 0 /\ col = 0 /\ row = 0
  /\ pipe = <<NoWish, NoWish, NoWish>>
  /\ ram4 = [j \in Index |-> FifoZero]
  /\ produced = 0
  /\ dry = FALSE

Column == IF waits THEN "a" ELSE "b"

\* States 6 to 9, or 29 to 2e, and whatever precedes the first row.
Row ==
  /\ state = "row"
  /\ state' \in {"row", Column}
  /\ UNCHANGED <<ctrK, col, row>>

Wait ==
  /\ state = "a"
  /\ state' = IF rdEmpty THEN "a" ELSE "b"
  /\ UNCHANGED <<ctrK, col, row>>

\* mutant: the counter moves whether there is a word or not
TakeUncounted ==
  /\ state = "b"
  /\ ctrK' = (ctrK + 1) % Coefs
  /\ state' = IF ctrK = Coefs - 1 /\ ~rdEmpty THEN "c" ELSE "b"
  /\ UNCHANGED <<col, row>>

\* States b and 26 of the Server, 6 of the Client.
Take ==
  /\ state = "b"
  /\ ctrK' = IF rdEmpty THEN ctrK ELSE (ctrK + 1) % Coefs
  /\ state' = IF ctrK = Coefs - 1 /\ ~rdEmpty THEN "c" ELSE "b"
  /\ UNCHANGED <<col, row>>

Accumulate ==
  /\ state = "c"
  /\ ctrK' = (ctrK + 1) % Coefs
  /\ state' = IF ctrK = Coefs - 1 THEN "d" ELSE "c"
  /\ UNCHANGED <<col, row>>

NextColumn ==
  /\ state = "d"
  /\ ctrK' = 0
  /\ col' = (col + 1) % Rank
  /\ row' = IF col = Rank - 1 THEN row + 1 ELSE row
  /\ state' = IF col < Rank - 1 THEN Column ELSE IF row < Rank - 1 THEN "row" ELSE "done"

Done == state = "done" /\ UNCHANGED phaseVars

\* fifo0_req, and what din holds, three clocks after the state they belong to
\* mutant: the FIFO is read one clock early
FeedEarly ==
  /\ ReadPort(pipe[1].on)
  /\ ram4' = IF pipe[3].on THEN [ram4 EXCEPT ![pipe[3].at] = rdData] ELSE ram4
  /\ pipe' = <<[on |-> state = "b", at |-> ctrK], pipe[1], pipe[2]>>

Feed ==
  /\ ReadPort(pipe[2].on)
  /\ ram4' = IF pipe[3].on THEN [ram4 EXCEPT ![pipe[3].at] = rdData] ELSE ram4
  /\ pipe' = <<[on |-> state = "b", at |-> ctrK], pipe[1], pipe[2]>>

\* The hash core stops after the words of the matrix.
Produce(wrEn) ==
  /\ wrEn => produced < Total
  /\ WritePort(wrEn, IF wrEn THEN produced + 1 ELSE FifoZero)
  /\ produced' = IF wrEn THEN produced + 1 ELSE produced

Phase == Row \/ Wait \/ Take \/ Accumulate \/ NextColumn \/ Done

FeedNext ==
  /\ Phase
  /\ Feed
  /\ \E wrEn \in BOOLEAN : Produce(wrEn)
  /\ dry' = (dry \/ (rdEmpty /\ (state = "b" \/ pipe[2].on)))
  /\ UNCHANGED waits

FeedSpec == FeedInit /\ [][FeedNext]_feedVars

\* Clocks go on, the transforms end and the hash core makes the whole matrix.
FeedFairSpec ==
  /\ FeedSpec
  /\ WF_feedVars(FeedNext)
  /\ WF_feedVars(FeedNext /\ state = "row" /\ state' # "row")
  /\ WF_feedVars(FeedNext /\ produced' # produced)

--------------------------------------------------------------------------------
Columns == row * Rank + col

\* While the sampling stays ahead of the phase, each coefficient of a column is
\* multiplied with its own word, in every column of every row: no word is read
\* twice, skipped or left for the next column, although the FIFO is read two
\* clocks after the FSM counted the word.
OwnWord == ~dry /\ state = "c" => ram4[ctrK] = Columns * Coefs + ctrK + 1

\* However sparse the sampling is, a key generation that has begun its first
\* column ends; encryption and decryption, which do not wait before a column, do
\* as long as the sampling stays ahead.
PhaseEnds == state # "row" ~> (state = "done" \/ (dry /\ ~waits))

\* A column is left when its last word has been made (see the README).
LastWordWaited == state = "c" => produced >= (Columns + 1) * Coefs

================================================================================
