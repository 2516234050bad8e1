----------------------------- MODULE SpongeStream -----------------------------
(***************************************************************************)
(* The sponge with any user that keeps its protocol: it may pulse start at *)
(* any time, offers a byte until it is taken, takes a byte when it likes.  *)
(***************************************************************************)
EXTENDS Sponge

CONSTANT Lengths  \* bound: the message and output lengths asked for

ASSUME LengthsAssumption == Lengths \subseteq Nat

VARIABLES
  job,    \* history: what the transaction in progress was asked for
  taken,  \* how many message bytes it has taken
  given   \* the bytes it has given out

streamVars == <<spongeVars, job, taken, given>>

NoJob == [mode |-> CHOOSE m \in Modes : TRUE, msgLen |-> 0, outLen |-> 0]

StreamInit == SpongeInit /\ job = NoJob /\ taken = 0 /\ given = << >>

Accepts(start, mode, outLen) == start /\ spState = "ST_IDLE" /\ DigestLen[mode] \in {AnyLen, outLen}

StreamClock ==
  \E start, inValid, outReady \in BOOLEAN, mode \in Modes, msgLen, outLen \in Lengths :
    /\ ~(start /\ spState = "ST_IDLE") => mode = NoJob.mode /\ msgLen = 0 /\ outLen = 0
    /\ SpongeClock(start, mode, msgLen, outLen, inValid, ByteOf("msg", taken), outReady)
    /\ IF Accepts(start, mode, outLen)
         THEN /\ job' = [mode |-> mode, msgLen |-> msgLen, outLen |-> outLen]
              /\ taken' = 0
              /\ given' = << >>
         ELSE /\ UNCHANGED job
              /\ taken' = IF inValid /\ inReady THEN taken + 1 ELSE taken
              /\ given' = IF outValid /\ outReady THEN Append(given, outData) ELSE given

\* rst_n, at any time; the user starts over.
StreamReset == SpongeReset /\ job' = NoJob /\ taken' = 0 /\ given' = << >>

StreamNext == StreamClock \/ StreamReset
StreamSpec == StreamInit /\ [][StreamNext]_streamVars

\* The user offers and takes bytes.
Serving == inReady => taken' # taken
Consuming == outValid => given' # given

--------------------------------------------------------------------------------
StreamTypeOK == SpongeTypeOK /\ taken \in 0 .. job.msgLen /\ Len(given) <= job.outLen

\* What is given out is the digest of exactly the bytes taken: each message
\* byte absorbed once and in order, the padding right also when the message
\* ends with a block or one byte before, every permutation whole, and the
\* output continued over as many blocks as it is long.
DigestIsRight ==
  /\ \A j \in 1 .. Len(given) : given[j] = DigestByte(job.mode, "msg", job.msgLen, j - 1)
  /\ spDone /\ ~spError => taken = job.msgLen /\ Len(given) = job.outLen

\* A transaction ends, or is reset.
TransactionEnds == (spState \notin {"ST_IDLE", "ST_RESET_CLEAR"}) ~> (spDone \/ spState = "ST_RESET_CLEAR")

================================================================================
