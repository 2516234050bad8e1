------------------------------- MODULE CavpImport -------------------------------
(***************************************************************************)
(* sim/fips202/import_nist_cavp.py, which makes the vectors the sponge is  *)
(* tested with: it reads the response files of the NIST line by line,      *)
(* gathers the fields between two blank lines in a record, selects         *)
(* records, checks each with hashlib and writes all of them in the end.    *)
(*                                                                         *)
(* A response file is any sequence of lines, a result is the message it is *)
(* the digest of, and a field remembers the block of lines it stood in.    *)
(***************************************************************************)
EXTENDS Naturals, Sequences, SequencesExt, FiniteSetsExt

CONSTANTS
  Wanted,        \* the message lengths looked for, in their order
  CavpMessages,  \* messages in the files
  Empty,         \* the empty message
  MaxLines       \* bound on the lines of a file

ASSUME CavpParameters == Wanted \in Seq(Nat) /\ Empty \in CavpMessages

VARIABLES
  file,      \* the response file being read; "written" or "failed" in the end
  parsing,   \* FALSE when its text is over
  current, records,
  vectors,   \* what main() has gathered from the files before
  lineCount,
  block,     \* history: blank lines met
  present    \* history: the fields of each block

importVars == <<file, parsing, current, records, vectors, lineCount, block, present>>

\* "size" is Len where the messages differ in length, Outputlen where the digests do.
Fields == {"size", "Msg", "result"}
Values(key) == IF key = "size" THEN ToSet(Wanted) ELSE CavpMessages

NoRecord == [k \in {} |-> Empty]

StartFile(f) ==
  /\ file' = f
  /\ parsing' = (f \notin {"written", "failed"})
  /\ current' = NoRecord
  /\ records' = << >>
  /\ lineCount' = 0
  /\ block' = 0
  /\ present' = {}

ImportInit ==
  /\ file = "short" /\ parsing = TRUE
  /\ current = NoRecord /\ records = << >> /\ vectors = << >>
  /\ lineCount = 0 /\ block = 0 /\ present = {}

\* mutant: only a complete record is cleared
FinishRecordKept ==
  IF {"Msg", "result"} \subseteq DOMAIN current
  THEN records' = Append(records, current) /\ current' = NoRecord
  ELSE UNCHANGED <<records, current>>

FinishRecord ==
  /\ records' = IF {"Msg", "result"} \subseteq DOMAIN current
                THEN Append(records, current) ELSE records
  /\ current' = NoRecord

NextLine == parsing /\ lineCount < MaxLines /\ lineCount' = lineCount + 1

BlankLine ==
  /\ NextLine
  /\ FinishRecord
  /\ block' = block + 1
  /\ UNCHANGED <<file, parsing, vectors, present>>

\* a comment, a section header, a line without "="
OtherLine ==
  /\ NextLine
  /\ UNCHANGED <<file, parsing, current, records, vectors, block, present>>

FieldLine ==
  /\ NextLine
  /\ \E key \in Fields : \E value \in Values(key) :
       /\ current' = [k \in {key} \cup DOMAIN current |->
                         IF k = key THEN [is |-> value, from |-> block] ELSE current[k]]
       /\ present' = present \cup {<<block, key>>}
  /\ UNCHANGED <<file, parsing, records, vectors, block>>

EndOfText ==
  /\ parsing
  /\ parsing' = FALSE
  /\ FinishRecord
  /\ block' = block + 1
  /\ UNCHANGED <<file, vectors, lineCount, present>>

--------------------------------------------------------------------------------
Sized(n) == SelectSeq(records, LAMBDA r : "size" \in DOMAIN r /\ r.size.is = n)

\* for byte_length in (0, 1, rate - 1, rate, rate + 1); select_length()
ByLength ==
  LET offered == SelectSeq(Wanted, LAMBDA n : Sized(n) # << >>)
  IN  [i \in DOMAIN offered |-> Head(Sized(offered[i]))]

\* max() of no records, or of a record without an Outputlen, raises.
CanMaximise == records # << >> /\ \A i \in DOMAIN records : "size" \in DOMAIN records[i]
LongestOutput == <<Head(Sized(Max({r.size.is : r \in ToSet(records)})))>>

\* record_to_line(): the message of a record of length zero is empty.
Message(r) == IF file = "short" /\ r.size.is = 0 THEN Empty ELSE r.Msg.is

Genuine(r) == r.result.is = Message(r)

Gather(selected, next) ==
  IF \A i \in DOMAIN selected : Genuine(selected[i])
  THEN /\ vectors' = vectors \o [i \in DOMAIN selected |->
                       [message |-> Message(selected[i]), expected |-> selected[i].result.is]]
       /\ StartFile(next)
  ELSE StartFile("failed") /\ UNCHANGED vectors

SelectByLength == ~parsing /\ file = "short" /\ Gather(ByLength, "variable")

SelectLongest ==
  /\ ~parsing /\ file = "variable"
  /\ IF CanMaximise THEN Gather(LongestOutput, "written")
                    ELSE StartFile("failed") /\ UNCHANGED vectors

ImportNext == BlankLine \/ OtherLine \/ FieldLine \/ EndOfText \/ SelectByLength \/ SelectLongest

--------------------------------------------------------------------------------
\* For any text: the records are the blocks between blank lines that have a
\* message and a result, in their order, each with the fields of its own block
\* and nothing left over from a header or an incomplete block before it.
RecordsAreBlocks ==
  LET fields(b) == {k \in Fields : <<b, k>> \in present}
      complete == {b \in 0 .. block - 1 : {"Msg", "result"} \subseteq fields(b)}
      origin(i) == records[i].Msg.from
  IN  /\ Len(records) = Cardinality(complete)
      /\ \A i \in DOMAIN records :
           /\ origin(i) \in complete
           /\ DOMAIN records[i] = fields(origin(i))
           /\ \A k \in DOMAIN records[i] : records[i][k].from = origin(i)
           /\ \A j \in 1 .. i - 1 : origin(j) < origin(i)

================================================================================
