------------------------------ MODULE SpongeUsers ------------------------------
(***************************************************************************)
(* A sponge and its user, which never changes: the key derivation of the   *)
(* SoC, or any user of the byte streams, as the cores of the KEM and the   *)
(* test bench are.  The third user is the script that makes the vectors of *)
(* the test bench and leaves the hardware alone.                           *)
(***************************************************************************)
EXTENDS Kdf, SpongeStream, CavpImport

VARIABLE user

kdVars == <<kdState, byteCount, keyShift, seedOut, kdDone, derivedOf>>
streamUserVars == <<job, taken, given>>
usersVars == <<user, kdfVars, streamUserVars, importVars>>

UsersInit ==
  /\ user \in {"kdf", "stream", "import"}
  /\ Init
  /\ StreamInit
  /\ ImportInit

KdfUses(step) == user = "kdf" /\ step /\ UNCHANGED <<user, streamUserVars, importVars>>
StreamUses(step) == user = "stream" /\ step /\ UNCHANGED <<user, kdVars, importVars>>
Imports(step) == user = "import" /\ step /\ UNCHANGED <<user, kdfVars, streamUserVars>>

UsersNext == KdfUses(Next) \/ StreamUses(StreamNext) \/ Imports(ImportNext)

UsersSpec == UsersInit /\ [][UsersNext]_usersVars

\* Clocks go on, and a user of the streams offers and takes bytes.
UsersFairSpec ==
  /\ UsersSpec
  /\ WF_usersVars(KdfUses(Clock))
  /\ WF_usersVars(StreamUses(StreamClock /\ Serving /\ Consuming))

--------------------------------------------------------------------------------
\* What a user asks of the sponge comes to an end, unless it is reset: a
\* transaction of any lengths, and a derivation, where the two FSMs wait for each
\* other byte by byte.
UsersServed == TransactionEnds /\ DerivationEnds

================================================================================
