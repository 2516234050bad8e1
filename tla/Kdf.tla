----------------------------------- MODULE Kdf -----------------------------------
(***************************************************************************)
(* The key derivation kdf_keccak.sv on top of the sponge, clock by clock:  *)
(* it feeds the key byte by byte and collects the seed.  SYS_CTRL may      *)
(* pulse start at any time, the key input may change at any time.          *)
(***************************************************************************)
EXTENDS Sponge

CONSTANTS
  Kdf256,     \* the mode it uses: SHAKE256
  KeyBytes,   \* 24 in the code
  SeedBytes,  \* 64 in the code
  Keys        \* keys the fuzzy extractor gives out in this instance

ASSUME KdfParameters ==
  /\ Kdf256 \in Modes
  /\ DigestLen[Kdf256] = AnyLen
  /\ {KeyBytes, SeedBytes} \subseteq Nat \ {0}

KdfStates == {"ST_IDLE", "ST_START", "ST_FEED", "ST_READ", "ST_WAIT"}

VARIABLES
  kdState, byteCount,
  keyShift,   \* the bytes still to feed: whose key, from which byte on
  seedOut,
  kdDone,
  derivedOf   \* history: the key the last derivation was started with

kdfVars == <<kdState, byteCount, keyShift, seedOut, kdDone, derivedOf, spongeVars>>

NoKey == "none"
NoByte == [permuted |-> << >>, byte |-> 0, over |-> {}]
NoSeed == [i \in 0 .. SeedBytes - 1 |-> NoByte]

Init ==
  /\ SpongeInit
  /\ kdState = "ST_IDLE"
  /\ byteCount = 0
  /\ keyShift = [key |-> NoKey, from |-> 0]
  /\ seedOut = NoSeed
  /\ kdDone = FALSE
  /\ derivedOf = NoKey

--------------------------------------------------------------------------------
KdIdle(start, key) ==
  /\ kdState = "ST_IDLE"
  /\ kdDone' = FALSE
  /\ IF start
       THEN /\ keyShift' = [key |-> key, from |-> 0]
            /\ seedOut' = NoSeed
            /\ byteCount' = 0
            /\ kdState' = "ST_START"
            /\ derivedOf' = key
       ELSE UNCHANGED <<keyShift, seedOut, byteCount, kdState, derivedOf>>

KdStart ==
  /\ kdState = "ST_START"
  /\ kdDone' = FALSE
  /\ kdState' = "ST_FEED"
  /\ UNCHANGED <<keyShift, seedOut, byteCount, derivedOf>>

KdFeedUntil(lastCount) ==
  /\ kdState = "ST_FEED"
  /\ kdDone' = FALSE
  /\ IF ~inReady
       THEN UNCHANGED <<keyShift, byteCount, kdState>>
       ELSE /\ keyShift' = [keyShift EXCEPT !.from = @ + 1]
            /\ byteCount' = IF byteCount = lastCount THEN 0 ELSE byteCount + 1
            /\ kdState' = IF byteCount = lastCount THEN "ST_READ" ELSE kdState
  /\ UNCHANGED <<seedOut, derivedOf>>

\* Fault: one byte more than the sponge was told to expect.
KdFeedLong == KdFeedUntil(KeyBytes)

KdFeed == KdFeedUntil(KeyBytes - 1)

KdReadAt(index) ==
  /\ kdState = "ST_READ"
  /\ kdDone' = FALSE
  /\ IF ~outValid
       THEN UNCHANGED <<seedOut, byteCount, kdState>>
       ELSE /\ seedOut' = [seedOut EXCEPT ![index] = outData]
            /\ byteCount' = IF outLast THEN 0 ELSE byteCount + 1
            /\ kdState' = IF outLast THEN "ST_WAIT" ELSE kdState
  /\ UNCHANGED <<keyShift, derivedOf>>

\* Fault: the digest is stored last byte first.
KdReadReversed == KdReadAt(SeedBytes - 1 - byteCount)

KdRead == KdReadAt(byteCount)

KdWait ==
  /\ kdState = "ST_WAIT"
  /\ kdDone' = spDone
  /\ seedOut' = IF spDone /\ spError THEN NoSeed ELSE seedOut
  /\ kdState' = IF spDone THEN "ST_IDLE" ELSE kdState
  /\ UNCHANGED <<keyShift, byteCount, derivedOf>>

KdfClock(start, key) ==
  \/ KdIdle(start, key)
  \/ KdStart
  \/ KdFeed
  \/ KdRead
  \/ KdWait

Clock ==
  \E start \in BOOLEAN, key \in Keys :
    /\ KdfClock(start, key)
    /\ SpongeClock(kdState = "ST_START", Kdf256, KeyBytes, SeedBytes,
                   kdState = "ST_FEED", ByteOf(keyShift.key, keyShift.from), kdState = "ST_READ")

\* rst_n resets both; derivations start over.
MidReset ==
  /\ SpongeReset
  /\ kdState' = "ST_IDLE"
  /\ byteCount' = 0
  /\ keyShift' = [key |-> NoKey, from |-> 0]
  /\ seedOut' = NoSeed
  /\ kdDone' = FALSE
  /\ derivedOf' = NoKey

Next == Clock \/ MidReset
Spec == Init /\ [][Next]_kdfVars

--------------------------------------------------------------------------------
TypeOK ==
  /\ SpongeTypeOK
  /\ kdState \in KdfStates
  /\ byteCount \in 0 .. IF kdState = "ST_FEED" THEN KeyBytes - 1 ELSE SeedBytes - 1
  /\ keyShift.from \in 0 .. KeyBytes
  /\ DOMAIN seedOut = 0 .. SeedBytes - 1
  /\ kdDone \in BOOLEAN

\* When done is pulsed the seed is SHAKE256 of the key the derivation was
\* started with, whole and in order, whatever the key input did meanwhile and
\* whatever was derived, or cut off by a reset, before.
SeedIsDigest ==
  kdDone => \A i \in 0 .. SeedBytes - 1 : seedOut[i] = DigestByte(Kdf256, derivedOf, KeyBytes, i)

\* The two state machines never wait for each other for ever: every derivation
\* ends unless it is reset.
DerivationEnds == (kdState # "ST_IDLE") ~> (kdDone \/ spState = "ST_RESET_CLEAR")

================================================================================
