------------------------------ MODULE KyberWrapper ------------------------------
(***************************************************************************)
(* One clock at a time: the native bus of PicoRV32, the AXI bridge of      *)
(* riscv_soc.sv, the register file and launch control of                   *)
(* kyber_axi_wrapper.v and, at the level of their handshakes, the two      *)
(* Kyber cores.  Every always block is one operator and Clock is their     *)
(* conjunction, so all registers change together on the clock edge.        *)
(*                                                                         *)
(* A seed bank of 24 words is one register here; reg_k is left out because *)
(* nothing can change it from 2.                                           *)
(***************************************************************************)
EXTENDS Naturals

CONSTANTS
  Secrets,   \* the values the seed registers can be loaded with
  Zero       \* their cleared value

\* What the processor can ask for: CTRL takes 1 (start) or 2 (zeroize).
Writes   == [reg : {"seed"}, value : Secrets]
            \cup [reg : {"param"}, value : {2, 3}]
            \cup [reg : {"ctrl"}, value : {1, 2}]
ReadStatus == [reg |-> "status", value |-> 0]
Requests == Writes \cup {ReadStatus}

BridgeStates == {"idle", "write_req", "write_resp", "read_req", "read_resp", "wait_drop"}

\* A core works, streams its public key or ciphertext, works again and ends
\* with the KDF that shifts the shared secret into K.
Phases == {"idle", "early", "send", "late", "kdf"}
Keys   == {"zero", "server_partial", "client_partial", "agreed", "differs"}

VARIABLES
  memValid,    \* PicoRV32 holds a request to the Kyber window
  request,     \* its address and data
  bridge,      \* bridge_state
  held,        \* bridge_addr, bridge_wdata and bridge_wstrb
  awready,     \* and wready, which always has the same value
  bvalid,
  arready,
  rvalid,
  rdata,       \* the status word latched by the last read
  seed,        \* reg_seed_d, reg_seed_z, reg_seed_m
  launch,      \* launch_state: "idle", "reset" or "start"
  startAfter,  \* launch_start_after_reset
  done,        \* kyber_done_sticky
  streamed,    \* which of valid_server_sticky and valid_client_sticky are set
  busy,        \* kyber_busy
  cfgerr,      \* kyber_config_error
  match,       \* kyber_key_match_sticky
  seen,        \* which of server_done_seen and client_done_seen are set
  completeD,   \* kyber_complete_d
  server, client,              \* phase of each core
  keyServer, keyClient,        \* kyber_K_server, kyber_K_client
  validServer, validClient,    \* output registers valid of the cores
  residue,     \* the cores whose registers without reset hold something of a KEM
  taken,       \* history: how often the request in progress wrote a register
  launched     \* history: a launch was accepted after the last zeroize

busVars    == <<memValid, request, bridge, held>>
axiVars    == <<awready, bvalid, arready, rvalid, rdata>>
statusVars == <<done, streamed, busy, cfgerr, match, seen, completeD>>
coreVars   == <<server, client, keyServer, keyClient, validServer, validClient,
              residue>>
vars == <<busVars, axiVars, seed, launch, startAfter, statusVars, coreVars, taken, launched>>

StatusWord == [match |-> match, cfgerr |-> cfgerr, busy |-> busy, done |-> done,
               streamed |-> streamed]

TypeOK ==
  /\ {memValid, awready, bvalid, arready, rvalid, startAfter, done, busy, cfgerr, match,
      completeD, validServer, validClient, launched} \subseteq BOOLEAN
  /\ {request, held} \subseteq Requests
  /\ bridge \in BridgeStates
  /\ rdata \in [match : BOOLEAN, cfgerr : BOOLEAN, busy : BOOLEAN, done : BOOLEAN,
                streamed : SUBSET {"server", "client"}]
  /\ seed \in Secrets \cup {Zero}
  /\ launch \in {"idle", "reset", "start"}
  /\ {streamed, seen} \subseteq SUBSET {"server", "client"}
  /\ {server, client} \subseteq Phases
  /\ {keyServer, keyClient} \subseteq Keys
  /\ residue \subseteq {"server", "client"}
  /\ taken \in 0 .. 2

\* The power-on reset of the whole system has just been released.
Init ==
  /\ memValid = FALSE /\ request = ReadStatus
  /\ bridge = "idle" /\ held = ReadStatus
  /\ awready = FALSE /\ bvalid = FALSE /\ arready = FALSE /\ rvalid = FALSE
  /\ seed = Zero
  /\ launch = "idle" /\ startAfter = FALSE
  /\ done = FALSE /\ streamed = {} /\ busy = FALSE /\ cfgerr = FALSE /\ match = FALSE
  /\ seen = {} /\ completeD = FALSE
  /\ rdata = StatusWord
  /\ server = "idle" /\ client = "idle" /\ keyServer = "zero" /\ keyClient = "zero"
  /\ validServer = FALSE /\ validClient = FALSE /\ residue = {}
  /\ taken = 0 /\ launched = FALSE

--------------------------------------------------------------------------------
(***************************************************************************)
(* Wires.                                                                  *)
(***************************************************************************)
awvalid == bridge = "write_req"
bready  == bridge = "write_resp"
arvalid == bridge = "read_req"
rready  == bridge = "read_resp"

\* mutant: a write is answered when its address is accepted
kyberReadyEarly == awready \/ (bready /\ bvalid) \/ (rready /\ rvalid)

kyberReady == (bready /\ bvalid) \/ (rready /\ rvalid)

slvRegWren == awready /\ awvalid
slvRegRden == arready /\ arvalid /\ ~rvalid

Writing(reg) == slvRegWren /\ held.reg = reg

startAccept   == Writing("ctrl") /\ held.value = 1 /\ ~busy /\ launch = "idle"
zeroizeAccept == Writing("ctrl") /\ held.value = 2 /\ launch = "idle"

(***************************************************************************)
(* The native bus: a request stays up until it is answered, then the line  *)
(* is low for at least one clock.                                          *)
(***************************************************************************)
Cpu ==
  IF memValid
  THEN memValid' = ~kyberReady /\ UNCHANGED request
  ELSE \/ memValid' = TRUE /\ request' \in Requests
       \/ UNCHANGED <<memValid, request>>

\* mutant: the address phase is left without waiting for the peripheral
BridgeHasty ==
  /\ held' = IF bridge = "idle" /\ memValid THEN request ELSE held
  /\ bridge' =
       CASE bridge = "idle" /\ memValid ->
              IF request.reg = "status" THEN "read_req" ELSE "write_req"
         [] bridge = "write_req" -> "write_resp"
         [] bridge = "write_resp" /\ bvalid -> "wait_drop"
         [] bridge = "read_req" /\ arready -> "read_resp"
         [] bridge = "read_resp" /\ rvalid -> "wait_drop"
         [] bridge = "wait_drop" /\ ~memValid -> "idle"
         [] OTHER -> bridge

Bridge ==
  /\ held' = IF bridge = "idle" /\ memValid THEN request ELSE held
  /\ bridge' =
       CASE bridge = "idle" /\ memValid ->
              IF request.reg = "status" THEN "read_req" ELSE "write_req"
         [] bridge = "write_req" /\ awready -> "write_resp"
         [] bridge = "write_resp" /\ bvalid -> "wait_drop"
         [] bridge = "read_req" /\ arready -> "read_resp"
         [] bridge = "read_resp" /\ rvalid -> "wait_drop"
         [] bridge = "wait_drop" /\ ~memValid -> "idle"
         [] OTHER -> bridge

AxiWrite ==
  /\ awready' = (~awready /\ awvalid)
  /\ bvalid' = (slvRegWren \/ (bvalid /\ ~bready))

AxiRead ==
  /\ arready' = (~arready /\ arvalid)
  /\ rvalid' = (slvRegRden \/ (rvalid /\ ~rready))
  /\ rdata' = IF slvRegRden THEN StatusWord ELSE rdata

--------------------------------------------------------------------------------
(***************************************************************************)
(* Registers, launch control and status.                                   *)
(***************************************************************************)

SeedRegs ==
  seed' = IF zeroizeAccept THEN Zero
          ELSE IF Writing("seed") THEN held.value ELSE seed

\* mutant: the launch control only returns to idle when the KEM has finished
LaunchControlHeld ==
  CASE launch = "idle" ->
         /\ launch' = IF zeroizeAccept \/ startAccept THEN "reset" ELSE "idle"
         /\ startAfter' = startAccept
    [] launch = "reset" ->
         /\ launch' = IF startAfter THEN "start" ELSE "idle"
         /\ UNCHANGED startAfter
    [] launch = "start" ->
         /\ launch' = IF busy THEN "start" ELSE "idle"
         /\ startAfter' = FALSE

\* mutant: a start does not reset the cores first
LaunchControlUnreset ==
  CASE launch = "idle" ->
         /\ launch' = IF zeroizeAccept THEN "reset" ELSE IF startAccept THEN "start" ELSE "idle"
         /\ startAfter' = FALSE
    [] launch = "reset" -> launch' = "idle" /\ startAfter' = FALSE
    [] launch = "start" -> launch' = "idle" /\ startAfter' = FALSE

\* mutant: a zeroize clears the registers but does not reset the cores
LaunchControlNoWipe ==
  CASE launch = "idle" ->
         /\ launch' = IF startAccept THEN "reset" ELSE "idle"
         /\ startAfter' = startAccept
    [] launch = "reset" -> launch' = "start" /\ UNCHANGED startAfter
    [] launch = "start" -> launch' = "idle" /\ startAfter' = FALSE

LaunchControl ==
  CASE launch = "idle" ->
         /\ launch' = IF zeroizeAccept \/ startAccept THEN "reset" ELSE "idle"
         /\ startAfter' = IF zeroizeAccept THEN FALSE
                          ELSE IF startAccept THEN TRUE ELSE startAfter
    [] launch = "reset" ->
         /\ launch' = IF startAfter THEN "start" ELSE "idle"
         /\ UNCHANGED startAfter
    [] launch = "start" ->
         /\ launch' = "idle"
         /\ startAfter' = FALSE

\* mutant: the delayed completion is not cleared
ClearKeepingCompletion(running) ==
  /\ done' = FALSE
  /\ streamed' = {}
  /\ busy' = running
  /\ match' = FALSE
  /\ seen' = {}
  /\ completeD' = completeD

Clear(running) ==
  /\ done' = FALSE
  /\ streamed' = {}
  /\ busy' = running
  /\ match' = FALSE
  /\ seen' = {}
  /\ completeD' = FALSE

\* mutant: the keys are compared in the clock that commits them
TrackEarly(finishing) ==
  LET complete == seen \cup finishing = {"server", "client"} IN
  /\ completeD' = complete
  /\ seen' = seen \cup finishing
  /\ streamed' = streamed
  /\ done' = (done \/ complete)
  /\ busy' = (busy /\ ~complete)
  /\ match' = IF complete THEN keyServer = keyClient ELSE match

\* finishing: the cores whose done output is high in this clock.
Track(finishing) ==
  /\ completeD' = (seen \cup finishing = {"server", "client"})
  /\ seen' = seen \cup finishing
  /\ streamed' = streamed \cup (IF validServer THEN {"server"} ELSE {})
                          \cup (IF validClient THEN {"client"} ELSE {})
  /\ done' = (done \/ completeD)
  /\ busy' = (busy /\ ~completeD)
  /\ match' = IF completeD THEN keyServer = keyClient ELSE match

Status(finishing) ==
  /\ CASE zeroizeAccept -> Clear(FALSE)
       [] startAccept   -> Clear(TRUE)
       [] OTHER         -> Track(finishing)
  /\ cfgerr' = IF zeroizeAccept THEN FALSE
               ELSE IF Writing("param") THEN held.value # 2 ELSE cfgerr

--------------------------------------------------------------------------------
(***************************************************************************)
(* The cores.  done is combinational: it is high in the last clock of the  *)
(* KDF, whether or not the core is being reset, and K takes its final      *)
(* value on the edge that ends that clock.  valid is a register without    *)
(* reset that follows the words the core streams out.  The other registers *)
(* without reset are residue: the hashes, sigma, rho, m and dout of the    *)
(* Server, the hashes, rho, r and dout of the Client.                      *)
(***************************************************************************)
\* The client needs the whole public key before it streams the ciphertext, and
\* the server the whole ciphertext, re-encrypted, before its KDF: by then the
\* short KDF of the client is over.
Server(finishing) ==
  /\ validServer' \in CASE server = "kdf"  -> {TRUE}
                        [] server = "send" -> BOOLEAN
                        [] OTHER           -> {FALSE}
  /\ IF launch = "reset"
     THEN server' = "idle" /\ keyServer' = "zero"
     ELSE \/ /\ server = "idle"
             /\ server' = IF launch = "start" THEN "early" ELSE "idle"
             /\ UNCHANGED keyServer
          \/ /\ server # "idle" /\ "server" \notin finishing
             /\ UNCHANGED <<server, keyServer>>
          \/ server = "early" /\ server' = "send" /\ UNCHANGED keyServer
          \/ server = "send" /\ server' = "late" /\ UNCHANGED keyServer
          \/ /\ server = "late" /\ client = "idle"
             /\ server' = "kdf" /\ keyServer' = "server_partial"
          \/ /\ "server" \in finishing
             /\ server' = "idle" /\ keyServer' \in {"agreed", "differs"}

Client(finishing) ==
  /\ validClient' \in CASE client = "kdf"  -> {TRUE}
                        [] client = "send" -> BOOLEAN
                        [] OTHER           -> {FALSE}
  /\ IF launch = "reset"
     THEN client' = "idle" /\ keyClient' = "zero"
     ELSE \/ /\ client = "idle"
             /\ client' = IF launch = "start" THEN "early" ELSE "idle"
             /\ UNCHANGED keyClient
          \/ /\ client # "idle" /\ "client" \notin finishing
             /\ UNCHANGED <<client, keyClient>>
          \/ /\ client = "early" /\ server = "late"
             /\ client' = "send" /\ UNCHANGED keyClient
          \/ client = "send" /\ client' = "late" /\ UNCHANGED keyClient
          \/ client = "late" /\ client' = "kdf" /\ keyClient' = "client_partial"
          \/ /\ "client" \in finishing
             /\ client' = "idle" /\ keyClient' = "agreed"

\* What a core may write into those registers in a clock: it hashes its seed
\* before it streams, its last hash is loaded when it begins to, and a reset
\* that comes in the same clock stops none of it.
Loaded(core, phase, next) ==
  CASE phase = "idle"                   -> {{}}
    [] phase = "early" /\ next # "send" -> {{}, {core}}
    [] OTHER                            -> {{core}}

Leftovers ==
  \E s \in Loaded("server", server, server'), c \in Loaded("client", client, client') :
    residue' = residue \cup s \cup c

History ==
  /\ taken' = IF ~memValid THEN 0
              ELSE IF slvRegWren /\ taken < 2 THEN taken + 1 ELSE taken
  /\ launched' = IF zeroizeAccept THEN FALSE ELSE (launched \/ startAccept)

\* The cores in the last clock of their KDF, at most one at a time.
Finishing ==
  {{}} \cup (IF server = "kdf" THEN {{"server"}} ELSE {})
       \cup (IF client = "kdf" THEN {{"client"}} ELSE {})

Clock ==
  \E finishing \in Finishing :
    /\ Cpu /\ Bridge /\ AxiWrite /\ AxiRead
    /\ SeedRegs /\ LaunchControl /\ Status(finishing)
    /\ Server(finishing) /\ Client(finishing) /\ Leftovers
    /\ History

\* The clock never stops.
Spec == Init /\ [][Clock]_vars /\ WF_vars(Clock)

--------------------------------------------------------------------------------
(***************************************************************************)
(* Properties.                                                             *)
(***************************************************************************)
\* A request held on the native bus writes its register exactly once, and has
\* written it when it is answered.
WrittenOnce ==
  /\ taken <= 1
  /\ memValid /\ kyberReady /\ request.reg # "status" => taken = 1

\* No start and no zeroize is lost: the launch sequence of the previous CTRL
\* write is over before the bus can bring the next one.
CtrlNeverIgnored == Writing("ctrl") => launch = "idle"

\* Every KEM transaction starts from a clean core state.
CleanStart ==
  launch = "start" =>
    /\ server = "idle" /\ client = "idle"
    /\ keyServer = "zero" /\ keyClient = "zero"
    /\ seen = {} /\ ~done /\ ~completeD

\* DONE is only ever raised by the running KEM, whose keys are both committed,
\* and what a status read returns as MATCH is the equality of those keys.
MatchIsHonest ==
  /\ completeD => launched /\ {keyServer, keyClient} \subseteq {"agreed", "differs"}
  /\ rready /\ rvalid /\ rdata.done => rdata.match = (keyServer = keyClient)

\* Once the launch control has acted on a zeroize, no KEM runs, even if one did,
\* neither core holds a shared key K, and the verdict, busy and done bits are
\* cleared.
ErasedByZeroize ==
  launch = "idle" /\ ~launched =>
    /\ server = "idle" /\ client = "idle"
    /\ keyServer = "zero" /\ keyClient = "zero"
    /\ ~busy /\ ~done /\ ~match

\* The same for the two remaining status bits.
StatusClearedByZeroize == launch = "idle" /\ ~launched => streamed = {}

\* A zeroize "clears all state held inside both Kyber cores": their registers
\* without reset too.
CoresClearedByZeroize == launch = "idle" /\ ~launched => residue = {}

\* The processor never waits for ever on the Kyber window.
RequestAnswered == memValid ~> ~memValid

\* The firmware may think of the peripheral as KemDevice: every clock is one of
\* its atomic operations or changes nothing it can see.
Device == INSTANCE KemDevice
ImplementsDevice == Device!KemSpec

================================================================================
