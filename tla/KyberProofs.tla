------------------------------- MODULE KyberProofs -------------------------------
(***************************************************************************)
(* Theorems about the Kyber peripheral, for every set of seed values and   *)
(* every sequence of bus accesses, and, at the end, about the matrix phase *)
(* of its cores and the FIFO below it.                                     *)
(*                                                                         *)
(* The inductive invariant has one part for the handshakes of the bus, one *)
(* for the launch sequence, which it ties to the clocks of the bus access  *)
(* that started it, and one for the cores and the status registers.        *)
(***************************************************************************)
EXTENDS KyberWrapper, NttFeed, SequenceTheorems, TLAPS

Both      == {"server", "client"}
Committed == {"agreed", "differs"}

\* The bridge of riscv_soc.sv and the register file answer each other one
\* clock at a time: which valid and ready bits are up tells where the bridge is.
BusInv ==
  /\ bridge \in {"write_req", "write_resp", "read_req", "read_resp"} =>
       memValid /\ held = request
  /\ bridge = "wait_drop" => ~memValid
  /\ bridge \in {"write_req", "write_resp"} => held.reg # "status"
  /\ bridge \in {"read_req", "read_resp"} => held.reg = "status"
  /\ awready => bridge = "write_req"
  /\ bvalid <=> bridge = "write_resp"
  /\ arready => bridge = "read_req"
  /\ rvalid <=> bridge = "read_resp"
  /\ bridge = "write_resp" => taken = 1
  /\ bridge \in {"idle", "write_req", "read_req", "read_resp"} => taken = 0
  /\ taken <= 1

\* The launch sequence is over before the bridge is back to idle.
LaunchInv ==
  /\ launch = "reset" => bridge = "write_resp" /\ (startAfter <=> launched)
  /\ launch = "start" => bridge = "wait_drop" /\ startAfter /\ launched
  /\ launch = "idle" => ~startAfter

\* The core state a launch starts from.
CoresClean ==
  /\ server = "idle" /\ client = "idle"
  /\ keyServer = "zero" /\ keyClient = "zero"

\* During a launch sequence no status bit of an earlier KEM is up, and the
\* cores are only still at work when the sequence is that of a zeroize.
LaunchingInv ==
  launch # "idle" =>
    /\ seen = {} /\ ~done /\ ~match
    /\ busy <=> launched
    /\ launched => server = "idle" /\ client = "idle"
    /\ launch = "start" => CoresClean

\* After a zeroize only streamed and, when a core finished in the very clock
\* of its reset, one bit of seen can be up.
ErasedInv ==
  launch = "idle" /\ ~launched =>
    CoresClean /\ ~busy /\ ~done /\ ~match /\ seen # Both

\* A core of a launched KEM is at work until it has committed its key; the
\* status says DONE from one clock after the second commit.
RunningInv ==
  launch = "idle" /\ launched =>
    /\ server = "idle" <=> "server" \in seen
    /\ client = "idle" <=> "client" \in seen
    /\ "server" \in seen => keyServer \in Committed
    /\ "client" \in seen => keyClient \in Committed
    /\ busy <=> ~done
    /\ done => completeD /\ match = (keyServer = keyClient)
    /\ ~done => ~match

CoreInv ==
  /\ completeD <=> seen = Both
  /\ LaunchingInv
  /\ ErasedInv
  /\ RunningInv

\* What the processor has just been given is still what the registers say.
ReadInv == bridge = "read_resp" /\ rdata.done => done /\ rdata.match = match

KyberInv == TypeOK /\ BusInv /\ LaunchInv /\ CoreInv /\ ReadInv

--------------------------------------------------------------------------------
(***************************************************************************)
(* One lemma per part of the invariant: a clock preserves it.              *)
(***************************************************************************)
LEMMA TypeStep ==
  ASSUME TypeOK, Clock
  PROVE  TypeOK'
<1> USE DEF TypeOK
<1>1. PICK finishing \in Finishing :
        /\ Cpu /\ Bridge /\ AxiWrite /\ AxiRead
        /\ SeedRegs /\ LaunchControl /\ Status(finishing)
        /\ Server(finishing) /\ Client(finishing) /\ Leftovers
        /\ History
  BY DEF Clock
<1>2. finishing \subseteq {"server", "client"}
  BY DEF Finishing
<1>3. memValid' \in BOOLEAN /\ request' \in Requests
  BY <1>1 DEF Cpu, kyberReady
<1>4. held' \in Requests /\ bridge' \in BridgeStates
  BY <1>1 DEF Bridge, BridgeStates
<1>5. {awready', bvalid', arready', rvalid'} \subseteq BOOLEAN
  BY <1>1 DEF AxiWrite, AxiRead
<1>6. rdata' \in [match : BOOLEAN, cfgerr : BOOLEAN, busy : BOOLEAN, done : BOOLEAN,
                  streamed : SUBSET {"server", "client"}]
  BY <1>1 DEF AxiRead, StatusWord
<1>7. seed' \in Secrets \cup {Zero}
  <2>1. held.reg = "seed" => held.value \in Secrets
    BY DEF Requests, Writes, ReadStatus
  <2>2. QED BY <1>1, <2>1 DEF SeedRegs, Writing
<1>8. launch' \in {"idle", "reset", "start"} /\ startAfter' \in BOOLEAN
  BY <1>1 DEF LaunchControl
<1>9. /\ {done', busy', cfgerr', match', completeD'} \subseteq BOOLEAN
      /\ {streamed', seen'} \subseteq SUBSET {"server", "client"}
  <2>1. cfgerr' \in BOOLEAN
    BY <1>1 DEF Status
  <2>2. \/ Clear(FALSE) \/ Clear(TRUE) \/ Track(finishing)
    BY <1>1 DEF Status
  <2>3. CASE Clear(FALSE) \/ Clear(TRUE)
    BY <2>1, <2>3 DEF Clear
  <2>4. CASE Track(finishing)
    <3>1. {done', busy', match', completeD'} \subseteq BOOLEAN
      BY <2>4 DEF Track
    <3>2. {streamed', seen'} \subseteq SUBSET {"server", "client"}
      BY <2>4, <1>2 DEF Track
    <3>3. QED BY <3>1, <3>2, <2>1
  <2>5. QED BY <2>2, <2>3, <2>4
<1>10. server' \in Phases /\ keyServer' \in Keys /\ validServer' \in BOOLEAN
  BY <1>1 DEF Server, Phases, Keys
<1>11. client' \in Phases /\ keyClient' \in Keys /\ validClient' \in BOOLEAN
  BY <1>1 DEF Client, Phases, Keys
<1>12. taken' \in 0 .. 2 /\ launched' \in BOOLEAN
  <2>1. taken' \in 0 .. 2
    BY <1>1 DEF History
  <2>2. launched' \in BOOLEAN
    BY <1>1 DEF History
  <2>3. QED BY <2>1, <2>2
<1>13. residue' \subseteq {"server", "client"}
  <2>1. \A core, phase, next : \A r \in Loaded(core, phase, next) : r \subseteq {core}
    BY DEF Loaded
  <2>2. QED BY <1>1, <2>1 DEF Leftovers
<1>14. QED
  BY <1>3, <1>4, <1>5, <1>6, <1>7, <1>8, <1>9, <1>10, <1>11, <1>12, <1>13

\* A request is answered in the clock its register is written or read.
LEMMA BusStep ==
  ASSUME TypeOK, BusInv, Clock
  PROVE  BusInv'
<1> USE DEF TypeOK, BusInv
<1>1. Cpu /\ Bridge /\ AxiWrite /\ AxiRead /\ History
  BY DEF Clock
<1> USE <1>1 DEF awvalid, bready, arvalid, rready, kyberReady, slvRegWren, slvRegRden
<1>2. CASE bridge = "idle"
  <2>1. CASE memValid
    BY <1>2, <2>1 DEF Cpu, Bridge, AxiWrite, AxiRead, History, BridgeStates
  <2>2. CASE ~memValid
    BY <1>2, <2>2 DEF Cpu, Bridge, AxiWrite, AxiRead, History, BridgeStates
  <2>3. QED BY <2>1, <2>2
<1>3. CASE bridge = "write_req"
  <2>1. /\ bridge' = IF awready THEN "write_resp" ELSE "write_req"
        /\ memValid' /\ held' = held /\ request' = request
    BY <1>3 DEF Cpu, Bridge
  <2>2. (awready' <=> ~awready) /\ (bvalid' <=> awready) /\ ~arready' /\ ~rvalid'
    BY <1>3 DEF AxiWrite, AxiRead
  <2>3. taken' = IF awready THEN 1 ELSE 0
    BY <1>3 DEF History
  <2>4. QED BY <1>3, <2>1, <2>2, <2>3
<1>4. CASE bridge = "write_resp"
  <2>1. bridge' = "wait_drop" /\ ~memValid' /\ held' = held
    BY <1>4 DEF Cpu, Bridge
  <2>2. ~awready' /\ ~bvalid' /\ ~arready' /\ ~rvalid'
    BY <1>4 DEF AxiWrite, AxiRead
  <2>3. taken' <= 1
    BY <1>4 DEF History
  <2>4. QED BY <2>1, <2>2, <2>3
<1>5. CASE bridge = "read_req"
  <2>1. /\ bridge' = IF arready THEN "read_resp" ELSE "read_req"
        /\ memValid' /\ held' = held /\ request' = request
    BY <1>5 DEF Cpu, Bridge
  <2>2. ~awready' /\ ~bvalid' /\ (arready' <=> ~arready) /\ (rvalid' <=> arready)
    BY <1>5 DEF AxiWrite, AxiRead
  <2>3. taken' = 0
    BY <1>5 DEF History
  <2>4. QED BY <1>5, <2>1, <2>2, <2>3
<1>6. CASE bridge = "read_resp"
  <2>1. bridge' = "wait_drop" /\ ~memValid' /\ held' = held
    BY <1>6 DEF Cpu, Bridge
  <2>2. ~awready' /\ ~bvalid' /\ ~arready' /\ ~rvalid'
    BY <1>6 DEF AxiWrite, AxiRead
  <2>3. taken' <= 1
    BY <1>6 DEF History
  <2>4. QED BY <2>1, <2>2, <2>3
<1>7. CASE bridge = "wait_drop"
  BY <1>7 DEF Cpu, Bridge, AxiWrite, AxiRead, History
<1>8. QED
  BY <1>2, <1>3, <1>4, <1>5, <1>6, <1>7 DEF BridgeStates

\* The launch sequence takes the two clocks the bus needs to end its access.
LEMMA LaunchStep ==
  ASSUME TypeOK, BusInv, LaunchInv, Clock
  PROVE  LaunchInv'
<1> USE DEF TypeOK, BusInv, LaunchInv
<1>1. Bridge /\ LaunchControl /\ History
  BY DEF Clock
<1> USE DEF slvRegWren, awvalid, Writing, startAccept, zeroizeAccept
<1>2. CASE launch = "idle"
  <2>1. CASE Writing("ctrl")
    BY <1>1, <1>2, <2>1 DEF Bridge, LaunchControl, History
  <2>2. CASE ~Writing("ctrl")
    BY <1>1, <1>2, <2>2 DEF LaunchControl
  <2>3. QED BY <2>1, <2>2
<1>3. CASE launch = "reset"
  BY <1>1, <1>3 DEF Bridge, LaunchControl, History
<1>4. CASE launch = "start"
  BY <1>1, <1>4 DEF LaunchControl
<1>5. QED BY <1>2, <1>3, <1>4

\* Where the launch sequence stands when it is not idle: no register access is
\* under way, so the registers take no command.
LEMMA NoWriteWhileLaunching ==
  ASSUME BusInv, LaunchInv, TypeOK, slvRegWren \/ bridge = "read_resp"
  PROVE  launch = "idle"
BY DEF BusInv, LaunchInv, TypeOK, slvRegWren, awvalid

\* What a clock can do to the status and the launch sequence, by cases.
LEMMA LaunchCases ==
  ASSUME TypeOK, BusInv, LaunchInv, NEW finishing, Status(finishing), LaunchControl, History
  PROVE  \/ /\ zeroizeAccept /\ ~startAccept /\ Clear(FALSE)
            /\ launch = "idle" /\ launch' = "reset" /\ ~launched'
         \/ /\ startAccept /\ ~zeroizeAccept /\ Clear(TRUE) /\ ~busy
            /\ launch = "idle" /\ launch' = "reset" /\ launched'
         \/ /\ ~zeroizeAccept /\ ~startAccept /\ Track(finishing)
            /\ launched' = launched
            /\ launch' = IF launch = "reset" /\ launched THEN "start" ELSE "idle"
<1> USE DEF TypeOK, LaunchInv
<1>0. ~(zeroizeAccept /\ startAccept)
  BY DEF zeroizeAccept, startAccept
<1>1. CASE zeroizeAccept
  <2>1. Clear(FALSE)
    BY <1>0, <1>1 DEF Status
  <2>4. launch = "idle"
    BY <1>1 DEF zeroizeAccept
  <2>2. launch' = "reset" /\ ~launched'
    BY <1>1, <2>4 DEF LaunchControl, History
  <2>3. QED BY <1>0, <1>1, <2>1, <2>2, <2>4
<1>2. CASE startAccept
  <2>1. Clear(TRUE) /\ launch = "idle" /\ ~busy
    BY <1>0, <1>2 DEF Status, startAccept
  <2>2. launch' = "reset" /\ launched'
    BY <1>0, <1>2, <2>1 DEF LaunchControl, History
  <2>3. QED BY <1>0, <1>2, <2>1, <2>2
<1>3. CASE ~zeroizeAccept /\ ~startAccept
  <2>1. Track(finishing)
    BY <1>3 DEF Status
  <2>2. launched' = launched
    BY <1>3 DEF History
  <2>3. launch' = IF launch = "reset" /\ launched THEN "start" ELSE "idle"
    <3>1. CASE launch = "idle"
      BY <1>3, <3>1 DEF LaunchControl
    <3>2. CASE launch = "reset"
      BY <3>2 DEF LaunchControl
    <3>3. CASE launch = "start"
      BY <3>3 DEF LaunchControl
    <3>4. QED BY <3>1, <3>2, <3>3
  <2>4. QED BY <1>3, <2>1, <2>2, <2>3
<1>4. QED BY <1>1, <1>2, <1>3

\* The cores and the status registers.
LEMMA CoreStep ==
  ASSUME TypeOK, BusInv, LaunchInv, CoreInv, Clock
  PROVE  CoreInv'
<1> USE DEF TypeOK, CoreInv, Both, Committed
<1>1. PICK finishing \in Finishing :
        /\ LaunchControl /\ Status(finishing)
        /\ Server(finishing) /\ Client(finishing)
        /\ History
  BY DEF Clock
<1>2. /\ "server" \in finishing => server = "kdf" /\ "client" \notin finishing
      /\ "client" \in finishing => client = "kdf"
      /\ finishing \subseteq Both
  BY DEF Finishing
<1>3. CASE zeroizeAccept \/ startAccept
  <2>1. /\ launch = "idle" /\ launch' = "reset"
        /\ seen' = {} /\ ~done' /\ ~match' /\ ~completeD'
        /\ (busy' <=> launched') /\ (launched' => ~busy)
    <3>1. CASE zeroizeAccept /\ ~startAccept
      BY <1>1, <3>1, LaunchCases DEF Clear
    <3>2. CASE startAccept /\ ~zeroizeAccept
      BY <1>1, <3>2, LaunchCases DEF Clear
    <3>3. QED BY <1>1, <1>3, <3>1, <3>2, LaunchCases
  <2>2. ~busy => server = "idle" /\ client = "idle"
    <3>1. CASE launched /\ ~busy
      BY <2>1, <3>1 DEF RunningInv
    <3>2. CASE ~launched
      BY <2>1, <3>2 DEF ErasedInv, CoresClean
    <3>3. QED BY <3>1, <3>2
  <2>3. launched' => server' = "idle" /\ client' = "idle"
    BY <1>1, <1>2, <2>1, <2>2 DEF Server, Client
  <2>4. LaunchingInv'
    BY <2>1, <2>3 DEF LaunchingInv
  <2>5. ErasedInv' /\ RunningInv'
    BY <2>1 DEF ErasedInv, RunningInv
  <2>6. QED BY <2>1, <2>4, <2>5
<1>4. CASE ~zeroizeAccept /\ ~startAccept
  <2>1. /\ Track(finishing) /\ launched' = launched
        /\ launch' = IF launch = "reset" /\ launched THEN "start" ELSE "idle"
    BY <1>1, <1>4, LaunchCases
  <2>2. /\ completeD' <=> seen' = Both
        /\ seen' = seen \cup finishing
    BY <2>1 DEF Track
  <2>3. ~completeD => done' = done /\ busy' = busy /\ match' = match
    BY <2>1 DEF Track
  <2>4. CASE launch = "reset"
    <3>1. CoresClean'
      BY <1>1, <2>4 DEF Server, Client, CoresClean
    <3>2. ~done' /\ ~match' /\ (busy' <=> launched')
      BY <2>1, <2>3, <2>4 DEF LaunchingInv
    <3>3. seen' = finishing /\ seen' # Both
      BY <1>2, <2>2, <2>4 DEF LaunchingInv
    <3>4. launched => finishing = {}
      BY <1>2, <2>4 DEF LaunchingInv
    <3>5. LaunchingInv' /\ ErasedInv' /\ RunningInv'
      BY <2>1, <2>4, <3>1, <3>2, <3>3, <3>4
      DEF LaunchingInv, ErasedInv, RunningInv, CoresClean
    <3>6. QED BY <2>2, <3>5
  <2>5. CASE launch = "start"
    <3>1. launch' = "idle" /\ launched' /\ seen = {} /\ CoresClean /\ busy /\ ~done /\ ~match
      BY <2>1, <2>5 DEF LaunchingInv, LaunchInv
    <3>2. server' = "early" /\ client' = "early" /\ finishing = {}
      BY <1>1, <1>2, <2>5, <3>1 DEF Server, Client, CoresClean
    <3>3. seen' = {} /\ ~completeD /\ ~completeD'
      BY <2>2, <3>1, <3>2
    <3>6. busy' /\ ~done' /\ ~match'
      BY <2>3, <3>1, <3>3
    <3>4. LaunchingInv' /\ ErasedInv' /\ RunningInv'
      BY <3>1, <3>2, <3>3, <3>6 DEF LaunchingInv, ErasedInv, RunningInv
    <3>5. QED BY <3>4, <2>2
  <2>6. CASE launch = "idle" /\ ~launched
    <3>1. CoresClean /\ ~busy /\ ~done /\ ~match /\ ~completeD /\ seen # Both
      BY <2>6 DEF ErasedInv
    <3>2. finishing = {} /\ CoresClean'
      BY <1>1, <1>2, <2>6, <3>1 DEF Server, Client, CoresClean
    <3>3. seen' = seen /\ ~busy' /\ ~done' /\ ~match'
      BY <2>2, <2>3, <3>1, <3>2
    <3>4. LaunchingInv' /\ ErasedInv' /\ RunningInv'
      BY <2>1, <2>6, <3>1, <3>2, <3>3 DEF LaunchingInv, ErasedInv, RunningInv
    <3>5. QED BY <3>4, <2>2
  <2>7. CASE launch = "idle" /\ launched
    <3>1. launch' = "idle" /\ launched'
      BY <2>1, <2>7
    <3>2. /\ server' = "idle" <=> "server" \in seen'
          /\ "server" \in seen' => keyServer' \in Committed
          /\ "server" \in seen => keyServer' = keyServer
      BY <1>1, <1>2, <2>2, <2>7 DEF Server, RunningInv
    <3>3. /\ client' = "idle" <=> "client" \in seen'
          /\ "client" \in seen' => keyClient' \in Committed
          /\ "client" \in seen => keyClient' = keyClient
      BY <1>1, <1>2, <2>2, <2>7 DEF Client, RunningInv
    <3>4. CASE completeD
      <4>1. done' /\ ~busy' /\ match' = (keyServer = keyClient)
        BY <2>1, <3>4 DEF Track
      <4>2. keyServer' = keyServer /\ keyClient' = keyClient /\ completeD'
        BY <1>2, <2>2, <3>2, <3>3, <3>4
      <4>3. RunningInv'
        BY <2>2, <3>2, <3>3, <4>1, <4>2 DEF RunningInv
      <4>4. QED BY <2>2, <3>1, <4>3 DEF LaunchingInv, ErasedInv
    <3>5. CASE ~completeD
      <4>1. ~done /\ busy /\ ~match
        BY <2>7, <3>5 DEF RunningInv
      <4>2. ~done' /\ busy' /\ ~match'
        BY <2>3, <3>5, <4>1
      <4>3. RunningInv'
        BY <2>2, <3>2, <3>3, <4>2 DEF RunningInv
      <4>4. QED BY <2>2, <3>1, <4>3 DEF LaunchingInv, ErasedInv
    <3>6. QED BY <3>4, <3>5
  <2>8. QED BY <2>4, <2>5, <2>6, <2>7
<1>5. QED BY <1>3, <1>4

\* A KEM that has finished is the launched one, and MATCH compares its keys.
LEMMA FinishedKem ==
  ASSUME TypeOK, CoreInv, completeD \/ (done /\ launch = "idle")
  PROVE  /\ launch = "idle" /\ launched /\ completeD
         /\ {keyServer, keyClient} \subseteq Committed
         /\ done => ~busy /\ match = (keyServer = keyClient)
         /\ ~done => busy
<1> USE DEF TypeOK, CoreInv, Both
<1>1. CASE completeD
  <2>1. seen = Both
    BY <1>1
  <2>2. launch = "idle"
    BY <2>1 DEF LaunchingInv
  <2>3. launched
    BY <2>1, <2>2 DEF ErasedInv
  <2>4. QED BY <1>1, <2>1, <2>2, <2>3 DEF RunningInv
<1>2. CASE done /\ launch = "idle" /\ ~completeD
  BY <1>2 DEF ErasedInv, RunningInv
<1>3. QED BY <1>1, <1>2

\* Between a status read and its answer nothing changes DONE or MATCH.
LEMMA ReadStep ==
  ASSUME TypeOK, BusInv, LaunchInv, CoreInv, ReadInv, Clock
  PROVE  ReadInv'
<1> USE DEF TypeOK
<1>1. PICK finishing \in Finishing :
        Bridge /\ AxiRead /\ LaunchControl /\ Status(finishing) /\ History
  BY DEF Clock
<1> SUFFICES ASSUME bridge' = "read_resp", rdata'.done
             PROVE  done' /\ rdata'.match = match'
  BY DEF ReadInv
<1>2. bridge = "read_req" /\ arready
  BY <1>1 DEF Bridge, BusInv, BridgeStates
<1>3. launch = "idle" /\ ~slvRegWren /\ slvRegRden
  BY <1>2 DEF BusInv, LaunchInv, slvRegWren, slvRegRden, awvalid, arvalid
<1>4. done /\ rdata'.match = match
  BY <1>1, <1>3 DEF AxiRead, StatusWord
<1>5. Track(finishing)
  BY <1>1, <1>3, LaunchCases DEF zeroizeAccept, startAccept, Writing
<1>6. completeD /\ match = (keyServer = keyClient)
  BY <1>3, <1>4, FinishedKem
<1>7. QED BY <1>4, <1>5, <1>6 DEF Track

\* The invariant of the peripheral: the clocks of a bus access, of the launch
\* sequence it starts and of the two cores keep in step.
THEOREM KyberInvAlways == Spec => []KyberInv
<1>1. Init => KyberInv
  <2> SUFFICES ASSUME Init PROVE KyberInv
    OBVIOUS
  <2>1. TypeOK
    <3>1. rdata \in [match : BOOLEAN, cfgerr : BOOLEAN, busy : BOOLEAN, done : BOOLEAN,
                    streamed : SUBSET {"server", "client"}]
      BY DEF Init, StatusWord
    <3>2. {request, held} \subseteq Requests
      BY DEF Init, Requests
    <3>3. /\ {memValid, awready, bvalid, arready, rvalid, startAfter, done, busy, cfgerr,
              match, completeD, validServer, validClient, launched} \subseteq BOOLEAN
          /\ {streamed, seen} \subseteq SUBSET {"server", "client"}
      BY DEF Init
    <3>4. /\ bridge \in BridgeStates /\ launch \in {"idle", "reset", "start"}
          /\ {server, client} \subseteq Phases
          /\ {keyServer, keyClient} \subseteq Keys
          /\ seed \in Secrets \cup {Zero} /\ taken \in 0 .. 2
          /\ residue \subseteq {"server", "client"}
      BY DEF Init, BridgeStates, Phases, Keys
    <3>5. QED BY <3>1, <3>2, <3>3, <3>4 DEF TypeOK
  <2>2. BusInv /\ LaunchInv
    BY DEF Init, BusInv, LaunchInv
  <2>3. CoreInv
    BY DEF Init, CoreInv, LaunchingInv, ErasedInv, RunningInv, CoresClean, Both
  <2>4. ReadInv
    BY DEF Init, ReadInv
  <2>5. QED BY <2>1, <2>2, <2>3, <2>4 DEF KyberInv
<1>2. KyberInv /\ [Clock]_vars => KyberInv'
  <2>1. CASE KyberInv /\ Clock
    BY <2>1, TypeStep, BusStep, LaunchStep, CoreStep, ReadStep DEF KyberInv
  <2>2. CASE KyberInv /\ UNCHANGED vars
    BY <2>2
    DEF vars, busVars, axiVars, statusVars, coreVars, KyberInv, TypeOK, BusInv, LaunchInv,
        CoreInv, LaunchingInv, ErasedInv, RunningInv, CoresClean, ReadInv, Both
  <2>3. QED BY <2>1, <2>2
<1>3. QED BY <1>1, <1>2, PTL DEF Spec

--------------------------------------------------------------------------------
(***************************************************************************)
(* The safety properties.                                                  *)
(***************************************************************************)
\* A request held on the native bus writes its register exactly once, and has
\* written it when it is answered.
THEOREM WrittenOnceAlways == Spec => []WrittenOnce
<1>1. KyberInv => WrittenOnce
  BY DEF KyberInv, TypeOK, BusInv, WrittenOnce, kyberReady, bready, rready
<1>2. QED BY <1>1, KyberInvAlways, PTL

\* No start and no zeroize reaches the registers while a launch sequence runs,
\* where launch_state would ignore it.
THEOREM CtrlNeverIgnoredAlways == Spec => []CtrlNeverIgnored
<1>1. KyberInv => CtrlNeverIgnored
  BY DEF KyberInv, TypeOK, BusInv, LaunchInv, CtrlNeverIgnored, Writing, slvRegWren, awvalid
<1>2. QED BY <1>1, KyberInvAlways, PTL

\* Every KEM starts from reset cores and cleared status bits.
THEOREM CleanStartAlways == Spec => []CleanStart
<1>1. KyberInv => CleanStart
  BY DEF KyberInv, CoreInv, LaunchingInv, CoresClean, Both, CleanStart
<1>2. QED BY <1>1, KyberInvAlways, PTL

\* DONE belongs to the running KEM, and the MATCH bit read with it compares the
\* keys that KEM committed.
THEOREM MatchIsHonestAlways == Spec => []MatchIsHonest
<1>1. KyberInv => MatchIsHonest
  <2> SUFFICES ASSUME KyberInv PROVE MatchIsHonest
    OBVIOUS
  <2> USE DEF KyberInv
  <2>1. completeD => launched /\ {keyServer, keyClient} \subseteq {"agreed", "differs"}
    BY FinishedKem DEF Committed
  <2>2. ASSUME rready, rvalid, rdata.done
        PROVE  rdata.match = (keyServer = keyClient)
    <3>1. bridge = "read_resp" /\ launch = "idle"
      BY <2>2 DEF TypeOK, rready, BusInv, LaunchInv
    <3>2. done /\ rdata.match = match
      BY <2>2, <3>1 DEF ReadInv
    <3>3. QED BY <3>1, <3>2, FinishedKem
  <2>3. QED BY <2>1, <2>2 DEF MatchIsHonest
<1>2. QED BY <1>1, KyberInvAlways, PTL

\* Once the launch control has acted on a zeroize, no KEM runs, even if one did,
\* neither core holds a shared key K, and the verdict, busy and done bits are
\* cleared.
THEOREM ErasedByZeroizeAlways == Spec => []ErasedByZeroize
<1>1. KyberInv => ErasedByZeroize
  BY DEF KyberInv, CoreInv, ErasedInv, CoresClean, ErasedByZeroize
<1>2. QED BY <1>1, KyberInvAlways, PTL

--------------------------------------------------------------------------------
(***************************************************************************)
(* The peripheral implements the device the firmware is written against.   *)
(***************************************************************************)
\* A clock that completes the KEM, and one that only tracks its progress.
LEMMA TrackEffect ==
  ASSUME KyberInv, NEW finishing, Track(finishing)
  PROVE  \/ busy /\ ~busy' /\ done' /\ match' \in BOOLEAN
         \/ UNCHANGED <<busy, done, match>>
<1> USE DEF KyberInv, TypeOK
<1>1. CASE completeD /\ busy
  BY <1>1 DEF Track
<1>2. CASE completeD /\ ~busy
  BY <1>2, FinishedKem DEF Track
<1>3. CASE ~completeD
  BY <1>3 DEF Track
<1>4. QED BY <1>1, <1>2, <1>3

\* Every clock is one operation of the device, or nothing the firmware can see.
LEMMA DeviceStep ==
  ASSUME KyberInv, KyberInv', Clock
  PROVE  Device!KemNext \/ UNCHANGED Device!kemVars
<1> USE DEF Device!kemVars
<1>1. PICK finishing \in Finishing : SeedRegs /\ LaunchControl /\ Status(finishing) /\ History
  BY DEF Clock
<1>2. TypeOK /\ BusInv /\ LaunchInv
  BY DEF KyberInv
<1>3. {busy', done', match', cfgerr'} \subseteq BOOLEAN
  BY DEF KyberInv, TypeOK
<1>4. CASE zeroizeAccept
  <2>1. Clear(FALSE)
    BY <1>1, <1>2, <1>4, LaunchCases
  <2>2. seed' = Zero /\ cfgerr' = FALSE
    BY <1>1, <1>4 DEF SeedRegs, Status
  <2>3. Device!Zeroize
    BY <1>3, <2>1, <2>2 DEF Clear, Device!Zeroize
  <2>4. QED BY <2>3 DEF Device!KemNext
<1>5. CASE startAccept
  <2>1. Clear(TRUE) /\ ~busy /\ ~zeroizeAccept
    BY <1>1, <1>2, <1>5, LaunchCases
  <2>2. ~Writing("seed") /\ ~Writing("param")
    BY <1>5 DEF startAccept, Writing
  <2>3. seed' = seed /\ cfgerr' = cfgerr
    BY <1>1, <2>1, <2>2 DEF SeedRegs, Status
  <2>4. Device!Launch
    BY <2>1, <2>3 DEF Clear, Device!Launch
  <2>5. QED BY <2>4 DEF Device!KemNext
<1>6. CASE ~zeroizeAccept /\ ~startAccept
  <2>1. Track(finishing)
    BY <1>1, <1>2, <1>6, LaunchCases
  <2>2. /\ seed' = IF Writing("seed") THEN held.value ELSE seed
        /\ cfgerr' = IF Writing("param") THEN held.value # 2 ELSE cfgerr
    BY <1>1, <1>6 DEF SeedRegs, Status
  <2>3. /\ Writing("seed") => held.value \in Secrets /\ ~Writing("param")
        /\ Writing("param") => held.value \in {2, 3}
    BY <1>2 DEF Writing, TypeOK, Requests, Writes, ReadStatus
  <2>4. CASE busy /\ ~busy' /\ done' /\ match' \in BOOLEAN
    <3>1. CASE Writing("seed") \/ Writing("param")
      <4>1. \/ seed' \in Secrets /\ cfgerr' = cfgerr
            \/ seed' = seed /\ cfgerr' \in BOOLEAN
        BY <1>3, <2>2, <2>3, <3>1
      <4>2. Device!CompleteWithWrite(match')
        BY <1>3, <2>4, <4>1 DEF Device!CompleteWithWrite
      <4>3. QED BY <2>4, <4>2 DEF Device!KemNext
    <3>2. CASE ~Writing("seed") /\ ~Writing("param")
      <4>1. Device!Complete(match')
        BY <1>3, <2>2, <2>4, <3>2 DEF Device!Complete
      <4>2. QED BY <2>4, <4>1 DEF Device!KemNext
    <3>3. QED BY <3>1, <3>2
  <2>5. CASE UNCHANGED <<busy, done, match>>
    <3>1. CASE Writing("seed")
      <4>1. Device!WriteSeed(held.value)
        BY <2>2, <2>3, <2>5, <3>1 DEF Device!WriteSeed
      <4>2. QED BY <2>3, <3>1, <4>1 DEF Device!KemNext
    <3>2. CASE ~Writing("seed") /\ Writing("param")
      <4>1. Device!WriteParam(held.value)
        BY <2>2, <2>5, <3>2 DEF Device!WriteParam
      <4>2. QED BY <2>3, <3>2, <4>1 DEF Device!KemNext
    <3>3. CASE ~Writing("seed") /\ ~Writing("param")
      BY <2>2, <2>5, <3>3
    <3>4. QED BY <3>1, <3>2, <3>3
  <2>6. QED BY <2>1, <2>4, <2>5, TrackEffect
<1>7. QED BY <1>4, <1>5, <1>6

\* The registers of kyber_axi_wrapper.v, clock by clock, are the device the
\* firmware sees access by access.
THEOREM ImplementsDeviceAlways == Spec => ImplementsDevice
<1>1. Init => Device!KemInit
  BY DEF Init, Device!KemInit
<1>2. KyberInv /\ KyberInv' /\ [Clock]_vars => [Device!KemNext]_(Device!kemVars)
  <2>1. CASE KyberInv /\ KyberInv' /\ Clock
    BY <2>1, DeviceStep
  <2>2. CASE UNCHANGED vars
    BY <2>2 DEF vars, statusVars, Device!kemVars
  <2>3. QED BY <2>1, <2>2
<1>3. QED
  BY <1>1, <1>2, KyberInvAlways, PTL DEF Spec, ImplementsDevice, Device!KemSpec

--------------------------------------------------------------------------------
(***************************************************************************)
(* Theorems about the FIFO and about the phase of the NTT core it feeds.   *)
(***************************************************************************)

(***************************************************************************)
(* The FIFO implements a bounded queue, for every depth and every width.   *)
(* The invariant says that the write pointer is at most one turn ahead of  *)
(* the read pointer; a write then goes to a slot no stored word is in, and *)
(* a read shifts the stored words by one.                                  *)
(***************************************************************************)
USE FifoParameters DEF Address, Pointer, Origin

\* The types and the order of the pointers are inductive.
LEMMA FifoTypeStep ==
  ASSUME FifoTypeOK, FifoNext \/ UNCHANGED fifoVars
  PROVE  FifoTypeOK'
<1>1. CASE FifoClock
  <2>1. PICK wrEn \in BOOLEAN, rdEn \in BOOLEAN, word \in Word :
          WritePort(wrEn, word) /\ ReadPort(rdEn)
    BY <1>1 DEF FifoClock
  <2>2. mem' \in [Address -> Word] /\ rdData' \in Word
    BY <2>1 DEF WritePort, ReadPort, FifoTypeOK
  <2>3. wrPtr' \in Pointer /\ rdPtr' \in Pointer
    BY <2>1 DEF WritePort, ReadPort, FifoTypeOK, Advance
  <2>4. /\ wrPtr'.top = rdPtr'.top => rdPtr'.at <= wrPtr'.at
        /\ wrPtr'.top # rdPtr'.top => wrPtr'.at <= rdPtr'.at
    BY <2>1 DEF WritePort, ReadPort, FifoTypeOK, Advance, wrFull, rdEmpty
  <2>5. QED BY <2>2, <2>3, <2>4 DEF FifoTypeOK
<1>2. CASE Reset
  BY <1>2 DEF Reset, FifoTypeOK
<1>3. CASE UNCHANGED fifoVars
  BY <1>3 DEF fifoVars, FifoTypeOK
<1>4. QED BY <1>1, <1>2, <1>3 DEF FifoNext

\* The pointers of generic_fifo_sync are never more than one turn apart.
THEOREM FifoTypeAlways == FifoSpec => []FifoTypeOK
<1>1. FifoInit => FifoTypeOK
  BY DEF FifoInit, FifoTypeOK
<1>2. FifoTypeOK /\ [FifoNext]_fifoVars => FifoTypeOK'
  BY FifoTypeStep
<1>3. QED BY <1>1, <1>2, PTL DEF FifoSpec

--------------------------------------------------------------------------------
\* The stored words are a sequence of at most Depth words; it is empty or full
\* when the flags say so.
LEMMA StoredType ==
  ASSUME FifoTypeOK
  PROVE  /\ Count \in 0 .. Depth
         /\ Stored \in Seq(Word)
         /\ Len(Stored) = Count
         /\ \A i \in 1 .. Count : Slot(i) \in Address /\ Stored[i] = mem[Slot(i)]
         /\ wrFull <=> Count = Depth
         /\ rdEmpty <=> Count = 0
<1>1. Count \in 0 .. Depth
  BY DEF FifoTypeOK, Count
<1>2. \A i \in 1 .. Count : Slot(i) \in Address
  BY <1>1 DEF FifoTypeOK, Slot
<1>3. \A i \in 1 .. Count : mem[Slot(i)] \in Word
  BY <1>2 DEF FifoTypeOK
<1>4. Stored \in [1 .. Count -> Word]
  BY <1>3 DEF Stored
<1>5. Stored \in Seq(Word) /\ Len(Stored) = Count
  BY <1>1, <1>4
<1>6. wrFull <=> Count = Depth
  BY DEF FifoTypeOK, Count, wrFull
<1>7. rdEmpty <=> Count = 0
  <2>1. wrPtr = rdPtr <=> wrPtr.top = rdPtr.top /\ wrPtr.at = rdPtr.at
    BY DEF FifoTypeOK
  <2>2. QED BY <2>1 DEF FifoTypeOK, Count, rdEmpty
<1>8. QED BY <1>1, <1>2, <1>5, <1>6, <1>7 DEF Stored

\* The same of the next state.
LEMMA StoredTypeNext ==
  ASSUME FifoTypeOK'
  PROVE  /\ Stored' \in Seq(Word)
         /\ Len(Stored') = Count'
         /\ Count' \in Nat
         /\ \A i \in 1 .. Count' : Stored'[i] = mem'[Slot(i)']
<1>1. Count' \in 0 .. Depth
  BY DEF FifoTypeOK, Count
<1>2. \A i \in 1 .. Count' : Slot(i)' \in Address
  BY <1>1 DEF FifoTypeOK, Slot
<1>3. \A i \in 1 .. Count' : mem'[Slot(i)'] \in Word
  BY <1>2 DEF FifoTypeOK
<1>4. Stored' = [i \in 1 .. Count' |-> mem'[Slot(i)']]
  BY DEF Stored
<1>5. QED BY <1>1, <1>3, <1>4

\* Two bits differ when one is the other inverted.
LEMMA Bits ==
  ASSUME NEW b \in BOOLEAN, NEW c \in BOOLEAN
  PROVE  /\ b # c <=> b = ~c
         /\ b # c <=> ~b = c
         /\ ~b = ~c <=> b = c
OBVIOUS

\* What a clock does to the number of words and to their slots.
LEMMA ClockSlots ==
  ASSUME FifoTypeOK, FifoTypeOK',
         NEW wrEn \in BOOLEAN, NEW rdEn \in BOOLEAN, NEW word \in Word,
         WritePort(wrEn, word), ReadPort(rdEn)
  PROVE  LET added == IF wrEn /\ ~wrFull THEN 1 ELSE 0
             gone  == IF rdEn /\ ~rdEmpty THEN 1 ELSE 0
         IN  /\ Count' = Count + added - gone
             /\ \A i \in 1 .. Count - gone :
                  Slot(i)' = Slot(i + gone) /\ mem'[Slot(i + gone)] = mem[Slot(i + gone)]
             /\ added = 1 => Slot(Count)' = wrPtr.at /\ mem'[wrPtr.at] = word
<1> DEFINE added == IF wrEn /\ ~wrFull THEN 1 ELSE 0
           gone  == IF rdEn /\ ~rdEmpty THEN 1 ELSE 0
<1>0. /\ rdEmpty <=> wrPtr.top = rdPtr.top /\ wrPtr.at = rdPtr.at
      /\ wrFull <=> wrPtr.top # rdPtr.top /\ wrPtr.at = rdPtr.at
  BY DEF rdEmpty, wrFull, FifoTypeOK
<1> DEFINE moves(p, q, by) ==
             /\ by = 0 => q.top = p.top /\ q.at = p.at
             /\ by = 1 /\ p.at = Depth - 1 => q.top = ~p.top /\ q.at = 0
             /\ by = 1 /\ p.at # Depth - 1 => q.top = p.top /\ q.at = p.at + 1
<1>m. moves(wrPtr, wrPtr', added) /\ moves(rdPtr, rdPtr', gone)
  BY DEF WritePort, ReadPort, Advance, FifoTypeOK
<1>1. Count' = Count + added - gone
  <2>1. /\ wrPtr.top \in BOOLEAN /\ rdPtr.top \in BOOLEAN
        /\ wrPtr.at \in Address /\ rdPtr.at \in Address
    BY DEF FifoTypeOK
  <2>2. Count' = IF wrPtr'.top = rdPtr'.top THEN wrPtr'.at - rdPtr'.at
                 ELSE Depth + wrPtr'.at - rdPtr'.at
    BY DEF Count
  <2>b. /\ wrPtr.top # rdPtr.top <=> wrPtr.top = ~rdPtr.top
        /\ wrPtr.top # rdPtr.top <=> ~wrPtr.top = rdPtr.top
        /\ ~wrPtr.top = ~rdPtr.top <=> wrPtr.top = rdPtr.top
    BY <2>1, Bits
  <2>3. CASE added = 0 /\ gone = 0
    BY <1>m, <2>1, <2>2, <2>3 DEF Count
  <2>4. CASE added = 0 /\ gone = 1
    BY <1>0, <1>m, <2>1, <2>2, <2>b, <2>4 DEF Count, FifoTypeOK
  <2>5. CASE added = 1 /\ gone = 0
    BY <1>0, <1>m, <2>1, <2>2, <2>b, <2>5 DEF Count, FifoTypeOK
  <2>6. CASE added = 1 /\ gone = 1
    <3>1. wrPtr.at = Depth - 1 => wrPtr'.top = ~wrPtr.top /\ wrPtr'.at = 0
      BY <1>m, <2>6
    <3>2. rdPtr.at = Depth - 1 => rdPtr'.top = ~rdPtr.top /\ rdPtr'.at = 0
      BY <1>m, <2>6
    <3>3. wrPtr.at # Depth - 1 => wrPtr'.top = wrPtr.top /\ wrPtr'.at = wrPtr.at + 1
      BY <1>m, <2>6
    <3>4. rdPtr.at # Depth - 1 => rdPtr'.top = rdPtr.top /\ rdPtr'.at = rdPtr.at + 1
      BY <1>m, <2>6
    <3>5. Count' = Count
      <4>1. CASE wrPtr.at = Depth - 1
        BY <1>0, <2>1, <2>2, <2>b, <2>6, <3>1, <3>2, <3>4, <4>1 DEF Count, FifoTypeOK
      <4>2. CASE wrPtr.at # Depth - 1
        <5>1. CASE rdPtr.at = Depth - 1
          BY <2>1, <2>2, <2>b, <3>2, <3>3, <4>2, <5>1 DEF Count, FifoTypeOK
        <5>2. CASE rdPtr.at # Depth - 1
          BY <2>1, <2>2, <3>3, <3>4, <4>2, <5>2 DEF Count
        <5>3. QED BY <5>1, <5>2
      <4>3. QED BY <4>1, <4>2
    <3>6. Count \in Int
      BY <2>1 DEF Count
    <3>7. QED BY <2>6, <3>5, <3>6
  <2>7. added \in {0, 1} /\ gone \in {0, 1}
    OBVIOUS
  <2> HIDE DEF added, gone
  <2>8. QED BY <2>3, <2>4, <2>5, <2>6, <2>7
<1>2. \A i \in 1 .. Count - gone : Slot(i)' = Slot(i + gone)
  <2> TAKE i \in 1 .. Count - gone
  <2>1. Count \in 0 .. Depth
    BY StoredType
  <2>2. rdPtr'.at = IF gone = 0 THEN rdPtr.at ELSE IF rdPtr.at = Depth - 1 THEN 0 ELSE rdPtr.at + 1
    BY DEF ReadPort, Advance, FifoTypeOK
  <2>3. QED BY <2>1, <2>2 DEF Slot, FifoTypeOK
<1>3. \A i \in 1 .. Count : wrEn /\ ~wrFull => Slot(i) # wrPtr.at
  BY DEF Slot, Count, wrFull, FifoTypeOK
<1>4. \A i \in 1 .. Count - gone : mem'[Slot(i + gone)] = mem[Slot(i + gone)]
  <2> TAKE i \in 1 .. Count - gone
  <2>1. i + gone \in 1 .. Count
    BY StoredType
  <2>2. Slot(i + gone) \in Address
    BY <2>1, StoredType
  <2>3. wrEn /\ ~wrFull => Slot(i + gone) # wrPtr.at
    BY <2>1, <1>3
  <2>4. QED BY <2>2, <2>3 DEF WritePort, FifoTypeOK
<1>5. added = 1 => mem'[wrPtr.at] = word
  BY DEF WritePort, FifoTypeOK
<1>6. added = 1 => Slot(Count)' = wrPtr.at
  <2>1. HAVE added = 1
  <2>2. rdPtr'.at = IF gone = 0 THEN rdPtr.at ELSE IF rdPtr.at = Depth - 1 THEN 0 ELSE rdPtr.at + 1
    BY DEF ReadPort, Advance, FifoTypeOK
  <2>3. Slot(Count)' = IF rdPtr'.at + Count' - 1 < Depth THEN rdPtr'.at + Count' - 1
                      ELSE rdPtr'.at + Count' - 1 - Depth
    BY DEF Slot
  <2>4. Count' = Count + 1 - gone
    BY <1>1, <2>1
  <2>5. rdPtr.at \in Address /\ wrPtr.at \in Address /\ Count \in Nat
    BY StoredType DEF FifoTypeOK
  <2>6. /\ wrPtr.top = rdPtr.top => Count = wrPtr.at - rdPtr.at /\ Count >= 0
        /\ wrPtr.top # rdPtr.top =>
             Count = Depth + wrPtr.at - rdPtr.at /\ wrPtr.at < rdPtr.at
    BY <1>0, <2>1 DEF Count, FifoTypeOK
  <2>7. CASE gone = 0
    BY <2>2, <2>3, <2>4, <2>5, <2>6, <2>7
  <2>8. CASE gone = 1
    <3>1. Count # 0
      BY <2>8, StoredType
    <3>2. QED BY <2>2, <2>3, <2>4, <2>5, <2>6, <2>8, <3>1
  <2>9. QED BY <2>7, <2>8
<1>7. QED BY <1>1, <1>2, <1>4, <1>5, <1>6

--------------------------------------------------------------------------------
\* A step of the FIFO is a step of the queue.
LEMMA ClockImplements ==
  ASSUME FifoTypeOK, FifoTypeOK', FifoClock
  PROVE  Queue!QueueNext
<1>1. PICK wrEn \in BOOLEAN, rdEn \in BOOLEAN, word \in Word :
        WritePort(wrEn, word) /\ ReadPort(rdEn)
  BY DEF FifoClock
<1> DEFINE added == IF wrEn /\ ~wrFull THEN 1 ELSE 0
           gone  == IF rdEn /\ ~rdEmpty THEN 1 ELSE 0
           kept  == Queue!Remaining(rdEn)
           written == Queue!Accepted(wrEn, word)
<1>2. /\ Count' = Count + added - gone
      /\ \A i \in 1 .. Count - gone :
           Slot(i)' = Slot(i + gone) /\ mem'[Slot(i + gone)] = mem[Slot(i + gone)]
      /\ added = 1 => Slot(Count)' = wrPtr.at /\ mem'[wrPtr.at] = word
  BY <1>1, ClockSlots
<1>3. /\ kept \in Seq(Word)
      /\ Len(kept) = Count - gone
      /\ \A i \in 1 .. Count - gone : kept[i] = Stored[i + gone]
  <2>1. CASE rdEn /\ ~rdEmpty
    <3>1. Stored # << >> /\ Count > 0
      BY <2>1, StoredType
    <3>2. kept = Tail(Stored)
      BY <2>1, <3>1 DEF Queue!Remaining
    <3>3. QED BY <2>1, <3>1, <3>2, StoredType, HeadTailProperties
  <2>2. CASE ~(rdEn /\ ~rdEmpty)
    <3>1. rdEn => Stored = << >>
      BY <2>2, StoredType, EmptySeq
    <3>2. kept = Stored
      BY <3>1 DEF Queue!Remaining
    <3>3. QED BY <2>2, <3>2, StoredType
  <2>3. QED BY <2>1, <2>2
<1>4. /\ written \in Seq(Word)
      /\ Len(written) = added
      /\ added = 1 => written[1] = word
  BY StoredType DEF Queue!Accepted
<1>m. added \in {0, 1} /\ gone \in {0, 1}
  OBVIOUS
<1>b. Count \in Nat /\ Count' \in Nat
  BY StoredType, StoredTypeNext
<1>5. Stored' = kept \o written
  <2> HIDE DEF kept, written, added, gone
  <2>1. /\ Stored' \in Seq(Word) /\ Len(Stored') = Count'
        /\ \A i \in 1 .. Count' : Stored'[i] = mem'[Slot(i)']
    BY StoredTypeNext
  <2>2. kept \o written \in Seq(Word) /\ Len(kept \o written) = Count'
    BY <1>2, <1>3, <1>4, <1>m, <1>b, ConcatProperties
  <2>3. ASSUME NEW i \in 1 .. Count' PROVE Stored'[i] = (kept \o written)[i]
    <3>1. CASE i <= Count - gone
      <4>1. i \in 1 .. Count - gone /\ i + gone \in 1 .. Count
        BY <1>m, <1>b, <3>1
      <4>2. Stored'[i] = mem[Slot(i + gone)]
        BY <1>2, <2>1, <4>1
      <4>3. (kept \o written)[i] = Stored[i + gone]
        BY <1>3, <1>4, <1>m, <1>b, <4>1, ConcatProperties
      <4>4. QED BY <4>1, <4>2, <4>3, StoredType
    <3>2. CASE ~(i <= Count - gone)
      <4>1. added = 1 /\ i = Count' /\ i = Len(kept) + 1
        BY <1>2, <1>3, <1>m, <1>b, <3>2
      <4>2. Stored'[i] = word
        BY <1>2, <2>1, <4>1
      <4>3. (kept \o written)[i] = written[1]
        <5>1. i \in 1 .. Len(kept) + Len(written) /\ ~(i <= Len(kept)) /\ i - Len(kept) = 1
          BY <1>3, <1>4, <1>m, <1>b, <4>1
        <5>2. QED BY <1>3, <1>4, <5>1, ConcatProperties
      <4>4. QED BY <1>4, <4>1, <4>2, <4>3
    <3>3. QED BY <1>m, <1>b, <3>1, <3>2
  <2>4. QED BY <2>1, <2>2, <2>3, SeqEqual
<1>6. rdData' = IF rdEn /\ Stored # << >> THEN Head(Stored) ELSE rdData
  <2>1. rdEmpty <=> Stored = << >>
    BY StoredType, EmptySeq
  <2>2. ~rdEmpty => Head(Stored) = mem[rdPtr.at]
    <3>1. HAVE ~rdEmpty
    <3>2. Count >= 1 /\ Count \in Nat
      BY <3>1, StoredType
    <3>3. Head(Stored) = Stored[1]
      BY <2>1, <3>1, HeadTailProperties, StoredType
    <3>4. Slot(1) = rdPtr.at
      BY DEF Slot, FifoTypeOK
    <3>5. QED BY <3>2, <3>3, <3>4, StoredType
  <2>3. QED BY <1>1, <2>1, <2>2 DEF ReadPort
<1>7. Queue!QueueStep(wrEn, word, rdEn)
  BY <1>5, <1>6 DEF Queue!QueueStep
<1>8. QED BY <1>7 DEF Queue!QueueNext

\* Every run of generic_fifo_sync, with any depth, words, reads, writes and
\* resets, is a run of the bounded queue.
THEOREM FifoImplements == FifoSpec => ImplementsQueue
<1>1. FifoInit => Queue!QueueInit
  <2>1. SUFFICES ASSUME FifoInit PROVE Stored = << >>
    BY DEF FifoInit, Queue!QueueInit
  <2>2. FifoTypeOK /\ Count = 0
    BY <2>1 DEF FifoInit, FifoTypeOK, Count
  <2>3. QED BY <2>2, StoredType, EmptySeq
<1>2. FifoTypeOK /\ FifoTypeOK' /\ [FifoNext]_fifoVars => [Queue!QueueNext]_<<Stored, rdData>>
  <2> SUFFICES ASSUME FifoTypeOK, FifoTypeOK', [FifoNext]_fifoVars
               PROVE  [Queue!QueueNext]_<<Stored, rdData>>
    OBVIOUS
  <2>1. CASE FifoClock
    BY <2>1, ClockImplements
  <2>2. CASE Reset
    <3>1. Count' = 0 /\ rdData' = FifoZero
      BY <2>2 DEF Reset, Count
    <3>2. Stored' = << >>
      BY <3>1, StoredTypeNext, EmptySeq
    <3>3. QED BY <3>1, <3>2 DEF Queue!QueueNext, Queue!QueueReset
  <2>3. CASE UNCHANGED fifoVars
    BY <2>3 DEF fifoVars, Stored, Count, Slot
  <2>4. QED BY <2>1, <2>2, <2>3 DEF FifoNext
<1>3. QED BY <1>1, <1>2, FifoTypeAlways, PTL DEF FifoSpec, ImplementsQueue, Queue!QueueSpec

HIDE FifoParameters DEF Address, Pointer, Origin

--------------------------------------------------------------------------------
(***************************************************************************)
(* Every coefficient is multiplied with its own word of the matrix, for    *)
(* every rank, every length of a column longer than the pipeline, and any  *)
(* pace of the sampling that stays ahead of the phase.                     *)
(*                                                                         *)
(* The invariant counts: the FSM has counted Counted words, the one or two *)
(* of the last two clocks are not read yet, and each word read is the next *)
(* one the hash core wrote.  A column is longer than the three clocks from *)
(* the count to the product, so the words of two columns never mix.        *)
(***************************************************************************)

\* Where a pointer stands after n words, n not above Depth.
After(n) == IF n < Depth THEN [top |-> FALSE, at |-> n] ELSE [top |-> TRUE, at |-> 0]

\* The words of the finished columns, and those the FSM has counted.
Base == Columns * Coefs
Counted == Base + (IF state = "b" THEN ctrK ELSE IF state \in {"c", "d"} THEN Coefs ELSE 0)

\* Those of them the FIFO has given out.
Unread(p) == IF p.on THEN 1 ELSE 0
Consumed == Counted - Unread(pipe[1]) - Unread(pipe[2])

PhaseType ==
  /\ state \in {"row", "a", "b", "c", "d", "done"}
  /\ ctrK \in Index
  /\ col \in 0 .. Rank - 1
  /\ row \in Nat
  /\ state \in {"row", "a"} => ctrK = 0
  /\ produced \in 0 .. Total
  /\ pipe \in [1 .. 3 -> [on : BOOLEAN, at : Index]]

\* The word of position k of the pipeline was counted k clocks ago.
PipeInv ==
  \A k \in 1 .. 3 :
    /\ pipe[k].on <=> (state = "b" /\ ctrK >= k) \/ (state = "c" /\ ctrK < k)
    /\ pipe[k].on => pipe[k].at = IF state = "b" THEN ctrK - k ELSE Coefs + ctrK - k

\* Words leave the FIFO in the order they were written.
OrderInv ==
  /\ Consumed \in 0 .. produced
  /\ wrPtr = After(produced)
  /\ rdPtr = After(Consumed)
  /\ \A a \in 0 .. produced - 1 : mem[a] = a + 1
  /\ rdData = Consumed

\* The products of this column are those of the words three clocks back.
ProductInv ==
  state \in {"b", "c"} =>
    \A j \in Index : j < (IF state = "b" THEN ctrK ELSE Coefs + ctrK) - 3 => ram4[j] = Base + j + 1

\* The registers of the FIFO and the products, whatever was read.
MemType == mem \in [Address -> Nat] /\ DOMAIN ram4 = Index

FeedInv == PhaseType /\ MemType /\ (~dry => PipeInv /\ OrderInv /\ ProductInv)

--------------------------------------------------------------------------------
LEMMA Sizes ==
  /\ Coefs \in Nat /\ Coefs > 3 /\ Rank \in Nat \ {0}
  /\ Depth \in Nat \ {0} /\ Total \in Nat /\ Total <= Depth
<1>1. Rank * Rank \in Nat
  BY FeedParameters
<1>2. Rank * Rank * Coefs \in Nat
  BY <1>1, FeedParameters
<1>3. QED BY <1>2, FeedParameters, FifoParameters DEF Total

LEMMA BaseType ==
  ASSUME PhaseType
  PROVE  Base \in Nat
<1>1. row * Rank \in Nat
  BY Sizes DEF PhaseType
<1>2. Columns \in Nat
  BY <1>1, Sizes DEF PhaseType, Columns
<1>3. QED BY <1>2, Sizes DEF Base

\* A finished column adds its words to the base.
LEMMA BaseStep ==
  ASSUME PhaseType, NextColumn
  PROVE  Base' = Base + Coefs
<1> DEFINE base == row * Rank
<1>1. base \in Nat /\ (row + 1) * Rank = base + Rank
  BY Sizes DEF PhaseType
<1>2. Columns' = Columns + 1
  <2>1. CASE col = Rank - 1
    <3>1. col' = 0 /\ row' = row + 1
      BY <2>1, Sizes DEF NextColumn, PhaseType
    <3>2. Columns' = base + Rank + 0
      BY <1>1, <3>1 DEF Columns
    <3>3. QED BY <1>1, <2>1, <3>2, Sizes DEF Columns
  <2>2. CASE col # Rank - 1
    <3>1. col' = col + 1 /\ row' = row
      BY <2>2, Sizes DEF NextColumn, PhaseType
    <3>2. Columns' = base + (col + 1)
      BY <3>1 DEF Columns
    <3> HIDE DEF base
    <3>3. Columns = base + col
      BY DEF Columns, base
    <3>4. QED BY <1>1, <3>2, <3>3 DEF PhaseType
  <2>3. QED BY <2>1, <2>2
<1>3. Columns \in Nat
  <2> HIDE DEF base
  <2>1. Columns = base + col
    BY DEF Columns, base
  <2>2. QED BY <1>1, <2>1 DEF PhaseType
<1>4. (Columns + 1) * Coefs = Columns * Coefs + Coefs
  <2> HIDE DEF base
  <2>1. QED BY <1>3, Sizes
<1>5. QED BY <1>2, <1>4 DEF Base

LEMMA AfterType ==
  ASSUME NEW n \in 0 .. Depth
  PROVE  /\ After(n).top \in BOOLEAN /\ After(n).at \in Address
         /\ n < Depth => Advance(After(n)) = After(n + 1)
         /\ \A m \in 0 .. Depth : After(m) = After(n) <=> m = n
         /\ n < Depth => ~After(n).top
         /\ n < Depth => After(n).at = n
<1> USE Sizes
<1>1. After(n).top \in BOOLEAN /\ After(n).at \in Address
  BY DEF After, Address
<1>2. n < Depth => After(n) = [top |-> FALSE, at |-> n]
  BY DEF After
<1>3. n < Depth => Advance(After(n)) = After(n + 1)
  <2>1. HAVE n < Depth
  <2>2. After(n).top = FALSE /\ After(n).at = n
    BY <1>2, <2>1
  <2>3. CASE n = Depth - 1
    <3>1. After(n + 1) = [top |-> TRUE, at |-> 0]
      BY <2>3 DEF After
    <3>2. Advance(After(n)) = [top |-> ~After(n).top, at |-> 0]
      BY <2>2, <2>3 DEF Advance
    <3>3. (~After(n).top) = TRUE
      BY <2>2
    <3>4. QED BY <3>1, <3>2, <3>3
  <2>4. CASE n # Depth - 1
    <3>1. n + 1 < Depth
      BY <2>1, <2>4
    <3>2. QED BY <2>2, <2>4, <3>1 DEF After, Advance
  <2>5. QED BY <2>3, <2>4
<1>4. \A m \in 0 .. Depth : After(m) = After(n) <=> m = n
  <2> TAKE m \in 0 .. Depth
  <2>1. /\ m < Depth => After(m).at = m /\ ~After(m).top
        /\ m = Depth => After(m).top
        /\ n < Depth => After(n).at = n /\ ~After(n).top
        /\ n = Depth => After(n).top
    BY DEF After
  <2>2. QED BY <2>1
<1>5. QED BY <1>1, <1>2, <1>3, <1>4

LEMMA PhaseTypeStep ==
  ASSUME PhaseType, MemType, FeedNext
  PROVE  PhaseType' /\ MemType'
<1> USE Sizes DEF PhaseType, Index
<1>1. PICK wrEn \in BOOLEAN : Phase /\ Feed /\ Produce(wrEn)
  BY DEF FeedNext
<1>2. /\ state' \in {"row", "a", "b", "c", "d", "done"}
      /\ ctrK' \in Index /\ col' \in 0 .. Rank - 1 /\ row' \in Nat
      /\ state' \in {"row", "a"} => ctrK' = 0
  <2>1. CASE Row \/ Wait \/ Done
    BY <2>1 DEF Row, Wait, Done, phaseVars, Column
  <2>2. CASE Take
    BY <2>2 DEF Take
  <2>3. CASE Accumulate
    BY <2>3 DEF Accumulate
  <2>4. CASE NextColumn
    BY <2>4 DEF NextColumn, Column
  <2>5. QED BY <1>1, <2>1, <2>2, <2>3, <2>4 DEF Phase
<1>3. produced' \in 0 .. Total
  BY <1>1 DEF Produce
<1>4. DOMAIN ram4' = Index
  BY <1>1 DEF Feed, MemType
<1>5. pipe' \in [1 .. 3 -> [on : BOOLEAN, at : Index]]
  <2>1. pipe[1] \in [on : BOOLEAN, at : Index] /\ pipe[2] \in [on : BOOLEAN, at : Index]
    OBVIOUS
  <2>2. [on |-> state = "b", at |-> ctrK] \in [on : BOOLEAN, at : Index]
    OBVIOUS
  <2>3. pipe' = <<[on |-> state = "b", at |-> ctrK], pipe[1], pipe[2]>>
    BY <1>1 DEF Feed
  <2> DEFINE Wish == [on : BOOLEAN, at : Index]
             new == [on |-> state = "b", at |-> ctrK]
  <2>4. pipe' = <<new, pipe[1], pipe[2]>> /\ {new, pipe[1], pipe[2]} \subseteq Wish
    BY <2>1, <2>2, <2>3
  <2> HIDE DEF Wish, new
  <2>5. pipe' \in [1 .. 3 -> Wish]
    BY <2>4
  <2>6. QED BY <2>5 DEF Wish
<1>6. mem' \in [Address -> Nat]
  <2>1. produced + 1 \in Nat
    OBVIOUS
  <2>2. mem' = mem \/ mem' = [mem EXCEPT ![wrPtr.at] = produced + 1]
    BY <1>1 DEF Produce, WritePort
  <2>3. QED BY <2>1, <2>2 DEF MemType
<1>7. QED BY <1>2, <1>3, <1>4, <1>5, <1>6 DEF MemType

--------------------------------------------------------------------------------
(***************************************************************************)
(* A clock in which the sampling stays ahead.                              *)
(***************************************************************************)
\* The FSM counts a word in each clock of state b.
LEMMA CountStep ==
  ASSUME PhaseType, Phase, state = "b" => ~rdEmpty
  PROVE  /\ Counted \in Nat
         /\ Counted' = Counted + (IF state = "b" THEN 1 ELSE 0)
<1> USE Sizes DEF PhaseType, Index
<1>1. Base \in Nat
  BY BaseType
<1>2. UNCHANGED <<col, row>> => Base' = Base
  BY DEF Base, Columns
<1>3. CASE Row \/ Wait \/ Done
  BY <1>1, <1>2, <1>3 DEF Counted, Row, Wait, Done, Column, phaseVars
<1>4. CASE Take
  BY <1>1, <1>2, <1>4 DEF Counted, Take
<1>5. CASE Accumulate
  BY <1>1, <1>2, <1>5 DEF Counted, Accumulate
<1>6. CASE NextColumn
  <2>1. Base' = Base + Coefs
    BY <1>6, BaseStep
  <2>2. state = "d" /\ state' \in {"row", "a", "b", "done"} /\ ctrK' = 0
    BY <1>6 DEF NextColumn, Column
  <2>3. QED BY <1>1, <2>1, <2>2 DEF Counted
<1>7. QED BY <1>3, <1>4, <1>5, <1>6 DEF Phase

\* What is in the pipeline after a clock.
LEMMA PipeStep ==
  ASSUME PhaseType, PipeInv, Phase, Feed, state = "b" => ~rdEmpty
  PROVE  PipeInv'
<1> USE Sizes DEF PhaseType, Index
<1>1. /\ pipe'[1] = [on |-> state = "b", at |-> ctrK]
      /\ pipe'[2] = pipe[1] /\ pipe'[3] = pipe[2]
  BY DEF Feed
<1>2. pipe'[1].on <=> state = "b"
  BY DEF Feed
<1>2a. pipe'[1].at = ctrK
  BY <1>1
<1>3. CASE Row \/ Wait \/ Done
  BY <1>1, <1>2, <1>2a, <1>3 DEF Row, Wait, Done, Column, phaseVars, PipeInv
<1>4. CASE Take
  <2>1. ctrK < Coefs - 1 => state' = "b" /\ ctrK' = ctrK + 1
    BY <1>4 DEF Take
  <2>2. ctrK = Coefs - 1 => state' = "c" /\ ctrK' = 0
    BY <1>4 DEF Take
  <2>3. state = "b"
    BY <1>4 DEF Take
  <2>4. QED BY <1>1, <1>2, <1>2a, <2>1, <2>2, <2>3 DEF PipeInv
<1>5. CASE Accumulate
  <2>1. ctrK < Coefs - 1 => state' = "c" /\ ctrK' = ctrK + 1
    BY <1>5 DEF Accumulate
  <2>2. ctrK = Coefs - 1 => state' = "d"
    BY <1>5 DEF Accumulate
  <2>3. state = "c"
    BY <1>5 DEF Accumulate
  <2>4. QED BY <1>1, <1>2, <1>2a, <2>1, <2>2, <2>3 DEF PipeInv
<1>6. CASE NextColumn
  BY <1>1, <1>2, <1>2a, <1>6 DEF NextColumn, Column, PipeInv
<1>7. QED BY <1>3, <1>4, <1>5, <1>6 DEF Phase

\* The FIFO takes the next word of the matrix and gives out the next one.
LEMMA OrderStep ==
  ASSUME PhaseType, MemType, OrderInv, NEW wrEn \in BOOLEAN, Phase, Feed, Produce(wrEn),
         state = "b" => ~rdEmpty, pipe[2].on => ~rdEmpty, PhaseType'
  PROVE  OrderInv' /\ Consumed' = Consumed + Unread(pipe[2])
<1> USE Sizes
<1>1. /\ produced \in 0 .. Total /\ Consumed \in 0 .. produced
      /\ Consumed \in 0 .. Depth /\ produced \in 0 .. Depth
  BY DEF PhaseType, OrderInv
<1>2. rdEmpty <=> Consumed = produced
  BY <1>1, AfterType DEF rdEmpty, OrderInv
<1>3. Consumed' = Consumed + Unread(pipe[2])
  <2>1. /\ pipe'[1].on <=> state = "b"
        /\ pipe'[2] = pipe[1]
    BY DEF Feed
  <2>2. Unread(pipe'[1]) = IF state = "b" THEN 1 ELSE 0
    BY <2>1 DEF Unread
  <2>3. Consumed' = Counted' - Unread(pipe'[1]) - Unread(pipe[1])
    BY <2>1 DEF Consumed, Unread
  <2>4. {Unread(pipe[1]), Unread(pipe[2])} \subseteq {0, 1}
    BY DEF Unread
  <2>5. QED BY <2>2, <2>3, <2>4, CountStep DEF Consumed
<1>4. Consumed' \in 0 .. produced' /\ rdPtr' = After(Consumed') /\ rdData' = Consumed'
  <2>1. CASE pipe[2].on
    <3>1. Consumed < produced /\ Consumed' = Consumed + 1
      BY <1>1, <1>2, <1>3, <2>1 DEF Unread
    <3>2. rdPtr' = Advance(rdPtr) /\ rdData' = mem[rdPtr.at]
      BY <2>1 DEF Feed, ReadPort
    <3>3. rdPtr.at = Consumed /\ Advance(rdPtr) = After(Consumed + 1)
      BY <1>1, <3>1, AfterType DEF OrderInv
    <3>4. mem[Consumed] = Consumed + 1
      BY <1>1, <3>1 DEF OrderInv
    <3>5. produced' >= produced /\ produced' \in Nat
      BY DEF Produce, PhaseType
    <3>6. QED BY <1>1, <3>1, <3>2, <3>3, <3>4, <3>5
  <2>2. CASE ~pipe[2].on
    <3>1. Consumed' = Consumed
      BY <1>1, <1>3, <2>2 DEF Unread
    <3>2. rdPtr' = rdPtr /\ rdData' = rdData
      BY <2>2 DEF Feed, ReadPort
    <3>3. produced' >= produced /\ produced' \in Nat
      BY DEF Produce, PhaseType
    <3>4. QED BY <1>1, <3>1, <3>2, <3>3 DEF OrderInv
  <2>3. QED BY <2>1, <2>2
<1>5. wrPtr' = After(produced') /\ \A a \in 0 .. produced' - 1 : mem'[a] = a + 1
  <2>1. CASE wrEn
    <3>1. produced < Depth /\ produced' = produced + 1
      BY <1>1, <2>1 DEF Produce, PhaseType
    <3>2. wrPtr.at = produced /\ ~wrPtr.top /\ Advance(wrPtr) = After(produced + 1)
      BY <1>1, <3>1, AfterType DEF OrderInv
    <3>3. Consumed < Depth /\ rdPtr = After(Consumed) /\ wrPtr = After(produced)
      BY <1>1, <3>1 DEF OrderInv
    <3>3a. wrPtr.top = FALSE /\ rdPtr.top = FALSE
      BY <1>1, <3>1, <3>3 DEF After
    <3>4. ~wrFull
      BY <3>3a DEF wrFull
    <3>5. wrPtr' = Advance(wrPtr) /\ mem' = [mem EXCEPT ![produced] = produced + 1]
      BY <2>1, <3>2, <3>4 DEF Produce, WritePort
    <3>6. produced \in Address
      BY <1>1, <3>1 DEF Address
    <3>7. \A a \in 0 .. produced' - 1 : mem'[a] = a + 1
      <4> TAKE a \in 0 .. produced' - 1
      <4>1. a \in Address
        BY <1>1, <3>1 DEF Address
      <4>2. CASE a = produced
        BY <3>5, <3>6, <4>2 DEF MemType
      <4>3. CASE a # produced
        BY <1>1, <3>1, <3>5, <4>1, <4>3 DEF MemType, OrderInv
      <4>4. QED BY <4>2, <4>3
    <3>8. QED BY <3>1, <3>2, <3>5, <3>7
  <2>2. CASE ~wrEn
    BY <2>2 DEF Produce, WritePort, OrderInv
  <2>3. QED BY <2>1, <2>2
<1>6. QED BY <1>3, <1>4, <1>5 DEF OrderInv

\* The butterfly multiplies the word read in the clock before.
LEMMA ProductStep ==
  ASSUME PhaseType, MemType, PipeInv, OrderInv, ProductInv, Phase, Feed,
         state = "b" => ~rdEmpty
  PROVE  ProductInv'
<1> USE Sizes DEF PhaseType, Index
<1>0. Base \in Nat
  BY BaseType
<1> DEFINE ahead == IF state = "b" THEN ctrK ELSE Coefs + ctrK
<1>1. CASE state \in {"b", "c"}
  <2>1. ahead \in Nat
    OBVIOUS
  <2>2. pipe[3].on => pipe[3].at = ahead - 3 /\ rdData = Base + (ahead - 3) + 1
    <3>1. HAVE pipe[3].on
    <3>2. pipe[3].at = ahead - 3
      BY <1>1, <3>1 DEF PipeInv
    <3>3. (state = "b" /\ ctrK >= 3) \/ (state = "c" /\ ctrK < 3)
      BY <3>1 DEF PipeInv
    <3>4. rdData = Consumed
      BY DEF OrderInv
    <3>5. CASE state = "b"
      <4>1. pipe[1].on /\ pipe[2].on
        BY <3>3, <3>5 DEF PipeInv
      <4>2. Counted = Base + ctrK /\ Unread(pipe[1]) = 1 /\ Unread(pipe[2]) = 1
        BY <3>5, <4>1 DEF Counted, Unread
      <4>2a. Consumed = Base + ctrK - 1 - 1
        BY <1>0, <4>2 DEF Consumed
      <4>3. QED BY <1>0, <3>2, <3>4, <3>5, <4>2a
    <3>6. CASE state = "c"
      <4>1. /\ pipe[1].on <=> ctrK < 1
            /\ pipe[2].on <=> ctrK < 2
        BY <3>6 DEF PipeInv
      <4>2. /\ Counted = Base + Coefs
            /\ Unread(pipe[1]) = (IF ctrK < 1 THEN 1 ELSE 0)
            /\ Unread(pipe[2]) = (IF ctrK < 2 THEN 1 ELSE 0)
        BY <3>6, <4>1 DEF Counted, Unread
      <4>2a. ctrK \in {0, 1, 2}
        BY <3>3, <3>6
      <4>3. Consumed = Base + Coefs + ctrK - 2
        BY <1>0, <4>2, <4>2a DEF Consumed
      <4>4. QED BY <1>0, <3>2, <3>4, <3>6, <4>3
    <3>7. QED BY <1>1, <3>5, <3>6
  <2>3. ~pipe[3].on => (state = "b" /\ ctrK < 3) \/ (state = "c" /\ ctrK >= 3)
    BY <1>1 DEF PipeInv
  <2>4. \A j \in Index : j < ahead - 2 => ram4'[j] = Base + j + 1
    <3> TAKE j \in Index
    <3> HAVE j < ahead - 2
    <3>1. CASE pipe[3].on
      <4>1. ram4' = [ram4 EXCEPT ![ahead - 3] = Base + (ahead - 3) + 1]
        BY <2>2, <3>1 DEF Feed
      <4>2. CASE j = ahead - 3
        BY <4>1, <4>2 DEF MemType
      <4>3. CASE j # ahead - 3
        <5>1. ram4[j] = Base + j + 1
          BY <1>1, <2>1, <4>3 DEF ProductInv
        <5>2. QED BY <4>1, <4>3, <5>1 DEF MemType
      <4>4. QED BY <4>2, <4>3
    <3>2. CASE ~pipe[3].on
      <4>1. ram4' = ram4
        BY <3>2 DEF Feed
      <4>2. j < ahead - 3
        BY <2>3, <3>2
      <4>3. QED BY <1>1, <4>1, <4>2 DEF ProductInv
    <3>3. QED BY <3>1, <3>2
  <2>5. CASE state = "b"
    <3>1. Take
      BY <2>5 DEF Phase, Row, Wait, Take, Accumulate, NextColumn, Done
    <3>2. Base' = Base
      BY <3>1 DEF Take, Base, Columns
    <3>3. \/ ctrK < Coefs - 1 /\ state' = "b" /\ ctrK' = ctrK + 1
          \/ ctrK = Coefs - 1 /\ state' = "c" /\ ctrK' = 0
      BY <2>5, <3>1 DEF Take
    <3>4. QED BY <2>4, <2>5, <3>2, <3>3 DEF ProductInv
  <2>6. CASE state = "c"
    <3>1. Accumulate
      BY <2>6 DEF Phase, Row, Wait, Take, Accumulate, NextColumn, Done
    <3>2. Base' = Base
      BY <3>1 DEF Accumulate, Base, Columns
    <3>3. \/ ctrK < Coefs - 1 /\ state' = "c" /\ ctrK' = ctrK + 1
          \/ state' = "d"
      BY <2>6, <3>1 DEF Accumulate
    <3>4. QED BY <2>4, <2>6, <3>2, <3>3 DEF ProductInv
  <2>7. QED BY <1>1, <2>5, <2>6
<1>2. CASE state \notin {"b", "c"}
  <2>1. state' = "b" => ctrK' = 0
    BY <1>2 DEF Phase, Row, Wait, Take, Accumulate, NextColumn, Done, phaseVars
  <2>2. state' # "c"
    BY <1>2 DEF Phase, Row, Wait, Take, Accumulate, NextColumn, Done, phaseVars, Column
  <2>3. QED BY <2>1, <2>2 DEF ProductInv
<1>3. QED BY <1>1, <1>2

--------------------------------------------------------------------------------
LEMMA FeedInitially ==
  ASSUME FeedInit
  PROVE  FeedInv
<1> USE Sizes DEF FeedInit
<1>1. PhaseType
  <2>1. NoWish \in [on : BOOLEAN, at : Index]
    BY DEF NoWish, Index
  <2>2. pipe \in [1 .. 3 -> [on : BOOLEAN, at : Index]]
    <3> DEFINE Wish == [on : BOOLEAN, at : Index]
    <3>1. NoWish \in Wish /\ pipe = <<NoWish, NoWish, NoWish>>
      BY <2>1
    <3> HIDE DEF Wish
    <3>2. pipe \in [1 .. 3 -> Wish]
      BY <3>1
    <3>3. QED BY <3>2 DEF Wish
  <2>3. QED BY <2>2 DEF PhaseType, Index
<1>2. MemType
  BY FeedParameters DEF MemType
<1>3. pipe[1].on = FALSE /\ pipe[2].on = FALSE /\ pipe[3].on = FALSE
  BY DEF NoWish
<1>4. PipeInv
  BY <1>3 DEF PipeInv
<1>5. OrderInv
  <2>1. Unread(pipe[1]) = 0 /\ Unread(pipe[2]) = 0
    BY <1>3 DEF Unread
  <2>2. Base = 0
    BY DEF Base, Columns
  <2>3. Consumed = 0
    BY <2>1, <2>2 DEF Consumed, Counted
  <2>4. Origin = After(0) /\ FifoZero = 0
    BY FeedParameters DEF Origin, After
  <2>5. QED BY <2>3, <2>4 DEF OrderInv
<1>6. ProductInv
  BY DEF ProductInv
<1>7. QED BY <1>1, <1>2, <1>4, <1>5, <1>6 DEF FeedInv

LEMMA FeedStep ==
  ASSUME FeedInv, FeedNext
  PROVE  FeedInv'
<1>1. PhaseType /\ MemType /\ PhaseType' /\ MemType'
  BY PhaseTypeStep DEF FeedInv
<1>2. ASSUME ~dry'
      PROVE  PipeInv' /\ OrderInv' /\ ProductInv'
  <2>1. ~dry /\ (state = "b" => ~rdEmpty) /\ (pipe[2].on => ~rdEmpty)
    BY <1>2 DEF FeedNext
  <2>2. PipeInv /\ OrderInv /\ ProductInv
    BY <2>1 DEF FeedInv
  <2>3. PICK wrEn \in BOOLEAN : Phase /\ Feed /\ Produce(wrEn)
    BY DEF FeedNext
  <2>4. PipeInv'
    BY <1>1, <2>1, <2>2, <2>3, PipeStep
  <2>5. OrderInv'
    BY <1>1, <2>1, <2>2, <2>3, OrderStep
  <2>6. ProductInv'
    BY <1>1, <2>1, <2>2, <2>3, ProductStep
  <2>7. QED BY <2>4, <2>5, <2>6
<1>3. QED BY <1>1, <1>2 DEF FeedInv

\* The words stay in order, in the FIFO and in the pipeline after it.
THEOREM FeedInvAlways == FeedSpec => []FeedInv
<1>1. FeedInit => FeedInv
  BY FeedInitially
<1>2. FeedInv /\ [FeedNext]_feedVars => FeedInv'
  <2> SUFFICES ASSUME FeedInv, [FeedNext]_feedVars
               PROVE  FeedInv'
    OBVIOUS
  <2>1. CASE FeedNext
    BY <2>1, FeedStep
  <2>2. CASE UNCHANGED feedVars
    BY <2>2 DEF feedVars, fifoVars, phaseVars, FeedInv, PhaseType, MemType, PipeInv, OrderInv, ProductInv,
                Consumed, Counted, Base, Columns, Unread
  <2>3. QED BY <2>1, <2>2
<1>3. QED BY <1>1, <1>2, PTL DEF FeedSpec

\* OwnWord: no word of the matrix is read twice, skipped or left for the next
\* column, although the FIFO is read two clocks after the FSM counted the word.
THEOREM OwnWordAlways == FeedSpec => []OwnWord
<1>1. FeedInv => OwnWord
  <2> SUFFICES ASSUME FeedInv, ~dry, state = "c"
               PROVE  ram4[ctrK] = Columns * Coefs + ctrK + 1
    BY DEF OwnWord
  <2>1. ProductInv /\ ctrK \in Index /\ ctrK < (Coefs + ctrK) - 3
    BY Sizes DEF FeedInv, PhaseType, Index
  <2>2. QED BY <2>1 DEF ProductInv, Base
<1>2. QED BY <1>1, FeedInvAlways, PTL

================================================================================
