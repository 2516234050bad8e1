# Verification of the RO-PUF / fuzzy-extractor / Kyber SoC in TLA+

The repository is a small system on chip. A PicoRV32 runs `firmware/main.c`, which answers
commands from a host over a UART by driving four accelerators through memory-mapped
registers: a ring-oscillator PUF, a BCH fuzzy extractor, a SHAKE256 key derivation and a
pair of Kyber cores (a server and a client that run a whole KEM between them and compare
keys). `ENROLL` returns helper data; `RECON` takes helper data, rebuilds the device key from
a fresh measurement, derives seeds from it, runs the KEM and reports whether the keys match.

```
 host ==UART==> uart_rx -> RX FIFO \                        / PUF ----response--+
                                    soc_peripherals --start+-> FE <-helper regs-+
 host <=UART== uart_tx <- UART_DATA /   (latches)    <-done \ KDF <---key--- FE
                        |  native bus                          | seed words
                    PicoRV32 --------- bridge (riscv_soc) -> kyber_axi_wrapper -> server <-> client
```

## 1. Inventory

| Component | State it keeps | Operations | Talks to | What makes it correct |
|---|---|---|---|---|
| Firmware `firmware/main.c` | where in the command loop, error code, helper words | 3 commands, 8 failures, watchdogs | all registers, host | replies follow the protocol; values used in a transaction were made in it; secrets erased; every command ends |
| SYS_CTRL and UART registers `soc_peripherals.sv` | RX FIFO and its pointers, overflow flag, start pulses, sticky done bits | bus read and write, byte in, done in | CPU bus, uart_rx/tx, cores | no byte lost or doubled silently; a done seen is the done of the last start |
| Kyber peripheral `riscv_soc.sv`, `kyber_axi_wrapper.v` | bridge FSM, AXI handshakes, seed registers, launch FSM, status latches | write, read, start, zeroize | CPU bus, two cores | each request takes effect once; starts are clean; MATCH is honest; a zeroize stops the cores and clears seeds, shared keys and verdict |
| Kyber cores `Kyber_Server.v`, `Kyber_Client.v` with NTT, codecs, hash cores | FSM of about 50 states, FIFOs, memories | one KEM | each other's FIFOs | streams lose no word, all phases end |
| RO-PUF `kp_puf_*.sv` | FSM, three counters, LFSR, RO counters, synchronizer, shift register | start, one bit per race | SYS_CTRL, FE | every bit is a settled race on its own challenge |
| UART `uart_rx.v`, `uart_tx.v` | FSM, clock and bit counters | one frame | the line, peripherals | what is sent is received |
| Fuzzy extractor `fuzzy_extractor.sv` | FSM, word counter, five shift registers | enrol, reconstruct | BCH encoder and decoder, PUF, KDF | helper data masks a codeword; up to T errors are removed; the verdict is about the key given out |
| BCH codec `bch_*.v`, `xilinx_*code.v` | pipelines | encode, decode | FE | corrects T errors |
| KDF `kdf_keccak.sv` | FSM, key shift register, seed | derive | FE key, sponge | seed = SHAKE256 of the key at the start |
| Sponge `fips202_sponge.sv`, `ALGORITHM.v` | FSM, state, permutation input, counters | absorb, pad, permute, squeeze | KDF | FIPS 202 block structure; nothing left when idle |
| FIFOs and memories `rtl/common`, `fifo_wrappers.v` | pointers, words | push, pop | cores | queues |
| Power-on reset `Kyber_System_Top.sv` | saturating counter | - | all resets | one clean release |
| Host tool `host/uart_host.py` | one process: its next read, what it read, its statistics; the helper file; bytes in the driver | info, enrol, reconstruct, stress; open, discard, wait for START | device over UART, file system | on an idle device: takes no stale bytes for a reply, saves its own enrolment, stays in step; every read ends |
| NIST vector import `sim/fips202/import_nist_cavp.py` | current record, records, lines of the result | parse, select, check | response files, sponge test bench | a record is one block of the file |
| Vector generation `sim/fips202/generate_vectors.py` | - | - | hashlib | one pass over tables |
| PicoRV32, BRAM, board tests, `system_uart_ctrl.v` | - | - | - | third-party or not instantiated by the shipped top level |

Hard behaviours: one-clock pulses against a polling processor; accelerators and a host that
may never answer or answer late; host processes that are killed and meet each other's bytes; a zeroize that meets running cores; oscillators that belong to no
clock; two UARTs with different clocks; pipelines and handshakes whose counts must agree to the
clock; wide registers without reset. `PROJECT.json` lists each at the line where it bites.

## 2. Modules and how they correspond to the code

The models come on two levels. The RTL modules move one clock per step: an `always` block
is an operator, the clock edge is the conjunction, wires are state functions with the names
of the code. The firmware module moves one register access per step and sees the hardware
through two abstract devices.

* **`KemDevice`**: the Kyber peripheral as firmware may think of it: atomic seed, parameter,
  launch, zeroize and completion. It is also an abstract specification: `KyberWrapper` is
  checked to implement it.
* **`SysDevice`**: SYS_CTRL, its sticky bits and the three accelerators, one step per access and
  per done pulse. Data is its provenance: a response is the number of the measurement, a key is the
  FE job (mode, response, helper bytes) it came from. Hence "this seed was derived from this
  transaction" can be written down. The message seed from `session_counter` and `rdcycle` is
  data and left out.
* **`ProtocolBytes`**: commands, status bytes, error codes, markers and the shape of the helper data,
  which `main.c` and `uart_host.py` each define and have to agree on.
* **`Firmware`**: `main.c`, release build. Each register access the hardware or the host can race with
  is a step. `uart_putchar` is part of the step that calls it, which is justified by `NoByteLost`
  (module `SocPeripherals`) and `AllReceived` (module `UartLink`): the transmitter always gets free and its active flag falls. A host puts any byte into the FIFO at any time, so it
  may abandon a transfer and start again. A core answers, hangs for ever, or, if listed in
  `LateCores`, answers after its watchdog has expired.
* **`UartProtocol`**: what the device promises on its serial line, the command loop reduced to the bytes it
  reads and sends, with the hardware behind a stage as a choice between its marker and its
  failures. It is an abstract specification: `Firmware` maps its program counter to a stage
  (`StageOf`) and is checked, and proved, to implement it (`ImplementsProtocol`). `UartProtocol` also has the
  diagnostic build, which exports a key.
* **`HostTool`**: `uart_host.py`. A step of a process is a write, the arrival of one byte at a
  `ser.read`, the end of a read by timeout, opening or writing the helper file; `ser.read(n)` takes
  its bytes one at a time. `mem` is what a process knows and loses when it ends; the helper file stays.
* **`HostLink`**: `HostTool` and `UartProtocol` on the two ends of a line with bytes in flight
  both ways and bytes in the serial driver that nobody has read. Processes follow one another, may
  be killed at any step, and the bitstream may be loaded again at any step. The sleep before a discard may end in the
  middle of a reply, and a read may end before a device that enrols has answered (`Starved`).
* **`KyberWrapper`**: native bus, bridge, AXI-Lite slave, launch FSM, status latches. The two
  cores are reduced to their phases (early, streaming, late, key shift), each of any length. The
  shared key is zero, half shifted, agreed or different. `residue` is the registers of the cores that have no reset:
  sigma, rho, m, hash_pk, hash_c and dout of the Server, r, rho, hash_pk, hash_c and dout of the Client.
* **`SocPeripherals`** (with **`UartTx`**) : FIFO, overflow flag, latches, start pulses and the
  transmitter behind UART_DATA. The processor makes any sequence of the accesses the firmware's
  routines make, and may give up polling a core, whose late pulse then meets the next start. **`ByteQueue`** is the abstract receive queue.
* **`UartTx`**, **`UartRx`**, **`UartFrame`**, **`UartLink`**: both FSMs, and their composition over a line
  where in any step either clock may gain a tick, within `MaxDrift` per frame. The sender waits for the active flag, as
  `uart_putchar` does.
* **`PufTop`**: measurement FSM, LFSR (as the number of its steps), two oscillator
  counters, comparator, two synchronizer flops, shift register. In a period in which they are enabled the
  counters advance by any of `Ticks`, independently; a comparator sampled while counters move
  gives either value.
* **`FuzzyExtractor`**: FSM, word counters, shift registers, encoder with its pipeline
  delays, decoder that starts its answer after any number of clocks. The code is a constant operator. A word is one
  bit: the code's `T` counts bits, and a distance of bits is a distance of words only then.
* **`Sponge`**: `fips202_sponge.sv` with the register of the round loop. A byte is the set of things xored
  into it; the state is a history of permutations, so a digest that is right is right for
  every permutation and every message. **`SpongeStream`** adds any user of the byte streams, **`Kdf`**
  the FSM of `kdf_keccak.sv`; **`SpongeUsers`** is a sponge with one of them.
* **`CavpImport`**: `import_nist_cavp.py`, which makes the vectors the sponge is tested with. A
  response file is any sequence of blank lines, fields and other lines; a digest is the message
  it is of. It shares no state with the sponge: `SpongeUsers` picks it as a third user that leaves the
  hardware alone, so that one run covers the three.
* **`NttFeed`**: the phase of the NTT cores that multiplies the matrix of coefficients by a vector: the states
  that count coefficients, the FIFO (`SyncFifo`) the rejection sampling fills, and the pipeline
  between them, in which the FIFO is read two clocks after the FSM counted a word and the word is
  multiplied one clock later.
* **`SyncFifo`**: `generic_fifo_sync`, the FIFO behind every wrapper of the Kyber cores; a pointer is its top
  bit and its address. **`FifoQueue`** is the abstract queue.

The `MC*` modules give constants their values, `*Proofs` hold proofs: of the component they name, `UartProofs` also of
`SocPeripherals`, `KyberProofs` also of `NttFeed` and `SyncFifo`. `ProtocolLemmas` has what `FirmwareProofs` and `HostProofs`
both need: words cut into bytes and put together again. `MCKyber` and `MCKeyPath` check two models each, of units that
share no signal while they work: a behaviour is one of the one or of the other. Operators commented `mutant:`
or `Fault:` are one-line variations of the operator after them. They document what each property catches
and no specification uses them.

## 3. Runs

| Run | Question | Bounds | Distinct states |
|---|---|---|---|
| `firmware` | freshness, seeds held, termination, implements `UartProtocol` | 1 word of 2 bytes and the last byte, 3 byte values (the three commands), FIFO of 1, two transactions | 417 k |
| `firmware_faults` | what survives late cores, an unsupported parameter set, unknown commands | 2 words of 1 byte, all three cores late, parameter set 3, one unknown command byte, two transactions | 1013 k |
| `host_link` | tool and device over a line | 1 word of 2 bytes, two enrolments, two keys of one byte, both builds, two invocations, one reload, stress of 0 or 2 | 1.47 M |
| `host_stale` | is the helper file an enrolment, whatever was left in the line? (violated) | the same, release build, no reload | - |
| `kyber` | Kyber peripheral: bus, launch, status; refinement of `KemDevice`. Matrix phase: order of words, end; the FIFO implements `FifoQueue` | two seed values, no bound on time or number of accesses; 2 x 2 columns of 4 words, FIFO of 16, with and without the wait | 335 k |
| `zeroize_status` | is the streamed status cleared by a zeroize? (violated) | one seed value | - |
| `zeroize_residue` | are the cores cleared by a zeroize? (violated) | one seed value | - |
| `key_path` | measurement; enrolment and reconstruction in any order | 3 bits, races of 2, reset of 2, settling of 2 clocks, ticks 0 or 1; 2 data words repeated 3 times, T = 1, nine error patterns | 14 k |
| `uart_link` | reception under drift | 8 clocks per bit, 2 data bits, 3 bytes, drift up to 3 ticks | 56 k |
| `soc` | receive path implements `ByteQueue`; transmitter; done latches | 3 slots (2 bytes), one core, 5 clocks per bit, 1 data bit | 2.46 M |
| `sponge_users` | derivation, byte streams, vector import | rates 2 and 3, lengths 0..7, 3 rounds, key of 4 and seed of 7 bytes; texts of up to 7 lines | 210 k |
| `ntt_last_word` | is a column left only when its last word is there? (violated) | the matrix phase of `kyber` | - |

Why the bounds are enough:

* *Two transactions* are what staleness needs: one that leaves something behind and one that
  meets it. The helper needs a full word of several bytes, a last word of one byte and, for order,
  two words; the runs have each. With the three command codes as byte values, late helper bytes
  *are* commands.
* The drift of the UART is per frame, and 3 of 8 ticks is the most that half a bit allows:
  with 4 the run fails. For any other number of clocks per bit the bound is the assumption `LinkParameters`
  that the proof rests on: `(CLKS_PER_BIT - 1) / 2` when the number is even, one less when it is odd. Three bytes give a middle
  frame with a neighbour on both sides. The code has 434 clocks per bit and ten bits a frame: a
  tolerance of about 5 % between the clocks.
* Two invocations are what stale bytes need: one that is killed and one that meets what it left. The last one is not
  killed, and one reload is enough to cut off a reply or lose a command.
* In `kyber` a column of the matrix phase is longer than the pipeline (three clocks), the shortest length for which the
  drain of one column cannot meet the next. The FIFO holds the whole matrix, as the 2048 words of
  the code do, so that run never meets a full one; a full FIFO is covered by the proof.
* A FIFO of 3 slots wraps, fills and drops; pointers that are compared for equality do not care
  how long the ring is.
* The sponge lengths give an empty message, less than a block, a block less one, exactly a block, and
  several blocks for both rates. A round count of three distinguishes first, middle and last round.
* The FE code has correctable errors in every position, an error that leads to another
  codeword and one no codeword is near.
* For the Kyber peripheral time is unbounded: state repeats.

The type invariants of `Firmware`, `PufTop`, `SyncFifo`, `KyberWrapper`, `SocPeripherals` and `FuzzyExtractor` are proved,
and that of `HostLink` (`TypeInv` in `HostProofs`); the others document the
variables they type and are in no run. `PipelineInv` and `PufInv` are inductive
invariants of proofs; those of the other proofs are in the proof modules.

In `firmware_faults` the KEM is never launched; the KEM stage reads none of the latches a late core can
set, and what it leaves behind (`SecretsErased`, `SeedsHeldWhileBusy`) is proved for late cores too.

What they show. `ImplementsProtocol`: the firmware sends byte for byte what `UartProtocol` allows, in
every order of host bytes, watchdogs and answers. `SavesOwnEnrolment`, `NoFalseAlarm`, `AcceptedIsUsed`,
`LeavesNothingBehind`: a session that finds an idle device when its wait is over saves exactly the helper data of
the enrolment made for its own command, fails only if the device says so or was still enrolling when a read ended,
accepts only what the device did with the bytes this process sent, and leaves both sides ready for the next. `SessionEnds`: no read waits for ever. `OwnWord`, `PhaseEnds`: the matrix phase. `UsersServed`: transactions
and derivations end. `RecordsAreBlocks`: no field crosses a blank line. `ReplyFollowsProtocol`: whatever fails, the reply is one of the protocol's and
names the stage reached. `SecretsErased`: outside the KEM stage the peripheral is as after reset,
also with late cores. `KeyIsFresh`, `EnrolmentIsFresh`: the KEM that is judged ran on the key of this
transaction. `SeedsHeldWhileBusy`: nothing changes the seeds below a running KEM. `WrittenOnce`,
`CtrlNeverIgnored`, `CleanStart`, `MatchIsHonest`, `ErasedByZeroize`: the same from the side of the
hardware, where a clean core is one whose FSM is idle, that holds no shared key `K` and whose done latches are clear; the
registers without reset are the subject of `zeroize_residue`. `NoByteLost`: the transmitter is deaf for one clock after it reports itself
free (`CLEANUP`), and the bus is never fast enough to write in that clock. `DoneNeverLost`,
`DoneIsFresh`: clearing all latches at a start neither loses a done nor leaves an old one, also when an earlier run was
given up and pulses as late as in the clock of the next start; only a run that still goes on then can be mistaken.
`ResponseIsMeasured`, `ChallengeStable`, `EnrolmentIsCodeword`, `KeyRecovered`, `SuccessIsCodeword`,
`DigestIsRight`, `SeedIsDigest`, `IdleErased`: what each accelerator promises.

Deadlock is checked in every run but `host_link` (nobody has to start the tool again) and `sponge_users`
(the import is over when its file is written).

**Mutants.** Each property of each passing run has a variation of a modelled definition that breaks it
(`PROJECT.json`, `mutants`): a failure path without zeroize, a key comparison a clock early, a
pad in the wrong byte, a bit captured before it settled, and so on.

### What the models brought up

* **`zeroize_status`** (finding). The comment at `kyber_axi_wrapper.v:272` says CTRL[1] clears the
  sticky status. If a core streams in the clock in which a zeroize is accepted, its `valid` register
  is still high one clock later, when the core is only being reset, and lines 242-243 set
  STATUS[0] or STATUS[1] again. They stay set until the next launch or zeroize. Firmware
  does not read those bits.
* **`zeroize_residue`** (finding). The same comment says CTRL[1] clears "all state held inside both Kyber cores". It
  pulses their reset, but the registers listed under `residue` have none (`Kyber_Server.v:238-281`, `Kyber_Client.v:184-234`,
  `dout` of both): what a KEM wrote, in `dout` the last word of the shared secret, stays until a later KEM overwrites it.
  `z` and `d` of the Server and `m` of the Client are reset. `ErasedByZeroize` is about FSMs, `K` and the verdict only.
* **`ntt_last_word`** (finding). `docs/VERIFICATION_REPORT_2026-08-30.md:48-49` and the comment at
  `NTT_core_Server.v:106` say the FSM counts only words that are there and waits for the 128th. It looks at
  `fifo0_empty`, but a counted word leaves the FIFO two clocks later, so until then it is counted
  again: with a sparse stream a column is left up to two words early and the last coefficients are multiplied
  with what the FIFO last put out. In key generation, where each column waits for a word, the phase
  still ends once its first column has begun. The phases that do not wait (Server state 26, Client state 6) then take words of the
  next column uncounted and in the end wait for ever: that is why `PhaseEnds` excepts them when the FIFO
  ran dry. Whether the sampling ever falls behind depends on the rate of the hash core, which is not
  modelled; while it does not, `OwnWord` holds.
* **`host_stale`** (finding). `discard_stale_rx` (`uart_host.py:70-79`) sleeps a tenth of a second, once, and drops what has
  arrived by then. The reply of a killed `ENROLL` that begins near the end of that sleep is cut: the rest arrives after the new
  command was sent, a helper byte 0xAA passes for the success status, and the file holds the end of one reply and the beginning of
  the other. The docstring promises to discard the bytes of an earlier command. How late a reply may begin is bounded by
  `HW_TIMEOUT` alone; on hardware where an enrolment takes some tens of milliseconds a process has to be started that soon after the kill.
* **What the tool relies on.** `SavesOwnEnrolment`, `AcceptedIsUsed`, `LeavesNothingBehind` and `NoFalseAlarm` are stated for
  sessions that find an idle device when the wait is over: nothing under way in either direction and the device in its
  command loop. `docs/HARDWARE_BRINGUP.md:73-74` tells the operator to send nothing more after a timeout, and to
  reload the bitstream. A reload while a process still reads makes it take bytes of `START` for what it waits for, between
  two helper bytes for helper data: nothing on the line tells them apart. `HostLink` has reloads at every step; a session
  that is hit by one is not counted as one that met an idle device.
* **A read that ends too early.** The status of `ENROLL` is one read of 10 s (`uart_host.py:113`), in which the firmware waits for the PUF and
  then for the encoder, each with a watchdog of about 9 s (`main.c:151,157`). A device in trouble can answer after the tool gave up;
  `Starved` lets it, and `NoFalseAlarm` excepts a read that ended while the device was enrolling.
* **A banner in helper data.** `wait_for_start` (`uart_host.py:54-68`) takes the bytes `START` for the banner wherever they come,
  and `--wait-start` discards nothing before. If helper data has them in it, the wait ends in the middle of the reply of a killed
  enrolment; such a session has not met an idle device.
* **Stress of the diagnostic build.** `do_stress` compares the keys of its iterations, the firmware makes
  a new one for each transaction (`main.c:228-248`): a healthy diagnostic device fails a stress run of
  two. `NoFalseAlarm` excepts it.
* **Late cores.** `KeyIsFresh` and `EnrolmentIsFresh` need that a core never answers after its
  watchdog expired: sticky bits say *which* core answered, not for which start. The hardware has no
  way to cancel an accelerator; the argument is that `HW_TIMEOUT` polls outlast the longest run by
  orders of magnitude. The properties are therefore stated for `LateCores = {}`, the others for both.
* **PUF challenges.** The LFSR has 8 bits and period 255, a response 264 bits; the last nine challenges
  repeat the first nine. In `PufTop` a challenge is a step count, so this is not visible there.

## 4. Fairness

* `Firmware`: weak fairness of the firmware (a processor keeps executing, and its loops are bounded)
  and of the cores (a running core answers *or hangs*, so nothing is assumed of its answer). None for the host
  and none for the KEM: the watchdogs bring `CommandAnswered` about.
* `HostLink`: weak fairness of the tool, of its sleeps and reads, of the bytes in flight and of the device.
  Nobody has to start or kill the tool or reload the device. One fact about time is built in: a read of 10 or
  15 s outlasts one watchdog of the firmware, `HW_TIMEOUT` polls (about 9 s at 50 MHz), so that it ends short only if the device waits
  for a byte or is being loaded, enrols (two watchdogs before its first byte), or has markers to send to a read of several bytes
  (`Starved`). Nothing is assumed of the sleep of 0.1 s.
  `UART_TIMEOUT` (about 22 s) is longer than a read: a tool that gave up may be followed by one that meets the
  device still in its helper loop, which the model allows.
* `NttFeed`: clocks go on, the transforms between two rows end, and the hash core makes the whole matrix.
* RTL modules: weak fairness of the clock. In `SpongeUsers` also that the user offers and takes
  bytes and that resets cease; in `FuzzyExtractor` that the decoder, which only counts clocks, answers; in
  `UartLink` that both clocks tick. Resets and starts have no fairness.

## 5. What is proved

TLAPS proves, for every value of the constants within their stated assumptions:

| Theorem | Statement | Argument |
|---|---|---|
| `FirmwareProofs!TypeCorrect` | `Spec => []TypeOK` | inductive as it stands; slices of received bytes by `SliceType` |
| `FirmwareProofs!SecretsErasedAlways` | `Spec => []SecretsErased` | inductive with the types: the KEM stage is only entered by loading seeds, only left through a zeroize |
| `FirmwareProofs!PipelineAlways` | `Spec => []PipelineInv`, if `LateCores = {}` | see below |
| `FirmwareProofs!KeyIsFreshAlways`, `EnrolmentIsFreshAlways` | from `PipelineInv` | `Seeded`, `Encoded` |
| `FirmwareProofs!SeedsHeldAlways` | `Spec => SeedsHeldWhileBusy` | from `LoadedInv` (busy implies loaded seeds) |
| `FirmwareProofs!ImplementsProtocolAlways` | `Spec => ImplementsProtocol` | one lemma per part of the command loop, over `LineInv` |
| `FirmwareProofs!ReplyFollowsProtocolAlways` | `Spec => []ReplyFollowsProtocol` | from `SaidInv`, `OutInv`: see below |
| `PufProofs!PufInvAlways` | `Spec => [](TypeOK /\ PufInv)` | `InStep`, `Settled`, `Shifted`, one lemma each |
| `PufProofs!ResponseIsMeasuredAlways`, `ChallengeStableAlways` | from `PufInv` | |
| `KyberProofs!FifoImplements` | `FifoSpec => ImplementsQueue` | the pointers are at most one turn apart (`FifoTypeAlways`); a write goes to a slot no stored word is in, a read shifts the rest (`ClockSlots`) |
| `KyberProofs!KyberInvAlways` | `Spec => []KyberInv` | see below |
| `KyberProofs!WrittenOnceAlways`, `CtrlNeverIgnoredAlways`, `CleanStartAlways`, `MatchIsHonestAlways`, `ErasedByZeroizeAlways` | from `KyberInv` | |
| `KyberProofs!ImplementsDeviceAlways` | `Spec => ImplementsDevice` | the clock in which a write is accepted maps to the step of `KemDevice`, every other clock to a stutter or to a step of the cores |
| `UartProofs!SocInvAlways` | `Spec => []SocInv` | see below |
| `UartProofs!NoByteLostAlways`, `DoneNeverLostAlways`, `DoneIsFreshAlways` | from `SocInv` | |
| `UartProofs!ImplementsQueueAlways` | `Spec => ImplementsQueue` | the pointers differ by the number of stored bytes; a full FIFO drops and says so |
| `KyberProofs!FeedInvAlways`, `OwnWordAlways` | `FeedSpec => []FeedInv`, `[]OwnWord` | see below |
| `FuzzyProofs!FeInvAlways`, `TypeAlways` | `Spec => []FeInv`, `[]TypeOK` | see below |
| `FuzzyProofs!EnrolmentIsCodewordAlways`, `KeyRecoveredAlways`, `SuccessIsCodewordAlways` | from `FeInv` | `ErrorIsFound` for the second |
| `UartProofs!LinkInvAlways`, `ReceivedAsSentAlways` | `LinkSpec => []LinkInv`, `[]ReceivedAsSent` | see below |
| `SpongeProofs!IdleErasedAlways` | `UsersSpec => []IdleErased` | with `PermutationQuiet`: the round register moves only while permuting |
| `SpongeProofs!DigestIsRightAlways`, `SeedIsDigestAlways` | `UsersSpec => []DigestIsRight`, `[]SeedIsDigest` | see below |
| `SpongeProofs!RecordsAreBlocksAlways` | `UsersSpec => []RecordsAreBlocks` | `ImportInv`: the record in progress has the fields of the block being read, the finished ones lie before it |
| `HostProofs!TypeAlways` | `Spec => []TypeInv` | types, and where both ends are in their loops (`LoopInv`, `ToolInv`) |
| `HostProofs!SavesOwnAlways` | `Spec => SavesOwnEnrolment` | from `SessionInv` and `EnrolInv`: see below |
| `HostProofs!AlarmIsTrue` | `Spec => []NoFalseAlarm` | from `SessionInv`: see below |
| `HostProofs!AcceptsOwnReply`, `AcceptsWholeReply` | `Spec => AcceptedIsUsed`, `LeavesNothingBehind` | from `SessionInv`: `Outcome` is what a step that accepts has to meet |

*Freshness.* `KeyIsFresh` speaks of the last stages only and is not inductive. `PipelineInv` says at each
stage that what the stages after it will read already comes from this transaction: `CoreInv` (a core works only
while firmware waits for it, and an answer on record is that of a core that has stopped; this is
where `LateCores = {}` is used), `HelperInv` (the acknowledged words are in their registers), then `Measured`,
`Encoded`, `Decoded`, `Derived`, `Seeded`, one per stage. A step of the firmware hands one to the
next, a step of a core turns "is working on" into "has answered".

*Protocol.* The protocol tells its stages apart by the number of bytes sent, the firmware by its program counter.
With `LineInv` each register access maps to a stutter (`LineSilent`, `LineHardware`) or to one step of
`UartProtocol` (`LineCommand`, `LineEnroll`, `LineHelper`, `LineProgress`, `LineGivesUp`, `LineEnd`). Its parts:
`RepliedInv`, how many bytes are out at each place; `CountInv`, because the helper loop compares the bytes received
with `==`, which is the `<` of the protocol only while no word is overrun; `AnswerInv`, because helper data
must not change while it is sent: the encoder that announced it has stopped. None needs `LateCores = {}`: an
answer taken for that of another start makes a stale key, and not a byte the protocol does not allow.

*Replies.* `ReplyFollowsProtocol` says nothing of the bytes sent when a failure is about to be reported. `SaidInv`
does: at each place of the program it gives the bytes sent so far, and where a failure is on its way, that its
report completes a reply. While helper data is sent these are the bytes of the first `word` words of what the encoder's
registers hold now, so it also needs `AnswerInv` and `OutInv` (the registers hold what an enrolment produced, or zero).
`SendWord` is the lemma that one more word makes one more slice; it rests on the assumption `HelperShape`, that
a register word has four bytes and the last one, and on `WordOfByte` for the arithmetic. No core needs to be on time.

*Host link, a session in step.* `NoFalseAlarm` and the two action properties only speak of the end of a command. `SessionInv` says at each
byte of a session that met an idle device where the other end is. `ReplyInv` gives what the device has sent at each place of its loops;
`InStep` has one part per phase of a command (`Asking`, `Informed`, `Enrolling`, `Helping`, `Working`, `Finished`, `Idle`, and
`Broken(p)` once the device gave up after `p` bytes). In each of them what is unread is the rest of the reply after the bytes
`Taken`, and what is on its way to the device is the rest of what the tool wrote (`Pending`). `Broken(p)` carries the bytes before
the failure, for the tool reads these first and must not fail over them. The proofs assume of the constants `LinkAssumption`
(enrolments have the shape of helper data, keys are `KeyLength` bytes) and that a word fits the receive FIFO (4 bytes
in 15), without which the helper loop of the device would starve on bytes dropped.

*Host link, what is saved.* `InStep` places what is unread in the reply, and a save needs the bytes already read as well. `HeldInv`
says them: while helper data arrives the tool has the bytes of the reply after the status, and when the file is written
all of them. `SaysInv` says what the reply is: while the device sends, a success status and whole words of one
enrolment, and once it is out, all of it (`Enrolled`), since a reply that begins with the success status is no other. So a
session that met an idle device saves that enrolment, whatever the driver, the line and the file held before it.

*PUF.* `Settled` follows the comparison through the two flops: after the first settling clock it is
in `meta`, after the second in `sync`. That needs `SettleCycles >= 2`, the only timing
assumption. `Shifted` relates the shift register to the races already run; `InStep` keeps the counters, the
number of races and the challenge together.

*Kyber peripheral.* `KyberInv` is the conjunction of the types, `BusInv` (bridge and slave are always at
matching places of the handshake, so a request that was accepted is not accepted again), `LaunchInv` (where a
launch may be on its way, the cores have been in reset), `CoreInv` and `ReadInv` (a status word being
returned is one the registers showed during this access). `CoreInv` has one part per regime: `LaunchingInv`
while the start is delayed, `ErasedInv` while nothing was launched since the last zeroize, `RunningInv`
afterwards, which ties the key registers to the phase of each core and thus makes `MATCH` honest.

*SoC registers.* `SocInv`: `ActiveInv` and `AccessInv` place the processor in its access, `IdleKnown` and `ByteKnown`
say what it may still believe of a status it read some clocks ago: a transmitter read as free is free, or in the
one deaf clock that the bus cannot hit; a byte read as present is still there. `WaitInv` says the same of a latched done.

*NTT phase.* The FSM counts a word some clocks before the FIFO gives it out. `Counted` and `Consumed` number the words;
`Consumed` is `Counted` less what is in the pipeline (`PipeInv`), and `OrderInv`, `ProductInv` identify the word
in each pipeline register by its number, as long as the FIFO never ran dry. It needs `Coefs > 3`: a column longer
than the pipeline (128 in the code).

*UART.* `LinkInv` counts the clocks of a frame on both sides: `TxAt(t)`, `RxIn(p)` say where each FSM is, `Near(t, p)`
how far apart they may be: the drift so far, and the one or two clocks it took to see the start. So when the receiver takes
a level that it will look at two flops later (`FlopsAt`), the transmitter is in that very bit (`FlopsStep`, from `LineShows`).
At the end of a frame one side may be done first: `Ending` is a receiver up to three clocks behind, also when the next
frame begins without a gap (`Starting`), and `Reported` one ahead. The assumption is
`(ClksPerBit - 1) \div 2 + MaxDrift + 2 <= ClksPerBit`: half a bit of drift, less what the two flops take.
It is tight: with 8 or 7 clocks per bit TLC finds a wrong byte once `MaxDrift` is one more than it allows.

*Fuzzy extractor.* The encoder is a pipeline of counted clocks, so the invariant says what each of its registers holds
at clock `n` of an encoding (`EncAt(n)`), and what the decoder has taken and given after `k` words (`Taken`, `Given`).
`JobInv` hands these from one state of the FSM to the next, over both operations. `ErrorIsFound` is the
coding argument: codewords differ in more than `2T` places, so an error of at most `T` is the only one that explains
the received word. Assumed of the code: that its words are that far apart, and that `Ecc` gives words of the right length.
That the BCH encoder and decoder are such a code is the assumption `FuzzyExtractor` makes of its constants.

*Digests.* `Transaction(md, m, L, N, t, g)` says what the sponge holds when it has taken `t` of the `L` bytes of message
`m` and given out `g` of `N`: some number `c` of whole blocks permuted (`Prefix`), and over it the bytes of the block in
progress (`Filled`), a whole block on its way through the rounds (`Permuting`, for one of the four reasons of the code) or
nothing (`Squeezing`). One lemma per state of the FSM; `TransactionClock` joins them, and both users are
proved against it: `StreamInv` for any user, `DerivationAt(key, n)` for `kdf_keccak.sv`, whose byte counter is the number of
bytes taken, then of bytes given out. `OneRest` (a number is so many blocks and a rest in one way only) takes the place of reasoning
about `\div` and `%`. The permutation stays symbolic, so this is about the controller, for any permutation.

Only model-checked: liveness (`CommandAnswered`, `RequestAnswered`, `MeasurementEnds`, `AllReceived`,
`OperationEnds`, `UsersServed`, `SessionEnds`, `PhaseEnds`), since liveness under fairness and `ENABLED`
are out of the prover's reach. Every invariant and action property of a passing run, and every refinement, is proved.

## 6. What is not modelled

The arithmetic (Keccak rounds, BCH over GF(2^m), NTT) and, but for the matrix phase, the interior of the Kyber
cores; the processor pipeline; the two-clock FIFO, `system_uart_ctrl.v` and the board tests, which the shipped system does not instantiate; analogue
behaviour of oscillators beyond "any number of edges"; metastability beyond "either value"; start-up code;
test benches and reports; the session diversification and key export inside `Firmware` (the export is in `UartProtocol`). `generate_vectors.py`
prints what hashlib computes for fixed tables: it has no state and no decision to check. Of `uart_host.py`
the arguments, the messages and the statistics `do_stress` prints; pyserial is external.

## 7. Plan

What remains, in this order; the abstract specification each is to be shown against in brackets.

1. `KyberStream`: the two core FSMs and the public-key and ciphertext streams between them: request a clock
   before data, empty and full FIFOs, over `SyncFifo` [no word lost, both cores end].
2. `HashJobs`: `hash_core_*`, `sha3_shake_core.v`: order of hash jobs, and the rate of the sampling, which would
   decide whether the FIFO of `NttFeed` can run dry.
3. `Bch`: encoder and serial Berlekamp-Massey over a small field [reference decoder], then
   used as the code of `FuzzyExtractor`.
4. `Reduction`, `Codec`: modular reduction and packing against reference definitions over all inputs of
   a small width.
5. `PowerOn`: reset counter and the comment on SW[0].
