------------------------------- MODULE SysDevice -------------------------------
(***************************************************************************)
(* The SYS_CTRL half of soc_peripherals.sv together with the three cores   *)
(* it starts: the ring-oscillator PUF, the fuzzy extractor (FE) and the    *)
(* key-derivation function (KDF), one atomic step per bus access and per   *)
(* done pulse.                                                             *)
(*                                                                         *)
(* Data is abstracted to its provenance: a response is the number of the   *)
(* measurement it came from, a key is the FE job that produced it, a KDF   *)
(* output is the key it was derived from.                                  *)
(***************************************************************************)
EXTENDS ProtocolBytes

CONSTANT HelperOutputs  \* helper data an enrolment can produce

ASSUME HelperShape == HelperOutputs \subseteq Whole

Cores == {"puf", "fe", "kdf"}
Flags == {"puf", "fe", "ok", "kdf"}

VARIABLES
  latched,    \* the sticky bits that are set, a subset of Flags
  core,       \* "idle", "run" or "hung" for each core
  measuring,  \* the measurement the PUF was last started for
  response,   \* PUF shift register: the measurement it holds, 0 if none
  helperReg,  \* helper words written by the CPU, as one sequence per word
  job,        \* what the FE latched when it was started
  helperOut,  \* helper data the FE produced at the last enrolment
  keyOut,     \* FE output key: the job it came from
  kdfJob,     \* the key the KDF latched when it was started
  kdfOut      \* KDF output: the key it was derived from

sysVars == <<latched, core, measuring, response, helperReg, job, helperOut,
             keyOut, kdfJob, kdfOut>>

Job     == [mode : {"enc", "dec"}, response : Nat, helper : Helper]

\* Out of reset: a job no command asked for.
NoJob    == [mode |-> "enc", response |-> 0, helper |-> NoHelper]

SysTypeOK ==
  /\ latched \subseteq Flags
  /\ core \in [Cores -> {"idle", "run", "hung"}]
  /\ measuring \in Nat
  /\ response \in Nat
  /\ helperReg \in Helper
  /\ helperOut \in Helper
  /\ {job, keyOut, kdfJob, kdfOut} \subseteq Job

SysInit ==
  /\ latched = {}
  /\ core = [c \in Cores |-> "idle"]
  /\ measuring = 0
  /\ response = 0
  /\ helperReg = NoHelper
  /\ helperOut = NoHelper
  /\ job = NoJob
  /\ keyOut = NoJob
  /\ kdfJob = NoJob
  /\ kdfOut = NoJob

WriteHelper(w, bytes) ==
  /\ helperReg' = [helperReg EXCEPT ![w] = bytes]
  /\ UNCHANGED <<latched, core, measuring, response, job, helperOut, keyOut, kdfJob, kdfOut>>

\* mutant: the sticky bits of the previous operations survive a start
StartKeepingLatches(c) ==
  /\ latched' = latched
  /\ core' = [core EXCEPT ![c] = IF @ = "idle" THEN "run" ELSE @]

(***************************************************************************)
(* A write to SYS_CTRL clears every sticky bit and pulses the start of the *)
(* core it names.  A core that is not idle ignores the pulse.  The FE      *)
(* latches its operands, and the KDF the key, on that pulse.               *)
(***************************************************************************)
Start(c) ==
  /\ latched' = {}
  /\ core' = [core EXCEPT ![c] = IF @ = "idle" THEN "run" ELSE @]

\* The shift register is overwritten bit by bit: it holds no measurement
\* from the start pulse to the done pulse.
StartPuf(measurement) ==
  /\ Start("puf")
  /\ measuring' = IF core["puf"] = "idle" THEN measurement ELSE measuring
  /\ response' = IF core["puf"] = "idle" THEN 0 ELSE response
  /\ UNCHANGED <<helperReg, job, helperOut, keyOut, kdfJob, kdfOut>>

StartFe(mode) ==
  /\ Start("fe")
  /\ job' = IF core["fe"] = "idle"
            THEN [mode |-> mode, response |-> response, helper |-> helperReg]
            ELSE job
  /\ UNCHANGED <<measuring, response, helperReg, helperOut, keyOut, kdfJob, kdfOut>>

StartKdf ==
  /\ Start("kdf")
  /\ kdfJob' = IF core["kdf"] = "idle" THEN keyOut ELSE kdfJob
  /\ kdfOut' = IF core["kdf"] = "idle" THEN NoJob ELSE kdfOut
  /\ UNCHANGED <<measuring, response, helperReg, job, helperOut, keyOut>>

(***************************************************************************)
(* Done pulses.  Each latches the sticky bit of its core; the FE also      *)
(* latches its verdict, which is always TRUE for an encoding.              *)
(***************************************************************************)
FinishPuf ==
  /\ core["puf"] = "run"
  /\ core' = [core EXCEPT !["puf"] = "idle"]
  /\ latched' = latched \cup {"puf"}
  /\ response' = measuring
  /\ UNCHANGED <<measuring, helperReg, job, helperOut, keyOut, kdfJob, kdfOut>>

FinishEncode(helper) ==
  /\ core["fe"] = "run"
  /\ job.mode = "enc"
  /\ core' = [core EXCEPT !["fe"] = "idle"]
  /\ latched' = latched \cup {"fe", "ok"}
  /\ helperOut' = helper
  /\ keyOut' = job
  /\ UNCHANGED <<measuring, response, helperReg, job, kdfJob, kdfOut>>

FinishDecode(success) ==
  /\ core["fe"] = "run"
  /\ job.mode = "dec"
  /\ core' = [core EXCEPT !["fe"] = "idle"]
  /\ latched' = latched \cup {"fe"} \cup (IF success THEN {"ok"} ELSE {})
  /\ keyOut' = job
  /\ UNCHANGED <<measuring, response, helperReg, job, helperOut, kdfJob, kdfOut>>

FinishKdf ==
  /\ core["kdf"] = "run"
  /\ core' = [core EXCEPT !["kdf"] = "idle"]
  /\ latched' = latched \cup {"kdf"}
  /\ kdfOut' = kdfJob
  /\ UNCHANGED <<measuring, response, helperReg, job, helperOut, keyOut, kdfJob>>

\* A fault: the core never answers again before the next reset.
Hang(c) ==
  /\ core[c] = "run"
  /\ core' = [core EXCEPT ![c] = "hung"]
  /\ UNCHANGED <<latched, measuring, response, helperReg, job, helperOut, keyOut,
                 kdfJob, kdfOut>>

================================================================================
