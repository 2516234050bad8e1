------------------------------- MODULE KemDevice -------------------------------
(***************************************************************************)
(* What the Kyber peripheral promises the firmware, register by register:  *)
(* the seed bank, the status bits and the launch and zeroize commands of   *)
(* rtl/kyber/kyber_axi_wrapper.v, one atomic step per bus access.  The     *)
(* clock-accurate module KyberWrapper is shown to implement this one, and  *)
(* the firmware (module Firmware) is checked on top of it.                 *)
(***************************************************************************)
EXTENDS Naturals

CONSTANTS
  Secrets,   \* the values the three seed banks can be loaded with
  Zero       \* the value of a cleared seed bank

VARIABLES
  seed,      \* reg_seed_d, reg_seed_z and reg_seed_m, loaded together
  busy,      \* STATUS[3]
  done,      \* STATUS[2]
  match,     \* STATUS[5]
  cfgerr     \* STATUS[4]

kemVars == <<seed, busy, done, match, cfgerr>>

KemTypeOK ==
  /\ seed \in Secrets \cup {Zero}
  /\ {busy, done, match, cfgerr} \subseteq BOOLEAN

KemInit ==
  /\ seed = Zero
  /\ busy = FALSE
  /\ done = FALSE
  /\ match = FALSE
  /\ cfgerr = FALSE

(***************************************************************************)
(* Bus writes.  The parameter register holds 2 for ever: any other value   *)
(* is refused and only sets the configuration-error bit.                   *)
(***************************************************************************)
WriteSeed(s) ==
  /\ seed' = s
  /\ UNCHANGED <<busy, done, match, cfgerr>>

WriteParam(k) ==
  /\ cfgerr' = (k # 2)
  /\ UNCHANGED <<seed, busy, done, match>>

\* CTRL[0]: a launch clears the previous result; it is ignored while busy.
Launch ==
  IF busy
  THEN UNCHANGED kemVars
  ELSE /\ busy' = TRUE
       /\ done' = FALSE
       /\ match' = FALSE
       /\ UNCHANGED <<seed, cfgerr>>

\* CTRL[1]: seeds, status and both cores are cleared, whatever they were doing.
Zeroize ==
  /\ seed' = Zero
  /\ busy' = FALSE
  /\ done' = FALSE
  /\ match' = FALSE
  /\ cfgerr' = FALSE

\* Both cores have committed their keys: m tells whether the keys are equal.
Complete(m) ==
  /\ busy
  /\ busy' = FALSE
  /\ done' = TRUE
  /\ match' = m
  /\ UNCHANGED <<seed, cfgerr>>

(***************************************************************************)
(* A seed or parameter write may reach its register on the clock edge on   *)
(* which the running transaction completes: the two touch different bits.  *)
(***************************************************************************)
CompleteWithWrite(m) ==
  /\ busy
  /\ busy' = FALSE
  /\ done' = TRUE
  /\ match' = m
  /\ \/ seed' \in Secrets /\ cfgerr' = cfgerr
     \/ seed' = seed /\ cfgerr' \in BOOLEAN

KemNext ==
  \/ \E s \in Secrets : WriteSeed(s)
  \/ \E k \in {2, 3} : WriteParam(k)
  \/ Launch
  \/ Zeroize
  \/ \E m \in BOOLEAN : Complete(m) \/ CompleteWithWrite(m)

KemSpec == KemInit /\ [][KemNext]_kemVars

================================================================================
