------------------------------- MODULE MCFirmware -------------------------------
(* Helper data an enrolment produces in the model-checked instances. *)
EXTENDS Firmware

MCHelperOutputs ==
  {[w \in 0 .. NumWords |-> [i \in 1 .. BytesIn(w) |-> b]] : b \in Byte \cap {CmdEnroll, CmdRecon}}

================================================================================
