----------------------------- MODULE MCKyberWrapper -----------------------------
(* Seed values are model values: no step compares or orders them. *)
EXTENDS KyberWrapper

================================================================================
