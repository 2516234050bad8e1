------------------------------- MODULE MCHostLink -------------------------------
(* Helper data with command, status and flag bytes in it, and two keys. *)
EXTENDS HostLink

MCHelper(a, b) == [w \in 0 .. NumWords |-> IF w = NumWords THEN <<b>>
                                           ELSE [i \in 1 .. BytesPerWord |-> IF i = 1 THEN a ELSE 1]]

MCEnrolments == {MCHelper(CmdRecon, StatusSuccess), MCHelper(StatusSuccess, 0)}

MCKeys == {[i \in 1 .. KeyLength |-> k] : k \in {0, StatusSuccess}}

================================================================================
