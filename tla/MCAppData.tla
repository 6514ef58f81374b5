------------------------------ MODULE MCAppData ------------------------------
(***************************************************************************)
(* AppData with programs of one and two slots, so that some cross the ends *)
(* of the windows, and room for one hour that the first window lacks.      *)
(***************************************************************************)
EXTENDS AppData

Program(from, to) == [from |-> from, to |-> to]
SixPrograms ==
    {Program(0, 2), Program(2, 4), Program(4, 5), Program(5, 7), Program(7, 8), Program(8, 10)}

=============================================================================
