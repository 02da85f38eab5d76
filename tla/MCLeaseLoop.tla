----------------------------- MODULE MCLeaseLoop -----------------------------
(***************************************************************************)
(* Every value of TASK_TYPES up to a length, with a full registry and with *)
(* an empty one.                                                           *)
(***************************************************************************)
EXTENDS LeaseLoop

NoneOrThree == {{}, {<<"a">>, <<"b">>, <<"c">>}}
=============================================================================
