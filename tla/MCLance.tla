------------------------------ MODULE MCLance -------------------------------
(* Lance with two interfaces, short rings and packets of one or two cells. *)
EXTENDS Lance

CONSTANT Other

MCNics == <<Le, Other>>
MCModes == {{}, {"DTX"}, {"DRX"}}
=============================================================================
