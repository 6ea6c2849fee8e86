-------------------------- MODULE MCMemoryDevices ---------------------------
(* MemoryDevices in a small address space.                                 *)
EXTENDS MemoryDevices
=============================================================================
