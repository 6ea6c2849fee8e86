----------------------------- MODULE CrashDisk ------------------------------
(***************************************************************************)
(* What a disk image promises.  A write call puts what was asked for into  *)
(* the blocks it names, one after the other, and touches no other block.   *)
(* When the emulator dies, only blocks that were written recently may      *)
(* change.                                                                 *)
(***************************************************************************)
EXTENDS Naturals

VARIABLES
    disk,       \* what every block holds
    writing,    \* what the call in progress has still to write
    recent,     \* the blocks that may change when the emulator dies
    deaths      \* how often it has died

image == <<disk, writing, recent, deaths>>

Init == DOMAIN writing = {} /\ recent = {} /\ deaths = 0

Call ==
    /\ DOMAIN writing = {} /\ DOMAIN writing' \subseteq DOMAIN disk
    /\ disk' = disk /\ recent' \subseteq recent /\ deaths' = deaths

Put ==
    /\ DOMAIN writing' \subseteq DOMAIN writing
    /\ \A b \in DOMAIN writing': writing'[b] = writing[b]
    /\ \A b \in DOMAIN disk:
           \/ b \in DOMAIN writing /\ disk'[b] = writing[b]
           \/ b \notin DOMAIN writing \ DOMAIN writing' /\ disk'[b] = disk[b]
    /\ recent' \subseteq recent \cup DOMAIN writing
    /\ deaths' = deaths

Die ==
    /\ \A b \in DOMAIN disk \ recent: disk'[b] = disk[b]
    /\ DOMAIN writing' = {} /\ recent' = {} /\ deaths' = deaths + 1

Next == DOMAIN disk' = DOMAIN disk /\ (Call \/ Put \/ Die)

Spec == Init /\ [][Next]_image
=============================================================================
