----------------------------- MODULE Catalogue -----------------------------
(***************************************************************************)
(* What the seeding of a fixed catalogue promises, whoever does it and     *)
(* however often: entries appear one at a time and never disappear, and at *)
(* some time all of them are there.  Stands for the comments `This ensures *)
(* all system roles are available' and `System roles cannot be deleted'.   *)
(***************************************************************************)
EXTENDS Naturals

CONSTANT Entries

VARIABLE present

Init == present = {}

Add == \E e \in Entries \ present : present' = present \union {e}

Growth == Init /\ [][Add]_present

Complete == <>[](present = Entries)

Spec == Growth /\ Complete
=============================================================================
