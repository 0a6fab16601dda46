------------------------------- MODULE SizeT -------------------------------
(***************************************************************************)
(* size_t, as the modules about the bytes of files and responses use it.   *)
(***************************************************************************)
EXTENDS Integers

CONSTANT SizeMax      \* SIZE_MAX

ASSUME SizeAssumption == SizeMax \in Nat /\ SizeMax >= 9
=============================================================================
