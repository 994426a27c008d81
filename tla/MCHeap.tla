------------------------------- MODULE MCHeap -------------------------------
(* A small arena: the boot struct, two struct-and-stack pairs and a tail     *)
(* that a struct still fits in and a stack does not.                         *)
EXTENDS Heap
=============================================================================
