------------------------------ MODULE MCHeap ------------------------------
(* Heap.tla on a memory of MemSize words.                                  *)
EXTENDS Heap

MCWord == 0 .. 15
=============================================================================
