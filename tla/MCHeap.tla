-------------------------------- MODULE MCHeap --------------------------------
(* Instances of Heap for TLC: headers of two bytes, requests of one to     *)
(* three headers beside their own.                                         *)
EXTENDS Heap

MCRequests == {1, 3, 6}
=============================================================================
