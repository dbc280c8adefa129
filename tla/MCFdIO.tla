-------------------------------- MODULE MCFdIO --------------------------------
(* FdIO on a small instance.  Only safety is checked of it, and the threads are *)
(* interchangeable.                                                             *)
EXTENDS FdIO, TLC

CONSTANTS th1, th2

MCThreads == {th1, th2}
Symmetry == Permutations(MCThreads)
=============================================================================
