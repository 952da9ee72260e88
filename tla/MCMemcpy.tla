------------------------------ MODULE MCMemcpy ------------------------------
(* Instances of Memcpy for TLC.                                              *)
EXTENDS Memcpy, TLC

Intr(kinds) == [kind : kinds, intr : {TRUE}]
Poll(kinds) == [kind : kinds, intr : {FALSE}]

(* Four threads on two slots of one direction, so that two can sleep.        *)
SlotCalls == Intr({"s2d"})
(* Every kind of copy, by interrupt and by polling.                          *)
AllCalls == Intr({"s2d", "d2s", "c2c", "mmu"}) \cup Poll({"s2d", "d2s"})
(* A copy after one that timed out.                                          *)
LateCalls == Intr({"d2s"})

Symmetry == Permutations(Threads)
=============================================================================
