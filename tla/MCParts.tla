------------------------------ MODULE MCParts ------------------------------
(* Small instances of the four parts for TLC: one JPEG core for three        *)
(* threads of two processes; three threads for the two post-processing       *)
(* cores; two threads with two libraries of one function each; a decoder     *)
(* with short queues.                                                        *)
EXTENDS Parts

CONSTANTS t1, t2, t3, f1, f2, c1, m1, m2, fn1, fn2

MCThreads == {t1, t2, t3}
MCFileOf == [t \in MCThreads |-> IF t = t3 THEN f2 ELSE f1]
MCModOf == [fn \in {fn1, fn2} |-> IF fn = fn1 THEN m1 ELSE m2]

(* Bound of the run, not of the model: no thread begins another call for a   *)
(* library that is upset, of which no property says anything, nor a close    *)
(* when all are.                                                             *)
MCLibQuiet ==
  \A t \in LibThreads :
    lib_pc[t] = "idle" /\ lib_pc'[t] # "idle" =>
      /\ LibUpset # LibMods
      /\ lib_arg'[t] \in LibMods => lib_arg'[t] \notin LibUpset
      /\ lib_arg'[t] \in LibFuncs => LibModOf[lib_arg'[t]] \notin LibUpset

=============================================================================
