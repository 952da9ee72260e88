------------------------------- MODULE Parts -------------------------------
(* Four parts of the system that share no state with each other: the pool of *)
(* JPEG cores, the pool of post-processing cores, the registry of libraries  *)
(* and an open video decoder. A behaviour is one of any of them, so that one *)
(* instance checks all four without the product of their states.             *)
EXTENDS Jpu, Vpp, LibRegistry, VideoDecoder

VARIABLE part       \* the part that takes steps

parts_vars == <<part, jpu_vars, vpp_vars, lib_vars, dec_vars>>

JpuPart == part = "jpu" /\ UNCHANGED <<part, vpp_vars, lib_vars, dec_vars>>
VppPart == part = "vpp" /\ UNCHANGED <<part, jpu_vars, lib_vars, dec_vars>>
LibPart == part = "lib" /\ UNCHANGED <<part, jpu_vars, vpp_vars, dec_vars>>
DecPart == part = "dec" /\ UNCHANGED <<part, jpu_vars, vpp_vars, lib_vars>>

PartsInit ==
  /\ JpuInit /\ VppInit /\ LibInit /\ DecInit
  /\ part \in {"jpu", "vpp", "lib", "dec"}

PartsNext ==
  \/ JpuPart /\ JpuNext
  \/ VppPart /\ VppNext
  \/ LibPart /\ LibNext
  \/ DecPart /\ DecNext

(* VppFairness and DecFairness, in the behaviours of their parts.            *)
PartsFairness ==
  /\ WF_parts_vars(VppPart /\ VppCall)
  /\ WF_parts_vars(DecPart /\ DecThread)
  /\ WF_parts_vars(DecPart /\ DecReturn)
  /\ WF_parts_vars(DecPart /\ DecCoreDone)

PartsSpec == PartsInit /\ [][PartsNext]_parts_vars /\ PartsFairness

PartsTypeOK == JpuTypeOK /\ VppTypeOK /\ LibTypeOK /\ DecTypeOK

=============================================================================
