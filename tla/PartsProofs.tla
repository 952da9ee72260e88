---------------------------- MODULE PartsProofs ----------------------------
(* What is proved of each of the four parts on its own, stated of PartsSpec, *)
(* the specification that the run parts checks: a behaviour of it is one     *)
(* part's behaviour, in which the others' variables stay as they began, so   *)
(* that nothing is said here of parts that run interleaved.                  *)
EXTENDS Parts, CoreProofs, LibRegistryProofs, VideoDecoderProofs

(* A step of one part is a step of that part alone, and a stutter of the     *)
(* other three.                                                              *)
LEMMA PartsStep ==
  ASSUME [PartsNext]_parts_vars
  PROVE  /\ [JpuNext]_jpu_vars /\ [VppNext]_vpp_vars
         /\ [LibNext]_lib_vars /\ [DecNext]_dec_vars
<1>1. CASE JpuPart /\ JpuNext
  BY <1>1 DEF JpuPart
<1>2. CASE VppPart /\ VppNext
  BY <1>2 DEF VppPart
<1>3. CASE LibPart /\ LibNext
  BY <1>3 DEF LibPart
<1>4. CASE DecPart /\ DecNext
  BY <1>4 DEF DecPart
<1>5. CASE UNCHANGED parts_vars
  BY <1>5 DEF parts_vars
<1> QED
  BY <1>1, <1>2, <1>3, <1>4, <1>5 DEF PartsNext

(* A behaviour of PartsSpec satisfies all four specifications: that of the   *)
(* part which runs because it takes that part's steps, and those of the      *)
(* others because these never leave their initial states.                    *)
LEMMA PartsBehave ==
  PartsSpec => JpuSpec /\ VppSpec /\ LibSpec /\ DecSpec
<1>1. PartsInit => JpuInit /\ VppInit /\ LibInit /\ DecInit
  BY DEF PartsInit
<1>2. [PartsNext]_parts_vars => /\ [JpuNext]_jpu_vars /\ [VppNext]_vpp_vars
                                /\ [LibNext]_lib_vars /\ [DecNext]_dec_vars
  BY PartsStep
<1> QED
  BY <1>1, <1>2, PTL DEF PartsSpec, JpuSpec, VppSpec, LibSpec, DecSpec

(* The variables keep their types whichever part runs: what the run parts    *)
(* checks on small pools, lists and queues, for any.                         *)
THEOREM PartsTypesHold == PartsSpec => []PartsTypeOK
<1>1. JpuTypeOK /\ VppTypeOK /\ LibTypeOK /\ DecTypeOK => PartsTypeOK
  BY DEF PartsTypeOK
<1> QED
  BY <1>1, PartsBehave, JpuTypesHold, VppTypesHold, LibTypesHold,
     DecTypesHold, PTL

(* The nine safety invariants of the run parts, for any constants: whichever *)
(* part runs, the pools give a core to one thread at a time, pictures and    *)
(* batches reported done are done, the firmware has the libraries that are   *)
(* loaded, and the decoder counts its frames and ends after the last.        *)
THEOREM PartsAreSafe ==
  PartsSpec => [](/\ JpuPoolExact /\ JpuCoresExclusive /\ JpuPictureDone
                  /\ VppPoolSound /\ VppBatchDone
                  /\ LibLoadedExact /\ LibFunctionsKnown
                  /\ DecFramesExact /\ DecEndAfterAll)
BY PartsBehave, JpuPoolIsExact, JpuCoresAreExclusive, JpuPictureIsDone,
   VppPoolIsSound, VppBatchIsDone, LibLoadedIsExact, LibFunctionsAreKnown,
   DecFramesAreExact, DecEndIsAfterAll, PTL

=============================================================================
