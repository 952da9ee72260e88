----------------------------- MODULE CoreProofs -----------------------------
(* The safety of the two pools of cores, for any finite numbers of threads   *)
(* and JPEG cores. The JPEG cores: as long as no close gives back a core its *)
(* caller did not have, the semaphore is exact, a core works for one thread, *)
(* and a picture taken for done is done. The post-processing cores: whoever  *)
(* passes the semaphore finds a core and has it alone, and an event a call   *)
(* finds is that of its own batch.                                           *)
EXTENDS Jpu, Vpp, NumberSetProofs, SequenceTheorems, FiniteSetTheorems, TLAPS

-----------------------------------------------------------------------------
(* The JPEG cores.                                                           *)

JpuWorking == {"start", "wait", "check"}
JpuTaking == {t \in JpuThreads : jpu_pc[t] = "take"}

-----------------------------------------------------------------------------
(* The invariant.                                                            *)

(* Every core is in the list.                                                *)
JpuListed == \A c \in JpuCores : \E i \in 1 .. Len(inst_head) : inst_head[i] = c

(* As long as closes match: the semaphore counts the free cores, less those  *)
(* threads have downed for; so a thread that has downed finds a core, and    *)
(* nobody closes core -1; a thread at work has taken a core.                 *)
JpuCounted == jpu_sem + Cardinality(JpuTaking) = Cardinality(JpuFree)
JpuOwned ==
  \A t \in JpuThreads :
    jpu_pc[t] # "close_none" /\ (jpu_pc[t] \in JpuWorking => t \in jpu_has)
JpuExclusive ==
  \A t \in jpu_has :
    /\ jpu_core[t] \in JpuCores
    /\ inuse[jpu_core[t]] /\ filp[jpu_core[t]] = JpuFileOf[t]
    /\ \A u \in jpu_has \ {t} : jpu_core[u] # jpu_core[t]

(* The core of a thread that waits works for nobody else, and its status     *)
(* tells only of the picture of the thread; a core nobody waits for does     *)
(* nothing and has its status cleared, so that a decoder that waits at the   *)
(* end of its stream finds nothing.                                          *)
JpuWaits(t) == jpu_pc[t] \in {"wait", "check"}
JpuOwn(t) ==
  /\ jpu_job[jpu_core[t]] \in {t, JpuNone}
  /\ jpu_status[jpu_core[t]] # "none" => jpu_job[jpu_core[t]] = JpuNone
  /\ jpu_status[jpu_core[t]] \in {"done", "stop"} => t \in jpu_drawn \cup jpu_cut
JpuQuiet(c) == jpu_job[c] = JpuNone /\ jpu_status[c] = "none"
JpuWaited(c) == \E t \in JpuThreads : JpuWaits(t) /\ jpu_core[t] = c
JpuOwnPicture ==
  /\ \A t \in JpuThreads : JpuWaits(t) => JpuOwn(t)
  /\ \A c \in JpuCores : JpuWaited(c) \/ JpuQuiet(c)
  /\ jpu_ok \subseteq jpu_drawn \cup jpu_cut

JpuMatched == JpuCounted /\ JpuOwned /\ JpuExclusive /\ JpuOwnPicture
JpuInv == JpuTypeOK /\ JpuListed /\ (~jpu_unmatched => JpuMatched)

-----------------------------------------------------------------------------
(* The list of cores.                                                        *)

(* SelectInSeq finds the position of a free core, if there is one.           *)
LEMMA JpuFirstFree ==
  ASSUME JpuTypeOK, JpuListed, JpuFree # {}
  PROVE  LET i == SelectInSeq(inst_head, LAMBDA d : ~inuse[d])
         IN i \in 1 .. Len(inst_head) /\ inst_head[i] \in JpuFree
<1> DEFINE I == {i \in 1 .. Len(inst_head) : ~inuse[inst_head[i]]}
<1>1. SelectInSeq(inst_head, LAMBDA d : ~inuse[d]) = IF I # {} THEN Min(I) ELSE 0
  BY DEF SelectInSeq
<1>2. I \subseteq 1 .. Len(inst_head) /\ I \subseteq Nat
  OBVIOUS
<1>3. I # {}
  <2>1. PICK c \in JpuCores : ~inuse[c]
    BY DEF JpuFree
  <2>2. PICK i \in 1 .. Len(inst_head) : inst_head[i] = c
    BY DEF JpuListed
  <2> QED
    BY <2>1, <2>2
<1>4. \A i \in I : i \in 1 .. Len(inst_head) /\ inst_head[i] \in JpuFree
  BY DEF JpuTypeOK, JpuFree
<1> HIDE DEF I
<1>5. Min(I) \in I
  BY <1>2, <1>3, LeastOf DEF Min
<1> QED
  BY <1>1, <1>3, <1>4, <1>5

(* Moving an entry to the end of the list leaves every core in it.           *)
LEMMA JpuMoved ==
  ASSUME NEW s \in Seq(JpuCores), NEW i \in 1 .. Len(s)
  PROVE  /\ Append(RemoveAt(s, i), s[i]) \in Seq(JpuCores)
         /\ \A c \in JpuCores :
              (\E j \in 1 .. Len(s) : s[j] = c) =>
                \E k \in 1 .. Len(Append(RemoveAt(s, i), s[i])) :
                  Append(RemoveAt(s, i), s[i])[k] = c
<1> DEFINE a == SubSeq(s, 1, i - 1)
           b == SubSeq(s, i + 1, Len(s))
           r == a \o b
<1>1. a \in Seq(JpuCores) /\ Len(a) = i - 1
      /\ \A j \in 1 .. i - 1 : a[j] = s[j]
  BY SubSeqProperties
<1>2. b \in Seq(JpuCores) /\ Len(b) = Len(s) - i
      /\ \A j \in 1 .. Len(s) - i : b[j] = s[i + j]
  <2>1. CASE i = Len(s)
    <3>1. b = <<>>
      BY <2>1, SubSeqEmpty
    <3> QED
      BY <2>1, <3>1
  <2>2. CASE i # Len(s)
    BY <2>2, SubSeqProperties
  <2> QED
    BY <2>1, <2>2
<1> HIDE DEF a, b
<1>3. /\ r \in Seq(JpuCores) /\ Len(r) = Len(s) - 1
      /\ \A j \in 1 .. i - 1 : r[j] = s[j]
      /\ \A j \in i + 1 .. Len(s) : r[j - 1] = s[j]
  <2>1. /\ r \in Seq(JpuCores) /\ Len(r) = Len(a) + Len(b)
        /\ \A j \in 1 .. Len(a) + Len(b) :
             r[j] = IF j <= Len(a) THEN a[j] ELSE b[j - Len(a)]
    BY <1>1, <1>2, ConcatProperties
  <2>2. Len(s) \in Nat /\ i \in Nat /\ Len(r) = Len(s) - 1
    BY <1>1, <1>2, <2>1
  <2>3. ASSUME NEW j \in 1 .. i - 1
        PROVE  r[j] = s[j]
    BY <1>1, <1>2, <2>1, <2>2, <2>3
  <2>4. ASSUME NEW j \in i + 1 .. Len(s)
        PROVE  r[j - 1] = s[j]
    <3>1. j - i \in 1 .. Len(s) - i /\ i + (j - i) = j
      BY <2>2
    <3>2. (j - 1) - Len(a) = j - i /\ ~(j - 1 <= Len(a))
          /\ j - 1 \in 1 .. Len(a) + Len(b)
      BY <1>1, <1>2, <2>2
    <3>3. r[j - 1] = b[j - i]
      BY <2>1, <3>2
    <3> QED
      BY <1>2, <3>1, <3>3
  <2> QED
    BY <2>1, <2>2, <2>3, <2>4
<1>4. RemoveAt(s, i) = r
  BY DEF RemoveAt, a, b
<1> HIDE DEF r
<1>5. s[i] \in JpuCores
  OBVIOUS
<1> DEFINE z == Append(r, s[i])
<1>6. z \in Seq(JpuCores) /\ Len(z) = Len(s) /\ z[Len(s)] = s[i]
      /\ \A k \in 1 .. Len(s) - 1 : z[k] = r[k]
  BY <1>3, <1>5
<1> HIDE DEF z
<1>7. ASSUME NEW j \in 1 .. Len(s)
      PROVE  \E k \in 1 .. Len(z) : z[k] = s[j]
  <2>1. CASE j < i
    <3>1. j \in 1 .. i - 1 /\ j \in 1 .. Len(s) - 1 /\ j \in 1 .. Len(z)
      BY <1>6, <2>1
    <3>2. r[j] = s[j] /\ z[j] = r[j]
      BY <1>3, <1>6, <3>1
    <3> QED
      BY ONLY <3>1, <3>2
  <2>2. CASE j = i
    BY <1>6, <2>2
  <2>3. CASE j > i
    <3>1. r[j - 1] = s[j]
      <4>1. j \in i + 1 .. Len(s)
        BY <2>3
      <4> QED
        BY <1>3, <4>1
    <3>2. j - 1 \in 1 .. Len(s) - 1
      BY <2>3
    <3>3. z[j - 1] = s[j]
      BY <1>6, <3>1, <3>2
    <3> QED
      BY <1>6, <3>2, <3>3
  <2> QED
    BY <2>1, <2>2, <2>3
<1> QED
  BY <1>4, <1>6, <1>7 DEF z

(* The core a thread takes was free, and the list keeps all cores.           *)
LEMMA JpuTaken ==
  ASSUME JpuTypeOK, JpuListed, NEW t \in JpuThreads, JpuTake(t)
  PROVE  \E c \in JpuFree :
           /\ inuse' = [inuse EXCEPT ![c] = TRUE]
           /\ filp' = [filp EXCEPT ![c] = JpuFileOf[t]]
           /\ inst_head' \in Seq(JpuCores) /\ JpuListed'
           /\ \/ JpuGot(t, c)
              \/ /\ jpu_remap' = [jpu_remap EXCEPT ![t] = c]
                 /\ JpuGoto(t, "down")
                 /\ UNCHANGED <<jpu_core, jpu_has>>
<1> DEFINE i == SelectInSeq(inst_head, LAMBDA d : ~inuse[d])
           c == inst_head[i]
<1>1. JpuFree # {}
  BY DEF JpuTake
<1>2. i \in 1 .. Len(inst_head) /\ c \in JpuFree
  BY <1>1, JpuFirstFree
<1>3. /\ inuse' = [inuse EXCEPT ![c] = TRUE]
      /\ filp' = [filp EXCEPT ![c] = JpuFileOf[t]]
      /\ inst_head' = Append(RemoveAt(inst_head, i), inst_head[i])
      /\ \/ JpuGot(t, c)
         \/ /\ jpu_remap' = [jpu_remap EXCEPT ![t] = c]
            /\ JpuGoto(t, "down")
            /\ UNCHANGED <<jpu_core, jpu_has>>
  BY DEF JpuTake
<1> HIDE DEF i
<1>4. inst_head' \in Seq(JpuCores) /\ JpuListed'
  <2>1. inst_head \in Seq(JpuCores)
    BY DEF JpuTypeOK
  <2>2. /\ inst_head' \in Seq(JpuCores)
        /\ \A d \in JpuCores :
             (\E j \in 1 .. Len(inst_head) : inst_head[j] = d) =>
               \E k \in 1 .. Len(inst_head') : inst_head'[k] = d
    BY <1>2, <1>3, <2>1, JpuMoved
  <2> QED
    BY <2>2 DEF JpuListed
<1> QED
  BY <1>2, <1>3, <1>4

-----------------------------------------------------------------------------
(* Types.                                                                    *)

JpuPcs == {"idle", "down", "take", "start", "wait", "check", "close", "close_none"}

LEMMA JpuGotoFacts ==
  ASSUME JpuTypeOK, NEW t \in JpuThreads, NEW p \in JpuPcs, JpuGoto(t, p)
  PROVE  /\ jpu_pc' \in [JpuThreads -> JpuPcs] /\ jpu_pc'[t] = p
         /\ \A u \in JpuThreads : u # t => jpu_pc'[u] = jpu_pc[u]
BY DEF JpuTypeOK, JpuGoto, JpuPcs

LEMMA JpuSetsFinite ==
  /\ IsFiniteSet(JpuTaking) /\ Cardinality(JpuTaking) \in Nat
  /\ IsFiniteSet(JpuFree) /\ Cardinality(JpuFree) \in Nat
  /\ \A cs \in SUBSET JpuCores : IsFiniteSet(cs) /\ Cardinality(cs) \in Nat
<1>1. JpuTaking \in SUBSET JpuThreads /\ JpuFree \in SUBSET JpuCores
  BY DEF JpuTaking, JpuFree
<1>2. IsFiniteSet(JpuTaking)
  BY <1>1, JpuAssumption, FS_Subset
<1>3. \A cs \in SUBSET JpuCores : IsFiniteSet(cs)
  BY JpuAssumption, FS_Subset
<1> QED
  BY <1>1, <1>2, <1>3, FS_CardinalityType

LEMMA JpuTypeStep ==
  ASSUME JpuTypeOK, JpuListed, JpuNext
  PROVE  JpuTypeOK' /\ JpuListed'
<1> USE JpuAssumption DEF jpu_pool, jpu_hw, jpu_local, jpu_past, jpu_claim
<1> DEFINE TypeOK2 == JpuTypeOK' /\ JpuListed'
<1>a. ASSUME NEW t \in JpuThreads, NEW p \in JpuPcs, JpuGoto(t, p)
      PROVE  jpu_pc' \in [JpuThreads -> JpuPcs]
  BY <1>a, JpuGotoFacts
<1>b. JpuPcs = {"idle", "down", "take", "start", "wait", "check", "close", "close_none"}
  BY DEF JpuPcs
<1>l. UNCHANGED inst_head => JpuListed'
  BY DEF JpuListed
<1>1. ASSUME NEW t \in JpuThreads, JpuPicture(t)
      PROVE  TypeOK2
  BY <1>1, <1>a, <1>b, <1>l DEF JpuPicture, JpuTypeOK
<1>2. ASSUME NEW t \in JpuThreads, JpuDown(t)
      PROVE  TypeOK2
  BY <1>2, <1>a, <1>b, <1>l DEF JpuDown, JpuTypeOK
<1>3. ASSUME NEW t \in JpuThreads, JpuTake(t)
      PROVE  TypeOK2
  <2>1. PICK c \in JpuFree :
           /\ inuse' = [inuse EXCEPT ![c] = TRUE]
           /\ filp' = [filp EXCEPT ![c] = JpuFileOf[t]]
           /\ inst_head' \in Seq(JpuCores) /\ JpuListed'
           /\ \/ JpuGot(t, c)
              \/ /\ jpu_remap' = [jpu_remap EXCEPT ![t] = c]
                 /\ JpuGoto(t, "down")
                 /\ UNCHANGED <<jpu_core, jpu_has>>
    BY <1>3, JpuTaken
  <2>2. c \in JpuCores
    BY DEF JpuFree
  <2>3. UNCHANGED <<jpu_sem, interrupt_flag, jpu_ok, jpu_hw, jpu_past, jpu_unmatched>>
    BY <1>3 DEF JpuTake
  <2>4. CASE JpuGot(t, c)
    BY <1>a, <1>b, <2>1, <2>2, <2>3, <2>4 DEF JpuGot, JpuTypeOK
  <2>5. CASE /\ jpu_remap' = [jpu_remap EXCEPT ![t] = c]
             /\ JpuGoto(t, "down")
             /\ UNCHANGED <<jpu_core, jpu_has>>
    BY <1>a, <1>b, <2>1, <2>2, <2>3, <2>5 DEF JpuTypeOK
  <2> QED
    BY <2>1, <2>4, <2>5
<1>4. ASSUME NEW t \in JpuThreads, JpuTakeNone(t)
      PROVE  TypeOK2
  BY <1>4, <1>a, <1>b, <1>l DEF JpuTakeNone, JpuGot, JpuTypeOK
<1>5. ASSUME NEW t \in JpuThreads, JpuStartPic(t)
      PROVE  TypeOK2
  <2>1. jpu_pc' \in [JpuThreads -> JpuPcs]
    BY <1>5, <1>a, <1>b DEF JpuStartPic
  <2>2. /\ \/ jpu_job' = [jpu_job EXCEPT ![jpu_core[t]] = t]
           \/ UNCHANGED jpu_job
        /\ \/ jpu_status' = [jpu_status EXCEPT ![jpu_core[t]] = "none"]
           \/ UNCHANGED jpu_status
        /\ UNCHANGED <<jpu_pool, interrupt_flag, jpu_local, jpu_ok, jpu_irq, jpu_past,
                       jpu_claim>>
    BY <1>5 DEF JpuStartPic, JpuClrStatus
  <2>3. /\ jpu_job' \in [JpuCores -> JpuThreads \cup {JpuNone}]
        /\ jpu_status' \in [JpuCores -> {"none", "done", "error", "stop"}]
    <3>1. /\ jpu_job \in [JpuCores -> JpuThreads \cup {JpuNone}]
          /\ jpu_status \in [JpuCores -> {"none", "done", "error", "stop"}]
      BY DEF JpuTypeOK
    <3> QED
      BY ONLY <2>2, <3>1, t \in JpuThreads
  <2> QED
    BY <1>b, <1>l, <2>1, <2>2, <2>3 DEF JpuTypeOK
<1>6. ASSUME NEW t \in JpuThreads, JpuWait(t)
      PROVE  TypeOK2
  BY <1>6, <1>a, <1>b, <1>l DEF JpuWait, JpuTypeOK
<1>7. ASSUME NEW t \in JpuThreads, JpuCheck(t)
      PROVE  TypeOK2
  <2>1. jpu_pc' \in [JpuThreads -> JpuPcs]
    BY <1>7, <1>a, <1>b DEF JpuCheck
  <2>2. /\ \/ jpu_status' = [jpu_status EXCEPT ![jpu_core[t]] = "none"]
           \/ UNCHANGED jpu_status
        /\ jpu_ok' = jpu_ok \cup {t} \/ UNCHANGED jpu_ok
        /\ UNCHANGED <<jpu_pool, interrupt_flag, jpu_local, jpu_job, jpu_irq, jpu_past,
                       jpu_claim>>
    BY <1>7 DEF JpuCheck, JpuClrStatus
  <2>3. /\ jpu_status' \in [JpuCores -> {"none", "done", "error", "stop"}]
        /\ jpu_ok' \subseteq JpuThreads
    BY <2>2 DEF JpuTypeOK
  <2> QED
    BY <1>b, <1>l, <2>1, <2>2, <2>3 DEF JpuTypeOK
<1>8. ASSUME NEW t \in JpuThreads, JpuTimeout(t)
      PROVE  TypeOK2
  BY <1>8, <1>a, <1>b, <1>l DEF JpuTimeout, JpuClrStatus, JpuTypeOK
<1>9. ASSUME NEW t \in JpuThreads, JpuClose(t)
      PROVE  TypeOK2
  BY <1>9, <1>a, <1>b, <1>l DEF JpuClose, JpuCloseInstance, JpuForget, JpuTypeOK
<1>10. ASSUME NEW t \in JpuThreads, JpuCloseInterrupted(t)
      PROVE  TypeOK2
  BY <1>10, <1>a, <1>b, <1>l DEF JpuCloseInterrupted, JpuForget, JpuTypeOK
<1>11. ASSUME NEW t \in JpuThreads, JpuCloseNone(t)
      PROVE  TypeOK2
  BY <1>11, <1>a, <1>b, <1>l DEF JpuCloseNone, JpuCloseInstance, JpuTypeOK
<1>12. ASSUME NEW f \in JpuFiles, JpuRelease(f)
      PROVE  TypeOK2
  <2>1. {c \in JpuOf(f) : inuse[c]} \in SUBSET JpuCores
    BY DEF JpuOf
  <2>2. jpu_sem' \in Nat
    BY <1>12, <2>1, JpuSetsFinite DEF JpuRelease, JpuTypeOK
  <2>3. /\ jpu_pc' \in [JpuThreads -> JpuPcs]
        /\ jpu_core' \in [JpuThreads -> JpuCores \cup {JpuNone}]
        /\ jpu_remap' \in [JpuThreads -> JpuCores \cup {JpuNone}]
        /\ jpu_ok' \subseteq JpuThreads /\ jpu_drawn' \subseteq JpuThreads
        /\ jpu_cut' \subseteq JpuThreads /\ jpu_has' \subseteq JpuThreads
    BY <1>12, <1>b DEF JpuRelease, JpuEnded, JpuForget, JpuTypeOK
  <2>4. /\ inuse' \in [JpuCores -> BOOLEAN]
        /\ filp' \in [JpuCores -> JpuFiles \cup {JpuNone}]
        /\ jpu_job' \in [JpuCores -> JpuThreads \cup {JpuNone}]
        /\ jpu_status' \in [JpuCores -> {"none", "done", "error", "stop"}]
    BY <1>12 DEF JpuRelease, JpuFreeEntries, JpuResetCores, JpuTypeOK
  <2>5. UNCHANGED <<inst_head, interrupt_flag, jpu_irq, jpu_unmatched>>
    BY <1>12 DEF JpuRelease
  <2> QED
    BY <1>b, <1>l, <2>2, <2>3, <2>4, <2>5 DEF JpuTypeOK
<1>13. ASSUME NEW c \in JpuCores, JpuDone(c)
      PROVE  TypeOK2
  <2>1. PICK end \in {"done", "error", "stop"} :
          /\ jpu_status' = [jpu_status EXCEPT ![c] = end]
          /\ jpu_drawn' = jpu_drawn \cup IF end = "done" THEN {jpu_job[c]} ELSE {}
          /\ jpu_cut' = jpu_cut \cup IF end = "stop" THEN {jpu_job[c]} ELSE {}
    BY <1>13 DEF JpuDone
  <2>2. jpu_job[c] \in JpuThreads
    BY <1>13 DEF JpuDone, JpuTypeOK
  <2> QED
    BY <1>13, <1>l, <2>1, <2>2 DEF JpuDone, JpuTypeOK
<1>14. ASSUME NEW c \in JpuCores, JpuIrq(c)
      PROVE  TypeOK2
  BY <1>14, <1>l DEF JpuIrq, JpuTypeOK
<1> QED
  BY <1>1, <1>2, <1>3, <1>4, <1>5, <1>6, <1>7, <1>8, <1>9, <1>10, <1>11, <1>12,
     <1>13, <1>14 DEF JpuNext, JpuStep

-----------------------------------------------------------------------------
(* The semaphore.                                                            *)

LEMMA JpuUnmatchedStays ==
  ASSUME JpuNext, ~jpu_unmatched'
  PROVE  ~jpu_unmatched
BY DEF JpuNext, JpuStep, JpuPicture, JpuDown, JpuTake, JpuTakeNone, JpuStartPic,
       JpuWait, JpuCheck, JpuTimeout, JpuClose, JpuCloseInstance,
       JpuCloseInterrupted, JpuCloseNone, JpuRelease, JpuDone, JpuIrq, jpu_claim

(* Who has downed the semaphore finds a core, and nobody closes core -1.     *)
LEMMA JpuNoNone ==
  ASSUME JpuTypeOK, JpuMatched, NEW t \in JpuThreads
  PROVE  ~JpuTakeNone(t) /\ ~JpuCloseNone(t)
<1>1. ASSUME JpuTakeNone(t)
      PROVE  FALSE
  <2>1. t \in JpuTaking /\ JpuFree = {}
    BY <1>1 DEF JpuTakeNone, JpuTaking
  <2>2. Cardinality(JpuFree) = 0
    BY <2>1, FS_EmptySet
  <2>3. Cardinality(JpuTaking) = 0
    BY <2>2, JpuSetsFinite DEF JpuMatched, JpuCounted, JpuTypeOK
  <2> QED
    BY <2>1, <2>3, JpuSetsFinite, FS_EmptySet
<1> QED
  BY <1>1 DEF JpuMatched, JpuOwned, JpuCloseNone

(* A close that matches gives back the core its caller has.                  *)
LEMMA JpuClosed ==
  ASSUME JpuTypeOK, JpuMatched, NEW t \in JpuThreads, JpuClose(t), ~jpu_unmatched'
  PROVE  /\ t \in jpu_has /\ jpu_core[t] \in JpuCores /\ inuse[jpu_core[t]]
         /\ inuse' = [inuse EXCEPT ![jpu_core[t]] = FALSE]
         /\ jpu_has' = jpu_has \ {t} /\ jpu_sem' = jpu_sem + 1
         /\ JpuGoto(t, "idle") \/ UNCHANGED jpu_pc
<1>1. /\ jpu_pc[t] = "close" /\ t \in jpu_has
      /\ inuse' = [d \in JpuCores |-> /\ inuse[d]
                                      /\ ~(d = jpu_core[t] /\ filp[d] = JpuFileOf[t])]
      /\ jpu_has' = jpu_has \ {t} /\ jpu_sem' = jpu_sem + 1
      /\ JpuGoto(t, "idle") \/ UNCHANGED jpu_pc
  BY DEF JpuClose, JpuCloseInstance
<1>2. jpu_core[t] \in JpuCores /\ inuse[jpu_core[t]] /\ filp[jpu_core[t]] = JpuFileOf[t]
  BY <1>1 DEF JpuMatched, JpuExclusive
<1>3. inuse' = [inuse EXCEPT ![jpu_core[t]] = FALSE]
  BY <1>1, <1>2 DEF JpuTypeOK
<1> QED
  BY <1>1, <1>2, <1>3

LEMMA JpuCountedStep ==
  ASSUME JpuInv, JpuNext, ~jpu_unmatched'
  PROVE  JpuCounted'
<1> USE JpuAssumption DEF jpu_pool, jpu_hw, jpu_local, jpu_past, jpu_claim
<1>0. JpuTypeOK /\ JpuListed /\ JpuMatched /\ jpu_sem \in Nat
  BY JpuUnmatchedStays DEF JpuInv, JpuTypeOK
<1>g. ASSUME NEW t \in JpuThreads, NEW p \in JpuPcs, JpuGoto(t, p)
      PROVE  JpuTaking' = IF p = "take" THEN JpuTaking \cup {t} ELSE JpuTaking \ {t}
  BY <1>0, <1>g, JpuGotoFacts DEF JpuTaking
<1>a. ASSUME UNCHANGED <<jpu_sem, inuse>>, JpuTaking' = JpuTaking
      PROVE  JpuCounted'
  BY <1>0, <1>a DEF JpuMatched, JpuCounted, JpuFree
<1>1. ASSUME NEW t \in JpuThreads,
             \/ JpuPicture(t) \/ JpuStartPic(t) \/ JpuWait(t) \/ JpuCheck(t)
             \/ JpuTimeout(t) \/ JpuCloseInterrupted(t)
      PROVE  JpuCounted'
  <2>1. /\ UNCHANGED <<jpu_sem, inuse>> /\ jpu_pc[t] # "take"
        /\ \E p \in JpuPcs \ {"take"} : JpuGoto(t, p)
    <3>1. CASE JpuPicture(t) \/ JpuStartPic(t)
      BY <3>1 DEF JpuPicture, JpuStartPic, JpuPcs
    <3>2. CASE JpuWait(t) \/ JpuCheck(t)
      BY <3>2 DEF JpuWait, JpuCheck, JpuPcs
    <3>3. CASE JpuTimeout(t) \/ JpuCloseInterrupted(t)
      BY <3>3 DEF JpuTimeout, JpuCloseInterrupted, JpuPcs
    <3> QED
      BY <1>1, <3>1, <3>2, <3>3
  <2>2. JpuTaking' = JpuTaking
    BY <1>g, <2>1 DEF JpuTaking
  <2> QED
    BY <1>a, <2>1, <2>2
<1>2. ASSUME NEW t \in JpuThreads, JpuDown(t)
      PROVE  JpuCounted'
  <2>1. t \notin JpuTaking /\ jpu_sem' = jpu_sem - 1 /\ UNCHANGED inuse
        /\ JpuGoto(t, "take")
    BY <1>2 DEF JpuDown, JpuTaking
  <2>2. JpuTaking' = JpuTaking \cup {t} /\ JpuFree' = JpuFree
    BY <1>g, <2>1 DEF JpuPcs, JpuFree
  <2>3. Cardinality(JpuTaking') = Cardinality(JpuTaking) + 1
    BY <2>1, <2>2, JpuSetsFinite, FS_AddElement
  <2> QED
    BY <1>0, <2>1, <2>2, <2>3, JpuSetsFinite DEF JpuMatched, JpuCounted
<1>3. ASSUME NEW t \in JpuThreads, JpuTake(t)
      PROVE  JpuCounted'
  <2>1. PICK c \in JpuFree :
           /\ inuse' = [inuse EXCEPT ![c] = TRUE]
           /\ JpuGoto(t, "start") \/ JpuGoto(t, "down")
    BY <1>0, <1>3, JpuTaken DEF JpuGot
  <2>2. t \in JpuTaking /\ UNCHANGED jpu_sem
    BY <1>3 DEF JpuTake, JpuTaking
  <2>3. JpuTaking' = JpuTaking \ {t}
    BY <1>g, <2>1 DEF JpuPcs
  <2>4. JpuFree' = JpuFree \ {c}
    BY <1>0, <2>1 DEF JpuFree, JpuTypeOK
  <2>5. /\ Cardinality(JpuTaking') = Cardinality(JpuTaking) - 1
        /\ Cardinality(JpuFree') = Cardinality(JpuFree) - 1
    BY <2>1, <2>2, <2>3, <2>4, JpuSetsFinite, FS_RemoveElement
  <2> QED
    BY <1>0, <2>2, <2>5, JpuSetsFinite DEF JpuMatched, JpuCounted
<1>4. ASSUME NEW t \in JpuThreads, JpuClose(t)
      PROVE  JpuCounted'
  <2>1. /\ jpu_core[t] \in JpuCores /\ inuse[jpu_core[t]]
        /\ inuse' = [inuse EXCEPT ![jpu_core[t]] = FALSE] /\ jpu_sem' = jpu_sem + 1
        /\ JpuGoto(t, "idle") \/ UNCHANGED jpu_pc
    BY <1>0, <1>4, JpuClosed
  <2>2. JpuTaking' = JpuTaking
    BY <1>4, <1>g, <2>1 DEF JpuClose, JpuTaking, JpuPcs
  <2>3. JpuFree' = JpuFree \cup {jpu_core[t]} /\ jpu_core[t] \notin JpuFree
    BY <1>0, <2>1 DEF JpuFree, JpuTypeOK
  <2>4. Cardinality(JpuFree') = Cardinality(JpuFree) + 1
    BY <2>3, JpuSetsFinite, FS_AddElement
  <2> QED
    BY <1>0, <2>1, <2>2, <2>4, JpuSetsFinite DEF JpuMatched, JpuCounted
<1>5. ASSUME NEW f \in JpuFiles, JpuRelease(f)
      PROVE  JpuCounted'
  <2> DEFINE cs == {c \in JpuOf(f) : inuse[c]}
  <2>1. /\ jpu_sem' = jpu_sem + Cardinality(cs)
        /\ inuse' = [c \in JpuCores |-> inuse[c] /\ c \notin JpuOf(f)]
    BY <1>5 DEF JpuRelease, JpuFreeEntries
  <2>2. JpuTaking' = JpuTaking
    BY <1>0, <1>5 DEF JpuRelease, JpuEnded, JpuTaking, JpuTypeOK
  <2>3. cs \in SUBSET JpuCores /\ JpuFree' = JpuFree \cup cs /\ JpuFree \cap cs = {}
    BY <1>0, <2>1 DEF JpuFree, JpuOf, JpuTypeOK
  <2> HIDE DEF cs
  <2>4. Cardinality(JpuFree') = Cardinality(JpuFree) + Cardinality(cs)
    <3>1. Cardinality(JpuFree \cap cs) = 0
      BY <2>3, FS_EmptySet
    <3>2. IsFiniteSet(JpuFree) /\ IsFiniteSet(cs)
          /\ Cardinality(JpuFree) \in Nat /\ Cardinality(cs) \in Nat
      BY <2>3, JpuSetsFinite
    <3>3. Cardinality(JpuFree \cup cs) =
            Cardinality(JpuFree) + Cardinality(cs) - Cardinality(JpuFree \cap cs)
      BY <3>2, FS_Union
    <3> QED
      BY <2>3, <3>1, <3>2, <3>3
  <2>5. Cardinality(cs) \in Nat
    BY <2>3, JpuSetsFinite
  <2> QED
    BY <1>0, <2>1, <2>2, <2>4, <2>5, JpuSetsFinite DEF JpuMatched, JpuCounted
<1>6. ASSUME NEW c \in JpuCores, JpuDone(c) \/ JpuIrq(c)
      PROVE  JpuCounted'
  <2>1. UNCHANGED <<jpu_sem, inuse, jpu_pc>>
    BY <1>6 DEF JpuDone, JpuIrq
  <2> QED
    BY <1>a, <2>1 DEF JpuTaking
<1> QED
  BY <1>0, <1>1, <1>2, <1>3, <1>4, <1>5, <1>6, JpuNoNone DEF JpuNext, JpuStep

-----------------------------------------------------------------------------
(* Owners.                                                                   *)

LEMMA JpuOwnedStep ==
  ASSUME JpuInv, JpuNext, ~jpu_unmatched'
  PROVE  JpuOwned'
<1> USE JpuAssumption DEF jpu_pool, jpu_hw, jpu_local, jpu_past, jpu_claim
<1>0. JpuTypeOK /\ JpuListed /\ JpuMatched /\ JpuOwned
  BY JpuUnmatchedStays DEF JpuInv, JpuMatched
<1>a. ASSUME NEW t \in JpuThreads, NEW p \in JpuPcs \ {"close_none"}, JpuGoto(t, p),
             jpu_has \ {t} \subseteq jpu_has', p \in JpuWorking => t \in jpu_has'
      PROVE  JpuOwned'
  BY <1>0, <1>a, JpuGotoFacts DEF JpuOwned
<1>1. ASSUME NEW t \in JpuThreads, JpuPicture(t) \/ JpuDown(t) \/ JpuCloseInterrupted(t)
      PROVE  JpuOwned'
  <2>1. PICK p \in {"idle", "down", "close", "take"} :
          JpuGoto(t, p) /\ UNCHANGED jpu_has
    BY <1>1 DEF JpuPicture, JpuDown, JpuCloseInterrupted
  <2> QED
    BY <1>a, <2>1 DEF JpuPcs, JpuWorking
<1>2. ASSUME NEW t \in JpuThreads,
             JpuStartPic(t) \/ JpuWait(t) \/ JpuCheck(t) \/ JpuTimeout(t)
      PROVE  JpuOwned'
  <2>1. jpu_pc[t] \in JpuWorking /\ UNCHANGED jpu_has
    BY <1>2 DEF JpuStartPic, JpuWait, JpuCheck, JpuTimeout, JpuWorking
  <2>2. PICK p \in {"wait", "check", "close"} : JpuGoto(t, p)
    BY <1>2 DEF JpuStartPic, JpuWait, JpuCheck, JpuTimeout
  <2>3. t \in jpu_has
    BY <1>0, <2>1 DEF JpuOwned
  <2> QED
    BY <1>a, <2>1, <2>2, <2>3 DEF JpuPcs
<1>3. ASSUME NEW t \in JpuThreads, JpuTake(t)
      PROVE  JpuOwned'
  <2>1. PICK c \in JpuFree : \/ JpuGot(t, c)
                             \/ JpuGoto(t, "down") /\ UNCHANGED jpu_has
    BY <1>0, <1>3, JpuTaken
  <2>2. \/ JpuGoto(t, "start") /\ jpu_has' = jpu_has \cup {t}
        \/ JpuGoto(t, "down") /\ UNCHANGED jpu_has
    BY <2>1 DEF JpuGot
  <2> QED
    BY <1>a, <2>2 DEF JpuPcs, JpuWorking
<1>4. ASSUME NEW t \in JpuThreads, JpuClose(t)
      PROVE  JpuOwned'
  <2>1. /\ jpu_has' = jpu_has \ {t} /\ jpu_pc[t] = "close"
        /\ JpuGoto(t, "idle") \/ UNCHANGED jpu_pc
    BY <1>0, <1>4, JpuClosed DEF JpuClose
  <2>2. CASE JpuGoto(t, "idle")
    BY <1>a, <2>1, <2>2 DEF JpuPcs, JpuWorking
  <2>3. CASE UNCHANGED jpu_pc
    BY <1>0, <2>1, <2>3 DEF JpuOwned, JpuWorking
  <2> QED
    BY <2>1, <2>2, <2>3
<1>5. ASSUME NEW f \in JpuFiles, JpuRelease(f)
      PROVE  JpuOwned'
  BY <1>0, <1>5 DEF JpuRelease, JpuEnded, JpuOwned, JpuWorking, JpuTypeOK
<1>6. ASSUME NEW c \in JpuCores, JpuDone(c) \/ JpuIrq(c)
      PROVE  JpuOwned'
  BY <1>0, <1>6 DEF JpuDone, JpuIrq, JpuOwned
<1> QED
  BY <1>0, <1>1, <1>2, <1>3, <1>4, <1>5, <1>6, JpuNoNone DEF JpuNext, JpuStep

LEMMA JpuExclusiveStep ==
  ASSUME JpuInv, JpuNext, ~jpu_unmatched'
  PROVE  JpuExclusive'
<1> USE JpuAssumption DEF jpu_pool, jpu_hw, jpu_local, jpu_past, jpu_claim
<1>0. JpuTypeOK /\ JpuListed /\ JpuMatched /\ JpuExclusive /\ jpu_has \subseteq JpuThreads
  BY JpuUnmatchedStays DEF JpuInv, JpuMatched, JpuTypeOK
<1>1. ASSUME UNCHANGED <<inuse, filp, jpu_core, jpu_has>>
      PROVE  JpuExclusive'
  BY <1>0, <1>1 DEF JpuExclusive
<1>2. ASSUME NEW t \in JpuThreads,
             \/ JpuPicture(t) \/ JpuDown(t) \/ JpuStartPic(t) \/ JpuWait(t)
             \/ JpuCheck(t) \/ JpuTimeout(t) \/ JpuCloseInterrupted(t)
      PROVE  JpuExclusive'
  BY <1>1, <1>2 DEF JpuPicture, JpuDown, JpuStartPic, JpuWait, JpuCheck, JpuTimeout,
     JpuCloseInterrupted
(* Nobody has the core that is taken, as those they have are in use.         *)
<1>3. ASSUME NEW t \in JpuThreads, JpuTake(t)
      PROVE  JpuExclusive'
  <2>1. PICK c \in JpuFree :
           /\ inuse' = [inuse EXCEPT ![c] = TRUE]
           /\ filp' = [filp EXCEPT ![c] = JpuFileOf[t]]
           /\ JpuGot(t, c) \/ UNCHANGED <<jpu_core, jpu_has>>
    BY <1>0, <1>3, JpuTaken
  <2>2. c \in JpuCores /\ ~inuse[c]
    BY DEF JpuFree
  <2>3. \A u \in jpu_has : jpu_core[u] # c
    BY <1>0, <2>2 DEF JpuExclusive
  <2>4. \A u \in jpu_has : /\ inuse'[jpu_core[u]] /\ filp'[jpu_core[u]] = JpuFileOf[u]
    BY <1>0, <2>1, <2>2, <2>3 DEF JpuExclusive, JpuTypeOK
  <2>5. CASE UNCHANGED <<jpu_core, jpu_has>>
    BY <1>0, <2>4, <2>5 DEF JpuExclusive
  <2>6. CASE JpuGot(t, c)
    <3>1. /\ jpu_has' = jpu_has \cup {t} /\ jpu_core'[t] = c
          /\ \A u \in JpuThreads : u # t => jpu_core'[u] = jpu_core[u]
      BY <1>0, <2>6 DEF JpuGot, JpuTypeOK
    <3>2. inuse'[c] /\ filp'[c] = JpuFileOf[t]
      BY <1>0, <2>1, <2>2 DEF JpuTypeOK
    <3> QED
      BY <1>0, <2>2, <2>3, <2>4, <3>1, <3>2 DEF JpuExclusive
  <2> QED
    BY <2>1, <2>5, <2>6
<1>4. ASSUME NEW t \in JpuThreads, JpuClose(t)
      PROVE  JpuExclusive'
  <2>1. /\ t \in jpu_has /\ jpu_core[t] \in JpuCores
        /\ inuse' = [inuse EXCEPT ![jpu_core[t]] = FALSE] /\ jpu_has' = jpu_has \ {t}
        /\ UNCHANGED <<filp, jpu_core>>
    BY <1>0, <1>4, JpuClosed DEF JpuClose
  <2>2. \A u \in jpu_has \ {t} : jpu_core[u] # jpu_core[t]
    BY <1>0, <2>1 DEF JpuExclusive
  <2>3. \A u \in jpu_has \ {t} : inuse'[jpu_core[u]]
    BY <1>0, <2>1, <2>2 DEF JpuExclusive, JpuTypeOK
  <2> QED
    BY <1>0, <2>1, <2>3 DEF JpuExclusive
(* The cores of the threads of other files are marked with those.            *)
<1>5. ASSUME NEW f \in JpuFiles, JpuRelease(f)
      PROVE  JpuExclusive'
  <2>1. /\ jpu_has' = {t \in jpu_has : JpuFileOf[t] # f}
        /\ \A u \in JpuThreads : JpuFileOf[u] # f => jpu_core'[u] = jpu_core[u]
    BY <1>0, <1>5 DEF JpuRelease, JpuEnded, JpuTypeOK
  <2>2. \A c \in JpuCores : filp[c] # f => inuse'[c] = inuse[c] /\ filp'[c] = filp[c]
    BY <1>0, <1>5 DEF JpuRelease, JpuFreeEntries, JpuOf, JpuTypeOK
  <2> QED
    BY <1>0, <2>1, <2>2 DEF JpuExclusive
<1>6. ASSUME NEW c \in JpuCores, JpuDone(c) \/ JpuIrq(c)
      PROVE  JpuExclusive'
  BY <1>1, <1>6 DEF JpuDone, JpuIrq
<1> QED
  BY <1>0, <1>2, <1>3, <1>4, <1>5, <1>6, JpuNoNone DEF JpuNext, JpuStep

(* A thread that waits has its core to itself.                               *)
LEMMA JpuWaiter ==
  ASSUME JpuTypeOK, JpuMatched, NEW t \in JpuThreads, JpuWaits(t)
  PROVE  /\ t \in jpu_has /\ jpu_core[t] \in JpuCores /\ JpuOwn(t)
         /\ filp[jpu_core[t]] = JpuFileOf[t]
         /\ \A u \in jpu_has \ {t} : jpu_core[u] # jpu_core[t]
<1>1. t \in jpu_has
  BY DEF JpuMatched, JpuOwned, JpuWaits, JpuWorking
<1> QED
  BY <1>1 DEF JpuMatched, JpuExclusive, JpuOwnPicture, JpuOwn, JpuWaits

LEMMA JpuOwnPictureStep ==
  ASSUME JpuInv, JpuNext, ~jpu_unmatched'
  PROVE  JpuOwnPicture'
<1> USE JpuAssumption DEF jpu_pool, jpu_hw, jpu_local, jpu_past, jpu_claim
<1>0. /\ JpuTypeOK /\ JpuListed /\ JpuMatched /\ jpu_ok \subseteq jpu_drawn \cup jpu_cut
      /\ \A c \in JpuCores : JpuWaited(c) \/ JpuQuiet(c)
  BY JpuUnmatchedStays DEF JpuInv, JpuMatched, JpuOwnPicture
<1>q. ASSUME \A t \in JpuThreads : JpuWaits(t)' => JpuOwn(t)',
             \A c \in JpuCores : JpuWaited(c)' \/ JpuQuiet(c)',
             jpu_ok' \subseteq jpu_drawn' \cup jpu_cut'
      PROVE  JpuOwnPicture'
  BY <1>q DEF JpuOwnPicture
(* A step that changes no core, after which the same threads wait.           *)
<1>a. ASSUME UNCHANGED <<jpu_job, jpu_status, jpu_ok, jpu_drawn, jpu_cut>>,
             \A u \in JpuThreads : JpuWaits(u)' <=> JpuWaits(u),
             \A u \in JpuThreads : JpuWaits(u) => jpu_core'[u] = jpu_core[u]
      PROVE  JpuOwnPicture'
  <2>1. ASSUME NEW u \in JpuThreads, JpuWaits(u)'
        PROVE  JpuOwn(u)'
    BY <1>0, <1>a, <2>1, JpuWaiter DEF JpuOwn
  <2>2. ASSUME NEW c \in JpuCores
        PROVE  JpuWaited(c)' \/ JpuQuiet(c)'
    BY <1>0, <1>a DEF JpuWaited, JpuQuiet
  <2> QED
    BY <1>0, <1>a, <1>q, <2>1, <2>2
(* A step of t alone, from p, after which it waits iff it did before.        *)
<1>b. ASSUME NEW t \in JpuThreads, NEW p \in JpuPcs, JpuGoto(t, p),
             p \in {"wait", "check"} <=> JpuWaits(t),
             UNCHANGED <<jpu_job, jpu_status, jpu_ok, jpu_drawn, jpu_cut, jpu_core>>
      PROVE  JpuOwnPicture'
  <2>1. \A u \in JpuThreads : JpuWaits(u)' <=> JpuWaits(u)
    BY <1>0, <1>b, JpuGotoFacts DEF JpuWaits
  <2> QED
    BY <1>a, <1>b, <2>1
(* A step after which t waits no longer and its core is quiet.               *)
<1>c. ASSUME NEW t \in JpuThreads, JpuWaits(t), JpuGoto(t, "close"),
             \A c \in JpuCores : c # jpu_core[t] =>
               jpu_job'[c] = jpu_job[c] /\ jpu_status'[c] = jpu_status[c],
             JpuQuiet(jpu_core[t])',
             UNCHANGED <<jpu_drawn, jpu_cut, jpu_core>>,
             jpu_ok' \subseteq jpu_drawn \cup jpu_cut
      PROVE  JpuOwnPicture'
  <2>1. \A u \in JpuThreads : JpuWaits(u)' <=> (u # t /\ JpuWaits(u))
    BY <1>0, <1>c, JpuGotoFacts DEF JpuWaits, JpuPcs
  <2>2. t \in jpu_has /\ jpu_core[t] \in JpuCores
    BY <1>0, <1>c, JpuWaiter
  <2>3. ASSUME NEW u \in JpuThreads, JpuWaits(u)'
        PROVE  JpuOwn(u)'
    <3>1. JpuOwn(u) /\ jpu_core[u] # jpu_core[t] /\ jpu_core[u] \in JpuCores
      BY <1>0, <2>1, <2>2, <2>3, JpuWaiter
    <3> QED
      BY <1>c, <3>1 DEF JpuOwn
  <2>4. ASSUME NEW c \in JpuCores
        PROVE  JpuWaited(c)' \/ JpuQuiet(c)'
    BY <1>0, <1>c, <2>1 DEF JpuWaited, JpuQuiet
  <2> QED
    BY <1>c, <1>q, <2>3, <2>4
<1>1. ASSUME NEW t \in JpuThreads, JpuPicture(t) \/ JpuDown(t)
      PROVE  JpuOwnPicture'
  <2>1. PICK p \in {"down", "close", "take"} :
          /\ JpuGoto(t, p) /\ ~JpuWaits(t)
          /\ UNCHANGED <<jpu_job, jpu_status, jpu_ok, jpu_drawn, jpu_cut, jpu_core>>
    BY <1>1 DEF JpuPicture, JpuDown, JpuWaits
  <2> QED
    BY <1>b, <2>1 DEF JpuPcs
<1>2. ASSUME NEW t \in JpuThreads, JpuTake(t)
      PROVE  JpuOwnPicture'
  <2>1. PICK c \in JpuFree : \/ JpuGot(t, c)
                             \/ JpuGoto(t, "down") /\ UNCHANGED <<jpu_core, jpu_has>>
    BY <1>0, <1>2, JpuTaken
  <2>2. /\ UNCHANGED <<jpu_job, jpu_status, jpu_ok, jpu_drawn, jpu_cut>>
        /\ JpuGoto(t, "start") \/ JpuGoto(t, "down")
        /\ ~JpuWaits(t)
        /\ \A u \in JpuThreads : u # t => jpu_core'[u] = jpu_core[u]
    BY <1>0, <1>2, <2>1 DEF JpuTake, JpuGot, JpuWaits, JpuTypeOK
  <2>3. \A u \in JpuThreads : JpuWaits(u)' <=> JpuWaits(u)
    BY <1>0, <2>2, JpuGotoFacts DEF JpuWaits, JpuPcs
  <2> QED
    BY <1>a, <2>2, <2>3
(* The core of a thread that starts is quiet, as nobody else has it.         *)
<1>3. ASSUME NEW t \in JpuThreads, JpuStartPic(t)
      PROVE  JpuOwnPicture'
  <2>1. UNCHANGED <<jpu_core, jpu_ok, jpu_drawn, jpu_cut>> /\ ~JpuWaits(t)
    BY <1>3 DEF JpuStartPic, JpuWaits
  <2>2. t \in jpu_has /\ jpu_core[t] \in JpuCores
    BY <1>0, <1>3 DEF JpuStartPic, JpuMatched, JpuOwned, JpuExclusive, JpuWorking
  <2>3. \A u \in JpuThreads : JpuWaits(u) => jpu_core[u] # jpu_core[t]
    BY <1>0, <2>1, <2>2, JpuWaiter
  <2>4. JpuQuiet(jpu_core[t])
    BY <1>0, <2>2, <2>3 DEF JpuWaited
  <2>5. UNCHANGED jpu_status
    <3>1. jpu_status[jpu_core[t]] = "none"
      BY <2>4 DEF JpuQuiet
    <3>2. \/ jpu_status' = [jpu_status EXCEPT ![jpu_core[t]] = "none"]
          \/ UNCHANGED jpu_status
      BY <1>3 DEF JpuStartPic, JpuClrStatus
    <3> QED
      BY <1>0, <3>1, <3>2 DEF JpuTypeOK
  <2>6. CASE JpuGoto(t, "close") /\ UNCHANGED jpu_job
    BY <1>b, <2>1, <2>5, <2>6 DEF JpuPcs
  <2>7. CASE /\ jpu_job' = [jpu_job EXCEPT ![jpu_core[t]] = t] \/ UNCHANGED jpu_job
             /\ JpuGoto(t, "wait")
    <3>1. \A u \in JpuThreads : JpuWaits(u)' <=> (u = t \/ JpuWaits(u))
      BY <1>0, <2>7, JpuGotoFacts DEF JpuWaits, JpuPcs
    <3>2. \A c \in JpuCores : c # jpu_core[t] => jpu_job'[c] = jpu_job[c]
      BY <1>0, <2>7 DEF JpuTypeOK
    <3>3. JpuOwn(t)'
      BY <1>0, <2>1, <2>2, <2>4, <2>5, <2>7 DEF JpuOwn, JpuQuiet, JpuTypeOK
    <3>4. ASSUME NEW u \in JpuThreads, u # t, JpuWaits(u)'
          PROVE  JpuOwn(u)'
      <4>1. JpuOwn(u) /\ jpu_core[u] # jpu_core[t] /\ jpu_core[u] \in JpuCores
        BY <1>0, <2>3, <3>1, <3>4, JpuWaiter
      <4> QED
        BY <2>1, <2>5, <3>2, <4>1 DEF JpuOwn
    <3>5. ASSUME NEW c \in JpuCores
          PROVE  JpuWaited(c)' \/ JpuQuiet(c)'
      BY <1>0, <2>1, <2>5, <3>1, <3>2 DEF JpuWaited, JpuQuiet
    <3> QED
      BY <1>0, <1>q, <2>1, <3>3, <3>4, <3>5
  <2> QED
    BY <1>3, <2>6, <2>7 DEF JpuStartPic
<1>4. ASSUME NEW t \in JpuThreads, JpuWait(t)
      PROVE  JpuOwnPicture'
  <2>1. /\ JpuWaits(t) /\ JpuGoto(t, "check")
        /\ UNCHANGED <<jpu_job, jpu_status, jpu_ok, jpu_drawn, jpu_cut, jpu_core>>
    BY <1>4 DEF JpuWait, JpuWaits
  <2> QED
    BY <1>b, <2>1 DEF JpuPcs
(* The status the thread reads is that of its own picture.                   *)
<1>5. ASSUME NEW t \in JpuThreads, JpuCheck(t)
      PROVE  JpuOwnPicture'
  <2>1. JpuWaits(t) /\ UNCHANGED <<jpu_job, jpu_core, jpu_drawn, jpu_cut>>
    BY <1>5 DEF JpuCheck, JpuWaits
  <2>2. t \in jpu_has /\ jpu_core[t] \in JpuCores /\ JpuOwn(t)
    BY <1>0, <2>1, JpuWaiter
  <2>3. CASE /\ jpu_status[jpu_core[t]] # "none"
             /\ jpu_status' = [jpu_status EXCEPT ![jpu_core[t]] = "none"]
             /\ jpu_ok' = IF jpu_status[jpu_core[t]] = "error" THEN jpu_ok
                          ELSE jpu_ok \cup {t}
             /\ JpuGoto(t, "close")
    <3>1. JpuQuiet(jpu_core[t])'
      BY <1>0, <2>1, <2>2, <2>3 DEF JpuOwn, JpuQuiet, JpuTypeOK
    <3>2. \A c \in JpuCores : c # jpu_core[t] =>
            jpu_job'[c] = jpu_job[c] /\ jpu_status'[c] = jpu_status[c]
      BY <1>0, <2>1, <2>3 DEF JpuTypeOK
    <3>3. jpu_status[jpu_core[t]] # "error" => t \in jpu_drawn \cup jpu_cut
      BY <1>0, <2>2, <2>3 DEF JpuOwn, JpuTypeOK
    <3>4. jpu_ok' \subseteq jpu_drawn \cup jpu_cut
      BY <1>0, <2>3, <3>3
    <3> QED
      BY <1>c, <2>1, <2>3, <3>1, <3>2, <3>4
  <2>4. CASE JpuGoto(t, "wait") /\ UNCHANGED <<jpu_status, jpu_ok>>
    BY <1>b, <2>1, <2>4 DEF JpuPcs
  <2> QED
    BY <1>5, <2>3, <2>4 DEF JpuCheck, JpuClrStatus
<1>6. ASSUME NEW t \in JpuThreads, JpuTimeout(t)
      PROVE  JpuOwnPicture'
  <2>1. /\ JpuWaits(t) /\ JpuGoto(t, "close")
        /\ jpu_job' = [jpu_job EXCEPT ![jpu_core[t]] = JpuNone]
        /\ jpu_status' = [jpu_status EXCEPT ![jpu_core[t]] = "none"]
        /\ UNCHANGED <<jpu_core, jpu_ok, jpu_drawn, jpu_cut>>
    BY <1>6 DEF JpuTimeout, JpuClrStatus, JpuWaits
  <2>2. jpu_core[t] \in JpuCores
    BY <1>0, <2>1, JpuWaiter
  <2>3. /\ JpuQuiet(jpu_core[t])'
        /\ \A c \in JpuCores : c # jpu_core[t] =>
             jpu_job'[c] = jpu_job[c] /\ jpu_status'[c] = jpu_status[c]
    BY <1>0, <2>1, <2>2 DEF JpuQuiet, JpuTypeOK
  <2> QED
    BY <1>0, <1>c, <2>1, <2>3
<1>7. ASSUME NEW t \in JpuThreads, JpuClose(t) \/ JpuCloseInterrupted(t)
      PROVE  JpuOwnPicture'
  <2>1. /\ jpu_pc[t] = "close"
        /\ JpuGoto(t, "idle") \/ UNCHANGED jpu_pc
        /\ jpu_ok' = jpu_ok \ {t}
        /\ jpu_drawn' = jpu_drawn \ {t} /\ jpu_cut' = jpu_cut \ {t}
        /\ UNCHANGED <<jpu_job, jpu_status, jpu_core>>
    BY <1>7 DEF JpuClose, JpuCloseInterrupted, JpuForget
  <2>2. \A u \in JpuThreads : (JpuWaits(u)' <=> JpuWaits(u)) /\ (JpuWaits(u) => u # t)
    BY <1>0, <2>1, JpuGotoFacts DEF JpuWaits, JpuPcs
  <2>3. ASSUME NEW u \in JpuThreads, JpuWaits(u)'
        PROVE  JpuOwn(u)'
    BY <1>0, <2>1, <2>2, <2>3, JpuWaiter DEF JpuOwn
  <2>4. ASSUME NEW c \in JpuCores
        PROVE  JpuWaited(c)' \/ JpuQuiet(c)'
    BY <1>0, <2>1, <2>2 DEF JpuWaited, JpuQuiet
  <2> QED
    BY <1>0, <1>q, <2>1, <2>3, <2>4
(* The cores of the threads of other files are not reset, and those of the   *)
(* threads that waited are.                                                  *)
<1>8. ASSUME NEW f \in JpuFiles, JpuRelease(f)
      PROVE  JpuOwnPicture'
  <2> DEFINE mine == {t \in JpuThreads : JpuFileOf[t] = f}
  <2>1. /\ jpu_ok' = jpu_ok \ mine
        /\ jpu_drawn' = jpu_drawn \ mine /\ jpu_cut' = jpu_cut \ mine
    BY <1>8 DEF JpuRelease, JpuEnded, JpuForget
  <2>2. \A u \in JpuThreads :
          /\ u \notin mine => jpu_core'[u] = jpu_core[u] /\ jpu_pc'[u] = jpu_pc[u]
          /\ u \in mine => jpu_pc'[u] = "idle"
    BY <1>0, <1>8 DEF JpuRelease, JpuEnded, JpuTypeOK
  <2>3. \A c \in JpuCores :
          /\ \/ filp[c] # f \/ ~inuse[c]
             => jpu_job'[c] = jpu_job[c] /\ jpu_status'[c] = jpu_status[c]
          /\ filp[c] = f /\ inuse[c] => JpuQuiet(c)'
    BY <1>0, <1>8 DEF JpuRelease, JpuResetCores, JpuOf, JpuQuiet, JpuTypeOK
  <2>4. \A u \in JpuThreads :
          JpuWaits(u) => /\ JpuOwn(u) /\ jpu_core[u] \in JpuCores
                         /\ filp[jpu_core[u]] = JpuFileOf[u] /\ inuse[jpu_core[u]]
    BY <1>0, JpuWaiter DEF JpuMatched, JpuExclusive
  <2>5. \A u \in JpuThreads : JpuWaits(u)' <=> (u \notin mine /\ JpuWaits(u))
    BY <2>2 DEF JpuWaits
  <2>6. ASSUME NEW u \in JpuThreads, JpuWaits(u)'
        PROVE  JpuOwn(u)'
    BY <2>1, <2>2, <2>3, <2>4, <2>5, <2>6 DEF JpuOwn
  <2>7. ASSUME NEW c \in JpuCores, ~JpuQuiet(c)'
        PROVE  JpuWaited(c)'
    <3>1. /\ filp[c] # f \/ ~inuse[c]
          /\ jpu_job'[c] = jpu_job[c] /\ jpu_status'[c] = jpu_status[c]
      BY <2>3, <2>7
    <3>2. PICK u \in JpuThreads : JpuWaits(u) /\ jpu_core[u] = c
      BY <1>0, <2>7, <3>1 DEF JpuQuiet, JpuWaited
    <3>3. u \notin mine
      BY <2>4, <3>1, <3>2
    <3> QED
      BY <2>2, <2>5, <3>2, <3>3 DEF JpuWaited
  <2> QED
    BY <1>0, <1>q, <2>1, <2>6, <2>7
(* The core that ends a picture ends that of the thread that waits.          *)
<1>9. ASSUME NEW c \in JpuCores, JpuDone(c)
      PROVE  JpuOwnPicture'
  <2>1. PICK end \in {"done", "error", "stop"} :
          /\ jpu_status' = [jpu_status EXCEPT ![c] = end]
          /\ jpu_drawn' = jpu_drawn \cup IF end = "done" THEN {jpu_job[c]} ELSE {}
          /\ jpu_cut' = jpu_cut \cup IF end = "stop" THEN {jpu_job[c]} ELSE {}
    BY <1>9 DEF JpuDone
  <2>2. /\ jpu_job[c] # JpuNone /\ jpu_job' = [jpu_job EXCEPT ![c] = JpuNone]
        /\ UNCHANGED <<jpu_pc, jpu_core, jpu_ok>>
    BY <1>9 DEF JpuDone
  <2>3. \A d \in JpuCores \ {c} :
          jpu_job'[d] = jpu_job[d] /\ jpu_status'[d] = jpu_status[d]
    BY <1>0, <2>1, <2>2 DEF JpuTypeOK
  <2>4. jpu_job'[c] = JpuNone /\ jpu_status'[c] = end
    BY <1>0, <2>1, <2>2 DEF JpuTypeOK
  <2>5. JpuWaited(c)
    BY <1>0, <2>2 DEF JpuQuiet
  <2>6. \A u \in JpuThreads : JpuWaits(u)' <=> JpuWaits(u)
    BY <2>2 DEF JpuWaits
  <2>7. ASSUME NEW u \in JpuThreads, JpuWaits(u)'
        PROVE  JpuOwn(u)'
    <3>1. JpuOwn(u) /\ jpu_core[u] \in JpuCores
      BY <1>0, <2>6, <2>7, JpuWaiter
    <3>2. CASE jpu_core[u] = c
      <4>1. jpu_job[c] = u
        BY <2>2, <3>1, <3>2 DEF JpuOwn
      <4> QED
        BY <2>1, <2>2, <2>4, <3>2, <4>1 DEF JpuOwn
    <3>3. CASE jpu_core[u] # c
      BY <2>1, <2>2, <2>3, <3>1, <3>3 DEF JpuOwn
    <3> QED
      BY <3>2, <3>3
  <2>8. ASSUME NEW d \in JpuCores
        PROVE  JpuWaited(d)' \/ JpuQuiet(d)'
    <3>1. JpuWaited(d)' <=> JpuWaited(d)
      BY <2>2, <2>6 DEF JpuWaited
    <3> QED
      BY <1>0, <2>3, <2>5, <3>1 DEF JpuQuiet
  <2>9. jpu_ok' \subseteq jpu_drawn' \cup jpu_cut'
    BY <1>0, <2>1, <2>2
  <2> QED
    BY <1>q, <2>7, <2>8, <2>9
<1>10. ASSUME NEW c \in JpuCores, JpuIrq(c)
       PROVE  JpuOwnPicture'
  <2>1. UNCHANGED <<jpu_pc, jpu_job, jpu_status, jpu_core, jpu_ok, jpu_drawn, jpu_cut>>
    BY <1>10 DEF JpuIrq
  <2> QED
    BY <1>a, <2>1 DEF JpuWaits
<1> QED
  BY <1>0, <1>1, <1>2, <1>3, <1>4, <1>5, <1>6, <1>7, <1>8, <1>9, <1>10, JpuNoNone
  DEF JpuNext, JpuStep

-----------------------------------------------------------------------------
(* The invariant holds.                                                      *)

(* The list the driver starts with has every core.                           *)
LEMMA JpuInitListed ==
  ASSUME JpuInit
  PROVE  inst_head \in Seq(JpuCores) /\ JpuListed
<1> DEFINE n == Cardinality(JpuCores)
           Good(f) == \A i, j \in 1 .. n : f[i] = f[j] => i = j
<1>1. n \in Nat /\ IsFiniteSet(JpuCores)
  BY JpuAssumption, FS_CardinalityType
<1>2. \E f \in [1 .. n -> JpuCores] : Good(f)
  <2>1. ExistsBijection(1 .. n, JpuCores)
    BY <1>1, FS_CardinalityType
  <2>2. PICK f \in Bijection(1 .. n, JpuCores) : TRUE
    BY <2>1 DEF ExistsBijection
  <2> QED
    BY <2>2 DEF Bijection, Injection, IsInjective
<1>3. inst_head = CHOOSE f \in [1 .. n -> JpuCores] : IsInjective(f)
  BY DEF JpuInit, SetToSeq
<1>4. \A f \in [1 .. n -> JpuCores] : IsInjective(f) <=> Good(f)
  BY DEF IsInjective
<1>5. inst_head \in [1 .. n -> JpuCores] /\ Good(inst_head)
  BY <1>2, <1>3, <1>4
<1>6. inst_head \in Seq(JpuCores) /\ Len(inst_head) = n
  BY <1>1, <1>5
<1>7. inst_head \in Surjection(1 .. n, JpuCores)
  <2>1. IsFiniteSet(1 .. n) /\ Cardinality(1 .. n) = n
    BY <1>1, FS_Interval
  <2>2. inst_head \in Injection(1 .. n, JpuCores)
    BY <1>5 DEF Injection, IsInjective
  <2> QED
    BY <1>1, <2>1, <2>2, FS_Injection
<1> QED
  BY <1>6, <1>7 DEF JpuListed, Surjection

LEMMA JpuInitInv ==
  ASSUME JpuInit
  PROVE  JpuInv
<1> USE JpuAssumption
<1>1. inst_head \in Seq(JpuCores) /\ JpuListed
  BY JpuInitListed
<1>2. Cardinality(JpuCores) \in Nat
  BY FS_CardinalityType
<1>3. JpuTypeOK
  BY <1>1, <1>2 DEF JpuInit, JpuTypeOK
<1>4. JpuCounted
  <2>1. JpuTaking = {} /\ JpuFree = JpuCores
    BY DEF JpuInit, JpuTaking, JpuFree
  <2>2. Cardinality(JpuTaking) = 0
    BY <2>1, FS_EmptySet
  <2> QED
    BY <1>2, <2>1, <2>2 DEF JpuInit, JpuCounted
<1>5. JpuOwned /\ JpuExclusive /\ JpuOwnPicture
  BY DEF JpuInit, JpuOwned, JpuExclusive, JpuOwnPicture, JpuWorking, JpuWaits, JpuQuiet
<1> QED
  BY <1>1, <1>3, <1>4, <1>5 DEF JpuInv, JpuMatched

LEMMA JpuInvStep ==
  ASSUME JpuInv, [JpuNext]_jpu_vars
  PROVE  JpuInv'
<1>1. CASE JpuNext
  <2>1. JpuTypeOK' /\ JpuListed'
    BY <1>1, JpuTypeStep DEF JpuInv
  <2>2. ASSUME ~jpu_unmatched'
        PROVE  JpuMatched'
    BY <1>1, <2>2, JpuCountedStep, JpuOwnedStep, JpuExclusiveStep, JpuOwnPictureStep
    DEF JpuMatched
  <2> QED
    BY <2>1, <2>2 DEF JpuInv
<1>2. CASE UNCHANGED jpu_vars
  <2>1. JpuTypeOK' /\ JpuListed'
    BY <1>2 DEF JpuInv, jpu_vars, jpu_pool, jpu_hw, jpu_local, jpu_past, jpu_claim,
       JpuTypeOK, JpuListed
  <2>2. JpuMatched' <=> JpuMatched
    BY <1>2 DEF jpu_vars, jpu_pool, jpu_hw, jpu_local, jpu_past, jpu_claim, JpuMatched,
       JpuCounted, JpuOwned, JpuExclusive, JpuOwnPicture, JpuTaking, JpuFree, JpuWaits,
       JpuOwn, JpuQuiet, JpuWaited
  <2>3. UNCHANGED jpu_unmatched
    BY <1>2 DEF jpu_vars, jpu_claim
  <2> QED
    BY <2>1, <2>2, <2>3 DEF JpuInv
<1> QED
  BY <1>1, <1>2

LEMMA JpuInvHolds == JpuSpec => []JpuInv
BY JpuInitInv, JpuInvStep, PTL DEF JpuSpec

(* Every variable of the pool keeps its type, whatever calls of              *)
(* bm_jpu_ioctl, interrupts and ends of processes come.                      *)
THEOREM JpuTypesHold == JpuSpec => []JpuTypeOK
<1>1. JpuInv => JpuTypeOK
  BY DEF JpuInv
<1> QED
  BY <1>1, JpuInvHolds, PTL

(* As long as closes match, the semaphore of bm1684_jpu.c counts the free    *)
(* cores, less those downed for, however calls are interrupted, pictures     *)
(* time out and processes end.                                               *)
THEOREM JpuPoolIsExact == JpuSpec => []JpuPoolExact
<1>1. JpuInv => JpuPoolExact
  BY DEF JpuInv, JpuMatched, JpuCounted, JpuTaking, JpuPoolExact
<1> QED
  BY <1>1, JpuInvHolds, PTL

(* As long as closes match, no two threads have the same core, and a core    *)
(* somebody has is marked with the file of that thread.                      *)
THEOREM JpuCoresAreExclusive == JpuSpec => []JpuCoresExclusive
<1>1. JpuInv => JpuCoresExclusive
  BY DEF JpuInv, JpuMatched, JpuExclusive, JpuCoresExclusive
<1> QED
  BY <1>1, JpuInvHolds, PTL

(* As long as closes match, a picture jpu_DecWaitForInt takes for done was   *)
(* finished by the core, or cut off by it when an encoder had no room, also  *)
(* when the interrupt_flag it took was an old one or nothing was started.    *)
THEOREM JpuPictureIsDone == JpuSpec => []JpuPictureDone
<1>1. JpuInv => JpuPictureDone
  BY DEF JpuInv, JpuMatched, JpuOwnPicture, JpuPictureDone
<1> QED
  BY <1>1, JpuInvHolds, PTL


-----------------------------------------------------------------------------
(* The post-processing cores.                                                *)

VppHolders == {t \in VppThreads : vpp_pc[t] # "idle"}
VppWithCore == {"setup", "wait", "clear", "free"}

-----------------------------------------------------------------------------
(* Counting.                                                                 *)

LEMMA AddOne ==
  ASSUME NEW S, IsFiniteSet(S), NEW x, x \notin S
  PROVE  IsFiniteSet(S \cup {x}) /\ Cardinality(S \cup {x}) = Cardinality(S) + 1
BY FS_AddElement, FS_CardinalityType

(* A set of at most two elements has no third.                               *)
LEMMA NoThird ==
  ASSUME NEW S, IsFiniteSet(S), Cardinality(S) <= 2,
         NEW a \in S, NEW b \in S, NEW c \in S, a # b, b # c, a # c
  PROVE  FALSE
<1>1. IsFiniteSet({a}) /\ Cardinality({a}) = 1
  BY FS_Singleton
<1>2. IsFiniteSet({a} \cup {b}) /\ Cardinality({a} \cup {b}) = 2
  <2>1. b \notin {a}
    OBVIOUS
  <2> QED
    BY <1>1, <2>1, AddOne
<1>3. Cardinality(({a} \cup {b}) \cup {c}) = 3
  <2>1. c \notin {a} \cup {b}
    OBVIOUS
  <2> QED
    BY <1>2, <2>1, AddOne
<1>4. Cardinality(({a} \cup {b}) \cup {c}) <= Cardinality(S)
  <2>1. (({a} \cup {b}) \cup {c}) \subseteq S
    OBVIOUS
  <2> QED
    BY <2>1, FS_Subset
<1>5. Cardinality(S) \in Nat
  BY FS_CardinalityType
<1> QED
  BY <1>3, <1>4, <1>5

-----------------------------------------------------------------------------
(* The pool.                                                                 *)

(* Semaphore and threads in a call make two; the map is the set of the cores *)
(* that threads have; and a thread that tests bit 1 is alone in that and     *)
(* with that core. The last is why the two tests need no lock: it found bit  *)
(* 0 set, so the second holder of the semaphore has core 0.                  *)
VppCounted == vpp_core_sem + Cardinality(VppHolders) = 2
VppMapExact ==
  /\ \A t \in VppThreads : vpp_core[t] # VppNone <=> vpp_pc[t] \in VppWithCore
  /\ \A t \in VppThreads : vpp_core[t] # VppNone => vpp_core[t] \in vpp_idle_bit_map
  /\ \A c \in vpp_idle_bit_map : \E t \in VppThreads : vpp_core[t] = c
VppBitOne ==
  \A t, u \in VppThreads :
    t # u /\ vpp_pc[t] = "bit1" => vpp_pc[u] # "bit1" /\ vpp_core[u] # 1
VppPoolInv ==
  VppTypeOK /\ VppCounted /\ VppMapExact /\ VppBitOne /\ VppCoresExclusive

LEMMA HoldersFinite ==
  IsFiniteSet(VppHolders)
BY VppAssumption, FS_Subset DEF VppHolders

(* Three threads are never in calls at the same time.                        *)
LEMMA NoThirdHolder ==
  ASSUME VppPoolInv,
         NEW a \in VppThreads, NEW b \in VppThreads, NEW c \in VppThreads,
         vpp_pc[a] # "idle", vpp_pc[b] # "idle", vpp_pc[c] # "idle",
         a # b, b # c, a # c
  PROVE  FALSE
<1>1. a \in VppHolders /\ b \in VppHolders /\ c \in VppHolders
  BY DEF VppHolders
<1>2. Cardinality(VppHolders) <= 2
  BY HoldersFinite, FS_CardinalityType DEF VppPoolInv, VppCounted, VppTypeOK
<1> QED
  BY <1>1, <1>2, HoldersFinite, NoThird

(* The invariant gives the property the runs check: with both bits set, or   *)
(* with bit 1 set under a thread that tests it, there would be three.        *)
LEMMA PoolInvSound ==
  ASSUME VppPoolInv
  PROVE  VppPoolSound
<1> USE DEF VppPoolInv, VppMapExact, VppWithCore
<1>1. ASSUME NEW t \in VppThreads, vpp_pc[t] = "map",
             vpp_idle_bit_map = VppCores
      PROVE  FALSE
  <2>1. 0 \in vpp_idle_bit_map /\ 1 \in vpp_idle_bit_map
    BY <1>1 DEF VppCores, VPP1684_CORE_MAX
  <2>2. PICK u \in VppThreads : vpp_core[u] = 0
    BY <2>1
  <2>3. PICK v \in VppThreads : vpp_core[v] = 1
    BY <2>1
  <2>4. 0 # VppNone /\ 1 # VppNone
    BY VppAssumption DEF VppCores, VPP1684_CORE_MAX
  <2>5. vpp_pc[u] \in VppWithCore /\ vpp_pc[v] \in VppWithCore
    BY <2>2, <2>3, <2>4
  <2>6. u # v /\ t # u /\ t # v
    BY <1>1, <2>2, <2>3, <2>5
  <2> QED
    BY <1>1, <2>5, <2>6, NoThirdHolder
<1>2. ASSUME NEW t \in VppThreads, vpp_pc[t] = "bit1", 1 \in vpp_idle_bit_map
      PROVE  FALSE
  <2>1. PICK u \in VppThreads : vpp_core[u] = 1
    BY <1>2
  <2>2. 1 # VppNone
    BY VppAssumption DEF VppCores, VPP1684_CORE_MAX
  <2>3. vpp_pc[u] \in VppWithCore
    BY <2>1, <2>2
  <2>4. t # u
    BY <1>2, <2>3
  <2> QED
    BY <1>2, <2>1, <2>4 DEF VppBitOne
<1> QED
  BY <1>1, <1>2 DEF VppPoolSound, VppCoreForSemaphore

-----------------------------------------------------------------------------
(* The steps that leave the pool alone.                                      *)

(* Threads that move without taking or giving back a core, and never to the  *)
(* test of bit 1.                                                            *)
LEMMA PoolKept ==
  ASSUME VppPoolInv, VppTypeOK', UNCHANGED <<vpp_pool, vpp_core>>,
         \A t \in VppThreads :
           \/ vpp_pc'[t] = vpp_pc[t]
           \/ vpp_pc[t] \in VppWithCore /\ vpp_pc'[t] \in VppWithCore
           \/ vpp_pc[t] = "map" /\ vpp_pc'[t] = "bit0"
  PROVE  VppPoolInv'
<1>1. VppHolders' = VppHolders
  BY DEF VppHolders, VppWithCore
<1>2. VppCounted'
  BY <1>1 DEF VppPoolInv, VppCounted, vpp_pool
<1>3. VppMapExact'
  BY DEF VppPoolInv, VppMapExact, vpp_pool, VppWithCore
<1>4. VppBitOne'
  BY DEF VppPoolInv, VppBitOne, VppWithCore
<1>5. VppCoresExclusive'
  BY DEF VppPoolInv, VppCoresExclusive
<1> QED
  BY <1>2, <1>3, <1>4, <1>5 DEF VppPoolInv

-----------------------------------------------------------------------------
(* Types.                                                                    *)

LEMMA TypeStep ==
  ASSUME VppPoolInv, [VppNext]_vpp_vars
  PROVE  VppTypeOK'
<1> USE DEF VppPoolInv, VppTypeOK, VppGoto, vpp_pool, vpp_hw, vpp_history
<1>1. ASSUME NEW t \in VppThreads, VppDown(t) PROVE VppTypeOK'
  BY <1>1 DEF VppDown
<1>2. ASSUME NEW t \in VppThreads, VppGetMap(t) PROVE VppTypeOK'
  BY <1>2 DEF VppGetMap
<1>3. ASSUME NEW t \in VppThreads, VppGetBit(t) PROVE VppTypeOK'
  <2>1. 0 \in VppCores /\ 1 \in VppCores
    BY DEF VppCores, VPP1684_CORE_MAX
  <2>2. ASSUME NEW c \in VppCores, NEW p \in {"bit1", "up"}, VppSetBit(t, c, p)
        PROVE  VppTypeOK'
    BY <2>2 DEF VppSetBit
  <2> QED
    BY <1>3, <2>1, <2>2 DEF VppGetBit
<1>4. ASSUME NEW t \in VppThreads, VppPrepareFails(t) PROVE VppTypeOK'
  BY <1>4 DEF VppPrepareFails
<1>5. ASSUME NEW t \in VppThreads, VppSetupDesc(t) PROVE VppTypeOK'
  <2>1. vpp_core[t] \in VppCores
    BY <1>5 DEF VppSetupDesc, VppMapExact, VppWithCore
  <2>2. CASE vpp_core[t] \in vpp_busy
    BY <1>5, <2>2 DEF VppSetupDesc
  <2>3. CASE vpp_core[t] \notin vpp_busy
    <3>1. vpp_busy' \subseteq VppCores
      BY <1>5, <2>1, <2>3 DEF VppSetupDesc
    <3>2. vpp_int' \in [VppCores -> BOOLEAN]
      BY <1>5, <2>3 DEF VppSetupDesc
    <3>3. UNCHANGED <<vpp_pool, got_event_vpp, vpp_core, vpp_ok, vpp_handler,
                      vpp_history>>
      BY <1>5 DEF VppSetupDesc
    <3>4. vpp_pc' = [vpp_pc EXCEPT ![t] = "wait"]
      BY <1>5, <2>3 DEF VppSetupDesc
    <3> QED
      BY <3>1, <3>2, <3>3, <3>4
  <2> QED
    BY <2>2, <2>3
<1>6. ASSUME NEW t \in VppThreads, VppWake(t) PROVE VppTypeOK'
  BY <1>6 DEF VppWake
<1>7. ASSUME NEW t \in VppThreads, VppTimeout(t) PROVE VppTypeOK'
  <2>1. vpp_core[t] \in VppCores
    BY <1>7 DEF VppTimeout, VppMapExact, VppWithCore
  <2> QED
    BY <1>7, <2>1 DEF VppTimeout
<1>8. ASSUME NEW t \in VppThreads, VppClear(t) PROVE VppTypeOK'
  BY <1>8 DEF VppClear
<1>9. ASSUME NEW t \in VppThreads, VppFree(t) PROVE VppTypeOK'
  BY <1>9 DEF VppFree
<1>10. ASSUME NEW c \in VppCores, VppDone(c) PROVE VppTypeOK'
  BY <1>10 DEF VppDone
<1>11. ASSUME VppHandler PROVE VppTypeOK'
  <2>1. ASSUME NEW c \in VppCores, VppIrq(c) PROVE VppTypeOK'
    BY <2>1 DEF VppIrq
  <2>2. CASE VppClearInt
    BY <2>2 DEF VppClearInt
  <2>3. CASE VppGotEvent
    BY <2>3 DEF VppGotEvent, VppIdle
  <2> QED
    BY <1>11, <2>1, <2>2, <2>3 DEF VppHandler
<1>12. ASSUME UNCHANGED vpp_vars PROVE VppTypeOK'
  BY <1>12 DEF vpp_vars
<1> QED
  BY <1>1, <1>2, <1>3, <1>4, <1>5, <1>6, <1>7, <1>8, <1>9, <1>10, <1>11, <1>12
     DEF VppNext, VppCall, VppStep

-----------------------------------------------------------------------------
(* The steps that take and give back.                                        *)

LEMMA DownPool ==
  ASSUME VppPoolInv, VppTypeOK', NEW t \in VppThreads, VppDown(t)
  PROVE  VppPoolInv'
<1> USE DEF VppPoolInv, VppDown, VppGoto
<1>1. vpp_pc' = [vpp_pc EXCEPT ![t] = "map"] /\ vpp_pc[t] = "idle"
  OBVIOUS
<1>2. VppCounted'
  <2>1. VppHolders' = VppHolders \cup {t} /\ t \notin VppHolders
    BY <1>1 DEF VppHolders, VppTypeOK
  <2>2. Cardinality(VppHolders') = Cardinality(VppHolders) + 1
    BY <2>1, HoldersFinite, AddOne
  <2>3. Cardinality(VppHolders) \in Nat
    BY HoldersFinite, FS_CardinalityType
  <2> QED
    BY <2>2, <2>3 DEF VppCounted, VppTypeOK
<1>3. VppMapExact'
  BY <1>1 DEF VppMapExact, VppWithCore, VppTypeOK
<1>4. VppBitOne'
  BY <1>1 DEF VppBitOne, VppTypeOK
<1>5. VppCoresExclusive'
  BY DEF VppCoresExclusive
<1> QED
  BY <1>2, <1>3, <1>4, <1>5

(* A clear bit: the core has no other thread, and the map and the threads    *)
(* stay in step.                                                             *)
LEMMA TakePool ==
  ASSUME VppPoolInv, VppTypeOK', NEW t \in VppThreads, NEW c \in VppCores,
         vpp_pc[t] \in {"bit0", "bit1"}, c \notin vpp_idle_bit_map,
         vpp_pc[t] = "bit0" => c = 0,
         vpp_pc' = [vpp_pc EXCEPT ![t] = "setup"],
         vpp_idle_bit_map' = vpp_idle_bit_map \cup {c},
         vpp_core' = [vpp_core EXCEPT ![t] = c],
         UNCHANGED vpp_core_sem
  PROVE  VppPoolInv'
<1> USE DEF VppPoolInv
<1>1. c # VppNone
  BY VppAssumption
<1>2. VppCounted'
  <2>1. VppHolders' = VppHolders
    BY DEF VppHolders, VppTypeOK
  <2> QED
    BY <2>1 DEF VppCounted
<1>3. VppMapExact'
  <2>1. vpp_core[t] = VppNone /\ vpp_core'[t] = c
    BY DEF VppMapExact, VppWithCore, VppTypeOK
  <2>2. \A u \in VppThreads \ {t} :
          vpp_core'[u] = vpp_core[u] /\ vpp_pc'[u] = vpp_pc[u]
    BY DEF VppTypeOK
  <2>3. vpp_pc'[t] = "setup"
    BY DEF VppTypeOK
  <2>4. \A u \in VppThreads :
          vpp_core'[u] # VppNone <=> vpp_pc'[u] \in VppWithCore
    BY <1>1, <2>1, <2>2, <2>3 DEF VppMapExact, VppWithCore
  <2>5. \A u \in VppThreads :
          vpp_core'[u] # VppNone => vpp_core'[u] \in vpp_idle_bit_map'
    BY <2>1, <2>2 DEF VppMapExact
  <2>6. ASSUME NEW d \in vpp_idle_bit_map'
        PROVE  \E u \in VppThreads : vpp_core'[u] = d
    <3>1. CASE d = c
      BY <2>1, <3>1
    <3>2. CASE d # c
      <4>1. PICK u \in VppThreads : vpp_core[u] = d
        BY <3>2 DEF VppMapExact
      <4>2. u # t
        BY <2>1, <4>1, VppAssumption DEF VppTypeOK
      <4> QED
        BY <2>2, <4>1, <4>2
    <3> QED
      BY <3>1, <3>2
  <2> QED
    BY <2>4, <2>5, <2>6 DEF VppMapExact
<1>4. VppBitOne'
  <2> SUFFICES ASSUME NEW a \in VppThreads, NEW b \in VppThreads, a # b,
                      vpp_pc'[a] = "bit1"
               PROVE  vpp_pc'[b] # "bit1" /\ vpp_core'[b] # 1
    BY DEF VppBitOne
  <2>1. a # t /\ vpp_pc[a] = "bit1"
    BY DEF VppTypeOK
  <2>2. vpp_pc[t] = "bit0" /\ c = 0
    BY <2>1 DEF VppBitOne
  <2> QED
    BY <2>1, <2>2 DEF VppBitOne, VppTypeOK
<1>5. VppCoresExclusive'
  BY DEF VppCoresExclusive, VppMapExact, VppTypeOK
<1> QED
  BY <1>2, <1>3, <1>4, <1>5

(* Bit 0 is set: the other holder of the semaphore has core 0.               *)
LEMMA BitOnePool ==
  ASSUME VppPoolInv, VppTypeOK', NEW t \in VppThreads,
         vpp_pc[t] = "bit0", 0 \in vpp_idle_bit_map,
         vpp_pc' = [vpp_pc EXCEPT ![t] = "bit1"],
         UNCHANGED <<vpp_pool, vpp_core>>
  PROVE  VppPoolInv'
<1> USE DEF VppPoolInv, vpp_pool
<1>1. PICK w \in VppThreads : vpp_core[w] = 0
  BY DEF VppMapExact
<1>2. 0 # VppNone
  BY VppAssumption DEF VppCores, VPP1684_CORE_MAX
<1>3. vpp_pc[w] \in VppWithCore
  BY <1>1, <1>2 DEF VppMapExact
<1>4. w # t /\ vpp_pc[w] # "idle"
  BY <1>3 DEF VppWithCore
<1>5. \A u \in VppThreads \ {t, w} : vpp_pc[u] = "idle"
  BY <1>4, NoThirdHolder
<1>6. VppCounted'
  <2>1. VppHolders' = VppHolders
    BY DEF VppHolders, VppTypeOK
  <2> QED
    BY <2>1 DEF VppCounted
<1>7. VppMapExact'
  BY DEF VppMapExact, VppWithCore, VppTypeOK
<1>8. VppBitOne'
  <2> SUFFICES ASSUME NEW a \in VppThreads, NEW b \in VppThreads, a # b,
                      vpp_pc'[a] = "bit1"
               PROVE  vpp_pc'[b] # "bit1" /\ vpp_core'[b] # 1
    BY DEF VppBitOne
  <2>1. a = t
    BY <1>3, <1>5 DEF VppTypeOK, VppWithCore
  <2>2. CASE b = w
    BY <1>1, <1>3, <1>4, <2>1, <2>2 DEF VppTypeOK, VppWithCore
  <2>3. CASE b # w
    <3>1. vpp_pc[b] = "idle"
      BY <1>5, <2>1, <2>3
    <3>2. vpp_core[b] = VppNone
      BY <3>1 DEF VppMapExact, VppWithCore
    <3>3. 1 # VppNone
      BY VppAssumption DEF VppCores, VPP1684_CORE_MAX
    <3> QED
      BY <2>1, <3>1, <3>2, <3>3 DEF VppTypeOK
  <2> QED
    BY <2>2, <2>3
<1>9. VppCoresExclusive'
  BY DEF VppCoresExclusive
<1> QED
  BY <1>6, <1>7, <1>8, <1>9

LEMMA FreePool ==
  ASSUME VppPoolInv, VppTypeOK', NEW t \in VppThreads, VppFree(t)
  PROVE  VppPoolInv'
<1> USE DEF VppPoolInv, VppGoto
<1>1. CASE vpp_pc[t] = "free"
  <2>1. /\ vpp_idle_bit_map' = vpp_idle_bit_map \ {vpp_core[t]}
        /\ vpp_core' = [vpp_core EXCEPT ![t] = VppNone]
        /\ vpp_pc' = [vpp_pc EXCEPT ![t] = "up"]
        /\ UNCHANGED vpp_core_sem
    BY <1>1 DEF VppFree
  <2>2. VppHolders' = VppHolders
    BY <1>1, <2>1 DEF VppHolders, VppTypeOK
  <2>3. VppCounted'
    BY <2>1, <2>2 DEF VppCounted
  <2>4. VppMapExact'
    BY <1>1, <2>1 DEF VppMapExact, VppWithCore, VppTypeOK, VppCoresExclusive
  <2>5. VppBitOne'
    BY <1>1, <2>1, VppAssumption
       DEF VppBitOne, VppTypeOK, VppCores, VPP1684_CORE_MAX
  <2>6. VppCoresExclusive'
    BY <2>1 DEF VppCoresExclusive, VppTypeOK
  <2> QED
    BY <2>3, <2>4, <2>5, <2>6
<1>2. CASE vpp_pc[t] = "up"
  <2>1. /\ vpp_core_sem' = vpp_core_sem + 1
        /\ vpp_pc' = [vpp_pc EXCEPT ![t] = "idle"]
        /\ UNCHANGED <<vpp_idle_bit_map, vpp_core>>
    BY <1>2 DEF VppFree
  <2>2. VppCounted'
    <3>1. VppHolders' = VppHolders \ {t} /\ t \in VppHolders
      BY <1>2, <2>1 DEF VppHolders, VppTypeOK
    <3>2. Cardinality(VppHolders') = Cardinality(VppHolders) - 1
      BY <3>1, HoldersFinite, FS_RemoveElement
    <3>3. Cardinality(VppHolders) \in Nat
      BY HoldersFinite, FS_CardinalityType
    <3> QED
      BY <2>1, <3>2, <3>3 DEF VppCounted, VppTypeOK
  <2>3. VppMapExact'
    BY <1>2, <2>1 DEF VppMapExact, VppWithCore, VppTypeOK
  <2>4. VppBitOne'
    BY <1>2, <2>1 DEF VppBitOne, VppTypeOK
  <2>5. VppCoresExclusive'
    BY <2>1 DEF VppCoresExclusive
  <2> QED
    BY <2>2, <2>3, <2>4, <2>5
<1> QED
  BY <1>1, <1>2 DEF VppFree

-----------------------------------------------------------------------------
(* The pool in every behaviour.                                              *)

LEMMA PoolInit ==
  VppInit => VppPoolInv
<1> SUFFICES ASSUME VppInit
             PROVE  VppPoolInv
  OBVIOUS
<1> USE DEF VppInit
<1>1. VppTypeOK
  BY DEF VppTypeOK, VppIdle, VPP1684_CORE_MAX
<1>2. VppCounted
  <2>1. VppHolders = {}
    BY DEF VppHolders
  <2> QED
    BY <2>1, FS_EmptySet DEF VppCounted, VPP1684_CORE_MAX
<1>3. VppMapExact /\ VppBitOne /\ VppCoresExclusive
  BY DEF VppMapExact, VppBitOne, VppCoresExclusive, VppWithCore
<1> QED
  BY <1>1, <1>2, <1>3 DEF VppPoolInv

LEMMA PoolNext ==
  ASSUME VppPoolInv, [VppNext]_vpp_vars
  PROVE  VppPoolInv'
<1>0. VppTypeOK'
  BY TypeStep
<1> USE DEF VppGoto
<1>1. ASSUME NEW t \in VppThreads, VppDown(t) PROVE VppPoolInv'
  BY <1>0, <1>1, DownPool
<1>2. ASSUME NEW t \in VppThreads, VppGetMap(t) PROVE VppPoolInv'
  <2>1. vpp_pc' = [vpp_pc EXCEPT ![t] = "bit0"]
    BY <1>2, PoolInvSound DEF VppGetMap, VppPoolSound, VppCoreForSemaphore
  <2> QED
    BY <1>0, <1>2, <2>1, PoolKept DEF VppGetMap, VppPoolInv, VppTypeOK
<1>3. ASSUME NEW t \in VppThreads, VppGetBit(t) PROVE VppPoolInv'
  <2>1. CASE vpp_pc[t] = "bit0" /\ VppSetBit(t, 0, "bit1")
    <3>1. CASE 0 \in vpp_idle_bit_map
      BY <1>0, <2>1, <3>1, BitOnePool DEF VppSetBit, vpp_pool
    <3>2. CASE 0 \notin vpp_idle_bit_map
      <4>1. 0 \in VppCores
        BY DEF VppCores, VPP1684_CORE_MAX
      <4> QED
        BY <1>0, <2>1, <3>2, <4>1, TakePool DEF VppSetBit
    <3> QED
      BY <3>1, <3>2
  <2>2. CASE vpp_pc[t] = "bit1" /\ VppSetBit(t, 1, "up")
    <3>1. 1 \notin vpp_idle_bit_map
      BY <2>2, PoolInvSound DEF VppPoolSound, VppCoreForSemaphore
    <3>2. 1 \in VppCores
      BY DEF VppCores, VPP1684_CORE_MAX
    <3> QED
      BY <1>0, <2>2, <3>1, <3>2, TakePool DEF VppSetBit
  <2> QED
    BY <1>3, <2>1, <2>2 DEF VppGetBit
<1>4. ASSUME NEW t \in VppThreads, VppPrepareFails(t) PROVE VppPoolInv'
  BY <1>0, <1>4, PoolKept
     DEF VppPrepareFails, VppPoolInv, VppTypeOK, VppWithCore
<1>5. ASSUME NEW t \in VppThreads, VppSetupDesc(t) PROVE VppPoolInv'
  BY <1>0, <1>5, PoolKept
     DEF VppSetupDesc, VppPoolInv, VppTypeOK, VppWithCore
<1>6. ASSUME NEW t \in VppThreads, VppWake(t) PROVE VppPoolInv'
  BY <1>0, <1>6, PoolKept DEF VppWake, VppPoolInv, VppTypeOK, VppWithCore
<1>7. ASSUME NEW t \in VppThreads, VppTimeout(t) PROVE VppPoolInv'
  BY <1>0, <1>7, PoolKept DEF VppTimeout, VppPoolInv, VppTypeOK, VppWithCore
<1>8. ASSUME NEW t \in VppThreads, VppClear(t) PROVE VppPoolInv'
  BY <1>0, <1>8, PoolKept DEF VppClear, VppPoolInv, VppTypeOK, VppWithCore
<1>9. ASSUME NEW t \in VppThreads, VppFree(t) PROVE VppPoolInv'
  BY <1>0, <1>9, FreePool
<1>10. ASSUME NEW c \in VppCores, VppDone(c) PROVE VppPoolInv'
  BY <1>0, <1>10, PoolKept DEF VppDone
<1>11. ASSUME VppHandler PROVE VppPoolInv'
  BY <1>0, <1>11, PoolKept DEF VppHandler, VppIrq, VppClearInt, VppGotEvent
<1>12. ASSUME UNCHANGED vpp_vars PROVE VppPoolInv'
  BY <1>0, <1>12, PoolKept DEF vpp_vars
<1> QED
  BY <1>1, <1>2, <1>3, <1>4, <1>5, <1>6, <1>7, <1>8, <1>9, <1>10, <1>11, <1>12
     DEF VppNext, VppCall, VppStep

(* Every variable has its type; the semaphore is never negative, and a batch *)
(* is only started and reset on a core.                                      *)
THEOREM VppTypesHold ==
  VppSpec => []VppTypeOK
<1>1. VppPoolInv => VppTypeOK
  BY DEF VppPoolInv
<1> QED
  BY PoolInit, PoolNext, <1>1, PTL DEF VppSpec

(* Of any number of threads, each that has passed the semaphore finds a core *)
(* and has it alone, although vpp_get_core_id tests the two bits one after   *)
(* the other without a lock.                                                 *)
THEOREM VppPoolIsSound ==
  VppSpec => []VppPoolSound
BY PoolInit, PoolNext, PoolInvSound, PTL DEF VppSpec

-----------------------------------------------------------------------------
(* Events and batches.                                                       *)

(* As long as no wait on a core timed out, an interrupt passes from the core *)
(* to its status, to the handler, to the event, and while it does the batch  *)
(* it is about is the one a thread waits for: each is there at most once,    *)
(* and a core on which nobody waits has none.                                *)
VppWaits(c) == \E t \in VppThreads : vpp_core[t] = c /\ vpp_pc[t] = "wait"
VppRanFor(c, ps) == \E t \in vpp_ran : vpp_core[t] = c /\ vpp_pc[t] \in ps
VppEventInv ==
  \A c \in VppCores \ vpp_late :
    /\ c \in vpp_busy => VppWaits(c)
    /\ vpp_int[c] =>
         /\ c \notin vpp_busy /\ ~got_event_vpp[c] /\ VppRanFor(c, {"wait"})
         /\ vpp_handler.core = c => vpp_handler.next = "clear"
    /\ vpp_handler.core = c =>
         c \notin vpp_busy /\ ~got_event_vpp[c] /\ VppRanFor(c, {"wait"})
    /\ got_event_vpp[c] =>
         c \notin vpp_busy /\ VppRanFor(c, {"wait", "clear"})
VppOkInv ==
  \A t \in vpp_ok :
    /\ vpp_pc[t] \in {"clear", "free"}
    /\ t \in vpp_ran \/ vpp_core[t] \in vpp_late
VppHandlerInv == vpp_handler.next # "none" => vpp_handler.core \in VppCores
VppBatchInv == VppEventInv /\ VppOkInv /\ VppHandlerInv

LEMMA BatchInit ==
  VppInit => VppBatchInv
BY VppAssumption DEF VppInit, VppIdle, VppBatchInv, VppEventInv, VppOkInv, VppHandlerInv

(* A thread that moves where no event is under way, and changes nothing else.*)
LEMMA BatchKept ==
  ASSUME VppPoolInv, VppBatchInv, NEW t \in VppThreads,
         \A u \in VppThreads \ {t} :
           vpp_pc'[u] = vpp_pc[u] /\ vpp_core'[u] = vpp_core[u],
         vpp_pc[t] \notin {"wait", "clear"}, t \notin vpp_ok',
         vpp_ok' \subseteq vpp_ok, vpp_ran \ {t} \subseteq vpp_ran',
         vpp_ran' \subseteq vpp_ran,
         UNCHANGED <<vpp_hw, got_event_vpp, vpp_handler, vpp_late>>
  PROVE  VppBatchInv'
<1> USE DEF VppBatchInv, vpp_hw
<1>1. VppEventInv'
  BY DEF VppEventInv, VppWaits, VppRanFor, VppPoolInv, VppTypeOK
<1>2. VppOkInv'
  BY DEF VppOkInv, VppPoolInv, VppTypeOK
<1>3. VppHandlerInv'
  BY DEF VppHandlerInv
<1> QED
  BY <1>1, <1>2, <1>3

LEMMA BatchNext ==
  ASSUME VppPoolInv, VppBatchInv, [VppNext]_vpp_vars
  PROVE  VppBatchInv'
<1> USE DEF VppGoto, vpp_pool, vpp_hw, vpp_history
<1>0. /\ vpp_pc \in [VppThreads -> {"idle", "map", "bit0", "bit1", "setup",
                                    "wait", "clear", "free", "up"}]
      /\ vpp_core \in [VppThreads -> VppCores \cup {VppNone}]
      /\ vpp_ok \subseteq VppThreads /\ vpp_ran \subseteq VppThreads
      /\ vpp_int \in [VppCores -> BOOLEAN]
      /\ got_event_vpp \in [VppCores -> BOOLEAN]
      /\ vpp_handler \in [core : VppCores \cup {VppNone},
                          next : {"none", "clear", "event"}]
      /\ VppNone \notin VppCores
  BY VppAssumption DEF VppPoolInv, VppTypeOK
<1>a. \A t, u \in VppThreads :
        t # u /\ vpp_core[t] \in VppCores => vpp_core[u] # vpp_core[t]
  BY <1>0 DEF VppPoolInv, VppCoresExclusive
<1>b. \A t \in VppThreads : vpp_core[t] \in VppCores <=> vpp_pc[t] \in VppWithCore
  BY <1>0 DEF VppPoolInv, VppMapExact
<1>c. VppEventInv /\ VppOkInv /\ VppHandlerInv
  BY DEF VppBatchInv
<1>1. ASSUME NEW t \in VppThreads, VppDown(t) PROVE VppBatchInv'
  BY <1>0, <1>1, <1>c, BatchKept DEF VppDown, VppOkInv
<1>2. ASSUME NEW t \in VppThreads, VppGetMap(t) PROVE VppBatchInv'
  BY <1>0, <1>2, <1>c, BatchKept DEF VppGetMap, VppOkInv
<1>3. ASSUME NEW t \in VppThreads, VppGetBit(t) PROVE VppBatchInv'
  <2>1. ASSUME NEW c \in {0, 1}, NEW p \in {"bit1", "up"}, VppSetBit(t, c, p),
               vpp_pc[t] \in {"bit0", "bit1"}
        PROVE  VppBatchInv'
    <3>1. \A u \in VppThreads \ {t} :
            vpp_pc'[u] = vpp_pc[u] /\ vpp_core'[u] = vpp_core[u]
      BY <1>0, <2>1 DEF VppSetBit
    <3>2. t \notin vpp_ok
      BY <1>c, <2>1 DEF VppOkInv
    <3> QED
      BY <2>1, <3>1, <3>2, BatchKept DEF VppSetBit
  <2> QED
    BY <1>3, <2>1 DEF VppGetBit
<1>4. ASSUME NEW t \in VppThreads, VppPrepareFails(t) PROVE VppBatchInv'
  BY <1>0, <1>4, <1>c, BatchKept DEF VppPrepareFails, VppOkInv
<1>5. ASSUME NEW t \in VppThreads, VppSetupDesc(t) PROVE VppBatchInv'
  <2>1. t \notin vpp_ok
    BY <1>5, <1>c DEF VppSetupDesc, VppOkInv
  <2>2. CASE vpp_core[t] \in vpp_busy
    BY <1>0, <1>5, <2>1, <2>2, BatchKept DEF VppSetupDesc
  <2>3. CASE vpp_core[t] \notin vpp_busy
    <3>1. /\ vpp_pc[t] = "setup" /\ vpp_core[t] \in VppCores
          /\ vpp_pc' = [vpp_pc EXCEPT ![t] = "wait"]
          /\ vpp_busy' = vpp_busy \cup {vpp_core[t]}
          /\ vpp_int' = [vpp_int EXCEPT ![vpp_core[t]] = FALSE]
          /\ UNCHANGED <<vpp_core, vpp_ok, vpp_ran, vpp_late, got_event_vpp,
                         vpp_handler>>
      BY <1>5, <1>b, <2>3 DEF VppSetupDesc, VppWithCore
    <3>2. VppOkInv' /\ VppHandlerInv'
      BY <1>0, <1>c, <2>1, <3>1 DEF VppOkInv, VppHandlerInv
    <3>3. VppEventInv'
      BY <1>0, <1>a, <1>c, <3>1 DEF VppEventInv, VppWaits, VppRanFor
    <3> QED
      BY <3>2, <3>3 DEF VppBatchInv
  <2> QED
    BY <2>2, <2>3
<1>6. ASSUME NEW t \in VppThreads, VppWake(t) PROVE VppBatchInv'
  <2>1. /\ vpp_pc[t] = "wait" /\ vpp_core[t] \in VppCores
        /\ got_event_vpp[vpp_core[t]]
        /\ vpp_pc' = [vpp_pc EXCEPT ![t] = "clear"]
        /\ vpp_ok' = vpp_ok \cup {t}
        /\ UNCHANGED <<vpp_core, vpp_ran, vpp_late, vpp_busy, vpp_int,
                       got_event_vpp, vpp_handler>>
    BY <1>6, <1>b DEF VppWake, VppWithCore
  <2>2. vpp_core[t] \notin vpp_late => t \in vpp_ran
    BY <1>0, <1>a, <1>c, <2>1 DEF VppEventInv, VppRanFor
  <2>3. VppOkInv' /\ VppHandlerInv'
    BY <1>0, <1>c, <2>1, <2>2 DEF VppOkInv, VppHandlerInv
  <2>4. VppEventInv'
    BY <1>0, <1>a, <1>c, <2>1 DEF VppEventInv, VppWaits, VppRanFor
  <2> QED
    BY <2>3, <2>4 DEF VppBatchInv
<1>7. ASSUME NEW t \in VppThreads, VppTimeout(t) PROVE VppBatchInv'
  <2>1. /\ vpp_pc[t] = "wait"
        /\ vpp_pc' = [vpp_pc EXCEPT ![t] = "clear"]
        /\ vpp_late' = vpp_late \cup {vpp_core[t]}
        /\ vpp_busy' \subseteq vpp_busy
        /\ UNCHANGED <<vpp_core, vpp_ok, vpp_ran, vpp_int, got_event_vpp,
                       vpp_handler>>
    BY <1>7 DEF VppTimeout
  <2>2. VppOkInv' /\ VppHandlerInv'
    BY <1>0, <1>c, <2>1 DEF VppOkInv, VppHandlerInv
  <2>3. VppEventInv'
    BY <1>0, <1>c, <2>1 DEF VppEventInv, VppWaits, VppRanFor
  <2> QED
    BY <2>2, <2>3 DEF VppBatchInv
<1>8. ASSUME NEW t \in VppThreads, VppClear(t) PROVE VppBatchInv'
  <2>1. /\ vpp_pc[t] = "clear" /\ vpp_core[t] \in VppCores
        /\ vpp_pc' = [vpp_pc EXCEPT ![t] = "free"]
        /\ got_event_vpp' = [got_event_vpp EXCEPT ![vpp_core[t]] = FALSE]
        /\ UNCHANGED <<vpp_core, vpp_ok, vpp_ran, vpp_late, vpp_busy, vpp_int,
                       vpp_handler>>
    BY <1>8, <1>b DEF VppClear, VppWithCore
  <2>2. VppOkInv' /\ VppHandlerInv'
    BY <1>0, <1>c, <2>1 DEF VppOkInv, VppHandlerInv
  <2>3. VppEventInv'
    BY <1>0, <1>a, <1>c, <2>1 DEF VppEventInv, VppWaits, VppRanFor
  <2> QED
    BY <2>2, <2>3 DEF VppBatchInv
<1>9. ASSUME NEW t \in VppThreads, VppFree(t) PROVE VppBatchInv'
  <2>1. CASE vpp_pc[t] = "free"
    BY <1>0, <1>9, <2>1, BatchKept DEF VppFree
  <2>2. CASE vpp_pc[t] = "up"
    BY <1>0, <1>9, <1>c, <2>2, BatchKept DEF VppFree, VppOkInv
  <2> QED
    BY <1>9, <2>1, <2>2 DEF VppFree
<1>10. ASSUME NEW c \in VppCores, VppDone(c) PROVE VppBatchInv'
  <2>1. /\ c \in vpp_busy
        /\ vpp_ran' = vpp_ran \cup {t \in VppThreads : /\ vpp_core[t] = c
                                                     /\ vpp_pc[t] = "wait"}
        /\ vpp_busy' = vpp_busy \ {c}
        /\ vpp_int' = [vpp_int EXCEPT ![c] = TRUE]
        /\ UNCHANGED <<vpp_pc, vpp_core, vpp_ok, vpp_late, got_event_vpp,
                       vpp_handler>>
    BY <1>10 DEF VppDone
  <2>2. VppOkInv' /\ VppHandlerInv'
    BY <1>0, <1>c, <2>1 DEF VppOkInv, VppHandlerInv
  <2>3. VppEventInv'
    BY <1>0, <1>c, <2>1 DEF VppEventInv, VppWaits, VppRanFor
  <2> QED
    BY <2>2, <2>3 DEF VppBatchInv
<1>11. ASSUME VppHandler PROVE VppBatchInv'
  <2> USE <1>0, <1>c DEF VppEventInv, VppOkInv, VppHandlerInv, VppBatchInv,
                         VppWaits, VppRanFor
  <2>1. ASSUME NEW c \in VppCores, VppIrq(c) PROVE VppBatchInv'
    BY <2>1 DEF VppIrq, VppIdle
  <2>2. CASE VppClearInt
    BY <2>2 DEF VppClearInt
  <2>3. CASE VppGotEvent
    BY <2>3 DEF VppGotEvent, VppIdle
  <2> QED
    BY <1>11, <2>1, <2>2, <2>3 DEF VppHandler
<1>12. ASSUME UNCHANGED vpp_vars PROVE VppBatchInv'
  BY <1>12, <1>c DEF vpp_vars, VppBatchInv, VppEventInv, VppOkInv, VppHandlerInv,
                     VppWaits, VppRanFor
<1> QED
  BY <1>1, <1>2, <1>3, <1>4, <1>5, <1>6, <1>7, <1>8, <1>9, <1>10, <1>11, <1>12
     DEF VppNext, VppCall, VppStep

(* A call that got_event_vpp woke has had its own batch carried out, unless  *)
(* a wait on its core timed out before: clearing the event after the wait    *)
(* and not before the start is only wrong then.                              *)
THEOREM VppBatchIsDone ==
  VppSpec => []VppBatchDone
<1>1. VppPoolInv /\ VppBatchInv => VppBatchDone
  BY DEF VppBatchInv, VppOkInv, VppBatchDone
<1> QED
  BY PoolInit, PoolNext, BatchInit, BatchNext, <1>1, PTL DEF VppSpec

=============================================================================
