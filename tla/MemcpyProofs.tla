---------------------------- MODULE MemcpyProofs ----------------------------
(* The safety of Memcpy, for any finite number of threads, slots, passes and *)
(* copies: slots are accounted for, sleepers are woken, and without          *)
(* time-outs a copy that returns 0 has moved its data.                       *)
EXTENDS Memcpy, NumberSetProofs, FiniteSetTheorems, TLAPS

Pcs == {"idle", "stage", "wait", "cdma", "lock", "run", "moved", "fail",
        "complete", "complete_fail", "last", "disable"}

-----------------------------------------------------------------------------
(* The invariant of the staging memory.                                      *)

(* Which kind of copy gets where.                                            *)
PcKinds ==
  \A t \in Threads :
    /\ pc[t] \in {"stage", "wait", "moved", "fail", "complete", "complete_fail"} =>
         Kind(t) \in Staged
    /\ pc[t] = "disable" => Kind(t) = "mmu"
    /\ pc[t] = "last" => Kind(t) = "c2c"
    /\ pc[t] # "idle" => copies[t] >= 1

(* The bits set are the slots of the copies under way, each of one copy.     *)
SlotsOwned ==
  \A d \in Staged :
    /\ bitmap[d] = {slot[t] : t \in Owners(d)}
    /\ \A t, u \in Owners(d) : slot[t] = slot[u] => t = u

(* While somebody sleeps, there is for every free slot a completion, or a    *)
(* thread that will signal one or look for a slot.                           *)
FreeOnes(d) == Slots \ bitmap[d]
OnTheWay(d) == {t \in Threads : /\ pc[t] \in {"stage", "complete", "complete_fail"}
                                /\ Kind(t) = d}
Sleeper(d) == \E t \in Threads : pc[t] = "wait" /\ Kind(t) = d
WakeupsSuffice ==
  \A d \in Staged :
    Sleeper(d) => Cardinality(FreeOnes(d)) <= stagemem_done[d] + Cardinality(OnTheWay(d))

StagingInv == TypeOK /\ PcKinds /\ SlotsOwned /\ WakeupsSuffice

-----------------------------------------------------------------------------
(* Facts about the operators.                                                *)

LEMMA KindType ==
  ASSUME TypeOK, NEW t \in Threads
  PROVE  Kind(t) \in Kinds /\ call[t].intr \in BOOLEAN
BY MemcpyAssumption DEF TypeOK, Kind

LEMMA GotoFacts ==
  ASSUME TypeOK, NEW t \in Threads, NEW p \in Pcs, Goto(t, p)
  PROVE  /\ pc' \in [Threads -> Pcs] /\ pc'[t] = p
         /\ \A u \in Threads : u # t => pc'[u] = pc[u]
BY DEF TypeOK, Goto, Pcs

(* A slot is found when one is free.                                         *)
LEMMA FirstFreeFound ==
  ASSUME NEW used \in SUBSET Slots, used # Slots
  PROVE  FirstFree(used) \in Slots \ used
<1> DEFINE I == Slots \ used
<1>1. I # {} /\ I \subseteq Nat /\ I \subseteq Slots
  <2>1. \A i \in Slots : i \in Nat
    BY MemcpyAssumption DEF Slots
  <2> QED
    BY <2>1
<1>2. PICK m \in I : \A i \in I : m <= i
  BY <1>1, LeastOf
<1>3. \A j \in 0 .. m - 1 : j \in used
  <2> SUFFICES ASSUME NEW j \in 0 .. m - 1, j \notin used
               PROVE  FALSE
    OBVIOUS
  <2>1. m \in Nat /\ m \in Slots
    BY <1>1
  <2>2. j \in Nat /\ j < m
    BY <2>1
  <2>3. j \in Slots
    BY <2>1, <2>2, MemcpyAssumption DEF Slots
  <2> QED
    BY <1>2, <2>1, <2>2, <2>3
<1> QED
  BY <1>2, <1>3 DEF FirstFree

(* The last pass of a copy returns, the others begin the next one.           *)
LEMMA NextPassFacts ==
  ASSUME TypeOK, PcKinds, NEW t \in Threads, pc[t] # "idle", NextPass(t)
  PROVE  /\ \E p \in {"stage", "cdma", "idle"} :
              /\ Goto(t, p)
              /\ p = "stage" => Kind(t) \in Staged
              /\ p = "cdma" => Kind(t) \notin Staged
         /\ pass' \in [Threads -> 1 .. Passes]
         /\ success' \subseteq Data
<1> USE MemcpyAssumption
<1>1. /\ pass[t] \in 1 .. Passes /\ copies[t] \in 1 .. MaxCopies
      /\ PassesOf(t) \in Nat /\ PassesOf(t) <= Passes
  BY DEF TypeOK, PcKinds, PassesOf
<1>2. CASE pass[t] < PassesOf(t)
  <2>1. /\ Goto(t, PassStart(Kind(t))) /\ UNCHANGED success
        /\ pass' = [pass EXCEPT ![t] = @ + 1]
    BY <1>2 DEF NextPass
  <2>2. PassStart(Kind(t)) \in {"stage", "cdma"}
        /\ (PassStart(Kind(t)) = "stage" <=> Kind(t) \in Staged)
    BY DEF PassStart
  <2>3. pass[t] + 1 \in 1 .. Passes
    BY <1>1, <1>2
  <2>4. pass' \in [Threads -> 1 .. Passes]
    BY <2>1, <2>3 DEF TypeOK
  <2> QED
    BY <2>1, <2>2, <2>4 DEF TypeOK
<1>3. CASE ~(pass[t] < PassesOf(t))
  <2>1. Goto(t, "idle") /\ UNCHANGED pass
        /\ success' = success \cup {<<t, copies[t], p>> : p \in 1 .. pass[t]}
    BY <1>3 DEF NextPass
  <2>2. {<<t, copies[t], p>> : p \in 1 .. pass[t]} \subseteq Data
    BY <1>1 DEF Data
  <2> QED
    BY <2>1, <2>2 DEF TypeOK
<1> QED
  BY <1>2, <1>3

LEMMA DataType ==
  ASSUME TypeOK, PcKinds, NEW t \in Threads, pc[t] # "idle"
  PROVE  DataOf(t) \in Data
BY MemcpyAssumption DEF TypeOK, PcKinds, DataOf, Data

(* A transfer returns to where its caller goes on, or, with an IOMMU, to the *)
(* end of the transfer.                                                      *)
LEMMA TransferReturnsFacts ==
  ASSUME TypeOK, NEW t \in Threads, NEW p \in Pcs, TransferReturns(t, p)
  PROVE  /\ cdma_mutex' \in {cdma_mutex, NoThread}
         /\ \E q \in Pcs : /\ Goto(t, q)
                           /\ q = IF Kind(t) = "mmu" THEN "disable" ELSE p
BY DEF TransferReturns, LockCdma, Pcs

-----------------------------------------------------------------------------
(* Types.                                                                    *)

LEMMA TypeStep ==
  ASSUME TypeOK, PcKinds, Next
  PROVE  TypeOK'
<1> USE MemcpyAssumption DEF locals, staging, engine
<1>p. Pcs = {"idle", "stage", "wait", "cdma", "lock", "run", "moved", "fail",
             "complete", "complete_fail", "last", "disable"}
  BY DEF Pcs
<1>g. ASSUME NEW t \in Threads, NEW p \in Pcs, Goto(t, p)
      PROVE  pc' \in [Threads -> Pcs]
  BY <1>g, GotoFacts
<1>k. \A t \in Threads : Kind(t) \in Kinds
  BY KindType
<1>1. ASSUME NEW t \in Threads, NEW c \in Calls, Memcpy(t, c)
      PROVE  TypeOK'
  <2>1. pc' \in [Threads -> Pcs]
    BY <1>1, <1>g, <1>p DEF Memcpy, PassStart
  <2>2. copies[t] + 1 \in 0 .. MaxCopies /\ 1 \in 1 .. Passes
    BY <1>1 DEF Memcpy, TypeOK
  <2>3. /\ call' \in [Threads -> Calls] /\ copies' \in [Threads -> 0 .. MaxCopies]
        /\ pass' \in [Threads -> 1 .. Passes]
    BY <1>1, <2>2 DEF Memcpy, TypeOK
  <2> QED
    BY <1>1, <1>p, <2>1, <2>3 DEF Memcpy, TypeOK
<1>2. ASSUME NEW t \in Threads, GetStagemem(t)
      PROVE  TypeOK'
  <2>1. pc[t] = "stage" /\ Kind(t) \in Staged /\ bitmap[Kind(t)] # Slots
        /\ bitmap[Kind(t)] \in SUBSET Slots
    BY <1>2 DEF GetStagemem, PcKinds, TypeOK
  <2>2. FirstFree(bitmap[Kind(t)]) \in Slots
    BY <2>1, FirstFreeFound
  <2>3. DataOf(t) \in Data
    BY <2>1, DataType
  <2>4. pc' \in [Threads -> Pcs]
    BY <1>2, <1>g, <1>p DEF GetStagemem
  <2>5. bitmap' \in [Staged -> SUBSET Slots] /\ slot' \in [Threads -> Slots]
    BY <1>2, <2>1, <2>2 DEF GetStagemem, TypeOK
  <2>6. stage' \in [Staged -> [Slots -> Data \cup {NoData}]]
    <3>1. \/ UNCHANGED stage
          \/ stage' = [stage EXCEPT ![Kind(t)][FirstFree(bitmap[Kind(t)])] = DataOf(t)]
      BY <1>2 DEF GetStagemem
    <3>2. stage[Kind(t)] \in [Slots -> Data \cup {NoData}]
      BY <2>1 DEF TypeOK
    <3>3. ASSUME NEW i \in Slots
          PROVE  [stage EXCEPT ![Kind(t)][i] = DataOf(t)]
                   \in [Staged -> [Slots -> Data \cup {NoData}]]
      BY <2>1, <2>3, <3>2 DEF TypeOK
    <3> QED
      BY <2>2, <3>1, <3>3 DEF TypeOK
  <2> QED
    BY <1>2, <1>p, <2>4, <2>5, <2>6 DEF GetStagemem, TypeOK
<1>3. ASSUME NEW t \in Threads, StagememFull(t) \/ LockTimeout(t) \/ LockMutex(t)
      PROVE  TypeOK'
  <2>1. pc' \in [Threads -> Pcs] /\ cdma_mutex' \in Threads \cup {NoThread}
    <3>1. CASE StagememFull(t)
      BY <1>g, <1>p, <3>1 DEF StagememFull, TypeOK
    <3>2. CASE LockMutex(t)
      BY <1>g, <1>p, <3>2 DEF LockMutex, TypeOK
    <3>3. CASE LockTimeout(t)
      <4>1. Failed(t) \in Pcs /\ TransferReturns(t, Failed(t))
        BY <3>3, <1>p DEF LockTimeout, Failed
      <4> QED
        BY <1>g, <4>1, TransferReturnsFacts DEF TypeOK
    <3> QED
      BY <1>3, <3>1, <3>2, <3>3
  <2>2. UNCHANGED <<locals, staging, cdma_lock, engine, cdma_done, dest, success>>
    BY <1>3 DEF StagememFull, LockTimeout, LockMutex
  <2> QED
    BY <1>p, <2>1, <2>2 DEF TypeOK
<1>4. ASSUME NEW t \in Threads, StagememRetry(t)
      PROVE  TypeOK'
  <2>1. Kind(t) \in Staged /\ stagemem_done[Kind(t)] \in Nat
    BY <1>4 DEF StagememRetry, PcKinds, TypeOK
  <2>2. stagemem_done' \in [Staged -> Nat] /\ pc' \in [Threads -> Pcs]
    BY <1>4, <1>g, <1>p, <2>1 DEF StagememRetry, TypeOK
  <2> QED
    BY <1>4, <1>p, <2>2 DEF StagememRetry, TypeOK
<1>5. ASSUME NEW t \in Threads, FreeStagemem(t) \/ FreeFailed(t)
      PROVE  TypeOK'
  <2>1. pc[t] \in {"moved", "fail"} /\ FreeBit(t)
    BY <1>5 DEF FreeStagemem, FreeFailed
  <2>2. Kind(t) \in Staged /\ DataOf(t) \in Data
    BY <2>1, DataType DEF PcKinds
  <2>3. bitmap' \in [Staged -> SUBSET Slots]
    BY <2>1, <2>2 DEF FreeBit, TypeOK
  <2>4. pc' \in [Threads -> Pcs]
    BY <1>5, <1>g, <1>p DEF FreeStagemem, FreeFailed
  <2>5. dest' \in [Data -> Data \cup {NoData}]
    <3>1. \/ UNCHANGED dest
          \/ dest' = [dest EXCEPT ![DataOf(t)] = stage["d2s"][slot[t]]]
      BY <1>5 DEF FreeStagemem, FreeFailed
    <3>2. stage["d2s"][slot[t]] \in Data \cup {NoData}
      BY DEF TypeOK, Staged
    <3> QED
      BY <2>2, <3>1, <3>2 DEF TypeOK
  <2>6. UNCHANGED <<locals, stagemem_done, stage, cdma_mutex, cdma_lock, engine,
                    cdma_done, success>>
    BY <1>5 DEF FreeStagemem, FreeFailed
  <2> QED
    BY <1>p, <2>3, <2>4, <2>5, <2>6 DEF TypeOK
<1>6. ASSUME NEW t \in Threads, Complete(t)
      PROVE  TypeOK'
  <2>1. pc[t] \in {"complete", "complete_fail"} /\ Kind(t) \in Staged
    BY <1>6 DEF Complete, PcKinds
  <2>2. stagemem_done' \in [Staged -> Nat]
    BY <1>6, <2>1 DEF Complete, Signal, TypeOK
  <2>3. /\ pc' \in [Threads -> Pcs] /\ pass' \in [Threads -> 1 .. Passes]
        /\ success' \subseteq Data
    <3>1. CASE NextPass(t)
      BY <1>g, <1>p, <2>1, <3>1, NextPassFacts
    <3>2. CASE Goto(t, "idle") /\ UNCHANGED <<pass, success>>
      BY <1>g, <1>p, <3>2 DEF TypeOK
    <3> QED
      BY <1>6, <3>1, <3>2 DEF Complete
  <2> QED
    BY <1>6, <1>p, <2>2, <2>3 DEF Complete, TypeOK
<1>7. ASSUME NEW t \in Threads, StartCdma(t)
      PROVE  TypeOK'
  <2>1. DataOf(t) \in Data
    BY <1>7, DataType DEF StartCdma
  <2>2. job' \in Jobs
    BY <1>7, <2>1, KindType DEF StartCdma, Jobs, TypeOK
  <2>3. pc' \in [Threads -> Pcs]
    BY <1>7, <1>g, <1>p DEF StartCdma
  <2> QED
    BY <1>7, <1>p, <2>2, <2>3 DEF StartCdma, TypeOK
<1>8. ASSUME NEW t \in Threads, TransferDone(t) \/ EngineTimeout(t)
      PROVE  TypeOK'
  <2>1. PICK p \in {Moved(t), Failed(t)} : TransferReturns(t, p)
    BY <1>8 DEF TransferDone, EngineTimeout
  <2>2. p \in Pcs
    BY <1>p, <2>1 DEF Moved, Failed
  <2>3. pc' \in [Threads -> Pcs] /\ cdma_mutex' \in Threads \cup {NoThread}
    BY <1>g, <2>1, <2>2, TransferReturnsFacts DEF TypeOK
  <2>4. cdma_done' \in Nat /\ status' \in BOOLEAN
    <3>1. \/ UNCHANGED <<status, cdma_done>>
          \/ cdma_done > 0 /\ cdma_done' = cdma_done - 1 /\ UNCHANGED status
          \/ status' = FALSE /\ UNCHANGED cdma_done
      BY <1>8 DEF TransferDone, EngineTimeout, WaitInterrupt, WaitPolling
    <3>2. cdma_done \in Nat /\ status \in BOOLEAN
      BY DEF TypeOK
    <3>3. cdma_done' \in Nat
      BY <3>1, <3>2
    <3>4. status' = status \/ status' = FALSE
      BY <3>1
    <3>5. status' \in BOOLEAN
      BY <3>2, <3>4
    <3> QED
      BY <3>3, <3>5
  <2>5. /\ cdma_lock' = "free"
        /\ UNCHANGED <<locals, staging, job, irq, dest, success>>
    BY <1>8 DEF TransferDone, EngineTimeout
  <2> QED
    BY <1>p, <2>3, <2>4, <2>5 DEF TypeOK
<1>9. ASSUME NEW t \in Threads, LastPass(t)
      PROVE  TypeOK'
  <2>1. /\ pc' \in [Threads -> Pcs] /\ pass' \in [Threads -> 1 .. Passes]
        /\ success' \subseteq Data
    BY <1>9, <1>g, <1>p, NextPassFacts DEF LastPass
  <2> QED
    BY <1>9, <1>p, <2>1 DEF LastPass, TypeOK
<1>10. ASSUME NEW t \in Threads, DisableSmmu(t)
       PROVE  TypeOK'
  <2>1. /\ pc' \in [Threads -> Pcs] /\ pass' \in [Threads -> 1 .. Passes]
        /\ success' \subseteq Data
    <3>1. CASE NextPass(t)
      BY <1>10, <1>g, <1>p, <3>1, NextPassFacts DEF DisableSmmu
    <3>2. CASE Goto(t, "idle") /\ UNCHANGED <<pass, success>>
      BY <1>g, <1>p, <3>2 DEF TypeOK
    <3> QED
      BY <1>10, <3>1, <3>2 DEF DisableSmmu
  <2> QED
    BY <1>10, <1>p, <2>1 DEF DisableSmmu, TypeOK
<1>11. ASSUME EngineDone
       PROVE  TypeOK'
  <2>1. job \in [kind : Kinds, intr : BOOLEAN, data : Data, slot : Slots]
    BY <1>11 DEF EngineDone, TypeOK, Jobs
  <2>2. job.data \in Data /\ job.slot \in Slots /\ job.intr \in BOOLEAN
    BY <2>1
  <2>3. stage["s2d"][job.slot] \in Data \cup {NoData}
    BY <2>2 DEF TypeOK, Staged
  <2>4. /\ \/ UNCHANGED dest
           \/ dest' = [dest EXCEPT ![job.data] = stage["s2d"][job.slot]]
           \/ dest' = [dest EXCEPT ![job.data] = job.data]
        /\ \/ UNCHANGED stage
           \/ stage' = [stage EXCEPT !["d2s"][job.slot] = job.data]
    BY <1>11 DEF EngineDone
  <2>5. dest' \in [Data -> Data \cup {NoData}]
    BY <2>2, <2>3, <2>4 DEF TypeOK
  <2>6. stage' \in [Staged -> [Slots -> Data \cup {NoData}]]
    BY <2>2, <2>4 DEF TypeOK, Staged
  <2>7. job' \in Jobs /\ status' \in BOOLEAN /\ irq' \in BOOLEAN
    BY <1>11, <2>2 DEF EngineDone, Jobs, TypeOK
  <2> QED
    BY <1>11, <2>5, <2>6, <2>7 DEF EngineDone, TypeOK
<1>12. ASSUME CdmaIrq \/ Arm9
       PROVE  TypeOK'
  <2>1. CASE CdmaIrq
    <3>1. cdma_done' \in Nat
      BY <2>1 DEF CdmaIrq, TypeOK
    <3>2. irq' \in BOOLEAN /\ status' \in BOOLEAN
      BY <2>1 DEF CdmaIrq
    <3> QED
      BY <2>1, <3>1, <3>2 DEF CdmaIrq, TypeOK
  <2>2. CASE Arm9
    <3>1. cdma_lock' \in {"free", "host", "arm9"}
      BY <2>2 DEF Arm9
    <3> QED
      BY <2>2, <3>1 DEF Arm9, TypeOK
  <2> QED
    BY <1>12, <2>1, <2>2
<1> QED
  BY <1>1, <1>2, <1>3, <1>4, <1>5, <1>6, <1>7, <1>8, <1>9, <1>10, <1>11, <1>12
  DEF Next, Step

-----------------------------------------------------------------------------
(* Where a thread of each kind is.                                           *)

LEMMA PcKindsStep ==
  ASSUME TypeOK, PcKinds, Next
  PROVE  PcKinds'
<1> USE MemcpyAssumption DEF locals, staging, engine
<1>a. ASSUME NEW t \in Threads, pc[t] # "idle", NEW p \in Pcs, Goto(t, p),
             UNCHANGED <<call, copies>>,
             p \in {"stage", "wait", "moved", "fail", "complete", "complete_fail"} =>
               Kind(t) \in Staged,
             p = "disable" => Kind(t) = "mmu",
             p = "last" => Kind(t) = "c2c"
      PROVE  PcKinds'
  <2>1. /\ pc'[t] = p
        /\ \A u \in Threads : u # t => pc'[u] = pc[u]
        /\ \A u \in Threads : Kind(u)' = Kind(u) /\ copies'[u] = copies[u]
    BY <1>a, GotoFacts DEF Kind
  <2> QED
    BY <1>a, <2>1 DEF PcKinds
<1>1. ASSUME NEW t \in Threads, NEW c \in Calls, Memcpy(t, c)
      PROVE  PcKinds'
  <2>1. PICK p \in {"stage", "cdma"} : Goto(t, p) /\ (p = "stage" => c.kind \in Staged)
    BY <1>1 DEF Memcpy, PassStart
  <2>2. /\ pc'[t] = p
        /\ \A u \in Threads : u # t => pc'[u] = pc[u]
    BY <2>1, GotoFacts DEF Pcs
  <2>3. /\ call'[t] = c /\ copies'[t] >= 1
        /\ \A u \in Threads : u # t => call'[u] = call[u] /\ copies'[u] = copies[u]
    BY <1>1 DEF Memcpy, TypeOK
  <2> QED
    BY <2>1, <2>2, <2>3 DEF PcKinds, Kind
<1>2. ASSUME NEW t \in Threads,
             \/ GetStagemem(t) \/ StagememFull(t) \/ StagememRetry(t)
             \/ FreeStagemem(t) \/ FreeFailed(t)
      PROVE  PcKinds'
  <2>1. /\ pc[t] \in {"stage", "wait", "moved", "fail"} /\ UNCHANGED <<call, copies>>
        /\ \E p \in {"stage", "wait", "cdma", "fail", "complete", "complete_fail"} :
             Goto(t, p)
    BY <1>2 DEF GetStagemem, StagememFull, StagememRetry, FreeStagemem, FreeFailed
  <2>2. Kind(t) \in Staged
    BY <2>1 DEF PcKinds
  <2> QED
    BY <1>a, <2>1, <2>2 DEF Pcs
<1>3. ASSUME NEW t \in Threads, Complete(t) \/ LastPass(t) \/ DisableSmmu(t)
      PROVE  PcKinds'
  <2>1. pc[t] # "idle" /\ UNCHANGED <<call, copies>>
        /\ (NextPass(t) \/ Goto(t, "idle"))
    BY <1>3 DEF Complete, LastPass, DisableSmmu
  <2>2. CASE NextPass(t)
    <3>1. PICK p \in {"stage", "cdma", "idle"} :
             Goto(t, p) /\ (p = "stage" => Kind(t) \in Staged)
      BY <2>1, <2>2, NextPassFacts
    <3> QED
      BY <1>a, <2>1, <3>1 DEF Pcs
  <2>3. CASE Goto(t, "idle")
    BY <1>a, <2>1, <2>3 DEF Pcs
  <2> QED
    BY <2>1, <2>2, <2>3
<1>4. ASSUME NEW t \in Threads, LockMutex(t) \/ StartCdma(t)
      PROVE  PcKinds'
  <2>1. /\ pc[t] # "idle" /\ UNCHANGED <<call, copies>>
        /\ \E p \in {"lock", "run", "idle"} : Goto(t, p)
    BY <1>4 DEF LockMutex, StartCdma
  <2> QED
    BY <1>a, <2>1 DEF Pcs
<1>5. ASSUME NEW t \in Threads, LockTimeout(t) \/ TransferDone(t) \/ EngineTimeout(t)
      PROVE  PcKinds'
  <2>1. pc[t] # "idle" /\ UNCHANGED <<call, copies>>
    BY <1>5 DEF LockTimeout, TransferDone, EngineTimeout
  <2>2. PICK p \in {Moved(t), Failed(t)} : TransferReturns(t, p)
    BY <1>5 DEF LockTimeout, TransferDone, EngineTimeout
  <2>3. Moved(t) \in Pcs /\ Failed(t) \in Pcs
    BY DEF Moved, Failed, Pcs
  <2>4. PICK q \in Pcs : Goto(t, q) /\ q = IF Kind(t) = "mmu" THEN "disable" ELSE p
    BY <2>2, <2>3, TransferReturnsFacts
  <2>5. Kind(t) \in Kinds
    BY KindType
  <2> QED
    BY <1>a, <2>1, <2>2, <2>4, <2>5 DEF Moved, Failed, Kinds, Staged
<1>6. ASSUME EngineDone \/ CdmaIrq \/ Arm9
      PROVE  PcKinds'
  <2>1. UNCHANGED <<pc, call, copies>>
    BY <1>6 DEF EngineDone, CdmaIrq, Arm9
  <2> QED
    BY <2>1 DEF PcKinds, Kind
<1> QED
  BY <1>1, <1>2, <1>3, <1>4, <1>5, <1>6 DEF Next, Step

-----------------------------------------------------------------------------
(* The steps, as the staging memory sees them.                               *)

Using == {"cdma", "lock", "run", "moved", "fail"}
Coming == {"stage", "complete", "complete_fail"}

(* A step of a transfer, of a pass without staging memory, of the card or of *)
(* the handler: no thread begins or ends to use, to wait for or to be about  *)
(* to look for a slot.                                                       *)
Elsewhere ==
  /\ UNCHANGED <<bitmap, stagemem_done, slot>>
  /\ \A d \in Staged : /\ UNCHANGED Owners(d)
                       /\ OnTheWay(d) \subseteq OnTheWay(d)'
                       /\ Sleeper(d)' => Sleeper(d)

LEMMA ElsewhereKeeps ==
  ASSUME TypeOK, NEW t \in Threads, NEW p \in Pcs, Goto(t, p), UNCHANGED call,
         UNCHANGED <<bitmap, stagemem_done, slot>>,
         Kind(t) \in Staged =>
           /\ pc[t] \in Using <=> p \in Using
           /\ pc[t] \notin Coming /\ p # "wait"
  PROVE  Elsewhere
<1>1. /\ pc'[t] = p
      /\ \A u \in Threads : u # t => pc'[u] = pc[u]
      /\ \A u \in Threads : Kind(u)' = Kind(u)
  BY GotoFacts DEF Kind
<1>2. ASSUME NEW d \in Staged
      PROVE  UNCHANGED Owners(d)
  BY <1>1 DEF Owners, Using
<1>3. ASSUME NEW d \in Staged
      PROVE  OnTheWay(d) \subseteq OnTheWay(d)'
  BY <1>1 DEF OnTheWay, Coming
<1>4. ASSUME NEW d \in Staged, Sleeper(d)'
      PROVE  Sleeper(d)
  BY <1>1, <1>4 DEF Sleeper
<1> QED
  BY <1>2, <1>3, <1>4 DEF Elsewhere

LEMMA ElsewhereStep ==
  ASSUME TypeOK, PcKinds,
         \/ \E t \in Threads : \/ \E c \in Calls : Memcpy(t, c)
                               \/ LockMutex(t) \/ StartCdma(t) \/ LockTimeout(t)
                               \/ TransferDone(t) \/ EngineTimeout(t)
                               \/ LastPass(t) \/ DisableSmmu(t)
         \/ EngineDone \/ CdmaIrq \/ Arm9
  PROVE  Elsewhere
<1> USE MemcpyAssumption DEF locals, staging, engine
<1>1. ASSUME NEW t \in Threads, NEW c \in Calls, Memcpy(t, c)
      PROVE  Elsewhere
  <2>1. PICK p \in {"stage", "cdma"} :
          Goto(t, p) /\ (p = "stage" <=> c.kind \in Staged)
    BY <1>1 DEF Memcpy, PassStart
  <2>2. /\ pc[t] = "idle" /\ pc'[t] = p
        /\ \A u \in Threads : u # t => pc'[u] = pc[u]
    BY <1>1, <2>1, GotoFacts DEF Pcs, Memcpy
  <2>3. /\ Kind(t)' = c.kind
        /\ \A u \in Threads : u # t => Kind(u)' = Kind(u)
    BY <1>1 DEF Memcpy, TypeOK, Kind
  <2>4. ASSUME NEW d \in Staged
        PROVE  UNCHANGED Owners(d)
    BY <2>1, <2>2, <2>3 DEF Owners
  <2>5. ASSUME NEW d \in Staged
        PROVE  OnTheWay(d) \subseteq OnTheWay(d)'
    BY <2>2, <2>3 DEF OnTheWay
  <2>6. ASSUME NEW d \in Staged, Sleeper(d)'
        PROVE  Sleeper(d)
    BY <2>1, <2>2, <2>3, <2>6 DEF Sleeper
  <2> QED
    BY <1>1, <2>4, <2>5, <2>6 DEF Elsewhere, Memcpy
<1>2. ASSUME NEW t \in Threads, LockMutex(t) \/ StartCdma(t)
      PROVE  Elsewhere
  <2>1. /\ UNCHANGED <<call, bitmap, stagemem_done, slot>>
        /\ pc[t] \in {"cdma", "lock"}
        /\ \E p \in {"lock", "run", "idle"} :
             Goto(t, p) /\ (p = "idle" => Kind(t) = "mmu")
    BY <1>2 DEF LockMutex, StartCdma
  <2> QED
    BY <2>1, ElsewhereKeeps DEF Pcs, Using, Coming, Staged
<1>3. ASSUME NEW t \in Threads, LockTimeout(t) \/ TransferDone(t) \/ EngineTimeout(t)
      PROVE  Elsewhere
  <2>1. /\ UNCHANGED <<call, bitmap, stagemem_done, slot>>
        /\ pc[t] \in {"lock", "run"}
    BY <1>3 DEF LockTimeout, TransferDone, EngineTimeout
  <2>2. PICK p \in {Moved(t), Failed(t)} : TransferReturns(t, p)
    BY <1>3 DEF LockTimeout, TransferDone, EngineTimeout
  <2>3. p \in Pcs /\ (Kind(t) \in Staged => p \in {"moved", "fail"})
    BY <2>2 DEF Moved, Failed, Pcs
  <2>4. PICK q \in Pcs : Goto(t, q) /\ q = IF Kind(t) = "mmu" THEN "disable" ELSE p
    BY <2>2, <2>3, TransferReturnsFacts
  <2>5. Kind(t) \in Staged => q \in {"moved", "fail"}
    BY <2>3, <2>4 DEF Staged
  <2> QED
    BY <2>1, <2>4, <2>5, ElsewhereKeeps DEF Using, Coming
<1>4. ASSUME NEW t \in Threads, LastPass(t) \/ DisableSmmu(t)
      PROVE  Elsewhere
  <2>1. /\ UNCHANGED <<call, bitmap, stagemem_done, slot>>
        /\ pc[t] \in {"last", "disable"}
        /\ NextPass(t) \/ Goto(t, "idle")
    BY <1>4 DEF LastPass, DisableSmmu
  <2>2. Kind(t) \notin Staged
    BY <2>1 DEF PcKinds, Staged
  <2>3. \E p \in Pcs : Goto(t, p)
    BY <2>1, NextPassFacts DEF Pcs
  <2> QED
    BY <2>1, <2>2, <2>3, ElsewhereKeeps
<1>5. ASSUME EngineDone \/ CdmaIrq \/ Arm9
      PROVE  Elsewhere
  <2>1. UNCHANGED <<pc, call, bitmap, stagemem_done, slot>>
    BY <1>5 DEF EngineDone, CdmaIrq, Arm9
  <2> QED
    BY <2>1 DEF Elsewhere, Owners, OnTheWay, Sleeper, Kind
<1> QED
  BY <1>1, <1>2, <1>3, <1>4, <1>5

(* The same for a thread t that takes a slot, sleeps, wakes, or gives it     *)
(* back: the other direction is not touched.                                 *)
LEMMA MoverFacts ==
  ASSUME TypeOK, NEW t \in Threads, NEW p \in Pcs, Goto(t, p), UNCHANGED call,
         NEW d \in Staged
  PROVE  /\ Owners(d)' = IF Kind(t) = d /\ p \in Using
                         THEN Owners(d) \cup {t} ELSE Owners(d) \ {t}
         /\ OnTheWay(d)' = IF Kind(t) = d /\ p \in Coming
                           THEN OnTheWay(d) \cup {t} ELSE OnTheWay(d) \ {t}
         /\ Sleeper(d)' /\ ~(Kind(t) = d /\ p = "wait") => Sleeper(d)
<1>1. /\ pc'[t] = p
      /\ \A u \in Threads : u # t => pc'[u] = pc[u]
      /\ \A u \in Threads : Kind(u)' = Kind(u)
  BY GotoFacts DEF Kind
<1>2. Owners(d)' = IF Kind(t) = d /\ p \in Using
                   THEN Owners(d) \cup {t} ELSE Owners(d) \ {t}
  BY <1>1 DEF Owners, Using
<1>3. OnTheWay(d)' = IF Kind(t) = d /\ p \in Coming
                     THEN OnTheWay(d) \cup {t} ELSE OnTheWay(d) \ {t}
  BY <1>1 DEF OnTheWay, Coming
<1>4. Sleeper(d)' /\ ~(Kind(t) = d /\ p = "wait") => Sleeper(d)
  BY <1>1 DEF Sleeper
<1> QED
  BY <1>2, <1>3, <1>4

LEMMA SlotsOwnedStep ==
  ASSUME TypeOK, PcKinds, SlotsOwned, Next
  PROVE  SlotsOwned'
<1> USE MemcpyAssumption DEF locals, staging, engine
<1>1. ASSUME UNCHANGED <<bitmap, slot>>, \A d \in Staged : UNCHANGED Owners(d)
      PROVE  SlotsOwned'
  BY <1>1 DEF SlotsOwned
<1>2. ASSUME Elsewhere
      PROVE  SlotsOwned'
  BY <1>1, <1>2 DEF Elsewhere
(* The slot taken was free, so it is that of no owner.                       *)
<1>3. ASSUME NEW t \in Threads, GetStagemem(t)
      PROVE  SlotsOwned'
  <2>0. PICK k \in Staged : k = Kind(t)
    BY <1>3 DEF GetStagemem, PcKinds
  <2> DEFINE i == FirstFree(bitmap[k])
  <2>1. /\ pc[t] = "stage" /\ bitmap[k] # Slots
        /\ bitmap[k] \in SUBSET Slots
    BY <1>3, <2>0 DEF GetStagemem, TypeOK
  <2>2. i \in Slots /\ i \notin bitmap[k]
    BY <2>1, FirstFreeFound
  <2>3. /\ bitmap' = [bitmap EXCEPT ![k] = bitmap[k] \cup {i}]
        /\ slot' = [slot EXCEPT ![t] = i] /\ UNCHANGED call
        /\ \E p \in {"cdma", "fail"} : Goto(t, p)
    BY <1>3, <2>0 DEF GetStagemem
  <2> HIDE DEF i
  <2>4. \A d \in Staged : Owners(d)' = IF d = k THEN Owners(d) \cup {t} ELSE Owners(d) \ {t}
    BY <2>0, <2>3, MoverFacts DEF Pcs, Using
  <2>5. \A d \in Staged : t \notin Owners(d)
    BY <2>1 DEF Owners
  <2>6. /\ slot'[t] = i /\ \A u \in Threads : u # t => slot'[u] = slot[u]
        /\ \A d \in Staged : Owners(d) \subseteq Threads
    BY <2>3 DEF TypeOK, Owners
  <2>7. ASSUME NEW d \in Staged, d # k
        PROVE  /\ bitmap'[d] = {slot'[u] : u \in Owners(d)'}
               /\ \A u, v \in Owners(d)' : slot'[u] = slot'[v] => u = v
    <3>1. Owners(d)' = Owners(d)
      <4>1. Owners(d)' = Owners(d) \ {t} /\ t \notin Owners(d)
        BY <2>4, <2>5, <2>7
      <4> QED
        BY <4>1
    <3>3. bitmap'[d] = bitmap[d]
      BY <2>3, <2>7 DEF TypeOK
    <3>2. \A u \in Owners(d) : slot'[u] = slot[u]
      BY <2>5, <2>6
    <3> QED
      BY <3>1, <3>2, <3>3 DEF SlotsOwned
  <2>8. /\ bitmap'[k] = {slot'[u] : u \in Owners(k)'}
        /\ \A u, v \in Owners(k)' : slot'[u] = slot'[v] => u = v
    <3>1. Owners(k)' = Owners(k) \cup {t} /\ bitmap'[k] = bitmap[k] \cup {i}
      BY <2>1, <2>3, <2>4 DEF TypeOK
    <3>2. \A u \in Owners(k) : slot'[u] = slot[u] /\ slot[u] \in bitmap[k]
      BY <2>1, <2>5, <2>6 DEF SlotsOwned
    <3>3. \A u, v \in Owners(k) : slot[u] = slot[v] => u = v
      BY <2>1 DEF SlotsOwned
    <3>4. bitmap[k] = {slot[u] : u \in Owners(k)}
      BY <2>1 DEF SlotsOwned
    <3>5. bitmap'[k] = {slot'[u] : u \in Owners(k)'}
      BY <2>6, <3>1, <3>2, <3>4
    <3>6. \A u, v \in Owners(k)' : slot'[u] = slot'[v] => u = v
      BY <2>2, <2>6, <3>1, <3>2, <3>3
    <3> QED
      BY <3>5, <3>6
  <2> QED
    BY <2>7, <2>8 DEF SlotsOwned
<1>4. ASSUME NEW t \in Threads, StagememFull(t) \/ StagememRetry(t) \/ Complete(t)
      PROVE  SlotsOwned'
  <2>1. /\ UNCHANGED <<bitmap, slot, call>>
        /\ pc[t] \in {"stage", "wait", "complete", "complete_fail"}
    BY <1>4 DEF StagememFull, StagememRetry, Complete
  <2>2. Kind(t) \in Staged
    BY <2>1 DEF PcKinds
  <2>3. PICK p \in {"stage", "wait", "idle"} : Goto(t, p)
    <3>1. CASE StagememFull(t) \/ StagememRetry(t)
      BY <3>1 DEF StagememFull, StagememRetry
    <3>2. CASE Complete(t)
      BY <2>1, <2>2, <3>2, NextPassFacts DEF Complete
    <3> QED
      BY <1>4, <3>1, <3>2
  <2>4. \A d \in Staged : UNCHANGED Owners(d)
    BY <2>1, <2>3, MoverFacts DEF Pcs, Using, Owners
  <2> QED
    BY <1>1, <2>1, <2>4
(* Nobody else has the slot given back.                                      *)
<1>5. ASSUME NEW t \in Threads, FreeStagemem(t) \/ FreeFailed(t)
      PROVE  SlotsOwned'
  <2>0. PICK k \in Staged : k = Kind(t)
    BY <1>5 DEF FreeStagemem, FreeFailed, PcKinds
  <2>1. /\ pc[t] \in {"moved", "fail"} /\ UNCHANGED <<slot, call>>
        /\ bitmap' = [bitmap EXCEPT ![k] = bitmap[k] \ {slot[t]}]
        /\ \E p \in {"complete", "complete_fail"} : Goto(t, p)
    BY <1>5, <2>0 DEF FreeStagemem, FreeFailed, FreeBit
  <2>2. t \in Owners(k)
    BY <2>0, <2>1 DEF Owners
  <2>3. \A d \in Staged : Owners(d)' = Owners(d) \ {t}
    BY <2>0, <2>1, MoverFacts DEF Pcs, Using
  <2>4. ASSUME NEW d \in Staged, d # k
        PROVE  /\ bitmap'[d] = {slot'[u] : u \in Owners(d)'}
               /\ \A u, v \in Owners(d)' : slot'[u] = slot'[v] => u = v
    <3>1. Owners(d)' = Owners(d) /\ bitmap'[d] = bitmap[d]
      BY <2>0, <2>1, <2>3, <2>4 DEF TypeOK, Owners
    <3> QED
      BY <2>1, <3>1 DEF SlotsOwned
  <2>5. /\ bitmap'[k] = {slot'[u] : u \in Owners(k)'}
        /\ \A u, v \in Owners(k)' : slot'[u] = slot'[v] => u = v
    <3>1. Owners(k)' = Owners(k) \ {t} /\ bitmap'[k] = bitmap[k] \ {slot[t]}
      BY <2>1, <2>2, <2>3 DEF TypeOK
    <3>2. /\ bitmap[k] = {slot[u] : u \in Owners(k)}
          /\ \A u, v \in Owners(k) : slot[u] = slot[v] => u = v
      BY <2>2 DEF SlotsOwned
    <3> QED
      BY <2>1, <2>2, <3>1, <3>2
  <2> QED
    BY <2>4, <2>5 DEF SlotsOwned
<1> QED
  BY <1>2, <1>3, <1>4, <1>5, ElsewhereStep DEF Next, Step

LEMMA Finite ==
  ASSUME NEW d \in Staged
  PROVE  /\ IsFiniteSet(FreeOnes(d)) /\ Cardinality(FreeOnes(d)) \in Nat
         /\ IsFiniteSet(OnTheWay(d)) /\ Cardinality(OnTheWay(d)) \in Nat
<1>1. IsFiniteSet(Slots)
  BY MemcpyAssumption, FS_Interval DEF Slots
<1>2. IsFiniteSet(FreeOnes(d))
  BY <1>1, FS_Subset DEF FreeOnes
<1>3. IsFiniteSet(OnTheWay(d))
  BY MemcpyAssumption, FS_Subset DEF OnTheWay
<1> QED
  BY <1>2, <1>3, FS_CardinalityType

LEMMA WakeupsSufficeStep ==
  ASSUME TypeOK, PcKinds, SlotsOwned, WakeupsSuffice, Next
  PROVE  WakeupsSuffice'
<1> USE MemcpyAssumption DEF locals, staging, engine
<1>t. \A d \in Staged : stagemem_done[d] \in Nat
  BY DEF TypeOK
<1>1. ASSUME Elsewhere, NEW d \in Staged, Sleeper(d)'
      PROVE  Cardinality(FreeOnes(d))' <= stagemem_done'[d] + Cardinality(OnTheWay(d))'
  <2>1. /\ FreeOnes(d)' = FreeOnes(d) /\ stagemem_done' = stagemem_done
        /\ OnTheWay(d) \subseteq OnTheWay(d)' /\ Sleeper(d)
    BY <1>1 DEF Elsewhere, FreeOnes
  <2>2. IsFiniteSet(OnTheWay(d)') /\ OnTheWay(d)' \subseteq Threads
    BY FS_Subset DEF OnTheWay
  <2>3. Cardinality(OnTheWay(d)) <= Cardinality(OnTheWay(d)')
        /\ Cardinality(OnTheWay(d)') \in Nat
    BY <2>1, <2>2, FS_Subset, FS_CardinalityType
  <2>4. Cardinality(FreeOnes(d)) <= stagemem_done[d] + Cardinality(OnTheWay(d))
    BY <2>1 DEF WakeupsSuffice
  <2> QED
    BY <1>t, <2>1, <2>3, <2>4, Finite
(* A step of one thread, in its own direction and in the other one.          *)
<1>2. ASSUME NEW t \in Threads, Kind(t) \in Staged, NEW p \in Pcs, Goto(t, p),
             UNCHANGED call, pc[t] # "idle",
             NEW d \in Staged, d # Kind(t), UNCHANGED <<bitmap[d], stagemem_done[d]>>,
             Sleeper(d)'
      PROVE  Cardinality(FreeOnes(d))' <= stagemem_done'[d] + Cardinality(OnTheWay(d))'
  <2>1. OnTheWay(d)' = OnTheWay(d) \ {t} /\ Sleeper(d)
    BY <1>2, MoverFacts
  <2>2. OnTheWay(d)' = OnTheWay(d) /\ FreeOnes(d)' = FreeOnes(d)
    BY <1>2, <2>1 DEF OnTheWay, FreeOnes
  <2> QED
    BY <1>2, <2>1, <2>2 DEF WakeupsSuffice
<1>3. ASSUME NEW t \in Threads, GetStagemem(t), NEW d \in Staged, Sleeper(d)'
      PROVE  Cardinality(FreeOnes(d))' <= stagemem_done'[d] + Cardinality(OnTheWay(d))'
  <2> DEFINE k == Kind(t)
             i == FirstFree(bitmap[k])
  <2>1. /\ pc[t] = "stage" /\ k \in Staged /\ bitmap[k] # Slots
        /\ bitmap[k] \in SUBSET Slots
    BY <1>3 DEF GetStagemem, PcKinds, TypeOK
  <2>2. i \in FreeOnes(k)
    BY <2>1, FirstFreeFound DEF FreeOnes
  <2>3. /\ bitmap' = [bitmap EXCEPT ![k] = bitmap[k] \cup {i}]
        /\ UNCHANGED <<call, stagemem_done>>
    BY <1>3 DEF GetStagemem
  <2> HIDE DEF i
  <2>4. PICK p \in {"cdma", "fail"} : Goto(t, p)
    BY <1>3 DEF GetStagemem
  <2>5. CASE d # k
    BY <1>2, <1>3, <2>1, <2>3, <2>4, <2>5 DEF Pcs, TypeOK
  <2>6. CASE d = k
    <3>1. OnTheWay(d)' = OnTheWay(d) \ {t} /\ Sleeper(d) /\ t \in OnTheWay(d)
      BY <1>3, <2>1, <2>3, <2>4, <2>6, MoverFacts DEF Pcs, Coming, OnTheWay
    <3>2. FreeOnes(d)' = FreeOnes(d) \ {i}
      BY <2>1, <2>3, <2>6 DEF FreeOnes, TypeOK
    <3>3. Cardinality(FreeOnes(d))' = Cardinality(FreeOnes(d)) - 1
      <4>1. IsFiniteSet(FreeOnes(d)) /\ i \in FreeOnes(d)
        BY <2>2, <2>6, Finite
      <4>2. Cardinality(FreeOnes(d) \ {i}) = Cardinality(FreeOnes(d)) - 1
        BY ONLY <4>1, FS_RemoveElement
      <4> QED
        BY ONLY <4>2, <3>2
    <3>4. Cardinality(OnTheWay(d))' = Cardinality(OnTheWay(d)) - 1
      <4>1. IsFiniteSet(OnTheWay(d)) /\ t \in OnTheWay(d)
        BY <3>1, Finite
      <4>2. Cardinality(OnTheWay(d) \ {t}) = Cardinality(OnTheWay(d)) - 1
        BY ONLY <4>1, FS_RemoveElement
      <4> QED
        BY ONLY <4>2, <3>1
    <3>5. Cardinality(FreeOnes(d)) <= stagemem_done[d] + Cardinality(OnTheWay(d))
      BY <3>1 DEF WakeupsSuffice
    <3> QED
      BY <1>t, <2>3, <3>3, <3>4, <3>5, Finite
  <2> QED
    BY <2>5, <2>6
<1>4. ASSUME NEW t \in Threads, StagememFull(t), NEW d \in Staged, Sleeper(d)'
      PROVE  Cardinality(FreeOnes(d))' <= stagemem_done'[d] + Cardinality(OnTheWay(d))'
  <2>1. /\ pc[t] = "stage" /\ Kind(t) \in Staged /\ bitmap[Kind(t)] = Slots
        /\ Goto(t, "wait") /\ UNCHANGED <<call, bitmap, stagemem_done>>
    BY <1>4 DEF StagememFull, PcKinds
  <2>2. CASE d # Kind(t)
    BY <1>2, <1>4, <2>1, <2>2 DEF Pcs
  <2>3. CASE d = Kind(t)
    <3>1. FreeOnes(d)' = {}
      BY <2>1, <2>3 DEF FreeOnes
    <3>2. Cardinality(FreeOnes(d)') = 0
      BY <3>1, FS_EmptySet
    <3>3. IsFiniteSet(OnTheWay(d)')
      BY FS_Subset DEF OnTheWay
    <3>4. Cardinality(OnTheWay(d)') \in Nat
      BY <3>3, FS_CardinalityType
    <3> QED
      BY <1>t, <2>1, <3>2, <3>4
  <2> QED
    BY <2>2, <2>3
<1>5. ASSUME NEW t \in Threads, StagememRetry(t), NEW d \in Staged, Sleeper(d)'
      PROVE  Cardinality(FreeOnes(d))' <= stagemem_done'[d] + Cardinality(OnTheWay(d))'
  <2>1. /\ pc[t] = "wait" /\ Kind(t) \in Staged /\ stagemem_done[Kind(t)] > 0
        /\ stagemem_done' = [stagemem_done EXCEPT ![Kind(t)] = @ - 1]
        /\ Goto(t, "stage") /\ UNCHANGED <<call, bitmap>>
    BY <1>5 DEF StagememRetry, PcKinds
  <2>2. CASE d # Kind(t)
    BY <1>2, <1>5, <2>1, <2>2 DEF Pcs, TypeOK
  <2>3. CASE d = Kind(t)
    <3>1. OnTheWay(d)' = OnTheWay(d) \cup {t} /\ t \notin OnTheWay(d)
      BY <2>1, <2>3, MoverFacts DEF Pcs, Coming, OnTheWay
    <3>2. Cardinality(OnTheWay(d))' = Cardinality(OnTheWay(d)) + 1
      BY <3>1, Finite, FS_AddElement
    <3>3. Sleeper(d)
      BY <2>1, <2>3 DEF Sleeper
    <3>4. Cardinality(FreeOnes(d)) <= stagemem_done[d] + Cardinality(OnTheWay(d))
      BY <3>3 DEF WakeupsSuffice
    <3>5. stagemem_done'[d] = stagemem_done[d] - 1 /\ FreeOnes(d)' = FreeOnes(d)
      BY <2>1, <2>3 DEF TypeOK, FreeOnes
    <3> QED
      BY <1>t, <3>2, <3>4, <3>5, Finite
  <2> QED
    BY <2>2, <2>3
<1>6. ASSUME NEW t \in Threads, FreeStagemem(t) \/ FreeFailed(t),
             NEW d \in Staged, Sleeper(d)'
      PROVE  Cardinality(FreeOnes(d))' <= stagemem_done'[d] + Cardinality(OnTheWay(d))'
  <2>1. /\ pc[t] \in {"moved", "fail"} /\ UNCHANGED <<call, stagemem_done>>
        /\ bitmap' = [bitmap EXCEPT ![Kind(t)] = bitmap[Kind(t)] \ {slot[t]}]
    BY <1>6 DEF FreeStagemem, FreeFailed, FreeBit
  <2>2. PICK p \in {"complete", "complete_fail"} : Goto(t, p)
    BY <1>6 DEF FreeStagemem, FreeFailed
  <2>3. Kind(t) \in Staged /\ t \in Owners(Kind(t))
    BY <2>1 DEF PcKinds, Owners
  <2>4. CASE d # Kind(t)
    BY <1>2, <1>6, <2>1, <2>2, <2>3, <2>4 DEF Pcs, TypeOK
  <2>5. CASE d = Kind(t)
    <3>1. OnTheWay(d)' = OnTheWay(d) \cup {t} /\ t \notin OnTheWay(d) /\ Sleeper(d)
      BY <1>6, <2>1, <2>2, <2>5, MoverFacts DEF Pcs, Coming, OnTheWay
    <3>2. slot[t] \in bitmap[d] /\ slot[t] \in Slots
      BY <2>3, <2>5 DEF SlotsOwned, TypeOK
    <3>3. FreeOnes(d)' = FreeOnes(d) \cup {slot[t]} /\ slot[t] \notin FreeOnes(d)
      BY <2>1, <2>3, <2>5, <3>2 DEF FreeOnes, TypeOK
    <3>4. /\ Cardinality(OnTheWay(d))' = Cardinality(OnTheWay(d)) + 1
          /\ Cardinality(FreeOnes(d))' = Cardinality(FreeOnes(d)) + 1
      BY <3>1, <3>3, Finite, FS_AddElement
    <3>5. Cardinality(FreeOnes(d)) <= stagemem_done[d] + Cardinality(OnTheWay(d))
      BY <3>1 DEF WakeupsSuffice
    <3> QED
      BY <1>t, <2>1, <3>4, <3>5, Finite
  <2> QED
    BY <2>4, <2>5
<1>7. ASSUME NEW t \in Threads, Complete(t), NEW d \in Staged, Sleeper(d)'
      PROVE  Cardinality(FreeOnes(d))' <= stagemem_done'[d] + Cardinality(OnTheWay(d))'
  <2>1. /\ pc[t] \in {"complete", "complete_fail"} /\ UNCHANGED <<call, bitmap>>
        /\ stagemem_done' = [stagemem_done EXCEPT ![Kind(t)] = @ + 1]
    BY <1>7 DEF Complete, Signal
  <2>2. Kind(t) \in Staged
    BY <2>1 DEF PcKinds
  <2>3. PICK p \in {"stage", "idle"} : Goto(t, p)
    BY <1>7, <2>1, <2>2, NextPassFacts DEF Complete
  <2>4. CASE d # Kind(t)
    BY <1>2, <1>7, <2>1, <2>2, <2>3, <2>4 DEF Pcs, TypeOK
  <2>5. CASE d = Kind(t)
    <3>1. /\ OnTheWay(d)' \in {OnTheWay(d) \cup {t}, OnTheWay(d) \ {t}}
          /\ t \in OnTheWay(d) /\ Sleeper(d)
      BY <1>7, <2>1, <2>3, <2>5, MoverFacts DEF Pcs, Coming, OnTheWay
    <3>2. OnTheWay(d)' = OnTheWay(d) \/ OnTheWay(d)' = OnTheWay(d) \ {t}
      BY <3>1
    <3>3. Cardinality(OnTheWay(d))' \in
            {Cardinality(OnTheWay(d)), Cardinality(OnTheWay(d)) - 1}
      BY <3>1, <3>2, Finite, FS_RemoveElement
    <3>4. Cardinality(FreeOnes(d)) <= stagemem_done[d] + Cardinality(OnTheWay(d))
      BY <3>1 DEF WakeupsSuffice
    <3>5. stagemem_done'[d] = stagemem_done[d] + 1 /\ FreeOnes(d)' = FreeOnes(d)
      BY <2>1, <2>5 DEF TypeOK, FreeOnes
    <3> QED
      BY <1>t, <3>3, <3>4, <3>5, Finite
  <2> QED
    BY <2>4, <2>5
<1>8. ASSUME NEW d \in Staged, Sleeper(d)'
      PROVE  Cardinality(FreeOnes(d))' <= stagemem_done'[d] + Cardinality(OnTheWay(d))'
  BY <1>1, <1>3, <1>4, <1>5, <1>6, <1>7, <1>8, ElsewhereStep DEF Next, Step
<1> QED
  BY <1>8 DEF WakeupsSuffice

-----------------------------------------------------------------------------
(* The staging memory is in order.                                           *)

LEMMA StagingInvInit ==
  ASSUME Init
  PROVE  StagingInv
<1> USE MemcpyAssumption
<1>1. TypeOK
  <2>1. (CHOOSE c \in Calls : TRUE) \in Calls
    OBVIOUS
  <2>2. 0 \in Slots /\ 1 \in 1 .. Passes /\ 0 \in 0 .. MaxCopies
    BY DEF Slots
  <2>3. call \in [Threads -> Calls]
    BY <2>1 DEF Init
  <2> QED
    BY <2>2, <2>3 DEF Init, TypeOK, Jobs
<1>2. PcKinds /\ \A d \in Staged : Owners(d) = {} /\ ~Sleeper(d)
  BY DEF Init, PcKinds, Owners, Sleeper
<1>3. SlotsOwned
  BY <1>2 DEF Init, SlotsOwned
<1> QED
  BY <1>1, <1>2, <1>3 DEF StagingInv, WakeupsSuffice

LEMMA StagingInvStep ==
  ASSUME StagingInv, [Next]_vars
  PROVE  StagingInv'
<1>1. CASE Next
  BY <1>1, TypeStep, PcKindsStep, SlotsOwnedStep, WakeupsSufficeStep DEF StagingInv
<1>2. CASE UNCHANGED vars
  BY <1>2 DEF StagingInv, TypeOK, PcKinds, SlotsOwned, WakeupsSuffice, Owners, OnTheWay,
     Sleeper, FreeOnes, Kind, vars, locals, staging, engine
<1> QED
  BY <1>1, <1>2

LEMMA StagingInvHolds == Spec => []StagingInv
BY StagingInvInit, StagingInvStep, PTL DEF Spec

(* Every variable keeps its type, on every path of a copy, also the one with *)
(* an error in bm_memcpy.c or a time-out in bm1684_cdma_transfer.            *)
THEOREM MemcpyTypesHold == Spec => []TypeOK
<1>1. StagingInv => TypeOK
  BY DEF StagingInv
<1> QED
  BY <1>1, StagingInvHolds, PTL

(* bmdrv_get_stagemem and bmdrv_free_stagemem neither lose nor share a slot, *)
(* for any number of slots and threads.                                      *)
THEOREM SlotsAreAccounted == Spec => []SlotsAccounted
<1>1. StagingInv => SlotsAccounted
  <2> SUFFICES ASSUME StagingInv, NEW d \in Staged
               PROVE  /\ bitmap[d] = {slot[t] : t \in Owners(d)}
                      /\ Cardinality(bitmap[d]) = Cardinality(Owners(d))
    BY DEF SlotsAccounted
  <2> DEFINE f == [t \in Owners(d) |-> slot[t]]
  <2>1. /\ bitmap[d] = {slot[t] : t \in Owners(d)}
        /\ \A t, u \in Owners(d) : slot[t] = slot[u] => t = u
    BY DEF StagingInv, SlotsOwned
  <2>2. f \in Bijection(Owners(d), bitmap[d])
    BY <2>1 DEF Bijection, Injection, Surjection, IsInjective
  <2>3. IsFiniteSet(Owners(d))
    BY MemcpyAssumption, FS_Subset DEF Owners
  <2> QED
    BY <2>1, <2>2, <2>3, FS_Bijection DEF ExistsBijection
<1> QED
  BY <1>1, StagingInvHolds, PTL

(* No thread sleeps on stagemem_done beside a free slot, unless a completion *)
(* is there or will come: that complete() follows the unlock loses no wakeup.*)
THEOREM NoWakeupIsLost == Spec => []NoLostWakeup
<1>1. StagingInv => NoLostWakeup
  <2> SUFFICES ASSUME StagingInv, NEW d \in Staged, bitmap[d] # Slots, Sleeper(d),
                      ~(stagemem_done[d] > 0)
               PROVE  \E t \in Threads : /\ pc[t] \in {"stage", "complete", "complete_fail"}
                                         /\ Kind(t) = d
    BY DEF NoLostWakeup, Sleeper
  <2>1. stagemem_done[d] = 0 /\ bitmap[d] \in SUBSET Slots
    BY DEF StagingInv, TypeOK
  <2>2. FreeOnes(d) # {}
    BY <2>1 DEF FreeOnes
  <2>3. Cardinality(FreeOnes(d)) # 0
    BY <2>2, Finite, FS_EmptySet
  <2>4. Cardinality(OnTheWay(d)) # 0
    BY <2>1, <2>3, Finite DEF StagingInv, WakeupsSuffice
  <2>5. OnTheWay(d) # {}
    BY <2>4, FS_EmptySet
  <2> QED
    BY <2>5 DEF OnTheWay
<1> QED
  BY <1>1, StagingInvHolds, PTL

-----------------------------------------------------------------------------
(* The engine, when the waits for it are long enough.                        *)

(* What the engine and its signals say of the transfer a thread waits for.   *)
Working(t) ==
  /\ job = [kind |-> Kind(t), intr |-> call[t].intr, data |-> DataOf(t),
            slot |-> slot[t]]
  /\ ~status /\ ~irq /\ cdma_done = 0
Raised(t) == job = NoJob /\ call[t].intr /\ status /\ irq /\ cdma_done = 0
Signalled(t) == job = NoJob /\ call[t].intr /\ ~status /\ ~irq /\ cdma_done = 1
Polled(t) == job = NoJob /\ ~call[t].intr /\ status /\ ~irq /\ cdma_done = 0
Quiet == job = NoJob /\ ~status /\ ~irq /\ cdma_done = 0

(* One thread at a time; it has TOP_CDMA_LOCK, and nothing is left over when *)
(* it is done.                                                               *)
OneTransfer ==
  /\ \A t \in Threads : pc[t] \in {"lock", "run", "disable"} => cdma_mutex = t
  /\ \A t \in Threads :
       pc[t] = "run" => /\ cdma_lock = "host"
                        /\ Working(t) \/ Raised(t) \/ Signalled(t) \/ Polled(t)
  /\ (\A t \in Threads : pc[t] # "run") => Quiet /\ cdma_lock # "host"

LEMMA JobIsNone ==
  ASSUME TypeOK, NEW t \in Threads
  PROVE  [kind |-> Kind(t), intr |-> call[t].intr, data |-> DataOf(t),
          slot |-> slot[t]] # NoJob
<1>1. Kind(t) # "none"
  BY KindType DEF Kinds
<1> QED
  BY <1>1 DEF NoJob

(* A step that does not meet the engine.                                     *)
LEMMA OneTransferKept ==
  ASSUME TypeOK, OneTransfer, NEW t \in Threads, NEW p \in Pcs, Goto(t, p),
         pc[t] # "run", p \notin {"run", "disable"}, p = "lock" => cdma_mutex' = t,
         cdma_mutex' = cdma_mutex \/ cdma_mutex = NoThread \/ cdma_mutex = t,
         UNCHANGED <<cdma_lock, engine, cdma_done>>,
         \A u \in Threads \ {t} : /\ call'[u] = call[u] /\ slot'[u] = slot[u]
                                  /\ copies'[u] = copies[u] /\ pass'[u] = pass[u]
  PROVE  OneTransfer'
<1> USE DEF engine
<1>1. /\ pc'[t] = p
      /\ \A u \in Threads : u # t => pc'[u] = pc[u]
  BY GotoFacts
<1>2. ASSUME NEW u \in Threads, pc'[u] \in {"lock", "run", "disable"}
      PROVE  cdma_mutex' = u
  <2>1. CASE u = t
    BY <1>1, <1>2, <2>1
  <2>2. CASE u # t
    BY <1>1, <1>2, <2>2, MemcpyAssumption DEF OneTransfer
  <2> QED
    BY <2>1, <2>2
<1>3. ASSUME NEW u \in Threads, pc'[u] = "run"
      PROVE  /\ cdma_lock' = "host"
             /\ (Working(u) \/ Raised(u) \/ Signalled(u) \/ Polled(u))'
  <2>1. u # t /\ pc[u] = "run"
    BY <1>1, <1>3
  <2>2. cdma_lock = "host" /\ (Working(u) \/ Raised(u) \/ Signalled(u) \/ Polled(u))
    BY <2>1 DEF OneTransfer
  <2>3. /\ call'[u] = call[u] /\ slot'[u] = slot[u] /\ DataOf(u)' = DataOf(u)
        /\ Kind(u)' = Kind(u)
    BY <2>1 DEF DataOf, Kind
  <2>4. Working(u)' = Working(u) /\ Raised(u)' = Raised(u)
        /\ Signalled(u)' = Signalled(u) /\ Polled(u)' = Polled(u)
    BY <2>3 DEF Working, Raised, Signalled, Polled
  <2> QED
    BY <2>2, <2>4
<1>4. ASSUME \A u \in Threads : pc'[u] # "run"
      PROVE  Quiet' /\ cdma_lock' # "host"
  <2>1. \A u \in Threads : pc[u] # "run"
    BY <1>1, <1>4
  <2> QED
    BY <2>1 DEF OneTransfer, Quiet
<1> QED
  BY <1>2, <1>3, <1>4 DEF OneTransfer

(* The one that runs is the only one.                                        *)
LEMMA OnlyRunner ==
  ASSUME OneTransfer, NEW t \in Threads, pc[t] = "run", NEW u \in Threads, u # t
  PROVE  pc[u] \notin {"lock", "run", "disable"}
BY DEF OneTransfer

LEMMA OneTransferStep ==
  ASSUME "engine" \notin Timeouts, TypeOK, PcKinds, OneTransfer, Next
  PROVE  OneTransfer'
<1> USE MemcpyAssumption DEF locals, staging, engine
<1>1. ASSUME NEW t \in Threads, NEW c \in Calls, Memcpy(t, c)
      PROVE  OneTransfer'
  <2>1. PICK p \in {"stage", "cdma"} : Goto(t, p)
    BY <1>1 DEF Memcpy, PassStart
  <2>2. /\ pc[t] = "idle" /\ UNCHANGED <<cdma_mutex, cdma_lock, engine, cdma_done, slot>>
        /\ \A u \in Threads \ {t} : /\ call'[u] = call[u] /\ copies'[u] = copies[u]
                                    /\ pass'[u] = pass[u]
    BY <1>1 DEF Memcpy, TypeOK
  <2> QED
    BY <2>1, <2>2, OneTransferKept DEF Pcs
<1>2. ASSUME NEW t \in Threads,
             \/ GetStagemem(t) \/ StagememFull(t) \/ StagememRetry(t)
             \/ FreeStagemem(t) \/ FreeFailed(t)
      PROVE  OneTransfer'
  <2>1. PICK p \in {"stage", "wait", "cdma", "fail", "complete", "complete_fail"} :
          Goto(t, p)
    BY <1>2 DEF GetStagemem, StagememFull, StagememRetry, FreeStagemem, FreeFailed
  <2>2. /\ pc[t] \in {"stage", "wait", "moved", "fail"}
        /\ UNCHANGED <<cdma_mutex, cdma_lock, engine, cdma_done, call, copies, pass>>
        /\ UNCHANGED slot \/ \E i : slot' = [slot EXCEPT ![t] = i]
    BY <1>2 DEF GetStagemem, StagememFull, StagememRetry, FreeStagemem, FreeFailed
  <2>3. \A u \in Threads \ {t} : slot'[u] = slot[u]
    BY <2>2 DEF TypeOK
  <2> QED
    BY <2>1, <2>2, <2>3, OneTransferKept DEF Pcs
<1>3. ASSUME NEW t \in Threads, Complete(t) \/ LastPass(t) \/ DisableSmmu(t)
      PROVE  OneTransfer'
  <2>1. /\ pc[t] \in {"complete", "complete_fail", "last", "disable"}
        /\ UNCHANGED <<cdma_lock, engine, cdma_done, call, copies, slot>>
        /\ \/ NextPass(t)
           \/ Goto(t, "idle") /\ UNCHANGED pass
        /\ \/ cdma_mutex' = cdma_mutex
           \/ pc[t] = "disable"
    <3>1. CASE Complete(t)
      BY <3>1 DEF Complete
    <3>2. CASE LastPass(t)
      BY <3>2 DEF LastPass
    <3>3. CASE DisableSmmu(t)
      BY <3>3 DEF DisableSmmu
    <3> QED
      BY <1>3, <3>1, <3>2, <3>3
  <2>2. cdma_mutex' = cdma_mutex \/ cdma_mutex = t
    BY <2>1 DEF OneTransfer
  <2>3. PICK p \in {"stage", "cdma", "idle"} : Goto(t, p)
    BY <2>1, NextPassFacts
  <2>4. \A u \in Threads \ {t} : pass'[u] = pass[u]
    BY <2>1 DEF NextPass, TypeOK
  <2> QED
    BY <2>1, <2>2, <2>3, <2>4, OneTransferKept DEF Pcs
<1>4. ASSUME NEW t \in Threads, LockMutex(t)
      PROVE  OneTransfer'
  <2>1. /\ pc[t] = "cdma" /\ cdma_mutex = NoThread
        /\ UNCHANGED <<cdma_lock, engine, cdma_done, call, copies, pass, slot>>
        /\ \E p \in {"lock", "idle"} : Goto(t, p) /\ (p = "lock" => cdma_mutex' = t)
    BY <1>4 DEF LockMutex
  <2> QED
    BY <2>1, OneTransferKept DEF Pcs
(* Nothing is left over from the transfer before.                            *)
<1>5. ASSUME NEW t \in Threads, StartCdma(t)
      PROVE  OneTransfer'
  <2>1. /\ pc[t] = "lock" /\ Goto(t, "run") /\ cdma_lock = "free" /\ cdma_lock' = "host"
        /\ job' = [kind |-> Kind(t), intr |-> call[t].intr, data |-> DataOf(t),
                   slot |-> slot[t]]
        /\ UNCHANGED <<call, copies, pass, slot, cdma_mutex, status, irq, cdma_done>>
    BY <1>5 DEF StartCdma
  <2>2. \A u \in Threads : pc[u] # "run"
    BY <2>1 DEF OneTransfer
  <2>3. /\ pc'[t] = "run"
        /\ \A u \in Threads : u # t => pc'[u] = pc[u]
    BY <2>1, GotoFacts DEF Pcs
  <2>4. Working(t)'
    BY <2>1, <2>2 DEF OneTransfer, Quiet, Working, Kind, DataOf
  <2>5. \A u \in Threads : pc'[u] \in {"lock", "run", "disable"} => cdma_mutex' = u
    BY <2>1, <2>3 DEF OneTransfer
  <2> QED
    BY <2>1, <2>2, <2>3, <2>4, <2>5 DEF OneTransfer
<1>6. ASSUME NEW t \in Threads, LockTimeout(t)
      PROVE  OneTransfer'
  <2>1. /\ pc[t] = "lock" /\ TransferReturns(t, Failed(t))
        /\ UNCHANGED <<call, copies, pass, slot, cdma_lock, engine, cdma_done>>
    BY <1>6 DEF LockTimeout
  <2>2. Failed(t) \in Pcs \ {"lock", "run", "disable"}
    BY DEF Failed, Pcs
  <2>3. PICK q \in Pcs : Goto(t, q) /\ q = IF Kind(t) = "mmu" THEN "disable" ELSE Failed(t)
    BY <2>1, <2>2, TransferReturnsFacts
  <2>4. cdma_mutex = t /\ (q = "disable" => cdma_mutex' = t)
    BY <2>1, <2>2, <2>3 DEF TransferReturns, LockCdma, OneTransfer
  <2>5. /\ pc'[t] = q
        /\ \A u \in Threads : u # t => pc'[u] = pc[u]
    BY <2>3, GotoFacts
  <2>6. \A u \in Threads : pc[u] # "run"
    BY <2>1, <2>4 DEF OneTransfer
  <2>7. \A u \in Threads : pc'[u] # "run"
    BY <2>2, <2>3, <2>5, <2>6
  <2>8. \A u \in Threads : pc'[u] \in {"lock", "run", "disable"} => cdma_mutex' = u
    BY <2>2, <2>3, <2>4, <2>5 DEF OneTransfer
  <2> QED
    BY <2>1, <2>6, <2>7, <2>8 DEF OneTransfer, Quiet
(* The wait ends when the engine is done and its interrupt was handled.      *)
<1>7. ASSUME NEW t \in Threads, TransferDone(t)
      PROVE  OneTransfer'
  <2>1. /\ pc[t] = "run" /\ TransferReturns(t, Moved(t)) /\ cdma_lock' = "free"
        /\ UNCHANGED <<call, copies, pass, slot, job, irq>>
        /\ WaitInterrupt(t) \/ WaitPolling(t)
    BY <1>7 DEF TransferDone
  <2>2. Moved(t) \in Pcs \ {"lock", "run", "disable"}
    BY DEF Moved, Pcs
  <2>3. PICK q \in Pcs : Goto(t, q) /\ q = IF Kind(t) = "mmu" THEN "disable" ELSE Moved(t)
    BY <2>1, <2>2, TransferReturnsFacts
  <2>4. cdma_mutex = t /\ (q = "disable" => cdma_mutex' = t)
    BY <2>1, <2>2, <2>3 DEF TransferReturns, LockCdma, OneTransfer
  <2>5. /\ pc'[t] = q
        /\ \A u \in Threads : u # t => pc'[u] = pc[u]
    BY <2>3, GotoFacts
  <2>6. \A u \in Threads : pc'[u] # "run"
    BY <2>1, <2>2, <2>3, <2>5, OnlyRunner
  <2>7. \A u \in Threads : pc'[u] \in {"lock", "run", "disable"} => cdma_mutex' = u
    BY <2>2, <2>3, <2>4, <2>5 DEF OneTransfer
  <2>8. Working(t) \/ Raised(t) \/ Signalled(t) \/ Polled(t)
    BY <2>1 DEF OneTransfer
  <2>9. Quiet'
    <3>1. CASE WaitInterrupt(t)
      <4>1. Signalled(t)
        BY <2>8, <3>1 DEF WaitInterrupt, Working, Raised, Polled
      <4> QED
        BY <2>1, <3>1, <4>1 DEF WaitInterrupt, Signalled, Quiet
    <3>2. CASE WaitPolling(t)
      <4>1. Polled(t)
        BY <2>8, <3>2 DEF WaitPolling, Working, Raised, Signalled
      <4> QED
        BY <2>1, <3>2, <4>1 DEF WaitPolling, Polled, Quiet
    <3> QED
      BY <2>1, <3>1, <3>2
  <2> QED
    BY <2>1, <2>6, <2>7, <2>9 DEF OneTransfer
<1>8. ASSUME NEW t \in Threads, EngineTimeout(t)
      PROVE  OneTransfer'
  BY <1>8 DEF EngineTimeout
<1>9. ASSUME EngineDone
      PROVE  OneTransfer'
  <2>1. /\ job # NoJob /\ job' = NoJob
        /\ status' = TRUE /\ irq' = (irq \/ job.intr)
        /\ UNCHANGED <<pc, locals, cdma_mutex, cdma_lock, cdma_done>>
    BY <1>9 DEF EngineDone
  <2>2. PICK t \in Threads : pc[t] = "run"
    BY <2>1 DEF OneTransfer, Quiet
  <2>3. Working(t)
    BY <2>1, <2>2 DEF OneTransfer, Raised, Signalled, Polled
  <2>4. job.intr = call[t].intr /\ call[t].intr \in BOOLEAN
    BY <2>3, KindType DEF Working
  <2>5. CASE call[t].intr
    <3>1. Raised(t)'
      BY <2>1, <2>3, <2>4, <2>5 DEF Working, Raised
    <3> QED
      BY <2>1, <2>2, <3>1, OnlyRunner DEF OneTransfer
  <2>6. CASE ~call[t].intr
    <3>1. Polled(t)'
      BY <2>1, <2>3, <2>4, <2>6 DEF Working, Polled
    <3> QED
      BY <2>1, <2>2, <3>1, OnlyRunner DEF OneTransfer
  <2> QED
    BY <2>4, <2>5, <2>6
<1>10. ASSUME CdmaIrq
       PROVE  OneTransfer'
  <2>1. /\ irq /\ irq' = FALSE /\ status' = FALSE /\ cdma_done' = cdma_done + 1
        /\ UNCHANGED <<pc, locals, cdma_mutex, cdma_lock, job>>
    BY <1>10 DEF CdmaIrq
  <2>2. PICK t \in Threads : pc[t] = "run"
    BY <2>1 DEF OneTransfer, Quiet
  <2>3. Raised(t)
    BY <2>1, <2>2 DEF OneTransfer, Working, Signalled, Polled
  <2>4. Signalled(t)'
    BY <2>1, <2>3 DEF Raised, Signalled
  <2> QED
    BY <2>1, <2>2, <2>4, OnlyRunner DEF OneTransfer
<1>11. ASSUME Arm9
       PROVE  OneTransfer'
  <2>1. /\ cdma_lock # "host" /\ cdma_lock' # "host"
        /\ UNCHANGED <<pc, locals, cdma_mutex, job, status, irq, cdma_done>>
    BY <1>11 DEF Arm9
  <2>2. \A t \in Threads : pc[t] # "run"
    BY <2>1 DEF OneTransfer
  <2> QED
    BY <2>1, <2>2 DEF OneTransfer, Quiet
<1> QED
  BY <1>1, <1>2, <1>3, <1>4, <1>5, <1>6, <1>7, <1>8, <1>9, <1>10, <1>11 DEF Next, Step

LEMMA OneTransferHolds ==
  ASSUME "engine" \notin Timeouts
  PROVE  Spec => [](StagingInv /\ OneTransfer)
<1>1. Init => OneTransfer
  BY DEF Init, OneTransfer, Quiet
<1>2. StagingInv /\ OneTransfer /\ [Next]_vars => OneTransfer'
  <2> SUFFICES ASSUME StagingInv, OneTransfer, [Next]_vars
               PROVE  OneTransfer'
    OBVIOUS
  <2>1. CASE Next
    BY <2>1, OneTransferStep DEF StagingInv
  <2>2. CASE UNCHANGED vars
    BY <2>2 DEF OneTransfer, Working, Raised, Signalled, Polled, Quiet, Kind, DataOf,
       vars, locals, engine
  <2> QED
    BY <2>1, <2>2
<1> QED
  BY <1>1, <1>2, StagingInvInit, StagingInvStep, PTL DEF Spec

(* When the waits in bm1684_cdma_transfer are long enough, the ARM9 never    *)
(* has TOP_CDMA_LOCK while the engine works for the host.                    *)
THEOREM EngineIsExclusive ==
  ASSUME "engine" \notin Timeouts
  PROVE  Spec => []EngineExclusive
<1>1. StagingInv /\ OneTransfer => EngineExclusive
  BY DEF OneTransfer, Quiet, EngineExclusive
<1> QED
  BY <1>1, OneTransferHolds, PTL

-----------------------------------------------------------------------------
(* The data, when every wait is long enough for a copy to learn of its end:  *)
(* those for the engine, and with an IOMMU, whose copies look at no return   *)
(* value, also those for TOP_CDMA_LOCK.                                      *)
LongEnough ==
  /\ "engine" \notin Timeouts
  /\ "lock" \in Timeouts => \A c \in Calls : c.kind # "mmu"

(* What a copy under way has moved: all earlier passes are at their          *)
(* destination; the slot holds the data of the present pass until the engine *)
(* has fetched it, or from when the engine has brought it.                   *)
Arrived(y) == dest[y] = y
Fetched(t) == pc[t] = "run" /\ job = NoJob
PassSound(t) ==
  /\ \A p \in 1 .. pass[t] - 1 : Arrived(<<t, copies[t], p>>)
  /\ Kind(t) = "s2d" /\ pc[t] \in {"cdma", "lock", "run"} =>
       stage["s2d"][slot[t]] = DataOf(t)
  /\ Kind(t) = "d2s" /\ (pc[t] = "moved" \/ Fetched(t)) =>
       stage["d2s"][slot[t]] = DataOf(t)
  /\ Kind(t) # "d2s" /\ (pc[t] \in {"moved", "last", "disable"} \/ Fetched(t)) =>
       Arrived(DataOf(t))
  /\ pc[t] = "complete" => Arrived(DataOf(t))

DataInv ==
  /\ \A t \in Threads : pc[t] # "idle" => PassSound(t)
  /\ CopySound

(* Data that has arrived stays.                                              *)
Keeps == \A y \in Data : Arrived(y) => Arrived(y)'

(* A step of another thread, of the card or of the handler.                  *)
LEMMA BystanderSound ==
  ASSUME TypeOK, PcKinds, NEW u \in Threads, pc[u] # "idle", PassSound(u),
         pc'[u] = pc[u], call'[u] = call[u], copies'[u] = copies[u],
         pass'[u] = pass[u], slot'[u] = slot[u], Keeps,
         Kind(u) \in Staged /\ u \in Owners(Kind(u)) =>
           stage'[Kind(u)][slot[u]] = stage[Kind(u)][slot[u]],
         pc[u] = "run" /\ job' = NoJob => job = NoJob
  PROVE  PassSound(u)'
<1>1. Kind(u)' = Kind(u) /\ DataOf(u)' = DataOf(u) /\ DataOf(u) \in Data
  BY DataType DEF Kind, DataOf
<1>2. \A p \in 1 .. pass[u] - 1 : <<u, copies[u], p>> \in Data
  BY MemcpyAssumption DEF TypeOK, PcKinds, Data
<1>3. \A p \in 1 .. pass[u] - 1 : Arrived(<<u, copies[u], p>>)'
  BY <1>2 DEF PassSound, Keeps
<1>4. Fetched(u)' => Fetched(u)
  BY DEF Fetched
<1>5. Kind(u)' = "s2d" /\ pc'[u] \in {"cdma", "lock", "run"} =>
        stage'["s2d"][slot'[u]] = DataOf(u)'
  BY <1>1 DEF PassSound, Owners, Staged
<1>6. Kind(u)' = "d2s" /\ (pc'[u] = "moved" \/ Fetched(u)') =>
        stage'["d2s"][slot'[u]] = DataOf(u)'
  <2> SUFFICES ASSUME Kind(u)' = "d2s", pc'[u] = "moved" \/ Fetched(u)'
               PROVE  stage'["d2s"][slot'[u]] = DataOf(u)'
    OBVIOUS
  <2>1. pc[u] \in {"moved", "run"} /\ (pc[u] = "moved" \/ Fetched(u))
    BY <1>4 DEF Fetched
  <2>2. Kind(u) \in Staged /\ u \in Owners(Kind(u))
    BY <1>1, <2>1 DEF Owners, Staged
  <2> QED
    BY <1>1, <2>1, <2>2 DEF PassSound
<1>7. Kind(u)' # "d2s" /\ (pc'[u] \in {"moved", "last", "disable"} \/ Fetched(u)') =>
        Arrived(DataOf(u))'
  BY <1>1, <1>4 DEF PassSound, Keeps, Arrived
<1>8. pc'[u] = "complete" => Arrived(DataOf(u))'
  BY <1>1 DEF PassSound, Keeps, Arrived
<1> QED
  BY <1>3, <1>5, <1>6, <1>7, <1>8 DEF PassSound

(* Owners of the same direction have different slots.                        *)
LEMMA OtherSlot ==
  ASSUME SlotsOwned, NEW d \in Staged, NEW t \in Owners(d), NEW u \in Owners(d), u # t
  PROVE  slot[u] # slot[t]
BY DEF SlotsOwned

(* A pass whose data has arrived: the next one begins, or the copy returns.  *)
LEMMA NextPassSound ==
  ASSUME TypeOK, PcKinds, CopySound, NEW t \in Threads, pc[t] # "idle", PassSound(t),
         Arrived(DataOf(t)), NextPass(t), UNCHANGED <<call, copies, dest>>
  PROVE  (pc'[t] # "idle" => PassSound(t)') /\ CopySound'
<1> USE MemcpyAssumption
<1>1. \A p \in 1 .. pass[t] : Arrived(<<t, copies[t], p>>)
  <2> SUFFICES ASSUME NEW p \in 1 .. pass[t]
               PROVE  Arrived(<<t, copies[t], p>>)
    OBVIOUS
  <2>1. pass[t] \in Nat
    BY DEF TypeOK
  <2>2. CASE p = pass[t]
    BY <2>2 DEF DataOf
  <2>3. CASE p # pass[t]
    <3>1. p \in 1 .. pass[t] - 1
      BY <2>1, <2>3
    <3> QED
      BY <3>1 DEF PassSound
  <2> QED
    BY <2>2, <2>3
<1>2. CASE pass[t] < PassesOf(t)
  <2>1. /\ pass'[t] = pass[t] + 1 /\ UNCHANGED success
        /\ Goto(t, PassStart(Kind(t)))
    BY <1>2 DEF NextPass, TypeOK
  <2>2. PassStart(Kind(t)) \in {"stage", "cdma"}
        /\ (PassStart(Kind(t)) = "cdma" => Kind(t) \notin Staged)
    BY DEF PassStart
  <2>3. pc'[t] \in {"stage", "cdma"} /\ (pc'[t] = "cdma" => Kind(t) \notin Staged)
    BY <2>1, <2>2, GotoFacts DEF Pcs
  <2>4. pass'[t] - 1 = pass[t]
    <3>1. pass[t] \in Nat
      BY DEF TypeOK
    <3> QED
      BY <2>1, <3>1
  <2>5. Kind(t)' = Kind(t) /\ copies'[t] = copies[t]
        /\ \A y : Arrived(y)' <=> Arrived(y)
    BY DEF Kind, Arrived
  <2>6. \A p \in 1 .. pass'[t] - 1 :
          dest'[<<t, copies'[t], p>>] = <<t, copies'[t], p>>
    BY <1>1, <2>4, <2>5 DEF Arrived
  <2>7. PassSound(t)'
    BY <2>3, <2>5, <2>6 DEF PassSound, Fetched, Staged, Arrived
  <2> QED
    BY <2>1, <2>7 DEF CopySound
<1>3. CASE ~(pass[t] < PassesOf(t))
  <2>1. /\ Goto(t, "idle")
        /\ success' = success \cup {<<t, copies[t], p>> : p \in 1 .. pass[t]}
    BY <1>3 DEF NextPass
  <2>2. pc'[t] = "idle"
    BY <2>1, GotoFacts DEF Pcs
  <2> QED
    BY <1>1, <2>1, <2>2 DEF CopySound, Arrived
<1> QED
  BY <1>2, <1>3

(* A step of thread t, as the others see it.                                 *)
LEMMA OthersSound ==
  ASSUME TypeOK, PcKinds, DataInv, NEW t \in Threads, NEW p \in Pcs, Goto(t, p),
         \A u \in Threads \ {t} :
           /\ call'[u] = call[u] /\ copies'[u] = copies[u]
           /\ pass'[u] = pass[u] /\ slot'[u] = slot[u]
           /\ Kind(u) \in Staged /\ u \in Owners(Kind(u)) =>
                stage'[Kind(u)][slot[u]] = stage[Kind(u)][slot[u]],
         Keeps, job' = NoJob => job = NoJob
  PROVE  \A u \in Threads \ {t} : pc'[u] # "idle" => PassSound(u)'
<1> SUFFICES ASSUME NEW u \in Threads \ {t}, pc'[u] # "idle"
             PROVE  PassSound(u)'
  OBVIOUS
<1>1. pc'[u] = pc[u] /\ PassSound(u)
  BY GotoFacts DEF DataInv
<1> QED
  BY <1>1, BystanderSound

(* A step of thread t that moves no data of a pass.                          *)
LEMMA QuietStepSound ==
  ASSUME TypeOK, PcKinds, DataInv, NEW t \in Threads, NEW p \in Pcs, Goto(t, p),
         UNCHANGED <<call, copies, pass, slot, stage, dest, success>>,
         job' = NoJob => job = NoJob, p # "idle" => PassSound(t)'
  PROVE  DataInv'
<1>1. Keeps
  BY DEF Keeps, Arrived
<1>2. \A u \in Threads \ {t} : pc'[u] # "idle" => PassSound(u)'
  BY <1>1, OthersSound
<1>3. pc'[t] = p
  BY GotoFacts
<1> QED
  BY <1>2, <1>3 DEF DataInv, CopySound

LEMMA DataInvStep ==
  ASSUME LongEnough, StagingInv, OneTransfer, DataInv, Next
  PROVE  DataInv'
<1> USE MemcpyAssumption DEF locals, staging, engine
<1>0. TypeOK /\ PcKinds /\ SlotsOwned /\ CopySound
  BY DEF StagingInv, DataInv
<1>1. ASSUME NEW t \in Threads, NEW c \in Calls, Memcpy(t, c)
      PROVE  DataInv'
  <2>1. PICK p \in {"stage", "cdma"} : Goto(t, p) /\ (p = "cdma" => c.kind \notin Staged)
    BY <1>1 DEF Memcpy, PassStart
  <2>2. /\ UNCHANGED <<slot, stage, dest, success, job>>
        /\ call'[t] = c /\ pass'[t] = 1
        /\ \A u \in Threads \ {t} : /\ call'[u] = call[u] /\ copies'[u] = copies[u]
                                    /\ pass'[u] = pass[u]
    BY <1>0, <1>1 DEF Memcpy, TypeOK
  <2>3. Keeps
    BY <2>2 DEF Keeps, Arrived
  <2>4. \A u \in Threads \ {t} : pc'[u] # "idle" => PassSound(u)'
    BY <1>0, <2>1, <2>2, <2>3, OthersSound DEF Pcs
  <2>5. pc'[t] = p
    BY <1>0, <2>1, GotoFacts DEF Pcs
  <2>6. PassSound(t)'
    BY <2>1, <2>2, <2>5 DEF PassSound, Fetched, Kind, Staged
  <2> QED
    BY <1>0, <2>2, <2>4, <2>6 DEF DataInv, CopySound
(* The slot it fills is nobody else's.                                       *)
<1>2. ASSUME NEW t \in Threads, GetStagemem(t)
      PROVE  DataInv'
  <2>0. PICK k \in Staged : k = Kind(t)
    BY <1>0, <1>2 DEF GetStagemem, PcKinds
  <2> DEFINE i == FirstFree(bitmap[k])
  <2>1. /\ pc[t] = "stage" /\ bitmap[k] # Slots /\ bitmap[k] \in SUBSET Slots
    BY <1>0, <1>2, <2>0 DEF GetStagemem, TypeOK
  <2>2. i \in Slots /\ i \notin bitmap[k]
    BY <2>1, FirstFreeFound
  <2>3. /\ slot' = [slot EXCEPT ![t] = i]
        /\ UNCHANGED <<call, copies, pass, dest, success, job>>
        /\ \/ /\ stage' = IF k = "s2d" THEN [stage EXCEPT ![k][i] = DataOf(t)] ELSE stage
              /\ Goto(t, "cdma")
           \/ Goto(t, "fail") /\ UNCHANGED stage
    BY <1>2, <2>0 DEF GetStagemem
  <2> HIDE DEF i
  <2>4. PICK p \in {"cdma", "fail"} : Goto(t, p)
    BY <2>3
  <2>5. /\ pc'[t] = p /\ slot'[t] = i /\ \A u \in Threads \ {t} : slot'[u] = slot[u]
    BY <1>0, <2>3, <2>4, GotoFacts DEF Pcs, TypeOK
  <2>6. ASSUME NEW u \in Threads \ {t}, Kind(u) \in Staged, u \in Owners(Kind(u))
        PROVE  stage'[Kind(u)][slot[u]] = stage[Kind(u)][slot[u]]
    <3>1. Kind(u) = k => slot[u] # i
      BY <1>0, <2>2, <2>6 DEF SlotsOwned
    <3>2. \/ UNCHANGED stage
          \/ stage' = [stage EXCEPT ![k][i] = DataOf(t)]
      BY <2>3
    <3>3. /\ Kind(u) # k => stage'[Kind(u)] = stage[Kind(u)]
          /\ \A j \in Slots : j # i => stage'[k][j] = stage[k][j]
      BY <1>0, <2>0, <2>6, <3>2 DEF TypeOK
    <3>4. slot[u] \in Slots
      BY <1>0 DEF TypeOK
    <3> QED
      BY <3>1, <3>3, <3>4
  <2>7. Keeps
    BY <2>3 DEF Keeps, Arrived
  <2>8. \A u \in Threads \ {t} : pc'[u] # "idle" => PassSound(u)'
    BY <1>0, <2>3, <2>4, <2>5, <2>6, <2>7, OthersSound DEF Pcs
  <2>9. PassSound(t)'
    <3>1. PassSound(t) /\ Kind(t)' = Kind(t) /\ DataOf(t)' = DataOf(t)
      BY <2>1, <2>3 DEF DataInv, Kind, DataOf
    <3>2. \A q \in 1 .. pass'[t] - 1 : dest'[<<t, copies'[t], q>>] = <<t, copies'[t], q>>
      BY <2>3, <3>1 DEF PassSound, Arrived
    <3>3. Kind(t)' = "s2d" /\ pc'[t] = "cdma" => stage'["s2d"][slot'[t]] = DataOf(t)'
      <4> SUFFICES ASSUME Kind(t) = "s2d", pc'[t] = "cdma"
                   PROVE  stage'["s2d"][i] = DataOf(t)
        BY <2>5, <3>1
      <4>1. stage' = [stage EXCEPT !["s2d"][i] = DataOf(t)]
        <5>1. ~Goto(t, "fail")
          BY <1>0, <2>4, <2>5, GotoFacts DEF Pcs
        <5> QED
          BY <2>0, <2>3, <5>1
      <4>2. stage["s2d"] \in [Slots -> Data \cup {NoData}] /\ stage \in [Staged -> [Slots -> Data \cup {NoData}]]
        BY <1>0 DEF TypeOK, Staged
      <4> QED
        BY <2>2, <4>1, <4>2 DEF Staged
    <3> QED
      BY <2>5, <3>1, <3>2, <3>3 DEF PassSound, Fetched, Arrived
  <2> QED
    BY <1>0, <2>3, <2>8, <2>9 DEF DataInv, CopySound
<1>3. ASSUME NEW t \in Threads, StagememFull(t) \/ StagememRetry(t) \/ FreeFailed(t)
      PROVE  DataInv'
  <2>1. PICK p \in {"wait", "stage", "complete_fail"} : Goto(t, p)
    BY <1>3 DEF StagememFull, StagememRetry, FreeFailed
  <2>2. /\ UNCHANGED <<call, copies, pass, slot, stage, dest, success, job>>
        /\ pc[t] \in {"stage", "wait", "fail"}
    BY <1>3 DEF StagememFull, StagememRetry, FreeFailed
  <2>3. pc'[t] = p /\ PassSound(t)
    BY <1>0, <2>1, <2>2, GotoFacts DEF Pcs, DataInv
  <2>4. PassSound(t)'
    BY <2>1, <2>2, <2>3 DEF PassSound, Fetched, Arrived, Kind, DataOf
  <2> QED
    BY <1>0, <2>1, <2>2, <2>4, QuietStepSound DEF Pcs
(* From the slot to the program.                                             *)
<1>4. ASSUME NEW t \in Threads, FreeStagemem(t)
      PROVE  DataInv'
  <2>1. /\ pc[t] = "moved"
        /\ UNCHANGED <<call, copies, pass, slot, stage, success, job>>
        /\ \/ /\ Goto(t, "complete")
              /\ dest' = IF Kind(t) = "d2s"
                         THEN [dest EXCEPT ![DataOf(t)] = stage["d2s"][slot[t]]]
                         ELSE dest
           \/ Goto(t, "complete_fail") /\ UNCHANGED dest
    BY <1>4 DEF FreeStagemem
  <2>2. PassSound(t) /\ DataOf(t) \in Data
    BY <1>0, <2>1, DataType DEF DataInv
  <2>3. PICK p \in {"complete", "complete_fail"} : Goto(t, p)
    BY <2>1
  <2>4. pc'[t] = p /\ Kind(t)' = Kind(t) /\ DataOf(t)' = DataOf(t)
    BY <1>0, <2>1, <2>3, GotoFacts DEF Pcs, Kind, DataOf
  <2>5. Keeps /\ (p = "complete" => dest'[DataOf(t)] = DataOf(t))
    <3>1. CASE Goto(t, "complete_fail") /\ UNCHANGED dest
      <4>1. p # "complete"
        BY <1>0, <2>4, <3>1, GotoFacts DEF Pcs
      <4> QED
        BY <3>1, <4>1 DEF Keeps, Arrived
    <3>2. CASE Kind(t) = "d2s" /\ dest' = [dest EXCEPT ![DataOf(t)] = stage["d2s"][slot[t]]]
      <4>1. stage["d2s"][slot[t]] = DataOf(t)
        BY <2>1, <2>2, <3>2 DEF PassSound
      <4> QED
        BY <1>0, <2>2, <3>2, <4>1 DEF Keeps, Arrived, TypeOK
    <3>3. CASE Kind(t) # "d2s" /\ UNCHANGED dest
      BY <2>1, <2>2, <3>3 DEF PassSound, Keeps, Arrived
    <3> QED
      BY <2>1, <3>1, <3>2, <3>3
  <2>6. \A u \in Threads \ {t} : pc'[u] # "idle" => PassSound(u)'
    BY <1>0, <2>1, <2>3, <2>5, OthersSound DEF Pcs
  <2>7. \A q \in 1 .. pass'[t] - 1 : dest'[<<t, copies'[t], q>>] = <<t, copies'[t], q>>
    <3>1. \A q \in 1 .. pass[t] - 1 : <<t, copies[t], q>> \in Data
      BY <1>0, <2>1 DEF TypeOK, PcKinds, Data
    <3> QED
      BY <2>1, <2>2, <2>5, <3>1 DEF PassSound, Keeps, Arrived
  <2>8. PassSound(t)'
    BY <2>3, <2>4, <2>5, <2>7 DEF PassSound, Fetched, Arrived
  <2>9. CopySound'
    BY <1>0, <2>1, <2>5 DEF CopySound, Keeps, Arrived, TypeOK
  <2> QED
    BY <2>6, <2>8, <2>9 DEF DataInv
<1>5. ASSUME NEW t \in Threads, Complete(t) \/ LastPass(t) \/ DisableSmmu(t)
      PROVE  DataInv'
  <2>1. /\ pc[t] \in {"complete", "complete_fail", "last", "disable"}
        /\ UNCHANGED <<call, copies, slot, stage, dest, job>>
        /\ \/ NextPass(t) /\ pc[t] # "complete_fail"
           \/ Goto(t, "idle") /\ UNCHANGED <<pass, success>>
    <3>1. CASE Complete(t)
      BY <3>1 DEF Complete
    <3>2. CASE LastPass(t)
      BY <3>2 DEF LastPass
    <3>3. CASE DisableSmmu(t)
      BY <3>3 DEF DisableSmmu
    <3> QED
      BY <1>5, <3>1, <3>2, <3>3
  <2>2. PassSound(t) /\ Keeps
    BY <2>1 DEF DataInv, Keeps, Arrived
  <2>3. CASE Goto(t, "idle") /\ UNCHANGED <<pass, success>>
    BY <1>0, <2>1, <2>3, QuietStepSound DEF Pcs
  <2>4. CASE NextPass(t) /\ pc[t] # "complete_fail"
    <3>1. Arrived(DataOf(t))
      BY <1>0, <2>1, <2>2, <2>4 DEF PassSound, PcKinds
    <3>2. (pc'[t] # "idle" => PassSound(t)') /\ CopySound'
      BY <1>0, <2>1, <2>2, <2>4, <3>1, NextPassSound
    <3>3. PICK p \in {"stage", "cdma", "idle"} : Goto(t, p)
      BY <1>0, <2>1, <2>4, NextPassFacts
    <3>4. \A u \in Threads \ {t} : pass'[u] = pass[u]
      BY <1>0, <2>4 DEF NextPass, TypeOK
    <3>5. \A u \in Threads \ {t} : pc'[u] # "idle" => PassSound(u)'
      BY <1>0, <2>1, <2>2, <3>3, <3>4, OthersSound DEF Pcs
    <3> QED
      BY <3>2, <3>5 DEF DataInv
  <2> QED
    BY <2>1, <2>3, <2>4
<1>6. ASSUME NEW t \in Threads, LockMutex(t) \/ StartCdma(t)
      PROVE  DataInv'
  <2>1. /\ UNCHANGED <<call, copies, pass, slot, stage, dest, success>>
        /\ pc[t] \in {"cdma", "lock"}
        /\ \/ \E p \in {"lock", "idle"} : Goto(t, p) /\ UNCHANGED job
           \/ Goto(t, "run") /\ job' # NoJob
    BY <1>0, <1>6, JobIsNone DEF LockMutex, StartCdma
  <2>2. PICK p \in {"lock", "idle", "run"} :
          /\ Goto(t, p) /\ (p = "run" => job' # NoJob) /\ (job' = NoJob => job = NoJob)
    BY <2>1
  <2>3. pc'[t] = p /\ PassSound(t)
    BY <1>0, <2>1, <2>2, GotoFacts DEF Pcs, DataInv
  <2>4. PassSound(t)'
    BY <2>1, <2>2, <2>3 DEF PassSound, Fetched, Arrived, Kind, DataOf
  <2> QED
    BY <1>0, <2>1, <2>2, <2>4, QuietStepSound DEF Pcs
<1>7. ASSUME NEW t \in Threads, LockTimeout(t)
      PROVE  DataInv'
  <2>1. /\ UNCHANGED <<call, copies, pass, slot, stage, dest, success, job>>
        /\ pc[t] = "lock" /\ TransferReturns(t, Failed(t))
    BY <1>7 DEF LockTimeout
  <2>2. Kind(t) # "mmu"
    BY <1>0, <1>7 DEF LockTimeout, LongEnough, Kind, TypeOK
  <2>3. Failed(t) \in {"fail", "idle"} /\ Goto(t, Failed(t))
    BY <2>1, <2>2 DEF Failed, TransferReturns, LockCdma
  <2>4. pc'[t] = Failed(t) /\ PassSound(t)
    BY <1>0, <2>1, <2>3, GotoFacts DEF Pcs, DataInv
  <2>5. PassSound(t)'
    BY <2>1, <2>3, <2>4 DEF PassSound, Fetched, Arrived, Kind, DataOf
  <2> QED
    BY <1>0, <2>1, <2>3, <2>5, QuietStepSound DEF Pcs
(* The engine has moved the data, as the wait has ended.                     *)
<1>8. ASSUME NEW t \in Threads, TransferDone(t)
      PROVE  DataInv'
  <2>1. /\ UNCHANGED <<call, copies, pass, slot, stage, dest, success, job>>
        /\ pc[t] = "run" /\ TransferReturns(t, Moved(t))
        /\ WaitInterrupt(t) \/ WaitPolling(t)
    BY <1>8 DEF TransferDone
  <2>2. job = NoJob
    BY <2>1 DEF OneTransfer, Working, Raised, Signalled, Polled, WaitInterrupt, WaitPolling
  <2>3. Moved(t) \in {"moved", "last"}
    BY DEF Moved
  <2>4. PICK q \in Pcs : Goto(t, q) /\ q = IF Kind(t) = "mmu" THEN "disable" ELSE Moved(t)
    BY <1>0, <2>1, <2>3, TransferReturnsFacts DEF Pcs
  <2>5. pc'[t] = q /\ q \in {"moved", "last", "disable"} /\ PassSound(t)
    BY <1>0, <2>1, <2>3, <2>4, GotoFacts DEF DataInv
  <2>6. Fetched(t)
    BY <2>1, <2>2 DEF Fetched
  <2>7. PassSound(t)'
    BY <2>1, <2>5, <2>6 DEF PassSound, Fetched, Arrived, Kind, DataOf
  <2> QED
    BY <1>0, <2>1, <2>4, <2>7, QuietStepSound
<1>9. ASSUME NEW t \in Threads, EngineTimeout(t)
      PROVE  DataInv'
  BY <1>9 DEF EngineTimeout, LongEnough
<1>10. ASSUME EngineDone
       PROVE  DataInv'
  <2>1. /\ job # NoJob
        /\ UNCHANGED <<pc, call, copies, pass, slot, success>>
    BY <1>10 DEF EngineDone
  <2>2. PICK t \in Threads : pc[t] = "run"
    BY <2>1 DEF OneTransfer, Quiet
  <2>3. Working(t)
    BY <2>1, <2>2 DEF OneTransfer, Raised, Signalled, Polled
  <2>4. job.kind = Kind(t) /\ job.data = DataOf(t) /\ job.slot = slot[t]
    BY <2>3 DEF Working
  <2>5. /\ PassSound(t) /\ DataOf(t) \in Data /\ slot[t] \in Slots
        /\ Kind(t)' = Kind(t) /\ DataOf(t)' = DataOf(t)
    BY <1>0, <2>1, <2>2, DataType DEF DataInv, TypeOK, Kind, DataOf
  <2>6. \/ /\ Kind(t) = "d2s" /\ UNCHANGED dest
           /\ stage' = [stage EXCEPT !["d2s"][slot[t]] = DataOf(t)]
        \/ /\ Kind(t) # "d2s" /\ UNCHANGED stage
           /\ dest' = [dest EXCEPT ![DataOf(t)] = DataOf(t)]
    <3>1. CASE Kind(t) = "s2d"
      <4>1. stage["s2d"][slot[t]] = DataOf(t)
        BY <2>2, <2>5, <3>1 DEF PassSound
      <4> QED
        BY <1>10, <2>4, <3>1, <4>1 DEF EngineDone
    <3>2. CASE Kind(t) = "d2s"
      BY <1>10, <2>4, <3>2 DEF EngineDone
    <3>3. CASE Kind(t) \notin {"s2d", "d2s"}
      BY <1>10, <2>4, <3>3 DEF EngineDone
    <3> QED
      BY <3>1, <3>2, <3>3
  <2>7. Keeps
    BY <1>0, <2>5, <2>6 DEF Keeps, Arrived, TypeOK
  <2>8. ASSUME NEW u \in Threads \ {t}, pc'[u] # "idle"
        PROVE  PassSound(u)'
    <3>1. pc[u] # "run" /\ pc[u] # "idle" /\ PassSound(u)
      BY <2>1, <2>2, <2>8, OnlyRunner DEF DataInv
    <3>2. ASSUME Kind(u) \in Staged, u \in Owners(Kind(u))
          PROVE  stage'[Kind(u)][slot[u]] = stage[Kind(u)][slot[u]]
      <4>1. CASE UNCHANGED stage
        BY <4>1
      <4>2. CASE /\ Kind(t) = "d2s"
                 /\ stage' = [stage EXCEPT !["d2s"][slot[t]] = DataOf(t)]
        <5>1. Kind(u) = "d2s" => slot[u] # slot[t]
          BY <1>0, <2>2, <3>2, <4>2, OtherSlot DEF Owners
        <5>2. /\ Kind(u) # "d2s" => stage'[Kind(u)] = stage[Kind(u)]
              /\ \A j \in Slots : j # slot[t] => stage'["d2s"][j] = stage["d2s"][j]
          BY <1>0, <3>2, <4>2 DEF TypeOK, Staged
        <5>3. slot[u] \in Slots
          BY <1>0 DEF TypeOK
        <5> QED
          BY <5>1, <5>2, <5>3
      <4> QED
        BY <2>6, <4>1, <4>2
    <3> QED
      BY <1>0, <2>1, <2>7, <3>1, <3>2, BystanderSound
  <2>9. PassSound(t)'
    <3>1. \A q \in 1 .. pass'[t] - 1 : dest'[<<t, copies'[t], q>>] = <<t, copies'[t], q>>
      <4>1. \A q \in 1 .. pass[t] - 1 : <<t, copies[t], q>> \in Data
        BY <1>0, <2>2 DEF TypeOK, PcKinds, Data
      <4> QED
        BY <2>1, <2>5, <2>7, <4>1 DEF PassSound, Keeps, Arrived
    <3>2. CASE Kind(t) = "d2s"
      <4>1. stage'["d2s"][slot'[t]] = DataOf(t)'
        BY <1>0, <2>1, <2>5, <2>6, <3>2 DEF TypeOK, Staged
      <4> QED
        BY <2>1, <2>2, <2>5, <3>1, <3>2, <4>1 DEF PassSound, Arrived
    <3>3. CASE Kind(t) # "d2s"
      <4>1. dest'[DataOf(t)'] = DataOf(t)'
        BY <1>0, <2>5, <2>6, <3>3 DEF TypeOK
      <4>2. Kind(t) = "s2d" => stage'["s2d"][slot'[t]] = DataOf(t)'
        BY <2>1, <2>2, <2>5, <2>6, <3>3 DEF PassSound
      <4> QED
        BY <2>1, <2>2, <2>5, <3>1, <3>3, <4>1, <4>2 DEF PassSound, Arrived
    <3> QED
      BY <3>2, <3>3
  <2>10. CopySound'
    BY <1>0, <2>1, <2>7 DEF CopySound, Keeps, Arrived, TypeOK
  <2> QED
    BY <2>8, <2>9, <2>10 DEF DataInv
<1>11. ASSUME CdmaIrq \/ Arm9
       PROVE  DataInv'
  <2>1. UNCHANGED <<pc, call, copies, pass, slot, stage, dest, success, job>>
    BY <1>11 DEF CdmaIrq, Arm9
  <2> QED
    BY <2>1 DEF DataInv, PassSound, Fetched, Arrived, CopySound, Kind, DataOf
<1> QED
  BY <1>1, <1>2, <1>3, <1>4, <1>5, <1>6, <1>7, <1>8, <1>9, <1>10, <1>11 DEF Next, Step

(* When the waits for engine and lock are long enough, bmdev_memcpy_s2d, d2s *)
(* and c2c return 0 only when all of the data is at its destination.         *)
THEOREM CopiesAreSound ==
  ASSUME LongEnough
  PROVE  Spec => []CopySound
<1>1. Init => DataInv
  BY DEF Init, DataInv, CopySound
<1>2. StagingInv /\ OneTransfer /\ DataInv /\ [Next]_vars => DataInv'
  <2> SUFFICES ASSUME StagingInv, OneTransfer, DataInv, [Next]_vars
               PROVE  DataInv'
    OBVIOUS
  <2>1. CASE Next
    BY <2>1, DataInvStep
  <2>2. CASE UNCHANGED vars
    BY <2>2 DEF DataInv, PassSound, Fetched, Arrived, CopySound, Kind, DataOf, vars,
       locals, staging, engine
  <2> QED
    BY <2>1, <2>2
<1>3. Spec => [](StagingInv /\ OneTransfer)
  BY OneTransferHolds DEF LongEnough
<1>4. DataInv => CopySound
  BY DEF DataInv
<1> QED
  BY <1>1, <1>2, <1>3, <1>4, PTL DEF Spec

=============================================================================
