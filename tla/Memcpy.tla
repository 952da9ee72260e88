------------------------------- MODULE Memcpy -------------------------------
(* Copies between host and card (driver/bm_memcpy.c, bm1684/bm1684_cdma.c,   *)
(* bm_cdma.c). A copy is made pass by pass; a pass takes a slot of the       *)
(* staging memory of its direction, has the CDMA engine move the data        *)
(* between the slot and the card, and gives the slot back. With an IOMMU,    *)
(* and from card to card, the engine reaches both ends by itself. The engine *)
(* serves one transfer at a time: cdma_mutex excludes the threads of the     *)
(* host, the register TOP_CDMA_LOCK the ARM9 of the card.                    *)
EXTENDS Naturals, FiniteSets

CONSTANTS
  Threads,
  SlotNum,     \* STAGEMEM_SLOT_NUM: 4 with PCIe, 2 on a SoC
  Passes,      \* passes of a copy: its size over STAGEMEM_SLOT_SIZE
  MaxCopies,   \* bound on the copies of a thread
  Calls,       \* the copies made, as records [kind, intr]
  Timeouts,    \* the waits that may last too long
  NoThread, NoData

Kinds == {"s2d", "d2s", "c2c", "mmu"}

ASSUME MemcpyAssumption ==
  /\ IsFiniteSet(Threads)
  /\ SlotNum \in Nat \ {0} /\ Passes \in Nat \ {0} /\ MaxCopies \in Nat
  /\ Calls \subseteq [kind : Kinds, intr : BOOLEAN] /\ Calls # {}
  /\ Timeouts \subseteq {"lock", "engine"}
  /\ NoThread \notin Threads

Slots == 0 .. SlotNum - 1
Staged == {"s2d", "d2s"}     \* HOST2CHIP and CHIP2HOST with staging memory

(* The data of one pass of one copy of one thread; each has a destination of *)
(* its own.                                                                  *)
Data == Threads \X (1 .. MaxCopies) \X (1 .. Passes)
NoJob == [kind |-> "none"]
Jobs == {NoJob} \cup
        [kind : Kinds, intr : BOOLEAN, data : Data, slot : Slots]

VARIABLES
  pc, call,        \* where each thread is, and in which call
  copies, pass,    \* copies begun by a thread; pass of the present one
  slot,            \* index of the staging slot of the present pass
  bitmap,          \* the used slots of each direction
  stagemem_done,   \* the count of the completion, per direction
  stage,           \* what each slot holds
  cdma_mutex,      \* its holder
  cdma_lock,       \* TOP_CDMA_LOCK
  job,             \* what the engine is working on
  status, irq,     \* bit 9 of CDMA_INT_STATUS; the interrupt it raised
  cdma_done,       \* the count of the completion
  dest,            \* what has arrived at the destination of each pass
  success          \* the data of the copies that have returned 0

staging == <<bitmap, stagemem_done, stage>>
engine  == <<job, status, irq>>
locals  == <<call, copies, pass, slot>>
vars == <<pc, locals, staging, cdma_mutex, cdma_lock, engine, cdma_done, dest,
          success>>

Goto(t, p) == pc' = [pc EXCEPT ![t] = p]
DataOf(t) == <<t, copies[t], pass[t]>>
Kind(t) == call[t].kind
(* The caller passes lock_cdma, unless it holds cdma_mutex already.          *)
LockCdma(t) == Kind(t) # "mmu"

Init ==
  /\ pc = [t \in Threads |-> "idle"]
  /\ call = [t \in Threads |-> CHOOSE c \in Calls : TRUE]
  /\ copies = [t \in Threads |-> 0]
  /\ pass = [t \in Threads |-> 1]
  /\ slot = [t \in Threads |-> 0]
  /\ bitmap = [d \in Staged |-> {}]
  /\ stagemem_done = [d \in Staged |-> 0]
  /\ stage = [d \in Staged |-> [i \in Slots |-> NoData]]
  /\ cdma_mutex = NoThread /\ cdma_lock = "free"
  /\ job = NoJob /\ status = FALSE /\ irq = FALSE
  /\ cdma_done = 0
  /\ dest = [x \in Data |-> NoData]
  /\ success = {}

-----------------------------------------------------------------------------
(* bmdev_memcpy_s2d, bmdev_memcpy_d2s and their internal twins,              *)
(* bmdev_memcpy_c2c.                                                         *)

(* Where the next pass of a call of this kind begins.                        *)
PassStart(kind) == IF kind \in Staged THEN "stage" ELSE "cdma"
PassesOf(t) == IF Kind(t) = "c2c" THEN 1 ELSE Passes

Memcpy(t, c) ==
  /\ pc[t] = "idle" /\ copies[t] < MaxCopies
  /\ call' = [call EXCEPT ![t] = c]
  /\ copies' = [copies EXCEPT ![t] = @ + 1]
  /\ pass' = [pass EXCEPT ![t] = 1]
  /\ Goto(t, PassStart(c.kind))
  /\ UNCHANGED <<slot, staging, cdma_mutex, cdma_lock, engine, cdma_done, dest,
                 success>>

(* The pass is done: the next one, or 0 is returned.                         *)
NextPass(t) ==
  IF pass[t] < PassesOf(t)
  THEN /\ pass' = [pass EXCEPT ![t] = @ + 1]
       /\ Goto(t, PassStart(Kind(t)))
       /\ UNCHANGED success
  ELSE /\ Goto(t, "idle")
       /\ success' = success \cup {<<t, copies[t], p>> : p \in 1 .. pass[t]}
       /\ UNCHANGED pass

(* caculate_stage_index: the first free slot. Mutant: the one after the last *)
(* used slot.                                                                *)
AfterLastUsed(used) == CHOOSE i \in 0 .. SlotNum :
  (i = 0 \/ i - 1 \in used) /\ \A j \in used : j < i
FirstFree(used) == CHOOSE i \in Slots :
  i \notin used /\ \A j \in 0 .. i - 1 : j \in used

(* bmdrv_get_stagemem finds a free slot; the data of a        *)
(* transfer to the card is then copied into it.                              *)
GetStagemem(t) ==
  LET d == Kind(t)
      i == FirstFree(bitmap[d])
  IN
  /\ pc[t] = "stage" /\ bitmap[d] # Slots
  /\ bitmap' = [bitmap EXCEPT ![d] = @ \cup {i}]
  /\ slot' = [slot EXCEPT ![t] = i]
  /\ \/ /\ stage' = IF d = "s2d" THEN [stage EXCEPT ![d][i] = DataOf(t)]
                                  ELSE stage
        /\ Goto(t, "cdma")
     \/ d = "s2d" /\ Goto(t, "fail") /\ UNCHANGED stage  \* copy_from_user fails
  /\ UNCHANGED <<call, copies, pass, stagemem_done, cdma_mutex, cdma_lock,
                 engine, cdma_done, dest, success>>

(* STAGEMEM_FULL: it will sleep on stagemem_done.                            *)
StagememFull(t) ==
  /\ pc[t] = "stage" /\ bitmap[Kind(t)] = Slots
  /\ Goto(t, "wait")
  /\ UNCHANGED <<locals, staging, cdma_mutex, cdma_lock, engine, cdma_done,
                 dest, success>>

(* wait_for_completion returns: retry.                                       *)
StagememRetry(t) ==
  /\ pc[t] = "wait" /\ stagemem_done[Kind(t)] > 0
  /\ stagemem_done' = [stagemem_done EXCEPT ![Kind(t)] = @ - 1]
  /\ Goto(t, "stage")
  /\ UNCHANGED <<locals, bitmap, stage, cdma_mutex, cdma_lock, engine,
                 cdma_done, dest, success>>

(* bmdrv_free_stagemem: the slot is marked free under stage_mutex ...        *)
FreeBit(t) == bitmap' = [bitmap EXCEPT ![Kind(t)] = @ \ {slot[t]}]

(* ... after a pass that went well; copy_to_user may still fail ...          *)
FreeStagemem(t) ==
  /\ pc[t] = "moved" /\ FreeBit(t)
  /\ \/ /\ Goto(t, "complete")
        /\ dest' = IF Kind(t) = "d2s"
                   THEN [dest EXCEPT ![DataOf(t)] = stage["d2s"][slot[t]]]
                   ELSE dest
     \/ Kind(t) = "d2s" /\ Goto(t, "complete_fail") /\ UNCHANGED dest
  /\ UNCHANGED <<locals, stagemem_done, stage, cdma_mutex, cdma_lock, engine,
                 cdma_done, success>>

(* ... and after one that failed. Mutant: the slot is not freed.             *)
FreeFailedLeaks(t) ==
  /\ pc[t] = "fail"
  /\ Goto(t, "complete_fail")
  /\ UNCHANGED <<locals, staging, cdma_mutex, cdma_lock, engine, cdma_done,
                 dest, success>>
FreeFailed(t) ==
  /\ pc[t] = "fail" /\ FreeBit(t)
  /\ Goto(t, "complete_fail")
  /\ UNCHANGED <<locals, stagemem_done, stage, cdma_mutex, cdma_lock, engine,
                 cdma_done, dest, success>>

(* complete() comes after the unlock. Mutant: only if no slot was free.      *)
SignalIfFull(d) ==
  stagemem_done' = IF Cardinality(bitmap[d]) = SlotNum - 1
                   THEN [stagemem_done EXCEPT ![d] = @ + 1] ELSE stagemem_done
Signal(d) == stagemem_done' = [stagemem_done EXCEPT ![d] = @ + 1]

Complete(t) ==
  /\ pc[t] \in {"complete", "complete_fail"}
  /\ Signal(Kind(t))
  /\ IF pc[t] = "complete"
     THEN NextPass(t)
     ELSE Goto(t, "idle") /\ UNCHANGED <<pass, success>>
  /\ UNCHANGED <<call, copies, slot, bitmap, stage, cdma_mutex, cdma_lock,
                 engine, cdma_done, dest>>

-----------------------------------------------------------------------------
(* bm1684_cdma_transfer.                                                     *)

(* mutex_lock(cdma_mutex), by bm1684_cdma_transfer or, with an IOMMU, by its *)
(* caller, whose bm_enable_smmu_transfer may fail.                           *)
LockMutex(t) ==
  /\ pc[t] = "cdma" /\ cdma_mutex = NoThread
  /\ \/ cdma_mutex' = t /\ Goto(t, "lock")
     \/ Kind(t) = "mmu" /\ cdma_mutex' = NoThread /\ Goto(t, "idle")
  /\ UNCHANGED <<locals, staging, cdma_lock, engine, cdma_done, dest, success>>

(* TOP_CDMA_LOCK reads 0, which takes it: the engine is disabled, so that    *)
(* whatever it was still doing is given up, and started again. Mutant:       *)
(* TOP_CDMA_LOCK is given back as soon as the engine has been started.       *)
StartCdmaUnlocked(t) ==
  /\ pc[t] = "lock" /\ cdma_lock = "free"
  /\ job' = [kind |-> Kind(t), intr |-> call[t].intr, data |-> DataOf(t),
             slot |-> slot[t]]
  /\ Goto(t, "run")
  /\ UNCHANGED <<locals, staging, cdma_mutex, cdma_lock, status, irq,
                 cdma_done, dest, success>>
StartCdma(t) ==
  /\ pc[t] = "lock" /\ cdma_lock = "free"
  /\ cdma_lock' = "host"
  /\ job' = [kind |-> Kind(t), intr |-> call[t].intr, data |-> DataOf(t),
             slot |-> slot[t]]
  /\ Goto(t, "run")
  /\ UNCHANGED <<locals, staging, cdma_mutex, status, irq, cdma_done, dest,
                 success>>

(* bm1684_cdma_transfer returns; the IOMMU mode of its caller looks at no    *)
(* return value and still holds cdma_mutex.                                  *)
TransferReturns(t, p) ==
  IF LockCdma(t)
  THEN cdma_mutex' = NoThread /\ Goto(t, p)
  ELSE UNCHANGED cdma_mutex /\ Goto(t, "disable")

(* Where the caller goes on after an error, and after a transfer.            *)
Failed(t) == IF Kind(t) \in Staged THEN "fail" ELSE "idle"
Moved(t) == IF Kind(t) \in Staged THEN "moved" ELSE "last"

(* The ARM9 keeps the engine too long.                                       *)
LockTimeout(t) ==
  /\ "lock" \in Timeouts
  /\ pc[t] = "lock" /\ cdma_lock # "free"
  /\ TransferReturns(t, Failed(t))
  /\ UNCHANGED <<locals, staging, cdma_lock, engine, cdma_done, dest, success>>

(* The completion was signalled or, when polling, bit 9 is set. Mutant: bit  *)
(* 9 is not cleared.                                                         *)
WaitInterrupt(t) ==
  /\ call[t].intr /\ cdma_done > 0
  /\ cdma_done' = cdma_done - 1
  /\ UNCHANGED status
WaitPollingStale(t) ==
  /\ ~call[t].intr /\ status
  /\ UNCHANGED <<status, cdma_done>>
WaitPolling(t) ==
  /\ ~call[t].intr /\ status
  /\ status' = FALSE
  /\ UNCHANGED cdma_done

(* The engine is done. Mutant: TOP_CDMA_LOCK is not given back.              *)
TransferDoneLocked(t) ==
  /\ pc[t] = "run"
  /\ WaitInterrupt(t) \/ WaitPolling(t)
  /\ TransferReturns(t, Moved(t))
  /\ UNCHANGED <<locals, staging, cdma_lock, job, irq, dest, success>>
TransferDone(t) ==
  /\ pc[t] = "run"
  /\ WaitInterrupt(t) \/ WaitPolling(t)
  /\ cdma_lock' = "free"
  /\ TransferReturns(t, Moved(t))
  /\ UNCHANGED <<locals, staging, job, irq, dest, success>>

(* The engine takes longer than the wait: 3000 polls, or delay_ms. Nothing   *)
(* stops the engine.                                                         *)
EngineTimeout(t) ==
  /\ "engine" \in Timeouts
  /\ pc[t] = "run" /\ (IF call[t].intr THEN cdma_done = 0 ELSE ~status)
  /\ cdma_lock' = "free"
  /\ TransferReturns(t, Failed(t))
  /\ UNCHANGED <<locals, staging, engine, cdma_done, dest, success>>

(* A transfer without staging memory: bmdev_memcpy_c2c returns 0.            *)
LastPass(t) ==
  /\ pc[t] = "last" /\ NextPass(t)
  /\ UNCHANGED <<call, copies, slot, staging, cdma_mutex, cdma_lock, engine,
                 cdma_done, dest>>

(* bm_disable_smmu_transfer, which may fail, and mutex_unlock.               *)
DisableSmmu(t) ==
  /\ pc[t] = "disable"
  /\ cdma_mutex' = NoThread
  /\ \/ NextPass(t)
     \/ Goto(t, "idle") /\ UNCHANGED <<pass, success>>
  /\ UNCHANGED <<call, copies, slot, staging, cdma_lock, engine, cdma_done, dest>>

-----------------------------------------------------------------------------
(* The card, and the interrupt handler.                                      *)

(* The engine has moved the data: bit 9 is set, and an interrupt is raised   *)
(* if the transfer was started with CDMA_INT_ENABLE.                         *)
EngineDone ==
  /\ job # NoJob
  /\ CASE job.kind = "s2d" ->
            /\ dest' = [dest EXCEPT ![job.data] = stage["s2d"][job.slot]]
            /\ UNCHANGED stage
       [] job.kind = "d2s" ->
            /\ stage' = [stage EXCEPT !["d2s"][job.slot] = job.data]
            /\ UNCHANGED dest
       [] OTHER ->
            /\ dest' = [dest EXCEPT ![job.data] = job.data]
            /\ UNCHANGED stage
  /\ status' = TRUE
  /\ irq' = (irq \/ job.intr)
  /\ job' = NoJob
  /\ UNCHANGED <<pc, locals, bitmap, stagemem_done, cdma_mutex, cdma_lock,
                 cdma_done, success>>

(* bmdrv_cdma_irq_handler: it clears bit 9 and signals the completion.       *)
CdmaIrq ==
  /\ irq
  /\ irq' = FALSE /\ status' = FALSE
  /\ cdma_done' = cdma_done + 1
  /\ UNCHANGED <<pc, locals, staging, cdma_mutex, cdma_lock, job, dest, success>>

(* The ARM9 takes the engine and gives it back.                              *)
Arm9 ==
  /\ \/ cdma_lock = "free" /\ cdma_lock' = "arm9"
     \/ cdma_lock = "arm9" /\ cdma_lock' = "free"
  /\ UNCHANGED <<pc, locals, staging, cdma_mutex, engine, cdma_done, dest,
                 success>>

-----------------------------------------------------------------------------
Step(t) ==
  \/ GetStagemem(t) \/ StagememFull(t) \/ StagememRetry(t)
  \/ FreeStagemem(t) \/ FreeFailed(t) \/ Complete(t)
  \/ LockMutex(t) \/ StartCdma(t) \/ LockTimeout(t) \/ TransferDone(t)
  \/ EngineTimeout(t) \/ LastPass(t) \/ DisableSmmu(t)

Next ==
  \/ \E t \in Threads : \E c \in Calls : Memcpy(t, c)
  \/ \E t \in Threads : Step(t)
  \/ EngineDone \/ CdmaIrq \/ Arm9

Spec == Init /\ [][Next]_vars

(* Every thread in a call is scheduled; the loop on TOP_CDMA_LOCK sees it    *)
(* free if it is free again and again, and the ARM9 gives it back; the       *)
(* engine finishes, and its interrupt is handled. As a thread makes at most  *)
(* MaxCopies copies, weak fairness of the mutex and of the slots is enough.  *)
Fairness ==
  /\ \A t \in Threads : WF_vars(Step(t)) /\ SF_vars(StartCdma(t))
  /\ WF_vars(EngineDone) /\ WF_vars(CdmaIrq)
  /\ WF_vars(Arm9 /\ cdma_lock = "arm9")

FairSpec == Spec /\ Fairness

-----------------------------------------------------------------------------
TypeOK ==
  /\ pc \in [Threads -> {"idle", "stage", "wait", "cdma", "lock", "run",
                         "moved", "fail", "complete", "complete_fail", "last",
                         "disable"}]
  /\ call \in [Threads -> Calls]
  /\ copies \in [Threads -> 0 .. MaxCopies]
  /\ pass \in [Threads -> 1 .. Passes]
  /\ slot \in [Threads -> Slots]
  /\ bitmap \in [Staged -> SUBSET Slots]
  /\ stagemem_done \in [Staged -> Nat]
  /\ stage \in [Staged -> [Slots -> Data \cup {NoData}]]
  /\ cdma_mutex \in Threads \cup {NoThread}
  /\ cdma_lock \in {"free", "host", "arm9"}
  /\ job \in Jobs /\ status \in BOOLEAN /\ irq \in BOOLEAN
  /\ cdma_done \in Nat
  /\ dest \in [Data -> Data \cup {NoData}]
  /\ success \subseteq Data

(* Threads that own a slot of direction d.                                   *)
Owners(d) == {t \in Threads : /\ pc[t] \in {"cdma", "lock", "run", "moved", "fail"}
                              /\ Kind(t) = d}

(* No path of a copy, with or without an error, loses a slot, frees one      *)
(* twice or shares one: the bits set are the slots of the copies under way.  *)
SlotsAccounted ==
  \A d \in Staged :
    /\ bitmap[d] = {slot[t] : t \in Owners(d)}
    /\ Cardinality(bitmap[d]) = Cardinality(Owners(d))

(* No wakeup is lost: when threads sleep though a slot is free, a            *)
(* completion is pending or about to be signalled, or a thread is on its way *)
(* to look for a slot.                                                       *)
NoLostWakeup ==
  \A d \in Staged :
    /\ bitmap[d] # Slots
    /\ \E t \in Threads : pc[t] = "wait" /\ Kind(t) = d
    => \/ stagemem_done[d] > 0
       \/ \E t \in Threads : /\ pc[t] \in {"stage", "complete", "complete_fail"}
                             /\ Kind(t) = d

(* A copy that returned 0 has moved all of its data, and only that, to its   *)
(* destination.                                                              *)
CopySound == \A y \in success : dest[y] = y

(* The ARM9 never has the engine while it still works for the host.          *)
EngineExclusive == cdma_lock = "arm9" => job = NoJob

(* A copy ends, with success or an error.                                    *)
CopyEnds == \A t \in Threads : (pc[t] # "idle") ~> (pc[t] = "idle")

=============================================================================
