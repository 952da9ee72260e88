-------------------------------- MODULE Jpu --------------------------------
(* The JPEG cores of a card: the pool of bm1684_jpu.c, and the way           *)
(* bm_jpu_dec_decode and bm_jpu_enc_encode of the JPEG library use it for    *)
(* one picture: take a core, start it, wait for its interrupt, give it back. *)
(*                                                                           *)
(* The names begin with Jpu, so that an instance for TLC can hold this       *)
(* module together with the others that model pools and registries.          *)
EXTENDS Integers, Sequences, FiniteSets, SequencesExt

CONSTANTS
  JpuThreads,     \* threads that decode or encode pictures
  JpuFiles,       \* open files of the card, one per process
  JpuFileOf,      \* the file through which a thread calls the driver
  JpuCores,       \* the cores
  JpuNone,        \* no file, thread or core
  JpuMaxSem       \* bound of the semaphore, for the runs only

ASSUME JpuAssumption ==
  /\ IsFiniteSet(JpuThreads) /\ IsFiniteSet(JpuCores)
  /\ JpuFileOf \in [JpuThreads -> JpuFiles]
  /\ JpuNone \notin JpuThreads \cup JpuFiles \cup JpuCores
  /\ JpuMaxSem \in Nat

VARIABLES
  jpu_sem,         \* the semaphore of free cores
  inst_head,       \* the list of cores, the least recently taken one first
  inuse, filp,     \* the fields of its entries
  interrupt_flag,  \* per core: an interrupt came and nobody took it yet
  jpu_pc,          \* where each thread is
  jpu_core,        \* coreIndex of its instance, also after the core was closed
  jpu_remap,       \* remap_info.core_idx while it takes a core
  jpu_ok,          \* threads whose picture the library takes for done
  jpu_job,         \* per core: the thread whose picture it works on
  jpu_status,      \* per core: how the picture ended, MJPEG_PIC_STATUS_REG
  jpu_irq,         \* per core: an interrupt is raised and not handled
  jpu_drawn,       \* history: threads whose current picture was finished
  jpu_cut,         \* history: threads whose current picture was cut off
  jpu_has,         \* history: threads that took a core and did not close it
  jpu_unmatched    \* history: a thread closed a core it had not

jpu_pool == <<jpu_sem, inst_head, inuse, filp>>
jpu_hw == <<jpu_job, jpu_status, jpu_irq>>
jpu_local == <<jpu_core, jpu_remap>>
jpu_past == <<jpu_drawn, jpu_cut>>
jpu_claim == <<jpu_has, jpu_unmatched>>
jpu_vars == <<jpu_pool, interrupt_flag, jpu_pc, jpu_local, jpu_ok, jpu_hw,
              jpu_past, jpu_claim>>

JpuInit ==
  /\ jpu_sem = Cardinality(JpuCores)
  /\ inst_head = SetToSeq(JpuCores)
  /\ inuse = [c \in JpuCores |-> FALSE]
  /\ filp = [c \in JpuCores |-> JpuNone]
  /\ interrupt_flag = [c \in JpuCores |-> FALSE]
  /\ jpu_pc = [t \in JpuThreads |-> "idle"]
  /\ jpu_core = [t \in JpuThreads |-> JpuNone]
  /\ jpu_remap = [t \in JpuThreads |-> JpuNone]
  /\ jpu_ok = {}
  /\ jpu_job = [c \in JpuCores |-> JpuNone]
  /\ jpu_status = [c \in JpuCores |-> "none"]
  /\ jpu_irq = [c \in JpuCores |-> FALSE]
  /\ jpu_drawn = {} /\ jpu_cut = {}
  /\ jpu_has = {}
  /\ jpu_unmatched = FALSE

JpuGoto(t, p) == jpu_pc' = [jpu_pc EXCEPT ![t] = p]

-----------------------------------------------------------------------------
(* Taking a core.                                                            *)

(* The next picture: StartOneFrame of the library gets to                    *)
(* jdi_get_core_index, or fails before it; its caller then closes all the    *)
(* same, the core of the picture before. Bound of the model: no picture      *)
(* begins after such a close too many, only those under way go on.           *)
JpuPicture(t) ==
  /\ jpu_pc[t] = "idle" /\ ~jpu_unmatched
  /\ JpuGoto(t, "down") \/ JpuGoto(t, "close")
  /\ UNCHANGED <<jpu_pool, interrupt_flag, jpu_local, jpu_ok, jpu_hw, jpu_past,
                 jpu_claim>>

(* down_interruptible; one that is interrupted is called again by the loop   *)
(* in jdi_get_core_index.                                                    *)
JpuDown(t) ==
  /\ jpu_pc[t] = "down" /\ jpu_sem > 0
  /\ jpu_sem' = jpu_sem - 1
  /\ JpuGoto(t, "take")
  /\ UNCHANGED <<inst_head, inuse, filp, interrupt_flag, jpu_local, jpu_ok,
                 jpu_hw, jpu_past, jpu_claim>>

JpuFree == {c \in JpuCores : ~inuse[c]}

(* core_idx is not negative: the thread goes on with it.                     *)
JpuGot(t, c) ==
  /\ jpu_core' = [jpu_core EXCEPT ![t] = c]
  /\ jpu_remap' = [jpu_remap EXCEPT ![t] = JpuNone]
  /\ jpu_has' = jpu_has \cup {t}
  /\ JpuGoto(t, "start")

(* The first entry of the list not in use moves to the end of the list. When *)
(* a signal is pending, the call returns -ERESTARTSYS although it has taken  *)
(* the core, and is called again.                                            *)
JpuTake(t) ==
  LET i == SelectInSeq(inst_head, LAMBDA d : ~inuse[d])
      c == inst_head[i]
  IN
  /\ jpu_pc[t] = "take" /\ JpuFree # {}
  /\ inuse' = [inuse EXCEPT ![c] = TRUE]
  /\ filp' = [filp EXCEPT ![c] = JpuFileOf[t]]
  /\ inst_head' = Append(RemoveAt(inst_head, i), c)
  /\ \/ JpuGot(t, c)
     \/ /\ jpu_remap' = [jpu_remap EXCEPT ![t] = c]
        /\ JpuGoto(t, "down")
        /\ UNCHANGED <<jpu_core, jpu_has>>
  /\ UNCHANGED <<jpu_sem, interrupt_flag, jpu_ok, jpu_hw, jpu_past,
                 jpu_unmatched>>

(* No entry is free: the call returns 0 and leaves core_idx as it was, -1 or *)
(* the core an interrupted call has taken.                                   *)
JpuTakeNone(t) ==
  /\ jpu_pc[t] = "take" /\ JpuFree = {}
  /\ IF jpu_remap[t] # JpuNone
     THEN JpuGot(t, jpu_remap[t])
     ELSE JpuGoto(t, "close_none") /\ UNCHANGED <<jpu_local, jpu_has>>
  /\ UNCHANGED <<jpu_pool, interrupt_flag, jpu_ok, jpu_hw, jpu_past,
                 jpu_unmatched>>

-----------------------------------------------------------------------------
(* One picture.                                                              *)

(* The core is started, after its status was cleared; or an error, as an     *)
(* incomplete stream, leads to the close, for a decoder by way of            *)
(* JPU_DecGetOutputInfo, which clears the status. At the end of the stream   *)
(* (JPG_RET_EOS) the decoder waits although it has started nothing.          *)
JpuClrStatus(t) == jpu_status' = [jpu_status EXCEPT ![jpu_core[t]] = "none"]
JpuStartPic(t) ==
  /\ jpu_pc[t] = "start"
  /\ \/ /\ jpu_job' = [jpu_job EXCEPT ![jpu_core[t]] = t]
        /\ JpuClrStatus(t) /\ JpuGoto(t, "wait")
     \/ /\ JpuClrStatus(t) \/ UNCHANGED jpu_status
        /\ JpuGoto(t, "close") /\ UNCHANGED jpu_job
     \/ JpuGoto(t, "wait") /\ UNCHANGED <<jpu_job, jpu_status>>
  /\ UNCHANGED <<jpu_pool, interrupt_flag, jpu_local, jpu_ok, jpu_irq,
                 jpu_past, jpu_claim>>

(* JDI_IOCTL_WAIT_INTERRUPT: it takes the flag, or returns for a signal and  *)
(* leaves the flag alone, set or not.                                        *)
JpuWait(t) ==
  /\ jpu_pc[t] = "wait"
  /\ \/ /\ interrupt_flag[jpu_core[t]]
        /\ interrupt_flag' = [interrupt_flag EXCEPT ![jpu_core[t]] = FALSE]
     \/ UNCHANGED interrupt_flag
  /\ JpuGoto(t, "check")
  /\ UNCHANGED <<jpu_pool, jpu_local, jpu_ok, jpu_hw, jpu_past,
                 jpu_claim>>

(* jpu_DecWaitForInt reads MJPEG_PIC_STATUS_REG and waits again if the       *)
(* picture has not ended; else JPU_DecGetOutputInfo clears the register and  *)
(* fails on an error. An encoder does not end its wait for an error; the     *)
(* status of a picture cut off it has cleared when JPU_EncGetOutputInfo      *)
(* looks, which succeeds. Mutant: every interrupt is taken for the end.      *)
JpuCheckNothing(t) ==
  /\ jpu_pc[t] = "check"
  /\ JpuClrStatus(t)
  /\ jpu_ok' = jpu_ok \cup {t}
  /\ JpuGoto(t, "close")
  /\ UNCHANGED <<jpu_pool, interrupt_flag, jpu_local, jpu_job, jpu_irq,
                 jpu_past, jpu_claim>>
JpuCheck(t) ==
  LET status == jpu_status[jpu_core[t]]
  IN
  /\ jpu_pc[t] = "check"
  /\ \/ /\ status # "none" /\ JpuClrStatus(t)
        /\ jpu_ok' = IF status = "error" THEN jpu_ok ELSE jpu_ok \cup {t}
        /\ JpuGoto(t, "close")
     \/ /\ status \in {"none", "error"}
        /\ JpuGoto(t, "wait") /\ UNCHANGED <<jpu_status, jpu_ok>>
  /\ UNCHANGED <<jpu_pool, interrupt_flag, jpu_local, jpu_job, jpu_irq,
                 jpu_past, jpu_claim>>

(* The fifth time-out in a row: JPU_HWReset, under jpu_core_lock. An         *)
(* interrupt that was raised is still handled.                               *)
JpuTimeout(t) ==
  /\ jpu_pc[t] = "wait" /\ ~interrupt_flag[jpu_core[t]]
  /\ jpu_job' = [jpu_job EXCEPT ![jpu_core[t]] = JpuNone]
  /\ JpuClrStatus(t) /\ JpuGoto(t, "close")
  /\ UNCHANGED <<jpu_pool, interrupt_flag, jpu_local, jpu_ok, jpu_irq, jpu_past,
                 jpu_claim>>

-----------------------------------------------------------------------------
(* Giving the core back.                                                     *)

(* JDI_IOCTL_CLOSE_INSTANCE_CORE_INDEX for core c: an entry of the caller's  *)
(* file is marked free, and the semaphore goes up in any case.               *)
JpuCloseInstance(t, c) ==
  /\ inuse' = [d \in JpuCores |-> /\ inuse[d]
                                  /\ ~(d = c /\ filp[d] = JpuFileOf[t])]
  /\ jpu_sem' = jpu_sem + 1
  /\ jpu_has' = jpu_has \ {t}
  /\ jpu_unmatched' = (jpu_unmatched \/ t \notin jpu_has)

(* The picture of a thread is over.                                          *)
JpuForget(ts) ==
  /\ jpu_ok' = jpu_ok \ ts
  /\ jpu_drawn' = jpu_drawn \ ts /\ jpu_cut' = jpu_cut \ ts

(* The close at the end of a picture. When a signal is pending it returns    *)
(* -ERESTARTSYS although the core is given back, and is called again; or, if *)
(* the signal came in the wait for jpu_core_lock, it may return without it.  *)
JpuClose(t) ==
  /\ jpu_pc[t] = "close" /\ jpu_sem < JpuMaxSem
  /\ JpuCloseInstance(t, jpu_core[t])
  /\ JpuGoto(t, "idle") \/ UNCHANGED jpu_pc
  /\ JpuForget({t})
  /\ UNCHANGED <<inst_head, filp, interrupt_flag, jpu_local, jpu_hw>>

JpuCloseInterrupted(t) ==
  /\ jpu_pc[t] = "close"
  /\ JpuGoto(t, "idle")
  /\ JpuForget({t})
  /\ UNCHANGED <<jpu_pool, interrupt_flag, jpu_local, jpu_hw, jpu_claim>>

(* jdi_get_core_index closes core -1, and its caller then closes again.      *)
JpuCloseNone(t) ==
  /\ jpu_pc[t] = "close_none" /\ jpu_sem < JpuMaxSem
  /\ JpuCloseInstance(t, JpuNone)
  /\ JpuGoto(t, "close")
  /\ UNCHANGED <<inst_head, filp, interrupt_flag, jpu_local, jpu_ok, jpu_hw,
                 jpu_past>>

(* bm_jpu_release: the process has ended, at any point outside a critical    *)
(* section; another one opens the file. The entries of the file, also those  *)
(* given back, are unmarked; the cores among them that are in use are reset. *)
(* Mutants: it takes every core in use for one of the file; the semaphore    *)
(* goes up for every entry of the file.                                      *)
JpuOfAnybody(f) == {c \in JpuCores : inuse[c]}
JpuOf(f) == {c \in JpuCores : filp[c] = f}
JpuEnded(f) ==
  /\ \A t \in JpuThreads : JpuFileOf[t] = f => jpu_pc[t] # "take"
  /\ jpu_pc' = [t \in JpuThreads |->
                  IF JpuFileOf[t] = f THEN "idle" ELSE jpu_pc[t]]
  /\ jpu_core' = [t \in JpuThreads |->
                    IF JpuFileOf[t] = f THEN JpuNone ELSE jpu_core[t]]
  /\ jpu_remap' = [t \in JpuThreads |->
                    IF JpuFileOf[t] = f THEN JpuNone ELSE jpu_remap[t]]
  /\ JpuForget({t \in JpuThreads : JpuFileOf[t] = f})
  /\ jpu_has' = {t \in jpu_has : JpuFileOf[t] # f}
JpuFreeEntries(cs) ==
  /\ inuse' = [c \in JpuCores |-> inuse[c] /\ c \notin cs]
  /\ filp' = [c \in JpuCores |-> IF c \in cs THEN JpuNone ELSE filp[c]]
JpuResetCores(cs) ==
  /\ jpu_job' = [c \in JpuCores |-> IF c \in cs THEN JpuNone ELSE jpu_job[c]]
  /\ jpu_status' = [c \in JpuCores |-> IF c \in cs THEN "none" ELSE jpu_status[c]]

JpuReleaseUpAll(f) ==
  /\ JpuOf(f) # {} /\ jpu_sem < JpuMaxSem
  /\ JpuEnded(f) /\ JpuFreeEntries(JpuOf(f))
  /\ JpuResetCores({c \in JpuOf(f) : inuse[c]})
  /\ jpu_sem' = jpu_sem + Cardinality(JpuOf(f))
  /\ UNCHANGED <<inst_head, interrupt_flag, jpu_irq, jpu_unmatched>>
JpuRelease(f) ==
  /\ JpuOf(f) # {} /\ jpu_sem < JpuMaxSem
  /\ JpuEnded(f) /\ JpuFreeEntries(JpuOf(f))
  /\ JpuResetCores({c \in JpuOf(f) : inuse[c]})
  /\ jpu_sem' = jpu_sem + Cardinality({c \in JpuOf(f) : inuse[c]})
  /\ UNCHANGED <<inst_head, interrupt_flag, jpu_irq, jpu_unmatched>>

-----------------------------------------------------------------------------
(* The cores, and the interrupt handler.                                     *)

(* A picture ends: done, with an error, or cut off, when an encoder that     *)
(* found the buffer of the bitstream full has asked for a stop.              *)
JpuDone(c) ==
  /\ jpu_job[c] # JpuNone
  /\ \E end \in {"done", "error", "stop"} :
       /\ jpu_status' = [jpu_status EXCEPT ![c] = end]
       /\ jpu_drawn' = jpu_drawn \cup IF end = "done" THEN {jpu_job[c]} ELSE {}
       /\ jpu_cut' = jpu_cut \cup IF end = "stop" THEN {jpu_job[c]} ELSE {}
  /\ jpu_job' = [jpu_job EXCEPT ![c] = JpuNone]
  /\ jpu_irq' = [jpu_irq EXCEPT ![c] = TRUE]
  /\ UNCHANGED <<jpu_pool, interrupt_flag, jpu_pc, jpu_local, jpu_ok,
                 jpu_claim>>

(* bm_jpu_irq_handler                                                        *)
JpuIrq(c) ==
  /\ jpu_irq[c]
  /\ jpu_irq' = [jpu_irq EXCEPT ![c] = FALSE]
  /\ interrupt_flag' = [interrupt_flag EXCEPT ![c] = TRUE]
  /\ UNCHANGED <<jpu_pool, jpu_pc, jpu_local, jpu_ok, jpu_job, jpu_status,
                 jpu_past, jpu_claim>>

-----------------------------------------------------------------------------
JpuStep(t) ==
  \/ JpuPicture(t) \/ JpuDown(t) \/ JpuTake(t) \/ JpuTakeNone(t)
  \/ JpuStartPic(t) \/ JpuWait(t) \/ JpuCheck(t) \/ JpuTimeout(t)
  \/ JpuClose(t) \/ JpuCloseInterrupted(t) \/ JpuCloseNone(t)

JpuNext ==
  \/ \E t \in JpuThreads : JpuStep(t)
  \/ \E f \in JpuFiles : JpuRelease(f)
  \/ \E c \in JpuCores : JpuDone(c) \/ JpuIrq(c)

JpuSpec == JpuInit /\ [][JpuNext]_jpu_vars

-----------------------------------------------------------------------------
JpuTypeOK ==
  /\ jpu_sem \in Nat
  /\ inst_head \in Seq(JpuCores)
  /\ inuse \in [JpuCores -> BOOLEAN]
  /\ filp \in [JpuCores -> JpuFiles \cup {JpuNone}]
  /\ interrupt_flag \in [JpuCores -> BOOLEAN]
  /\ jpu_pc \in [JpuThreads -> {"idle", "down", "take", "start", "wait",
                                "check", "close", "close_none"}]
  /\ jpu_core \in [JpuThreads -> JpuCores \cup {JpuNone}]
  /\ jpu_remap \in [JpuThreads -> JpuCores \cup {JpuNone}]
  /\ jpu_ok \subseteq JpuThreads
  /\ jpu_job \in [JpuCores -> JpuThreads \cup {JpuNone}]
  /\ jpu_status \in [JpuCores -> {"none", "done", "error", "stop"}]
  /\ jpu_irq \in [JpuCores -> BOOLEAN]
  /\ jpu_drawn \subseteq JpuThreads /\ jpu_cut \subseteq JpuThreads
  /\ jpu_has \subseteq JpuThreads
  /\ jpu_unmatched \in BOOLEAN

(* As long as no close gave back a core its caller did not have, the         *)
(* semaphore counts the free cores, less those a thread is about to take,    *)
(* however calls are interrupted, pictures time out and processes end.       *)
JpuPoolExact ==
  ~jpu_unmatched =>
    jpu_sem + Cardinality({t \in JpuThreads : jpu_pc[t] = "take"})
      = Cardinality(JpuFree)

(* Under the same condition, a core works for one thread at a time, and is   *)
(* marked with its file, so that the end of another process cannot free it.  *)
JpuCoresExclusive ==
  ~jpu_unmatched =>
    \A t \in jpu_has :
      /\ inuse[jpu_core[t]] /\ filp[jpu_core[t]] = JpuFileOf[t]
      /\ \A u \in jpu_has \ {t} : jpu_core[u] # jpu_core[t]

(* Under the same condition, a picture the library reports as done is done,  *)
(* although interrupt_flag survives time-outs, signals and the end of a      *)
(* process and so may be that of an earlier picture on the core, and a       *)
(* decoder at the end of its stream waits for a core it has not started. Not *)
(* so a picture that the encoder cut off: it is reported as if it were done. *)
JpuPictureDone ==
  ~jpu_unmatched => jpu_ok \subseteq jpu_drawn \cup jpu_cut

=============================================================================
