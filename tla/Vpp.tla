-------------------------------- MODULE Vpp --------------------------------
(* The two post-processing cores of a bm1684: vpp_handle_setup of            *)
(* vpp/bm1684_vpp.c, which runs a batch on a core, and the interrupt handler *)
(* of the cores.                                                             *)
EXTENDS Integers, FiniteSets

CONSTANTS
  VppThreads,     \* threads in bm1684_trigger_vpp
  VppNone         \* no thread or core

VPP1684_CORE_MAX == 2
VppCores == 0 .. VPP1684_CORE_MAX - 1

ASSUME VppAssumption ==
  IsFiniteSet(VppThreads) /\ VppNone \notin VppThreads \cup VppCores

VARIABLES
  vpp_core_sem,       \* the semaphore of idle cores
  vpp_idle_bit_map,   \* the cores that are taken
  got_event_vpp,      \* per core: its interrupt was handled
  vpp_pc, vpp_core,   \* where each thread is, and core_id
  vpp_ok,             \* threads whose wait ended with the interrupt
  vpp_busy,           \* the cores at work on a batch
  vpp_int,            \* per core: VPP_INT_RAW_STATUS
  vpp_handler,        \* the interrupt handler: its core and its next step
  vpp_ran,            \* history: threads whose batch was carried out
  vpp_late            \* history: cores on which a wait timed out

vpp_pool == <<vpp_core_sem, vpp_idle_bit_map>>
vpp_hw == <<vpp_busy, vpp_int>>
vpp_history == <<vpp_ran, vpp_late>>
vpp_vars == <<vpp_pool, got_event_vpp, vpp_pc, vpp_core, vpp_ok, vpp_hw,
              vpp_handler, vpp_history>>

VppIdle == [core |-> VppNone, next |-> "none"]

VppInit ==
  /\ vpp_core_sem = VPP1684_CORE_MAX
  /\ vpp_idle_bit_map = {}
  /\ got_event_vpp = [c \in VppCores |-> FALSE]
  /\ vpp_pc = [t \in VppThreads |-> "idle"]
  /\ vpp_core = [t \in VppThreads |-> VppNone]
  /\ vpp_ok = {}
  /\ vpp_busy = {}
  /\ vpp_int = [c \in VppCores |-> FALSE]
  /\ vpp_handler = VppIdle
  /\ vpp_ran = {} /\ vpp_late = {}

VppGoto(t, p) == vpp_pc' = [vpp_pc EXCEPT ![t] = p]

-----------------------------------------------------------------------------
(* Taking a core.                                                            *)

(* down_interruptible. A call that a signal ends there has changed nothing:  *)
(* its thread is where it was.                                               *)
VppDown(t) ==
  /\ vpp_pc[t] = "idle" /\ vpp_core_sem > 0
  /\ vpp_core_sem' = vpp_core_sem - 1
  /\ VppGoto(t, "map")
  /\ UNCHANGED <<vpp_idle_bit_map, got_event_vpp, vpp_core, vpp_ok, vpp_hw,
                 vpp_handler, vpp_history>>

(* vpp_get_core_id looks at the map first, then tests and sets bit 0, then   *)
(* bit 1, without a lock around the three. On an error ("fatal err!") the    *)
(* semaphore goes up again.                                                  *)
VppGetMap(t) ==
  /\ vpp_pc[t] = "map"
  /\ VppGoto(t, IF vpp_idle_bit_map = VppCores THEN "up" ELSE "bit0")
  /\ UNCHANGED <<vpp_pool, got_event_vpp, vpp_core, vpp_ok, vpp_hw,
                 vpp_handler, vpp_history>>
VppSetBit(t, c, otherwise) ==
  /\ IF c \in vpp_idle_bit_map
     THEN VppGoto(t, otherwise) /\ UNCHANGED <<vpp_idle_bit_map, vpp_core>>
     ELSE /\ VppGoto(t, "setup")
          /\ vpp_idle_bit_map' = vpp_idle_bit_map \cup {c}
          /\ vpp_core' = [vpp_core EXCEPT ![t] = c]
  /\ UNCHANGED <<vpp_core_sem, got_event_vpp, vpp_ok, vpp_hw, vpp_handler,
                 vpp_history>>
VppGetBit(t) ==
  \/ vpp_pc[t] = "bit0" /\ VppSetBit(t, 0, "bit1")
  \/ vpp_pc[t] = "bit1" /\ VppSetBit(t, 1, "up")

-----------------------------------------------------------------------------
(* One batch.                                                                *)

(* No memory for the descriptors, or a wrong address in the batch. Mutant:   *)
(* the return without memory forgets the semaphore.                          *)
VppPrepareFailsHeld(t) ==
  /\ vpp_pc[t] = "setup"
  /\ vpp_idle_bit_map' = vpp_idle_bit_map \ {vpp_core[t]}
  /\ VppGoto(t, "idle")
  /\ UNCHANGED <<vpp_core_sem, got_event_vpp, vpp_core, vpp_ok, vpp_hw,
                 vpp_handler, vpp_history>>
VppPrepareFails(t) ==
  /\ vpp_pc[t] = "setup"
  /\ VppGoto(t, "free")
  /\ UNCHANGED <<vpp_pool, got_event_vpp, vpp_core, vpp_ok, vpp_hw,
                 vpp_handler, vpp_history>>

(* vpp_setup_desc: it waits until the core is idle, for two seconds, clears  *)
(* its raw status and starts it.                                             *)
VppSetupDesc(t) ==
  LET c == vpp_core[t]
  IN
  /\ vpp_pc[t] = "setup"
  /\ IF c \in vpp_busy
     THEN VppGoto(t, "free") /\ UNCHANGED vpp_hw
     ELSE /\ vpp_busy' = vpp_busy \cup {c}
          /\ vpp_int' = [vpp_int EXCEPT ![c] = FALSE]
          /\ VppGoto(t, "wait")
  /\ UNCHANGED <<vpp_pool, got_event_vpp, vpp_core, vpp_ok, vpp_handler,
                 vpp_history>>

(* wait_event_timeout ends with the event ...                                *)
VppWake(t) ==
  /\ vpp_pc[t] = "wait" /\ got_event_vpp[vpp_core[t]]
  /\ vpp_ok' = vpp_ok \cup {t}
  /\ VppGoto(t, "clear")
  /\ UNCHANGED <<vpp_pool, got_event_vpp, vpp_core, vpp_hw, vpp_handler,
                 vpp_history>>

(* ... or after ten seconds, with vpp_soft_rst, which may fail to stop the   *)
(* core.                                                                     *)
VppTimeout(t) ==
  LET c == vpp_core[t]
  IN
  /\ vpp_pc[t] = "wait" /\ ~got_event_vpp[c]
  /\ vpp_busy' = vpp_busy \ {c} \/ UNCHANGED vpp_busy
  /\ vpp_late' = vpp_late \cup {c}
  /\ VppGoto(t, "clear")
  /\ UNCHANGED <<vpp_pool, got_event_vpp, vpp_core, vpp_ok, vpp_int,
                 vpp_handler, vpp_ran>>

(* got_event_vpp is cleared after the wait. Mutant: it is not cleared.       *)
VppClearForgotten(t) ==
  /\ vpp_pc[t] = "clear"
  /\ VppGoto(t, "free")
  /\ UNCHANGED <<vpp_pool, got_event_vpp, vpp_core, vpp_ok, vpp_hw,
                 vpp_handler, vpp_history>>
VppClear(t) ==
  /\ vpp_pc[t] = "clear"
  /\ got_event_vpp' = [got_event_vpp EXCEPT ![vpp_core[t]] = FALSE]
  /\ VppGoto(t, "free")
  /\ UNCHANGED <<vpp_pool, vpp_core, vpp_ok, vpp_hw, vpp_handler, vpp_history>>

(* vpp_free_core_id, then up. Mutant: the other way round.                   *)
VppUpFirst(t) ==
  \/ /\ vpp_pc[t] = "free"
     /\ vpp_core_sem' = vpp_core_sem + 1
     /\ VppGoto(t, "up")
     /\ UNCHANGED <<vpp_idle_bit_map, got_event_vpp, vpp_core, vpp_ok, vpp_hw,
                    vpp_handler, vpp_history>>
  \/ /\ vpp_pc[t] = "up"
     /\ vpp_idle_bit_map' = vpp_idle_bit_map \ {vpp_core[t]}
     /\ vpp_core' = [vpp_core EXCEPT ![t] = VppNone]
     /\ vpp_ok' = vpp_ok \ {t} /\ vpp_ran' = vpp_ran \ {t}
     /\ VppGoto(t, "idle")
     /\ UNCHANGED <<vpp_core_sem, got_event_vpp, vpp_hw, vpp_handler, vpp_late>>
VppFree(t) ==
  \/ /\ vpp_pc[t] = "free"
     /\ vpp_idle_bit_map' = vpp_idle_bit_map \ {vpp_core[t]}
     /\ vpp_core' = [vpp_core EXCEPT ![t] = VppNone]
     /\ vpp_ok' = vpp_ok \ {t} /\ vpp_ran' = vpp_ran \ {t}
     /\ VppGoto(t, "up")
     /\ UNCHANGED <<vpp_core_sem, got_event_vpp, vpp_hw, vpp_handler, vpp_late>>
  \/ /\ vpp_pc[t] = "up"
     /\ vpp_core_sem' = vpp_core_sem + 1
     /\ VppGoto(t, "idle")
     /\ UNCHANGED <<vpp_idle_bit_map, got_event_vpp, vpp_core, vpp_ok, vpp_hw,
                    vpp_handler, vpp_history>>

-----------------------------------------------------------------------------
(* The cores, and bmdrv_vpp0_irq_handler and its twin: the handler of the    *)
(* card serves one interrupt after another; it clears the core's interrupt,  *)
(* then sets the event.                                                      *)

VppDone(c) ==
  /\ c \in vpp_busy
  /\ vpp_ran' = vpp_ran \cup {t \in VppThreads : /\ vpp_core[t] = c
                                               /\ vpp_pc[t] = "wait"}
  /\ vpp_busy' = vpp_busy \ {c}
  /\ vpp_int' = [vpp_int EXCEPT ![c] = TRUE]
  /\ UNCHANGED <<vpp_pool, got_event_vpp, vpp_pc, vpp_core, vpp_ok,
                 vpp_handler, vpp_late>>

VppIrq(c) ==
  /\ vpp_handler = VppIdle /\ vpp_int[c]
  /\ vpp_handler' = [core |-> c, next |-> "clear"]
  /\ UNCHANGED <<vpp_pool, got_event_vpp, vpp_pc, vpp_core, vpp_ok, vpp_hw,
                 vpp_history>>

VppClearInt ==
  /\ vpp_handler.next = "clear"
  /\ vpp_int' = [vpp_int EXCEPT ![vpp_handler.core] = FALSE]
  /\ vpp_handler' = [vpp_handler EXCEPT !.next = "event"]
  /\ UNCHANGED <<vpp_pool, got_event_vpp, vpp_pc, vpp_core, vpp_ok, vpp_busy,
                 vpp_history>>

VppGotEvent ==
  /\ vpp_handler.next = "event"
  /\ got_event_vpp' = [got_event_vpp EXCEPT ![vpp_handler.core] = TRUE]
  /\ vpp_handler' = VppIdle
  /\ UNCHANGED <<vpp_pool, vpp_pc, vpp_core, vpp_ok, vpp_hw, vpp_history>>

-----------------------------------------------------------------------------
(* What a thread does in a call once it has the semaphore.                   *)
VppStep(t) ==
  \/ VppGetMap(t) \/ VppGetBit(t) \/ VppPrepareFails(t) \/ VppSetupDesc(t)
  \/ VppWake(t) \/ VppTimeout(t) \/ VppClear(t) \/ VppFree(t)

VppCall == \E t \in VppThreads : VppStep(t)
VppHandler == (\E c \in VppCores : VppIrq(c)) \/ VppClearInt \/ VppGotEvent

VppNext ==
  \/ \E t \in VppThreads : VppDown(t)
  \/ VppCall
  \/ \E c \in VppCores : VppDone(c)
  \/ VppHandler

VppSpec == VppInit /\ [][VppNext]_vpp_vars

(* Threads in a call are scheduled: as long as one of them can go on, one     *)
(* does. Nothing is assumed of the cores and of the handler of their         *)
(* interrupts, as the wait for them ends by itself.                          *)
VppFairness == WF_vpp_vars(VppCall)

-----------------------------------------------------------------------------
VppTypeOK ==
  /\ vpp_core_sem \in Nat
  /\ vpp_idle_bit_map \subseteq VppCores
  /\ got_event_vpp \in [VppCores -> BOOLEAN]
  /\ vpp_pc \in [VppThreads -> {"idle", "map", "bit0", "bit1", "setup", "wait",
                                "clear", "free", "up"}]
  /\ vpp_core \in [VppThreads -> VppCores \cup {VppNone}]
  /\ vpp_ok \subseteq VppThreads
  /\ vpp_busy \subseteq VppCores
  /\ vpp_int \in [VppCores -> BOOLEAN]
  /\ vpp_handler \in [core : VppCores \cup {VppNone},
                      next : {"none", "clear", "event"}]
  /\ vpp_ran \subseteq VppThreads /\ vpp_late \subseteq VppCores

(* A thread that has passed the semaphore finds a core, although it tests    *)
(* the two bits one after the other while others set and clear them, so that *)
(* the branches that print "fatal err!" are dead; and a core works for one   *)
(* thread at a time.                                                         *)
VppCoreForSemaphore ==
  \A t \in VppThreads :
    /\ vpp_pc[t] = "map" => vpp_idle_bit_map # VppCores
    /\ vpp_pc[t] = "bit1" => 1 \notin vpp_idle_bit_map
VppCoresExclusive ==
  \A t, u \in VppThreads :
    t # u /\ vpp_core[t] # VppNone => vpp_core[t] # vpp_core[u]
VppPoolSound == VppCoreForSemaphore /\ VppCoresExclusive

(* A call that found the event has had its batch carried out, unless an      *)
(* earlier wait on its core timed out: only then is got_event_vpp left from  *)
(* another batch.                                                            *)
VppBatchDone ==
  \A t \in vpp_ok : t \in vpp_ran \/ vpp_core[t] \in vpp_late

(* When both cores are taken, one is given back in the end: every path of    *)
(* every call ups what it has downed, whatever fails, times out or hangs,    *)
(* and no call waits for another.                                            *)
VppServed == vpp_core_sem = 0 ~> vpp_core_sem > 0

=============================================================================
