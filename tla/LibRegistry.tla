---------------------------- MODULE LibRegistry ----------------------------
(* The libraries that programs load into the firmware, and the functions     *)
(* they look up in them: the api ids 0x90000001, 2 and 4 of bmdrv_send_api   *)
(* with their dyn_ functions of bm_api.c, and bmdrv_api_clear_lib, which     *)
(* unloads for a thread that closes its last handle. The driver keeps a list *)
(* of loads and a list of functions, and sends a message only when the       *)
(* firmware has to do something.                                             *)
EXTENDS Integers, FiniteSets

CONSTANTS
  LibThreads, LibMods,   \* the threads, and the libraries (their md5)
  LibFuncs, LibModOf,    \* the functions, and the library of each
  LibNone,
  LibMaxLoads,           \* bound: loads a thread has of one library
  LibMaxId               \* bound: function numbers handed out

ASSUME LibAssumption ==
  /\ IsFiniteSet(LibThreads) /\ IsFiniteSet(LibMods)
  /\ LibModOf \in [LibFuncs -> LibMods]
  /\ LibNone \notin LibMods \cup LibFuncs
  /\ LibMaxLoads \in Nat /\ LibMaxId \in Nat \ {0}

LibIds == 0 .. LibMaxId - 1

VARIABLES
  lib_list,       \* the loads that lib_dyn_info lists, per library and thread
  func_list,      \* exec_func.func_list
  f_id,           \* the next function number
  lib_pc,         \* where each thread is in a call
  lib_arg,        \* the library or function of the call
  lib_id,         \* its copy of f_id
  lib_loaded,     \* firmware: the libraries loaded
  lib_known,      \* firmware: the function it has for a number
  lib_torn,       \* history: func_list was edited by two threads at once
  lib_failed,     \* history: libraries one of whose messages was not sent, or
                  \* one of whose functions shares its number with another
  lib_raced       \* history: libraries two of whose calls met, see LibRace

lib_funcs == <<func_list, lib_torn>>
lib_driver == <<lib_list, f_id, lib_funcs>>
lib_local == <<lib_pc, lib_arg, lib_id>>
lib_fw == <<lib_loaded, lib_known>>
lib_vars == <<lib_driver, lib_local, lib_fw, lib_failed, lib_raced>>

LibInit ==
  /\ lib_list = [m \in LibMods |-> [t \in LibThreads |-> 0]]
  /\ func_list = {} /\ f_id = 0 /\ lib_torn = FALSE
  /\ lib_pc = [t \in LibThreads |-> "idle"]
  /\ lib_arg = [t \in LibThreads |-> LibNone]
  /\ lib_id = [t \in LibThreads |-> 0]
  /\ lib_loaded = {} /\ lib_known = [i \in LibIds |-> LibNone]
  /\ lib_failed = {} /\ lib_raced = {}

LibListed(m) == \E t \in LibThreads : lib_list[m][t] > 0
LibOf(m) == {e \in func_list : LibModOf[e.fn] = m}
LibUpset == IF lib_torn THEN LibMods ELSE lib_failed \cup lib_raced

LibGoto(t, p, a) ==
  /\ lib_pc' = [lib_pc EXCEPT ![t] = p]
  /\ lib_arg' = [lib_arg EXCEPT ![t] = a]
LibAdd(m, t, n) == lib_list' = [lib_list EXCEPT ![m][t] = @ + n]

(* bmcpu_lib_mutex is held across steps only by bmdrv_api_clear_lib.         *)
LibMutexFree ==
  \A u \in LibThreads : lib_pc[u] \notin {"clear", "clear_send", "clear_funcs"}

(* What the firmware does with an unload message.                            *)
LibUnloaded(m) ==
  /\ lib_loaded' = lib_loaded \ {m}
  /\ lib_known' = [i \in LibIds |->
       IF lib_known[i] # LibNone /\ LibModOf[lib_known[i]] = m THEN LibNone
       ELSE lib_known[i]]

(* func_list is edited under bm_get_func_mutex, but for bmdrv_api_clear_lib, *)
(* which removes functions without it. An edit that meets such a removal     *)
(* tears the list: entries may be lost and removed ones still be reached,    *)
(* now and at every later edit.                                              *)
LibUnlocked(t) ==
  \/ lib_torn
  \/ \E u \in LibThreads \ {t} :
       lib_pc[u] = "clear_funcs" /\ LibOf(lib_arg[u]) # {}
LibEdit(t, list) ==
  \/ func_list' = list /\ UNCHANGED lib_torn
  \/ /\ LibUnlocked(t) /\ lib_torn' = TRUE
     /\ func_list' \in SUBSET (func_list \cup list)

-----------------------------------------------------------------------------
(* bmdrv_api_dyn_load_lib_process                                            *)

(* A library that is listed is listed once more, and no message is sent.     *)
(* Between this section and the next the driver counts the libraries with    *)
(* the name, for cur_rec, which only the firmware uses.                      *)
LibLoad(t, m) ==
  /\ lib_pc[t] = "idle" /\ LibMutexFree
  /\ lib_list[m][t] < LibMaxLoads
  /\ IF LibListed(m)
     THEN LibAdd(m, t, 1) /\ UNCHANGED <<lib_pc, lib_arg>>
     ELSE LibGoto(t, "load_add", m) /\ UNCHANGED lib_list
  /\ UNCHANGED <<lib_funcs, f_id, lib_id, lib_fw, lib_failed>>

LibLoadAdd(t) ==
  /\ lib_pc[t] = "load_add" /\ LibMutexFree
  /\ LibAdd(lib_arg[t], t, 1)
  /\ LibGoto(t, "load_send", lib_arg[t])
  /\ UNCHANGED <<lib_funcs, f_id, lib_id, lib_fw, lib_failed>>

(* The message to the firmware, or no room for it in time: then the library  *)
(* stays listed.                                                             *)
LibLoadSend(t) ==
  /\ lib_pc[t] = "load_send"
  /\ \/ lib_loaded' = lib_loaded \cup {lib_arg[t]} /\ UNCHANGED lib_failed
     \/ lib_failed' = lib_failed \cup {lib_arg[t]} /\ UNCHANGED lib_loaded
  /\ LibGoto(t, "idle", LibNone)
  /\ UNCHANGED <<lib_driver, lib_id, lib_known>>

-----------------------------------------------------------------------------
(* bmdrv_api_dyn_get_func_process, for a library the thread has loaded.      *)

(* A look-up that meets a removal may miss an entry.                         *)
LibGetFunc(t, fn) ==
  /\ lib_pc[t] = "idle"
  /\ lib_list[LibModOf[fn]][t] > 0
  /\ (\A e \in func_list : e.fn # fn) \/ LibUnlocked(t)
  /\ f_id < LibMaxId
  /\ LibGoto(t, "get_id", fn)
  /\ UNCHANGED <<lib_driver, lib_id, lib_fw, lib_failed>>

(* f_id++, outside the mutex: a read and a write.                            *)
LibGetId(t) ==
  /\ lib_pc[t] = "get_id" /\ f_id < LibMaxId
  /\ lib_id' = [lib_id EXCEPT ![t] = f_id]
  /\ LibGoto(t, "get_inc", lib_arg[t])
  /\ UNCHANGED <<lib_driver, lib_fw, lib_failed>>
LibGetInc(t) ==
  /\ lib_pc[t] = "get_inc"
  /\ f_id' = lib_id[t] + 1
  /\ LibGoto(t, "get_add", lib_arg[t])
  /\ UNCHANGED <<lib_list, lib_funcs, lib_id, lib_fw, lib_failed>>

(* The functions that share the number, listed or being told, are recorded.  *)
LibSameId(i) ==
  {e.fn : e \in {e \in func_list : e.id = i}} \cup
  {lib_arg[u] : u \in {u \in LibThreads : lib_pc[u] = "get_send" /\ lib_id[u] = i}}
LibGetAdd(t) ==
  /\ lib_pc[t] = "get_add"
  /\ LibEdit(t, func_list \cup {[fn |-> lib_arg[t], id |-> lib_id[t]]})
  /\ LET same == LibSameId(lib_id[t])
     IN lib_failed' = lib_failed \cup
          {LibModOf[fn] : fn \in IF same = {} THEN {} ELSE same \cup {lib_arg[t]}}
  /\ LibGoto(t, "get_send", lib_arg[t])
  /\ UNCHANGED <<lib_list, f_id, lib_id, lib_fw>>

(* The firmware looks the function up in the library; or no room.            *)
LibGetSend(t) ==
  LET fn == lib_arg[t]
  IN
  /\ lib_pc[t] = "get_send"
  /\ \/ /\ IF LibModOf[fn] \in lib_loaded
           THEN lib_known' = [lib_known EXCEPT ![lib_id[t]] = fn]
           ELSE UNCHANGED lib_known
        /\ UNCHANGED lib_failed
     \/ /\ lib_failed' = lib_failed \cup {LibModOf[fn]}
        /\ UNCHANGED lib_known
  /\ LibGoto(t, "idle", LibNone)
  /\ lib_id' = [lib_id EXCEPT ![t] = 0]
  /\ UNCHANGED <<lib_driver, lib_loaded>>

-----------------------------------------------------------------------------
(* bmdrv_api_dyn_unload_lib_process. It removes one load of the thread; a    *)
(* thread may be handed a library that another thread has loaded: then it    *)
(* removes nothing. Mutant: it does not look for a load of the thread.       *)
LibUnloadAnyone(t, m) ==
  /\ lib_pc[t] = "idle" /\ LibMutexFree
  /\ LibAdd(m, t, -1)
  /\ LibGoto(t, "unload_check", m)
  /\ UNCHANGED <<lib_funcs, f_id, lib_id, lib_fw, lib_failed>>
LibUnload(t, m) ==
  /\ lib_pc[t] = "idle" /\ LibMutexFree
  /\ IF lib_list[m][t] > 0 THEN LibAdd(m, t, -1) ELSE UNCHANGED lib_list
  /\ LibGoto(t, "unload_check", m)
  /\ UNCHANGED <<lib_funcs, f_id, lib_id, lib_fw, lib_failed>>

(* In a second section it looks whether the library is still listed. Mutant: *)
(* it does not look for loads of other threads.                              *)
LibUnloadNoCheck(t) ==
  /\ lib_pc[t] = "unload_check" /\ LibMutexFree
  /\ IF lib_list[lib_arg[t]][t] > 0
     THEN LibGoto(t, "idle", LibNone)
     ELSE LibGoto(t, "unload_funcs", lib_arg[t])
  /\ UNCHANGED <<lib_driver, lib_id, lib_fw, lib_failed>>
LibUnloadCheck(t) ==
  /\ lib_pc[t] = "unload_check" /\ LibMutexFree
  /\ IF LibListed(lib_arg[t])
     THEN LibGoto(t, "idle", LibNone)
     ELSE LibGoto(t, "unload_funcs", lib_arg[t])
  /\ UNCHANGED <<lib_driver, lib_id, lib_fw, lib_failed>>

(* Then it removes the functions of the library. Mutant: they stay.          *)
LibUnloadKeeps(t) ==
  /\ lib_pc[t] = "unload_funcs"
  /\ LibGoto(t, "unload_send", lib_arg[t])
  /\ UNCHANGED <<lib_driver, lib_id, lib_fw, lib_failed>>
LibUnloadFuncs(t) ==
  /\ lib_pc[t] = "unload_funcs"
  /\ LibEdit(t, func_list \ LibOf(lib_arg[t]))
  /\ LibGoto(t, "unload_send", lib_arg[t])
  /\ UNCHANGED <<lib_list, f_id, lib_id, lib_fw, lib_failed>>

LibUnloadSend(t) ==
  /\ lib_pc[t] = "unload_send"
  /\ \/ LibUnloaded(lib_arg[t]) /\ UNCHANGED lib_failed
     \/ lib_failed' = lib_failed \cup {lib_arg[t]} /\ UNCHANGED lib_fw
  /\ LibGoto(t, "idle", LibNone)
  /\ UNCHANGED <<lib_driver, lib_id>>

-----------------------------------------------------------------------------
(* bmdrv_api_clear_lib: the mutex, then one load of the thread after another;*)
(* for the last load of a library, a message (ksend_api) and the removal of  *)
(* its functions.                                                            *)
LibClear(t) ==
  /\ lib_pc[t] = "idle" /\ LibMutexFree
  /\ \E m \in LibMods : lib_list[m][t] > 0
  /\ LibGoto(t, "clear", LibNone)
  /\ UNCHANGED <<lib_driver, lib_id, lib_fw, lib_failed>>

LibClearOne(t, m) ==
  /\ lib_pc[t] = "clear" /\ lib_list[m][t] > 0
  /\ LibAdd(m, t, -1)
  /\ IF \E u \in LibThreads : lib_list[m][u] > IF u = t THEN 1 ELSE 0
     THEN UNCHANGED <<lib_pc, lib_arg>>
     ELSE LibGoto(t, "clear_send", m)
  /\ UNCHANGED <<lib_funcs, f_id, lib_id, lib_fw, lib_failed>>

LibClearSend(t) ==
  /\ lib_pc[t] = "clear_send"
  /\ \/ LibUnloaded(lib_arg[t]) /\ UNCHANGED lib_failed
     \/ lib_failed' = lib_failed \cup {lib_arg[t]} /\ UNCHANGED lib_fw
  /\ LibGoto(t, "clear_funcs", lib_arg[t])
  /\ UNCHANGED <<lib_driver, lib_id>>

(* One function after another, with bmcpu_lib_mutex but without              *)
(* bm_get_func_mutex.                                                        *)
LibClearFuncs(t) ==
  /\ lib_pc[t] = "clear_funcs"
  /\ \/ /\ \E e \in LibOf(lib_arg[t]) : LibEdit(t, func_list \ {e})
        /\ UNCHANGED <<lib_pc, lib_arg>>
     \/ /\ LibOf(lib_arg[t]) = {} \/ lib_torn
        /\ LibGoto(t, "clear", LibNone)
        /\ UNCHANGED lib_funcs
  /\ UNCHANGED <<lib_list, f_id, lib_id, lib_fw, lib_failed>>

LibClearEnd(t) ==
  /\ lib_pc[t] = "clear" /\ \A m \in LibMods : lib_list[m][t] = 0
  /\ LibGoto(t, "idle", LibNone)
  /\ UNCHANGED <<lib_driver, lib_id, lib_fw, lib_failed>>

-----------------------------------------------------------------------------
(* Two calls for a library meet in a way the driver does not exclude: one is *)
(* about to unload it, having found it unlisted, and another loads it; or    *)
(* one has yet to send its load and another, which found it listed, already  *)
(* looks up a function.                                                      *)
LibAt(t, ps, m) == lib_pc[t] \in ps /\ lib_arg[t] = m
LibRace(m) ==
  \E t, u \in LibThreads :
    \/ /\ LibAt(t, {"unload_funcs", "unload_send"}, m)
       /\ LibAt(u, {"load_add", "load_send"}, m)
    \/ /\ LibAt(t, {"load_send"}, m)
       /\ lib_pc[u] = "get_send" /\ LibModOf[lib_arg[u]] = m
LibRaces == {m \in LibMods : LibRace(m)}

LibStep(t) ==
  \/ \E m \in LibMods : LibLoad(t, m) \/ LibUnload(t, m) \/ LibClearOne(t, m)
  \/ \E fn \in LibFuncs : LibGetFunc(t, fn)
  \/ LibLoadAdd(t) \/ LibLoadSend(t)
  \/ LibGetId(t) \/ LibGetInc(t) \/ LibGetAdd(t) \/ LibGetSend(t)
  \/ LibUnloadCheck(t) \/ LibUnloadFuncs(t) \/ LibUnloadSend(t)
  \/ LibClear(t) \/ LibClearSend(t) \/ LibClearFuncs(t) \/ LibClearEnd(t)

LibNext ==
  /\ \E t \in LibThreads : LibStep(t)
  /\ lib_raced' = lib_raced \cup LibRaces'

LibSpec == LibInit /\ [][LibNext]_lib_vars

-----------------------------------------------------------------------------
LibTypeOK ==
  /\ lib_list \in [LibMods -> [LibThreads -> Nat]]
  /\ func_list \subseteq [fn : LibFuncs, id : LibIds]
  /\ f_id \in Nat
  /\ lib_pc \in [LibThreads -> {"idle", "load_add", "load_send", "get_id",
        "get_inc", "get_add", "get_send", "unload_check", "unload_funcs",
        "unload_send", "clear", "clear_send", "clear_funcs"}]
  /\ lib_arg \in [LibThreads -> LibMods \cup LibFuncs \cup {LibNone}]
  /\ lib_id \in [LibThreads -> LibIds]
  /\ lib_loaded \subseteq LibMods
  /\ lib_known \in [LibIds -> LibFuncs \cup {LibNone}]
  /\ lib_torn \in BOOLEAN
  /\ lib_failed \subseteq LibMods /\ lib_raced \subseteq LibMods

(* LibLoadedExact, in two parts.                                             *)
(* A library stays loaded in the firmware as long as some thread has loaded  *)
(* and not unloaded it, whatever others load, unload and close meanwhile,    *)
(* unless a message could not be sent, an unload met a load or the list of   *)
(* functions was torn.                                                       *)
LibHeldLoaded ==
  \A m \in LibMods \ LibUpset :
    /\ LibListed(m)
    /\ \A t \in LibThreads : ~LibAt(t, {"load_send"}, m)
    => m \in lib_loaded

(* With the same exceptions, a library nobody has loaded any more is gone    *)
(* from the firmware, and its functions from the list.                       *)
LibGoneUnloaded ==
  \A m \in LibMods \ LibUpset :
    /\ ~LibListed(m)
    /\ \A t \in LibThreads : lib_arg[t] # m
    => m \notin lib_loaded /\ LibOf(m) = {}

LibLoadedExact == LibHeldLoaded /\ LibGoneUnloaded

(* A function that the list answers a look-up from is known to the firmware  *)
(* by the number listed, or the message that tells it is about to be sent,   *)
(* or a close is about to remove it, with the same exceptions and that of a  *)
(* number drawn twice.                                                       *)
LibFunctionsKnown ==
  \A e \in func_list :
    \/ LibModOf[e.fn] \in LibUpset
    \/ lib_known[e.id] = e.fn
    \/ \E t \in LibThreads :
         \/ lib_pc[t] = "get_send" /\ lib_arg[t] = e.fn /\ lib_id[t] = e.id
         \/ LibAt(t, {"clear_funcs"}, LibModOf[e.fn])

=============================================================================
