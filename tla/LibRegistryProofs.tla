------------------------- MODULE LibRegistryProofs -------------------------
(* The registry of libraries, for any threads, libraries and functions: the  *)
(* list of loads of the driver agrees with what the firmware has loaded, and *)
(* the list of functions with the numbers the firmware knows.                *)
EXTENDS LibRegistry, TLAPS

LibGetting == {"get_id", "get_inc", "get_add", "get_send"}
LibClearing == {"clear", "clear_send", "clear_funcs"}
LibWithMod == {"load_add", "load_send", "unload_check", "unload_funcs",
               "unload_send", "clear_send", "clear_funcs"}
LibUnloading == {"unload_funcs", "unload_send"}

-----------------------------------------------------------------------------
(* The invariant.                                                            *)

(* Whatever happened: the argument of a call is of the kind the call needs;  *)
(* a thread that looks up a function or is about to send a load is listed    *)
(* for the library; one thread at a time clears, and a library it is about   *)
(* to unload is not listed.                                                  *)
LibCallInv ==
  \A t \in LibThreads :
    /\ lib_pc[t] \in LibWithMod => lib_arg[t] \in LibMods
    /\ lib_pc[t] \in LibGetting =>
         /\ lib_arg[t] \in LibFuncs /\ LibModOf[lib_arg[t]] \in LibMods
         /\ lib_list[LibModOf[lib_arg[t]]][t] > 0
    /\ lib_pc[t] = "load_send" => lib_list[lib_arg[t]][t] > 0
    /\ lib_pc[t] \in LibClearing =>
         \A u \in LibThreads : lib_pc[u] \in LibClearing => u = t
    /\ lib_pc[t] \in {"clear_send", "clear_funcs"} =>
         \A u \in LibThreads : lib_list[lib_arg[t]][u] = 0

(* For a library that is not upset: who unloads it has found it unlisted and *)
(* it stays so; it is loaded as soon as its load is sent; and if it is       *)
(* loaded or has functions without being listed, a call is under way that    *)
(* puts an end to it.                                                        *)
LibModInv(m) ==
  /\ ~LibRace(m)
  /\ \A t \in LibThreads : LibAt(t, LibUnloading, m) => ~LibListed(m)
  /\ \A t \in LibThreads : LibAt(t, {"unload_send"}, m) => LibOf(m) = {}
  /\ LibListed(m) /\ (\A t \in LibThreads : ~LibAt(t, {"load_send"}, m))
       => m \in lib_loaded
  /\ ~LibListed(m) /\ m \in lib_loaded =>
       \E t \in LibThreads :
         LibAt(t, {"unload_check", "unload_funcs", "unload_send", "clear_send"}, m)
  /\ ~LibListed(m) /\ LibOf(m) # {} =>
       \E t \in LibThreads :
         LibAt(t, {"unload_check", "unload_funcs", "clear_send", "clear_funcs"}, m)
LibModsInv == \A m \in LibMods \ LibUpset : LibModInv(m)

(* Only functions of upset libraries share a number, in the list or in a     *)
(* message that is about to be sent.                                         *)
LibSending == {u \in LibThreads : lib_pc[u] = "get_send"}
LibEntries ==
  func_list \cup {[fn |-> lib_arg[u], id |-> lib_id[u]] : u \in LibSending}
LibNumbersInv ==
  \A e, d \in LibEntries :
    e.id = d.id /\ e # d => LibModOf[e.fn] \in LibUpset /\ LibModOf[d.fn] \in LibUpset

LibInv == LibTypeOK /\ LibCallInv /\ LibModsInv /\ LibNumbersInv /\ LibFunctionsKnown

-----------------------------------------------------------------------------
(* The updates.                                                              *)

LEMMA LibGotoFacts ==
  ASSUME LibTypeOK, NEW t \in LibThreads, NEW p, NEW a, LibGoto(t, p, a)
  PROVE  /\ lib_pc'[t] = p /\ lib_arg'[t] = a
         /\ \A u \in LibThreads : u # t =>
              lib_pc'[u] = lib_pc[u] /\ lib_arg'[u] = lib_arg[u]
BY DEF LibTypeOK, LibGoto

LEMMA LibAddFacts ==
  ASSUME LibTypeOK, NEW m \in LibMods, NEW t \in LibThreads, NEW n \in {1, -1},
         n = -1 => lib_list[m][t] > 0, LibAdd(m, t, n)
  PROVE  /\ lib_list' \in [LibMods -> [LibThreads -> Nat]]
         /\ lib_list'[m][t] = lib_list[m][t] + n
         /\ \A u \in LibThreads : u # t => lib_list'[m][u] = lib_list[m][u]
         /\ \A k \in LibMods : k # m => lib_list'[k] = lib_list[k]
<1>1. lib_list[m] \in [LibThreads -> Nat] /\ lib_list[m][t] \in Nat
  BY DEF LibTypeOK
<1>2. lib_list' = [lib_list EXCEPT ![m] = [lib_list[m] EXCEPT ![t] = lib_list[m][t] + n]]
  BY DEF LibAdd
<1>3. lib_list[m][t] + n \in Nat
  BY <1>1
<1> QED
  BY <1>1, <1>2, <1>3 DEF LibTypeOK

(* An edit adds nothing of its own, and does what it should unless the list  *)
(* is torn.                                                                  *)
LEMMA LibEditFacts ==
  ASSUME NEW t, NEW list, LibEdit(t, list), lib_torn \in BOOLEAN
  PROVE  /\ func_list' \subseteq func_list \cup list /\ lib_torn' \in BOOLEAN
         /\ ~lib_torn' => ~lib_torn /\ func_list' = list
<1>1. CASE func_list' = list /\ UNCHANGED lib_torn
  BY <1>1
<1>2. CASE lib_torn' = TRUE /\ func_list' \in SUBSET (func_list \cup list)
  BY <1>2
<1> QED
  BY <1>1, <1>2 DEF LibEdit

LEMMA LibTypeStep ==
  ASSUME LibTypeOK, LibCallInv, LibNext
  PROVE  LibTypeOK'
<1> USE LibAssumption
<1>a. ASSUME NEW t \in LibThreads, NEW a \in LibMods \cup LibFuncs \cup {LibNone},
             NEW p \in {"idle", "load_add", "load_send", "get_id", "get_inc",
                        "get_add", "get_send", "unload_check", "unload_funcs",
                        "unload_send", "clear", "clear_send", "clear_funcs"},
             LibGoto(t, p, a)
      PROVE  /\ lib_pc' \in [LibThreads -> {"idle", "load_add", "load_send",
                   "get_id", "get_inc", "get_add", "get_send", "unload_check",
                   "unload_funcs", "unload_send", "clear", "clear_send",
                   "clear_funcs"}]
             /\ lib_arg' \in [LibThreads -> LibMods \cup LibFuncs \cup {LibNone}]
  BY <1>a DEF LibGoto, LibTypeOK
<1>b. lib_raced' \subseteq LibMods
  BY DEF LibNext, LibRaces, LibTypeOK
<1>c. ASSUME NEW m \in LibMods, LibUnloaded(m)
      PROVE  lib_loaded' \subseteq LibMods
             /\ lib_known' \in [LibIds -> LibFuncs \cup {LibNone}]
  BY <1>c DEF LibUnloaded, LibTypeOK
<1> DEFINE TypeButRaced ==
  /\ lib_list' \in [LibMods -> [LibThreads -> Nat]]
  /\ func_list' \subseteq [fn : LibFuncs, id : LibIds]
  /\ f_id' \in Nat
  /\ lib_pc' \in [LibThreads -> {"idle", "load_add", "load_send", "get_id",
        "get_inc", "get_add", "get_send", "unload_check", "unload_funcs",
        "unload_send", "clear", "clear_send", "clear_funcs"}]
  /\ lib_arg' \in [LibThreads -> LibMods \cup LibFuncs \cup {LibNone}]
  /\ lib_id' \in [LibThreads -> LibIds]
  /\ lib_loaded' \subseteq LibMods
  /\ lib_known' \in [LibIds -> LibFuncs \cup {LibNone}]
  /\ lib_torn' \in BOOLEAN
  /\ lib_failed' \subseteq LibMods
<1>d. ASSUME NEW t \in LibThreads, NEW list, LibEdit(t, list),
             list \subseteq [fn : LibFuncs, id : LibIds]
      PROVE  func_list' \subseteq [fn : LibFuncs, id : LibIds] /\ lib_torn' \in BOOLEAN
  BY <1>d, LibEditFacts DEF LibTypeOK
<1> USE DEF lib_driver, lib_local, lib_fw, lib_funcs
<1>1. ASSUME NEW t \in LibThreads, NEW m \in LibMods, LibLoad(t, m)
      PROVE  TypeButRaced
  BY <1>1, <1>a, LibAddFacts DEF LibLoad, LibTypeOK
<1>2. ASSUME NEW t \in LibThreads, LibLoadAdd(t) \/ LibLoadSend(t)
      PROVE  TypeButRaced
  <2>1. lib_arg[t] \in LibMods
    BY <1>2 DEF LibCallInv, LibWithMod, LibLoadAdd, LibLoadSend
  <2>2. CASE LibLoadAdd(t)
    BY <1>a, <2>1, <2>2, LibAddFacts DEF LibLoadAdd, LibTypeOK
  <2>3. CASE LibLoadSend(t)
    BY <1>a, <2>1, <2>3 DEF LibLoadSend, LibTypeOK
  <2> QED
    BY <1>2, <2>2, <2>3
<1>3. ASSUME NEW t \in LibThreads, NEW fn \in LibFuncs, LibGetFunc(t, fn)
      PROVE  TypeButRaced
  BY <1>3, <1>a DEF LibGetFunc, LibTypeOK
<1>4. ASSUME NEW t \in LibThreads,
             LibGetId(t) \/ LibGetInc(t) \/ LibGetAdd(t) \/ LibGetSend(t)
      PROVE  TypeButRaced
  <2>1. /\ lib_arg[t] \in LibFuncs /\ LibModOf[lib_arg[t]] \in LibMods
        /\ lib_id[t] \in LibIds
    BY <1>4 DEF LibCallInv, LibGetting, LibGetId, LibGetInc, LibGetAdd,
                LibGetSend, LibTypeOK
  <2>2. CASE LibGetId(t)
    <3>1. f_id \in LibIds
      BY <2>2 DEF LibGetId, LibIds, LibTypeOK
    <3> QED
      BY <1>a, <2>1, <2>2, <3>1 DEF LibGetId, LibTypeOK
  <2>3. CASE LibGetInc(t)
    BY <1>a, <2>1, <2>3 DEF LibGetInc, LibIds, LibTypeOK
  <2>4. CASE LibGetAdd(t)
    <3>1. [fn |-> lib_arg[t], id |-> lib_id[t]] \in [fn : LibFuncs, id : LibIds]
      BY <2>1
    <3>2. func_list' \subseteq [fn : LibFuncs, id : LibIds] /\ lib_torn' \in BOOLEAN
      BY <1>d, <2>4, <3>1 DEF LibGetAdd, LibTypeOK
    <3>3. LibSameId(lib_id[t]) \subseteq LibFuncs
      BY DEF LibSameId, LibCallInv, LibGetting, LibTypeOK
    <3>4. lib_failed' \subseteq LibMods
      BY <2>1, <2>4, <3>3 DEF LibGetAdd, LibTypeOK
    <3>5. /\ LibGoto(t, "get_send", lib_arg[t])
          /\ UNCHANGED <<lib_list, f_id, lib_id, lib_fw>>
      BY <2>4 DEF LibGetAdd
    <3> QED
      BY <1>a, <2>1, <3>2, <3>4, <3>5 DEF LibTypeOK
  <2>5. CASE LibGetSend(t)
    <3>1. 0 \in LibIds
      BY DEF LibIds
    <3>2. lib_known' \in [LibIds -> LibFuncs \cup {LibNone}]
          /\ lib_failed' \subseteq LibMods
      BY <2>1, <2>5 DEF LibGetSend, LibTypeOK
    <3>3. lib_id' \in [LibThreads -> LibIds]
      BY <2>5, <3>1 DEF LibGetSend, LibTypeOK
    <3> QED
      BY <1>a, <2>5, <3>2, <3>3 DEF LibGetSend, LibTypeOK
  <2> QED
    BY <1>4, <2>2, <2>3, <2>4, <2>5
<1>5. ASSUME NEW t \in LibThreads, NEW m \in LibMods, LibUnload(t, m)
      PROVE  TypeButRaced
  BY <1>5, <1>a, LibAddFacts DEF LibUnload, LibTypeOK
<1>6. ASSUME NEW t \in LibThreads,
             LibUnloadCheck(t) \/ LibUnloadFuncs(t) \/ LibUnloadSend(t)
      PROVE  TypeButRaced
  <2>1. lib_arg[t] \in LibMods
    BY <1>6 DEF LibCallInv, LibWithMod, LibUnloadCheck, LibUnloadFuncs, LibUnloadSend
  <2>2. CASE LibUnloadCheck(t)
    BY <1>a, <2>1, <2>2 DEF LibUnloadCheck, LibTypeOK
  <2>3. CASE LibUnloadFuncs(t)
    BY <1>a, <1>d, <2>1, <2>3 DEF LibUnloadFuncs, LibTypeOK
  <2>4. CASE LibUnloadSend(t)
    BY <1>a, <1>c, <2>1, <2>4 DEF LibUnloadSend, LibTypeOK
  <2> QED
    BY <1>6, <2>2, <2>3, <2>4
<1>7. ASSUME NEW t \in LibThreads, NEW m \in LibMods, LibClearOne(t, m)
      PROVE  TypeButRaced
  BY <1>7, <1>a, LibAddFacts DEF LibClearOne, LibTypeOK
<1>8. ASSUME NEW t \in LibThreads,
             LibClear(t) \/ LibClearSend(t) \/ LibClearFuncs(t) \/ LibClearEnd(t)
      PROVE  TypeButRaced
  <2>1. CASE LibClear(t) \/ LibClearEnd(t)
    BY <1>a, <2>1 DEF LibClear, LibClearEnd, LibTypeOK
  <2>2. CASE LibClearSend(t)
    <3>1. lib_arg[t] \in LibMods
      BY <2>2 DEF LibCallInv, LibWithMod, LibClearSend
    <3> QED
      BY <1>a, <1>c, <2>2, <3>1 DEF LibClearSend, LibTypeOK
  <2>3. CASE LibClearFuncs(t)
    BY <1>a, <1>d, <2>3 DEF LibClearFuncs, LibTypeOK
  <2> QED
    BY <1>8, <2>1, <2>2, <2>3
<1>9. TypeButRaced
  BY <1>1, <1>2, <1>3, <1>4, <1>5, <1>6, <1>7, <1>8 DEF LibNext, LibStep
<1> QED
  BY <1>9, <1>b DEF LibTypeOK

-----------------------------------------------------------------------------
(* Calls.                                                                    *)

LEMMA LibCallStep ==
  ASSUME LibInv, LibNext
  PROVE  LibCallInv'
<1> USE LibAssumption DEF LibGetting, LibClearing, LibWithMod, LibListed,
        LibMutexFree, lib_driver, lib_local, lib_fw, lib_funcs
<1>0. /\ LibTypeOK /\ LibCallInv
      /\ \A m \in LibMods, u \in LibThreads : lib_list[m][u] \in Nat
      /\ \A fn \in LibFuncs : LibModOf[fn] \in LibMods
  BY DEF LibInv, LibTypeOK
(* A thread t that goes to a place where nothing new is claimed of it, with  *)
(* its argument and while the loads stay.                                    *)
<1>a. ASSUME NEW t \in LibThreads, NEW p, NEW a, LibGoto(t, p, a),
             UNCHANGED lib_list,
             p \notin LibGetting /\ p # "load_send" /\ p \notin LibClearing,
             p \in LibWithMod => a \in LibMods
      PROVE  LibCallInv'
  BY <1>0, <1>a, LibGotoFacts DEF LibCallInv
<1>1. ASSUME NEW t \in LibThreads, NEW m \in LibMods, LibLoad(t, m)
      PROVE  LibCallInv'
  <2>1. CASE LibListed(m)
    <3>1. /\ LibAdd(m, t, 1) /\ UNCHANGED <<lib_pc, lib_arg>>
          /\ \A u \in LibThreads : lib_pc[u] \notin LibClearing
      BY <1>1, <2>1 DEF LibLoad
    <3>2. \A u \in LibThreads, k \in LibMods :
            lib_list[k][u] > 0 => lib_list'[k][u] > 0
      BY <1>0, <3>1, LibAddFacts
    <3> QED
      BY <1>0, <3>1, <3>2 DEF LibCallInv
  <2>2. CASE ~LibListed(m)
    BY <1>1, <1>a, <2>2 DEF LibLoad
  <2> QED
    BY <2>1, <2>2
<1>2. ASSUME NEW t \in LibThreads, LibLoadAdd(t)
      PROVE  LibCallInv'
  <2>1. lib_arg[t] \in LibMods /\ LibAdd(lib_arg[t], t, 1)
        /\ LibGoto(t, "load_send", lib_arg[t])
        /\ \A u \in LibThreads : lib_pc[u] \notin LibClearing
    BY <1>0, <1>2 DEF LibLoadAdd, LibCallInv
  <2>2. /\ lib_pc'[t] = "load_send" /\ lib_arg'[t] = lib_arg[t]
        /\ \A u \in LibThreads : u # t =>
             lib_pc'[u] = lib_pc[u] /\ lib_arg'[u] = lib_arg[u]
        /\ \A u \in LibThreads, k \in LibMods :
             lib_list[k][u] > 0 => lib_list'[k][u] > 0
        /\ lib_list'[lib_arg[t]][t] > 0
    BY <1>0, <2>1, LibGotoFacts, LibAddFacts
  <2> QED
    BY <1>0, <2>1, <2>2 DEF LibCallInv
<1>3. ASSUME NEW t \in LibThreads, LibLoadSend(t)
      PROVE  LibCallInv'
  BY <1>3, <1>a DEF LibLoadSend
<1>4. ASSUME NEW t \in LibThreads, NEW fn \in LibFuncs, LibGetFunc(t, fn)
      PROVE  LibCallInv'
  <2>1. /\ lib_pc'[t] = "get_id" /\ lib_arg'[t] = fn
        /\ \A u \in LibThreads : u # t =>
             lib_pc'[u] = lib_pc[u] /\ lib_arg'[u] = lib_arg[u]
        /\ lib_list[LibModOf[fn]][t] > 0 /\ UNCHANGED lib_list
    BY <1>0, <1>4, LibGotoFacts DEF LibGetFunc
  <2> QED
    BY <1>0, <2>1 DEF LibCallInv
<1>5. ASSUME NEW t \in LibThreads, LibGetId(t) \/ LibGetInc(t) \/ LibGetAdd(t)
      PROVE  LibCallInv'
  <2>1. PICK p \in {"get_inc", "get_add", "get_send"} :
          /\ lib_pc[t] \in LibGetting /\ LibGoto(t, p, lib_arg[t])
          /\ UNCHANGED lib_list
    BY <1>5 DEF LibGetId, LibGetInc, LibGetAdd
  <2>2. /\ lib_pc'[t] = p /\ lib_arg'[t] = lib_arg[t]
        /\ \A u \in LibThreads : u # t =>
             lib_pc'[u] = lib_pc[u] /\ lib_arg'[u] = lib_arg[u]
    BY <1>0, <2>1, LibGotoFacts
  <2> QED
    BY <1>0, <2>1, <2>2 DEF LibCallInv
<1>6. ASSUME NEW t \in LibThreads, LibGetSend(t)
      PROVE  LibCallInv'
  BY <1>6, <1>a DEF LibGetSend
<1>7. ASSUME NEW t \in LibThreads, NEW m \in LibMods, LibUnload(t, m)
      PROVE  LibCallInv'
  <2>1. /\ lib_pc[t] = "idle" /\ LibGoto(t, "unload_check", m)
        /\ \A u \in LibThreads : lib_pc[u] \notin LibClearing
    BY <1>7 DEF LibUnload
  <2>2. /\ lib_pc'[t] = "unload_check" /\ lib_arg'[t] = m
        /\ \A u \in LibThreads : u # t =>
             lib_pc'[u] = lib_pc[u] /\ lib_arg'[u] = lib_arg[u]
    BY <1>0, <2>1, LibGotoFacts
  <2>3. \A u \in LibThreads, k \in LibMods : u # t => lib_list'[k][u] = lib_list[k][u]
    BY <1>0, <1>7, LibAddFacts DEF LibUnload
  <2> QED
    BY <1>0, <2>1, <2>2, <2>3 DEF LibCallInv
<1>8. ASSUME NEW t \in LibThreads, LibUnloadCheck(t)
      PROVE  LibCallInv'
  <2>1. CASE LibListed(lib_arg[t])
    BY <1>8, <1>a, <2>1 DEF LibUnloadCheck
  <2>2. CASE ~LibListed(lib_arg[t])
    <3>1. /\ lib_pc'[t] = "unload_funcs" /\ lib_arg'[t] = lib_arg[t]
          /\ \A u \in LibThreads : u # t =>
               lib_pc'[u] = lib_pc[u] /\ lib_arg'[u] = lib_arg[u]
          /\ UNCHANGED lib_list /\ lib_pc[t] = "unload_check"
      BY <1>0, <1>8, <2>2, LibGotoFacts DEF LibUnloadCheck
    <3> QED
      BY <1>0, <2>2, <3>1 DEF LibCallInv
  <2> QED
    BY <2>1, <2>2
<1>9. ASSUME NEW t \in LibThreads, LibUnloadFuncs(t)
      PROVE  LibCallInv'
  <2>1. /\ lib_pc'[t] = "unload_send" /\ lib_arg'[t] = lib_arg[t]
        /\ \A u \in LibThreads : u # t =>
             lib_pc'[u] = lib_pc[u] /\ lib_arg'[u] = lib_arg[u]
        /\ UNCHANGED lib_list /\ lib_pc[t] = "unload_funcs"
    BY <1>0, <1>9, LibGotoFacts DEF LibUnloadFuncs
  <2> QED
    BY <1>0, <2>1 DEF LibCallInv
<1>10. ASSUME NEW t \in LibThreads, LibUnloadSend(t)
       PROVE  LibCallInv'
  BY <1>10, <1>a DEF LibUnloadSend
<1>11. ASSUME NEW t \in LibThreads, LibClear(t)
       PROVE  LibCallInv'
  <2>1. /\ lib_pc'[t] = "clear" /\ lib_pc[t] = "idle"
        /\ \A u \in LibThreads : u # t =>
             lib_pc'[u] = lib_pc[u] /\ lib_arg'[u] = lib_arg[u]
        /\ UNCHANGED lib_list
        /\ \A u \in LibThreads : lib_pc[u] \notin LibClearing
    BY <1>0, <1>11, LibGotoFacts DEF LibClear
  <2> QED
    BY <1>0, <2>1 DEF LibCallInv
<1>12. ASSUME NEW t \in LibThreads, NEW m \in LibMods, LibClearOne(t, m)
       PROVE  LibCallInv'
  <2>1. /\ lib_list'[m][t] = lib_list[m][t] - 1
        /\ \A u \in LibThreads, k \in LibMods : u # t => lib_list'[k][u] = lib_list[k][u]
        /\ lib_pc[t] = "clear"
    BY <1>0, <1>12, LibAddFacts DEF LibClearOne
  <2>2. CASE UNCHANGED <<lib_pc, lib_arg>>
    BY <1>0, <2>1, <2>2 DEF LibCallInv
  <2>3. CASE /\ ~\E u \in LibThreads : lib_list[m][u] > IF u = t THEN 1 ELSE 0
             /\ LibGoto(t, "clear_send", m)
    <3>1. /\ lib_pc'[t] = "clear_send" /\ lib_arg'[t] = m
          /\ \A u \in LibThreads : u # t =>
               lib_pc'[u] = lib_pc[u] /\ lib_arg'[u] = lib_arg[u]
      BY <1>0, <2>3, LibGotoFacts
    <3>2. \A u \in LibThreads : lib_list'[m][u] = 0
      BY <1>0, <1>12, <2>1, <2>3 DEF LibClearOne
    <3>3. \A u \in LibThreads : lib_pc[u] \in LibClearing => u = t
      BY <1>0, <2>1 DEF LibCallInv
    <3>4. \A u \in LibThreads : lib_pc'[u] \in LibClearing => u = t
      BY <3>1, <3>3
    <3>5. \A u \in LibThreads \ {t} : lib_pc'[u] \notin {"clear_send", "clear_funcs"}
      BY <3>4
    <3> QED
      BY <1>0, <2>1, <3>1, <3>2, <3>4, <3>5 DEF LibCallInv
  <2> QED
    BY <1>12, <2>2, <2>3 DEF LibClearOne
<1>13. ASSUME NEW t \in LibThreads, LibClearSend(t)
       PROVE  LibCallInv'
  <2>1. /\ lib_pc'[t] = "clear_funcs" /\ lib_arg'[t] = lib_arg[t]
        /\ \A u \in LibThreads : u # t =>
             lib_pc'[u] = lib_pc[u] /\ lib_arg'[u] = lib_arg[u]
        /\ UNCHANGED lib_list /\ lib_pc[t] = "clear_send"
    BY <1>0, <1>13, LibGotoFacts DEF LibClearSend
  <2> QED
    BY <1>0, <2>1 DEF LibCallInv
<1>14. ASSUME NEW t \in LibThreads, LibClearFuncs(t)
       PROVE  LibCallInv'
  <2>1. lib_pc[t] = "clear_funcs" /\ UNCHANGED lib_list
    BY <1>14 DEF LibClearFuncs
  <2>2. CASE UNCHANGED <<lib_pc, lib_arg>>
    BY <1>0, <2>1, <2>2 DEF LibCallInv
  <2>3. CASE LibGoto(t, "clear", LibNone)
    <3>1. /\ lib_pc'[t] = "clear" /\ lib_arg'[t] = LibNone
          /\ \A u \in LibThreads : u # t =>
               lib_pc'[u] = lib_pc[u] /\ lib_arg'[u] = lib_arg[u]
      BY <1>0, <2>3, LibGotoFacts
    <3>2. \A u \in LibThreads : lib_pc'[u] \in LibClearing => u = t
      BY <1>0, <2>1, <3>1 DEF LibCallInv
    <3>3. \A u \in LibThreads \ {t} : lib_pc'[u] \notin {"clear_send", "clear_funcs"}
      BY <3>2
    <3> QED
      BY <1>0, <2>1, <3>1, <3>2, <3>3 DEF LibCallInv
  <2> QED
    BY <1>14, <2>2, <2>3 DEF LibClearFuncs
<1>15. ASSUME NEW t \in LibThreads, LibClearEnd(t)
       PROVE  LibCallInv'
  BY <1>15, <1>a DEF LibClearEnd
<1> QED
  BY <1>1, <1>2, <1>3, <1>4, <1>5, <1>6, <1>7, <1>8, <1>9, <1>10, <1>11, <1>12,
     <1>13, <1>14, <1>15
     DEF LibNext, LibStep

-----------------------------------------------------------------------------
(* Libraries.                                                                *)

LEMMA LibUpsetGrows ==
  ASSUME LibTypeOK, LibNext, ~lib_torn'
  PROVE  /\ ~lib_torn /\ LibUpset \subseteq LibUpset'
         /\ LibUpset' = lib_failed' \cup lib_raced'
<1> USE DEF lib_driver, lib_local, lib_fw, lib_funcs
<1>1. lib_torn \in BOOLEAN
  BY DEF LibTypeOK
<1>2. ~lib_torn
  <2>1. ASSUME NEW t \in LibThreads, NEW list, LibEdit(t, list)
        PROVE  ~lib_torn
    BY <1>1, <2>1, LibEditFacts
  <2>2. \/ UNCHANGED lib_torn
        \/ \E t \in LibThreads : LibGetAdd(t) \/ LibUnloadFuncs(t) \/ LibClearFuncs(t)
    BY DEF LibNext, LibStep, LibLoad, LibLoadAdd, LibLoadSend, LibGetFunc,
           LibGetId, LibGetInc, LibGetSend, LibUnload, LibUnloadCheck,
           LibUnloadSend, LibClear, LibClearOne, LibClearSend, LibClearEnd
  <2>3. ASSUME NEW t \in LibThreads, LibGetAdd(t) \/ LibUnloadFuncs(t)
        PROVE  ~lib_torn
    BY <2>1, <2>3 DEF LibGetAdd, LibUnloadFuncs
  <2>4. ASSUME NEW t \in LibThreads, LibClearFuncs(t)
        PROVE  ~lib_torn
    BY <2>1, <2>4 DEF LibClearFuncs
  <2> QED
    BY <2>2, <2>3, <2>4
<1>3. lib_failed \subseteq lib_failed' /\ lib_raced \subseteq lib_raced'
  BY DEF LibNext, LibStep, LibLoad, LibLoadAdd, LibLoadSend, LibGetFunc,
         LibGetId, LibGetInc, LibGetAdd, LibGetSend, LibUnload, LibUnloadCheck,
         LibUnloadFuncs, LibUnloadSend, LibClear, LibClearOne, LibClearSend,
         LibClearFuncs, LibClearEnd
<1> QED
  BY <1>2, <1>3 DEF LibUpset

LEMMA LibModStep ==
  ASSUME LibInv, LibNext, ~lib_torn'
  PROVE  LibModsInv'
<1> USE LibAssumption DEF LibUnloading, LibAt, LibListed, LibOf,
        LibMutexFree, lib_driver, lib_local, lib_fw, lib_funcs
<1>0. /\ LibTypeOK /\ LibCallInv
      /\ \A m \in LibMods, u \in LibThreads : lib_list[m][u] \in Nat
      /\ \A fn \in LibFuncs : LibModOf[fn] \in LibMods
  BY DEF LibInv, LibTypeOK
<1> SUFFICES ASSUME NEW m \in LibMods, m \notin LibUpset'
             PROVE  LibModInv(m)'
  BY DEF LibModsInv
<1>m. /\ LibModInv(m) /\ ~LibRace(m)' /\ m \notin lib_failed'
  <2>1. m \notin LibUpset /\ m \notin lib_failed' /\ m \notin lib_raced'
    BY <1>0, LibUpsetGrows
  <2>2. ~LibRace(m)'
    BY <2>1 DEF LibNext, LibRaces
  <2> QED
    BY <2>1, <2>2 DEF LibInv, LibModsInv
<1>t. lib_torn \in BOOLEAN
  BY <1>0 DEF LibTypeOK
(* Nothing of m changes, but that a thread may come to or leave a place that *)
(* is not about m.                                                           *)
<1>a. ASSUME \A u \in LibThreads :
               \/ lib_pc'[u] = lib_pc[u] /\ lib_arg'[u] = lib_arg[u]
               \/ ~LibAt(u, LibWithMod, m) /\ ~LibAt(u, LibWithMod, m)',
             lib_list'[m] = lib_list[m], LibOf(m)' = LibOf(m),
             m \in lib_loaded' <=> m \in lib_loaded
      PROVE  LibModInv(m)'
  BY <1>m, <1>a DEF LibModInv, LibWithMod
<1>1. ASSUME NEW t \in LibThreads, NEW k \in LibMods, LibLoad(t, k)
      PROVE  LibModInv(m)'
  <2>0. lib_pc[t] = "idle" /\ UNCHANGED <<func_list, lib_loaded>>
    BY <1>1 DEF LibLoad
  <2>1. CASE LibListed(k)
    <3>1. LibAdd(k, t, 1) /\ UNCHANGED <<lib_pc, lib_arg>>
      BY <1>1, <2>1 DEF LibLoad
    <3>2. CASE k = m
      <4>1. LibListed(m)
        BY <2>1, <3>2
      <4> QED
        BY <1>0, <1>m, <2>0, <3>1, <3>2, <4>1, LibAddFacts DEF LibModInv
    <3>3. CASE k # m
      BY <1>0, <1>a, <2>0, <3>1, <3>3, LibAddFacts
    <3> QED
      BY <3>2, <3>3
  <2>2. CASE ~LibListed(k)
    <3>1. /\ lib_pc'[t] = "load_add" /\ lib_arg'[t] = k /\ UNCHANGED lib_list
          /\ \A u \in LibThreads : u # t =>
               lib_pc'[u] = lib_pc[u] /\ lib_arg'[u] = lib_arg[u]
      BY <1>0, <1>1, <2>2, LibGotoFacts DEF LibLoad
    <3> QED
      BY <1>m, <2>0, <3>1 DEF LibModInv
  <2> QED
    BY <2>1, <2>2
<1>2. ASSUME NEW t \in LibThreads, LibLoadAdd(t)
      PROVE  LibModInv(m)'
  <2>1. /\ lib_arg[t] \in LibMods /\ LibAdd(lib_arg[t], t, 1)
        /\ lib_pc[t] = "load_add" /\ UNCHANGED <<func_list, lib_loaded>>
        /\ lib_pc'[t] = "load_send" /\ lib_arg'[t] = lib_arg[t]
        /\ \A u \in LibThreads : u # t =>
             lib_pc'[u] = lib_pc[u] /\ lib_arg'[u] = lib_arg[u]
    <3>1. /\ lib_pc[t] = "load_add" /\ LibAdd(lib_arg[t], t, 1)
          /\ LibGoto(t, "load_send", lib_arg[t])
          /\ UNCHANGED <<func_list, lib_loaded>>
      BY <1>2 DEF LibLoadAdd
    <3>2. lib_arg[t] \in LibMods
      BY <1>0, <3>1 DEF LibCallInv, LibWithMod
    <3> QED
      BY <1>0, <3>1, <3>2, LibGotoFacts
  <2>2. CASE lib_arg[t] = m
    <3>1. lib_list'[m][t] > 0
      BY <1>0, <2>1, <2>2, LibAddFacts
    <3>2. \A u \in LibThreads : ~LibAt(u, LibUnloading, m)'
      BY <1>m, <2>1, <2>2 DEF LibRace
    <3> QED
      BY <1>m, <2>1, <2>2, <3>1, <3>2 DEF LibModInv
  <2>3. CASE lib_arg[t] # m
    BY <1>0, <1>a, <2>1, <2>3, LibAddFacts
  <2> QED
    BY <2>2, <2>3
<1>3. ASSUME NEW t \in LibThreads, LibLoadSend(t)
      PROVE  LibModInv(m)'
  <2>1. /\ lib_pc[t] = "load_send" /\ UNCHANGED <<func_list, lib_list>>
        /\ lib_pc'[t] = "idle" /\ lib_arg'[t] = LibNone
        /\ \A u \in LibThreads : u # t =>
             lib_pc'[u] = lib_pc[u] /\ lib_arg'[u] = lib_arg[u]
    BY <1>0, <1>3, LibGotoFacts DEF LibLoadSend
  <2>2. lib_arg[t] \in LibMods /\ lib_list[lib_arg[t]][t] > 0
    BY <1>0, <2>1 DEF LibCallInv, LibWithMod
  <2>3. \/ lib_loaded' = lib_loaded \cup {lib_arg[t]}
        \/ lib_arg[t] # m /\ UNCHANGED lib_loaded
    BY <1>3, <1>m DEF LibLoadSend
  <2>4. CASE lib_arg[t] = m
    BY <1>m, <2>1, <2>2, <2>3, <2>4 DEF LibModInv
  <2>5. CASE lib_arg[t] # m
    BY <1>a, <2>1, <2>3, <2>5
  <2> QED
    BY <2>4, <2>5
<1>4. ASSUME NEW t \in LibThreads, NEW fn \in LibFuncs, LibGetFunc(t, fn)
      PROVE  LibModInv(m)'
  <2>1. /\ lib_pc[t] = "idle" /\ lib_pc'[t] = "get_id"
        /\ \A u \in LibThreads : u # t =>
             lib_pc'[u] = lib_pc[u] /\ lib_arg'[u] = lib_arg[u]
        /\ UNCHANGED <<lib_list, func_list, lib_loaded>>
    BY <1>0, <1>4, LibGotoFacts DEF LibGetFunc
  <2> QED
    BY <1>a, <2>1 DEF LibWithMod
<1>5. ASSUME NEW t \in LibThreads, LibGetId(t) \/ LibGetInc(t) \/ LibGetSend(t)
      PROVE  LibModInv(m)'
  <2>1. PICK p \in {"get_inc", "get_add", "idle"} :
          /\ lib_pc[t] \in LibGetting
          /\ \/ LibGoto(t, p, lib_arg[t])
             \/ LibGoto(t, p, LibNone)
          /\ UNCHANGED <<lib_list, func_list, lib_loaded>>
    BY <1>5 DEF LibGetId, LibGetInc, LibGetSend, LibGetting
  <2>2. /\ lib_pc'[t] = p
        /\ \A u \in LibThreads : u # t =>
             lib_pc'[u] = lib_pc[u] /\ lib_arg'[u] = lib_arg[u]
    BY <1>0, <2>1, LibGotoFacts
  <2> QED
    BY <1>a, <2>1, <2>2 DEF LibWithMod, LibGetting
<1>6. ASSUME NEW t \in LibThreads, LibGetAdd(t)
      PROVE  LibModInv(m)'
  <2>1. /\ lib_pc[t] = "get_add" /\ lib_pc'[t] = "get_send"
        /\ lib_arg'[t] = lib_arg[t]
        /\ \A u \in LibThreads : u # t =>
             lib_pc'[u] = lib_pc[u] /\ lib_arg'[u] = lib_arg[u]
        /\ UNCHANGED <<lib_list, lib_loaded>>
        /\ func_list' = func_list \cup {[fn |-> lib_arg[t], id |-> lib_id[t]]}
    <3>1. func_list' = func_list \cup {[fn |-> lib_arg[t], id |-> lib_id[t]]}
      BY <1>6, <1>t, LibEditFacts DEF LibGetAdd
    <3> QED
      BY <1>0, <1>6, <3>1, LibGotoFacts DEF LibGetAdd
  <2>2. CASE LibModOf[lib_arg[t]] = m
    <3>1. LibListed(m) /\ \A u \in LibThreads : ~LibAt(u, LibUnloading, m)
      <4>1. LibListed(m)
        BY <1>0, <2>1, <2>2 DEF LibCallInv, LibGetting
      <4> QED
        BY <1>m, <4>1 DEF LibModInv
    <3>2. \A u \in LibThreads : ~LibAt(u, LibUnloading, m)'
      BY <2>1, <3>1
    <3> QED
      BY <1>m, <2>1, <3>1, <3>2 DEF LibModInv
  <2>3. CASE LibModOf[lib_arg[t]] # m
    <3>1. LibOf(m)' = LibOf(m)
      BY <2>1, <2>3
    <3> QED
      BY <1>a, <2>1, <3>1 DEF LibWithMod
  <2> QED
    BY <2>2, <2>3
<1>7. ASSUME NEW t \in LibThreads, NEW k \in LibMods, LibUnload(t, k)
      PROVE  LibModInv(m)'
  <2>1. /\ lib_pc[t] = "idle" /\ lib_pc'[t] = "unload_check" /\ lib_arg'[t] = k
        /\ \A u \in LibThreads : u # t =>
             lib_pc'[u] = lib_pc[u] /\ lib_arg'[u] = lib_arg[u]
        /\ UNCHANGED <<func_list, lib_loaded>>
        /\ \/ lib_list[k][t] > 0 /\ LibAdd(k, t, -1)
           \/ UNCHANGED lib_list
    BY <1>0, <1>7, LibGotoFacts DEF LibUnload
  <2>2. CASE k = m
    <3>1. LibListed(m)' => LibListed(m)
      BY <1>0, <2>1, <2>2, LibAddFacts
    <3> QED
      BY <1>m, <2>1, <2>2, <3>1 DEF LibModInv
  <2>3. CASE k # m
    <3>1. lib_list'[m] = lib_list[m]
      BY <1>0, <2>1, <2>3, LibAddFacts
    <3> QED
      BY <1>a, <2>1, <2>3, <3>1 DEF LibWithMod
  <2> QED
    BY <2>2, <2>3
<1>8. ASSUME NEW t \in LibThreads, LibUnloadCheck(t)
      PROVE  LibModInv(m)'
  <2>1. /\ lib_pc[t] = "unload_check"
        /\ \A u \in LibThreads : u # t =>
             lib_pc'[u] = lib_pc[u] /\ lib_arg'[u] = lib_arg[u]
        /\ UNCHANGED <<lib_list, func_list, lib_loaded>>
        /\ \/ LibListed(lib_arg[t]) /\ lib_pc'[t] = "idle"
           \/ /\ ~LibListed(lib_arg[t])
              /\ lib_pc'[t] = "unload_funcs" /\ lib_arg'[t] = lib_arg[t]
    BY <1>0, <1>8, LibGotoFacts DEF LibUnloadCheck
  <2> QED
    BY <1>m, <2>1 DEF LibModInv
<1>9. ASSUME NEW t \in LibThreads, LibUnloadFuncs(t)
      PROVE  LibModInv(m)'
  <2>1. /\ lib_pc[t] = "unload_funcs" /\ lib_pc'[t] = "unload_send"
        /\ lib_arg'[t] = lib_arg[t]
        /\ \A u \in LibThreads : u # t =>
             lib_pc'[u] = lib_pc[u] /\ lib_arg'[u] = lib_arg[u]
        /\ UNCHANGED <<lib_list, lib_loaded>>
        /\ func_list' = func_list \ LibOf(lib_arg[t])
    <3>1. func_list' = func_list \ LibOf(lib_arg[t])
      BY <1>9, <1>t, LibEditFacts DEF LibUnloadFuncs
    <3> QED
      BY <1>0, <1>9, <3>1, LibGotoFacts DEF LibUnloadFuncs
  <2>2. CASE lib_arg[t] = m
    <3>1. LibOf(m)' = {}
      BY <2>1, <2>2
    <3> QED
      BY <1>m, <2>1, <2>2, <3>1 DEF LibModInv
  <2>3. CASE lib_arg[t] # m
    <3>1. LibOf(m)' = LibOf(m)
      BY <2>1, <2>3
    <3> QED
      BY <1>a, <2>1, <2>3, <3>1
  <2> QED
    BY <2>2, <2>3
<1>10. ASSUME NEW t \in LibThreads, LibUnloadSend(t)
       PROVE  LibModInv(m)'
  <2>1. /\ lib_pc[t] = "unload_send" /\ lib_pc'[t] = "idle"
        /\ \A u \in LibThreads : u # t =>
             lib_pc'[u] = lib_pc[u] /\ lib_arg'[u] = lib_arg[u]
        /\ UNCHANGED <<lib_list, func_list>> /\ lib_arg'[t] = LibNone
        /\ \/ lib_loaded' = lib_loaded \ {lib_arg[t]}
           \/ lib_arg[t] # m /\ UNCHANGED lib_loaded
    BY <1>0, <1>10, <1>m, LibGotoFacts DEF LibUnloadSend, LibUnloaded
  <2>2. CASE lib_arg[t] = m
    BY <1>m, <2>1, <2>2 DEF LibModInv
  <2>3. CASE lib_arg[t] # m
    BY <1>a, <2>1, <2>3
  <2> QED
    BY <2>2, <2>3
<1>11. ASSUME NEW t \in LibThreads, LibClear(t) \/ LibClearEnd(t)
       PROVE  LibModInv(m)'
  <2>1. PICK p \in {"clear", "idle"} :
          /\ lib_pc[t] \in {"clear", "idle"} /\ LibGoto(t, p, LibNone)
          /\ UNCHANGED <<lib_list, func_list, lib_loaded>>
    BY <1>11 DEF LibClear, LibClearEnd
  <2>2. /\ lib_pc'[t] = p
        /\ \A u \in LibThreads : u # t =>
             lib_pc'[u] = lib_pc[u] /\ lib_arg'[u] = lib_arg[u]
    BY <1>0, <2>1, LibGotoFacts
  <2> QED
    BY <1>a, <2>1, <2>2 DEF LibWithMod
<1>12. ASSUME NEW t \in LibThreads, NEW k \in LibMods, LibClearOne(t, k)
       PROVE  LibModInv(m)'
  <2>0. /\ lib_pc[t] = "clear" /\ lib_list[k][t] > 0 /\ LibAdd(k, t, -1)
        /\ UNCHANGED <<func_list, lib_loaded>>
    BY <1>12 DEF LibClearOne
  <2>1. /\ lib_list'[k][t] = lib_list[k][t] - 1
        /\ \A u \in LibThreads : u # t => lib_list'[k][u] = lib_list[k][u]
        /\ \A j \in LibMods : j # k => lib_list'[j] = lib_list[j]
    BY <1>0, <2>0, LibAddFacts
  <2>2. CASE /\ \E u \in LibThreads : lib_list[k][u] > IF u = t THEN 1 ELSE 0
             /\ UNCHANGED <<lib_pc, lib_arg>>
    <3>1. CASE k = m
      <4>1. LibListed(m) /\ LibListed(m)'
        BY <1>0, <2>0, <2>1, <2>2, <3>1
      <4> QED
        BY <1>m, <2>0, <2>2, <4>1 DEF LibModInv
    <3>2. CASE k # m
      BY <1>a, <2>0, <2>1, <2>2, <3>2
    <3> QED
      BY <3>1, <3>2
  <2>3. CASE /\ ~\E u \in LibThreads : lib_list[k][u] > IF u = t THEN 1 ELSE 0
             /\ LibGoto(t, "clear_send", k)
    <3>1. /\ lib_pc'[t] = "clear_send" /\ lib_arg'[t] = k
          /\ \A u \in LibThreads : u # t =>
               lib_pc'[u] = lib_pc[u] /\ lib_arg'[u] = lib_arg[u]
      BY <1>0, <2>3, LibGotoFacts
    <3>2. CASE k = m
      <4>1. LibListed(m) /\ ~LibListed(m)'
        BY <1>0, <2>0, <2>1, <2>3, <3>2
      <4> QED
        BY <1>m, <2>0, <3>1, <3>2, <4>1 DEF LibModInv
    <3>3. CASE k # m
      BY <1>a, <2>0, <2>1, <3>1, <3>3 DEF LibWithMod
    <3> QED
      BY <3>2, <3>3
  <2> QED
    BY <1>12, <2>2, <2>3 DEF LibClearOne
<1>13. ASSUME NEW t \in LibThreads, LibClearSend(t)
       PROVE  LibModInv(m)'
  <2>1. /\ lib_pc[t] = "clear_send" /\ lib_pc'[t] = "clear_funcs"
        /\ lib_arg'[t] = lib_arg[t]
        /\ \A u \in LibThreads : u # t =>
             lib_pc'[u] = lib_pc[u] /\ lib_arg'[u] = lib_arg[u]
        /\ UNCHANGED <<lib_list, func_list>>
        /\ \/ lib_loaded' = lib_loaded \ {lib_arg[t]}
           \/ lib_arg[t] # m /\ UNCHANGED lib_loaded
    BY <1>0, <1>13, <1>m, LibGotoFacts DEF LibClearSend, LibUnloaded
  <2>0. \A u \in LibThreads : lib_list[lib_arg[t]][u] = 0
    BY <1>0, <2>1 DEF LibCallInv
  <2>2. CASE lib_arg[t] = m
    BY <1>m, <2>0, <2>1, <2>2 DEF LibModInv
  <2>3. CASE lib_arg[t] # m
    BY <1>a, <2>1, <2>3
  <2> QED
    BY <2>2, <2>3
<1>14. ASSUME NEW t \in LibThreads, LibClearFuncs(t)
       PROVE  LibModInv(m)'
  <2>1. lib_pc[t] = "clear_funcs" /\ UNCHANGED <<lib_list, lib_loaded>>
    BY <1>14 DEF LibClearFuncs
  <2>2. CASE /\ \E e \in LibOf(lib_arg[t]) : LibEdit(t, func_list \ {e})
             /\ UNCHANGED <<lib_pc, lib_arg>>
    <3>1. PICK e \in LibOf(lib_arg[t]) : func_list' = func_list \ {e}
      BY <1>t, <2>2, LibEditFacts
    <3>2. CASE lib_arg[t] = m
      BY <1>m, <2>1, <2>2, <3>1, <3>2 DEF LibModInv
    <3>3. CASE lib_arg[t] # m
      <4>1. LibOf(m)' = LibOf(m)
        BY <3>1, <3>3
      <4> QED
        BY <1>a, <2>1, <2>2, <4>1
    <3> QED
      BY <3>2, <3>3
  <2>3. CASE /\ LibOf(lib_arg[t]) = {} \/ lib_torn
             /\ LibGoto(t, "clear", LibNone)
             /\ UNCHANGED lib_funcs
    <3>1. /\ lib_pc'[t] = "clear" /\ lib_arg'[t] = LibNone
          /\ \A u \in LibThreads : u # t =>
               lib_pc'[u] = lib_pc[u] /\ lib_arg'[u] = lib_arg[u]
      BY <1>0, <2>3, LibGotoFacts
    <3>2. LibOf(lib_arg[t]) = {} /\ UNCHANGED func_list
      BY <2>3
    <3>3. CASE lib_arg[t] = m
      BY <1>m, <2>1, <3>1, <3>2, <3>3 DEF LibModInv
    <3>4. CASE lib_arg[t] # m
      BY <1>a, <2>1, <3>1, <3>2, <3>4
    <3> QED
      BY <3>3, <3>4
  <2> QED
    BY <1>14, <2>2, <2>3 DEF LibClearFuncs
<1> QED
  BY <1>1, <1>2, <1>3, <1>4, <1>5, <1>6, <1>7, <1>8, <1>9, <1>10, <1>11, <1>12,
     <1>13, <1>14
     DEF LibNext, LibStep

-----------------------------------------------------------------------------
(* Functions.                                                                *)

(* A list that is torn upsets every library: nothing is claimed any more.    *)
LEMMA LibTornUpset ==
  ASSUME LibTypeOK', LibCallInv', lib_torn'
  PROVE  LibModsInv' /\ LibNumbersInv' /\ LibFunctionsKnown'
<1>1. LibUpset' = LibMods
  BY DEF LibUpset
<1>2. \A e \in LibEntries' : e.fn \in LibFuncs
  BY DEF LibEntries, LibSending, LibCallInv, LibGetting, LibTypeOK
<1>3. \A e \in LibEntries' : LibModOf[e.fn] \in LibUpset'
  BY <1>1, <1>2, LibAssumption
<1>4. func_list' \subseteq LibEntries'
  BY DEF LibEntries
<1> QED
  BY <1>1, <1>3, <1>4 DEF LibModsInv, LibNumbersInv, LibFunctionsKnown

LEMMA LibNumbersStep ==
  ASSUME LibInv, LibNext, ~lib_torn'
  PROVE  LibNumbersInv'
<1> USE DEF lib_driver, lib_local, lib_fw, lib_funcs
<1>0. LibTypeOK /\ LibUpset \subseteq LibUpset' /\ lib_torn \in BOOLEAN
  BY LibUpsetGrows DEF LibInv, LibTypeOK
<1>1. CASE LibEntries' \subseteq LibEntries
  BY <1>0, <1>1 DEF LibInv, LibNumbersInv
<1>2. ASSUME NEW t \in LibThreads, LibGetAdd(t)
      PROVE  LibNumbersInv'
  <2> DEFINE new == [fn |-> lib_arg[t], id |-> lib_id[t]]
  <2>1. LibEntries' \subseteq LibEntries \cup {new}
    <3>1. func_list' = func_list \cup {new}
      BY <1>0, <1>2, LibEditFacts DEF LibGetAdd
    <3>2. /\ lib_arg'[t] = lib_arg[t] /\ lib_id' = lib_id
          /\ \A u \in LibThreads : u # t =>
               lib_pc'[u] = lib_pc[u] /\ lib_arg'[u] = lib_arg[u]
      BY <1>0, <1>2, LibGotoFacts DEF LibGetAdd
    <3> QED
      BY <3>1, <3>2 DEF LibEntries, LibSending
  <2>2. ASSUME NEW d \in LibEntries, d.id = lib_id[t]
        PROVE  LibModOf[d.fn] \in LibUpset' /\ LibModOf[lib_arg[t]] \in LibUpset'
    <3>1. d.fn \in LibSameId(lib_id[t])
      BY <2>2 DEF LibSameId, LibEntries, LibSending
    <3>2. {LibModOf[d.fn], LibModOf[lib_arg[t]]} \subseteq lib_failed'
      BY <1>2, <3>1 DEF LibGetAdd
    <3> QED
      BY <1>0, <3>2, LibUpsetGrows
  <2>3. ASSUME NEW e \in LibEntries', NEW d \in LibEntries', e.id = d.id, e # d
        PROVE  LibModOf[e.fn] \in LibUpset' /\ LibModOf[d.fn] \in LibUpset'
    <3>1. CASE e \in LibEntries /\ d \in LibEntries
      BY <1>0, <2>3, <3>1 DEF LibInv, LibNumbersInv
    <3>2. CASE e \in LibEntries /\ d = new
      <4>1. d.id = lib_id[t] /\ d.fn = lib_arg[t]
        BY <3>2
      <4> QED
        BY <2>2, <2>3, <3>2, <4>1
    <3>3. CASE e = new /\ d \in LibEntries
      <4>1. e.id = lib_id[t] /\ e.fn = lib_arg[t]
        BY <3>3
      <4> QED
        BY <2>2, <2>3, <3>3, <4>1
    <3> QED
      BY <2>1, <2>3, <3>1, <3>2, <3>3
  <2> QED
    BY <2>3 DEF LibNumbersInv
(* Any other step adds no entry, and sends nothing new.                      *)
<1>3. ASSUME NEW t \in LibThreads, LibStep(t), ~LibGetAdd(t)
      PROVE  LibEntries' \subseteq LibEntries
  <2>1. func_list' \subseteq func_list
    <3>1. CASE LibUnloadFuncs(t)
      BY <1>0, <3>1, LibEditFacts DEF LibUnloadFuncs
    <3>2. CASE LibClearFuncs(t)
      <4>1. CASE UNCHANGED lib_funcs
        BY <4>1
      <4>2. CASE \E e \in LibOf(lib_arg[t]) : LibEdit(t, func_list \ {e})
        BY <1>0, <4>2, LibEditFacts
      <4> QED
        BY <3>2, <4>1, <4>2 DEF LibClearFuncs
    <3> QED
      BY <1>3, <3>1, <3>2 DEF LibStep, LibLoad, LibLoadAdd, LibLoadSend, LibGetFunc,
         LibGetId, LibGetInc, LibGetSend, LibUnload, LibUnloadCheck,
         LibUnloadSend, LibClear, LibClearOne, LibClearSend, LibClearEnd
  <2>2. /\ UNCHANGED <<lib_pc, lib_arg>> \/ \E p, a : LibGoto(t, p, a) /\ p # "get_send"
        /\ \A u \in LibThreads \ {t} : lib_id'[u] = lib_id[u]
        /\ lib_pc[t] = "get_send" => LibGetSend(t)
    <3>1. CASE \E m \in LibMods : LibLoad(t, m) \/ LibUnload(t, m) \/ LibClearOne(t, m)
      BY <3>1 DEF LibLoad, LibUnload, LibClearOne
    <3>2. CASE \E fn \in LibFuncs : LibGetFunc(t, fn)
      BY <3>2 DEF LibGetFunc
    <3>3. CASE LibLoadAdd(t) \/ LibLoadSend(t) \/ LibGetInc(t)
      BY <3>3 DEF LibLoadAdd, LibLoadSend, LibGetInc
    <3>4. CASE LibGetId(t) \/ LibGetSend(t)
      BY <1>0, <3>4 DEF LibGetId, LibGetSend, LibTypeOK
    <3>5. CASE LibUnloadCheck(t) \/ LibUnloadFuncs(t) \/ LibUnloadSend(t)
      BY <3>5 DEF LibUnloadCheck, LibUnloadFuncs, LibUnloadSend
    <3>6. CASE LibClear(t) \/ LibClearSend(t) \/ LibClearFuncs(t) \/ LibClearEnd(t)
      BY <3>6 DEF LibClear, LibClearSend, LibClearFuncs, LibClearEnd
    <3> QED
      BY <1>3, <3>1, <3>2, <3>3, <3>4, <3>5, <3>6 DEF LibStep
  <2>3. \A u \in LibThreads :
          lib_pc'[u] = "get_send" =>
            /\ lib_pc[u] = "get_send" /\ lib_arg'[u] = lib_arg[u]
            /\ lib_id'[u] = lib_id[u]
    <3>1. CASE \E p, a : LibGoto(t, p, a) /\ p # "get_send"
      BY <1>0, <2>2, <3>1, LibGotoFacts
    <3>2. CASE UNCHANGED <<lib_pc, lib_arg>>
      <4>1. lib_pc[t] # "get_send"
        BY <1>0, <2>2, <3>2, LibGotoFacts DEF LibGetSend
      <4> QED
        BY <2>2, <3>2, <4>1
    <3> QED
      BY <2>2, <3>1, <3>2
  <2> QED
    BY <2>1, <2>3 DEF LibEntries, LibSending
<1> QED
  BY <1>1, <1>2, <1>3 DEF LibNext

LEMMA LibKnownStep ==
  ASSUME LibInv, LibNext, ~lib_torn'
  PROVE  LibFunctionsKnown'
<1> USE LibAssumption DEF lib_driver, lib_local, lib_fw, lib_funcs, LibAt, LibOf
<1>0. /\ LibTypeOK /\ LibCallInv /\ LibUpset \subseteq LibUpset'
      /\ LibUpset' = lib_failed' \cup lib_raced' /\ lib_torn \in BOOLEAN
  BY LibUpsetGrows DEF LibInv, LibTypeOK
<1> DEFINE Telling(u, e) ==
             \/ lib_pc[u] = "get_send" /\ lib_arg[u] = e.fn /\ lib_id[u] = e.id
             \/ LibAt(u, {"clear_funcs"}, LibModOf[e.fn])
<1> SUFFICES ASSUME NEW e \in func_list', LibModOf[e.fn] \notin LibUpset'
             PROVE  \/ lib_known'[e.id] = e.fn
                    \/ \E u \in LibThreads : Telling(u, e)'
  BY DEF LibFunctionsKnown
<1> DEFINE Known == lib_known'[e.id] = e.fn \/ \E u \in LibThreads : Telling(u, e)'
<1>b. e \in func_list =>
        lib_known[e.id] = e.fn \/ \E u \in LibThreads : Telling(u, e)
  BY <1>0 DEF LibInv, LibFunctionsKnown
<1>c. e \in func_list => e.fn \in LibFuncs /\ e.id \in LibIds
  BY <1>0 DEF LibTypeOK
(* Who is about to tell or to remove a function stays there.                 *)
<1>a. ASSUME e \in func_list, lib_known'[e.id] = lib_known[e.id],
             \A u \in LibThreads : Telling(u, e) =>
               lib_pc'[u] = lib_pc[u] /\ lib_arg'[u] = lib_arg[u] /\ lib_id'[u] = lib_id[u]
      PROVE  Known
  BY <1>a, <1>b
<1>1. ASSUME NEW t \in LibThreads,
             \/ \E m \in LibMods : LibLoad(t, m) \/ LibUnload(t, m) \/ LibClearOne(t, m)
             \/ \E fn \in LibFuncs : LibGetFunc(t, fn)
             \/ LibLoadAdd(t) \/ LibLoadSend(t) \/ LibGetId(t) \/ LibGetInc(t)
             \/ LibUnloadCheck(t) \/ LibUnloadFuncs(t) \/ LibClear(t) \/ LibClearEnd(t)
      PROVE  Known
  <2>1. /\ func_list' \subseteq func_list /\ UNCHANGED lib_known
        /\ lib_pc[t] \notin {"get_send", "clear_funcs"}
    <3>1. LibUnloadFuncs(t) => func_list' \subseteq func_list
      BY <1>0, LibEditFacts DEF LibUnloadFuncs
    <3> QED
      BY <1>1, <3>1 DEF LibLoad, LibUnload, LibClearOne, LibGetFunc, LibLoadAdd, LibLoadSend,
                LibGetId, LibGetInc, LibUnloadCheck, LibUnloadFuncs, LibClear, LibClearEnd
  <2>2. UNCHANGED <<lib_pc, lib_arg>> \/ \E p, a : LibGoto(t, p, a)
    <3>1. CASE \E m \in LibMods : LibLoad(t, m) \/ LibUnload(t, m) \/ LibClearOne(t, m)
      BY <3>1 DEF LibLoad, LibUnload, LibClearOne
    <3>2. CASE \E fn \in LibFuncs : LibGetFunc(t, fn)
      BY <3>2 DEF LibGetFunc
    <3>3. CASE LibLoadAdd(t) \/ LibLoadSend(t) \/ LibGetId(t) \/ LibGetInc(t)
      BY <3>3 DEF LibLoadAdd, LibLoadSend, LibGetId, LibGetInc
    <3>4. CASE LibUnloadCheck(t) \/ LibUnloadFuncs(t) \/ LibClear(t) \/ LibClearEnd(t)
      BY <3>4 DEF LibUnloadCheck, LibUnloadFuncs, LibClear, LibClearEnd
    <3> QED
      BY <1>1, <3>1, <3>2, <3>3, <3>4
  <2>3. \A u \in LibThreads \ {t} : lib_id'[u] = lib_id[u]
    BY <1>0, <1>1 DEF LibTypeOK, LibLoad, LibUnload, LibClearOne, LibGetFunc, LibLoadAdd,
                LibLoadSend, LibGetId, LibGetInc, LibUnloadCheck, LibUnloadFuncs,
                LibClear, LibClearEnd
  <2>4. \A u \in LibThreads \ {t} : lib_pc'[u] = lib_pc[u] /\ lib_arg'[u] = lib_arg[u]
    BY <1>0, <2>2, LibGotoFacts
  <2>5. \A u \in LibThreads : Telling(u, e) => u # t
    BY <2>1
  <2> QED
    BY <1>a, <2>1, <2>3, <2>4, <2>5
<1>2. ASSUME NEW t \in LibThreads, LibGetAdd(t)
      PROVE  Known
  <2>1. /\ lib_pc[t] = "get_add" /\ lib_pc'[t] = "get_send"
        /\ lib_arg'[t] = lib_arg[t] /\ UNCHANGED <<lib_id, lib_known>>
        /\ \A u \in LibThreads : u # t =>
             lib_pc'[u] = lib_pc[u] /\ lib_arg'[u] = lib_arg[u]
        /\ func_list' = func_list \cup {[fn |-> lib_arg[t], id |-> lib_id[t]]}
    <3>1. func_list' = func_list \cup {[fn |-> lib_arg[t], id |-> lib_id[t]]}
      BY <1>0, <1>2, LibEditFacts DEF LibGetAdd
    <3> QED
      BY <1>0, <1>2, <3>1, LibGotoFacts DEF LibGetAdd
  <2>2. CASE e \in func_list
    BY <1>a, <2>1, <2>2
  <2>3. CASE e = [fn |-> lib_arg[t], id |-> lib_id[t]]
    <3>1. Telling(t, e)'
      BY <2>1, <2>3
    <3> QED
      BY <3>1
  <2> QED
    BY <2>1, <2>2, <2>3
(* The message tells the function, for the library is loaded: it is listed   *)
(* and nobody has yet to send its load. An entry it overwrites belongs to an *)
(* upset library.                                                            *)
<1>3. ASSUME NEW t \in LibThreads, LibGetSend(t)
      PROVE  Known
  <2>1. /\ lib_pc[t] = "get_send" /\ lib_pc'[t] = "idle" /\ UNCHANGED func_list
        /\ \A u \in LibThreads : u # t =>
             lib_pc'[u] = lib_pc[u] /\ lib_arg'[u] = lib_arg[u] /\ lib_id'[u] = lib_id[u]
    BY <1>0, <1>3, LibGotoFacts DEF LibGetSend, LibTypeOK
  <2>2. /\ lib_arg[t] \in LibFuncs /\ LibModOf[lib_arg[t]] \in LibMods
        /\ lib_list[LibModOf[lib_arg[t]]][t] > 0
        /\ [fn |-> lib_arg[t], id |-> lib_id[t]] \in LibEntries
        /\ lib_id[t] \in LibIds
    BY <1>0, <2>1 DEF LibCallInv, LibGetting, LibTypeOK, LibEntries, LibSending
  <2>3. CASE e.fn = lib_arg[t] /\ e.id = lib_id[t]
    <3>1. LibModInv(LibModOf[lib_arg[t]])
      BY <1>0, <2>2, <2>3 DEF LibInv, LibModsInv
    <3>2. LibModOf[lib_arg[t]] \in lib_loaded
      BY <2>1, <2>2, <3>1 DEF LibModInv, LibRace, LibListed
    <3>3. lib_known' = [lib_known EXCEPT ![lib_id[t]] = lib_arg[t]]
      BY <1>0, <1>3, <2>3, <3>2 DEF LibGetSend
    <3> QED
      BY <1>0, <2>2, <2>3, <3>3 DEF LibTypeOK
  <2>4. CASE ~(e.fn = lib_arg[t] /\ e.id = lib_id[t])
    <3>1. e # [fn |-> lib_arg[t], id |-> lib_id[t]]
      BY <2>4
    <3>2. e.id # lib_id[t]
      <4>1. e \in LibEntries /\ LibModOf[e.fn] \notin LibUpset
        BY <1>0, <2>1 DEF LibEntries
      <4>2. e.id # [fn |-> lib_arg[t], id |-> lib_id[t]].id
        BY <2>2, <3>1, <4>1 DEF LibInv, LibNumbersInv
      <4> QED
        BY <4>2
    <3>3. lib_known'[e.id] = lib_known[e.id]
      BY <1>0, <1>3, <3>2 DEF LibGetSend, LibTypeOK
    <3>4. \A u \in LibThreads : Telling(u, e) => u # t
      BY <2>1, <2>4
    <3> QED
      BY <1>a, <2>1, <3>3, <3>4
  <2> QED
    BY <2>3, <2>4
(* Nothing is left of a library about to be unloaded.                        *)
<1>4. ASSUME NEW t \in LibThreads, LibUnloadSend(t)
      PROVE  Known
  <2>1. /\ lib_pc[t] = "unload_send" /\ UNCHANGED <<func_list, lib_id>>
        /\ \A u \in LibThreads : u # t =>
             lib_pc'[u] = lib_pc[u] /\ lib_arg'[u] = lib_arg[u]
    BY <1>0, <1>4, LibGotoFacts DEF LibUnloadSend
  <2>2. lib_arg[t] \in LibMods
    BY <1>0, <2>1 DEF LibCallInv, LibWithMod
  <2>3. LibModOf[e.fn] # lib_arg[t]
    BY <1>0, <2>1, <2>2 DEF LibInv, LibModsInv, LibModInv
  <2>4. lib_known[e.id] = e.fn => lib_known'[e.id] = lib_known[e.id]
    BY <1>4, <1>c, <2>1, <2>3 DEF LibUnloadSend, LibUnloaded
  <2>5. \A u \in LibThreads : Telling(u, e) => u # t
    BY <2>1
  <2> QED
    BY <1>b, <2>1, <2>4, <2>5
<1>5. ASSUME NEW t \in LibThreads, LibClearSend(t)
      PROVE  Known
  <2>1. /\ lib_pc[t] = "clear_send" /\ lib_pc'[t] = "clear_funcs"
        /\ lib_arg'[t] = lib_arg[t] /\ UNCHANGED <<func_list, lib_id>>
        /\ \A u \in LibThreads : u # t =>
             lib_pc'[u] = lib_pc[u] /\ lib_arg'[u] = lib_arg[u]
    BY <1>0, <1>5, LibGotoFacts DEF LibClearSend
  <2>2. CASE LibModOf[e.fn] = lib_arg[t]
    BY <2>1, <2>2
  <2>3. CASE LibModOf[e.fn] # lib_arg[t]
    <3>1. lib_known[e.id] = e.fn => lib_known'[e.id] = lib_known[e.id]
      BY <1>5, <1>c, <2>1, <2>3 DEF LibClearSend, LibUnloaded
    <3>2. \A u \in LibThreads : Telling(u, e) => u # t
      BY <2>1
    <3> QED
      BY <1>b, <2>1, <3>1, <3>2
  <2> QED
    BY <2>2, <2>3
<1>6. ASSUME NEW t \in LibThreads, LibClearFuncs(t)
      PROVE  Known
  <2>1. lib_pc[t] = "clear_funcs" /\ UNCHANGED <<lib_known, lib_id>>
    BY <1>6 DEF LibClearFuncs
  <2>2. CASE /\ \E d \in LibOf(lib_arg[t]) : LibEdit(t, func_list \ {d})
             /\ UNCHANGED <<lib_pc, lib_arg>>
    <3>1. e \in func_list
      BY <1>0, <2>2, LibEditFacts
    <3> QED
      BY <1>a, <2>1, <2>2, <3>1
  <2>3. CASE /\ LibOf(lib_arg[t]) = {} \/ lib_torn
             /\ LibGoto(t, "clear", LibNone)
             /\ UNCHANGED lib_funcs
    <3>1. \A u \in LibThreads : u # t =>
            lib_pc'[u] = lib_pc[u] /\ lib_arg'[u] = lib_arg[u]
      BY <1>0, <2>3, LibGotoFacts
    <3>2. e \in func_list /\ LibModOf[e.fn] # lib_arg[t]
      BY <2>3
    <3>3. \A u \in LibThreads : Telling(u, e) => u # t
      BY <2>1, <3>2
    <3> QED
      BY <1>a, <2>1, <3>1, <3>2, <3>3
  <2> QED
    BY <1>6, <2>2, <2>3 DEF LibClearFuncs
<1> QED
  BY <1>1, <1>2, <1>3, <1>4, <1>5, <1>6 DEF LibNext, LibStep

-----------------------------------------------------------------------------
(* The theorems.                                                             *)

LEMMA LibInvInit ==
  ASSUME LibInit
  PROVE  LibInv
<1> USE LibAssumption DEF LibInit
<1>1. LibTypeOK
  <2>1. lib_list \in [LibMods -> [LibThreads -> Nat]]
    OBVIOUS
  <2>2. lib_id \in [LibThreads -> LibIds]
    BY DEF LibIds
  <2>3. lib_known \in [LibIds -> LibFuncs \cup {LibNone}]
    OBVIOUS
  <2>4. lib_pc \in [LibThreads -> {"idle"}] /\ lib_arg \in [LibThreads -> {LibNone}]
    OBVIOUS
  <2>5. /\ func_list = {} /\ lib_loaded = {} /\ lib_failed = {} /\ lib_raced = {}
        /\ f_id \in Nat /\ lib_torn \in BOOLEAN
    OBVIOUS
  <2> HIDE DEF LibInit
  <2> QED
    BY <2>1, <2>2, <2>3, <2>4, <2>5 DEF LibTypeOK
<1>2. LibCallInv
  BY DEF LibCallInv, LibWithMod, LibGetting, LibClearing
<1>3. LibModsInv
  <2> SUFFICES ASSUME NEW m \in LibMods
               PROVE  LibModInv(m)
    BY DEF LibModsInv
  <2>1. /\ \A t \in LibThreads : lib_pc[t] = "idle"
        /\ ~LibListed(m) /\ LibOf(m) = {} /\ m \notin lib_loaded
    BY DEF LibListed, LibOf
  <2> HIDE DEF LibInit
  <2> QED
    BY <2>1 DEF LibModInv, LibRace, LibAt, LibUnloading
<1>4. LibNumbersInv /\ LibFunctionsKnown
  BY DEF LibNumbersInv, LibFunctionsKnown, LibEntries, LibSending
<1> QED
  BY <1>1, <1>2, <1>3, <1>4 DEF LibInv

LEMMA LibInvStep ==
  ASSUME LibInv, [LibNext]_lib_vars
  PROVE  LibInv'
<1>1. CASE LibNext
  <2>1. LibTypeOK' /\ LibCallInv'
    BY <1>1, LibTypeStep, LibCallStep DEF LibInv
  <2>2. CASE lib_torn'
    <3>1. LibModsInv' /\ LibNumbersInv' /\ LibFunctionsKnown'
      BY <2>1, <2>2, LibTornUpset
    <3> QED
      BY <2>1, <3>1 DEF LibInv
  <2>3. CASE ~lib_torn'
    BY <1>1, <2>1, <2>3, LibModStep, LibNumbersStep, LibKnownStep DEF LibInv
  <2> QED
    BY <2>2, <2>3
<1>2. CASE UNCHANGED lib_vars
  <2> USE <1>2 DEF lib_vars, lib_driver, lib_local, lib_fw, lib_funcs
  <2>1. LibTypeOK' /\ LibCallInv'
    BY DEF LibInv, LibTypeOK, LibCallInv
  <2>2. LibUpset' = LibUpset /\ LibEntries' = LibEntries
    BY DEF LibUpset, LibEntries, LibSending
  <2>3. LibModsInv'
    BY <2>2 DEF LibInv, LibModsInv, LibModInv, LibRace, LibAt, LibListed, LibOf
  <2>4. LibNumbersInv'
    BY <2>2 DEF LibInv, LibNumbersInv
  <2>5. LibFunctionsKnown'
    BY <2>2 DEF LibInv, LibFunctionsKnown, LibAt
  <2> QED
    BY <2>1, <2>3, <2>4, <2>5 DEF LibInv
<1> QED
  BY <1>1, <1>2

LEMMA LibInvHolds == LibSpec => []LibInv
BY LibInvInit, LibInvStep, PTL DEF LibSpec

(* Every variable stays in its range: the number of a function is below the  *)
(* bound and a thread never has a negative number of loads, whichever loads  *)
(* bmdrv_api_dyn_unload_lib_process and bmdrv_api_clear_lib take away.       *)
THEOREM LibTypesHold == LibSpec => []LibTypeOK
<1>1. LibInv => LibTypeOK
  BY DEF LibInv
<1> QED
  BY <1>1, LibInvHolds, PTL

(* As long as no message is lost, no unload meets a load and no unlocked     *)
(* removal of bmdrv_api_clear_lib meets an edit of the list, the firmware    *)
(* has exactly the libraries some thread has loaded, apart from those whose  *)
(* load or unload is under way, although bmdrv_api_dyn_unload_lib_process    *)
(* decides, removes the functions and sends in separate steps.               *)
THEOREM LibLoadedIsExact == LibSpec => []LibLoadedExact
<1>1. ASSUME LibInv
      PROVE  LibLoadedExact
  <2>1. ASSUME NEW m \in LibMods \ LibUpset
        PROVE  LibModInv(m)
    BY <1>1 DEF LibInv, LibModsInv
  <2>2. LibHeldLoaded
    BY <2>1 DEF LibHeldLoaded, LibModInv
  <2>3. LibGoneUnloaded
    BY <2>1 DEF LibGoneUnloaded, LibModInv, LibAt
  <2> QED
    BY <2>2, <2>3 DEF LibLoadedExact
<1> QED
  BY <1>1, LibInvHolds, PTL

(* What bmdrv_api_dyn_get_func_process answers from its list is a number the *)
(* firmware knows the function by, or is about to be told or to forget, but  *)
(* for the libraries upset by a lost message, a race, a torn list or a       *)
(* number drawn twice.                                                       *)
THEOREM LibFunctionsAreKnown == LibSpec => []LibFunctionsKnown
<1>1. LibInv => LibFunctionsKnown
  BY DEF LibInv
<1> QED
  BY <1>1, LibInvHolds, PTL

=============================================================================
