------------------------------ MODULE MCBmApi ------------------------------
(* Two threads that share one or two handles, and what each of them calls.   *)
EXTENDS BmApi, TLC

CONSTANTS t1, t2

All(calls) == [t \in Threads |-> calls]

XpuCalls == All({"XPU", "close", "thread_sync", "handle_sync", "device_sync"})
ListCalls == (t1 :> {"XPU", "CPU", "device_sync"}) @@ (t2 :> {"CPU", "query"})
LiveCalls == (t1 :> {"XPU", "thread_sync"}) @@ (t2 :> {"CPU", "thread_sync"})
DeviceSyncCalls == All({"XPU", "device_sync"})
HandleSyncCalls == All({"XPU", "CPU", "handle_sync"})
ThreadSyncCalls == All({"XPU", "thread_sync"})

Symmetry == Permutations(Threads) \cup Permutations(Handles)
=============================================================================
