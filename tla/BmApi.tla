------------------------------- MODULE BmApi -------------------------------
(* How APIs are submitted to the card, completed and waited for              *)
(* (driver/bm_api.c, bm_msgfifo.c, bm_thread.c, bm_fops.c): threads send     *)
(* APIs on the XPU and the CPU channel through open handles, the firmware    *)
(* executes each channel's messages in order, the threaded interrupt handler *)
(* completes them, and three kinds of sync wait for completions.             *)
(* The words of the fifos are the subject of MsgFifo; here a channel's ring  *)
(* is the sequence of messages between sw_rp and WP, and all messages have   *)
(* the same length, so that RingMsgs of them fit.                            *)
EXTENDS Integers, Sequences, FiniteSets, SequencesExt, NumberSets

CONSTANTS
  Threads, Handles,
  RingMsgs,      \* messages that fit into the ring of a channel
  FifoEntries,   \* entries that fit into the kfifo api_fifo
  CountedIrq,    \* TRUE: bm1682 counts its interrupts; FALSE: bm1684
  MaxSeq,        \* bound on bm_send_api_seq
  MaxSyncs,      \* bound on the device sync markers of a channel
  Calls,         \* the channels a thread sends on, and its other system calls
  Timeouts,      \* the waits that may last longer than delay_ms
  NoThread, NoHandle

ASSUME ApiAssumption ==
  /\ RingMsgs \in Nat \ {0} /\ FifoEntries \in Nat \ {0}
  /\ CountedIrq \in BOOLEAN /\ Timeouts \subseteq {"send", "query", "sync"}
  /\ Calls \in [Threads -> SUBSET {"XPU", "CPU", "close", "query", "thread_sync",
                                  "handle_sync", "device_sync"}]
  /\ MaxSeq \in Nat /\ MaxSyncs \in Nat
  /\ NoThread \notin Threads /\ NoHandle \notin Handles

Channels == {"XPU", "CPU"}

VARIABLES
  handle_list,  \* open handles
  h_send_api_seq, h_cpl_api_seq,
  threads,      \* pairs <<handle, thread>> with a bm_thread_info
  last_api_seq, cpl_api_seq,
  bm_send_api_seq,
  ring,         \* messages sent and not released, per channel
  executed,     \* how many of them the firmware has executed (RP)
  irq,          \* interrupts raised and not handled, per channel
  api_fifo,     \* XPU: the entries of the kfifo
  api_list,     \* CPU: the entries of the list
  device_sync_last, device_sync_cpl,
  dev_sync_done,  \* the count of the completion dev_sync_done
  api_mutex,    \* its holder, per channel
  pc, loc,      \* the system call each thread is in, and its locals
  handler       \* the interrupt handler: its channel and pending count

handles == <<handle_list, h_send_api_seq, h_cpl_api_seq>>
thds    == <<threads, last_api_seq, cpl_api_seq>>
card    == <<executed, irq>>
syncs   == <<device_sync_last, device_sync_cpl, dev_sync_done>>
vars == <<handles, thds, bm_send_api_seq, ring, card, api_fifo, api_list,
          syncs, api_mutex, pc, loc, handler>>

-----------------------------------------------------------------------------
(* Entries of api_fifo and api_list: an API, or a device sync marker. flag   *)
(* is api_done_flag as the set of its bits; that of a marker is never        *)
(* initialised, and neither is anything else the list scan looks at.         *)
Api(s, h, t) == [kind |-> "api", seq |-> s, h |-> h, t |-> t, flag |-> {}]
Marker(k, garbage) == [kind |-> "marker", seq |-> k, h |-> NoHandle,
                       t |-> NoThread, flag |-> garbage]
IsMarker(e) == e.kind = "marker"
Flags == {"DONE", "WAIT", "FINISH"}

Message(s, h, t) == [seq |-> s, h |-> h, t |-> t]

(* Messages the firmware has not yet executed.                               *)
Outstanding == UNION {{ring[c][i] : i \in executed[c] + 1 .. Len(ring[c])}
                      : c \in Channels}
SeqsOf(ms) == {m.seq : m \in ms}

Idle == [h |-> NoHandle, c |-> "XPU", seq |-> 0, owed |-> {}]
Goto(t, p) == pc' = [pc EXCEPT ![t] = p]
Return(t) == Goto(t, "idle") /\ loc' = [loc EXCEPT ![t] = Idle]
Locals(t, h, c, s, owed) ==
  loc' = [loc EXCEPT ![t] = [h |-> h, c |-> c, seq |-> s, owed |-> owed]]

(* Thread t is outside the driver and h is open to it.                       *)
MayCall(t, h) == /\ pc[t] = "idle" /\ h \in handle_list
                 /\ \A u \in Threads : ~(pc[u] = "close" /\ loc[u].h = h)

(* api_fifo_mutex of a channel is free: the interrupt handler holds it while *)
(* it works on that channel.                                                 *)
FifoFree(c) == handler.on # c

Init ==
  /\ handle_list = {}
  /\ h_send_api_seq = [h \in Handles |-> 0]
  /\ h_cpl_api_seq = [h \in Handles |-> 0]
  /\ threads = {}
  /\ last_api_seq = [x \in Handles \X Threads |-> 0]
  /\ cpl_api_seq = [x \in Handles \X Threads |-> 0]
  /\ bm_send_api_seq = 0
  /\ ring = [c \in Channels |-> <<>>]
  /\ executed = [c \in Channels |-> 0]
  /\ irq = [c \in Channels |-> 0]
  /\ api_fifo = <<>> /\ api_list = <<>>
  /\ device_sync_last = [c \in Channels |-> 0]
  /\ device_sync_cpl = [c \in Channels |-> 0]
  /\ dev_sync_done = [c \in Channels |-> 0]
  /\ api_mutex = [c \in Channels |-> NoThread]
  /\ pc = [t \in Threads |-> "idle"]
  /\ loc = [t \in Threads |-> Idle]
  /\ handler = [on |-> "none", pending |-> 0]

-----------------------------------------------------------------------------
(* Handles.                                                                  *)

(* bmdrv_create_thread_info.                                                 *)
CreateThreadInfo(x) ==
  /\ threads' = threads \cup {x}
  /\ last_api_seq' = [last_api_seq EXCEPT ![x] = 0]
  /\ cpl_api_seq' = [cpl_api_seq EXCEPT ![x] = 0]

(* An entry still names the handle: kmalloc is assumed not to hand out its   *)
(* address again before that.                                                *)
Named(h) == \/ \E i \in DOMAIN api_fifo : api_fifo[i].h = h
            \/ \E i \in DOMAIN api_list : api_list[i].h = h

(* bmdev_open, by thread t.                                                  *)
Open(t, h) ==
  /\ pc[t] = "idle" /\ h \notin handle_list /\ ~Named(h)
  /\ handle_list' = handle_list \cup {h}
  /\ h_send_api_seq' = [h_send_api_seq EXCEPT ![h] = 0]
  /\ h_cpl_api_seq' = [h_cpl_api_seq EXCEPT ![h] = 0]
  /\ CreateThreadInfo(<<h, t>>)
  /\ UNCHANGED <<bm_send_api_seq, ring, card, api_fifo, api_list, syncs,
                 api_mutex, pc, loc, handler>>

(* bmdev_close: the kernel calls it when no system call uses the file any    *)
(* more. No library is loaded, so bmdrv_api_clear_lib sends nothing. The     *)
(* invalidation needs api_mutex; which words it writes, MsgFifo says.        *)
Close(t, h) ==
  /\ "close" \in Calls[t]
  /\ pc[t] = "idle" /\ h \in handle_list
  /\ \A u \in Threads : loc[u].h # h
  /\ Goto(t, "close") /\ Locals(t, h, "XPU", 0, {})
  /\ UNCHANGED <<handles, thds, bm_send_api_seq, ring, card, api_fifo,
                 api_list, syncs, api_mutex, handler>>

(* Nobody looks at the numbers of a freed bm_handle_info or bm_thread_info:  *)
(* they are 0 here, so that states differ in nothing that does not matter.    *)
CloseFree(t) ==
  /\ pc[t] = "close" /\ api_mutex["XPU"] = NoThread
  /\ LET h == loc[t].h
         Zero(f) == [x \in DOMAIN f |-> IF x[1] = h THEN 0 ELSE f[x]]
     IN  /\ handle_list' = handle_list \ {h}
         /\ h_send_api_seq' = [h_send_api_seq EXCEPT ![h] = 0]
         /\ h_cpl_api_seq' = [h_cpl_api_seq EXCEPT ![h] = 0]
         /\ threads' = {x \in threads : x[1] # h}
         /\ last_api_seq' = Zero(last_api_seq)
         /\ cpl_api_seq' = Zero(cpl_api_seq)
  /\ Return(t)
  /\ UNCHANGED <<bm_send_api_seq, ring, card, api_fifo, api_list, syncs,
                 api_mutex, handler>>

-----------------------------------------------------------------------------
(* bmdrv_send_api.                                                           *)

(* Mutant: the numbers are drawn without api_mutex.                          *)
SendApiUnlocked(t, h, c) ==
  /\ MayCall(t, h) /\ c \in Calls[t]
  /\ bm_send_api_seq < MaxSeq
  /\ api_mutex' = [api_mutex EXCEPT ![c] = t]
  /\ IF <<h, t>> \in threads THEN UNCHANGED thds ELSE CreateThreadInfo(<<h, t>>)
  /\ bm_send_api_seq' = bm_send_api_seq + 1
  /\ Goto(t, "record") /\ Locals(t, h, c, bm_send_api_seq + 1, {})
  /\ UNCHANGED <<handles, ring, card, api_fifo, api_list, syncs, handler>>

(* Takes api_mutex, finds or creates the bm_thread_info of the caller, and   *)
(* draws the global sequence number.                                         *)
SendApi(t, h, c) ==
  /\ MayCall(t, h) /\ c \in Calls[t]
  /\ api_mutex[c] = NoThread
  /\ bm_send_api_seq < MaxSeq
  /\ api_mutex' = [api_mutex EXCEPT ![c] = t]
  /\ IF <<h, t>> \in threads THEN UNCHANGED thds ELSE CreateThreadInfo(<<h, t>>)
  /\ bm_send_api_seq' = bm_send_api_seq + 1
  /\ Goto(t, "record") /\ Locals(t, h, c, bm_send_api_seq + 1, {})
  /\ UNCHANGED <<handles, ring, card, api_fifo, api_list, syncs, handler>>

(* Records it as the last one of the handle and of the thread: a step of its *)
(* own, as a sender on the other channel may come between.                   *)
RecordSeq(t) ==
  /\ pc[t] = "record"
  /\ h_send_api_seq' = [h_send_api_seq EXCEPT ![loc[t].h] = loc[t].seq]
  /\ last_api_seq' = [last_api_seq EXCEPT ![<<loc[t].h, t>>] = loc[t].seq]
  /\ Goto(t, "wait")
  /\ UNCHANGED <<handle_list, h_cpl_api_seq, threads, cpl_api_seq,
                 bm_send_api_seq, ring, card, api_fifo, api_list, syncs,
                 api_mutex, loc, handler>>

WaitMsgfifo(t) ==
  /\ pc[t] = "wait" /\ Len(ring[loc[t].c]) < RingMsgs
  /\ Goto(t, "enqueue")
  /\ UNCHANGED <<handles, thds, bm_send_api_seq, ring, card, api_fifo,
                 api_list, syncs, api_mutex, loc, handler>>

(* -EBUSY: last_api_seq-- and api_mutex is released.                         *)
GiveUp(t) ==
  /\ last_api_seq' = [last_api_seq EXCEPT ![<<loc[t].h, t>>] = @ - 1]
  /\ api_mutex' = [api_mutex EXCEPT ![loc[t].c] = NoThread]
  /\ Return(t)
  /\ UNCHANGED <<handles, threads, cpl_api_seq, bm_send_api_seq, ring, card,
                 api_fifo, api_list, syncs, handler>>

(* The handler may have released words and not have signalled msg_done.      *)
WaitTimeout(t) ==
  /\ "send" \in Timeouts
  /\ pc[t] = "wait"
  /\ Len(ring[loc[t].c]) >= RingMsgs \/ ~FifoFree(loc[t].c)
  /\ GiveUp(t)

(* Mutant: room in api_fifo is compared off by one.                          *)
EnqueueOneMore(t) ==
  /\ pc[t] = "enqueue" /\ FifoFree(loc[t].c)
  /\ LET e == Api(loc[t].seq, loc[t].h, t)
     IN  \/ /\ loc[t].c = "XPU" /\ Len(api_fifo) <= FifoEntries
            /\ api_fifo' = Append(api_fifo, e)
            /\ UNCHANGED api_list
         \/ /\ loc[t].c = "CPU"
            /\ api_list' = Append(api_list, e)
            /\ UNCHANGED api_fifo
  /\ Goto(t, "copy")
  /\ UNCHANGED <<handles, thds, bm_send_api_seq, ring, card, syncs, api_mutex,
                 loc, handler>>

(* The entry goes into api_fifo or api_list before the message is written.   *)
Enqueue(t) ==
  /\ pc[t] = "enqueue" /\ FifoFree(loc[t].c)
  /\ LET e == Api(loc[t].seq, loc[t].h, t)
     IN  \/ /\ loc[t].c = "XPU" /\ Len(api_fifo) < FifoEntries
            /\ api_fifo' = Append(api_fifo, e)
            /\ UNCHANGED api_list
         \/ /\ loc[t].c = "CPU"
            /\ api_list' = Append(api_list, e)
            /\ UNCHANGED api_fifo
  /\ Goto(t, "copy")
  /\ UNCHANGED <<handles, thds, bm_send_api_seq, ring, card, syncs, api_mutex,
                 loc, handler>>

(* Mutant: api_fifo is full, but the message is sent.                        *)
EnqueueFullSent(t) ==
  /\ pc[t] = "enqueue" /\ FifoFree("XPU")
  /\ loc[t].c = "XPU" /\ Len(api_fifo) >= FifoEntries
  /\ Goto(t, "copy")
  /\ UNCHANGED <<handles, thds, bm_send_api_seq, ring, card, api_fifo,
                 api_list, syncs, api_mutex, loc, handler>>

EnqueueFull(t) ==
  /\ pc[t] = "enqueue" /\ FifoFree("XPU")
  /\ loc[t].c = "XPU" /\ Len(api_fifo) >= FifoEntries
  /\ GiveUp(t)

CopyToMsgfifo(t) ==
  /\ pc[t] = "copy"
  /\ ring' = [ring EXCEPT ![loc[t].c] =
                Append(@, Message(loc[t].seq, loc[t].h, t))]
  /\ api_mutex' = [api_mutex EXCEPT ![loc[t].c] = NoThread]
  /\ Return(t)
  /\ UNCHANGED <<handles, thds, bm_send_api_seq, card, api_fifo, api_list,
                 syncs, handler>>

-----------------------------------------------------------------------------
(* The firmware executes the messages of a channel in order. On the bm1684   *)
(* the XPU raises one interrupt per message and waits until it is cleared;   *)
(* the bm1682 counts them. An interrupt of the CPU channel stands for all    *)
(* messages up to RP.                                                        *)
Execute(c) ==
  /\ executed[c] < Len(ring[c])
  /\ c = "XPU" /\ ~CountedIrq => irq[c] = 0
  /\ executed' = [executed EXCEPT ![c] = @ + 1]
  /\ irq' = [irq EXCEPT ![c] = IF c = "XPU" THEN @ + 1 ELSE 1]
  /\ UNCHANGED <<handles, thds, bm_send_api_seq, ring, api_fifo, api_list,
                 syncs, api_mutex, pc, loc, handler>>

-----------------------------------------------------------------------------
(* bmdrv_msg_irq_handler.                                                    *)

(* Mutant: one is handled whatever the count.                                *)
IrqStartOne(c) ==
  /\ handler.on = "none" /\ irq[c] > 0
  /\ irq' = [irq EXCEPT ![c] = 0]
  /\ IF c = "CPU" /\ executed[c] = 0
     THEN UNCHANGED handler
     ELSE handler' = [on |-> c, pending |-> 1]
  /\ UNCHANGED <<handles, thds, bm_send_api_seq, ring, executed, api_fifo,
                 api_list, syncs, api_mutex, pc, loc>>

(* Clears the interrupt, gets the number of pending ones and takes           *)
(* api_fifo_mutex, unless the CPU channel has nothing new.                   *)
IrqStart(c) ==
  /\ handler.on = "none" /\ irq[c] > 0
  /\ irq' = [irq EXCEPT ![c] = 0]
  /\ IF c = "CPU" /\ executed[c] = 0
     THEN UNCHANGED handler
     ELSE handler' = [on |-> c, pending |-> irq[c]]
  /\ UNCHANGED <<handles, thds, bm_send_api_seq, ring, executed, api_fifo,
                 api_list, syncs, api_mutex, pc, loc>>

(* A device sync marker is met at the head.                                  *)
MarkerDone(c, e) ==
  /\ device_sync_cpl' = [device_sync_cpl EXCEPT ![c] = e.seq]
  /\ dev_sync_done' = [dev_sync_done EXCEPT ![c] = @ + 1]
  /\ UNCHANGED device_sync_last

(* bmdrv_post_api_process: the message at sw_rp is released.                 *)
Release(c) ==
  /\ ring' = [ring EXCEPT ![c] = Tail(@)]
  /\ executed' = [executed EXCEPT ![c] = @ - 1]

(* Mutants: all that was sent counts as completed; completions are counted.  *)
ApiDoneLast(c, e) ==
  /\ IF e.h \in handle_list
     THEN /\ cpl_api_seq' = [cpl_api_seq EXCEPT ![<<e.h, e.t>>] =
                             last_api_seq[<<e.h, e.t>>]]
          /\ h_cpl_api_seq' = [h_cpl_api_seq EXCEPT ![e.h] = e.seq]
     ELSE UNCHANGED <<cpl_api_seq, h_cpl_api_seq>>
  /\ Release(c)
  /\ UNCHANGED <<handle_list, h_send_api_seq, threads, last_api_seq>>
ApiDoneCount(c, e) ==
  /\ IF e.h \in handle_list
     THEN /\ cpl_api_seq' = [cpl_api_seq EXCEPT ![<<e.h, e.t>>] = @ + 1]
          /\ h_cpl_api_seq' = [h_cpl_api_seq EXCEPT ![e.h] = @ + 1]
     ELSE UNCHANGED <<cpl_api_seq, h_cpl_api_seq>>
  /\ Release(c)
  /\ UNCHANGED <<handle_list, h_send_api_seq, threads, last_api_seq>>

(* The API of entry e is done: completion numbers, if the handle is still    *)
(* open, and the release.                                                    *)
ApiDone(c, e) ==
  /\ IF e.h \in handle_list
     THEN /\ cpl_api_seq' = [cpl_api_seq EXCEPT ![<<e.h, e.t>>] = e.seq]
          /\ h_cpl_api_seq' = [h_cpl_api_seq EXCEPT ![e.h] = e.seq]
     ELSE UNCHANGED <<cpl_api_seq, h_cpl_api_seq>>
  /\ Release(c)
  /\ UNCHANGED <<handle_list, h_send_api_seq, threads, last_api_seq>>

(* XPU: an entry is taken from api_fifo for every pending interrupt, and     *)
(* markers on the way and behind the last one for nothing.                   *)
XpuMarker ==
  /\ handler.on = "XPU" /\ api_fifo # <<>> /\ IsMarker(Head(api_fifo))
  /\ MarkerDone("XPU", Head(api_fifo))
  /\ api_fifo' = Tail(api_fifo)
  /\ UNCHANGED <<handles, thds, bm_send_api_seq, ring, card, api_list,
                 api_mutex, pc, loc, handler>>

XpuApi ==
  /\ handler.on = "XPU" /\ handler.pending > 0
  /\ api_fifo # <<>> /\ ~IsMarker(Head(api_fifo))
  /\ ApiDone("XPU", Head(api_fifo))
  /\ api_fifo' = Tail(api_fifo)
  /\ handler' = [handler EXCEPT !.pending = @ - 1]
  /\ UNCHANGED <<bm_send_api_seq, irq, api_list, syncs, api_mutex, pc, loc>>

HandlerEnd == handler' = [on |-> "none", pending |-> 0]

(* Mutants: markers behind the last API stay; the interrupt is cleared at    *)
(* the end and not at the beginning.                                         *)
XpuEndAtOnce ==
  /\ handler.on = "XPU" /\ handler.pending = 0
  /\ HandlerEnd
  /\ UNCHANGED <<handles, thds, bm_send_api_seq, ring, card, api_fifo,
                 api_list, syncs, api_mutex, pc, loc>>
XpuEndClears ==
  /\ handler.on = "XPU"
  /\ api_fifo # <<>> => handler.pending = 0 /\ ~IsMarker(Head(api_fifo))
  /\ HandlerEnd /\ irq' = [irq EXCEPT !["XPU"] = 0]
  /\ UNCHANGED <<handles, thds, bm_send_api_seq, ring, executed, api_fifo,
                 api_list, syncs, api_mutex, pc, loc>>

(* api_fifo is empty, or its head is the API of a later interrupt.           *)
XpuEnd ==
  /\ handler.on = "XPU"
  /\ api_fifo # <<>> => handler.pending = 0 /\ ~IsMarker(Head(api_fifo))
  /\ HandlerEnd
  /\ UNCHANGED <<handles, thds, bm_send_api_seq, ring, card, api_fifo,
                 api_list, syncs, api_mutex, pc, loc>>

(* Mutant: markers are looked for in the whole list.                         *)
CpuMarkerAnywhere ==
  /\ handler.on = "CPU" /\ handler.pending > 0
  /\ \E i \in DOMAIN api_list :
       /\ IsMarker(api_list[i]) /\ MarkerDone("CPU", api_list[i])
       /\ api_list' = RemoveAt(api_list, i)
  /\ UNCHANGED <<handles, thds, bm_send_api_seq, ring, card, api_fifo,
                 api_mutex, pc, loc, handler>>

(* CPU: the markers at the head of api_list are done; then the list is       *)
(* scanned for the entry of the message at sw_rp.                            *)
CpuMarker ==
  /\ handler.on = "CPU" /\ handler.pending > 0
  /\ api_list # <<>> /\ IsMarker(Head(api_list))
  /\ MarkerDone("CPU", Head(api_list))
  /\ api_list' = Tail(api_list)
  /\ UNCHANGED <<handles, thds, bm_send_api_seq, ring, card, api_fifo,
                 api_mutex, pc, loc, handler>>

(* On its way the scan frees entries that were queried, or are done and old  *)
(* and that nobody waits for: Scanned(l) is what may remain of the list l.   *)
(* A marker behind an API is looked at in the same way. Its sequence number, *)
(* not initialised either, is taken to match no message.                     *)
Freed(e) == "FINISH" \in e.flag
(* Mutant: old entries go whether somebody waits for them or not.            *)
MayFreeWaited(e) == "DONE" \in e.flag

MayFree(e) == e.flag = {"DONE"}

Scanned(l) ==
  {LET kept == {j \in DOMAIN l : ~Freed(l[j]) /\ j \notin old}
   IN  [k \in 1 .. Cardinality(kept) |-> l[InOrder(kept)[k]]]
   : old \in SUBSET {j \in DOMAIN l : MayFree(l[j])}}

(* The entry of the message at sw_rp.                                        *)
CpuMatch(i) ==
  /\ ring["CPU"] # <<>>
  /\ ~IsMarker(api_list[i]) /\ ~Freed(api_list[i])
  /\ api_list[i].seq = Head(ring["CPU"]).seq

CpuScan ==
  /\ handler.on = "CPU" /\ handler.pending > 0
  /\ api_list # <<>> => ~IsMarker(Head(api_list))

(* The handler goes on as long as sw_rp differs from RP.                     *)
CpuApi ==
  /\ CpuScan
  /\ \E i \in DOMAIN api_list :
       /\ CpuMatch(i)
       /\ \E front \in Scanned(SubSeq(api_list, 1, i - 1)) :
            LET hit == [api_list[i] EXCEPT !.flag = @ \cup {"DONE"}]
            IN  /\ api_list' = front \o <<hit>>
                                 \o SubSeq(api_list, i + 1, Len(api_list))
                /\ ApiDone("CPU", hit)
  /\ handler' = [handler EXCEPT !.pending = IF executed'["CPU"] = 0
                                            THEN @ - 1 ELSE @]
  /\ UNCHANGED <<bm_send_api_seq, irq, api_fifo, syncs, api_mutex, pc, loc>>

(* The loop ends too if no entry matches.                                    *)
CpuEnd ==
  /\ handler.on = "CPU"
  /\ handler.pending > 0 =>
       CpuScan /\ \A i \in DOMAIN api_list : ~CpuMatch(i)
  /\ api_list' \in IF handler.pending > 0 THEN Scanned(api_list) ELSE {api_list}
  /\ HandlerEnd
  /\ UNCHANGED <<handles, thds, bm_send_api_seq, ring, card, api_fifo, syncs,
                 api_mutex, pc, loc>>

-----------------------------------------------------------------------------
(* bmdrv_query_api: bmdev_msgfifo_get_api_data. A thread asks for the result *)
(* of an API it has sent on the CPU channel, and does not ask again once it  *)
(* has it. The entry is found and marked under api_fifo_mutex, and used      *)
(* after it is released.                                                     *)
QueryApi(t, h) ==
  /\ "query" \in Calls[t] /\ MayCall(t, h) /\ FifoFree("CPU")
  /\ \E i \in DOMAIN api_list :
       /\ ~IsMarker(api_list[i]) /\ api_list[i].t = t /\ api_list[i].h = h
       /\ "FINISH" \notin api_list[i].flag
       /\ api_list' = [api_list EXCEPT ![i].flag = @ \cup {"WAIT"}]
       /\ Locals(t, h, "CPU", api_list[i].seq, {})
  /\ Goto(t, "query")
  /\ UNCHANGED <<handles, thds, bm_send_api_seq, ring, card, api_fifo, syncs,
                 api_mutex, handler>>

QueriedBy(t, e) == ~IsMarker(e) /\ e.seq = loc[t].seq

QueryDone(t) ==
  /\ pc[t] = "query"
  /\ \E i \in DOMAIN api_list :
       /\ QueriedBy(t, api_list[i]) /\ "DONE" \in api_list[i].flag
       /\ api_list' = [api_list EXCEPT ![i].flag = @ \cup {"FINISH"}]
  /\ Return(t)
  /\ UNCHANGED <<handles, thds, bm_send_api_seq, ring, card, api_fifo, syncs,
                 api_mutex, handler>>

(* Mutant: a query that gives up leaves its entry to the scan.               *)
QueryTimeoutFinish(t) ==
  /\ "query" \in Timeouts
  /\ pc[t] = "query"
  /\ \E i \in DOMAIN api_list :
       /\ QueriedBy(t, api_list[i]) /\ "DONE" \notin api_list[i].flag
       /\ api_list' = [api_list EXCEPT ![i].flag = @ \cup {"FINISH"}]
  /\ Return(t)
  /\ UNCHANGED <<handles, thds, bm_send_api_seq, ring, card, api_fifo, syncs,
                 api_mutex, handler>>

QueryTimeout(t) ==
  /\ "query" \in Timeouts
  /\ pc[t] = "query"
  /\ \A i \in DOMAIN api_list :
       QueriedBy(t, api_list[i]) => "DONE" \notin api_list[i].flag
  /\ Return(t)
  /\ UNCHANGED <<handles, thds, bm_send_api_seq, ring, card, api_fifo,
                 api_list, syncs, api_mutex, handler>>

-----------------------------------------------------------------------------
(* The syncs. owed is what the caller may rely on when its call returns 0:   *)
(* the messages of its scope that were not executed when it called.          *)
noApiStep == <<handles, thds, bm_send_api_seq, ring, card, handler>>

(* bmdrv_thread_sync_api. msg_done of a thread has one waiter, its own       *)
(* thread, so that no signal is lost.                                        *)
ThreadSync(t, h) ==
  /\ "thread_sync" \in Calls[t] /\ MayCall(t, h)
  /\ Goto(t, IF <<h, t>> \in threads THEN "thread_sync" ELSE "ret_thread")
  /\ Locals(t, h, "XPU", 0,
            SeqsOf({m \in Outstanding : m.h = h /\ m.t = t}))
  /\ UNCHANGED <<noApiStep, api_fifo, api_list, syncs, api_mutex>>

ThreadSynced(t) == cpl_api_seq[<<loc[t].h, t>>] = last_api_seq[<<loc[t].h, t>>]

ThreadSyncDone(t) ==
  /\ pc[t] = "thread_sync" /\ ThreadSynced(t)
  /\ Goto(t, "ret_thread")
  /\ UNCHANGED <<noApiStep, api_fifo, api_list, syncs, api_mutex, loc>>

(* bmdrv_handle_sync_api reads h_send_api_seq once and sleeps on h_msg_done. *)
(* Mutant: it waits for the caller's last API.                               *)
HandleSyncOwn(t, h) ==
  /\ "handle_sync" \in Calls[t] /\ MayCall(t, h)
  /\ Goto(t, "handle_sync")
  /\ Locals(t, h, "XPU", last_api_seq[<<h, t>>],
            SeqsOf({m \in Outstanding : m.h = h}))
  /\ UNCHANGED <<noApiStep, api_fifo, api_list, syncs, api_mutex>>

HandleSync(t, h) ==
  /\ "handle_sync" \in Calls[t] /\ MayCall(t, h)
  /\ Goto(t, "handle_sync")
  /\ Locals(t, h, "XPU", h_send_api_seq[h],
            SeqsOf({m \in Outstanding : m.h = h}))
  /\ UNCHANGED <<noApiStep, api_fifo, api_list, syncs, api_mutex>>

HandleSynced(t) == h_cpl_api_seq[loc[t].h] >= loc[t].seq

HandleSyncDone(t) ==
  /\ pc[t] = "handle_sync" /\ HandleSynced(t)
  /\ Goto(t, "ret_handle")
  /\ UNCHANGED <<noApiStep, api_fifo, api_list, syncs, api_mutex, loc>>

(* Mutant: the marker overtakes the APIs in api_fifo.                        *)
DeviceSyncInFront(t, h) ==
  /\ "device_sync" \in Calls[t] /\ MayCall(t, h)
  /\ api_mutex["XPU"] = NoThread /\ FifoFree("XPU")
  /\ api_fifo # <<>> /\ Len(api_fifo) < FifoEntries
  /\ device_sync_last["XPU"] < MaxSyncs
  /\ LET k == device_sync_last["XPU"] + 1
     IN  /\ api_fifo' = <<Marker(k, {})>> \o api_fifo
         /\ device_sync_last' = [device_sync_last EXCEPT !["XPU"] = k]
         /\ Locals(t, h, "XPU", k, SeqsOf(Outstanding))
  /\ Goto(t, "device_sync_cpu")
  /\ UNCHANGED <<noApiStep, api_list, device_sync_cpl, dev_sync_done,
                 api_mutex>>

(* bmdrv_device_sync_api puts a marker behind the APIs of each channel, and  *)
(* returns at the first channel that is empty; the return of -EBUSY when     *)
(* api_fifo is full changes nothing.                                         *)
DeviceSync(t, h) ==
  /\ "device_sync" \in Calls[t] /\ MayCall(t, h)
  /\ api_mutex["XPU"] = NoThread /\ FifoFree("XPU")
  /\ IF api_fifo = <<>>
     THEN /\ Goto(t, "ret_device")
          /\ Locals(t, h, "XPU", 0, SeqsOf(Outstanding))
          /\ UNCHANGED <<api_fifo, device_sync_last>>
     ELSE /\ Len(api_fifo) < FifoEntries
          /\ device_sync_last["XPU"] < MaxSyncs
          /\ LET k == device_sync_last["XPU"] + 1
             IN  /\ api_fifo' = Append(api_fifo, Marker(k, {}))
                 /\ device_sync_last' = [device_sync_last EXCEPT !["XPU"] = k]
                 /\ Locals(t, h, "XPU", k, SeqsOf(Outstanding))
          /\ Goto(t, "device_sync_cpu")
  /\ UNCHANGED <<noApiStep, api_list, device_sync_cpl, dev_sync_done,
                 api_mutex>>

(* What kmalloc leaves in api_done_flag: zeros, or the flag of an entry      *)
(* freed before.                                                             *)
Garbage == {{}, {"DONE"}, {"DONE", "WAIT", "FINISH"}}

(* From here on only the last channel's marker number is remembered.         *)
DeviceSyncCpu(t) ==
  /\ pc[t] = "device_sync_cpu"
  /\ api_mutex["CPU"] = NoThread /\ FifoFree("CPU")
  /\ IF ring["CPU"] = <<>>
     THEN /\ Goto(t, "ret_device")
          /\ UNCHANGED <<api_list, device_sync_last, loc>>
     ELSE /\ device_sync_last["CPU"] < MaxSyncs
          /\ LET k == device_sync_last["CPU"] + 1
             IN  /\ \E g \in Garbage : api_list' = Append(api_list, Marker(k, g))
                 /\ device_sync_last' = [device_sync_last EXCEPT !["CPU"] = k]
                 /\ Locals(t, loc[t].h, "XPU", k, loc[t].owed)
          /\ Goto(t, "device_sync")
  /\ UNCHANGED <<noApiStep, api_fifo, device_sync_cpl, dev_sync_done,
                 api_mutex>>

(* The wait for channel loc.c: the number is compared, and only if it is     *)
(* another one does the thread sleep for a signal of dev_sync_done.          *)
DeviceSyncCompare(t) ==
  /\ pc[t] = "device_sync"
  /\ IF device_sync_cpl[loc[t].c] # loc[t].seq
     THEN Goto(t, "device_sleep") /\ UNCHANGED loc
     ELSE IF loc[t].c = "XPU"
     THEN Locals(t, loc[t].h, "CPU", loc[t].seq, loc[t].owed) /\ UNCHANGED pc
     ELSE Goto(t, "ret_device") /\ UNCHANGED loc
  /\ UNCHANGED <<noApiStep, api_fifo, api_list, syncs, api_mutex>>

DeviceSyncWake(t) ==
  /\ pc[t] = "device_sleep" /\ dev_sync_done[loc[t].c] > 0
  /\ dev_sync_done' = [dev_sync_done EXCEPT ![loc[t].c] = @ - 1]
  /\ Goto(t, "device_sync")
  /\ UNCHANGED <<noApiStep, api_fifo, api_list, device_sync_last,
                 device_sync_cpl, api_mutex, loc>>

(* -EBUSY after delay_ms.                                                    *)
SyncTimeout(t) ==
  /\ "sync" \in Timeouts
  /\ \/ pc[t] = "thread_sync" /\ ~ThreadSynced(t)
     \/ pc[t] = "handle_sync" /\ ~HandleSynced(t)
     \/ pc[t] = "device_sleep" /\ dev_sync_done[loc[t].c] = 0
  /\ Return(t)
  /\ UNCHANGED <<noApiStep, api_fifo, api_list, syncs, api_mutex>>

(* The call returns 0 to the program.                                        *)
SyncReturns(t) ==
  /\ pc[t] \in {"ret_thread", "ret_handle", "ret_device"}
  /\ Return(t)
  /\ UNCHANGED <<noApiStep, api_fifo, api_list, syncs, api_mutex>>

-----------------------------------------------------------------------------
(* What thread t does inside the driver.                                     *)
Proceed(t) ==
  \/ CloseFree(t)
  \/ RecordSeq(t) \/ WaitMsgfifo(t) \/ Enqueue(t) \/ EnqueueFull(t)
  \/ CopyToMsgfifo(t)
  \/ QueryDone(t)
  \/ ThreadSyncDone(t) \/ HandleSyncDone(t)
  \/ DeviceSyncCpu(t) \/ DeviceSyncCompare(t) \/ DeviceSyncWake(t)
  \/ SyncReturns(t)

Handle ==
  \/ XpuMarker \/ XpuApi \/ XpuEnd
  \/ CpuMarker \/ CpuApi \/ CpuEnd

Next ==
  \/ \E t \in Threads :
       \/ \E h \in Handles :
            \/ Open(t, h) \/ Close(t, h) \/ \E c \in Channels : SendApi(t, h, c)
            \/ QueryApi(t, h)
            \/ ThreadSync(t, h) \/ HandleSync(t, h) \/ DeviceSync(t, h)
       \/ WaitTimeout(t) \/ QueryTimeout(t) \/ SyncTimeout(t)
       \/ Proceed(t)
  \/ \E c \in Channels : Execute(c) \/ IrqStart(c)
  \/ Handle

Spec == Init /\ [][Next]_vars

(* A thread inside the driver is scheduled, mutexes are handed on, the       *)
(* firmware executes what it has, and bmdrv_do_irq serves every raised       *)
(* interrupt of the status word, one channel after the other.                *)
Fairness ==
  /\ \A t \in Threads : SF_vars(Proceed(t))
  /\ \A c \in Channels : WF_vars(Execute(c)) /\ SF_vars(IrqStart(c))
  /\ WF_vars(Handle)

FairSpec == Spec /\ Fairness

-----------------------------------------------------------------------------
(* Properties.                                                               *)

SystemCalls == {"idle", "close", "record", "wait", "enqueue", "copy", "query",
                "thread_sync", "ret_thread", "handle_sync", "ret_handle",
                "device_sync_cpu", "device_sync", "device_sleep", "ret_device"}
SeqNos == 0 .. MaxSeq
MarkerNos == 0 .. MaxSyncs
Messages == [seq : SeqNos, h : Handles, t : Threads]
ApiEntries == [kind : {"api"}, seq : SeqNos, h : Handles, t : Threads,
               flag : SUBSET Flags]
Markers == [kind : {"marker"}, seq : MarkerNos, h : {NoHandle}, t : {NoThread},
            flag : SUBSET Flags]

(* Type invariant; besides the types, that no limit is passed: the ring and  *)
(* the kfifo never hold more than they have room for.                        *)
TypeOK ==
  /\ handle_list \subseteq Handles /\ threads \subseteq handle_list \X Threads
  /\ h_send_api_seq \in [Handles -> SeqNos]
  /\ h_cpl_api_seq \in [Handles -> SeqNos]
  /\ last_api_seq \in [Handles \X Threads -> SeqNos]
  /\ cpl_api_seq \in [Handles \X Threads -> SeqNos]
  /\ bm_send_api_seq \in SeqNos
  /\ ring \in [Channels -> Seq(Messages)]
  /\ executed \in [Channels -> 0 .. RingMsgs]
  /\ irq \in [Channels -> 0 .. RingMsgs]
  /\ \A c \in Channels : executed[c] <= Len(ring[c]) /\ Len(ring[c]) <= RingMsgs
  /\ device_sync_last \in [Channels -> MarkerNos]
  /\ device_sync_cpl \in [Channels -> MarkerNos]
  /\ dev_sync_done \in [Channels -> MarkerNos]
  /\ api_fifo \in Seq(ApiEntries \cup Markers) /\ Len(api_fifo) <= FifoEntries
  /\ api_list \in Seq(ApiEntries \cup Markers)
  /\ api_mutex \in [Channels -> Threads \cup {NoThread}]
  /\ pc \in [Threads -> SystemCalls]
  /\ loc \in [Threads -> [h : Handles \cup {NoHandle}, c : Channels,
                          seq : SeqNos \cup MarkerNos, owed : SUBSET SeqNos]]
  /\ handler \in [on : Channels \cup {"none"}, pending : 0 .. RingMsgs]

BeingCopied(c) == {t \in Threads : pc[t] = "copy" /\ loc[t].c = c}
Ascending(l) == \A i, j \in DOMAIN l : i < j => l[i].seq < l[j].seq
ApisAscending(l) ==
  \A i, j \in DOMAIN l :
    i < j /\ ~IsMarker(l[i]) /\ ~IsMarker(l[j]) => l[i].seq < l[j].seq
ApisIn(l) ==
  {Message(l[i].seq, l[i].h, l[i].t) : i \in {k \in DOMAIN l : ~IsMarker(l[k])}}

(* The handler matches a completed message with whatever entry is at the     *)
(* head of api_fifo: the entries must be the messages of the ring in the     *)
(* same order, which is that of their numbers, and behind them at most the   *)
(* one that is being copied.                                                 *)
EntriesMatchMessages ==
  /\ Ascending(ring["XPU"]) /\ ApisAscending(api_fifo)
  /\ ApisIn(api_fifo) = {ring["XPU"][i] : i \in DOMAIN ring["XPU"]} \cup
        {Message(loc[t].seq, loc[t].h, t) : t \in BeingCopied("XPU")}
  /\ \A t \in BeingCopied("XPU"), i \in DOMAIN ring["XPU"] :
       ring["XPU"][i].seq < loc[t].seq

(* Every executed XPU message that is not released has one interrupt, so     *)
(* that none is left behind or released before it is executed.               *)
InterruptPerMessage ==
  executed["XPU"] = irq["XPU"] + (IF handler.on = "XPU" THEN handler.pending ELSE 0)

(* A device sync marker is never left at the head of api_fifo for an         *)
(* interrupt that may not come.                                              *)
NoMarkerLeftBehind ==
  handler.on # "XPU" /\ api_fifo # <<>> => ~IsMarker(Head(api_fifo))

(* When the marker of a device sync is met in api_fifo, every API that was   *)
(* on the XPU channel when the sync began has been released.                 *)
MarkerFollowsApis ==
  \A t \in Threads :
    pc[t] = "device_sync_cpu" /\ device_sync_cpl["XPU"] >= loc[t].seq
      => \A i \in DOMAIN ring["XPU"] : ring["XPU"][i].seq \notin loc[t].owed

(* The same for a marker in api_list: the entries before it have left the    *)
(* list, which they do only when their messages are released.                *)
CpuMarkerFollowsApis ==
  \A t \in Threads :
    /\ pc[t] \in {"device_sync", "device_sleep"}
    /\ device_sync_cpl["CPU"] >= loc[t].seq
    => \A i \in DOMAIN ring["CPU"] : ring["CPU"][i].seq \notin loc[t].owed

Kept(t) == loc[t].owed \cap SeqsOf(Outstanding) = {}

(* bm_thread_sync returns success only after every API of the calling thread *)
(* on the handle has been executed.                                          *)
ThreadSyncSound == \A t \in Threads : pc[t] = "ret_thread" => Kept(t)

(* bm_handle_sync returns success only after every API sent through the      *)
(* handle before the call has been executed.                                 *)
HandleSyncSound == \A t \in Threads : pc[t] = "ret_handle" => Kept(t)

(* bm_device_sync returns success only after every API that was outstanding  *)
(* on the card when it was called has been executed.                         *)
DeviceSyncSound == \A t \in Threads : pc[t] = "ret_device" => Kept(t)

(* The completion numbers of an open handle and of its threads never go      *)
(* back: a sync that saw its number reached was not early for that.          *)
CompletionInOrder ==
  [][\A h \in handle_list \cap handle_list' :
       /\ h_cpl_api_seq'[h] >= h_cpl_api_seq[h]
       /\ \A t \in Threads : <<h, t>> \in threads =>
            cpl_api_seq'[<<h, t>>] >= cpl_api_seq[<<h, t>>]]_vars

(* The handler finds the entry of every message on the CPU channel: no scan  *)
(* has freed it, and it is not done yet.                                     *)
CpuEntryFound ==
  \A k \in DOMAIN ring["CPU"] : \E i \in DOMAIN api_list :
    /\ ~IsMarker(api_list[i]) /\ api_list[i].seq = ring["CPU"][k].seq
    /\ "DONE" \notin api_list[i].flag

(* The entry that a query uses after it has released api_fifo_mutex is still *)
(* in the list, whatever the handler has scanned meanwhile.                  *)
QueryHasItsEntry ==
  \A t \in Threads : pc[t] = "query" =>
    \E i \in DOMAIN api_list :
      QueriedBy(t, api_list[i]) /\ "WAIT" \in api_list[i].flag

(* Every message that was written to a ring is executed and released.        *)
MessagesComplete ==
  \A c \in Channels, s \in SeqNos :
    (\E i \in DOMAIN ring[c] : ring[c][i].seq = s)
      ~> (\A i \in DOMAIN ring[c] : ring[c][i].seq # s)

(* With enough time, a thread sync ends: the caller is told when all of its  *)
(* APIs on the handle are done.                                              *)
ThreadSyncEnds == \A t \in Threads :
  (pc[t] = "thread_sync") ~> (pc[t] # "thread_sync")

(* Each channel is one of MsgChannel: what is released was executed, and no  *)
(* more is sent than there is room for.                                      *)
Channel(c) == INSTANCE MsgChannel WITH
  Msgs <- Messages, Room <- RingMsgs, queue <- ring[c], done <- executed[c]
ChannelsKept == \A c \in Channels : Channel(c)!Spec
=============================================================================
