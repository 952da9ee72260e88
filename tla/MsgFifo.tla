------------------------------- MODULE MsgFifo -------------------------------
(* The message fifo of one channel (driver/bm_msgfifo.c): a ring of 32-bit   *)
(* words in the shared memory of the card, written by the ioctl that holds   *)
(* api_mutex, read by the firmware, released by the message interrupt.       *)
(* The words are there one by one, because everything that can go wrong is   *)
(* about words: a message that wraps, a pointer between two messages, a word *)
(* overwritten before its reader came, a header rewritten under the reader.  *)
(*                                                                           *)
(* A message is an element of Apis; its k-th word is [api, off |-> k].       *)
EXTENDS Integers, Sequences, FiniteSets, NumberSets

CONSTANTS
  FifoWords,    \* share_mem_size / BM_MSGFIFO_CHANNEL_NUM
  HeaderWords,  \* words of bm_kapi_header_t (and of the opt header, CPU channel)
  Apis,         \* the messages programs send
  PayloadWords, \* api_size of each message
  FileOf,       \* the open file (api_handle) each message is sent through
  Quit,         \* the messages whose api_id is BM_API_QUIT
  NoApi

ASSUME FifoAssumption ==
  /\ HeaderWords \in Nat /\ HeaderWords >= 4
  /\ FifoWords \in Nat /\ FifoWords > HeaderWords
  /\ PayloadWords \in [Apis -> Nat]
  /\ Quit \subseteq Apis
  /\ NoApi \notin Apis

(* The words of the header the properties tell apart: bm_kapi_header_t.      *)
IdOff     == 0
SizeOff   == 1
HandleOff == 2
ResultOff == HeaderWords - 1    \* written by the firmware, not by the driver

Files == {FileOf[m] : m \in Apis}
Slots == 0 .. FifoWords - 1
TotalWords(m) == HeaderWords + PayloadWords[m]
Word(m, k) == [api |-> m, off |-> k]
Words == [api : Apis \cup {NoApi}, off : Nat]
ZeroHandle == Word(NoApi, HandleOff)
Blank == Word(NoApi, IdOff)

VARIABLES
  mem,    \* the shared memory of the channel
  wp,     \* GP_REG_MESSAGE_WP_CHANNEL_x
  hw_rp,  \* GP_REG_MESSAGE_RP_CHANNEL_x, moved by the firmware
  sw_rp,  \* api_info.sw_rp, moved by the interrupt handler
  pc,     \* what the holder of api_mutex does: idle, wait, copy or walk
  api,    \* wait, copy: the message being sent
  idx,    \* copy: words written so far
  cur,    \* walk: cur_rp of bmdev_invalidate_pending_apis
  end,    \* walk: the wp it read
  file,   \* walk: the file being closed
  closed, \* files that were closed and not opened again
  run,    \* the message the firmware executes, NoApi if it is idle
  irqs,   \* messages finished whose interrupt has not been handled
  pend    \* history: the words published and not yet released, oldest first

vars == <<mem, wp, hw_rp, sw_rp, pc, api, idx, cur, end, file, closed, run,
          irqs, pend>>
walk == <<cur, end, file>>

-----------------------------------------------------------------------------
(* Pointer arithmetic.                                                       *)

(* bmdev_msgfifo_add_pointer: one conditional subtraction, not a modulo.     *)
AddPointer(p, val) ==
  IF p + val >= FifoWords THEN p + val - FifoWords ELSE p + val

(* Mutants of FreeSlots: no word kept free; one word too many kept free; the *)
(* read pointer of the firmware instead of the one of the driver.            *)
FreeSlotsNoGap ==
  IF wp >= sw_rp THEN FifoWords - (wp - sw_rp) ELSE sw_rp - wp
FreeSlotsWideGap ==
  IF wp >= sw_rp THEN FifoWords - (wp - sw_rp) - 2 ELSE sw_rp - wp - 2
FreeSlotsHwRp ==
  IF wp >= hw_rp THEN FifoWords - (wp - hw_rp) - 1 ELSE hw_rp - wp - 1

(* bmdev_msgfifo_get_free_slots: one word is never used, so that wp = sw_rp  *)
(* means an empty fifo.                                                      *)
FreeSlots ==
  IF wp >= sw_rp THEN FifoWords - (wp - sw_rp) - 1 ELSE sw_rp - wp - 1

(* Words from p to q in the direction of writing.                            *)
Dist(p, q) == IF q >= p THEN q - p ELSE q - p + FifoWords

(* Reads of a message header at pointer p. A word that is no api_size word   *)
(* stands for some number; 0 is as good as any.                              *)
At(p, k) == mem[AddPointer(p, k)]
SizeAt(p) == LET w == At(p, SizeOff)
             IN  IF w.api \in Apis /\ w.off = SizeOff
                 THEN PayloadWords[w.api] ELSE 0
NextMsg(p) == AddPointer(p, HeaderWords + SizeAt(p))
HandleIs(p, f) == LET w == At(p, HandleOff)
                  IN  w.api \in Apis /\ w.off = HandleOff /\ FileOf[w.api] = f

-----------------------------------------------------------------------------
Init ==
  /\ mem = [p \in Slots |-> Blank]
  /\ wp = 0 /\ hw_rp = 0 /\ sw_rp = 0
  /\ pc = "idle" /\ api = NoApi /\ idx = 0
  /\ cur = 0 /\ end = 0 /\ file \in Files
  /\ closed = {}
  /\ run = NoApi /\ irqs = 0
  /\ pend = <<>>

(* bmdrv_send_api takes api_mutex for a message of an open file.             *)
SendApi(m) ==
  /\ pc = "idle" /\ FileOf[m] \notin closed
  /\ pc' = "wait" /\ api' = m
  /\ UNCHANGED <<mem, wp, hw_rp, sw_rp, idx, walk, closed, run, irqs, pend>>

(* bmdev_wait_msgfifo: enough free words for the message, header included.   *)
WaitMsgfifo ==
  /\ pc = "wait" /\ FreeSlots >= TotalWords(api)
  /\ pc' = "copy" /\ idx' = 0
  /\ UNCHANGED <<mem, wp, hw_rp, sw_rp, api, walk, closed, run, irqs, pend>>

(* The wait timed out: -EBUSY, and api_mutex is released.                    *)
WaitTimeout ==
  /\ pc = "wait" /\ FreeSlots < TotalWords(api)
  /\ pc' = "idle"
  /\ UNCHANGED <<mem, wp, hw_rp, sw_rp, api, idx, walk, closed, run, irqs, pend>>

(* The words bmdev_copy_to_msgfifo writes; a quit message has its header     *)
(* written and nothing else.                                                 *)
CopyEnd(m) == IF m \in Quit THEN HeaderWords ELSE TotalWords(m)

CopyWord ==
  /\ pc = "copy" /\ idx < CopyEnd(api)
  /\ mem' = IF idx = ResultOff THEN mem    \* "no need to write"
            ELSE [mem EXCEPT ![AddPointer(wp, idx)] = Word(api, idx)]
  /\ idx' = idx + 1
  /\ UNCHANGED <<wp, hw_rp, sw_rp, pc, api, walk, closed, run, irqs, pend>>

(* Mutant: WP is moved without wrapping.                                     *)
PublishWpNoWrap ==
  /\ pc = "copy" /\ idx = CopyEnd(api) /\ api \notin Quit
  /\ wp' = wp + TotalWords(api)
  /\ pend' = pend \o [i \in 1 .. TotalWords(api) |-> Word(api, i - 1)]
  /\ pc' = "idle"
  /\ UNCHANGED <<mem, hw_rp, sw_rp, api, idx, walk, closed, run, irqs>>

(* The write of WP makes the message visible to the firmware.                *)
PublishWp ==
  /\ pc = "copy" /\ idx = CopyEnd(api) /\ api \notin Quit
  /\ wp' = AddPointer(wp, TotalWords(api))
  /\ pend' = pend \o [i \in 1 .. TotalWords(api) |-> Word(api, i - 1)]
  /\ pc' = "idle"
  /\ UNCHANGED <<mem, hw_rp, sw_rp, api, idx, walk, closed, run, irqs>>

QuitReturns ==
  /\ pc = "copy" /\ idx = CopyEnd(api) /\ api \in Quit
  /\ pc' = "idle"
  /\ UNCHANGED <<mem, wp, hw_rp, sw_rp, api, idx, walk, closed, run, irqs, pend>>

-----------------------------------------------------------------------------
(* The firmware: executes the message at RP, writes its result back into the *)
(* header and moves RP behind it before it raises the interrupt.             *)
DevFetch ==
  /\ run = NoApi /\ hw_rp # wp
  /\ run' = At(hw_rp, IdOff).api
  /\ UNCHANGED <<mem, wp, hw_rp, sw_rp, pc, api, idx, walk, closed, irqs, pend>>

DevFinish ==
  /\ run # NoApi
  /\ mem' = [mem EXCEPT ![AddPointer(hw_rp, ResultOff)] = Word(run, ResultOff)]
  /\ hw_rp' = NextMsg(hw_rp)
  /\ run' = NoApi
  /\ irqs' = irqs + 1
  /\ UNCHANGED <<wp, sw_rp, pc, api, idx, walk, closed, pend>>

(* Mutant: the handler takes over the firmware's read pointer.               *)
PostApiProcessHwRp ==
  /\ irqs > 0
  /\ irqs' = irqs - 1
  /\ sw_rp' = hw_rp
  /\ pend' = SubSeq(pend, HeaderWords + SizeAt(sw_rp) + 1, Len(pend))
  /\ UNCHANGED <<mem, wp, hw_rp, pc, api, idx, walk, closed, run>>

(* bmdrv_post_api_process, once per finished message: reads the size and the *)
(* result of the message at sw_rp and releases its words.                    *)
PostApiProcess ==
  /\ irqs > 0
  /\ irqs' = irqs - 1
  /\ sw_rp' = NextMsg(sw_rp)
  /\ pend' = SubSeq(pend, HeaderWords + SizeAt(sw_rp) + 1, Len(pend))
  /\ UNCHANGED <<mem, wp, hw_rp, pc, api, idx, walk, closed, run>>

-----------------------------------------------------------------------------
(* Mutants: the walk leaves out the message at RP; it forgets the headers.   *)
InvalidateStartSkip(f) ==
  /\ pc = "idle" /\ f \notin closed
  /\ pc' = "walk" /\ file' = f
  /\ cur' = (IF hw_rp = wp THEN wp ELSE NextMsg(hw_rp)) /\ end' = wp
  /\ UNCHANGED <<mem, wp, hw_rp, sw_rp, api, idx, closed, run, irqs, pend>>

InvalidateStepNoHeader ==
  /\ pc = "walk" /\ cur # end
  /\ mem' = IF HandleIs(cur, file)
            THEN [mem EXCEPT ![AddPointer(cur, HandleOff)] = ZeroHandle]
            ELSE mem
  /\ cur' = AddPointer(cur, SizeAt(cur))
  /\ UNCHANGED <<wp, hw_rp, sw_rp, pc, api, idx, end, file, closed, run, irqs,
                 pend>>

(* bmdev_invalidate_pending_apis, called by bmdev_close under api_mutex: the *)
(* words from RP to WP are walked message by message while the firmware goes *)
(* on; the handles of the closed file are zeroed.                            *)
InvalidateStart(f) ==
  /\ pc = "idle" /\ f \notin closed
  /\ pc' = "walk" /\ file' = f
  /\ cur' = hw_rp /\ end' = wp
  /\ UNCHANGED <<mem, wp, hw_rp, sw_rp, api, idx, closed, run, irqs, pend>>

InvalidateStep ==
  /\ pc = "walk" /\ cur # end
  /\ mem' = IF HandleIs(cur, file)
            THEN [mem EXCEPT ![AddPointer(cur, HandleOff)] = ZeroHandle]
            ELSE mem
  /\ cur' = NextMsg(cur)
  /\ UNCHANGED <<wp, hw_rp, sw_rp, pc, api, idx, end, file, closed, run, irqs,
                 pend>>

InvalidateEnd ==
  /\ pc = "walk" /\ cur = end
  /\ pc' = "idle"
  /\ closed' = closed \cup {file}
  /\ UNCHANGED <<mem, wp, hw_rp, sw_rp, api, idx, walk, run, irqs, pend>>

(* A later open may get a struct file at the same address.                   *)
Open(f) ==
  /\ f \in closed
  /\ closed' = closed \ {f}
  /\ UNCHANGED <<mem, wp, hw_rp, sw_rp, pc, api, idx, walk, run, irqs, pend>>

-----------------------------------------------------------------------------
Sender == WaitMsgfifo \/ CopyWord \/ PublishWp \/ QuitReturns
Closer == InvalidateStep \/ InvalidateEnd
Firmware == DevFetch \/ DevFinish

Next ==
  \/ \E m \in Apis : SendApi(m)
  \/ WaitTimeout
  \/ Sender
  \/ \E f \in Files : InvalidateStart(f) \/ Open(f)
  \/ Closer
  \/ Firmware
  \/ PostApiProcess

Spec == Init /\ [][Next]_vars

(* A runnable thread runs, the firmware executes what it is given, and the   *)
(* interrupt is delivered. A timeout is never owed.                          *)
FairSpec == Spec /\ WF_vars(Sender) /\ WF_vars(Closer)
                 /\ WF_vars(Firmware) /\ WF_vars(PostApiProcess)

-----------------------------------------------------------------------------
TypeOK ==
  /\ mem \in [Slots -> Words]
  /\ wp \in Slots /\ hw_rp \in Slots /\ sw_rp \in Slots
  /\ pc \in {"idle", "wait", "copy", "walk"}
  /\ api \in Apis \cup {NoApi} /\ (pc \in {"wait", "copy"} => api \in Apis)
  /\ idx \in Nat
  /\ cur \in Slots /\ end \in Slots
  /\ run \in Apis \cup {NoApi}
  /\ irqs \in Nat
  /\ pend \in Seq([api : Apis, off : Nat])

(* The free-slot formula is exact: the sender is offered the whole fifo but  *)
(* for the one word that keeps full and empty apart, whatever wrapped.       *)
OccupancyExact == FreeSlots = FifoWords - 1 - Len(pend)

(* Every word published and not released is in its slot, at its distance     *)
(* from sw_rp: no message overwrites one the firmware or the interrupt       *)
(* handler has still to read. A close may have zeroed the handle of one.     *)
QueuedIntact ==
  \A k \in 1 .. Len(pend) :
    \/ At(sw_rp, k - 1) = pend[k]
    \/ pend[k].off = HandleOff /\ At(sw_rp, k - 1) = ZeroHandle
    \/ pend[k].off = ResultOff

(* p is the first word of a message, or the place of the next one.           *)
MsgStart(p) == LET d == Dist(sw_rp, p)
               IN  d <= Len(pend) /\ (d < Len(pend) => pend[d + 1].off = IdOff)

(* The read pointers of the firmware, of the interrupt handler and of a      *)
(* close in progress are always between two messages, never inside one. (A   *)
(* close may be overtaken by both; then cur is among the free words.)        *)
ReadersAligned == MsgStart(hw_rp) /\ MsgStart(sw_rp)
PointersAligned ==
  /\ ReadersAligned
  /\ pc = "walk" /\ Dist(sw_rp, cur) <= Len(pend) => MsgStart(cur)

(* Once bmdev_close has returned, no message the firmware has still to       *)
(* execute carries the handle of that file.                                  *)
ClosedFileInvalidated ==
  \A f \in closed : \A k \in Dist(sw_rp, hw_rp) + 1 .. Len(pend) :
    pend[k].off = HandleOff /\ FileOf[pend[k].api] = f
      => At(sw_rp, k - 1) = ZeroHandle

(* What the interrupt handler reads as the result of the message at sw_rp is *)
(* what the firmware wrote for that message.                                 *)
ResultIsForMessage ==
  irqs > 0 => At(sw_rp, ResultOff) = Word(pend[1].api, ResultOff)

-----------------------------------------------------------------------------
(* The inductive invariant behind OccupancyExact, QueuedIntact and           *)
(* ReadersAligned (proved in MsgFifoProofs).                                 *)

(* pend consists of whole messages: around its i-th word lie all words of    *)
(* one message, in order.                                                    *)
Framed(ws) ==
  \A i \in 1 .. Len(ws) :
    LET m == ws[i].api
        first == i - ws[i].off
    IN  /\ ws[i].off < TotalWords(m)
        /\ first >= 1 /\ first + TotalWords(m) - 1 <= Len(ws)
        /\ \A k \in 0 .. TotalWords(m) - 1 : ws[first + k] = Word(m, k)

(* Every word in the memory was written for a message that fits.             *)
MemFits ==
  \A p \in Slots : mem[p].api \in Apis => TotalWords(mem[p].api) < FifoWords

WpAtEnd == Dist(sw_rp, wp) = Len(pend)

(* The first words of the messages in pend the firmware has finished: one    *)
(* interrupt for each.                                                       *)
Finished == {i \in 1 .. Dist(sw_rp, hw_rp) : pend[i].off = IdOff}
OneIrqEach == irqs = Cardinality(Finished)

Executing ==
  run # NoApi => /\ Dist(sw_rp, hw_rp) < Len(pend)
                 /\ run = pend[Dist(sw_rp, hw_rp) + 1].api

(* The message being copied has room, and its words so far are there.        *)
Copying ==
  pc = "copy" =>
    /\ Len(pend) + TotalWords(api) < FifoWords
    /\ idx <= CopyEnd(api)
    /\ \A k \in 0 .. idx - 1 : k # ResultOff => At(wp, k) = Word(api, k)

IInv ==
  /\ TypeOK /\ MemFits /\ Framed(pend) /\ WpAtEnd /\ QueuedIntact
  /\ ReadersAligned /\ OneIrqEach /\ Executing /\ Copying

(* A sender whose message fits into the fifo does not wait for ever, timeouts *)
(* or not, and a close comes to the end of its walk.                         *)
WaiterIsServed ==
  \A m \in Apis : TotalWords(m) < FifoWords =>
    ((pc = "wait" /\ api = m) ~> pc # "wait")
CloseEnds == (pc = "walk") ~> (pc = "idle")

(* The ring is a queue of messages: those of which pend has the first word,  *)
(* and the ones behind hw_rp were executed.                                  *)
Starts == {i \in 1 .. Len(pend) : pend[i].off = IdOff}
Messages ==
  [k \in 1 .. Cardinality(Starts) |-> pend[InOrder(Starts)[k]].api]
Queue == INSTANCE MsgQueue WITH
  queue <- Messages, done <- Cardinality(Finished), running <- run
QueueSpec == Queue!QSpec

(* If all messages have the same length, it is a channel with room for a     *)
(* fixed number of them; and a sender finds enough free words exactly when   *)
(* there is room for one more.                                               *)
Channel(Room) == INSTANCE MsgChannel WITH
  Msgs <- Apis, queue <- Messages, done <- Cardinality(Finished)
RoomExact(Room) ==
  \A m \in Apis : FreeSlots >= TotalWords(m) <=> Len(Messages) < Room
=============================================================================
