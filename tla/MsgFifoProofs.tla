--------------------------- MODULE MsgFifoProofs ---------------------------
(* The safety of the message fifo, for every length of the fifo and of the   *)
(* header and every set of messages: the free-slot count is exact, no word   *)
(* that is still to be read is overwritten, and the read pointers of the     *)
(* firmware and of the driver always stand between two messages.             *)
EXTENDS MsgFifo, NumberSetProofs, SequenceTheorems, FiniteSetTheorems, TLAPS

-----------------------------------------------------------------------------
(* Pointer arithmetic.                                                       *)

LEMMA ConstantsType ==
  /\ HeaderWords \in Nat /\ HeaderWords >= 4
  /\ FifoWords \in Nat /\ FifoWords > HeaderWords
  /\ \A m \in Apis : /\ PayloadWords[m] \in Nat
                     /\ TotalWords(m) = HeaderWords + PayloadWords[m]
                     /\ TotalWords(m) \in Nat /\ TotalWords(m) >= 4
                     /\ CopyEnd(m) \in Nat /\ CopyEnd(m) <= TotalWords(m)
  /\ NoApi \notin Apis
BY FifoAssumption DEF TotalWords, CopyEnd

LEMMA AddType ==
  ASSUME NEW p \in Slots, NEW v \in 0 .. FifoWords
  PROVE  AddPointer(p, v) \in Slots
BY ConstantsType DEF AddPointer, Slots

LEMMA AddZero ==
  ASSUME NEW p \in Slots
  PROVE  AddPointer(p, 0) = p
BY ConstantsType DEF AddPointer, Slots

LEMMA AddAdd ==
  ASSUME NEW p \in Slots, NEW u \in Nat, NEW v \in Nat, u + v <= FifoWords
  PROVE  AddPointer(AddPointer(p, u), v) = AddPointer(p, u + v)
BY ConstantsType DEF AddPointer, Slots

(* Different distances below the length of the fifo are different slots.     *)
LEMMA AddInjective ==
  ASSUME NEW p \in Slots, NEW u \in Slots, NEW v \in Slots,
         AddPointer(p, u) = AddPointer(p, v)
  PROVE  u = v
BY ConstantsType DEF AddPointer, Slots

LEMMA DistType ==
  ASSUME NEW p \in Slots, NEW q \in Slots
  PROVE  /\ Dist(p, q) \in Slots
         /\ AddPointer(p, Dist(p, q)) = q
         /\ Dist(p, q) = 0 <=> p = q
BY ConstantsType DEF AddPointer, Dist, Slots

LEMMA DistAdd ==
  ASSUME NEW p \in Slots, NEW v \in Slots
  PROVE  Dist(p, AddPointer(p, v)) = v
BY ConstantsType DEF AddPointer, Dist, Slots

(* Moving the origin forward by u shortens the distance by u.                *)
LEMMA DistShift ==
  ASSUME NEW p \in Slots, NEW q \in Slots, NEW u \in Nat, u <= Dist(p, q)
  PROVE  Dist(AddPointer(p, u), q) = Dist(p, q) - u
BY ConstantsType DEF AddPointer, Dist, Slots

LEMMA FreeSlotsIsExact ==
  ASSUME wp \in Slots, sw_rp \in Slots
  PROVE  FreeSlots = FifoWords - 1 - Dist(sw_rp, wp)
BY ConstantsType DEF FreeSlots, Dist, Slots

-----------------------------------------------------------------------------
(* What the readers of a header find, and what framing gives.                *)

WordSeq == Seq([api : Apis, off : Nat])

(* Each word of a framed sequence lies within its message.                   *)
LEMMA FramedWord ==
  ASSUME NEW ws \in WordSeq, Framed(ws), NEW j \in 1 .. Len(ws)
  PROVE  \E m \in Apis, o \in Nat :
           /\ ws[j] = Word(m, o)
           /\ o < TotalWords(m) /\ j - o >= 1
           /\ j - o + TotalWords(m) - 1 <= Len(ws)
           /\ \A k \in 0 .. TotalWords(m) - 1 : ws[(j - o) + k] = Word(m, k)
<1>1. ws[j] \in [api : Apis, off : Nat]
  BY ElementOfSeq DEF WordSeq
<1>2. PICK m \in Apis, o \in Nat : ws[j] = Word(m, o)
  BY <1>1 DEF Word
<1>3. ws[j].api = m /\ ws[j].off = o
  BY <1>2 DEF Word
<1>4. /\ o < TotalWords(m) /\ j - o >= 1
      /\ j - o + TotalWords(m) - 1 <= Len(ws)
      /\ \A k \in 0 .. TotalWords(m) - 1 : ws[(j - o) + k] = Word(m, k)
  BY <1>3 DEF Framed
<1>. QED
  BY <1>2, <1>4

(* A message of pend that begins behind d words: all of it is in pend, and   *)
(* behind it begins another one or pend ends.                                *)
LEMMA FramedMessage ==
  ASSUME NEW ws \in WordSeq, Framed(ws),
         NEW d \in Nat, d < Len(ws), ws[d + 1].off = IdOff
  PROVE  \E m \in Apis :
         /\ ws[d + 1].api = m
         /\ d + TotalWords(m) <= Len(ws)
         /\ \A k \in 0 .. TotalWords(m) - 1 : ws[d + 1 + k] = Word(m, k)
         /\ d + TotalWords(m) < Len(ws) => ws[d + TotalWords(m) + 1].off = IdOff
<1>0. Len(ws) \in Nat
  BY LenProperties DEF WordSeq
<1>1. PICK m \in Apis, o \in Nat :
        /\ ws[d + 1] = Word(m, o)
        /\ d + 1 - o + TotalWords(m) - 1 <= Len(ws)
        /\ \A k \in 0 .. TotalWords(m) - 1 : ws[(d + 1 - o) + k] = Word(m, k)
  <2>1. d + 1 \in 1 .. Len(ws)
    BY <1>0
  <2>. QED
    BY <2>1, FramedWord
<1>2. ws[d + 1].api = m /\ o = 0
  BY <1>1 DEF Word, IdOff
<1>3. TotalWords(m) \in Nat /\ TotalWords(m) >= 4
  BY ConstantsType
<1>4. /\ d + TotalWords(m) <= Len(ws)
      /\ \A k \in 0 .. TotalWords(m) - 1 : ws[d + 1 + k] = Word(m, k)
  BY <1>0, <1>1, <1>2, <1>3
<1>5. ASSUME NEW j \in 1 .. Len(ws), j = d + TotalWords(m) + 1
      PROVE  ws[j].off = IdOff
  <2>1. PICK n \in Apis, q \in Nat :
          /\ ws[j] = Word(n, q)
          /\ q < TotalWords(n) /\ j - q >= 1
          /\ \A k \in 0 .. TotalWords(n) - 1 : ws[(j - q) + k] = Word(n, k)
    BY FramedWord
  <2>2. TotalWords(n) \in Nat
    BY ConstantsType
  <2>3. CASE q > 0
    <3>1. q - 1 \in 0 .. TotalWords(n) - 1 /\ (j - q) + (q - 1) = j - 1
      BY <2>1, <2>2, <2>3
    <3>2. ws[j - 1] = Word(n, q - 1)
      BY <2>1, <3>1
    <3>3. ws[j - 1] = Word(m, TotalWords(m) - 1)
      <4>1. TotalWords(m) - 1 \in 0 .. TotalWords(m) - 1
            /\ d + 1 + (TotalWords(m) - 1) = j - 1
        BY <1>3, <1>5
      <4>. QED
        BY <1>4, <4>1
    <3>4. n = m /\ q - 1 = TotalWords(m) - 1
      BY <3>2, <3>3 DEF Word
    <3>. QED
      BY <3>4, <2>1, <1>3
  <2>. QED
    BY <2>1, <2>3 DEF IdOff, Word
<1>. QED
  BY <1>0, <1>2, <1>3, <1>4, <1>5

(* The words ws are in the memory from p on, but for handles that a close    *)
(* has zeroed and the results.                                               *)
Intact(ws, p) ==
  \A k \in 1 .. Len(ws) :
    \/ At(p, k - 1) = ws[k]
    \/ ws[k].off = HandleOff /\ At(p, k - 1) = ZeroHandle
    \/ ws[k].off = ResultOff

(* At a message start among such words the size read is the size of that     *)
(* message, and the next pointer is behind its last word.                    *)
LEMMA NextMsgOf ==
  ASSUME NEW ws \in WordSeq, Framed(ws), Len(ws) \in Slots,
         NEW s \in Slots, Intact(ws, s),
         NEW d \in Nat, d < Len(ws), ws[d + 1].off = IdOff,
         NEW p, p = AddPointer(s, d)
  PROVE  \E m \in Apis :
         /\ m = ws[d + 1].api
         /\ SizeAt(p) = PayloadWords[m]
         /\ d + TotalWords(m) <= Len(ws)
         /\ \A k \in 0 .. TotalWords(m) - 1 : ws[d + 1 + k] = Word(m, k)
         /\ NextMsg(p) = AddPointer(s, d + TotalWords(m))
         /\ NextMsg(p) \in Slots
         /\ d + TotalWords(m) < Len(ws)
              => ws[d + TotalWords(m) + 1].off = IdOff
<1>1. PICK m \in Apis :
        /\ ws[d + 1].api = m
        /\ d + TotalWords(m) <= Len(ws)
        /\ \A k \in 0 .. TotalWords(m) - 1 : ws[d + 1 + k] = Word(m, k)
        /\ d + TotalWords(m) < Len(ws)
             => ws[d + TotalWords(m) + 1].off = IdOff
  BY FramedMessage
<1>2. TotalWords(m) \in Nat /\ TotalWords(m) >= 4
      /\ TotalWords(m) = HeaderWords + PayloadWords[m]
      /\ PayloadWords[m] \in Nat /\ HeaderWords \in Nat
  BY ConstantsType
<1>3. s \in Slots /\ Len(ws) \in Slots
  OBVIOUS
<1>4. At(p, SizeOff) = At(s, d + 1)
  <2>1. AddPointer(AddPointer(s, d), 1) = AddPointer(s, d + 1)
    BY <1>1, <1>2, <1>3, AddAdd, ConstantsType DEF Slots
  <2>. QED
    BY <2>1 DEF At, SizeOff
<1>5. At(s, d + 1) = Word(m, SizeOff)
  <2>1. ws[d + 2] = Word(m, 1)
    BY <1>1, <1>2, 1 \in 0 .. TotalWords(m) - 1
  <2>2. d + 2 \in 1 .. Len(ws) /\ (d + 2) - 1 = d + 1
    BY <1>1, <1>2, <1>3 DEF Slots
  <2>3. ws[d + 2].off # HandleOff /\ ws[d + 2].off # ResultOff
    BY <2>1, ConstantsType DEF Word, HandleOff, ResultOff
  <2>. QED
    BY <2>1, <2>2, <2>3 DEF Intact, SizeOff
<1>6. SizeAt(p) = PayloadWords[m]
  BY <1>4, <1>5 DEF SizeAt, Word
<1>7. NextMsg(p) = AddPointer(s, d + TotalWords(m))
  <2>1. NextMsg(p) = AddPointer(AddPointer(s, d), TotalWords(m))
    BY <1>2, <1>6 DEF NextMsg
  <2>2. d + TotalWords(m) <= FifoWords
    BY <1>1, <1>2, <1>3, ConstantsType DEF Slots
  <2>. QED
    BY <2>1, <2>2, <1>2, <1>3, AddAdd
<1>8. AddPointer(s, d + TotalWords(m)) \in Slots
  <2>0. FifoWords \in Nat /\ Len(ws) \in Nat /\ Len(ws) <= FifoWords
    BY <1>3, ConstantsType DEF Slots
  <2>1. d + TotalWords(m) \in 0 .. FifoWords
    <3>1. d \in Nat /\ TotalWords(m) \in Nat /\ d + TotalWords(m) <= Len(ws)
      BY <1>1, <1>2, <1>3 DEF Slots
    <3>. QED
      BY ONLY <2>0, <3>1
  <2>. QED
    BY <2>1, <1>3, AddType
<1>. QED
  BY <1>1, <1>6, <1>7, <1>8

(* So it is in the fifo.                                                     *)
LEMMA NextMsgIsNext ==
  ASSUME TypeOK, Framed(pend), WpAtEnd, QueuedIntact,
         NEW d \in Nat, d < Len(pend), pend[d + 1].off = IdOff,
         NEW p, p = AddPointer(sw_rp, d)
  PROVE  \E m \in Apis :
         /\ m = pend[d + 1].api
         /\ SizeAt(p) = PayloadWords[m]
         /\ d + TotalWords(m) <= Len(pend)
         /\ NextMsg(p) = AddPointer(sw_rp, d + TotalWords(m))
         /\ NextMsg(p) \in Slots
         /\ d + TotalWords(m) < Len(pend)
              => pend[d + TotalWords(m) + 1].off = IdOff
<1>1. pend \in WordSeq /\ sw_rp \in Slots /\ Len(pend) \in Slots
  BY DistType DEF TypeOK, WordSeq, WpAtEnd
<1>2. Intact(pend, sw_rp)
  BY DEF QueuedIntact, Intact
<1>. QED
  BY <1>1, <1>2, NextMsgOf

(* Whatever a pointer points to, reading on from it stays in the fifo.       *)
LEMMA NextMsgType ==
  ASSUME TypeOK, MemFits, NEW p \in Slots
  PROVE  NextMsg(p) \in Slots
<1>1. AddPointer(p, SizeOff) \in Slots
  BY AddType, ConstantsType DEF SizeOff
<1>2. HeaderWords + SizeAt(p) \in 0 .. FifoWords
  BY <1>1, ConstantsType DEF SizeAt, At, MemFits
<1>. QED
  BY <1>2, AddType DEF NextMsg

LEMMA FunctionIsSeq ==
  ASSUME NEW S, NEW n \in Nat, NEW f \in [1 .. n -> S]
  PROVE  f \in Seq(S)
OBVIOUS

(* The words of one message.                                                 *)
LEMMA MessageWords ==
  ASSUME NEW m \in Apis
  PROVE  LET ws == [i \in 1 .. TotalWords(m) |-> Word(m, i - 1)]
         IN  /\ ws \in Seq([api : Apis, off : Nat])
             /\ Len(ws) = TotalWords(m)
             /\ \A i \in 1 .. TotalWords(m) : ws[i] = Word(m, i - 1)
<1> DEFINE ws == [i \in 1 .. TotalWords(m) |-> Word(m, i - 1)]
<1>1. TotalWords(m) \in Nat
  BY ConstantsType
<1>2. ws \in [1 .. TotalWords(m) -> [api : Apis, off : Nat]]
  BY <1>1 DEF Word
<1>3. ws \in Seq([api : Apis, off : Nat])
  <2> HIDE DEF ws
  <2> QED
    BY ONLY <1>1, <1>2, FunctionIsSeq
<1>4. Len(ws) = TotalWords(m)
  BY <1>1, <1>3, LenProperties
<1>. QED
  BY <1>3, <1>4

-----------------------------------------------------------------------------
(* The invariant holds initially.                                            *)
LEMMA InitInv == Init => IInv
<1> SUFFICES ASSUME Init PROVE IInv
  OBVIOUS
<1> USE DEF Init
<1>1. pend \in Seq([api : Apis, off : Nat]) /\ Len(pend) = 0
  BY EmptySeq
<1>2. 0 \in Slots /\ Dist(0, 0) = 0
  BY ConstantsType DEF Slots, Dist
<1>3. TypeOK
  BY <1>1, <1>2 DEF TypeOK, Words, Blank, Word, IdOff
<1>4. MemFits
  BY ConstantsType DEF MemFits, Blank, Word
<1>5. Finished = {}
  BY <1>2 DEF Finished
<1>6. OneIrqEach
  BY <1>5, FS_EmptySet DEF OneIrqEach
<1>. QED
  BY <1>1, <1>2, <1>3, <1>4, <1>6
  DEF IInv, Framed, WpAtEnd, QueuedIntact, ReadersAligned, MsgStart, Executing,
      Copying

-----------------------------------------------------------------------------
(* One lemma per action that touches the words or the pointers. d is the     *)
(* distance of the firmware's read pointer, n the number of queued words.    *)

(* The facts about the pointers every step below starts from.                *)
LEMMA Window ==
  ASSUME IInv
  PROVE  /\ Len(pend) \in Slots /\ pend \in WordSeq
         /\ sw_rp \in Slots /\ hw_rp \in Slots /\ wp \in Slots
         /\ wp = AddPointer(sw_rp, Len(pend))
         /\ Dist(sw_rp, hw_rp) \in Slots /\ Dist(sw_rp, hw_rp) <= Len(pend)
         /\ hw_rp = AddPointer(sw_rp, Dist(sw_rp, hw_rp))
         /\ Dist(sw_rp, hw_rp) < Len(pend)
              => pend[Dist(sw_rp, hw_rp) + 1].off = IdOff
         /\ Len(pend) > 0 => pend[1].off = IdOff
         /\ mem \in [Slots -> Words]
<1>1. sw_rp \in Slots /\ hw_rp \in Slots /\ wp \in Slots
      /\ mem \in [Slots -> Words]
  BY DEF IInv, TypeOK
<1>2. pend \in WordSeq
  BY DEF IInv, TypeOK, WordSeq
<1>3. Len(pend) \in Slots /\ wp = AddPointer(sw_rp, Len(pend))
  BY <1>1, DistType DEF IInv, WpAtEnd
<1>4. /\ Dist(sw_rp, hw_rp) \in Slots
      /\ hw_rp = AddPointer(sw_rp, Dist(sw_rp, hw_rp))
      /\ Dist(sw_rp, sw_rp) = 0
  BY <1>1, DistType
<1>5. /\ Dist(sw_rp, hw_rp) <= Len(pend)
      /\ Dist(sw_rp, hw_rp) < Len(pend)
           => pend[Dist(sw_rp, hw_rp) + 1].off = IdOff
  BY DEF IInv, ReadersAligned, MsgStart
<1>6. Len(pend) > 0 => pend[1].off = IdOff
  BY <1>4 DEF IInv, ReadersAligned, MsgStart
<1>. QED
  BY <1>1, <1>2, <1>3, <1>4, <1>5, <1>6

(* A write outside the queued words, or one that keeps them readable, and no *)
(* pointer moved: all that speaks of the queue is preserved.                 *)
LEMMA QueueKept ==
  ASSUME IInv, UNCHANGED <<wp, hw_rp, sw_rp, pend>>
  PROVE  /\ Framed(pend)' /\ WpAtEnd' /\ ReadersAligned'
         /\ Finished' = Finished
         /\ UNCHANGED mem => MemFits' /\ QueuedIntact'
BY DEF IInv, Framed, WpAtEnd, ReadersAligned, MsgStart, Finished, MemFits,
       QueuedIntact, At

(* Words of the message being copied go behind the queued ones.              *)
LEMMA CopyFacts ==
  ASSUME IInv, CopyWord
  PROVE  LET n == Len(pend)
             slot == AddPointer(wp, idx)
         IN  /\ api \in Apis /\ idx \in Nat /\ idx < CopyEnd(api)
             /\ n + TotalWords(api) < FifoWords /\ CopyEnd(api) <= TotalWords(api)
             /\ n + idx \in Slots /\ idx \in Slots
             /\ slot = AddPointer(sw_rp, n + idx) /\ slot \in Slots
             /\ \A k \in 1 .. n : mem'[AddPointer(sw_rp, k - 1)] = At(sw_rp, k - 1)
<1> DEFINE n == Len(pend)
           slot == AddPointer(wp, idx)
<1>1. /\ api \in Apis /\ idx \in Nat /\ idx < CopyEnd(api)
      /\ n + TotalWords(api) < FifoWords /\ TotalWords(api) \in Nat
      /\ CopyEnd(api) <= TotalWords(api) /\ CopyEnd(api) \in Nat
      /\ n \in Nat /\ FifoWords \in Nat
  BY Window, ConstantsType DEF IInv, TypeOK, Copying, CopyWord, Slots
<1>2. /\ n + idx \in Slots /\ idx \in Slots
      /\ slot = AddPointer(sw_rp, n + idx) /\ slot \in Slots
  <2>1. n + idx \in Slots /\ idx \in Slots
    BY <1>1 DEF Slots
  <2>2. slot = AddPointer(sw_rp, n + idx)
    <3>1. n + idx <= FifoWords /\ n \in Nat /\ idx \in Nat
      BY <2>1, <1>1 DEF Slots
    <3>2. sw_rp \in Slots /\ wp = AddPointer(sw_rp, n)
      BY Window
    <3>. QED
      BY <3>1, <3>2, AddAdd
  <2>3. n + idx \in 0 .. FifoWords
    BY <2>1, <1>1 DEF Slots
  <2>. QED
    BY <2>1, <2>2, <2>3, Window, AddType
<1>3. \A k \in 1 .. n : mem'[AddPointer(sw_rp, k - 1)] = At(sw_rp, k - 1)
  <2> SUFFICES ASSUME NEW k \in 1 .. n
               PROVE  mem'[AddPointer(sw_rp, k - 1)] = At(sw_rp, k - 1)
    OBVIOUS
  <2>1. k - 1 \in Slots /\ k - 1 # n + idx
    BY <1>1, <1>2 DEF Slots
  <2>2. AddPointer(sw_rp, k - 1) # slot
    BY <2>1, <1>2, Window, AddInjective
  <2>. QED
    BY <2>2, Window DEF CopyWord, At
<1>. QED
  BY <1>1, <1>2, <1>3

LEMMA CopyWordInv == IInv /\ CopyWord => IInv'
<1> SUFFICES ASSUME IInv, CopyWord PROVE IInv'
  OBVIOUS
<1> DEFINE n == Len(pend)
           slot == AddPointer(wp, idx)
<1>1. /\ api \in Apis /\ idx \in Nat /\ idx < CopyEnd(api)
      /\ n + TotalWords(api) < FifoWords /\ TotalWords(api) \in Nat
      /\ CopyEnd(api) <= TotalWords(api) /\ CopyEnd(api) \in Nat
      /\ n \in Nat /\ FifoWords \in Nat
  BY CopyFacts, Window, ConstantsType DEF Slots
<1>2. /\ n + idx \in Slots /\ idx \in Slots
      /\ slot = AddPointer(sw_rp, n + idx) /\ slot \in Slots
  BY CopyFacts
<1>3. mem' \in [Slots -> Words]
  BY <1>1, <1>2, Window DEF CopyWord, Words, Word
<1>4. TypeOK'
  BY <1>1, <1>3 DEF IInv, TypeOK, CopyWord, walk
<1>5. MemFits'
  BY <1>1, <1>2, Window DEF IInv, MemFits, CopyWord, Word
<1>6. \A k \in 1 .. n : mem'[AddPointer(sw_rp, k - 1)] = At(sw_rp, k - 1)
  BY CopyFacts
<1>7. QueuedIntact'
  BY <1>6 DEF IInv, QueuedIntact, CopyWord, At
<1>8. \A k \in 0 .. idx - 1 : mem'[AddPointer(wp, k)] = At(wp, k)
  <2> SUFFICES ASSUME NEW k \in 0 .. idx - 1
               PROVE  mem'[AddPointer(wp, k)] = At(wp, k)
    OBVIOUS
  <2>1. k \in Slots /\ k # idx
    BY <1>1, <1>2 DEF Slots
  <2>2. AddPointer(wp, k) # slot
    BY <2>1, <1>2, Window, AddInjective
  <2>. QED
    BY <2>2, Window DEF CopyWord, At
<1>9. Copying'
  <2>1. idx # ResultOff => mem'[AddPointer(wp, idx)] = Word(api, idx)
    BY <1>2, Window DEF CopyWord
  <2>2. \A k \in 0 .. idx : k # ResultOff
                            => mem'[AddPointer(wp, k)] = Word(api, k)
    BY <2>1, <1>1, <1>8 DEF IInv, Copying, CopyWord
  <2>. QED
    BY <2>2, <1>1 DEF IInv, Copying, CopyWord, At
<1>10. Framed(pend)' /\ WpAtEnd' /\ ReadersAligned' /\ Finished' = Finished
  BY QueueKept DEF CopyWord
<1>. QED
  BY <1>4, <1>5, <1>7, <1>9, <1>10
  DEF IInv, OneIrqEach, Executing, CopyWord

(* Publishing appends a whole message to the queue.                          *)
LEMMA PublishFacts ==
  ASSUME IInv, PublishWp
  PROVE  LET n == Len(pend)
             T == TotalWords(api)
         IN  /\ api \in Apis /\ n + T < FifoWords
             /\ \A k \in 0 .. T - 1 : k # ResultOff => At(wp, k) = Word(api, k)
             /\ pend' \in WordSeq /\ Len(pend') = n + T
             /\ \A i \in 1 .. n : pend'[i] = pend[i]
             /\ \A i \in 1 .. T : pend'[n + i] = Word(api, i - 1)
             /\ wp' = AddPointer(sw_rp, n + T) /\ wp' \in Slots
             /\ Dist(sw_rp, wp') = n + T
<1> DEFINE n == Len(pend)
           T == TotalWords(api)
           ws == [i \in 1 .. T |-> Word(api, i - 1)]
<1>1. /\ api \in Apis /\ n + T < FifoWords /\ T \in Nat /\ T >= 4
      /\ n \in Nat /\ FifoWords \in Nat
      /\ \A k \in 0 .. T - 1 : k # ResultOff => At(wp, k) = Word(api, k)
  <2>1. api \in Apis /\ idx = T
    BY DEF IInv, TypeOK, PublishWp, CopyEnd
  <2>. QED
    BY <2>1, Window, ConstantsType DEF IInv, Copying, PublishWp, Slots
<1>2. /\ pend' \in WordSeq /\ Len(pend') = n + T
      /\ \A i \in 1 .. n : pend'[i] = pend[i]
      /\ \A i \in 1 .. T : pend'[n + i] = Word(api, i - 1)
  <2>1. /\ ws \in WordSeq /\ Len(ws) = T
        /\ \A i \in 1 .. T : ws[i] = Word(api, i - 1)
    BY <1>1, MessageWords DEF WordSeq
  <2>2. pend' = pend \o ws
    BY DEF PublishWp
  <2>3. /\ pend \o ws \in WordSeq /\ Len(pend \o ws) = n + T
        /\ \A i \in 1 .. n + T :
             (pend \o ws)[i] = IF i <= n THEN pend[i] ELSE ws[i - n]
    <3>1. pend \in Seq([api : Apis, off : Nat])
      BY Window DEF WordSeq
    <3>2. ws \in Seq([api : Apis, off : Nat])
      BY <2>1 DEF WordSeq
    <3>. HIDE DEF ws
    <3>. QED
      BY <2>1, <3>1, <3>2, ConcatProperties DEF WordSeq
  <2>4. \A i \in 1 .. n : pend'[i] = pend[i]
    BY <2>2, <2>3, <1>1
  <2>5. ASSUME NEW i \in 1 .. T PROVE pend'[n + i] = Word(api, i - 1)
    <3>1. n + i \in 1 .. n + T /\ ~(n + i <= n) /\ (n + i) - n = i
      BY <1>1
    <3>. QED
      BY <3>1, <2>1, <2>2, <2>3
  <2>. QED
    BY <2>2, <2>3, <2>4, <2>5
<1>3. wp' = AddPointer(sw_rp, n + T) /\ wp' \in Slots
      /\ Dist(sw_rp, wp') = n + T
  <2>1. n + T \in Slots /\ n + T \in 0 .. FifoWords /\ n + T <= FifoWords
    BY <1>1 DEF Slots
  <2>2. sw_rp \in Slots /\ wp = AddPointer(sw_rp, n)
    BY Window
  <2>3. AddPointer(wp, T) = AddPointer(sw_rp, n + T)
    BY <2>1, <2>2, <1>1, AddAdd
  <2>. QED
    BY <2>1, <2>2, <2>3, AddType, DistAdd DEF PublishWp
<1>. QED
  BY <1>1, <1>2, <1>3

LEMMA PublishWpInv == IInv /\ PublishWp => IInv'
<1> SUFFICES ASSUME IInv, PublishWp PROVE IInv'
  OBVIOUS
<1> DEFINE n == Len(pend)
           T == TotalWords(api)
<1>1. /\ api \in Apis /\ n + T < FifoWords /\ T \in Nat /\ T >= 4
      /\ n \in Nat /\ FifoWords \in Nat
      /\ \A k \in 0 .. T - 1 : k # ResultOff => At(wp, k) = Word(api, k)
  BY PublishFacts, Window, ConstantsType DEF Slots
<1>2. /\ pend' \in WordSeq /\ Len(pend') = n + T
      /\ \A i \in 1 .. n : pend'[i] = pend[i]
      /\ \A i \in 1 .. T : pend'[n + i] = Word(api, i - 1)
  BY PublishFacts
<1>3. wp' = AddPointer(sw_rp, n + T) /\ wp' \in Slots
      /\ Dist(sw_rp, wp') = n + T
  BY PublishFacts
<1>4. TypeOK'
  BY <1>2, <1>3 DEF IInv, TypeOK, PublishWp, walk, WordSeq
<1>5. WpAtEnd'
  BY <1>2, <1>3 DEF WpAtEnd, PublishWp
<1>6. Framed(pend)'
  <2> SUFFICES ASSUME NEW i \in 1 .. n + T
               PROVE  \E m \in Apis, o \in Nat :
                        /\ pend'[i] = Word(m, o)
                        /\ o < TotalWords(m) /\ i - o >= 1
                        /\ i - o + TotalWords(m) - 1 <= n + T
                        /\ \A k \in 0 .. TotalWords(m) - 1 :
                             pend'[(i - o) + k] = Word(m, k)
    <3> SUFFICES ASSUME NEW i \in 1 .. Len(pend')
                 PROVE  LET m == pend'[i].api
                            first == i - pend'[i].off
                        IN  /\ pend'[i].off < TotalWords(m)
                            /\ first >= 1
                            /\ first + TotalWords(m) - 1 <= Len(pend')
                            /\ \A k \in 0 .. TotalWords(m) - 1 :
                                 pend'[first + k] = Word(m, k)
      BY DEF Framed
    <3>1. i \in 1 .. n + T
      BY <1>2
    <3>2. PICK m \in Apis, o \in Nat :
            /\ pend'[i] = Word(m, o)
            /\ o < TotalWords(m) /\ i - o >= 1
            /\ i - o + TotalWords(m) - 1 <= n + T
            /\ \A k \in 0 .. TotalWords(m) - 1 :
                 pend'[(i - o) + k] = Word(m, k)
      BY <3>1
    <3>3. pend'[i].api = m /\ pend'[i].off = o
      BY <3>2 DEF Word
    <3> QED
      BY <1>2, <3>2, <3>3
  <2>1. CASE i <= n
    <3>1. i \in 1 .. Len(pend) /\ pend \in WordSeq /\ Framed(pend)
      BY <2>1, <1>1, Window DEF IInv
    <3>2. PICK m \in Apis, o \in Nat :
            /\ pend[i] = Word(m, o)
            /\ o < TotalWords(m) /\ i - o >= 1
            /\ i - o + TotalWords(m) - 1 <= Len(pend)
            /\ \A k \in 0 .. TotalWords(m) - 1 : pend[(i - o) + k] = Word(m, k)
      BY <3>1, FramedWord
    <3>3. TotalWords(m) \in Nat
      BY ConstantsType
    <3>4. ASSUME NEW k \in 0 .. TotalWords(m) - 1
          PROVE  pend'[(i - o) + k] = Word(m, k)
      <4>1. (i - o) + k \in 1 .. n
        BY <3>2, <3>3, <1>1
      <4>. QED
        BY <4>1, <3>2, <1>2
    <3>. QED
      BY <3>1, <3>2, <3>3, <3>4, <1>1, <1>2
  <2>2. CASE i > n
    <3>1. i - n \in 1 .. T /\ n + (i - n) = i /\ i - n - 1 \in Nat
      BY <2>2, <1>1
    <3>2. pend'[i] = Word(api, i - n - 1)
      BY <3>1, <1>2
    <3>3. ASSUME NEW k \in 0 .. T - 1
          PROVE  pend'[(i - (i - n - 1)) + k] = Word(api, k)
      <4>1. k + 1 \in 1 .. T /\ (i - (i - n - 1)) + k = n + (k + 1)
            /\ (k + 1) - 1 = k
        BY <1>1
      <4>. QED
        BY <4>1, <1>2
    <3>. QED
      BY <3>1, <3>2, <3>3, <1>1
  <2>. QED
    BY <2>1, <2>2, <1>1
<1>7. QueuedIntact'
  <2> SUFFICES ASSUME NEW k \in 1 .. n + T
               PROVE  \/ mem[AddPointer(sw_rp, k - 1)] = pend'[k]
                      \/ /\ pend'[k].off = HandleOff
                         /\ mem[AddPointer(sw_rp, k - 1)] = ZeroHandle
                      \/ pend'[k].off = ResultOff
    BY <1>2 DEF QueuedIntact, At, PublishWp
  <2>1. CASE k <= n
    <3>1. k \in 1 .. Len(pend)
      BY <2>1, <1>1
    <3>2. \/ mem[AddPointer(sw_rp, k - 1)] = pend[k]
          \/ pend[k].off = HandleOff
             /\ mem[AddPointer(sw_rp, k - 1)] = ZeroHandle
          \/ pend[k].off = ResultOff
      BY <3>1 DEF IInv, QueuedIntact, At
    <3>3. pend'[k] = pend[k]
      BY <3>1, <1>2
    <3>. QED
      BY <3>2, <3>3
  <2>2. CASE k > n
    <3>1. /\ k - n \in 1 .. T /\ n + (k - n) = k /\ k - n - 1 \in 0 .. T - 1
          /\ n + (k - n - 1) = k - 1 /\ k - 1 <= FifoWords
          /\ k - n - 1 \in Nat
      BY <2>2, <1>1
    <3>2. pend'[k] = Word(api, k - n - 1)
      BY <3>1, <1>2
    <3>3. AddPointer(wp, k - n - 1) = AddPointer(sw_rp, k - 1)
      BY <3>1, <1>1, Window, AddAdd
    <3>4. k - n - 1 # ResultOff => mem[AddPointer(sw_rp, k - 1)] = pend'[k]
      BY <3>1, <3>2, <3>3, <1>1 DEF At
    <3>. QED
      BY <3>2, <3>4 DEF Word
  <2>. QED
    BY <2>1, <2>2, <1>1
<1>8. ReadersAligned'
  <2>1. Dist(sw_rp, sw_rp) = 0 /\ pend'[n + 1].off = IdOff
    <3>1. 1 \in 1 .. T /\ 1 - 1 = 0
      BY <1>1
    <3>2. pend'[n + 1] = Word(api, 0)
      BY <3>1, <1>2
    <3>3. Dist(sw_rp, sw_rp) = 0
      BY Window, DistType
    <3>. QED
      BY <3>2, <3>3 DEF Word, IdOff
  <2>2. CASE n = 0
    BY <2>1, <2>2, <1>1, <1>2, Window
    DEF ReadersAligned, MsgStart, PublishWp, Slots
  <2>3. CASE n > 0
    <3>1. UNCHANGED <<sw_rp, hw_rp>>
      BY DEF PublishWp
    <3>2. Dist(sw_rp, hw_rp) \in Nat /\ Dist(sw_rp, hw_rp) <= n
      BY Window DEF Slots
    <3>3. ASSUME NEW d \in Nat, d <= n, d < n => pend[d + 1].off = IdOff
          PROVE  d <= n + T /\ (d < n + T => pend'[d + 1].off = IdOff)
      <4>1. CASE d < n
        <5>1. d + 1 \in 1 .. n
          BY <4>1, <1>1
        <5> QED
          BY <4>1, <5>1, <1>1, <1>2, <3>3
      <4>2. CASE d = n
        BY <4>2, <2>1, <1>1
      <4> QED
        BY <4>1, <4>2, <3>3, <1>1
    <3>4. pend[1].off = IdOff
      BY <2>3, Window
    <3>5. MsgStart(hw_rp)'
      <4>1. Dist(sw_rp, hw_rp) < n => pend[Dist(sw_rp, hw_rp) + 1].off = IdOff
        BY Window
      <4> QED
        BY <4>1, <3>1, <3>2, <3>3, <1>2 DEF MsgStart
    <3>6. MsgStart(sw_rp)'
      BY <2>1, <3>1, <3>3, <3>4, <1>1, <1>2, 0 + 1 = 1 DEF MsgStart
    <3> QED
      BY <3>5, <3>6 DEF ReadersAligned
  <2>. QED
    BY <2>2, <2>3, <1>1
<1>9. Finished' = Finished /\ Executing'
  <2>1. UNCHANGED <<sw_rp, hw_rp, run>>
    BY DEF PublishWp
  <2>2. Dist(sw_rp, hw_rp) \in Nat /\ Dist(sw_rp, hw_rp) <= n
    BY Window DEF Slots
  <2>3. \A i \in 1 .. Dist(sw_rp, hw_rp) : pend'[i] = pend[i]
    BY <2>2, <1>1, <1>2
  <2>4. Finished' = Finished
    BY <2>1, <2>3 DEF Finished
  <2>5. Executing'
    <3> SUFFICES ASSUME run # NoApi
                 PROVE  /\ Dist(sw_rp, hw_rp) < n + T
                        /\ run = pend'[Dist(sw_rp, hw_rp) + 1].api
      BY <2>1, <1>2 DEF Executing
    <3>1. Dist(sw_rp, hw_rp) < n /\ run = pend[Dist(sw_rp, hw_rp) + 1].api
      BY DEF IInv, Executing
    <3>2. Dist(sw_rp, hw_rp) + 1 \in 1 .. n
      BY <2>2, <3>1, <1>1
    <3> QED
      BY <2>2, <3>1, <3>2, <1>1, <1>2
  <2> QED
    BY <2>4, <2>5
<1>. QED
  BY <1>4, <1>5, <1>6, <1>7, <1>8, <1>9
  DEF IInv, MemFits, OneIrqEach, Copying, PublishWp

(* The firmware finds the identity of the first message it has not executed. *)
LEMMA DevFetchInv == IInv /\ DevFetch => IInv'
<1> SUFFICES ASSUME IInv, DevFetch PROVE IInv'
  OBVIOUS
<1> DEFINE n == Len(pend)
           d == Dist(sw_rp, hw_rp)
<1>1. d < n /\ pend[d + 1].off = IdOff /\ d + 1 \in 1 .. n
  BY Window DEF DevFetch, Slots
<1>2. At(hw_rp, IdOff) = pend[d + 1] /\ pend[d + 1].api \in Apis
  <2>1. pend[d + 1] \in [api : Apis, off : Nat]
    BY <1>1, Window, ElementOfSeq DEF WordSeq
  <2>2. pend[d + 1].off # HandleOff /\ pend[d + 1].off # ResultOff
    BY <1>1, ConstantsType DEF IdOff, HandleOff, ResultOff
  <2>3. At(sw_rp, (d + 1) - 1) = pend[d + 1]
    BY <1>1, <2>2 DEF IInv, QueuedIntact
  <2>4. (d + 1) - 1 = d /\ AddPointer(hw_rp, IdOff) = AddPointer(sw_rp, d)
    BY <1>1, Window, AddZero DEF IdOff, Slots
  <2>. QED
    BY <2>1, <2>3, <2>4 DEF At
<1>3. run' = pend[d + 1].api
  BY <1>2 DEF DevFetch
<1>4. TypeOK'
  BY <1>2, <1>3 DEF IInv, TypeOK, DevFetch, walk
<1>5. Executing'
  BY <1>1, <1>3 DEF Executing, DevFetch
<1>6. Framed(pend)' /\ WpAtEnd' /\ ReadersAligned' /\ Finished' = Finished
      /\ MemFits' /\ QueuedIntact'
  BY QueueKept DEF DevFetch
<1>. QED
  BY <1>4, <1>5, <1>6 DEF IInv, OneIrqEach, Copying, At, DevFetch

(* The firmware moves behind the message it executed: one more finished.     *)
LEMMA FinishFacts ==
  ASSUME IInv, DevFinish
  PROVE  \E m \in Apis :
         LET n == Len(pend)
             d == Dist(sw_rp, hw_rp)
             slot == AddPointer(hw_rp, ResultOff)
         IN  /\ d < n /\ d \in Nat /\ n \in Slots /\ pend[d + 1].off = IdOff
             /\ m = pend[d + 1].api /\ run = m
             /\ d + TotalWords(m) <= n
             /\ hw_rp' = AddPointer(sw_rp, d + TotalWords(m)) /\ hw_rp' \in Slots
             /\ d + TotalWords(m) < n => pend[d + TotalWords(m) + 1].off = IdOff
             /\ \A k \in 0 .. TotalWords(m) - 1 : pend[d + 1 + k] = Word(m, k)
             /\ d + ResultOff \in Slots /\ slot = AddPointer(sw_rp, d + ResultOff)
             /\ slot \in Slots
             /\ Dist(sw_rp, hw_rp') = d + TotalWords(m)
<1> DEFINE n == Len(pend)
           d == Dist(sw_rp, hw_rp)
           slot == AddPointer(hw_rp, ResultOff)
<1>1. /\ d < n /\ pend[d + 1].off = IdOff /\ d \in Nat /\ n \in Nat
      /\ run = pend[d + 1].api /\ n \in Slots /\ FifoWords \in Nat
  BY Window, ConstantsType DEF DevFinish, IInv, Executing, Slots
<1>2. PICK m \in Apis :
        /\ m = pend[d + 1].api
        /\ SizeAt(hw_rp) = PayloadWords[m]
        /\ d + TotalWords(m) <= n
        /\ NextMsg(hw_rp) = AddPointer(sw_rp, d + TotalWords(m))
        /\ NextMsg(hw_rp) \in Slots
        /\ d + TotalWords(m) < n => pend[d + TotalWords(m) + 1].off = IdOff
  BY <1>1, Window, NextMsgIsNext DEF IInv
<1>3. \A k \in 0 .. TotalWords(m) - 1 : pend[d + 1 + k] = Word(m, k)
  BY <1>1, <1>2, Window, FramedMessage DEF IInv
<1>4. /\ TotalWords(m) \in Nat /\ TotalWords(m) >= 4
      /\ ResultOff \in 0 .. TotalWords(m) - 1 /\ ResultOff \in Nat
  BY ConstantsType DEF ResultOff
<1>5. /\ d + ResultOff \in Slots /\ slot = AddPointer(sw_rp, d + ResultOff)
      /\ slot \in Slots
  <2>1. d + ResultOff \in Slots /\ d + ResultOff \in 0 .. FifoWords
        /\ d + ResultOff <= FifoWords
    BY <1>1, <1>2, <1>4 DEF Slots
  <2>2. sw_rp \in Slots /\ hw_rp = AddPointer(sw_rp, d)
    BY Window
  <2>3. slot = AddPointer(sw_rp, d + ResultOff)
    BY <2>1, <2>2, <1>1, <1>4, AddAdd
  <2>. QED
    BY <2>1, <2>2, <2>3, AddType
<1>6. Dist(sw_rp, hw_rp') = d + TotalWords(m)
  <2>1. d + TotalWords(m) \in Slots
    BY <1>1, <1>2, <1>4 DEF Slots
  <2>2. hw_rp' = AddPointer(sw_rp, d + TotalWords(m))
    BY <1>2 DEF DevFinish
  <2>. QED
    BY <2>1, <2>2, Window, DistAdd
<1>. QED
  BY <1>1, <1>2, <1>3, <1>5, <1>6 DEF DevFinish

LEMMA DevFinishInv == IInv /\ DevFinish => IInv'
<1> SUFFICES ASSUME IInv, DevFinish PROVE IInv'
  OBVIOUS
<1> DEFINE n == Len(pend)
           d == Dist(sw_rp, hw_rp)
           slot == AddPointer(hw_rp, ResultOff)
<1>a. PICK m \in Apis :
        /\ d < n /\ d \in Nat /\ n \in Slots /\ pend[d + 1].off = IdOff
        /\ m = pend[d + 1].api /\ run = m
        /\ d + TotalWords(m) <= n
        /\ hw_rp' = AddPointer(sw_rp, d + TotalWords(m)) /\ hw_rp' \in Slots
        /\ d + TotalWords(m) < n => pend[d + TotalWords(m) + 1].off = IdOff
        /\ \A k \in 0 .. TotalWords(m) - 1 : pend[d + 1 + k] = Word(m, k)
        /\ d + ResultOff \in Slots /\ slot = AddPointer(sw_rp, d + ResultOff)
        /\ slot \in Slots
        /\ Dist(sw_rp, hw_rp') = d + TotalWords(m)
  BY FinishFacts
<1>1. /\ d < n /\ pend[d + 1].off = IdOff /\ d \in Nat /\ n \in Nat
      /\ run = pend[d + 1].api /\ n \in Slots /\ FifoWords \in Nat
  BY <1>a, ConstantsType DEF Slots
<1>2. /\ m = pend[d + 1].api /\ d + TotalWords(m) <= n
      /\ hw_rp' = AddPointer(sw_rp, d + TotalWords(m)) /\ hw_rp' \in Slots
      /\ d + TotalWords(m) < n => pend[d + TotalWords(m) + 1].off = IdOff
  BY <1>a
<1>3. \A k \in 0 .. TotalWords(m) - 1 : pend[d + 1 + k] = Word(m, k)
  BY <1>a
<1>4. /\ TotalWords(m) \in Nat /\ TotalWords(m) >= 4
      /\ ResultOff \in 0 .. TotalWords(m) - 1 /\ ResultOff \in Nat
  BY ConstantsType DEF ResultOff
<1>5. /\ d + ResultOff \in Slots /\ slot = AddPointer(sw_rp, d + ResultOff)
      /\ slot \in Slots
  BY <1>a
<1>6. mem' \in [Slots -> Words]
  BY <1>1, <1>2, <1>4, <1>5, Window DEF DevFinish, Words, Word
<1>7. TypeOK'
  BY <1>2, <1>6 DEF IInv, TypeOK, DevFinish, walk
<1>8. MemFits'
  <2>1. TotalWords(run) < FifoWords
    BY <1>1, <1>2, <1>4 DEF Slots
  <2>. QED
    BY <2>1, <1>5, Window DEF IInv, MemFits, DevFinish, Word
<1>9. QueuedIntact'
  <2> SUFFICES ASSUME NEW k \in 1 .. n
               PROVE  \/ mem'[AddPointer(sw_rp, k - 1)] = pend[k]
                      \/ /\ pend[k].off = HandleOff
                         /\ mem'[AddPointer(sw_rp, k - 1)] = ZeroHandle
                      \/ pend[k].off = ResultOff
    BY DEF QueuedIntact, At, DevFinish
  <2>1. CASE k - 1 = d + ResultOff
    <3>1. k = d + 1 + ResultOff
      BY <2>1, <1>1, <1>4
    <3>2. pend[k] = Word(m, ResultOff)
      BY <3>1, <1>3, <1>4
    <3>. QED
      BY <3>2 DEF Word
  <2>2. CASE k - 1 # d + ResultOff
    <3>1. k - 1 \in Slots
      BY <1>1 DEF Slots
    <3>2. AddPointer(sw_rp, k - 1) # slot
      BY <2>2, <3>1, <1>5, Window, AddInjective
    <3>3. mem'[AddPointer(sw_rp, k - 1)] = At(sw_rp, k - 1)
      BY <3>2, Window DEF DevFinish, At
    <3>. QED
      BY <3>3 DEF IInv, QueuedIntact
  <2>. QED
    BY <2>1, <2>2
<1>10. Dist(sw_rp, hw_rp') = d + TotalWords(m)
  BY <1>a
<1>11. ReadersAligned' /\ WpAtEnd' /\ Framed(pend)'
  BY <1>2, <1>10 DEF IInv, ReadersAligned, MsgStart, WpAtEnd, Framed, DevFinish
<1>12. OneIrqEach'
  <2>1. Finished' = Finished \cup {d + 1}
    <3>1. Finished' = {i \in 1 .. d + TotalWords(m) : pend[i].off = IdOff}
      BY <1>10 DEF Finished, DevFinish
    <3>2. ASSUME NEW k \in 1 .. TotalWords(m) - 1
          PROVE  pend[d + 1 + k].off # IdOff
      <4>1. k \in 0 .. TotalWords(m) - 1 /\ k # 0
        BY <1>4
      <4>2. pend[d + 1 + k] = Word(m, k)
        BY <4>1, <1>3
      <4>. QED
        BY <4>1, <4>2 DEF Word, IdOff
    <3>3. ASSUME NEW i \in 1 .. d + TotalWords(m), pend[i].off = IdOff
          PROVE  i \in 1 .. d \/ i = d + 1
      <4>1. i > d + 1 => /\ i - (d + 1) \in 1 .. TotalWords(m) - 1
                         /\ d + 1 + (i - (d + 1)) = i
        BY <1>1, <1>4
      <4>. QED
        BY <4>1, <3>2, <3>3, <1>1
    <3>4. 1 .. d \subseteq 1 .. d + TotalWords(m)
          /\ d + 1 \in 1 .. d + TotalWords(m)
      BY <1>1, <1>4
    <3>. QED
      BY <3>1, <3>3, <3>4, <1>1 DEF Finished
  <2>2. IsFiniteSet(Finished)
    <3>1. Finished \in SUBSET (1 .. d)
      BY DEF Finished
    <3>. QED
      BY <3>1, <1>1, FS_Interval, FS_Subset, 1 \in Int, d \in Int
  <2>3. d + 1 \notin Finished
    BY <1>1 DEF Finished
  <2>4. Cardinality(Finished') = Cardinality(Finished) + 1
    BY <2>1, <2>2, <2>3, FS_AddElement
  <2>. QED
    BY <2>4 DEF IInv, OneIrqEach, DevFinish
<1>13. Copying'
  <2> SUFFICES ASSUME pc = "copy", NEW k \in 0 .. idx - 1
               PROVE  mem'[AddPointer(wp, k)] = At(wp, k)
    BY DEF IInv, Copying, DevFinish, At
  <2>1. /\ n + TotalWords(api) < FifoWords /\ idx <= TotalWords(api)
        /\ idx \in Nat /\ TotalWords(api) \in Nat
    BY ConstantsType DEF IInv, TypeOK, Copying
  <2>2. n + k \in Slots /\ n + k # d + ResultOff /\ n + k <= FifoWords
        /\ k \in Nat
    <3>1. k \in Nat /\ k < idx
      BY <2>1
    <3>2. ResultOff < TotalWords(m) /\ d + TotalWords(m) <= n
      BY <1>2, <1>4
    <3>3. n \in Nat /\ d \in Nat /\ TotalWords(m) \in Nat /\ ResultOff \in Nat
          /\ FifoWords \in Nat
      BY <1>1, <1>4
    <3> QED
      BY ONLY <2>1, <3>1, <3>2, <3>3 DEF Slots
  <2>3. AddPointer(wp, k) = AddPointer(sw_rp, n + k)
    BY <2>2, <1>1, Window, AddAdd
  <2>4. AddPointer(wp, k) # slot
    BY <2>2, <2>3, <1>5, Window, AddInjective
  <2>. QED
    BY <2>4, Window DEF DevFinish, At
<1>. QED
  BY <1>7, <1>8, <1>9, <1>11, <1>12, <1>13 DEF IInv, Executing, DevFinish

(* With an interrupt to handle, the firmware has finished the first message. *)
LEMMA FirstFinished ==
  ASSUME IInv, irqs > 0
  PROVE  \E m \in Apis :
         LET n == Len(pend)
             d == Dist(sw_rp, hw_rp)
             T == TotalWords(m)
         IN  /\ n \in Slots /\ d \in Nat /\ d <= n /\ d > 0
             /\ m = pend[1].api /\ pend[1].off = IdOff
             /\ T \in Nat /\ T >= 4 /\ T <= d /\ (T < n => pend[T + 1].off = IdOff)
             /\ HeaderWords + SizeAt(sw_rp) = T
             /\ NextMsg(sw_rp) = AddPointer(sw_rp, T) /\ NextMsg(sw_rp) \in Slots
             /\ \A k \in 1 .. T : pend[k] = Word(m, k - 1)
<1> DEFINE n == Len(pend)
           d == Dist(sw_rp, hw_rp)
<1>1. /\ n \in Nat /\ d \in Nat /\ d <= n /\ n \in Slots /\ FifoWords \in Nat
      /\ n < FifoWords /\ d \in Int /\ 1 \in Int
  BY Window, ConstantsType DEF Slots
<1>2. IsFiniteSet(Finished) /\ Finished # {}
  <2>1. Finished \in SUBSET (1 .. d)
    BY DEF Finished
  <2>2. IsFiniteSet(Finished)
    BY <2>1, <1>1, FS_Interval, FS_Subset
  <2>3. Cardinality(Finished) # 0
    BY DEF IInv, OneIrqEach, TypeOK
  <2>. QED
    BY <2>2, <2>3, FS_EmptySet
<1>3. d > 0 /\ n > 0 /\ 0 < n /\ pend[0 + 1].off = IdOff
  BY <1>1, <1>2, Window DEF Finished
<1>4. sw_rp = AddPointer(sw_rp, 0) /\ 0 \in Nat
  BY Window, AddZero
<1>5. PICK m \in Apis :
        /\ m = pend[1].api
        /\ SizeAt(sw_rp) = PayloadWords[m]
        /\ TotalWords(m) <= n
        /\ NextMsg(sw_rp) = AddPointer(sw_rp, TotalWords(m))
        /\ NextMsg(sw_rp) \in Slots
        /\ TotalWords(m) < n => pend[TotalWords(m) + 1].off = IdOff
  <2>1. PICK m \in Apis :
        /\ m = pend[0 + 1].api
        /\ SizeAt(sw_rp) = PayloadWords[m]
        /\ 0 + TotalWords(m) <= n
        /\ NextMsg(sw_rp) = AddPointer(sw_rp, 0 + TotalWords(m))
        /\ NextMsg(sw_rp) \in Slots
        /\ 0 + TotalWords(m) < n => pend[0 + TotalWords(m) + 1].off = IdOff
    BY <1>3, <1>4, NextMsgIsNext DEF IInv
  <2>2. 0 + TotalWords(m) = TotalWords(m)
    BY ConstantsType
  <2>. QED
    BY <2>1, <2>2
<1> DEFINE T == TotalWords(m)
<1>6. \A k \in 1 .. T : pend[k] = Word(m, k - 1)
  <2>1. \A k \in 0 .. T - 1 : pend[0 + 1 + k] = Word(m, k)
    BY <1>3, <1>4, <1>5, Window, FramedMessage DEF IInv
  <2>. QED
    <3> SUFFICES ASSUME NEW k \in 1 .. T PROVE pend[k] = Word(m, k - 1)
      OBVIOUS
    <3>1. k - 1 \in 0 .. T - 1 /\ 0 + 1 + (k - 1) = k
      BY ConstantsType
    <3>. QED
      BY <3>1, <2>1
<1>7. /\ T \in Nat /\ T >= 4 /\ T <= n /\ HeaderWords + SizeAt(sw_rp) = T
      /\ T <= FifoWords
  BY <1>1, <1>5, ConstantsType
<1>8. T <= d
  <2> SUFFICES ASSUME d < T PROVE FALSE
    BY <1>1, <1>7
  <2>1. d < n /\ d + 1 \in 1 .. T
    BY <1>1, <1>7
  <2>2. pend[d + 1].off = IdOff
    BY <2>1, Window
  <2>3. pend[d + 1] = Word(m, (d + 1) - 1)
    BY <2>1, <1>6
  <2>. QED
    BY <2>2, <2>3, <1>1, <1>3 DEF Word, IdOff
<1>. QED
  BY <1>1, <1>3, <1>5, <1>6, <1>7, <1>8

(* The interrupt handler gives it back: everything moves forward by its      *)
(* length T.                                                                 *)
LEMMA ReleaseFacts ==
  ASSUME IInv, PostApiProcess
  PROVE  \E m \in Apis :
         LET n == Len(pend)
             d == Dist(sw_rp, hw_rp)
             T == TotalWords(m)
         IN  /\ n \in Slots /\ d \in Nat /\ d <= n /\ d > 0 /\ pend[1].off = IdOff
             /\ T \in Nat /\ T >= 4 /\ T <= d /\ (T < n => pend[T + 1].off = IdOff)
             /\ \A k \in 1 .. T : pend[k] = Word(m, k - 1)
             /\ pend' \in WordSeq /\ Len(pend') = n - T
             /\ \A i \in 1 .. n - T : pend'[i] = pend[T + i]
             /\ sw_rp' = AddPointer(sw_rp, T) /\ sw_rp' \in Slots
             /\ Dist(sw_rp', hw_rp) = d - T /\ Dist(sw_rp', wp) = n - T
<1> DEFINE n == Len(pend)
           d == Dist(sw_rp, hw_rp)
<1>a. PICK m \in Apis :
        LET T == TotalWords(m)
        IN  /\ n \in Slots /\ d \in Nat /\ d <= n /\ d > 0
            /\ m = pend[1].api /\ pend[1].off = IdOff
            /\ T \in Nat /\ T >= 4 /\ T <= d /\ (T < n => pend[T + 1].off = IdOff)
            /\ HeaderWords + SizeAt(sw_rp) = T
            /\ NextMsg(sw_rp) = AddPointer(sw_rp, T) /\ NextMsg(sw_rp) \in Slots
            /\ \A k \in 1 .. T : pend[k] = Word(m, k - 1)
  BY FirstFinished DEF PostApiProcess
<1> DEFINE T == TotalWords(m)
<1>1. /\ n \in Nat /\ d \in Nat /\ d <= n /\ n \in Slots /\ FifoWords \in Nat
      /\ n < FifoWords
  BY <1>a, ConstantsType DEF Slots
<1>3. d > 0 /\ n > 0 /\ pend[1].off = IdOff
  BY <1>a, <1>1
<1>5. /\ NextMsg(sw_rp) = AddPointer(sw_rp, T) /\ NextMsg(sw_rp) \in Slots
      /\ T < n => pend[T + 1].off = IdOff
  BY <1>a
<1>6. \A k \in 1 .. T : pend[k] = Word(m, k - 1)
  BY <1>a
<1>7. /\ T \in Nat /\ T >= 4 /\ T <= n /\ HeaderWords + SizeAt(sw_rp) = T
      /\ T <= FifoWords
  BY <1>a, <1>1
<1>8. T <= d
  BY <1>a
<1>9. /\ pend' \in WordSeq /\ Len(pend') = n - T
      /\ \A i \in 1 .. n - T : pend'[i] = pend[T + i]
  <2>1. pend' = SubSeq(pend, T + 1, n)
    BY <1>7 DEF PostApiProcess
  <2>2. T + 1 \in Int /\ n \in Int
    BY <1>1, <1>7
  <2>3. \A i \in T + 1 .. n : pend[i] \in [api : Apis, off : Nat]
    <3> SUFFICES ASSUME NEW i \in T + 1 .. n
                 PROVE  pend[i] \in [api : Apis, off : Nat]
      OBVIOUS
    <3>1. i \in 1 .. n /\ pend \in Seq([api : Apis, off : Nat])
      BY <1>1, <1>7, Window DEF WordSeq
    <3>. QED
      BY <3>1, ElementOfSeq
  <2>4. /\ SubSeq(pend, T + 1, n) \in Seq([api : Apis, off : Nat])
        /\ Len(SubSeq(pend, T + 1, n)) = IF T + 1 <= n THEN n - (T + 1) + 1 ELSE 0
        /\ \A i \in 1 .. n - (T + 1) + 1 :
             SubSeq(pend, T + 1, n)[i] = pend[(T + 1) + i - 1]
    BY <2>2, <2>3, SubSeqProperties
  <2>5. n - (T + 1) + 1 = n - T /\ (T + 1 > n => n - T = 0)
    BY <1>1, <1>7
  <2>6. \A i \in 1 .. n - T : (T + 1) + i - 1 = T + i
    BY <1>1, <1>7
  <2>. QED
    <3>1. pend' \in WordSeq /\ Len(pend') = n - T
      BY <2>1, <2>4, <2>5, <1>1, <1>7 DEF WordSeq
    <3>2. ASSUME NEW i \in 1 .. n - T PROVE pend'[i] = pend[T + i]
      BY <2>1, <2>4, <2>5, <2>6
    <3>. QED
      BY <3>1, <3>2
<1>10. /\ sw_rp' = AddPointer(sw_rp, T) /\ sw_rp' \in Slots
       /\ Dist(sw_rp', hw_rp) = d - T /\ Dist(sw_rp', wp) = n - T
  <2>1. sw_rp' = AddPointer(sw_rp, T) /\ sw_rp' \in Slots
    BY <1>5 DEF PostApiProcess
  <2>2. Dist(sw_rp, wp) = n
    BY DEF IInv, WpAtEnd
  <2>. QED
    BY <2>1, <2>2, <1>7, <1>8, Window, DistShift
<1>. QED
  BY <1>1, <1>3, <1>5, <1>6, <1>7, <1>8, <1>9, <1>10

LEMMA PostApiProcessInv == IInv /\ PostApiProcess => IInv'
<1> SUFFICES ASSUME IInv, PostApiProcess PROVE IInv'
  OBVIOUS
<1> DEFINE n == Len(pend)
           d == Dist(sw_rp, hw_rp)
<1>a. PICK m \in Apis :
        LET T == TotalWords(m)
        IN  /\ n \in Slots /\ d \in Nat /\ d <= n /\ d > 0 /\ pend[1].off = IdOff
            /\ T \in Nat /\ T >= 4 /\ T <= d /\ (T < n => pend[T + 1].off = IdOff)
            /\ \A k \in 1 .. T : pend[k] = Word(m, k - 1)
            /\ pend' \in WordSeq /\ Len(pend') = n - T
            /\ \A i \in 1 .. n - T : pend'[i] = pend[T + i]
            /\ sw_rp' = AddPointer(sw_rp, T) /\ sw_rp' \in Slots
            /\ Dist(sw_rp', hw_rp) = d - T /\ Dist(sw_rp', wp) = n - T
  BY ReleaseFacts
<1> DEFINE T == TotalWords(m)
<1>1. /\ n \in Nat /\ d \in Nat /\ d <= n /\ n \in Slots /\ FifoWords \in Nat
      /\ n < FifoWords /\ d \in Int /\ 1 \in Int
  BY <1>a, ConstantsType DEF Slots
<1>2. IsFiniteSet(Finished)
  <2>1. Finished \in SUBSET (1 .. d)
    BY DEF Finished
  <2>. QED
    BY <2>1, <1>1, FS_Interval, FS_Subset
<1>3. d > 0 /\ n > 0 /\ pend[1].off = IdOff
  BY <1>a, <1>1
<1>5. T < n => pend[T + 1].off = IdOff
  BY <1>a
<1>6. \A k \in 1 .. T : pend[k] = Word(m, k - 1)
  BY <1>a
<1>7. T \in Nat /\ T >= 4 /\ T <= n /\ T <= FifoWords
  BY <1>a, <1>1
<1>8. T <= d
  BY <1>a
<1>9. /\ pend' \in WordSeq /\ Len(pend') = n - T
      /\ \A i \in 1 .. n - T : pend'[i] = pend[T + i]
  BY <1>a
<1>10. /\ sw_rp' = AddPointer(sw_rp, T) /\ sw_rp' \in Slots
       /\ Dist(sw_rp', hw_rp) = d - T /\ Dist(sw_rp', wp) = n - T
  BY <1>a
<1>11. TypeOK'
  BY <1>9, <1>10 DEF IInv, TypeOK, PostApiProcess, walk, WordSeq
<1>12. WpAtEnd'
  BY <1>9, <1>10 DEF WpAtEnd, PostApiProcess
<1>13. QueuedIntact'
  <2> SUFFICES ASSUME NEW k \in 1 .. n - T
               PROVE  \/ mem[AddPointer(sw_rp', k - 1)] = pend[T + k]
                      \/ /\ pend[T + k].off = HandleOff
                         /\ mem[AddPointer(sw_rp', k - 1)] = ZeroHandle
                      \/ pend[T + k].off = ResultOff
    <3>1. mem' = mem
      BY DEF PostApiProcess
    <3> QED
      BY <1>9, <3>1 DEF QueuedIntact, At
  <2>1. /\ T + k \in 1 .. n /\ (T + k) - 1 = T + (k - 1) /\ k - 1 \in Nat
        /\ T + (k - 1) <= FifoWords
    BY <1>1, <1>7
  <2>2. AddPointer(sw_rp', k - 1) = AddPointer(sw_rp, (T + k) - 1)
    BY <2>1, <1>7, <1>10, Window, AddAdd
  <2>. QED
    BY <2>1, <2>2 DEF IInv, QueuedIntact, At
<1>14. ReadersAligned'
  <2>1. d - T < n - T => pend'[(d - T) + 1].off = IdOff
    <3> SUFFICES ASSUME d < n PROVE pend'[(d - T) + 1].off = IdOff
      BY <1>1, <1>7
    <3>1. (d - T) + 1 \in 1 .. n - T /\ T + ((d - T) + 1) = d + 1
      BY <1>1, <1>7, <1>8
    <3>. QED
      BY <3>1, <1>9, Window
  <2>2. 0 < n - T => pend'[0 + 1].off = IdOff
    BY <1>1, <1>5, <1>7, <1>9, T + 1 = T + (0 + 1)
  <2>3. Dist(sw_rp', sw_rp') = 0
    BY <1>10, DistType
  <2>. QED
    <3>1. MsgStart(hw_rp)'
      <4>1. hw_rp' = hw_rp
        BY DEF PostApiProcess
      <4>2. Dist(sw_rp', hw_rp') = d - T
        BY <4>1, <1>10
      <4>3. d - T <= n - T /\ Len(pend') = n - T
        BY <1>1, <1>7, <1>9
      <4>. QED
        BY <4>2, <4>3, <2>1 DEF MsgStart
    <3>2. MsgStart(sw_rp)'
      BY <2>2, <2>3, <1>1, <1>7, <1>9 DEF MsgStart
    <3>. QED
      BY <3>1, <3>2 DEF ReadersAligned
<1>15. Executing'
  <2> SUFFICES ASSUME run # NoApi
               PROVE  /\ d - T < n - T
                      /\ run = pend'[(d - T) + 1].api
    BY <1>9, <1>10 DEF Executing, PostApiProcess
  <2>1. d < n /\ run = pend[d + 1].api
    BY DEF IInv, Executing
  <2>2. (d - T) + 1 \in 1 .. n - T /\ T + ((d - T) + 1) = d + 1
    BY <2>1, <1>1, <1>7, <1>8
  <2>. QED
    BY <2>1, <2>2, <1>1, <1>7, <1>9
<1>16. Framed(pend)'
  <2> SUFFICES ASSUME NEW i \in 1 .. n - T
               PROVE  \E q \in Apis, o \in Nat :
                        /\ pend'[i] = Word(q, o)
                        /\ o < TotalWords(q) /\ i - o >= 1
                        /\ i - o + TotalWords(q) - 1 <= n - T
                        /\ \A k \in 0 .. TotalWords(q) - 1 :
                             pend'[(i - o) + k] = Word(q, k)
    BY <1>9 DEF Framed, Word
  <2>1. T + i \in 1 .. n /\ pend \in WordSeq /\ Framed(pend)
    BY <1>1, <1>7, Window DEF IInv
  <2>2. PICK q \in Apis, o \in Nat :
          /\ pend[T + i] = Word(q, o)
          /\ o < TotalWords(q) /\ (T + i) - o >= 1
          /\ (T + i) - o + TotalWords(q) - 1 <= n
          /\ \A k \in 0 .. TotalWords(q) - 1 :
               pend[((T + i) - o) + k] = Word(q, k)
    BY <2>1, FramedWord
  <2>3. TotalWords(q) \in Nat /\ TotalWords(q) >= 4
    BY ConstantsType
  <2>4. i - o >= 1
    <3> SUFFICES ASSUME (T + i) - o <= T PROVE FALSE
      BY <1>1, <1>7
    <3>1. (T + i) - o \in 1 .. T /\ 0 \in 0 .. TotalWords(q) - 1
          /\ ((T + i) - o) + 0 = (T + i) - o
      BY <2>2, <2>3, <1>7
    <3>2. pend[(T + i) - o] = Word(q, 0)
      BY <3>1, <2>2
    <3>3. pend[(T + i) - o] = Word(m, ((T + i) - o) - 1)
      BY <3>1, <1>6
    <3>4. q = m /\ (T + i) - o = 1
      BY <3>1, <3>2, <3>3 DEF Word
    <3>. QED
      BY <3>4, <2>2, <1>7
  <2>5. ASSUME NEW k \in 0 .. TotalWords(q) - 1
        PROVE  pend'[(i - o) + k] = Word(q, k)
    <3>1. /\ (i - o) + k \in 1 .. n - T
          /\ T + ((i - o) + k) = ((T + i) - o) + k
      <4>1. /\ i \in Nat /\ o \in Nat /\ k \in Nat /\ k <= TotalWords(q) - 1
            /\ n \in Nat /\ T \in Nat /\ TotalWords(q) \in Nat
            /\ (T + i) - o + TotalWords(q) - 1 <= n
        BY <2>2, <2>3, <1>1, <1>7
      <4> QED
        BY ONLY <4>1, <2>4
    <3>. QED
      BY <3>1, <2>2, <1>9
  <2>. QED
    <3>1. i - o + TotalWords(q) - 1 <= n - T
      BY <2>2, <2>3, <1>1, <1>7
    <3>2. pend'[i] = Word(q, o)
      BY <2>2, <1>9
    <3>. QED
      BY <3>1, <3>2, <2>2, <2>4, <2>5
<1>17. OneIrqEach'
  <2> DEFINE F == Finished \ {1}
             G == {i \in 1 .. d - T : pend[T + i].off = IdOff}
  <2>1. Finished' = G
    <3>1. Finished' = {i \in 1 .. d - T : pend'[i].off = IdOff}
      BY <1>10 DEF Finished, PostApiProcess
    <3>2. \A i \in 1 .. d - T : pend'[i] = pend[T + i]
      BY <1>1, <1>7, <1>8, <1>9
    <3>. QED
      BY <3>1, <3>2
  <2>2. 1 \in Finished
    BY <1>1, <1>3 DEF Finished
  <2>3. IsFiniteSet(F) /\ Cardinality(F) = Cardinality(Finished) - 1
    BY <2>2, <1>2, FS_RemoveElement
  <2>4. \A i \in F : i - T \in G /\ T + (i - T) = i
    <3> SUFFICES ASSUME NEW i \in F PROVE i - T \in G /\ T + (i - T) = i
      OBVIOUS
    <3>1. i \in 1 .. d /\ i # 1 /\ pend[i].off = IdOff
      BY DEF Finished
    <3>2. i > T
      <4> SUFFICES ASSUME i <= T PROVE FALSE
        BY <3>1, <1>7
      <4>1. pend[i] = Word(m, i - 1) /\ i - 1 # 0
        BY <3>1, <1>6, <1>7
      <4>. QED
        BY <3>1, <4>1 DEF Word, IdOff
    <3>3. T + (i - T) = i /\ i - T \in 1 .. d - T
      BY <3>1, <3>2, <1>1, <1>7
    <3>. QED
      BY <3>1, <3>3
  <2>5. \A i \in G : T + i \in F
    BY <1>1, <1>7, <1>8 DEF Finished
  <2>6. G = {i - T : i \in F}
    <3>1. ASSUME NEW y \in G PROVE y \in {i - T : i \in F}
      <4>1. T + y \in F /\ (T + y) - T = y
        BY <2>5, <1>7
      <4>. QED
        BY <4>1
    <3>2. {i - T : i \in F} \subseteq G
      BY <2>4
    <3>3. G \subseteq {i - T : i \in F}
      BY <3>1
    <3>. QED
      BY <3>2, <3>3
  <2>7. Cardinality(G) = Cardinality(F)
    <3>1. F \in SUBSET Int /\ T \in Int
      BY <1>1, <1>7 DEF Finished
    <3>. HIDE DEF F
    <3>2. Cardinality({i - T : i \in F}) = Cardinality(F)
      BY <2>3, <3>1, ShiftedSet
    <3>. QED
      BY <2>6, <3>2
  <2>. QED
    BY <2>1, <2>3, <2>7 DEF IInv, OneIrqEach, PostApiProcess
<1>18. Copying'
  <2> SUFFICES ASSUME pc = "copy"
               PROVE  (n - T) + TotalWords(api) < FifoWords
    BY <1>9 DEF IInv, Copying, PostApiProcess, At
  <2>1. TotalWords(api) \in Nat /\ n + TotalWords(api) < FifoWords
    BY ConstantsType DEF IInv, TypeOK, Copying
  <2>. QED
    BY <2>1, <1>1, <1>7
<1>. QED
  BY <1>11, <1>12, <1>13, <1>14, <1>15, <1>16, <1>17, <1>18
  DEF IInv, MemFits, PostApiProcess

(* A close zeroes handle words only, wherever its walk has got to.           *)
LEMMA InvalidateStepInv == IInv /\ InvalidateStep => IInv'
<1> SUFFICES ASSUME IInv, InvalidateStep PROVE IInv'
  OBVIOUS
<1> DEFINE slot == AddPointer(cur, HandleOff)
<1>1. cur \in Slots /\ slot \in Slots
  BY AddType, ConstantsType DEF IInv, TypeOK, HandleOff
<1>2. mem' \in [Slots -> Words]
  BY <1>1, Window DEF InvalidateStep, Words, ZeroHandle, Word, HandleOff
<1>3. TypeOK'
  BY <1>1, <1>2, NextMsgType DEF IInv, TypeOK, InvalidateStep
<1>4. \A p \in Slots : \/ mem'[p] = mem[p]
                       \/ /\ mem'[p] = ZeroHandle
                          /\ mem[p].api \in Apis /\ mem[p].off = HandleOff
  BY <1>1, Window DEF InvalidateStep, HandleIs, At
<1>5. MemFits'
  BY <1>4, ConstantsType DEF IInv, MemFits, ZeroHandle, Word
<1>6. QueuedIntact'
  <2> SUFFICES ASSUME NEW k \in 1 .. Len(pend)
               PROVE  \/ mem'[AddPointer(sw_rp, k - 1)] = pend[k]
                      \/ /\ pend[k].off = HandleOff
                         /\ mem'[AddPointer(sw_rp, k - 1)] = ZeroHandle
                      \/ pend[k].off = ResultOff
    BY DEF QueuedIntact, At, InvalidateStep
  <2>1. AddPointer(sw_rp, k - 1) \in Slots
    <3>1. k - 1 \in 0 .. FifoWords
      BY Window, ConstantsType DEF Slots
    <3>. QED
      BY <3>1, Window, AddType
  <2>. QED
    BY <2>1, <1>4 DEF IInv, QueuedIntact, At
<1>7. Framed(pend)' /\ WpAtEnd' /\ ReadersAligned' /\ Finished' = Finished
  BY QueueKept DEF InvalidateStep
<1>. QED
  BY <1>3, <1>5, <1>6, <1>7
  DEF IInv, OneIrqEach, Executing, Copying, InvalidateStep

(* The other actions move neither words nor pointers.                        *)
LEMMA ControlInv ==
  ASSUME IInv,
         \/ \E m \in Apis : SendApi(m)
         \/ WaitMsgfifo \/ WaitTimeout \/ QuitReturns
         \/ \E f \in Files : InvalidateStart(f) \/ Open(f)
         \/ InvalidateEnd
  PROVE  IInv'
<1>1. UNCHANGED <<mem, wp, hw_rp, sw_rp, run, irqs, pend>>
  BY DEF SendApi, WaitMsgfifo, WaitTimeout, QuitReturns, InvalidateStart, Open,
         InvalidateEnd
<1>2. Framed(pend)' /\ WpAtEnd' /\ ReadersAligned' /\ Finished' = Finished
      /\ MemFits' /\ QueuedIntact'
  BY <1>1, QueueKept
<1>3. TypeOK'
  BY DEF IInv, TypeOK, SendApi, WaitMsgfifo, WaitTimeout, QuitReturns,
         InvalidateStart, Open, InvalidateEnd, walk
<1>4. Copying'
  <2>1. CASE WaitMsgfifo
    <3>1. api \in Apis /\ FreeSlots = FifoWords - 1 - Len(pend)
      BY <2>1, Window, FreeSlotsIsExact DEF IInv, TypeOK, WpAtEnd, WaitMsgfifo
    <3>2. Len(pend) + TotalWords(api) < FifoWords
      BY <2>1, <3>1, Window, ConstantsType DEF WaitMsgfifo, Slots
    <3>. QED
      BY <2>1, <3>1, <3>2, ConstantsType DEF Copying, WaitMsgfifo
  <2>2. CASE Copying /\ UNCHANGED <<pc, api, idx>>
    BY <2>2, <1>1 DEF Copying, At
  <2>3. CASE pc' # "copy"
    BY <2>3 DEF Copying
  <2>. QED
    BY <2>1, <2>2, <2>3 DEF IInv, SendApi, WaitTimeout, QuitReturns,
       InvalidateStart, Open, InvalidateEnd
<1>. QED
  BY <1>1, <1>2, <1>3, <1>4 DEF IInv, OneIrqEach, Executing

-----------------------------------------------------------------------------
(* IInv is an inductive invariant of the fifo.                               *)
LEMMA StepInv == IInv /\ [Next]_vars => IInv'
<1> SUFFICES ASSUME IInv, [Next]_vars PROVE IInv'
  OBVIOUS
<1>1. CASE Sender
  BY <1>1, CopyWordInv, PublishWpInv, ControlInv DEF Sender
<1>2. CASE Firmware
  BY <1>2, DevFetchInv, DevFinishInv DEF Firmware
<1>3. CASE Closer
  BY <1>3, InvalidateStepInv, ControlInv DEF Closer
<1>4. CASE PostApiProcess
  BY <1>4, PostApiProcessInv
<1>5. CASE \/ \E m \in Apis : SendApi(m)
          \/ WaitTimeout
          \/ \E f \in Files : InvalidateStart(f) \/ Open(f)
  BY <1>5, ControlInv
<1>6. CASE UNCHANGED vars
  BY <1>6 DEF vars, walk, IInv, TypeOK, MemFits, Framed, WpAtEnd, QueuedIntact,
     ReadersAligned, MsgStart, OneIrqEach, Finished, Executing, Copying, At
<1>. QED
  BY <1>1, <1>2, <1>3, <1>4, <1>5, <1>6 DEF Next

(* The inductive invariant, for every fifo length, header and message set.   *)
THEOREM Invariance == Spec => []IInv
  BY InitInv, StepInv, PTL DEF Spec

(* The type invariant of the fifo.                                           *)
THEOREM TypeCorrect == Spec => []TypeOK
<1>1. IInv => TypeOK
  BY DEF IInv
<1>. QED
  BY <1>1, Invariance, PTL

(* No word that the firmware or the interrupt handler has still to read is   *)
(* ever overwritten by a later message.                                      *)
THEOREM NoOverwrite == Spec => []QueuedIntact
<1>1. IInv => QueuedIntact
  BY DEF IInv
<1>. QED
  BY <1>1, Invariance, PTL

(* bmdev_msgfifo_get_free_slots counts exactly the words not in use, so a    *)
(* sender is never refused room that is there nor given room that is not.    *)
THEOREM FreeSlotsExact == Spec => []OccupancyExact
<1>1. IInv => OccupancyExact
  BY FreeSlotsIsExact DEF IInv, TypeOK, WpAtEnd, OccupancyExact
<1>. QED
  BY <1>1, Invariance, PTL

(* The pointers of the firmware and of the driver stand between messages.    *)
THEOREM ReadersStayAligned == Spec => []ReadersAligned
<1>1. IInv => ReadersAligned
  BY DEF IInv
<1>. QED
  BY <1>1, Invariance, PTL

-----------------------------------------------------------------------------
(* The walk of a close, and the results. The walk reads words that may have  *)
(* been released meanwhile; as api_mutex is held they are all still there.   *)
(* ws are the words that were queued when the walk began at distance b from  *)
(* the first, s their place, c the distance the walk has come to.            *)
SenderOpen == pc \in {"wait", "copy"} => FileOf[api] \notin closed
ResultsWritten ==
  \A k \in 1 .. Dist(sw_rp, hw_rp) :
    pend[k].off = ResultOff => At(sw_rp, k - 1) = pend[k]
WalkedOver(ws, s, b, c) ==
  \A k \in b + 1 .. c :
    ws[k].off = HandleOff /\ FileOf[ws[k].api] = file
      => At(s, k - 1) = ZeroHandle
Walking(ws, s, b, c) ==
  /\ ws \in WordSeq /\ Framed(ws) /\ Len(ws) \in Slots
  /\ s \in Slots /\ Intact(ws, s)
  /\ end = wp /\ wp = AddPointer(s, Len(ws))
  /\ Len(pend) <= Len(ws) /\ sw_rp = AddPointer(s, Len(ws) - Len(pend))
  /\ \A j \in 1 .. Len(pend) : pend[j] = ws[Len(ws) - Len(pend) + j]
  /\ b \in Nat /\ b <= Len(ws) - Len(pend) + Dist(sw_rp, hw_rp)
  /\ c \in Nat /\ c <= Len(ws) /\ cur = AddPointer(s, c)
  /\ c < Len(ws) => ws[c + 1].off = IdOff
  /\ WalkedOver(ws, s, b, c)
WalkInv == pc = "walk" => \E ws, s, b, c : Walking(ws, s, b, c)

ReadInv == SenderOpen /\ ResultsWritten /\ ClosedFileInvalidated /\ WalkInv

LEMMA Offsets ==
  /\ IdOff = 0 /\ HandleOff = 2 /\ ResultOff \in Nat /\ HandleOff # ResultOff
  /\ \A m \in Apis : /\ HandleOff \in 0 .. TotalWords(m) - 1
                     /\ ResultOff \in 0 .. TotalWords(m) - 1
BY ConstantsType DEF IdOff, HandleOff, ResultOff

(* Words that do not change but by being zeroed keep what is read of them.   *)
LEMMA ReadKept ==
  ASSUME ResultsWritten, ClosedFileInvalidated,
         UNCHANGED <<sw_rp, hw_rp, pend>>, closed' \subseteq closed,
         \A k \in 1 .. Len(pend) :
           \/ At(sw_rp, k - 1)' = At(sw_rp, k - 1)
           \/ pend[k].off = HandleOff /\ At(sw_rp, k - 1)' = ZeroHandle
           \/ pend[k].off = ResultOff /\ k > Dist(sw_rp, hw_rp),
         Dist(sw_rp, hw_rp) \in Nat, Dist(sw_rp, hw_rp) <= Len(pend), Len(pend) \in Nat
  PROVE  ResultsWritten' /\ ClosedFileInvalidated'
<1> DEFINE d == Dist(sw_rp, hw_rp)
<1>1. d' = d /\ Len(pend)' = Len(pend)
  OBVIOUS
<1>2. ASSUME NEW k \in 1 .. d, pend[k].off = ResultOff
      PROVE  At(sw_rp, k - 1)' = pend[k]
  BY <1>2, Offsets DEF ResultsWritten
<1>3. ASSUME NEW f \in closed, NEW k \in d + 1 .. Len(pend), pend[k].off = HandleOff,
             FileOf[pend[k].api] = f
      PROVE  At(sw_rp, k - 1)' = ZeroHandle
  <2>1. k \in 1 .. Len(pend) /\ At(sw_rp, k - 1) = ZeroHandle
    BY <1>3 DEF ClosedFileInvalidated
  <2> QED
    BY <1>3, <2>1, Offsets
<1>4. ResultsWritten'
  BY <1>1, <1>2 DEF ResultsWritten
<1> QED
  BY <1>1, <1>3, <1>4 DEF ClosedFileInvalidated

LEMMA ReadInit == Init => ReadInv
<1> SUFFICES ASSUME Init PROVE ReadInv
  OBVIOUS
<1>1. Dist(sw_rp, hw_rp) = 0 /\ Len(pend) = 0 /\ closed = {} /\ pc = "idle"
  BY ConstantsType DEF Init, Dist
<1> QED
  BY <1>1 DEF ReadInv, SenderOpen, ResultsWritten, ClosedFileInvalidated, WalkInv

(* A copy writes behind the queued words, publishing appends the words of a  *)
(* message whose file is open.                                               *)
LEMMA CopyRead ==
  ASSUME IInv, ReadInv, CopyWord
  PROVE  ReadInv'
<1>1. \A k \in 1 .. Len(pend) : At(sw_rp, k - 1)' = At(sw_rp, k - 1)
  BY CopyFacts DEF CopyWord, At
<1>2. /\ Dist(sw_rp, hw_rp) \in Nat /\ Dist(sw_rp, hw_rp) <= Len(pend)
      /\ Len(pend) \in Nat
  BY Window, ConstantsType DEF Slots
<1>3. UNCHANGED <<sw_rp, hw_rp, pend, closed, pc, api>> /\ pc = "copy"
  BY DEF CopyWord
<1>4. ResultsWritten' /\ ClosedFileInvalidated'
  BY <1>1, <1>2, <1>3, ReadKept DEF ReadInv
<1> QED
  BY <1>3, <1>4 DEF ReadInv, SenderOpen, WalkInv

LEMMA PublishRead ==
  ASSUME IInv, ReadInv, PublishWp
  PROVE  ReadInv'
<1> DEFINE n == Len(pend)
           d == Dist(sw_rp, hw_rp)
           T == TotalWords(api)
<1>1. d \in Nat /\ d <= n /\ n \in Nat /\ api \in Apis /\ T \in Nat
  BY Window, PublishFacts, ConstantsType DEF Slots
<1>2. UNCHANGED <<mem, sw_rp, hw_rp, closed>> /\ pc' = "idle" /\ pc = "copy"
  BY DEF PublishWp
<1>3. /\ Len(pend') = n + T
      /\ \A i \in 1 .. n : pend'[i] = pend[i]
      /\ \A i \in 1 .. T : pend'[n + i] = Word(api, i - 1)
  BY PublishFacts
<1>4. d' = d /\ \A k : At(sw_rp, k)' = At(sw_rp, k)
  BY <1>2 DEF At
<1>5. ResultsWritten'
  BY <1>1, <1>3, <1>4 DEF ReadInv, ResultsWritten
<1>6. ClosedFileInvalidated'
  <2> SUFFICES ASSUME NEW f \in closed, NEW k \in d + 1 .. n + T,
                      pend'[k].off = HandleOff, FileOf[pend'[k].api] = f
               PROVE  At(sw_rp, k - 1) = ZeroHandle
    BY <1>2, <1>3, <1>4 DEF ClosedFileInvalidated
  <2>1. CASE k <= n
    <3>1. k \in 1 .. n /\ k \in d + 1 .. n
      BY <1>1, <2>1
    <3>2. pend'[k] = pend[k]
      BY <1>3, <3>1
    <3> HIDE DEF d
    <3>3. \A j \in d + 1 .. n : pend[j].off = HandleOff /\ FileOf[pend[j].api] = f
                                => At(sw_rp, j - 1) = ZeroHandle
      BY DEF ReadInv, ClosedFileInvalidated, d
    <3> QED
      BY <3>1, <3>2, <3>3
  <2>2. CASE k > n
    <3>1. k - n \in 1 .. T /\ n + (k - n) = k
      BY <1>1, <2>2
    <3>2. pend'[n + (k - n)] = Word(api, (k - n) - 1)
      BY <1>3, <3>1
    <3>3. pend'[k].api = api
      BY <3>1, <3>2 DEF Word
    <3> QED
      BY <1>2, <3>3 DEF ReadInv, SenderOpen
  <2> QED
    BY <1>1, <2>1, <2>2
<1> QED
  BY <1>2, <1>5, <1>6 DEF ReadInv, SenderOpen, WalkInv

(* The firmware writes its result where the result belongs.                  *)
LEMMA FinishRead ==
  ASSUME IInv, ReadInv, DevFinish
  PROVE  ReadInv'
<1> DEFINE n == Len(pend)
           d == Dist(sw_rp, hw_rp)
           slot == AddPointer(hw_rp, ResultOff)
<1>1. PICK m \in Apis :
        /\ d < n /\ d \in Nat /\ n \in Slots /\ run = m
        /\ d + TotalWords(m) <= n
        /\ \A k \in 0 .. TotalWords(m) - 1 : pend[d + 1 + k] = Word(m, k)
        /\ d + ResultOff \in Slots /\ slot = AddPointer(sw_rp, d + ResultOff)
        /\ slot \in Slots
        /\ Dist(sw_rp, hw_rp') = d + TotalWords(m)
  BY FinishFacts
<1> DEFINE T == TotalWords(m)
           r == d + ResultOff
<1>2. /\ n \in Nat /\ T \in Nat /\ FifoWords \in Nat /\ n < FifoWords /\ r \in Nat
      /\ ResultOff \in 0 .. T - 1
  BY <1>1, ConstantsType, Offsets DEF Slots
<1>3. UNCHANGED <<sw_rp, pend, wp, closed, pc, api, cur, end, file>>
  BY DEF DevFinish, walk
<1>4. pend[r + 1] = Word(m, ResultOff)
  <2>1. r + 1 = d + 1 + ResultOff
    BY <1>1, <1>2
  <2> QED
    BY <1>1, <1>2, <2>1
<1>5. mem' = [mem EXCEPT ![slot] = Word(m, ResultOff)] /\ mem \in [Slots -> Words]
  BY <1>1, Window DEF DevFinish
<1>6. ASSUME NEW p \in Slots, p # slot
      PROVE  mem'[p] = mem[p]
  BY <1>5, <1>6
<1>7. ASSUME NEW k \in 1 .. n
      PROVE  /\ k # r + 1 => At(sw_rp, k - 1)' = At(sw_rp, k - 1)
             /\ k = r + 1 => At(sw_rp, k - 1)' = Word(m, ResultOff)
  <2>1. k - 1 \in Slots /\ k - 1 \in 0 .. FifoWords /\ (k # r + 1 => k - 1 # r)
        /\ (k = r + 1 => k - 1 = r)
    BY <1>2 DEF Slots
  <2>2. sw_rp \in Slots /\ AddPointer(sw_rp, k - 1) \in Slots
    BY <2>1, Window, AddType
  <2>3. k - 1 # r => AddPointer(sw_rp, k - 1) # slot
    BY <1>1, <2>1, <2>2, AddInjective
  <2> QED
    BY <1>1, <1>3, <1>5, <1>6, <2>1, <2>2, <2>3 DEF At
<1>8. ResultsWritten'
  <2> SUFFICES ASSUME NEW k \in 1 .. d + T, pend[k].off = ResultOff
               PROVE  At(sw_rp, k - 1)' = pend[k]
    BY <1>1, <1>3 DEF ResultsWritten
  <2>1. CASE k <= d
    <3>1. k # r + 1 /\ k \in 1 .. n /\ k \in 1 .. d
      BY <1>1, <1>2, <2>1
    <3> QED
      BY <1>7, <3>1 DEF ReadInv, ResultsWritten
  <2>2. CASE k > d
    <3>1. k - (d + 1) \in 0 .. T - 1 /\ d + 1 + (k - (d + 1)) = k
      BY <1>1, <1>2, <2>2
    <3>2. pend[k] = Word(m, k - (d + 1))
      BY <1>1, <3>1
    <3>3. k - (d + 1) = ResultOff
      BY <3>2 DEF Word
    <3>4. k \in 1 .. n
      BY <1>1, <1>2
    <3>5. k = r + 1
      <4>1. d \in Nat /\ ResultOff \in Nat /\ r = d + ResultOff
        BY <1>1, <1>2
      <4>2. k \in Int
        BY <3>4
      <4> QED
        BY ONLY <3>3, <4>1, <4>2
    <3> QED
      BY <1>4, <1>7, <3>4, <3>5
  <2> QED
    BY <1>1, <1>2, <2>1, <2>2
<1>9. ClosedFileInvalidated'
  <2> SUFFICES ASSUME NEW f \in closed, NEW k \in d + T + 1 .. n,
                      pend[k].off = HandleOff, FileOf[pend[k].api] = f
               PROVE  At(sw_rp, k - 1)' = ZeroHandle
    BY <1>1, <1>3 DEF ClosedFileInvalidated
  <2>1. k \in 1 .. n /\ k \in d + 1 .. n /\ k # r + 1
    BY <1>1, <1>2
  <2> QED
    BY <1>7, <2>1 DEF ReadInv, ClosedFileInvalidated
<1>10. WalkInv'
  <2> SUFFICES ASSUME pc = "walk"
               PROVE  \E ws, s, b, c : Walking(ws, s, b, c)'
    BY <1>3 DEF WalkInv
  <2>1. PICK ws, s, b, c : Walking(ws, s, b, c)
    BY DEF ReadInv, WalkInv
  <2> DEFINE L == Len(ws)
             q == L - n + r
  <2>2. L \in Nat /\ L \in Slots /\ L < FifoWords /\ n <= L /\ s \in Slots
        /\ sw_rp = AddPointer(s, L - n)
    BY <2>1, ConstantsType DEF Walking, Slots
  <2>3. q \in Nat /\ q < L /\ q \in Slots /\ L - n \in Nat
    <3>1. /\ r \in Nat /\ r < n /\ n \in Nat /\ L \in Nat /\ n <= L
          /\ L < FifoWords /\ FifoWords \in Nat
      <4>1. ResultOff < T /\ d + T <= n /\ ResultOff \in Nat /\ d \in Nat
        BY <1>1, <1>2
      <4> QED
        BY <1>2, <2>2, <4>1
    <3> QED
      BY ONLY <3>1 DEF Slots
  <2>4. slot = AddPointer(s, q)
    BY <1>1, <1>2, <2>2, <2>3, AddAdd
  <2>5. ws[q + 1].off = ResultOff
    <3>1. r + 1 \in 1 .. n /\ L - n + (r + 1) = q + 1
      <4>1. r \in Nat /\ n \in Nat /\ L \in Nat /\ q < L
        BY <1>2, <2>2, <2>3
      <4> QED
        BY ONLY <4>1
    <3>2. pend[r + 1] = ws[q + 1]
      BY <2>1, <3>1 DEF Walking
    <3> QED
      BY <1>4, <3>2 DEF Word
  <2>6. ASSUME NEW k \in 1 .. L, ws[k].off # ResultOff
        PROVE  At(s, k - 1)' = At(s, k - 1)
    <3>1. k - 1 \in Slots /\ k - 1 \in 0 .. FifoWords /\ k # q + 1
      BY <1>2, <2>2, <2>5, <2>6 DEF Slots
    <3>2. AddPointer(s, k - 1) \in Slots
      BY <2>2, <3>1, AddType
    <3>3. AddPointer(s, k - 1) # slot
      BY <2>2, <2>3, <2>4, <3>1, AddInjective
    <3> QED
      BY <1>6, <3>2, <3>3 DEF At
  <2>7. Intact(ws, s)'
    BY <2>1, <2>6 DEF Walking, Intact
  <2>8. WalkedOver(ws, s, b, c)'
    <3>1. c \in Nat /\ c <= L /\ b \in Nat
      BY <2>1 DEF Walking
    <3> SUFFICES ASSUME NEW k \in b + 1 .. c, ws[k].off = HandleOff,
                        FileOf[ws[k].api] = file
                 PROVE  At(s, k - 1)' = ZeroHandle
      BY <1>3 DEF WalkedOver
    <3>2. k \in 1 .. L
      BY <2>2, <3>1
    <3> QED
      BY <2>1, <2>6, <3>2, Offsets DEF Walking, WalkedOver
  <2>9. b <= L - n + Dist(sw_rp, hw_rp)'
    <3>1. b \in Nat /\ b <= L - n + d
      BY <2>1 DEF Walking
    <3> QED
      BY <1>1, <1>2, <1>3, <2>2, <3>1
  <2>10. Walking(ws, s, b, c)'
    BY <1>3, <2>1, <2>7, <2>8, <2>9 DEF Walking, Framed
  <2> QED
    BY <2>10
<1> QED
  BY <1>3, <1>8, <1>9, <1>10 DEF ReadInv, SenderOpen

(* A release moves the first word; the walk goes on where it is.             *)
LEMMA ReleaseRead ==
  ASSUME IInv, ReadInv, PostApiProcess
  PROVE  ReadInv'
<1> DEFINE n == Len(pend)
           d == Dist(sw_rp, hw_rp)
<1>1. PICK m \in Apis :
        LET T == TotalWords(m)
        IN  /\ n \in Slots /\ d \in Nat /\ d <= n
            /\ T \in Nat /\ T >= 4 /\ T <= d
            /\ Len(pend') = n - T
            /\ \A i \in 1 .. n - T : pend'[i] = pend[T + i]
            /\ sw_rp' = AddPointer(sw_rp, T) /\ sw_rp' \in Slots
            /\ Dist(sw_rp', hw_rp) = d - T
  BY ReleaseFacts
<1> DEFINE T == TotalWords(m)
<1>2. /\ n \in Nat /\ T \in Nat /\ FifoWords \in Nat /\ n < FifoWords /\ T <= n
      /\ sw_rp \in Slots
  <2>1. FifoWords \in Nat /\ sw_rp \in Slots
    BY ConstantsType, Window
  <2>2. n \in Nat /\ n < FifoWords
    BY <1>1, <2>1 DEF Slots
  <2> QED
    BY <1>1, <2>1, <2>2
<1>3. UNCHANGED <<mem, hw_rp, wp, closed, pc, api, cur, end, file>>
  BY DEF PostApiProcess, walk
<1>4. ASSUME NEW k \in 1 .. n - T
      PROVE  At(sw_rp, k - 1)' = At(sw_rp, (T + k) - 1)
  <2>1. k - 1 \in Nat /\ T + (k - 1) <= FifoWords /\ T + (k - 1) = (T + k) - 1
    BY <1>2
  <2>2. AddPointer(sw_rp', k - 1) = AddPointer(sw_rp, (T + k) - 1)
    BY <1>1, <1>2, <2>1, AddAdd
  <2> QED
    BY <1>3, <2>2 DEF At
<1>5. ResultsWritten'
  <2> SUFFICES ASSUME NEW k \in 1 .. d - T, pend'[k].off = ResultOff
               PROVE  At(sw_rp, k - 1)' = pend'[k]
    BY <1>1, <1>3 DEF ResultsWritten
  <2>1. k \in 1 .. n - T /\ T + k \in 1 .. d
    BY <1>1, <1>2
  <2> QED
    <3>1. pend'[k] = pend[T + k] /\ At(sw_rp, k - 1)' = At(sw_rp, (T + k) - 1)
      BY <1>1, <1>4, <2>1
    <3>2. \A j \in 1 .. d : pend[j].off = ResultOff => At(sw_rp, j - 1) = pend[j]
      BY DEF ReadInv, ResultsWritten
    <3>3. At(sw_rp, (T + k) - 1) = pend[T + k]
      <4>1. pend[T + k].off = ResultOff
        BY <3>1
      <4> QED
        BY <2>1, <3>2, <4>1
    <3> QED
      BY <3>1, <3>3
<1>6. ClosedFileInvalidated'
  <2> SUFFICES ASSUME NEW f \in closed, NEW k \in d - T + 1 .. n - T,
                      pend'[k].off = HandleOff, FileOf[pend'[k].api] = f
               PROVE  At(sw_rp, k - 1)' = ZeroHandle
    BY <1>1, <1>3 DEF ClosedFileInvalidated
  <2>1. k \in 1 .. n - T /\ T + k \in d + 1 .. n
    BY <1>1, <1>2
  <2>2. pend'[k] = pend[T + k]
    BY <1>1, <2>1
  <2>3. \A j \in d + 1 .. n : pend[j].off = HandleOff /\ FileOf[pend[j].api] = f
                              => At(sw_rp, j - 1) = ZeroHandle
    BY DEF ReadInv, ClosedFileInvalidated
  <2>4. At(sw_rp, k - 1)' = At(sw_rp, (T + k) - 1)
    BY <1>4, <2>1
  <2>5. At(sw_rp, (T + k) - 1) = ZeroHandle
    <3>1. pend[T + k].off = HandleOff /\ FileOf[pend[T + k].api] = f
      BY <2>2
    <3> QED
      BY <2>1, <2>3, <3>1
  <2> QED
    BY <2>4, <2>5
<1>7. WalkInv'
  <2> SUFFICES ASSUME pc = "walk"
               PROVE  \E ws, s, b, c : Walking(ws, s, b, c)'
    BY <1>3 DEF WalkInv
  <2>1. PICK ws, s, b, c : Walking(ws, s, b, c)
    BY DEF ReadInv, WalkInv
  <2> DEFINE L == Len(ws)
  <2>2. L \in Nat /\ L < FifoWords /\ n <= L /\ s \in Slots
        /\ sw_rp = AddPointer(s, L - n) /\ b \in Nat /\ b <= L - n + d
        /\ \A j \in 1 .. n : pend[j] = ws[L - n + j]
    BY <2>1, ConstantsType DEF Walking, Slots
  <2>3. sw_rp' = AddPointer(s, L - (n - T))
    <3>1. L - n \in Nat /\ (L - n) + T <= FifoWords /\ (L - n) + T = L - (n - T)
      BY <1>2, <2>2
    <3> QED
      BY <1>1, <1>2, <2>2, <3>1, AddAdd
  <2>4. \A j \in 1 .. n - T : pend'[j] = ws[L - (n - T) + j]
    <3> SUFFICES ASSUME NEW j \in 1 .. n - T
                 PROVE  pend'[j] = ws[L - (n - T) + j]
      OBVIOUS
    <3>1. T + j \in 1 .. n /\ L - n + (T + j) = L - (n - T) + j
      BY <1>2, <2>2
    <3> QED
      BY <1>1, <2>2, <3>1
  <2>5. b <= L - (n - T) + Dist(sw_rp, hw_rp)' /\ n - T <= L
    BY <1>1, <1>2, <1>3, <2>2
  <2>6. Intact(ws, s)' /\ WalkedOver(ws, s, b, c)'
    BY <1>3, <2>1 DEF Walking, Intact, WalkedOver, At
  <2>7. Walking(ws, s, b, c)'
    BY <1>1, <1>3, <2>1, <2>3, <2>4, <2>5, <2>6 DEF Walking, Framed
  <2> QED
    BY <2>7
<1> QED
  BY <1>3, <1>5, <1>6, <1>7 DEF ReadInv, SenderOpen

(* A close begins with the words that are queued.                            *)
LEMMA StartRead ==
  ASSUME IInv, ReadInv, NEW f \in Files, InvalidateStart(f)
  PROVE  ReadInv'
<1> DEFINE d == Dist(sw_rp, hw_rp)
<1>1. UNCHANGED <<mem, wp, hw_rp, sw_rp, closed, pend>>
  BY DEF InvalidateStart
<1>2. /\ pc' = "walk" /\ cur' = hw_rp /\ end' = wp
  BY DEF InvalidateStart
<1>3. /\ pend \in WordSeq /\ Framed(pend) /\ Len(pend) \in Slots /\ Len(pend) \in Nat
      /\ sw_rp \in Slots /\ wp = AddPointer(sw_rp, Len(pend))
      /\ d \in Nat /\ d <= Len(pend) /\ hw_rp = AddPointer(sw_rp, d)
      /\ d < Len(pend) => pend[d + 1].off = IdOff
  BY Window, ConstantsType DEF IInv, Slots
<1>4. PICK ws, s, b : ws = pend /\ s = sw_rp /\ b = d
  OBVIOUS
<1>5. Intact(ws, s)'
  BY <1>1, <1>4 DEF IInv, QueuedIntact, Intact, At
<1>6. WalkedOver(ws, s, b, b)'
  BY <1>3, <1>4 DEF WalkedOver
<1>7. sw_rp = AddPointer(s, Len(ws) - Len(pend))
  <2>1. Len(ws) - Len(pend) = 0
    BY <1>3, <1>4
  <2> QED
    BY <1>3, <1>4, <2>1, AddZero
<1>8. \A j \in 1 .. Len(pend) : pend[j] = ws[Len(ws) - Len(pend) + j]
  BY <1>3, <1>4
<1>9. b <= Len(ws) - Len(pend) + d /\ Len(pend) <= Len(ws)
  BY <1>3, <1>4
<1>10. Walking(ws, s, b, b)'
  BY <1>1, <1>2, <1>3, <1>4, <1>5, <1>6, <1>7, <1>8, <1>9 DEF Walking, Framed
<1>11. ResultsWritten' /\ ClosedFileInvalidated'
  BY <1>1, <1>3, ReadKept DEF ReadInv, At
<1> QED
  BY <1>2, <1>10, <1>11 DEF ReadInv, SenderOpen, WalkInv

(* It goes over them message by message; what it zeroes is a handle.         *)
LEMMA StepZeroes ==
  ASSUME IInv, InvalidateStep
  PROVE  /\ AddPointer(cur, HandleOff) \in Slots
         /\ \A p \in Slots :
              \/ mem'[p] = mem[p]
              \/ mem'[p] = ZeroHandle /\ mem[p].off = HandleOff
         /\ HandleIs(cur, file) => mem'[AddPointer(cur, HandleOff)] = ZeroHandle
<1>1. cur \in Slots /\ HandleOff \in 0 .. FifoWords
  BY ConstantsType DEF IInv, TypeOK, HandleOff
<1>2. AddPointer(cur, HandleOff) \in Slots
  BY <1>1, AddType
<1> QED
  BY <1>2, Window DEF InvalidateStep, HandleIs, At

LEMMA WalkRead ==
  ASSUME IInv, ReadInv, InvalidateStep
  PROVE  ReadInv'
<1> DEFINE n == Len(pend)
           d == Dist(sw_rp, hw_rp)
<1>1. /\ UNCHANGED <<wp, hw_rp, sw_rp, pc, end, file, closed, pend, api>>
      /\ pc = "walk" /\ cur # end /\ cur' = NextMsg(cur)
  BY DEF InvalidateStep
<1>2. /\ d \in Nat /\ d <= n /\ n \in Nat /\ n < FifoWords /\ sw_rp \in Slots
      /\ FifoWords \in Nat
  BY Window, ConstantsType DEF Slots
<1>3. ASSUME NEW k \in 1 .. n
      PROVE  \/ At(sw_rp, k - 1)' = At(sw_rp, k - 1)
             \/ pend[k].off = HandleOff /\ At(sw_rp, k - 1)' = ZeroHandle
             \/ pend[k].off = ResultOff /\ k > d
  <2>1. k - 1 \in 0 .. FifoWords
    BY <1>2
  <2>2. AddPointer(sw_rp, k - 1) \in Slots
    BY <1>2, <2>1, AddType
  <2>3. \/ At(sw_rp, k - 1)' = At(sw_rp, k - 1)
        \/ At(sw_rp, k - 1)' = ZeroHandle /\ At(sw_rp, k - 1).off = HandleOff
    BY <1>1, <2>2, StepZeroes DEF At
  <2>4. \/ At(sw_rp, k - 1) = pend[k]
        \/ pend[k].off = HandleOff
        \/ pend[k].off = ResultOff
    BY DEF IInv, QueuedIntact
  <2>5. k <= d /\ pend[k].off = ResultOff => At(sw_rp, k - 1) = pend[k]
    BY <1>2 DEF ReadInv, ResultsWritten
  <2> QED
    BY <1>2, <2>3, <2>4, <2>5, Offsets
<1>4. ResultsWritten' /\ ClosedFileInvalidated'
  BY <1>1, <1>2, <1>3, ReadKept DEF ReadInv
<1>5. PICK ws, s, b, c : Walking(ws, s, b, c)
  BY <1>1 DEF ReadInv, WalkInv
<1> DEFINE L == Len(ws)
<1>6. /\ ws \in WordSeq /\ Framed(ws) /\ L \in Slots /\ L \in Nat /\ L < FifoWords
      /\ s \in Slots /\ Intact(ws, s) /\ end = AddPointer(s, L)
      /\ b \in Nat /\ c \in Nat /\ c <= L /\ cur = AddPointer(s, c)
  BY <1>5, ConstantsType DEF Walking, Slots
<1>7. c < L /\ ws[c + 1].off = IdOff
  <2>1. c # L
    BY <1>1, <1>6
  <2> QED
    BY <1>5, <1>6, <2>1 DEF Walking
<1>8. PICK m \in Apis :
        /\ c + TotalWords(m) <= L
        /\ \A k \in 0 .. TotalWords(m) - 1 : ws[c + 1 + k] = Word(m, k)
        /\ NextMsg(cur) = AddPointer(s, c + TotalWords(m))
        /\ c + TotalWords(m) < L => ws[c + TotalWords(m) + 1].off = IdOff
  BY <1>6, <1>7, NextMsgOf
<1> DEFINE T == TotalWords(m)
<1>9. T \in Nat
  BY ConstantsType
<1>10. ASSUME NEW k \in 1 .. L
       PROVE  \/ At(s, k - 1)' = At(s, k - 1)
              \/ At(s, k - 1)' = ZeroHandle /\ At(s, k - 1).off = HandleOff
  <2>1. k - 1 \in 0 .. FifoWords
    BY <1>2, <1>6
  <2>2. AddPointer(s, k - 1) \in Slots
    BY <1>6, <2>1, AddType
  <2> QED
    BY <2>2, StepZeroes DEF At
<1>11. Intact(ws, s)'
  <2> SUFFICES ASSUME NEW k \in 1 .. L
               PROVE  \/ At(s, k - 1)' = ws[k]
                      \/ ws[k].off = HandleOff /\ At(s, k - 1)' = ZeroHandle
                      \/ ws[k].off = ResultOff
    BY DEF Intact
  <2> QED
    BY <1>6, <1>10 DEF Intact
<1>12. WalkedOver(ws, s, b, c + T)'
  <2> SUFFICES ASSUME NEW k \in b + 1 .. c + T, ws[k].off = HandleOff,
                      FileOf[ws[k].api] = file
               PROVE  At(s, k - 1)' = ZeroHandle
    BY <1>1 DEF WalkedOver
  <2>1. k \in 1 .. L
    BY <1>6, <1>8, <1>9
  <2>2. CASE k <= c
    <3>1. k \in b + 1 .. c
      BY <1>6, <1>9, <2>2
    <3>2. At(s, k - 1) = ZeroHandle
      BY <1>5, <3>1 DEF Walking, WalkedOver
    <3> QED
      BY <1>10, <2>1, <3>2
  <2>3. CASE k > c
    <3>1. k - (c + 1) \in 0 .. T - 1 /\ c + 1 + (k - (c + 1)) = k
      BY <1>6, <1>9, <2>3
    <3>2. ws[k] = Word(m, k - (c + 1))
      BY <1>8, <3>1
    <3>3. k - (c + 1) = HandleOff /\ ws[k].api = m
      BY <3>2 DEF Word
    <3>4. k - 1 = c + HandleOff /\ c + HandleOff <= FifoWords /\ HandleOff \in Nat
      BY <1>2, <1>6, <2>1, <3>3, Offsets
    <3>5. At(s, k - 1) = At(cur, HandleOff) /\ At(s, k - 1)' = mem'[AddPointer(cur, HandleOff)]
      BY <1>6, <3>4, AddAdd DEF At
    <3>6. CASE At(s, k - 1) = ws[k]
      BY <3>2, <3>3, <3>5, <3>6, StepZeroes DEF HandleIs, Word
    <3>7. CASE At(s, k - 1) = ZeroHandle
      BY <1>10, <2>1, <3>7
    <3> QED
      BY <1>6, <2>1, <3>6, <3>7, Offsets DEF Intact
  <2> QED
    BY <1>6, <1>9, <2>2, <2>3
<1>13. Walking(ws, s, b, c + T)'
  <2>1. c + T \in Nat
    BY <1>6, <1>9
  <2> QED
    BY <1>1, <1>5, <1>8, <1>11, <1>12, <2>1 DEF Walking, Framed
<1>14. WalkInv'
  BY <1>13 DEF WalkInv
<1> QED
  BY <1>1, <1>4, <1>14 DEF ReadInv, SenderOpen

(* It ends when all of them that are still queued have been seen.            *)
LEMMA EndRead ==
  ASSUME IInv, ReadInv, InvalidateEnd
  PROVE  ReadInv'
<1> DEFINE n == Len(pend)
           d == Dist(sw_rp, hw_rp)
<1>1. /\ UNCHANGED <<mem, wp, hw_rp, sw_rp, pend>> /\ pc' = "idle"
      /\ pc = "walk" /\ cur = end /\ closed' = closed \cup {file}
  BY DEF InvalidateEnd
<1>2. d \in Nat /\ d <= n /\ n \in Nat /\ FifoWords \in Nat
  BY Window, ConstantsType DEF Slots
<1>3. d' = d /\ \A k : At(sw_rp, k)' = At(sw_rp, k)
  BY <1>1 DEF At
<1>4. PICK ws, s, b, c : Walking(ws, s, b, c)
  BY <1>1 DEF ReadInv, WalkInv
<1> DEFINE L == Len(ws)
<1>5. /\ L \in Slots /\ L \in Nat /\ L < FifoWords /\ s \in Slots /\ n <= L
      /\ sw_rp = AddPointer(s, L - n) /\ end = AddPointer(s, L)
      /\ b \in Nat /\ b <= L - n + d /\ c \in Nat /\ c <= L /\ cur = AddPointer(s, c)
      /\ \A j \in 1 .. n : pend[j] = ws[L - n + j]
  BY <1>4, ConstantsType DEF Walking, Slots
<1>6. c = L
  <2>1. c \in Slots
    BY <1>2, <1>5 DEF Slots
  <2> QED
    BY <1>1, <1>5, <2>1, AddInjective
<1>7. ASSUME NEW k \in d + 1 .. n, pend[k].off = HandleOff, FileOf[pend[k].api] = file
      PROVE  At(sw_rp, k - 1) = ZeroHandle
  <2> DEFINE j == L - n + k
  <2>1. j \in b + 1 .. c /\ k \in 1 .. n
    BY <1>2, <1>5, <1>6
  <2>2. ws[j] = pend[k]
    BY <1>5, <2>1
  <2>3. At(s, j - 1) = ZeroHandle
    BY <1>4, <1>7, <2>1, <2>2 DEF Walking, WalkedOver
  <2>4. /\ L - n \in Nat /\ k - 1 \in Nat /\ (L - n) + (k - 1) = j - 1
        /\ (L - n) + (k - 1) <= FifoWords
    BY <1>2, <1>5, <2>1
  <2>5. AddPointer(sw_rp, k - 1) = AddPointer(s, j - 1)
    BY <1>5, <2>4, AddAdd
  <2> QED
    BY <2>3, <2>5 DEF At
<1>8. ClosedFileInvalidated'
  BY <1>1, <1>3, <1>7 DEF ReadInv, ClosedFileInvalidated
<1>9. ResultsWritten'
  BY <1>1, <1>3 DEF ReadInv, ResultsWritten
<1> QED
  BY <1>1, <1>8, <1>9 DEF ReadInv, SenderOpen, WalkInv

LEMMA OthersRead ==
  ASSUME IInv, ReadInv,
         \/ \E m \in Apis : SendApi(m)
         \/ WaitMsgfifo \/ WaitTimeout \/ QuitReturns \/ DevFetch
         \/ \E f \in Files : Open(f)
         \/ UNCHANGED vars
  PROVE  ReadInv'
<1>1. UNCHANGED <<mem, wp, hw_rp, sw_rp, walk, pend>> /\ closed' \subseteq closed
  BY DEF SendApi, WaitMsgfifo, WaitTimeout, QuitReturns, DevFetch, Open, vars, walk
<1>2. /\ Dist(sw_rp, hw_rp) \in Nat /\ Dist(sw_rp, hw_rp) <= Len(pend)
      /\ Len(pend) \in Nat
  BY Window, ConstantsType DEF Slots
<1>3. ResultsWritten' /\ ClosedFileInvalidated'
  BY <1>1, <1>2, ReadKept DEF ReadInv, At
<1>4. SenderOpen'
  BY <1>1 DEF ReadInv, SenderOpen, SendApi, WaitMsgfifo, WaitTimeout, QuitReturns,
              DevFetch, Open, vars
<1>5. pc' = "walk" => pc = "walk"
  BY DEF SendApi, WaitMsgfifo, WaitTimeout, QuitReturns, DevFetch, Open, vars
<1>6. ASSUME NEW ws, NEW s, NEW b, NEW c, Walking(ws, s, b, c)
      PROVE  Walking(ws, s, b, c)'
  BY <1>1, <1>6 DEF Walking, Intact, WalkedOver, Framed, At, walk
<1>7. WalkInv'
  BY <1>5, <1>6 DEF ReadInv, WalkInv
<1> QED
  BY <1>3, <1>4, <1>7 DEF ReadInv

LEMMA ReadStep == IInv /\ ReadInv /\ [Next]_vars => ReadInv'
<1> SUFFICES ASSUME IInv, ReadInv, [Next]_vars PROVE ReadInv'
  OBVIOUS
<1>1. CASE Sender
  BY <1>1, CopyRead, PublishRead, OthersRead DEF Sender
<1>2. CASE Firmware
  BY <1>2, FinishRead, OthersRead DEF Firmware
<1>3. CASE Closer
  BY <1>3, WalkRead, EndRead DEF Closer
<1>4. CASE PostApiProcess
  BY <1>4, ReleaseRead
<1>5. CASE (\E m \in Apis : SendApi(m)) \/ WaitTimeout
  BY <1>5, OthersRead
<1>6. CASE \E f \in Files : InvalidateStart(f) \/ Open(f)
  BY <1>6, StartRead, OthersRead
<1>7. CASE UNCHANGED vars
  BY <1>7, OthersRead
<1> QED
  BY <1>1, <1>2, <1>3, <1>4, <1>5, <1>6, <1>7 DEF Next

(* What the walk of a close, the firmware and the handler read and have      *)
(* written agrees with the words queued, in every reachable state.           *)
THEOREM ReadersInvariance == Spec => [](IInv /\ ReadInv)
<1>1. Init => IInv /\ ReadInv
  BY InitInv, ReadInit
<1>2. (IInv /\ ReadInv) /\ [Next]_vars => (IInv /\ ReadInv)'
  BY StepInv, ReadStep
<1> QED
  BY <1>1, <1>2, PTL DEF Spec

(* Once a close has returned, the firmware never gets a message with the     *)
(* handle of that file, whatever it executed and the handler released during *)
(* the walk.                                                                 *)
THEOREM ClosedFilesInvalidated == Spec => []ClosedFileInvalidated
<1>1. IInv /\ ReadInv => ClosedFileInvalidated
  BY DEF ReadInv
<1> QED
  BY <1>1, ReadersInvariance, PTL

(* The pointer of the walk stands between messages too, unless the handler   *)
(* has overtaken it.                                                         *)
THEOREM WalksAligned == Spec => []PointersAligned
<1>1. ASSUME IInv, ReadInv
      PROVE  PointersAligned
  <2> SUFFICES ASSUME pc = "walk", Dist(sw_rp, cur) <= Len(pend)
               PROVE  MsgStart(cur)
    BY <1>1 DEF PointersAligned, IInv
  <2> DEFINE n == Len(pend)
  <2>1. PICK ws, s, b, c : Walking(ws, s, b, c)
    BY <1>1 DEF ReadInv, WalkInv
  <2> DEFINE L == Len(ws)
  <2>2. n \in Nat /\ FifoWords \in Nat /\ sw_rp \in Slots
    BY <1>1, Window, ConstantsType DEF Slots
  <2>3. /\ L \in Nat /\ L < FifoWords /\ s \in Slots /\ n <= L
        /\ sw_rp = AddPointer(s, L - n)
        /\ c \in Nat /\ c <= L /\ cur = AddPointer(s, c)
        /\ (c < L => ws[c + 1].off = IdOff)
        /\ \A j \in 1 .. n : pend[j] = ws[L - n + j]
    BY <2>1, ConstantsType DEF Walking, Slots
  <2>4. CASE c >= L - n
    <3> DEFINE e == c - (L - n)
    <3>1. /\ e \in Nat /\ e <= n /\ e \in Slots /\ L - n \in Nat
          /\ (L - n) + e = c /\ (L - n) + e <= FifoWords
      BY <2>2, <2>3, <2>4 DEF Slots
    <3>2. cur = AddPointer(sw_rp, e)
      BY <2>3, <3>1, AddAdd
    <3>3. Dist(sw_rp, cur) = e
      BY <2>2, <3>1, <3>2, DistAdd
    <3>4. e < n => pend[e + 1].off = IdOff
      <4> SUFFICES ASSUME e < n PROVE pend[e + 1].off = IdOff
        OBVIOUS
      <4>1. e + 1 \in 1 .. n /\ L - n + (e + 1) = c + 1 /\ c < L
        BY <2>2, <2>3, <2>4
      <4> QED
        BY <2>3, <4>1
    <3> QED
      BY <3>1, <3>3, <3>4 DEF MsgStart
  <2>5. CASE c < L - n
    <3>1. /\ L \in Nat /\ L < FifoWords /\ FifoWords \in Nat /\ n \in Nat /\ n <= L
          /\ c \in Nat /\ s \in Nat /\ s < FifoWords
      BY <2>2, <2>3 DEF Slots
    <3>2. sw_rp = AddPointer(s, L - n) /\ cur = AddPointer(s, c)
      BY <2>3
    <3>3. Dist(sw_rp, cur) = FifoWords - ((L - n) - c)
      <4> DEFINE e == L - n
      <4>1. e \in Nat /\ e < FifoWords /\ c < e
        BY ONLY <3>1, <2>5
      <4>2. sw_rp = AddPointer(s, e)
        BY <3>2
      <4> HIDE DEF e
      <4>3. sw_rp = IF s + e >= FifoWords THEN s + e - FifoWords ELSE s + e
        BY ONLY <4>2 DEF AddPointer
      <4>4. cur = IF s + c >= FifoWords THEN s + c - FifoWords ELSE s + c
        BY ONLY <3>2 DEF AddPointer
      <4>5. Dist(sw_rp, cur) = FifoWords - (e - c)
        BY ONLY <3>1, <4>1, <4>3, <4>4 DEF Dist
      <4> QED
        BY <4>5 DEF e
    <3> QED
      BY ONLY <3>1, <3>3, <2>5, Dist(sw_rp, cur) <= n
  <2> QED
    BY <2>2, <2>3, <2>4, <2>5
<1>2. IInv /\ ReadInv => PointersAligned
  BY <1>1
<1> QED
  BY <1>2, ReadersInvariance, PTL

(* What the handler reads as the result of the first message is what the     *)
(* firmware wrote for it.                                                    *)
THEOREM ResultsAreForMessages == Spec => []ResultIsForMessage
<1>1. ASSUME IInv, ReadInv, irqs > 0
      PROVE  At(sw_rp, ResultOff) = Word(pend[1].api, ResultOff)
  <2> DEFINE n == Len(pend)
             d == Dist(sw_rp, hw_rp)
  <2>1. PICK m \in Apis :
          /\ m = pend[1].api /\ TotalWords(m) <= d /\ d \in Nat
          /\ \A k \in 1 .. TotalWords(m) : pend[k] = Word(m, k - 1)
    BY <1>1, FirstFinished
  <2>2. /\ ResultOff + 1 \in 1 .. TotalWords(m) /\ ResultOff + 1 \in 1 .. d
        /\ (ResultOff + 1) - 1 = ResultOff
    BY <2>1, Offsets, ConstantsType
  <2>3. pend[ResultOff + 1] = Word(m, ResultOff)
    BY <2>1, <2>2
  <2> QED
    BY <1>1, <2>1, <2>2, <2>3 DEF ReadInv, ResultsWritten, Word
<1>2. IInv /\ ReadInv => ResultIsForMessage
  BY <1>1 DEF ResultIsForMessage
<1> QED
  BY <1>2, ReadersInvariance, PTL

-----------------------------------------------------------------------------
(* The fifo implements the queue of messages. Each step of the fifo is one   *)
(* step of the queue, or leaves it alone.                                    *)

(* The places of the first words, and how many of them are behind hw_rp.     *)
QueueFacts ==
  /\ Starts \in SUBSET Nat /\ IsFiniteSet(Starts)
  /\ Cardinality(Starts) \in Nat
  /\ Starts \subseteq 1 .. Len(pend)
  /\ Finished = {i \in Starts : i <= Dist(sw_rp, hw_rp)}
  /\ Cardinality(Finished) = irqs /\ irqs \in Nat
  /\ Messages \in Seq(Apis) /\ Len(Messages) = Cardinality(Starts)
  /\ \A k \in 1 .. Cardinality(Starts) :
       Messages[k] = pend[InOrder(Starts)[k]].api

LEMMA StartsFacts == IInv => QueueFacts
<1> SUFFICES ASSUME IInv
             PROVE  QueueFacts
  OBVIOUS
<1>1. /\ Len(pend) \in Nat /\ Dist(sw_rp, hw_rp) \in Nat
      /\ Dist(sw_rp, hw_rp) <= Len(pend) /\ pend \in Seq([api : Apis, off : Nat])
  BY Window, ConstantsType DEF Slots, WordSeq
<1>2. Starts \in SUBSET Nat /\ IsFiniteSet(Starts) /\ Starts \subseteq 1 .. Len(pend)
  <2>1. IsFiniteSet(1 .. Len(pend))
    BY <1>1, FS_Interval
  <2> QED
    BY <1>1, <2>1, FS_Subset DEF Starts
<1>3. Finished = {i \in Starts : i <= Dist(sw_rp, hw_rp)}
  BY <1>1 DEF Finished, Starts
<1>4. Cardinality(Finished) = irqs /\ irqs \in Nat
  BY DEF IInv, OneIrqEach, TypeOK
<1>5. /\ Cardinality(Starts) \in Nat
      /\ InOrder(Starts) \in [1 .. Cardinality(Starts) -> Starts]
  BY <1>2, InOrderFacts
<1>6. \A k \in 1 .. Cardinality(Starts) : pend[InOrder(Starts)[k]].api \in Apis
  <2> SUFFICES ASSUME NEW k \in 1 .. Cardinality(Starts)
               PROVE  pend[InOrder(Starts)[k]].api \in Apis
    OBVIOUS
  <2>1. InOrder(Starts)[k] \in 1 .. Len(pend)
    BY <1>2, <1>5
  <2>2. pend[InOrder(Starts)[k]] \in [api : Apis, off : Nat]
    BY <1>1, <2>1, ElementOfSeq
  <2> QED
    BY <2>2
<1>7. Messages \in [1 .. Cardinality(Starts) -> Apis]
  BY <1>6 DEF Messages
<1>8. Messages \in Seq(Apis)
  BY <1>5, <1>7, FunctionIsSeq
<1>9. Len(Messages) = Cardinality(Starts)
  BY <1>5, <1>7, <1>8, LenProperties
<1>10. \A k \in 1 .. Cardinality(Starts) :
         Messages[k] = pend[InOrder(Starts)[k]].api
  BY DEF Messages
<1> QED
  BY <1>2, <1>3, <1>4, <1>5, <1>8, <1>9, <1>10 DEF QueueFacts

LEMMA StartsFactsNext == IInv' => QueueFacts'
BY StartsFacts, PTL

(* An empty fifo is an empty queue.                                          *)
LEMMA QueueInit == Init => Queue!QInit
<1> SUFFICES ASSUME Init
             PROVE  Queue!QInit
  OBVIOUS
<1>1. IInv
  BY InitInv
<1>2. Len(pend) = 0 /\ irqs = 0 /\ run = NoApi
  BY EmptySeq DEF Init
<1>3. Starts = {}
  BY <1>2 DEF Starts
<1>4. Cardinality(Starts) = 0
  BY <1>3, FS_EmptySet
<1>q. QueueFacts
  BY <1>1, StartsFacts
<1>5. Messages = <<>>
  BY <1>4, <1>q, EmptySeq DEF QueueFacts
<1>6. Cardinality(Finished) = 0
  BY <1>2, <1>q DEF QueueFacts
<1> QED
  BY <1>2, <1>5, <1>6 DEF Queue!QInit

(* The write of WP puts the message at the end of the queue.                 *)
LEMMA QueuePut ==
  ASSUME IInv, PublishWp
  PROVE  \E m \in Apis : Queue!Put(m)
<1> DEFINE n == Len(pend)
           c == Cardinality(Starts)
<1>1. IInv'
  BY PublishWpInv
<1>q. QueueFacts /\ QueueFacts'
  BY <1>1, StartsFacts, StartsFactsNext
<1>2. PICK T \in Nat :
        /\ T >= 4 /\ api \in Apis /\ n \in Nat
        /\ Len(pend') = n + T
        /\ \A i \in 1 .. n : pend'[i] = pend[i]
        /\ \A i \in 1 .. T : pend'[n + i] = Word(api, i - 1)
  <2>1. api \in Apis /\ n \in Slots
    BY PublishFacts, Window
  <2>2. TotalWords(api) \in Nat /\ TotalWords(api) >= 4 /\ n \in Nat
    BY <2>1, ConstantsType DEF Slots
  <2>3. /\ Len(pend') = n + TotalWords(api)
        /\ \A i \in 1 .. n : pend'[i] = pend[i]
        /\ \A i \in 1 .. TotalWords(api) : pend'[n + i] = Word(api, i - 1)
    BY PublishFacts
  <2> QED
    BY <2>1, <2>2, <2>3
<1>3. Starts' = Starts \cup {n + 1}
  <2>1. Starts' = {i \in 1 .. n + T : pend'[i].off = IdOff}
    BY <1>2 DEF Starts
  <2>2. \A i \in 1 .. n : i \in 1 .. n + T /\ pend'[i].off = pend[i].off
    BY <1>2
  <2>3. ASSUME NEW i \in n + 1 .. n + T
        PROVE  i \in 1 .. n + T /\ (pend'[i].off = IdOff <=> i = n + 1)
    <3>1. i - n \in 1 .. T /\ n + (i - n) = i /\ i \in 1 .. n + T
      BY <1>2
    <3>2. pend'[i] = Word(api, (i - n) - 1)
      BY <1>2, <3>1
    <3> QED
      BY <1>2, <3>1, <3>2 DEF Word, IdOff
  <2>4. \A i \in 1 .. n + T : i \in 1 .. n \/ i \in n + 1 .. n + T
    BY <1>2
  <2>5. n + 1 \in n + 1 .. n + T /\ Starts = {i \in 1 .. n : pend[i].off = IdOff}
    BY <1>2 DEF Starts
  <2> HIDE DEF n
  <2> QED
    BY <2>1, <2>2, <2>3, <2>4, <2>5
<1>4. /\ Starts \in SUBSET Nat /\ IsFiniteSet(Starts) /\ c \in Nat
      /\ Starts \subseteq 1 .. n
      /\ Messages \in Seq(Apis) /\ Len(Messages) = c
      /\ \A k \in 1 .. c : Messages[k] = pend[InOrder(Starts)[k]].api
  BY <1>q DEF QueueFacts
<1>5. /\ Cardinality(Starts') = c + 1
      /\ \A k \in 1 .. c : InOrder(Starts')[k] = InOrder(Starts)[k]
      /\ InOrder(Starts')[c + 1] = n + 1
  <2>1. n + 1 \in Nat /\ \A i \in Starts : i < n + 1
    BY <1>2, <1>4
  <2> QED
    BY <1>3, <1>4, <2>1, InOrderAdd
<1>6. /\ Messages' \in Seq(Apis) /\ Len(Messages') = c + 1
      /\ \A k \in 1 .. c + 1 : Messages'[k] = pend'[InOrder(Starts')[k]].api
  BY <1>5, <1>q DEF QueueFacts
<1>7. \A k \in 1 .. c : Messages'[k] = Messages[k]
  <2> SUFFICES ASSUME NEW k \in 1 .. c
               PROVE  Messages'[k] = Messages[k]
    OBVIOUS
  <2>1. InOrder(Starts)[k] \in 1 .. n
    BY <1>4, InOrderFacts
  <2>2. k \in 1 .. c + 1
    BY <1>4
  <2>3. Messages'[k] = pend'[InOrder(Starts)[k]].api
    BY <1>5, <1>6, <2>2
  <2>4. pend'[InOrder(Starts)[k]] = pend[InOrder(Starts)[k]]
    BY <1>2, <2>1
  <2> QED
    BY <1>4, <2>3, <2>4
<1>8. Messages'[c + 1] = api
  <2>1. c + 1 \in 1 .. c + 1 /\ 1 \in 1 .. T
    BY <1>2, <1>4
  <2>2. Messages'[c + 1] = pend'[n + 1].api
    BY <1>5, <1>6, <2>1
  <2>3. pend'[n + 1] = Word(api, 0)
    BY <1>2, <2>1
  <2> QED
    BY <2>2, <2>3 DEF Word
<1>9. Messages' = Append(Messages, api)
  <2>1. /\ Append(Messages, api) \in Seq(Apis)
        /\ Len(Append(Messages, api)) = c + 1
        /\ \A k \in 1 .. c : Append(Messages, api)[k] = Messages[k]
        /\ Append(Messages, api)[c + 1] = api
    BY <1>2, <1>4, AppendProperties
  <2>2. \A k \in 1 .. c + 1 : Messages'[k] = Append(Messages, api)[k]
    <3>1. \A k \in 1 .. c + 1 : k \in 1 .. c \/ k = c + 1
      BY <1>4
    <3> QED
      BY <1>7, <1>8, <2>1, <3>1
  <2> HIDE DEF c
  <2> QED
    BY <1>6, <2>1, <2>2, SeqEqual
<1>10. Cardinality(Finished') = Cardinality(Finished)
  BY <1>q DEF PublishWp, QueueFacts
<1>11. run' = run
  BY DEF PublishWp
<1> QED
  BY <1>2, <1>9, <1>10, <1>11 DEF Queue!Put

(* The firmware takes the first message that is not executed.                *)
LEMMA QueueStart ==
  ASSUME IInv, DevFetch
  PROVE  Queue!Start
<1> DEFINE d == Dist(sw_rp, hw_rp)
           k == Cardinality(Finished) + 1
<1>1. IInv'
  BY DevFetchInv
<1>q. QueueFacts /\ QueueFacts'
  BY <1>1, StartsFacts, StartsFactsNext
<1>2. UNCHANGED <<pend, sw_rp, hw_rp, wp>> /\ run = NoApi
  BY DEF DevFetch
<1>3. d \in Nat /\ d + 1 \in 1 .. Len(pend) /\ pend[d + 1].off = IdOff
  BY Window, ConstantsType DEF DevFetch, Slots
<1>4. d + 1 \in Starts
  BY <1>3 DEF Starts
<1>5. Finished = BelowIn(Starts, d + 1)
  <2>1. Starts \in SUBSET Nat /\ Finished = {i \in Starts : i <= d}
    BY <1>q DEF QueueFacts
  <2>2. \A i \in Starts : i <= d <=> i < d + 1
    BY <1>3, <2>1
  <2> QED
    BY <2>1, <2>2 DEF BelowIn
<1>6. /\ Cardinality(Finished) \in Nat
      /\ k \in 1 .. Cardinality(Starts) /\ InOrder(Starts)[k] = d + 1
  <2>1. Starts \in SUBSET Nat /\ IsFiniteSet(Starts)
    BY <1>q DEF QueueFacts
  <2> QED
    BY <1>4, <1>5, <2>1, PlaceOf
<1>7. Messages[k] = pend[d + 1].api /\ Cardinality(Finished) < Len(Messages)
  BY <1>6, <1>q DEF QueueFacts
<1>8. run' = pend[d + 1].api
  <2>1. run' # NoApi
    <3>1. pend[d + 1] \in [api : Apis, off : Nat]
      BY <1>3, Window, ElementOfSeq DEF WordSeq
    <3>2. pend[d + 1].off # HandleOff /\ pend[d + 1].off # ResultOff
      BY <1>3, ConstantsType DEF IdOff, HandleOff, ResultOff
    <3>3. At(sw_rp, (d + 1) - 1) = pend[d + 1]
      BY <1>3, <3>2 DEF IInv, QueuedIntact
    <3>4. (d + 1) - 1 = d /\ AddPointer(hw_rp, IdOff) = AddPointer(sw_rp, d)
      BY <1>3, Window, AddZero DEF IdOff, Slots
    <3>5. run' \in Apis
      BY <3>1, <3>3, <3>4 DEF At, DevFetch
    <3> QED
      BY <3>5, ConstantsType
  <2> QED
    BY <1>1, <1>2, <2>1 DEF IInv, Executing
<1>9. Messages' = Messages /\ Finished' = Finished
  BY <1>2 DEF Messages, Starts, Finished
<1> QED
  BY <1>2, <1>7, <1>8, <1>9 DEF Queue!Start

(* It has executed the message.                                              *)
LEMMA QueueFinish ==
  ASSUME IInv, DevFinish
  PROVE  Queue!Finish
<1>1. IInv'
  BY DevFinishInv
<1>q. QueueFacts /\ QueueFacts'
  BY <1>1, StartsFacts, StartsFactsNext
<1>2. pend' = pend /\ run # NoApi /\ run' = NoApi /\ irqs' = irqs + 1
  BY DEF DevFinish
<1>3. Cardinality(Finished') = Cardinality(Finished) + 1
  BY <1>2, <1>q DEF QueueFacts
<1>4. Messages' = Messages
  BY <1>2 DEF Messages, Starts
<1> QED
  BY <1>2, <1>3, <1>4 DEF Queue!Finish

(* The interrupt handler gives back the oldest message.                      *)
LEMMA QueueGiveBack ==
  ASSUME IInv, PostApiProcess
  PROVE  Queue!GiveBack
<1> DEFINE n == Len(pend)
           c == Cardinality(Starts)
<1>1. IInv'
  BY PostApiProcessInv
<1>q. QueueFacts /\ QueueFacts'
  BY <1>1, StartsFacts, StartsFactsNext
<1>a. PICK m \in Apis :
        LET T == TotalWords(m)
        IN  /\ n \in Slots /\ T <= Dist(sw_rp, hw_rp) /\ Dist(sw_rp, hw_rp) <= n
            /\ Dist(sw_rp, hw_rp) \in Nat /\ T \in Nat /\ T >= 4
            /\ pend[1].off = IdOff /\ \A k \in 1 .. T : pend[k] = Word(m, k - 1)
            /\ Len(pend') = n - T /\ \A i \in 1 .. n - T : pend'[i] = pend[T + i]
  BY ReleaseFacts
<1> DEFINE T == TotalWords(m)
<1>2. /\ T \in Nat /\ T >= 4 /\ n \in Nat /\ T <= n /\ pend[1].off = IdOff
      /\ \A k \in 1 .. T : pend[k].off = k - 1
      /\ Len(pend') = n - T
      /\ \A i \in 1 .. n - T : pend'[i] = pend[T + i]
  <2>1. n \in Nat /\ T <= n
    BY <1>a, ConstantsType DEF Slots
  <2>2. \A k \in 1 .. T : pend[k].off = k - 1
    <3>1. \A k \in 1 .. T : pend[k] = Word(m, k - 1)
      BY <1>a
    <3>2. \A k : Word(m, k - 1).off = k - 1
      BY DEF Word
    <3> HIDE DEF T
    <3> QED
      BY <3>1, <3>2
  <2> QED
    BY <1>a, <2>1, <2>2
<1> HIDE DEF T
<1>3. /\ Starts \in SUBSET Nat /\ IsFiniteSet(Starts) /\ c \in Nat
      /\ Starts = {i \in 1 .. n : pend[i].off = IdOff}
      /\ Messages \in Seq(Apis) /\ Len(Messages) = c
      /\ \A k \in 1 .. c : Messages[k] = pend[InOrder(Starts)[k]].api
  BY <1>q DEF Starts, QueueFacts
<1>4. 1 \in Starts /\ \A i \in Starts : 1 <= i
  BY <1>2, <1>3
<1>5. ASSUME NEW i \in Starts \ {1}
      PROVE  i \in T + 1 .. n
  <2>1. i \in 1 .. n /\ i # 1 /\ pend[i].off = IdOff
    BY <1>3
  <2>2. ~(i <= T)
    <3> SUFFICES ASSUME i <= T
                 PROVE  FALSE
      OBVIOUS
    <3>1. i \in 1 .. T /\ i - 1 # 0
      BY <1>2, <2>1
    <3>2. pend[i].off = i - 1
      BY <1>2, <3>1
    <3> QED
      BY <2>1, <3>1, <3>2 DEF IdOff
  <2> QED
    BY <1>2, <2>1, <2>2
<1>6. Starts' = {i - T : i \in Starts \ {1}}
  <2>1. Starts' = {i \in 1 .. n - T : pend[T + i].off = IdOff}
    BY <1>2 DEF Starts
  <2>2. ASSUME NEW i \in Starts \ {1}
        PROVE  i - T \in Starts'
    <3>1. i \in T + 1 .. n /\ pend[i].off = IdOff
      BY <1>3, <1>5
    <3>2. i - T \in 1 .. n - T /\ T + (i - T) = i
      BY <1>2, <3>1
    <3> QED
      BY <2>1, <3>1, <3>2
  <2>3. ASSUME NEW j \in Starts'
        PROVE  j \in {i - T : i \in Starts \ {1}}
    <3>1. j \in 1 .. n - T /\ pend[T + j].off = IdOff
      BY <2>1
    <3>2. T + j \in 1 .. n /\ T + j # 1 /\ (T + j) - T = j
      BY <1>2, <3>1
    <3>3. T + j \in Starts \ {1}
      BY <1>3, <3>1, <3>2
    <3> QED
      BY <3>2, <3>3
  <2>4. {i - T : i \in Starts \ {1}} \subseteq Starts'
    BY <2>2
  <2>5. Starts' \subseteq {i - T : i \in Starts \ {1}}
    BY <2>3
  <2> QED
    BY <2>4, <2>5
<1>7. /\ Cardinality(Starts') = c - 1
      /\ \A k \in 1 .. c - 1 : InOrder(Starts')[k] = InOrder(Starts)[k + 1] - T
  <2>1. \A i \in Starts \ {1} : i >= T
    BY <1>2, <1>5
  <2>2. T \in Nat /\ Starts \in SUBSET Nat /\ IsFiniteSet(Starts)
    BY <1>2, <1>3
  <2> DEFINE L == {i - T : i \in Starts \ {1}}
  <2>3. /\ Cardinality(L) = c - 1
        /\ \A k \in 1 .. Cardinality(L) : InOrder(L)[k] = InOrder(Starts)[k + 1] - T
    BY <1>4, <2>1, <2>2, InOrderRest
  <2> QED
    BY <1>6, <2>3
<1>8. /\ Messages' \in Seq(Apis) /\ Len(Messages') = c - 1 /\ c > 0
      /\ \A k \in 1 .. c - 1 : Messages'[k] = pend'[InOrder(Starts')[k]].api
  <2>1. /\ Cardinality(Starts') \in Nat
        /\ Messages' \in Seq(Apis) /\ Len(Messages') = Cardinality(Starts')
        /\ \A k \in 1 .. Cardinality(Starts') :
             Messages'[k] = pend'[InOrder(Starts')[k]].api
    BY <1>q DEF QueueFacts
  <2> QED
    BY <1>3, <1>7, <2>1
<1>9. \A k \in 1 .. c - 1 : Messages'[k] = Messages[k + 1]
  <2> SUFFICES ASSUME NEW k \in 1 .. c - 1
               PROVE  Messages'[k] = Messages[k + 1]
    OBVIOUS
  <2> DEFINE j == InOrder(Starts)[k + 1]
  <2>1. /\ k \in 1 .. c /\ k + 1 \in 1 .. c /\ 1 \in 1 .. c /\ 1 < k + 1
    BY <1>3
  <2>2. j \in Starts /\ InOrder(Starts)[1] \in Starts /\ InOrder(Starts)[1] < j
    BY <1>3, <2>1, InOrderFacts, InOrderAscends
  <2>3. j # 1
    BY <1>3, <1>4, <2>2
  <2>4. j \in T + 1 .. n
    BY <1>5, <2>2, <2>3
  <2>5. InOrder(Starts')[k] = j - T
    BY <1>7
  <2>6. j - T \in 1 .. n - T /\ T + (j - T) = j
    BY <1>2, <2>4
  <2>7. pend'[j - T] = pend[j]
    BY <1>2, <2>6
  <2> QED
    BY <1>3, <1>8, <2>1, <2>5, <2>7
<1>10. Messages' = Tail(Messages)
  <2>1. Messages # <<>>
    BY <1>3, <1>8, EmptySeq
  <2>2. /\ Tail(Messages) \in Seq(Apis) /\ Len(Tail(Messages)) = Len(Messages) - 1
        /\ \A k \in 1 .. Len(Tail(Messages)) : Tail(Messages)[k] = Messages[k + 1]
    <3>1. Messages \in Seq(Apis)
      BY <1>3
    <3> QED
      BY <2>1, <3>1, HeadTailProperties
  <2>3. Len(Messages) = c
    BY <1>3
  <2> HIDE DEF c
  <2> QED
    BY <1>8, <1>9, <2>2, <2>3, SeqEqual
<1>11. /\ Cardinality(Finished) > 0
       /\ Cardinality(Finished') = Cardinality(Finished) - 1
  BY <1>q DEF PostApiProcess, QueueFacts
<1>12. run' = run
  BY DEF PostApiProcess
<1> QED
  BY <1>10, <1>11, <1>12 DEF Queue!GiveBack

(* No other step is one of the queue.                                        *)
LEMMA QueueAlone ==
  ASSUME UNCHANGED <<pend, sw_rp, hw_rp, run>>
  PROVE  UNCHANGED Queue!qvars
BY DEF Queue!qvars, Messages, Starts, Finished

LEMMA QueueMoves ==
  ASSUME [Next]_vars
  PROVE  \/ PublishWp \/ DevFetch \/ DevFinish \/ PostApiProcess
         \/ UNCHANGED <<pend, sw_rp, hw_rp, run>>
<1>1. CASE \/ \E m \in Apis : SendApi(m)
           \/ WaitTimeout \/ WaitMsgfifo \/ CopyWord \/ QuitReturns
           \/ \E f \in Files : InvalidateStart(f) \/ Open(f)
           \/ Closer
           \/ UNCHANGED vars
  BY <1>1 DEF SendApi, WaitTimeout, WaitMsgfifo, CopyWord, QuitReturns,
     InvalidateStart, Open, Closer, InvalidateStep, InvalidateEnd, vars
<1> QED
  BY <1>1 DEF Next, Sender, Firmware

LEMMA QueueStep ==
  ASSUME IInv, [Next]_vars
  PROVE  [Queue!QNext]_(Queue!qvars)
<1>1. CASE PublishWp
  BY <1>1, QueuePut DEF Queue!QNext
<1>2. CASE DevFetch
  BY <1>2, QueueStart DEF Queue!QNext
<1>3. CASE DevFinish
  BY <1>3, QueueFinish DEF Queue!QNext
<1>4. CASE PostApiProcess
  BY <1>4, QueueGiveBack DEF Queue!QNext
<1>5. CASE UNCHANGED <<pend, sw_rp, hw_rp, run>>
  BY <1>5, QueueAlone
<1> QED
  BY <1>1, <1>2, <1>3, <1>4, <1>5, QueueMoves

(* Messages are executed one at a time in the order in which they were sent, *)
(* each exactly once, and are given back in that order: the ring of words,   *)
(* with its wrapping pointers, is the queue of MsgQueue.                     *)
THEOREM QueueImplemented == Spec => Queue!QSafe
<1>1. Init => Queue!QInit
  BY QueueInit
<1>2. IInv /\ [Next]_vars => [Queue!QNext]_(Queue!qvars)
  BY QueueStep
<1> QED
  BY <1>1, <1>2, Invariance, PTL DEF Spec, Queue!QSafe

-----------------------------------------------------------------------------
(* Messages of one length W: the words in use are W for each message.        *)
Filled(W) == Len(pend) = W * Cardinality(Starts)

LEMMA Times ==
  ASSUME NEW W \in Nat, NEW x \in Int, NEW y \in Int
  PROVE  /\ W * x \in Int /\ W * (x + 1) = W * x + W /\ W * (x - 1) = W * x - W
         /\ x <= y => W * x <= W * y
<1>1. W * x \in Int /\ W * (x + 1) = W * x + W /\ W * (x - 1) = W * x - W
  OBVIOUS
<1>2. x <= y => W * x <= W * y
  OBVIOUS
<1> QED
  BY <1>1, <1>2

(* One message more or less in the queue, and the words of one message.      *)
LEMMA FilledPublish ==
  ASSUME IInv, PublishWp, NEW W \in Nat, \A m \in Apis : TotalWords(m) = W, Filled(W)
  PROVE  Filled(W)'
<1>1. QueueFacts /\ QueueFacts'
  BY PublishWpInv, StartsFacts, StartsFactsNext
<1>2. PICK m \in Apis : Messages' = Append(Messages, m)
  BY QueuePut DEF Queue!Put
<1>3. Len(Messages') = Len(Messages) + 1
  <2>1. Messages \in Seq(Apis)
    BY <1>1 DEF QueueFacts
  <2> QED
    BY <1>2, <2>1, AppendProperties
<1>4. Cardinality(Starts') = Cardinality(Starts) + 1 /\ Cardinality(Starts) \in Int
  BY <1>1, <1>3 DEF QueueFacts
<1>5. Len(pend') = Len(pend) + W
  BY PublishFacts
<1> QED
  BY <1>4, <1>5, Times DEF Filled

LEMMA FilledRelease ==
  ASSUME IInv, PostApiProcess, NEW W \in Nat, \A m \in Apis : TotalWords(m) = W, Filled(W)
  PROVE  Filled(W)'
<1>1. QueueFacts /\ QueueFacts'
  BY PostApiProcessInv, StartsFacts, StartsFactsNext
<1>2. Messages' = Tail(Messages) /\ Cardinality(Finished) > 0
  BY QueueGiveBack DEF Queue!GiveBack
<1>3. Messages \in Seq(Apis) /\ Messages # <<>>
  <2>1. Finished \subseteq Starts /\ IsFiniteSet(Starts)
    BY <1>1 DEF QueueFacts
  <2>2. Cardinality(Finished) <= Cardinality(Starts)
    BY <2>1, FS_Subset
  <2>3. Cardinality(Finished) \in Nat /\ Cardinality(Starts) \in Nat
    BY <1>1 DEF QueueFacts
  <2>4. Cardinality(Starts) # 0
    BY <1>2, <2>2, <2>3
  <2> QED
    BY <1>1, <2>4, EmptySeq DEF QueueFacts
<1>4. Len(Messages') = Len(Messages) - 1
  BY <1>2, <1>3, HeadTailProperties
<1>5. Cardinality(Starts') = Cardinality(Starts) - 1 /\ Cardinality(Starts) \in Int
  BY <1>1, <1>4 DEF QueueFacts
<1>6. Len(pend') = Len(pend) - W
  BY ReleaseFacts
<1> QED
  BY <1>5, <1>6, Times DEF Filled

LEMMA FilledStep ==
  ASSUME IInv, [Next]_vars, NEW W \in Nat, \A m \in Apis : TotalWords(m) = W, Filled(W)
  PROVE  Filled(W)'
<1>1. CASE DevFetch \/ DevFinish \/ UNCHANGED <<pend, sw_rp, hw_rp, run>>
  BY <1>1 DEF DevFetch, DevFinish, Filled, Starts
<1> QED
  BY <1>1, QueueMoves, FilledPublish, FilledRelease

(* Free words for a message are room for one more.                           *)
LEMMA RoomIsWords ==
  ASSUME NEW W \in Nat, NEW Room \in Nat, NEW c \in Nat,
         W * Room < FifoWords, FifoWords <= W * (Room + 1)
  PROVE  W * (c + 1) < FifoWords <=> c < Room
<1>1. FifoWords \in Nat /\ W * Room \in Int /\ W * (Room + 1) \in Int /\ W * (c + 1) \in Int
  BY ConstantsType, Times
<1>2. ASSUME c < Room
      PROVE  W * (c + 1) < FifoWords
  <2>1. c + 1 <= Room /\ c + 1 \in Int /\ Room \in Int
    BY <1>2
  <2>2. W * (c + 1) <= W * Room
    BY <2>1, Times
  <2> QED
    BY <1>1, <2>2
<1>3. ASSUME ~(c < Room)
      PROVE  ~(W * (c + 1) < FifoWords)
  <2>1. Room + 1 <= c + 1 /\ Room + 1 \in Int /\ c + 1 \in Int
    BY <1>3
  <2>2. W * (Room + 1) <= W * (c + 1)
    BY <2>1, Times
  <2> QED
    BY <1>1, <2>2
<1> QED
  BY <1>2, <1>3

LEMMA ChannelStep ==
  ASSUME IInv, [Next]_vars, NEW W \in Nat, \A m \in Apis : TotalWords(m) = W, Filled(W),
         NEW Room \in Nat, W * Room < FifoWords, FifoWords <= W * (Room + 1)
  PROVE  [Channel(Room)!Next]_<<Messages, Cardinality(Finished)>>
<1>1. QueueFacts
  BY StartsFacts
<1>2. CASE PublishWp
  <2>1. PICK m \in Apis :
          Messages' = Append(Messages, m) /\ Cardinality(Finished') = Cardinality(Finished)
    BY <1>2, QueuePut DEF Queue!Put
  <2>2. Len(pend) + W < FifoWords
    BY <1>2, PublishFacts
  <2>3. Cardinality(Starts) \in Nat /\ Len(Messages) = Cardinality(Starts)
    BY <1>1 DEF QueueFacts
  <2>4. W * (Cardinality(Starts) + 1) < FifoWords
    BY <2>2, <2>3, Times DEF Filled
  <2>5. Len(Messages) < Room
    BY <2>3, <2>4, RoomIsWords
  <2>6. Channel(Room)!Send(m)
    BY <2>1, <2>5 DEF Channel!Send
  <2> QED
    BY <2>6 DEF Channel!Next
<1>3. CASE DevFinish
  <2>1. /\ Messages' = Messages
        /\ Cardinality(Finished') = Cardinality(Finished) + 1
    BY <1>3, QueueFinish DEF Queue!Finish
  <2>2. Cardinality(Finished) < Len(Messages)
    <3> DEFINE d == Dist(sw_rp, hw_rp)
    <3>1. d \in Nat /\ d + 1 \in 1 .. Len(pend) /\ pend[d + 1].off = IdOff
      <4>1. d < Len(pend) /\ d \in Nat /\ Len(pend) \in Slots /\ pend[d + 1].off = IdOff
        BY <1>3, FinishFacts
      <4>2. Len(pend) \in Nat
        BY <4>1, ConstantsType DEF Slots
      <4> HIDE DEF d
      <4> QED
        BY <4>1, <4>2
    <3>2. d + 1 \in Starts /\ d + 1 \notin Finished
      BY <1>1, <3>1 DEF QueueFacts, Starts
    <3>3. /\ Finished \subseteq Starts /\ IsFiniteSet(Starts)
          /\ Cardinality(Starts) \in Nat /\ Len(Messages) = Cardinality(Starts)
          /\ Cardinality(Finished) \in Nat
      BY <1>1 DEF QueueFacts
    <3>4. /\ Cardinality(Finished) <= Cardinality(Starts)
          /\ Cardinality(Finished) # Cardinality(Starts)
      BY <3>2, <3>3, FS_Subset
    <3> QED
      BY <3>3, <3>4
  <2>3. Channel(Room)!Execute
    BY <2>1, <2>2 DEF Channel!Execute
  <2> QED
    BY <2>3 DEF Channel!Next
<1>4. CASE PostApiProcess
  <2>1. Channel(Room)!GiveBack
    BY <1>4, QueueGiveBack DEF Queue!GiveBack, Channel!GiveBack
  <2> QED
    BY <2>1 DEF Channel!Next
<1>5. CASE DevFetch \/ UNCHANGED <<pend, sw_rp, hw_rp, run>>
  BY <1>5 DEF DevFetch, Messages, Starts, Finished
<1> QED
  BY <1>2, <1>3, <1>4, <1>5, QueueMoves

LEMMA RoomIsExact ==
  ASSUME IInv, NEW W \in Nat, \A m \in Apis : TotalWords(m) = W, Filled(W),
         NEW Room \in Nat, W * Room < FifoWords, FifoWords <= W * (Room + 1)
  PROVE  RoomExact(Room)
<1> DEFINE c == Cardinality(Starts)
<1>1. c \in Nat /\ Len(Messages) = c
  BY StartsFacts DEF QueueFacts
<1>2. FreeSlots = FifoWords - 1 - Len(pend) /\ Len(pend) \in Nat /\ FifoWords \in Nat
  BY FreeSlotsIsExact, Window, ConstantsType DEF IInv, TypeOK, WpAtEnd, Slots
<1>3. FreeSlots >= W <=> Len(pend) + W < FifoWords
  BY <1>2
<1>4. Len(pend) + W = W * (c + 1)
  BY <1>1, Times DEF Filled
<1>5. W * (c + 1) < FifoWords <=> c < Room
  BY <1>1, RoomIsWords
<1> HIDE DEF c
<1> QED
  BY <1>1, <1>3, <1>4, <1>5 DEF RoomExact

(* If all messages have the same length, the ring of words is a channel with *)
(* room for as many messages as fit beside the word that is kept free, and   *)
(* bmdev_wait_msgfifo lets a sender go on exactly when there is room for one *)
(* more. This is what BmApi takes a ring to be.                              *)
THEOREM ChannelProvided ==
  ASSUME NEW CONSTANT W \in Nat, \A m \in Apis : TotalWords(m) = W,
         NEW CONSTANT Room \in Nat,
         W * Room < FifoWords, FifoWords <= W * (Room + 1)
  PROVE  Spec => Channel(Room)!Spec /\ []RoomExact(Room)
<1>1. Init => IInv /\ Filled(W) /\ Channel(Room)!Init
  <2> SUFFICES ASSUME Init
               PROVE  IInv /\ Filled(W) /\ Channel(Room)!Init
    OBVIOUS
  <2>1. IInv /\ Messages = <<>> /\ Cardinality(Finished) = 0
    BY InitInv, QueueInit DEF Queue!QInit
  <2>2. Len(pend) = 0 /\ Starts = {}
    BY EmptySeq DEF Init, Starts
  <2>3. Cardinality(Starts) = 0 /\ W * 0 = 0
    BY <2>2, FS_EmptySet
  <2> QED
    BY <2>1, <2>2, <2>3 DEF Filled, Channel!Init
<1>2. (IInv /\ Filled(W)) /\ [Next]_vars => (IInv /\ Filled(W))'
  BY StepInv, FilledStep
<1>3. (IInv /\ Filled(W)) /\ [Next]_vars
        => [Channel(Room)!Next]_<<Messages, Cardinality(Finished)>>
  BY ChannelStep
<1>4. IInv /\ Filled(W) => RoomExact(Room)
  BY RoomIsExact
<1> QED
  BY <1>1, <1>2, <1>3, <1>4, PTL DEF Spec, Channel!Spec
=============================================================================
