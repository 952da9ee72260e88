------------------------- MODULE VideoDecoderProofs -------------------------
(* The safety of an open decoder, for queues and frame buffers of any size:  *)
(* the count of the frames the program has is exact, and a stop that follows *)
(* a request for all frames comes after the last packet.                     *)
EXTENDS VideoDecoder, NumberSetProofs, SequenceTheorems, TLAPS

DecPkts == {"pkt", "end"}

-----------------------------------------------------------------------------
(* Types.                                                                    *)

(* The position that SelectInSeq finds is one of the sequence.               *)
LEMMA FirstPacket ==
  ASSUME NEW s \in Seq(DecPkts)
  PROVE  SelectInSeq(s, LAMBDA p : p = "pkt") \in 0 .. Len(s)
<1> DEFINE I == {i \in 1 .. Len(s) : s[i] = "pkt"}
<1>1. SelectInSeq(s, LAMBDA p : p = "pkt") = IF I # {} THEN Min(I) ELSE 0
  BY DEF SelectInSeq
<1>2. I \subseteq 1 .. Len(s) /\ I \subseteq Nat
  OBVIOUS
<1> HIDE DEF I
<1>3. ASSUME I # {}
      PROVE  Min(I) \in I
  BY <1>2, <1>3, LeastOf DEF Min
<1> QED
  BY <1>1, <1>2, <1>3

(* DecTypeOK without the counts of frames, which are natural because they    *)
(* are exact.                                                                *)
DecTypes ==
  /\ endof_flag \in START_CREATE .. START_CLOSE
  /\ decStatus \in UNINIT .. CLOSED
  /\ inputQ \in Seq(DecPkts) /\ dec_cmds \in Seq(DecPkts)
  /\ seqInitFlag \in BOOLEAN /\ dec_locked \in BOOLEAN /\ bufReuse \in BOOLEAN
  /\ dec_ready \in BOOLEAN /\ dec_rewound \in BOOLEAN
  /\ dec_pc \in {"top", "purge", "input", "in_wait", "output", "out_wait",
                 "init", "start", "wait", "show", "drain", "stop", "stopped",
                 "close", "exit"}
  /\ dec_pkt \in DecPkts
  /\ dec_call \in {"none", "enqueue", "all", "flush", "delete_flush", "delete",
                   "poll", "done"}
  /\ dec_ready => dec_cmds # <<>>

LEMMA DecTypeStep ==
  ASSUME DecTypes, [DecNext]_dec_vars
  PROVE  DecTypes'
<1> USE DEF DecTypes, DecPkts, DecGoto, dec_flags, dec_queues, dec_thread,
            dec_core, dec_program, START_CREATE, START_DECODING, START_REWIND,
            START_GET_ALLFRAME, START_FLUSH, START_ENDOF, START_STOP,
            START_CLOSE, UNINIT, DECODING, STOP, HUNG, CLOSE, CLOSED
<1>1. CASE DecTop
  BY <1>1 DEF DecTop
<1>2. CASE DecPurge
  <2> DEFINE first == SelectInSeq(inputQ, LAMBDA p : p = "pkt")
  <2>1. first \in 0 .. Len(inputQ)
    BY FirstPacket
  <2>2. inputQ' = IF first = 0 THEN <<>> ELSE SubSeq(inputQ, first, Len(inputQ))
    BY <1>2 DEF DecPurge
  <2> HIDE DEF first
  <2>3. first # 0 => SubSeq(inputQ, first, Len(inputQ)) \in Seq(DecPkts)
    <3>1. Len(inputQ) \in Nat /\ \A i \in 1 .. Len(inputQ) : inputQ[i] \in DecPkts
      OBVIOUS
    <3> QED
      BY <2>1, <3>1, SubSeqProperties
  <2>4. inputQ' \in Seq(DecPkts)
    BY <2>1, <2>2, <2>3
  <2>5. /\ bufReuse' = FALSE /\ dec_pc' = "top"
        /\ UNCHANGED <<endof_flag, decStatus, seqInitFlag, dec_locked, dec_pkt,
                       dec_cmds, dec_ready, dec_call, dec_rewound>>
    BY <1>2 DEF DecPurge
  <2> QED
    BY <2>4, <2>5
<1>3. CASE DecInput
  <2>1. inputQ # <<>> => Head(inputQ) \in DecPkts /\ Tail(inputQ) \in Seq(DecPkts)
    BY HeadTailProperties
  <2>2. /\ inputQ' \in Seq(DecPkts) /\ dec_pkt' \in DecPkts
        /\ dec_pc' \in {"in_wait", "stop", "output"}
        /\ dec_locked' \in BOOLEAN /\ decStatus' \in {decStatus, STOP}
    BY <1>3, <2>1 DEF DecInput
  <2>3. UNCHANGED <<endof_flag, seqInitFlag, bufReuse, dec_cmds, dec_ready,
                    dec_call, dec_rewound>>
    BY <1>3 DEF DecInput
  <2> QED
    BY <2>2, <2>3
<1>4. CASE DecOutput \/ DecSpurious
  BY <1>4 DEF DecOutput, DecSpurious
<1>5. CASE DecInitSeq
  <2>1. /\ seqInitFlag' \in BOOLEAN /\ decStatus' \in {decStatus, DECODING, HUNG}
        /\ dec_pc' \in {"start", "top", "stop"}
    BY <1>5 DEF DecInitSeq
  <2>2. UNCHANGED <<endof_flag, inputQ, dec_locked, dec_pkt, bufReuse, dec_cmds,
                    dec_ready, dec_call, dec_rewound>>
    BY <1>5 DEF DecInitSeq
  <2> QED
    BY <2>1, <2>2
<1>6. CASE DecStart
  <2>1. Append(dec_cmds, dec_pkt) \in Seq(DecPkts) /\ Append(dec_cmds, dec_pkt) # <<>>
    BY AppendProperties
  <2>2. dec_cmds' \in {dec_cmds, Append(dec_cmds, dec_pkt)}
    BY <1>6 DEF DecStart
  <2>4. dec_cmds' \in Seq(DecPkts) /\ (dec_cmds # <<>> => dec_cmds' # <<>>)
    BY <2>1, <2>2
  <2>5. /\ bufReuse' \in BOOLEAN /\ decStatus' \in {decStatus, HUNG}
        /\ dec_pc' \in {"top", "wait"}
    BY <1>6 DEF DecStart
  <2>3. UNCHANGED <<endof_flag, inputQ, seqInitFlag, dec_locked, dec_pkt,
                    dec_ready, dec_call, dec_rewound>>
    BY <1>6 DEF DecStart
  <2> QED
    BY <2>3, <2>4, <2>5
<1>7. CASE DecResult
  <2>1. Tail(dec_cmds) \in Seq(DecPkts)
    BY <1>7, HeadTailProperties DEF DecResult
  <2>2. /\ dec_cmds' \in Seq(DecPkts) /\ ~dec_ready' /\ dec_ready' \in BOOLEAN
        /\ dec_pc' \in {"show", "top", "stop", "drain"}
        /\ decStatus' \in {decStatus, HUNG, STOP}
    BY <1>7, <2>1 DEF DecResult
  <2>3. UNCHANGED <<endof_flag, inputQ, seqInitFlag, dec_locked, dec_pkt,
                    bufReuse, dec_call, dec_rewound>>
    BY <1>7 DEF DecResult
  <2> QED
    BY <2>2, <2>3
<1>8. CASE DecNoResult \/ DecShow \/ DecDrain \/ DecStop \/ DecClose
  BY <1>8 DEF DecNoResult, DecShow, DecDrain, DecStop, DecClose
<1>9. CASE DecCoreDone
  BY <1>9 DEF DecCoreDone
<1>10. CASE DecDecode \/ DecCall
  <2>1. dec_rewound' \in BOOLEAN
    BY <1>10 DEF DecDecode, DecCall
  <2>2. /\ endof_flag' \in START_CREATE .. START_CLOSE
        /\ dec_call' \in {"enqueue", "all", "flush", "delete_flush", "delete"}
    BY <1>10 DEF DecDecode, DecCall
  <2>3. UNCHANGED <<decStatus, inputQ, seqInitFlag, dec_locked, dec_pkt,
                    bufReuse, dec_cmds, dec_ready, dec_pc>>
    BY <1>10 DEF DecDecode, DecCall
  <2> QED
    BY <2>1, <2>2, <2>3
<1>11. ASSUME NEW p \in DecPkts, DecEnqueued(p)
       PROVE  inputQ' \in Seq(DecPkts)
  BY <1>11, AppendProperties DEF DecEnqueued
<1>12. CASE DecEnqueue
  BY <1>11, <1>12 DEF DecEnqueue, DecSignalInput
<1>13. CASE DecEndOfStream
  BY <1>11, <1>13 DEF DecEndOfStream, DecSignalInput
<1>14. CASE DecDelete \/ DecDeleted \/ DecGiveUp
  BY <1>14 DEF DecDelete, DecDeleted, DecGiveUp, DecSignalOutput
<1>15. CASE DecGetOutput \/ DecClearOutput
  BY <1>15 DEF DecGetOutput, DecClearOutput, DecSignalOutput
<1>16. CASE UNCHANGED dec_vars
  BY <1>16 DEF dec_vars
<1> QED
  BY <1>1, <1>2, <1>3, <1>4, <1>5, <1>6, <1>7, <1>8, <1>9, <1>10, <1>12, <1>13,
     <1>14, <1>15, <1>16
     DEF DecNext, DecThread, DecReturn

-----------------------------------------------------------------------------
(* Frames.                                                                   *)

(* The count is exact until the decoder is closed, which is when the feeding *)
(* thread waits in BMVidDecDelete for the thread to end.                     *)
DecFramesInv ==
  /\ displayQ \in Nat /\ frameInBuffer \in Nat /\ dec_held \in Nat
  /\ endof_flag = START_CLOSE <=> dec_call \in {"poll", "done"}
  /\ DecFramesExact

LEMMA DecResultFrames ==
  ASSUME DecFramesInv, DecResult
  PROVE  DecFramesInv'
<1>1. /\ UNCHANGED <<displayQ, dec_held, endof_flag, dec_call>> /\ dec_pc = "wait"
      /\ \/ frameInBuffer' = frameInBuffer + 1 /\ dec_pc' = "show"
         \/ frameInBuffer' = frameInBuffer /\ dec_pc' # "show"
  BY DEF DecResult, DecGoto, dec_thread, dec_program
<1>2. /\ displayQ' \in Nat /\ frameInBuffer' \in Nat /\ dec_held' \in Nat
      /\ endof_flag' = START_CLOSE <=> dec_call' \in {"poll", "done"}
  BY <1>1 DEF DecFramesInv
<1>3. DecFramesExact'
  BY <1>1 DEF DecFramesInv, DecFramesExact
<1> QED
  BY <1>2, <1>3 DEF DecFramesInv

LEMMA DecCallFrames ==
  ASSUME DecFramesInv, DecDecode \/ DecCall
  PROVE  DecFramesInv'
<1>1. /\ UNCHANGED <<displayQ, frameInBuffer, dec_held, dec_pc>>
      /\ endof_flag < START_CLOSE /\ endof_flag' < START_CLOSE
      /\ dec_call' \notin {"poll", "done"}
  <2>1. CASE DecDecode
    BY <2>1 DEF DecDecode, dec_flags, dec_queues, START_CREATE, START_DECODING,
                START_REWIND, START_GET_ALLFRAME, START_FLUSH, START_ENDOF,
                START_STOP, START_CLOSE
  <2>2. CASE DecCall
    BY <2>2 DEF DecCall, dec_flags, dec_queues
  <2> QED
    BY <2>1, <2>2
<1>2. endof_flag' # START_CLOSE
  BY <1>1 DEF START_CLOSE
<1>3. /\ displayQ' \in Nat /\ frameInBuffer' \in Nat /\ dec_held' \in Nat
      /\ endof_flag' = START_CLOSE <=> dec_call' \in {"poll", "done"}
  BY <1>1, <1>2 DEF DecFramesInv
<1>4. DecFramesExact'
  BY <1>1 DEF DecFramesInv, DecFramesExact
<1> QED
  BY <1>3, <1>4 DEF DecFramesInv

LEMMA DecFramesStep ==
  ASSUME DecTypes, DecFramesInv, [DecNext]_dec_vars
  PROVE  DecFramesInv'
<1> USE DEF DecTypes, DecFramesInv, DecFramesExact, DecGoto, dec_flags,
            dec_queues, dec_thread, dec_core, dec_program, START_CREATE,
            START_DECODING, START_REWIND, START_GET_ALLFRAME, START_FLUSH,
            START_ENDOF, START_STOP, START_CLOSE
<1>1. CASE DecTop
  BY <1>1 DEF DecTop
<1>2. CASE DecPurge
  BY <1>2 DEF DecPurge
<1>3. CASE DecInput
  BY <1>3 DEF DecInput
<1>4. CASE DecOutput \/ DecSpurious
  BY <1>4 DEF DecOutput, DecSpurious
<1>5. CASE DecInitSeq \/ DecStart
  BY <1>5 DEF DecInitSeq, DecStart
<1>6. CASE DecResult
  BY ONLY <1>6, DecFramesInv, DecResultFrames
<1>7. CASE DecNoResult \/ DecDrain \/ DecStop \/ DecClose
  BY <1>7 DEF DecNoResult, DecDrain, DecStop, DecClose
<1>8. CASE DecShow
  BY <1>8 DEF DecShow
<1>9. CASE DecCoreDone
  BY <1>9 DEF DecCoreDone
<1>10. CASE DecDecode \/ DecCall
  BY ONLY <1>10, DecFramesInv, DecCallFrames
<1>11. CASE DecEnqueue
  BY <1>11 DEF DecEnqueue, DecSignalInput
<1>12. CASE DecEndOfStream
  BY <1>12 DEF DecEndOfStream, DecSignalInput
<1>13. CASE DecDelete
  BY <1>13 DEF DecDelete, DecSignalOutput
<1>14. CASE DecDeleted \/ DecGiveUp
  BY <1>14 DEF DecDeleted, DecGiveUp
<1>15. CASE DecGetOutput
  BY <1>15 DEF DecGetOutput
<1>16. CASE DecClearOutput
  BY <1>16 DEF DecClearOutput, DecSignalOutput
<1>17. CASE UNCHANGED dec_vars
  BY <1>17 DEF dec_vars
<1> QED
  BY <1>1, <1>2, <1>3, <1>4, <1>5, <1>6, <1>7, <1>8, <1>9, <1>10, <1>11, <1>12,
     <1>13, <1>14, <1>15, <1>16, <1>17
     DEF DecNext, DecThread, DecReturn

-----------------------------------------------------------------------------
(* Order.                                                                    *)

DecAll(s, p) == \A i \in 1 .. Len(s) : s[i] = p
DecEndsLast(s) ==
  \A i, j \in 1 .. Len(s) : i < j /\ s[i] = "end" => s[j] = "end"

(* What an Append and a Tail do to the order of packets and ends.            *)
LEMMA DecSequences ==
  ASSUME NEW s \in Seq(DecPkts)
  PROVE  /\ \A p \in DecPkts :
              /\ \A q \in DecPkts :
                   DecAll(Append(s, p), q) <=> DecAll(s, q) /\ p = q
              /\ DecEndsLast(Append(s, p)) <=>
                   DecEndsLast(s) /\ (p = "end" \/ DecAll(s, "pkt"))
         /\ s # <<>> =>
              /\ \A q \in DecPkts :
                   DecAll(s, q) => Head(s) = q /\ DecAll(Tail(s), q)
              /\ DecEndsLast(s) =>
                   /\ DecEndsLast(Tail(s))
                   /\ Head(s) = "end" => DecAll(Tail(s), "end")
              /\ DecAll(Tail(s), "pkt") \/ ~DecAll(s, "pkt")
         /\ DecAll(<<>>, "pkt") /\ DecAll(<<>>, "end") /\ DecEndsLast(<<>>)
<1> USE DEF DecPkts
<1>0. Len(s) \in Nat /\ \A i \in 1 .. Len(s) : s[i] \in DecPkts
  OBVIOUS
<1>1. ASSUME NEW p \in DecPkts
      PROVE  /\ \A q \in DecPkts :
                  DecAll(Append(s, p), q) <=> DecAll(s, q) /\ p = q
             /\ DecEndsLast(Append(s, p)) <=>
                  DecEndsLast(s) /\ (p = "end" \/ DecAll(s, "pkt"))
  <2> DEFINE a == Append(s, p)
  <2>1. /\ Len(a) = Len(s) + 1 /\ a[Len(s) + 1] = p
        /\ \A i \in 1 .. Len(s) : a[i] = s[i]
    BY AppendProperties
  <2> HIDE DEF a
  <2>2. ASSUME NEW q \in DecPkts
        PROVE  DecAll(a, q) <=> DecAll(s, q) /\ p = q
    <3>1. ASSUME DecAll(a, q)
          PROVE  DecAll(s, q) /\ p = q
      BY <1>0, <2>1, <3>1 DEF DecAll
    <3>2. ASSUME DecAll(s, q), p = q
          PROVE  DecAll(a, q)
      BY <1>0, <2>1, <3>2 DEF DecAll
    <3> QED
      BY <3>1, <3>2
  <2>3. ASSUME DecEndsLast(a)
        PROVE  DecEndsLast(s) /\ (p = "end" \/ DecAll(s, "pkt"))
    <3>1. DecEndsLast(s)
      BY <1>0, <2>1, <2>3 DEF DecEndsLast
    <3>2. ASSUME p # "end", NEW i \in 1 .. Len(s)
          PROVE  s[i] = "pkt"
      <4>1. i \in 1 .. Len(a) /\ Len(s) + 1 \in 1 .. Len(a) /\ i < Len(s) + 1
        BY <1>0, <2>1
      <4>2. a[i] # "end"
        BY <2>1, <2>3, <3>2, <4>1 DEF DecEndsLast
      <4> QED
        BY <1>0, <2>1, <4>2
    <3> QED
      BY <3>1, <3>2 DEF DecAll
  <2>4. ASSUME DecEndsLast(s), p = "end" \/ DecAll(s, "pkt")
        PROVE  DecEndsLast(a)
    <3> SUFFICES ASSUME NEW i \in 1 .. Len(a), NEW j \in 1 .. Len(a), i < j,
                        a[i] = "end"
                 PROVE  a[j] = "end"
      BY DEF DecEndsLast
    <3>1. i \in 1 .. Len(s) /\ s[i] = "end"
      BY <1>0, <2>1
    <3>2. CASE j = Len(s) + 1
      BY <2>1, <2>4, <3>1, <3>2 DEF DecAll
    <3>3. CASE j \in 1 .. Len(s)
      BY <2>1, <2>4, <3>1, <3>3 DEF DecEndsLast
    <3> QED
      BY <1>0, <2>1, <3>2, <3>3
  <2> QED
    BY <2>2, <2>3, <2>4 DEF a
<1>2. ASSUME s # <<>>
      PROVE  /\ \A q \in DecPkts :
                  DecAll(s, q) => Head(s) = q /\ DecAll(Tail(s), q)
             /\ DecEndsLast(s) =>
                  /\ DecEndsLast(Tail(s))
                  /\ Head(s) = "end" => DecAll(Tail(s), "end")
             /\ DecAll(Tail(s), "pkt") \/ ~DecAll(s, "pkt")
  <2> DEFINE r == Tail(s)
  <2>1. /\ Len(r) = Len(s) - 1 /\ Head(s) = s[1] /\ 1 \in 1 .. Len(s)
        /\ \A i \in 1 .. Len(r) : i + 1 \in 1 .. Len(s) /\ r[i] = s[i + 1]
    BY <1>2, HeadTailProperties
  <2> HIDE DEF r
  <2>2. ASSUME NEW q \in DecPkts, DecAll(s, q)
        PROVE  Head(s) = q /\ DecAll(r, q)
    BY <2>1, <2>2 DEF DecAll
  <2>3. ASSUME DecEndsLast(s)
        PROVE  DecEndsLast(r) /\ (Head(s) = "end" => DecAll(r, "end"))
    <3>1. DecEndsLast(r)
      BY <1>0, <2>1, <2>3 DEF DecEndsLast
    <3>2. ASSUME Head(s) = "end", NEW i \in 1 .. Len(r)
          PROVE  r[i] = "end"
      <4>1. 1 \in 1 .. Len(s) /\ i + 1 \in 1 .. Len(s) /\ 1 < i + 1
        BY <2>1
      <4> QED
        BY <2>1, <2>3, <3>2, <4>1 DEF DecEndsLast
    <3> QED
      BY <3>1, <3>2 DEF DecAll
  <2> QED
    BY <2>2, <2>3 DEF r
<1>3. DecAll(<<>>, "pkt") /\ DecAll(<<>>, "end") /\ DecEndsLast(<<>>)
  BY DEF DecAll, DecEndsLast
<1> QED
  BY <1>1, <1>2, <1>3

(* The packet in dec_pkt is still to be given to the core.                   *)
DecPending ==
  \/ bufReuse
  \/ dec_pc \in {"output", "out_wait", "init", "start"} /\ decStatus <= DECODING

(* Until a sequence header is found nothing is with the core, and no stop or *)
(* hang-up is seen in the loop; the loop is left stopped, hung or to close.  *)
DecShapeInv ==
  /\ dec_pc \in {"start", "wait"} => seqInitFlag
  /\ ~seqInitFlag => dec_cmds = <<>> /\ ~bufReuse
  /\ ~seqInitFlag /\ dec_pc \notin {"stop", "stopped", "close", "exit"} =>
       decStatus <= DECODING
  /\ dec_pc = "stop" => decStatus \in {STOP, HUNG} \/ endof_flag = START_CLOSE

(* From the core over the pending packet to the queue there is no packet     *)
(* after an end of stream, and none but packets unless the end was asked     *)
(* for; and when the status is STOP, an end has come out of the core, so     *)
(* that only ends are left.                                                  *)
DecOrderInv ==
  ~dec_rewound =>
    /\ endof_flag # START_REWIND /\ dec_pc # "purge"
    /\ dec_call = "enqueue" => endof_flag <= START_DECODING
    /\ endof_flag <= START_DECODING =>
         /\ DecAll(inputQ, "pkt") /\ DecAll(dec_cmds, "pkt")
         /\ DecPending => dec_pkt = "pkt"
         /\ decStatus # STOP
    /\ DecEndsLast(inputQ) /\ DecEndsLast(dec_cmds)
    /\ DecPending /\ dec_pkt = "end" => DecAll(inputQ, "end")
    /\ ~DecAll(dec_cmds, "pkt") =>
         DecAll(inputQ, "end") /\ (DecPending => dec_pkt = "end")
    /\ decStatus = STOP /\ endof_flag < START_CLOSE =>
         /\ DecAll(inputQ, "end") /\ DecAll(dec_cmds, "end")
         /\ bufReuse => dec_pkt = "end"

LEMMA DecShapeStep ==
  ASSUME DecTypes, DecFramesInv, DecShapeInv, [DecNext]_dec_vars
  PROVE  DecShapeInv'
<1> USE DEF DecTypes, DecFramesInv, DecShapeInv, DecGoto, dec_flags,
            dec_queues, dec_thread, dec_core, dec_program, START_CREATE,
            START_DECODING, START_REWIND, START_GET_ALLFRAME, START_FLUSH,
            START_ENDOF, START_STOP, START_CLOSE, UNINIT, DECODING, STOP, HUNG,
            CLOSE, CLOSED
<1>1. CASE DecTop \/ DecPurge
  BY <1>1 DEF DecTop, DecPurge
<1>2. CASE DecInput
  BY <1>2 DEF DecInput
<1>3. CASE DecOutput \/ DecSpurious
  BY <1>3 DEF DecOutput, DecSpurious
<1>4. CASE DecInitSeq
  BY <1>4 DEF DecInitSeq
<1>5. CASE DecStart
  BY <1>5 DEF DecStart
<1>6. CASE DecResult
  BY <1>6 DEF DecResult
<1>7. CASE DecNoResult \/ DecShow \/ DecDrain \/ DecStop \/ DecClose
  BY <1>7 DEF DecNoResult, DecShow, DecDrain, DecStop, DecClose
<1>8. CASE DecCoreDone
  BY <1>8 DEF DecCoreDone
<1>9. CASE DecDecode \/ DecCall
  BY <1>9 DEF DecDecode, DecCall
<1>10. CASE DecEnqueue \/ DecEndOfStream
  BY <1>10 DEF DecEnqueue, DecEndOfStream, DecSignalInput
<1>11. CASE DecDelete \/ DecDeleted \/ DecGiveUp
  BY <1>11 DEF DecDelete, DecDeleted, DecGiveUp, DecSignalOutput
<1>12. CASE DecGetOutput \/ DecClearOutput
  BY <1>12 DEF DecGetOutput, DecClearOutput, DecSignalOutput
<1>13. CASE UNCHANGED dec_vars
  BY <1>13 DEF dec_vars
<1> QED
  BY <1>1, <1>2, <1>3, <1>4, <1>5, <1>6, <1>7, <1>8, <1>9, <1>10, <1>11, <1>12,
     <1>13
     DEF DecNext, DecThread, DecReturn

LEMMA DecOrderStep ==
  ASSUME DecTypes, DecFramesInv, DecShapeInv, DecOrderInv, [DecNext]_dec_vars
  PROVE  DecOrderInv'
<1> USE DEF DecGoto, dec_flags, dec_queues, dec_thread, dec_core, dec_program,
            START_CREATE, START_DECODING, START_REWIND, START_GET_ALLFRAME,
            START_FLUSH, START_ENDOF, START_STOP, START_CLOSE, UNINIT, DECODING,
            STOP, HUNG, CLOSE, CLOSED
<1>0. /\ inputQ \in Seq(DecPkts) /\ dec_cmds \in Seq(DecPkts)
      /\ dec_pkt \in DecPkts /\ "pkt" \in DecPkts /\ "end" \in DecPkts
      /\ endof_flag \in START_CREATE .. START_CLOSE
      /\ decStatus \in UNINIT .. CLOSED
  BY DEF DecTypes, DecPkts
<1> SUFFICES ASSUME ~dec_rewound'
             PROVE  DecOrderInv'
  BY DEF DecOrderInv
(* A step of the thread or of the other calls that leaves the packets where  *)
(* they are.                                                                 *)
<1>1. ASSUME ~dec_rewound,
             UNCHANGED <<inputQ, dec_cmds, dec_pkt>>,
             DecPending' => DecPending, bufReuse' => bufReuse,
             endof_flag' \in {endof_flag, START_CLOSE},
             dec_call' = "enqueue" => dec_call = "enqueue" /\ UNCHANGED endof_flag,
             decStatus' = STOP => decStatus = STOP \/ endof_flag' = START_CLOSE,
             dec_pc' = "purge" => dec_pc = "purge"
      PROVE  DecOrderInv'
  BY <1>0, <1>1 DEF DecOrderInv
<1>2. CASE DecTop
  BY <1>0, <1>1, <1>2 DEF DecTop, DecOrderInv, DecPending
<1>3. CASE DecPurge
  BY <1>3 DEF DecPurge, DecOrderInv
<1>4. CASE DecInput
  <2>0. /\ ~dec_rewound /\ dec_pc = "input"
        /\ UNCHANGED <<endof_flag, bufReuse, dec_cmds, dec_call>>
    BY <1>4 DEF DecInput
  <2>1. CASE /\ \/ dec_pc' \in {"in_wait", "stop"}
                \/ dec_pc' = "output" /\ (decStatus > DECODING \/ bufReuse)
             /\ UNCHANGED <<inputQ, dec_pkt, decStatus>>
    <3>1. DecPending' => DecPending
      BY <1>0, <2>0, <2>1 DEF DecPending
    <3>2. dec_pc' # "purge"
      BY <2>1
    <3> QED
      BY <1>1, <2>0, <2>1, <3>1, <3>2
  <2>2. CASE /\ inputQ # <<>> /\ dec_pkt' = Head(inputQ) /\ inputQ' = Tail(inputQ)
             /\ decStatus <= DECODING /\ ~bufReuse /\ UNCHANGED decStatus
             /\ dec_pc' = "output"
    <3>1. /\ \A q \in DecPkts : DecAll(inputQ, q) =>
                                 dec_pkt' = q /\ DecAll(inputQ', q)
          /\ DecEndsLast(inputQ) =>
               DecEndsLast(inputQ') /\ (dec_pkt' = "end" => DecAll(inputQ', "end"))
      BY <1>0, <2>2, DecSequences
    <3>2. ~bufReuse' /\ ~DecPending /\ DecPending'
      BY <2>0, <2>2 DEF DecPending
    <3> QED
      BY <1>0, <2>0, <2>2, <3>1, <3>2 DEF DecOrderInv
  <2>3. CASE /\ inputQ = <<>> /\ dec_pkt' = "end" /\ inputQ' = inputQ
             /\ endof_flag > START_DECODING
             /\ decStatus <= DECODING /\ ~bufReuse /\ UNCHANGED decStatus
             /\ dec_pc' = "output"
    <3>1. DecAll(inputQ', "pkt") /\ DecAll(inputQ', "end") /\ DecEndsLast(inputQ')
      BY <1>0, <2>3, DecSequences
    <3>2. ~bufReuse' /\ ~DecPending /\ DecPending'
      BY <2>0, <2>3 DEF DecPending
    <3> QED
      BY <1>0, <2>0, <2>3, <3>1, <3>2 DEF DecOrderInv
  <2>4. CASE /\ inputQ = <<>> /\ ~seqInitFlag /\ decStatus' = STOP
             /\ endof_flag > START_DECODING /\ dec_pc' = "stop"
             /\ UNCHANGED <<inputQ, dec_pkt>>
    <3>1. dec_cmds = <<>> /\ ~bufReuse /\ ~DecPending'
      BY <2>0, <2>4 DEF DecShapeInv, DecPending
    <3>2. ~bufReuse'
      BY <2>0, <3>1
    <3>3. /\ DecAll(inputQ', "end") /\ DecEndsLast(inputQ')
          /\ DecAll(dec_cmds', "end") /\ DecAll(dec_cmds', "pkt")
          /\ DecEndsLast(dec_cmds')
      BY <1>0, <2>0, <2>4, <3>1, DecSequences
    <3> QED
      BY <1>0, <2>0, <2>4, <3>1, <3>2, <3>3 DEF DecOrderInv
  <2> QED
    BY <1>0, <1>4, <2>1, <2>2, <2>3, <2>4 DEF DecInput
<1>5. CASE DecOutput \/ DecSpurious
  BY <1>0, <1>1, <1>5 DEF DecOutput, DecSpurious, DecPending
<1>6. CASE DecInitSeq
  BY <1>0, <1>1, <1>6 DEF DecInitSeq, DecPending, DecShapeInv
<1>7. CASE DecStart
  <2>0. /\ ~dec_rewound /\ dec_pc = "start"
        /\ UNCHANGED <<endof_flag, inputQ, dec_pkt, dec_call>>
    BY <1>7 DEF DecStart
  <2>1. CASE decStatus # DECODING /\ UNCHANGED <<decStatus, bufReuse, dec_cmds>>
    BY <1>0, <1>1, <1>7, <2>0, <2>1 DEF DecStart, DecPending
  <2>2. CASE /\ decStatus = DECODING /\ UNCHANGED decStatus
             /\ dec_cmds' = Append(dec_cmds, dec_pkt) /\ bufReuse' = FALSE
             /\ dec_pc' = "wait"
    BY <1>0, <2>0, <2>2, DecSequences DEF DecOrderInv, DecPending, DecPkts
  <2>3. CASE /\ decStatus = DECODING /\ bufReuse' = TRUE
             /\ UNCHANGED <<decStatus, dec_cmds>> /\ dec_pc' \in {"top", "wait"}
    BY <1>0, <2>0, <2>3 DEF DecOrderInv, DecPending
  <2>4. CASE /\ decStatus = DECODING /\ decStatus' = HUNG
             /\ UNCHANGED <<bufReuse, dec_cmds>> /\ dec_pc' = "top"
    BY <1>0, <1>1, <2>0, <2>4 DEF DecPending
  <2> QED
    BY <1>7, <2>1, <2>2, <2>3, <2>4 DEF DecStart
<1>8. CASE DecResult
  <2>0. /\ ~dec_rewound /\ dec_pc = "wait" /\ dec_cmds # <<>>
        /\ dec_cmds' = Tail(dec_cmds) /\ dec_pc' \notin {"output", "out_wait", "init", "start"}
        /\ UNCHANGED <<endof_flag, inputQ, dec_pkt, bufReuse, dec_call>>
    BY <1>8 DEF DecResult, DecTypes
  <2>1. dec_pc' # "purge" /\ (DecPending' => DecPending) /\ (bufReuse => DecPending)
    BY <1>8, <2>0 DEF DecResult, DecPending
  <2>2. /\ \A q \in DecPkts : DecAll(dec_cmds, q) =>
                                Head(dec_cmds) = q /\ DecAll(dec_cmds', q)
        /\ DecEndsLast(dec_cmds) =>
             /\ DecEndsLast(dec_cmds')
             /\ Head(dec_cmds) = "end" => DecAll(dec_cmds', "end")
        /\ DecAll(dec_cmds', "pkt") \/ ~DecAll(dec_cmds, "pkt")
    BY <1>0, <2>0, DecSequences
  <2>3. CASE decStatus' \in {decStatus, HUNG}
    BY <1>0, <2>0, <2>1, <2>2, <2>3 DEF DecOrderInv
  <2>4. CASE Head(dec_cmds) = "end" /\ decStatus' = STOP
    BY <1>0, <2>0, <2>1, <2>2, <2>4 DEF DecOrderInv
  <2> QED
    BY <1>8, <2>3, <2>4 DEF DecResult
<1>9. CASE DecNoResult \/ DecShow \/ DecDrain
  BY <1>0, <1>1, <1>9 DEF DecNoResult, DecShow, DecDrain, DecPending
<1>10. CASE DecStop \/ DecClose
  BY <1>0, <1>1, <1>10 DEF DecStop, DecClose, DecPending, DecShapeInv
<1>11. CASE DecCoreDone
  BY <1>0, <1>1, <1>11 DEF DecCoreDone, DecPending
<1>12. CASE DecDecode
  <2>1. ~dec_rewound /\ endof_flag' # START_REWIND
    BY <1>12 DEF DecDecode
  <2>2. endof_flag' = START_DECODING /\ endof_flag <= START_DECODING
    BY <1>0, <1>12, <2>1 DEF DecDecode, DecOrderInv
  <2>3. /\ UNCHANGED <<decStatus, inputQ, dec_cmds, dec_pkt, bufReuse, dec_pc>>
        /\ DecPending' <=> DecPending
    BY <1>12 DEF DecDecode, DecPending
  <2> QED
    BY <1>0, <2>1, <2>2, <2>3 DEF DecOrderInv
<1>13. CASE DecCall
  BY <1>0, <1>1, <1>13 DEF DecCall, DecPending
<1>14. CASE DecEnqueue
  <2>0. /\ ~dec_rewound /\ dec_call = "enqueue" /\ dec_call' = "none"
        /\ UNCHANGED <<endof_flag, decStatus, bufReuse, dec_cmds, dec_pkt>>
        /\ DecPending' => DecPending
        /\ inputQ' \in {inputQ, Append(inputQ, "pkt")}
    BY <1>14 DEF DecEnqueue, DecEnqueued, DecSignalInput, DecPending
  <2>1. dec_pc' # "purge"
    BY <1>14, <2>0 DEF DecEnqueue, DecSignalInput, DecOrderInv
  <2>2. CASE UNCHANGED inputQ
    BY <1>1, <2>0, <2>1, <2>2
  <2>3. CASE inputQ' = Append(inputQ, "pkt")
    BY <1>0, <2>0, <2>1, <2>3, DecSequences DEF DecOrderInv
  <2> QED
    BY <2>0, <2>2, <2>3
<1>15. CASE DecEndOfStream
  <2>0. /\ ~dec_rewound /\ dec_call' # "enqueue"
        /\ endof_flag' \in {START_GET_ALLFRAME, START_FLUSH}
        /\ endof_flag # START_CLOSE
        /\ UNCHANGED <<decStatus, bufReuse, dec_cmds, dec_pkt>>
        /\ DecPending' => DecPending
        /\ inputQ' \in {inputQ, Append(inputQ, "end")}
    BY <1>15 DEF DecEndOfStream, DecEnqueued, DecSignalInput, DecPending, DecFramesInv
  <2>1. dec_pc' # "purge"
    BY <1>15, <2>0 DEF DecEndOfStream, DecSignalInput, DecOrderInv
  <2>2. CASE UNCHANGED inputQ
    BY <1>0, <2>0, <2>1, <2>2 DEF DecOrderInv
  <2>3. CASE inputQ' = Append(inputQ, "end")
    BY <1>0, <2>0, <2>1, <2>3, DecSequences DEF DecOrderInv
  <2> QED
    BY <2>0, <2>2, <2>3
<1>16. CASE DecDelete
  BY <1>0, <1>1, <1>16 DEF DecDelete, DecSignalOutput, DecPending
<1>17. CASE DecDeleted \/ DecGiveUp
  BY <1>0, <1>1, <1>17 DEF DecDeleted, DecGiveUp, DecPending
<1>18. CASE DecGetOutput \/ DecClearOutput
  BY <1>0, <1>1, <1>18 DEF DecGetOutput, DecClearOutput, DecSignalOutput, DecPending
<1>19. CASE UNCHANGED dec_vars
  BY <1>0, <1>1, <1>19 DEF dec_vars, DecPending
<1> QED
  BY <1>2, <1>3, <1>4, <1>5, <1>6, <1>7, <1>8, <1>9, <1>10, <1>11, <1>12, <1>13,
     <1>14, <1>15, <1>16, <1>17, <1>18, <1>19
     DEF DecNext, DecThread, DecReturn

-----------------------------------------------------------------------------
(* The decoder in every behaviour.                                           *)

DecInv == DecTypes /\ DecFramesInv /\ DecShapeInv /\ DecOrderInv

LEMMA DecInvHolds ==
  DecSpec => []DecInv
<1>1. DecInit => DecInv
  <2> SUFFICES ASSUME DecInit
               PROVE  DecInv
    OBVIOUS
  <2> USE DEF DecInit, START_CREATE, START_DECODING, START_REWIND, START_CLOSE,
              UNINIT, DECODING, STOP, CLOSED
  <2>0. /\ ~dec_ready /\ ~seqInitFlag /\ ~bufReuse
        /\ seqInitFlag \in BOOLEAN /\ dec_locked \in BOOLEAN
        /\ bufReuse \in BOOLEAN /\ dec_ready \in BOOLEAN
        /\ dec_rewound \in BOOLEAN
    OBVIOUS
  <2>1. DecTypes /\ DecShapeInv
    <3>1. <<>> \in Seq(DecPkts)
      BY EmptySeq
    <3>2. DecTypes
      BY <2>0, <3>1 DEF DecTypes, DecPkts
    <3>3. DecShapeInv
      BY <2>0 DEF DecShapeInv
    <3> QED
      BY <3>2, <3>3
  <2>2. DecFramesInv
    BY DEF DecFramesInv, DecFramesExact
  <2>3. DecOrderInv
    BY DEF DecOrderInv, DecPending, DecAll, DecEndsLast
  <2> QED
    BY <2>1, <2>2, <2>3 DEF DecInv
<1>2. DecInv /\ [DecNext]_dec_vars => DecInv'
  BY DecTypeStep, DecFramesStep, DecShapeStep, DecOrderStep DEF DecInv
<1> QED
  BY <1>1, <1>2, PTL DEF DecSpec

(* Every variable has its type: displayQ and frameInBuffer never go below 0, *)
(* and the status is one of its enumeration.                                 *)
THEOREM DecTypesHold ==
  DecSpec => []DecTypeOK
<1>1. DecInv => DecTypeOK
  BY DEF DecInv, DecTypes, DecFramesInv, DecTypeOK, DecPkts
<1> QED
  BY DecInvHolds, <1>1, PTL

(* Until it is closed, frameInBuffer is the number of frames that the        *)
(* program holds, has queued, or is about to get.                            *)
THEOREM DecFramesAreExact ==
  DecSpec => []DecFramesExact
<1>1. DecInv => DecFramesExact
  BY DEF DecInv, DecFramesInv
<1> QED
  BY DecInvHolds, <1>1, PTL

(* BMDEC_STOP after BMVidGetAllFramesInBuffer means that every packet went   *)
(* through the core, if none was fed after an end of stream.                 *)
THEOREM DecEndIsAfterAll ==
  DecSpec => []DecEndAfterAll
<1>1. DecInv => DecEndAfterAll
  <2> SUFFICES ASSUME DecInv, decStatus = STOP,
                      endof_flag = START_GET_ALLFRAME, ~dec_rewound
               PROVE  /\ ~Contains(inputQ \o dec_cmds, "pkt")
                      /\ ~(bufReuse /\ dec_pkt = "pkt")
    BY DEF DecEndAfterAll
  <2>1. /\ DecAll(inputQ, "end") /\ DecAll(dec_cmds, "end")
        /\ bufReuse => dec_pkt = "end"
    BY DEF DecInv, DecOrderInv, START_GET_ALLFRAME, START_CLOSE
  <2>2. inputQ \in Seq(DecPkts) /\ dec_cmds \in Seq(DecPkts)
    BY DEF DecInv, DecTypes
  <2>3. ASSUME NEW i \in 1 .. Len(inputQ \o dec_cmds)
        PROVE  (inputQ \o dec_cmds)[i] = "end"
    BY <2>1, <2>2, ConcatProperties DEF DecAll
  <2> QED
    BY <2>1, <2>3 DEF Contains
<1> QED
  BY DecInvHolds, <1>1, PTL

=============================================================================
