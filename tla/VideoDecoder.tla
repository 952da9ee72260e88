---------------------------- MODULE VideoDecoder ----------------------------
(* An open decoder of bm_video_interface.c, fed a frame at a time            *)
(* (BS_MODE_PIC_END): the calls of the program, which feeds packets and      *)
(* takes frames perhaps in two threads, and the thread of the decoder,       *)
(* process_vpu_msg_w5. They share two queues, two flags that they read       *)
(* without a lock (endof_flag and decStatus) and two condition variables.    *)
EXTENDS Integers, Sequences, SequencesExt

CONSTANTS
  DecQueueLen,      \* INPUT_QUEUE_LEN
  DecDepth,         \* commands the codec core queues
  DecExtra,         \* extraFrameBufferNum
  DecFrames         \* frame buffers of the core

ASSUME DecAssumption ==
  /\ DecQueueLen \in Nat \ {0} /\ DecDepth \in Nat \ {0}
  /\ DecExtra \in Nat \ {0} /\ DecFrames \in Nat

(* The values of BMDecStartStatus and BMDecStatus that occur; the code       *)
(* compares them.                                                            *)
START_CREATE == 0
START_DECODING == 3
START_REWIND == 4
START_GET_ALLFRAME == 5
START_FLUSH == 6
START_ENDOF == 7
START_STOP == 8
START_CLOSE == 9

UNINIT == 2
DECODING == 3
STOP == 5
HUNG == 6
CLOSE == 7
CLOSED == 8

VARIABLES
  endof_flag, decStatus,
  inputQ,           \* packets: "pkt", or "end" for one of length 0
  displayQ,         \* frames in displayQ
  frameInBuffer,
  seqInitFlag,
  dec_locked,       \* the thread has left its loop with inputCond locked
  dec_pc,           \* where the thread is
  dec_pkt,          \* the packet it decodes
  bufReuse,         \* it is to be started again
  dec_cmds,         \* commands that the core has and was not asked about
  dec_ready,        \* the core has finished the first of them
  dec_call,         \* the call of the feeding thread that is under way
  dec_held,         \* frames the program has taken and not cleared
  dec_rewound       \* history: a packet was fed after an end of stream

dec_flags == <<endof_flag, decStatus>>
dec_queues == <<inputQ, displayQ, frameInBuffer>>
dec_thread == <<seqInitFlag, dec_locked, dec_pkt, bufReuse>>
dec_core == <<dec_cmds, dec_ready>>
dec_program == <<dec_call, dec_held, dec_rewound>>
dec_vars == <<dec_flags, dec_queues, dec_thread, dec_pc, dec_core, dec_program>>

DecInit ==
  /\ endof_flag = START_CREATE /\ decStatus = UNINIT
  /\ inputQ = <<>> /\ displayQ = 0 /\ frameInBuffer = 0
  /\ seqInitFlag = FALSE /\ dec_locked = FALSE
  /\ dec_pc = "top" /\ dec_pkt = "end" /\ bufReuse = FALSE
  /\ dec_cmds = <<>> /\ dec_ready = FALSE
  /\ dec_call = "none" /\ dec_held = 0 /\ dec_rewound = FALSE

DecGoto(p) == dec_pc' = p

(* Queue_Enqueue, which drops what finds the queue full. Mutant: an end of   *)
(* stream overtakes the packets.                                             *)
DecEnqueuedFirst(p) ==
  inputQ' = IF Len(inputQ) = DecQueueLen THEN inputQ
            ELSE IF p = "end" THEN <<p>> \o inputQ ELSE Append(inputQ, p)
DecEnqueued(p) ==
  inputQ' = IF Len(inputQ) = DecQueueLen THEN inputQ ELSE Append(inputQ, p)

(* osal_cond_signal                                                          *)
DecSignalInput == dec_pc' = IF dec_pc = "in_wait" THEN "input" ELSE dec_pc
DecSignalOutput == dec_pc' = IF dec_pc = "out_wait" THEN "init" ELSE dec_pc

-----------------------------------------------------------------------------
(* The thread: the head of its loop.                                         *)

(* It leaves the loop at a close, goes on after an end of stream if packets  *)
(* are fed, and starts over if that was a rewind.                            *)
DecTop ==
  /\ dec_pc = "top"
  /\ \/ endof_flag = START_CLOSE /\ DecGoto("stop") /\ UNCHANGED decStatus
     \/ /\ endof_flag = START_REWIND /\ decStatus = STOP
        /\ decStatus' = DECODING
        /\ DecGoto("purge")
     \/ /\ endof_flag # START_CLOSE
        /\ ~(endof_flag = START_REWIND /\ decStatus = STOP)
        /\ decStatus' = IF endof_flag = START_DECODING /\ decStatus = STOP
                        THEN DECODING ELSE decStatus
        /\ DecGoto("input")
  /\ UNCHANGED <<endof_flag, dec_queues, dec_thread, dec_core, dec_program>>

(* Starting over: the packets of length 0 that are first in the queue go.    *)
DecPurge ==
  LET first == SelectInSeq(inputQ, LAMBDA p : p = "pkt")
  IN
  /\ dec_pc = "purge"
  /\ inputQ' = IF first = 0 THEN <<>>
               ELSE SubSeq(inputQ, first, Len(inputQ))
  /\ bufReuse' = FALSE
  /\ DecGoto("top")
  /\ UNCHANGED <<dec_flags, displayQ, frameInBuffer, seqInitFlag, dec_locked,
                 dec_pkt, dec_core, dec_program>>

(* Under inputCond: it waits for a packet, unless an end of stream or a      *)
(* rewind was signalled; breaks at a close, or if there is no packet though  *)
(* the sequence is not known, and keeps the lock; else takes the packet, or  *)
(* an end of stream if there is none.                                        *)
DecInput ==
  /\ dec_pc = "input"
  /\ \/ /\ inputQ = <<>> /\ endof_flag <= START_DECODING
        /\ DecGoto("in_wait")
        /\ UNCHANGED <<decStatus, inputQ, dec_locked, dec_pkt>>
     \/ /\ endof_flag = START_CLOSE
        /\ dec_locked' = TRUE
        /\ DecGoto("stop")
        /\ UNCHANGED <<decStatus, inputQ, dec_pkt>>
     \/ /\ inputQ # <<>> \/ endof_flag > START_DECODING
        /\ endof_flag # START_CLOSE
        /\ \/ /\ decStatus > DECODING \/ bufReuse
              /\ DecGoto("output")
              /\ UNCHANGED <<decStatus, inputQ, dec_locked, dec_pkt>>
           \/ /\ decStatus <= DECODING /\ ~bufReuse
              /\ inputQ # <<>>
              /\ dec_pkt' = Head(inputQ) /\ inputQ' = Tail(inputQ)
              /\ DecGoto("output")
              /\ UNCHANGED <<decStatus, dec_locked>>
           \/ /\ decStatus <= DECODING /\ ~bufReuse
              /\ inputQ = <<>> /\ seqInitFlag
              /\ dec_pkt' = "end"
              /\ DecGoto("output")
              /\ UNCHANGED <<decStatus, inputQ, dec_locked>>
           \/ /\ decStatus <= DECODING /\ ~bufReuse
              /\ inputQ = <<>> /\ ~seqInitFlag
              /\ decStatus' = STOP /\ dec_locked' = TRUE
              /\ DecGoto("stop")
              /\ UNCHANGED <<inputQ, dec_pkt>>
  /\ UNCHANGED <<endof_flag, displayQ, frameInBuffer, seqInitFlag, bufReuse,
                 dec_core, dec_program>>

(* Under outputCond: it waits once if the program has too many frames.       *)
DecOutput ==
  /\ dec_pc = "output"
  /\ DecGoto(IF /\ frameInBuffer > 0 /\ frameInBuffer >= DecExtra
                /\ endof_flag <= START_ENDOF
             THEN "out_wait" ELSE "init")
  /\ UNCHANGED <<dec_flags, dec_queues, dec_thread, dec_core, dec_program>>
(* A condition variable may wake for no reason.                              *)
DecSpurious ==
  /\ dec_pc = "out_wait"
  /\ DecGoto("init")
  /\ UNCHANGED <<dec_flags, dec_queues, dec_thread, dec_core, dec_program>>

-----------------------------------------------------------------------------
(* The thread: one command.                                                  *)

(* The sequence header, if it is not known: found in the packet, not found,  *)
(* found but without memory for its time stamps, or the core fails.          *)
DecInitSeq ==
  /\ dec_pc = "init"
  /\ \/ seqInitFlag /\ DecGoto("start") /\ UNCHANGED <<seqInitFlag, decStatus>>
     \/ /\ ~seqInitFlag /\ dec_pkt = "pkt"
        /\ seqInitFlag' = TRUE
        /\ \/ decStatus' = DECODING /\ DecGoto("start")
           \/ decStatus' = HUNG /\ DecGoto("stop")
     \/ ~seqInitFlag /\ DecGoto("top") /\ UNCHANGED <<seqInitFlag, decStatus>>
     \/ /\ ~seqInitFlag
        /\ decStatus' = HUNG
        /\ DecGoto("stop")
        /\ UNCHANGED seqInitFlag
  /\ UNCHANGED <<endof_flag, dec_queues, dec_locked, dec_pkt, bufReuse, dec_core,
                 dec_program>>

(* VPU_DecStartOneFrame, which finds the queue of the core full (its own     *)
(* commands, or those of other decoders) or fails.                           *)
DecStart ==
  /\ dec_pc = "start"
  /\ \/ /\ decStatus # DECODING
        /\ DecGoto("top")
        /\ UNCHANGED <<decStatus, bufReuse, dec_cmds>>
     \/ /\ decStatus = DECODING /\ Len(dec_cmds) < DecDepth
        /\ dec_cmds' = Append(dec_cmds, dec_pkt)
        /\ bufReuse' = FALSE
        /\ DecGoto("wait")
        /\ UNCHANGED decStatus
     \/ /\ decStatus = DECODING
        /\ bufReuse' = TRUE
        /\ DecGoto(IF dec_cmds = <<>> THEN "top" ELSE "wait")
        /\ UNCHANGED <<decStatus, dec_cmds>>
     \/ /\ decStatus = DECODING
        /\ decStatus' = HUNG
        /\ DecGoto("top")
        /\ UNCHANGED <<bufReuse, dec_cmds>>
  /\ UNCHANGED <<endof_flag, dec_queues, seqInitFlag, dec_locked, dec_pkt,
                 dec_ready, dec_program>>

(* VPU_WaitInterruptEx and the result of the first command: a frame, none or *)
(* one that VPU_DecGetOutputInfo cannot read, a change of sequence that      *)
(* fails, or, for an end of stream whose delayed frames are all shown,       *)
(* DISPLAY_IDX_FLAG_SEQ_END. Until it comes, the thread starts further       *)
(* commands for the end of the stream, as long as the queue is empty.        *)
DecResult ==
  /\ dec_pc = "wait" /\ dec_ready
  /\ dec_cmds' = Tail(dec_cmds) /\ dec_ready' = FALSE
  /\ \/ /\ frameInBuffer < DecFrames
        /\ frameInBuffer' = frameInBuffer + 1
        /\ DecGoto("show")
        /\ UNCHANGED decStatus
     \/ DecGoto("top") /\ UNCHANGED <<frameInBuffer, decStatus>>
     \/ decStatus' = HUNG /\ DecGoto("stop") /\ UNCHANGED frameInBuffer
     \/ /\ Head(dec_cmds) = "end"
        /\ decStatus' = STOP
        /\ DecGoto("drain")
        /\ UNCHANGED frameInBuffer
  /\ UNCHANGED <<endof_flag, inputQ, displayQ, dec_thread, dec_program>>

(* No interrupt: once round the loop; the eleventh time the core is hung.    *)
DecNoResult ==
  /\ dec_pc = "wait" /\ ~dec_ready
  /\ \/ DecGoto("top") /\ UNCHANGED decStatus
     \/ decStatus' = HUNG /\ dec_pc' \in {"top", "stop"}
  /\ UNCHANGED <<endof_flag, dec_queues, dec_thread, dec_core, dec_program>>

(* DisplayQueue_En                                                           *)
DecShow ==
  /\ dec_pc = "show"
  /\ displayQ' = displayQ + 1
  /\ DecGoto("top")
  /\ UNCHANGED <<dec_flags, inputQ, frameInBuffer, dec_thread, dec_core,
                 dec_program>>

DecDrain ==
  /\ dec_pc = "drain"
  /\ displayQ = 0 \/ endof_flag >= START_STOP
  /\ DecGoto("top")
  /\ UNCHANGED <<dec_flags, dec_queues, dec_thread, dec_core, dec_program>>

-----------------------------------------------------------------------------
(* The thread: its end.                                                      *)

DecStop ==
  /\ dec_pc = "stop"
  /\ decStatus' = IF decStatus = HUNG THEN HUNG ELSE STOP
  /\ DecGoto("stopped")
  /\ UNCHANGED <<endof_flag, dec_queues, dec_thread, dec_core, dec_program>>

DecClose ==
  /\ \/ /\ dec_pc = "stopped" /\ endof_flag = START_CLOSE
        /\ decStatus' = CLOSE
        /\ DecGoto("close")
     \/ /\ dec_pc = "close"
        /\ decStatus' = CLOSED
        /\ DecGoto("exit")
  /\ UNCHANGED <<endof_flag, dec_queues, dec_thread, dec_core, dec_program>>

DecThread ==
  \/ DecTop \/ DecPurge \/ DecInput \/ DecOutput \/ DecInitSeq \/ DecStart
  \/ DecResult \/ DecNoResult \/ DecShow \/ DecDrain \/ DecStop \/ DecClose

(* The codec core.                                                           *)
DecCoreDone ==
  /\ dec_cmds # <<>> /\ ~dec_ready
  /\ dec_ready' = TRUE
  /\ UNCHANGED <<dec_flags, dec_queues, dec_thread, dec_pc, dec_cmds, dec_program>>

-----------------------------------------------------------------------------
(* The program: feeding.                                                     *)

(* BMVidDecDecode checks the flags and sets endof_flag without a lock ...    *)
DecDecode ==
  /\ dec_call = "none"
  /\ decStatus # HUNG /\ decStatus >= UNINIT /\ endof_flag < START_CLOSE
  /\ Len(inputQ) < DecQueueLen
  /\ endof_flag >= START_GET_ALLFRAME => decStatus = STOP
  /\ decStatus = STOP => endof_flag \in START_REWIND .. START_FLUSH
  /\ endof_flag' =
       IF endof_flag \in {START_GET_ALLFRAME, START_FLUSH} THEN START_REWIND
       ELSE IF endof_flag = START_REWIND /\ decStatus # DECODING
            THEN endof_flag ELSE START_DECODING
  /\ dec_rewound' = (dec_rewound \/ endof_flag' = START_REWIND)
  /\ dec_call' = "enqueue"
  /\ UNCHANGED <<decStatus, dec_queues, dec_thread, dec_pc, dec_core, dec_held>>
(* ... and then enqueues the packet.                                         *)
DecEnqueue ==
  /\ dec_call = "enqueue" /\ ~dec_locked
  /\ DecEnqueued("pkt") /\ DecSignalInput
  /\ dec_call' = "none"
  /\ UNCHANGED <<dec_flags, displayQ, frameInBuffer, dec_thread, dec_core,
                 dec_held, dec_rewound>>

(* The other calls of the feeding thread begin, to get inputCond.            *)
DecCall ==
  /\ dec_call = "none" /\ endof_flag < START_CLOSE
  /\ \/ dec_call' = "all"
     \/ dec_call' = "flush" /\ endof_flag < START_GET_ALLFRAME
     \/ dec_call' = IF endof_flag < START_GET_ALLFRAME
                    THEN "delete_flush" ELSE "delete"
  /\ UNCHANGED <<dec_flags, dec_queues, dec_thread, dec_pc, dec_core, dec_held,
                 dec_rewound>>

(* BMVidGetAllFramesInBuffer and BMVidDecFlush. Mutant: the flush does not   *)
(* signal.                                                                   *)
DecEndOfStreamSilent ==
  /\ dec_call \in {"all", "flush", "delete_flush"} /\ ~dec_locked
  /\ DecEnqueued("end") /\ UNCHANGED dec_pc
  /\ endof_flag' = IF dec_call = "all" THEN START_GET_ALLFRAME ELSE START_FLUSH
  /\ dec_call' = IF dec_call = "delete_flush" THEN "delete" ELSE "none"
  /\ UNCHANGED <<decStatus, displayQ, frameInBuffer, dec_thread, dec_core,
                 dec_held, dec_rewound>>
DecEndOfStream ==
  /\ dec_call \in {"all", "flush", "delete_flush"} /\ ~dec_locked
  /\ DecEnqueued("end") /\ DecSignalInput
  /\ endof_flag' = IF dec_call = "all" THEN START_GET_ALLFRAME ELSE START_FLUSH
  /\ dec_call' = IF dec_call = "delete_flush" THEN "delete" ELSE "none"
  /\ UNCHANGED <<decStatus, displayQ, frameInBuffer, dec_thread, dec_core,
                 dec_held, dec_rewound>>

(* BMVidDecDelete, after its flush, and its wait for the end of the thread.  *)
DecDelete ==
  /\ dec_call = "delete"
  /\ endof_flag' = START_CLOSE /\ DecSignalOutput
  /\ dec_call' = "poll"
  /\ UNCHANGED <<decStatus, dec_queues, dec_thread, dec_core, dec_held, dec_rewound>>
DecDeleted ==
  /\ dec_call = "poll" /\ decStatus = CLOSED
  /\ dec_call' = "done"
  /\ UNCHANGED <<dec_flags, dec_queues, dec_thread, dec_pc, dec_core, dec_held,
                 dec_rewound>>
(* After 500000 turns it takes both locks and cancels the thread.            *)
DecGiveUp ==
  /\ dec_call = "poll" /\ decStatus # CLOSED /\ ~dec_locked
  /\ dec_call' = "done"
  /\ DecGoto("exit")
  /\ UNCHANGED <<dec_flags, dec_queues, dec_thread, dec_core, dec_held, dec_rewound>>

DecReturn == DecEnqueue \/ DecEndOfStream \/ DecDelete \/ DecDeleted

-----------------------------------------------------------------------------
(* The program: BMVidDecGetOutput and BMVidDecClearOutput.                   *)

DecGetOutput ==
  /\ decStatus > UNINIT /\ endof_flag < START_CLOSE /\ displayQ > 0
  /\ displayQ' = displayQ - 1 /\ dec_held' = dec_held + 1
  /\ UNCHANGED <<dec_flags, inputQ, frameInBuffer, dec_thread, dec_pc, dec_core,
                 dec_call, dec_rewound>>

(* Mutant: the frame is only counted while the thread waits for it.          *)
DecClearOutputLate ==
  /\ decStatus > UNINIT /\ endof_flag < START_CLOSE /\ dec_held > 0
  /\ dec_held' = dec_held - 1
  /\ frameInBuffer' = IF dec_pc = "out_wait" THEN frameInBuffer - 1
                      ELSE frameInBuffer
  /\ DecSignalOutput
  /\ UNCHANGED <<dec_flags, inputQ, displayQ, dec_thread, dec_core, dec_call,
                 dec_rewound>>
DecClearOutput ==
  /\ decStatus > UNINIT /\ endof_flag < START_CLOSE /\ dec_held > 0
  /\ dec_held' = dec_held - 1
  /\ frameInBuffer' = frameInBuffer - 1
  /\ DecSignalOutput
  /\ UNCHANGED <<dec_flags, inputQ, displayQ, dec_thread, dec_core, dec_call,
                 dec_rewound>>

DecNext ==
  \/ DecThread \/ DecSpurious \/ DecCoreDone
  \/ DecDecode \/ DecCall \/ DecReturn \/ DecGiveUp
  \/ DecGetOutput \/ DecClearOutput

DecSpec == DecInit /\ [][DecNext]_dec_vars

(* Both threads run, and the core finishes what it was given. Nothing makes  *)
(* the program feed, drain or close.                                         *)
DecFairness ==
  WF_dec_vars(DecThread) /\ WF_dec_vars(DecReturn) /\ WF_dec_vars(DecCoreDone)

-----------------------------------------------------------------------------
DecTypeOK ==
  /\ endof_flag \in START_CREATE .. START_CLOSE
  /\ decStatus \in UNINIT .. CLOSED
  /\ inputQ \in Seq({"pkt", "end"})
  /\ displayQ \in Nat /\ frameInBuffer \in Nat /\ dec_held \in Nat
  /\ {seqInitFlag, dec_locked, bufReuse, dec_ready, dec_rewound} \subseteq BOOLEAN
  /\ dec_pc \in {"top", "purge", "input", "in_wait", "output", "out_wait", "init",
                 "start", "wait", "show", "drain", "stop", "stopped", "close",
                 "exit"}
  /\ dec_pkt \in {"pkt", "end"}
  /\ dec_cmds \in Seq({"pkt", "end"})
  /\ dec_call \in {"none", "enqueue", "all", "flush", "delete_flush", "delete",
                   "poll", "done"}

(* While the decoder is open, frameInBuffer, which the two threads change    *)
(* under outputCond and the queue it stands for outside, counts the frames   *)
(* queued for the program or held by it, and the one about to be queued; if  *)
(* it drifted up, the thread would in the end wait for frames that nobody    *)
(* can give back.                                                            *)
DecFramesExact ==
  endof_flag < START_CLOSE =>
    frameInBuffer = displayQ + dec_held + IF dec_pc = "show" THEN 1 ELSE 0

(* A program that has asked for all frames and sees BMDEC_STOP has had every *)
(* packet decoded, as long as it never fed a packet after an end of stream.  *)
DecEndAfterAll ==
  decStatus = STOP /\ endof_flag = START_GET_ALLFRAME /\ ~dec_rewound
    => /\ ~Contains(inputQ \o dec_cmds, "pkt")
       /\ ~(bufReuse /\ dec_pkt = "pkt")

(* Every call of the feeding thread returns, BMVidDecDelete included, which  *)
(* needs the thread to leave each of its waits; but for a call that wants    *)
(* the lock of inputCond when the thread has kept it, after an end of stream *)
(* before a sequence header was found.                                       *)
DecCallsReturn ==
  (dec_call # "none") ~>
    \/ dec_call \in {"none", "done"}
    \/ /\ dec_call \in {"enqueue", "all", "flush", "delete_flush"}
       /\ dec_locked /\ ~seqInitFlag

=============================================================================
