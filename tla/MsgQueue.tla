------------------------------ MODULE MsgQueue ------------------------------
(* What a message fifo promises: messages are executed one at a time in the  *)
(* order in which they were sent, each exactly once, and are given back in   *)
(* that order after they were executed. No words, no pointers, no wrapping.  *)
EXTENDS Naturals, Sequences

CONSTANTS Apis, NoApi

VARIABLES
  queue,    \* messages sent and not given back, oldest first
  done,     \* how many of them, from the head, were executed
  running   \* the message being executed, NoApi if none is

qvars == <<queue, done, running>>

QInit == queue = <<>> /\ done = 0 /\ running = NoApi

Put(m) ==
  /\ queue' = Append(queue, m)
  /\ UNCHANGED <<done, running>>

Start ==
  /\ running = NoApi /\ done < Len(queue)
  /\ running' = queue[done + 1]
  /\ UNCHANGED <<queue, done>>

Finish ==
  /\ running # NoApi
  /\ done' = done + 1 /\ running' = NoApi
  /\ UNCHANGED queue

GiveBack ==
  /\ done > 0
  /\ queue' = Tail(queue) /\ done' = done - 1
  /\ UNCHANGED running

QNext == (\E m \in Apis : Put(m)) \/ Start \/ Finish \/ GiveBack

QSafe == QInit /\ [][QNext]_qvars

(* Whoever sends, the queue is worked off.                                   *)
QSpec == QSafe /\ WF_qvars(Start) /\ WF_qvars(Finish) /\ WF_qvars(GiveBack)
=============================================================================
