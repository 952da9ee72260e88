----------------------------- MODULE MsgChannel -----------------------------
(* What the rest of the driver relies on when it uses a message fifo: a      *)
(* channel with room for so many messages, executed and given back in the    *)
(* order in which they were sent. MsgFifo provides it word by word, BmApi is *)
(* written on top of it.                                                     *)
EXTENDS Naturals, Sequences

CONSTANTS
  Msgs,
  Room      \* how many of them fit

VARIABLES
  queue,    \* messages sent and not given back, oldest first
  done      \* how many of them, from the head, were executed

Init == queue = <<>> /\ done = 0

Send(m) ==
  /\ Len(queue) < Room
  /\ queue' = Append(queue, m)
  /\ UNCHANGED done

Execute ==
  /\ done < Len(queue)
  /\ done' = done + 1
  /\ UNCHANGED queue

GiveBack ==
  /\ done > 0
  /\ queue' = Tail(queue) /\ done' = done - 1

Next == (\E m \in Msgs : Send(m)) \/ Execute \/ GiveBack

Spec == Init /\ [][Next]_<<queue, done>>
=============================================================================
