----------------------------- MODULE MCMsgFifo -----------------------------
(* Small fifos for TLC. Messages of different lengths through two files:     *)
(* one without payload, one of an odd length, one that needs most of the     *)
(* fifo, and a quit message; headers and payloads come to wrap at each word. *)
(* On 11 words b and b fill the fifo, a and c are one word too long for it.  *)
EXTENDS MsgFifo, TLC

CONSTANTS a, b, c, q, f1, f2

MCApis == {a, b, c, q}
MCPayload == (a :> 0) @@ (b :> 1) @@ (c :> 3) @@ (q :> 1)
MCFileOf == (a :> f1) @@ (b :> f2) @@ (c :> f1) @@ (q :> f2)

(* For the fair run: b needs every word that is ever free, c one word more,  *)
(* so that its sender can only time out.                                     *)
LiveApis == {a, b, c}
LivePayload == (a :> 0) @@ (b :> FifoWords - 1 - HeaderWords) @@ (c :> FifoWords - HeaderWords)
LiveFileOf == (a :> f1) @@ (b :> f1) @@ (c :> f2)
=============================================================================
