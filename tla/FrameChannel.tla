---------------------------- MODULE FrameChannel ----------------------------
(***************************************************************************)
(* What the handlers of frames expect of the serial line below them: every *)
(* frame that was sent arrives, once and in order.  From the first byte    *)
(* that is disturbed on, nothing is promised here.                         *)
(***************************************************************************)
EXTENDS Naturals, Sequences

CONSTANT Frames

VARIABLES queue, got, noisy

channel == <<queue, got, noisy>>

Init == queue = << >> /\ got = << >> /\ noisy = FALSE

Send(f) == queue' = Append(queue, f) /\ got' = << >>

\* One reading may bring several frames.
Deliver ==
    \E k \in 0..Len(queue) :
       /\ got' = SubSeq(queue, 1, k)
       /\ queue' = SubSeq(queue, k + 1, Len(queue))

Next ==
    \/ ~noisy /\ ~noisy' /\ (Deliver \/ \E f \in Frames : Send(f))
    \/ noisy'

Spec == Init /\ [][Next]_channel
=============================================================================
