------------------------------ MODULE Framing -------------------------------
(***************************************************************************)
(* What the packet sink promises to the thread that reads its queue: after *)
(* a synchronisation it takes one length, then collects bytes, and queues  *)
(* exactly the bytes of that frame, as many as the length says (one byte   *)
(* at least).  It may give a frame up at any moment, and then nothing of   *)
(* that frame is ever queued.                                              *)
(***************************************************************************)
EXTENDS Integers, Sequences

CONSTANTS MaxLen, Bytes

VARIABLES
    phase,  \* what is being read: "hunt", "length" or "body"
    len,    \* the announced length, while in the body
    got,    \* the bytes of the frame so far
    queue   \* frames delivered and not yet taken

vars == <<phase, len, got, queue>>

Init == phase = "hunt" /\ len = 0 /\ got = <<>> /\ queue = <<>>

Synchronise ==
    /\ phase = "hunt" /\ phase' = "length"
    /\ UNCHANGED <<len, got, queue>>

TakeLength(n) ==
    /\ phase = "length" /\ phase' = "body"
    /\ len' = n
    /\ UNCHANGED <<got, queue>>

TakeByte(b) ==
    /\ phase = "body" /\ Len(got) + 1 < len
    /\ got' = Append(got, b)
    /\ UNCHANGED <<phase, len, queue>>

Deliver(b) ==
    /\ phase = "body" /\ Len(got) + 1 >= len
    /\ queue' = Append(queue, Append(got, b))
    /\ phase' = "hunt" /\ len' = 0 /\ got' = <<>>

GiveUp ==
    /\ phase # "hunt"
    /\ phase' = "hunt" /\ len' = 0 /\ got' = <<>>
    /\ UNCHANGED queue

Take ==
    /\ queue # <<>> /\ queue' = Tail(queue)
    /\ UNCHANGED <<phase, len, got>>

Next ==
    \/ Synchronise
    \/ \E n \in 0 .. MaxLen : TakeLength(n)
    \/ \E b \in Bytes : TakeByte(b) \/ Deliver(b)
    \/ GiveUp
    \/ Take

Spec == Init /\ [][Next]_vars
=============================================================================
