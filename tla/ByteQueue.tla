----------------------------- MODULE ByteQueue -----------------------------
(***************************************************************************)
(* What struct buffer of src/httptest-geektime/lib/buffer.h promises: a    *)
(* queue of bytes, written at one end and read at the other.  A call that  *)
(* adds bytes may do it in several steps.                                  *)
(***************************************************************************)
EXTENDS Naturals, Sequences

CONSTANT Byte

VARIABLES
    queue,   \* the bytes to be read
    adding   \* the bytes that the call in progress is still to add

Init == queue = <<>> /\ adding = <<>>

Call ==
    /\ adding = <<>>
    /\ adding' \in Seq(Byte)
    /\ UNCHANGED queue

\* The next bytes of the call go to the end of the queue.
Put ==
    \E n \in 1 .. Len(adding) :
        /\ queue' = queue \o SubSeq(adding, 1, n)
        /\ adding' = SubSeq(adding, n + 1, Len(adding))

\* Bytes are taken from the front, between two calls that add some.
Take ==
    /\ adding = <<>>
    /\ \E n \in 1 .. Len(queue) : queue' = SubSeq(queue, n + 1, Len(queue))
    /\ UNCHANGED adding

Next == Call \/ Put \/ Take

Spec == Init /\ [][Next]_<<queue, adding>>
=============================================================================
