---------------------------- MODULE BufferProofs ----------------------------
(***************************************************************************)
(* Proofs about struct buffer, for every block size, bound and set of      *)
(* chunks.                                                                 *)
(***************************************************************************)
EXTENDS Buffer, TLAPS

\* Where the call in progress is: there is nothing to add between two calls;
\* the loop of make_room() stays within the unread bytes, and the bytes that
\* it frees are enough for what is to be added.
CallInv ==
    /\ pc = "idle" => src = <<>>
    /\ pc = "move" => i <= readable_size
    /\ pc = "move" => readIndex + writeable_size >= Len(src)

\* make_room() returns with the room it was asked for, or realloc() has failed.
RoomInv ==
    /\ NoOverrun
    /\ pc = "copy" => Len(src) <= writeable_size \/ nomem

IInv == TypeOK /\ InBounds /\ CallInv /\ RoomInv

-----------------------------------------------------------------------------
\* Storing a sequence of bytes keeps the block a block.
LEMMA StoredType ==
    ASSUME TypeOK, NEW s \in Seq(Byte), NEW a \in Nat
    PROVE  Stored(s, a) \in [0 .. total_size - 1 -> Byte \cup {Junk}]
  BY DEF TypeOK, Stored

\* buffer_new() leaves the buffer in a state that satisfies the invariant.
LEMMA InitInv == Init => IInv
<1> SUFFICES ASSUME Init PROVE IInv
  OBVIOUS
<1> USE BufferAssumption DEF Init, readable_size, writeable_size
<1>1. TypeOK
  <2>1. nomem \in BOOLEAN /\ overrun \in BOOLEAN
    OBVIOUS
  <2>2. mem \in [0 .. total_size - 1 -> Byte \cup {Junk}]
    OBVIOUS
  <2> QED
    BY <2>1, <2>2 DEF TypeOK
<1>2. InBounds /\ CallInv
  BY DEF InBounds, CallInv
<1>3. RoomInv
  BY Zenon DEF RoomInv, NoOverrun
<1> QED
  BY <1>1, <1>2, <1>3 DEF IInv

\* Every step of every operation keeps the indexes inside the block, the loop
\* within the unread bytes and, unless realloc() fails, the room made.
LEMMA NextInv == IInv /\ [Next]_vars => IInv'
<1> SUFFICES ASSUME IInv, [Next]_vars PROVE IInv'
  OBVIOUS
<1> USE BufferAssumption DEF IInv, InBounds, CallInv, RoomInv, NoOverrun, past,
                             readable_size, writeable_size, At
<1>1. ASSUME NEW s \in Chunk, AppendCall(s) PROVE IInv'
  BY <1>1 DEF AppendCall, Accepts, TypeOK
<1>2. ASSUME NEW s \in Chunk, ReadCall(s) PROVE IInv'
  BY <1>2 DEF ReadCall, Accepts, TypeOK
<1>3. CASE RoomEnough
  BY <1>3 DEF RoomEnough, TypeOK
<1>4. CASE MoveStart
  BY <1>4 DEF MoveStart, TypeOK, front_spare_size
<1>5. CASE MoveByte
  BY <1>5 DEF MoveByte, TypeOK
<1>6. CASE MoveEnd
  BY <1>6 DEF MoveEnd, TypeOK
<1>7. CASE Realloc
  BY <1>7 DEF Realloc, NeedsRealloc, TypeOK
<1>8. CASE ReallocNull
  BY <1>8 DEF ReallocNull, NeedsRealloc, TypeOK
<1>9. CASE Copy
  BY <1>9, StoredType DEF Copy, TypeOK
<1>10. CASE CopyPast
  BY <1>10 DEF CopyPast, TypeOK
<1>11. CASE ReadFits
  BY <1>11, StoredType DEF ReadFits, TypeOK
<1>12. CASE ReadSpills
  <2>1. /\ SubSeq(src, 1, writeable_size) \in Seq(Byte)
        /\ SubSeq(src, writeable_size + 1, Len(src)) \in Seq(Byte)
    BY <1>12 DEF ReadSpills, TypeOK
  <2>2. mem' \in [0 .. total_size - 1 -> Byte \cup {Junk}]
    BY <1>12, <2>1, StoredType DEF ReadSpills, TypeOK
  <2> QED
    BY <1>12, <2>1, <2>2 DEF ReadSpills, TypeOK
<1>13. CASE Consume
  BY <1>13 DEF Consume, TypeOK
<1>14. CASE UNCHANGED vars
  BY <1>14 DEF vars, TypeOK
<1> QED
  BY <1>1, <1>2, <1>3, <1>4, <1>5, <1>6, <1>7, <1>8, <1>9, <1>10, <1>11, <1>12,
     <1>13, <1>14 DEF Next, MakeRoom

\* The invariant holds in every state of every behaviour of the buffer.
THEOREM Invariance == Spec => []IInv
  BY InitInv, NextInv, PTL DEF Spec

\* The fields of struct buffer keep their types, the block its recorded size.
THEOREM TypeSafety == Spec => []TypeOK
  BY Invariance, PTL DEF IInv

\* readIndex and writeIndex stay in order and inside the block.
THEOREM BoundsSafety == Spec => []InBounds
  BY Invariance, PTL DEF IInv

\* buffer_append() never writes past the block unless realloc() has failed.
THEOREM OverrunSafety == Spec => []NoOverrun
  BY Invariance, PTL DEF IInv, RoomInv

-----------------------------------------------------------------------------
(* The buffer implements ByteQueue.                                        *)

\* Adding no byte leaves the unread bytes alone.
LEMMA ContentsSeq ==
    ASSUME TypeOK, InBounds
    PROVE  Contents \o <<>> = Contents
  BY DEF TypeOK, InBounds, Contents, readable_size

\* What a copy of the bytes s to writeIndex does to the unread bytes.
LEMMA ContentsStored ==
    ASSUME TypeOK, InBounds, pc # "move", pc' # "move",
           NEW s \in Seq(Byte), Len(s) <= writeable_size,
           mem' = Stored(s, writeIndex),
           writeIndex' = writeIndex + Len(s),
           UNCHANGED readIndex
    PROVE  Contents' = Contents \o s
  BY DEF TypeOK, InBounds, Contents, Stored, readable_size, writeable_size

\* The steps that do not touch src, apart from Consume, leave the contents alone.
LEMMA MoveKeepsContents ==
    ASSUME IInv, MakeRoom
    PROVE  Contents' = Contents /\ UNCHANGED src
<1> USE DEF IInv, TypeOK, InBounds, CallInv, At, Contents, readable_size,
            writeable_size
<1>1. CASE RoomEnough
  BY <1>1 DEF RoomEnough
<1>2. CASE MoveStart
  BY <1>2 DEF MoveStart
<1>3. CASE MoveByte
  BY <1>3 DEF MoveByte
<1>4. CASE MoveEnd
  BY <1>4 DEF MoveEnd
<1>5. CASE Realloc
  BY <1>5 DEF Realloc, NeedsRealloc
<1>6. CASE ReallocNull
  BY <1>6 DEF ReallocNull, NeedsRealloc
<1> QED
  BY <1>1, <1>2, <1>3, <1>4, <1>5, <1>6 DEF MakeRoom

\* Each step of the buffer is a step of the queue or leaves it alone.
LEMMA NextQueue ==
    ASSUME IInv, [Next]_vars
    PROVE  [Queue!Next]_<<Contents, src>>
<1> USE DEF IInv
<1>1. ASSUME NEW s \in Chunk, AppendCall(s) \/ ReadCall(s) PROVE Queue!Call
  BY <1>1, BufferAssumption
  DEF AppendCall, ReadCall, Accepts, At, CallInv, TypeOK, Contents, readable_size,
      Queue!Call
<1>2. CASE MakeRoom
  BY <1>2, MoveKeepsContents
<1>3. CASE Copy \/ ReadFits
  <2>1. /\ Contents' = Contents \o src
        /\ src' = <<>>
    BY <1>3, ContentsStored
    DEF Copy, ReadFits, At, TypeOK
  <2>2. CASE src = <<>>
    BY <2>1, <2>2, ContentsSeq
  <2>3. CASE src # <<>>
    <3>1. Len(src) \in 1 .. Len(src)
      BY <2>3 DEF TypeOK
    <3>2. /\ SubSeq(src, 1, Len(src)) = src
          /\ SubSeq(src, Len(src) + 1, Len(src)) = <<>>
      BY DEF TypeOK
    <3> QED
      BY <2>1, <3>1, <3>2 DEF Queue!Next, Queue!Put
  <2> QED
    BY <2>2, <2>3
<1>4. CASE ReadSpills
  <2> DEFINE w == writeable_size
  <2>1. /\ w \in Nat /\ w < Len(src)
        /\ pc # "move" /\ pc' # "move" /\ ~overrun
        /\ mem' = Stored(SubSeq(src, 1, w), writeIndex)
        /\ writeIndex' = writeIndex + w
        /\ src' = SubSeq(src, w + 1, Len(src))
        /\ UNCHANGED readIndex
    BY <1>4 DEF ReadSpills, At, TypeOK, InBounds, writeable_size
  <2>2. /\ SubSeq(src, 1, w) \in Seq(Byte)
        /\ Len(SubSeq(src, 1, w)) <= w
        /\ writeIndex' = writeIndex + Len(SubSeq(src, 1, w))
    BY <2>1 DEF TypeOK
  <2>3. Contents' = Contents \o SubSeq(src, 1, w)
    BY <2>1, <2>2, ContentsStored
  <2>4. CASE w = 0
    <3>1. SubSeq(src, 1, w) = <<>> /\ SubSeq(src, w + 1, Len(src)) = src
      BY <2>4 DEF TypeOK
    <3> HIDE DEF w
    <3> QED
      BY <2>1, <2>3, <3>1, ContentsSeq
  <2>5. CASE w # 0
    <3>1. w \in 1 .. Len(src)
      BY <2>1, <2>5 DEF TypeOK
    <3> HIDE DEF w
    <3> QED
      BY <2>1, <2>3, <3>1 DEF Queue!Next, Queue!Put
  <2> QED
    BY <2>4, <2>5
<1>5. CASE Consume
  <2>1. PICK n \in 1 .. readable_size : readIndex' = readIndex + n
    BY <1>5 DEF Consume
  <2>2. /\ Len(Contents) = readable_size
        /\ Contents' = SubSeq(Contents, n + 1, Len(Contents))
    <3> DEFINE r == readable_size
    <3>1. /\ r \in Nat /\ n \in 1 .. r /\ readIndex \in Nat
          /\ Contents = [k \in 1 .. r |-> mem[readIndex + k - 1]]
          /\ Contents' = [k \in 1 .. r - n |-> mem[readIndex + n + k - 1]]
      BY <1>5, <2>1 DEF Consume, At, TypeOK, InBounds, Contents, readable_size
    <3> HIDE DEF r
    <3>2. Len(Contents) = r
      BY <3>1
    <3>3. SubSeq(Contents, n + 1, r) = [k \in 1 .. r - n |-> Contents[n + k]]
      BY <3>1
    <3>4. \A k \in 1 .. r - n : Contents[n + k] = mem[readIndex + n + k - 1]
      BY <3>1
    <3> QED
      BY <3>1, <3>2, <3>3, <3>4 DEF r
  <2>3. src = <<>> /\ UNCHANGED src
    BY <1>5 DEF Consume, At, CallInv
  <2> QED
    BY <2>1, <2>2, <2>3 DEF Queue!Next, Queue!Take
<1>6. CASE CopyPast
  BY <1>6 DEF CopyPast, Contents, readable_size
<1>7. CASE UNCHANGED vars
  BY <1>7 DEF vars, Contents, readable_size
<1> QED
  BY <1>1, <1>2, <1>3, <1>4, <1>5, <1>6, <1>7 DEF Next, Queue!Next

\* The buffer is a byte queue: what is added comes out once, unchanged and in
\* order, through every move, growth and spilled read, until a write past the
\* block.
THEOREM Refinement == Spec => ImplementsQueue
<1>1. Init => Queue!Init
  BY DEF Init, Queue!Init, Contents, readable_size
<1>2. IInv /\ [Next]_vars => [Queue!Next]_<<Contents, src>>
  BY NextQueue
<1> QED
  BY <1>1, <1>2, Invariance, PTL DEF Spec, ImplementsQueue, Queue!Spec
=============================================================================
