------------------------------- MODULE Buffer -------------------------------
(***************************************************************************)
(* struct buffer of src/httptest-geektime/lib/buffer.c: a block of memory  *)
(* with a read and a write index.  make_room() moves the unread bytes to   *)
(* the front, one by one, when that frees enough space, and otherwise      *)
(* enlarges the block.  The steps of the move are steps of the model.      *)
(***************************************************************************)
EXTENDS Integers, Sequences

CONSTANTS
    Byte,         \* what a byte can be
    Junk,         \* the content of memory nobody has written
    Chunk,        \* what is appended or received at once
    InitSize,     \* INIT_BUFFER_SIZE
    MaxUnread     \* bound: bytes in the buffer that nobody has read

ASSUME BufferAssumption ==
    /\ Junk \notin Byte
    /\ Chunk \subseteq Seq(Byte)
    /\ MaxUnread \in Nat
    /\ InitSize \in Nat \ {0}

VARIABLES
    mem,         \* the block at data, from offset 0 to total_size - 1
    total_size,
    readIndex,
    writeIndex,
    pc,          \* where the caller is in buffer_append(), buffer_socket_read()
    src,         \* the bytes the call in progress is still to add
    i,           \* the loop variable of make_room()
    nomem,       \* realloc() has returned NULL
    overrun      \* memory beyond the block has been written

past == <<nomem, overrun>>
vars == <<mem, total_size, readIndex, writeIndex, pc, src, i, past>>

TypeOK ==
    /\ total_size \in Nat \ {0}
    /\ mem \in [0 .. total_size - 1 -> Byte \cup {Junk}]
    /\ readIndex \in Nat
    /\ writeIndex \in Nat
    /\ pc \in {"idle", "make_room", "move", "copy", "readv"}
    /\ src \in Seq(Byte)
    /\ i \in Nat
    /\ nomem \in BOOLEAN
    /\ overrun \in BOOLEAN

\* buffer_new()
Init ==
    /\ total_size = InitSize
    /\ mem = [a \in 0 .. InitSize - 1 |-> Junk]
    /\ readIndex = 0
    /\ writeIndex = 0
    /\ pc = "idle"
    /\ src = <<>>
    /\ i = 0
    /\ nomem = FALSE
    /\ overrun = FALSE

writeable_size == total_size - writeIndex
readable_size == writeIndex - readIndex
front_spare_size == readIndex

At(p) == pc = p /\ ~overrun

\* The block after the bytes of s are stored from offset a on.
Stored(s, a) ==
    [b \in 0 .. total_size - 1 |->
        IF b \in a .. a + Len(s) - 1 THEN s[b - a + 1] ELSE mem[b]]

\* The caller has s to add.
Accepts(s) == At("idle") /\ readable_size + Len(s) <= MaxUnread

-----------------------------------------------------------------------------
(* buffer_append(), which buffer_append_char() and buffer_append_string()  *)
(* are instances of.                                                       *)

AppendCall(s) ==
    /\ Accepts(s)
    /\ src' = s
    /\ pc' = "make_room"
    /\ UNCHANGED <<mem, total_size, readIndex, writeIndex, i, past>>

\* Mutant: one byte too few counts as enough.
RoomAlmostEnough ==
    /\ At("make_room")
    /\ writeable_size + 1 >= Len(src)
    /\ pc' = "copy"
    /\ UNCHANGED <<mem, total_size, readIndex, writeIndex, src, i, past>>

RoomEnough ==
    /\ At("make_room")
    /\ writeable_size >= Len(src)
    /\ pc' = "copy"
    /\ UNCHANGED <<mem, total_size, readIndex, writeIndex, src, i, past>>

\* The space before the unread bytes and the space after them are together
\* large enough: move the bytes to the front.
MoveStart ==
    /\ At("make_room")
    /\ writeable_size < Len(src)
    /\ front_spare_size + writeable_size >= Len(src)
    /\ i' = 0
    /\ pc' = "move"
    /\ UNCHANGED <<mem, total_size, readIndex, writeIndex, src, past>>

\* Mutant: the bytes are moved from the last to the first.
MoveByteDown ==
    /\ At("move")
    /\ i < readable_size
    /\ mem' = [mem EXCEPT ![readable_size - 1 - i] = mem[writeIndex - 1 - i]]
    /\ i' = i + 1
    /\ UNCHANGED <<total_size, readIndex, writeIndex, pc, src, past>>

MoveByte ==
    /\ At("move")
    /\ i < readable_size
    /\ mem' = [mem EXCEPT ![i] = mem[readIndex + i]]
    /\ i' = i + 1
    /\ UNCHANGED <<total_size, readIndex, writeIndex, pc, src, past>>

MoveEnd ==
    /\ At("move")
    /\ i >= readable_size
    /\ readIndex' = 0
    /\ writeIndex' = readable_size
    /\ i' = 0
    /\ pc' = "copy"
    /\ UNCHANGED <<mem, total_size, src, past>>

NeedsRealloc ==
    /\ At("make_room")
    /\ writeable_size < Len(src)
    /\ front_spare_size + writeable_size < Len(src)

Realloc ==
    /\ NeedsRealloc
    /\ total_size' = total_size + Len(src)
    /\ mem' = [a \in 0 .. total_size' - 1 |->
                  IF a \in 0 .. total_size - 1 THEN mem[a] ELSE Junk]
    /\ pc' = "copy"
    /\ UNCHANGED <<readIndex, writeIndex, src, i, past>>

\* make_room() returns without having made room.
ReallocNull ==
    /\ NeedsRealloc
    /\ nomem' = TRUE
    /\ pc' = "copy"
    /\ UNCHANGED <<mem, total_size, readIndex, writeIndex, src, i, overrun>>

\* memcpy() to the write index, whatever make_room() did.
Copy ==
    /\ At("copy")
    /\ Len(src) <= writeable_size
    /\ mem' = Stored(src, writeIndex)
    /\ writeIndex' = writeIndex + Len(src)
    /\ src' = <<>>
    /\ pc' = "idle"
    /\ UNCHANGED <<total_size, readIndex, i, past>>

\* It writes past the block; what happens after that is not defined.
CopyPast ==
    /\ At("copy")
    /\ Len(src) > writeable_size
    /\ overrun' = TRUE
    /\ UNCHANGED <<mem, total_size, readIndex, writeIndex, pc, src, i, nomem>>

-----------------------------------------------------------------------------
(* buffer_socket_read(): readv() fills the space that can be written and    *)
(* then additional_buffer.                                                 *)

ReadCall(s) ==
    /\ Accepts(s)
    /\ Len(s) <= writeable_size + InitSize
    /\ src' = s
    /\ pc' = "readv"
    /\ UNCHANGED <<mem, total_size, readIndex, writeIndex, i, past>>

ReadFits ==
    /\ At("readv")
    /\ Len(src) <= writeable_size
    /\ mem' = Stored(src, writeIndex)
    /\ writeIndex' = writeIndex + Len(src)
    /\ src' = <<>>
    /\ pc' = "idle"
    /\ UNCHANGED <<total_size, readIndex, i, past>>

\* What went to additional_buffer is appended.
ReadSpills ==
    /\ At("readv")
    /\ Len(src) > writeable_size
    /\ mem' = Stored(SubSeq(src, 1, writeable_size), writeIndex)
    /\ writeIndex' = total_size
    /\ src' = SubSeq(src, writeable_size + 1, Len(src))
    /\ pc' = "make_room"
    /\ UNCHANGED <<total_size, readIndex, i, past>>

\* The readers advance readIndex over bytes they have used: the parser, the
\* writer to the socket, buffer_read_char().
Consume ==
    /\ At("idle")
    /\ \E n \in 1 .. readable_size : readIndex' = readIndex + n
    /\ UNCHANGED <<mem, total_size, writeIndex, pc, src, i, past>>

-----------------------------------------------------------------------------
MakeRoom == RoomEnough \/ MoveStart \/ MoveByte \/ MoveEnd \/ Realloc \/ ReallocNull

Next ==
    \/ \E s \in Chunk : AppendCall(s) \/ ReadCall(s)
    \/ MakeRoom
    \/ Copy \/ CopyPast
    \/ ReadFits
    \/ ReadSpills
    \/ Consume

Spec == Init /\ [][Next]_vars

-----------------------------------------------------------------------------
(* Properties.                                                             *)

\* The indexes stay in order and inside the block, through moves, growth and
\* reads that spill.
InBounds == readIndex <= writeIndex /\ writeIndex <= total_size

\* make_room() makes the room: buffer_append() writes past the block only after
\* a failed realloc(), which make_room() cannot tell it about.
NoOverrun == overrun => nomem

\* The bytes that are still to be read, in order.  During the move the first
\* i of them are at the front already and the others at their old place.
Contents ==
    [k \in 1 .. readable_size |->
        mem[IF pc = "move" /\ k <= i THEN k - 1 ELSE readIndex + k - 1]]

\* The buffer is a queue: what callers add comes out once, unchanged and in
\* order, however often make_room() moves or enlarges the block in between.
Queue == INSTANCE ByteQueue WITH queue <- Contents, adding <- src

ImplementsQueue == Queue!Spec

=============================================================================
