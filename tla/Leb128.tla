------------------------------- MODULE Leb128 -------------------------------
(***************************************************************************)
(* The LEB128 coders of src/c-hacks/src/leb128.c: a caller encodes a       *)
(* number into a buffer and decodes it again, a byte for every step.  The  *)
(* functions for long and for long long have the same text and differ in   *)
(* the width of their integers.                                            *)
(***************************************************************************)
EXTENDS Integers, Sequences

CONSTANTS
    Widths,       \* bits of the integers
    Follow        \* what may follow the encoding in the buffer

ASSUME Leb128Assumption ==
    /\ Widths \subseteq Nat \ {0}
    /\ Follow \subseteq Seq(0 .. 255)

VARIABLES
    pc,           \* the function that runs, "idle" between two calls
    w,            \* the width of the number
    number,       \* what the caller encodes
    value,        \* the local variable of the functions
    shift,        \* the local variable of the decoders
    buf,          \* the bytes
    p             \* the bytes written or read

vars == <<pc, w, number, value, shift, buf, p>>

Unsigned(n) == 0 .. 2 ^ n - 1
Signed(n) == -(2 ^ (n - 1)) .. 2 ^ (n - 1) - 1

\* Two's complement in n bits
ToSigned(x, n) == ((x + 2 ^ (n - 1)) % 2 ^ n) - 2 ^ (n - 1)

TypeOK ==
    /\ pc \in {"idle", "encode_u", "encode_s", "decode_u", "decode_s", "returned"}
    /\ w \in Widths
    /\ number \in -(2 ^ (w - 1)) .. 2 ^ w - 1
    /\ value \in -(2 ^ (w - 1)) .. 2 ^ w - 1
    /\ shift \in Nat
    /\ buf \in Seq(0 .. 255)
    /\ p \in Nat

Init ==
    /\ pc = "idle"
    /\ w \in Widths
    /\ number = 0 /\ value = 0 /\ shift = 0 /\ buf = <<>> /\ p = 0

-----------------------------------------------------------------------------

\* The caller encodes one of the numbers with the encoder.
Call(encoder, numbers) ==
    /\ pc = "idle"
    /\ pc' = encoder
    /\ number' \in numbers
    /\ value' = number'
    /\ UNCHANGED <<w, shift, buf, p>>

\* The last byte is written; the buffer is decoded with what follows in it.
Encoded(byte, decoder) ==
    /\ pc' = decoder
    /\ \E f \in Follow : buf' = Append(buf, byte) \o f
    /\ value' = 0 /\ p' = 0

More(byte, rest) ==
    /\ buf' = Append(buf, byte + 128)
    /\ value' = rest
    /\ p' = p + 1
    /\ UNCHANGED pc

\* The body of the loop of leb128_encode_ul() and leb128_encode_ull()
leb128_encode_u ==
    /\ pc = "encode_u"
    /\ LET byte == value % 128
           rest == value \div 128
       IN  IF rest = 0 THEN Encoded(byte, "decode_u") ELSE More(byte, rest)
    /\ UNCHANGED <<w, number, shift>>

\* Mutant: another byte follows until one is only sign bits.
LastLate(byte, rest) == \/ rest = 0 /\ byte = 0
                        \/ rest = -1 /\ byte = 127

\* Nothing but copies of the byte's sign bit is left.
LastByte(byte, rest) == \/ rest = 0 /\ byte < 64
                        \/ rest = -1 /\ byte >= 64

\* The body of the loop of leb128_encode_l() and leb128_encode_ll(); >> of a
\* negative value rounds down.
leb128_encode_s ==
    /\ pc = "encode_s"
    /\ LET byte == value % 128
           rest == value \div 128
       IN  IF LastByte(byte, rest) THEN Encoded(byte, "decode_s") ELSE More(byte, rest)
    /\ UNCHANGED <<w, number, shift>>

\* (byte & 0x7f) << shift, or-ed to bits that are zero
Added(byte) == value + (byte % 128) * 2 ^ shift

\* The body of the loop of leb128_decode_ul() and leb128_decode_ull()
leb128_decode_u ==
    /\ pc = "decode_u"
    /\ LET byte == buf[p + 1]
       IN  /\ value' = Added(byte) % 2 ^ w
           /\ IF byte < 128 THEN pc' = "returned" /\ UNCHANGED shift
                            ELSE shift' = shift + 7 /\ UNCHANGED pc
    /\ p' = p + 1
    /\ UNCHANGED <<w, number, buf>>

\* Mutant: the last whole group of the integer is not sign extended.
ExtendsEarly(byte, s) == s + 7 < w /\ byte % 128 >= 64

\* The last group is sign extended unless the groups fill the integer.
SignExtends(byte, s) == s < w /\ byte % 128 >= 64

\* The body of the loop of leb128_decode_l() and leb128_decode_ll(), and in
\* its last round the sign extension
leb128_decode_s ==
    /\ pc = "decode_s"
    /\ shift' = shift + 7
    /\ LET byte == buf[p + 1]
       IN  IF byte < 128
           THEN /\ pc' = "returned"
                /\ value' = ToSigned(IF SignExtends(byte, shift') THEN Added(byte) - 2 ^ shift'
                                     ELSE Added(byte), w)
           ELSE /\ value' = ToSigned(Added(byte), w)
                /\ UNCHANGED pc
    /\ p' = p + 1
    /\ UNCHANGED <<w, number, buf>>

\* The caller has the number back, and another one.
Return ==
    /\ pc = "returned"
    /\ pc' = "idle"
    /\ number' = 0 /\ value' = 0 /\ shift' = 0 /\ buf' = <<>> /\ p' = 0
    /\ UNCHANGED w

-----------------------------------------------------------------------------

Next ==
    \/ Call("encode_u", Unsigned(w))
    \/ Call("encode_s", Signed(w))
    \/ leb128_encode_u \/ leb128_encode_s
    \/ leb128_decode_u \/ leb128_decode_s
    \/ Return

Spec == Init /\ [][Next]_vars

-----------------------------------------------------------------------------
(* Properties.                                                             *)

\* The decoder gives back the number, at both ends of its range too, and stops
\* after the bytes the encoder wrote, whatever follows them.
RoundTrip ==
    /\ TypeOK
    /\ pc = "returned" =>
          /\ value = number
          /\ \E f \in Follow : buf = SubSeq(buf, 1, p) \o f

\* The range of the numbers that n groups of seven bits hold.
Holds(n) ==
    IF pc = "decode_u" THEN 0 .. 128 ^ n - 1 ELSE -(64 * 128 ^ (n - 1)) .. 64 * 128 ^ (n - 1) - 1

\* The encoding is the shortest one: a number has as many bytes as groups that
\* hold it, so never more than the width needs, and its bytes are the groups.
Shortest ==
    pc \in {"decode_u", "decode_s"} /\ p = 0 =>
        \E n \in 1 .. Len(buf) :
            /\ \A i \in 1 .. n : buf[i] % 128 = (number \div 128 ^ (i - 1)) % 128
            /\ \A i \in 1 .. n - 1 : buf[i] >= 128
            /\ buf[n] < 128
            /\ number \in Holds(n)
            /\ n > 1 => number \notin Holds(n - 1)
            /\ 7 * (n - 1) < w
=============================================================================
