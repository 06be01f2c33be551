------------------------------ MODULE BitStream ------------------------------
(***************************************************************************)
(* src/bitstream.c: a growing buffer of bits, one per byte.  The buffer    *)
(* doubles until an append fits; any of the reallocations may fail, after  *)
(* some that succeeded.                                                    *)
(***************************************************************************)
EXTENDS Integers, Sequences

CONSTANTS DEFAULT_BUFSIZE,
          Nums,        \* <<bits, num>> passed to BitStream_appendNum
          ByteStrings, \* data passed to BitStream_appendBytes
          Args,        \* contents of the streams passed to BitStream_append
          MaxLength,   \* bound: bits in the stream
          MaxSize      \* bound: the largest buffer realloc gives

ASSUME BufferAssumption ==
  /\ DEFAULT_BUFSIZE \in Nat \ {0} /\ MaxLength \in Nat /\ MaxSize \in Nat
  /\ Nums \subseteq Nat \X Nat /\ ByteStrings \subseteq Seq(0..255) /\ Args \subseteq Seq({0, 1})

VARIABLES length, datasize,
          data,     \* the buffer; what malloc and realloc leave in it is Indeterminate
          pending,  \* the append that runs, [room, chunk] with the bits it asks
                    \* room for and those it writes, or Idle
          bytes     \* what BitStream_toByte has just returned, <<>> for NULL

vars == <<length, datasize, data, pending, bytes>>

Idle == [room |-> 0, chunk |-> <<>>]
Indeterminate == 2
Contents == [i \in 1..length |-> data[i - 1]]

BitStream_new == [i \in 0..DEFAULT_BUFSIZE - 1 |-> Indeterminate]

Init == /\ length = 0 /\ datasize = DEFAULT_BUFSIZE
        /\ data = BitStream_new
        /\ pending = Idle /\ bytes = <<>>
-----------------------------------------------------------------------------
(* BitStream_writeNum and BitStream_writeBytes: most significant bit first; *)
(* bits of num above the asked ones are dropped.                            *)
NumBits(bits, num) == [i \in 1..bits |-> (num \div 2 ^ (bits - i)) % 2]
ByteBits(s) == [i \in 1..8 * Len(s) |-> NumBits(8, s[((i - 1) \div 8) + 1])[((i - 1) % 8) + 1]]

\* Writing past the buffer shows as a data whose domain is not 0..datasize-1.
Write(buffer, at, chunk) ==
  [i \in DOMAIN buffer \cup at..at + Len(chunk) - 1 |->
     IF i >= at /\ i < at + Len(chunk) THEN chunk[i - at + 1] ELSE buffer[i]]

(* The three appends: nothing to append is a success, NULL for a stream a   *)
(* failure (both change nothing).                                           *)
Begin(room, chunk) ==
  /\ pending = Idle /\ room > 0
  /\ pending' = [room |-> room, chunk |-> chunk]
  /\ bytes' = <<>>
  /\ UNCHANGED <<length, datasize, data>>

BitStream_appendNum(bits, num) == Begin(bits, NumBits(bits, num))

AppendBytesAsked(s) == Begin(Len(s), ByteBits(s))  \* faulty variant: room for a bit a byte
BitStream_appendBytes(s) == Begin(8 * Len(s), ByteBits(s))

BitStream_append(arg) == Begin(Len(arg), arg)

(* The loop they share.  While the buffer lacks room it is doubled; a       *)
(* failing realloc ends the append, the buffer grown so far.  Faulty        *)
(* variant: malloc in place of realloc.                                     *)
LacksRoom == datasize - length < pending.room

GrownFresh(buffer, size) == [i \in 0..size - 1 |-> Indeterminate]
Grown(buffer, size) ==
  [i \in 0..size - 1 |-> IF i \in DOMAIN buffer THEN buffer[i] ELSE Indeterminate]

BitStream_expand ==
  /\ pending # Idle /\ LacksRoom /\ datasize * 2 <= MaxSize
  /\ data' = Grown(data, datasize * 2)
  /\ datasize' = datasize * 2
  /\ UNCHANGED <<length, pending, bytes>>

ExpandFails ==
  /\ pending # Idle /\ LacksRoom
  /\ pending' = Idle
  /\ UNCHANGED <<length, datasize, data, bytes>>

WriteChunk ==
  /\ pending # Idle /\ ~LacksRoom
  /\ data' = Write(data, length, pending.chunk)
  /\ length' = length + Len(pending.chunk)
  /\ pending' = Idle
  /\ UNCHANGED <<datasize, bytes>>

(* BitStream_reset sets the length only.                                    *)
BitStream_reset ==
  /\ pending = Idle
  /\ length' = 0
  /\ bytes' = <<>>
  /\ UNCHANGED <<datasize, data, pending>>

(* The array BitStream_toByte allocates: eight bits a byte, the last byte   *)
(* filled from its most significant bit.  Faulty variant: the last byte is  *)
(* filled from its least significant bit.                                   *)
Value(bit, n) == LET f[i \in 0..n] == IF i = 0 THEN 0 ELSE 2 * f[i - 1] + bit[i] IN f[n]
PackedLowBits(s) ==
  [b \in 1..(Len(s) + 7) \div 8 |->
     LET first == 8 * (b - 1)
         n     == IF Len(s) - first < 8 THEN Len(s) - first ELSE 8
     IN  Value([i \in 1..n |-> s[first + i]], n)]
Packed(s) ==
  [b \in 1..(Len(s) + 7) \div 8 |->
     LET first == 8 * (b - 1)
         n     == IF Len(s) - first < 8 THEN Len(s) - first ELSE 8
     IN  Value([i \in 1..n |-> s[first + i]], n) * 2 ^ (8 - n)]

BitStream_toByte ==
  /\ pending = Idle /\ length > 0
  /\ bytes' \in {Packed(Contents), <<>>}  \* <<>>: malloc fails
  /\ UNCHANGED <<length, datasize, data, pending>>

Next == \/ \E n \in Nums : length + n[1] <= MaxLength /\ BitStream_appendNum(n[1], n[2])
        \/ \E s \in ByteStrings : length + 8 * Len(s) <= MaxLength /\ BitStream_appendBytes(s)
        \/ \E arg \in Args : length + Len(arg) <= MaxLength /\ BitStream_append(arg)
        \/ BitStream_expand \/ ExpandFails \/ WriteChunk
        \/ BitStream_reset
        \/ BitStream_toByte

Spec == Init /\ [][Next]_vars
-----------------------------------------------------------------------------
Chunks == {NumBits(n[1], n[2]) : n \in Nums} \cup {ByteBits(s) : s \in ByteStrings} \cup Args

(* Type invariant.  It says that the buffer is never written past its end   *)
(* and that the stream lies in it.                                          *)
TypeOK == /\ datasize \in Nat \ {0}
          /\ length \in 0..datasize
          /\ data \in [0..datasize - 1 -> {0, 1, Indeterminate}]
          /\ pending \in [room : Nat, chunk : Chunks \cup {<<>>}]

(* The stream is the log of what was appended, in order: growth and failed  *)
(* growth keep it, stale bits before a reset and fresh memory never show.   *)
Log == INSTANCE BitLog WITH log <- Contents
ImplementsLog == Log!Spec

(* The byte array holds every bit of the stream, in order, then zeros to    *)
(* the end of its last byte.                                                *)
BytesHoldStream ==
  bytes # <<>> =>
    LET unpacked == ByteBits(bytes)
    IN  /\ bytes \in Seq(0..255) /\ Len(bytes) = (length + 7) \div 8
        /\ \A i \in 1..Len(unpacked) : unpacked[i] = IF i <= length THEN Contents[i] ELSE 0
=============================================================================
