-------------------------------- MODULE Buffer --------------------------------
(***************************************************************************)
(* net/Buffer.cpp: the bytes that have been read from a socket, or wait to *)
(* be written to one, in a vector with two indices.                        *)
(*                                                                         *)
(*    0 ... readerIndex_ ... writerIndex_ ... size                         *)
(*    prependable | readable | writable                                    *)
(*                                                                         *)
(* A buffer is a record of the vector and the two indices; each member     *)
(* function is an operator that returns the record it leaves.  The state   *)
(* machine calls the public ones in any order their asserts allow.         *)
(***************************************************************************)
EXTENDS Integers, Sequences

CONSTANTS
    Base,           \* how many values a byte has
    kCheapPrepend,  \* the room that is kept in front
    kInitialSize,   \* the room a new buffer has for writing
    ExtraSize,      \* sizeof(extrabuf) of readFd()
    IntSizes,       \* the sizes of the integers that are added and read
    MaxMessage,     \* bound: a call adds or asks for so much at most
    MaxReadable     \* bound: so much can be read at most

ASSUME SizeAssumption ==
    /\ Base \in Nat \ {0} /\ kCheapPrepend \in Nat /\ kInitialSize \in Nat
    /\ ExtraSize \in Nat /\ MaxMessage \in Nat /\ MaxReadable \in Nat
    /\ IntSizes \subseteq 1..MaxMessage

Byte == 0..(Base - 1)

VARIABLES
    b,              \* the buffer
    peak            \* history: the most that had to fit in it at once

vars == <<b, peak>>

\* A vector of n bytes, all zero.
NewVector(n) == [i \in 0..(n - 1) |-> 0]

NewBuffer ==
    [buffer_ |-> NewVector(kCheapPrepend + kInitialSize),
     size |-> kCheapPrepend + kInitialSize,
     readerIndex_ |-> kCheapPrepend, writerIndex_ |-> kCheapPrepend]

ReadableBytes(x) == x.writerIndex_ - x.readerIndex_
WritableBytes(x) == x.size - x.writerIndex_
PrependableBytes(x) == x.readerIndex_

\* What can be read: the bytes from peek() to beginWrite().
Readable(x) == [i \in 1..ReadableBytes(x) |-> x.buffer_[x.readerIndex_ + i - 1]]

\* std::copy of s to the cells from index at on.
CopyTo(v, at, s) ==
    [i \in DOMAIN v |-> IF i \in at..(at + Len(s) - 1) THEN s[i - at + 1] ELSE v[i]]

Resized(x, n) ==
    [x EXCEPT !.size = n,
              !.buffer_ = [i \in 0..(n - 1) |-> IF i < x.size THEN x.buffer_[i] ELSE 0]]

\* The vector has as many bytes as it is said to, and room for kCheapPrepend;
\* the three regions are in order inside it, so that no copy leaves it and the
\* unsigned readableBytes() and writableBytes() never wrap round.  writerIndex_
\* may be the size, though Buffer.h:283 says that it is less: Buffer.cpp:265 sets
\* it so, and an append() that fits exactly leaves it so.
Sound(x) ==
    /\ DOMAIN x = {"buffer_", "size", "readerIndex_", "writerIndex_"}
    /\ x.size \in Nat /\ x.readerIndex_ \in Nat /\ x.writerIndex_ \in Nat
    /\ x.buffer_ \in [0..(x.size - 1) -> Byte]
    /\ x.readerIndex_ <= x.writerIndex_ /\ x.writerIndex_ <= x.size
    /\ kCheapPrepend <= x.size

-----------------------------------------------------------------------------
RetrieveAll(x) ==
    [x EXCEPT !.readerIndex_ = kCheapPrepend, !.writerIndex_ = kCheapPrepend]

Retrieve(x, len) ==
    IF len < ReadableBytes(x) THEN [x EXCEPT !.readerIndex_ = @ + len]
                              ELSE RetrieveAll(x)

\* Mutant of MoveIsEnough: the room in front is given away.
MoveUsesPrepend(x, len) == WritableBytes(x) + PrependableBytes(x) >= len

\* Is there room for len bytes, once what can be read is moved to the front?
MoveIsEnough(x, len) ==
    WritableBytes(x) + PrependableBytes(x) >= len + kCheapPrepend

Moved(x) ==
    [x EXCEPT !.buffer_ = CopyTo(@, kCheapPrepend, Readable(x)),
              !.readerIndex_ = kCheapPrepend,
              !.writerIndex_ = kCheapPrepend + ReadableBytes(x)]

\* Mutant of MakeSpace: there is always more of it.
MakeSpaceGrows(x, len) == Resized(x, x.writerIndex_ + len)

\* Mutant of MakeSpace: the indices are moved and the bytes are not.
MakeSpaceLeavesBytes(x, len) ==
    IF MoveIsEnough(x, len) THEN [Moved(x) EXCEPT !.buffer_ = x.buffer_]
                            ELSE Resized(x, x.writerIndex_ + len)

MakeSpace(x, len) ==
    IF MoveIsEnough(x, len) THEN Moved(x) ELSE Resized(x, x.writerIndex_ + len)

EnsureWritableBytes(x, len) ==
    IF WritableBytes(x) < len THEN MakeSpace(x, len) ELSE x

\* s is copied to the writable cells; hasWritten().
Written(x, s) ==
    [x EXCEPT !.buffer_ = CopyTo(@, x.writerIndex_, s),
              !.writerIndex_ = @ + Len(s)]

AppendBytes(x, s) == Written(EnsureWritableBytes(x, Len(s)), s)

PrependBytes(x, s) ==
    [x EXCEPT !.buffer_ = CopyTo(@, x.readerIndex_ - Len(s), s),
              !.readerIndex_ = @ - Len(s)]

\* readFd(): readv() fills the writable cells and then extrabuf, which is
\* appended to a buffer that is full.
ReadFdBytes(x, s) ==
    LET w == WritableBytes(x)
    IN IF Len(s) <= w
       THEN Written(x, s)
       ELSE AppendBytes(Written(x, SubSeq(s, 1, w)), SubSeq(s, w + 1, Len(s)))

\* shrink(): a new buffer takes the place of this one; what could be read of
\* it is not copied.
Shrunk(x, reserve) == EnsureWritableBytes(NewBuffer, ReadableBytes(x) + reserve)

-----------------------------------------------------------------------------
(* Integers: two's complement in n bytes, the most significant one first.  *)

\* How many values i bytes have.
Power[i \in 0..MaxMessage] == IF i = 0 THEN 1 ELSE Base * Power[i - 1]

\* What fits in n bytes.
Ints(n) == {i \in -Power[n]..Power[n] : -Power[n] <= 2 * i /\ 2 * i < Power[n]}

\* htobe32(static_cast<uint32_t>(x)), copied byte by byte.
BigEndian(x, n) == [i \in 1..n |-> ((x % Power[n]) \div Power[n - i]) % Base]

\* The number that the first n readable bytes are without a sign.
PeekUnsigned(x, n) ==
    LET digits[i \in 0..n] ==
          IF i = 0 THEN 0 ELSE digits[i - 1] * Base + Readable(x)[i]
    IN digits[n]

\* Mutant of Signed: it stays unsigned.
Unsigned(u, n) == u

\* static_cast<int32_t>
Signed(u, n) == IF 2 * u >= Power[n] THEN u - Power[n] ELSE u

\* The value of the first n readable bytes.
PeekInt(x, n) == Signed(PeekUnsigned(x, n), n)

-----------------------------------------------------------------------------
Messages == UNION {[1..n -> Byte] : n \in 0..MaxMessage}

Larger(m, n) == IF m < n THEN n ELSE m

Init == b = NewBuffer /\ peak = 0

\* append(), with any bytes, those of appendInt32(), ... too.
Add(s) ==
    /\ ReadableBytes(b) + Len(s) <= MaxReadable
    /\ b' = AppendBytes(b, s)
    /\ peak' = Larger(peak, ReadableBytes(b) + Len(s))

\* prepend(): a caller asks for no more room than there is.
Prepend(s) ==
    /\ Len(s) <= PrependableBytes(b)
    /\ ReadableBytes(b) + Len(s) <= MaxReadable
    /\ b' = PrependBytes(b, s)
    /\ peak' = Larger(peak, ReadableBytes(b) + Len(s))

\* retrieve(), retrieveUntil(), retrieveAsString(), readInt32(), ...: no more
\* than can be read.
Drop(len) ==
    /\ len <= ReadableBytes(b)
    /\ b' = Retrieve(b, len)
    /\ UNCHANGED peak

DropAll == b' = RetrieveAll(b) /\ UNCHANGED peak

\* readFd(): the socket has s, or an error and then nothing is read.
ReadFd(s) ==
    /\ Len(s) <= WritableBytes(b) + ExtraSize
    /\ ReadableBytes(b) + Len(s) <= MaxReadable
    /\ b' = ReadFdBytes(b, s)
    /\ peak' = Larger(peak, ReadableBytes(b) + Len(s))

Reserve(len) ==
    /\ ReadableBytes(b) + len <= MaxReadable
    /\ b' = EnsureWritableBytes(b, len)
    /\ peak' = Larger(peak, ReadableBytes(b) + len)

Shrink(reserve) ==
    /\ ReadableBytes(b) + reserve <= MaxReadable
    /\ b' = Shrunk(b, reserve)
    /\ peak' = Larger(peak, ReadableBytes(b) + reserve)

Next ==
    \/ \E s \in Messages : Add(s) \/ Prepend(s) \/ ReadFd(s)
    \/ \E len \in 0..MaxReadable : Drop(len)
    \/ \E len \in 0..MaxMessage : Reserve(len) \/ Shrink(len)
    \/ DropAll

Spec == Init /\ [][Next]_vars

-----------------------------------------------------------------------------
\* The buffer is well formed between any two calls.
TypeOK == Sound(b) /\ peak \in Nat

\* The vector is never more than twice as large as what had to fit in it, but
\* for the room in front and what a new buffer has: growing by what is asked
\* for and moving only when it helps do not let it creep (Buffer.cpp:280).
SpaceIsBounded ==
    b.size <= Larger(kInitialSize, 2 * peak) + kCheapPrepend

\* An integer that is put in front, in network order, is read back as it was,
\* its sign too (Buffer.cpp:185, 208).
IntsSurvive ==
    \A n \in IntSizes : n <= PrependableBytes(b) =>
        \A i \in Ints(n) : PeekInt(PrependBytes(b, BigEndian(i, n)), n) = i

Bytes == INSTANCE ByteQueue WITH Message <- Messages, queue <- Readable(b)

\* Each call does to what can be read what it is there for, wherever the bytes
\* are moved meanwhile.
EachCallKeepsBytes ==
    /\ \A s \in Messages :
         /\ Add(s) \/ ReadFd(s) => Bytes!Put(s)
         /\ Prepend(s) => Bytes!PutInFront(s)
    /\ \A len \in 0..MaxReadable : Drop(len) => Bytes!Take(len)
    /\ \A len \in 0..MaxMessage :
         /\ Reserve(len) => UNCHANGED Readable(b)
         /\ Shrink(len) => Bytes!Clear
    /\ DropAll => Bytes!Clear

\* The buffer is a queue of bytes: what can be read is what was added and not
\* taken, in order.  append() and readFd() put just their bytes behind the
\* others, prepend() in front of them, retrieve() takes as many as it is asked
\* to, ensureWritableBytes() changes nothing; only retrieveAll() and shrink()
\* take everything.
ImplementsByteQueue == Bytes!Spec /\ [][EachCallKeepsBytes]_vars
==============================================================================
