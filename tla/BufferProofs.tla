----------------------------- MODULE BufferProofs -----------------------------
(***************************************************************************)
(* Proofs about Buffer.tla: what each member function does to what can be  *)
(* read, and from that the invariants of the buffer and the refinement of  *)
(* the byte queue, for every size of the vector, the reserve, the message  *)
(* and every sequence of calls.                                            *)
(***************************************************************************)
EXTENDS Buffer, SequenceTheorems, WellFoundedInduction, TLAPS

\* A step of a member function keeps what can be read.
SameBytes(x, y) == Sound(y) /\ Readable(y) = Readable(x)

-----------------------------------------------------------------------------
(* The helpers.                                                            *)

\* What can be read is a sequence of readableBytes() bytes.
LEMMA ReadableIsSeq ==
    ASSUME NEW x, Sound(x)
    PROVE  /\ Readable(x) \in Seq(Byte)
           /\ Len(Readable(x)) = ReadableBytes(x)
           /\ ReadableBytes(x) \in Nat
           /\ \A i \in 1..ReadableBytes(x) :
                 Readable(x)[i] = x.buffer_[x.readerIndex_ + i - 1]
<1>1. ReadableBytes(x) \in Nat
    BY DEF Sound, ReadableBytes
<1>2. \A i \in 1..ReadableBytes(x) : x.buffer_[x.readerIndex_ + i - 1] \in Byte
    BY DEF Sound, ReadableBytes
<1>. DEFINE e(i) == x.buffer_[x.readerIndex_ + i - 1]
<1>3. \A i \in 1..ReadableBytes(x) : e(i) \in Byte
    BY <1>2
<1>. HIDE DEF e
<1>4. [i \in 1..ReadableBytes(x) |-> e(i)] \in Seq(Byte)
    BY <1>1, <1>3, IsASeq
<1>5. Readable(x) = [i \in 1..ReadableBytes(x) |-> e(i)]
    BY DEF Readable, e
<1>6. Len(Readable(x)) = ReadableBytes(x)
    BY <1>1, <1>4, <1>5, LenProperties
<1>7. QED
    BY <1>1, <1>4, <1>5, <1>6 DEF e

\* A buffer is read as s if it has as many bytes and each is the one of s.
LEMMA ReadableEqual ==
    ASSUME NEW x, Sound(x), NEW s \in Seq(Byte), ReadableBytes(x) = Len(s),
           \A i \in 1..Len(s) : x.buffer_[x.readerIndex_ + i - 1] = s[i]
    PROVE  Readable(x) = s
<1>1. /\ Readable(x) \in Seq(Byte) /\ Len(Readable(x)) = Len(s)
      /\ \A i \in 1..Len(s) : Readable(x)[i] = s[i]
    BY ReadableIsSeq
<1>2. QED
    BY <1>1, SeqEqual

\* std::copy puts s where it is told and leaves the other cells alone.
LEMMA CopyToCells ==
    ASSUME NEW n \in Nat, NEW v \in [0..(n - 1) -> Byte], NEW at \in Nat,
           NEW s \in Seq(Byte)
    PROVE  /\ CopyTo(v, at, s) \in [0..(n - 1) -> Byte]
           /\ \A i \in 0..(n - 1) :
                 CopyTo(v, at, s)[i] = IF i >= at /\ i < at + Len(s)
                                       THEN s[i - at + 1] ELSE v[i]
<1>1. Len(s) \in Nat /\ \A i \in 1..Len(s) : s[i] \in Byte
    BY LenProperties
<1>2. \A i \in 0..(n - 1) : i \in at..(at + Len(s) - 1) <=> (i >= at /\ i < at + Len(s))
    BY <1>1
<1>3. \A i \in 0..(n - 1) : CopyTo(v, at, s)[i] = IF i >= at /\ i < at + Len(s)
                                       THEN s[i - at + 1] ELSE v[i]
    BY <1>1, <1>2 DEF CopyTo
<1>4. \A i \in 0..(n - 1) : i >= at /\ i < at + Len(s) => i - at + 1 \in 1..Len(s)
    BY <1>1
<1>5. \A i \in 0..(n - 1) : CopyTo(v, at, s)[i] \in Byte
    BY <1>1, <1>3, <1>4
<1>6. QED
    BY <1>3, <1>5 DEF CopyTo

\* A new buffer has nothing to read and room for kInitialSize.
LEMMA NewIsSound ==
    /\ Sound(NewBuffer) /\ Readable(NewBuffer) = <<>>
    /\ NewBuffer.size = kCheapPrepend + kInitialSize
    /\ WritableBytes(NewBuffer) = kInitialSize
<1>1. Sound(NewBuffer)
    BY SizeAssumption DEF Sound, NewBuffer, NewVector, Byte
<1>2. ReadableBytes(NewBuffer) = 0
    BY SizeAssumption DEF ReadableBytes, NewBuffer
<1>3. Readable(NewBuffer) = <<>>
    BY <1>1, <1>2, ReadableIsSeq, EmptySeq, SeqEqual
<1>4. QED
    BY <1>1, <1>3, SizeAssumption DEF NewBuffer, WritableBytes

-----------------------------------------------------------------------------
(* The member functions.                                                   *)

\* retrieveAll() leaves nothing to read.
LEMMA RetrieveAllEmpties ==
    ASSUME NEW x, Sound(x)
    PROVE  Sound(RetrieveAll(x)) /\ Readable(RetrieveAll(x)) = <<>>
           /\ RetrieveAll(x).size = x.size
<1>. DEFINE y == RetrieveAll(x)
<1>1. /\ DOMAIN y = DOMAIN x /\ y.size = x.size /\ y.buffer_ = x.buffer_
      /\ y.readerIndex_ = kCheapPrepend /\ y.writerIndex_ = kCheapPrepend
    BY DEF Sound, RetrieveAll
<1>. HIDE DEF y
<1>2. Sound(y)
    BY <1>1, SizeAssumption DEF Sound
<1>3. ReadableBytes(y) = 0
    BY <1>1, SizeAssumption DEF ReadableBytes
<1>4. Readable(y) = <<>>
  <2>1. <<>> \in Seq(Byte) /\ Len(<<>>) = 0
      BY EmptySeq
  <2>2. \A i \in 1..Len(<<>>) : y.buffer_[y.readerIndex_ + i - 1] = <<>>[i]
      BY <2>1
  <2>3. QED
      BY <1>2, <1>3, <2>1, <2>2, ReadableEqual
<1>5. QED
    BY <1>1, <1>2, <1>4 DEF y

\* retrieve(len) drops the first len bytes.
LEMMA RetrieveDrops ==
    ASSUME NEW x, Sound(x), NEW len \in 0..ReadableBytes(x)
    PROVE  /\ Sound(Retrieve(x, len))
           /\ Readable(Retrieve(x, len)) =
                 SubSeq(Readable(x), len + 1, Len(Readable(x)))
           /\ Retrieve(x, len).size = x.size
<1>. DEFINE s == Readable(x)
            t == SubSeq(s, len + 1, Len(s))
<1>1. /\ s \in Seq(Byte) /\ Len(s) = ReadableBytes(x) /\ ReadableBytes(x) \in Nat
      /\ \A i \in 1..ReadableBytes(x) : s[i] = x.buffer_[x.readerIndex_ + i - 1]
    BY ReadableIsSeq
<1>2. CASE len < ReadableBytes(x)
  <2>. DEFINE y == [x EXCEPT !.readerIndex_ = @ + len]
  <2>1. /\ DOMAIN y = DOMAIN x /\ y.size = x.size /\ y.buffer_ = x.buffer_
        /\ y.readerIndex_ = x.readerIndex_ + len /\ y.writerIndex_ = x.writerIndex_
      BY DEF Sound
  <2>2. Retrieve(x, len) = y
      BY <1>2 DEF Retrieve
  <2>. HIDE DEF y
  <2>3. Sound(y)
      BY <1>2, <2>1 DEF Sound, ReadableBytes
  <2>4. ReadableBytes(y) = ReadableBytes(x) - len
      BY <2>1 DEF Sound, ReadableBytes
  <2>5. \A i \in len + 1 .. Len(s) : s[i] \in Byte
      BY <1>1, ElementOfSeq
  <2>6. /\ t \in Seq(Byte) /\ Len(t) = ReadableBytes(x) - len
        /\ \A i \in 1..ReadableBytes(x) - len : t[i] = s[len + i]
    <3>. HIDE DEF s
    <3>1. len + 1 \in Int /\ Len(s) \in Int
        BY <1>1
    <3>2. /\ t \in Seq(Byte)
          /\ Len(t) = IF len + 1 <= Len(s) THEN Len(s) - (len + 1) + 1 ELSE 0
          /\ \A i \in 1..Len(s) - (len + 1) + 1 : t[i] = s[len + 1 + i - 1]
        BY <2>5, <3>1, SubSeqProperties
    <3>. HIDE DEF t
    <3>3. QED
        BY <1>1, <1>2, <3>2
  <2>7. \A i \in 1..Len(t) : y.buffer_[y.readerIndex_ + i - 1] = t[i]
    <3>. HIDE DEF s, t
    <3>1. \A i \in 1..Len(t) : len + i \in 1..ReadableBytes(x)
        BY <1>1, <2>6
    <3>2. \A i \in 1..Len(t) : t[i] = x.buffer_[x.readerIndex_ + (len + i) - 1]
        BY <1>1, <2>6, <3>1
    <3>3. QED
        BY <1>1, <2>1, <2>6, <3>2 DEF Sound
  <2>8. Readable(y) = t
      BY <2>3, <2>4, <2>6, <2>7, ReadableEqual
  <2>9. QED
      BY <2>1, <2>2, <2>3, <2>8
<1>3. CASE len = ReadableBytes(x)
  <2>1. t = <<>>
      BY <1>1, <1>3, SubSeqEmpty
  <2>2. Retrieve(x, len) = RetrieveAll(x)
      BY <1>1, <1>3 DEF Retrieve
  <2>3. QED
      BY <2>1, <2>2, RetrieveAllEmpties
<1>4. QED
    BY <1>1, <1>2, <1>3

\* A vector that grows keeps what can be read.
LEMMA ResizedKeeps ==
    ASSUME NEW x, Sound(x), NEW n \in Nat, x.size <= n
    PROVE  /\ SameBytes(x, Resized(x, n))
           /\ Resized(x, n).size = n
           /\ WritableBytes(Resized(x, n)) = n - x.writerIndex_
           /\ Resized(x, n).writerIndex_ = x.writerIndex_
<1>. DEFINE y == Resized(x, n)
<1>1. /\ DOMAIN y = DOMAIN x /\ y.size = n
      /\ y.buffer_ = [i \in 0..(n - 1) |-> IF i < x.size THEN x.buffer_[i] ELSE 0]
      /\ y.readerIndex_ = x.readerIndex_ /\ y.writerIndex_ = x.writerIndex_
    BY DEF Sound, Resized
<1>. HIDE DEF y
<1>2. \A i \in 0..(n - 1) : (IF i < x.size THEN x.buffer_[i] ELSE 0) \in Byte
    BY SizeAssumption DEF Sound, Byte
<1>3. y.buffer_ \in [0..(n - 1) -> Byte]
    BY <1>1, <1>2
<1>4. Sound(y)
  <2>1. y.buffer_ \in [0..(y.size - 1) -> Byte]
      BY <1>1, <1>3
  <2>2. /\ y.size \in Nat /\ y.readerIndex_ \in Nat /\ y.writerIndex_ \in Nat
        /\ y.readerIndex_ <= y.writerIndex_ /\ y.writerIndex_ <= y.size
        /\ kCheapPrepend <= y.size
      BY <1>1, SizeAssumption DEF Sound
  <2>3. QED
      BY <1>1, <2>1, <2>2 DEF Sound
<1>5. ReadableBytes(y) = ReadableBytes(x)
    BY <1>1 DEF ReadableBytes
<1>6. \A i \in 1..ReadableBytes(x) :
         y.buffer_[y.readerIndex_ + i - 1] = x.buffer_[x.readerIndex_ + i - 1]
    BY <1>1 DEF Sound, ReadableBytes
<1>7. Readable(y) = Readable(x)
    BY <1>4, <1>5, <1>6, ReadableIsSeq, ReadableEqual
<1>8. QED
    BY <1>1, <1>4, <1>7 DEF SameBytes, WritableBytes, y

\* What can be read survives the move to the front, which is inside the vector.
LEMMA MovedKeeps ==
    ASSUME NEW x, Sound(x), kCheapPrepend <= x.readerIndex_
    PROVE  /\ SameBytes(x, Moved(x))
           /\ Moved(x).size = x.size
           /\ WritableBytes(Moved(x)) =
                 WritableBytes(x) + PrependableBytes(x) - kCheapPrepend
<1>. DEFINE y == Moved(x)
            s == Readable(x)
<1>1. /\ s \in Seq(Byte) /\ Len(s) = ReadableBytes(x) /\ ReadableBytes(x) \in Nat
    BY ReadableIsSeq
<1>2. /\ DOMAIN y = DOMAIN x /\ y.size = x.size
      /\ y.buffer_ = CopyTo(x.buffer_, kCheapPrepend, s)
      /\ y.readerIndex_ = kCheapPrepend
      /\ y.writerIndex_ = kCheapPrepend + ReadableBytes(x)
    BY DEF Sound, Moved
<1>. HIDE DEF y, s
<1>3. /\ y.buffer_ \in [0..(x.size - 1) -> Byte]
      /\ \A i \in 0..(x.size - 1) :
            y.buffer_[i] = IF i >= kCheapPrepend /\ i < kCheapPrepend + Len(s)
                           THEN s[i - kCheapPrepend + 1] ELSE x.buffer_[i]
  <2>. DEFINE n == x.size
              v == x.buffer_
  <2>1. n \in Nat /\ v \in [0..(n - 1) -> Byte] /\ kCheapPrepend \in Nat
      BY SizeAssumption DEF Sound
  <2>. HIDE DEF n, v
  <2>2. /\ CopyTo(v, kCheapPrepend, s) \in [0..(n - 1) -> Byte]
        /\ \A i \in 0..(n - 1) :
              CopyTo(v, kCheapPrepend, s)[i] =
                 IF i >= kCheapPrepend /\ i < kCheapPrepend + Len(s)
                 THEN s[i - kCheapPrepend + 1] ELSE v[i]
      BY <1>1, <2>1, CopyToCells
  <2>3. QED
      BY <1>2, <2>2 DEF n, v
<1>4. Sound(y)
    BY <1>1, <1>2, <1>3, SizeAssumption DEF Sound, ReadableBytes
<1>5. ReadableBytes(y) = Len(s)
    BY <1>1, <1>2, SizeAssumption DEF ReadableBytes
<1>6. \A i \in 1..Len(s) : y.buffer_[y.readerIndex_ + i - 1] = s[i]
  <2>1. TAKE i \in 1..Len(s)
  <2>2. kCheapPrepend + i - 1 \in 0..(x.size - 1)
      BY <1>1, SizeAssumption DEF Sound, ReadableBytes
  <2>3. y.buffer_[kCheapPrepend + i - 1] = s[kCheapPrepend + i - 1 - kCheapPrepend + 1]
      BY <1>1, <1>3, <2>2, SizeAssumption
  <2>4. kCheapPrepend + i - 1 - kCheapPrepend + 1 = i
      BY SizeAssumption
  <2>5. QED
      BY <1>2, <2>3, <2>4
<1>7. Readable(y) = s
    BY <1>1, <1>4, <1>5, <1>6, ReadableEqual
<1>8. WritableBytes(y) = WritableBytes(x) + PrependableBytes(x) - kCheapPrepend
    BY <1>2, SizeAssumption DEF WritableBytes, PrependableBytes, ReadableBytes, Sound
<1>9. QED
    BY <1>2, <1>4, <1>7, <1>8 DEF SameBytes, y, s

\* makeSpace() makes the room that is asked for and keeps what can be read.
\* The vector grows only if there is less room than that, all in all.
LEMMA MakeSpaceKeeps ==
    ASSUME NEW x, Sound(x), NEW len \in Nat, WritableBytes(x) < len
    PROVE  /\ SameBytes(x, MakeSpace(x, len))
           /\ WritableBytes(MakeSpace(x, len)) >= len
           /\ \/ MakeSpace(x, len).size = x.size
              \/ MakeSpace(x, len).size <= 2 * (ReadableBytes(x) + len) + kCheapPrepend
<1>1. /\ ReadableBytes(x) \in Nat /\ WritableBytes(x) \in Nat
      /\ PrependableBytes(x) \in Nat /\ kCheapPrepend \in Nat
      /\ x.writerIndex_ \in Nat
      /\ x.writerIndex_ = PrependableBytes(x) + ReadableBytes(x)
      /\ x.size = x.writerIndex_ + WritableBytes(x)
      /\ x.readerIndex_ = PrependableBytes(x)
    BY SizeAssumption DEF Sound, ReadableBytes, WritableBytes, PrependableBytes
<1>2. CASE MoveIsEnough(x, len)
  <2>1. kCheapPrepend <= x.readerIndex_
      BY <1>1, <1>2 DEF MoveIsEnough
  <2>2. MakeSpace(x, len) = Moved(x)
      BY <1>2 DEF MakeSpace
  <2>3. QED
      BY <1>1, <1>2, <2>1, <2>2, MovedKeeps DEF MoveIsEnough
<1>3. CASE ~MoveIsEnough(x, len)
  <2>. DEFINE n == x.writerIndex_ + len
  <2>1. n \in Nat /\ x.size <= n /\ n - x.writerIndex_ = len
      BY <1>1
  <2>2. n <= 2 * (ReadableBytes(x) + len) + kCheapPrepend
      BY <1>1, <1>3 DEF MoveIsEnough
  <2>3. MakeSpace(x, len) = Resized(x, n)
      BY <1>3 DEF MakeSpace
  <2>. HIDE DEF n
  <2>4. QED
      BY <2>1, <2>2, <2>3, ResizedKeeps
<1>4. QED
    BY <1>2, <1>3

LEMMA EnsureKeeps ==
    ASSUME NEW x, Sound(x), NEW len \in Nat
    PROVE  /\ SameBytes(x, EnsureWritableBytes(x, len))
           /\ WritableBytes(EnsureWritableBytes(x, len)) >= len
           /\ \/ EnsureWritableBytes(x, len).size = x.size
              \/ EnsureWritableBytes(x, len).size
                    <= 2 * (ReadableBytes(x) + len) + kCheapPrepend
<1>1. CASE WritableBytes(x) < len
    BY <1>1, MakeSpaceKeeps DEF EnsureWritableBytes
<1>2. CASE ~(WritableBytes(x) < len)
  <2>1. EnsureWritableBytes(x, len) = x
      BY <1>2 DEF EnsureWritableBytes
  <2>2. WritableBytes(x) >= len
      BY <1>2 DEF WritableBytes, Sound
  <2>3. QED
      BY <2>1, <2>2 DEF SameBytes
<1>3. QED
    BY <1>1, <1>2

\* What is written where there is room for it comes after what could be read.
LEMMA WrittenAdds ==
    ASSUME NEW x, Sound(x), NEW s \in Seq(Byte), Len(s) <= WritableBytes(x)
    PROVE  /\ Sound(Written(x, s))
           /\ Readable(Written(x, s)) = Readable(x) \o s
           /\ Written(x, s).size = x.size
           /\ WritableBytes(Written(x, s)) = WritableBytes(x) - Len(s)
           /\ ReadableBytes(Written(x, s)) = ReadableBytes(x) + Len(s)
<1>. DEFINE y == Written(x, s)
            r == Readable(x)
            n == x.size
            v == x.buffer_
            at == x.writerIndex_
<1>1. /\ r \in Seq(Byte) /\ Len(r) = ReadableBytes(x) /\ ReadableBytes(x) \in Nat
      /\ Len(s) \in Nat
      /\ \A i \in 1..ReadableBytes(x) : r[i] = x.buffer_[x.readerIndex_ + i - 1]
    BY ReadableIsSeq, LenProperties
<1>2. /\ DOMAIN y = DOMAIN x /\ y.size = x.size
      /\ y.buffer_ = CopyTo(v, at, s)
      /\ y.readerIndex_ = x.readerIndex_
      /\ y.writerIndex_ = x.writerIndex_ + Len(s)
    BY DEF Sound, Written
<1>3. /\ n \in Nat /\ v \in [0..(n - 1) -> Byte] /\ at \in Nat
      /\ x.readerIndex_ \in Nat /\ at = x.readerIndex_ + Len(r) /\ at + Len(s) <= n
    BY <1>1 DEF Sound, ReadableBytes, WritableBytes
<1>. HIDE DEF y, r, n, v, at
<1>4. /\ CopyTo(v, at, s) \in [0..(n - 1) -> Byte]
      /\ \A i \in 0..(n - 1) : CopyTo(v, at, s)[i] =
             IF i >= at /\ i < at + Len(s) THEN s[i - at + 1] ELSE v[i]
  <2>1. n \in Nat /\ v \in [0..(n - 1) -> Byte] /\ at \in Nat
      BY <1>3
  <2>2. QED
      BY <2>1, CopyToCells
<1>5. Sound(y)
  <2>1. y.buffer_ \in [0..(y.size - 1) -> Byte]
      BY <1>2, <1>4 DEF n
  <2>2. /\ y.size \in Nat /\ y.readerIndex_ \in Nat /\ y.writerIndex_ \in Nat
        /\ y.readerIndex_ <= y.writerIndex_ /\ y.writerIndex_ <= y.size
        /\ kCheapPrepend <= y.size
      BY <1>1, <1>2, <1>3, SizeAssumption DEF Sound, at, n
  <2>3. QED
      BY <1>2, <2>1, <2>2 DEF Sound
<1>6. /\ r \o s \in Seq(Byte) /\ Len(r \o s) = Len(r) + Len(s)
      /\ \A i \in 1 .. Len(r) + Len(s) :
            (r \o s)[i] = IF i <= Len(r) THEN r[i] ELSE s[i - Len(r)]
    BY <1>1, ConcatProperties
<1>7. ReadableBytes(y) = Len(r \o s)
  <2>1. ReadableBytes(y) = (at + Len(s)) - x.readerIndex_
      BY <1>2 DEF ReadableBytes, at
  <2>2. Len(r) \in Nat
      BY <1>1
  <2>3. (x.readerIndex_ + Len(r) + Len(s)) - x.readerIndex_ = Len(r) + Len(s)
      BY <1>1, <1>3, <2>2
  <2>4. QED
      BY <1>3, <1>6, <2>1, <2>3
<1>8. \A i \in 1..Len(r \o s) : y.buffer_[y.readerIndex_ + i - 1] = (r \o s)[i]
  <2>1. TAKE i \in 1..Len(r \o s)
  <2>. DEFINE k == x.readerIndex_ + i - 1
  <2>2. /\ i \in Int /\ 1 <= i /\ i <= Len(r) + Len(s)
        /\ Len(r) \in Int /\ Len(s) \in Int
        /\ x.readerIndex_ \in Nat /\ at \in Nat /\ n \in Nat
        /\ at = x.readerIndex_ + Len(r) /\ at + Len(s) <= n
    <3>1. i \in 1..(Len(r) + Len(s))
        BY <1>6, <2>1
    <3>2. QED
        BY <1>1, <1>3, <3>1
  <2>3. k \in Int /\ k = x.readerIndex_ + i - 1
      BY <2>2
  <2>. HIDE DEF k
  <2>. DEFINE p == x.readerIndex_
              lr == Len(r)
              ls == Len(s)
  <2>4. /\ i \in Int /\ 1 <= i /\ i <= lr + ls /\ lr \in Int /\ ls \in Int
        /\ p \in Nat /\ at \in Nat /\ n \in Nat /\ k \in Int
        /\ at = p + lr /\ at + ls <= n /\ k = p + i - 1
      BY <2>2, <2>3, Zenon
  <2>. HIDE DEF p, lr, ls
  <2>5. k \in 0..(n - 1)
      BY <2>4
  <2>6. CopyTo(v, at, s)[k] = IF k >= at /\ k < at + Len(s)
                              THEN s[k - at + 1] ELSE v[k]
      BY <1>4, <2>5, Zenon
  <2>7. (r \o s)[i] = IF i <= Len(r) THEN r[i] ELSE s[i - Len(r)]
      BY <1>6, <2>1, Zenon
  <2>8. y.buffer_[y.readerIndex_ + i - 1] = CopyTo(v, at, s)[k]
      BY <1>2, <2>3, Zenon
  <2>9. CASE i <= lr
    <3>1. ~(k >= at) /\ i \in 1..lr
        BY <2>4, <2>9
    <3>2. v[k] = r[i]
        BY <1>1, <2>3, <3>1, Zenon DEF v, lr
    <3>3. QED
        BY <2>6, <2>7, <2>8, <2>9, <3>1, <3>2, Zenon DEF lr
  <2>10. CASE ~(i <= lr)
    <3>1. k >= at /\ k < at + ls /\ k - at + 1 = i - lr
        BY <2>4, <2>10
    <3>2. QED
        BY <2>6, <2>7, <2>8, <2>10, <3>1, Zenon DEF lr, ls
  <2>11. QED
      BY <2>9, <2>10
<1>9. Readable(y) = r \o s
    BY <1>5, <1>6, <1>7, <1>8, ReadableEqual
<1>10. WritableBytes(y) = WritableBytes(x) - Len(s)
    BY <1>1, <1>2, <1>3 DEF WritableBytes, n, at
<1>11. QED
    BY <1>1, <1>2, <1>5, <1>6, <1>7, <1>9, <1>10 DEF y, r

\* append() adds s at the end; the vector grows to twice what it holds at most.
LEMMA AppendAdds ==
    ASSUME NEW x, Sound(x), NEW s \in Seq(Byte)
    PROVE  /\ Sound(AppendBytes(x, s))
           /\ Readable(AppendBytes(x, s)) = Readable(x) \o s
           /\ \/ AppendBytes(x, s).size = x.size
              \/ AppendBytes(x, s).size
                    <= 2 * (ReadableBytes(x) + Len(s)) + kCheapPrepend
<1>. DEFINE y == EnsureWritableBytes(x, Len(s))
<1>1. Len(s) \in Nat
    BY LenProperties
<1>2. /\ Sound(y) /\ Readable(y) = Readable(x) /\ WritableBytes(y) >= Len(s)
      /\ y.size = x.size \/ y.size <= 2 * (ReadableBytes(x) + Len(s)) + kCheapPrepend
    BY <1>1, EnsureKeeps DEF SameBytes
<1>3. AppendBytes(x, s) = Written(y, s)
    BY DEF AppendBytes
<1>. HIDE DEF y
<1>4. Len(s) <= WritableBytes(y)
    BY <1>1, <1>2 DEF Sound, WritableBytes
<1>5. QED
    BY <1>2, <1>3, <1>4, WrittenAdds

\* prepend() adds s in front.
LEMMA PrependAdds ==
    ASSUME NEW x, Sound(x), NEW s \in Seq(Byte), Len(s) <= PrependableBytes(x)
    PROVE  /\ Sound(PrependBytes(x, s))
           /\ Readable(PrependBytes(x, s)) = s \o Readable(x)
           /\ PrependBytes(x, s).size = x.size
<1>. DEFINE y == PrependBytes(x, s)
            r == Readable(x)
            n == x.size
            v == x.buffer_
            at == x.readerIndex_ - Len(s)
<1>1. /\ r \in Seq(Byte) /\ Len(r) = ReadableBytes(x) /\ ReadableBytes(x) \in Nat
      /\ Len(s) \in Nat
      /\ \A i \in 1..ReadableBytes(x) : r[i] = x.buffer_[x.readerIndex_ + i - 1]
    BY ReadableIsSeq, LenProperties
<1>2. /\ DOMAIN y = DOMAIN x /\ y.size = x.size
      /\ y.buffer_ = CopyTo(v, at, s)
      /\ y.readerIndex_ = at
      /\ y.writerIndex_ = x.writerIndex_
    BY DEF Sound, PrependBytes
<1>3. /\ n \in Nat /\ v \in [0..(n - 1) -> Byte] /\ at \in Nat
      /\ x.readerIndex_ = at + Len(s)
      /\ x.writerIndex_ = at + Len(s) + Len(r) /\ x.writerIndex_ <= n
    BY <1>1 DEF Sound, ReadableBytes, PrependableBytes
<1>. HIDE DEF y, r, n, v, at
<1>4. /\ CopyTo(v, at, s) \in [0..(n - 1) -> Byte]
      /\ \A i \in 0..(n - 1) : CopyTo(v, at, s)[i] =
             IF i >= at /\ i < at + Len(s) THEN s[i - at + 1] ELSE v[i]
  <2>1. n \in Nat /\ v \in [0..(n - 1) -> Byte] /\ at \in Nat
      BY <1>3
  <2>2. QED
      BY <2>1, CopyToCells
<1>5. Sound(y)
  <2>1. y.buffer_ \in [0..(y.size - 1) -> Byte]
      BY <1>2, <1>4 DEF n
  <2>2. /\ y.size \in Nat /\ y.readerIndex_ \in Nat /\ y.writerIndex_ \in Nat
        /\ y.readerIndex_ <= y.writerIndex_ /\ y.writerIndex_ <= y.size
        /\ kCheapPrepend <= y.size
      BY <1>1, <1>2, <1>3, SizeAssumption DEF Sound, n
  <2>3. QED
      BY <1>2, <2>1, <2>2 DEF Sound
<1>6. /\ s \o r \in Seq(Byte) /\ Len(s \o r) = Len(s) + Len(r)
      /\ \A i \in 1 .. Len(s) + Len(r) :
            (s \o r)[i] = IF i <= Len(s) THEN s[i] ELSE r[i - Len(s)]
    BY <1>1, ConcatProperties
<1>7. ReadableBytes(y) = Len(s \o r)
  <2>1. ReadableBytes(y) = (at + Len(s) + Len(r)) - at
      BY <1>2, <1>3 DEF ReadableBytes
  <2>2. Len(r) \in Nat
      BY <1>1
  <2>3. QED
      BY <1>1, <1>3, <1>6, <2>1, <2>2
<1>8. \A i \in 1..Len(s \o r) : y.buffer_[y.readerIndex_ + i - 1] = (s \o r)[i]
  <2>1. TAKE i \in 1..Len(s \o r)
  <2>. DEFINE k == at + i - 1
  <2>2. /\ k \in 0..(n - 1) /\ k \in Int /\ i \in Int /\ Len(r) \in Int
        /\ i <= Len(s) + Len(r) /\ 1 <= i /\ at \in Int /\ Len(s) \in Int
      BY <1>1, <1>3, <1>6
  <2>3. CASE i <= Len(s)
    <3>1. k >= at /\ k < at + Len(s) /\ k - at + 1 = i
        BY <2>2, <2>3
    <3>2. CopyTo(v, at, s)[k] = s[i]
        BY <1>4, <2>2, <3>1
    <3>3. (s \o r)[i] = s[i]
        BY <1>6, <2>1, <2>3
    <3>4. QED
        BY <1>2, <3>2, <3>3
  <2>4. CASE i > Len(s)
    <3>1. /\ ~(k < at + Len(s))
          /\ i - Len(s) \in 1..Len(r)
          /\ k = (at + Len(s)) + (i - Len(s)) - 1
        BY <2>2, <2>4
    <3>2. CopyTo(v, at, s)[k] = v[k]
        BY <1>4, <2>2, <3>1
    <3>3. r[i - Len(s)] = v[k]
        BY <1>1, <1>3, <3>1 DEF v
    <3>4. (s \o r)[i] = r[i - Len(s)]
      <4>1. i \in 1 .. Len(s) + Len(r) /\ ~(i <= Len(s))
          BY <2>2, <2>4
      <4>2. QED
          BY <1>6, <4>1
    <3>5. QED
        BY <1>2, <3>2, <3>3, <3>4
  <2>5. QED
      BY <2>2, <2>3, <2>4
<1>9. Readable(y) = s \o r
    BY <1>5, <1>6, <1>7, <1>8, ReadableEqual
<1>10. QED
    BY <1>2, <1>5, <1>9 DEF y, r

\* Appending to a sequence of bytes is associative.
LEMMA BytesAssociate ==
    ASSUME NEW x \in Seq(Byte), NEW y \in Seq(Byte), NEW z \in Seq(Byte)
    PROVE  (x \o y) \o z = x \o (y \o z)
  BY ConcatAssociative, SMT

\* readFd() adds what the socket gave at the end, the part that went through
\* extrabuf for one.
LEMMA ReadFdAdds ==
    ASSUME NEW x, Sound(x), NEW s \in Seq(Byte)
    PROVE  /\ Sound(ReadFdBytes(x, s))
           /\ Readable(ReadFdBytes(x, s)) = Readable(x) \o s
           /\ \/ ReadFdBytes(x, s).size = x.size
              \/ ReadFdBytes(x, s).size
                    <= 2 * (ReadableBytes(x) + Len(s)) + kCheapPrepend
<1>. DEFINE w == WritableBytes(x)
<1>1. /\ Len(s) \in Nat /\ w \in Nat /\ ReadableBytes(x) \in Nat
      /\ Readable(x) \in Seq(Byte)
    BY ReadableIsSeq, LenProperties DEF Sound, WritableBytes
<1>. HIDE DEF w
<1>2. CASE Len(s) <= w
  <2>1. ReadFdBytes(x, s) = Written(x, s)
      BY <1>2 DEF ReadFdBytes, w
  <2>2. QED
      BY <1>2, <2>1, WrittenAdds DEF w
<1>3. CASE ~(Len(s) <= w)
  <2>. DEFINE s1 == SubSeq(s, 1, w)
              s2 == SubSeq(s, w + 1, Len(s))
              y == Written(x, s1)
  <2>1. ReadFdBytes(x, s) = AppendBytes(y, s2)
      BY <1>3 DEF ReadFdBytes, w
  <2>2. \A i \in 1..Len(s) : s[i] \in Byte
      BY ElementOfSeq
  <2>3. s1 \in Seq(Byte) /\ Len(s1) = w
    <3>1. \A i \in 1..w : s[i] \in Byte
        BY <1>1, <1>3, <2>2
    <3>2. s1 \in Seq(Byte) /\ Len(s1) = IF 1 <= w THEN w - 1 + 1 ELSE 0
        BY <1>1, <3>1, SubSeqProperties
    <3>. HIDE DEF s1
    <3>3. QED
        BY <1>1, <3>2
  <2>4. s2 \in Seq(Byte) /\ Len(s2) = Len(s) - w
    <3>1. \A i \in w + 1 .. Len(s) : s[i] \in Byte
        BY <1>1, <2>2
    <3>2. s2 \in Seq(Byte)
          /\ Len(s2) = IF w + 1 <= Len(s) THEN Len(s) - (w + 1) + 1 ELSE 0
        BY <1>1, <3>1, SubSeqProperties
    <3>. HIDE DEF s2
    <3>3. QED
        BY <1>1, <1>3, <3>2
  <2>5. s1 \o s2 = s
    <3>1. s1 \o s2 = SubSeq(s, 1, Len(s))
      <4>1. 1 \in 1..Len(s) + 1 /\ w \in 1 - 1 .. Len(s) /\ Len(s) \in w..Len(s)
          BY <1>1, <1>3
      <4>2. QED
          BY <4>1, ConcatAdjacentSubSeq
    <3>2. QED
        BY <3>1, SubSeqFull
  <2>. HIDE DEF s1, s2, y
  <2>6. /\ Sound(y) /\ Readable(y) = Readable(x) \o s1 /\ y.size = x.size
        /\ ReadableBytes(y) = ReadableBytes(x) + w
    <3>1. Len(s1) <= WritableBytes(x)
        BY <1>1, <2>3 DEF w
    <3>2. QED
        BY <2>3, <3>1, WrittenAdds DEF y
  <2>7. /\ Sound(AppendBytes(y, s2))
        /\ Readable(AppendBytes(y, s2)) = Readable(y) \o s2
        /\ \/ AppendBytes(y, s2).size = y.size
           \/ AppendBytes(y, s2).size
                 <= 2 * (ReadableBytes(y) + Len(s2)) + kCheapPrepend
      BY <2>4, <2>6, AppendAdds
  <2>8. ReadableBytes(y) + Len(s2) = ReadableBytes(x) + Len(s)
      BY <1>1, <2>4, <2>6
  <2>9. Readable(y) \o s2 = Readable(x) \o s
    <3>1. (Readable(x) \o s1) \o s2 = Readable(x) \o (s1 \o s2)
        BY <1>1, <2>3, <2>4, BytesAssociate, Zenon
    <3>2. QED
        BY <2>5, <2>6, <3>1
  <2>10. QED
      BY <2>1, <2>6, <2>7, <2>8, <2>9
<1>4. QED
    BY <1>2, <1>3

\* shrink() leaves nothing to read, in a new vector.
LEMMA ShrunkEmpties ==
    ASSUME NEW x, Sound(x), NEW reserve \in Nat
    PROVE  /\ Sound(Shrunk(x, reserve))
           /\ Readable(Shrunk(x, reserve)) = <<>>
           /\ \/ Shrunk(x, reserve).size = kCheapPrepend + kInitialSize
              \/ Shrunk(x, reserve).size
                    <= 2 * (ReadableBytes(x) + reserve) + kCheapPrepend
<1>1. ReadableBytes(x) + reserve \in Nat
    BY DEF Sound, ReadableBytes
<1>2. ReadableBytes(NewBuffer) + (ReadableBytes(x) + reserve) = ReadableBytes(x) + reserve
    BY <1>1, SizeAssumption DEF ReadableBytes, NewBuffer
<1>. DEFINE n == ReadableBytes(x) + reserve
<1>. HIDE DEF n
<1>3. n \in Nat /\ ReadableBytes(NewBuffer) + n = n
    BY <1>1, <1>2 DEF n
<1>4. /\ SameBytes(NewBuffer, EnsureWritableBytes(NewBuffer, n))
      /\ \/ EnsureWritableBytes(NewBuffer, n).size = NewBuffer.size
         \/ EnsureWritableBytes(NewBuffer, n).size
               <= 2 * (ReadableBytes(NewBuffer) + n) + kCheapPrepend
    BY <1>3, NewIsSound, EnsureKeeps
<1>5. QED
    BY <1>3, <1>4, NewIsSound DEF SameBytes, Shrunk, n

-----------------------------------------------------------------------------
(* The invariants.                                                         *)

\* Inductive: the buffer is sound and no larger than SpaceIsBounded says.
IInv == Sound(b) /\ peak \in Nat /\ SpaceIsBounded

LEMMA LargerBounds ==
    ASSUME NEW m \in Nat, NEW n \in Nat
    PROVE  Larger(m, n) \in Nat /\ m <= Larger(m, n) /\ n <= Larger(m, n)
    BY DEF Larger

LEMMA MessageIsSeq ==
    ASSUME NEW s \in Messages
    PROVE  s \in Seq(Byte) /\ Len(s) \in Nat
<1>1. PICK n \in 0..MaxMessage : s \in [1..n -> Byte]
    BY DEF Messages
<1>2. n \in Nat /\ s = [i \in 1..n |-> s[i]] /\ \A i \in 1..n : s[i] \in Byte
    BY <1>1, SizeAssumption
<1>. DEFINE e(i) == s[i]
<1>3. [i \in 1..n |-> e(i)] \in Seq(Byte)
  <2>1. \A i \in 1..n : e(i) \in Byte
      BY <1>2
  <2>. HIDE DEF e
  <2>2. QED
      BY <1>2, <2>1, IsASeq
<1>4. QED
    BY <1>2, <1>3, LenProperties

\* A vector that has kept its size, or holds half of what it has room for,
\* is not too large.
LEMMA SizeKept ==
    ASSUME NEW n \in Nat, NEW m \in Nat, NEW p \in Nat, NEW k \in Nat,
           n <= Larger(kInitialSize, 2 * p) + kCheapPrepend,
           k = n \/ k = kCheapPrepend + kInitialSize \/ k <= 2 * m + kCheapPrepend
    PROVE  k <= Larger(kInitialSize, 2 * Larger(p, m)) + kCheapPrepend
    BY SizeAssumption DEF Larger

LEMMA InitIInv == Init => IInv
<1>1. SUFFICES ASSUME Init PROVE IInv
    OBVIOUS
<1>2. kCheapPrepend + kInitialSize <= Larger(kInitialSize, 2 * 0) + kCheapPrepend
    BY SizeAssumption DEF Larger
<1>3. QED
    BY <1>1, <1>2, NewIsSound DEF Init, IInv, SpaceIsBounded

LEMMA StepIInv == IInv /\ [Next]_vars => IInv'
<1>. SUFFICES ASSUME IInv, [Next]_vars PROVE IInv'
    OBVIOUS
<1>1. /\ Sound(b) /\ peak \in Nat /\ b.size \in Nat /\ ReadableBytes(b) \in Nat
      /\ b.size <= Larger(kInitialSize, 2 * peak) + kCheapPrepend
    BY DEF IInv, Sound, SpaceIsBounded, ReadableBytes
<1>. DEFINE Grown(n) ==
         /\ Sound(b') /\ peak' = Larger(peak, ReadableBytes(b) + n)
         /\ \/ b'.size = b.size
            \/ b'.size = kCheapPrepend + kInitialSize
            \/ b'.size <= 2 * (ReadableBytes(b) + n) + kCheapPrepend
<1>2. ASSUME NEW n \in Nat, Grown(n) PROVE IInv'
  <2>1. ReadableBytes(b) + n \in Nat /\ b'.size \in Nat
      BY <1>1, <1>2 DEF Sound
  <2>2. peak' \in Nat
      BY <1>1, <1>2, <2>1, LargerBounds
  <2>3. b'.size <= Larger(kInitialSize, 2 * peak') + kCheapPrepend
      BY <1>1, <1>2, <2>1, SizeKept
  <2>4. QED
      BY <1>2, <2>2, <2>3 DEF IInv, SpaceIsBounded, Sound
<1>3. ASSUME Sound(b'), b'.size = b.size, peak' = peak PROVE IInv'
    BY <1>1, <1>3 DEF IInv, SpaceIsBounded, Sound
<1>. HIDE DEF Grown
<1>4. ASSUME NEW s \in Messages, Add(s) PROVE IInv'
  <2>1. Grown(Len(s))
      BY <1>1, <1>4, MessageIsSeq, AppendAdds DEF Add, Grown
  <2>2. QED
      BY <1>2, <2>1, MessageIsSeq
<1>5. ASSUME NEW s \in Messages, Prepend(s) PROVE IInv'
  <2>1. Grown(Len(s))
      BY <1>1, <1>5, MessageIsSeq, PrependAdds DEF Prepend, Grown
  <2>2. QED
      BY <1>2, <2>1, MessageIsSeq
<1>6. ASSUME NEW s \in Messages, ReadFd(s) PROVE IInv'
  <2>1. Grown(Len(s))
      BY <1>1, <1>6, MessageIsSeq, ReadFdAdds DEF ReadFd, Grown
  <2>2. QED
      BY <1>2, <2>1, MessageIsSeq
<1>7. ASSUME NEW len \in 0..MaxReadable, Drop(len) PROVE IInv'
  <2>1. len \in 0..ReadableBytes(b)
      BY <1>1, <1>7, SizeAssumption DEF Drop
  <2>2. QED
      BY <1>1, <1>3, <1>7, <2>1, RetrieveDrops DEF Drop
<1>8. ASSUME NEW len \in 0..MaxMessage, Reserve(len) PROVE IInv'
  <2>1. len \in Nat
      BY SizeAssumption
  <2>2. Grown(len)
      BY <1>1, <1>8, <2>1, EnsureKeeps DEF Reserve, Grown, SameBytes
  <2>3. QED
      BY <1>2, <2>1, <2>2
<1>9. ASSUME NEW len \in 0..MaxMessage, Shrink(len) PROVE IInv'
  <2>1. len \in Nat
      BY SizeAssumption
  <2>2. Grown(len)
      BY <1>1, <1>9, <2>1, ShrunkEmpties DEF Shrink, Grown
  <2>3. QED
      BY <1>2, <2>1, <2>2
<1>10. CASE DropAll
    BY <1>1, <1>3, <1>10, RetrieveAllEmpties DEF DropAll
<1>11. CASE UNCHANGED vars
    BY <1>1, <1>11 DEF vars, IInv, Sound, SpaceIsBounded
<1>12. QED
    BY <1>4, <1>5, <1>6, <1>7, <1>8, <1>9, <1>10, <1>11 DEF Next

\* The three regions of the vector stay in order and inside it, at every
\* boundary at which makeSpace() and readFd() decide, for every size of the
\* vector, of the reserve, of extrabuf and of the messages.
THEOREM BufferStaysSound == Spec => []TypeOK
<1>1. IInv => TypeOK
    BY DEF IInv, TypeOK
<1>2. QED
    BY <1>1, InitIInv, StepIInv, PTL DEF Spec

\* The vector is at most twice as large as what it had to hold at once.
THEOREM SpaceStaysBounded == Spec => []SpaceIsBounded
<1>1. IInv => SpaceIsBounded
    BY DEF IInv
<1>2. QED
    BY <1>1, InitIInv, StepIInv, PTL DEF Spec

\* What each call does to the bytes that can be read.
LEMMA CallsKeepBytes == IInv => EachCallKeepsBytes
<1>. SUFFICES ASSUME IInv PROVE EachCallKeepsBytes
    OBVIOUS
<1>1. /\ Sound(b) /\ Readable(b) \in Seq(Byte) /\ Len(Readable(b)) = ReadableBytes(b)
      /\ ReadableBytes(b) \in Nat
    BY ReadableIsSeq DEF IInv
<1>2. Readable(b)' = Readable(b')
    BY DEF Readable, ReadableBytes
<1>3. ASSUME NEW s \in Messages, Add(s) \/ ReadFd(s) PROVE Bytes!Put(s)
    BY <1>1, <1>2, <1>3, MessageIsSeq, AppendAdds, ReadFdAdds
       DEF Add, ReadFd, Bytes!Put
<1>4. ASSUME NEW s \in Messages, Prepend(s) PROVE Bytes!PutInFront(s)
    BY <1>1, <1>2, <1>4, MessageIsSeq, PrependAdds DEF Prepend, Bytes!PutInFront
<1>5. ASSUME NEW len \in 0..MaxReadable, Drop(len) PROVE Bytes!Take(len)
  <2>1. len \in 0..ReadableBytes(b)
      BY <1>1, <1>5, SizeAssumption DEF Drop
  <2>2. QED
      BY <1>1, <1>2, <1>5, <2>1, RetrieveDrops DEF Drop, Bytes!Take
<1>6. ASSUME NEW len \in 0..MaxMessage, Reserve(len) PROVE UNCHANGED Readable(b)
    BY <1>1, <1>2, <1>6, SizeAssumption, EnsureKeeps DEF Reserve, SameBytes
<1>7. ASSUME NEW len \in 0..MaxMessage, Shrink(len) PROVE Bytes!Clear
    BY <1>1, <1>2, <1>7, SizeAssumption, ShrunkEmpties DEF Shrink, Bytes!Clear
<1>8. ASSUME DropAll PROVE Bytes!Clear
    BY <1>1, <1>2, <1>8, RetrieveAllEmpties DEF DropAll, Bytes!Clear
<1>9. QED
    BY <1>3, <1>4, <1>5, <1>6, <1>7, <1>8 DEF EachCallKeepsBytes

\* A Buffer is a queue of bytes: every call does to it what it is there for, and
\* nothing is lost, added twice or reordered when the bytes are moved, the vector
\* grows or extrabuf is used.
THEOREM BufferIsByteQueue == Spec => ImplementsByteQueue
<1>1. Init => Bytes!Init
    BY NewIsSound DEF Init, Bytes!Init
<1>2. IInv /\ [Next]_vars => [Bytes!Next]_(Readable(b))
  <2>. SUFFICES ASSUME IInv, [Next]_vars
                PROVE  Bytes!Next \/ UNCHANGED Readable(b)
      OBVIOUS
  <2>1. EachCallKeepsBytes
      BY CallsKeepBytes
  <2>2. Len(Readable(b)) = ReadableBytes(b) /\ ReadableBytes(b) \in Nat
      BY ReadableIsSeq DEF IInv
  <2>3. CASE \E s \in Messages : Add(s) \/ Prepend(s) \/ ReadFd(s)
      BY <2>1, <2>3 DEF EachCallKeepsBytes, Bytes!Next
  <2>4. CASE \E len \in 0..MaxReadable : Drop(len)
    <3>1. PICK len \in 0..MaxReadable : Drop(len)
        BY <2>4
    <3>2. Bytes!Take(len)
        BY <2>1, <3>1 DEF EachCallKeepsBytes
    <3>3. len \in 0..Len(Readable(b))
        BY <2>2, <3>1, SizeAssumption DEF Drop
    <3>4. QED
        BY <3>2, <3>3 DEF Bytes!Next
  <2>5. CASE \E len \in 0..MaxMessage : Reserve(len) \/ Shrink(len)
      BY <2>1, <2>5 DEF EachCallKeepsBytes, Bytes!Next
  <2>6. CASE DropAll
      BY <2>1, <2>6 DEF EachCallKeepsBytes, Bytes!Next
  <2>7. CASE UNCHANGED vars
      BY <2>7 DEF vars, Readable, ReadableBytes
  <2>8. QED
      BY <2>3, <2>4, <2>5, <2>6, <2>7 DEF Next
<1>3. IInv => [EachCallKeepsBytes]_vars
    BY CallsKeepBytes
<1>4. QED
    BY <1>1, <1>2, <1>3, InitIInv, StepIInv, PTL DEF Spec, ImplementsByteQueue, Bytes!Spec

-----------------------------------------------------------------------------
(* Integers in network order.                                              *)

\* Induction over the natural numbers, as a set has it: a set of them that is
\* not empty has a least member.
LEMMA LeastMember ==
    ASSUME NEW T, T \subseteq Nat, T # {}
    PROVE  \E m \in T : \A k \in T : m <= k
<1>. DEFINE R == {p \in Nat \X Nat : p[1] < p[2]}
<1>1. OpToRel(<, Nat) = R
    BY DEF OpToRel
<1>2. IsWellFoundedOn(R, Nat)
    BY <1>1, NatLessThanWellFounded
<1>3. PICK m \in T : \A k \in T : ~(<<k, m>> \in R)
    BY <1>2, WFMin, Zenon
<1>4. ASSUME NEW k \in T PROVE m <= k
  <2>1. k \in Nat /\ m \in Nat /\ <<k, m>> \in Nat \X Nat
      OBVIOUS
  <2>2. <<k, m>>[1] = k /\ <<k, m>>[2] = m
      OBVIOUS
  <2>3. ~(k < m)
      BY <1>3, <2>1, <2>2
  <2>4. QED
      BY <2>1, <2>3
<1>5. QED
    BY <1>4

\* Power is the function its equation describes.
PowersTo(n, f) ==
    f = [i \in 0..n |-> IF i = 0 THEN 1 ELSE Base * f[i - 1]]

LEMMA PowerExists == ASSUME NEW n \in Nat PROVE \E f : PowersTo(n, f)
<1>. DEFINE T == {k \in Nat : ~\E f : PowersTo(k, f)}
<1>1. ASSUME T # {} PROVE FALSE
  <2>1. PICK m \in T : \A k \in T : m <= k
      BY <1>1, LeastMember
  <2>2. m \in Nat
      OBVIOUS
  <2>3. CASE m = 0
    <3>1. PowersTo(0, [i \in 0..0 |-> 1])
        BY DEF PowersTo
    <3>2. QED
        BY <2>1, <2>3, <3>1
  <2>4. CASE m # 0
    <3>1. m - 1 \in Nat /\ m - 1 \notin T
        BY <2>1, <2>2, <2>4
    <3>2. PICK g : PowersTo(m - 1, g)
        BY <3>1
    <3>. DEFINE f == [i \in 0..m |-> IF i = 0 THEN 1 ELSE Base * g[i - 1]]
    <3>3. \A i \in 0..(m - 1) : f[i] = g[i]
      <4>1. ASSUME NEW i \in 0..(m - 1)
            PROVE  g[i] = IF i = 0 THEN 1 ELSE Base * g[i - 1]
          BY <3>2 DEF PowersTo
      <4>2. \A i \in 0..(m - 1) : i \in 0..m
          BY <2>2
      <4>3. QED
          BY <4>1, <4>2
    <3>4. f = [i \in 0..m |-> IF i = 0 THEN 1 ELSE Base * f[i - 1]]
      <4>1. ASSUME NEW i \in 0..m
            PROVE  (IF i = 0 THEN 1 ELSE Base * g[i - 1])
                      = (IF i = 0 THEN 1 ELSE Base * f[i - 1])
        <5>1. CASE i = 0
            BY <5>1
        <5>2. CASE i # 0
          <6>1. i - 1 \in 0..(m - 1)
              BY <2>2, <5>2
          <6>2. g[i - 1] = f[i - 1]
              BY <3>3, <6>1, Zenon
          <6>3. QED
              BY <6>2, Zenon
        <5>3. QED
            BY <5>1, <5>2
      <4>2. QED
          BY <4>1, Zenon
    <3>. HIDE DEF f
    <3>5. PowersTo(m, f)
        BY <3>4 DEF PowersTo
    <3>6. QED
        BY <2>1, <3>5
  <2>5. QED
      BY <2>3, <2>4
<1>2. QED
    BY <1>1

LEMMA PowerIs ==
    /\ Power[0] = 1
    /\ \A i \in 1..MaxMessage : Power[i] = Base * Power[i - 1]
<1>1. PowersTo(MaxMessage, CHOOSE f : PowersTo(MaxMessage, f))
    BY PowerExists, SizeAssumption
<1>2. PowersTo(MaxMessage, Power)
    BY <1>1 DEF Power, PowersTo
<1>3. QED
  <2>1. \A i \in 0..MaxMessage : Power[i] = IF i = 0 THEN 1 ELSE Base * Power[i - 1]
      BY <1>2 DEF PowersTo
  <2>2. QED
      BY <2>1, SizeAssumption

LEMMA PowerType == \A i \in 0..MaxMessage : Power[i] \in Nat \ {0}
<1>. DEFINE T == {k \in 0..MaxMessage : Power[k] \notin Nat \ {0}}
<1>1. ASSUME T # {} PROVE FALSE
  <2>0. T \subseteq Nat
      BY SizeAssumption
  <2>1. PICK m \in T : \A k \in T : m <= k
      BY <1>1, <2>0, LeastMember, Zenon
  <2>2. m \in 0..MaxMessage /\ Power[m] \notin Nat \ {0}
      OBVIOUS
  <2>3. m # 0
      BY <2>2, PowerIs
  <2>4. m - 1 \in 0..MaxMessage /\ m - 1 \notin T
      BY <2>1, <2>2, <2>3, SizeAssumption
  <2>5. Power[m - 1] \in Nat \ {0}
      BY <2>4
  <2>6. Power[m] = Base * Power[m - 1]
      BY <2>2, <2>3, PowerIs, SizeAssumption
  <2>7. QED
      BY <2>2, <2>5, <2>6, SizeAssumption
<1>2. QED
    BY <1>1

\* To divide by a byte's number of values more is to divide twice.
LEMMA QuotientIs ==
    ASSUME NEW d \in Nat \ {0}, NEW q \in Nat, NEW r \in Nat, r < d
    PROVE  (d * q + r) \div d = q
    OBVIOUS

LEMMA Division ==
    ASSUME NEW m \in Nat, NEW d \in Nat \ {0}
    PROVE  /\ m = d * (m \div d) + (m % d)
           /\ m \div d \in Nat
           /\ m % d \in Nat /\ m % d < d
           /\ m < d => m \div d = 0
<1>1. m = d * (m \div d) + (m % d)
    OBVIOUS
<1>2. m \div d \in Nat
    OBVIOUS
<1>3. m % d \in Nat /\ m % d < d
    OBVIOUS
<1>4. m < d => m \div d = 0
    OBVIOUS
<1>5. QED
    BY <1>1, <1>2, <1>3, <1>4

LEMMA DivideTwice ==
    ASSUME NEW m \in Nat, NEW p \in Nat \ {0}
    PROVE  (m \div (Base * p)) * Base + ((m \div p) % Base) = m \div p
<1>0. Base \in Nat \ {0}
    BY SizeAssumption
<1>1. PICK q \in Nat, r \in Nat : m = p * q + r /\ r < p /\ q = m \div p
    BY Division, Zenon
<1>2. PICK u \in Nat, v \in Nat : q = Base * u + v /\ v < Base /\ v = q % Base
    BY <1>0, Division, Zenon
<1>3. m = (Base * p) * u + (p * v + r)
  <2>1. m = p * (Base * u + v) + r
      BY <1>1, <1>2
  <2>2. p * (Base * u + v) = p * (Base * u) + p * v
      BY <1>0
  <2>3. p * (Base * u) = (Base * p) * u
      BY <1>0
  <2>4. QED
      BY <1>0, <2>1, <2>2, <2>3
<1>4. p * v + r < Base * p /\ p * v + r \in Nat /\ Base * p \in Nat \ {0}
  <2>1. p * (v + 1) <= p * Base
      BY <1>0, <1>2
  <2>2. p * (v + 1) = p * v + p /\ p * Base = Base * p
      BY <1>0
  <2>3. p * v \in Nat /\ Base * p \in Nat /\ Base * p # 0
      BY <1>0
  <2>4. QED
      BY <1>1, <2>1, <2>2, <2>3
<1>5. m \div (Base * p) = u
    BY <1>3, <1>4, QuotientIs
<1>6. (m \div (Base * p)) * Base = Base * u
    BY <1>0, <1>5
<1>7. QED
    BY <1>1, <1>2, <1>6, Zenon

\* What the first n bytes say, most significant first, if they are those of m.
LEMMA PeekReads ==
    ASSUME NEW x, NEW n \in 1..MaxMessage, NEW m \in 0..(Power[n] - 1),
           \A k \in 1..n : Readable(x)[k] = (m \div Power[n - k]) % Base
    PROVE  PeekUnsigned(x, n) = m
<1>. DEFINE s == Readable(x)
            e == [k \in 0..n |-> m \div Power[n - k]]
            Reads(d) == d = [k \in 0..n |-> IF k = 0 THEN 0 ELSE d[k - 1] * Base + s[k]]
<1>0. /\ n \in Nat /\ m \in Nat /\ n <= MaxMessage
      /\ \A k \in 0..n : n - k \in 0..MaxMessage /\ Power[n - k] \in Nat \ {0}
    BY SizeAssumption, PowerType
<1>1. e[0] = 0 /\ e[n] = m
  <2>1. Power[n] \in Nat \ {0} /\ m < Power[n]
      BY PowerType, SizeAssumption
  <2>2. m \div Power[n] = 0
      BY <1>0, <2>1, Division
  <2>3. m \div 1 = m
      BY <1>0
  <2>4. e[0] = m \div Power[n] /\ e[n] = m \div Power[0]
      BY <1>0
  <2>5. QED
      BY <2>2, <2>3, <2>4, PowerIs
<1>2. ASSUME NEW k \in 1..n PROVE e[k] = e[k - 1] * Base + s[k]
  <2>1. n - (k - 1) \in 1..MaxMessage /\ n - (k - 1) - 1 = n - k /\ k - 1 \in 0..n /\ k \in 0..n
      BY <1>0, SizeAssumption
  <2>2. Power[n - (k - 1)] = Base * Power[n - k]
      BY <2>1, PowerIs
  <2>3. (m \div (Base * Power[n - k])) * Base + ((m \div Power[n - k]) % Base)
            = m \div Power[n - k]
    <3>1. Power[n - k] \in Nat \ {0} /\ m \in Nat
        BY <1>0, <2>1
    <3>2. QED
        BY <3>1, DivideTwice
  <2>4. e[k - 1] = m \div (Base * Power[n - k]) /\ e[k] = m \div Power[n - k]
      BY <2>1, <2>2
  <2>5. QED
      BY <2>3, <2>4
<1>. HIDE DEF e, s
<1>3. ASSUME NEW k \in 0..n
      PROVE  e[k] = IF k = 0 THEN 0 ELSE e[k - 1] * Base + s[k]
    BY <1>0, <1>1, <1>2
<1>4. Reads(e)
    BY <1>3, Zenon DEF e
<1>5. PICK d : Reads(d) /\ PeekUnsigned(x, n) = d[n]
    BY <1>4 DEF PeekUnsigned, s
<1>6. \A k \in 0..n : d[k] = IF k = 0 THEN 0 ELSE d[k - 1] * Base + s[k]
    BY <1>5
<1>. DEFINE T == {k \in 0..n : d[k] # e[k]}
<1>7. ASSUME T # {} PROVE FALSE
  <2>1. T \subseteq Nat
      BY <1>0
  <2>2. PICK k \in T : \A j \in T : k <= j
      BY <1>7, <2>1, LeastMember, Zenon
  <2>3. k \in 0..n /\ d[k] # e[k]
      OBVIOUS
  <2>4. k # 0
      BY <1>1, <1>6, <2>3
  <2>5. k - 1 \in 0..n /\ k - 1 \notin T /\ k \in 1..n
      BY <1>0, <2>2, <2>3, <2>4
  <2>6. d[k - 1] = e[k - 1]
      BY <2>5
  <2>7. QED
      BY <1>2, <1>6, <2>3, <2>4, <2>5, <2>6, Zenon
<1>8. QED
  <2>1. n \in 0..n
      BY <1>0
  <2>2. QED
      BY <1>1, <1>5, <1>7, <2>1

\* The sign comes back.
LEMMA SignReturns ==
    ASSUME NEW n \in 1..MaxMessage, NEW i \in Ints(n)
    PROVE  /\ i % Power[n] \in 0..(Power[n] - 1)
           /\ Signed(i % Power[n], n) = i
<1>. DEFINE p == Power[n]
<1>1. p \in Nat \ {0} /\ i \in Int /\ -p <= 2 * i /\ 2 * i < p
    BY PowerType, SizeAssumption DEF Ints
<1>. HIDE DEF p
<1>2. i % p \in 0..(p - 1)
    BY <1>1
<1>3. CASE i >= 0
  <2>1. i % p = i
      BY <1>1, <1>3
  <2>2. QED
      BY <1>1, <1>2, <2>1 DEF Signed, p
<1>4. CASE i < 0
  <2>1. i % p = i + p
      BY <1>1, <1>4
  <2>2. QED
      BY <1>1, <1>2, <1>4, <2>1 DEF Signed, p
<1>5. QED
    BY <1>1, <1>3, <1>4

\* An integer that is put in front of the readable bytes in network order is
\* what peekInt32(), peekInt16() or peekInt8() finds there, with its sign, for
\* any number of values a byte has and any sizes (Buffer.cpp:185, 208).
THEOREM IntsAlwaysSurvive == Spec => []IntsSurvive
<1>1. IInv => IntsSurvive
  <2>. SUFFICES ASSUME Sound(b), NEW n \in IntSizes, n <= PrependableBytes(b),
                       NEW i \in Ints(n)
                PROVE  PeekInt(PrependBytes(b, BigEndian(i, n)), n) = i
      BY DEF IInv, IntsSurvive
  <2>. DEFINE s == BigEndian(i, n)
              m == i % Power[n]
              y == PrependBytes(b, s)
  <2>1. n \in 1..MaxMessage
      BY SizeAssumption
  <2>2. m \in 0..(Power[n] - 1) /\ Signed(m, n) = i
      BY <2>1, SignReturns
  <2>. HIDE DEF m
  <2>3. ASSUME NEW k \in 1..n
        PROVE  s[k] = (m \div Power[n - k]) % Base /\ s[k] \in Byte
    <3>1. s[k] = (m \div Power[n - k]) % Base
        BY DEF BigEndian, m
    <3>2. m \in Nat /\ Power[n - k] \in Nat \ {0} /\ Base \in Nat \ {0}
        BY <2>1, <2>2, PowerType, SizeAssumption
    <3>3. m \div Power[n - k] \in Nat
        BY <3>2, Division
    <3>4. s[k] \in Nat /\ s[k] < Base
        BY <3>1, <3>2, <3>3, Division
    <3>5. QED
        BY <3>1, <3>2, <3>4 DEF Byte
  <2>4. s \in Seq(Byte) /\ Len(s) = n
    <3>1. s = [k \in 1..n |-> s[k]]
        BY DEF BigEndian
    <3>. HIDE DEF s
    <3>2. [k \in 1..n |-> s[k]] \in Seq(Byte)
        BY <2>1, <2>3, IsASeq
    <3>3. QED
        BY <2>1, <3>1, <3>2, LenProperties
  <2>5. Readable(y) = s \o Readable(b) /\ Readable(b) \in Seq(Byte)
      BY <2>4, PrependAdds, ReadableIsSeq
  <2>6. \A k \in 1..n : Readable(y)[k] = s[k]
      BY <2>1, <2>4, <2>5
  <2>7. PeekUnsigned(y, n) = m
      BY <2>1, <2>2, <2>3, <2>6, PeekReads
  <2>8. QED
      BY <2>2, <2>7 DEF PeekInt
<1>2. QED
    BY <1>1, InitIInv, StepIInv, PTL DEF Spec
==============================================================================
