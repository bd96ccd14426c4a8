-------------------------- MODULE HttpServerProofs --------------------------
(***************************************************************************)
(* Proofs about HttpServer, for any scripts, any length of a response and  *)
(* any room in the kernel: what is sent, when the connection is shut down, *)
(* what the parser makes of a script however it is cut, and that a peer    *)
(* which waits for its answers loses none.                                 *)
(***************************************************************************)
EXTENDS HttpServer, SequenceTheorems, WellFoundedInduction, TLAPS

\* A byte of a response, as the history tells it.
Bytes == Nat \X Nat

\* The types of what goes out.
OutTypes ==
    /\ wire \in Seq(Bytes) /\ outputBuffer_ \in Seq(Bytes)
    /\ got \in Nat /\ got <= Len(wire)
    /\ answers \in Seq([code: Nat, close: BOOLEAN])
    /\ writing \in BOOLEAN /\ shut \in BOOLEAN

\* EPOLLOUT is asked for exactly while output waits; nothing waits behind a
\* shutdown, which comes only after shutdown().
OutputInv ==
    /\ state_ = "kDisconnected" => ~writing
    /\ state_ # "kDisconnected" => (writing <=> outputBuffer_ # <<>>)
    /\ shut => outputBuffer_ = <<>> /\ state_ # "kConnected"
    /\ (state_ = "kDisconnected" /\ ~fin) => outputBuffer_ = <<>>

\* After a response that closes the connection is no longer connected.
ClosingInv ==
    \A k \in DOMAIN answers : answers[k].close => state_ # "kConnected"

SendInv == OutTypes /\ OutputInv /\ WholeInOrder /\ ClosingInv

\* write(2) of n bytes takes from none to all of them.
LEMMA WritesSome ==
    ASSUME OutTypes, NEW n \in Nat, NEW k \in Writes(n)
    PROVE  k \in Nat /\ k <= n
<1>1. Len(wire) \in Nat
  BY DEF OutTypes
<1> DEFINE room == SendBuffer - (Len(wire) - got)
<1>2. room \in Int
  BY <1>1, ResponseAssumption DEF OutTypes
<1>3. k \in IF room = 0 THEN {0} ELSE 1..(IF room < n THEN room ELSE n)
  BY DEF Writes
<1> HIDE DEF room
<1> QED
  BY <1>2, <1>3

\* The number of a byte says its response and its place.
LEMMA PlaceOfByte ==
    ASSUME NEW m \in Nat, NEW j \in 1..ResponseLen
    PROVE  /\ 1 + ((m * ResponseLen + j - 1) \div ResponseLen) = m + 1
           /\ 1 + ((m * ResponseLen + j - 1) % ResponseLen) = j
           /\ m * ResponseLen \in Nat
<1>1. ResponseLen \in Nat /\ ResponseLen > 0
  BY ResponseAssumption
<1>2. m * ResponseLen \in Nat
  BY <1>1
<1>3. j - 1 \in Nat /\ j - 1 < ResponseLen
  BY <1>1
<1>4. m * ResponseLen + j - 1 = ResponseLen * m + (j - 1)
  BY <1>1, <1>3
<1>5. (ResponseLen * m + (j - 1)) \div ResponseLen = m
  BY <1>1, <1>3
<1>6. (ResponseLen * m + (j - 1)) % ResponseLen = j - 1
  BY <1>1, <1>3
<1> QED
  BY <1>1, <1>2, <1>3, <1>4, <1>5, <1>6

\* What is taken from the front of a sequence of bytes and what is left.
LEMMA SplitSequence ==
    ASSUME NEW S, NEW s \in Seq(S), NEW k \in Nat, k <= Len(s)
    PROVE  /\ SubSeq(s, 1, k) \in Seq(S) /\ Len(SubSeq(s, 1, k)) = k
           /\ SubSeq(s, k + 1, Len(s)) \in Seq(S)
           /\ Len(SubSeq(s, k + 1, Len(s))) = Len(s) - k
           /\ SubSeq(s, 1, k) \o SubSeq(s, k + 1, Len(s)) = s
<1>1. Len(s) \in Nat
  OBVIOUS
<1>2. SubSeq(s, 1, k) \in Seq(S) /\ Len(SubSeq(s, 1, k)) = k
  BY <1>1
<1>3. /\ SubSeq(s, k + 1, Len(s)) \in Seq(S)
      /\ Len(SubSeq(s, k + 1, Len(s))) = Len(s) - k
  BY <1>1
<1>4. SubSeq(s, 1, k) \o SubSeq(s, k + 1, Len(s)) = SubSeq(s, 1, Len(s))
  <2>1. 1 \in 1..(Len(s) + 1) /\ k \in (1 - 1)..Len(s) /\ Len(s) \in k..Len(s)
    BY <1>1
  <2> QED
    BY <2>1, ConcatAdjacentSubSeq, Zenon
<1>5. SubSeq(s, 1, Len(s)) = s
  BY <1>1
<1> QED
  BY <1>2, <1>3, <1>4, <1>5, Zenon

\* One response more.
LEMMA OneResponseMore ==
    ASSUME NEW m \in Nat
    PROVE  /\ BytesOf(m) \in Seq(Bytes)
           /\ [j \in 1..ResponseLen |-> <<m + 1, j>>] \in Seq(Bytes)
           /\ Len([j \in 1..ResponseLen |-> <<m + 1, j>>]) = ResponseLen
           /\ BytesOf(m) \o [j \in 1..ResponseLen |-> <<m + 1, j>>] = BytesOf(m + 1)
<1> DEFINE more == [j \in 1..ResponseLen |-> <<m + 1, j>>]
<1>1. ResponseLen \in Nat /\ ResponseLen > 0
  BY ResponseAssumption
<1>2. \A n \in Nat : /\ n * ResponseLen \in Nat
                     /\ BytesOf(n) \in Seq(Bytes) /\ Len(BytesOf(n)) = n * ResponseLen
  <2> SUFFICES ASSUME NEW n \in Nat
               PROVE  /\ n * ResponseLen \in Nat
                      /\ BytesOf(n) \in Seq(Bytes)
                      /\ Len(BytesOf(n)) = n * ResponseLen
    OBVIOUS
  <2>1. n * ResponseLen \in Nat
    BY <1>1
  <2>2. PICK l \in Nat : l = n * ResponseLen
    BY <2>1
  <2>3. \A i \in 1..l : /\ 1 + ((i - 1) \div ResponseLen) \in Nat
                        /\ 1 + ((i - 1) % ResponseLen) \in Nat
    BY <1>1
  <2> QED
    BY <2>2, <2>3 DEF BytesOf, Bytes
<1>3. more \in Seq(Bytes) /\ Len(more) = ResponseLen
  BY <1>1 DEF Bytes
<1>4. (m + 1) * ResponseLen = m * ResponseLen + ResponseLen
  BY <1>1
<1>5. PICK l \in Nat : l = m * ResponseLen
  BY <1>2
<1>6. /\ Len(BytesOf(m)) = l /\ Len(BytesOf(m + 1)) = l + ResponseLen
      /\ BytesOf(m) \in Seq(Bytes) /\ BytesOf(m + 1) \in Seq(Bytes)
  BY <1>2, <1>4, <1>5
<1> DEFINE p == BytesOf(m)
           q == BytesOf(m + 1)
<1>7. \A i \in 1..l : p[i] = q[i]
  <2>1. \A i \in 1..l : i \in 1..(m * ResponseLen) /\ i \in 1..((m + 1) * ResponseLen)
    BY <1>1, <1>4, <1>5
  <2> QED
    BY <2>1, Zenon DEF BytesOf
<1>8. \A j \in 1..ResponseLen : q[l + j] = more[j]
  <2> SUFFICES ASSUME NEW j \in 1..ResponseLen
               PROVE  q[l + j] = more[j]
    OBVIOUS
  <2> DEFINE i == l + j
  <2>1. i \in 1..((m + 1) * ResponseLen)
    BY <1>1, <1>4, <1>5
  <2>2. /\ 1 + ((i - 1) \div ResponseLen) = m + 1
        /\ 1 + ((i - 1) % ResponseLen) = j
    BY <1>5, PlaceOfByte
  <2> HIDE DEF i
  <2>3. q[i] = <<1 + ((i - 1) \div ResponseLen), 1 + ((i - 1) % ResponseLen)>>
    BY <2>1, Zenon DEF BytesOf
  <2>4. more[j] = <<m + 1, j>>
    BY Zenon
  <2>5. q[i] = more[j]
    BY <2>2, <2>3, <2>4, Zenon
  <2> QED
    BY <2>5 DEF i
<1> HIDE DEF more, p, q
<1>9. /\ p \in Seq(Bytes) /\ Len(p) = l /\ more \in Seq(Bytes) /\ Len(more) = ResponseLen
      /\ q \in Seq(Bytes) /\ Len(q) = l + ResponseLen
  BY <1>3, <1>6 DEF more, p, q
<1>10. p \o more \in Seq(Bytes) /\ Len(p \o more) = l + ResponseLen
  BY <1>1, <1>5, <1>9
<1>11. \A i \in 1..(l + ResponseLen) : (p \o more)[i] = q[i]
  <2> SUFFICES ASSUME NEW i \in 1..(l + ResponseLen)
               PROVE  (p \o more)[i] = q[i]
    OBVIOUS
  <2>0. i <= l \/ i > l
    BY <1>1, <1>5
  <2>1. CASE i <= l
    <3>1. (p \o more)[i] = p[i]
      BY <1>1, <1>5, <1>9, <2>1
    <3> QED
      BY <1>1, <1>5, <1>7, <2>1, <3>1
  <2>2. CASE i > l
    <3>1. PICK j \in 1..ResponseLen : i = l + j
      <4>1. i - l \in 1..ResponseLen /\ i = l + (i - l)
        BY <1>1, <1>5, <2>2
      <4> QED
        BY <4>1
    <3>2. (p \o more)[i] = more[j]
      BY <1>1, <1>5, <1>9, <3>1
    <3> QED
      BY <1>8, <3>1, <3>2
  <2> QED
    BY <2>0, <2>1, <2>2, Zenon
<1>12. p \o more = q
  BY <1>1, <1>5, <1>9, <1>10, <1>11
<1> QED
  BY <1>9, <1>12 DEF more, p, q

\* Appending to a sequence of bytes is associative.
LEMMA BytesAssociate ==
    ASSUME NEW x \in Seq(Bytes), NEW y \in Seq(Bytes), NEW z \in Seq(Bytes)
    PROVE  (x \o y) \o z = x \o (y \o z)
  BY ConcatAssociative, SMT

\* write(2) of what waits, or of a new message: the stream goes on where it was.
LEMMA WritingGoesOn ==
    ASSUME NEW w \in Seq(Bytes), NEW s \in Seq(Bytes), NEW k \in Nat, k <= Len(s)
    PROVE  /\ w \o SubSeq(s, 1, k) \in Seq(Bytes)
           /\ SubSeq(s, k + 1, Len(s)) \in Seq(Bytes)
           /\ Len(w \o SubSeq(s, 1, k)) >= Len(w)
           /\ SubSeq(s, k + 1, Len(s)) # <<>> <=> k < Len(s)
           /\ (w \o SubSeq(s, 1, k)) \o SubSeq(s, k + 1, Len(s)) = w \o s
<1> DEFINE a == SubSeq(s, 1, k)
           b == SubSeq(s, k + 1, Len(s))
<1>1. /\ a \in Seq(Bytes) /\ b \in Seq(Bytes) /\ Len(b) = Len(s) - k
      /\ a \o b = s
  BY SplitSequence
<1> HIDE DEF a, b
<1>2. (w \o a) \o b = w \o (a \o b)
  <2>1. a \in Seq(Bytes) /\ b \in Seq(Bytes)
    BY <1>1
  <2> QED
    BY <2>1, BytesAssociate, Zenon
<1>3. w \o a \in Seq(Bytes) /\ Len(w \o a) >= Len(w)
  BY <1>1
<1>4. b # <<>> <=> k < Len(s)
  BY <1>1
<1> QED
  BY <1>1, <1>2, <1>3, <1>4 DEF a, b

\* sendInLoop() while connected: one response more, or nothing.
LEMMA SendInLoopKeeps ==
    ASSUME SendInv, state_ = "kConnected",
           NEW r \in [code: Nat, close: BOOLEAN], SendInLoop(r)
    PROVE  /\ wire' \in Seq(Bytes) /\ outputBuffer_' \in Seq(Bytes)
           /\ Len(wire') >= Len(wire)
           /\ answers' \in Seq([code: Nat, close: BOOLEAN]) /\ writing' \in BOOLEAN
           /\ writing' <=> outputBuffer_' # <<>>
           /\ wire' \o outputBuffer_' = BytesOf(Len(answers'))
           /\ answers' = answers \/ answers' = Append(answers, r)
<1>1. CASE ~(~writing /\ outputBuffer_ = <<>>)
  BY <1>1 DEF SendInLoop, outVars, SendInv, OutTypes, OutputInv, WholeInOrder
<1>2. CASE ~writing /\ outputBuffer_ = <<>>
  <2> DEFINE bytes == [j \in 1..ResponseLen |-> <<Len(answers) + 1, j>>]
  <2>1. Len(answers) \in Nat /\ wire \in Seq(Bytes)
    BY DEF SendInv, OutTypes
  <2>2. /\ bytes \in Seq(Bytes) /\ Len(bytes) = ResponseLen
        /\ BytesOf(Len(answers)) \o bytes = BytesOf(Len(answers) + 1)
    BY <2>1, OneResponseMore
  <2>3. wire = BytesOf(Len(answers))
    <3>1. wire \o <<>> = wire
      BY <2>1
    <3> QED
      BY <1>2, <3>1 DEF SendInv, WholeInOrder
  <2>4. PICK n \in Writes(ResponseLen) :
            /\ wire' = wire \o SubSeq(bytes, 1, n)
            /\ outputBuffer_' = SubSeq(bytes, n + 1, ResponseLen)
            /\ writing' = (n < ResponseLen)
            /\ answers' = Append(answers, r)
    BY <1>2 DEF SendInLoop
  <2>5. ResponseLen \in Nat
    BY ResponseAssumption
  <2>6. n \in Nat /\ n <= ResponseLen
    BY <2>5, WritesSome DEF SendInv
  <2> HIDE DEF bytes
  <2>7. /\ wire' \in Seq(Bytes) /\ outputBuffer_' \in Seq(Bytes)
        /\ Len(wire') >= Len(wire)
        /\ outputBuffer_' # <<>> <=> n < ResponseLen
        /\ wire' \o outputBuffer_' = wire \o bytes
    BY <2>1, <2>2, <2>4, <2>6, WritingGoesOn
  <2>8. answers' \in Seq([code: Nat, close: BOOLEAN]) /\ Len(answers') = Len(answers) + 1
    BY <2>4 DEF SendInv, OutTypes
  <2>9. wire' \o outputBuffer_' = BytesOf(Len(answers'))
    BY <2>2, <2>3, <2>7, <2>8
  <2>10. writing' \in BOOLEAN /\ (writing' <=> outputBuffer_' # <<>>)
    <3>1. writing' = (n < ResponseLen)
      BY <2>4, Zenon
    <3>2. (n < ResponseLen) \in BOOLEAN
      OBVIOUS
    <3>3. writing' \in BOOLEAN
      BY <3>1, <3>2, Zenon
    <3>4. writing' <=> n < ResponseLen
      BY <3>1, Zenon
    <3> QED
      BY <2>7, <3>3, <3>4, Zenon
  <2> QED
    BY <2>4, <2>7, <2>8, <2>9, <2>10
<1> QED
  BY <1>1, <1>2

\* Steps that leave alone what goes out.
LEMMA SendInvUnchanged ==
    ASSUME SendInv,
           UNCHANGED <<wire, outputBuffer_, writing, answers, state_, shut, got>>,
           fin' = fin \/ fin' = TRUE
    PROVE  SendInv'
<1>1. OutTypes'
  BY DEF SendInv, OutTypes
<1>2. OutputInv'
  BY DEF SendInv, OutputInv
<1>3. WholeInOrder'
  BY DEF SendInv, WholeInOrder, BytesOf
<1>4. ClosingInv'
  BY DEF SendInv, ClosingInv
<1> QED
  BY <1>1, <1>2, <1>3, <1>4 DEF SendInv

\* A response, with or without the shutdown() behind it.
LEMMA RespondKeeps ==
    ASSUME SendInv, NEW r \in [code: Nat, close: BOOLEAN], Respond(r),
           UNCHANGED <<got, fin>>
    PROVE  SendInv'
<1>1. CASE state_ # "kConnected"
  <2>1. UNCHANGED <<wire, outputBuffer_, writing, answers, state_, shut, got, fin>>
    BY <1>1 DEF Respond, outVars
  <2> QED
    BY <2>1, SendInvUnchanged
<1>2. CASE state_ = "kConnected"
  <2>1. /\ SendInLoop(r)
        /\ \/ r.close /\ state_' = "kDisconnecting" /\ ShutdownInLoop
           \/ ~r.close /\ UNCHANGED <<state_, shut>>
    BY <1>2 DEF Respond
  <2>2. /\ wire' \in Seq(Bytes) /\ outputBuffer_' \in Seq(Bytes)
        /\ Len(wire') >= Len(wire)
        /\ answers' \in Seq([code: Nat, close: BOOLEAN]) /\ writing' \in BOOLEAN
        /\ writing' <=> outputBuffer_' # <<>>
        /\ wire' \o outputBuffer_' = BytesOf(Len(answers'))
        /\ answers' = answers \/ answers' = Append(answers, r)
    BY <1>2, <2>1, SendInLoopKeeps
  <2>3. shut = FALSE
    BY <1>2 DEF SendInv, OutTypes, OutputInv
  <2>4. /\ state_' # "kDisconnected" /\ shut' \in BOOLEAN
        /\ shut' => outputBuffer_' = <<>> /\ state_' # "kConnected"
        /\ r.close => state_' # "kConnected"
    BY <1>2, <2>1, <2>2, <2>3 DEF ShutdownInLoop
  <2>5. OutTypes'
    <3>1. got' \in Nat /\ got' <= Len(wire')
      BY <2>2 DEF SendInv, OutTypes
    <3> QED
      BY <2>2, <2>4, <3>1 DEF OutTypes
  <2>6. OutputInv'
    BY <2>2, <2>4 DEF OutputInv
  <2>7. \A k \in DOMAIN answers' :
            answers'[k].close => k = Len(answers') /\ r.close
    <3>1. \A k \in 1..Len(answers) : ~answers[k].close
      BY <1>2 DEF SendInv, ClosingInv, OutTypes
    <3>2. CASE answers' = answers
      BY <3>1, <3>2 DEF SendInv, OutTypes
    <3>3. CASE answers' = Append(answers, r)
      BY <3>1, <3>3 DEF SendInv, OutTypes
    <3> QED
      BY <2>2, <3>2, <3>3
  <2>8. WholeInOrder'
    BY <2>2, <2>7 DEF WholeInOrder, BytesOf
  <2>9. ClosingInv'
    BY <2>4, <2>7 DEF ClosingInv
  <2> QED
    BY <2>5, <2>6, <2>8, <2>9 DEF SendInv
<1> QED
  BY <1>1, <1>2

LEMMA InvInit == Init => SendInv
<1> SUFFICES ASSUME Init PROVE SendInv
  OBVIOUS
<1>1. BytesOf(0) = <<>>
  <2>1. 1..(0 * ResponseLen) = {}
    BY ResponseAssumption
  <2> QED
    BY <2>1 DEF BytesOf
<1>2. Len(answers) = 0 /\ wire \o outputBuffer_ = <<>>
  BY DEF Init
<1>3. wire \o outputBuffer_ = BytesOf(Len(answers))
  BY <1>1, <1>2, Zenon
<1>4. DOMAIN answers = {} /\ Len(wire) = 0
  BY DEF Init
<1>5. <<>> \in Seq(Bytes) /\ <<>> \in Seq([code: Nat, close: BOOLEAN])
  OBVIOUS
<1>6. OutTypes
  <2>1. got \in Nat /\ got <= Len(wire)
    BY <1>4 DEF Init
  <2>2. wire = <<>> /\ outputBuffer_ = <<>> /\ answers = <<>>
    BY DEF Init
  <2>3. writing \in BOOLEAN /\ shut \in BOOLEAN
    BY DEF Init
  <2> QED
    BY <1>5, <2>1, <2>2, <2>3, Zenon DEF OutTypes
<1>7. OutputInv
  BY DEF Init, OutputInv
<1> QED
  BY <1>3, <1>4, <1>6, <1>7 DEF SendInv, WholeInOrder, ClosingInv

\* handleWrite(): the stream goes on, and a shutdown() that waited is made up
\* for only when nothing is left.
LEMMA HandleWriteKeeps ==
    ASSUME SendInv, HandleWrite
    PROVE  SendInv'
<1>1. wire \in Seq(Bytes) /\ outputBuffer_ \in Seq(Bytes)
  BY DEF SendInv, OutTypes
<1>2. PICK n \in Writes(Len(outputBuffer_)) :
          /\ wire' = wire \o SubSeq(outputBuffer_, 1, n)
          /\ outputBuffer_' = SubSeq(outputBuffer_, n + 1, Len(outputBuffer_))
  BY DEF HandleWrite
<1>3. Len(outputBuffer_) \in Nat
  BY <1>1
<1>4. n \in Nat /\ n <= Len(outputBuffer_)
  BY <1>2, <1>3, WritesSome DEF SendInv
<1>5. /\ wire' \in Seq(Bytes) /\ outputBuffer_' \in Seq(Bytes)
      /\ Len(wire') >= Len(wire)
      /\ wire' \o outputBuffer_' = wire \o outputBuffer_
  BY <1>1, <1>2, <1>4, WritingGoesOn
<1>6. writing /\ outputBuffer_ # <<>> /\ ~shut /\ state_ # "kDisconnected"
  BY DEF HandleWrite, SendInv, OutTypes, OutputInv
<1>7. UNCHANGED <<answers, got, fin, state_>> /\ (writing' = (outputBuffer_' # <<>>))
  BY DEF HandleWrite, peerVars
<1>8. shut' \in BOOLEAN /\ (shut' => outputBuffer_' = <<>> /\ state_ # "kConnected")
  BY <1>6, <1>7 DEF HandleWrite, ShutdownInLoop, SendInv, OutTypes
<1>9. writing' \in BOOLEAN /\ (writing' <=> outputBuffer_' # <<>>)
  <2>1. (outputBuffer_' # <<>>) \in BOOLEAN
    OBVIOUS
  <2>2. writing' = (outputBuffer_' # <<>>)
    BY <1>7
  <2> QED
    BY <2>1, <2>2, Zenon
<1>10. OutTypes'
  <2>1. got' \in Nat /\ got' <= Len(wire')
    BY <1>1, <1>5, <1>7 DEF SendInv, OutTypes
  <2> QED
    BY <1>5, <1>7, <1>8, <1>9, <2>1 DEF SendInv, OutTypes
<1>11. OutputInv'
  BY <1>6, <1>7, <1>8, <1>9 DEF OutputInv
<1>12. WholeInOrder'
  BY <1>5, <1>7 DEF SendInv, WholeInOrder, BytesOf
<1>13. ClosingInv'
  BY <1>7 DEF SendInv, ClosingInv
<1> QED
  BY <1>10, <1>11, <1>12, <1>13 DEF SendInv

LEMMA HandleCloseKeeps ==
    ASSUME SendInv, HandleClose
    PROVE  SendInv'
<1>1. /\ UNCHANGED <<wire, outputBuffer_, answers, shut, got, fin>>
      /\ state_' = "kDisconnected" /\ writing' = FALSE
      /\ fin \/ shut
  BY DEF HandleClose, peerVars
<1>2. OutTypes'
  BY <1>1 DEF SendInv, OutTypes
<1>3. OutputInv'
  BY <1>1 DEF SendInv, OutputInv
<1>4. WholeInOrder'
  BY <1>1 DEF SendInv, WholeInOrder, BytesOf
<1>5. ClosingInv'
  BY <1>1 DEF ClosingInv
<1> QED
  BY <1>2, <1>3, <1>4, <1>5 DEF SendInv

\* What is asked of Response() is a record of a response.
LEMMA ResponseType ==
    ASSUME NEW request
    PROVE  Response(request) \in [code: Nat, close: BOOLEAN]
BY DEF Response

LEMMA InvNext == SendInv /\ [Next]_vars => SendInv'
<1> SUFFICES ASSUME SendInv, [Next]_vars PROVE SendInv'
  OBVIOUS
<1>1. CASE HandleRead
  BY <1>1, SendInvUnchanged DEF HandleRead, peerVars, outVars
<1>2. CASE HandleClose
  BY <1>2, HandleCloseKeeps
<1>3. CASE HandleWrite
  BY <1>3, HandleWriteKeeps
<1>4. CASE Incomplete
  BY <1>4, SendInvUnchanged DEF Incomplete, peerVars, outVars
<1>5. CASE RequestLine
  BY <1>5, SendInvUnchanged DEF RequestLine, peerVars, outVars
<1>6. CASE RejectLine
  <2>1. [code |-> 400, close |-> TRUE] \in [code: Nat, close: BOOLEAN]
    OBVIOUS
  <2> QED
    BY <1>6, <2>1, RespondKeeps DEF RejectLine, peerVars
<1>7. CASE MethodIsSet
  BY <1>7, SendInvUnchanged DEF MethodIsSet, peerVars, outVars
<1>8. CASE HeaderLine
  BY <1>8, SendInvUnchanged DEF HeaderLine, peerVars, outVars
<1>9. CASE EndOfHeaders
  BY <1>9, SendInvUnchanged DEF EndOfHeaders, peerVars, outVars
<1>10. CASE OnRequest
  BY <1>10, ResponseType, RespondKeeps DEF OnRequest, peerVars
<1>11. CASE PeerSends
  BY <1>11, SendInvUnchanged DEF PeerSends, outVars
<1>12. CASE PeerReads
  <2>1. /\ UNCHANGED <<wire, outputBuffer_, writing, answers, state_, shut, fin>>
        /\ got' = Len(wire)
    BY <1>12 DEF PeerReads, outVars
  <2>2. OutTypes'
    BY <2>1 DEF SendInv, OutTypes
  <2>3. OutputInv' /\ ClosingInv'
    BY <2>1 DEF SendInv, OutputInv, ClosingInv
  <2>4. WholeInOrder'
    BY <2>1 DEF SendInv, WholeInOrder, BytesOf
  <2> QED
    BY <2>2, <2>3, <2>4 DEF SendInv
<1>13. CASE PeerCloses
  BY <1>13, SendInvUnchanged DEF PeerCloses, outVars
<1>14. CASE UNCHANGED vars
  BY <1>14, SendInvUnchanged DEF vars, peerVars, outVars
<1> QED
  BY <1>1, <1>2, <1>3, <1>4, <1>5, <1>6, <1>7, <1>8, <1>9, <1>10, <1>11, <1>12, <1>13,
     <1>14 DEF Next, LoopStep

-----------------------------------------------------------------------------
\* The connection is shut down, or closed before the peer has closed, only when
\* nothing is left to be written: handleWrite() makes up for a shutdown() that
\* found output waiting (HttpServer.cpp:75-84, TcpConnection.cpp:183).
THEOREM ClosesWhenWrittenAlways == Spec => []ClosesWhenWritten
<1>1. SendInv => ClosesWhenWritten
  BY DEF SendInv, OutputInv, ClosesWhenWritten
<1> QED
  BY <1>1, InvInit, InvNext, PTL DEF Spec

\* The kernel's bytes and those that wait are whole responses in order, and
\* nothing comes after one that closes, however little write(2) takes at a time
\* (TcpConnection.cpp:216-245).
THEOREM AnswersStayWhole == Spec => []WholeInOrder
<1>1. SendInv => WholeInOrder
  BY DEF SendInv
<1> QED
  BY <1>1, InvInit, InvNext, PTL DEF Spec

-----------------------------------------------------------------------------
(* Induction, and functions that are defined by it.                        *)

\* Induction, as a set has it: a set of natural numbers that is not empty has
\* a least member.
LEMMA LeastMember ==
    ASSUME NEW T, T \subseteq Nat, T # {}
    PROVE  \E m \in T : \A k \in T : m <= k
<1> DEFINE R == {p \in Nat \X Nat : p[1] < p[2]}
<1>1. OpToRel(<, Nat) = R
  BY DEF OpToRel
<1>2. IsWellFoundedOn(R, Nat)
  BY <1>1, NatLessThanWellFounded
<1>3. PICK m \in T : \A k \in T : ~(<<k, m>> \in R)
  BY <1>2, WFMin, Zenon
<1>4. ASSUME NEW k \in T PROVE m <= k
  <2>1. k \in Nat /\ m \in Nat /\ <<k, m>> \in Nat \X Nat
    OBVIOUS
  <2>2. <<k, m>>[1] = k /\ <<k, m>>[2] = m
    OBVIOUS
  <2>3. ~(k < m)
    BY <1>3, <2>1, <2>2
  <2> QED
    BY <2>1, <2>3
<1> QED
  BY <1>4

\* What holds of 0, and of the next number wherever it holds, holds up to n.
LEMMA UpTo ==
    ASSUME NEW T, NEW n \in Nat, 0 \in T, \A k \in 1..n : k - 1 \in T => k \in T
    PROVE  \A k \in 0..n : k \in T
<1> DEFINE U == {k \in 0..n : k \notin T}
<1>1. ASSUME U # {} PROVE FALSE
  <2>1. U \subseteq Nat
    OBVIOUS
  <2>2. PICK m \in U : \A k \in U : m <= k
    BY <1>1, <2>1, LeastMember, Zenon
  <2>3. m \in 0..n /\ m \notin T
    OBVIOUS
  <2>4. m # 0
    BY <2>3
  <2>5. m \in 1..n /\ m - 1 \in 0..n /\ ~(m <= m - 1)
    BY <2>3, <2>4
  <2>6. m - 1 \in T
    BY <2>2, <2>5
  <2> QED
    BY <2>3, <2>5, <2>6
<1> QED
  BY <1>1

\* A recursive equation over 0..n has a solution.
Solves(f, a, n, step) ==
    f = [k \in 0..n |-> IF k = 0 THEN a ELSE step[k][f[k - 1]]]

LEMMA Recursion ==
    ASSUME NEW S, NEW a \in S, NEW n \in Nat, NEW step \in [1..n -> [S -> S]]
    PROVE  \E f \in [0..n -> S] : Solves(f, a, n, step)
<1> DEFINE Solved(m, f) == /\ f[0] = a
                           /\ \A k \in 1..m : f[k] = step[k][f[k - 1]]
           T == {m \in 0..n : \E f \in [0..n -> S] : Solved(m, f)}
<1>1. 0 \in T
  <2>1. [k \in 0..n |-> a] \in [0..n -> S] /\ Solved(0, [k \in 0..n |-> a])
    OBVIOUS
  <2>2. 0 \in 0..n
    OBVIOUS
  <2> HIDE DEF Solved
  <2> QED
    BY <2>1, <2>2
<1>2. ASSUME NEW m \in 1..n, m - 1 \in T PROVE m \in T
  <2>1. PICK g \in [0..n -> S] : Solved(m - 1, g)
    BY <1>2
  <2> DEFINE f == [g EXCEPT ![m] = step[m][g[m - 1]]]
  <2>2. m \in 0..n /\ m - 1 \in 0..n
    OBVIOUS
  <2>3. g[m - 1] \in S /\ step[m] \in [S -> S]
    BY <2>2
  <2>4. step[m][g[m - 1]] \in S
    BY <2>3
  <2>5. /\ f \in [0..n -> S] /\ f[m] = step[m][g[m - 1]]
        /\ \A k \in 0..n : k # m => f[k] = g[k]
    BY <2>2, <2>4
  <2> HIDE DEF f
  <2>6. f[0] = a
    BY <2>1, <2>5
  <2>7. ASSUME NEW k \in 1..m PROVE f[k] = step[k][f[k - 1]]
    <3>1. k - 1 \in 0..n /\ k - 1 # m /\ k \in 0..n
      OBVIOUS
    <3>2. f[k - 1] = g[k - 1]
      BY <2>5, <3>1
    <3>3. CASE k = m
      BY <2>5, <3>2, <3>3
    <3>4. CASE k # m
      <4>1. k \in 1..(m - 1)
        BY <3>4
      <4> QED
        BY <2>1, <2>5, <3>1, <3>2, <3>4, <4>1
    <3> QED
      BY <3>3, <3>4
  <2>8. Solved(m, f)
    BY <2>6, <2>7
  <2> HIDE DEF Solved
  <2> QED
    BY <2>2, <2>5, <2>8
<1>3. n \in T
  <2> HIDE DEF T
  <2>1. n \in 0..n
    OBVIOUS
  <2> QED
    BY <1>1, <1>2, <2>1, UpTo
<1>4. PICK f \in [0..n -> S] : Solved(n, f)
  BY <1>3
<1>5. \A k \in 0..n : f[k] = IF k = 0 THEN a ELSE step[k][f[k - 1]]
  BY <1>4
<1>6. Solves(f, a, n, step)
  BY <1>5 DEF Solves
<1> QED
  BY <1>6

-----------------------------------------------------------------------------
(* Lines and texts.                                                        *)

Symbol == DOMAIN Text \cup {"cr", "lf"}

TextType ==
    [method: {"kInvalid", "kGet"}, version: BOOLEAN, path: {"none", "/", "/missing"},
     colon: BOOLEAN, connection: {"none", "close", "Keep-Alive"}]

LEMMA Texts ==
    /\ \A name \in DOMAIN Text : /\ Text[name] \in TextType
                                 /\ Text[name].version => Text[name].method = "kGet"
    /\ "empty" \in DOMAIN Text /\ "cr" \notin DOMAIN Text
    /\ Text.empty = Text["empty"]
<1> DEFINE G == Request("kGet", TRUE, "/")
           M == Request("kGet", TRUE, "/missing")
           O == Request("kGet", FALSE, "/")
<1>1. /\ DOMAIN Text
           = {"get", "missing", "old", "close", "keep", "host", "words", "empty"}
      /\ Text["get"] = G /\ Text["missing"] = M /\ Text["old"] = O
      /\ Text["close"] = Header("close") /\ Text["keep"] = Header("Keep-Alive")
      /\ Text["host"] = Header("none") /\ Text["words"] = NoText /\ Text["empty"] = NoText
  BY DEF Text
<1>2. /\ G \in TextType /\ M \in TextType /\ O \in TextType /\ NoText \in TextType
      /\ Header("close") \in TextType /\ Header("Keep-Alive") \in TextType
      /\ Header("none") \in TextType
  BY DEF TextType, Request, Header, NoText
<1>3. /\ G.method = "kGet" /\ M.method = "kGet" /\ ~O.version /\ ~NoText.version
      /\ ~Header("close").version /\ ~Header("Keep-Alive").version
      /\ ~Header("none").version
  BY DEF Request, Header, NoText
<1>4. Text.empty = Text["empty"]
  OBVIOUS
<1> HIDE DEF G, M, O
<1>5. ASSUME NEW name \in DOMAIN Text
      PROVE  Text[name] \in TextType /\ (Text[name].version => Text[name].method = "kGet")
  BY <1>1, <1>2, <1>3
<1> QED
  BY <1>1, <1>4, <1>5

LEMMA SymbolsOfLine ==
    ASSUME NEW name \in DOMAIN Text
    PROVE  /\ Symbols(name) \in Seq(Symbol)
           /\ name = "empty" => Symbols(name) = <<"cr", "lf">>
           /\ name # "empty" => Symbols(name) = <<name, "cr", "lf">>
           /\ Len(Symbols(name)) \in Nat /\ Len(Symbols(name)) > 0
<1>1. name \in Symbol /\ "cr" \in Symbol /\ "lf" \in Symbol
  BY DEF Symbol
<1> HIDE DEF Symbol
<1>2. CASE name = "empty"
  BY <1>1, <1>2 DEF Symbols
<1>3. CASE name # "empty"
  BY <1>1, <1>3 DEF Symbols
<1> QED
  BY <1>2, <1>3

LEMMA LinesAre ==
    ASSUME NEW s \in Seq(DOMAIN Text)
    PROVE  /\ Lines(s)[0] = <<>>
           /\ \A k \in 1..Len(s) : Lines(s)[k] = Lines(s)[k - 1] \o Symbols(s[k])
           /\ \A k \in 0..Len(s) : Lines(s)[k] \in Seq(Symbol)
<1> DEFINE n == Len(s)
           Q == Seq(Symbol)
           step == [k \in 1..n |-> [v \in Q |-> v \o Symbols(s[k])]]
           Is(f) == f = [k \in 0..n |-> IF k = 0 THEN <<>> ELSE f[k - 1] \o Symbols(s[k])]
<1>1. n \in Nat /\ \A k \in 1..n : s[k] \in DOMAIN Text
  OBVIOUS
<1>2. \A k \in 1..n : Symbols(s[k]) \in Q
  BY <1>1, SymbolsOfLine
<1>3. \A v \in Q, k \in 1..n : v \o Symbols(s[k]) \in Q
  BY <1>2
<1>4. <<>> \in Q
  OBVIOUS
<1> HIDE DEF Q, n
<1>5. \E f : Is(f)
  <2>1. step \in [1..n -> [Q -> Q]]
    BY <1>3
  <2>2. \A k \in 1..n, v \in Q : step[k][v] = v \o Symbols(s[k])
    OBVIOUS
  <2> HIDE DEF step
  <2>3. PICK f \in [0..n -> Q] : Solves(f, <<>>, n, step)
    BY <1>1, <1>4, <2>1, Recursion
  <2>4. ASSUME NEW k \in 0..n
        PROVE  (IF k = 0 THEN <<>> ELSE step[k][f[k - 1]])
                 = (IF k = 0 THEN <<>> ELSE f[k - 1] \o Symbols(s[k]))
    <3>1. CASE k = 0
      BY <3>1
    <3>2. CASE k # 0
      <4>1. k \in 1..n /\ k - 1 \in 0..n
        BY <1>1, <3>2
      <4> QED
        BY <2>2, <4>1
    <3> QED
      BY <3>1, <3>2
  <2> QED
    BY <2>3, <2>4, Zenon DEF Solves
<1>6. Is(Lines(s))
  BY <1>5, Zenon DEF Lines, n
<1>7. \A k \in 0..n : Lines(s)[k] = IF k = 0 THEN <<>> ELSE Lines(s)[k - 1] \o Symbols(s[k])
  BY <1>6
<1>8. ASSUME NEW k \in 1..n PROVE Lines(s)[k] = Lines(s)[k - 1] \o Symbols(s[k])
  <2>1. k \in 0..n /\ k # 0
    BY <1>1
  <2> QED
    BY <1>7, <2>1, Zenon
<1>9. Lines(s)[0] = <<>>
  BY <1>1, <1>7
<1> DEFINE T == {k \in 0..n : Lines(s)[k] \in Q}
<1>10. \A k \in 0..n : k \in T
  <2>1. 0 \in T
    BY <1>1, <1>4, <1>9
  <2>2. ASSUME NEW k \in 1..n, k - 1 \in T PROVE k \in T
    <3>1. k \in 0..n /\ Lines(s)[k - 1] \in Q
      BY <1>1, <2>2
    <3>2. Lines(s)[k - 1] \o Symbols(s[k]) \in Q
      BY <1>3, <3>1, Zenon
    <3>3. Lines(s)[k] \in Q
      BY <1>8, <3>2, Zenon
    <3> QED
      BY <3>1, <3>3
  <2> HIDE DEF T
  <2> QED
    BY <1>1, <2>1, <2>2, UpTo
<1> QED
  BY <1>8, <1>9, <1>10 DEF n, Q

-----------------------------------------------------------------------------
(* What the lines say.                                                     *)

Path == {"none", "/", "/missing"}
Requests == Seq([path: Path, close: BOOLEAN])
ReadType ==
    [requests: Requests, ends: Seq(Nat), length: Nat,
     open: BOOLEAN, path: Path, close: BOOLEAN, rejected: BOOLEAN]

\* What a line of text t makes of what has been read.
Reads(r, t, q) ==
    /\ q \in ReadType
    /\ r.rejected \/ ~r.open \/ t.colon => q.requests = r.requests /\ q.ends = r.ends
    /\ r.rejected \/ (~r.open /\ ~t.version) => q.rejected
    /\ ~r.rejected /\ ~r.open /\ t.version =>
         ~q.rejected /\ q.open /\ q.path = t.path /\ q.close = FALSE
    /\ ~r.rejected /\ r.open /\ t.colon =>
         /\ ~q.rejected /\ q.open /\ q.path = r.path
         /\ q.close = IF t.connection = "none" THEN r.close ELSE t.connection = "close"
    /\ ~r.rejected /\ r.open /\ ~t.colon =>
         /\ ~q.rejected /\ ~q.open
         /\ q.requests = Append(r.requests, [path |-> r.path, close |-> r.close])
         /\ q.ends = Append(r.ends, q.length)

LEMMA ReadLineIs ==
    ASSUME NEW r \in ReadType, NEW name \in DOMAIN Text
    PROVE  /\ Reads(r, Text[name], ReadLine(r, name))
           /\ ReadLine(r, name).length = r.length + Len(Symbols(name))
<1> DEFINE t == Text[name]
           q == ReadLine(r, name)
<1> DEFINE p == [r EXCEPT !.length = @ + Len(Symbols(name))]
<1> HIDE DEF t, q
<1>1. Len(Symbols(name)) \in Nat /\ t \in TextType
  BY SymbolsOfLine, Texts DEF t
<1>2. /\ p \in ReadType /\ p.length = r.length + Len(Symbols(name))
      /\ p.requests = r.requests /\ p.ends = r.ends /\ p.open = r.open
      /\ p.path = r.path /\ p.close = r.close /\ p.rejected = r.rejected
  <2>1. PICK l \in Nat : l = Len(Symbols(name))
    BY <1>1
  <2>2. p = [r EXCEPT !.length = @ + l]
    BY <2>1
  <2> HIDE DEF p
  <2> QED
    BY <2>1, <2>2 DEF ReadType
<1> HIDE DEF p
<1> DEFINE Goal == Reads(r, t, q) /\ q.length = p.length
<1>3. ASSUME r.rejected PROVE Goal
  <2>1. q = p
    BY <1>3 DEF ReadLine, p, q, t
  <2> QED
    BY <1>2, <1>3, <2>1 DEF Reads
<1>4. ASSUME ~r.rejected /\ ~r.open /\ t.version PROVE Goal
  <2>1. q = [p EXCEPT !.open = TRUE, !.path = t.path, !.close = FALSE]
    BY <1>4 DEF ReadLine, p, q, t
  <2>2. t.path \in Path
    BY <1>1 DEF TextType, Path
  <2> QED
    BY <1>2, <1>4, <2>1, <2>2 DEF ReadType, Reads
<1>5. ASSUME ~r.rejected /\ ~r.open /\ ~t.version PROVE Goal
  <2>1. q = [p EXCEPT !.rejected = TRUE]
    BY <1>5 DEF ReadLine, p, q, t
  <2> QED
    BY <1>2, <1>5, <2>1 DEF ReadType, Reads
<1>6. ASSUME ~r.rejected /\ r.open /\ t.colon PROVE Goal
  <2> DEFINE c == IF t.connection = "none" THEN p.close ELSE t.connection = "close"
  <2>1. q = [p EXCEPT !.close = c]
    BY <1>6 DEF ReadLine, p, q, t
  <2>2. c \in BOOLEAN
    BY <1>2 DEF ReadType
  <2> HIDE DEF c
  <2>3. /\ q \in ReadType /\ q.close = c /\ q.length = p.length /\ q.requests = p.requests
        /\ q.ends = p.ends /\ q.open = p.open /\ q.path = p.path /\ q.rejected = p.rejected
    BY <1>2, <2>1, <2>2 DEF ReadType
  <2> QED
    BY <1>2, <1>6, <2>3 DEF c, Reads
<1>7. ASSUME ~r.rejected /\ r.open /\ ~t.colon PROVE Goal
  <2> DEFINE e == Append(p.ends, p.length)
             h == Append(p.requests, [path |-> r.path, close |-> r.close])
  <2>1. q = [p EXCEPT !.open = FALSE, !.ends = e, !.requests = h]
    BY <1>7 DEF ReadLine, p, q, t
  <2>2. e \in Seq(Nat) /\ h \in Requests
    <3>1. p.ends \in Seq(Nat) /\ p.length \in Nat
      BY <1>2 DEF ReadType
    <3>2. r.path \in Path /\ r.close \in BOOLEAN
      BY DEF ReadType
    <3>4. [path |-> r.path, close |-> r.close] \in [path: Path, close: BOOLEAN]
      BY <3>2
    <3>3. p.requests \in Seq([path: Path, close: BOOLEAN])
      BY <1>2 DEF ReadType, Requests
    <3> QED
      BY <3>1, <3>3, <3>4 DEF Requests
  <2> HIDE DEF e, h
  <2>3. /\ q \in ReadType /\ q.length = p.length /\ q.requests = h /\ q.ends = e
        /\ q.open = FALSE /\ q.rejected = p.rejected
    BY <1>2, <2>1, <2>2 DEF ReadType
  <2> QED
    BY <1>2, <1>7, <2>3 DEF e, h, Reads
<1> QED
  <2>1. r.rejected \in BOOLEAN /\ r.open \in BOOLEAN /\ t.version \in BOOLEAN
        /\ t.colon \in BOOLEAN
    BY <1>1 DEF TextType, ReadType
  <2>2. Goal
    BY <1>3, <1>4, <1>5, <1>6, <1>7, <2>1, Zenon
  <2> QED
    BY <1>2, <2>2 DEF q, t

\* It adds a request or none.
Adds(r, q) ==
    /\ q \in ReadType
    /\ r.rejected => q.rejected
    /\ \/ q.requests = r.requests /\ q.ends = r.ends
       \/ \E x : q.requests = Append(r.requests, x) /\ q.ends = Append(r.ends, q.length)

LEMMA ReadLineAdds ==
    ASSUME NEW r \in ReadType, NEW name \in DOMAIN Text
    PROVE  Adds(r, ReadLine(r, name))
<1> DEFINE q == ReadLine(r, name)
<1> HIDE DEF q
<1>1. PICK t : t = Text[name]
  OBVIOUS
<1>2. t.version \in BOOLEAN /\ t.colon \in BOOLEAN
  BY <1>1, Texts DEF TextType
<1>3. r.rejected \in BOOLEAN /\ r.open \in BOOLEAN
  BY DEF ReadType
<1>r. Reads(r, t, q)
  BY <1>1, ReadLineIs DEF q
<1>4. q \in ReadType
  BY <1>r DEF Reads
<1>5. r.rejected => q.rejected
  BY <1>r, Zenon DEF Reads
<1>6. ASSUME r.rejected \/ ~r.open \/ t.colon PROVE Adds(r, q)
  <2>1. q.requests = r.requests /\ q.ends = r.ends
    BY <1>r, <1>6, Zenon DEF Reads
  <2> QED
    BY <1>4, <1>5, <2>1 DEF Adds
<1>7. ASSUME ~(r.rejected \/ ~r.open \/ t.colon) PROVE Adds(r, q)
  <2>1. /\ q.requests = Append(r.requests, [path |-> r.path, close |-> r.close])
        /\ q.ends = Append(r.ends, q.length)
    BY <1>r, <1>7, Zenon DEF Reads
  <2> QED
    BY <1>4, <1>5, <2>1 DEF Adds
<1> QED
  BY <1>6, <1>7, Zenon DEF q

LEMMA ReadingIs ==
    ASSUME NEW s \in Seq(DOMAIN Text)
    PROVE  /\ Reading(s)[0] = Unread
           /\ \A k \in 1..Len(s) : Reading(s)[k] = ReadLine(Reading(s)[k - 1], s[k])
           /\ \A k \in 0..Len(s) : Reading(s)[k] \in ReadType
<1> DEFINE n == Len(s)
           step == [k \in 1..n |-> [v \in ReadType |-> ReadLine(v, s[k])]]
           Is(f) == f = [k \in 0..n |-> IF k = 0 THEN Unread ELSE ReadLine(f[k - 1], s[k])]
<1>1. n \in Nat /\ \A k \in 1..n : s[k] \in DOMAIN Text
  OBVIOUS
<1>2. \A v \in ReadType, k \in 1..n : ReadLine(v, s[k]) \in ReadType
  BY <1>1, ReadLineIs DEF Reads
<1>3. Unread \in ReadType
  BY DEF Unread, ReadType, Requests, Path
<1> HIDE DEF n
<1>4. \E f : Is(f)
  <2>1. step \in [1..n -> [ReadType -> ReadType]]
    BY <1>2
  <2>2. \A k \in 1..n, v \in ReadType : step[k][v] = ReadLine(v, s[k])
    OBVIOUS
  <2> HIDE DEF step
  <2>3. PICK f \in [0..n -> ReadType] : Solves(f, Unread, n, step)
    BY <1>1, <1>3, <2>1, Recursion
  <2>4. ASSUME NEW k \in 0..n
        PROVE  (IF k = 0 THEN Unread ELSE step[k][f[k - 1]])
                 = (IF k = 0 THEN Unread ELSE ReadLine(f[k - 1], s[k]))
    <3>1. CASE k = 0
      BY <3>1
    <3>2. CASE k # 0
      <4>1. k \in 1..n /\ k - 1 \in 0..n
        BY <1>1, <3>2
      <4> QED
        BY <2>2, <4>1
    <3> QED
      BY <3>1, <3>2
  <2> QED
    BY <2>3, <2>4, Zenon DEF Solves
<1>5. Is(Reading(s))
  BY <1>4, Zenon DEF Reading, n
<1>6. \A k \in 0..n :
        Reading(s)[k] = IF k = 0 THEN Unread ELSE ReadLine(Reading(s)[k - 1], s[k])
  BY <1>5
<1>7. ASSUME NEW k \in 1..n PROVE Reading(s)[k] = ReadLine(Reading(s)[k - 1], s[k])
  <2>1. k \in 0..n /\ k # 0
    BY <1>1
  <2> QED
    BY <1>6, <2>1, Zenon
<1>8. Reading(s)[0] = Unread
  BY <1>1, <1>6
<1> DEFINE T == {k \in 0..n : Reading(s)[k] \in ReadType}
<1>9. \A k \in 0..n : k \in T
  <2>1. 0 \in T
    BY <1>1, <1>3, <1>8
  <2>2. ASSUME NEW k \in 1..n, k - 1 \in T PROVE k \in T
    <3>1. k \in 0..n /\ Reading(s)[k - 1] \in ReadType
      BY <1>1, <2>2
    <3>2. Reading(s)[k] \in ReadType
      BY <1>2, <1>7, <3>1, Zenon
    <3> QED
      BY <3>1, <3>2
  <2> HIDE DEF T
  <2> QED
    BY <1>1, <2>1, <2>2, UpTo
<1> QED
  BY <1>7, <1>8, <1>9 DEF n

\* A line counts as long as it is, and a request ends with a line.
Counted(s, k) ==
    LET r == Reading(s)[k]
    IN /\ r.length = Len(Lines(s)[k])
       /\ Len(r.ends) = Len(r.requests)
       /\ \A i \in 1..Len(r.ends) :
             /\ r.ends[i] <= r.length
             /\ i < Len(r.ends) => r.ends[i] < r.length

LEMMA LinesCount ==
    ASSUME NEW s \in Seq(DOMAIN Text)
    PROVE  \A k \in 0..Len(s) : Counted(s, k)
<1> DEFINE n == Len(s)
           T == {k \in 0..n : Counted(s, k)}
<1>1. n \in Nat
  OBVIOUS
<1>2. Counted(s, 0)
  <2>1. Lines(s)[0] = <<>> /\ Reading(s)[0] = Unread
    BY LinesAre, ReadingIs
  <2>2. Unread.length = 0 /\ Unread.ends = <<>> /\ Unread.requests = <<>>
    BY DEF Unread
  <2> QED
    BY <2>1, <2>2 DEF Counted
<1>3. ASSUME NEW k \in 1..n, Counted(s, k - 1) PROVE Counted(s, k)
  <2>1. k - 1 \in 0..Len(s) /\ s[k] \in DOMAIN Text /\ k \in 0..Len(s)
    OBVIOUS
  <2>2. PICK r \in ReadType : r = Reading(s)[k - 1]
    BY <2>1, ReadingIs
  <2>3. PICK q : q = Reading(s)[k] /\ q = ReadLine(r, s[k])
    BY <2>2, ReadingIs
  <2>4. PICK l \in Nat : l = Len(Symbols(s[k])) /\ l > 0
    BY <2>1, SymbolsOfLine
  <2>5. /\ q \in ReadType /\ q.length = r.length + l
        /\ \/ q.requests = r.requests /\ q.ends = r.ends
           \/ \E x : /\ q.requests = Append(r.requests, x)
                    /\ q.ends = Append(r.ends, q.length)
    <3>1. s[k] \in DOMAIN Text /\ q = ReadLine(r, s[k]) /\ l = Len(Symbols(s[k]))
      BY <2>1, <2>3, <2>4
    <3>2. Adds(r, q)
      BY <3>1, ReadLineAdds, Zenon
    <3>3. q.length = r.length + l
      BY <3>1, ReadLineIs, Zenon
    <3> QED
      BY <3>1, <3>2, <3>3, Zenon DEF Adds
  <2>6. Len(Lines(s)[k]) = Len(Lines(s)[k - 1]) + l
    <3>1. Lines(s)[k] = Lines(s)[k - 1] \o Symbols(s[k]) /\ Lines(s)[k - 1] \in Seq(Symbol)
      BY <2>1, LinesAre
    <3>2. Symbols(s[k]) \in Seq(Symbol)
      BY <2>1, SymbolsOfLine
    <3> QED
      BY <2>4, <3>1, <3>2
  <2>7. /\ r.length = Len(Lines(s)[k - 1]) /\ Len(r.ends) = Len(r.requests)
        /\ \A i \in 1..Len(r.ends) : r.ends[i] <= r.length
    BY <1>3, <2>2 DEF Counted
  <2>8. PICK e \in Seq(Nat), f \in Requests, from \in Nat, to \in Nat :
            /\ e = r.ends /\ f = r.requests /\ from = r.length /\ to = q.length
    BY <2>2, <2>5 DEF ReadType
  <2>9. /\ from < to
        /\ \A i \in 1..Len(e) : e[i] \in Nat /\ e[i] <= from
    <3>1. to = from + l
      BY <2>5, <2>8, Zenon
    <3>2. \A i \in 1..Len(e) : e[i] <= from
      BY <2>7, <2>8, Zenon
    <3> QED
      BY <2>4, <3>1, <3>2
  <2>10. ASSUME NEW i \in 1..Len(e) PROVE e[i] <= to /\ e[i] < to
    BY <2>9
  <2>11. /\ Len(q.ends) = Len(q.requests)
         /\ \A i \in 1..Len(q.ends) : /\ q.ends[i] <= to
                                      /\ i < Len(q.ends) => q.ends[i] < to
    <3>1. CASE q.requests = f /\ q.ends = e
      BY <2>7, <2>8, <2>10, <3>1
    <3>2. CASE \E x : q.requests = Append(f, x) /\ q.ends = Append(e, to)
      <4>1. PICK x : q.requests = Append(f, x) /\ q.ends = Append(e, to)
        BY <3>2
      <4>2. Len(q.requests) = Len(f) + 1
        BY <4>1 DEF Requests
      <4>3. Len(q.ends) = Len(e) + 1 /\ Len(e) \in Nat
        BY <4>1
      <4>4. \A i \in 1..Len(e) : q.ends[i] = e[i]
        BY <4>1
      <4>5. q.ends[Len(e) + 1] = to
        BY <4>1
      <4>6. ASSUME NEW i \in 1..Len(q.ends)
            PROVE  q.ends[i] <= to /\ (i < Len(q.ends) => q.ends[i] < to)
        <5>1. CASE i = Len(e) + 1
          BY <4>3, <4>5, <5>1
        <5>2. CASE i # Len(e) + 1
          <6>1. i \in 1..Len(e)
            BY <4>3, <5>2
          <6> QED
            BY <2>10, <4>4, <6>1
        <5> QED
          BY <5>1, <5>2
      <4> QED
        BY <2>7, <2>8, <4>2, <4>3, <4>6
    <3> QED
      BY <2>5, <2>8, <3>1, <3>2, Zenon
  <2> QED
    BY <2>3, <2>5, <2>6, <2>7, <2>8, <2>11 DEF Counted
<1>4. \A k \in 0..n : k \in T
  <2>1. 0 \in T
    BY <1>1, <1>2
  <2>2. ASSUME NEW k \in 1..n, k - 1 \in T PROVE k \in T
    BY <1>1, <1>3, <2>2
  <2> HIDE DEF T, n
  <2> QED
    BY <1>1, <2>1, <2>2, UpTo
<1> QED
  BY <1>4

\* What was said stays said when more lines are read.
Extends(s, j, k) ==
    /\ Len(Lines(s)[j]) <= Len(Lines(s)[k])
    /\ \A i \in 1..Len(Lines(s)[j]) : Lines(s)[k][i] = Lines(s)[j][i]
    /\ Reading(s)[j].rejected => Reading(s)[k].rejected
    /\ Len(Reading(s)[j].requests) <= Len(Reading(s)[k].requests)
    /\ \A i \in 1..Len(Reading(s)[j].requests) :
          /\ Reading(s)[k].requests[i] = Reading(s)[j].requests[i]
          /\ Reading(s)[k].ends[i] = Reading(s)[j].ends[i]

LEMMA OneLineMore ==
    ASSUME NEW s \in Seq(DOMAIN Text), NEW k \in 1..Len(s)
    PROVE  Extends(s, k - 1, k)
<1>1. k - 1 \in 0..Len(s) /\ s[k] \in DOMAIN Text /\ k \in 0..Len(s)
  OBVIOUS
<1>2. PICK r \in ReadType : r = Reading(s)[k - 1]
  BY <1>1, ReadingIs
<1>3. PICK q : q = Reading(s)[k] /\ q = ReadLine(r, s[k])
  BY <1>2, ReadingIs
<1>4. PICK u : u = Lines(s)[k - 1]
  OBVIOUS
<1>5. PICK v : v = Lines(s)[k]
  OBVIOUS
<1>6. /\ u \in Seq(Symbol) /\ v = u \o Symbols(s[k]) /\ Symbols(s[k]) \in Seq(Symbol)
  BY <1>1, <1>4, <1>5, LinesAre, SymbolsOfLine
<1>7. Len(u) <= Len(v) /\ \A i \in 1..Len(u) : v[i] = u[i]
  BY <1>6
<1>8. /\ r.rejected => q.rejected
      /\ \/ q.requests = r.requests /\ q.ends = r.ends
         \/ \E x, y : q.requests = Append(r.requests, x) /\ q.ends = Append(r.ends, y)
  <2>1. /\ r.rejected => q.rejected
        /\ \/ q.requests = r.requests /\ q.ends = r.ends
           \/ \E x : q.requests = Append(r.requests, x) /\ q.ends = Append(r.ends, q.length)
    <3>1. Adds(r, q)
      BY <1>1, <1>3, ReadLineAdds
    <3> QED
      BY <3>1, Zenon DEF Adds
  <2> QED
    BY <2>1, Zenon
<1>9. Len(r.ends) = Len(r.requests)
  BY <1>1, <1>2, LinesCount DEF Counted
<1>10. r.requests \in Seq([path: Path, close: BOOLEAN]) /\ r.ends \in Seq(Nat)
  BY <1>2 DEF ReadType, Requests
<1>11. /\ Len(r.requests) <= Len(q.requests)
       /\ \A i \in 1..Len(r.requests) : q.requests[i] = r.requests[i] /\ q.ends[i] = r.ends[i]
  <2>1. CASE q.requests = r.requests /\ q.ends = r.ends
    BY <1>10, <2>1
  <2>2. CASE \E x, y : q.requests = Append(r.requests, x) /\ q.ends = Append(r.ends, y)
    BY <1>9, <1>10, <2>2
  <2> QED
    BY <1>8, <2>1, <2>2
<1> QED
  BY <1>2, <1>3, <1>4, <1>5, <1>7, <1>8, <1>11 DEF Extends

LEMMA LinesExtend ==
    ASSUME NEW s \in Seq(DOMAIN Text), NEW j \in 0..Len(s), NEW k \in j..Len(s)
    PROVE  Extends(s, j, k)
<1> DEFINE n == Len(s) - j
           T == {d \in 0..n : Extends(s, j, j + d)}
<1>1. n \in Nat
  OBVIOUS
<1>2. ASSUME NEW i \in 0..Len(s)
      PROVE  /\ Len(Lines(s)[i]) \in Nat /\ Len(Reading(s)[i].requests) \in Nat
             /\ Reading(s)[i].rejected \in BOOLEAN
  BY LinesAre, ReadingIs DEF ReadType, Requests
<1>3. Extends(s, j, j + 0)
  BY <1>2 DEF Extends
<1>4. ASSUME NEW d \in 1..n, Extends(s, j, j + (d - 1)) PROVE Extends(s, j, j + d)
  <2>1. j + d \in 1..Len(s) /\ j + (d - 1) = (j + d) - 1 /\ j + (d - 1) \in 0..Len(s)
        /\ j + d \in 0..Len(s)
    OBVIOUS
  <2>2. Extends(s, j + (d - 1), j + d)
    BY <2>1, OneLineMore
  <2>3. PICK i \in 0..Len(s), l \in 0..Len(s) : i = j + (d - 1) /\ l = j + d
    BY <2>1
  <2>4. Extends(s, j, i) /\ Extends(s, i, l)
    BY <1>4, <2>2, <2>3
  <2>5. /\ Len(Lines(s)[j]) <= Len(Lines(s)[l])
        /\ \A m \in 1..Len(Lines(s)[j]) : Lines(s)[l][m] = Lines(s)[j][m]
    <3>1. PICK u, v, w : u = Lines(s)[j] /\ v = Lines(s)[i] /\ w = Lines(s)[l]
      OBVIOUS
    <3>2. Len(u) \in Nat /\ Len(v) \in Nat /\ Len(w) \in Nat
      BY <1>2, <3>1
    <3>3. /\ Len(u) <= Len(v) /\ \A m \in 1..Len(u) : v[m] = u[m]
          /\ Len(v) <= Len(w) /\ \A m \in 1..Len(v) : w[m] = v[m]
      BY <2>4, <3>1, Zenon DEF Extends
    <3>4. \A m \in 1..Len(u) : m \in 1..Len(v)
      BY <3>2, <3>3
    <3>5. Len(u) <= Len(w)
      BY <3>2, <3>3
    <3>6. \A m \in 1..Len(u) : w[m] = u[m]
      BY <3>3, <3>4, Zenon
    <3> QED
      BY <3>1, <3>5, <3>6, Zenon
  <2>6. Reading(s)[j].rejected => Reading(s)[l].rejected
    BY <2>4 DEF Extends
  <2>7. PICK a, b, c : /\ a = Reading(s)[j] /\ b = Reading(s)[i] /\ c = Reading(s)[l]
    OBVIOUS
  <2>8. /\ Len(a.requests) \in Nat /\ Len(b.requests) \in Nat /\ Len(c.requests) \in Nat
        /\ Len(a.requests) <= Len(b.requests) /\ Len(b.requests) <= Len(c.requests)
        /\ \A m \in 1..Len(a.requests) : /\ b.requests[m] = a.requests[m]
                                         /\ b.ends[m] = a.ends[m]
        /\ \A m \in 1..Len(b.requests) : /\ c.requests[m] = b.requests[m]
                                         /\ c.ends[m] = b.ends[m]
    BY <1>2, <2>4, <2>7 DEF Extends
  <2>9. /\ Len(a.requests) <= Len(c.requests)
        /\ \A m \in 1..Len(a.requests) : /\ c.requests[m] = a.requests[m]
                                         /\ c.ends[m] = a.ends[m]
    <3>1. PICK u \in Nat, v \in Nat, w \in Nat :
              u = Len(a.requests) /\ v = Len(b.requests) /\ w = Len(c.requests)
      BY <2>8
    <3>2. u <= v /\ v <= w /\ (\A m \in 1..u : m \in 1..v)
      BY <2>8, <3>1
    <3>3. u <= w
      BY <3>2
    <3> QED
      BY <2>8, <3>1, <3>2, <3>3, Zenon
  <2>10. Extends(s, j, l)
    BY <2>5, <2>6, <2>7, <2>9 DEF Extends
  <2> QED
    BY <2>3, <2>10
<1>5. \A d \in 0..n : d \in T
  <2>1. 0 \in T
    BY <1>1, <1>3
  <2>2. ASSUME NEW d \in 1..n, d - 1 \in T PROVE d \in T
    BY <1>1, <1>4, <2>2
  <2> HIDE DEF T, n
  <2> QED
    BY <1>1, <2>1, <2>2, UpTo
<1>6. k - j \in 0..n /\ j + (k - j) = k
  OBVIOUS
<1> QED
  BY <1>5, <1>6

\* What the first k lines say is the first of what the script says.
SaidSoFar(k, r) ==
    /\ r \in ReadType /\ r.length = Len(Lines(script)[k])
    /\ Len(r.ends) = Len(r.requests)
    /\ r.rejected => Whole.rejected
    /\ IsPrefix(r.requests, Whole.requests)
    /\ \A i \in 1..Len(r.requests) :
          /\ i \in DOMAIN Whole.ends /\ Whole.ends[i] = r.ends[i]
          /\ r.ends[i] <= r.length
          /\ i < Len(r.requests) => r.ends[i] < r.length

LEMMA ReadSoFar ==
    ASSUME script \in Seq(DOMAIN Text), NEW k \in 0..Len(script), NEW r,
           r = Reading(script)[k]
    PROVE  SaidSoFar(k, r)
<1> DEFINE n == Len(script)
<1>1. n \in 0..n /\ n \in k..n
  OBVIOUS
<1>2. PICK w : w = Whole /\ w = Reading(script)[n]
  BY Zenon DEF Whole
<1>3. w \in ReadType /\ r \in ReadType
  BY <1>1, <1>2, ReadingIs
<1>4. /\ Len(w.ends) = Len(w.requests) /\ r.length = Len(Lines(script)[k])
      /\ Len(r.ends) = Len(r.requests)
      /\ \A i \in 1..Len(r.ends) : /\ r.ends[i] <= r.length
                                   /\ i < Len(r.ends) => r.ends[i] < r.length
  BY <1>1, <1>2, LinesCount DEF Counted
<1>5. /\ r.rejected => w.rejected
      /\ Len(r.requests) <= Len(w.requests)
      /\ \A i \in 1..Len(r.requests) : w.requests[i] = r.requests[i] /\ w.ends[i] = r.ends[i]
  <2>1. Extends(script, k, n)
    BY <1>1, LinesExtend
  <2> QED
    BY <1>2, <2>1 DEF Extends
<1>6. /\ r.requests \in Seq([path: Path, close: BOOLEAN]) /\ r.ends \in Seq(Nat)
      /\ w.requests \in Seq([path: Path, close: BOOLEAN]) /\ w.ends \in Seq(Nat)
  BY <1>3 DEF ReadType, Requests
<1>7. IsPrefix(r.requests, w.requests)
  <2>1. r.requests = SubSeq(w.requests, 1, Len(r.requests))
    BY <1>5, <1>6
  <2> QED
    BY <1>5, <2>1 DEF IsPrefix
<1>8. \A i \in 1..Len(r.requests) : i \in DOMAIN w.ends
  BY <1>4, <1>5, <1>6
<1> QED
  BY <1>2, <1>3, <1>4, <1>5, <1>7, <1>8 DEF SaidSoFar

\* Where line k + 1 is in the whole stream.
LineIsAt(s, k, u, a) ==
    /\ k + 1 \in 0..Len(s) /\ s[k + 1] \in DOMAIN Text
    /\ Len(Lines(s)[k + 1]) = a + Len(Symbols(s[k + 1]))
    /\ Len(Lines(s)[k + 1]) <= Len(u)
    /\ \A i \in 1..Len(Symbols(s[k + 1])) : u[a + i] = Symbols(s[k + 1])[i]

LEMMA NextLine ==
    ASSUME NEW s \in Seq(DOMAIN Text), NEW k \in 0..Len(s), k < Len(s)
    PROVE  LineIsAt(s, k, Lines(s)[Len(s)], Len(Lines(s)[k]))
<1>1. /\ k + 1 \in 0..Len(s) /\ k + 1 \in 1..Len(s) /\ s[k + 1] \in DOMAIN Text
      /\ (k + 1) - 1 = k /\ Len(s) \in 0..Len(s) /\ Len(s) \in (k + 1)..Len(s)
  OBVIOUS
<1> DEFINE u == Lines(s)[Len(s)]
           a == Len(Lines(s)[k])
<1>2. PICK v, x, y : v = Lines(s)[k] /\ x = Symbols(s[k + 1]) /\ y = Lines(s)[k + 1]
  OBVIOUS
<1>3. v \in Seq(Symbol) /\ x \in Seq(Symbol) /\ y \in Seq(Symbol) /\ u \in Seq(Symbol)
  BY <1>1, <1>2, LinesAre, SymbolsOfLine
<1>4. y = v \o x
  <2>1. Lines(s)[k + 1] = Lines(s)[(k + 1) - 1] \o Symbols(s[k + 1])
    BY <1>1, LinesAre, Zenon
  <2> QED
    BY <1>1, <1>2, <2>1
<1>5. Len(y) <= Len(u) /\ \A i \in 1..Len(y) : u[i] = y[i]
  <2>1. Extends(s, k + 1, Len(s))
    BY <1>1, LinesExtend, Zenon
  <2> QED
    BY <1>2, <2>1, Zenon DEF Extends
<1>6. a \in Nat /\ a = Len(v) /\ Len(y) = a + Len(x)
  BY <1>2, <1>3, <1>4
<1> HIDE DEF u, a
<1>7. ASSUME NEW i \in 1..Len(x) PROVE u[a + i] = x[i]
  <2>1. a + i \in 1..Len(y)
    BY <1>3, <1>6
  <2>2. y[a + i] = x[i]
    BY <1>3, <1>4, <1>6
  <2> QED
    BY <1>5, <2>1, <2>2
<1> QED
  BY <1>1, <1>2, <1>5, <1>6, <1>7 DEF LineIsAt, u, a

-----------------------------------------------------------------------------
(* The input buffer.                                                       *)

\* k lines have been taken from it, and it holds what else has been read.
Holds(k) ==
    /\ Len(Lines(script)[k]) <= taken
    /\ inputBuffer_ = SubSeq(Stream, Len(Lines(script)[k]) + 1, taken)

\* findCRLF() finds the end of the next line, and nothing else.
LEMMA LineFound ==
    ASSUME script \in Seq(DOMAIN Text), taken \in Nat, taken <= Len(Stream),
           NEW k \in 0..Len(script), Holds(k), CrlfAt # {}
    PROVE  /\ k < Len(script) /\ script[k + 1] \in DOMAIN Text
           /\ Line = Text[script[k + 1]]
           /\ Len(Lines(script)[k]) < taken /\ Len(Lines(script)[k + 1]) <= taken
           /\ SubSeq(inputBuffer_, Crlf + 2, Len(inputBuffer_))
                = SubSeq(Stream, Len(Lines(script)[k + 1]) + 1, taken)
<1>1. PICK u, a : u = Stream /\ u = Lines(script)[Len(script)] /\ a = Len(Lines(script)[k])
  BY Zenon DEF Stream
<1>2. a \in Nat /\ u \in Seq(Symbol) /\ taken <= Len(u) /\ a <= taken
  <2>1. Len(script) \in 0..Len(script)
    OBVIOUS
  <2>2. Lines(script)[k] \in Seq(Symbol) /\ u \in Seq(Symbol)
    BY <1>1, <2>1, LinesAre
  <2> QED
    BY <1>1, <2>2 DEF Holds
<1>3. PICK b : b = inputBuffer_ /\ b = SubSeq(u, a + 1, taken)
  BY <1>1 DEF Holds
<1>4. /\ b \in Seq(Symbol) /\ Len(b) = taken - a
      /\ \A i \in 1..(taken - a) : b[i] = u[a + i]
  BY <1>2, <1>3
<1>5. PICK c \in CrlfAt : TRUE
  OBVIOUS
<1>6. c \in 1..(Len(b) - 1) /\ b[c] = "cr" /\ b[c + 1] = "lf"
  BY <1>3, <1>5 DEF CrlfAt
<1>7. Len(b) >= 2 /\ a < taken
  BY <1>2, <1>4, <1>6
<1>8. k < Len(script)
  BY <1>1, <1>2, <1>7
<1>9. PICK name : name = script[k + 1]
  OBVIOUS
<1>10. PICK x : x = Symbols(name)
  OBVIOUS
<1>11. PICK e : e = Len(Lines(script)[k + 1])
  OBVIOUS
<1>12. /\ name \in DOMAIN Text /\ e = a + Len(x) /\ e <= Len(u)
       /\ \A i \in 1..Len(x) : u[a + i] = x[i]
  <2>1. LineIsAt(script, k, u, a)
    BY <1>1, <1>8, NextLine
  <2> QED
    BY <1>9, <1>10, <1>11, <2>1, Zenon DEF LineIsAt
<1>13. Crlf = Len(x) - 1 /\ Len(x) \in Nat /\ e <= taken /\ Line = Text[name]
  <2>1. CASE name = "empty"
    <3>1. x = <<"cr", "lf">>
      BY <1>10, <1>12, <2>1, SymbolsOfLine
    <3>2. Len(x) = 2 /\ x[1] = "cr" /\ x[2] = "lf"
      BY <3>1
    <3>3. b[1] = "cr" /\ b[2] = "lf"
      BY <1>2, <1>4, <1>7, <1>12, <3>2
    <3>4. 1 \in CrlfAt
      BY <1>3, <1>4, <1>7, <3>3 DEF CrlfAt
    <3>5. \A i \in CrlfAt : i \in Nat /\ 1 <= i
      BY <1>3, <1>4 DEF CrlfAt
    <3>6. Crlf = 1
      BY <3>4, <3>5 DEF Crlf
    <3> QED
      BY <1>2, <1>4, <1>7, <1>12, <2>1, <3>2, <3>6, Texts DEF Line
  <2>2. CASE name # "empty"
    <3>1. x = <<name, "cr", "lf">>
      BY <1>10, <1>12, <2>2, SymbolsOfLine
    <3>2. Len(x) = 3 /\ x[1] = name /\ x[2] = "cr" /\ x[3] = "lf"
      BY <3>1
    <3>3. b[1] = name
      BY <1>2, <1>4, <1>7, <1>12, <3>2
    <3>4. name # "cr"
      BY <1>12, Texts
    <3>5. ASSUME NEW i \in CrlfAt PROVE i \in Nat /\ 2 <= i /\ i <= Len(b) - 1
      <4>1. i \in 1..(Len(b) - 1) /\ b[i] = "cr"
        BY <1>3 DEF CrlfAt
      <4>2. i # 1
        BY <3>3, <3>4, <4>1
      <4>3. Len(b) \in Nat
        BY <1>4
      <4> QED
        BY <4>1, <4>2, <4>3
    <3>6. Len(b) >= 3
      BY <1>4, <1>2, <1>5, <3>5
    <3>7. b[2] = "cr" /\ b[3] = "lf"
      BY <1>2, <1>4, <1>12, <3>2, <3>6
    <3>8. 2 \in CrlfAt
      BY <1>2, <1>3, <1>4, <3>6, <3>7 DEF CrlfAt
    <3>9. Crlf = 2
      <4>1. \E i \in CrlfAt : \A j \in CrlfAt : i <= j
        BY <3>5, <3>8
      <4>2. Crlf \in CrlfAt /\ \A j \in CrlfAt : Crlf <= j
        BY <4>1, Zenon DEF Crlf
      <4> QED
        BY <3>5, <3>8, <4>2
    <3>10. Line = Text[name]
      <4>1. ~(Crlf = 1)
        BY <3>9
      <4>2. inputBuffer_[1] = name
        BY <1>3, <3>3, Zenon
      <4> QED
        BY <1>12, <4>1, <4>2, Zenon DEF Line
    <3> QED
      BY <1>2, <1>4, <1>12, <3>2, <3>6, <3>9, <3>10
  <2> QED
    BY <2>1, <2>2
<1>14. SubSeq(b, Len(x) + 1, Len(b)) = SubSeq(u, e + 1, taken)
  <2>1. PICK l \in Nat : l = Len(x) /\ e = a + l
    BY <1>12, <1>13
  <2>2. e \in Nat /\ e <= taken /\ taken \in Nat /\ taken <= Len(u) /\ Len(b) = taken - a
    BY <1>2, <1>4, <1>13, <2>1
  <2>3. \A i \in 1..(taken - e) : b[i + l] = u[i + e]
    <3>1. \A i \in 1..(taken - e) : i + l \in 1..(taken - a) /\ a + (i + l) = i + e
      BY <1>2, <2>1, <2>2
    <3> QED
      BY <1>4, <3>1
  <2> QED
    BY <1>2, <1>4, <2>1, <2>2, <2>3
<1>15. Crlf + 2 = Len(x) + 1
  BY <1>13
<1> QED
  BY <1>1, <1>3, <1>7, <1>8, <1>9, <1>11, <1>12, <1>13, <1>14, <1>15

-----------------------------------------------------------------------------
(* Types.                                                                  *)

\* The types of what comes in and of the parser.
InTypes ==
    /\ script \in Scripts /\ polite \in BOOLEAN
    /\ arrived \in 0..Len(Stream) /\ taken \in 0..arrived
    /\ fin \in BOOLEAN /\ ended \in BOOLEAN
    /\ pc \in {"poll", "parseRequest", "onRequest"}
    /\ state_ \in {"kConnected", "kDisconnecting", "kDisconnected"}
    /\ context_ \in [state_: {"kExpectRequestLine", "kExpectHeader", "kGotAll"},
                     method_: {"kInvalid", "kGet"}, path_: Path,
                     connection: {"none", "close", "Keep-Alive"}]
    /\ parsed \in Seq([path: Path, close: BOOLEAN])

LEMMA SameScript ==
    ASSUME UNCHANGED script
    PROVE  Stream' = Stream /\ Whole' = Whole
BY DEF Stream, Whole, Lines, Reading

LEMMA ScriptTypes ==
    ASSUME script \in Scripts
    PROVE  /\ script \in Seq(DOMAIN Text) /\ Len(script) \in Nat
           /\ Stream \in Seq(Symbol) /\ Len(Stream) \in Nat /\ Whole \in ReadType
<1>1. script \in Seq(DOMAIN Text)
  BY ScriptAssumption
<1>2. Len(script) \in Nat /\ Len(script) \in 0..Len(script)
  BY <1>1
<1>3. Stream \in Seq(Symbol) /\ Whole \in ReadType
  BY <1>1, <1>2, LinesAre, ReadingIs DEF Stream, Whole
<1> QED
  BY <1>1, <1>2, <1>3

LEMMA LineType == Line \in TextType
<1>1. NoText \in TextType
  BY DEF NoText, Request, TextType
<1> QED
  BY <1>1, Texts DEF Line

LEMMA RespondType ==
    ASSUME NEW r, Respond(r), state_ \in {"kConnected", "kDisconnecting", "kDisconnected"}
    PROVE  state_' \in {"kConnected", "kDisconnecting", "kDisconnected"}
BY DEF Respond

LEMMA InTypesInit == Init => InTypes
<1> SUFFICES ASSUME Init PROVE InTypes
  OBVIOUS
<1>1. Len(Stream) \in Nat
  BY ScriptTypes DEF Init
<1>2. context_ \in [state_: {"kExpectRequestLine", "kExpectHeader", "kGotAll"},
                    method_: {"kInvalid", "kGet"}, path_: Path,
                    connection: {"none", "close", "Keep-Alive"}]
  BY DEF Init, NewContext, Path
<1>3. arrived \in 0..Len(Stream) /\ taken \in 0..arrived
  BY <1>1 DEF Init
<1>4. parsed \in Seq([path: Path, close: BOOLEAN])
  BY DEF Init
<1> QED
  BY <1>2, <1>3, <1>4 DEF Init, InTypes

\* Steps that leave alone what comes in.
LEMMA InTypesUnchanged ==
    ASSUME InTypes, UNCHANGED <<script, polite, arrived, taken, ended>>,
           fin' = fin \/ fin' = TRUE,
           pc' \in {"poll", "parseRequest", "onRequest"},
           state_' \in {"kConnected", "kDisconnecting", "kDisconnected"},
           context_' \in [state_: {"kExpectRequestLine", "kExpectHeader", "kGotAll"},
                          method_: {"kInvalid", "kGet"}, path_: Path,
                          connection: {"none", "close", "Keep-Alive"}],
           parsed' \in Seq([path: Path, close: BOOLEAN])
    PROVE  InTypes'
BY SameScript DEF InTypes

LEMMA InTypesNext == InTypes /\ [Next]_vars => InTypes'
<1> SUFFICES ASSUME InTypes, [Next]_vars PROVE InTypes'
  OBVIOUS
<1> DEFINE S == {"kConnected", "kDisconnecting", "kDisconnected"}
           P == {"poll", "parseRequest", "onRequest"}
           C == [state_: {"kExpectRequestLine", "kExpectHeader", "kGotAll"},
                 method_: {"kInvalid", "kGet"}, path_: Path,
                 connection: {"none", "close", "Keep-Alive"}]
           Q == Seq([path: Path, close: BOOLEAN])
<1>0. state_ \in S /\ pc \in P /\ context_ \in C /\ parsed \in Q /\ Len(Stream) \in Nat
  BY ScriptTypes DEF InTypes
<1>l. Line \in TextType
  BY LineType
<1>1. CASE HandleRead
  <2>1. /\ UNCHANGED <<script, polite, arrived, fin, ended, state_, context_, parsed>>
        /\ taken' = arrived /\ pc' = "parseRequest"
    BY <1>1 DEF HandleRead, peerVars
  <2> QED
    BY <1>0, <2>1, SameScript DEF InTypes
<1>2. CASE HandleClose
  BY <1>0, <1>2, InTypesUnchanged DEF HandleClose, peerVars
<1>3. CASE HandleWrite
  BY <1>0, <1>3, InTypesUnchanged DEF HandleWrite, peerVars
<1>4. CASE Incomplete
  BY <1>0, <1>4, InTypesUnchanged DEF Incomplete, peerVars
<1>5. CASE RequestLine
  <2>1. context_' \in C
    BY <1>0, <1>5, <1>l DEF RequestLine, TextType, Path
  <2> QED
    BY <1>0, <1>5, <2>1, InTypesUnchanged DEF RequestLine, peerVars
<1>6. CASE RejectLine
  <2>1. context_' \in C
    BY <1>0, <1>6, <1>l DEF RejectLine, TextType, Path
  <2>2. state_' \in S
    BY <1>0, <1>6, RespondType DEF RejectLine
  <2> QED
    BY <1>0, <1>6, <2>1, <2>2, InTypesUnchanged DEF RejectLine, peerVars
<1>7. CASE MethodIsSet
  <2>1. /\ UNCHANGED <<script, polite, arrived, fin, taken, state_, context_, pc, parsed>>
        /\ ended' = TRUE
    BY <1>7 DEF MethodIsSet, peerVars
  <2> QED
    BY <1>0, <2>1, SameScript DEF InTypes
<1>8. CASE HeaderLine
  <2>1. context_' \in C
    BY <1>0, <1>8, <1>l DEF HeaderLine, TextType
  <2> QED
    BY <1>0, <1>8, <2>1, InTypesUnchanged DEF HeaderLine, peerVars
<1>9. CASE EndOfHeaders
  <2>1. context_' \in C
    BY <1>0, <1>9 DEF EndOfHeaders
  <2> QED
    BY <1>0, <1>9, <2>1, InTypesUnchanged DEF EndOfHeaders, peerVars
<1>10. CASE OnRequest
  <2>1. context_' \in C
    BY <1>10 DEF OnRequest, Reset, NewContext, Path
  <2>2. state_' \in S
    BY <1>0, <1>10, RespondType DEF OnRequest
  <2>3. parsed' \in Q
    <3>1. PICK x : x = [path |-> context_.path_, close |-> context_.connection = "close"]
      OBVIOUS
    <3>2. x \in [path: Path, close: BOOLEAN]
      BY <1>0, <3>1
    <3>3. parsed' = Append(parsed, x)
      BY <1>10, <3>1 DEF OnRequest
    <3> QED
      BY <1>0, <3>2, <3>3
  <2> QED
    BY <1>0, <1>10, <2>1, <2>2, <2>3, InTypesUnchanged DEF OnRequest, peerVars
<1>11. CASE PeerSends
  <2>1. PICK n \in 1..(Len(Stream) - arrived) : arrived' = arrived + n
    BY <1>11 DEF PeerSends
  <2>2. UNCHANGED <<script, polite, taken, fin, ended, state_, context_, pc, parsed>>
    BY <1>11 DEF PeerSends
  <2>3. arrived' \in 0..Len(Stream) /\ taken \in 0..arrived'
    BY <1>0, <2>1 DEF InTypes
  <2> QED
    BY <1>0, <2>2, <2>3, SameScript DEF InTypes
<1>12. CASE PeerReads
  BY <1>0, <1>12, InTypesUnchanged DEF PeerReads
<1>13. CASE PeerCloses
  BY <1>0, <1>13, InTypesUnchanged DEF PeerCloses
<1>14. CASE UNCHANGED vars
  BY <1>0, <1>14, InTypesUnchanged DEF vars, peerVars
<1> QED
  BY <1>1, <1>2, <1>3, <1>4, <1>5, <1>6, <1>7, <1>8, <1>9, <1>10, <1>11, <1>12, <1>13,
     <1>14 DEF Next, LoopStep

-----------------------------------------------------------------------------
(* The parser has taken some lines, and its context is what they say.      *)

\* The next line is one that is rejected.
Rejects(k) == k < Len(script) /\ ~Text[script[k + 1]].version

\* The context is what r, which has been read, says.
ContextIs(r, k) ==
    /\ ~r.rejected
    /\ context_.state_ = "kExpectRequestLine" =>
         /\ ~r.open /\ parsed = r.requests
         /\ context_.connection = "none"
         /\ context_.method_ # "kInvalid" => Rejects(k)
    /\ context_.state_ = "kExpectHeader" =>
         /\ r.open /\ parsed = r.requests
         /\ context_.path_ = r.path /\ (r.close <=> context_.connection = "close")
    /\ context_.state_ = "kGotAll" =>
         /\ ~r.open
         /\ r.requests = Append(parsed, [path |-> context_.path_,
                                         close |-> context_.connection = "close"])
    /\ pc = "onRequest" <=> context_.state_ = "kGotAll"
    /\ ended => context_.state_ = "kExpectRequestLine" /\ Rejects(k)

Taken(k) == Holds(k) /\ ContextIs(Reading(script)[k], k)

ParseInv == \E k \in 0..Len(script) : Taken(k)

\* To show it of the next state.
LEMMA TakenNext ==
    ASSUME InTypes, UNCHANGED script, NEW k \in 0..Len(script), NEW r,
           r = Reading(script)[k],
           Len(Lines(script)[k]) <= taken',
           inputBuffer_' = SubSeq(Stream, Len(Lines(script)[k]) + 1, taken'),
           ContextIs(r, k)'
    PROVE  ParseInv'
<1>1. Stream' = Stream
  BY SameScript
<1>2. Holds(k)'
  BY <1>1 DEF Holds, Lines
<1>3. ContextIs(Reading(script)[k], k)'
  BY DEF Reading
<1> QED
  BY <1>2, <1>3 DEF ParseInv, Taken

\* What a line that has been found says, and what is left when it is retrieved.
LEMMA LineTaken ==
    ASSUME InTypes, NEW k \in 0..Len(script), Holds(k), CrlfAt # {}
    PROVE  /\ k < Len(script) /\ k + 1 \in 0..Len(script)
           /\ script[k + 1] \in DOMAIN Text /\ Line = Text[script[k + 1]]
           /\ Reading(script)[k] \in ReadType
           /\ Reading(script)[k + 1] = ReadLine(Reading(script)[k], script[k + 1])
           /\ Len(Lines(script)[k]) < taken
           /\ RetrieveLine /\ taken' = taken =>
                /\ Len(Lines(script)[k + 1]) <= taken'
                /\ inputBuffer_' = SubSeq(Stream, Len(Lines(script)[k + 1]) + 1, taken')
<1>1. /\ script \in Seq(DOMAIN Text) /\ Len(script) \in Nat
      /\ taken \in Nat /\ taken <= Len(Stream)
  BY ScriptTypes DEF InTypes
<1>2. /\ k < Len(script) /\ script[k + 1] \in DOMAIN Text
      /\ Line = Text[script[k + 1]]
      /\ Len(Lines(script)[k]) < taken /\ Len(Lines(script)[k + 1]) <= taken
      /\ SubSeq(inputBuffer_, Crlf + 2, Len(inputBuffer_))
           = SubSeq(Stream, Len(Lines(script)[k + 1]) + 1, taken)
  BY <1>1, LineFound
<1>3. k + 1 \in 0..Len(script) /\ k + 1 \in 1..Len(script) /\ (k + 1) - 1 = k
  BY <1>1, <1>2
<1>4. Reading(script)[k] \in ReadType
  BY <1>1, ReadingIs
<1>5. Reading(script)[k + 1] = ReadLine(Reading(script)[k], script[k + 1])
  <2>1. Reading(script)[k + 1] = ReadLine(Reading(script)[(k + 1) - 1], script[k + 1])
    BY <1>1, <1>3, ReadingIs, Zenon
  <2> QED
    BY <1>3, <2>1
<1>6. ASSUME RetrieveLine, taken' = taken
      PROVE  /\ Len(Lines(script)[k + 1]) <= taken'
             /\ inputBuffer_' = SubSeq(Stream, Len(Lines(script)[k + 1]) + 1, taken')
  BY <1>2, <1>6, Zenon DEF RetrieveLine
<1> QED
  BY <1>2, <1>3, <1>4, <1>5, <1>6

LEMMA ParseInit == Init => ParseInv
<1> SUFFICES ASSUME Init PROVE ParseInv
  OBVIOUS
<1>1. script \in Seq(DOMAIN Text) /\ 0 \in 0..Len(script) /\ Stream \in Seq(Symbol)
  BY ScriptTypes DEF Init
<1>2. Lines(script)[0] = <<>> /\ Reading(script)[0] = Unread
  BY <1>1, LinesAre, ReadingIs
<1>3. Holds(0)
  BY <1>1, <1>2 DEF Init, Holds
<1>4. ContextIs(Unread, 0)
  BY DEF Init, ContextIs, Unread, NewContext
<1> QED
  BY <1>1, <1>2, <1>3, <1>4 DEF ParseInv, Taken

\* Steps that leave alone the parser and what it reads.
LEMMA ParseUnchanged ==
    ASSUME InTypes, ParseInv,
           UNCHANGED <<script, taken, inputBuffer_, context_, parsed, ended>>,
           pc' = "onRequest" <=> pc = "onRequest"
    PROVE  ParseInv'
<1>1. PICK k \in 0..Len(script) : Taken(k)
  BY DEF ParseInv
<1>2. PICK r : r = Reading(script)[k]
  OBVIOUS
<1>3. ContextIs(r, k)'
  BY <1>1, <1>2 DEF Taken, ContextIs, Rejects
<1> QED
  BY <1>1, <1>2, <1>3, TakenNext DEF Taken, Holds

LEMMA ParseHandleRead ==
    ASSUME InTypes, ParseInv, HandleRead
    PROVE  ParseInv'
<1>1. PICK k \in 0..Len(script) : Taken(k)
  BY DEF ParseInv
<1>2. PICK r, l : r = Reading(script)[k] /\ l = Len(Lines(script)[k])
  OBVIOUS
<1>3. /\ UNCHANGED <<script, context_, parsed, ended>> /\ taken' = arrived
      /\ pc = "poll" /\ pc' = "parseRequest" /\ taken < arrived
      /\ inputBuffer_' = inputBuffer_ \o SubSeq(Stream, taken + 1, arrived)
  BY DEF HandleRead, InLoop, peerVars
<1>4. ContextIs(r, k)'
  BY <1>1, <1>2, <1>3 DEF Taken, ContextIs, Rejects
<1>5. l \in Nat /\ l <= taken /\ taken \in Nat /\ arrived \in Nat /\ arrived <= Len(Stream)
      /\ Stream \in Seq(Symbol)
  BY <1>1, <1>2, ScriptTypes, LinesAre DEF Taken, Holds, InTypes
<1>6. inputBuffer_ = SubSeq(Stream, l + 1, taken)
  BY <1>1, <1>2 DEF Taken, Holds
<1>7. inputBuffer_' = SubSeq(Stream, l + 1, arrived)
  <2>1. /\ l + 1 \in 1..(Len(Stream) + 1) /\ taken \in ((l + 1) - 1)..Len(Stream)
        /\ arrived \in taken..Len(Stream)
    BY <1>3, <1>5
  <2>2. SubSeq(Stream, l + 1, taken) \o SubSeq(Stream, taken + 1, arrived)
          = SubSeq(Stream, l + 1, arrived)
    BY <1>5, <2>1, ConcatAdjacentSubSeq, Zenon
  <2> QED
    BY <1>3, <1>6, <2>2
<1>8. l <= taken'
  BY <1>3, <1>5
<1> QED
  BY <1>2, <1>3, <1>4, <1>7, <1>8, TakenNext

LEMMA ParseRequestLine ==
    ASSUME InTypes, ParseInv, RequestLine
    PROVE  ParseInv'
<1>1. PICK k \in 0..Len(script) : Taken(k)
  BY DEF ParseInv
<1>2. PICK r, q, name, t :
          /\ r = Reading(script)[k] /\ q = Reading(script)[k + 1]
          /\ name = script[k + 1] /\ t = Line
  OBVIOUS
<1>3. /\ k + 1 \in 0..Len(script) /\ name \in DOMAIN Text /\ t = Text[name]
      /\ r \in ReadType /\ q = ReadLine(r, name)
      /\ Len(Lines(script)[k + 1]) <= taken'
      /\ inputBuffer_' = SubSeq(Stream, Len(Lines(script)[k + 1]) + 1, taken')
  BY <1>1, <1>2, LineTaken DEF Taken, RequestLine
<1>4. /\ UNCHANGED <<script, parsed, ended, pc>> /\ pc = "parseRequest" /\ ~ended
      /\ context_.state_ = "kExpectRequestLine" /\ t.version
      /\ context_' = [context_ EXCEPT !.state_ = "kExpectHeader", !.method_ = t.method,
                                      !.path_ = t.path]
  BY <1>2 DEF RequestLine, InParser, InLoop, peerVars
<1>5. /\ ~r.rejected /\ ~r.open /\ parsed = r.requests /\ context_.connection = "none"
  BY <1>1, <1>2, <1>4 DEF Taken, ContextIs
<1>6. /\ ~q.rejected /\ q.open /\ q.path = t.path /\ q.close = FALSE
      /\ q.requests = r.requests
  <2>1. Reads(r, t, q)
    BY <1>3, ReadLineIs
  <2> QED
    BY <1>4, <1>5, <2>1, Zenon DEF Reads
<1>7. /\ context_'.state_ = "kExpectHeader" /\ context_'.path_ = t.path
      /\ context_'.connection = "none"
  BY <1>4, <1>5 DEF InTypes
<1>8. ContextIs(q, k + 1)'
  BY <1>4, <1>5, <1>6, <1>7 DEF ContextIs
<1> QED
  BY <1>2, <1>3, <1>4, <1>8, TakenNext

LEMMA ParseHeaderLine ==
    ASSUME InTypes, ParseInv, HeaderLine
    PROVE  ParseInv'
<1>1. PICK k \in 0..Len(script) : Taken(k)
  BY DEF ParseInv
<1>2. PICK r, q, name, t :
          /\ r = Reading(script)[k] /\ q = Reading(script)[k + 1]
          /\ name = script[k + 1] /\ t = Line
  OBVIOUS
<1>3. /\ k + 1 \in 0..Len(script) /\ name \in DOMAIN Text /\ t = Text[name]
      /\ r \in ReadType /\ q = ReadLine(r, name)
      /\ Len(Lines(script)[k + 1]) <= taken'
      /\ inputBuffer_' = SubSeq(Stream, Len(Lines(script)[k + 1]) + 1, taken')
  BY <1>1, <1>2, LineTaken DEF Taken, HeaderLine
<1>4. /\ UNCHANGED <<script, parsed, ended, pc>> /\ pc = "parseRequest" /\ ~ended
      /\ context_.state_ = "kExpectHeader" /\ t.colon
      /\ context_' = [context_ EXCEPT !.connection =
                          IF t.connection = "none" THEN @ ELSE t.connection]
  BY <1>2 DEF HeaderLine, InParser, InLoop, peerVars
<1>5. /\ ~r.rejected /\ r.open /\ parsed = r.requests /\ context_.path_ = r.path
      /\ (r.close <=> context_.connection = "close")
  BY <1>1, <1>2, <1>4 DEF Taken, ContextIs
<1>6. /\ ~q.rejected /\ q.open /\ q.path = r.path
      /\ q.close = IF t.connection = "none" THEN r.close ELSE t.connection = "close"
      /\ q.requests = r.requests
  <2>1. Reads(r, t, q)
    BY <1>3, ReadLineIs
  <2> QED
    BY <1>4, <1>5, <2>1, Zenon DEF Reads
<1>7. /\ context_'.state_ = "kExpectHeader" /\ context_'.path_ = context_.path_
      /\ context_'.connection
           = IF t.connection = "none" THEN context_.connection ELSE t.connection
  BY <1>4 DEF InTypes
<1>8. q.close <=> context_'.connection = "close"
  <2>1. CASE t.connection = "none"
    BY <1>5, <1>6, <1>7, <2>1
  <2>2. CASE t.connection # "none"
    BY <1>6, <1>7, <2>2
  <2> QED
    BY <2>1, <2>2
<1>9. ContextIs(q, k + 1)'
  BY <1>4, <1>5, <1>6, <1>7, <1>8 DEF ContextIs
<1> QED
  BY <1>2, <1>3, <1>4, <1>9, TakenNext

LEMMA ParseEndOfHeaders ==
    ASSUME InTypes, ParseInv, EndOfHeaders
    PROVE  ParseInv'
<1>1. PICK k \in 0..Len(script) : Taken(k)
  BY DEF ParseInv
<1>2. PICK r, q, name, t :
          /\ r = Reading(script)[k] /\ q = Reading(script)[k + 1]
          /\ name = script[k + 1] /\ t = Line
  OBVIOUS
<1>3. /\ k + 1 \in 0..Len(script) /\ name \in DOMAIN Text /\ t = Text[name]
      /\ r \in ReadType /\ q = ReadLine(r, name)
      /\ Len(Lines(script)[k + 1]) <= taken'
      /\ inputBuffer_' = SubSeq(Stream, Len(Lines(script)[k + 1]) + 1, taken')
  BY <1>1, <1>2, LineTaken DEF Taken, EndOfHeaders
<1>4. /\ UNCHANGED <<script, parsed, ended>> /\ pc' = "onRequest" /\ ~ended
      /\ context_.state_ = "kExpectHeader" /\ ~t.colon
      /\ context_' = [context_ EXCEPT !.state_ = "kGotAll"]
  BY <1>2 DEF EndOfHeaders, InParser, InLoop, peerVars
<1>5. /\ ~r.rejected /\ r.open /\ parsed = r.requests /\ context_.path_ = r.path
      /\ (r.close <=> context_.connection = "close")
  BY <1>1, <1>2, <1>4 DEF Taken, ContextIs
<1>6. /\ ~q.rejected /\ ~q.open
      /\ q.requests = Append(r.requests, [path |-> r.path, close |-> r.close])
  <2>1. Reads(r, t, q)
    BY <1>3, ReadLineIs
  <2> QED
    BY <1>4, <1>5, <2>1, Zenon DEF Reads
<1>7. /\ context_'.state_ = "kGotAll" /\ context_'.path_ = context_.path_
      /\ context_'.connection = context_.connection
  BY <1>4 DEF InTypes
<1>8. r.close = (context_'.connection = "close")
  BY <1>3, <1>5, <1>7 DEF ReadType, Requests
<1>9. q.requests = Append(parsed, [path |-> context_'.path_,
                                   close |-> context_'.connection = "close"])
  BY <1>5, <1>6, <1>7, <1>8, Zenon
<1>10. ContextIs(q, k + 1)'
  BY <1>4, <1>6, <1>7, <1>9 DEF ContextIs
<1> QED
  BY <1>2, <1>3, <1>4, <1>10, TakenNext

\* A line that is not a request line stays where it is, and only such a one
\* finds a method set.
LEMMA ParseRejectLine ==
    ASSUME InTypes, ParseInv, RejectLine
    PROVE  ParseInv'
<1>1. PICK k \in 0..Len(script) : Taken(k)
  BY DEF ParseInv
<1>2. PICK r, t : r = Reading(script)[k] /\ t = Line
  OBVIOUS
<1>3. k < Len(script) /\ t = Text[script[k + 1]]
  BY <1>1, <1>2, LineTaken DEF Taken, RejectLine
<1>4. /\ UNCHANGED <<script, parsed, ended, taken, inputBuffer_>> /\ pc' = "poll" /\ ~ended
      /\ context_.state_ = "kExpectRequestLine"
      /\ t.method = "kInvalid" \/ ~t.version
      /\ context_' = [context_ EXCEPT
                        !.method_ = t.method,
                        !.path_ = IF t.method = "kInvalid" THEN @ ELSE t.path]
  BY <1>2 DEF RejectLine, InParser, InLoop, peerVars
<1>5. /\ ~r.rejected /\ ~r.open /\ parsed = r.requests /\ context_.connection = "none"
  BY <1>1, <1>2, <1>4 DEF Taken, ContextIs
<1>6. /\ context_'.state_ = "kExpectRequestLine" /\ context_'.method_ = t.method
      /\ context_'.connection = "none"
  BY <1>4, <1>5 DEF InTypes
<1>7. t.method # "kInvalid" => Rejects(k)'
  BY <1>3, <1>4 DEF Rejects
<1>8. ContextIs(r, k)'
  BY <1>4, <1>5, <1>6, <1>7 DEF ContextIs
<1> QED
  BY <1>1, <1>2, <1>4, <1>8, TakenNext DEF Taken, Holds

LEMMA ParseMethodIsSet ==
    ASSUME InTypes, ParseInv, MethodIsSet
    PROVE  ParseInv'
<1>1. PICK k \in 0..Len(script) : Taken(k)
  BY DEF ParseInv
<1>2. PICK r : r = Reading(script)[k]
  OBVIOUS
<1>3. /\ UNCHANGED <<script, parsed, context_, pc, taken, inputBuffer_>> /\ ended'
      /\ context_.state_ = "kExpectRequestLine" /\ context_.method_ # "kInvalid"
  BY DEF MethodIsSet, InParser, peerVars
<1>4. ContextIs(r, k)'
  BY <1>1, <1>2, <1>3 DEF Taken, ContextIs, Rejects
<1> QED
  BY <1>1, <1>2, <1>3, <1>4, TakenNext DEF Taken, Holds

LEMMA ParseOnRequest ==
    ASSUME InTypes, ParseInv, OnRequest
    PROVE  ParseInv'
<1>1. PICK k \in 0..Len(script) : Taken(k)
  BY DEF ParseInv
<1>2. PICK r : r = Reading(script)[k]
  OBVIOUS
<1>3. /\ UNCHANGED <<script, ended, taken, inputBuffer_>> /\ ~ended
      /\ pc = "onRequest" /\ pc' = "poll" /\ context_' = NewContext
      /\ parsed' = Append(parsed, [path |-> context_.path_,
                                   close |-> context_.connection = "close"])
  BY DEF OnRequest, Reset, InLoop, peerVars
<1>4. /\ ~r.rejected /\ ~r.open /\ r.requests = parsed'
  BY <1>1, <1>2, <1>3 DEF Taken, ContextIs
<1>5. /\ context_'.state_ = "kExpectRequestLine" /\ context_'.method_ = "kInvalid"
      /\ context_'.connection = "none"
  BY <1>3 DEF NewContext
<1>6. ContextIs(r, k)'
  BY <1>3, <1>4, <1>5 DEF ContextIs
<1> QED
  BY <1>1, <1>2, <1>3, <1>6, TakenNext DEF Taken, Holds

LEMMA ParseNext == InTypes /\ ParseInv /\ [Next]_vars => ParseInv'
<1> SUFFICES ASSUME InTypes, ParseInv, [Next]_vars PROVE ParseInv'
  OBVIOUS
<1>1. CASE HandleRead
  BY <1>1, ParseHandleRead
<1>2. CASE HandleClose
  BY <1>2, ParseUnchanged DEF HandleClose, peerVars
<1>3. CASE HandleWrite
  BY <1>3, ParseUnchanged DEF HandleWrite, peerVars
<1>4. CASE Incomplete
  BY <1>4, ParseUnchanged DEF Incomplete, InLoop, peerVars
<1>5. CASE RequestLine
  BY <1>5, ParseRequestLine
<1>6. CASE RejectLine
  BY <1>6, ParseRejectLine
<1>7. CASE MethodIsSet
  BY <1>7, ParseMethodIsSet
<1>8. CASE HeaderLine
  BY <1>8, ParseHeaderLine
<1>9. CASE EndOfHeaders
  BY <1>9, ParseEndOfHeaders
<1>10. CASE OnRequest
  BY <1>10, ParseOnRequest
<1>11. CASE PeerSends
  BY <1>11, ParseUnchanged DEF PeerSends
<1>12. CASE PeerReads
  BY <1>12, ParseUnchanged DEF PeerReads
<1>13. CASE PeerCloses
  BY <1>13, ParseUnchanged DEF PeerCloses
<1>14. CASE UNCHANGED vars
  BY <1>14, ParseUnchanged DEF vars, peerVars
<1> QED
  BY <1>1, <1>2, <1>3, <1>4, <1>5, <1>6, <1>7, <1>8, <1>9, <1>10, <1>11, <1>12, <1>13,
     <1>14 DEF Next, LoopStep

-----------------------------------------------------------------------------
(* A peer that waits for its answers.                                      *)

\* It has the answer to each request but the last that has arrived; nothing is
\* answered twice; and the connection is shut down behind an answer that closes.
Waited ==
    polite =>
      /\ \A i \in DOMAIN Whole.ends : Whole.ends[i] < arrived => i * ResponseLen <= got
      /\ state_ = "kConnected" => Len(answers) <= Len(parsed)
      /\ state_ = "kDisconnecting" \/ shut => answers # <<>> /\ answers[Len(answers)].close

\* The requests before the line that is parsed have been answered and the
\* answers read: nothing waits to be written.
LEMMA NothingWaits ==
    ASSUME InTypes, SendInv, Waited, polite, state_ = "kConnected",
           NEW k \in 0..Len(script), NEW r, r = Reading(script)[k],
           Len(answers) <= Len(r.requests),
           Len(answers) = Len(r.requests) => r.length < arrived,
           r.length <= arrived
    PROVE  ~writing /\ outputBuffer_ = <<>>
<1>1. PICK m \in Nat : m = Len(answers)
  BY DEF SendInv, OutTypes
<1>2. /\ wire \in Seq(Bytes) /\ outputBuffer_ \in Seq(Bytes)
      /\ got \in Nat /\ got <= Len(wire) /\ writing \in BOOLEAN
      /\ writing <=> outputBuffer_ # <<>>
      /\ wire \o outputBuffer_ = BytesOf(m)
  BY <1>1 DEF SendInv, OutTypes, OutputInv, WholeInOrder
<1>3. /\ BytesOf(m) \in Seq(Bytes) /\ m * ResponseLen \in Nat
      /\ Len(BytesOf(m)) = m * ResponseLen
  <2>1. ResponseLen \in Nat
    BY ResponseAssumption
  <2>2. PICK l \in Nat : l = m * ResponseLen
    BY <2>1
  <2>3. BytesOf(m) \in Seq(Bytes)
    BY OneResponseMore
  <2>4. DOMAIN BytesOf(m) = 1..l
    BY <2>2 DEF BytesOf
  <2> QED
    BY <2>2, <2>3, <2>4
<1>4. m * ResponseLen <= got
  <2>1. CASE m = 0
    BY <1>2, <2>1, ResponseAssumption
  <2>2. CASE m # 0
    <3>1. script \in Seq(DOMAIN Text)
      BY ScriptTypes DEF InTypes
    <3>s. SaidSoFar(k, r)
      BY <3>1, ReadSoFar
    <3>2. m \in 1..Len(r.requests) /\ r \in ReadType
      BY <1>1, <2>2, <3>s DEF SaidSoFar, ReadType, Requests
    <3>3. /\ m \in DOMAIN Whole.ends /\ Whole.ends[m] = r.ends[m]
          /\ r.ends[m] <= r.length
          /\ m < Len(r.requests) => r.ends[m] < r.length
          /\ Len(r.ends) = Len(r.requests)
      BY <3>s, <3>2 DEF SaidSoFar
    <3>4. r.ends[m] \in Nat /\ r.length \in Nat /\ arrived \in Nat
      BY <3>2, <3>3 DEF ReadType, InTypes
    <3>5. Whole.ends[m] < arrived
      <4>1. PICK d \in Nat, l \in Nat, n \in Nat :
                d = r.ends[m] /\ l = r.length /\ n = Len(r.requests)
        BY <3>2, <3>4 DEF ReadType, Requests
      <4>2. d <= l /\ (m < n => d < l) /\ l <= arrived /\ (m = n => l < arrived) /\ m <= n
        BY <1>1, <3>2, <3>3, <4>1
      <4>3. d < arrived
        BY <3>4, <4>2
      <4> QED
        BY <3>3, <4>1, <4>3
    <3> QED
      BY <3>3, <3>5 DEF Waited
  <2> QED
    BY <2>1, <2>2
<1>5. Len(wire) + Len(outputBuffer_) = m * ResponseLen
  <2>1. Len(wire \o outputBuffer_) = Len(wire) + Len(outputBuffer_)
    BY <1>2
  <2> QED
    BY <1>2, <1>3, <2>1, Zenon
<1>6. Len(outputBuffer_) = 0
  BY <1>2, <1>3, <1>4, <1>5
<1> QED
  BY <1>2, <1>6

LEMMA WaitedInit == Init => Waited
<1> SUFFICES ASSUME Init PROVE Waited
  OBVIOUS
<1>1. Whole \in ReadType
  BY ScriptTypes DEF Init
<1>2. \A i \in DOMAIN Whole.ends : ~(Whole.ends[i] < arrived)
  BY <1>1 DEF Init, ReadType
<1> QED
  BY <1>2 DEF Init, Waited

\* Steps that neither send to the peer nor hear from it.
LEMMA WaitedUnchanged ==
    ASSUME InTypes, Waited,
           UNCHANGED <<script, polite, arrived, got, state_, shut, answers, parsed>>
    PROVE  Waited'
BY SameScript DEF Waited

\* A response to the request that has just been parsed or rejected.
LEMMA WaitedRespond ==
    ASSUME InTypes, SendInv, Waited, UNCHANGED <<script, polite, arrived, got>>,
           NEW r \in [code: Nat, close: BOOLEAN], Respond(r),
           polite /\ state_ = "kConnected" => ~writing /\ outputBuffer_ = <<>>,
           Len(parsed') \in Nat,
           Len(parsed') = Len(parsed) + 1 \/ (r.close /\ parsed' = parsed)
    PROVE  Waited'
<1> SUFFICES ASSUME polite
             PROVE  /\ \A i \in DOMAIN Whole.ends :
                          Whole.ends[i] < arrived => i * ResponseLen <= got
                    /\ state_' = "kConnected" => Len(answers') <= Len(parsed')
                    /\ state_' = "kDisconnecting" \/ shut' =>
                         answers' # <<>> /\ answers'[Len(answers')].close
  BY SameScript DEF Waited
<1>1. \A i \in DOMAIN Whole.ends : Whole.ends[i] < arrived => i * ResponseLen <= got
  BY DEF Waited
<1>2. answers \in Seq([code: Nat, close: BOOLEAN])
  BY DEF SendInv, OutTypes
<1>3. CASE state_ # "kConnected"
  <2>1. UNCHANGED <<answers, state_, shut>>
    BY <1>3 DEF Respond, outVars
  <2> QED
    BY <1>1, <1>3, <2>1 DEF Waited
<1>4. CASE state_ = "kConnected"
  <2>1. answers' = Append(answers, r)
    BY <1>4 DEF Respond, SendInLoop
  <2>2. Len(answers') = Len(answers) + 1 /\ answers'[Len(answers')] = r /\ answers' # <<>>
    BY <1>2, <2>1
  <2>3. Len(answers) <= Len(parsed) /\ shut = FALSE
    BY <1>4 DEF Waited, SendInv, OutTypes, OutputInv
  <2>4. CASE r.close
    <3>1. state_' = "kDisconnecting"
      BY <1>4, <2>4 DEF Respond
    <3> QED
      BY <1>1, <2>2, <2>4, <3>1
  <2>5. CASE ~r.close
    <3>1. UNCHANGED <<state_, shut>>
      BY <1>4, <2>5 DEF Respond
    <3>2. Len(answers') <= Len(parsed')
      BY <1>2, <2>2, <2>3, <2>5
    <3> QED
      BY <1>1, <1>4, <2>3, <3>1, <3>2
  <2> QED
    BY <2>4, <2>5
<1> QED
  BY <1>3, <1>4

LEMMA WaitedRejectLine ==
    ASSUME InTypes, ParseInv, SendInv, Waited, RejectLine
    PROVE  Waited'
<1> DEFINE rejection == [code |-> 400, close |-> TRUE]
<1>1. /\ UNCHANGED <<script, polite, arrived, got, parsed>> /\ Respond(rejection)
      /\ context_.state_ = "kExpectRequestLine" /\ CrlfAt # {}
  BY DEF RejectLine, InParser, peerVars
<1>2. PICK k \in 0..Len(script) : Taken(k)
  BY DEF ParseInv
<1>3. PICK r : r = Reading(script)[k]
  OBVIOUS
<1>4. script \in Seq(DOMAIN Text) /\ taken <= arrived /\ taken \in Nat /\ arrived \in Nat
  BY ScriptTypes DEF InTypes
<1>5. parsed = r.requests
  BY <1>1, <1>2, <1>3 DEF Taken, ContextIs
<1>6. r.length < arrived /\ r \in ReadType
  <2>1. Len(Lines(script)[k]) < taken
    BY <1>1, <1>2, LineTaken DEF Taken
  <2>2. r.length = Len(Lines(script)[k]) /\ r \in ReadType
    BY <1>3, <1>4, ReadSoFar DEF SaidSoFar
  <2> QED
    BY <1>4, <2>1, <2>2 DEF ReadType
<1>7. Len(parsed) \in Nat /\ r.length \in Nat
  BY <1>5, <1>6 DEF ReadType, Requests
<1>8. polite /\ state_ = "kConnected" => ~writing /\ outputBuffer_ = <<>>
  <2> SUFFICES ASSUME polite, state_ = "kConnected" PROVE ~writing /\ outputBuffer_ = <<>>
    OBVIOUS
  <2>1. Len(answers) <= Len(r.requests)
    BY <1>5 DEF Waited
  <2>2. r.length <= arrived
    BY <1>4, <1>6, <1>7
  <2> QED
    BY <1>3, <1>6, <2>1, <2>2, NothingWaits
<1>9. rejection \in [code: Nat, close: BOOLEAN] /\ rejection.close
  OBVIOUS
<1> HIDE DEF rejection
<1> QED
  BY <1>1, <1>7, <1>8, <1>9, WaitedRespond

LEMMA WaitedOnRequest ==
    ASSUME InTypes, ParseInv, SendInv, Waited, OnRequest
    PROVE  Waited'
<1>1. PICK x : /\ UNCHANGED <<script, polite, arrived, got>>
               /\ Respond(Response(context_))
               /\ parsed' = Append(parsed, x) /\ pc = "onRequest"
               /\ x = [path |-> context_.path_, close |-> context_.connection = "close"]
  BY DEF OnRequest, InLoop, peerVars
<1>2. PICK k \in 0..Len(script) : Taken(k)
  BY DEF ParseInv
<1>3. PICK r : r = Reading(script)[k]
  OBVIOUS
<1>4. script \in Seq(DOMAIN Text) /\ taken <= arrived /\ taken \in Nat /\ arrived \in Nat
  BY ScriptTypes DEF InTypes
<1>5. r.requests = Append(parsed, x)
  BY <1>1, <1>2, <1>3 DEF Taken, ContextIs
<1>6. r.length <= arrived /\ r.length \in Nat /\ r \in ReadType
  <2>1. Len(Lines(script)[k]) <= taken
    BY <1>2 DEF Taken, Holds
  <2>2. r.length = Len(Lines(script)[k]) /\ r \in ReadType
    BY <1>3, <1>4, ReadSoFar DEF SaidSoFar
  <2> QED
    BY <1>4, <2>1, <2>2 DEF ReadType
<1>7. Len(parsed) \in Nat /\ Len(r.requests) = Len(parsed) + 1
      /\ Len(parsed') = Len(parsed) + 1
  BY <1>1, <1>5 DEF InTypes
<1>8. polite /\ state_ = "kConnected" => ~writing /\ outputBuffer_ = <<>>
  <2> SUFFICES ASSUME polite, state_ = "kConnected" PROVE ~writing /\ outputBuffer_ = <<>>
    OBVIOUS
  <2>1. Len(answers) <= Len(parsed) /\ Len(answers) \in Nat
    BY DEF Waited, SendInv, OutTypes
  <2>2. Len(answers) <= Len(r.requests) /\ Len(answers) # Len(r.requests)
    BY <1>7, <2>1
  <2> QED
    BY <1>3, <1>6, <2>2, NothingWaits
<1>9. PICK response \in [code: Nat, close: BOOLEAN] : response = Response(context_)
  BY ResponseType
<1>10. Respond(response)
  BY <1>1, <1>9
<1>11. Len(parsed') \in Nat
  BY <1>7
<1> QED
  BY <1>1, <1>7, <1>8, <1>10, <1>11, WaitedRespond

LEMMA WaitedNext ==
    InTypes /\ ParseInv /\ SendInv /\ Waited /\ [Next]_vars => Waited'
<1> SUFFICES ASSUME InTypes, ParseInv, SendInv, Waited, [Next]_vars PROVE Waited'
  OBVIOUS
<1>1. CASE HandleRead
  BY <1>1, WaitedUnchanged DEF HandleRead, peerVars, outVars
<1>2. CASE HandleClose
  <2>1. /\ UNCHANGED <<script, polite, arrived, got, shut, answers, parsed>>
        /\ state_' = "kDisconnected"
    BY <1>2 DEF HandleClose, peerVars
  <2> QED
    BY <2>1, SameScript DEF Waited
<1>3. CASE HandleWrite
  <2>1. /\ UNCHANGED <<script, polite, arrived, got, state_, answers, parsed>>
        /\ shut' = shut \/ state_ = "kDisconnecting"
    BY <1>3 DEF HandleWrite, peerVars
  <2> QED
    BY <2>1, SameScript DEF Waited
<1>4. CASE Incomplete
  BY <1>4, WaitedUnchanged DEF Incomplete, peerVars, outVars
<1>5. CASE RequestLine
  BY <1>5, WaitedUnchanged DEF RequestLine, peerVars, outVars
<1>6. CASE RejectLine
  BY <1>6, WaitedRejectLine
<1>7. CASE MethodIsSet
  BY <1>7, WaitedUnchanged DEF MethodIsSet, peerVars, outVars
<1>8. CASE HeaderLine
  BY <1>8, WaitedUnchanged DEF HeaderLine, peerVars, outVars
<1>9. CASE EndOfHeaders
  BY <1>9, WaitedUnchanged DEF EndOfHeaders, peerVars, outVars
<1>10. CASE OnRequest
  BY <1>10, WaitedOnRequest
<1>11. CASE PeerSends
  <2>1. /\ UNCHANGED <<script, polite, got, state_, shut, answers, parsed>>
        /\ polite => \A i \in DOMAIN Whole.ends : Whole.ends[i] < arrived' =>
              i * ResponseLen <= got
    <3>1. PICK n \in 1..(Len(Stream) - arrived) : MaySend(n) /\ arrived' = arrived + n
      BY <1>11 DEF PeerSends
    <3> QED
      BY <1>11, <3>1 DEF PeerSends, outVars, MaySend
  <2> QED
    BY <2>1, SameScript DEF Waited
<1>12. CASE PeerReads
  <2>1. /\ UNCHANGED <<script, polite, arrived, state_, shut, answers, parsed>>
        /\ got' = Len(wire)
    BY <1>12 DEF PeerReads, outVars
  <2>2. got \in Nat /\ got' \in Nat /\ got <= got'
    BY <2>1 DEF SendInv, OutTypes
  <2>3. polite => \A i \in DOMAIN Whole.ends : Whole.ends[i] < arrived =>
            i * ResponseLen <= got'
    <3> SUFFICES ASSUME polite, NEW i \in DOMAIN Whole.ends, Whole.ends[i] < arrived
                 PROVE  i * ResponseLen <= got'
      OBVIOUS
    <3>1. i * ResponseLen <= got
      BY DEF Waited
    <3>2. i \in Nat
      BY ScriptTypes DEF InTypes, ReadType
    <3>3. i * ResponseLen \in Nat
      BY <3>2, ResponseAssumption
    <3> QED
      BY <2>2, <3>1, <3>3
  <2> QED
    BY <2>1, <2>3, SameScript DEF Waited
<1>13. CASE PeerCloses
  BY <1>13, WaitedUnchanged DEF PeerCloses, outVars
<1>14. CASE UNCHANGED vars
  BY <1>14, WaitedUnchanged DEF vars, peerVars, outVars
<1> QED
  BY <1>1, <1>2, <1>3, <1>4, <1>5, <1>6, <1>7, <1>8, <1>9, <1>10, <1>11, <1>12, <1>13,
     <1>14 DEF Next, LoopStep

-----------------------------------------------------------------------------
\* Everything together.
ServerInv == InTypes /\ ParseInv /\ SendInv /\ Waited

LEMMA ServerInvInit == Init => ServerInv
BY InTypesInit, ParseInit, InvInit, WaitedInit DEF ServerInv

LEMMA ServerInvNext == ServerInv /\ [Next]_vars => ServerInv'
BY InTypesNext, ParseNext, InvNext, WaitedNext DEF ServerInv

\* What has been parsed is what the first lines of the script say.
LEMMA ParsedIsRead ==
    ASSUME InTypes, ParseInv
    PROVE  CutsDoNotMatter
<1>1. PICK k \in 0..Len(script) : Taken(k)
  BY DEF ParseInv
<1>2. PICK r : r = Reading(script)[k]
  OBVIOUS
<1>3. script \in Seq(DOMAIN Text) /\ Len(script) \in Nat /\ Whole \in ReadType
  BY ScriptTypes DEF InTypes
<1>4. r \in ReadType /\ IsPrefix(r.requests, Whole.requests)
  BY <1>2, <1>3, ReadSoFar DEF SaidSoFar
<1>5. IsPrefix(parsed, Whole.requests)
  <2>1. CASE parsed = r.requests
    BY <1>4, <2>1, Zenon
  <2>2. CASE context_.state_ = "kGotAll"
    <3>1. PICK x : r.requests = Append(parsed, x)
      BY <1>1, <1>2, <2>2 DEF Taken, ContextIs
    <3>2. PICK w : w = Whole.requests /\ w \in Seq([path: Path, close: BOOLEAN])
      BY <1>3 DEF ReadType, Requests
    <3>3. /\ r.requests \in Seq([path: Path, close: BOOLEAN])
          /\ Len(r.requests) <= Len(w) /\ r.requests = SubSeq(w, 1, Len(r.requests))
      BY <1>4, <3>2 DEF IsPrefix, ReadType, Requests
    <3>4. parsed \in Seq([path: Path, close: BOOLEAN]) /\ Len(r.requests) = Len(parsed) + 1
      BY <3>1 DEF InTypes
    <3>5. \A i \in 1..Len(parsed) : parsed[i] = w[i]
      <4>1. \A i \in 1..Len(parsed) : r.requests[i] = parsed[i]
        BY <3>1, <3>4
      <4>2. \A i \in 1..Len(r.requests) : r.requests[i] = w[i]
        BY <3>2, <3>3
      <4> QED
        BY <3>4, <4>1, <4>2
    <3>6. Len(parsed) <= Len(w)
      BY <3>2, <3>3, <3>4
    <3>7. parsed = SubSeq(w, 1, Len(parsed))
      BY <3>2, <3>4, <3>5, <3>6
    <3> QED
      BY <3>2, <3>6, <3>7 DEF IsPrefix
  <2>3. context_.state_ \in {"kExpectRequestLine", "kExpectHeader", "kGotAll"}
    BY DEF InTypes
  <2> QED
    BY <1>1, <1>2, <2>1, <2>2, <2>3 DEF Taken, ContextIs
<1>6. ended => Whole.rejected
  <2> SUFFICES ASSUME ended PROVE Whole.rejected
    OBVIOUS
  <2>1. k < Len(script) /\ ~Text[script[k + 1]].version /\ ~r.rejected /\ ~r.open
    BY <1>1, <1>2 DEF Taken, ContextIs, Rejects
  <2>2. /\ k + 1 \in 0..Len(script) /\ k + 1 \in 1..Len(script) /\ (k + 1) - 1 = k
        /\ script[k + 1] \in DOMAIN Text
    BY <1>3, <2>1
  <2>3. PICK q : q = Reading(script)[k + 1]
    OBVIOUS
  <2>4. q = ReadLine(r, script[k + 1])
    <3>1. q = ReadLine(Reading(script)[(k + 1) - 1], script[k + 1])
      BY <1>3, <2>2, <2>3, ReadingIs, Zenon
    <3> QED
      BY <1>2, <2>2, <3>1
  <2>5. Reads(r, Text[script[k + 1]], q)
    BY <1>4, <2>2, <2>4, ReadLineIs
  <2>6. q.rejected
    BY <2>1, <2>5, Zenon DEF Reads
  <2> QED
    <3>1. SaidSoFar(k + 1, q)
      BY <1>3, <2>2, <2>3, ReadSoFar
    <3> QED
      BY <2>6, <3>1, Zenon DEF SaidSoFar
<1> QED
  BY <1>5, <1>6 DEF CutsDoNotMatter

\* The types of one connection of the server (net/TcpConnection.h,
\* http/HttpContext.h): no more is read than has come, and no more has come
\* than is sent.
THEOREM HttpTypeCorrect == Spec => []TypeOK
<1>1. InTypes /\ OutTypes => TypeOK
  BY DEF InTypes, OutTypes, TypeOK, Path
<1>2. ServerInv => TypeOK
  BY <1>1 DEF ServerInv, SendInv
<1> QED
  BY <1>2, ServerInvInit, ServerInvNext, PTL DEF Spec

\* However the peer's bytes are cut into reads, the requests that are parsed are
\* the first of those the script says when it is read as a whole, in order and
\* each once; and the assert of setMethod() fails only behind a line that has
\* been rejected (HttpContext.cpp:13-108, HttpRequest.cpp:17).
THEOREM CutsNeverMatter == Spec => []CutsDoNotMatter
<1>1. ServerInv => CutsDoNotMatter
  BY ParsedIsRead DEF ServerInv
<1> QED
  BY <1>1, ServerInvInit, ServerInvNext, PTL DEF Spec

\* The peer gets whole responses in order, and one that waits for each answer
\* before it goes on has been told so by the last of them when the connection is
\* shut down: no response to it is dropped (TcpConnection.cpp:183, 216-245).
THEOREM AnswersAlwaysWhole == Spec => []AnswersAreWhole
<1>1. ServerInv => AnswersAreWhole
  BY DEF ServerInv, SendInv, Waited, AnswersAreWhole
<1> QED
  BY <1>1, ServerInvInit, ServerInvNext, PTL DEF Spec
=============================================================================
