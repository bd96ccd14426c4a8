------------------------------ MODULE ByteQueue ------------------------------
(***************************************************************************)
(* What a Buffer (net/Buffer.h) promises its callers: a queue of bytes.    *)
(* Bytes are added at the end, and in front as a header is; they are taken *)
(* from the front; nothing is said of where they are kept.                 *)
(***************************************************************************)
EXTENDS Integers, Sequences

CONSTANT Message    \* what is added at once: a set of sequences of bytes

VARIABLE queue      \* the bytes that can be read, first one first

Init == queue = <<>>

\* append(), appendInt32(), ..., readFd()
Put(s) == queue' = queue \o s

\* prepend(), prependInt32(), ...
PutInFront(s) == queue' = s \o queue

\* retrieve(), retrieveAsString(), readInt32(), ...
Take(n) == queue' = SubSeq(queue, n + 1, Len(queue))

\* retrieveAll(), shrink()
Clear == queue' = <<>>

Next ==
    \/ \E s \in Message : Put(s) \/ PutInFront(s)
    \/ \E n \in 0..Len(queue) : Take(n)
    \/ Clear

Spec == Init /\ [][Next]_queue
==============================================================================
