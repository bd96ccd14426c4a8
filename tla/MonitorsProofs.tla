--------------------------- MODULE MonitorsProofs ---------------------------
(***************************************************************************)
(* Proofs about Monitors, for any number of producers and consumers, any   *)
(* capacity and any number of elements: the type invariant, the order and  *)
(* the count of what is in the queue, and that no wake-up is lost.         *)
(***************************************************************************)
EXTENDS Monitors, FiniteSetTheorems, SequenceTheorems, TLAPS

Elements == Nat \cup {Nothing}
PcValues == {"idle", "lock", "test", "block", "waiting", "woken", "act",
             "notify", "join", "done"}

(***************************************************************************)
(* What the classes have in common.  A push wakes those who take, a pop    *)
(* those who put if anyone can wait to put; whoever shares a condition     *)
(* variable wakes everyone.  PutsConstReference alone does not have this:  *)
(* it waits for notEmpty_, which its pop does not notify.                  *)
(***************************************************************************)
WakesEnough(k) ==
    /\ k.putWakes = k.takeWaits
    /\ k.bounded => k.takeWakes = k.putWaits /\ ~k.wakesLate
    /\ k.wakesAll \/ (k.putWaits # k.takeWaits /\ k.drains /\ ~k.wakesLate)

ClassIsTyped(k) ==
    /\ k.bounded \in BOOLEAN /\ k.maxSize_ \in Nat /\ k.prefill \in Seq(Elements)
    /\ k.wakesAll \in BOOLEAN /\ k.wakesLate \in BOOLEAN

\* Each of the classes but PutsConstReference wakes enough.
LEMMA ClassesAreGood ==
    \A k \in Classes :
       ClassIsTyped(k) /\ (k # PutsConstReference => WakesEnough(k))
<1>1. Defaults \in Seq(Elements)
  BY MaxSizeAssumption DEF Defaults, Elements
<1>2. <<>> \in Seq(Elements)
  OBVIOUS
<1>3. ClassIsTyped(BlockingQueue) /\ WakesEnough(BlockingQueue)
  BY <1>2 DEF ClassIsTyped, WakesEnough, BlockingQueue
<1>4. WakesEnough(BoundedBlockingQueue)
  BY DEF WakesEnough, BlockingQueue, BoundedBlockingQueue
<1>5. ClassIsTyped(BoundedBlockingQueue)
  BY <1>1, MaxSizeAssumption
  DEF ClassIsTyped, BlockingQueue, BoundedBlockingQueue
<1>6. ClassIsTyped(ThreadPool) /\ WakesEnough(ThreadPool)
  BY <1>2 DEF ClassIsTyped, WakesEnough, BlockingQueue, ThreadPool
<1>7. WakesEnough(BoundedBuffer)
  BY DEF WakesEnough, BlockingQueue, BoundedBuffer
<1>8. ClassIsTyped(BoundedBuffer)
  BY <1>2, MaxSizeAssumption DEF ClassIsTyped, BlockingQueue, BoundedBuffer
<1>9. ClassIsTyped(threadpool) /\ WakesEnough(threadpool)
  BY <1>2 DEF ClassIsTyped, WakesEnough, BlockingQueue, threadpool
<1>10. ClassIsTyped(PutsConstReference)
  BY <1>1, MaxSizeAssumption
  DEF ClassIsTyped, BlockingQueue, BoundedBlockingQueue, PutsConstReference
<1> QED
  BY <1>3, <1>4, <1>5, <1>6, <1>7, <1>8, <1>9, <1>10 DEF Classes

\* A notify() wakes threads that wait on its condition variable: all of
\* them, or one if there is one.
LEMMA WhoIsWoken ==
    ASSUME NEW cond, NEW ts \in NotifyWakes(cond)
    PROVE  /\ ts \subseteq Waiting(cond)
           /\ class.wakesAll => ts = Waiting(cond)
           /\ ~class.wakesAll /\ Waiting(cond) # {} =>
                 \E w \in Waiting(cond) : ts = {w}
BY DEF NotifyWakes

-----------------------------------------------------------------------------
(* Types, and what is in the queue.                                        *)

\* The owner of a pool stops it once and never waits.
OwnerIsApart ==
    /\ pc[Owner] \in {"idle", "lock", "act", "notify", "join", "done"}
    /\ pc[Owner] = "idle" => ~stopped

QueueInv == TypeOK /\ OwnerIsApart /\ QueueIsKept

LEMMA QueueInvInit == Init => QueueInv
<1> SUFFICES ASSUME Init PROVE QueueInv
  OBVIOUS
<1>1. ClassIsTyped(class)
  BY ClassesAreGood DEF Init
<1>2. TypeOK
  <2>1. class.prefill \in Seq(Nat \cup {Nothing})
    BY <1>1 DEF ClassIsTyped, Elements
  <2>2. \A t \in Threads : ~InMutex(t) /\ mutex_ # t
    BY MonitorThreads DEF Init, InMutex
  <2>3. queue_ \in Seq(Nat \cup {Nothing})
    BY <2>1 DEF Init
  <2>4. put \in Seq(Nat \cup {Nothing}) /\ taken \in Seq(Nat \cup {Nothing})
    BY DEF Init
  <2> QED
    BY <2>2, <2>3, <2>4 DEF Init, TypeOK
<1>3. OwnerIsApart
  BY DEF Init, OwnerIsApart, Threads
<1>4. QueueIsKept
  BY <1>1 DEF Init, QueueIsKept, ClassIsTyped, Threads, Users
<1> QED
  BY <1>2, <1>3, <1>4 DEF QueueInv

\* Steps that leave the elements alone.
LEMMA DataUnchanged ==
    ASSUME QueueInv, UNCHANGED <<class, dataVars>>,
           \A p \in Producers : pc'[p] = "act" =>
              pc[p] = "act" \/ (pc[p] = "test" /\ Ready(p)),
           \A c \in Consumers : pc'[c] = "act" =>
              pc[c] = "act" \/ (pc[c] = "test" /\ Ready(c)),
           stopped => stopped'
    PROVE  QueueIsKept'
<1>1. ClassIsTyped(class)
  BY ClassesAreGood DEF QueueInv, TypeOK
<1>2. class.bounded => size_ <= class.maxSize_
  BY DEF QueueInv, QueueIsKept
<1>3. ASSUME NEW p \in Producers, pc[p] = "test", Ready(p), class.bounded
      PROVE  size_ < class.maxSize_
  BY <1>1, <1>2, <1>3 DEF Ready, QueueInv, TypeOK, ClassIsTyped
<1>4. ASSUME NEW c \in Consumers, pc[c] = "test", Ready(c)
      PROVE  size_ > 0 \/ stopped
  BY <1>4, MonitorThreads DEF Ready, QueueInv, TypeOK
<1> QED
  BY <1>3, <1>4 DEF QueueInv, QueueIsKept, dataVars

(* Sequences: what a push and a pop do to "taken behind what was put".     *)

LEMMA AppendBehind ==
    \A a, q \in Seq(Elements), e \in Elements :
       /\ a \o Append(q, e) = Append(a \o q, e)
       /\ Append(q, e) \in Seq(Elements)
       /\ Len(Append(q, e)) = Len(q) + 1
OBVIOUS

LEMMA HeadBehind ==
    \A a, q \in Seq(Elements) : q # <<>> =>
       /\ Append(a, Head(q)) \o Tail(q) = a \o q
       /\ Append(a, Head(q)) \in Seq(Elements)
       /\ Tail(q) \in Seq(Elements)
       /\ Len(Tail(q)) = Len(q) - 1
OBVIOUS

-----------------------------------------------------------------------------
(* The locked steps.                                                       *)

\* Where the threads are after t has left the mutex and woken some.
LEMMA LeaveKeeps ==
    ASSUME QueueInv, NEW t \in Users, pc[t] = "act",
           NEW ts \in SUBSET {u \in Users : pc[u] = "waiting"},
           NEW v \in {"idle", "notify"},
           pc' = [Woken(ts) EXCEPT ![t] = v], mutex_' = NoThread,
           stopped' = stopped
    PROVE  /\ pc' \in [Threads -> PcValues]
           /\ \A u \in Threads : InMutex(u)' <=> mutex_' = u
           /\ OwnerIsApart'
           /\ \A u \in Users : pc'[u] # "act"
<1>1. t \in Threads /\ t # Owner /\ mutex_ = t
  BY MonitorThreads DEF QueueInv, TypeOK, InMutex, Threads
<1>2. /\ pc' \in [Threads -> PcValues]
      /\ pc'[t] = v
      /\ \A u \in Threads : u # t /\ u \in ts => pc'[u] = "woken"
      /\ \A u \in Threads : u # t /\ u \notin ts => pc'[u] = pc[u]
  BY <1>1 DEF Woken, QueueInv, TypeOK, PcValues
<1>3. \A u \in Threads : ~InMutex(u)'
  BY <1>1, <1>2 DEF QueueInv, TypeOK, InMutex
<1>4. Owner \in Threads /\ Owner \notin ts
  BY MonitorThreads DEF Threads
<1> QED
  BY <1>1, <1>2, <1>3, <1>4, MonitorThreads
  DEF QueueInv, OwnerIsApart, InMutex, Threads

LEMMA PushKeeps ==
    ASSUME QueueInv, NEW p \in Producers, Push(p)
    PROVE  QueueInv'
<1>1. ClassIsTyped(class)
  BY ClassesAreGood DEF QueueInv, TypeOK
<1>2. class' = class /\ p \in Users /\ arg[p] \in Elements
  BY DEF Push, Leave, QueueInv, TypeOK, Users, Elements
<1>3. PICK ts \in SUBSET {t \in Users : pc[t] = "waiting"},
           v \in {"idle", "notify"} : pc' = [Woken(ts) EXCEPT ![p] = v]
  <2>1. \A w \in NotifyWakes(class.putWakes) :
           w \in SUBSET {t \in Users : pc[t] = "waiting"}
    BY WhoIsWoken DEF Waiting
  <2>2. PICK w \in IF class.wakesLate THEN {{}} ELSE NotifyWakes(class.putWakes) :
           pc' = [Woken(w) EXCEPT ![p] = IF class.wakesLate THEN "notify"
                                                            ELSE "idle"]
    BY DEF Push, Leave
  <2>3. w \in SUBSET {t \in Users : pc[t] = "waiting"}
    BY <2>1, <2>2
  <2> QED
    BY <2>2, <2>3
<1>4. /\ pc' \in [Threads -> PcValues]
      /\ \A u \in Threads : InMutex(u)' <=> mutex_' = u
      /\ OwnerIsApart'
      /\ \A u \in Users : pc'[u] # "act"
  BY <1>2, <1>3, LeaveKeeps DEF Push, Leave
<1>5. /\ queue_' \in Seq(Elements) /\ put' \in Seq(Elements)
      /\ Len(queue_') = Len(queue_) + 1
      /\ taken \o queue_' = class.prefill \o put'
  <2>1. /\ queue_ \in Seq(Elements) /\ put \in Seq(Elements)
        /\ taken \in Seq(Elements) /\ class.prefill \in Seq(Elements)
    BY <1>1 DEF QueueInv, TypeOK, ClassIsTyped, Elements
  <2>2. queue_' = Append(queue_, arg[p]) /\ put' = Append(put, arg[p])
    BY DEF Push
  <2>3. taken \o queue_' = Append(taken \o queue_, arg[p])
    BY <1>2, <2>1, <2>2, AppendBehind
  <2>4. class.prefill \o put' = Append(class.prefill \o put, arg[p])
    BY <1>2, <2>1, <2>2, AppendBehind
  <2>5. taken \o queue_ = class.prefill \o put
    BY DEF QueueInv, QueueIsKept
  <2>6. taken \o queue_' = class.prefill \o put'
    BY <2>3, <2>4, <2>5, Zenon
  <2>7. /\ queue_' \in Seq(Elements) /\ put' \in Seq(Elements)
        /\ Len(queue_') = Len(queue_) + 1
    BY <1>2, <2>1, <2>2, AppendBehind
  <2> QED
    BY <2>6, <2>7
<1>6. TypeOK'
  BY <1>2, <1>4, <1>5
  DEF QueueInv, TypeOK, Push, Leave, PcValues, Elements
<1>7. size_' = size_ + 1 /\ (class.bounded => size_' <= class.maxSize_)
  BY <1>1 DEF QueueInv, TypeOK, QueueIsKept, ClassIsTyped, Push
<1>8. Len(queue_') = size_' + Len(class.prefill)
  <2>1. Len(class.prefill) \in Nat
    BY <1>1, LenProperties DEF ClassIsTyped
  <2>2. PICK n \in Nat : n = Len(class.prefill)
    BY <2>1
  <2>3. Len(queue_) = size_ + n /\ size_ \in Nat
    BY <2>2 DEF QueueInv, QueueIsKept, TypeOK
  <2>4. Len(queue_') = Len(queue_) + 1 /\ size_' = size_ + 1
    BY <1>5, <1>7
  <2>5. Len(queue_') = size_' + n
    BY <2>3, <2>4
  <2> QED
    BY <2>2, <2>5
<1>9. QueueIsKept'
  <2>1. taken' = taken
    BY DEF Push
  <2>2. \A u \in Producers \cup Consumers : pc'[u] # "act"
    BY <1>4 DEF Users
  <2> QED
    BY <1>2, <1>5, <1>7, <1>8, <2>1, <2>2 DEF QueueIsKept
<1> QED
  BY <1>4, <1>6, <1>9 DEF QueueInv

LEMMA PopKeeps ==
    ASSUME QueueInv, NEW c \in Consumers, Pop(c)
    PROVE  QueueInv'
<1>1. ClassIsTyped(class)
  BY ClassesAreGood DEF QueueInv, TypeOK
<1>2. class' = class /\ c \in Users
  BY DEF Pop, Users
<1>3. PICK ts \in SUBSET {t \in Users : pc[t] = "waiting"},
           v \in {"idle", "notify"} : pc' = [Woken(ts) EXCEPT ![c] = v]
  <2>1. \A w \in NotifyWakes(class.takeWakes) :
           w \in SUBSET {t \in Users : pc[t] = "waiting"}
    BY WhoIsWoken DEF Waiting
  <2>2. PICK w \in NotifyWakes(class.takeWakes) :
           pc' = [Woken(w) EXCEPT ![c] = "idle"]
    BY DEF Pop
  <2> QED
    BY <2>1, <2>2
<1>4. /\ pc' \in [Threads -> PcValues]
      /\ \A u \in Threads : InMutex(u)' <=> mutex_' = u
      /\ OwnerIsApart'
      /\ \A u \in Users : pc'[u] # "act"
  BY <1>2, <1>3, LeaveKeeps DEF Pop
<1>5. size_ # 0 /\ size_ \in Nat /\ Len(queue_) = size_ + Len(class.prefill)
  BY DEF Pop, NoTask, QueueInv, TypeOK, QueueIsKept
<1>6. queue_ # <<>>
  BY <1>1, <1>5 DEF ClassIsTyped
<1>7. /\ queue_' \in Seq(Elements) /\ taken' \in Seq(Elements)
      /\ Len(queue_') = Len(queue_) - 1
      /\ taken' \o queue_' = class.prefill \o put
  <2>1. queue_ \in Seq(Elements) /\ taken \in Seq(Elements)
    BY DEF QueueInv, TypeOK, Elements
  <2>2. queue_' = Tail(queue_) /\ taken' = Append(taken, Head(queue_))
    BY DEF Pop
  <2>3. taken' \o queue_' = taken \o queue_
    BY <1>6, <2>1, <2>2, HeadBehind
  <2>4. taken \o queue_ = class.prefill \o put
    BY DEF QueueInv, QueueIsKept
  <2>5. /\ queue_' \in Seq(Elements) /\ taken' \in Seq(Elements)
        /\ Len(queue_') = Len(queue_) - 1
    BY <1>6, <2>1, <2>2, HeadBehind
  <2> QED
    BY <2>3, <2>4, <2>5, Zenon
<1>8. size_' \in Nat /\ size_' = size_ - 1
      /\ Len(queue_') = size_' + Len(class.prefill)
  <2>1. Len(class.prefill) \in Nat
    BY <1>1, LenProperties DEF ClassIsTyped
  <2>2. PICK n \in Nat : n = Len(class.prefill)
    BY <2>1
  <2>3. Len(queue_) = size_ + n /\ size_' = size_ - 1
    BY <1>5, <2>2 DEF Pop
  <2>4. size_' \in Nat /\ Len(queue_') = size_' + n
    BY <1>5, <1>7, <2>3
  <2> QED
    BY <2>2, <2>3, <2>4
<1>9. TypeOK'
  BY <1>2, <1>4, <1>7, <1>8
  DEF QueueInv, TypeOK, Pop, PcValues, Elements
<1>10. class.bounded => size_' <= class.maxSize_
  BY <1>1, <1>5, <1>8 DEF QueueInv, QueueIsKept, ClassIsTyped
<1>11. QueueIsKept'
  BY <1>2, <1>4, <1>7, <1>8, <1>10 DEF QueueIsKept, Pop, Users
<1> QED
  BY <1>4, <1>9, <1>11 DEF QueueInv

Sleepers == {u \in Users : pc[u] = "waiting"}

\* A step that leaves the data alone: t goes to v, takes, gives back or keeps
\* the mutex, and wakes ts.
Moves(t, v, ts) ==
    /\ pc' = [Woken(ts) EXCEPT ![t] = v]
    /\ UNCHANGED <<class, dataVars>>
    /\ stopped' \in BOOLEAN /\ (stopped => stopped')
    /\ t # Owner => stopped' = stopped
    /\ arg' \in [Producers -> Nat] /\ calls' \in Nat
    /\ \/ mutex_' = mutex_ /\ (v \in {"test", "block", "act"} <=> InMutex(t))
       \/ mutex_' = NoThread /\ mutex_ = t /\ v \notin {"test", "block", "act"}
       \/ mutex_' = t /\ mutex_ = NoThread /\ v \in {"test", "block", "act"}
    /\ v = "act" => t = Owner \/ (pc[t] = "test" /\ Ready(t))
    /\ t = Owner => v \in {"lock", "act", "notify", "join", "done"}

LEMMA StepKeeps ==
    ASSUME QueueInv, NEW t \in Threads, NEW v \in PcValues,
           NEW ts \in SUBSET Sleepers, Moves(t, v, ts)
    PROVE  QueueInv'
<1>1. /\ pc' \in [Threads -> PcValues]
      /\ pc'[t] = v
      /\ \A u \in Threads : u # t /\ u \in ts => pc'[u] = "woken"
      /\ \A u \in Threads : u # t /\ u \notin ts => pc'[u] = pc[u]
  BY DEF Moves, Woken, QueueInv, TypeOK, PcValues
<1>2. \A u \in Threads : InMutex(u)' <=> mutex_' = u
  BY <1>1, MonitorThreads DEF Moves, Sleepers, QueueInv, TypeOK, InMutex
<1>3. TypeOK'
  <2>1. /\ UNCHANGED <<class, queue_, size_, put, taken>>
        /\ mutex_' \in {mutex_, NoThread, t}
        /\ stopped' \in BOOLEAN /\ arg' \in [Producers -> Nat]
        /\ calls' \in Nat
    BY DEF Moves, dataVars
  <2> QED
    BY <1>1, <1>2, <2>1 DEF QueueInv, TypeOK, PcValues
<1>4. OwnerIsApart'
  <2>1. CASE t = Owner
    BY <1>1, <2>1 DEF Moves, OwnerIsApart
  <2>2. CASE t # Owner
    BY <1>1, <2>2, MonitorThreads
    DEF Moves, QueueInv, OwnerIsApart, Threads, Sleepers
  <2> QED
    BY <2>1, <2>2
<1>5. \A u \in Users : pc'[u] = "act" =>
          pc[u] = "act" \/ (pc[u] = "test" /\ Ready(u))
  BY <1>1, MonitorThreads DEF Moves, Threads
<1>6. QueueIsKept'
  BY <1>5, DataUnchanged DEF Users, Moves
<1> QED
  BY <1>3, <1>4, <1>6 DEF QueueInv

(* The rest: steps that leave the data alone.                              *)

LEMMA OtherStepsKeep ==
    ASSUME QueueInv, Next,
           \A p \in Producers : ~Push(p), \A c \in Consumers : ~Pop(c)
    PROVE  QueueInv'
<1>1. Woken({}) = pc /\ {} \in SUBSET Sleepers
  BY DEF Woken, QueueInv, TypeOK
<1>2. ASSUME NEW p \in Producers, CallPut(p) PROVE QueueInv'
  <2>1. p \in Threads /\ p # Owner
    BY MonitorThreads DEF Threads, Users
  <2>2. arg' \in [Producers -> Nat] /\ calls' \in Nat
    BY <1>2 DEF CallPut, QueueInv, TypeOK
  <2>3. ~InMutex(p)
    BY <1>2 DEF CallPut, InMutex
  <2>4. Moves(p, "lock", {})
    BY <1>1, <1>2, <2>1, <2>2, <2>3 DEF CallPut, Moves, QueueInv, TypeOK
  <2> QED
    BY <1>1, <2>1, <2>4, StepKeeps DEF PcValues
<1>3. ASSUME NEW c \in Consumers, CallTake(c) PROVE QueueInv'
  <2>1. c \in Threads /\ c # Owner
    BY MonitorThreads DEF Threads, Users
  <2>2. PICK v \in {"done", "lock"} : pc' = [pc EXCEPT ![c] = v]
    BY <1>3 DEF CallTake
  <2>3. Moves(c, v, {})
    BY <1>1, <1>3, <2>1, <2>2 DEF CallTake, Moves, QueueInv, TypeOK, InMutex
  <2> QED
    BY <1>1, <2>1, <2>2, <2>3, StepKeeps DEF PcValues
<1>4. ASSUME NEW t \in Users, SpuriousReturn(t) PROVE QueueInv'
  <2>1. t \in Threads /\ t # Owner /\ {t} \in SUBSET Sleepers
    BY <1>4, MonitorThreads DEF Threads, SpuriousReturn, Sleepers
  <2>2. [Woken({}) EXCEPT ![t] = "woken"] = Woken({t})
    BY <2>1 DEF Woken, QueueInv, TypeOK
  <2>3. Moves(t, "woken", {})
    BY <1>1, <1>4, <2>1, <2>2
    DEF SpuriousReturn, Moves, QueueInv, TypeOK, InMutex
  <2> QED
    BY <1>1, <2>1, <2>3, StepKeeps DEF PcValues
<1>5. ASSUME NEW t \in Threads, Lock(t) PROVE QueueInv'
  <2>1. CASE t = Owner
    <3>1. Moves(t, "act", {})
      BY <1>1, <1>5, <2>1 DEF Lock, Moves, QueueInv, TypeOK
    <3> QED
      BY <1>1, <3>1, StepKeeps DEF PcValues
  <2>2. CASE t # Owner
    <3>1. Moves(t, "test", {})
      BY <1>1, <1>5, <2>2 DEF Lock, Moves, QueueInv, TypeOK
    <3> QED
      BY <1>1, <3>1, StepKeeps DEF PcValues
  <2> QED
    BY <2>1, <2>2
<1>6. ASSUME NEW t \in Threads, Test(t) PROVE QueueInv'
  <2>1. t # Owner
    BY <1>6 DEF Test, QueueInv, OwnerIsApart
  <2>2. CASE Ready(t)
    <3>1. Moves(t, "act", {})
      BY <1>1, <1>6, <2>1, <2>2 DEF Test, Moves, QueueInv, TypeOK, InMutex
    <3> QED
      BY <1>1, <3>1, StepKeeps DEF PcValues
  <2>3. CASE ~Ready(t)
    <3>1. Moves(t, "block", {})
      BY <1>1, <1>6, <2>1, <2>3 DEF Test, Moves, QueueInv, TypeOK, InMutex
    <3> QED
      BY <1>1, <3>1, StepKeeps DEF PcValues
  <2> QED
    BY <2>2, <2>3
<1>7. ASSUME NEW t \in Threads, Wait(t) PROVE QueueInv'
  <2>1. t # Owner /\ mutex_ = t
    BY <1>7 DEF Wait, QueueInv, OwnerIsApart, TypeOK, InMutex
  <2>2. Moves(t, "waiting", {})
    BY <1>1, <1>7, <2>1 DEF Wait, Moves, QueueInv, TypeOK
  <2> QED
    BY <1>1, <2>2, StepKeeps DEF PcValues
<1>8. ASSUME NEW c \in Consumers, TakeNone(c) PROVE QueueInv'
  <2>1. c \in Threads /\ c # Owner
    BY MonitorThreads DEF Threads, Users
  <2>2. mutex_ = c
    BY <1>8, <2>1 DEF TakeNone, QueueInv, TypeOK, InMutex
  <2>3. Moves(c, "idle", {})
    BY <1>1, <1>8, <2>1, <2>2 DEF TakeNone, Moves, QueueInv, TypeOK
  <2> QED
    BY <1>1, <2>1, <2>3, StepKeeps DEF PcValues
<1>9. ASSUME NEW t \in Threads, Notify(t) PROVE QueueInv'
  <2>1. Waiting(class.putWakes) \in SUBSET Sleepers
    BY DEF Waiting, Sleepers
  <2>2. CASE t = Owner
    <3>1. Moves(t, "join", Waiting(class.putWakes))
      BY <1>9, <2>2 DEF Notify, Moves, QueueInv, TypeOK, InMutex
    <3> QED
      BY <2>1, <3>1, StepKeeps DEF PcValues
  <2>3. CASE t # Owner
    <3>1. Moves(t, "idle", Waiting(class.putWakes))
      BY <1>9, <2>3 DEF Notify, Moves, QueueInv, TypeOK, InMutex
    <3> QED
      BY <2>1, <3>1, StepKeeps DEF PcValues
  <2> QED
    BY <2>2, <2>3
<1>10. ASSUME CallStop PROVE QueueInv'
  <2>1. Owner \in Threads /\ ~stopped
    BY <1>10 DEF Threads, CallStop, QueueInv, OwnerIsApart
  <2>2. PICK v \in {"lock", "notify"} : pc' = [pc EXCEPT ![Owner] = v]
    BY <1>10 DEF CallStop
  <2>3. Moves(Owner, v, {})
    BY <1>1, <1>10, <2>1, <2>2 DEF CallStop, Moves, QueueInv, TypeOK, InMutex
  <2> QED
    BY <1>1, <2>1, <2>2, <2>3, StepKeeps DEF PcValues
<1>11. ASSUME Stop PROVE QueueInv'
  <2>1. Owner \in Threads /\ mutex_ = Owner
    BY <1>11 DEF Threads, Stop, QueueInv, TypeOK, InMutex
  <2>2. Waiting(class.takeWaits) \in SUBSET Sleepers
    BY DEF Waiting, Sleepers
  <2>3. Moves(Owner, "join", Waiting(class.takeWaits))
    BY <1>11, <2>1 DEF Stop, Moves, QueueInv, TypeOK
  <2> QED
    BY <2>1, <2>2, <2>3, StepKeeps DEF PcValues
<1>12. ASSUME Join PROVE QueueInv'
  <2>1. Owner \in Threads
    BY DEF Threads
  <2>2. Moves(Owner, "done", {})
    BY <1>1, <1>12, <2>1 DEF Join, Moves, QueueInv, TypeOK, InMutex
  <2> QED
    BY <1>1, <2>1, <2>2, StepKeeps DEF PcValues
<1> QED
  BY <1>2, <1>3, <1>4, <1>5, <1>6, <1>7, <1>8, <1>9, <1>10, <1>11, <1>12
  DEF Next, Continues

LEMMA QueueInvStep == QueueInv /\ [Next]_vars => QueueInv'
<1> SUFFICES ASSUME QueueInv, [Next]_vars PROVE QueueInv'
  OBVIOUS
<1>1. CASE UNCHANGED vars
  BY <1>1
  DEF vars, dataVars, QueueInv, TypeOK, OwnerIsApart, QueueIsKept, InMutex
<1>2. CASE Next
  BY <1>2, PushKeeps, PopKeeps, OtherStepsKeep
<1> QED
  BY <1>1, <1>2

(***************************************************************************)
(* The types, and the mutex is held by the one thread inside.              *)
(***************************************************************************)
THEOREM MonitorStaysTyped == Spec => []TypeOK
<1>1. QueueInv => TypeOK
  BY DEF QueueInv
<1> QED
  BY QueueInvInit, QueueInvStep, <1>1, PTL DEF Spec

(***************************************************************************)
(* Elements come out in the order they went in, none lost, none twice; the *)
(* count is right and within the capacity; whoever moves an element finds  *)
(* what it waited for: after every wait(), whatever woke the thread.       *)
(***************************************************************************)
THEOREM QueueStaysKept == Spec => []QueueIsKept
<1>1. QueueInv => QueueIsKept
  BY DEF QueueInv
<1> QED
  BY QueueInvInit, QueueInvStep, <1>1, PTL DEF Spec

-----------------------------------------------------------------------------
(* No wake-up is lost.                                                     *)

Takers  == {c \in Consumers : Awake(c)}
Putters == {p \in Producers : Awake(p)}
TakerWaits  == \E c \in Consumers : pc[c] = "waiting"
PutterWaits == \E p \in Producers : pc[p] = "waiting"

\* Who is about to wait has found nothing, or no room, and the mutex is its.
BlockedFor ==
    /\ \A c \in Consumers : pc[c] = "block" => size_ = 0
    /\ \A p \in Producers : pc[p] = "block" => size_ = class.maxSize_
    /\ \A p \in Producers : pc[p] \in {"block", "waiting"} => class.bounded

\* Where everyone is woken, a thread waits only while there is nothing for it.
TakersComing ==
    TakerWaits => \/ NotifyPending \/ size_ = 0
                  \/ ~class.wakesAll /\ size_ <= Cardinality(Takers)
PuttersComing ==
    PutterWaits => \/ size_ = class.maxSize_
                   \/ /\ ~class.wakesAll
                      /\ class.maxSize_ <= size_ + Cardinality(Putters)

StoppedAwake ==
    stopped /\ class.stops = "locked" =>
       \A c \in Consumers : pc[c] \notin {"block", "waiting"}

WakeInv == BlockedFor /\ TakersComing /\ PuttersComing /\ StoppedAwake

LEMMA FiniteSides ==
    /\ IsFiniteSet(Takers) /\ Cardinality(Takers) \in Nat
    /\ IsFiniteSet(Putters) /\ Cardinality(Putters) \in Nat
<1>1. Takers \subseteq Users /\ Putters \subseteq Users
  BY DEF Takers, Putters, Users
<1>2. IsFiniteSet(Users)
  BY MonitorThreads
<1> QED
  BY <1>1, <1>2, FS_Subset, FS_CardinalityType

\* The same of the next state.
LEMMA FiniteSidesNext ==
    /\ IsFiniteSet(Takers') /\ Cardinality(Takers') \in Nat
    /\ IsFiniteSet(Putters') /\ Cardinality(Putters') \in Nat
<1>1. Takers' \subseteq Users /\ Putters' \subseteq Users
  BY DEF Takers, Putters, Users
<1>2. IsFiniteSet(Users)
  BY MonitorThreads
<1> QED
  BY <1>1, <1>2, FS_Subset, FS_CardinalityType

\* A step that moves no element.
LEMMA QuietTakers ==
    ASSUME QueueInv, TakersComing, UNCHANGED <<class, size_>>,
           TakerWaits' => TakerWaits \/ size_ = 0,
           NotifyPending => NotifyPending' \/ ~TakerWaits',
           Takers \subseteq Takers' \/ size_ = 0 \/ class.wakesAll
    PROVE  TakersComing'
<1>1. Takers \subseteq Takers' => Cardinality(Takers) <= Cardinality(Takers')
  BY FiniteSidesNext, FS_Subset
<1>2. size_ \in Nat
  BY DEF QueueInv, TypeOK
<1> QED
  BY <1>1, <1>2, FiniteSides, FiniteSidesNext DEF TakersComing

LEMMA QuietPutters ==
    ASSUME QueueInv, PuttersComing, UNCHANGED <<class, size_>>,
           PutterWaits' => PutterWaits \/ size_ = class.maxSize_,
           Putters \subseteq Putters' \/ size_ = class.maxSize_
    PROVE  PuttersComing'
<1>1. Putters \subseteq Putters' => Cardinality(Putters) <= Cardinality(Putters')
  BY FiniteSidesNext, FS_Subset
<1>2. size_ \in Nat /\ class.maxSize_ \in Nat
  BY ClassesAreGood DEF QueueInv, TypeOK, ClassIsTyped
<1> QED
  BY <1>1, <1>2, FiniteSides, FiniteSidesNext DEF PuttersComing

LEMMA SleepNobody ==
    ASSUME QueueInv
    PROVE  Woken({}) = pc /\ {} \in SUBSET Sleepers
BY DEF Woken, QueueInv, TypeOK

LEMMA WakeInvInit == Init => WakeInv
<1> SUFFICES ASSUME Init PROVE WakeInv
  OBVIOUS
<1>1. \A t \in Threads : pc[t] = "idle"
  BY DEF Init
<1> QED
  BY <1>1 DEF Init, WakeInv, BlockedFor, TakersComing, PuttersComing,
              StoppedAwake, TakerWaits, PutterWaits, Threads, Users

\* Steps by which no thread is put to sleep or stops on its way.
LEMMA HarmlessKeeps ==
    ASSUME QueueInv, WakeInv, UNCHANGED <<class, size_>>,
           NEW t \in Threads, NEW v, NEW ts \in SUBSET Sleepers,
           pc' = [Woken(ts) EXCEPT ![t] = v],
           v \notin {"block", "waiting"},
           t \in Users /\ Awake(t) => v \in {"lock", "woken", "test", "act"},
           pc[t] # "notify",
           stopped' => stopped \/ class.stops # "locked"
    PROVE  WakeInv'
<1>1. /\ pc'[t] = v
      /\ \A u \in Threads : u # t /\ u \in ts =>
            pc[u] = "waiting" /\ pc'[u] = "woken"
      /\ \A u \in Threads : u # t /\ u \notin ts => pc'[u] = pc[u]
  BY DEF Woken, QueueInv, TypeOK, Sleepers
<1>2. \A u \in Threads :
         /\ pc'[u] = "waiting" => pc[u] = "waiting"
         /\ pc'[u] = "block" => pc[u] = "block"
         /\ pc[u] = "notify" => pc'[u] = "notify"
  BY <1>1
<1>3. \A u \in Users : Awake(u) => Awake(u)'
  BY <1>1 DEF Awake, Threads
<1>4. Takers \subseteq Takers' /\ Putters \subseteq Putters'
  BY <1>3 DEF Takers, Putters, Users
<1>5. /\ TakerWaits' => TakerWaits
      /\ PutterWaits' => PutterWaits
      /\ NotifyPending => NotifyPending'
  BY <1>2 DEF TakerWaits, PutterWaits, NotifyPending, Threads, Users
<1>6. TakersComing'
  BY <1>4, <1>5, QuietTakers DEF WakeInv
<1>7. PuttersComing'
  BY <1>4, <1>5, QuietPutters DEF WakeInv
<1>8. BlockedFor'
  BY <1>2 DEF WakeInv, BlockedFor, Threads, Users
<1>9. StoppedAwake'
  BY <1>2 DEF WakeInv, StoppedAwake, Threads, Users
<1> QED
  BY <1>6, <1>7, <1>8, <1>9 DEF WakeInv

LEMMA TestWakes ==
    ASSUME QueueInv, WakeInv, NEW t \in Threads, Test(t)
    PROVE  WakeInv'
<1>0. t # Owner /\ UNCHANGED <<class, size_, stopped>>
  BY DEF Test, QueueInv, OwnerIsApart, dataVars
<1>1. CASE Ready(t)
  <2>1. pc' = [Woken({}) EXCEPT ![t] = "act"] /\ pc[t] # "notify"
    BY <1>1, SleepNobody DEF Test
  <2> QED
    BY <1>0, <2>1, HarmlessKeeps, SleepNobody
<1>2. CASE ~Ready(t)
  <2>1. /\ pc'[t] = "block" /\ pc[t] = "test"
        /\ \A u \in Threads : u # t => pc'[u] = pc[u]
    BY <1>2 DEF Test, QueueInv, TypeOK
  <2>2. t \in Producers => class.bounded /\ size_ = class.maxSize_
    BY <1>2 DEF Ready
  <2>3. t \in Consumers => size_ = 0 /\ ~stopped
    BY <1>2, MonitorThreads DEF Ready
  <2>4. /\ TakerWaits' => TakerWaits
        /\ PutterWaits' => PutterWaits
        /\ NotifyPending => NotifyPending'
    BY <2>1 DEF TakerWaits, PutterWaits, NotifyPending, Threads, Users
  <2>5. t \in Producers => Takers \subseteq Takers'
    BY <2>1, MonitorThreads DEF Takers, Awake, Threads, Users
  <2>6. t \in Consumers => Putters \subseteq Putters'
    BY <2>1, MonitorThreads DEF Putters, Awake, Threads, Users
  <2>7. t \in Producers \/ t \in Consumers
    BY <1>0 DEF Threads, Users
  <2>8. TakersComing'
    BY <1>0, <2>3, <2>4, <2>5, <2>7, QuietTakers DEF WakeInv
  <2>9. PuttersComing'
    BY <1>0, <2>2, <2>4, <2>6, <2>7, QuietPutters DEF WakeInv
  <2>10. BlockedFor'
    BY <1>0, <2>1, <2>2, <2>3 DEF WakeInv, BlockedFor, Threads, Users
  <2>11. StoppedAwake'
    BY <1>0, <2>1, <2>3 DEF WakeInv, StoppedAwake, Threads, Users
  <2> QED
    BY <2>8, <2>9, <2>10, <2>11 DEF WakeInv
<1> QED
  BY <1>1, <1>2

LEMMA WaitWakes ==
    ASSUME QueueInv, WakeInv, NEW t \in Threads, Wait(t)
    PROVE  WakeInv'
<1>1. /\ pc'[t] = "waiting" /\ pc[t] = "block"
      /\ \A u \in Threads : u # t => pc'[u] = pc[u]
      /\ UNCHANGED <<class, size_, stopped>>
  BY DEF Wait, QueueInv, TypeOK, dataVars
<1>2. /\ t \in Producers => class.bounded /\ size_ = class.maxSize_
      /\ t \in Consumers => size_ = 0 /\ ~(stopped /\ class.stops = "locked")
  <2>1. t \in Producers => class.bounded /\ size_ = class.maxSize_
    BY <1>1 DEF WakeInv, BlockedFor
  <2>2. t \in Consumers => size_ = 0
    BY <1>1 DEF WakeInv, BlockedFor
  <2>3. t \in Consumers => ~(stopped /\ class.stops = "locked")
    BY <1>1 DEF WakeInv, StoppedAwake
  <2> QED
    BY <2>1, <2>2, <2>3
<1>3. /\ TakerWaits' => TakerWaits \/ size_ = 0
      /\ PutterWaits' => PutterWaits \/ size_ = class.maxSize_
      /\ NotifyPending => NotifyPending'
  BY <1>1, <1>2 DEF TakerWaits, PutterWaits, NotifyPending, Threads, Users
<1>4. Takers \subseteq Takers' /\ Putters \subseteq Putters'
  BY <1>1 DEF Takers, Putters, Awake, Threads, Users
<1>5. TakersComing'
  BY <1>1, <1>3, <1>4, QuietTakers DEF WakeInv
<1>6. PuttersComing'
  BY <1>1, <1>3, <1>4, QuietPutters DEF WakeInv
<1>7. BlockedFor'
  BY <1>1, <1>2 DEF WakeInv, BlockedFor, Threads, Users
<1>8. StoppedAwake'
  BY <1>1, <1>2 DEF WakeInv, StoppedAwake, Threads, Users
<1> QED
  BY <1>5, <1>6, <1>7, <1>8 DEF WakeInv

LEMMA TakeNoneWakes ==
    ASSUME QueueInv, WakeInv, PutsForRoom, NEW c \in Consumers, TakeNone(c)
    PROVE  WakeInv'
<1>1. c \in Threads /\ c \notin Producers /\ WakesEnough(class)
  BY MonitorThreads, ClassesAreGood
  DEF Threads, Users, QueueInv, TypeOK, PutsForRoom
<1>2. /\ pc'[c] = "idle" /\ pc[c] = "act"
      /\ \A u \in Threads : u # c => pc'[u] = pc[u]
      /\ UNCHANGED <<class, size_, stopped>>
  BY <1>1 DEF TakeNone, QueueInv, TypeOK, dataVars
<1>3. size_ = 0 \/ class.wakesAll
  BY <1>1 DEF TakeNone, NoTask, WakesEnough
<1>4. /\ TakerWaits' => TakerWaits
      /\ PutterWaits' => PutterWaits
      /\ NotifyPending => NotifyPending'
  BY <1>2 DEF TakerWaits, PutterWaits, NotifyPending, Threads, Users
<1>5. Putters \subseteq Putters'
  BY <1>1, <1>2 DEF Putters, Awake, Threads, Users
<1>6. TakersComing'
  BY <1>2, <1>3, <1>4, QuietTakers DEF WakeInv
<1>7. PuttersComing'
  BY <1>2, <1>4, <1>5, QuietPutters DEF WakeInv
<1>8. BlockedFor'
  BY <1>2 DEF WakeInv, BlockedFor, Threads, Users
<1>9. StoppedAwake'
  BY <1>2 DEF WakeInv, StoppedAwake, Threads, Users
<1> QED
  BY <1>6, <1>7, <1>8, <1>9 DEF WakeInv

\* A notify_all for those who take: no taker waits afterwards.
LEMMA AllTakersWoken ==
    ASSUME QueueInv, WakeInv, UNCHANGED <<class, size_>>,
           NEW t \in Threads, NEW v \in {"idle", "join"},
           pc' = [Woken(Waiting(class.takeWaits)) EXCEPT ![t] = v],
           ~Awake(t) \/ t = Owner,
           stopped' => stopped \/ \A c \in Consumers : pc[c] # "block"
    PROVE  WakeInv'
<1>1. Waiting(class.takeWaits) \in SUBSET Sleepers
  BY DEF Waiting, Sleepers
<1>2. /\ pc'[t] = v
      /\ \A u \in Threads : u # t /\ u \in Waiting(class.takeWaits) =>
            pc[u] = "waiting" /\ pc'[u] = "woken"
      /\ \A u \in Threads : u # t /\ u \notin Waiting(class.takeWaits) =>
            pc'[u] = pc[u]
  BY <1>1 DEF Woken, QueueInv, TypeOK, Sleepers
<1>3. \A c \in Consumers : pc[c] = "waiting" => c \in Waiting(class.takeWaits)
  BY MonitorThreads DEF Waiting, WaitsFor, Users
<1>4. \A c \in Consumers : pc'[c] # "waiting"
  BY <1>2, <1>3 DEF Threads, Users
<1>5. \A u \in Threads :
         /\ pc'[u] = "waiting" => pc[u] = "waiting"
         /\ pc'[u] = "block" => pc[u] = "block"
  BY <1>2
<1>6. Putters \subseteq Putters'
  BY <1>2, MonitorThreads DEF Putters, Awake, Threads, Users
<1>7. ~TakerWaits' /\ (PutterWaits' => PutterWaits)
  BY <1>4, <1>5 DEF TakerWaits, PutterWaits, Threads, Users
<1>8. TakersComing'
  BY <1>7 DEF TakersComing
<1>9. PuttersComing'
  BY <1>6, <1>7, QuietPutters DEF WakeInv
<1>10. BlockedFor'
  BY <1>5 DEF WakeInv, BlockedFor, Threads, Users
<1>11. StoppedAwake'
  BY <1>4, <1>5 DEF WakeInv, StoppedAwake, Threads, Users
<1> QED
  BY <1>8, <1>9, <1>10, <1>11 DEF WakeInv

LEMMA PushWakes ==
    ASSUME QueueInv, WakeInv, PutsForRoom, NEW p \in Producers, Push(p)
    PROVE  WakeInv'
<1>1. p \in Threads /\ p \notin Consumers /\ mutex_ = p
      /\ WakesEnough(class) /\ ClassIsTyped(class)
  BY MonitorThreads, ClassesAreGood
  DEF Threads, Users, QueueInv, TypeOK, Push, InMutex, PutsForRoom
<1>2. PICK ts \in IF class.wakesLate THEN {{}} ELSE NotifyWakes(class.putWakes) :
         pc' = [Woken(ts) EXCEPT ![p] = IF class.wakesLate THEN "notify"
                                                           ELSE "idle"]
  BY DEF Push, Leave
<1>3. ts \in SUBSET Sleepers
  BY <1>2, WhoIsWoken DEF Waiting, Sleepers
<1>4. /\ pc'[p] = IF class.wakesLate THEN "notify" ELSE "idle"
      /\ \A u \in Threads : u # p /\ u \in ts =>
            pc[u] = "waiting" /\ pc'[u] = "woken"
      /\ \A u \in Threads : u # p /\ u \notin ts => pc'[u] = pc[u]
  BY <1>1, <1>2, <1>3 DEF Woken, QueueInv, TypeOK, Sleepers
<1>5. pc[p] = "act" /\ size_' = size_ + 1 /\ size_ \in Nat
      /\ class' = class /\ stopped' = stopped
  BY DEF Push, Leave, QueueInv, TypeOK
<1>6. \A u \in Threads : pc'[u] # "block"
  BY <1>1, <1>4 DEF QueueInv, TypeOK, InMutex
<1>7. \A u \in Threads : pc'[u] = "waiting" => pc[u] = "waiting" /\ u \notin ts
  BY <1>4
<1>8. \A u \in Consumers : pc[u] = "waiting" => u \in Waiting(class.takeWaits)
  BY MonitorThreads DEF Waiting, WaitsFor, Users
<1>9. TakersComing'
  <2> SUFFICES ASSUME TakerWaits', ~NotifyPending'
               PROVE  ~class.wakesAll /\ size_' <= Cardinality(Takers')
    BY <1>5 DEF TakersComing
  <2>1. ~class.wakesLate
    BY <1>1, <1>4 DEF NotifyPending
  <2>2. PICK c \in Consumers : pc'[c] = "waiting"
    BY DEF TakerWaits
  <2>3. pc[c] = "waiting" /\ c \notin ts /\ c \in Waiting(class.takeWaits)
    BY <1>7, <1>8, <2>2 DEF Threads, Users
  <2>4. ts \in NotifyWakes(class.takeWaits)
    BY <1>1, <1>2, <2>1 DEF WakesEnough
  <2>5. ~class.wakesAll
    BY <2>3, <2>4, WhoIsWoken
  <2>6. PICK w \in Waiting(class.takeWaits) : ts = {w}
    BY <2>3, <2>4, <2>5, WhoIsWoken
  <2>7. w \in Consumers /\ pc[w] = "waiting"
    BY <1>1, <2>5, <2>6 DEF WakesEnough, Waiting, WaitsFor, Users
  <2>8. w \notin Takers /\ Takers \cup {w} \subseteq Takers'
    BY <1>1, <1>4, <2>6, <2>7 DEF Takers, Awake, Threads, Users
  <2>9. IsFiniteSet(Takers \cup {w})
        /\ Cardinality(Takers \cup {w}) = Cardinality(Takers) + 1
    BY <2>8, FiniteSides, FS_AddElement
  <2>10. Cardinality(Takers \cup {w}) <= Cardinality(Takers')
    BY <2>8, FiniteSidesNext, FS_Subset
  <2>11. ~NotifyPending
    BY <1>4, <1>5, <2>1 DEF NotifyPending, Threads
  <2>12. size_ <= Cardinality(Takers)
    BY <1>5, <2>3, <2>11, FiniteSides DEF WakeInv, TakersComing, TakerWaits
  <2> QED
    BY <1>5, <2>5, <2>9, <2>10, <2>12, FiniteSides, FiniteSidesNext
<1>10. PuttersComing'
  <2> SUFFICES ASSUME PutterWaits'
               PROVE  \/ size_' = class.maxSize_
                      \/ /\ ~class.wakesAll
                         /\ class.maxSize_ <= size_' + Cardinality(Putters')
    BY <1>5 DEF PuttersComing
  <2>1. PutterWaits
    BY <1>7 DEF PutterWaits, Threads, Users
  <2>2. class.bounded
    BY <2>1 DEF WakeInv, BlockedFor, PutterWaits
  <2>3. size_ < class.maxSize_
    BY <1>5, <2>2 DEF QueueInv, QueueIsKept
  <2>4. ~class.wakesAll /\ class.maxSize_ <= size_ + Cardinality(Putters)
    BY <1>1, <1>5, <2>1, <2>3 DEF WakeInv, PuttersComing, ClassIsTyped
  <2>5. p \in Putters /\ Putters \ {p} \subseteq Putters'
    BY <1>4, <1>5 DEF Putters, Awake, Threads, Users
  <2>6. Cardinality(Putters \ {p}) = Cardinality(Putters) - 1
        /\ IsFiniteSet(Putters \ {p})
    BY <2>5, FiniteSides, FS_RemoveElement
  <2>7. Cardinality(Putters \ {p}) <= Cardinality(Putters')
    BY <2>5, FiniteSidesNext, FS_Subset
  <2> QED
    BY <1>1, <1>5, <2>4, <2>6, <2>7, FiniteSides, FiniteSidesNext
    DEF ClassIsTyped
<1>11. BlockedFor'
  BY <1>5, <1>6, <1>7 DEF WakeInv, BlockedFor, Threads, Users
<1>12. StoppedAwake'
  BY <1>5, <1>6, <1>7 DEF WakeInv, StoppedAwake, Threads, Users
<1> QED
  BY <1>9, <1>10, <1>11, <1>12 DEF WakeInv

LEMMA PopWakes ==
    ASSUME QueueInv, WakeInv, PutsForRoom, NEW c \in Consumers, Pop(c)
    PROVE  WakeInv'
<1>1. c \in Threads /\ c \notin Producers /\ mutex_ = c
      /\ WakesEnough(class) /\ ClassIsTyped(class)
  BY MonitorThreads, ClassesAreGood
  DEF Threads, Users, QueueInv, TypeOK, Pop, InMutex, PutsForRoom
<1>2. PICK ts \in NotifyWakes(class.takeWakes) :
         pc' = [Woken(ts) EXCEPT ![c] = "idle"]
  BY DEF Pop
<1>3. ts \in SUBSET Sleepers
  BY <1>2, WhoIsWoken DEF Waiting, Sleepers
<1>4. /\ pc'[c] = "idle"
      /\ \A u \in Threads : u # c /\ u \in ts =>
            pc[u] = "waiting" /\ pc'[u] = "woken"
      /\ \A u \in Threads : u # c /\ u \notin ts => pc'[u] = pc[u]
  BY <1>1, <1>2, <1>3 DEF Woken, QueueInv, TypeOK, Sleepers
<1>5. pc[c] = "act" /\ size_ # 0 /\ size_' = size_ - 1 /\ size_ \in Nat
      /\ class' = class /\ stopped' = stopped
  BY DEF Pop, NoTask, QueueInv, TypeOK
<1>6. \A u \in Threads : pc'[u] # "block"
  BY <1>1, <1>4 DEF QueueInv, TypeOK, InMutex
<1>7. \A u \in Threads : pc'[u] = "waiting" => pc[u] = "waiting" /\ u \notin ts
  BY <1>4
<1>8. TakersComing'
  <2> SUFFICES ASSUME TakerWaits', ~NotifyPending'
               PROVE  ~class.wakesAll /\ size_' <= Cardinality(Takers')
    BY <1>5 DEF TakersComing
  <2>1. TakerWaits
    BY <1>7 DEF TakerWaits, Threads, Users
  <2>2. ~NotifyPending
    BY <1>4, <1>5 DEF NotifyPending
  <2>3. ~class.wakesAll /\ size_ <= Cardinality(Takers)
    BY <1>5, <2>1, <2>2 DEF WakeInv, TakersComing
  <2>4. c \in Takers /\ Takers \ {c} \subseteq Takers'
    BY <1>4, <1>5 DEF Takers, Awake, Threads, Users
  <2>5. Cardinality(Takers \ {c}) = Cardinality(Takers) - 1
        /\ IsFiniteSet(Takers \ {c})
    BY <2>4, FiniteSides, FS_RemoveElement
  <2>6. Cardinality(Takers \ {c}) <= Cardinality(Takers')
    BY <2>4, FiniteSidesNext, FS_Subset
  <2> QED
    BY <1>5, <2>3, <2>5, <2>6, FiniteSides, FiniteSidesNext
<1>9. PuttersComing'
  <2> SUFFICES ASSUME PutterWaits'
               PROVE  /\ ~class.wakesAll
                      /\ class.maxSize_ <= size_' + Cardinality(Putters')
    BY <1>5 DEF PuttersComing
  <2>1. PICK q \in Producers : pc'[q] = "waiting"
    BY DEF PutterWaits
  <2>2. pc[q] = "waiting" /\ q \notin ts /\ q \in Waiting(class.putWaits)
    BY <1>7, <2>1 DEF Waiting, WaitsFor, Threads, Users
  <2>3. class.bounded /\ ts \in NotifyWakes(class.putWaits)
    BY <1>1, <1>2, <2>2 DEF WakeInv, BlockedFor, WakesEnough
  <2>4. ~class.wakesAll
    BY <2>2, <2>3, WhoIsWoken
  <2>5. PICK w \in Waiting(class.putWaits) : ts = {w}
    BY <2>2, <2>3, <2>4, WhoIsWoken
  <2>6. w \in Producers /\ pc[w] = "waiting"
    BY <1>1, <2>4, <2>5 DEF WakesEnough, Waiting, WaitsFor, Users
  <2>7. w \notin Putters /\ Putters \cup {w} \subseteq Putters'
    BY <1>1, <1>4, <2>5, <2>6 DEF Putters, Awake, Threads, Users
  <2>8. IsFiniteSet(Putters \cup {w})
        /\ Cardinality(Putters \cup {w}) = Cardinality(Putters) + 1
    BY <2>7, FiniteSides, FS_AddElement
  <2>9. Cardinality(Putters \cup {w}) <= Cardinality(Putters')
    BY <2>7, FiniteSidesNext, FS_Subset
  <2>10. class.maxSize_ <= size_ + Cardinality(Putters)
    BY <1>1, <1>5, <2>2, FiniteSides
    DEF WakeInv, PuttersComing, PutterWaits, ClassIsTyped
  <2> QED
    BY <1>1, <1>5, <2>4, <2>8, <2>9, <2>10, FiniteSides, FiniteSidesNext
    DEF ClassIsTyped
<1>10. BlockedFor'
  BY <1>5, <1>6, <1>7 DEF WakeInv, BlockedFor, Threads, Users
<1>11. StoppedAwake'
  BY <1>5, <1>6, <1>7 DEF WakeInv, StoppedAwake, Threads, Users
<1> QED
  BY <1>8, <1>9, <1>10, <1>11 DEF WakeInv

\* The class is what it was.
LEMMA ClassStays == [Next]_vars => class' = class
BY DEF Next, Continues, vars, CallPut, CallTake, SpuriousReturn, Lock, Test, Wait,
       Notify, Push, Leave, TakeNone, Pop, Stop, Join, CallStop

LEMMA WakeInvStep ==
    QueueInv /\ (PutsForRoom => WakeInv) /\ [Next]_vars => (PutsForRoom => WakeInv)'
<1> SUFFICES ASSUME QueueInv, PutsForRoom, WakeInv, [Next]_vars PROVE WakeInv'
  BY ClassStays DEF PutsForRoom
<1>1. CASE UNCHANGED vars
  BY <1>1
  DEF vars, dataVars, WakeInv, BlockedFor, TakersComing, PuttersComing,
      StoppedAwake, Takers, Putters, TakerWaits, PutterWaits, NotifyPending,
      Awake
<1>2. ASSUME NEW p \in Producers, CallPut(p) PROVE WakeInv'
  <2>1. p \in Threads /\ pc' = [Woken({}) EXCEPT ![p] = "lock"]
        /\ pc[p] # "notify" /\ UNCHANGED <<class, size_, stopped>>
    BY <1>2, SleepNobody DEF CallPut, Threads, Users, dataVars
  <2> QED
    BY <2>1, HarmlessKeeps, SleepNobody
<1>3. ASSUME NEW c \in Consumers, CallTake(c) PROVE WakeInv'
  <2>1. PICK v \in {"done", "lock"} : pc' = [pc EXCEPT ![c] = v]
    BY <1>3 DEF CallTake
  <2>2. c \in Threads /\ pc' = [Woken({}) EXCEPT ![c] = v]
        /\ pc[c] # "notify" /\ ~Awake(c) /\ UNCHANGED <<class, size_, stopped>>
    BY <1>3, <2>1, SleepNobody DEF CallTake, Threads, Users, dataVars, Awake
  <2> QED
    BY <2>2, HarmlessKeeps, SleepNobody
<1>4. ASSUME NEW t \in Users, SpuriousReturn(t) PROVE WakeInv'
  <2>1. t \in Threads /\ pc' = [Woken({}) EXCEPT ![t] = "woken"]
        /\ pc[t] # "notify" /\ UNCHANGED <<class, size_, stopped>>
    BY <1>4 DEF SpuriousReturn, Threads, Users, dataVars, Woken, QueueInv, TypeOK
  <2> QED
    BY <2>1, HarmlessKeeps, SleepNobody
<1>5. ASSUME NEW t \in Threads, Lock(t) PROVE WakeInv'
  <2>1. PICK v \in {"act", "test"} : pc' = [pc EXCEPT ![t] = v]
    BY <1>5 DEF Lock
  <2>2. pc' = [Woken({}) EXCEPT ![t] = v]
        /\ pc[t] # "notify" /\ UNCHANGED <<class, size_, stopped>>
    BY <1>5, <2>1, SleepNobody DEF Lock, dataVars
  <2> QED
    BY <2>2, HarmlessKeeps, SleepNobody
<1>6. ASSUME NEW t \in Threads, Notify(t) PROVE WakeInv'
  <2>1. class.putWakes = class.takeWaits
    BY ClassesAreGood DEF QueueInv, TypeOK, WakesEnough, PutsForRoom
  <2>2. PICK v \in {"idle", "join"} :
           pc' = [Woken(Waiting(class.takeWaits)) EXCEPT ![t] = v]
    BY <1>6, <2>1 DEF Notify
  <2>3. ~Awake(t) /\ UNCHANGED <<class, size_, stopped>>
    BY <1>6 DEF Notify, Awake, dataVars
  <2> QED
    BY <2>2, <2>3, AllTakersWoken
<1>7. ASSUME CallStop PROVE WakeInv'
  <2>1. PICK v \in {"lock", "notify"} : pc' = [pc EXCEPT ![Owner] = v]
    BY <1>7 DEF CallStop
  <2>2. pc' = [Woken({}) EXCEPT ![Owner] = v] /\ Owner \in Threads
        /\ pc[Owner] # "notify" /\ Owner \notin Users
        /\ UNCHANGED <<class, size_>>
        /\ (stopped' => class.stops # "locked")
    BY <1>7, <2>1, SleepNobody, MonitorThreads DEF CallStop, dataVars, Threads
  <2> QED
    BY <2>2, HarmlessKeeps, SleepNobody
<1>8. ASSUME Stop PROVE WakeInv'
  <2>1. Owner \in Threads /\ mutex_ = Owner /\ UNCHANGED <<class, size_>>
    BY <1>8 DEF Threads, Stop, QueueInv, TypeOK, InMutex, dataVars
  <2>2. \A c \in Consumers : pc[c] # "block"
    BY <2>1, MonitorThreads DEF QueueInv, TypeOK, InMutex, Threads, Users
  <2>3. pc' = [Woken(Waiting(class.takeWaits)) EXCEPT ![Owner] = "join"]
    BY <1>8 DEF Stop
  <2> QED
    BY <2>1, <2>2, <2>3, AllTakersWoken
<1>9. ASSUME Join PROVE WakeInv'
  <2>1. pc' = [Woken({}) EXCEPT ![Owner] = "done"] /\ Owner \in Threads
        /\ pc[Owner] # "notify" /\ Owner \notin Users
        /\ UNCHANGED <<class, size_, stopped>>
    BY <1>9, SleepNobody, MonitorThreads DEF Join, dataVars, Threads
  <2> QED
    BY <2>1, HarmlessKeeps, SleepNobody
<1> QED
  BY <1>1, <1>2, <1>3, <1>4, <1>5, <1>6, <1>7, <1>8, <1>9, TestWakes,
     WaitWakes, TakeNoneWakes, PushWakes, PopWakes
  DEF Next, Continues

(***************************************************************************)
(* While a taker waits there is a taker on its way for each element, or a  *)
(* notify_all is coming; while a putter waits there is one on its way for  *)
(* each free place; and once ThreadPool is stopped no worker waits: for    *)
(* every class but PutsConstReference, which has not got WakesEnough.      *)
(***************************************************************************)
THEOREM NoWakeupIsLost == Spec => []NoLostWakeup
<1>1. QueueInv /\ (PutsForRoom => WakeInv) => NoLostWakeup
  <2> SUFFICES ASSUME QueueInv, PutsForRoom, WakeInv PROVE NoLostWakeup
    BY DEF NoLostWakeup
  <2>1. size_ \in Nat /\ class.maxSize_ \in Nat
    BY ClassesAreGood DEF QueueInv, TypeOK, ClassIsTyped
  <2>2. TakerWaits => NotifyPending \/ size_ <= Cardinality(Takers)
    BY <2>1, FiniteSides DEF WakeInv, TakersComing
  <2>3. PutterWaits => class.maxSize_ <= size_ + Cardinality(Putters)
    BY <2>1, FiniteSides DEF WakeInv, PuttersComing
  <2> QED
    BY <2>2, <2>3
    DEF NoLostWakeup, TakerWaits, PutterWaits, Takers, Putters, WakeInv,
        StoppedAwake
<1> QED
  BY QueueInvInit, QueueInvStep, WakeInvInit, WakeInvStep, <1>1, PTL DEF Spec
=============================================================================
