------------------------------ MODULE Monitors ------------------------------
(***************************************************************************)
(* The queues that threads share under one mutex and condition variables:  *)
(* BlockingQueue, BoundedBlockingQueue and ThreadPool of base/, and the    *)
(* BoundedBuffer and threadpool of recipes/thread.  They are one algorithm *)
(* with different settings, so a class is a record of settings and a       *)
(* behaviour is of one class.                                              *)
(*                                                                         *)
(* A call takes the mutex, tests its condition, waits and tests again, or  *)
(* acts (moves an element, notifies) and leaves.  It is cut where another  *)
(* thread can get in: before the mutex, between the test and the wait      *)
(* (some state is written without the mutex), after the mutex.             *)
(*                                                                         *)
(* Abstracted: an element is the number of the call that put it; a task    *)
(* returns.  A pool is a queue of tasks whose consumers are its workers;   *)
(* it is seen from the end of start() on.                                  *)
(***************************************************************************)
EXTENDS Sequences, Naturals, FiniteSets

CONSTANTS
    Producers, Consumers,   \* the threads that put, and those that take
    Owner,                  \* the thread that stops a pool
    NoThread,               \* mutex_ is free
    Nothing,                \* the element a deque is built with
    MaxSize,                \* the capacity a bounded queue is built with
    MaxPuts                 \* bound: how many elements are put

Users == Producers \cup Consumers
Threads == Users \cup {Owner}

ASSUME MonitorThreads ==
    /\ Producers \cap Consumers = {}
    /\ Owner \notin Users
    /\ NoThread \notin Threads
    /\ IsFiniteSet(Users)
ASSUME MaxSizeAssumption == MaxSize \in Nat

-----------------------------------------------------------------------------
(* The classes.                                                            *)

\* put() never waits; take() waits while the queue is empty.
BlockingQueue ==
    [bounded |-> FALSE, maxSize_ |-> 0, prefill |-> <<>>,
     putWaits |-> "notFull_", takeWaits |-> "notEmpty_",
     putWakes |-> "notEmpty_", takeWakes |-> "none",
     wakesAll |-> FALSE, wakesLate |-> FALSE,
     stops |-> "never", drains |-> TRUE]

\* queue_(maxSize_) is a deque of that many elements.
Defaults == [i \in 1..MaxSize |-> Nothing]

\* Mutant of BoundedBlockingQueue: take() does not notify notFull_.
TakeWakesNobody ==
    [BlockingQueue EXCEPT
        !.bounded = TRUE, !.maxSize_ = MaxSize, !.prefill = Defaults]

\* Its deque is built with maxSize_ elements, which size_ does not count.
\* The put() is put(T &&).
BoundedBlockingQueue ==
    [BlockingQueue EXCEPT
        !.bounded = TRUE, !.maxSize_ = MaxSize, !.prefill = Defaults,
        !.takeWakes = "notFull_"]

\* The same queue, put to with put(const T &), which waits for notEmpty_
\* while the queue is full.  (A queue is put to with one of the two.)
PutsConstReference == [BoundedBlockingQueue EXCEPT !.putWaits = "notEmpty_"]

ThreadPool ==
    [BlockingQueue EXCEPT
        !.takeWaits = "cond_", !.putWakes = "cond_", !.stops = "locked"]

\* Mutant of BoundedBuffer: notify_one.
WakesOne ==
    [BlockingQueue EXCEPT
        !.bounded = TRUE, !.maxSize_ = MaxSize, !.putWaits = "cv",
        !.takeWaits = "cv", !.putWakes = "cv", !.takeWakes = "cv"]

\* recipes: one condition variable for both sides, and everyone is woken.
BoundedBuffer ==
    [BlockingQueue EXCEPT
        !.bounded = TRUE, !.maxSize_ = MaxSize,
        !.putWaits = "cv", !.takeWaits = "cv",
        !.putWakes = "cv", !.takeWakes = "cv", !.wakesAll = TRUE]

\* recipes: wakes after the mutex, and stores _stop without it.
threadpool ==
    [BlockingQueue EXCEPT
        !.takeWaits = "_taskCV", !.putWakes = "_taskCV", !.wakesAll = TRUE,
        !.wakesLate = TRUE, !.stops = "unlocked", !.drains = FALSE]

Classes == {BlockingQueue, BoundedBlockingQueue, PutsConstReference,
            ThreadPool, BoundedBuffer, threadpool}

-----------------------------------------------------------------------------
VARIABLES
    class,      \* which class this is
    mutex_,     \* who holds it, or NoThread
    queue_,     \* the deque
    size_,      \* how many elements it is taken to hold
    stopped,    \* running_ is false, or _stop is true
    pc,         \* where a thread is in its call
    arg,        \* the element of a put()
    calls,      \* how many put() have been called
    put,        \* history: what was pushed, in order
    taken       \* history: what was popped, in order

dataVars == <<queue_, size_, put, taken>>
vars == <<class, mutex_, dataVars, stopped, pc, arg, calls>>

IsPool == class.stops # "never"

\* What the loop around wait() waits for.
Ready(t) ==
    IF t \in Producers THEN ~class.bounded \/ size_ # class.maxSize_
                       ELSE size_ # 0 \/ stopped

WaitsFor(t) == IF t \in Producers THEN class.putWaits ELSE class.takeWaits
Waiting(cond) == {t \in Users : pc[t] = "waiting" /\ WaitsFor(t) = cond}

\* They return from wait() once they have the mutex, and test again.
Woken(ts) == [t \in Threads |-> IF t \in ts THEN "woken" ELSE pc[t]]

\* The sets of threads a notify() may wake: everyone, or one of those there.
NotifyWakes(cond) ==
    IF class.wakesAll THEN {Waiting(cond)}
    ELSE IF Waiting(cond) = {} THEN {{}}
    ELSE {{t} : t \in Waiting(cond)}

-----------------------------------------------------------------------------
Init ==
    /\ class \in Classes
    /\ mutex_ = NoThread
    /\ queue_ = class.prefill
    /\ size_ = 0
    /\ stopped = FALSE
    /\ pc = [t \in Threads |-> "idle"]
    /\ arg = [p \in Producers |-> 0]
    /\ calls = 0
    /\ put = <<>>
    /\ taken = <<>>

\* put(), run(), produce(), commit().
CallPut(p) ==
    /\ pc[p] = "idle" /\ calls < MaxPuts
    /\ calls' = calls + 1
    /\ arg' = [arg EXCEPT ![p] = calls + 1]
    /\ pc' = [pc EXCEPT ![p] = "lock"]
    /\ UNCHANGED <<class, mutex_, dataVars, stopped>>

\* take(), consume(); the loop of a worker, which ends when it sees the stop.
CallTake(c) ==
    /\ pc[c] = "idle"
    /\ pc' = [pc EXCEPT ![c] = IF IsPool /\ stopped THEN "done" ELSE "lock"]
    /\ UNCHANGED <<class, mutex_, dataVars, stopped, arg, calls>>

\* Mutant of Lock: "if" where the code has "while" around the wait.
LockTestsOnce(t) ==
    /\ pc[t] \in {"lock", "woken"} /\ mutex_ = NoThread
    /\ mutex_' = t
    /\ pc' = [pc EXCEPT ![t] = IF t = Owner \/ pc[t] = "woken" THEN "act"
                                                              ELSE "test"]
    /\ UNCHANGED <<class, dataVars, stopped, arg, calls>>

Lock(t) ==
    /\ pc[t] \in {"lock", "woken"} /\ mutex_ = NoThread
    /\ mutex_' = t
    /\ pc' = [pc EXCEPT ![t] = IF t = Owner THEN "act" ELSE "test"]
    /\ UNCHANGED <<class, dataVars, stopped, arg, calls>>

Test(t) ==
    /\ pc[t] = "test"
    /\ pc' = [pc EXCEPT ![t] = IF Ready(t) THEN "act" ELSE "block"]
    /\ UNCHANGED <<class, mutex_, dataVars, stopped, arg, calls>>

\* Mutant of Wait: the mutex is kept.
WaitKeepsMutex(t) ==
    /\ pc[t] = "block"
    /\ pc' = [pc EXCEPT ![t] = "waiting"]
    /\ UNCHANGED <<class, mutex_, dataVars, stopped, arg, calls>>

\* wait() gives the mutex back and waits in one step.
Wait(t) ==
    /\ pc[t] = "block"
    /\ mutex_' = NoThread
    /\ pc' = [pc EXCEPT ![t] = "waiting"]
    /\ UNCHANGED <<class, dataVars, stopped, arg, calls>>

\* wait() may return for no reason.
SpuriousReturn(t) ==
    /\ pc[t] = "waiting"
    /\ pc' = Woken({t})
    /\ UNCHANGED <<class, mutex_, dataVars, stopped, arg, calls>>

-----------------------------------------------------------------------------
\* Leave the mutex, having notified or about to.
Leave(t, cond) ==
    /\ mutex_' = NoThread
    /\ \E ts \in IF class.wakesLate THEN {{}} ELSE NotifyWakes(cond) :
          pc' = [Woken(ts) EXCEPT ![t] = IF class.wakesLate THEN "notify"
                                                            ELSE "idle"]
    /\ UNCHANGED <<class, stopped, arg, calls>>

Push(p) ==
    /\ pc[p] = "act"
    /\ queue_' = Append(queue_, arg[p])
    /\ size_' = size_ + 1
    /\ put' = Append(put, arg[p])
    /\ Leave(p, class.putWakes)
    /\ UNCHANGED taken

\* A take() that was woken by the stop comes back with no task.
NoTask == size_ = 0 \/ (stopped /\ ~class.drains)

TakeNone(c) ==
    /\ pc[c] = "act" /\ NoTask
    /\ mutex_' = NoThread
    /\ pc' = [pc EXCEPT ![c] = "idle"]
    /\ UNCHANGED <<class, dataVars, stopped, arg, calls>>

\* A pool wakes no one when a task is taken.
Pop(c) ==
    /\ pc[c] = "act" /\ ~NoTask
    /\ taken' = Append(taken, Head(queue_))
    /\ queue_' = Tail(queue_)
    /\ size_' = size_ - 1
    /\ mutex_' = NoThread
    /\ \E ts \in NotifyWakes(class.takeWakes) :
          pc' = [Woken(ts) EXCEPT ![c] = "idle"]
    /\ UNCHANGED <<class, stopped, arg, calls, put>>

\* notify_all after the mutex: of commit(), and of shutdown().
Notify(t) ==
    /\ pc[t] = "notify"
    /\ pc' = [Woken(Waiting(class.putWakes)) EXCEPT
                 ![t] = IF t = Owner THEN "join" ELSE "idle"]
    /\ UNCHANGED <<class, mutex_, dataVars, stopped, arg, calls>>

-----------------------------------------------------------------------------
\* stop() of ThreadPool takes the mutex first, shutdown() of the recipe
\* stores _stop at once.
CallStop ==
    /\ pc[Owner] = "idle" /\ IsPool
    /\ stopped' = (class.stops = "unlocked")
    /\ pc' = [pc EXCEPT ![Owner] = IF class.stops = "locked" THEN "lock"
                                                             ELSE "notify"]
    /\ UNCHANGED <<class, mutex_, dataVars, arg, calls>>

Stop ==
    /\ pc[Owner] = "act"
    /\ stopped' = TRUE
    /\ mutex_' = NoThread
    /\ pc' = [Woken(Waiting(class.takeWaits)) EXCEPT ![Owner] = "join"]
    /\ UNCHANGED <<class, dataVars, arg, calls>>

\* join() of every worker.
Join ==
    /\ pc[Owner] = "join"
    /\ \A c \in Consumers : pc[c] = "done"
    /\ pc' = [pc EXCEPT ![Owner] = "done"]
    /\ UNCHANGED <<class, mutex_, dataVars, stopped, arg, calls>>

-----------------------------------------------------------------------------
\* What a call does once it is called.
Continues(t) ==
    \/ Test(t) \/ Wait(t) \/ Notify(t)
    \/ t \in Producers /\ Push(t)
    \/ t \in Consumers /\ (TakeNone(t) \/ Pop(t))
    \/ t = Owner /\ (Stop \/ Join)

Next ==
    \/ \E p \in Producers : CallPut(p)
    \/ \E c \in Consumers : CallTake(c)
    \/ \E t \in Users : SpuriousReturn(t)
    \/ \E t \in Threads : Lock(t) \/ Continues(t)
    \/ CallStop

Spec == Init /\ [][Next]_vars

(* A thread that can go on does, one that wants the mutex gets it again    *)
(* and again, and a consumer comes back for more.  Nobody need put or stop *)
(* anything, and wait() need not return for no reason.                     *)
Fairness ==
    /\ \A t \in Threads : WF_vars(Continues(t)) /\ SF_vars(Lock(t))
    /\ \A c \in Consumers : WF_vars(CallTake(c))

FairSpec == Spec /\ Fairness

-----------------------------------------------------------------------------
(* Properties.                                                             *)

InMutex(t) == pc[t] \in {"test", "block", "act"}

\* The types; the mutex is held by the one thread that is inside.
TypeOK ==
    /\ class \in Classes
    /\ mutex_ \in Threads \cup {NoThread}
    /\ queue_ \in Seq(Nat \cup {Nothing})
    /\ size_ \in Nat
    /\ stopped \in BOOLEAN
    /\ pc \in [Threads -> {"idle", "lock", "test", "block", "waiting",
                           "woken", "act", "notify", "join", "done"}]
    /\ arg \in [Producers -> Nat]
    /\ calls \in Nat
    /\ put \in Seq(Nat \cup {Nothing})
    /\ taken \in Seq(Nat \cup {Nothing})
    /\ \A t \in Threads : InMutex(t) <=> mutex_ = t

(* The asserts after the waits (BoundedBlockingQueue.h:43, 55,             *)
(* BlockingQueue.h:36), the front() that has no assert (ThreadPool.cpp:98, *)
(* thread_pool_test.cpp:67), and what the callers rely on: elements come   *)
(* out in the order they went in, none lost, none twice, behind those the  *)
(* deque was built with.  size_, which is counted apart from the deque in  *)
(* BoundedBlockingQueue, stays the number of elements that were put.       *)
QueueIsKept ==
    /\ taken \o queue_ = class.prefill \o put
    /\ Len(queue_) = size_ + Len(class.prefill)
    /\ class.bounded => size_ <= class.maxSize_
    /\ \A p \in Producers :
          pc[p] = "act" /\ class.bounded => size_ < class.maxSize_
    /\ \A c \in Consumers : pc[c] = "act" => size_ > 0 \/ stopped

\* On the way to the mutex, or inside and not about to wait.
Awake(t) == pc[t] \in {"lock", "woken", "test", "act"}

\* Someone is about to notify.
NotifyPending == \E t \in Threads : pc[t] = "notify"

\* Those who put wait for what those who take notify.
PutsForRoom == class # PutsConstReference

(* No wake-up is lost, but for put(const T &) of BoundedBlockingQueue.     *)
(* While a taker waits, there is for each element a taker that is on its   *)
(* way, or a notify_all is; while a putter waits, there is one on its way  *)
(* for each free place.  Once a pool is stopped under its mutex no worker  *)
(* waits.                                                                  *)
NoLostWakeup == PutsForRoom =>
    /\ (\E c \in Consumers : pc[c] = "waiting") =>
          NotifyPending \/ size_ <= Cardinality({c \in Consumers : Awake(c)})
    /\ (\E p \in Producers : pc[p] = "waiting") =>
          class.maxSize_ <= size_ + Cardinality({p \in Producers : Awake(p)})
    /\ stopped /\ class.stops = "locked" => \A c \in Consumers :
          pc[c] \notin {"block", "waiting"}

\* Element e has been put, and as many behind it as the deque was built with.
PutAndBehind(e) == \E k \in DOMAIN put :
    put[k] = e /\ k + Len(class.prefill) <= Len(put)
Taken(e) == \E k \in DOMAIN taken : taken[k] = e

(* But for put(const T &): a put() that is called returns, and each        *)
(* element that is put is taken, by way of BoundedBlockingQueue once       *)
(* maxSize_ more have been put behind it (its last maxSize_ stay), unless  *)
(* a pool has been stopped.  stop() of ThreadPool returns.                 *)
CallsEnd ==
    /\ \A p \in Producers : PutsForRoom /\ pc[p] = "lock" ~> pc[p] = "idle"
    /\ \A e \in 1..MaxPuts :
          PutsForRoom /\ PutAndBehind(e) ~> Taken(e) \/ stopped
    /\ pc[Owner] = "act" ~> pc[Owner] = "done"
=============================================================================
