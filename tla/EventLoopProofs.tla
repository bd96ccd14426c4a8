--------------------------- MODULE EventLoopProofs ---------------------------
(***************************************************************************)
(* What is proved of EventLoop for any number of threads, functors and     *)
(* channels.                                                               *)
(*                                                                         *)
(* NoLostWakeup is not inductive: whether poll() may block is settled by   *)
(* what happened in the phases before it.  IInv says, for every phase in   *)
(* which pendingFunctors_ is not about to be swapped out anyway, that a    *)
(* queued functor has a wake-up coming.                                    *)
(***************************************************************************)
EXTENDS EventLoop, TLAPS

\* From here to the next poll nobody looks at pendingFunctors_ again.
PastSwap == ioPc \in {"init", "run", "functor", "check", "poll"}

\* callingPendingFuntors_ says that the IO thread is in doPendingFunctors().
CallingPhase ==
    callingPendingFuntors_ <=> ioPc \in {"swap", "swapping", "run", "functor"}

\* The IO thread calls into the loop from user code only.
CallPhase == call[IOThread] # "idle" => InUserCode

Announced == PastSwap /\ pendingFunctors_ # <<>> => WakeupComing

QuitAnnounced == ioPc = "poll" /\ quit_ => WakeupComing

\* Outside the loop over the batch the local vector is empty, so that the
\* swap leaves pendingFunctors_ empty.
BatchDone == functors # <<>> => ioPc \in {"run", "functor"}

IInv == BatchDone /\ CallingPhase /\ Announced /\ QuitAnnounced

-----------------------------------------------------------------------------
\* Every variable keeps its type, whatever the threads do.
THEOREM TypeCorrect == Spec => []TypeOK
<1>1. Init => TypeOK
  <2> SUFFICES ASSUME Init PROVE TypeOK
    OBVIOUS
  <2>1. call \in [Threads -> {"idle", "lock", "push", "wakeup"}]
    BY DEF Init
  <2>2. arg \in [Threads -> Functors \cup {NoFunctor}]
    BY DEF Init
  <2>3. \A t \in Threads : call[t] \in {"lock", "push"} => arg[t] \in Functors
    BY DEF Init
  <2>4. quit_ \in BOOLEAN
    BY DEF Init
  <2>5. <<>> \in Seq(Functors)
    OBVIOUS
  <2>6. mutex_ \in Threads \cup {NoThread} /\ handed \subseteq Functors
    BY DEF Init
  <2>7. ready \subseteq Channels /\ activeChannels_ \subseteq Channels
    BY DEF Init
  <2>8. ioPc \in {"init", "check", "poll", "handle", "callback", "swap",
                 "swapping", "run", "functor", "done"}
    BY DEF Init
  <2>9. looping_ \in BOOLEAN /\ callingPendingFuntors_ \in BOOLEAN
        /\ wakeupFd_ \in BOOLEAN /\ wakeupActive \in BOOLEAN
    BY DEF Init
  <2>10. pendingFunctors_ \in Seq(Functors) /\ functors \in Seq(Functors)
         /\ executed \in Seq(Functors)
    BY <2>5 DEF Init
  <2> QED BY <2>1, <2>2, <2>3, <2>4, <2>6, <2>7, <2>8, <2>9, <2>10 DEF TypeOK
<1>2. TypeOK /\ [Next]_vars => TypeOK'
  <2> SUFFICES ASSUME TypeOK, [Next]_vars PROVE TypeOK'
    OBVIOUS
  <2> USE DEF TypeOK
  <2>1. ASSUME NEW t \in Threads, NEW f \in Functors, QueueInLoop(t, f)
        PROVE  TypeOK'
    BY <2>1 DEF QueueInLoop, loopVars, queueVars, pollVars
  <2>2. ASSUME NEW t \in Threads, Quit(t) PROVE TypeOK'
    <3>1. call' \in [Threads -> {"idle", "lock", "push", "wakeup"}]
      BY <2>2 DEF Quit
    <3>2. \A u \in Threads : call'[u] \in {"lock", "push"} => call'[u] = call[u]
      BY <2>2 DEF Quit
    <3>3. quit_' \in BOOLEAN
      BY <2>2 DEF Quit
    <3> QED BY <2>2, <3>1, <3>2, <3>3 DEF Quit, queueVars, pollVars
  <2>3. ASSUME NEW t \in Threads, CallStep(t) PROVE TypeOK'
    <3>1. CASE Lock(t)
      BY <3>1 DEF Lock, loopVars, pollVars
    <3>2. CASE PushBack(t)
      <4>1. pendingFunctors_' \in Seq(Functors)
        BY <3>2 DEF PushBack
      <4>2. /\ call' \in [Threads -> {"idle", "lock", "push", "wakeup"}]
            /\ arg' \in [Threads -> Functors \cup {NoFunctor}]
        BY <3>2 DEF PushBack
      <4>3. \A u \in Threads :
              call'[u] \in {"lock", "push"} => u # t /\ arg'[u] = arg[u]
                                              /\ call'[u] = call[u]
        BY <3>2 DEF PushBack
      <4> QED BY <3>2, <4>1, <4>2, <4>3 DEF PushBack, loopVars, pollVars
    <3>3. CASE Wakeup(t)
      BY <3>3 DEF Wakeup, loopVars, queueVars, pollVars
    <3> QED BY <2>3, <3>1, <3>2, <3>3 DEF CallStep
  <2>4. ASSUME NEW f \in Functors, RunInLoop(f) PROVE TypeOK'
    BY <2>4 DEF RunInLoop, loopVars, pollVars
  <2>5. ASSUME IOStep PROVE TypeOK'
    <3>1. CASE LoopStart \/ NextRound \/ LoopEnd \/ PollReturn \/ HandleRead
               \/ CallbackReturn
      BY <3>1 DEF LoopStart, NextRound, LoopEnd, PollReturn, HandleRead,
                  CallbackReturn, loopVars, queueVars, pollVars, callVars
    <3>2. CASE \E c \in Channels : HandleEvent(c)
      BY <3>2 DEF HandleEvent, queueVars, callVars
    <3>3. CASE BeginPending \/ SwapLock \/ Swap \/ FunctorReturn \/ EndPending
      BY <3>3 DEF BeginPending, SwapLock, Swap, FunctorReturn, EndPending,
                  queueVars, pollVars, callVars, Threads
    <3>4. CASE RunFunctor
      BY <3>4 DEF RunFunctor, pollVars, callVars
    <3> QED BY <2>5, <3>1, <3>2, <3>3, <3>4 DEF IOStep
  <2>6. ASSUME PollEmpty PROVE TypeOK'
    BY <2>6 DEF PollEmpty, queueVars, pollVars, callVars
  <2>7. ASSUME NEW c \in Channels, BecomeReady(c) PROVE TypeOK'
    BY <2>7 DEF BecomeReady, loopVars, queueVars, callVars
  <2>8. CASE UNCHANGED vars
    BY <2>8 DEF vars, loopVars, queueVars, pollVars, callVars
  <2> QED BY <2>1, <2>2, <2>3, <2>4, <2>5, <2>6, <2>7, <2>8 DEF Next
<1> QED BY <1>1, <1>2, PTL DEF Spec

-----------------------------------------------------------------------------
\* mutex_ is held exactly inside the locked blocks of queueInLoop() and
\* doPendingFunctors(), and the loop is called from user code only.
THEOREM LockCorrect == Spec => [](LockDiscipline /\ CallPhase)
<1> DEFINE J == LockDiscipline /\ CallPhase
<1>1. Init => J
  BY ThreadAssumption DEF Init, LockDiscipline, InLockedBlock, CallPhase, Threads
<1>2. TypeOK /\ J /\ [Next]_vars => J'
  <2> SUFFICES ASSUME TypeOK, J, [Next]_vars PROVE J'
    OBVIOUS
  <2> USE ThreadAssumption DEF TypeOK, LockDiscipline, InLockedBlock,
          CallPhase, InUserCode, Threads
  <2>1. ASSUME NEW t \in Threads, NEW f \in Functors, QueueInLoop(t, f)
        PROVE  J'
    BY <2>1 DEF QueueInLoop, CanCall, loopVars, queueVars
  <2>2. ASSUME NEW t \in Threads, Quit(t) PROVE J'
    BY <2>2 DEF Quit, CanCall, queueVars
  <2>3. ASSUME NEW t \in Threads, Lock(t) PROVE J'
    BY <2>3 DEF Lock, loopVars
  <2>4. ASSUME NEW t \in Threads, PushBack(t) PROVE J'
    BY <2>4 DEF PushBack, MustWakeup, loopVars
  <2>5. ASSUME NEW t \in Threads, Wakeup(t) PROVE J'
    BY <2>5 DEF Wakeup, loopVars, queueVars
  <2>6. ASSUME NEW f \in Functors, RunInLoop(f) PROVE J'
    BY <2>6 DEF RunInLoop, loopVars
  <2>7. ASSUME IOStep PROVE J'
    <3>1. CASE LoopStart \/ NextRound \/ LoopEnd \/ PollReturn \/ HandleRead
               \/ CallbackReturn
      BY <3>1 DEF LoopStart, NextRound, LoopEnd, PollReturn, HandleRead,
                  CallbackReturn, Free, loopVars, queueVars, callVars
    <3>2. CASE \E c \in Channels : HandleEvent(c)
      BY <3>2 DEF HandleEvent, queueVars, callVars
    <3>3. CASE BeginPending \/ FunctorReturn \/ EndPending \/ RunFunctor
      BY <3>3 DEF BeginPending, FunctorReturn, EndPending, RunFunctor, Free,
                  queueVars, callVars
    <3>4. CASE SwapLock
      BY <3>4 DEF SwapLock, callVars
    <3>5. CASE Swap
      BY <3>5 DEF Swap, callVars
    <3> QED BY <2>7, <3>1, <3>2, <3>3, <3>4, <3>5 DEF IOStep
  <2>8. ASSUME PollEmpty PROVE J'
    BY <2>8 DEF PollEmpty, queueVars, callVars
  <2>9. ASSUME NEW c \in Channels, BecomeReady(c) PROVE J'
    BY <2>9 DEF BecomeReady, loopVars, queueVars, callVars
  <2>10. CASE UNCHANGED vars
    BY <2>10 DEF vars, loopVars, queueVars, callVars
  <2> QED BY <2>1, <2>2, <2>3, <2>4, <2>5, <2>6, <2>7, <2>8, <2>9, <2>10
             DEF Next, CallStep
<1> QED BY <1>1, <1>2, TypeCorrect, PTL DEF Spec

-----------------------------------------------------------------------------
\* When no call is made before loop(), a loop that blocks in epoll_wait has a
\* wake-up coming for every functor in the queue and every quit().
THEOREM WakeupNotLost ==
    ASSUME ~CallsBeforeLoop
    PROVE  Spec => []NoLostWakeup
<1>1. Init => IInv
  BY DEF Init, IInv, BatchDone, CallingPhase, Announced, QuitAnnounced
<1>2. TypeOK /\ CallPhase /\ IInv /\ [Next]_vars => IInv'
  <2> SUFFICES ASSUME TypeOK, CallPhase, IInv, [Next]_vars PROVE IInv'
    OBVIOUS
  <2> USE ThreadAssumption DEF IInv, BatchDone, CallingPhase, Announced, QuitAnnounced,
          PastSwap, WakeupComing, CallPhase, InUserCode
  <2>a. call \in [Threads -> {"idle", "lock", "push", "wakeup"}]
    BY DEF TypeOK
  <2>1. ASSUME NEW t \in Threads, NEW f \in Functors, QueueInLoop(t, f)
        PROVE  IInv'
    <3>1. \A u \in Threads : call[u] = "wakeup" => call'[u] = "wakeup"
      BY <2>1, <2>a DEF QueueInLoop, CanCall
    <3> QED BY <2>1, <3>1 DEF QueueInLoop, loopVars, queueVars
  <2>2. ASSUME NEW t \in Threads, Quit(t) PROVE IInv'
    <3>1. \A u \in Threads : call[u] = "wakeup" => call'[u] = "wakeup"
      BY <2>2, <2>a DEF Quit, CanCall
    <3>2. ioPc = "poll" => call'[t] = "wakeup"
      BY <2>2, <2>a DEF Quit, CanCall
    <3> QED BY <2>2, <3>1, <3>2 DEF Quit, queueVars
  <2>3. ASSUME NEW t \in Threads, Lock(t) PROVE IInv'
    <3>1. \A u \in Threads : call[u] = "wakeup" => call'[u] = "wakeup"
      BY <2>3, <2>a DEF Lock
    <3> QED BY <2>3, <3>1 DEF Lock, loopVars
  <2>4. ASSUME NEW t \in Threads, PushBack(t) PROVE IInv'
    <3>1. \A u \in Threads : call[u] = "wakeup" => call'[u] = "wakeup"
      BY <2>4, <2>a DEF PushBack
    <3>2. MustWakeup(t) => call'[t] = "wakeup"
      BY <2>4, <2>a DEF PushBack
    <3>3. PastSwap => MustWakeup(t)
      BY <2>4, <2>a DEF PushBack, MustWakeup
    <3> QED BY <2>4, <3>1, <3>2, <3>3 DEF PushBack, loopVars
  <2>5. ASSUME NEW t \in Threads, Wakeup(t) PROVE IInv'
    BY <2>5 DEF Wakeup, loopVars, queueVars
  <2>6. ASSUME NEW f \in Functors, RunInLoop(f) PROVE IInv'
    BY <2>6 DEF RunInLoop, loopVars
  <2>7. ASSUME IOStep PROVE IInv'
    <3>1. CASE LoopStart \/ NextRound \/ LoopEnd
      BY <3>1 DEF LoopStart, NextRound, LoopEnd, queueVars, callVars
    <3>2. CASE PollReturn \/ HandleRead \/ CallbackReturn
      BY <3>2 DEF PollReturn, HandleRead, CallbackReturn, loopVars, queueVars,
                  callVars
    <3>3. CASE \E c \in Channels : HandleEvent(c)
      BY <3>3 DEF HandleEvent, queueVars, callVars
    <3>4. CASE BeginPending \/ SwapLock
      BY <3>4 DEF BeginPending, SwapLock, queueVars, callVars
    <3>5. CASE Swap
      BY <3>5 DEF Swap, callVars
    <3>6. CASE RunFunctor \/ FunctorReturn \/ EndPending
      BY <3>6 DEF RunFunctor, FunctorReturn, EndPending, queueVars, callVars
    <3> QED BY <2>7, <3>1, <3>2, <3>3, <3>4, <3>5, <3>6 DEF IOStep
  <2>8. ASSUME PollEmpty PROVE IInv'
    BY <2>8 DEF PollEmpty, queueVars, callVars
  <2>9. ASSUME NEW c \in Channels, BecomeReady(c) PROVE IInv'
    BY <2>9 DEF BecomeReady, loopVars, queueVars, callVars
  <2>10. CASE UNCHANGED vars
    BY <2>10 DEF vars, loopVars, queueVars, callVars
  <2> QED BY <2>1, <2>2, <2>3, <2>4, <2>5, <2>6, <2>7, <2>8, <2>9, <2>10
             DEF Next, CallStep
<1>3. IInv => NoLostWakeup
  BY DEF IInv, Announced, QuitAnnounced, PastSwap, NoLostWakeup
<1> QED BY <1>1, <1>2, <1>3, TypeCorrect, LockCorrect, PTL DEF Spec

-----------------------------------------------------------------------------
(* The refinement: every step of the loop is a step of TaskQueue, or none. *)

\* What appending, taking the head and concatenating do to the elements.
LEMMA AppendElements ==
    ASSUME NEW S, NEW s \in Seq(S), NEW e
    PROVE  TQ!Elements(Append(s, e)) = TQ!Elements(s) \cup {e}
<1>1. /\ Len(Append(s, e)) = Len(s) + 1
      /\ \A i \in 1..Len(s) : Append(s, e)[i] = s[i]
      /\ Append(s, e)[Len(s) + 1] = e
  OBVIOUS
<1>2. 1..(Len(s) + 1) = (1..Len(s)) \cup {Len(s) + 1}
  OBVIOUS
<1> QED BY <1>1, <1>2 DEF TQ!Elements

LEMMA TailElements ==
    ASSUME NEW S, NEW s \in Seq(S), s # <<>>
    PROVE  TQ!Elements(s) = TQ!Elements(Tail(s)) \cup {Head(s)}
<1>1. /\ Len(s) \in Nat /\ Len(s) > 0
      /\ Len(Tail(s)) = Len(s) - 1
      /\ Head(s) = s[1]
      /\ \A i \in 1..(Len(s) - 1) : Tail(s)[i] = s[i + 1]
  OBVIOUS
<1>2. ASSUME NEW i \in 1..Len(s) PROVE s[i] \in TQ!Elements(Tail(s)) \cup {Head(s)}
  <2>1. CASE i = 1
    BY <1>1, <2>1
  <2>2. CASE i # 1
    <3>1. i - 1 \in 1..Len(Tail(s)) /\ Tail(s)[i - 1] = s[i]
      BY <1>1, <2>2
    <3> QED BY <3>1 DEF TQ!Elements
  <2> QED BY <2>1, <2>2
<1>3. ASSUME NEW i \in 1..Len(Tail(s)) PROVE Tail(s)[i] \in TQ!Elements(s)
  <2>1. i + 1 \in 1..Len(s) /\ Tail(s)[i] = s[i + 1]
    BY <1>1
  <2> QED BY <2>1 DEF TQ!Elements
<1>4. Head(s) \in TQ!Elements(s)
  BY <1>1 DEF TQ!Elements
<1> QED BY <1>2, <1>3, <1>4 DEF TQ!Elements

LEMMA ConcatElements ==
    ASSUME NEW S, NEW s \in Seq(S), NEW u \in Seq(S)
    PROVE  TQ!Elements(s \o u) = TQ!Elements(s) \cup TQ!Elements(u)
<1>1. /\ Len(s) \in Nat /\ Len(u) \in Nat
      /\ Len(s \o u) = Len(s) + Len(u)
      /\ \A i \in 1..Len(s) : (s \o u)[i] = s[i]
      /\ \A i \in 1..Len(u) : (s \o u)[Len(s) + i] = u[i]
  OBVIOUS
<1>2. ASSUME NEW i \in 1..Len(s \o u)
      PROVE  (s \o u)[i] \in TQ!Elements(s) \cup TQ!Elements(u)
  <2>1. CASE i \in 1..Len(s)
    BY <1>1, <2>1 DEF TQ!Elements
  <2>2. CASE i \notin 1..Len(s)
    <3>1. i - Len(s) \in 1..Len(u)
      BY <1>1, <2>2
    <3>2. (s \o u)[i] = u[i - Len(s)]
      BY <1>1, <3>1
    <3> QED BY <3>1, <3>2 DEF TQ!Elements
  <2> QED BY <2>1, <2>2
<1>3. ASSUME NEW i \in 1..Len(s) PROVE s[i] \in TQ!Elements(s \o u)
  <2>1. i \in 1..Len(s \o u) /\ (s \o u)[i] = s[i]
    BY <1>1
  <2> QED BY <2>1 DEF TQ!Elements
<1>4. ASSUME NEW i \in 1..Len(u) PROVE u[i] \in TQ!Elements(s \o u)
  <2>1. Len(s) + i \in 1..Len(s \o u) /\ (s \o u)[Len(s) + i] = u[i]
    BY <1>1
  <2> QED BY <2>1 DEF TQ!Elements
<1> QED BY <1>2, <1>3, <1>4 DEF TQ!Elements

\* A functor on its way to the queue is new there, and in one hand only.
InHand(t) == call[t] \in {"lock", "push"}
Known == TQ!Elements(functors) \cup TQ!Elements(pendingFunctors_)
           \cup TQ!Elements(executed)
HandedOver ==
    /\ Known \subseteq handed
    /\ \A t \in Threads : InHand(t) => arg[t] \in handed \ Known
    /\ \A t, u \in Threads : InHand(t) /\ InHand(u) /\ arg[t] = arg[u] => t = u

LEMMA HandedOverStep ==
    TypeOK /\ BatchDone /\ HandedOver /\ [Next]_vars => HandedOver'
<1> SUFFICES ASSUME TypeOK, BatchDone, HandedOver, [Next]_vars
             PROVE  HandedOver'
  OBVIOUS
<1> USE DEF HandedOver, InHand
<1>t. /\ call \in [Threads -> {"idle", "lock", "push", "wakeup"}]
      /\ arg \in [Threads -> Functors \cup {NoFunctor}]
      /\ pendingFunctors_ \in Seq(Functors)
      /\ functors \in Seq(Functors)
      /\ executed \in Seq(Functors)
  BY DEF TypeOK
<1>1. ASSUME NEW t \in Threads, NEW f \in Functors, QueueInLoop(t, f)
      PROVE  HandedOver'
  <2>1. Known' = Known
    BY <1>1 DEF QueueInLoop, queueVars, Known
  <2>2. /\ handed' = handed \cup {f} /\ f \notin handed
        /\ arg'[t] = f
        /\ \A u \in Threads : u # t => call'[u] = call[u] /\ arg'[u] = arg[u]
    BY <1>1, <1>t DEF QueueInLoop
  <2> QED BY <2>1, <2>2
<1>2. ASSUME NEW t \in Threads, Quit(t) PROVE HandedOver'
  <2>1. \A u \in Threads : InHand(u)' => InHand(u) /\ arg'[u] = arg[u]
    BY <1>2, <1>t DEF Quit
  <2>2. Known' = Known /\ handed' = handed
    BY <1>2 DEF Quit, queueVars, Known
  <2> QED BY <2>1, <2>2
<1>3. ASSUME NEW t \in Threads, Lock(t) \/ Wakeup(t) PROVE HandedOver'
  <2>1. \A u \in Threads : InHand(u)' => InHand(u) /\ arg'[u] = arg[u]
    BY <1>3, <1>t DEF Lock, Wakeup
  <2>2. Known' = Known /\ handed' = handed
    BY <1>3 DEF Lock, Wakeup, queueVars, Known
  <2> QED BY <2>1, <2>2
<1>4. ASSUME NEW t \in Threads, PushBack(t) PROVE HandedOver'
  <2>1. Known' = Known \cup {arg[t]}
    <3>1. arg[t] \in Functors
      BY <1>4 DEF PushBack, TypeOK
    <3> QED BY <1>4, <1>t, <3>1, AppendElements DEF PushBack, Known
  <2>2. \A u \in Threads : InHand(u)' => u # t /\ InHand(u) /\ arg'[u] = arg[u]
    BY <1>4, <1>t DEF PushBack
  <2>3. handed' = handed /\ InHand(t)
    BY <1>4 DEF PushBack
  <2> QED BY <2>1, <2>2, <2>3
<1>5. ASSUME NEW f \in Functors, RunInLoop(f) PROVE HandedOver'
  <2>1. Known' = Known \cup {f}
    BY <1>5, <1>t, AppendElements DEF RunInLoop, Known
  <2>2. handed' = handed \cup {f} /\ f \notin handed
    BY <1>5 DEF RunInLoop
  <2>3. UNCHANGED <<call, arg>>
    BY <1>5 DEF RunInLoop
  <2> QED BY <2>1, <2>2, <2>3
<1>6. ASSUME UNCHANGED callVars, Known' = Known PROVE HandedOver'
  BY <1>6 DEF callVars
<1>7. ASSUME IOStep PROVE HandedOver'
  <2>1. UNCHANGED callVars
    BY <1>7 DEF IOStep, LoopStart, NextRound, LoopEnd, PollReturn, HandleRead,
         HandleEvent, CallbackReturn, BeginPending, SwapLock, Swap, RunFunctor,
         FunctorReturn, EndPending
  <2>2. CASE Swap
    BY <1>6, <2>1, <2>2 DEF Swap, Known
  <2>3. CASE RunFunctor
    <3>1. executed' = Append(executed, Head(functors))
          /\ functors' = Tail(functors) /\ functors # <<>>
          /\ pendingFunctors_' = pendingFunctors_
      BY <2>3 DEF RunFunctor
    <3>2. Head(functors) \in Functors
      BY <1>t, <3>1
    <3>3. TQ!Elements(executed') = TQ!Elements(executed) \cup {Head(functors)}
      BY <1>t, <3>1, AppendElements
    <3>4. TQ!Elements(functors)
            = TQ!Elements(functors') \cup {Head(functors)}
      BY <1>t, <3>1, TailElements
    <3>5. Known' = Known
      BY <3>1, <3>3, <3>4 DEF Known
    <3> QED BY <1>6, <2>1, <3>5
  <2>4. CASE ~Swap /\ ~RunFunctor
    <3>1. UNCHANGED <<functors, pendingFunctors_, executed>>
      BY <1>7, <2>4 DEF IOStep, LoopStart, NextRound, LoopEnd, PollReturn,
           HandleRead, HandleEvent, CallbackReturn, BeginPending, SwapLock,
           FunctorReturn, EndPending, queueVars
    <3>2. Known' = Known
      BY <3>1 DEF Known
    <3> QED BY <1>6, <2>1, <3>2
  <2> QED BY <2>2, <2>3, <2>4
<1>8. ASSUME PollEmpty PROVE HandedOver'
  BY <1>6, <1>8 DEF PollEmpty, queueVars, Known
<1>9. ASSUME NEW c \in Channels, BecomeReady(c) PROVE HandedOver'
  BY <1>6, <1>9 DEF BecomeReady, queueVars, Known
<1>10. CASE UNCHANGED vars
  BY <1>6, <1>10 DEF vars, queueVars, Known
<1> QED BY <1>1, <1>2, <1>3, <1>4, <1>5, <1>7, <1>8, <1>9, <1>10
           DEF Next, CallStep

\* The steps of the loop, as steps of the queue it implements.
LEMMA QueueStep ==
    TypeOK /\ BatchDone /\ HandedOver /\ [Next]_vars => [TQ!Next]_TQ!tqVars
<1> SUFFICES ASSUME TypeOK, BatchDone, HandedOver, [Next]_vars
             PROVE  [TQ!Next]_TQ!tqVars
  OBVIOUS
<1> DEFINE queue == functors \o pendingFunctors_
           open  == ioPc # "done"
<1>t. /\ pendingFunctors_ \in Seq(Functors)
      /\ functors \in Seq(Functors)
      /\ executed \in Seq(Functors)
  BY DEF TypeOK
<1>k. Known = TQ!Elements(queue) \cup TQ!Elements(executed)
  BY <1>t, ConcatElements DEF Known
<1>1. ASSUME UNCHANGED <<functors, pendingFunctors_, executed, open>>
      PROVE  UNCHANGED TQ!tqVars
  BY <1>1 DEF TQ!tqVars
<1>2. ASSUME NEW t \in Threads, NEW f \in Functors, QueueInLoop(t, f)
      PROVE  UNCHANGED TQ!tqVars
  BY <1>1, <1>2 DEF QueueInLoop, queueVars, loopVars
<1>3. ASSUME NEW t \in Threads, Quit(t) \/ Lock(t) \/ Wakeup(t)
      PROVE  UNCHANGED TQ!tqVars
  BY <1>1, <1>3 DEF Quit, Lock, Wakeup, queueVars, loopVars
<1>4. ASSUME NEW t \in Threads, PushBack(t) PROVE TQ!Next
  <2>1. /\ pendingFunctors_' = Append(pendingFunctors_, arg[t])
        /\ UNCHANGED <<functors, executed, open>>
        /\ call[t] = "push"
    BY <1>4 DEF PushBack, loopVars
  <2>2. arg[t] \in Functors
    BY <2>1 DEF TypeOK
  <2>3. queue' = Append(queue, arg[t])
    BY <1>t, <2>1, <2>2
  <2>4. TQ!Fresh(arg[t])
    BY <1>k, <2>1 DEF HandedOver, InHand, TQ!Fresh
  <2>5. TQ!Submit(arg[t])
    BY <2>1, <2>3, <2>4 DEF TQ!Submit
  <2> QED BY <2>2, <2>5 DEF TQ!Next
<1>5. ASSUME NEW f \in Functors, RunInLoop(f) PROVE TQ!Next
  <2>1. TQ!Fresh(f)
    BY <1>5, <1>k DEF RunInLoop, HandedOver, TQ!Fresh
  <2>2. open
    BY <1>5 DEF RunInLoop, CanCall, InUserCode
  <2>3. TQ!RunNow(f)
    BY <1>5, <2>1, <2>2 DEF RunInLoop, TQ!RunNow, loopVars
  <2> QED BY <2>3 DEF TQ!Next
<1>6. ASSUME IOStep PROVE TQ!Next \/ UNCHANGED TQ!tqVars
  <2>1. CASE LoopEnd
    <3>1. TQ!Close
      BY <2>1 DEF LoopEnd, queueVars, TQ!Close
    <3> QED BY <3>1 DEF TQ!Next
  <2>2. CASE Swap
    <3>1. functors = <<>>
      BY <2>2 DEF Swap, BatchDone
    <3>2. queue' = queue
      BY <1>t, <2>2, <3>1 DEF Swap
    <3> QED BY <2>2, <3>2 DEF Swap, TQ!tqVars
  <2>3. CASE RunFunctor
    <3>1. /\ functors # <<>>
          /\ executed' = Append(executed, Head(functors))
          /\ functors' = Tail(functors)
          /\ pendingFunctors_' = pendingFunctors_
          /\ open /\ open'
      BY <2>3 DEF RunFunctor
    <3>2. /\ queue # <<>>
          /\ Head(queue) = Head(functors)
          /\ Tail(queue) = Tail(functors) \o pendingFunctors_
      BY <1>t, <3>1
    <3>3. TQ!Run
      BY <3>1, <3>2 DEF TQ!Run
    <3> QED BY <3>3 DEF TQ!Next
  <2>4. CASE ~LoopEnd /\ ~Swap /\ ~RunFunctor
    BY <1>1, <1>6, <2>4 DEF IOStep, LoopStart, NextRound, PollReturn, HandleRead,
         HandleEvent, CallbackReturn, BeginPending, SwapLock, FunctorReturn,
         EndPending, queueVars, loopVars
  <2> QED BY <2>1, <2>2, <2>3, <2>4
<1>7. ASSUME PollEmpty PROVE UNCHANGED TQ!tqVars
  BY <1>1, <1>7 DEF PollEmpty, queueVars
<1>8. ASSUME NEW c \in Channels, BecomeReady(c) PROVE UNCHANGED TQ!tqVars
  BY <1>1, <1>8 DEF BecomeReady, queueVars, loopVars
<1>9. CASE UNCHANGED vars
  BY <1>1, <1>9 DEF vars, queueVars, loopVars
<1> QED BY <1>2, <1>3, <1>4, <1>5, <1>6, <1>7, <1>8, <1>9 DEF Next, CallStep

LEMMA BatchStep == BatchDone /\ [Next]_vars => BatchDone'
<1> SUFFICES ASSUME BatchDone, [Next]_vars PROVE BatchDone'
  OBVIOUS
<1> USE DEF BatchDone
<1>1. ASSUME IOStep PROVE BatchDone'
  BY <1>1 DEF IOStep, LoopStart, NextRound, LoopEnd, PollReturn, HandleRead,
       HandleEvent, CallbackReturn, BeginPending, SwapLock, Swap, RunFunctor,
       FunctorReturn, EndPending, queueVars, loopVars
<1>2. ASSUME ~IOStep PROVE UNCHANGED <<functors, ioPc>> \/ PollEmpty
  BY <1>2 DEF Next, CallStep, QueueInLoop, Quit, Lock, PushBack, Wakeup,
       RunInLoop, BecomeReady, vars, queueVars, loopVars
<1>3. ASSUME PollEmpty PROVE BatchDone'
  BY <1>3 DEF PollEmpty, queueVars
<1> QED BY <1>1, <1>2, <1>3

\* The event loop is a queue that runs every functor at most once, in the
\* order in which queueInLoop() accepted them, and none after it has returned:
\* the safety half of ImplementsTaskQueue.
THEOREM LoopIsTaskQueue == Spec => TQ!SafeSpec
<1>1. Init => TQ!Init /\ BatchDone /\ HandedOver
  <2> SUFFICES ASSUME Init PROVE TQ!Init /\ BatchDone /\ HandedOver
    OBVIOUS
  <2>1. TQ!Elements(<<>>) = {}
    BY DEF TQ!Elements
  <2>2. TQ!Init /\ BatchDone
    BY DEF Init, TQ!Init, BatchDone
  <2>3. HandedOver
    BY <2>1 DEF Init, HandedOver, InHand, Known
  <2> QED BY <2>2, <2>3
<1> QED BY <1>1, TypeCorrect, BatchStep, HandedOverStep, QueueStep, PTL
           DEF Spec, TQ!SafeSpec
==============================================================================
