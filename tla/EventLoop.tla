------------------------------ MODULE EventLoop ------------------------------
(***************************************************************************)
(* The event loop of one thread (net/EventLoop.cpp): the phases of loop(), *)
(* the queue of pending functors that other threads append to under        *)
(* mutex_, and the eventfd that wakes the loop out of epoll_wait.          *)
(*                                                                         *)
(* What runs in parallel: the IO thread, which created the loop and runs   *)
(* it, and the Clients, which call queueInLoop(), runInLoop() and quit()   *)
(* through a pointer.  A call is cut where another thread can get in       *)
(* between: taking the mutex, leaving the locked block, writing the        *)
(* eventfd.                                                                *)
(*                                                                         *)
(* Abstracted: a functor is a name, handed over once; what it does is any  *)
(* sequence of calls the IO thread may make from it.  A channel is a name  *)
(* that becomes ready and is handled; Epoll.tla has its details.  The      *)
(* counter of the eventfd is kept as "nonzero", all that read() and        *)
(* epoll_wait tell apart.                                                  *)
(***************************************************************************)
EXTENDS Sequences, Naturals

CONSTANTS
    Clients,          \* threads other than the IO thread
    IOThread,         \* the thread that created the loop and calls loop()
    Functors,         \* callbacks handed to the loop
    Channels,         \* descriptors registered with the loop, wakeupFd_ aside
    NoThread,         \* mutex_ is free
    NoFunctor,        \* no callback in hand
    CallsBeforeLoop   \* the IO thread itself uses the loop before loop()

ASSUME ThreadAssumption ==
    /\ IOThread \notin Clients
    /\ NoThread \notin Clients \cup {IOThread}
ASSUME FunctorAssumption == NoFunctor \notin Functors
ASSUME CallsAssumption == CallsBeforeLoop \in BOOLEAN

Threads == Clients \cup {IOThread}

VARIABLES
    looping_, quit_, callingPendingFuntors_,   \* the three flags
    mutex_,             \* who holds it, or NoThread
    pendingFunctors_,   \* what has been queued
    functors,           \* the batch doPendingFunctors() has swapped out
    wakeupFd_,          \* the counter of the eventfd is not zero
    ready,              \* channels with an event the kernel would report
    activeChannels_,    \* channels the last poll reported, still to handle
    wakeupActive,       \* wakeupChannel_ is one of those
    ioPc,               \* where the IO thread is in loop()
    call,               \* where a thread is in queueInLoop() or quit()
    arg,                \* the functor of that queueInLoop()
    handed,             \* history: functors a caller has handed over
    executed            \* history: functors started, in order

loopVars  == <<looping_, quit_, callingPendingFuntors_, ioPc>>
queueVars == <<mutex_, pendingFunctors_, functors, executed>>
pollVars  == <<ready, activeChannels_, wakeupActive>>
callVars  == <<call, arg, handed>>
vars == <<loopVars, queueVars, wakeupFd_, pollVars, callVars>>

\* Where the IO thread runs code that may use the loop.
InUserCode ==
    \/ ioPc \in {"callback", "functor"}
    \/ ioPc = "init" /\ CallsBeforeLoop

\* A thread that is free to call into the loop.
CanCall(t) == call[t] = "idle" /\ (t = IOThread => InUserCode)

\* The IO thread is not in the middle of a call.
Free == call[IOThread] = "idle"

-----------------------------------------------------------------------------
\* quit_ is not initialised by the constructor.
Init ==
    /\ looping_ = FALSE
    /\ quit_ \in BOOLEAN
    /\ callingPendingFuntors_ = FALSE
    /\ mutex_ = NoThread
    /\ pendingFunctors_ = <<>>
    /\ functors = <<>>
    /\ wakeupFd_ = FALSE
    /\ ready = {}
    /\ activeChannels_ = {}
    /\ wakeupActive = FALSE
    /\ ioPc = "init"
    /\ call = [t \in Threads |-> "idle"]
    /\ arg = [t \in Threads |-> NoFunctor]
    /\ handed = {}
    /\ executed = <<>>

-----------------------------------------------------------------------------
(* What any thread may call.                                               *)

\* queueInLoop(f), and runInLoop(f) of a thread that is not the IO thread.
QueueInLoop(t, f) ==
    /\ CanCall(t)
    /\ f \notin handed
    /\ handed' = handed \cup {f}
    /\ arg' = [arg EXCEPT ![t] = f]
    /\ call' = [call EXCEPT ![t] = "lock"]
    /\ UNCHANGED <<loopVars, queueVars, wakeupFd_, pollVars>>

\* runInLoop(f) of the IO thread runs f before it returns.
RunInLoop(f) ==
    /\ CanCall(IOThread)
    /\ f \notin handed
    /\ handed' = handed \cup {f}
    /\ executed' = Append(executed, f)
    /\ UNCHANGED <<loopVars, mutex_, pendingFunctors_, functors, wakeupFd_,
                   pollVars, call, arg>>

\* Mutant of Lock: the functor is moved from before it is pushed.
LockMovesFirst(t) ==
    /\ call[t] = "lock"
    /\ mutex_ = NoThread
    /\ mutex_' = t
    /\ arg' = [arg EXCEPT ![t] = NoFunctor]
    /\ call' = [call EXCEPT ![t] = "push"]
    /\ UNCHANGED <<loopVars, pendingFunctors_, functors, executed, wakeupFd_,
                   pollVars, handed>>

Lock(t) ==
    /\ call[t] = "lock"
    /\ mutex_ = NoThread
    /\ mutex_' = t
    /\ call' = [call EXCEPT ![t] = "push"]
    /\ UNCHANGED <<loopVars, pendingFunctors_, functors, executed, wakeupFd_,
                   pollVars, arg, handed>>

\* Mutant of MustWakeup: callingPendingFuntors_ is not looked at.
WakeupFromOthersOnly(t) == t # IOThread

\* queueInLoop() wakes the loop unless the caller is in an event callback.
MustWakeup(t) == t # IOThread \/ callingPendingFuntors_

\* push_back and the end of the locked block.
PushBack(t) ==
    /\ call[t] = "push"
    /\ pendingFunctors_' = Append(pendingFunctors_, arg[t])
    /\ mutex_' = NoThread
    /\ arg' = [arg EXCEPT ![t] = NoFunctor]
    /\ call' = [call EXCEPT ![t] = IF MustWakeup(t) THEN "wakeup" ELSE "idle"]
    /\ UNCHANGED <<loopVars, functors, executed, wakeupFd_, pollVars, handed>>

\* Mutant of Wakeup: it waits until the loop has read the eventfd.
WakeupSpins(t) ==
    /\ call[t] = "wakeup"
    /\ wakeupFd_' = TRUE
    /\ call' = IF wakeupFd_ THEN call ELSE [call EXCEPT ![t] = "idle"]
    /\ UNCHANGED <<loopVars, queueVars, pollVars, arg, handed>>

Wakeup(t) ==
    /\ call[t] = "wakeup"
    /\ wakeupFd_' = TRUE
    /\ call' = [call EXCEPT ![t] = "idle"]
    /\ UNCHANGED <<loopVars, queueVars, pollVars, arg, handed>>

\* Mutant of Quit: the loop is not woken.
QuitSilently(t) ==
    /\ CanCall(t)
    /\ quit_' = TRUE
    /\ UNCHANGED <<looping_, callingPendingFuntors_, ioPc, queueVars,
                   wakeupFd_, pollVars, call, arg, handed>>

\* quit(): set the flag, then wake the loop if it is another thread's.
Quit(t) ==
    /\ CanCall(t)
    /\ quit_' = TRUE
    /\ call' = IF t # IOThread THEN [call EXCEPT ![t] = "wakeup"] ELSE call
    /\ UNCHANGED <<looping_, callingPendingFuntors_, ioPc, queueVars,
                   wakeupFd_, pollVars, arg, handed>>

-----------------------------------------------------------------------------
(* The IO thread in loop().                                                *)

LoopStart ==
    /\ ioPc = "init"
    /\ Free
    /\ looping_' = TRUE
    /\ quit_' = FALSE
    /\ ioPc' = "check"
    /\ UNCHANGED <<callingPendingFuntors_, queueVars, wakeupFd_, pollVars,
                   callVars>>

\* while (!quit_): another round ...
NextRound ==
    /\ ioPc = "check"
    /\ ~quit_
    /\ activeChannels_' = {}
    /\ wakeupActive' = FALSE
    /\ ioPc' = "poll"
    /\ UNCHANGED <<looping_, quit_, callingPendingFuntors_, queueVars,
                   wakeupFd_, ready, callVars>>

\* ... or loop() returns.
LoopEnd ==
    /\ ioPc = "check"
    /\ quit_
    /\ looping_' = FALSE
    /\ ioPc' = "done"
    /\ UNCHANGED <<quit_, callingPendingFuntors_, queueVars, wakeupFd_,
                   pollVars, callVars>>

\* Mutant of PollReturn: only the wakeupChannel_ is put on the list.
PollDropsChannels ==
    /\ ioPc = "poll"
    /\ ready # {} \/ wakeupFd_
    /\ wakeupActive' = wakeupFd_
    /\ ioPc' = "handle"
    /\ UNCHANGED <<looping_, quit_, callingPendingFuntors_, queueVars,
                   wakeupFd_, ready, activeChannels_, callVars>>

\* epoll_wait returns what is readable, the eventfd included.
PollReturn ==
    /\ ioPc = "poll"
    /\ ready # {} \/ wakeupFd_
    /\ activeChannels_' = ready
    /\ wakeupActive' = wakeupFd_
    /\ ioPc' = "handle"
    /\ UNCHANGED <<looping_, quit_, callingPendingFuntors_, queueVars,
                   wakeupFd_, ready, callVars>>

\* epoll_wait returns nothing: the ten seconds are over, or a signal came.
PollEmpty ==
    /\ ioPc = "poll"
    /\ ready = {} /\ ~wakeupFd_
    /\ ioPc' = "handle"
    /\ UNCHANGED <<looping_, quit_, callingPendingFuntors_, queueVars,
                   wakeupFd_, pollVars, callVars>>

\* The callback of wakeupChannel_ reads the eventfd down to zero.
HandleRead ==
    /\ ioPc = "handle"
    /\ wakeupActive
    /\ wakeupActive' = FALSE
    /\ wakeupFd_' = FALSE
    /\ UNCHANGED <<loopVars, queueVars, ready, activeChannels_, callVars>>

\* handleEvent() of an active channel: its callback takes the event.
HandleEvent(c) ==
    /\ ioPc = "handle"
    /\ c \in activeChannels_
    /\ activeChannels_' = activeChannels_ \ {c}
    /\ ready' = ready \ {c}
    /\ ioPc' = "callback"
    /\ UNCHANGED <<looping_, quit_, callingPendingFuntors_, queueVars,
                   wakeupFd_, wakeupActive, callVars>>

CallbackReturn ==
    /\ ioPc = "callback"
    /\ Free
    /\ ioPc' = "handle"
    /\ UNCHANGED <<looping_, quit_, callingPendingFuntors_, queueVars,
                   wakeupFd_, pollVars, callVars>>

\* doPendingFunctors(): the flag goes up before the lock is taken.
BeginPending ==
    /\ ioPc = "handle"
    /\ activeChannels_ = {} /\ ~wakeupActive
    /\ callingPendingFuntors_' = TRUE
    /\ ioPc' = "swap"
    /\ UNCHANGED <<looping_, quit_, queueVars, wakeupFd_, pollVars, callVars>>

\* Mutant of SwapLock: the vectors are swapped without the mutex.
SwapUnlocked ==
    /\ ioPc = "swap"
    /\ mutex_' = IOThread
    /\ ioPc' = "swapping"
    /\ UNCHANGED <<looping_, quit_, callingPendingFuntors_, pendingFunctors_,
                   functors, executed, wakeupFd_, pollVars, callVars>>

SwapLock ==
    /\ ioPc = "swap"
    /\ mutex_ = NoThread
    /\ mutex_' = IOThread
    /\ ioPc' = "swapping"
    /\ UNCHANGED <<looping_, quit_, callingPendingFuntors_, pendingFunctors_,
                   functors, executed, wakeupFd_, pollVars, callVars>>

\* Mutant of Swap: the queue is copied and not emptied.
SwapCopies ==
    /\ ioPc = "swapping"
    /\ functors' = pendingFunctors_
    /\ mutex_' = NoThread
    /\ ioPc' = "run"
    /\ UNCHANGED <<looping_, quit_, callingPendingFuntors_, pendingFunctors_,
                   executed, wakeupFd_, pollVars, callVars>>

\* functors.swap(pendingFunctors_) and the end of the locked block.
Swap ==
    /\ ioPc = "swapping"
    /\ functors' = pendingFunctors_
    /\ pendingFunctors_' = functors
    /\ mutex_' = NoThread
    /\ ioPc' = "run"
    /\ UNCHANGED <<looping_, quit_, callingPendingFuntors_, executed,
                   wakeupFd_, pollVars, callVars>>

RunFunctor ==
    /\ ioPc = "run"
    /\ functors # <<>>
    /\ executed' = Append(executed, Head(functors))
    /\ functors' = Tail(functors)
    /\ ioPc' = "functor"
    /\ UNCHANGED <<looping_, quit_, callingPendingFuntors_, mutex_,
                   pendingFunctors_, wakeupFd_, pollVars, callVars>>

FunctorReturn ==
    /\ ioPc = "functor"
    /\ Free
    /\ ioPc' = "run"
    /\ UNCHANGED <<looping_, quit_, callingPendingFuntors_, queueVars,
                   wakeupFd_, pollVars, callVars>>

EndPending ==
    /\ ioPc = "run"
    /\ functors = <<>>
    /\ callingPendingFuntors_' = FALSE
    /\ ioPc' = "check"
    /\ UNCHANGED <<looping_, quit_, queueVars, wakeupFd_, pollVars, callVars>>

-----------------------------------------------------------------------------
\* The kernel: something arrives on a channel.
BecomeReady(c) ==
    /\ c \notin ready
    /\ ready' = ready \cup {c}
    /\ UNCHANGED <<loopVars, queueVars, wakeupFd_, activeChannels_,
                   wakeupActive, callVars>>

\* What a thread in the middle of a call does next.
CallStep(t) == Lock(t) \/ PushBack(t) \/ Wakeup(t)

\* What the IO thread does on its own, an empty poll aside.
IOStep ==
    \/ LoopStart \/ NextRound \/ LoopEnd
    \/ PollReturn \/ HandleRead \/ CallbackReturn
    \/ \E c \in Channels : HandleEvent(c)
    \/ BeginPending \/ SwapLock \/ Swap
    \/ RunFunctor \/ FunctorReturn \/ EndPending

Next ==
    \/ \E t \in Threads :
         \/ \E f \in Functors : QueueInLoop(t, f)
         \/ Quit(t)
         \/ CallStep(t)
    \/ \E f \in Functors : RunInLoop(f)
    \/ IOStep
    \/ PollEmpty
    \/ \E c \in Channels : BecomeReady(c)

\* Threads are scheduled, callbacks and functors return, and a thread that
\* waits for mutex_ gets it if it is free again and again.  Nothing is
\* assumed of PollEmpty: whatever must happen happens without the timeout.
Fairness ==
    /\ WF_vars(IOStep) /\ SF_vars(SwapLock)
    /\ \A t \in Threads : WF_vars(CallStep(t)) /\ SF_vars(Lock(t))

Spec == Init /\ [][Next]_vars
FairSpec == Spec /\ Fairness

-----------------------------------------------------------------------------
TypeOK ==
    /\ looping_ \in BOOLEAN
    /\ quit_ \in BOOLEAN
    /\ callingPendingFuntors_ \in BOOLEAN
    /\ mutex_ \in Threads \cup {NoThread}
    /\ pendingFunctors_ \in Seq(Functors)
    /\ functors \in Seq(Functors)
    /\ wakeupFd_ \in BOOLEAN
    /\ ready \subseteq Channels
    /\ activeChannels_ \subseteq Channels
    /\ wakeupActive \in BOOLEAN
    /\ ioPc \in {"init", "check", "poll", "handle", "callback", "swap",
                 "swapping", "run", "functor", "done"}
    /\ call \in [Threads -> {"idle", "lock", "push", "wakeup"}]
    /\ arg \in [Threads -> Functors \cup {NoFunctor}]
    /\ \A t \in Threads : call[t] \in {"lock", "push"} => arg[t] \in Functors
    /\ handed \subseteq Functors
    /\ executed \in Seq(Functors)

\* A wake-up is on its way: the eventfd is readable, or a thread that has
\* changed what the loop looks at has yet to write it.
WakeupComing == wakeupFd_ \/ \E t \in Threads : call[t] = "wakeup"

\* The loop never blocks in epoll_wait on work it does not know of: while it
\* is there, a queued functor or a quit() has a wake-up coming.  This is what
\* the condition at the end of queueInLoop(), and quit()'s wakeup(), are for.
NoLostWakeup ==
    ioPc = "poll" /\ (pendingFunctors_ # <<>> \/ quit_) => WakeupComing

\* mutex_ is held exactly inside the two locked blocks: no two threads touch
\* pendingFunctors_ at once, and no functor runs, or queues, under the lock.
InLockedBlock(t) == call[t] = "push" \/ (t = IOThread /\ ioPc = "swapping")
LockDiscipline == \A t \in Threads : InLockedBlock(t) <=> mutex_ = t

\* The loop implements the queue it promises: first in, first out, each
\* functor once, none dropped by the swap, none after loop() has returned,
\* and each one in the end unless loop() returns.
TQ == INSTANCE TaskQueue WITH
        queue <- functors \o pendingFunctors_,
        ran   <- executed,
        open  <- ioPc # "done"

ImplementsTaskQueue == TQ!Spec

\* quit() ends a loop that is running, however late it comes in a round.
QuitEndsLoop == (quit_ /\ looping_) ~> (ioPc = "done")

\* A ready descriptor gets its callback, unless the loop is told to quit.
ReadyIsHandled ==
    \A c \in Channels : (c \in ready) ~> (c \notin ready \/ quit_)

\* queueInLoop() and quit() return: no caller blocks for good on mutex_.
CallsReturn == \A t \in Threads : (call[t] # "idle") ~> (call[t] = "idle")
==============================================================================
