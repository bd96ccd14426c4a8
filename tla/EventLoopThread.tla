--------------------------- MODULE EventLoopThread ---------------------------
(***************************************************************************)
(* A thread that runs an event loop (net/EventLoopThread.cpp): how its     *)
(* owner starts it and gets the loop's address, and how the destructor     *)
(* ends it.  The loop is EventLoop's, with the new thread as IO thread and *)
(* the owner as its one client.                                            *)
(*                                                                         *)
(* The loop lives on the stack of threadFunction(): it is there from       *)
(* childPc = "callback" until the thread ends.  ~EventLoop() then removes  *)
(* the wake-up channel from epoll, with the assert of Channel::remove().   *)
(* An assert that fails ends the program, both threads with it: they are   *)
(* "aborted".                                                              *)
(***************************************************************************)
EXTENDS Sequences, Naturals

CONSTANTS
    Owner,            \* creates, starts and destroys the EventLoopThread
    Child,            \* the thread it starts
    NoThread, Functors, Channels, NoFunctor,
    CallsBeforeLoop   \* the thread callback uses the loop

ASSUME OwnerAssumption == Owner # Child /\ NoThread \notin {Owner, Child}

VARIABLES
    ownerPc,    \* the owner, in startThread() and ~EventLoopThread()
    childPc,    \* the thread, in threadFunction()
    loop_,      \* the address of the loop has been published
    lock,       \* who holds EventLoopThread::mutex_, or NoThread
    signalled,  \* the owner's wait has been notified
    reported,   \* revents_ of the loop's wake-up channel is not zero
    asserts,    \* the build has asserts (NDEBUG is not defined)
    looping_, quit_, callingPendingFuntors_, mutex_, pendingFunctors_,
    functors, wakeupFd_, ready, activeChannels_, wakeupActive, ioPc,
    call, arg, handed, executed

Clients == {Owner}
IOThread == Child
Loop == INSTANCE EventLoop

threadVars == <<ownerPc, childPc, loop_, lock, signalled, reported, asserts>>
loopVars == <<looping_, quit_, callingPendingFuntors_, mutex_,
              pendingFunctors_, functors, wakeupFd_, ready, activeChannels_,
              wakeupActive, ioPc, call, arg, handed, executed>>
vars == <<threadVars, loopVars>>

LoopAlive == childPc \in {"callback", "lock", "publish", "loop"}

Init ==
    /\ ownerPc = "new"
    /\ childPc = "none"
    /\ loop_ = FALSE
    /\ lock = NoThread
    /\ signalled = FALSE
    /\ reported = FALSE
    /\ asserts \in BOOLEAN
    /\ Loop!Init

-----------------------------------------------------------------------------
(* The owner.                                                              *)

\* thread_.start(), then startThread() asks for mutex_.
StartThread ==
    /\ ownerPc = "new"
    /\ ownerPc' = "lock"
    /\ childPc' = "callback"
    /\ UNCHANGED <<loop_, lock, signalled, reported, asserts, loopVars>>

OwnerLock ==
    /\ ownerPc = "lock"
    /\ lock = NoThread
    /\ lock' = Owner
    /\ ownerPc' = "test"
    /\ UNCHANGED <<childPc, loop_, signalled, reported, asserts, loopVars>>

\* while (loop_ == nullptr) cond_.wait(): give the mutex up and sleep ...
CondWait ==
    /\ ownerPc = "test"
    /\ ~loop_
    /\ lock' = NoThread
    /\ signalled' = FALSE
    /\ ownerPc' = "waiting"
    /\ UNCHANGED <<childPc, loop_, reported, asserts, loopVars>>

\* ... until notified; then the mutex is taken again.
CondReturn ==
    /\ ownerPc = "waiting"
    /\ signalled
    /\ ownerPc' = "lock"
    /\ UNCHANGED <<childPc, loop_, lock, signalled, reported, asserts, loopVars>>

\* pthread_cond_wait may also return for no reason.
SpuriousReturn ==
    /\ ownerPc = "waiting"
    /\ ownerPc' = "lock"
    /\ UNCHANGED <<childPc, loop_, lock, signalled, reported, asserts, loopVars>>

\* Mutant of Started: the wait is an "if" and not a "while".
StartedUnchecked ==
    /\ ownerPc = "test"
    /\ lock' = NoThread
    /\ ownerPc' = "using"
    /\ UNCHANGED <<childPc, loop_, signalled, reported, asserts, loopVars>>

\* startThread() returns loop_.
Started ==
    /\ ownerPc = "test"
    /\ loop_
    /\ lock' = NoThread
    /\ ownerPc' = "using"
    /\ UNCHANGED <<childPc, loop_, signalled, reported, asserts, loopVars>>

\* ~EventLoopThread(): if there is a loop, quit() it and join the thread.  The
\* thread need not have come to loop() yet.
Destroy ==
    /\ ownerPc = "using"
    /\ Loop!Quit(Owner)
    /\ ownerPc' = "join"
    /\ UNCHANGED <<childPc, loop_, lock, signalled, reported, asserts>>

\* The same of an EventLoopThread that was never started.
DestroyUnstarted ==
    /\ ownerPc = "new"
    /\ ~loop_
    /\ ownerPc' = "destroyed"
    /\ UNCHANGED <<childPc, loop_, lock, signalled, reported, asserts, loopVars>>

Joined ==
    /\ ownerPc = "join"
    /\ call[Owner] = "idle"
    /\ childPc = "ended"
    /\ ownerPc' = "destroyed"
    /\ UNCHANGED <<childPc, loop_, lock, signalled, reported, asserts, loopVars>>

-----------------------------------------------------------------------------
(* The thread, in threadFunction().                                        *)

CallbackDone ==
    /\ childPc = "callback"
    /\ Loop!Free
    /\ childPc' = "lock"
    /\ UNCHANGED <<ownerPc, loop_, lock, signalled, reported, asserts, loopVars>>

ChildLock ==
    /\ childPc = "lock"
    /\ lock = NoThread
    /\ lock' = Child
    /\ childPc' = "publish"
    /\ UNCHANGED <<ownerPc, loop_, signalled, reported, asserts, loopVars>>

\* Mutant of Publish: nobody is notified.
PublishSilently ==
    /\ childPc = "publish"
    /\ loop_' = TRUE
    /\ lock' = NoThread
    /\ childPc' = "loop"
    /\ UNCHANGED <<ownerPc, signalled, reported, asserts, loopVars>>

\* loop_ = &loop; cond_.notify(); and the end of the locked block.
Publish ==
    /\ childPc = "publish"
    /\ loop_' = TRUE
    /\ signalled' = (signalled \/ ownerPc = "waiting")
    /\ lock' = NoThread
    /\ childPc' = "loop"
    /\ UNCHANGED <<ownerPc, reported, asserts, loopVars>>

\* loop() has returned.  ~EventLoop(): disableAll() and remove() of the wake-up
\* channel, whose assert fails if a wake-up was ever reported; then the thread
\* ends.
ThreadEnd ==
    /\ childPc = "loop"
    /\ ioPc = "done"
    /\ IF asserts /\ reported
       THEN ownerPc' = "aborted" /\ childPc' = "aborted"
       ELSE childPc' = "ended" /\ UNCHANGED ownerPc
    /\ UNCHANGED <<loop_, lock, signalled, reported, asserts, loopVars>>

-----------------------------------------------------------------------------
\* The thread in loop(), which it enters after it has published the address.
\* The wake-up channel keeps what was reported of it.
ChildLoops ==
    /\ childPc = "loop"
    /\ Loop!IOStep
    /\ reported' = (reported \/ wakeupActive')
    /\ UNCHANGED <<ownerPc, childPc, loop_, lock, signalled, asserts>>

\* A functor is handed over: by the owner once it has the address, by the
\* thread in its callback and in the callbacks and functors of the loop.
MayCall(t) ==
    IF t = Owner THEN ownerPc = "using"
                 ELSE ioPc = "init" => childPc = "callback"

HandOver ==
    /\ \E f \in Functors :
         \/ \E t \in {Owner, Child} : MayCall(t) /\ Loop!QueueInLoop(t, f)
         \/ MayCall(Child) /\ Loop!RunInLoop(f)
    /\ UNCHANGED threadVars

Running == childPc # "aborted"

CallStep(t) == Running /\ Loop!CallStep(t) /\ UNCHANGED threadVars

\* A poll that reports nothing, and the kernel.
LoopEnvironment ==
    /\ Running
    /\ Loop!PollEmpty \/ \E c \in Channels : Loop!BecomeReady(c)
    /\ UNCHANGED threadVars

\* Nothing is left to do.
Finished ==
    /\ ownerPc \in {"destroyed", "aborted"}
    /\ childPc \in {"none", "ended", "aborted"}
    /\ UNCHANGED vars

OwnerStep ==
    \/ OwnerLock \/ CondWait \/ CondReturn \/ Started \/ Joined
    \/ CallStep(Owner)
ChildStep ==
    \/ CallbackDone \/ ChildLock \/ Publish \/ ThreadEnd \/ ChildLoops
    \/ CallStep(Child)

Next ==
    \/ StartThread \/ SpuriousReturn \/ Destroy \/ DestroyUnstarted
    \/ OwnerStep \/ ChildStep
    \/ HandOver \/ LoopEnvironment
    \/ Finished

\* Both threads are scheduled; a mutex that is free again and again is got.
Fairness ==
    /\ WF_vars(OwnerStep) /\ WF_vars(ChildStep)
    /\ SF_vars(OwnerLock) /\ SF_vars(ChildLock)
    /\ SF_vars(ChildLoops /\ Loop!SwapLock)
    /\ \A t \in {Owner, Child} : SF_vars(CallStep(t) /\ Loop!Lock(t))

Spec == Init /\ [][Next]_vars
FairSpec == Spec /\ Fairness

-----------------------------------------------------------------------------
TypeOK ==
    /\ ownerPc \in {"new", "lock", "test", "waiting", "using", "join",
                    "destroyed", "aborted"}
    /\ childPc \in {"none", "callback", "lock", "publish", "loop", "ended",
                    "aborted"}
    /\ loop_ \in BOOLEAN
    /\ lock \in {NoThread, Owner, Child}
    /\ signalled \in BOOLEAN
    /\ reported \in BOOLEAN /\ asserts \in BOOLEAN
    /\ Loop!TypeOK

\* startThread() returns the address of a loop that exists, and goes on
\* existing while the owner uses it.
StartedLoopExists == ownerPc = "using" => loop_ /\ LoopAlive

\* startThread() returns: the notification is not lost whichever of the two
\* threads gets to mutex_ first.
StartReturns == (ownerPc = "lock") ~> (ownerPc = "using")

==============================================================================
