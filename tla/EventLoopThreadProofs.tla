------------------------ MODULE EventLoopThreadProofs ------------------------
(***************************************************************************)
(* A proof about EventLoopThread: the address that startThread() returns   *)
(* is that of a loop that exists until its owner has asked it to quit.     *)
(***************************************************************************)
EXTENDS EventLoopThread, TLAPS

\* The owner has called quit(), or never started the thread, or has ended with
\* the program.
Destroying == ownerPc \in {"join", "destroyed", "aborted"}

\* The address is published when the callback is over, and kept for good.
Published ==
    /\ ownerPc = "new" => childPc = "none"
    /\ loop_ => childPc \in {"loop", "ended", "aborted"}
    /\ childPc = "aborted" => ownerPc = "aborted"
    /\ ownerPc = "using" => loop_

\* loop() does not return before quit(): it has cleared the flag that the
\* constructor left as it was.
LoopsUntilQuit ==
    /\ ~Destroying => ioPc # "done"
    /\ ~Destroying /\ ioPc # "init" => quit_ = FALSE
    /\ childPc = "ended" => ioPc = "done"

StartInv == Published /\ LoopsUntilQuit

LEMMA StartInit == Init => StartInv
BY DEF Init, Loop!Init, StartInv, Published, LoopsUntilQuit

\* Steps in which neither loop() nor the flag moves.
LEMMA CallsKeep ==
    ASSUME StartInv, UNCHANGED <<threadVars, quit_, ioPc>>
    PROVE  StartInv'
BY DEF StartInv, Published, LoopsUntilQuit, Destroying, threadVars

\* The rounds of loop(): only LoopEnd ends it, which needs the flag.
LEMMA RoundsKeep ==
    ASSUME StartInv, ChildLoops
    PROVE  StartInv'
<1>1. /\ childPc = "loop" /\ UNCHANGED <<ownerPc, childPc, loop_>>
      /\ Loop!IOStep
  BY DEF ChildLoops
<1>2. Published'
  BY <1>1 DEF StartInv, Published
<1>3. CASE Loop!LoopStart
  BY <1>1, <1>2, <1>3 DEF Loop!LoopStart, StartInv, LoopsUntilQuit, Destroying
<1>4. CASE Loop!LoopEnd
  BY <1>1, <1>2, <1>4 DEF Loop!LoopEnd, StartInv, LoopsUntilQuit, Destroying
<1>5. CASE \/ Loop!NextRound \/ Loop!PollReturn \/ Loop!HandleRead
           \/ \E c \in Channels : Loop!HandleEvent(c)
           \/ Loop!CallbackReturn \/ Loop!BeginPending \/ Loop!SwapLock \/ Loop!Swap
           \/ Loop!RunFunctor \/ Loop!FunctorReturn \/ Loop!EndPending
  <2>1. ioPc # "init" /\ ioPc' \notin {"init", "done"} /\ quit_' = quit_
    BY <1>5 DEF Loop!NextRound, Loop!PollReturn, Loop!HandleRead, Loop!HandleEvent,
                Loop!CallbackReturn, Loop!BeginPending, Loop!SwapLock, Loop!Swap,
                Loop!RunFunctor, Loop!FunctorReturn, Loop!EndPending, Loop!loopVars
  <2> QED
    BY <1>1, <1>2, <2>1 DEF StartInv, LoopsUntilQuit, Destroying
<1> QED
  BY <1>1, <1>2, <1>3, <1>4, <1>5 DEF Loop!IOStep, StartInv

LEMMA StartNext == StartInv /\ [Next]_vars => StartInv'
<1> SUFFICES ASSUME StartInv, [Next]_vars PROVE StartInv'
  OBVIOUS
<1> USE DEF StartInv, Published, LoopsUntilQuit, Destroying
<1>1. CASE StartThread
  BY <1>1 DEF StartThread, loopVars
<1>2. CASE OwnerLock
  BY <1>2 DEF OwnerLock, loopVars
<1>3. CASE CondWait
  BY <1>3 DEF CondWait, loopVars
<1>4. CASE CondReturn \/ SpuriousReturn
  BY <1>4 DEF CondReturn, SpuriousReturn, loopVars
<1>5. CASE Started
  BY <1>5 DEF Started, loopVars
<1>6. CASE Destroy
  BY <1>6 DEF Destroy, Loop!Quit
<1>7. CASE DestroyUnstarted
  BY <1>7 DEF DestroyUnstarted, loopVars
<1>8. CASE Joined
  BY <1>8 DEF Joined, loopVars
<1>9. CASE CallbackDone
  BY <1>9 DEF CallbackDone, loopVars
<1>10. CASE ChildLock
  BY <1>10 DEF ChildLock, loopVars
<1>11. CASE Publish
  BY <1>11 DEF Publish, loopVars
<1>12. CASE ThreadEnd
  BY <1>12 DEF ThreadEnd, loopVars
<1>13. CASE ChildLoops
  BY <1>13, RoundsKeep
<1>14. CASE CallStep(Owner) \/ CallStep(Child)
  <2>1. UNCHANGED <<threadVars, quit_, ioPc>>
    BY <1>14 DEF CallStep, Loop!CallStep, Loop!Lock, Loop!PushBack, Loop!Wakeup,
                 Loop!loopVars
  <2> QED
    BY <2>1, CallsKeep
<1>15. CASE HandOver
  <2>1. UNCHANGED <<threadVars, quit_, ioPc>>
    BY <1>15 DEF HandOver, Loop!QueueInLoop, Loop!RunInLoop, Loop!loopVars
  <2> QED
    BY <2>1, CallsKeep
<1>16. CASE LoopEnvironment
  <2>1. CASE Loop!PollEmpty
    BY <1>16, <2>1 DEF LoopEnvironment, Loop!PollEmpty, threadVars
  <2>2. CASE \E c \in Channels : Loop!BecomeReady(c)
    BY <1>16, <2>2 DEF LoopEnvironment, Loop!BecomeReady, Loop!loopVars, threadVars
  <2> QED
    BY <1>16, <2>1, <2>2 DEF LoopEnvironment
<1>17. CASE Finished \/ UNCHANGED vars
  BY <1>17 DEF Finished, vars, threadVars, loopVars
<1> QED
  BY <1>1, <1>2, <1>3, <1>4, <1>5, <1>6, <1>7, <1>8, <1>9, <1>10, <1>11, <1>12, <1>13,
     <1>14, <1>15, <1>16, <1>17 DEF Next, OwnerStep, ChildStep

-----------------------------------------------------------------------------
\* The address startThread() returns is that of a loop that exists, and goes on
\* existing while its owner uses it, whichever thread gets to the mutex first and
\* wherever the thread callback, the rounds of loop() and spurious returns of the
\* wait fall (EventLoopThread.cpp:29-43, 50-64).
THEOREM AddressStaysValid == Spec => []StartedLoopExists
<1>1. StartInv => StartedLoopExists
  BY DEF StartInv, Published, LoopsUntilQuit, Destroying, StartedLoopExists, LoopAlive
<1> QED
  BY <1>1, StartInit, StartNext, PTL DEF Spec
=============================================================================
