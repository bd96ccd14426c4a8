------------------------------ MODULE TaskQueue ------------------------------
(***************************************************************************)
(* What an EventLoop promises to the threads that hand it callbacks: a     *)
(* first-in first-out queue of functors, each of which runs exactly once,  *)
(* in the loop thread, for as long as the loop is open.                    *)
(*                                                                         *)
(* The module says nothing about the mutex, the eventfd, the two vectors   *)
(* or the phases of EventLoop::loop(); EventLoop.tla is shown to implement *)
(* it.                                                                     *)
(***************************************************************************)
EXTENDS Sequences, Naturals

CONSTANT Functors      \* the callbacks that may be handed over, each once

VARIABLES queue,       \* accepted and not yet started, oldest first
          ran,         \* started, in the order they started
          open         \* FALSE once the loop has returned

tqVars == <<queue, ran, open>>

Elements(s) == {s[i] : i \in 1..Len(s)}

Fresh(f) == f \notin Elements(queue) /\ f \notin Elements(ran)

Init ==
    /\ queue = <<>>
    /\ ran = <<>>
    /\ open = TRUE

\* A functor is accepted; it goes behind all that were accepted before.
Submit(f) ==
    /\ Fresh(f)
    /\ queue' = Append(queue, f)
    /\ UNCHANGED <<ran, open>>

\* The oldest accepted functor runs.
Run ==
    /\ open
    /\ queue # <<>>
    /\ ran' = Append(ran, Head(queue))
    /\ queue' = Tail(queue)
    /\ UNCHANGED open

\* The loop thread runs a functor of its own at once, without queueing it.
RunNow(f) ==
    /\ open
    /\ Fresh(f)
    /\ ran' = Append(ran, f)
    /\ UNCHANGED <<queue, open>>

\* The loop returns; what is still queued is never run.
Close ==
    /\ open
    /\ open' = FALSE
    /\ UNCHANGED <<queue, ran>>

Next ==
    \/ \E f \in Functors : Submit(f) \/ RunNow(f)
    \/ Run
    \/ Close

\* The safety part alone, and with the promise that an open loop gets on.
SafeSpec == Init /\ [][Next]_tqVars
Spec == SafeSpec /\ WF_tqVars(Run)
==============================================================================
