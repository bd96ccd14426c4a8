-------------------------- MODULE TimerQueueProofs --------------------------
(***************************************************************************)
(* What is proved of TimerQueue for any timers, periods, threads and       *)
(* bounds, whatever deleting the sentry's address does.                    *)
(*                                                                         *)
(* The properties of single timers rest on one fact about the functors:    *)
(* an addTimerInLoop() that has not run is the only one for its timer, and *)
(* nothing has been done to that timer yet (Fresh).                        *)
(***************************************************************************)
EXTENDS TimerQueue, TLAPS

\* What the sets and the functors speak of has been made by addTimer().
Members ==
    /\ activeTimers_ \cup expired \cup cancelled \subseteq created
    /\ \A i \in 1..Len(pendingFunctors_) :
          pendingFunctors_[i].op = "add" => pendingFunctors_[i].timer \in created
    /\ \A i \in 1..Len(functors) :
          functors[i].op = "add" => functors[i].timer \in created

\* A batch exists while its callbacks run, and outside the two sets.
Batch ==
    /\ ioPc # "calling" => expired = {}
    /\ expired \cap activeTimers_ = {}

SetsInv == Members /\ Batch /\ SetsMatch

\* What is known of a timer whose addTimerInLoop() has not run.
Fresh(t) == t \notin activeTimers_ \cup expired \cup cancelled /\ lastRun[t] = 0

\* Where an addTimerInLoop() waits, in the queue and in the batch.
Queued == {i \in 1..Len(pendingFunctors_) : pendingFunctors_[i].op = "add"}
ToDo == {i \in nextFunctor..Len(functors) : functors[i].op = "add"}

AddsFresh ==
    /\ \A i \in Queued : Fresh(pendingFunctors_[i].timer)
    /\ \A i \in ToDo : Fresh(functors[i].timer)

AddsOnce ==
    /\ \A i, j \in Queued :
          pendingFunctors_[i].timer = pendingFunctors_[j].timer => i = j
    /\ \A i, j \in ToDo : functors[i].timer = functors[j].timer => i = j
    /\ \A i \in Queued, j \in ToDo :
          pendingFunctors_[i].timer # functors[j].timer

\* A timer of the batch that a cancel has found is in cancelingTimers_.
CancelledInBatch == cancelled \cap expired \subseteq cancelingTimers_

\* A timer in the sets that has run before is periodic and waits for the end
\* of a whole period.
Spaced ==
    /\ \A t \in expired : lastRun[t] = batchNow
    /\ \A t \in activeTimers_ : lastRun[t] # 0 =>
          Period[t] > 0 /\ expiredTime_[t] = lastRun[t] + Period[t]
    /\ \A t \in Timers : lastRun[t] # 0 => t \in created

LifeInv == AddsFresh /\ AddsOnce /\ CancelledInBatch /\ CancelledStaysOut /\ Spaced

-----------------------------------------------------------------------------
(* The operations that several steps are made of.                          *)

Functor == [op : {"add", "cancel"}, timer : Timers]

\* The later of two times is a time and not before either.
LEMMA LaterFacts ==
    ASSUME NEW a \in Nat, NEW b \in Nat
    PROVE  Later(a, b) \in Nat /\ a <= Later(a, b) /\ b <= Later(a, b)
BY DEF Later

\* addTimerInLoop() keeps the types and the match of the two sets.
LEMMA AddTyped ==
    ASSUME TypeOK, NEW t \in Timers, NEW e \in Nat, AddTimerInLoop(t, e)
    PROVE  /\ timers_' \subseteq Nat \X Timers
           /\ activeTimers_' \subseteq Timers
           /\ alarm' \in Nat
<1>1. now \in Nat /\ MinDelay \in Nat
  BY TimerAssumption DEF TypeOK
<1> QED
  BY <1>1 DEF TypeOK, AddTimerInLoop, ResetTimerfd, Later

\* cancelInLoop() only takes away from the sets.
LEMMA CancelTyped ==
    ASSUME TypeOK, NEW t \in Timers, CancelInLoop(t)
    PROVE  /\ timers_' \subseteq timers_
           /\ activeTimers_' \subseteq activeTimers_
           /\ cancelingTimers_' \subseteq Timers
           /\ cancelled' \subseteq Timers
           /\ ended' \in {"no", "assert", "sentry", "cancel"}
BY DEF TypeOK, CancelInLoop, setVars

\* The functor whose turn it is has the type of one.
LEMMA FunctorTyped ==
    ASSUME TypeOK, ioPc = "functors", nextFunctor <= Len(functors)
    PROVE  /\ functors[nextFunctor] \in Functor
           /\ functors[nextFunctor].timer \in Timers
<1>1. functors \in Seq(Functor) /\ nextFunctor \in Nat \ {0}
  BY DEF TypeOK, Functor
<1>2. functors[nextFunctor] \in Functor
  BY <1>1
<1> QED
  BY <1>2 DEF Functor
-----------------------------------------------------------------------------
\* Every step of the loop, of a caller and of the clock keeps the types.
LEMMA TypeStep == TypeOK /\ [Next]_vars => TypeOK'
<1> SUFFICES ASSUME TypeOK, [Next]_vars PROVE TypeOK'
  OBVIOUS
<1> USE TimerAssumption
<1>1. ASSUME NEW t \in Timers, NEW e \in 1..Horizon, IoAdd(t, e) PROVE TypeOK'
  <2>1. timers_' \subseteq Nat \X Timers /\ activeTimers_' \subseteq Timers
        /\ alarm' \in Nat
    BY <1>1, AddTyped DEF IoAdd
  <2> QED
    BY <1>1, <2>1 DEF TypeOK, IoAdd, batchVars, functorVars
<1>2. ASSUME NEW t \in Timers, IoCancel(t) PROVE TypeOK'
  <2>1. CancelInLoop(t)
    BY <1>2 DEF IoCancel
  <2>2. /\ timers_' \subseteq timers_ /\ activeTimers_' \subseteq activeTimers_
        /\ cancelingTimers_' \subseteq Timers /\ cancelled' \subseteq Timers
        /\ ended' \in {"no", "assert", "sentry", "cancel"}
    BY <2>1, CancelTyped
  <2> QED
    BY <1>2, <2>2 DEF TypeOK, IoCancel, batchVars, functorVars, callVars
<1>3. ASSUME NEW o \in Others, NEW t \in Timers, NEW e \in 1..Horizon,
             Add(o, t, e)
      PROVE  TypeOK'
  <2>1. [op |-> "add", timer |-> t] \in [op : {"add", "cancel"}, timer : Timers]
    OBVIOUS
  <2>2. pendingFunctors_' \in Seq([op : {"add", "cancel"}, timer : Timers])
    BY <1>3, <2>1 DEF TypeOK, Add, Queue
  <2>3. /\ created' \subseteq Timers /\ known' \subseteq created'
        /\ held' \in [Others -> created' \cup {NoTimer}]
    BY <1>3 DEF TypeOK, Add, Queue
  <2>4. expiredTime_' \in [Timers -> Nat]
    BY <1>3 DEF TypeOK, Add
  <2> QED
    BY <1>3, <2>2, <2>3, <2>4 DEF TypeOK, Add, Queue, setVars, batchVars,
       functorVars
<1>4. ASSUME NEW o \in Others, NEW t \in Timers, Cancel(o, t) PROVE TypeOK'
  <2>1. [op |-> "cancel", timer |-> t]
            \in [op : {"add", "cancel"}, timer : Timers]
    OBVIOUS
  <2>2. pendingFunctors_' \in Seq([op : {"add", "cancel"}, timer : Timers])
    BY <1>4, <2>1 DEF TypeOK, Cancel, Queue
  <2> QED
    BY <1>4, <2>2 DEF TypeOK, Cancel, Queue, setVars, batchVars, functorVars
<1>5. ASSUME NEW o \in Others, Return(o) PROVE TypeOK'
  BY <1>5 DEF TypeOK, Return, setVars, batchVars, functorVars
<1>6. CASE Poll
  BY <1>6 DEF TypeOK, Poll, setVars, batchVars, functorVars, callVars
<1>7. CASE HandleRead
  <2>1. alarm' \in Nat /\ ended' \in {"no", "assert", "sentry", "cancel"}
    BY <1>7 DEF TypeOK, HandleRead
  <2>2. CASE ioPc' = "calling"
    <3>1. /\ expired' = {p[2] : p \in Expired} /\ timers_' = timers_ \ Expired
          /\ activeTimers_' = activeTimers_ \ expired' /\ toRun' = expired'
          /\ batchNow' = now /\ callingExpiredTimers_' = TRUE
          /\ cancelingTimers_' = {}
          /\ lastRun' = [t \in Timers |->
                            IF t \in expired' THEN now ELSE lastRun[t]]
      BY <1>7, <2>2 DEF HandleRead
    <3>2. expired' \subseteq Timers
      BY <3>1 DEF TypeOK, Expired
    <3> QED
      BY <1>7, <2>1, <2>2, <3>1, <3>2 DEF TypeOK, HandleRead, functorVars,
         callVars
  <2>3. CASE ioPc' # "calling"
    BY <1>7, <2>1, <2>3 DEF TypeOK, HandleRead, setVars, batchVars, functorVars,
       callVars
  <2> QED
    BY <2>2, <2>3
<1>8. ASSUME NEW t \in Timers, Run(t) PROVE TypeOK'
  BY <1>8 DEF TypeOK, Run, setVars, functorVars, callVars
<1>9. CASE Reset
  <2>1. Repeating \subseteq Timers
    BY DEF TypeOK, Repeating
  <2>2. \A t \in Timers : Restarted(t) \in Nat
    BY DEF TypeOK, Restarted
  <2>3. timers_' \subseteq Nat \X Timers
    BY <1>9, <2>1, <2>2 DEF TypeOK, Reset
  <2>4. alarm' \in Nat /\ missed' \in BOOLEAN
    <3>1. CASE timers_' = {}
      BY <1>9, <3>1 DEF TypeOK, Reset
    <3>2. CASE timers_' # {}
      <4>1. PICK first \in timers_' :
               /\ alarm' = IF first[1] >= now THEN ResetTimerfd(first[1])
                           ELSE alarm
               /\ missed' = (missed \/ first[1] < now)
        BY <1>9, <3>2 DEF Reset
      <4>2. first[1] \in Nat /\ now \in Nat
        BY <2>3 DEF TypeOK
      <4>3. ResetTimerfd(first[1]) \in Nat
        <5>1. now + MinDelay \in Nat
          BY <4>2
        <5> QED
          BY <4>2, <5>1, LaterFacts DEF ResetTimerfd
      <4>4. alarm' \in Nat
        BY <4>1, <4>3 DEF TypeOK
      <4>5. missed' \in BOOLEAN
        BY <4>1 DEF TypeOK
      <4> QED
        BY <4>4, <4>5
    <3> QED
      BY <3>1, <3>2
  <2>5. expiredTime_' \in [Timers -> Nat] /\ activeTimers_' \subseteq Timers
    BY <1>9, <2>1, <2>2 DEF TypeOK, Reset
  <2> QED
    BY <1>9, <2>3, <2>4, <2>5 DEF TypeOK, Reset, functorVars, callVars
<1>10. CASE DoPendingFunctors
  BY <1>10 DEF TypeOK, DoPendingFunctors, setVars, batchVars, callVars
<1>11. CASE RunFunctor
  <2> DEFINE t == functors[nextFunctor].timer
  <2>1. t \in Timers
    BY <1>11, FunctorTyped DEF RunFunctor
  <2>2. CASE functors[nextFunctor].op = "add"
    <3>1. /\ AddTimerInLoop(t, expiredTime_[t])
          /\ UNCHANGED <<cancelingTimers_, cancelled, ended>>
      BY <1>11, <2>2 DEF RunFunctor
    <3>2. expiredTime_[t] \in Nat
      BY <2>1 DEF TypeOK
    <3>3. timers_' \subseteq Nat \X Timers /\ activeTimers_' \subseteq Timers
          /\ alarm' \in Nat
      BY <2>1, <3>1, <3>2, AddTyped
    <3>4. nextFunctor' \in Nat \ {0}
      BY <1>11 DEF TypeOK, RunFunctor
    <3>5. UNCHANGED <<now, expiredTime_, batchVars, ioPc, pendingFunctors_,
                      functors, callVars, lastRun, missed>>
      BY <1>11 DEF RunFunctor
    <3> QED
      BY <3>1, <3>3, <3>4, <3>5 DEF TypeOK, batchVars, callVars
  <2>3. CASE functors[nextFunctor].op # "add"
    <3>1. CancelInLoop(t) /\ UNCHANGED alarm
      BY <1>11, <2>3 DEF RunFunctor
    <3>2. /\ timers_' \subseteq timers_ /\ activeTimers_' \subseteq activeTimers_
          /\ cancelingTimers_' \subseteq Timers /\ cancelled' \subseteq Timers
          /\ ended' \in {"no", "assert", "sentry", "cancel"}
      BY <2>1, <3>1, CancelTyped
    <3>3. nextFunctor' \in Nat \ {0}
      BY <1>11 DEF TypeOK, RunFunctor
    <3>4. UNCHANGED <<now, expiredTime_, batchVars, ioPc, pendingFunctors_,
                      functors, callVars, lastRun, missed>>
      BY <1>11 DEF RunFunctor
    <3> QED
      BY <3>1, <3>2, <3>3, <3>4 DEF TypeOK, batchVars, callVars
  <2> QED
    BY <2>2, <2>3
<1>12. CASE FunctorsDone
  <2>1. <<>> \in Seq([op : {"add", "cancel"}, timer : Timers])
    OBVIOUS
  <2> QED
    BY <1>12, <2>1 DEF TypeOK, FunctorsDone, setVars, batchVars, callVars
<1>13. CASE Tick
  BY <1>13 DEF TypeOK, Tick, setVars, batchVars, functorVars, callVars
<1>14. CASE UNCHANGED vars
  BY <1>14 DEF TypeOK, vars, setVars, batchVars, functorVars, callVars
<1> QED
  BY <1>1, <1>2, <1>3, <1>4, <1>5, <1>6, <1>7, <1>8, <1>9, <1>10, <1>11, <1>12,
     <1>13, <1>14 DEF Next, LoopStep, CallStep, Clock

\* Every variable of the timer queue keeps its type.
THEOREM TimerTypeCorrect == Spec => []TypeOK
<1>1. Init => TypeOK
  <2> SUFFICES ASSUME Init PROVE TypeOK
    OBVIOUS
  <2>1. <<>> \in Seq([op : {"add", "cancel"}, timer : Timers])
    OBVIOUS
  <2>2. pendingFunctors_ \in Seq([op : {"add", "cancel"}, timer : Timers])
        /\ functors \in Seq([op : {"add", "cancel"}, timer : Timers])
    BY <2>1 DEF Init
  <2>3. now \in 1..Horizon
    BY TimerAssumption DEF Init
  <2>4. /\ expiredTime_ \in [Timers -> Nat] /\ lastRun \in [Timers -> Nat]
        /\ held \in [Others -> created \cup {NoTimer}]
    BY DEF Init
  <2>5. alarm \in Nat /\ batchNow \in Nat /\ nextFunctor \in Nat \ {0}
    BY DEF Init
  <2>6. /\ callingExpiredTimers_ \in BOOLEAN /\ missed \in BOOLEAN
        /\ ioPc \in {"start", "poll", "read", "calling", "handled", "functors"}
        /\ ended \in {"no", "assert", "sentry", "cancel"}
    BY DEF Init
  <2>7. /\ timers_ \subseteq Nat \X Timers /\ activeTimers_ \subseteq Timers
        /\ cancelingTimers_ \subseteq Timers /\ expired \subseteq Timers
        /\ toRun \subseteq expired /\ created \subseteq Timers
        /\ known \subseteq created /\ cancelled \subseteq Timers
    BY DEF Init
  <2> QED
    BY <2>2, <2>3, <2>4, <2>5, <2>6, <2>7 DEF TypeOK
<1> QED
  BY <1>1, TypeStep, PTL DEF Spec

-----------------------------------------------------------------------------
\* The two sets keep together; what is in them and in the functors has been
\* made, and the batch is in neither.
LEMMA SetsStep == TypeOK /\ SetsInv /\ [Next]_vars => SetsInv'
<1> SUFFICES ASSUME TypeOK, SetsInv, [Next]_vars PROVE SetsInv'
  OBVIOUS
<1> USE DEF SetsInv
<1>1. ASSUME NEW t \in Timers, NEW e \in 1..Horizon, IoAdd(t, e) PROVE SetsInv'
  <2>1. t \notin activeTimers_ \cup expired
    BY <1>1 DEF IoAdd, Members
  <2>2. Members'
    BY <1>1 DEF IoAdd, AddTimerInLoop, Members, batchVars, functorVars
  <2>3. Batch'
    BY <1>1, <2>1 DEF IoAdd, AddTimerInLoop, Batch, batchVars
  <2>4. SetsMatch'
    <3>1. expiredTime_'[t] = e
          /\ \A u \in activeTimers_ : expiredTime_'[u] = expiredTime_[u]
      BY <1>1, <2>1 DEF IoAdd, TypeOK
    <3>2. /\ timers_' = timers_ \cup {<<e, t>>}
          /\ activeTimers_' = activeTimers_ \cup {t}
      BY <1>1 DEF IoAdd, AddTimerInLoop
    <3> QED
      BY <3>1, <3>2 DEF SetsMatch
  <2> QED
    BY <2>2, <2>3, <2>4
<1>2. ASSUME NEW t \in Timers, CancelInLoop(t),
             UNCHANGED <<expiredTime_, expired, ioPc, created,
                         pendingFunctors_, functors>>
      PROVE  SetsInv'
  <2>1. Members'
    BY <1>2 DEF CancelInLoop, Members, setVars
  <2>2. Batch'
    BY <1>2 DEF CancelInLoop, Batch, setVars
  <2>3. SetsMatch'
    <3>1. CASE t \in activeTimers_ /\ Alive(t)
      <4>1. /\ timers_' = timers_ \ {<<expiredTime_[t], t>>}
            /\ activeTimers_' = activeTimers_ \ {t}
        BY <1>2, <3>1 DEF CancelInLoop
      <4> QED
        BY <1>2, <4>1 DEF SetsMatch
    <3>2. CASE ~(t \in activeTimers_ /\ Alive(t))
      <4>1. t \in activeTimers_ => Alive(t)
        BY DEF Alive
      <4>2. UNCHANGED <<timers_, activeTimers_>>
        BY <1>2, <3>2, <4>1 DEF CancelInLoop, setVars
      <4> QED
        BY <1>2, <4>2 DEF SetsMatch
    <3> QED
      BY <3>1, <3>2
  <2> QED
    BY <2>1, <2>2, <2>3
<1>3. ASSUME NEW o \in Others, NEW t \in Timers, NEW e \in 1..Horizon,
             Add(o, t, e)
      PROVE  SetsInv'
  <2>1. t \notin activeTimers_
    BY <1>3 DEF Add, Members
  <2>2. Members'
    <3>1. /\ Len(pendingFunctors_') = Len(pendingFunctors_) + 1
          /\ pendingFunctors_'[Len(pendingFunctors_) + 1].timer = t
          /\ \A i \in 1..Len(pendingFunctors_) :
                pendingFunctors_'[i] = pendingFunctors_[i]
      BY <1>3 DEF Add, Queue, TypeOK
    <3>2. /\ created' = created \cup {t}
          /\ UNCHANGED <<activeTimers_, expired, cancelled, functors>>
      BY <1>3 DEF Add, Queue, setVars, batchVars, functorVars
    <3>3. \A i \in 1..Len(pendingFunctors_') :
             pendingFunctors_'[i].op = "add"
                => pendingFunctors_'[i].timer \in created'
      <4>1. Len(pendingFunctors_) \in Nat
        BY DEF TypeOK
      <4>2. \A i \in 1..Len(pendingFunctors_') :
               i \in 1..Len(pendingFunctors_) \/ i = Len(pendingFunctors_) + 1
        BY <3>1, <4>1
      <4>3. \A i \in 1..Len(pendingFunctors_) :
               pendingFunctors_[i].op = "add"
                  => pendingFunctors_[i].timer \in created
        BY DEF Members
      <4> QED
        BY <3>1, <3>2, <4>2, <4>3
    <3> QED
      BY <3>2, <3>3 DEF Members
  <2>3. Batch'
    BY <1>3 DEF Add, Queue, Batch, setVars, batchVars
  <2>4. \A u \in activeTimers_ : expiredTime_'[u] = expiredTime_[u]
    BY <1>3, <2>1 DEF Add, TypeOK
  <2>5. SetsMatch'
    BY <1>3, <2>4 DEF Add, Queue, SetsMatch, setVars
  <2> QED
    BY <2>2, <2>3, <2>5
<1>4. ASSUME NEW o \in Others, NEW t \in Timers, Cancel(o, t) PROVE SetsInv'
  <2>1. Members'
    BY <1>4 DEF Cancel, Queue, Members, TypeOK, setVars, batchVars, functorVars
  <2> QED
    BY <1>4, <2>1 DEF Cancel, Queue, Batch, SetsMatch, setVars, batchVars
<1>5. CASE HandleRead
  <2>1. CASE ioPc' = "calling"
    <3>1. /\ expired' = {p[2] : p \in Expired} /\ timers_' = timers_ \ Expired
          /\ activeTimers_' = activeTimers_ \ expired'
      BY <1>5, <2>1 DEF HandleRead
    <3>2. expired' = {t \in activeTimers_ : expiredTime_[t] <= now}
      <4>1. \A p \in Expired : p[2] \in activeTimers_
                                /\ p = <<expiredTime_[p[2]], p[2]>>
                                /\ expiredTime_[p[2]] <= now
        BY DEF Expired, SetsMatch
      <4>2. \A t \in activeTimers_ :
               expiredTime_[t] <= now => <<expiredTime_[t], t>> \in Expired
        BY DEF Expired, SetsMatch
      <4> QED
        BY <3>1, <4>1, <4>2
    <3>3. SetsMatch'
      BY <1>5, <3>1, <3>2 DEF HandleRead, Expired, SetsMatch
    <3>4. Members' /\ Batch'
      BY <1>5, <2>1, <3>1, <3>2 DEF HandleRead, Members, Batch, functorVars,
         callVars
    <3> QED
      BY <3>3, <3>4
  <2>2. CASE ioPc' # "calling"
    BY <1>5, <2>2 DEF HandleRead, Members, Batch, SetsMatch, setVars, batchVars,
       functorVars, callVars
  <2> QED
    BY <2>1, <2>2
<1>6. CASE Reset
  <2>1. Repeating \subseteq expired /\ Repeating \cap activeTimers_ = {}
    BY DEF Repeating, Batch
  <2>2. Members' /\ Batch'
    BY <1>6, <2>1 DEF Reset, Members, Batch, functorVars, callVars
  <2>3. SetsMatch'
    <3>1. /\ \A t \in Repeating : expiredTime_'[t] = Restarted(t)
          /\ \A t \in activeTimers_ : expiredTime_'[t] = expiredTime_[t]
      BY <1>6, <2>1 DEF Reset, TypeOK
    <3>2. /\ timers_' = timers_ \cup {<<Restarted(t), t>> : t \in Repeating}
          /\ activeTimers_' = activeTimers_ \cup Repeating
      BY <1>6 DEF Reset
    <3> QED
      BY <3>1, <3>2 DEF SetsMatch
  <2> QED
    BY <2>2, <2>3
<1>7. CASE DoPendingFunctors
  BY <1>7 DEF DoPendingFunctors, Members, Batch, SetsMatch, setVars, batchVars,
     callVars
<1>8. CASE RunFunctor
  <2> DEFINE t == functors[nextFunctor].timer
  <2>1. t \in Timers
    BY <1>8, FunctorTyped DEF RunFunctor
  <2>2. UNCHANGED <<expiredTime_, expired, ioPc, created, pendingFunctors_,
                    functors>>
    BY <1>8 DEF RunFunctor, batchVars, callVars
  <2>3. CASE functors[nextFunctor].op = "add"
    <3>1. /\ timers_' = timers_ \cup {<<expiredTime_[t], t>>}
          /\ activeTimers_' = activeTimers_ \cup {t}
          /\ cancelled' = cancelled
      BY <1>8, <2>3 DEF RunFunctor, AddTimerInLoop
    <3>2. t \in created
      <4>1. nextFunctor \in 1..Len(functors)
        BY <1>8 DEF RunFunctor, TypeOK
      <4> QED
        BY <2>3, <4>1 DEF Members
    <3>3. expired = {}
      BY <1>8 DEF RunFunctor, Batch
    <3>4. SetsMatch'
      BY <2>2, <3>1 DEF SetsMatch
    <3> QED
      BY <2>2, <3>1, <3>2, <3>3, <3>4 DEF Members, Batch
  <2>4. CASE functors[nextFunctor].op # "add"
    BY <1>2, <1>8, <2>1, <2>2, <2>4 DEF RunFunctor
  <2> QED
    BY <2>3, <2>4
<1>9. CASE FunctorsDone
  BY <1>9 DEF FunctorsDone, Members, Batch, SetsMatch, setVars, batchVars,
     callVars
<1>10. ASSUME NEW t \in Timers, IoCancel(t) PROVE SetsInv'
  BY <1>2, <1>10 DEF IoCancel, batchVars, functorVars, callVars
<1>11. ASSUME UNCHANGED <<expiredTime_, setVars, expired, created, cancelled,
                          pendingFunctors_, functors>>,
              ioPc' # "calling" => ioPc # "calling"
       PROVE  SetsInv'
  BY <1>11 DEF Members, Batch, SetsMatch, setVars
<1>12. ASSUME NEW o \in Others, Return(o) PROVE SetsInv'
  BY <1>11, <1>12 DEF Return, batchVars, functorVars
<1>13. CASE Poll
  BY <1>11, <1>13 DEF Poll, batchVars, functorVars, callVars
<1>14. ASSUME NEW t \in Timers, Run(t) PROVE SetsInv'
  BY <1>11, <1>14 DEF Run, functorVars, callVars
<1>15. CASE Tick
  BY <1>11, <1>15 DEF Tick, batchVars, functorVars, callVars
<1>16. CASE UNCHANGED vars
  BY <1>11, <1>16 DEF vars, batchVars, functorVars, callVars
<1> QED
  BY <1>1, <1>3, <1>4, <1>5, <1>6, <1>7, <1>8, <1>9, <1>10, <1>12, <1>13, <1>14,
     <1>15, <1>16 DEF Next, LoopStep, CallStep, Clock

\* timers_ and activeTimers_ hold the same timers at the times they carry.
THEOREM SetsStayEqual == Spec => []SetsMatch
<1>1. Init => SetsInv
  BY DEF Init, SetsInv, Members, Batch, SetsMatch
<1>2. SetsInv => SetsMatch
  BY DEF SetsInv
<1> QED
  BY <1>1, <1>2, TimerTypeCorrect, SetsStep, PTL DEF Spec

-----------------------------------------------------------------------------
\* What ArmedForEarliest says of one time in timers_.
Armed(e) == alarm # 0 /\ alarm <= Later(e, now + MinDelay)

\* addTimerInLoop() leaves the timerfd armed for every timer, the new one too.
LEMMA AddArmed ==
    ASSUME TypeOK, NEW t \in Timers, NEW e \in Nat, AddTimerInLoop(t, e),
           UNCHANGED now, \A p \in timers_ : Armed(p[1])
    PROVE  \A p \in timers_' : Armed(p[1])'
<1>1. now \in Nat /\ MinDelay \in Nat \ {0} /\ alarm \in Nat
  BY TimerAssumption DEF TypeOK
<1>2. \A p \in timers_ : p[1] \in Nat
  BY DEF TypeOK
<1>3. timers_' = timers_ \cup {<<e, t>>}
  BY DEF AddTimerInLoop
<1>4. CASE IsEarliest(e)
  <2>1. alarm' = Later(e, now + MinDelay)
    BY <1>4 DEF AddTimerInLoop, ResetTimerfd
  <2>2. \A p \in timers_ : e < p[1]
    BY <1>4 DEF IsEarliest
  <2> QED
    BY <1>1, <1>2, <1>3, <2>1, <2>2 DEF Armed, Later
<1>5. CASE ~IsEarliest(e)
  <2>1. alarm' = alarm
    BY <1>5 DEF AddTimerInLoop
  <2>2. PICK q \in timers_ : q[1] <= e
    BY <1>2, <1>5 DEF IsEarliest
  <2>3. Armed(q[1]) /\ q[1] \in Nat
    BY <1>2
  <2>4. Armed(e)
    BY <1>1, <2>2, <2>3 DEF Armed, Later
  <2> QED
    BY <1>3, <2>1, <2>4 DEF Armed
<1> QED
  BY <1>4, <1>5

\* Nothing but reset() of a late first timer leaves the timerfd unarmed.
LEMMA ArmedStep ==
    TypeOK /\ TypeOK' /\ ArmedForEarliest /\ [Next]_vars => ArmedForEarliest'
<1> SUFFICES ASSUME TypeOK, TypeOK', ArmedForEarliest, [Next]_vars,
                    (ended = "no")', (~missed)', (ioPc # "calling")'
             PROVE  \A p \in timers_' : Armed(p[1])'
  BY DEF ArmedForEarliest, Armed
<1> DEFINE Before == \A p \in timers_ : Armed(p[1])
<1>1. ended = "no" /\ ~missed /\ ioPc # "calling" => Before
  BY DEF ArmedForEarliest, Armed
<1>2. ASSUME Before, timers_' \subseteq timers_, UNCHANGED <<now, alarm>>
      PROVE  \A p \in timers_' : Armed(p[1])'
  BY <1>2 DEF Armed
<1>3. ASSUME NEW t \in Timers, NEW e \in 1..Horizon, IoAdd(t, e)
      PROVE  \A p \in timers_' : Armed(p[1])'
  <2>1. UNCHANGED <<now, missed, ended, ioPc>> /\ AddTimerInLoop(t, e)
    BY <1>3 DEF IoAdd
  <2>2. Before
    BY <1>1, <2>1
  <2> QED
    BY <2>1, <2>2, AddArmed
<1>4. ASSUME NEW t \in Timers, IoCancel(t)
      PROVE  \A p \in timers_' : Armed(p[1])'
  <2>1. UNCHANGED <<now, alarm, missed, ioPc>> /\ CancelInLoop(t)
    BY <1>4 DEF IoCancel
  <2>2. ended = "no" /\ timers_' \subseteq timers_
    BY <2>1 DEF CancelInLoop, setVars
  <2> QED
    BY <1>1, <1>2, <2>1, <2>2
<1>5. ASSUME NEW o \in Others, NEW t \in Timers,
             Cancel(o, t) \/ \E e \in 1..Horizon : Add(o, t, e)
      PROVE  \A p \in timers_' : Armed(p[1])'
  BY <1>1, <1>2, <1>5 DEF Add, Cancel, Queue, setVars
<1>6. ASSUME NEW o \in Others, Return(o)
      PROVE  \A p \in timers_' : Armed(p[1])'
  BY <1>1, <1>2, <1>6 DEF Return, setVars
<1>7. CASE Poll
  BY <1>1, <1>2, <1>7 DEF Poll, setVars
<1>8. CASE HandleRead
  BY <1>8 DEF HandleRead
<1>9. ASSUME NEW t \in Timers, Run(t)
      PROVE  \A p \in timers_' : Armed(p[1])'
  BY <1>9 DEF Run
<1>10. CASE Reset
  <2>1. CASE timers_' = {}
    BY <2>1
  <2>2. CASE timers_' # {}
    <3>1. PICK first \in timers_' :
             /\ \A p \in timers_' : first[1] <= p[1]
             /\ alarm' = IF first[1] >= now THEN ResetTimerfd(first[1]) ELSE alarm
             /\ missed' = (missed \/ first[1] < now)
      BY <1>10, <2>2 DEF Reset
    <3>2. now \in Nat /\ MinDelay \in Nat \ {0} /\ now' = now
      BY <1>10, TimerAssumption DEF TypeOK, Reset
    <3>3. \A p \in timers_' : p[1] \in Nat
      BY DEF TypeOK
    <3>4. alarm' = Later(first[1], now + MinDelay)
      <4>1. ~(first[1] < now)
        BY <3>1
      <4>2. first[1] >= now
        BY <3>2, <3>3, <4>1
      <4> QED
        BY <3>1, <4>2 DEF ResetTimerfd
    <3> QED
      BY <3>1, <3>2, <3>3, <3>4 DEF Armed, Later
  <2> QED
    BY <2>1, <2>2
<1>11. CASE DoPendingFunctors
  BY <1>1, <1>2, <1>11 DEF DoPendingFunctors, setVars
<1>12. CASE RunFunctor
  <2> DEFINE t == functors[nextFunctor].timer
  <2>1. t \in Timers
    BY <1>12, FunctorTyped DEF RunFunctor
  <2>2. UNCHANGED <<now, ioPc, missed>> /\ ioPc = "functors"
    BY <1>12 DEF RunFunctor
  <2>3. CASE functors[nextFunctor].op = "add"
    <3>1. AddTimerInLoop(t, expiredTime_[t]) /\ ended = "no"
      BY <1>12, <2>3 DEF RunFunctor
    <3>2. expiredTime_[t] \in Nat
      BY <2>1 DEF TypeOK
    <3> QED
      BY <1>1, <2>1, <2>2, <3>1, <3>2, AddArmed
  <2>4. CASE functors[nextFunctor].op # "add"
    <3>1. CancelInLoop(t) /\ alarm' = alarm
      BY <1>12, <2>4 DEF RunFunctor
    <3>2. ended = "no" /\ timers_' \subseteq timers_
      BY <3>1 DEF CancelInLoop, setVars
    <3> QED
      BY <1>1, <1>2, <2>2, <3>1, <3>2
  <2> QED
    BY <2>3, <2>4
<1>13. CASE FunctorsDone
  BY <1>1, <1>2, <1>13 DEF FunctorsDone, setVars
<1>14. CASE Tick
  <2>1. UNCHANGED <<alarm, timers_, missed, ended, ioPc>> /\ now' = now + 1
    BY <1>14 DEF Tick, setVars
  <2>2. now \in Nat /\ MinDelay \in Nat /\ alarm \in Nat
        /\ \A p \in timers_ : p[1] \in Nat
    BY TimerAssumption DEF TypeOK
  <2> QED
    BY <1>1, <2>1, <2>2 DEF Armed, Later
<1>15. CASE UNCHANGED vars
  BY <1>1, <1>2, <1>15 DEF vars, setVars
<1> QED
  BY <1>3, <1>4, <1>5, <1>6, <1>7, <1>8, <1>9, <1>10, <1>11, <1>12, <1>13,
     <1>14, <1>15 DEF Next, LoopStep, CallStep, Clock

\* The timerfd is armed for the first timer whatever is added, cancelled and
\* run, until reset() leaves it alone.
THEOREM StaysArmed == Spec => []ArmedForEarliest
<1>1. Init => ArmedForEarliest
  BY DEF Init, ArmedForEarliest
<1> QED
  BY <1>1, TimerTypeCorrect, ArmedStep, PTL DEF Spec

-----------------------------------------------------------------------------
(* Single timers.                                                          *)

\* A functor that waits speaks of a timer that has been made.
LEMMA WaitingAreCreated ==
    ASSUME TypeOK, SetsInv
    PROVE  /\ \A i \in Queued : pendingFunctors_[i].timer \in created
           /\ \A i \in ToDo : functors[i].timer \in created
<1>1. nextFunctor \in Nat \ {0} /\ Len(functors) \in Nat
  BY DEF TypeOK
<1>2. ToDo \subseteq {i \in 1..Len(functors) : functors[i].op = "add"}
  BY <1>1 DEF ToDo
<1> QED
  BY <1>2 DEF SetsInv, Members, Queued

\* cancelInLoop() touches no timer that waits to be added.
LEMMA CancelKeepsLife ==
    ASSUME TypeOK, SetsInv, LifeInv, NEW t \in Timers, CancelInLoop(t),
           UNCHANGED <<expiredTime_, expired, batchNow, created, lastRun,
                       pendingFunctors_, functors>>,
           ToDo' \subseteq ToDo
    PROVE  LifeInv'
<1>1. /\ activeTimers_' \subseteq activeTimers_
      /\ cancelled' \subseteq cancelled \cup {t}
      /\ cancelled' # cancelled => t \in activeTimers_ \cup expired
  BY DEF CancelInLoop, setVars
<1>2. \A u : Fresh(u) => Fresh(u)'
  BY <1>1 DEF Fresh
<1>3. Queued' = Queued
  BY DEF Queued
<1>4. AddsFresh'
  BY <1>2, <1>3 DEF LifeInv, AddsFresh
<1>5. AddsOnce'
  BY <1>3 DEF LifeInv, AddsOnce
<1>6. CancelledInBatch' /\ CancelledStaysOut'
  BY DEF LifeInv, CancelledInBatch, CancelledStaysOut, CancelInLoop, setVars,
     SetsInv, Batch
<1>7. Spaced'
  BY <1>1 DEF LifeInv, Spaced
<1> QED
  BY <1>4, <1>5, <1>6, <1>7 DEF LifeInv

\* Every step keeps what is known of single timers.
LEMMA LifeStep ==
    TypeOK /\ SetsInv /\ LifeInv /\ [Next]_vars => LifeInv'
<1> SUFFICES ASSUME TypeOK, SetsInv, LifeInv, [Next]_vars PROVE LifeInv'
  OBVIOUS
<1> USE DEF LifeInv
<1>1. ASSUME NEW t \in Timers, NEW e \in 1..Horizon, IoAdd(t, e) PROVE LifeInv'
  <2>1. /\ t \notin created /\ activeTimers_' = activeTimers_ \cup {t}
        /\ UNCHANGED <<expired, cancelled, lastRun, batchNow, cancelingTimers_,
                       pendingFunctors_, functors, nextFunctor>>
        /\ created' = created \cup {t}
    BY <1>1 DEF IoAdd, AddTimerInLoop, batchVars, functorVars
  <2>2. Queued' = Queued /\ ToDo' = ToDo
    BY <2>1 DEF Queued, ToDo
  <2>3. AddsFresh'
    BY <2>1, <2>2, WaitingAreCreated DEF AddsFresh, Fresh
  <2>4. AddsOnce'
    BY <2>1, <2>2 DEF AddsOnce
  <2>5. CancelledInBatch' /\ CancelledStaysOut'
    BY <2>1 DEF CancelledInBatch, CancelledStaysOut, SetsInv, Members
  <2>6. \A u \in activeTimers_ : expiredTime_'[u] = expiredTime_[u]
    BY <1>1, <2>1 DEF IoAdd, TypeOK, SetsInv, Members
  <2>7. Spaced'
    BY <2>1, <2>6 DEF Spaced
  <2> QED
    BY <2>3, <2>4, <2>5, <2>7
<1>2. ASSUME NEW t \in Timers, IoCancel(t) PROVE LifeInv'
  <2>1. CancelInLoop(t) /\ UNCHANGED <<expiredTime_, expired, batchNow, created,
                                       lastRun, pendingFunctors_, functors,
                                       nextFunctor>>
    BY <1>2 DEF IoCancel, batchVars, functorVars, callVars
  <2>2. ToDo' = ToDo
    BY <2>1 DEF ToDo
  <2> QED
    BY <2>1, <2>2, CancelKeepsLife
<1>3. ASSUME NEW o \in Others, NEW t \in Timers, NEW e \in 1..Horizon,
             Add(o, t, e)
      PROVE  LifeInv'
  <2> DEFINE n == Len(pendingFunctors_) + 1
  <2>1. /\ t \notin created /\ created' = created \cup {t}
        /\ UNCHANGED <<activeTimers_, expired, cancelled, lastRun, batchNow,
                       cancelingTimers_, functors, nextFunctor>>
    BY <1>3 DEF Add, Queue, setVars, batchVars, functorVars
  <2>2. /\ Len(pendingFunctors_) \in Nat /\ Len(pendingFunctors_') = n
        /\ pendingFunctors_'[n] = [op |-> "add", timer |-> t]
        /\ \A i \in 1..Len(pendingFunctors_) :
              pendingFunctors_'[i] = pendingFunctors_[i]
    BY <1>3 DEF Add, Queue, TypeOK
  <2>3. Queued' = Queued \cup {n} /\ n \notin Queued
    BY <2>2 DEF Queued
  <2>4. ToDo' = ToDo
    BY <2>1 DEF ToDo
  <2>5. /\ pendingFunctors_'[n].timer = t
        /\ \A i \in Queued : pendingFunctors_'[i] = pendingFunctors_[i]
    BY <2>2 DEF Queued
  <2>6. Fresh(t)
    BY <2>1 DEF Fresh, SetsInv, Members, Spaced
  <2>7. \A u : Fresh(u) => Fresh(u)'
    BY <2>1 DEF Fresh
  <2>8. AddsFresh'
    BY <2>1, <2>3, <2>4, <2>5, <2>6, <2>7 DEF AddsFresh
  <2>9. AddsOnce'
    BY <2>1, <2>3, <2>4, <2>5, WaitingAreCreated DEF AddsOnce
  <2>10. CancelledInBatch' /\ CancelledStaysOut'
    BY <2>1 DEF CancelledInBatch, CancelledStaysOut
  <2>11. \A u \in activeTimers_ : expiredTime_'[u] = expiredTime_[u]
    BY <1>3, <2>1 DEF Add, TypeOK, SetsInv, Members
  <2>12. Spaced'
    BY <2>1, <2>11 DEF Spaced
  <2> QED
    BY <2>8, <2>9, <2>10, <2>12
<1>4. ASSUME UNCHANGED <<activeTimers_, expired, cancelled, lastRun, batchNow,
                         cancelingTimers_, expiredTime_, created>>,
             AddsFresh', AddsOnce'
      PROVE  LifeInv'
  BY <1>4 DEF CancelledInBatch, CancelledStaysOut, Spaced
<1>5. ASSUME NEW o \in Others, NEW t \in Timers, Cancel(o, t) PROVE LifeInv'
  <2> DEFINE n == Len(pendingFunctors_) + 1
  <2>1. /\ Len(pendingFunctors_) \in Nat /\ Len(pendingFunctors_') = n
        /\ pendingFunctors_'[n] = [op |-> "cancel", timer |-> t]
        /\ \A i \in 1..Len(pendingFunctors_) :
              pendingFunctors_'[i] = pendingFunctors_[i]
    BY <1>5 DEF Cancel, Queue, TypeOK
  <2>2. UNCHANGED <<activeTimers_, expired, cancelled, lastRun, batchNow,
                    cancelingTimers_, expiredTime_, created, functors,
                    nextFunctor>>
    BY <1>5 DEF Cancel, Queue, setVars, batchVars, functorVars
  <2>3. /\ Queued' = Queued /\ ToDo' = ToDo
        /\ \A i \in Queued : pendingFunctors_'[i] = pendingFunctors_[i]
    BY <2>1, <2>2 DEF Queued, ToDo
  <2>4. AddsFresh'
    BY <2>2, <2>3 DEF AddsFresh, Fresh
  <2>5. AddsOnce'
    BY <2>2, <2>3 DEF AddsOnce
  <2> QED
    BY <1>4, <2>2, <2>4, <2>5
<1>6. CASE HandleRead
  <2>1. CASE ioPc' = "calling"
    <3>1. /\ expired' = {p[2] : p \in Expired} /\ batchNow' = now
          /\ activeTimers_' = activeTimers_ \ expired'
          /\ lastRun' = [t \in Timers |->
                            IF t \in expired' THEN now ELSE lastRun[t]]
          /\ UNCHANGED <<cancelled, expiredTime_, created, pendingFunctors_,
                         functors, nextFunctor>>
      BY <1>6, <2>1 DEF HandleRead, functorVars, callVars
    <3>2. expired' \subseteq activeTimers_
      BY <3>1 DEF Expired, SetsInv, SetsMatch
    <3>3. Queued' = Queued /\ ToDo' = ToDo
      BY <3>1 DEF Queued, ToDo
    <3>4. \A u \in Timers : Fresh(u) => Fresh(u)'
      BY <3>1, <3>2 DEF Fresh
    <3>5. AddsFresh'
      <4>1. created \subseteq Timers
        BY DEF TypeOK
      <4> QED
        BY <3>1, <3>3, <3>4, <4>1, WaitingAreCreated DEF AddsFresh
    <3>6. AddsOnce'
      BY <3>1, <3>3 DEF AddsOnce
    <3>7. CancelledInBatch' /\ CancelledStaysOut'
      BY <3>1, <3>2 DEF CancelledInBatch, CancelledStaysOut
    <3>8. Spaced'
      <4>1. expired' \subseteq Timers /\ activeTimers_ \subseteq Timers
            /\ expired' \subseteq created
        BY <3>2 DEF TypeOK, SetsInv, Members
      <4>2. /\ \A t \in expired' : lastRun'[t] = now
            /\ \A t \in Timers \ expired' : lastRun'[t] = lastRun[t]
        BY <3>1, <4>1
      <4> QED
        BY <3>1, <4>1, <4>2 DEF Spaced
    <3> QED
      BY <3>5, <3>6, <3>7, <3>8
  <2>2. CASE ioPc' # "calling"
    <3>1. UNCHANGED <<activeTimers_, expired, cancelled, lastRun, batchNow,
                      cancelingTimers_, expiredTime_, created,
                      pendingFunctors_, functors, nextFunctor>>
      BY <1>6, <2>2 DEF HandleRead, setVars, batchVars, functorVars, callVars
    <3> QED
      BY <1>4, <3>1 DEF AddsFresh, AddsOnce, Fresh, Queued, ToDo
  <2> QED
    BY <2>1, <2>2
<1>7. CASE Reset
  <2>1. /\ activeTimers_' = activeTimers_ \cup Repeating /\ expired' = {}
        /\ UNCHANGED <<cancelled, lastRun, batchNow, cancelingTimers_, created,
                       pendingFunctors_, functors, nextFunctor>>
    BY <1>7 DEF Reset, functorVars, callVars
  <2>2. Repeating \subseteq expired /\ Repeating \cap cancelingTimers_ = {}
        /\ Repeating \cap activeTimers_ = {}
    BY DEF Repeating, SetsInv, Batch
  <2>3. Queued' = Queued /\ ToDo' = ToDo
    BY <2>1 DEF Queued, ToDo
  <2>4. AddsFresh'
    BY <2>1, <2>2, <2>3 DEF AddsFresh, Fresh
  <2>5. AddsOnce'
    BY <2>1, <2>3 DEF AddsOnce
  <2>6. CancelledInBatch' /\ CancelledStaysOut'
    BY <2>1, <2>2 DEF CancelledInBatch, CancelledStaysOut
  <2>7. Spaced'
    <3>1. /\ \A t \in Repeating : Period[t] > 0
                /\ expiredTime_'[t] = lastRun[t] + Period[t]
          /\ \A t \in activeTimers_ : expiredTime_'[t] = expiredTime_[t]
      BY <1>7, <2>2 DEF Reset, TypeOK, Restarted, Repeating, Spaced
    <3> QED
      BY <2>1, <3>1 DEF Spaced
  <2> QED
    BY <2>4, <2>5, <2>6, <2>7
<1>8. CASE DoPendingFunctors
  <2>1. /\ functors' = pendingFunctors_ /\ nextFunctor' = 1
        /\ pendingFunctors_' = <<>>
        /\ UNCHANGED <<activeTimers_, expired, cancelled, lastRun, batchNow,
                       cancelingTimers_, expiredTime_, created>>
    BY <1>8 DEF DoPendingFunctors, setVars, batchVars, callVars
  <2>2. Queued' = {} /\ ToDo' = Queued
    BY <2>1 DEF Queued, ToDo
  <2>3. AddsFresh' /\ AddsOnce'
    BY <2>1, <2>2 DEF AddsFresh, AddsOnce, Fresh
  <2> QED
    BY <1>4, <2>1, <2>3
<1>9. CASE RunFunctor
  <2> DEFINE t == functors[nextFunctor].timer
  <2>1. /\ nextFunctor' = nextFunctor + 1 /\ nextFunctor \in 1..Len(functors)
        /\ UNCHANGED <<expiredTime_, expired, batchNow, created, lastRun,
                       pendingFunctors_, functors>>
    BY <1>9 DEF RunFunctor, TypeOK, batchVars, callVars
  <2>2. /\ ToDo' = ToDo \ {nextFunctor} /\ Queued' = Queued
    <3>1. nextFunctor \in Nat /\ Len(functors) \in Nat
      BY DEF TypeOK
    <3> QED
      BY <2>1, <3>1 DEF ToDo, Queued
  <2>3. CASE functors[nextFunctor].op = "add"
    <3>1. /\ activeTimers_' = activeTimers_ \cup {t}
          /\ UNCHANGED <<cancelingTimers_, cancelled>>
      BY <1>9, <2>3 DEF RunFunctor, AddTimerInLoop
    <3>2. nextFunctor \in ToDo
      <4>1. nextFunctor \in nextFunctor..Len(functors)
        BY <2>1
      <4> QED
        BY <2>3, <4>1 DEF ToDo
    <3>3. Fresh(t)
      BY <3>2 DEF AddsFresh
    <3>4. /\ \A i \in Queued : pendingFunctors_[i].timer # t
          /\ \A i \in ToDo' : functors[i].timer # t
      BY <2>2, <3>2 DEF AddsOnce
    <3>5. AddsFresh'
      BY <2>1, <2>2, <3>1, <3>4 DEF AddsFresh, Fresh
    <3>6. AddsOnce'
      BY <2>1, <2>2 DEF AddsOnce
    <3>7. CancelledInBatch' /\ CancelledStaysOut'
      BY <2>1, <3>1, <3>3 DEF CancelledInBatch, CancelledStaysOut, Fresh
    <3>8. Spaced'
      BY <2>1, <3>1, <3>3 DEF Spaced, Fresh
    <3> QED
      BY <3>5, <3>6, <3>7, <3>8
  <2>4. CASE functors[nextFunctor].op # "add"
    <3>1. t \in Timers
      BY <1>9, FunctorTyped DEF RunFunctor
    <3>2. CancelInLoop(t)
      BY <1>9, <2>4 DEF RunFunctor
    <3> QED
      BY <2>1, <2>2, <3>1, <3>2, CancelKeepsLife
  <2> QED
    BY <2>3, <2>4
<1>10. CASE FunctorsDone
  <2>1. /\ functors' = <<>> /\ nextFunctor' = 1
        /\ UNCHANGED <<activeTimers_, expired, cancelled, lastRun, batchNow,
                       cancelingTimers_, expiredTime_, created,
                       pendingFunctors_>>
    BY <1>10 DEF FunctorsDone, setVars, batchVars, callVars
  <2>2. Queued' = Queued /\ ToDo' = {}
    BY <2>1 DEF Queued, ToDo
  <2>3. AddsFresh' /\ AddsOnce'
    BY <2>1, <2>2 DEF AddsFresh, AddsOnce, Fresh
  <2> QED
    BY <1>4, <2>1, <2>3
<1>11. ASSUME UNCHANGED <<activeTimers_, expired, cancelled, lastRun, batchNow,
                          cancelingTimers_, expiredTime_, created,
                          pendingFunctors_, functors, nextFunctor>>
       PROVE  LifeInv'
  BY <1>4, <1>11 DEF AddsFresh, AddsOnce, Fresh, Queued, ToDo
<1>12. ASSUME NEW o \in Others, Return(o) PROVE LifeInv'
  BY <1>11, <1>12 DEF Return, setVars, batchVars, functorVars
<1>13. CASE Poll
  BY <1>11, <1>13 DEF Poll, setVars, batchVars, functorVars, callVars
<1>14. ASSUME NEW t \in Timers, Run(t) PROVE LifeInv'
  BY <1>11, <1>14 DEF Run, setVars, functorVars, callVars
<1>15. CASE Tick
  BY <1>11, <1>15 DEF Tick, setVars, batchVars, functorVars, callVars
<1>16. CASE UNCHANGED vars
  BY <1>11, <1>16 DEF vars, setVars, batchVars, functorVars, callVars
<1> QED
  BY <1>1, <1>2, <1>3, <1>5, <1>6, <1>7, <1>8, <1>9, <1>10, <1>12, <1>13, <1>14,
     <1>15, <1>16 DEF Next, LoopStep, CallStep, Clock

\* Before anything has been added all of this holds.
LEMMA InitialLife == Init => SetsInv /\ LifeInv
BY DEF Init, SetsInv, Members, Batch, SetsMatch, LifeInv, AddsFresh, AddsOnce,
   Queued, ToDo, CancelledInBatch, CancelledStaysOut, Spaced

\* A timer that a cancel has found is never armed again.
THEOREM CancelledNeverArmed == Spec => []CancelledStaysOut
<1>1. LifeInv => CancelledStaysOut
  BY DEF LifeInv
<1> QED
  BY <1>1, InitialLife, TimerTypeCorrect, SetsStep, LifeStep, PTL DEF Spec

\* No timer is taken before its time or before a whole period has passed.
THEOREM TakenInTime == Spec => NeverTooSoon
<1> DEFINE InTime ==
        \A t \in expired' \ expired :
            IF lastRun[t] = 0 THEN expiredTime_[t] <= now
            ELSE Period[t] > 0 /\ lastRun[t] + Period[t] <= now
<1>1. TypeOK /\ SetsInv /\ LifeInv /\ [Next]_vars => [InTime]_vars
  <2> SUFFICES ASSUME TypeOK, SetsInv, LifeInv, Next PROVE InTime
    OBVIOUS
  <2>1. CASE HandleRead
    <3>1. CASE ioPc' = "calling"
      <4>1. expired' = {p[2] : p \in Expired}
        BY <2>1, <3>1 DEF HandleRead
      <4>2. \A t \in expired' : t \in activeTimers_ /\ expiredTime_[t] <= now
        BY <4>1 DEF Expired, SetsInv, SetsMatch
      <4>3. \A t \in activeTimers_ : lastRun[t] # 0 =>
               Period[t] > 0 /\ expiredTime_[t] = lastRun[t] + Period[t]
        BY DEF LifeInv, Spaced
      <4> QED
        BY <4>2, <4>3
    <3>2. CASE ioPc' # "calling"
      BY <2>1, <3>2 DEF HandleRead, batchVars
    <3> QED
      BY <3>1, <3>2
  <2>2. CASE ~HandleRead
    <3>1. expired' \subseteq expired
      BY <2>2 DEF Next, LoopStep, CallStep, Clock, Poll, Run, Reset,
         DoPendingFunctors, RunFunctor, FunctorsDone, IoAdd, IoCancel, Add,
         Cancel, Queue, Return, Tick, batchVars
    <3> QED
      BY <3>1
  <2> QED
    BY <2>1, <2>2
<1> QED
  BY <1>1, InitialLife, TimerTypeCorrect, SetsStep, LifeStep, PTL
  DEF Spec, NeverTooSoon
==============================================================================
