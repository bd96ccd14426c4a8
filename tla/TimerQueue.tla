----------------------------- MODULE TimerQueue -----------------------------
(***************************************************************************)
(* The timers of one event loop (net/TimerQueue.cpp, Timer.cpp, TimerId.h):*)
(* one timerfd that is armed for the earliest of them, two sets that hold  *)
(* the same timers, and the timers that callbacks of a running batch       *)
(* cancel.  The IO thread adds and cancels at once; the Others do it       *)
(* through functors, and a cancel carries only a weak reference.           *)
(*                                                                         *)
(* Abstracted: a timer is a name, added once; its callback adds and        *)
(* cancels at will.  Time is counted in units of at most MinDelay and      *)
(* never goes back (Timer::now() is the wall clock, the timerfd the        *)
(* monotonic one).  alarm is the time at which the timerfd becomes         *)
(* readable, 0 when it is disarmed, as it is for timerfd_settime().        *)
(***************************************************************************)
EXTENDS Integers, Sequences

CONSTANTS
    Timers,           \* the timers that may be added
    Period,           \* interval_ of each; 0 for one that runs once
    Others,           \* threads other than the IO thread
    NoTimer,          \* no timer in hand
    MinDelay,         \* the least delay timerfd is set to (100 microseconds)
    Horizon,          \* bound: the clock stops here
    MaxPending,       \* bound: functors waiting at a time
    Asserts,          \* the build evaluates assert()
    SentryOutcomes    \* what deleting the address UINTPTR_MAX may do

ASSUME TimerAssumption ==
    /\ NoTimer \notin Timers
    /\ Period \in [Timers -> Nat]
    /\ MinDelay \in Nat \ {0}
    /\ Horizon \in Nat \ {0}
    /\ MaxPending \in Nat
ASSUME BuildAssumption ==
    /\ Asserts \in BOOLEAN
    /\ SentryOutcomes \subseteq {"crash", "survives"}

VARIABLES
    now,                    \* Timer::now()
    alarm,                  \* when timerfd_ becomes readable, or 0
    expiredTime_,           \* of every timer
    timers_,                \* pairs of a time and a timer
    activeTimers_,          \* the same timers, ordered by address
    callingExpiredTimers_,
    cancelingTimers_,
    expired,                \* the local vector of handleRead()
    toRun,                  \* those of expired whose turn has not come
    batchNow,               \* the local now of handleRead()
    ioPc,                   \* where the IO thread is in loop()
    pendingFunctors_,       \* what the others have queued
    functors,               \* the batch doPendingFunctors() runs
    nextFunctor,            \* and its place in it
    held,                   \* the shared_ptr in the frame of another thread
    created,                \* history: timers that addTimer() has made
    known,                  \* timers whose TimerId has been returned
    cancelled,              \* history: those a cancel has found in the sets
                            \* or in the batch
    lastRun,                \* history: time of the batch a timer was last in
    missed,                 \* history: reset() has left the timerfd alone
    ended                   \* "no", or what has ended the program

setVars     == <<timers_, activeTimers_>>
batchVars   == <<callingExpiredTimers_, expired, toRun, batchNow>>
functorVars == <<functors, nextFunctor>>
callVars    == <<held, created, known>>
vars == <<now, alarm, expiredTime_, setVars, cancelingTimers_, batchVars, ioPc,
          pendingFunctors_, functorVars, callVars, cancelled, lastRun, missed,
          ended>>

Later(a, b) == IF a < b THEN b ELSE a

TimersOf(s, op) == {s[i].timer : i \in {j \in 1..Len(s) : s[j].op = op}}

AddsWaiting == TimersOf(pendingFunctors_, "add") \cup TimersOf(functors, "add")

\* TimerId::timer_.lock() succeeds: somebody holds a shared_ptr.  A functor
\* keeps its arguments until the whole batch has been run.
Alive(t) ==
    \/ t \in activeTimers_ \cup cancelingTimers_ \cup expired
    \/ \E p \in timers_ : p[2] = t
    \/ t \in AddsWaiting
    \/ \E o \in Others : held[o] = t

Readable == alarm # 0 /\ alarm <= now

InCallback == ioPc = "calling" /\ toRun # expired

\* The IO thread runs code of the user's: before loop(), in a callback of
\* another channel, in a timer's callback or in a functor.
InUserCode == ioPc \in {"start", "read", "handled", "functors"} \/ InCallback

-----------------------------------------------------------------------------
Init ==
    /\ now = 1
    /\ alarm = 0
    /\ expiredTime_ = [t \in Timers |-> 0]
    /\ timers_ = {}
    /\ activeTimers_ = {}
    /\ callingExpiredTimers_ = FALSE
    /\ cancelingTimers_ = {}
    /\ expired = {}
    /\ toRun = {}
    /\ batchNow = 0
    /\ ioPc = "start"
    /\ pendingFunctors_ = <<>>
    /\ functors = <<>>
    /\ nextFunctor = 1
    /\ held = [o \in Others |-> NoTimer]
    /\ created = {}
    /\ known = {}
    /\ cancelled = {}
    /\ lastRun = [t \in Timers |-> 0]
    /\ missed = FALSE
    /\ ended = "no"

-----------------------------------------------------------------------------
(* The operations, as they change the sets and the timerfd.                *)

\* Mutant of ResetTimerfd: set to the difference as if to a time.
RelativeTime(when) == when - now

\* Mutant of ResetTimerfd: without the least delay; a delay of zero disarms.
UnclampedDelay(when) == IF when > now THEN when ELSE 0

\* resetTimerfd(when), with howMuchTimeFromNow().
ResetTimerfd(when) == Later(when, now + MinDelay)

\* What runAt(), runAfter() and runEvery() pass on.
Timeouts(t) == IF Period[t] > 0 THEN {now} ELSE 1..Horizon

\* Mutant of IsEarliest: compared with the last timer instead of the first.
LaterThanAll(e) == \A p \in timers_ : e > p[1]

\* The first half of insert().
IsEarliest(e) == \A p \in timers_ : e < p[1]

AddTimerInLoop(t, e) ==
    /\ timers_' = timers_ \cup {<<e, t>>}
    /\ activeTimers_' = activeTimers_ \cup {t}
    /\ alarm' = IF IsEarliest(e) THEN ResetTimerfd(e) ELSE alarm

\* Mutant of CancelInLoop: the timer stays in activeTimers_.
CancelInTimersOnly(t) ==
    \/ /\ ~Alive(t)
       /\ ended' = "cancel"
       /\ UNCHANGED <<setVars, cancelingTimers_, cancelled>>
    \/ /\ t \in activeTimers_
       /\ timers_' = timers_ \ {<<expiredTime_[t], t>>}
       /\ cancelled' = cancelled \cup {t}
       /\ UNCHANGED <<activeTimers_, cancelingTimers_, ended>>
    \/ /\ Alive(t) /\ t \notin activeTimers_
       /\ UNCHANGED <<setVars, cancelingTimers_, cancelled, ended>>

\* The timer that is gone fails the assert, or is read through a null
\* pointer: the program ends in every build.
CancelInLoop(t) ==
    \/ /\ ~Alive(t)
       /\ ended' = "cancel"
       /\ UNCHANGED <<setVars, cancelingTimers_, cancelled>>
    \/ /\ t \in activeTimers_
       /\ timers_' = timers_ \ {<<expiredTime_[t], t>>}
       /\ activeTimers_' = activeTimers_ \ {t}
       /\ cancelled' = cancelled \cup {t}
       /\ UNCHANGED <<cancelingTimers_, ended>>
    \/ /\ Alive(t) /\ t \notin activeTimers_
       /\ callingExpiredTimers_
       /\ cancelingTimers_' = cancelingTimers_ \cup {t}
       /\ cancelled' = cancelled \cup ({t} \cap expired)
       /\ UNCHANGED <<setVars, ended>>
    \/ /\ Alive(t) /\ t \notin activeTimers_
       /\ ~callingExpiredTimers_
       /\ UNCHANGED <<setVars, cancelingTimers_, cancelled, ended>>

-----------------------------------------------------------------------------
(* addTimer() and cancel().                                                *)

\* In the IO thread runInLoop() is a call.
IoAdd(t, e) ==
    /\ InUserCode
    /\ now < Horizon
    /\ t \notin created
    /\ e \in Timeouts(t)
    /\ created' = created \cup {t}
    /\ known' = known \cup {t}
    /\ expiredTime_' = [expiredTime_ EXCEPT ![t] = e]
    /\ AddTimerInLoop(t, e)
    /\ UNCHANGED <<now, cancelingTimers_, batchVars, ioPc, pendingFunctors_,
                   functorVars, held, cancelled, lastRun, missed, ended>>

IoCancel(t) ==
    /\ InUserCode
    /\ t \in known
    /\ Alive(t)
    /\ CancelInLoop(t)
    /\ UNCHANGED <<now, alarm, expiredTime_, batchVars, ioPc, pendingFunctors_,
                   functorVars, callVars, lastRun, missed>>

\* In another thread it queues a functor.
Queue(o, op, t) ==
    /\ held[o] = NoTimer
    /\ Len(pendingFunctors_) < MaxPending
    /\ pendingFunctors_' = Append(pendingFunctors_, [op |-> op, timer |-> t])
    /\ held' = [held EXCEPT ![o] = t]
    /\ UNCHANGED <<now, alarm, setVars, cancelingTimers_, batchVars, ioPc,
                   functorVars, known, cancelled, lastRun, missed, ended>>

Add(o, t, e) ==
    /\ now < Horizon
    /\ t \notin created
    /\ e \in Timeouts(t)
    /\ created' = created \cup {t}
    /\ expiredTime_' = [expiredTime_ EXCEPT ![t] = e]
    /\ Queue(o, "add", t)

\* lock() that fails is the end of the call.
Cancel(o, t) ==
    /\ t \in known
    /\ Alive(t)
    /\ Queue(o, "cancel", t)
    /\ UNCHANGED <<created, expiredTime_>>

\* The call returns: its shared_ptr goes, the caller has the TimerId.
Return(o) ==
    /\ held[o] # NoTimer
    /\ known' = known \cup {held[o]}
    /\ held' = [held EXCEPT ![o] = NoTimer]
    /\ UNCHANGED <<now, alarm, expiredTime_, setVars, cancelingTimers_,
                   batchVars, ioPc, pendingFunctors_, functorVars, created,
                   cancelled, lastRun, missed, ended>>

-----------------------------------------------------------------------------
(* The IO thread in loop().                                                *)

\* epoll_wait returns, for the timerfd if it is readable.
Poll ==
    /\ ioPc \in {"start", "poll"}
    /\ ioPc' = IF Readable THEN "read" ELSE "handled"
    /\ UNCHANGED <<now, alarm, expiredTime_, setVars, cancelingTimers_,
                   batchVars, pendingFunctors_, functorVars, callVars,
                   cancelled, lastRun, missed, ended>>

\* What lower_bound() leaves before the sentry.
Expired == {p \in timers_ : p[1] <= now}

\* handleRead() up to the first callback: read the timerfd, getExpired().
\* The assert after lower_bound() compares now with itself.  The sentry's
\* shared_ptr owns the address UINTPTR_MAX and deletes it on return.
HandleRead ==
    /\ ioPc = "read"
    /\ alarm' = IF Readable THEN 0 ELSE alarm
    /\ \/ /\ Asserts /\ Expired # timers_
          /\ ended' = "assert"
          /\ UNCHANGED <<setVars, cancelingTimers_, batchVars, ioPc, lastRun>>
       \/ /\ ~(Asserts /\ Expired # timers_)
          /\ "crash" \in SentryOutcomes
          /\ ended' = "sentry"
          /\ UNCHANGED <<setVars, cancelingTimers_, batchVars, ioPc, lastRun>>
       \/ /\ ~(Asserts /\ Expired # timers_)
          /\ "survives" \in SentryOutcomes
          /\ timers_' = timers_ \ Expired
          /\ expired' = {p[2] : p \in Expired}
          /\ activeTimers_' = activeTimers_ \ expired'
          /\ toRun' = expired'
          /\ batchNow' = now
          /\ callingExpiredTimers_' = TRUE
          /\ cancelingTimers_' = {}
          /\ lastRun' = [t \in Timers |->
                            IF t \in expired' THEN now ELSE lastRun[t]]
          /\ ioPc' = "calling"
          /\ UNCHANGED ended
    /\ UNCHANGED <<now, expiredTime_, pendingFunctors_, functorVars, callVars,
                   cancelled, missed>>

\* The next callback of the batch starts; it lasts until the one after it.
Run(t) ==
    /\ ioPc = "calling"
    /\ t \in toRun
    /\ \A u \in toRun : expiredTime_[t] <= expiredTime_[u]
    /\ toRun' = toRun \ {t}
    /\ UNCHANGED <<now, alarm, expiredTime_, setVars, cancelingTimers_,
                   callingExpiredTimers_, expired, batchNow, ioPc,
                   pendingFunctors_, functorVars, callVars, cancelled, lastRun,
                   missed, ended>>

\* Mutant of Repeating: a timer that cancelled itself is taken back.
RepeatingAll == {t \in expired : Period[t] > 0}

\* The timers reset() puts back.
Repeating == {t \in expired : Period[t] > 0 /\ t \notin cancelingTimers_}

\* Mutant of Restarted: counted from the time that was due.
RestartedFromDue(t) == expiredTime_[t] + Period[t]

\* Timer::restart().
Restarted(t) == batchNow + Period[t]

\* reset().  A first timer that has expired in the meantime leaves the
\* timerfd as it is.
Reset ==
    /\ ioPc = "calling"
    /\ toRun = {}
    /\ expiredTime_' = [t \in Timers |-> IF t \in Repeating THEN Restarted(t)
                                         ELSE expiredTime_[t]]
    /\ timers_' = timers_ \cup {<<Restarted(t), t>> : t \in Repeating}
    /\ activeTimers_' = activeTimers_ \cup Repeating
    /\ \/ /\ timers_' = {}
          /\ UNCHANGED <<alarm, missed>>
       \/ \E first \in timers_' :
             /\ \A p \in timers_' : first[1] <= p[1]
             /\ alarm' = IF first[1] >= now THEN ResetTimerfd(first[1]) ELSE alarm
             /\ missed' = (missed \/ first[1] < now)
    /\ callingExpiredTimers_' = FALSE
    /\ expired' = {}
    /\ ioPc' = "handled"
    /\ UNCHANGED <<now, cancelingTimers_, toRun, batchNow, pendingFunctors_,
                   functorVars, callVars, cancelled, lastRun, ended>>

DoPendingFunctors ==
    /\ ioPc = "handled"
    /\ functors' = pendingFunctors_
    /\ nextFunctor' = 1
    /\ pendingFunctors_' = <<>>
    /\ ioPc' = "functors"
    /\ UNCHANGED <<now, alarm, expiredTime_, setVars, cancelingTimers_,
                   batchVars, callVars, cancelled, lastRun, missed, ended>>

RunFunctor ==
    /\ ioPc = "functors"
    /\ nextFunctor <= Len(functors)
    /\ LET t == functors[nextFunctor].timer
       IN \/ /\ functors[nextFunctor].op = "add"
             /\ AddTimerInLoop(t, expiredTime_[t])
             /\ UNCHANGED <<cancelingTimers_, cancelled, ended>>
          \/ /\ functors[nextFunctor].op = "cancel"
             /\ CancelInLoop(t)
             /\ UNCHANGED alarm
    /\ nextFunctor' = nextFunctor + 1
    /\ UNCHANGED <<now, expiredTime_, batchVars, ioPc, pendingFunctors_,
                   functors, callVars, lastRun, missed>>

FunctorsDone ==
    /\ ioPc = "functors"
    /\ nextFunctor > Len(functors)
    /\ functors' = <<>>
    /\ nextFunctor' = 1
    /\ ioPc' = "poll"
    /\ UNCHANGED <<now, alarm, expiredTime_, setVars, cancelingTimers_,
                   batchVars, pendingFunctors_, callVars, cancelled, lastRun,
                   missed, ended>>

\* The clock's last unit begins when every timer asked for is there.
Tick ==
    /\ now < Horizon
    /\ now + 1 = Horizon => AddsWaiting = {}
    /\ now' = now + 1
    /\ UNCHANGED <<alarm, expiredTime_, setVars, cancelingTimers_, batchVars,
                   ioPc, pendingFunctors_, functorVars, callVars, cancelled,
                   lastRun, missed, ended>>

LoopStep ==
    /\ ended = "no"
    /\ \/ Poll
       \/ HandleRead
       \/ \E t \in Timers : Run(t)
       \/ Reset
       \/ DoPendingFunctors
       \/ RunFunctor
       \/ FunctorsDone

CallStep ==
    /\ ended = "no"
    /\ \/ \E t \in Timers : IoCancel(t) \/ \E e \in 1..Horizon : IoAdd(t, e)
       \/ \E o \in Others : Return(o)
       \/ \E o \in Others, t \in Timers :
             Cancel(o, t) \/ \E e \in 1..Horizon : Add(o, t, e)

Clock == ended = "no" /\ Tick

Next == LoopStep \/ CallStep \/ Clock

Spec == Init /\ [][Next]_vars

\* The IO thread is scheduled again and again, and time passes.
FairSpec == Spec /\ WF_vars(LoopStep) /\ WF_vars(Clock)

-----------------------------------------------------------------------------
\* Every variable keeps its type.
TypeOK ==
    /\ now \in 1..Horizon
    /\ alarm \in Nat
    /\ expiredTime_ \in [Timers -> Nat]
    /\ timers_ \subseteq Nat \X Timers
    /\ activeTimers_ \subseteq Timers
    /\ callingExpiredTimers_ \in BOOLEAN
    /\ cancelingTimers_ \subseteq Timers
    /\ expired \subseteq Timers
    /\ toRun \subseteq expired
    /\ batchNow \in Nat
    /\ ioPc \in {"start", "poll", "read", "calling", "handled", "functors"}
    /\ pendingFunctors_ \in Seq([op : {"add", "cancel"}, timer : Timers])
    /\ functors \in Seq([op : {"add", "cancel"}, timer : Timers])
    /\ nextFunctor \in Nat \ {0}
    /\ held \in [Others -> created \cup {NoTimer}]
    /\ created \subseteq Timers
    /\ known \subseteq created
    /\ cancelled \subseteq Timers
    /\ lastRun \in [Timers -> Nat]
    /\ missed \in BOOLEAN
    /\ ended \in {"no", "assert", "sentry", "cancel"}

\* timers_ and activeTimers_ hold the same timers, each once and at the time
\* that it carries, so that cancelInLoop() and getExpired() find in one what
\* they have found in the other (TimerQueue.h:68, TimerQueue.cpp:130, 178).
SetsMatch == timers_ = {<<expiredTime_[t], t>> : t \in activeTimers_}

\* A timer that a cancel has found, in the sets or in the batch that is being
\* run, is never armed again, not even a periodic one that cancels itself
\* (TimerQueue.cpp:134-139).
CancelledStaysOut == cancelled \cap activeTimers_ = {}

\* The timerfd is armed, and no later than for the earliest timer or the
\* shortest delay, whatever has been added, cancelled and run: insert()
\* re-arms for a new first timer only, cancelInLoop() never, reset() always
\* unless that timer has already expired (TimerQueue.cpp:202).
ArmedForEarliest ==
    ended = "no" /\ ~missed /\ ioPc # "calling" =>
        \A p \in timers_ : alarm # 0 /\ alarm <= Later(p[1], now + MinDelay)

\* No timer is taken before its time, a periodic one not before a whole
\* period after its last run, another one not twice.
NeverTooSoon ==
    [][\A t \in expired' \ expired :
          IF lastRun[t] = 0 THEN expiredTime_[t] <= now
          ELSE Period[t] > 0 /\ lastRun[t] + Period[t] <= now]_vars

\* A timer that has been added is taken out again, by its expiry or by a
\* cancel, unless reset() has left the timerfd alone or the program has ended.
EachTimerExpires ==
    \A t \in Timers :
        t \in activeTimers_ /\ expiredTime_[t] < Horizon
            ~> t \notin activeTimers_ \/ missed \/ ended # "no"

\* handleRead() comes as far as the callbacks: "when a timer expires the IO
\* thread is woken and handles the timers that have expired" (TimerQueue.h:88).
HandlerReachesCallbacks == ended \notin {"assert", "sentry"}
==============================================================================
