-------------------------------- MODULE Epoll --------------------------------
(***************************************************************************)
(* The channels of one event loop: Epoll's map from descriptors to         *)
(* channels, the pointers the kernel hands back from epoll_wait, and the   *)
(* list of active channels that loop() walks over.  Everything happens in  *)
(* the IO thread.                                                          *)
(*                                                                         *)
(* The owners of channels (TcpConnection, Acceptor, TimerQueue, the loop's *)
(* own wakeupChannel_) are one kind of owner that goes through what they   *)
(* all go through: construct on a descriptor, enableReading(), any number  *)
(* of enableWriting() and disableWriting(), disableAll(), remove(),        *)
(* destruction, close() - after which the descriptor's number may be used  *)
(* again by another channel.  As in TcpConnection, a channel is removed    *)
(* and destroyed by a pending functor, never by a callback.                *)
(***************************************************************************)
EXTENDS Channel, Naturals, FiniteSets

CONSTANTS
    Channels, Fds, NoChannel, NoFd,
    Asserts             \* the build has asserts (NDEBUG is not defined)

ASSUME NoneAssumption == NoChannel \notin Channels /\ NoFd \notin Fds
ASSUME BuildAssumption == Asserts \in BOOLEAN

VARIABLES
    channel,          \* the Channel objects
    fd_,              \* the descriptor of each
    owner,            \* where its owner is: none, made, open, closing, removed
    channels_,        \* Epoll::channels_, from descriptors to channels
    ptr,              \* event.data.ptr of each watched descriptor
    activeChannels_,  \* reported and still to be handled
    phase             \* of the loop: poll, events, functors

vars == <<channel, fd_, owner, channels_, ptr, activeChannels_, phase>>

Alive(c) == owner[c] # "none"

Init ==
    /\ channel = [c \in Channels |-> NewChannel]
    /\ fd_ = [c \in Channels |-> NoFd]
    /\ owner = [c \in Channels |-> "none"]
    /\ channels_ = [f \in Fds |-> NoChannel]
    /\ ptr = [f \in Fds |-> NoChannel]
    /\ activeChannels_ = {}
    /\ phase = "functors"

\* The owner's code runs in callbacks and in functors.
UserCode == phase \in {"events", "functors"}

\* A new channel on a descriptor that is open and not in use.
Construct(c, f) ==
    /\ UserCode
    /\ ~Alive(c)
    /\ \A d \in Channels : fd_[d] # f
    /\ fd_' = [fd_ EXCEPT ![c] = f]
    /\ owner' = [owner EXCEPT ![c] = "made"]
    /\ UNCHANGED <<channel, channels_, ptr, activeChannels_, phase>>

\* Channel c becomes new: the map and the kernel follow.
Updated(c, new) ==
    /\ channel' = [channel EXCEPT ![c] = new]
    /\ channels_' = IF channel[c].status = "kNew"
                    THEN [channels_ EXCEPT ![fd_[c]] = c] ELSE channels_
    /\ ptr' = [ptr EXCEPT ![fd_[c]] = IF new.watched THEN c ELSE NoChannel]
    /\ UNCHANGED <<fd_, activeChannels_, phase>>

Open(c) ==
    /\ UserCode
    /\ owner[c] = "made"
    /\ Updated(c, EnableReading(channel[c]))
    /\ owner' = [owner EXCEPT ![c] = "open"]

ChangeWriting(c) ==
    /\ UserCode
    /\ owner[c] = "open"
    /\ \/ ~IsWriting(channel[c]) /\ Updated(c, EnableWriting(channel[c]))
       \/ IsWriting(channel[c]) /\ Updated(c, DisableWriting(channel[c]))
    /\ UNCHANGED owner

Close(c) ==
    /\ UserCode
    /\ owner[c] = "open"
    /\ Updated(c, DisableAll(channel[c]))
    /\ owner' = [owner EXCEPT ![c] = "closing"]

\* The assert of remove() holds or is not there; where it fails it ends the
\* program, and no behaviour goes on from such a call.
PassesAssert(c) == Asserts => MayRemove(channel[c])

\* Mutant of RemoveChannel: the entry stays in the map.
RemoveKeepsEntry(c) ==
    /\ phase = "functors"
    /\ owner[c] = "closing" /\ PassesAssert(c)
    /\ channel' = [channel EXCEPT ![c] = Removed(channel[c])]
    /\ ptr' = IF channel[c].status = "kAdded"
              THEN [ptr EXCEPT ![fd_[c]] = NoChannel] ELSE ptr
    /\ owner' = [owner EXCEPT ![c] = "removed"]
    /\ UNCHANGED <<channels_, fd_, activeChannels_, phase>>

\* remove(): by descriptor from the map, by channel from the kernel.
RemoveChannel(c) ==
    /\ phase = "functors"
    /\ owner[c] = "closing" /\ PassesAssert(c)
    /\ channel' = [channel EXCEPT ![c] = Removed(channel[c])]
    /\ channels_' = [channels_ EXCEPT ![fd_[c]] = NoChannel]
    /\ ptr' = IF channel[c].status = "kAdded"
              THEN [ptr EXCEPT ![fd_[c]] = NoChannel] ELSE ptr
    /\ owner' = [owner EXCEPT ![c] = "removed"]
    /\ UNCHANGED <<fd_, activeChannels_, phase>>

\* The channel is destroyed and its descriptor closed.  Closing takes a
\* descriptor out of the interest list.
Destroy(c) ==
    /\ phase = "functors"
    /\ owner[c] = "removed"
    /\ owner' = [owner EXCEPT ![c] = "none"]
    /\ ptr' = [ptr EXCEPT ![fd_[c]] = NoChannel]
    /\ fd_' = [fd_ EXCEPT ![c] = NoFd]
    /\ channel' = [channel EXCEPT ![c] = NewChannel]
    /\ UNCHANGED <<channels_, activeChannels_, phase>>

-----------------------------------------------------------------------------
\* Mutant of Poll: one entry more than epoll_wait has filled in.
PollOneTooMany ==
    /\ phase = "poll"
    /\ activeChannels_' = {ptr[f] : f \in Fds}
    /\ phase' = "events"
    /\ UNCHANGED <<channel, fd_, owner, channels_, ptr>>

\* epoll_wait and fillActiveChannels(): whatever has happened on the watched
\* descriptors comes back through their pointers.  A channel that is not
\* reported keeps its old revents_.
Poll ==
    /\ phase = "poll"
    /\ \E happened \in [Fds -> SUBSET Reports] :
         LET Report(f) == IF ptr[f] = NoChannel THEN {}
                          ELSE Reported(channel[ptr[f]], happened[f])
             active == {f \in Fds : Report(f) # {}}
         IN /\ activeChannels_' = {ptr[f] : f \in active}
            /\ channel' = [c \in Channels |->
                  IF fd_[c] \in active /\ ptr[fd_[c]] = c
                  THEN [channel[c] EXCEPT !.revents = Report(fd_[c])]
                  ELSE channel[c]]
    /\ phase' = "events"
    /\ UNCHANGED <<fd_, owner, channels_, ptr>>

\* handleEvent() of one active channel.
HandleEvent(c) ==
    /\ phase = "events"
    /\ c \in activeChannels_
    /\ activeChannels_' = activeChannels_ \ {c}
    /\ UNCHANGED <<channel, fd_, owner, channels_, ptr, phase>>

DoPendingFunctors ==
    /\ phase = "events"
    /\ activeChannels_ = {}
    /\ phase' = "functors"
    /\ UNCHANGED <<channel, fd_, owner, channels_, ptr, activeChannels_>>

NextRound ==
    /\ phase = "functors"
    /\ phase' = "poll"
    /\ UNCHANGED <<channel, fd_, owner, channels_, ptr, activeChannels_>>

Next ==
    \/ \E c \in Channels :
         \/ \E f \in Fds : Construct(c, f)
         \/ Open(c) \/ ChangeWriting(c) \/ Close(c)
         \/ RemoveChannel(c) \/ Destroy(c)
         \/ HandleEvent(c)
    \/ Poll \/ DoPendingFunctors \/ NextRound

Spec == Init /\ [][Next]_vars

-----------------------------------------------------------------------------
TypeOK ==
    /\ channel \in [Channels -> ChannelType]
    /\ fd_ \in [Channels -> Fds \cup {NoFd}]
    /\ owner \in [Channels -> {"none", "made", "open", "closing", "removed"}]
    /\ channels_ \in [Fds -> Channels \cup {NoChannel}]
    /\ ptr \in [Fds -> Channels \cup {NoChannel}]
    /\ activeChannels_ \subseteq Channels
    /\ phase \in {"poll", "events", "functors"}

\* The kernel and the map point to channels that exist and own the descriptor,
\* whatever numbers have been closed and used again; and loop() walks over
\* channels that exist.
PointersAreAlive ==
    /\ \A f \in Fds : \A c \in {ptr[f], channels_[f]} \ {NoChannel} :
          Alive(c) /\ fd_[c] = f
    /\ \A c \in activeChannels_ : Alive(c)

\* What the asserts of Epoll::updateChannel() say: a channel is in the map
\* exactly from its first update to its removal, under its own descriptor,
\* and the kernel watches it exactly while its status is kAdded.
MapMatchesStatus ==
    \A c \in Channels : Alive(c) =>
        /\ channels_[fd_[c]] =
             IF channel[c].status = "kNew" THEN NoChannel ELSE c
        /\ ptr[fd_[c]] = c <=> channel[c].status = "kAdded"
        /\ channel[c].watched <=> channel[c].status = "kAdded"

\* Once the loop has reported an event of a channel, the kernel watches for
\* what its owner asks for, and for nothing it no longer asks for; a channel
\* whose owner asks for nothing may be in the interest list or not.
InterestAfterFirstEvent ==
    \A c \in Channels : owner[c] \in {"open", "closing"} /\ channel[c].revents # {} =>
        /\ channel[c].events # {} => channel[c].watched
        /\ channel[c].watched => channel[c].interest = channel[c].events

\* "The channel has no event it cares about, so it is to be removed from
\* epoll" (Epoll.cpp:90): a channel is out of the interest list exactly when
\* its owner asks for nothing.
WatchedIffInterested ==
    \A c \in Channels : owner[c] \in {"open", "closing"} =>
        (channel[c].watched <=> channel[c].events # {})
==============================================================================
