----------------------------- MODULE EpollProofs -----------------------------
(***************************************************************************)
(* What is proved of Epoll for any number of channels and descriptors.     *)
(*                                                                         *)
(* PointersAreAlive and MapMatchesStatus need each other: that the map has *)
(* no entry for a destroyed channel follows from its status, and that a    *)
(* new channel finds no entry of an old one under its descriptor from what *)
(* the entries point to.  IInv adds how far an owner can be for each       *)
(* status, and that a descriptor has one owner at most.                    *)
(***************************************************************************)
EXTENDS Epoll, TLAPS

\* A channel has a descriptor while it exists, and no two have the same one.
Descriptors ==
    /\ \A c \in Channels : Alive(c) <=> fd_[c] # NoFd
    /\ \A c, d \in Channels : fd_[c] = fd_[d] /\ fd_[c] # NoFd => c = d

\* What its owner has done with a channel shows in its status.
Stages ==
    \A c \in Channels :
      /\ owner[c] \in {"none", "made"} => channel[c] = NewChannel
      /\ owner[c] \in {"open", "closing"} => channel[c].status # "kNew"
      /\ owner[c] = "removed" => channel[c].status = "kNew"

\* The kernel watches a descriptor for what was last asked for, and does not
\* drop one of which it has reported an event.
Interest ==
    \A c \in Channels :
      /\ channel[c].watched => channel[c].interest = channel[c].events
      /\ owner[c] \in {"open", "closing"} /\ channel[c].revents # {} =>
           channel[c].watched

HandledInEvents == activeChannels_ # {} => phase = "events"

IInv == /\ Descriptors /\ Stages /\ Interest /\ HandledInEvents
        /\ PointersAreAlive /\ MapMatchesStatus

-----------------------------------------------------------------------------
\* A record that an update may leave behind.
Consistent(ch) ==
    /\ ch \in ChannelType
    /\ ch.status # "kNew"
    /\ ch.watched <=> ch.status = "kAdded"
    /\ ch.watched => ch.interest = ch.events
    /\ ch.revents # {} => ch.watched

\* Epoll::updateChannel() makes a channel consistent whatever it was before.
LEMMA UpdateChannelConsistent ==
    ASSUME NEW ch \in ChannelType PROVE Consistent(UpdateChannel(ch))
<1> DEFINE c == [ch EXCEPT !.added = TRUE]
<1>1. c \in ChannelType /\ c.events = ch.events /\ c.revents = ch.revents
  BY DEF ChannelType
<1>2. CASE ch.status # "kAdded"
  <2>1. UpdateChannel(ch) = Watch([c EXCEPT !.status = "kAdded"])
    BY <1>2 DEF UpdateChannel
  <2> QED
    BY <1>1, <2>1 DEF Consistent, ChannelType, Watch
<1>3. CASE ch.status = "kAdded" /\ ch.revents = {}
  <2>1. UpdateChannel(ch) = Unwatch([c EXCEPT !.status = "kDeleted"])
    BY <1>3 DEF UpdateChannel, IsNoneEvent
  <2> QED
    BY <1>1, <1>3, <2>1 DEF Consistent, ChannelType, Unwatch
<1>4. CASE ch.status = "kAdded" /\ ch.revents # {}
  <2>1. UpdateChannel(ch) = Watch(c)
    BY <1>4 DEF UpdateChannel, IsNoneEvent
  <2> QED
    BY <1>1, <1>4, <2>1 DEF Consistent, ChannelType, Watch
<1> QED
  BY <1>2, <1>3, <1>4

\* And so do the four operations that end in it.
LEMMA OperationsConsistent ==
    ASSUME NEW ch \in ChannelType
    PROVE  /\ Consistent(EnableReading(ch)) /\ Consistent(EnableWriting(ch))
           /\ Consistent(DisableWriting(ch)) /\ Consistent(DisableAll(ch))
<1>1. /\ [ch EXCEPT !.events = @ \cup {"IN"}] \in ChannelType
      /\ [ch EXCEPT !.events = @ \cup {"OUT"}] \in ChannelType
      /\ [ch EXCEPT !.events = @ \ {"OUT"}] \in ChannelType
      /\ [ch EXCEPT !.events = {}] \in ChannelType
  BY DEF ChannelType, Interests
<1> QED
  BY <1>1, UpdateChannelConsistent
  DEF EnableReading, EnableWriting, DisableWriting, DisableAll

\* An operation of an owner that has its channel keeps the invariant.
LEMMA UpdatedStep ==
    ASSUME TypeOK, IInv, NEW c \in Channels, NEW new, NEW stage \in {"open", "closing"},
           owner[c] \in {"made", "open"}, Consistent(new), Updated(c, new),
           owner' = [owner EXCEPT ![c] = stage]
    PROVE  TypeOK' /\ IInv'
<1> USE NoneAssumption DEF IInv, Consistent
<1>1. /\ fd_[c] \in Fds /\ Alive(c)
      /\ fd_' = fd_ /\ activeChannels_' = activeChannels_ /\ phase' = phase
      /\ channel' = [channel EXCEPT ![c] = new]
      /\ ptr' = [ptr EXCEPT ![fd_[c]] = IF new.watched THEN c ELSE NoChannel]
      /\ channels_' = IF channel[c].status = "kNew"
                      THEN [channels_ EXCEPT ![fd_[c]] = c] ELSE channels_
  BY DEF TypeOK, Updated, Descriptors, Alive
<1>2. TypeOK'
  BY <1>1 DEF TypeOK
<1>3. /\ channels_'[fd_[c]] = c
      /\ \A f \in Fds \ {fd_[c]} : channels_'[f] = channels_[f] /\ ptr'[f] = ptr[f]
  BY <1>1 DEF TypeOK, MapMatchesStatus
<1>4. \A d \in Channels : Alive(d)' <=> Alive(d)
  BY <1>1 DEF Alive, TypeOK
<1>5. Descriptors'
  BY <1>1, <1>4 DEF Descriptors
<1>6. \A d \in Channels \ {c} :
        channel'[d] = channel[d] /\ owner'[d] = owner[d] /\ fd_[d] # fd_[c]
  BY <1>1 DEF TypeOK, Descriptors
<1>7. channel'[c] = new /\ owner'[c] = stage
  BY <1>1 DEF TypeOK
<1>8. Stages'
  BY <1>6, <1>7 DEF Stages
<1>9. Interest'
  BY <1>6, <1>7 DEF Interest
<1>10. HandledInEvents'
  BY <1>1 DEF HandledInEvents
<1>11. PointersAreAlive'
  BY <1>1, <1>3, <1>4 DEF PointersAreAlive, TypeOK
<1>12. MapMatchesStatus'
  <2> SUFFICES ASSUME NEW d \in Channels, Alive(d)'
               PROVE  /\ channels_'[fd_'[d]] = IF channel'[d].status = "kNew"
                                               THEN NoChannel ELSE d
                      /\ ptr'[fd_'[d]] = d <=> channel'[d].status = "kAdded"
                      /\ channel'[d].watched <=> channel'[d].status = "kAdded"
    BY DEF MapMatchesStatus
  <2>1. CASE d = c
    BY <1>1, <1>3, <1>7, <2>1 DEF TypeOK
  <2>2. CASE d # c
    <3>1. fd_[d] \in Fds \ {fd_[c]}
      BY <1>4, <1>6, <2>2 DEF Descriptors, TypeOK
    <3> QED
      BY <1>1, <1>3, <1>4, <1>6, <2>2, <3>1 DEF MapMatchesStatus
  <2> QED
    BY <2>1, <2>2
<1> QED
  BY <1>2, <1>5, <1>8, <1>9, <1>10, <1>11, <1>12

-----------------------------------------------------------------------------
\* Each other step of a channel's life, one lemma for each.

LEMMA ConstructStep ==
    ASSUME TypeOK, IInv, NEW c \in Channels, NEW f \in Fds, Construct(c, f)
    PROVE  TypeOK' /\ IInv'
<1> USE NoneAssumption DEF IInv, Construct, Alive
<1>1. TypeOK'
  BY DEF TypeOK
<1>2. /\ fd_'[c] = f /\ owner'[c] = "made"
      /\ \A d \in Channels \ {c} : fd_'[d] = fd_[d] /\ owner'[d] = owner[d]
  BY DEF TypeOK
<1>3. ptr[f] = NoChannel /\ channels_[f] = NoChannel
  BY DEF PointersAreAlive, TypeOK
<1>4. Descriptors'
  BY <1>2 DEF Descriptors
<1>5. Stages' /\ Interest' /\ HandledInEvents'
  BY <1>2 DEF Stages, Interest, HandledInEvents, NewChannel
<1>6. PointersAreAlive'
  BY <1>2 DEF PointersAreAlive, TypeOK
<1>7. MapMatchesStatus'
  BY <1>2, <1>3 DEF MapMatchesStatus, Stages, NewChannel
<1> QED
  BY <1>1, <1>4, <1>5, <1>6, <1>7

LEMMA RemoveChannelStep ==
    ASSUME TypeOK, IInv, NEW c \in Channels, RemoveChannel(c)
    PROVE  TypeOK' /\ IInv'
<1> USE NoneAssumption DEF IInv, RemoveChannel
<1>1. /\ Removed(channel[c]) \in ChannelType
      /\ Removed(channel[c]).status = "kNew" /\ ~Removed(channel[c]).watched
  <2> DEFINE ch == channel[c]
             new == [ch EXCEPT !.added = FALSE, !.status = "kNew"]
  <2>1. ch \in ChannelType /\ (ch.watched <=> ch.status = "kAdded")
    BY DEF TypeOK, MapMatchesStatus, Alive
  <2>2. new \in ChannelType /\ new.status = "kNew" /\ new.watched = ch.watched
    BY <2>1 DEF ChannelType
  <2>3. Removed(ch) = IF ch.status = "kAdded" THEN Unwatch(new) ELSE new
    BY DEF Removed
  <2> HIDE DEF new
  <2>4. /\ Unwatch(new) \in ChannelType
        /\ Unwatch(new).status = "kNew" /\ ~Unwatch(new).watched
    BY <2>2 DEF Unwatch, ChannelType
  <2> QED
    BY <2>1, <2>2, <2>3, <2>4
<1>2. /\ fd_[c] \in Fds /\ Alive(c)
      /\ channel'[c] = Removed(channel[c]) /\ owner'[c] = "removed"
      /\ \A d \in Channels \ {c} :
           channel'[d] = channel[d] /\ owner'[d] = owner[d] /\ fd_[d] # fd_[c]
  BY DEF TypeOK, Descriptors, Alive
<1>3. TypeOK'
  BY <1>1 DEF TypeOK
<1>4. \A d \in Channels : Alive(d)' <=> Alive(d)
  BY <1>2 DEF Alive
<1>5. /\ channels_'[fd_[c]] = NoChannel /\ ptr'[fd_[c]] # c
      /\ \A f \in Fds \ {fd_[c]} : channels_'[f] = channels_[f] /\ ptr'[f] = ptr[f]
  BY <1>2 DEF TypeOK, MapMatchesStatus
<1>6. Descriptors'
  BY <1>4 DEF Descriptors
<1>7. Stages' /\ Interest' /\ HandledInEvents'
  BY <1>1, <1>2 DEF Stages, Interest, HandledInEvents
<1>8. PointersAreAlive'
  BY <1>2, <1>4 DEF PointersAreAlive, TypeOK
<1>9. MapMatchesStatus'
  <2> SUFFICES ASSUME NEW d \in Channels, Alive(d)'
               PROVE  /\ channels_'[fd_'[d]] = IF channel'[d].status = "kNew"
                                               THEN NoChannel ELSE d
                      /\ ptr'[fd_'[d]] = d <=> channel'[d].status = "kAdded"
                      /\ channel'[d].watched <=> channel'[d].status = "kAdded"
    BY DEF MapMatchesStatus
  <2>1. CASE d = c
    BY <1>1, <1>2, <1>5, <2>1
  <2>2. CASE d # c
    <3>1. fd_[d] \in Fds \ {fd_[c]}
      BY <1>2, <1>4, <2>2 DEF Descriptors, TypeOK
    <3> QED
      BY <1>2, <1>4, <1>5, <2>2, <3>1 DEF MapMatchesStatus
  <2> QED
    BY <2>1, <2>2
<1> QED
  BY <1>3, <1>6, <1>7, <1>8, <1>9

LEMMA DestroyStep ==
    ASSUME TypeOK, IInv, NEW c \in Channels, Destroy(c)
    PROVE  TypeOK' /\ IInv'
<1> USE NoneAssumption DEF IInv, Destroy
<1>1. /\ fd_[c] \in Fds /\ Alive(c) /\ activeChannels_ = {}
      /\ channel'[c] = NewChannel /\ owner'[c] = "none" /\ fd_'[c] = NoFd
      /\ \A d \in Channels \ {c} :
           /\ channel'[d] = channel[d] /\ owner'[d] = owner[d]
           /\ fd_'[d] = fd_[d] /\ fd_[d] # fd_[c]
  BY DEF TypeOK, Descriptors, Alive, HandledInEvents
<1>2. NewChannel \in ChannelType
  BY DEF NewChannel, ChannelType
<1>3. TypeOK'
  BY <1>2 DEF TypeOK
<1>4. \A d \in Channels : Alive(d)' <=> Alive(d) /\ d # c
  BY <1>1 DEF Alive
<1>5. channels_[fd_[c]] = NoChannel /\ ptr'[fd_[c]] = NoChannel
  BY <1>1 DEF MapMatchesStatus, Stages, TypeOK
<1>6. \A f \in Fds \ {fd_[c]} : ptr'[f] = ptr[f] /\ ptr[f] # c /\ channels_[f] # c
  BY <1>1 DEF TypeOK, PointersAreAlive
<1>7. Descriptors'
  BY <1>1, <1>4 DEF Descriptors
<1>8. Stages' /\ Interest' /\ HandledInEvents'
  BY <1>1 DEF Stages, Interest, HandledInEvents, NewChannel
<1>9. PointersAreAlive'
  <2> SUFFICES ASSUME NEW f \in Fds, NEW d \in Channels,
                      d = ptr'[f] \/ d = channels_'[f]
               PROVE  Alive(d)' /\ fd_'[d] = f
    BY <1>1, <1>3 DEF PointersAreAlive, TypeOK
  <2>1. f # fd_[c] /\ (d = ptr[f] \/ d = channels_[f]) /\ d # c
    BY <1>5, <1>6
  <2> QED
    BY <1>1, <1>4, <2>1 DEF PointersAreAlive
<1>10. MapMatchesStatus'
  <2> SUFFICES ASSUME NEW d \in Channels, Alive(d)'
               PROVE  /\ channels_'[fd_'[d]] = IF channel'[d].status = "kNew"
                                               THEN NoChannel ELSE d
                      /\ ptr'[fd_'[d]] = d <=> channel'[d].status = "kAdded"
                      /\ channel'[d].watched <=> channel'[d].status = "kAdded"
    BY DEF MapMatchesStatus
  <2>1. d # c /\ Alive(d) /\ fd_[d] \in Fds \ {fd_[c]}
    BY <1>1, <1>4 DEF Descriptors, TypeOK
  <2> QED
    BY <1>1, <1>6, <2>1 DEF MapMatchesStatus
<1> QED
  BY <1>3, <1>7, <1>8, <1>9, <1>10

-----------------------------------------------------------------------------
\* A poll changes nothing of a channel but revents_, and that only of one that
\* exists and is watched.
LEMMA PollStep == ASSUME TypeOK, IInv, Poll PROVE TypeOK' /\ IInv'
<1> USE NoneAssumption DEF IInv
<1> DEFINE Report(h, f) == IF ptr[f] = NoChannel THEN {}
                           ELSE Reported(channel[ptr[f]], h[f])
           Active(h) == {f \in Fds : Report(h, f) # {}}
<1>1. PICK h \in [Fds -> SUBSET Reports] :
        /\ activeChannels_' = {ptr[f] : f \in Active(h)}
        /\ channel' = [c \in Channels |->
              IF fd_[c] \in Active(h) /\ ptr[fd_[c]] = c
              THEN [channel[c] EXCEPT !.revents = Report(h, fd_[c])]
              ELSE channel[c]]
  BY DEF Poll
<1>2. /\ phase = "poll" /\ phase' = "events"
      /\ UNCHANGED <<fd_, owner, channels_, ptr>>
  BY DEF Poll
<1>3. \A f \in Active(h) :
        /\ Report(h, f) \subseteq Reports
        /\ ptr[f] \in Channels /\ Alive(ptr[f]) /\ channel[ptr[f]].watched
  <2> SUFFICES ASSUME NEW f \in Active(h)
               PROVE  /\ Report(h, f) \subseteq Reports
                      /\ ptr[f] \in Channels /\ Alive(ptr[f])
                      /\ channel[ptr[f]].watched
    OBVIOUS
  <2>1. ptr[f] # NoChannel /\ Report(h, f) # {}
    OBVIOUS
  <2>2. ptr[f] \in Channels /\ Alive(ptr[f])
    BY <2>1 DEF TypeOK, PointersAreAlive
  <2>3. Reported(channel[ptr[f]], h[f]) \subseteq h[f] /\ h[f] \subseteq Reports
    BY DEF Reported
  <2>4. channel[ptr[f]].watched
    BY <2>1 DEF Reported
  <2> QED
    BY <2>1, <2>2, <2>3, <2>4
<1>4. \A c \in Channels :
        /\ channel'[c] \in ChannelType
        /\ channel'[c].status = channel[c].status
        /\ channel'[c].watched = channel[c].watched
        /\ channel'[c].events = channel[c].events
        /\ channel'[c].interest = channel[c].interest
        /\ channel'[c] # channel[c] => channel[c].watched
  <2> SUFFICES ASSUME NEW c \in Channels
               PROVE  /\ channel'[c] \in ChannelType
                      /\ channel'[c].status = channel[c].status
                      /\ channel'[c].watched = channel[c].watched
                      /\ channel'[c].events = channel[c].events
                      /\ channel'[c].interest = channel[c].interest
                      /\ channel'[c] # channel[c] => channel[c].watched
    OBVIOUS
  <2>1. channel[c] \in ChannelType
    BY DEF TypeOK
  <2>2. CASE fd_[c] \in Active(h) /\ ptr[fd_[c]] = c
    <3> DEFINE r == Report(h, fd_[c])
    <3>1. channel'[c] = [channel[c] EXCEPT !.revents = r]
      BY <1>1, <2>2
    <3>2. r \subseteq Reports /\ channel[c].watched
      BY <1>3, <2>2
    <3> HIDE DEF r, Active
    <3> QED
      BY <2>1, <3>1, <3>2 DEF ChannelType
  <2>3. CASE ~(fd_[c] \in Active(h) /\ ptr[fd_[c]] = c)
    BY <1>1, <2>1, <2>3
  <2> QED
    BY <2>2, <2>3
<1>5. activeChannels_' \subseteq Channels /\ \A c \in activeChannels_' : Alive(c)
  BY <1>1, <1>3
<1>6. channel' = [c \in Channels |-> channel'[c]]
  BY <1>1
<1> HIDE DEF Active, Report
<1>7. TypeOK'
  <2>1. channel' \in [Channels -> ChannelType]
    BY <1>4, <1>6
  <2> QED
    BY <1>2, <1>5, <2>1 DEF TypeOK
<1>8. Descriptors' /\ HandledInEvents'
  BY <1>2 DEF Descriptors, HandledInEvents, Alive
<1>9. Stages'
  BY <1>2, <1>4 DEF Stages, NewChannel
<1>10. Interest'
  BY <1>2, <1>4 DEF Interest
<1>11. PointersAreAlive'
  BY <1>2, <1>5 DEF PointersAreAlive, Alive
<1>12. MapMatchesStatus'
  BY <1>2, <1>4 DEF MapMatchesStatus, Alive
<1> QED
  BY <1>7, <1>8, <1>9, <1>10, <1>11, <1>12

-----------------------------------------------------------------------------
\* Every step keeps the invariant.
LEMMA EpollStep == TypeOK /\ IInv /\ [Next]_vars => TypeOK' /\ IInv'
<1> SUFFICES ASSUME TypeOK, IInv, [Next]_vars PROVE TypeOK' /\ IInv'
  OBVIOUS
<1>1. ASSUME NEW c \in Channels, NEW f \in Fds, Construct(c, f)
      PROVE  TypeOK' /\ IInv'
  BY <1>1, ConstructStep
<1>2. ASSUME NEW c \in Channels, Open(c) PROVE TypeOK' /\ IInv'
  <2>1. Consistent(EnableReading(channel[c]))
    BY OperationsConsistent DEF TypeOK
  <2> QED
    BY <1>2, <2>1, UpdatedStep DEF Open
<1>3. ASSUME NEW c \in Channels, ChangeWriting(c) PROVE TypeOK' /\ IInv'
  <2>1. /\ Consistent(EnableWriting(channel[c]))
        /\ Consistent(DisableWriting(channel[c]))
    BY OperationsConsistent DEF TypeOK
  <2>2. owner[c] = "open" /\ owner' = [owner EXCEPT ![c] = "open"]
    BY <1>3 DEF ChangeWriting, TypeOK
  <2> QED
    BY <1>3, <2>1, <2>2, UpdatedStep DEF ChangeWriting
<1>4. ASSUME NEW c \in Channels, Close(c) PROVE TypeOK' /\ IInv'
  <2>1. Consistent(DisableAll(channel[c]))
    BY OperationsConsistent DEF TypeOK
  <2> QED
    BY <1>4, <2>1, UpdatedStep DEF Close
<1>5. ASSUME NEW c \in Channels, RemoveChannel(c) PROVE TypeOK' /\ IInv'
  BY <1>5, RemoveChannelStep
<1>6. ASSUME NEW c \in Channels, Destroy(c) PROVE TypeOK' /\ IInv'
  BY <1>6, DestroyStep
<1>7. ASSUME NEW c \in Channels, HandleEvent(c) PROVE TypeOK' /\ IInv'
  BY <1>7 DEF HandleEvent, TypeOK, IInv, Descriptors, Stages, Interest,
              HandledInEvents, PointersAreAlive, MapMatchesStatus, Alive
<1>8. CASE Poll
  BY <1>8, PollStep
<1>9. CASE DoPendingFunctors \/ NextRound
  BY <1>9 DEF DoPendingFunctors, NextRound, TypeOK, IInv, Descriptors, Stages,
              Interest, HandledInEvents, PointersAreAlive, MapMatchesStatus, Alive
<1>10. CASE UNCHANGED vars
  BY <1>10 DEF vars, TypeOK, IInv, Descriptors, Stages, Interest,
               HandledInEvents, PointersAreAlive, MapMatchesStatus, Alive
<1> QED
  BY <1>1, <1>2, <1>3, <1>4, <1>5, <1>6, <1>7, <1>8, <1>9, <1>10 DEF Next

LEMMA EpollInvariant == Spec => [](TypeOK /\ IInv)
<1>1. Init => TypeOK /\ IInv
  <2> SUFFICES ASSUME Init PROVE TypeOK /\ IInv
    OBVIOUS
  <2>1. NewChannel \in ChannelType
    BY DEF NewChannel, ChannelType
  <2>2. \A c \in Channels :
          channel[c] = NewChannel /\ fd_[c] = NoFd /\ owner[c] = "none"
    BY DEF Init
  <2>3. TypeOK
    BY <2>1 DEF Init, TypeOK
  <2>4. Descriptors /\ Stages /\ HandledInEvents /\ MapMatchesStatus
    BY <2>2 DEF Init, Descriptors, Stages, HandledInEvents, MapMatchesStatus, Alive
  <2>5. Interest
    BY <2>2 DEF Interest, NewChannel
  <2>6. PointersAreAlive
    BY DEF Init, PointersAreAlive
  <2> QED
    BY <2>3, <2>4, <2>5, <2>6 DEF IInv
<1> QED
  BY <1>1, EpollStep, PTL DEF Spec

\* Every variable keeps its type.
THEOREM EpollTypeCorrect == Spec => []TypeOK
BY EpollInvariant, PTL

\* The map and the kernel point to channels that exist, and so does the list
\* that loop() walks over, for any number of channels and any reuse of
\* descriptors.
THEOREM PointersStayAlive == Spec => []PointersAreAlive
<1>1. IInv => PointersAreAlive
  BY DEF IInv
<1> QED
  BY <1>1, EpollInvariant, PTL

\* Map, status and interest list agree: the asserts of Epoll::updateChannel().
THEOREM MapStaysRight == Spec => []MapMatchesStatus
<1>1. IInv => MapMatchesStatus
  BY DEF IInv
<1> QED
  BY <1>1, EpollInvariant, PTL

\* A channel of which an event has been reported is watched for exactly what
\* its owner asks for.
THEOREM InterestStaysExact == Spec => []InterestAfterFirstEvent
<1>1. IInv => InterestAfterFirstEvent
  BY DEF IInv, Interest, InterestAfterFirstEvent
<1> QED
  BY <1>1, EpollInvariant, PTL
==============================================================================
