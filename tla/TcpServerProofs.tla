--------------------------- MODULE TcpServerProofs ---------------------------
(***************************************************************************)
(* Proofs about TcpServer, for any sets of connections and setups: any     *)
(* number of loops, any use of the server that the setups allow.           *)
(***************************************************************************)
EXTENDS TcpServer, SequenceTheorems, FiniteSetTheorems, TLAPS

\* The callbacks and the functors there may be, of connections that were made.
Callbacks ==
    [op: {"handleClose", "handleError", "handleRead", "handleWrite", "connection",
          "message"}, conn: made]

MadeFunctors == {f \in Functors : f.conn \in made}

\* Functors that neither send nor shut down: what is queued if no other thread
\* has a connection.
QuietFunctors ==
    {f \in Functors : f.op \in {"connectionEstablished", "removeConnectionInLoop",
                                "connectionDestroyed"}}

-----------------------------------------------------------------------------
(* Types.                                                                  *)

AcceptTypes ==
    /\ setup \in Setups /\ setup \in Setup
    /\ backlog \subseteq Conns /\ accepting \in BOOLEAN /\ gone \in BOOLEAN
    /\ next_ \in Nat /\ (next_ = 0 \/ next_ < numThreads_)

ConnTypes ==
    /\ made \subseteq Conns /\ IsFiniteSet(made) /\ map \subseteq made
    /\ loopOf \in [Conns -> Loops]
    /\ state_ \in [Conns -> States]
    /\ channel \in [Conns -> ChannelType]
    /\ output \in [Conns -> BOOLEAN]

SockTypes == sock \in [Conns -> SUBSET {"data", "fin", "rst", "err", "shut", "full"}]

LoopTypes ==
    /\ phase \in [Loops -> {"poll", "events", "functors", "over"}]
    /\ active \in [Loops -> SUBSET made]
    /\ todo \in [Loops -> Seq(Callbacks)]
    /\ pending \in [Loops -> Seq(MadeFunctors)]
    /\ batch \in [Loops -> Seq(MadeFunctors)]
    /\ ran \in [Loops -> Nat]

UserTypes ==
    /\ held \subseteq made /\ sent \subseteq made
    /\ calling \in [Conns -> {"nothing", "send", "shutdown"}]
    /\ \A c \in Conns : calling[c] # "nothing" => c \in made

Types == AcceptTypes /\ ConnTypes /\ SockTypes /\ LoopTypes /\ UserTypes

LEMMA SetOfSequence ==
    ASSUME NEW S, NEW s \in Seq(S)
    PROVE  /\ ToSet(s) \subseteq S
           /\ \A x : x \in ToSet(s) <=> \E i \in 1..Len(s) : s[i] = x
BY DEF ToSet

LEMMA TypesSuffice == Types => TypeOK
<1> SUFFICES ASSUME Types PROVE TypeOK
  OBVIOUS
<1>1. next_ = 0 \/ next_ \in 0..(numThreads_ - 1)
  <2>1. numThreads_ \in Nat
    BY DEF Types, AcceptTypes, Setup, numThreads_
  <2> QED
    BY <2>1 DEF Types, AcceptTypes
<1>2. \A l \in Loops : ToSet(pending[l] \o batch[l]) \subseteq Functors
  <2> SUFFICES ASSUME NEW l \in Loops
               PROVE  ToSet(pending[l] \o batch[l]) \subseteq Functors
    OBVIOUS
  <2>1. pending[l] \o batch[l] \in Seq(MadeFunctors) /\ MadeFunctors \subseteq Functors
    BY DEF Types, LoopTypes, MadeFunctors
  <2>2. ToSet(pending[l] \o batch[l]) \subseteq MadeFunctors
    BY <2>1, SetOfSequence, Zenon
  <2> QED
    BY <2>1, <2>2
<1>3. active \in [Loops -> SUBSET Conns]
  BY DEF Types, ConnTypes, LoopTypes
<1> QED
  BY <1>1, <1>2, <1>3 DEF Types, AcceptTypes, ConnTypes, SockTypes, LoopTypes, UserTypes,
                          TypeOK

\* What the operations of a channel leave.
LEMMA UpdateChannelLeaves ==
    ASSUME NEW ch \in ChannelType
    PROVE  LET new == UpdateChannel(ch)
           IN /\ new \in ChannelType /\ new.status # "kNew" /\ new.events = ch.events
              /\ ch.events = {} => new.interest = {}
<1> DEFINE c == [ch EXCEPT !.added = TRUE]
<1>1. c \in ChannelType /\ c.events = ch.events /\ c.status = ch.status
  BY DEF ChannelType
<1>2. [c EXCEPT !.status = "kAdded"] \in ChannelType /\ [c EXCEPT !.status = "kDeleted"] \in ChannelType
  BY <1>1 DEF ChannelType
<1>3. CASE ch.status # "kAdded"
  <2>1. UpdateChannel(ch) = Watch([c EXCEPT !.status = "kAdded"])
    BY <1>3 DEF UpdateChannel
  <2> QED
    BY <1>1, <2>1 DEF ChannelType, Watch
<1>4. CASE ch.status = "kAdded" /\ IsNoneEvent(ch)
  <2>1. UpdateChannel(ch) = Unwatch([c EXCEPT !.status = "kDeleted"])
    BY <1>4 DEF UpdateChannel
  <2> QED
    BY <1>1, <2>1 DEF ChannelType, Unwatch
<1>5. CASE ch.status = "kAdded" /\ ~IsNoneEvent(ch)
  <2>1. UpdateChannel(ch) = Watch(c)
    BY <1>5 DEF UpdateChannel
  <2> QED
    BY <1>1, <1>5, <2>1 DEF ChannelType, Watch
<1> QED
  BY <1>3, <1>4, <1>5

LEMMA ChannelOperations ==
    ASSUME NEW ch \in ChannelType
    PROVE  /\ EnableReading(ch) \in ChannelType /\ EnableReading(ch).status # "kNew"
           /\ EnableReading(ch).events = ch.events \cup {"IN"}
           /\ EnableWriting(ch) \in ChannelType /\ EnableWriting(ch).status # "kNew"
           /\ EnableWriting(ch).events = ch.events \cup {"OUT"}
           /\ DisableWriting(ch) \in ChannelType /\ DisableWriting(ch).status # "kNew"
           /\ DisableWriting(ch).events = ch.events \ {"OUT"}
           /\ DisableAll(ch) \in ChannelType /\ DisableAll(ch).status # "kNew"
           /\ DisableAll(ch).events = {} /\ DisableAll(ch).interest = {}
<1>1. /\ [ch EXCEPT !.events = @ \cup {"IN"}] \in ChannelType
      /\ [ch EXCEPT !.events = @ \cup {"OUT"}] \in ChannelType
      /\ [ch EXCEPT !.events = @ \ {"OUT"}] \in ChannelType
      /\ [ch EXCEPT !.events = {}] \in ChannelType
  BY DEF ChannelType, Interests
<1>2. /\ [ch EXCEPT !.events = @ \cup {"IN"}].events = ch.events \cup {"IN"}
      /\ [ch EXCEPT !.events = @ \cup {"OUT"}].events = ch.events \cup {"OUT"}
      /\ [ch EXCEPT !.events = @ \ {"OUT"}].events = ch.events \ {"OUT"}
      /\ [ch EXCEPT !.events = {}].events = {}
  BY DEF ChannelType
<1>3. EnableReading(ch) \in ChannelType /\ EnableReading(ch).status # "kNew"
      /\ EnableReading(ch).events = ch.events \cup {"IN"}
  BY <1>1, <1>2, UpdateChannelLeaves DEF EnableReading
<1>4. EnableWriting(ch) \in ChannelType /\ EnableWriting(ch).status # "kNew"
      /\ EnableWriting(ch).events = ch.events \cup {"OUT"}
  BY <1>1, <1>2, UpdateChannelLeaves DEF EnableWriting
<1>5. DisableWriting(ch) \in ChannelType /\ DisableWriting(ch).status # "kNew"
      /\ DisableWriting(ch).events = ch.events \ {"OUT"}
  BY <1>1, <1>2, UpdateChannelLeaves DEF DisableWriting
<1>6. DisableAll(ch) \in ChannelType /\ DisableAll(ch).status # "kNew"
      /\ DisableAll(ch).events = {} /\ DisableAll(ch).interest = {}
  BY <1>1, <1>2, UpdateChannelLeaves DEF DisableAll
<1> QED
  BY <1>3, <1>4, <1>5, <1>6

LEMMA RemovedLeaves ==
    ASSUME NEW ch \in ChannelType
    PROVE  /\ Removed(ch) \in ChannelType
           /\ Removed(ch).status = "kNew" /\ ~Removed(ch).added
           /\ Removed(ch).events = ch.events
<1> DEFINE c == [ch EXCEPT !.added = FALSE, !.status = "kNew"]
<1>1. c \in ChannelType /\ c.status = "kNew" /\ c.added = FALSE /\ c.events = ch.events
  BY DEF ChannelType
<1>2. CASE ch.status = "kAdded"
  BY <1>1, <1>2 DEF Removed, Unwatch, ChannelType
<1>3. CASE ch.status # "kAdded"
  BY <1>1, <1>3 DEF Removed
<1> QED
  BY <1>2, <1>3

LEMMA TypesInit == Init => Types
<1> SUFFICES ASSUME Init PROVE Types
  OBVIOUS
<1>1. NewChannel \in ChannelType
  BY DEF NewChannel, ChannelType
<1>2. setup \in Setup /\ numThreads_ \in Nat /\ 0 \in Loops
  BY SetupAssumption DEF Init, Setup, numThreads_, Loops
<1>3. AcceptTypes
  BY <1>2 DEF Init, AcceptTypes
<1>4. ConnTypes
  BY <1>1, <1>2, FS_EmptySet DEF Init, ConnTypes, States
<1>5. SockTypes /\ UserTypes
  BY DEF Init, SockTypes, UserTypes
<1>6. LoopTypes
  BY DEF Init, LoopTypes
<1> QED
  BY <1>3, <1>4, <1>5, <1>6 DEF Types

\* What a step leaves alone keeps its type.
LEMMA SameTypes ==
    ASSUME Types, UNCHANGED setup
    PROVE  /\ Loops' = Loops /\ numThreads_' = numThreads_ /\ 0 \in Loops
           /\ numThreads_ \in Nat
           /\ UNCHANGED acceptVars => AcceptTypes'
           /\ UNCHANGED <<made, map, loopOf, state_, channel, output>> => ConnTypes'
           /\ UNCHANGED sock => SockTypes'
           /\ UNCHANGED <<loopVars, made>> => LoopTypes'
           /\ made' = made => Callbacks' = Callbacks /\ MadeFunctors' = MadeFunctors
           /\ (UNCHANGED userVars /\ made \subseteq made') => UserTypes'
<1>1. Loops' = Loops /\ numThreads_' = numThreads_
  BY DEF Loops, numThreads_
<1>2. numThreads_ \in Nat /\ 0 \in Loops
  BY DEF Types, AcceptTypes, Setup, numThreads_, Loops
<1>3. UNCHANGED acceptVars => AcceptTypes'
  BY <1>1 DEF Types, AcceptTypes, acceptVars
<1>4. UNCHANGED <<made, map, loopOf, state_, channel, output>> => ConnTypes'
  BY <1>1 DEF Types, ConnTypes
<1>5. UNCHANGED sock => SockTypes'
  BY DEF Types, SockTypes
<1>6. UNCHANGED <<loopVars, made>> => LoopTypes'
  BY <1>1 DEF Types, LoopTypes, loopVars, Callbacks, MadeFunctors
<1>8. made' = made => Callbacks' = Callbacks /\ MadeFunctors' = MadeFunctors
  BY DEF Callbacks, MadeFunctors
<1>7. (UNCHANGED userVars /\ made \subseteq made') => UserTypes'
  BY DEF Types, UserTypes, userVars
<1> QED
  BY <1>1, <1>2, <1>3, <1>4, <1>5, <1>6, <1>7, <1>8

LEMMA QueueTypes ==
    ASSUME Types, NEW l \in Loops, NEW f \in MadeFunctors, Queue(l, f)
    PROVE  pending' \in [Loops -> Seq(MadeFunctors)]
BY DEF Types, LoopTypes, Queue

LEMMA HandleCloseTypes ==
    ASSUME Types, UNCHANGED setup, NEW l \in Loops, NEW c \in made, HandleClose(l, c)
    PROVE  ConnTypes' /\ pending' \in [Loops -> Seq(MadeFunctors)] /\ made' = made
<1>1. Loops' = Loops /\ 0 \in Loops
  BY SameTypes
<1>2. /\ Functor("connectionDestroyed", c, TRUE) \in MadeFunctors
      /\ Functor("removeConnectionInLoop", c, TRUE) \in MadeFunctors
  BY DEF Functor, Functors, MadeFunctors, Types, ConnTypes
<1>3. c \in Conns /\ loopOf[c] \in Loops
  BY DEF Types, ConnTypes
<1>4. pending' \in [Loops -> Seq(MadeFunctors)] /\ map' \subseteq map
  <2>1. CASE l = 0
    BY <1>2, <1>3, <2>1, QueueTypes DEF HandleClose, RemoveConnectionInLoop
  <2>2. CASE l # 0
    BY <1>1, <1>2, <2>2, QueueTypes DEF HandleClose
  <2> QED
    BY <2>1, <2>2
<1>5. channel' \in [Conns -> ChannelType] /\ state_' \in [Conns -> States]
  <2>1. DisableAll(channel[c]) \in ChannelType
    BY <1>3, ChannelOperations DEF Types, ConnTypes
  <2> QED
    BY <2>1 DEF HandleClose, Types, ConnTypes, States
<1> QED
  BY <1>1, <1>4, <1>5 DEF HandleClose, Types, ConnTypes

LEMMA ConnectionsDestroyedTypes ==
    ASSUME Types, NEW cs, ConnectionsDestroyed(cs)
    PROVE  channel' \in [Conns -> ChannelType] /\ state_' \in [Conns -> States]
<1>1. \A c \in Conns : /\ Removed(channel[c]) \in ChannelType
                       /\ Removed(DisableAll(channel[c])) \in ChannelType
  BY ChannelOperations, RemovedLeaves DEF Types, ConnTypes
<1>2. state_' \in [Conns -> States]
  BY DEF ConnectionsDestroyed, Types, ConnTypes, States
<1>3. channel' \in [Conns -> ChannelType]
  <2> DEFINE open == {c \in cs : state_[c] = "kConnected"}
             new(c) == CASE c \in open      -> Removed(DisableAll(channel[c]))
                         [] c \in cs \ open -> Removed(channel[c])
                         [] OTHER           -> channel[c]
  <2>1. channel' = [c \in Conns |-> new(c)]
    BY DEF ConnectionsDestroyed
  <2>2. \A c \in Conns : new(c) \in ChannelType
    BY <1>1 DEF Types, ConnTypes
  <2> QED
    BY <2>1, <2>2
<1> QED
  BY <1>2, <1>3

\* The user's thread is given shared_ptrs only to connections there are, and
\* none at all where there is no such thread.
LEMMA PassedOnTypes ==
    ASSUME Types, NEW cs, cs \subseteq made, PassedOn(cs), UNCHANGED <<made, calling, sent>>
    PROVE  UserTypes'
BY DEF PassedOn, Types, UserTypes

LEMMA NothingPassedOn ==
    ASSUME ~setup.otherThread, NEW cs, PassedOn(cs)
    PROVE  held' = held
BY DEF PassedOn

LEMMA DestroyedUserTypes ==
    ASSUME Types, NEW cs, cs \subseteq made, ConnectionsDestroyed(cs),
           UNCHANGED <<calling, sent>>
    PROVE  made' = made /\ UserTypes'
<1> DEFINE open == {c \in cs : state_[c] = "kConnected"}
<1>1. made' = made /\ PassedOn(open \ freed)
  BY DEF ConnectionsDestroyed
<1>2. open \ freed \subseteq made
  OBVIOUS
<1> QED
  BY <1>1, <1>2, PassedOnTypes

LEMMA DestroyedQuiet ==
    ASSUME ~setup.otherThread, NEW cs, ConnectionsDestroyed(cs)
    PROVE  held' = held
BY NothingPassedOn DEF ConnectionsDestroyed

LEMMA EstablishedTypes ==
    ASSUME Types, NEW c \in Conns, ConnectionEstablished(c)
    PROVE  channel' \in [Conns -> ChannelType] /\ state_' \in [Conns -> States]
<1>1. EnableReading(channel[c]) \in ChannelType
  BY ChannelOperations DEF Types, ConnTypes
<1> QED
  BY <1>1 DEF ConnectionEstablished, Types, ConnTypes, States

LEMMA SendInLoopTypes ==
    ASSUME Types, UNCHANGED setup, NEW c \in Conns, SendInLoop(c)
    PROVE  ConnTypes' /\ SockTypes' /\ made' = made
<1>1. EnableWriting(channel[c]) \in ChannelType
  BY ChannelOperations DEF Types, ConnTypes
<1>2. channel' \in [Conns -> ChannelType] /\ output' \in [Conns -> BOOLEAN]
  BY <1>1 DEF SendInLoop, Types, ConnTypes
<1>3. SockTypes'
  BY DEF SendInLoop, WriteAll, WritePart, WriteFails, Types, SockTypes
<1> QED
  BY <1>2, <1>3, SameTypes DEF SendInLoop, Types, ConnTypes

LEMMA ShutdownInLoopTypes ==
    ASSUME Types, NEW c \in Conns, ShutdownInLoop(c)
    PROVE  SockTypes'
BY DEF ShutdownInLoop, Types, SockTypes

\* The rounds of a loop, up to its functors.
LEMMA EventTypes ==
    ASSUME Types, UNCHANGED setup, NEW l \in Loops, NEW c \in Conns,
           \/ HandleEvent(l, c) \/ CloseCallback(l, c) \/ ErrorCallback(l, c)
           \/ ReadCallback(l, c) \/ WriteCallback(l, c) \/ UserReturn(l, c)
    PROVE  Types'
<1>0. \A op : NextIs(l, op, c) => todo[l] # <<>> /\ c \in made
  <2> SUFFICES ASSUME NEW op, NextIs(l, op, c) PROVE todo[l] # <<>> /\ c \in made
    OBVIOUS
  <2>1. todo[l] # <<>> /\ todo[l] \in Seq(Callbacks) /\ Head(todo[l]).conn = c
    BY DEF NextIs, Callback, Types, LoopTypes
  <2>2. Head(todo[l]) \in Callbacks
    BY <2>1
  <2> QED
    BY <2>1, <2>2 DEF Callbacks
<1>1. /\ Loops' = Loops
      /\ made' = made => Callbacks' = Callbacks /\ MadeFunctors' = MadeFunctors
  BY SameTypes
<1>2. todo[l] \in Seq(Callbacks) /\ (todo[l] # <<>> => Tail(todo[l]) \in Seq(Callbacks))
  BY DEF Types, LoopTypes
<1>3. Done(l) /\ todo[l] # <<>> => todo' \in [Loops -> Seq(Callbacks)]
  BY <1>2 DEF Done, Types, LoopTypes
<1>4. CASE HandleEvent(l, c)
  <2> DEFINE If(b, op) == IF b THEN <<Callback(op, c)>> ELSE <<>>
             r == channel[c].revents
             next == If("HUP" \in r /\ "IN" \notin r, "handleClose")
                     \o If("ERR" \in r, "handleError") \o If("IN" \in r, "handleRead")
                     \o If("OUT" \in r, "handleWrite")
  <2>0. c \in made
    BY <1>4 DEF HandleEvent, Types, LoopTypes
  <2>1. /\ Callback("handleClose", c) \in Callbacks /\ Callback("handleError", c) \in Callbacks
        /\ Callback("handleRead", c) \in Callbacks /\ Callback("handleWrite", c) \in Callbacks
    BY <2>0 DEF Callback, Callbacks
  <2>2. \A b : /\ If(b, "handleClose") \in Seq(Callbacks)
               /\ If(b, "handleError") \in Seq(Callbacks)
               /\ If(b, "handleRead") \in Seq(Callbacks)
               /\ If(b, "handleWrite") \in Seq(Callbacks)
    BY <2>1
  <2>3. todo' = [todo EXCEPT ![l] = next]
    BY <1>4 DEF HandleEvent
  <2> HIDE DEF If
  <2>4. next \in Seq(Callbacks)
    BY <2>2
  <2> HIDE DEF next
  <2>5. LoopTypes'
    BY <1>1, <1>4, <2>3, <2>4 DEF HandleEvent, connVars, Types, LoopTypes
  <2> QED
    BY <1>4, <2>5, SameTypes DEF HandleEvent, connVars, Types
<1>5. CASE CloseCallback(l, c)
  <2>1. todo[l] # <<>> /\ c \in made /\ HandleClose(l, c) /\ Done(l)
    BY <1>0, <1>5 DEF CloseCallback
  <2>2. ConnTypes' /\ pending' \in [Loops -> Seq(MadeFunctors)] /\ made' = made
    BY <2>1, HandleCloseTypes
  <2>3. LoopTypes'
    BY <1>1, <1>3, <1>5, <2>1, <2>2 DEF CloseCallback, Types, LoopTypes
  <2> QED
    BY <1>5, <2>2, <2>3, SameTypes DEF CloseCallback, Types
<1>6. CASE ErrorCallback(l, c)
  <2>1. LoopTypes' /\ SockTypes'
    BY <1>0, <1>1, <1>3, <1>6 DEF ErrorCallback, connVars, Types, LoopTypes, SockTypes
  <2> QED
    BY <1>6, <2>1, SameTypes DEF ErrorCallback, connVars, Types
<1>7. CASE ReadCallback(l, c)
  <2>1. \/ /\ todo' = [todo EXCEPT ![l] = <<Callback("message", c)>> \o Tail(@)]
           /\ sock' = [sock EXCEPT ![c] = @ \ {"data"}] /\ UNCHANGED <<pending, connVars>>
        \/ HandleClose(l, c) /\ Done(l) /\ UNCHANGED sock
        \/ /\ sock' = [sock EXCEPT ![c] = @ \ {"err"}]
           /\ Done(l) /\ UNCHANGED <<pending, connVars>>
    BY <1>7 DEF ReadCallback
  <2>2. SockTypes'
    BY <2>1 DEF Types, SockTypes
  <2>3. /\ todo[l] # <<>> /\ c \in made
        /\ UNCHANGED <<phase, active, batch, ran, acceptVars, userVars>>
    BY <1>0, <1>7 DEF ReadCallback
  <2>4. todo' \in [Loops -> Seq(Callbacks)]
    <3>1. <<Callback("message", c)>> \o Tail(todo[l]) \in Seq(Callbacks)
      <4>1. Callback("message", c) \in Callbacks
        BY <2>3 DEF Callback, Callbacks
      <4> QED
        BY <1>2, <2>3, <4>1
    <3> QED
      BY <1>3, <2>1, <2>3, <3>1 DEF Types, LoopTypes
  <2>5. ConnTypes' /\ pending' \in [Loops -> Seq(MadeFunctors)] /\ made' = made
    <3>1. CASE HandleClose(l, c)
      BY <2>3, <3>1, HandleCloseTypes
    <3>2. CASE UNCHANGED <<pending, connVars>>
      BY <3>2, SameTypes DEF connVars, Types, LoopTypes
    <3> QED
      BY <2>1, <3>1, <3>2
  <2>6. LoopTypes'
    BY <1>1, <2>3, <2>4, <2>5 DEF Types, LoopTypes
  <2> QED
    BY <2>2, <2>3, <2>5, <2>6, SameTypes DEF Types
<1>8. CASE WriteCallback(l, c)
  <2>1. LoopTypes'
    BY <1>0, <1>1, <1>3, <1>8 DEF WriteCallback, Types, LoopTypes
  <2>2. SockTypes'
    BY <1>8 DEF WriteCallback, WritePart, WriteFails, Types, SockTypes
  <2>3. DisableWriting(channel[c]) \in ChannelType
    BY ChannelOperations DEF Types, ConnTypes
  <2>4. channel' \in [Conns -> ChannelType] /\ output' \in [Conns -> BOOLEAN]
    BY <1>8, <2>3 DEF WriteCallback, Types, ConnTypes
  <2>5. ConnTypes'
    BY <1>1, <1>8, <2>4 DEF WriteCallback, Types, ConnTypes
  <2> QED
    BY <1>8, <2>1, <2>2, <2>5, SameTypes DEF WriteCallback, Types
<1>9. CASE UserReturn(l, c)
  <2>1. LoopTypes'
    BY <1>0, <1>1, <1>3, <1>9 DEF UserReturn, InUser, connVars, Types, LoopTypes
  <2>2. c \in made
    BY <1>0, <1>9 DEF UserReturn, InUser
  <2>3. UserTypes'
    BY <1>9, <2>2, PassedOnTypes DEF UserReturn, connVars
  <2> QED
    BY <1>9, <2>1, <2>3, SameTypes DEF UserReturn, connVars, Types
<1> QED
  BY <1>4, <1>5, <1>6, <1>7, <1>8, <1>9

\* The rounds of a loop: the poll, and its functors.
LEMMA RoundTypes ==
    ASSUME Types, UNCHANGED setup, NEW l \in Loops,
           PollReturn(l) \/ BeginFunctors(l) \/ RunFunctor(l) \/ EndFunctors(l)
    PROVE  Types'
<1>1. /\ Loops' = Loops
      /\ made' = made => Callbacks' = Callbacks /\ MadeFunctors' = MadeFunctors
  BY SameTypes
<1>2. CASE PollReturn(l)
  <2>1. ReportedOn(l) \subseteq made
    BY DEF ReportedOn
  <2>2. LoopTypes'
    BY <1>1, <1>2, <2>1 DEF PollReturn, Types, LoopTypes
  <2>3. channel' \in [Conns -> ChannelType]
    <3> DEFINE new(c) == IF c \in ReportedOn(l)
                         THEN [channel[c] EXCEPT !.revents = Reported(channel[c], Ready(c))]
                         ELSE channel[c]
    <3>1. \A c \in Conns : Reported(channel[c], Ready(c)) \subseteq Reports
      BY DEF Reported, Ready, Reports, Interests
    <3>2. \A c \in Conns : new(c) \in ChannelType
      BY <3>1 DEF Types, ConnTypes, ChannelType
    <3>3. channel' = [c \in Conns |-> new(c)]
      BY <1>2 DEF PollReturn
    <3> QED
      BY <3>2, <3>3
  <2>4. ConnTypes'
    BY <1>1, <1>2, <2>3 DEF PollReturn, Types, ConnTypes
  <2>5. AcceptTypes'
    BY <1>2, SameTypes DEF PollReturn, Types, AcceptTypes
  <2> QED
    BY <1>2, <2>2, <2>4, <2>5, SameTypes DEF PollReturn, Types
<1>3. CASE BeginFunctors(l)
  <2>1. LoopTypes'
    BY <1>1, <1>3 DEF BeginFunctors, connVars, Types, LoopTypes
  <2> QED
    BY <1>3, <2>1, SameTypes DEF BeginFunctors, connVars, Types
<1>4. CASE RunFunctor(l)
  <2> DEFINE f == batch[l][ran[l] + 1]
             c == f.conn
  <2>1. f \in MadeFunctors
    <3>1. ran[l] + 1 \in 1..Len(batch[l]) /\ batch[l] \in Seq(MadeFunctors)
      BY <1>4 DEF RunFunctor, Types, LoopTypes
    <3> QED
      BY <3>1
  <2>2. c \in made /\ c \in Conns
    BY <2>1 DEF MadeFunctors, Functors
  <2>3. /\ \/ /\ ConnectionEstablished(c)
              /\ todo' = [todo EXCEPT ![l] = <<Callback("connection", c)>>]
              /\ UNCHANGED <<made, map, loopOf, output, pending, held, sock>>
           \/ /\ RemoveConnectionInLoop(c)
              /\ UNCHANGED <<made, loopOf, state_, channel, output, todo, held, sock>>
           \/ ConnectionsDestroyed({c}) /\ UNCHANGED <<map, todo, pending, sock>>
           \/ ShutdownInLoop(c) /\ UNCHANGED <<connVars, todo, pending, held>>
           \/ SendInLoop(c) /\ UNCHANGED <<todo, pending, held>>
        /\ ran' = [ran EXCEPT ![l] = @ + 1]
        /\ UNCHANGED <<phase, active, batch, acceptVars, calling, sent>>
    BY <1>4 DEF RunFunctor
  <2>4. Callback("connection", c) \in Callbacks
    BY <2>2 DEF Callback, Callbacks
  <2> HIDE DEF f, c
  <2>5. todo' \in [Loops -> Seq(Callbacks)]
    <3>1. <<Callback("connection", c)>> \in Seq(Callbacks)
      BY <2>4
    <3>2. todo' = todo \/ todo' = [todo EXCEPT ![l] = <<Callback("connection", c)>>]
      BY <2>3, Zenon
    <3> QED
      BY <3>1, <3>2 DEF Types, LoopTypes
  <2>6. RemoveConnectionInLoop(c) => pending' \in [Loops -> Seq(MadeFunctors)] /\ map' \subseteq map
    <3>1. Functor("connectionDestroyed", c, TRUE) \in MadeFunctors
      BY <2>2 DEF Functor, Functors, MadeFunctors
    <3> QED
      BY <2>2, <3>1, QueueTypes DEF RemoveConnectionInLoop, Types, ConnTypes
  <2>7. pending' \in [Loops -> Seq(MadeFunctors)]
    BY <2>3, <2>6 DEF Types, LoopTypes
  <2>8. ConnTypes' /\ made' = made
    <3>1. CASE ConnectionEstablished(c) /\ UNCHANGED <<made, map, loopOf, output>>
      BY <1>1, <2>2, <3>1, EstablishedTypes DEF Types, ConnTypes
    <3>2. CASE RemoveConnectionInLoop(c) /\ UNCHANGED <<made, loopOf, state_, channel, output>>
      BY <1>1, <2>6, <3>2 DEF Types, ConnTypes
    <3>3. CASE ConnectionsDestroyed({c}) /\ UNCHANGED map
      <4>1. UNCHANGED <<made, loopOf, output>>
        BY <3>3 DEF ConnectionsDestroyed
      <4> QED
        BY <1>1, <3>3, <4>1, ConnectionsDestroyedTypes DEF Types, ConnTypes
    <3>4. CASE UNCHANGED connVars
      BY <3>4, SameTypes DEF connVars
    <3>5. CASE SendInLoop(c)
      BY <2>2, <3>5, SendInLoopTypes
    <3> QED
      BY <2>3, <3>1, <3>2, <3>3, <3>4, <3>5
  <2>9. SockTypes'
    BY <2>2, <2>3, ShutdownInLoopTypes, SendInLoopTypes, SameTypes
  <2>10. LoopTypes'
    <3>1. ran' = [ran EXCEPT ![l] = @ + 1] /\ UNCHANGED <<phase, active, batch>>
      BY <2>3, Zenon
    <3> QED
      BY <1>1, <2>5, <2>7, <2>8, <3>1 DEF Types, LoopTypes
  <2>11. UserTypes'
    <3>1. CASE ConnectionsDestroyed({c})
      BY <2>2, <2>3, <3>1, DestroyedUserTypes
    <3>2. CASE UNCHANGED held
      BY <2>3, <2>8, <3>2, SameTypes DEF userVars
    <3> QED
      BY <2>3, <3>1, <3>2 DEF connVars
  <2> QED
    BY <2>3, <2>8, <2>9, <2>10, <2>11, SameTypes DEF Types
<1>5. CASE EndFunctors(l)
  <2>1. LoopTypes'
    BY <1>1, <1>5 DEF EndFunctors, connVars, Types, LoopTypes
  <2> QED
    BY <1>5, <2>1, SameTypes DEF EndFunctors, connVars, Types
<1> QED
  BY <1>2, <1>3, <1>4, <1>5

\* What is made of a finite set of connections.
LEMMA SequenceOfSet ==
    ASSUME NEW T, IsFiniteSet(T)
    PROVE  SetToSeq(T) \in Seq(T)
<1>1. Cardinality(T) \in Nat /\ ExistsBijection(1..Cardinality(T), T)
  BY FS_CardinalityType
<1>2. \E f \in [1..Cardinality(T) -> T] : IsInjective(f)
  BY <1>1 DEF ExistsBijection, Bijection, Injection, IsInjective
<1>3. SetToSeq(T) \in [1..Cardinality(T) -> T]
  BY <1>2 DEF SetToSeq
<1> QED
  BY <1>1, <1>3

LEMMA SequenceGrows ==
    ASSUME NEW S, NEW T, S \subseteq T, NEW s \in Seq(S)
    PROVE  s \in Seq(T)
OBVIOUS

LEMMA OneQueueMore ==
    ASSUME NEW S, NEW L, NEW q \in [L -> Seq(S)], NEW l \in L, NEW f \in S
    PROVE  [q EXCEPT ![l] = Append(@, f)] \in [L -> Seq(S)]
OBVIOUS

LEMMA AcceptKeepsTypes ==
    ASSUME Types, UNCHANGED setup, NEW c \in Conns, Accept(c)
    PROVE  Types'
<1> DEFINE l == IF numThreads_ = 0 THEN 0 ELSE next_ + 1
<1>1. /\ Loops' = Loops /\ 0 \in Loops
      /\ numThreads_' = numThreads_ /\ numThreads_ \in Nat
  BY SameTypes
<1>2. l \in Loops
  BY <1>1 DEF Types, AcceptTypes, Loops
<1>3. /\ accepting' = FALSE /\ backlog' = backlog \ {c} /\ next_' = NextInTurn
      /\ made' = made \cup {c} /\ map' = map \cup {c}
      /\ loopOf' = [loopOf EXCEPT ![c] = l]
      /\ UNCHANGED <<gone, output, phase, active, batch, ran, userVars, sock>>
      /\ \/ /\ ConnectionEstablished(c)
            /\ todo' = [todo EXCEPT ![0] = <<Callback("connection", c)>>]
            /\ UNCHANGED pending
         \/ /\ Queue(l, Functor("connectionEstablished", c, TRUE))
            /\ UNCHANGED <<state_, channel, failed, todo>>
  BY DEF Accept
<1> HIDE DEF l
<1>4. AcceptTypes'
  <2>1. next_' \in Nat /\ (next_' = 0 \/ next_' < numThreads_')
    BY <1>1, <1>3 DEF NextInTurn, Types, AcceptTypes
  <2> QED
    BY <1>3, <2>1 DEF Types, AcceptTypes
<1>5. ConnTypes'
  <2>1. channel' \in [Conns -> ChannelType] /\ state_' \in [Conns -> States]
    BY <1>3, EstablishedTypes DEF Types, ConnTypes
  <2>2. IsFiniteSet(made')
    BY <1>3, FS_AddElement DEF Types, ConnTypes
  <2> QED
    BY <1>1, <1>2, <1>3, <2>1, <2>2 DEF Types, ConnTypes
<1>6. MadeFunctors \subseteq MadeFunctors' /\ Callbacks \subseteq Callbacks'
  BY <1>3 DEF MadeFunctors, Callbacks
<1>7. /\ Functor("connectionEstablished", c, TRUE) \in MadeFunctors'
      /\ Callback("connection", c) \in Callbacks'
  BY <1>3 DEF MadeFunctors, Functors, Functor, Callbacks, Callback
<1>8. /\ \A k \in Loops : pending[k] \in Seq(MadeFunctors') /\ batch[k] \in Seq(MadeFunctors')
      /\ \A k \in Loops : todo[k] \in Seq(Callbacks')
  BY <1>6, SequenceGrows DEF Types, LoopTypes
<1>9. pending' \in [Loops -> Seq(MadeFunctors')]
  <2>1. pending' = pending \/ Queue(l, Functor("connectionEstablished", c, TRUE))
    BY <1>3, Zenon
  <2>2. pending \in [Loops -> Seq(MadeFunctors')]
    BY <1>8 DEF Types, LoopTypes
  <2>3. CASE Queue(l, Functor("connectionEstablished", c, TRUE))
    BY <1>2, <1>7, <2>2, <2>3, OneQueueMore, Zenon DEF Queue
  <2> QED
    BY <2>1, <2>2, <2>3
<1>10. todo' \in [Loops -> Seq(Callbacks')]
  <2>1. <<Callback("connection", c)>> \in Seq(Callbacks')
    BY <1>7
  <2> QED
    BY <1>1, <1>3, <1>8, <2>1 DEF Types, LoopTypes
<1>11. batch' \in [Loops -> Seq(MadeFunctors')]
  BY <1>3, <1>8 DEF Types, LoopTypes
<1>12. LoopTypes'
  BY <1>1, <1>3, <1>9, <1>10, <1>11 DEF Types, LoopTypes
<1> QED
  BY <1>3, <1>4, <1>5, <1>12, SameTypes DEF Types

\* The user's callbacks, the peers and the user's thread.
LEMMA OtherTypes ==
    ASSUME Types, UNCHANGED setup, NEW l \in Loops, NEW c \in Conns,
           \/ UserSend(l, c) \/ UserShutdown(l, c)
           \/ Connect(c) \/ Peer(c)
           \/ OtherCalls(c, "send") \/ OtherCalls(c, "shutdown")
           \/ OtherSend(c) \/ OtherShutdown(c) \/ OtherDrops(c)
    PROVE  Types'
<1>1. Loops' = Loops
  BY SameTypes
<1>2. CASE UserSend(l, c)
  BY <1>2, SendInLoopTypes, SameTypes DEF UserSend, Types
<1>3. CASE UserShutdown(l, c)
  <2>1. ConnTypes'
    BY <1>1, <1>3 DEF UserShutdown, Types, ConnTypes, States
  <2> QED
    BY <1>3, <2>1, ShutdownInLoopTypes, SameTypes DEF UserShutdown, Types
<1>4. CASE Connect(c)
  <2>1. AcceptTypes'
    BY <1>4, SameTypes DEF Connect, Types, AcceptTypes
  <2> QED
    BY <1>4, <2>1, SameTypes DEF Connect, connVars, Types
<1>5. CASE Peer(c)
  <2>1. SockTypes'
    BY <1>5 DEF Peer, Types, SockTypes
  <2> QED
    BY <1>5, <2>1, SameTypes DEF Peer, connVars, Types
<1>6. CASE OtherCalls(c, "send") \/ OtherCalls(c, "shutdown")
  <2>1. UserTypes'
    BY <1>6 DEF OtherCalls, connVars, Types, UserTypes
  <2> QED
    BY <1>6, <2>1, SameTypes DEF OtherCalls, connVars, Types
<1>7. CASE OtherSend(c) \/ OtherShutdown(c)
  <2>1. calling[c] # "nothing" /\ c \in made /\ loopOf[c] \in Loops
    BY <1>7 DEF OtherSend, OtherShutdown, Types, UserTypes, ConnTypes
  <2>2. /\ Functor("sendInLoop", c, FALSE) \in MadeFunctors
        /\ Functor("shutdownInLoop", c, TRUE) \in MadeFunctors
    BY <2>1 DEF Functor, Functors, MadeFunctors
  <2>3. pending' \in [Loops -> Seq(MadeFunctors)]
    BY <1>7, <2>1, <2>2, QueueTypes DEF OtherSend, OtherShutdown
  <2>4. UserTypes'
    BY <1>7, <2>1 DEF OtherSend, OtherShutdown, connVars, Types, UserTypes
  <2>5. LoopTypes'
    BY <1>1, <1>7, <2>3, SameTypes DEF OtherSend, OtherShutdown, connVars, Types, LoopTypes
  <2>6. ConnTypes'
    BY <1>1, <1>7 DEF OtherSend, OtherShutdown, connVars, Types, ConnTypes, States
  <2> QED
    BY <1>7, <2>4, <2>5, <2>6, SameTypes DEF OtherSend, OtherShutdown, Types
<1>8. CASE OtherDrops(c)
  <2>1. UserTypes'
    BY <1>8 DEF OtherDrops, connVars, Types, UserTypes
  <2> QED
    BY <1>8, <2>1, SameTypes DEF OtherDrops, connVars, Types
<1> QED
  BY <1>2, <1>3, <1>4, <1>5, <1>6, <1>7, <1>8

\* What ~TcpServer() queues: functors bound to bare addresses.
LEMMA BareFunctors ==
    ASSUME Types, NEW s \in Seq(made)
    PROVE  [i \in DOMAIN s |-> Functor("connectionDestroyed", s[i], FALSE)]
               \in Seq(MadeFunctors \cap QuietFunctors)
<1>1. Len(s) \in Nat /\ DOMAIN s = 1..Len(s) /\ \A i \in DOMAIN s : s[i] \in made
  OBVIOUS
<1>2. \A c \in made :
          Functor("connectionDestroyed", c, FALSE) \in MadeFunctors \cap QuietFunctors
  BY DEF Functor, Functors, MadeFunctors, QuietFunctors, Types, ConnTypes
<1> DEFINE f == [i \in DOMAIN s |-> Functor("connectionDestroyed", s[i], FALSE)]
<1>3. f \in [1..Len(s) -> MadeFunctors \cap QuietFunctors]
  BY <1>1, <1>2, Zenon
<1> HIDE DEF f
<1>4. f \in Seq(MadeFunctors \cap QuietFunctors)
  BY <1>1, <1>3
<1> QED
  BY <1>4 DEF f

LEMMA DestroyQueues ==
    ASSUME Types, DestroyServer
    PROVE  \E more : /\ pending' = [k \in Loops |-> pending[k] \o more[k]]
                     /\ \A k \in Loops : more[k] \in Seq(MadeFunctors \cap QuietFunctors)
<1> DEFINE mine(k) == {c \in map : loopOf[c] = k /\ k # 0}
           cs(k) == SetToSeq(mine(k))
           more(k) == [i \in DOMAIN cs(k) |-> Functor("connectionDestroyed", cs(k)[i], FALSE)]
           f == [k \in Loops |-> more(k)]
<1>1. \A k \in Loops : more(k) \in Seq(MadeFunctors \cap QuietFunctors)
  <2> SUFFICES ASSUME NEW k \in Loops PROVE more(k) \in Seq(MadeFunctors \cap QuietFunctors)
    OBVIOUS
  <2>1. IsFiniteSet(mine(k)) /\ mine(k) \subseteq made
    BY FS_Subset DEF Types, ConnTypes
  <2>2. cs(k) \in Seq(mine(k))
    BY <2>1, SequenceOfSet
  <2> HIDE DEF mine, cs
  <2>3. cs(k) \in Seq(made)
    BY <2>1, <2>2, SequenceGrows
  <2> QED
    BY <2>3, BareFunctors, Zenon
<1>2. pending' = [k \in Loops |-> pending[k] \o more(k)]
  BY DEF DestroyServer
<1> HIDE DEF more
<1>3. /\ pending' = [k \in Loops |-> pending[k] \o f[k]]
      /\ \A k \in Loops : f[k] \in Seq(MadeFunctors \cap QuietFunctors)
  BY <1>1, <1>2
<1> HIDE DEF f
<1> QED
  BY <1>3

\* Such a step keeps the type of the queues.
LEMMA QueuesGrow ==
    ASSUME NEW L, NEW S, NEW T, NEW q \in [L -> Seq(S)], NEW more,
           \A k \in L : more[k] \in Seq(T), T \subseteq S
    PROVE  [k \in L |-> q[k] \o more[k]] \in [L -> Seq(S)]
<1>1. \A k \in L : more[k] \in Seq(S)
  BY SequenceGrows
<1>2. \A k \in L : q[k] \o more[k] \in Seq(S)
  BY <1>1
<1> QED
  BY <1>2

\* The end of the server and of its loops.
LEMMA EndTypes ==
    ASSUME Types, UNCHANGED setup, NEW l \in Loops, DestroyServer \/ LoopOver(l)
    PROVE  Types'
<1>1. Loops' = Loops /\ 0 \in Loops
  BY SameTypes
<1>2. CASE DestroyServer
  <2>3. pending' \in [Loops -> Seq(MadeFunctors)]
    <3>1. PICK more : /\ pending' = [k \in Loops |-> pending[k] \o more[k]]
                      /\ \A k \in Loops : more[k] \in Seq(MadeFunctors \cap QuietFunctors)
      BY <1>2, DestroyQueues
    <3>2. pending \in [Loops -> Seq(MadeFunctors)]
      BY DEF Types, LoopTypes
    <3>3. MadeFunctors \cap QuietFunctors \subseteq MadeFunctors
      OBVIOUS
    <3> DEFINE S == MadeFunctors
               T == MadeFunctors \cap QuietFunctors
    <3>4. /\ \A k \in Loops : more[k] \in Seq(T)
          /\ T \subseteq S /\ pending \in [Loops -> Seq(S)]
      BY <3>1, <3>2, <3>3
    <3> HIDE DEF S, T
    <3>5. [k \in Loops |-> pending[k] \o more[k]] \in [Loops -> Seq(S)]
      BY <3>4, QueuesGrow
    <3> QED
      BY <3>1, <3>5 DEF S
  <2>4. LoopTypes'
    BY <1>1, <1>2, <2>3 DEF DestroyServer, ConnectionsDestroyed, Types, LoopTypes,
                            MadeFunctors, Callbacks
  <2>5. ConnTypes'
    <3>1. channel' \in [Conns -> ChannelType] /\ state_' \in [Conns -> States]
      BY <1>2, ConnectionsDestroyedTypes DEF DestroyServer
    <3> QED
      BY <1>1, <1>2, <3>1 DEF DestroyServer, ConnectionsDestroyed, Types, ConnTypes
  <2>6. AcceptTypes'
    BY <1>2, SameTypes DEF DestroyServer, Types, AcceptTypes
  <2>7. UNCHANGED <<made, sock>> /\ UserTypes'
    <3>1. /\ ConnectionsDestroyed({c \in map : loopOf[c] = 0})
          /\ UNCHANGED <<calling, sent, sock>>
      BY <1>2 DEF DestroyServer
    <3>2. {c \in map : loopOf[c] = 0} \subseteq made
      BY DEF Types, ConnTypes
    <3> QED
      BY <3>1, <3>2, DestroyedUserTypes
  <2> QED
    BY <2>4, <2>5, <2>6, <2>7, SameTypes DEF Types
<1>3. CASE LoopOver(l)
  <2>1. LoopTypes'
    <3>1. <<>> \in Seq(MadeFunctors)
      OBVIOUS
    <3>2. made' = made
      BY <1>3 DEF LoopOver, connVars
    <3>3. Callbacks' = Callbacks /\ MadeFunctors' = MadeFunctors
      BY <3>2, SameTypes
    <3> QED
      BY <1>1, <1>3, <3>1, <3>2, <3>3 DEF LoopOver, Types, LoopTypes
  <2> QED
    BY <1>3, <2>1, SameTypes DEF LoopOver, connVars, Types
<1> QED
  BY <1>2, <1>3

LEMMA TypesNext == Types /\ [Next]_vars => Types'
<1> SUFFICES ASSUME Types, [Next]_vars PROVE Types'
  OBVIOUS
<1>1. CASE UNCHANGED vars
  BY <1>1, SameTypes DEF vars, connVars, Types
<1>2. CASE Next
  <2>1. UNCHANGED setup /\ 0 \in Loops
    BY <1>2, SameTypes DEF Next
  <2>2. ASSUME NEW l \in Loops, LoopStep(l) PROVE Types'
    <3>1. CASE \E c \in Conns : \/ HandleEvent(l, c) \/ CloseCallback(l, c)
                                \/ ErrorCallback(l, c) \/ ReadCallback(l, c)
                                \/ WriteCallback(l, c) \/ UserReturn(l, c)
      BY <2>1, <3>1, EventTypes
    <3>2. CASE \E c \in Conns : Accept(c)
      BY <2>1, <3>2, AcceptKeepsTypes
    <3>3. CASE PollReturn(l) \/ BeginFunctors(l) \/ RunFunctor(l) \/ EndFunctors(l)
      BY <2>1, <3>3, RoundTypes
    <3> QED
      BY <2>2, <3>1, <3>2, <3>3 DEF LoopStep
  <2>3. ASSUME NEW l \in Loops, LoopOver(l) PROVE Types'
    BY <2>1, <2>3, EndTypes
  <2>4. CASE DestroyServer
    BY <2>1, <2>4, EndTypes
  <2>5. ASSUME NEW l \in Loops, NEW c \in Conns, UserSend(l, c) \/ UserShutdown(l, c)
        PROVE  Types'
    BY <2>1, <2>5, OtherTypes
  <2>6. ASSUME NEW c \in Conns,
               \/ Connect(c) \/ Peer(c)
               \/ OtherCalls(c, "send") \/ OtherCalls(c, "shutdown")
               \/ OtherSend(c) \/ OtherShutdown(c) \/ OtherDrops(c)
        PROVE  Types'
    BY <2>1, <2>6, OtherTypes
  <2> QED
    BY <1>2, <2>2, <2>3, <2>4, <2>5, <2>6 DEF Next
<1> QED
  BY <1>1, <1>2

\* Every variable keeps its type; what is queued, active or called is a
\* connection that has been made.
THEOREM TcpTypeCorrect == Spec => []TypeOK
<1> QED
  BY TypesInit, TypesNext, TypesSuffice, PTL DEF Spec

-----------------------------------------------------------------------------
(* shutdown() waits for output.                                            *)

NoOtherThread ==
    /\ held = {} /\ \A c \in Conns : calling[c] = "nothing"
    /\ pending \in [Loops -> Seq(QuietFunctors)]
    /\ batch \in [Loops -> Seq(QuietFunctors)]

\* Until a connection is closed, EPOLLOUT is asked for while output waits; the
\* read side is not shut down before shutdown().
OutputWaits(c) ==
    /\ "shut" \in sock[c] => ~output[c]
    /\ failed = {} =>
         /\ state_[c] = "kConnecting" => ~output[c]
         /\ state_[c] \in {"kConnecting", "kConnected"} => "shut" \notin sock[c]
         /\ output[c] /\ state_[c] \in {"kConnected", "kDisconnecting"}
                => IsWriting(channel[c])

AllWait == \A c \in Conns : OutputWaits(c)
WaitInv == ~setup.otherThread => NoOtherThread /\ AllWait

LEMMA WaitInit == Init => WaitInv
<1> SUFFICES ASSUME Init PROVE WaitInv
  OBVIOUS
<1>1. NoOtherThread
  BY DEF Init, NoOtherThread
<1>2. AllWait
  BY DEF Init, AllWait, OutputWaits
<1> QED
  BY <1>1, <1>2 DEF WaitInv

\* A connection that a step leaves alone, but for what was reported of it and
\* the kernel's marks other than "shut".
LEMMA WaitsAsBefore ==
    ASSUME NEW c, OutputWaits(c), failed = {},
           output'[c] = output[c], state_'[c] = state_[c],
           channel'[c].events = channel[c].events,
           "shut" \in sock'[c] => "shut" \in sock[c]
    PROVE  OutputWaits(c)'
BY DEF OutputWaits, IsWriting

LEMMA SendWaits ==
    ASSUME Types, AllWait, failed = {}, NEW c \in Conns, state_[c] = "kConnected",
           SendInLoop(c)
    PROVE  AllWait'
<1> SUFFICES ASSUME NEW d \in Conns PROVE OutputWaits(d)'
  BY DEF AllWait
<1>1. OutputWaits(d)
  BY DEF AllWait
<1>2. /\ EnableWriting(channel[c]).events = channel[c].events \cup {"OUT"}
      /\ channel \in [Conns -> ChannelType] /\ output \in [Conns -> BOOLEAN]
      /\ sock \in [Conns -> SUBSET {"data", "fin", "rst", "err", "shut", "full"}]
  BY ChannelOperations DEF Types, ConnTypes, SockTypes
<1>3. UNCHANGED <<state_, failed>>
  BY DEF SendInLoop
<1>4. "shut" \in sock'[d] <=> "shut" \in sock[d]
  BY <1>2 DEF SendInLoop, WriteAll, WritePart, WriteFails
<1>5. CASE d # c
  <2>1. output'[d] = output[d] /\ channel'[d] = channel[d]
    BY <1>2, <1>5 DEF SendInLoop
  <2> QED
    BY <1>1, <1>3, <1>4, <2>1, WaitsAsBefore
<1>6. CASE d = c
  <2>1. "shut" \notin sock'[c]
    BY <1>1, <1>4, <1>6 DEF OutputWaits
  <2>2. \/ output'[c] = output[c] /\ channel'[c] = channel[c]
        \/ channel'[c].events = channel[c].events \cup {"OUT"}
    BY <1>2 DEF SendInLoop
  <2> QED
    BY <1>1, <1>3, <1>6, <2>1, <2>2 DEF OutputWaits, IsWriting
<1> QED
  BY <1>5, <1>6

LEMMA CloseWaits ==
    ASSUME Types, AllWait, failed = {}, NEW l, NEW c \in Conns, HandleClose(l, c),
           UNCHANGED sock
    PROVE  AllWait'
<1> SUFFICES ASSUME NEW d \in Conns PROVE OutputWaits(d)'
  BY DEF AllWait
<1>1. OutputWaits(d)
  BY DEF AllWait
<1>2. /\ state_' = [state_ EXCEPT ![c] = "kDisconnected"]
      /\ channel' = [channel EXCEPT ![c] = DisableAll(@)]
      /\ UNCHANGED output
  BY DEF HandleClose
<1>3. CASE d # c
  BY <1>1, <1>2, <1>3, WaitsAsBefore DEF Types, ConnTypes
<1>4. CASE d = c
  BY <1>1, <1>2, <1>4 DEF Types, ConnTypes, OutputWaits
<1> QED
  BY <1>3, <1>4

LEMMA DestroyedWaits ==
    ASSUME Types, AllWait, failed = {}, NEW cs, ConnectionsDestroyed(cs),
           UNCHANGED sock
    PROVE  AllWait'
<1> SUFFICES ASSUME NEW d \in Conns PROVE OutputWaits(d)'
  BY DEF AllWait
<1>1. OutputWaits(d) /\ channel[d] \in ChannelType
  BY DEF AllWait, Types, ConnTypes
<1>2. UNCHANGED output
  BY DEF ConnectionsDestroyed
<1>3. CASE d \in cs /\ state_[d] = "kConnected"
  <2>1. state_'[d] = "kDisconnected"
    BY <1>3 DEF ConnectionsDestroyed
  <2> QED
    BY <1>1, <1>2, <2>1 DEF OutputWaits
<1>4. CASE ~(d \in cs /\ state_[d] = "kConnected")
  <2>1. state_'[d] = state_[d]
    BY <1>4 DEF ConnectionsDestroyed
  <2>2. channel'[d] = IF d \in cs THEN Removed(channel[d]) ELSE channel[d]
    BY <1>4 DEF ConnectionsDestroyed
  <2>3. channel'[d].events = channel[d].events
    BY <1>1, <2>2, RemovedLeaves
  <2> QED
    BY <1>1, <1>2, <2>1, <2>3, WaitsAsBefore
<1> QED
  BY <1>3, <1>4

LEMMA EstablishedWaits ==
    ASSUME Types, AllWait, failed = {}, NEW c \in Conns, ConnectionEstablished(c),
           UNCHANGED <<output, sock>>
    PROVE  AllWait'
<1> SUFFICES ASSUME NEW d \in Conns PROVE OutputWaits(d)'
  BY DEF AllWait
<1>1. OutputWaits(d)
  BY DEF AllWait
<1>2. CASE d # c
  BY <1>1, <1>2, WaitsAsBefore DEF ConnectionEstablished, Types, ConnTypes
<1>3. CASE d = c
  <2>1. state_[c] # "kConnecting" => failed' # {}
    BY DEF ConnectionEstablished, Failing
  <2> QED
    BY <1>1, <1>3, <2>1 DEF OutputWaits
<1> QED
  BY <1>2, <1>3

LEMMA LoopStepWaits ==
    ASSUME Types, failed = {}, NoOtherThread, AllWait, UNCHANGED setup, NEW l \in Loops,
           LoopStep(l)
    PROVE  AllWait'
<1>0. /\ state_ \in [Conns -> States] /\ channel \in [Conns -> ChannelType]
      /\ output \in [Conns -> BOOLEAN]
      /\ sock \in [Conns -> SUBSET {"data", "fin", "rst", "err", "shut", "full"}]
  BY DEF Types, ConnTypes, SockTypes
<1>1. CASE PollReturn(l)
  <2> SUFFICES ASSUME NEW c \in Conns PROVE OutputWaits(c)'
    BY DEF AllWait
  <2>1. UNCHANGED <<state_, output, failed, sock>>
    BY <1>1 DEF PollReturn
  <2>2. channel'[c].events = channel[c].events
    BY <1>0, <1>1 DEF PollReturn, ChannelType
  <2> QED
    BY <2>1, <2>2, WaitsAsBefore DEF AllWait
<1>2. CASE BeginFunctors(l) \/ EndFunctors(l)
  <2>1. UNCHANGED <<state_, channel, output, failed, sock>>
    BY <1>2 DEF BeginFunctors, EndFunctors, connVars
  <2> QED
    BY <2>1 DEF AllWait, OutputWaits, IsWriting
<1>3. CASE RunFunctor(l)
  <2> DEFINE f == batch[l][ran[l] + 1]
             c == f.conn
  <2>1. f \in QuietFunctors
    <3>1. ran[l] + 1 \in 1..Len(batch[l]) /\ batch[l] \in Seq(QuietFunctors)
      BY <1>3 DEF RunFunctor, Types, LoopTypes, NoOtherThread
    <3> QED
      BY <3>1
  <2>2. c \in Conns /\ f.op \notin {"shutdownInLoop", "sendInLoop"}
    BY <2>1 DEF QuietFunctors, Functors
  <2>3. \/ ConnectionEstablished(c) /\ UNCHANGED <<output, sock>>
        \/ UNCHANGED <<state_, channel, output, sock>>
        \/ ConnectionsDestroyed({c}) /\ UNCHANGED sock
    BY <1>3, <2>2 DEF RunFunctor
  <2> HIDE DEF f, c
  <2>4. CASE UNCHANGED <<state_, channel, output, sock>>
    BY <2>4 DEF AllWait, OutputWaits, IsWriting
  <2> QED
    BY <2>2, <2>3, <2>4, EstablishedWaits, DestroyedWaits
<1>4. ASSUME NEW c \in Conns, HandleEvent(l, c) PROVE AllWait'
  <2>1. UNCHANGED <<state_, channel, output, failed, sock>>
    BY <1>4 DEF HandleEvent, connVars
  <2> QED
    BY <2>1 DEF AllWait, OutputWaits, IsWriting
<1>5. ASSUME NEW c \in Conns, CloseCallback(l, c) PROVE AllWait'
  BY <1>5, CloseWaits DEF CloseCallback
<1>6. ASSUME NEW c \in Conns,
             \/ ErrorCallback(l, c)
             \/ ReadCallback(l, c) /\ UNCHANGED connVars
             \/ UserReturn(l, c)
      PROVE  AllWait'
  <2> SUFFICES ASSUME NEW d \in Conns PROVE OutputWaits(d)'
    BY DEF AllWait
  <2>1. UNCHANGED <<state_, channel, output, failed>>
    BY <1>6 DEF ErrorCallback, UserReturn, connVars
  <2>2. \/ UNCHANGED sock
        \/ \E x \in {"data", "err"} : sock' = [sock EXCEPT ![c] = @ \ {x}]
    BY <1>6 DEF ErrorCallback, ReadCallback, UserReturn
  <2>3. "shut" \in sock'[d] => "shut" \in sock[d]
    BY <1>0, <2>2
  <2> QED
    BY <2>1, <2>3, WaitsAsBefore DEF AllWait
<1>7. ASSUME NEW c \in Conns, ReadCallback(l, c) PROVE AllWait'
  <2>1. \/ UNCHANGED connVars
        \/ HandleClose(l, c) /\ UNCHANGED sock
    BY <1>7 DEF ReadCallback
  <2> QED
    BY <1>6, <1>7, <2>1, CloseWaits
<1>8. ASSUME NEW c \in Conns, WriteCallback(l, c) PROVE AllWait'
  <2> SUFFICES ASSUME NEW d \in Conns PROVE OutputWaits(d)'
    BY DEF AllWait
  <2>1. OutputWaits(d) /\ UNCHANGED <<state_, failed>>
    BY <1>8 DEF AllWait, WriteCallback
  <2>2. CASE d # c
    <3>1. output'[d] = output[d] /\ channel'[d] = channel[d] /\ sock'[d] = sock[d]
      BY <1>0, <1>8, <2>2 DEF WriteCallback, WritePart, WriteFails
    <3> QED
      BY <2>1, <3>1, WaitsAsBefore
  <2>3. CASE d = c
    <3>1. \/ /\ ~output'[c]
             /\ state_[c] # "kDisconnecting" => sock'[c] = sock[c]
          \/ /\ output'[c] = output[c] /\ channel'[c] = channel[c]
             /\ "shut" \in sock'[c] => "shut" \in sock[c]
      BY <1>0, <1>8 DEF WriteCallback, WritePart, WriteFails
    <3>2. CASE /\ ~output'[c]
               /\ state_[c] # "kDisconnecting" => sock'[c] = sock[c]
      BY <2>1, <2>3, <3>2 DEF OutputWaits
    <3>3. CASE /\ output'[c] = output[c] /\ channel'[c] = channel[c]
               /\ "shut" \in sock'[c] => "shut" \in sock[c]
      BY <2>1, <2>3, <3>3, WaitsAsBefore
    <3> QED
      BY <3>1, <3>2, <3>3
  <2> QED
    BY <2>2, <2>3
<1>9. ASSUME NEW c \in Conns, Accept(c) PROVE AllWait'
  <2>1. UNCHANGED <<output, sock>>
    BY <1>9 DEF Accept
  <2>2. ConnectionEstablished(c) \/ UNCHANGED <<state_, channel, failed>>
    BY <1>9 DEF Accept
  <2>3. CASE UNCHANGED <<state_, channel, failed>>
    BY <2>1, <2>3 DEF AllWait, OutputWaits, IsWriting
  <2> QED
    BY <2>1, <2>2, <2>3, EstablishedWaits
<1>10. ASSUME NEW c \in Conns, UserReturn(l, c) PROVE AllWait'
  BY <1>6, <1>10
<1> QED
  BY <1>1, <1>2, <1>3, <1>4, <1>5, <1>6, <1>7, <1>8, <1>9, <1>10 DEF LoopStep

LEMMA NextWaits ==
    ASSUME Types, NoOtherThread, AllWait, ~setup.otherThread, Next
    PROVE  AllWait'
<1>0. /\ state_ \in [Conns -> States] /\ channel \in [Conns -> ChannelType]
      /\ sock \in [Conns -> SUBSET {"data", "fin", "rst", "err", "shut", "full"}]
      /\ failed = {} /\ UNCHANGED setup
  BY DEF Types, ConnTypes, SockTypes, Next
<1>1. ASSUME NEW l \in Loops, LoopStep(l) PROVE AllWait'
  BY <1>0, <1>1, LoopStepWaits
<1>2. ASSUME NEW l \in Loops, LoopOver(l) PROVE AllWait'
  <2>1. UNCHANGED <<state_, channel, output, failed, sock>>
    BY <1>2 DEF LoopOver, connVars
  <2> QED
    BY <2>1 DEF AllWait, OutputWaits, IsWriting
<1>3. ASSUME NEW l \in Loops, NEW c \in Conns, UserSend(l, c) PROVE AllWait'
  BY <1>0, <1>3, SendWaits DEF UserSend
<1>4. ASSUME NEW l \in Loops, NEW c \in Conns, UserShutdown(l, c) PROVE AllWait'
  <2> SUFFICES ASSUME NEW d \in Conns PROVE OutputWaits(d)'
    BY DEF AllWait
  <2>1. OutputWaits(d) /\ UNCHANGED <<channel, output, failed>>
    BY <1>4 DEF AllWait, UserShutdown
  <2>2. /\ state_[c] = "kConnected"
        /\ state_' = [state_ EXCEPT ![c] = "kDisconnecting"]
        /\ sock' = IF IsWriting(channel[c]) THEN sock
                   ELSE [sock EXCEPT ![c] = @ \cup {"shut"}]
    BY <1>4 DEF UserShutdown, ShutdownInLoop
  <2>3. CASE d # c
    <3>1. state_'[d] = state_[d] /\ sock'[d] = sock[d]
      BY <1>0, <2>2, <2>3
    <3> QED
      BY <1>0, <2>1, <3>1, WaitsAsBefore
  <2>4. CASE d = c
    <3>1. output[c] => IsWriting(channel[c])
      BY <1>0, <2>1, <2>2, <2>4 DEF OutputWaits
    <3>2. output[c] => sock'[c] = sock[c]
      BY <2>2, <3>1
    <3>3. state_'[c] = "kDisconnecting"
      BY <1>0, <2>2
    <3> QED
      BY <2>1, <2>4, <3>1, <3>2, <3>3 DEF OutputWaits, IsWriting
  <2> QED
    BY <2>3, <2>4
<1>5. ASSUME NEW c \in Conns, Peer(c) PROVE AllWait'
  <2> SUFFICES ASSUME NEW d \in Conns PROVE OutputWaits(d)'
    BY DEF AllWait
  <2>1. UNCHANGED <<state_, channel, output, failed>>
    BY <1>5 DEF Peer, connVars
  <2>2. "shut" \in sock'[d] => "shut" \in sock[d]
    BY <1>0, <1>5 DEF Peer
  <2> QED
    BY <1>0, <2>1, <2>2, WaitsAsBefore DEF AllWait
<1>6. ASSUME NEW c \in Conns,
             \/ Connect(c) \/ OtherDrops(c)
             \/ OtherCalls(c, "send") \/ OtherCalls(c, "shutdown")
      PROVE  AllWait'
  <2>1. UNCHANGED <<state_, channel, output, failed, sock>>
    BY <1>6 DEF Connect, OtherDrops, OtherCalls, connVars
  <2> QED
    BY <2>1 DEF AllWait, OutputWaits, IsWriting
<1>7. ASSUME NEW c \in Conns, OtherSend(c) \/ OtherShutdown(c) PROVE AllWait'
  BY <1>7 DEF OtherSend, OtherShutdown, NoOtherThread
<1>8. CASE DestroyServer
  <2>1. ConnectionsDestroyed({c \in map : loopOf[c] = 0}) /\ UNCHANGED sock
    BY <1>8 DEF DestroyServer
  <2> QED
    BY <1>0, <2>1, DestroyedWaits
<1> QED
  BY <1>1, <1>2, <1>3, <1>4, <1>5, <1>6, <1>7, <1>8 DEF Next

\* What the loops queue among themselves.
LEMMA OwnQueues ==
    ASSUME Types, pending \in [Loops -> Seq(QuietFunctors)], NEW l \in Loops,
           NEW c \in made,
           \/ HandleClose(l, c) \/ RemoveConnectionInLoop(c)
           \/ Queue(l, Functor("connectionEstablished", c, TRUE))
    PROVE  pending' \in [Loops -> Seq(QuietFunctors)]
<1>1. /\ Functor("connectionDestroyed", c, TRUE) \in QuietFunctors
      /\ Functor("removeConnectionInLoop", c, TRUE) \in QuietFunctors
      /\ Functor("connectionEstablished", c, TRUE) \in QuietFunctors
  BY DEF Functor, Functors, QuietFunctors, Types, ConnTypes
<1>2. loopOf[c] \in Loops /\ 0 \in Loops
  BY DEF Types, ConnTypes, AcceptTypes, Setup, Loops, numThreads_
<1>3. \A k \in Loops : \A f \in QuietFunctors :
          Queue(k, f) => pending' \in [Loops -> Seq(QuietFunctors)]
  BY OneQueueMore DEF Queue
<1> QED
  BY <1>1, <1>2, <1>3 DEF HandleClose, RemoveConnectionInLoop

LEMMA QuietStep ==
    ASSUME Types, NoOtherThread, UNCHANGED setup, NEW l \in Loops, LoopStep(l),
           ~setup.otherThread
    PROVE  NoOtherThread'
<1>1. Loops' = Loops /\ 0 \in Loops /\ numThreads_ \in Nat
  BY SameTypes
<1>2. /\ held = {} /\ \A c \in Conns : calling[c] = "nothing"
      /\ pending \in [Loops -> Seq(QuietFunctors)]
      /\ batch \in [Loops -> Seq(QuietFunctors)]
  BY DEF NoOtherThread
<1>3. CASE BeginFunctors(l)
  <2>1. /\ batch' = [batch EXCEPT ![l] = pending[l]]
        /\ pending' = [pending EXCEPT ![l] = <<>>]
        /\ UNCHANGED <<held, calling>>
    BY <1>3 DEF BeginFunctors, userVars
  <2>2. pending[l] \in Seq(QuietFunctors) /\ <<>> \in Seq(QuietFunctors)
    BY <1>2
  <2> QED
    BY <1>1, <1>2, <2>1, <2>2 DEF NoOtherThread
<1>4. CASE EndFunctors(l)
  <2>1. batch' = [batch EXCEPT ![l] = <<>>] /\ UNCHANGED <<pending, held, calling>>
    BY <1>4 DEF EndFunctors, userVars
  <2>2. <<>> \in Seq(QuietFunctors)
    OBVIOUS
  <2> QED
    BY <1>1, <1>2, <2>1, <2>2 DEF NoOtherThread
<1>5. CASE UNCHANGED <<batch, held, calling>> /\ pending' \in [Loops -> Seq(QuietFunctors)]
  BY <1>1, <1>2, <1>5 DEF NoOtherThread
<1>6. CASE UNCHANGED <<batch, pending, held, calling>>
  BY <1>2, <1>5, <1>6
<1>7. CASE PollReturn(l)
  BY <1>6, <1>7 DEF PollReturn, userVars
<1>8. CASE RunFunctor(l)
  <2> DEFINE f == batch[l][ran[l] + 1]
             c == f.conn
  <2>1. f \in QuietFunctors /\ f \in MadeFunctors
    <3>1. /\ ran[l] + 1 \in 1..Len(batch[l])
          /\ batch[l] \in Seq(QuietFunctors) /\ batch[l] \in Seq(MadeFunctors)
      BY <1>2, <1>8 DEF RunFunctor, Types, LoopTypes
    <3> QED
      BY <3>1
  <2>2. c \in made /\ f.op \notin {"shutdownInLoop", "sendInLoop"}
    BY <2>1 DEF QuietFunctors, MadeFunctors
  <2>3. /\ UNCHANGED pending \/ RemoveConnectionInLoop(c)
        /\ UNCHANGED <<batch, calling>> /\ (UNCHANGED held \/ ConnectionsDestroyed({c}))
    BY <1>8, <2>2 DEF RunFunctor
  <2> HIDE DEF f, c
  <2>4. UNCHANGED held
    BY <2>3, DestroyedQuiet
  <2>5. CASE RemoveConnectionInLoop(c)
    <3>1. pending' \in [Loops -> Seq(QuietFunctors)]
      BY <1>2, <2>2, <2>5, OwnQueues
    <3> QED
      BY <1>5, <2>3, <2>4, <3>1
  <2> QED
    BY <1>6, <2>3, <2>4, <2>5
<1>9. ASSUME NEW c \in Conns,
             HandleEvent(l, c) \/ ErrorCallback(l, c) \/ WriteCallback(l, c)
      PROVE  NoOtherThread'
  BY <1>6, <1>9 DEF HandleEvent, ErrorCallback, WriteCallback, userVars
<1>10. ASSUME NEW c \in Conns, UserReturn(l, c) PROVE NoOtherThread'
  BY <1>6, <1>10, NothingPassedOn DEF UserReturn
<1>11. ASSUME NEW c \in Conns, CloseCallback(l, c) \/ ReadCallback(l, c)
       PROVE  NoOtherThread'
  <2>1. UNCHANGED pending \/ HandleClose(l, c)
    BY <1>11 DEF CloseCallback, ReadCallback
  <2>2. UNCHANGED <<batch, held, calling>>
    BY <1>11 DEF CloseCallback, ReadCallback, userVars
  <2>3. c \in made
    <3>1. todo[l] # <<>> /\ Head(todo[l]).conn = c /\ todo[l] \in Seq(Callbacks)
      BY <1>11 DEF CloseCallback, ReadCallback, NextIs, Callback, Types, LoopTypes
    <3>2. Head(todo[l]) \in Callbacks
      BY <3>1
    <3> QED
      BY <3>1, <3>2 DEF Callbacks
  <2>4. CASE HandleClose(l, c)
    <3>1. pending' \in [Loops -> Seq(QuietFunctors)]
      BY <1>2, <2>3, <2>4, OwnQueues
    <3> QED
      BY <1>5, <2>2, <3>1
  <2> QED
    BY <1>6, <2>1, <2>2, <2>4
<1>12. ASSUME NEW c \in Conns, Accept(c) PROVE NoOtherThread'
  <2> DEFINE k == IF numThreads_ = 0 THEN 0 ELSE next_ + 1
  <2>1. k \in Loops
    BY <1>1 DEF Types, AcceptTypes, Loops
  <2>2. /\ UNCHANGED pending \/ Queue(k, Functor("connectionEstablished", c, TRUE))
        /\ UNCHANGED <<batch, held, calling>>
    BY <1>12 DEF Accept, userVars
  <2> HIDE DEF k
  <2>3. Functor("connectionEstablished", c, TRUE) \in QuietFunctors
    BY <1>12 DEF Functor, Functors, QuietFunctors
  <2>4. CASE Queue(k, Functor("connectionEstablished", c, TRUE))
    <3>1. pending' \in [Loops -> Seq(QuietFunctors)]
      BY <1>2, <2>1, <2>3, <2>4, OneQueueMore, Zenon DEF Queue
    <3> QED
      BY <1>5, <2>2, <3>1
  <2> QED
    BY <1>6, <2>2, <2>4
<1> QED
  BY <1>3, <1>4, <1>7, <1>8, <1>9, <1>10, <1>11, <1>12 DEF LoopStep

LEMMA QuietNext ==
    ASSUME Types, NoOtherThread, ~setup.otherThread, Next
    PROVE  NoOtherThread'
<1>1. UNCHANGED setup /\ Loops' = Loops
  BY SameTypes DEF Next
<1>2. /\ held = {} /\ \A c \in Conns : calling[c] = "nothing"
      /\ pending \in [Loops -> Seq(QuietFunctors)]
      /\ batch \in [Loops -> Seq(QuietFunctors)]
  BY DEF NoOtherThread
<1>3. CASE UNCHANGED <<loopVars, held, calling>>
  BY <1>1, <1>2, <1>3 DEF NoOtherThread, loopVars
<1>4. ASSUME NEW l \in Loops, LoopStep(l) PROVE NoOtherThread'
  BY <1>1, <1>4, QuietStep
<1>5. ASSUME NEW l \in Loops, LoopOver(l) PROVE NoOtherThread'
  <2>1. pending' = [pending EXCEPT ![l] = <<>>] /\ UNCHANGED <<batch, held, calling>>
    BY <1>5 DEF LoopOver, userVars
  <2>2. <<>> \in Seq(QuietFunctors)
    OBVIOUS
  <2> QED
    BY <1>1, <1>2, <2>1, <2>2 DEF NoOtherThread
<1>6. ASSUME NEW l \in Loops, NEW c \in Conns, UserSend(l, c) \/ UserShutdown(l, c)
      PROVE  NoOtherThread'
  BY <1>3, <1>6 DEF UserSend, UserShutdown, userVars
<1>7. ASSUME NEW c \in Conns, Connect(c) \/ Peer(c) PROVE NoOtherThread'
  BY <1>3, <1>7 DEF Connect, Peer, userVars
<1>8. ASSUME NEW c \in Conns,
             \/ OtherCalls(c, "send") \/ OtherCalls(c, "shutdown")
             \/ OtherSend(c) \/ OtherShutdown(c) \/ OtherDrops(c)
      PROVE  FALSE
  BY <1>2, <1>8 DEF OtherCalls, OtherSend, OtherShutdown, OtherDrops
<1>9. CASE DestroyServer
  <2>1. PICK more : /\ pending' = [k \in Loops |-> pending[k] \o more[k]]
                    /\ \A k \in Loops : more[k] \in Seq(MadeFunctors \cap QuietFunctors)
    BY <1>9, DestroyQueues
  <2>2. pending' \in [Loops -> Seq(QuietFunctors)]
    <3> DEFINE S == QuietFunctors
               T == MadeFunctors \cap QuietFunctors
    <3>1. /\ \A k \in Loops : more[k] \in Seq(T)
          /\ T \subseteq S /\ pending \in [Loops -> Seq(S)]
      BY <1>2, <2>1
    <3> HIDE DEF S, T
    <3>2. [k \in Loops |-> pending[k] \o more[k]] \in [Loops -> Seq(S)]
      BY <3>1, QueuesGrow
    <3> QED
      BY <2>1, <3>2 DEF S
  <2>3. UNCHANGED <<batch, held, calling>>
    BY <1>9, DestroyedQuiet DEF DestroyServer
  <2> QED
    BY <1>1, <1>2, <2>2, <2>3 DEF NoOtherThread
<1> QED
  BY <1>4, <1>5, <1>6, <1>7, <1>8, <1>9 DEF Next

LEMMA WaitNext == Types /\ WaitInv /\ [Next]_vars => WaitInv'
<1> SUFFICES ASSUME Types, WaitInv, [Next]_vars, ~setup'.otherThread
             PROVE  NoOtherThread' /\ AllWait'
  BY DEF WaitInv
<1>1. UNCHANGED setup
  BY DEF Next, vars
<1>2. ~setup.otherThread /\ NoOtherThread /\ AllWait
  BY <1>1 DEF WaitInv
<1>3. CASE Next
  BY <1>2, <1>3, QuietNext, NextWaits
<1>4. CASE UNCHANGED vars
  <2>1. Loops' = Loops
    BY <1>1 DEF Loops, numThreads_
  <2> QED
    BY <1>2, <1>4, <2>1 DEF vars, connVars, loopVars, userVars, NoOtherThread, AllWait,
                            OutputWaits, IsWriting
<1> QED
  BY <1>3, <1>4

\* shutdown() shuts nothing down while output waits, however it interleaves
\* with partial writes, for any number of loops and connections.
THEOREM ShutdownAlwaysWaits == Spec => []ShutdownWaits
<1>1. Init => Types /\ WaitInv
  BY TypesInit, WaitInit
<1>2. Types /\ WaitInv /\ [Next]_vars => Types' /\ WaitInv'
  BY TypesNext, WaitNext
<1>3. WaitInv => ShutdownWaits
  BY DEF WaitInv, AllWait, OutputWaits, ShutdownWaits
<1> QED
  BY <1>1, <1>2, <1>3, PTL DEF Spec

-----------------------------------------------------------------------------
(* A connection that was closed leaves the map.                            *)

\* Functor f of loop l is still to be run.
InBatch(l, f) == \E i \in 1..Len(batch[l]) : i > ran[l] /\ batch[l][i] = f
InPending(l, f) == \E i \in 1..Len(pending[l]) : pending[l][i] = f
Unrun(l, f) == InPending(l, f) \/ InBatch(l, f)
Removal(c) == Functor("removeConnectionInLoop", c, TRUE)

BatchesCleared == \A l \in Loops : phase[l] # "functors" => batch[l] = <<>> /\ ran[l] = 0

\* What was not made is as it was; what is made waits no longer.
Unmade ==
    /\ backlog \cap made = {}
    /\ \A c \in Conns \ made : state_[c] = "kConnecting"

\* What is to be destroyed has left the map.
DestroyedLeft ==
    \A l \in Loops : \A f \in MadeFunctors :
        Unrun(l, f) /\ f.op = "connectionDestroyed" => f.conn \notin map

ClosedQueued == \A c \in map : state_[c] = "kDisconnected" => Unrun(0, Removal(c))

LeaveInv == BatchesCleared /\ Unmade /\ DestroyedLeft /\ ClosedQueued

LEMMA LeaveInit == Init => LeaveInv
<1> SUFFICES ASSUME Init PROVE LeaveInv
  OBVIOUS
<1>1. \A l \in Loops : \A f : ~Unrun(l, f)
  BY DEF Init, Unrun, InBatch, InPending
<1> QED
  BY <1>1 DEF Init, LeaveInv, BatchesCleared, Unmade, DestroyedLeft, ClosedQueued

\* How the steps of a loop change what is to be run.
LEMMA UnrunSteps ==
    ASSUME Types, BatchesCleared, NEW l \in Loops, NEW k \in Loops, NEW g
    PROVE  /\ UNCHANGED <<pending, batch, ran>> => (Unrun(k, g)' <=> Unrun(k, g))
           /\ \A f : Queue(l, f) /\ UNCHANGED <<batch, ran>>
                  => (Unrun(k, g)' <=> Unrun(k, g) \/ (k = l /\ g = f))
           /\ BeginFunctors(l) \/ EndFunctors(l) => (Unrun(k, g)' <=> Unrun(k, g))
<1>1. /\ pending \in [Loops -> Seq(MadeFunctors)] /\ batch \in [Loops -> Seq(MadeFunctors)]
      /\ ran \in [Loops -> Nat] /\ phase \in [Loops -> {"poll", "events", "functors", "over"}]
  BY DEF Types, LoopTypes
<1>2. UNCHANGED <<pending, batch, ran>> => (Unrun(k, g)' <=> Unrun(k, g))
  BY DEF Unrun, InBatch, InPending
<1>3. ASSUME NEW f, Queue(l, f), UNCHANGED <<batch, ran>>
      PROVE  Unrun(k, g)' <=> Unrun(k, g) \/ (k = l /\ g = f)
  <2>1. InBatch(k, g)' <=> InBatch(k, g)
    BY <1>3 DEF InBatch
  <2>2. CASE k # l
    <3>1. pending'[k] = pending[k]
      BY <1>1, <1>3, <2>2 DEF Queue
    <3> QED
      BY <2>1, <2>2, <3>1 DEF Unrun, InPending
  <2>3. CASE k = l
    <3> DEFINE q == pending[l]
    <3>1. pending'[k] = Append(q, f) /\ q \in Seq(MadeFunctors)
      BY <1>1, <1>3, <2>3 DEF Queue
    <3>2. /\ Len(Append(q, f)) = Len(q) + 1 /\ Len(q) \in Nat
          /\ \A i \in 1..Len(q) : Append(q, f)[i] = q[i]
          /\ Append(q, f)[Len(q) + 1] = f
      BY <3>1
    <3> HIDE DEF q
    <3>3. (\E i \in 1..Len(Append(q, f)) : Append(q, f)[i] = g)
              <=> (\E i \in 1..Len(q) : q[i] = g) \/ g = f
      BY <3>2
    <3> QED
      BY <2>1, <2>3, <3>1, <3>3 DEF Unrun, InPending, q
  <2> QED
    BY <2>2, <2>3
<1>4. ASSUME BeginFunctors(l) PROVE Unrun(k, g)' <=> Unrun(k, g)
  <2>1. /\ batch[l] = <<>> /\ ran[l] = 0
        /\ batch'[l] = pending[l] /\ pending'[l] = <<>> /\ ran' = ran
        /\ k # l => batch'[k] = batch[k] /\ pending'[k] = pending[k]
    BY <1>1, <1>4 DEF BeginFunctors, BatchesCleared
  <2>2. CASE k = l
    <3>1. ~InBatch(k, g) /\ ~InPending(k, g)'
      BY <2>1, <2>2 DEF InBatch, InPending
    <3>2. InBatch(k, g)' <=> \E i \in 1..Len(pending[k]) : i > 0 /\ pending[k][i] = g
      BY <2>1, <2>2 DEF InBatch
    <3>3. Len(pending[k]) \in Nat
      BY <1>1
    <3>4. (\E i \in 1..Len(pending[k]) : i > 0 /\ pending[k][i] = g) <=> InPending(k, g)
      BY <3>3 DEF InPending
    <3> QED
      BY <3>1, <3>2, <3>4 DEF Unrun
  <2>3. CASE k # l
    BY <2>1, <2>3 DEF Unrun, InPending, InBatch
  <2> QED
    BY <2>2, <2>3
<1>5. ASSUME EndFunctors(l) PROVE Unrun(k, g)' <=> Unrun(k, g)
  <2>1. /\ ran[l] = Len(batch[l]) /\ batch'[l] = <<>> /\ UNCHANGED pending
        /\ k # l => batch'[k] = batch[k] /\ ran'[k] = ran[k]
    BY <1>1, <1>5 DEF EndFunctors
  <2>2. CASE k = l
    <3>1. ran[k] \in Nat /\ ran[k] = Len(batch[k]) /\ Len(batch'[k]) = 0
      BY <1>1, <2>1, <2>2
    <3>2. ~InBatch(k, g)
      BY <3>1 DEF InBatch
    <3>3. ~InBatch(k, g)'
      BY <3>1 DEF InBatch
    <3> QED
      BY <2>1, <3>2, <3>3 DEF Unrun, InPending
  <2>3. CASE k # l
    BY <2>1, <2>3 DEF Unrun, InPending, InBatch
  <2> QED
    BY <2>2, <2>3
<1> QED
  BY <1>2, <1>3, <1>4, <1>5

\* Running a functor takes it, and no other, from the batch.
LEMMA UnrunRun ==
    ASSUME Types, NEW l \in Loops, NEW k \in Loops, NEW g, RunFunctor(l)
    PROVE  /\ InBatch(k, g)' => InBatch(k, g)
           /\ InBatch(k, g) => InBatch(k, g)' \/ (k = l /\ g = batch[l][ran[l] + 1])
<1>1. batch \in [Loops -> Seq(MadeFunctors)] /\ ran \in [Loops -> Nat]
  BY DEF Types, LoopTypes
<1>2. ran' = [ran EXCEPT ![l] = @ + 1] /\ UNCHANGED batch
  BY DEF RunFunctor
<1>3. ran'[k] = IF k = l THEN ran[l] + 1 ELSE ran[k]
  BY <1>1, <1>2
<1>4. ran[k] \in Nat /\ Len(batch[k]) \in Nat
  BY <1>1
<1> QED
  BY <1>2, <1>3, <1>4 DEF InBatch

LEMMA BatchesNext ==
    ASSUME Types, BatchesCleared, Next
    PROVE  BatchesCleared'
<1>1. UNCHANGED setup /\ Loops' = Loops
  BY SameTypes DEF Next
<1>2. /\ phase \in [Loops -> {"poll", "events", "functors", "over"}]
      /\ batch \in [Loops -> Seq(MadeFunctors)] /\ ran \in [Loops -> Nat]
  BY DEF Types, LoopTypes
<1>3. CASE UNCHANGED <<phase, batch, ran>>
  BY <1>1, <1>3 DEF BatchesCleared
<1>4. ASSUME NEW l \in Loops, LoopStep(l) PROVE BatchesCleared'
  <2>1. CASE PollReturn(l)
    BY <1>1, <1>2, <2>1 DEF PollReturn, BatchesCleared
  <2>2. CASE BeginFunctors(l)
    BY <1>1, <1>2, <2>2 DEF BeginFunctors, BatchesCleared
  <2>3. CASE RunFunctor(l)
    <3>1. phase[l] = "functors" /\ ran' = [ran EXCEPT ![l] = @ + 1] /\ UNCHANGED <<phase, batch>>
      BY <2>3 DEF RunFunctor
    <3> QED
      BY <1>1, <1>2, <3>1 DEF BatchesCleared
  <2>4. CASE EndFunctors(l)
    BY <1>1, <1>2, <2>4 DEF EndFunctors, BatchesCleared
  <2>5. ASSUME NEW c \in Conns, HandleEvent(l, c) \/ ErrorCallback(l, c) \/ UserReturn(l, c)
        PROVE  BatchesCleared'
    BY <1>3, <2>5 DEF HandleEvent, ErrorCallback, UserReturn
  <2>6. ASSUME NEW c \in Conns, CloseCallback(l, c) \/ ReadCallback(l, c) \/ WriteCallback(l, c)
        PROVE  BatchesCleared'
    BY <1>3, <2>6 DEF CloseCallback, ReadCallback, WriteCallback
  <2>7. ASSUME NEW c \in Conns, Accept(c) PROVE BatchesCleared'
    BY <1>3, <2>7 DEF Accept
  <2> QED
    BY <1>4, <2>1, <2>2, <2>3, <2>4, <2>5, <2>6, <2>7 DEF LoopStep
<1>5. ASSUME NEW l \in Loops, LoopOver(l) PROVE BatchesCleared'
  BY <1>1, <1>2, <1>5 DEF LoopOver, BatchesCleared
<1>6. ASSUME NEW l \in Loops, NEW c \in Conns, UserSend(l, c) \/ UserShutdown(l, c)
      PROVE  BatchesCleared'
  BY <1>3, <1>6 DEF UserSend, UserShutdown, loopVars
<1>7. ASSUME NEW c \in Conns,
             \/ Connect(c) \/ Peer(c) \/ OtherDrops(c)
             \/ OtherCalls(c, "send") \/ OtherCalls(c, "shutdown")
      PROVE  BatchesCleared'
  BY <1>3, <1>7 DEF Connect, Peer, OtherDrops, OtherCalls, loopVars
<1>8. ASSUME NEW c \in Conns, OtherSend(c) \/ OtherShutdown(c) PROVE BatchesCleared'
  BY <1>3, <1>8 DEF OtherSend, OtherShutdown
<1>9. CASE DestroyServer
  BY <1>1, <1>2, <1>9 DEF DestroyServer, BatchesCleared
<1> QED
  BY <1>4, <1>5, <1>6, <1>7, <1>8, <1>9 DEF Next

\* What the steps of a loop do to the connections.
LEMMA TodoIsMade ==
    ASSUME Types, NEW l \in Loops, NEW c, NEW op, NextIs(l, op, c)
    PROVE  c \in made /\ c \in Conns
<1>1. todo[l] # <<>> /\ Head(todo[l]).conn = c /\ todo[l] \in Seq(Callbacks)
  BY DEF NextIs, Callback, Types, LoopTypes
<1>2. Head(todo[l]) \in Callbacks
  BY <1>1
<1> QED
  BY <1>1, <1>2 DEF Callbacks, Types, ConnTypes

LEMMA NextToRun ==
    ASSUME Types, NEW l \in Loops, RunFunctor(l)
    PROVE  /\ batch[l][ran[l] + 1] \in MadeFunctors
           /\ batch[l][ran[l] + 1].conn \in made
           /\ batch[l][ran[l] + 1].conn \in Conns
           /\ Unrun(l, batch[l][ran[l] + 1])
<1>0. ran[l] < Len(batch[l])
  BY DEF RunFunctor
<1>1. /\ ran[l] + 1 \in 1..Len(batch[l]) /\ ran[l] \in Nat
      /\ batch[l] \in Seq(MadeFunctors)
  BY <1>0 DEF Types, LoopTypes
<1>2. batch[l][ran[l] + 1] \in MadeFunctors /\ ran[l] + 1 > ran[l]
  BY <1>1
<1> QED
  BY <1>1, <1>2 DEF MadeFunctors, Functors, Unrun, InBatch

LEMMA UnmadeNext ==
    ASSUME Types, Unmade, Next
    PROVE  Unmade'
<1>1. state_ \in [Conns -> States]
  BY DEF Types, ConnTypes
<1>2. CASE UNCHANGED <<backlog, made, state_>>
  BY <1>2 DEF Unmade
<1>3. ASSUME NEW c \in made, UNCHANGED <<backlog, made>>,
             \A d \in Conns \ {c} : state_'[d] = state_[d]
      PROVE  Unmade'
  BY <1>3 DEF Unmade
<1>4. ASSUME NEW l, NEW c \in made, HandleClose(l, c), UNCHANGED backlog
      PROVE  Unmade'
  BY <1>1, <1>3, <1>4 DEF HandleClose
<1>5. ASSUME NEW cs, cs \subseteq made, ConnectionsDestroyed(cs), UNCHANGED backlog
      PROVE  Unmade'
  <2>1. \A d \in Conns \ made : state_'[d] = state_[d]
    BY <1>5 DEF ConnectionsDestroyed
  <2>2. made' = made
    BY <1>5 DEF ConnectionsDestroyed
  <2> QED
    BY <1>5, <2>1, <2>2 DEF Unmade
<1>6. ASSUME NEW l \in Loops, LoopStep(l) PROVE Unmade'
  <2>1. CASE PollReturn(l) \/ BeginFunctors(l) \/ EndFunctors(l)
    BY <1>2, <2>1 DEF PollReturn, BeginFunctors, EndFunctors, connVars, acceptVars
  <2>2. CASE RunFunctor(l)
    <3> DEFINE c == batch[l][ran[l] + 1].conn
    <3>1. c \in made
      BY <2>2, NextToRun
    <3>2. /\ \/ ConnectionEstablished(c) /\ UNCHANGED made
             \/ ConnectionsDestroyed({c})
             \/ UNCHANGED <<made, state_>>
          /\ UNCHANGED backlog
      BY <2>2 DEF RunFunctor, SendInLoop, connVars, acceptVars
    <3> HIDE DEF c
    <3>3. CASE ConnectionEstablished(c) /\ UNCHANGED made
      BY <1>1, <1>3, <3>1, <3>2, <3>3 DEF ConnectionEstablished
    <3> QED
      BY <1>2, <1>5, <3>1, <3>2, <3>3
  <2>3. ASSUME NEW c \in Conns, HandleEvent(l, c) \/ ErrorCallback(l, c) \/ UserReturn(l, c)
        PROVE  Unmade'
    BY <1>2, <2>3 DEF HandleEvent, ErrorCallback, UserReturn, connVars, acceptVars
  <2>4. ASSUME NEW c \in Conns, CloseCallback(l, c) \/ ReadCallback(l, c)
        PROVE  Unmade'
    <3>1. c \in made
      BY <2>4, TodoIsMade DEF CloseCallback, ReadCallback
    <3>2. (UNCHANGED connVars \/ HandleClose(l, c)) /\ UNCHANGED backlog
      BY <2>4 DEF CloseCallback, ReadCallback, acceptVars
    <3> QED
      BY <1>2, <1>4, <3>1, <3>2 DEF connVars
  <2>5. ASSUME NEW c \in Conns, WriteCallback(l, c) PROVE Unmade'
    BY <1>2, <2>5 DEF WriteCallback, acceptVars
  <2>6. ASSUME NEW c \in Conns, Accept(c) PROVE Unmade'
    <3>1. /\ c \in backlog /\ backlog' = backlog \ {c} /\ made' = made \cup {c}
          /\ ConnectionEstablished(c) \/ UNCHANGED state_
      BY <2>6 DEF Accept
    <3>2. \A d \in Conns \ made' : state_'[d] = state_[d]
      BY <1>1, <3>1 DEF ConnectionEstablished
    <3> QED
      BY <3>1, <3>2 DEF Unmade
  <2> QED
    BY <1>6, <2>1, <2>2, <2>3, <2>4, <2>5, <2>6 DEF LoopStep
<1>7. ASSUME NEW l \in Loops, LoopOver(l) PROVE Unmade'
  BY <1>2, <1>7 DEF LoopOver, connVars, acceptVars
<1>8. ASSUME NEW l \in Loops, NEW c \in Conns, UserSend(l, c) PROVE Unmade'
  BY <1>2, <1>8 DEF UserSend, SendInLoop, acceptVars
<1>9. ASSUME NEW l \in Loops, NEW c \in Conns, UserShutdown(l, c) PROVE Unmade'
  <2>1. c \in made
    BY <1>9, TodoIsMade DEF UserShutdown, InUser
  <2> QED
    BY <1>1, <1>3, <1>9, <2>1 DEF UserShutdown, acceptVars
<1>10. ASSUME NEW c \in Conns, Connect(c) PROVE Unmade'
  BY <1>10 DEF Connect, connVars, Unmade
<1>11. ASSUME NEW c \in Conns,
              \/ Peer(c) \/ OtherDrops(c) \/ OtherCalls(c, "send")
              \/ OtherCalls(c, "shutdown") \/ OtherSend(c)
       PROVE  Unmade'
  BY <1>2, <1>11 DEF Peer, OtherDrops, OtherCalls, OtherSend, connVars, acceptVars
<1>12. ASSUME NEW c \in Conns, OtherShutdown(c) PROVE Unmade'
  <2>1. c \in made
    BY <1>12 DEF OtherShutdown, Types, UserTypes
  <2> QED
    BY <1>1, <1>3, <1>12, <2>1 DEF OtherShutdown, acceptVars
<1>13. CASE DestroyServer
  <2>1. map \subseteq made
    BY DEF Types, ConnTypes
  <2> QED
    BY <1>5, <1>13, <2>1 DEF DestroyServer
<1> QED
  BY <1>6, <1>7, <1>8, <1>9, <1>10, <1>11, <1>12, <1>13 DEF Next

\* A step that runs and queues nothing, and closes nothing.
LEMMA LeaveAsBefore ==
    ASSUME Types, LeaveInv, UNCHANGED <<setup, made, map>>,
           \A l \in Loops : \A f : Unrun(l, f)' <=> Unrun(l, f),
           \A c \in Conns : state_'[c] = "kDisconnected" => state_[c] = "kDisconnected"
    PROVE  DestroyedLeft' /\ ClosedQueued'
<1>1. Loops' = Loops /\ 0 \in Loops /\ MadeFunctors' = MadeFunctors /\ map \subseteq Conns
  BY SameTypes DEF Types, ConnTypes
<1>2. DestroyedLeft /\ ClosedQueued
  BY DEF LeaveInv
<1>3. DestroyedLeft'
  BY <1>1, <1>2 DEF DestroyedLeft
<1>4. ClosedQueued'
  BY <1>1, <1>2 DEF ClosedQueued
<1> QED
  BY <1>3, <1>4

\* A step that queues a functor which destroys nothing.
LEMMA LeaveQueued ==
    ASSUME Types, LeaveInv, UNCHANGED <<setup, made, map, batch, ran>>,
           NEW l \in Loops, NEW f, Queue(l, f), f.op # "connectionDestroyed",
           \A c \in map : state_'[c] = "kDisconnected"
               => state_[c] = "kDisconnected" \/ (l = 0 /\ f = Removal(c))
    PROVE  DestroyedLeft' /\ ClosedQueued'
<1>1. Loops' = Loops /\ 0 \in Loops /\ MadeFunctors' = MadeFunctors
  BY SameTypes
<1>2. DestroyedLeft /\ ClosedQueued /\ BatchesCleared
  BY DEF LeaveInv
<1>3. \A k \in Loops : \A g : Unrun(k, g)' <=> Unrun(k, g) \/ (k = l /\ g = f)
  BY <1>2, UnrunSteps
<1>4. DestroyedLeft'
  BY <1>1, <1>2, <1>3 DEF DestroyedLeft
<1>5. \A c \in map : Unrun(0, Removal(c)) => Unrun(0, Removal(c))'
  BY <1>1, <1>3 DEF Removal
<1>6. \A c \in map : l = 0 /\ f = Removal(c) => Unrun(0, Removal(c))'
  BY <1>1, <1>3 DEF Removal
<1>7. ClosedQueued'
  BY <1>2, <1>5, <1>6 DEF ClosedQueued
<1> QED
  BY <1>4, <1>7

LEMMA LeaveRemoved ==
    ASSUME Types, LeaveInv, UNCHANGED <<setup, made>>,
           NEW c \in made, map' = map \ {c},
           \A l \in Loops : \A f \in MadeFunctors : Unrun(l, f)' /\ f.op = "connectionDestroyed"
               => Unrun(l, f) \/ f.conn = c,
           \A d \in map \ {c} : Unrun(0, Removal(d)) => Unrun(0, Removal(d))',
           \A d \in map \ {c} : state_'[d] = state_[d]
    PROVE  DestroyedLeft' /\ ClosedQueued'
<1>1. Loops' = Loops /\ MadeFunctors' = MadeFunctors
  BY SameTypes
<1>2. DestroyedLeft /\ ClosedQueued
  BY DEF LeaveInv
<1>3. DestroyedLeft'
  BY <1>1, <1>2 DEF DestroyedLeft
<1>4. ClosedQueued'
  BY <1>2 DEF ClosedQueued
<1> QED
  BY <1>3, <1>4

LEMMA LeaveClose ==
    ASSUME Types, LeaveInv, UNCHANGED <<setup, batch, ran>>, NEW l \in Loops,
           NEW c \in made, HandleClose(l, c)
    PROVE  DestroyedLeft' /\ ClosedQueued'
<1>1. /\ UNCHANGED made /\ state_' = [state_ EXCEPT ![c] = "kDisconnected"]
      /\ \A d \in map \ {c} : state_'[d] = state_[d]
  BY DEF HandleClose, Types, ConnTypes
<1>2. CASE l = 0
  <2> DEFINE f == Functor("connectionDestroyed", c, TRUE)
  <2>1. map' = map \ {c} /\ Queue(loopOf[c], f)
    BY <1>2 DEF HandleClose, RemoveConnectionInLoop
  <2>2. f.conn = c /\ loopOf[c] \in Loops /\ 0 \in Loops
    BY SameTypes DEF Functor, Types, ConnTypes
  <2> HIDE DEF f
  <2>3. \A k \in Loops : \A g : Unrun(k, g)' <=> Unrun(k, g) \/ (k = loopOf[c] /\ g = f)
    BY <2>1, <2>2, UnrunSteps DEF LeaveInv
  <2> QED
    BY <1>1, <2>1, <2>2, <2>3, LeaveRemoved
<1>3. CASE l # 0
  <2>1. Queue(0, Removal(c)) /\ UNCHANGED map /\ 0 \in Loops
    BY <1>3, SameTypes DEF HandleClose, Removal
  <2>2. Removal(c).op # "connectionDestroyed"
    BY DEF Removal, Functor
  <2> QED
    BY <1>1, <2>1, <2>2, LeaveQueued
<1> QED
  BY <1>2, <1>3

\* Destroying what has left the map closes nothing of it.
LEMMA LeaveRun ==
    ASSUME Types, LeaveInv, UNCHANGED setup, NEW l \in Loops, RunFunctor(l)
    PROVE  DestroyedLeft' /\ ClosedQueued'
<1> DEFINE f == batch[l][ran[l] + 1]
           c == f.conn
<1>1. f \in MadeFunctors /\ c \in made /\ c \in Conns /\ Unrun(l, f)
  BY NextToRun
<1>2. /\ Loops' = Loops /\ 0 \in Loops /\ made' = made /\ MadeFunctors' = MadeFunctors
      /\ map \subseteq Conns /\ state_ \in [Conns -> States]
  <2>1. made' = made
    BY DEF RunFunctor, ConnectionsDestroyed, SendInLoop, connVars
  <2> QED
    BY <2>1, SameTypes DEF Types, ConnTypes
<1>3. DestroyedLeft /\ ClosedQueued /\ BatchesCleared
  BY DEF LeaveInv
<1>4. \A k \in Loops : \A g : InBatch(k, g) => InBatch(k, g)' \/ (k = l /\ g = f)
  BY UnrunRun
<1>9. ASSUME NEW k \in Loops, NEW g, InBatch(k, g)'
      PROVE  InBatch(k, g)
  BY <1>9, UnrunRun
<1>5. \/ /\ f.op = "removeConnectionInLoop" /\ RemoveConnectionInLoop(c)
         /\ UNCHANGED state_
      \/ /\ f.op # "removeConnectionInLoop" /\ UNCHANGED <<map, pending>>
         /\ \/ ConnectionEstablished(c)
            \/ f.op = "connectionDestroyed" /\ ConnectionsDestroyed({c})
            \/ UNCHANGED state_
  BY DEF RunFunctor, SendInLoop, connVars
<1>6. \A d : f = Removal(d) => f.op = "removeConnectionInLoop" /\ c = d
  BY DEF Removal, Functor
<1> HIDE DEF f
<1>7. CASE f.op = "removeConnectionInLoop" /\ RemoveConnectionInLoop(c) /\ UNCHANGED state_
  <2> DEFINE d == Functor("connectionDestroyed", c, TRUE)
  <2>1. map' = map \ {c} /\ Queue(loopOf[c], d) /\ loopOf[c] \in Loops /\ d.conn = c
    BY <1>1, <1>7 DEF RemoveConnectionInLoop, Functor, Types, ConnTypes
  <2> HIDE DEF d
  <2>2. \A k \in Loops : \A g : InPending(k, g)' <=> InPending(k, g) \/ (k = loopOf[c] /\ g = d)
    <3> SUFFICES ASSUME NEW k \in Loops, NEW g
                 PROVE  InPending(k, g)' <=> InPending(k, g) \/ (k = loopOf[c] /\ g = d)
      OBVIOUS
    <3> DEFINE q == pending[loopOf[c]]
    <3>1. pending \in [Loops -> Seq(MadeFunctors)] /\ q \in Seq(MadeFunctors)
      BY <2>1 DEF Types, LoopTypes
    <3>2. /\ Len(Append(q, d)) = Len(q) + 1 /\ Len(q) \in Nat
          /\ \A i \in 1..Len(q) : Append(q, d)[i] = q[i]
          /\ Append(q, d)[Len(q) + 1] = d
      BY <3>1
    <3>3. pending'[k] = IF k = loopOf[c] THEN Append(q, d) ELSE pending[k]
      BY <2>1, <3>1 DEF Queue
    <3> HIDE DEF q
    <3>4. (\E i \in 1..Len(Append(q, d)) : Append(q, d)[i] = g)
              <=> (\E i \in 1..Len(q) : q[i] = g) \/ g = d
      BY <3>2
    <3> QED
      BY <3>3, <3>4 DEF InPending, q
  <2>3. \A k \in Loops : \A g \in MadeFunctors : Unrun(k, g)' /\ g.op = "connectionDestroyed"
            => Unrun(k, g) \/ g.conn = c
    <3> SUFFICES ASSUME NEW k \in Loops, NEW g, Unrun(k, g)' PROVE Unrun(k, g) \/ g = d
      BY <2>1
    <3>1. InBatch(k, g)' => InBatch(k, g)
      BY <1>9
    <3>2. InPending(k, g)' => InPending(k, g) \/ g = d
      BY <2>2
    <3> QED
      BY <3>1, <3>2 DEF Unrun
  <2>4. \A e \in map \ {c} : Unrun(0, Removal(e)) => Unrun(0, Removal(e))'
    <3> SUFFICES ASSUME NEW e \in map \ {c}, Unrun(0, Removal(e)) PROVE Unrun(0, Removal(e))'
      OBVIOUS
    <3>1. f # Removal(e)
      BY <1>6
    <3>2. InPending(0, Removal(e)) => InPending(0, Removal(e))'
      BY <1>2, <2>2 DEF Removal
    <3>3. InBatch(0, Removal(e)) => InBatch(0, Removal(e))'
      BY <1>2, <1>4, <3>1 DEF Removal
    <3> QED
      BY <3>2, <3>3 DEF Unrun
  <2> QED
    BY <1>1, <1>2, <1>7, <2>1, <2>3, <2>4, LeaveRemoved
<1>8. CASE /\ f.op # "removeConnectionInLoop" /\ UNCHANGED <<map, pending>>
           /\ \/ ConnectionEstablished(c)
              \/ f.op = "connectionDestroyed" /\ ConnectionsDestroyed({c})
              \/ UNCHANGED state_
  <2>1. \A k \in Loops : \A g : Unrun(k, g)' => Unrun(k, g)
    <3> SUFFICES ASSUME NEW k \in Loops, NEW g, Unrun(k, g)' PROVE Unrun(k, g)
      OBVIOUS
    <3>1. InBatch(k, g)' => InBatch(k, g)
      BY <1>9
    <3>2. InPending(k, g)' => InPending(k, g)
      BY <1>8 DEF InPending
    <3> QED
      BY <3>1, <3>2 DEF Unrun
  <2>2. \A e : Unrun(0, Removal(e)) => Unrun(0, Removal(e))'
    <3> SUFFICES ASSUME NEW e, Unrun(0, Removal(e)) PROVE Unrun(0, Removal(e))'
      OBVIOUS
    <3>1. f # Removal(e)
      BY <1>6, <1>8
    <3>2. InPending(0, Removal(e)) => InPending(0, Removal(e))'
      BY <1>8 DEF InPending, Removal
    <3>3. InBatch(0, Removal(e)) => InBatch(0, Removal(e))'
      BY <1>2, <1>4, <3>1 DEF Removal
    <3> QED
      BY <3>2, <3>3 DEF Unrun
  <2>3. \A e \in map : state_'[e] = "kDisconnected" => state_[e] = "kDisconnected"
    <3>1. CASE ConnectionEstablished(c)
      BY <1>1, <1>2, <3>1 DEF ConnectionEstablished
    <3>2. CASE f.op = "connectionDestroyed" /\ ConnectionsDestroyed({c})
      <4>1. c \notin map
        BY <1>1, <1>3, <3>2 DEF DestroyedLeft
      <4> QED
        BY <1>2, <3>2, <4>1 DEF ConnectionsDestroyed
    <3> QED
      BY <1>8, <3>1, <3>2
  <2>4. DestroyedLeft'
    BY <1>2, <1>3, <1>8, <2>1 DEF DestroyedLeft
  <2>5. ClosedQueued'
    BY <1>3, <1>8, <2>2, <2>3 DEF ClosedQueued
  <2> QED
    BY <2>4, <2>5
<1> QED
  BY <1>5, <1>7, <1>8

LEMMA LeaveAccept ==
    ASSUME Types, LeaveInv, UNCHANGED setup, NEW c \in Conns, Accept(c)
    PROVE  DestroyedLeft' /\ ClosedQueued'
<1> DEFINE l == IF numThreads_ = 0 THEN 0 ELSE next_ + 1
           f == Functor("connectionEstablished", c, TRUE)
<1>1. /\ Loops' = Loops /\ 0 \in Loops /\ l \in Loops
  BY SameTypes DEF Types, AcceptTypes, Loops
<1>2. DestroyedLeft /\ ClosedQueued /\ BatchesCleared /\ Unmade
  BY DEF LeaveInv
<1>3. /\ c \in backlog /\ made' = made \cup {c} /\ map' = map \cup {c}
      /\ UNCHANGED <<batch, ran>>
      /\ \/ UNCHANGED pending /\ ConnectionEstablished(c)
         \/ Queue(l, f) /\ UNCHANGED state_
  BY DEF Accept
<1>4. c \notin made /\ state_[c] = "kConnecting" /\ state_ \in [Conns -> States]
      /\ map \subseteq made /\ made \subseteq Conns
  BY <1>2, <1>3 DEF Unmade, Types, ConnTypes
<1>5. f.op # "connectionDestroyed"
  BY DEF Functor
<1>6. /\ batch \in [Loops -> Seq(MadeFunctors)] /\ pending \in [Loops -> Seq(MadeFunctors)]
  BY DEF Types, LoopTypes
<1> HIDE DEF l, f
<1>7. \A k \in Loops : \A g : Unrun(k, g)' <=> Unrun(k, g) \/ (Queue(l, f) /\ k = l /\ g = f)
  <2> SUFFICES ASSUME NEW k \in Loops, NEW g
               PROVE  Unrun(k, g)' <=> Unrun(k, g) \/ (Queue(l, f) /\ k = l /\ g = f)
    OBVIOUS
  <2>1. CASE Queue(l, f)
    BY <1>1, <1>2, <1>3, <2>1, UnrunSteps
  <2>2. CASE UNCHANGED pending /\ ~Queue(l, f)
    <3>1. Unrun(k, g)' <=> Unrun(k, g)
      BY <1>1, <1>2, <1>3, <2>2, UnrunSteps
    <3> QED
      BY <2>2, <3>1
  <2> QED
    BY <1>3, <2>1, <2>2
<1>8. DestroyedLeft'
  <2> SUFFICES ASSUME NEW k \in Loops, NEW g \in MadeFunctors', Unrun(k, g)',
                      g.op = "connectionDestroyed"
               PROVE  g.conn \notin map'
    BY <1>1 DEF DestroyedLeft
  <2>1. Unrun(k, g)
    BY <1>5, <1>7
  <2>2. g \in MadeFunctors
    BY <1>6, <2>1 DEF Unrun, InPending, InBatch
  <2>3. g.conn \in made /\ g.conn \notin map
    BY <1>2, <2>1, <2>2 DEF DestroyedLeft, MadeFunctors
  <2> QED
    BY <1>3, <1>4, <2>3
<1>9. ClosedQueued'
  <2> SUFFICES ASSUME NEW d \in map', state_'[d] = "kDisconnected"
               PROVE  Unrun(0, Removal(d))'
    BY DEF ClosedQueued
  <2>1. d \in map /\ state_[d] = "kDisconnected"
    <3>1. CASE UNCHANGED state_
      BY <1>3, <1>4, <3>1
    <3>2. CASE ConnectionEstablished(c)
      BY <1>3, <1>4, <3>2 DEF ConnectionEstablished
    <3> QED
      BY <1>3, <3>1, <3>2
  <2>2. Unrun(0, Removal(d))
    BY <1>2, <2>1 DEF ClosedQueued
  <2> QED
    BY <1>1, <1>7, <2>2
<1> QED
  BY <1>8, <1>9

LEMMA LeaveLoop ==
    ASSUME Types, LeaveInv, UNCHANGED setup, NEW l \in Loops, LoopStep(l)
    PROVE  DestroyedLeft' /\ ClosedQueued'
<1>1. BatchesCleared
  BY DEF LeaveInv
<1>2. ASSUME UNCHANGED <<pending, batch, ran>>
      PROVE  \A k \in Loops : \A g : Unrun(k, g)' <=> Unrun(k, g)
  BY <1>1, <1>2, UnrunSteps
<1>3. CASE BeginFunctors(l) \/ EndFunctors(l)
  <2>1. \A k \in Loops : \A g : Unrun(k, g)' <=> Unrun(k, g)
    BY <1>1, <1>3, UnrunSteps
  <2>2. UNCHANGED <<made, map, state_>>
    BY <1>3 DEF BeginFunctors, EndFunctors, connVars
  <2> QED
    BY <2>1, <2>2, LeaveAsBefore
<1>4. CASE PollReturn(l)
  BY <1>2, <1>4, LeaveAsBefore DEF PollReturn
<1>5. ASSUME NEW c \in Conns, HandleEvent(l, c) \/ ErrorCallback(l, c) \/ UserReturn(l, c)
      PROVE  DestroyedLeft' /\ ClosedQueued'
  <2>1. UNCHANGED <<pending, batch, ran, made, map, state_>>
    BY <1>5 DEF HandleEvent, ErrorCallback, UserReturn, connVars
  <2> QED
    BY <1>2, <2>1, LeaveAsBefore
<1>6. ASSUME NEW c \in Conns, WriteCallback(l, c) PROVE DestroyedLeft' /\ ClosedQueued'
  <2>1. UNCHANGED <<pending, batch, ran, made, map, state_>>
    BY <1>6 DEF WriteCallback
  <2> QED
    BY <1>2, <2>1, LeaveAsBefore
<1>7. ASSUME NEW c \in Conns, CloseCallback(l, c) \/ ReadCallback(l, c)
      PROVE  DestroyedLeft' /\ ClosedQueued'
  <2>1. c \in made
    BY <1>7, TodoIsMade DEF CloseCallback, ReadCallback
  <2>2. /\ HandleClose(l, c) \/ UNCHANGED <<pending, connVars>>
        /\ UNCHANGED <<batch, ran>>
    BY <1>7 DEF CloseCallback, ReadCallback
  <2>3. CASE UNCHANGED <<pending, connVars>>
    <3>1. UNCHANGED <<pending, batch, ran, made, map, state_>>
      BY <2>2, <2>3 DEF connVars
    <3> QED
      BY <1>2, <3>1, LeaveAsBefore
  <2> QED
    BY <2>1, <2>2, <2>3, LeaveClose
<1> QED
  BY <1>3, <1>4, <1>5, <1>6, <1>7, LeaveRun, LeaveAccept DEF LoopStep

LEMMA LeaveNext == Types /\ LeaveInv /\ [Next]_vars => LeaveInv'
<1> SUFFICES ASSUME Types, LeaveInv, [Next]_vars PROVE LeaveInv'
  OBVIOUS
<1>1. CASE UNCHANGED vars
  <2>1. Loops' = Loops /\ MadeFunctors' = MadeFunctors
    BY <1>1 DEF vars, connVars, Loops, numThreads_, MadeFunctors
  <2> QED
    BY <1>1, <2>1 DEF vars, connVars, acceptVars, loopVars, LeaveInv, BatchesCleared,
                      Unmade, DestroyedLeft, ClosedQueued, Unrun, InBatch, InPending
<1>2. CASE Next
  <2>1. UNCHANGED setup /\ Loops' = Loops /\ 0 \in Loops
    BY <1>2, SameTypes DEF Next
  <2>2. BatchesCleared /\ Unmade /\ DestroyedLeft /\ ClosedQueued
    BY DEF LeaveInv
  <2>3. ASSUME UNCHANGED <<pending, batch, ran>>
        PROVE  \A k \in Loops : \A g : Unrun(k, g)' <=> Unrun(k, g)
    BY <2>1, <2>2, <2>3, UnrunSteps
  <2>4. DestroyedLeft' /\ ClosedQueued'
    <3>1. ASSUME NEW l \in Loops, LoopStep(l) PROVE DestroyedLeft' /\ ClosedQueued'
      BY <2>1, <3>1, LeaveLoop
    <3>2. ASSUME NEW l \in Loops, LoopOver(l) PROVE DestroyedLeft' /\ ClosedQueued'
      <4>1. /\ l # 0 /\ pending' = [pending EXCEPT ![l] = <<>>]
            /\ UNCHANGED <<batch, ran, made, map, state_>>
        BY <3>2 DEF LoopOver, connVars
      <4>2. pending \in [Loops -> Seq(MadeFunctors)] /\ MadeFunctors' = MadeFunctors
        BY <2>1, <4>1, SameTypes DEF Types, LoopTypes
      <4>3. ASSUME NEW k \in Loops, NEW g, Unrun(k, g)' PROVE Unrun(k, g)
        <5>1. InPending(k, g)' => InPending(k, g)
          BY <4>1, <4>2 DEF InPending
        <5>2. InBatch(k, g)' => InBatch(k, g)
          BY <4>1 DEF InBatch
        <5> QED
          BY <4>3, <5>1, <5>2 DEF Unrun
      <4>4. ASSUME NEW c, Unrun(0, Removal(c)) PROVE Unrun(0, Removal(c))'
        BY <2>1, <4>1, <4>2, <4>4 DEF Unrun, InPending, InBatch, Removal
      <4>5. DestroyedLeft'
        BY <2>1, <2>2, <4>1, <4>2, <4>3 DEF DestroyedLeft
      <4>6. ClosedQueued'
        BY <2>2, <4>1, <4>4 DEF ClosedQueued
      <4> QED
        BY <4>5, <4>6
    <3>3. ASSUME NEW l \in Loops, NEW c \in Conns, UserSend(l, c) \/ UserShutdown(l, c)
          PROVE  DestroyedLeft' /\ ClosedQueued'
      <4>1. /\ UNCHANGED <<pending, batch, ran, made, map>>
            /\ UNCHANGED state_ \/ state_' = [state_ EXCEPT ![c] = "kDisconnecting"]
        BY <3>3 DEF UserSend, UserShutdown, SendInLoop, loopVars
      <4>2. \A d \in Conns : state_'[d] = "kDisconnected" => state_[d] = "kDisconnected"
        BY <4>1 DEF Types, ConnTypes
      <4> QED
        BY <2>1, <2>3, <4>1, <4>2, LeaveAsBefore
    <3>4. ASSUME NEW c \in Conns,
                 \/ Connect(c) \/ Peer(c) \/ OtherDrops(c)
                 \/ OtherCalls(c, "send") \/ OtherCalls(c, "shutdown")
          PROVE  DestroyedLeft' /\ ClosedQueued'
      <4>1. UNCHANGED <<pending, batch, ran, made, map, state_>>
        BY <3>4 DEF Connect, Peer, OtherDrops, OtherCalls, connVars, loopVars
      <4> QED
        BY <2>1, <2>3, <4>1, LeaveAsBefore
    <3>5. ASSUME NEW c \in Conns, OtherSend(c) \/ OtherShutdown(c)
          PROVE  DestroyedLeft' /\ ClosedQueued'
      <4> DEFINE f == IF calling[c] = "send" THEN Functor("sendInLoop", c, FALSE)
                                             ELSE Functor("shutdownInLoop", c, TRUE)
      <4>1. /\ Queue(loopOf[c], f)
            /\ UNCHANGED <<batch, ran, made, map>>
            /\ UNCHANGED state_ \/ state_' = [state_ EXCEPT ![c] = "kDisconnecting"]
        BY <3>5 DEF OtherSend, OtherShutdown, connVars
      <4>2. f.op # "connectionDestroyed" /\ loopOf[c] \in Loops
        BY DEF Functor, Types, ConnTypes
      <4> HIDE DEF f
      <4>3. \A d \in map : state_'[d] = "kDisconnected" => state_[d] = "kDisconnected"
        BY <4>1 DEF Types, ConnTypes
      <4> QED
        BY <2>1, <4>1, <4>2, <4>3, LeaveQueued
    <3>6. CASE DestroyServer
      BY <3>6 DEF DestroyServer, DestroyedLeft, ClosedQueued
    <3> QED
      BY <1>2, <3>1, <3>2, <3>3, <3>4, <3>5, <3>6 DEF Next
  <2> QED
    BY <1>2, <2>2, <2>4, BatchesNext, UnmadeNext DEF LeaveInv
<1> QED
  BY <1>1, <1>2

LEMMA LeaveSuffices == Types /\ LeaveInv => ClosedLeavesMap
<1> SUFFICES ASSUME Types, LeaveInv, NEW c \in map, state_[c] = "kDisconnected"
             PROVE  \/ Removal(c) \in ToSet(pending[0])
                    \/ \E i \in 1..Len(batch[0]) : i > ran[0] /\ batch[0][i] = Removal(c)
  BY DEF ClosedLeavesMap, Removal
<1>1. Unrun(0, Removal(c))
  BY DEF LeaveInv, ClosedQueued
<1>2. pending[0] \in Seq(MadeFunctors)
  <2>1. 0 \in Loops
    BY DEF Types, AcceptTypes, Setup, Loops, numThreads_
  <2> QED
    BY <2>1 DEF Types, LoopTypes
<1>3. InPending(0, Removal(c)) => Removal(c) \in ToSet(pending[0])
  BY <1>2, SetOfSequence DEF InPending
<1> QED
  BY <1>1, <1>3 DEF Unrun, InBatch

\* However it was closed, a connection in the map whose state is kDisconnected
\* is about to be removed: removeConnectionInLoop() waits in loop 0.  It holds
\* of every use of the server, the disorderly ones too.
THEOREM ClosedAlwaysLeave == Spec => []ClosedLeavesMap
<1>1. Init => Types /\ LeaveInv
  BY TypesInit, LeaveInit
<1>2. Types /\ LeaveInv /\ [Next]_vars => Types' /\ LeaveInv'
  BY TypesNext, LeaveNext
<1> QED
  BY <1>1, <1>2, LeaveSuffices, PTL DEF Spec

-----------------------------------------------------------------------------
(* The life of a connection: where the use is orderly no assert fails, a   *)
(* connection is destroyed only when it is closed and out of epoll, and    *)
(* nothing is left that has its address.                                   *)

Open(c) == state_[c] \in {"kConnected", "kDisconnecting"}
Destruction(c) == Functor("connectionDestroyed", c, TRUE)

\* What becomes of a channel: epoll watches it only while its status says so,
\* not before the connection is established, and for nothing once it is closed.
ChannelFits(ch, s) ==
    /\ ch.status # "kAdded" => ~ch.watched
    /\ s = "kConnecting" => ~ch.watched /\ ch.events = {}
    /\ s = "kDisconnected" => ch.events = {} /\ ch.interest = {}

Channels == \A c \in Conns : ChannelFits(channel[c], state_[c])

\* What has left the map is closed, and has been destroyed or will be.
LeftClosed ==
    \A c \in made \ map :
      /\ state_[c] = "kDisconnected"
      /\ \/ Unrun(loopOf[c], Destruction(c))
         \/ channel[c].status = "kNew" /\ ~channel[c].added

\* A functor that waits has a shared_ptr and comes at the right time.
Due(l, f) ==
    /\ f.ref
    /\ f.op = "connectionEstablished" => l = loopOf[f.conn] /\ state_[f.conn] = "kConnecting"
    /\ f.op = "removeConnectionInLoop" =>
         l = 0 /\ loopOf[f.conn] # 0 /\ f.conn \in map /\ state_[f.conn] = "kDisconnected"

AllDue == \A l \in Loops : \A f \in MadeFunctors : Unrun(l, f) => Due(l, f)

\* It waits once.
Once(l) ==
    /\ \A i, j \in 1..Len(pending[l]) : pending[l][i] = pending[l][j] => i = j
    /\ \A i, j \in 1..Len(batch[l]) :
          i > ran[l] /\ j > ran[l] /\ batch[l][i] = batch[l][j] => i = j
    /\ \A i \in 1..Len(batch[l]) : \A j \in 1..Len(pending[l]) :
          i > ran[l] => batch[l][i] # pending[l][j]

\* The callbacks that may close.
Closing == {"handleClose", "handleRead"}

\* Events are those of open connections of the loop; of the callbacks that one
\* calls for, one at most may close, and its connection is open until then.
Events(l) ==
    /\ \A c \in active[l] : Open(c) /\ loopOf[c] = l
    /\ phase[l] = "poll" => todo[l] = <<>>
    /\ \A i \in 1..Len(todo[l]) :
          loopOf[todo[l][i].conn] = l /\ todo[l][i].conn \notin active[l]
    /\ \A i \in 1..Len(todo[l]) : todo[l][i].op \in Closing =>
          /\ Open(todo[l][i].conn) /\ phase[l] = "events"
          /\ \A j \in 1..Len(todo[l]) : todo[l][j].op \in Closing => i = j

\* A reset comes only where one loop does it all; there what an event queues
\* is run before the next poll.
ResetsApart ==
    /\ ~setup.resets => \A c \in Conns : sock[c] \cap {"rst", "err"} = {}
    /\ setup.resets /\ phase[0] # "events" => pending[0] = <<>>

Life ==
    /\ failed \subseteq {"remove"} /\ gone = FALSE
    /\ Channels /\ LeftClosed /\ AllDue /\ ResetsApart
    /\ \A l \in Loops : Once(l) /\ Events(l)

LifeInv == Orderly => Life

\* What is known of the state before a step.
Known ==
    /\ Types /\ LeaveInv /\ Orderly /\ NoOtherThread
    /\ failed = {} /\ gone = FALSE

-----------------------------------------------------------------------------
(* Channels.                                                               *)

LEMMA UpdateFits ==
    ASSUME NEW ch \in ChannelType
    PROVE  UpdateChannel(ch).status # "kAdded" => ~UpdateChannel(ch).watched
<1> DEFINE c == [ch EXCEPT !.added = TRUE]
<1>1. c \in ChannelType /\ c.status = ch.status
  BY DEF ChannelType
<1>2. CASE ch.status # "kAdded"
  <2>1. UpdateChannel(ch) = Watch([c EXCEPT !.status = "kAdded"])
    BY <1>2 DEF UpdateChannel
  <2> QED
    BY <1>1, <2>1 DEF ChannelType, Watch
<1>3. CASE ch.status = "kAdded" /\ IsNoneEvent(ch)
  <2>1. UpdateChannel(ch) = Unwatch([c EXCEPT !.status = "kDeleted"])
    BY <1>3 DEF UpdateChannel
  <2> QED
    BY <1>1, <2>1 DEF ChannelType, Unwatch
<1>4. CASE ch.status = "kAdded" /\ ~IsNoneEvent(ch)
  <2>1. UpdateChannel(ch) = Watch(c)
    BY <1>4 DEF UpdateChannel
  <2> QED
    BY <1>1, <1>4, <2>1 DEF ChannelType, Watch
<1> QED
  BY <1>2, <1>3, <1>4

LEMMA ChannelsFit ==
    ASSUME NEW ch \in ChannelType, NEW s \in {"kConnected", "kDisconnecting"}
    PROVE  /\ ChannelFits(EnableReading(ch), s) /\ ChannelFits(EnableWriting(ch), s)
           /\ ChannelFits(DisableWriting(ch), s) /\ ChannelFits(DisableAll(ch), "kDisconnected")
<1>1. /\ [ch EXCEPT !.events = @ \cup {"IN"}] \in ChannelType
      /\ [ch EXCEPT !.events = @ \cup {"OUT"}] \in ChannelType
      /\ [ch EXCEPT !.events = @ \ {"OUT"}] \in ChannelType
      /\ [ch EXCEPT !.events = {}] \in ChannelType
  BY DEF ChannelType, Interests
<1>2. ChannelFits(EnableReading(ch), s)
  BY <1>1, UpdateFits DEF EnableReading, ChannelFits
<1>3. ChannelFits(EnableWriting(ch), s)
  BY <1>1, UpdateFits DEF EnableWriting, ChannelFits
<1>4. ChannelFits(DisableWriting(ch), s)
  BY <1>1, UpdateFits DEF DisableWriting, ChannelFits
<1>5. ChannelFits(DisableAll(ch), "kDisconnected")
  BY <1>1, UpdateFits, ChannelOperations DEF DisableAll, ChannelFits
<1> QED
  BY <1>2, <1>3, <1>4, <1>5

LEMMA RemovedFits ==
    ASSUME NEW ch \in ChannelType, NEW s, ChannelFits(ch, s)
    PROVE  ChannelFits(Removed(ch), s)
<1> DEFINE c == [ch EXCEPT !.added = FALSE, !.status = "kNew"]
<1>1. /\ c \in ChannelType /\ c.status = "kNew" /\ c.events = ch.events
      /\ c.watched = ch.watched /\ c.interest = ch.interest
  BY DEF ChannelType
<1>2. CASE ch.status = "kAdded"
  <2>1. Removed(ch) = Unwatch(c)
    BY <1>2 DEF Removed
  <2> QED
    BY <1>1, <2>1 DEF Unwatch, ChannelType, ChannelFits
<1>3. CASE ch.status # "kAdded"
  <2>1. Removed(ch) = c
    BY <1>3 DEF Removed
  <2> QED
    BY <1>1, <1>3, <2>1 DEF ChannelFits
<1> QED
  BY <1>2, <1>3

\* The steps that move one channel, and those that move none.
LEMMA FitsAsBefore ==
    ASSUME Channels,
           \A c \in Conns : \/ state_'[c] = state_[c] /\ channel'[c] = channel[c]
                            \/ ChannelFits(channel'[c], state_'[c])
    PROVE  Channels'
BY DEF Channels

LEMMA CloseFits ==
    ASSUME Types, Channels, NEW l, NEW c \in Conns, HandleClose(l, c)
    PROVE  Channels'
<1>1. /\ state_' = [state_ EXCEPT ![c] = "kDisconnected"]
      /\ channel' = [channel EXCEPT ![c] = DisableAll(@)]
      /\ state_ \in [Conns -> States] /\ channel \in [Conns -> ChannelType]
  BY DEF HandleClose, Types, ConnTypes
<1>2. ChannelFits(DisableAll(channel[c]), "kDisconnected")
  BY <1>1, ChannelsFit
<1> QED
  BY <1>1, <1>2, FitsAsBefore

LEMMA DestroyedFits ==
    ASSUME Types, Channels, NEW cs, ConnectionsDestroyed(cs)
    PROVE  Channels'
<1> SUFFICES ASSUME NEW d \in Conns PROVE ChannelFits(channel[d], state_[d])'
  BY DEF Channels
<1>1. ChannelFits(channel[d], state_[d]) /\ channel[d] \in ChannelType
  BY DEF Channels, Types, ConnTypes
<1>2. CASE d \in cs /\ state_[d] = "kConnected"
  <2>1. state_'[d] = "kDisconnected" /\ channel'[d] = Removed(DisableAll(channel[d]))
    BY <1>2 DEF ConnectionsDestroyed
  <2>2. ChannelFits(DisableAll(channel[d]), "kDisconnected") /\ DisableAll(channel[d]) \in ChannelType
    BY <1>1, ChannelsFit, ChannelOperations
  <2> QED
    BY <2>1, <2>2, RemovedFits
<1>3. CASE ~(d \in cs /\ state_[d] = "kConnected")
  <2>1. state_'[d] = state_[d]
    BY <1>3 DEF ConnectionsDestroyed
  <2>2. channel'[d] = IF d \in cs THEN Removed(channel[d]) ELSE channel[d]
    BY <1>3 DEF ConnectionsDestroyed
  <2> QED
    BY <1>1, <2>1, <2>2, RemovedFits
<1> QED
  BY <1>2, <1>3

LEMMA EstablishedFits ==
    ASSUME Types, Channels, NEW c \in Conns, ConnectionEstablished(c)
    PROVE  Channels'
<1>1. /\ state_' = [state_ EXCEPT ![c] = "kConnected"]
      /\ channel' = [channel EXCEPT ![c] = EnableReading(@)]
      /\ state_ \in [Conns -> States] /\ channel \in [Conns -> ChannelType]
  BY DEF ConnectionEstablished, Types, ConnTypes
<1>2. ChannelFits(EnableReading(channel[c]), "kConnected")
  BY <1>1, ChannelsFit
<1> QED
  BY <1>1, <1>2, FitsAsBefore

-----------------------------------------------------------------------------
(* What an orderly step may do.                                            *)

\* Nothing to a connection, the map or the queues,
Still == UNCHANGED <<made, map, loopOf, state_, channel, failed, pending, batch, ran>>

\* close a connection, from one of its callbacks,
Closes(l, c) ==
    /\ HandleClose(l, c) /\ UNCHANGED <<batch, ran>>
    /\ \E op \in Closing : NextIs(l, op, c)

\* ask for EPOLLOUT, or no longer,
AsksForOut(c) ==
    /\ Open(c)
    /\ \E ch \in {EnableWriting(channel[c]), DisableWriting(channel[c])} :
          channel' = [channel EXCEPT ![c] = ch]
    /\ UNCHANGED <<made, map, loopOf, state_, failed, pending, batch, ran>>

\* or begin to shut a connection down.
Disconnects(c) ==
    /\ state_[c] = "kConnected"
    /\ state_' = [state_ EXCEPT ![c] = "kDisconnecting"]
    /\ UNCHANGED <<made, map, loopOf, channel, failed, pending, batch, ran>>

\* Without another thread and without the end of the server.
LEMMA OrderlySteps ==
    ASSUME Known, Next
    PROVE  /\ UNCHANGED <<setup, gone>>
           /\ \/ \E l \in Loops : LoopStep(l)
              \/ \E l \in Loops : \E c \in Conns : UserSend(l, c) \/ UserShutdown(l, c)
              \/ \E c \in Conns : Connect(c) \/ Peer(c)
<1>1. /\ held = {} /\ \A c \in Conns : calling[c] = "nothing"
      /\ ~setup.serverDies /\ gone = FALSE
  BY DEF Known, NoOtherThread, Orderly
<1>2. /\ \A c \in Conns : \A op : ~OtherCalls(c, op)
      /\ \A c \in Conns : ~OtherSend(c) /\ ~OtherShutdown(c) /\ ~OtherDrops(c)
      /\ ~DestroyServer /\ \A l \in Loops : ~LoopOver(l)
  BY <1>1 DEF OtherCalls, OtherSend, OtherShutdown, OtherDrops, DestroyServer, LoopOver
<1>3. \/ \E l \in Loops : LoopStep(l)
      \/ \E l \in Loops : \E c \in Conns : UserSend(l, c) \/ UserShutdown(l, c)
      \/ \E c \in Conns : Connect(c) \/ Peer(c)
  BY <1>2 DEF Next
<1>4. ASSUME NEW l \in Loops, LoopStep(l) PROVE gone' = gone
  <2>1. CASE PollReturn(l) \/ BeginFunctors(l) \/ RunFunctor(l) \/ EndFunctors(l)
    BY <2>1 DEF PollReturn, BeginFunctors, RunFunctor, EndFunctors, acceptVars
  <2>2. ASSUME NEW c \in Conns,
               \/ HandleEvent(l, c) \/ CloseCallback(l, c) \/ ErrorCallback(l, c)
               \/ ReadCallback(l, c) \/ WriteCallback(l, c) \/ UserReturn(l, c)
               \/ Accept(c)
        PROVE  gone' = gone
    BY <2>2 DEF HandleEvent, CloseCallback, ErrorCallback, ReadCallback, WriteCallback,
                UserReturn, Accept, acceptVars
  <2> QED
    BY <1>4, <2>1, <2>2 DEF LoopStep
<1>5. ASSUME NEW l \in Loops, NEW c \in Conns, UserSend(l, c) \/ UserShutdown(l, c)
      PROVE  gone' = gone
  BY <1>5 DEF UserSend, UserShutdown, acceptVars
<1>6. ASSUME NEW c \in Conns, Connect(c) \/ Peer(c) PROVE gone' = gone
  BY <1>6 DEF Connect, Peer, acceptVars
<1> QED
  BY <1>3, <1>4, <1>5, <1>6 DEF Next

\* A connection that is not closed and asks for something has been established.
LEMMA WritingIsOpen ==
    ASSUME Types, Channels, NEW c \in Conns, IsWriting(channel[c])
    PROVE  Open(c)
BY DEF Channels, ChannelFits, IsWriting, Types, ConnTypes, States, Open

LEMMA SendSteps ==
    ASSUME Types, NEW c \in Conns, SendInLoop(c), state_[c] = "kConnected",
           UNCHANGED loopVars
    PROVE  Still \/ AsksForOut(c)
<1>1. /\ UNCHANGED <<made, map, loopOf, state_, failed, pending, batch, ran>>
      /\ channel' = channel \/ channel' = [channel EXCEPT ![c] = EnableWriting(channel[c])]
  BY DEF SendInLoop, loopVars
<1> QED
  BY <1>1 DEF Still, AsksForOut, Open

LEMMA Steps ==
    ASSUME Known, Channels, Next
    PROVE  \/ Still
           \/ \E l \in Loops : \/ BeginFunctors(l) \/ EndFunctors(l)
                               \/ PollReturn(l) \/ RunFunctor(l)
           \/ \E l \in Loops : \E c \in made : Closes(l, c)
           \/ \E c \in made : AsksForOut(c) \/ Disconnects(c)
           \/ \E c \in Conns : Accept(c)
<1>1. Types
  BY DEF Known
<1>2. ASSUME NEW l \in Loops, NEW c \in Conns,
             HandleEvent(l, c) \/ ErrorCallback(l, c) \/ UserReturn(l, c)
      PROVE  Still
  BY <1>2 DEF HandleEvent, ErrorCallback, UserReturn, connVars, Still
<1>3. ASSUME NEW l \in Loops, NEW c \in Conns, CloseCallback(l, c) \/ ReadCallback(l, c)
      PROVE  Still \/ (c \in made /\ Closes(l, c))
  <2>1. c \in made /\ \E op \in Closing : NextIs(l, op, c)
    BY <1>1, <1>3, TodoIsMade DEF CloseCallback, ReadCallback, Closing
  <2>2. UNCHANGED <<batch, ran>> /\ (HandleClose(l, c) \/ UNCHANGED <<pending, connVars>>)
    BY <1>3 DEF CloseCallback, ReadCallback
  <2> QED
    BY <2>1, <2>2 DEF Closes, Still, connVars
<1>4. ASSUME NEW l \in Loops, NEW c \in Conns, WriteCallback(l, c)
      PROVE  Still \/ (c \in made /\ AsksForOut(c))
  <2>1. c \in made
    BY <1>1, <1>4, TodoIsMade DEF WriteCallback
  <2>2. /\ UNCHANGED <<made, map, loopOf, state_, failed, pending, batch, ran>>
        /\ \/ channel' = channel
           \/ /\ IsWriting(channel[c])
              /\ channel' = [channel EXCEPT ![c] = DisableWriting(channel[c])]
    BY <1>4 DEF WriteCallback
  <2> QED
    BY <1>1, <2>1, <2>2, WritingIsOpen DEF Still, AsksForOut
<1>5. ASSUME NEW l \in Loops, NEW c \in Conns, UserSend(l, c)
      PROVE  Still \/ (c \in made /\ AsksForOut(c))
  <2>1. c \in made
    BY <1>1, <1>5, TodoIsMade DEF UserSend
  <2> QED
    BY <1>1, <1>5, <2>1, SendSteps DEF UserSend
<1>6. ASSUME NEW l \in Loops, NEW c \in Conns, UserShutdown(l, c)
      PROVE  c \in made /\ Disconnects(c)
  <2>1. c \in made
    BY <1>1, <1>6, TodoIsMade DEF UserShutdown, InUser
  <2> QED
    BY <1>6, <2>1 DEF UserShutdown, loopVars, Disconnects
<1>7. ASSUME NEW c \in Conns, Connect(c) \/ Peer(c) PROVE Still
  BY <1>7 DEF Connect, Peer, connVars, loopVars, Still
<1>8. ASSUME NEW l \in Loops, LoopStep(l)
      PROVE  \/ Still
             \/ BeginFunctors(l) \/ EndFunctors(l) \/ PollReturn(l) \/ RunFunctor(l)
             \/ \E c \in made : Closes(l, c) \/ AsksForOut(c)
             \/ \E c \in Conns : Accept(c)
  BY <1>2, <1>3, <1>4, <1>8 DEF LoopStep
<1> QED
  BY <1>5, <1>6, <1>7, <1>8, OrderlySteps

\* What a functor does, without another thread.
LEMMA QuietRun ==
    ASSUME Types, NoOtherThread, NEW l \in Loops, RunFunctor(l)
    PROVE  LET f == batch[l][ran[l] + 1]
               c == f.conn
           IN \/ /\ f.op = "connectionEstablished"
                 /\ ConnectionEstablished(c)
                 /\ UNCHANGED <<made, map, loopOf, output, pending, sock>>
                 /\ todo' = [todo EXCEPT ![l] = <<Callback("connection", c)>>]
              \/ /\ f.op = "removeConnectionInLoop"
                 /\ RemoveConnectionInLoop(c)
                 /\ failed' = Failing("erase", c \in map)
                 /\ UNCHANGED <<made, loopOf, state_, channel, output, todo, sock>>
              \/ /\ f.op = "connectionDestroyed"
                 /\ ConnectionsDestroyed({c})
                 /\ UNCHANGED <<map, todo, pending, sock>>
<1> DEFINE f == batch[l][ran[l] + 1]
<1>1. f \in QuietFunctors
  <2>1. ran[l] + 1 \in 1..Len(batch[l]) /\ batch[l] \in Seq(QuietFunctors)
    BY DEF RunFunctor, Types, LoopTypes, NoOtherThread
  <2> QED
    BY <2>1
<1>2. f.op \notin {"shutdownInLoop", "sendInLoop"}
  BY <1>1 DEF QuietFunctors, Functors
<1> QED
  BY <1>2 DEF RunFunctor

-----------------------------------------------------------------------------
(* Each part of Life is kept.                                              *)

LEMMA ChannelsNext ==
    ASSUME Known, Channels, Next
    PROVE  Channels'
<1>1. Types /\ NoOtherThread
  BY DEF Known
<1>2. state_ \in [Conns -> States] /\ channel \in [Conns -> ChannelType] /\ made \subseteq Conns
  BY <1>1 DEF Types, ConnTypes
<1>3. CASE UNCHANGED <<state_, channel>>
  BY <1>3, FitsAsBefore
<1>4. ASSUME NEW l \in Loops, BeginFunctors(l) \/ EndFunctors(l) PROVE Channels'
  BY <1>3, <1>4 DEF BeginFunctors, EndFunctors, connVars
<1>5. ASSUME NEW l \in Loops, PollReturn(l) PROVE Channels'
  <2> SUFFICES ASSUME NEW c \in Conns PROVE ChannelFits(channel[c], state_[c])'
    BY DEF Channels
  <2>1. /\ channel'[c].events = channel[c].events /\ channel'[c].status = channel[c].status
        /\ channel'[c].watched = channel[c].watched
        /\ channel'[c].interest = channel[c].interest
    BY <1>2, <1>5 DEF PollReturn, ChannelType
  <2>2. UNCHANGED state_
    BY <1>5 DEF PollReturn
  <2> QED
    BY <2>1, <2>2 DEF Channels, ChannelFits
<1>6. ASSUME NEW l \in Loops, RunFunctor(l) PROVE Channels'
  <2> DEFINE c == batch[l][ran[l] + 1].conn
  <2>1. c \in Conns
    BY <1>1, <1>6, NextToRun
  <2>2. \/ ConnectionEstablished(c) \/ UNCHANGED <<state_, channel>>
        \/ ConnectionsDestroyed({c})
    BY <1>1, <1>6, QuietRun
  <2> HIDE DEF c
  <2> QED
    BY <1>1, <1>3, <2>1, <2>2, EstablishedFits, DestroyedFits
<1>7. ASSUME NEW l \in Loops, NEW c \in made, Closes(l, c) PROVE Channels'
  BY <1>1, <1>2, <1>7, CloseFits DEF Closes
<1>8. ASSUME NEW c \in made, AsksForOut(c) PROVE Channels'
  <2>1. /\ state_[c] \in {"kConnected", "kDisconnecting"} /\ UNCHANGED state_
        /\ \/ channel' = [channel EXCEPT ![c] = EnableWriting(channel[c])]
           \/ channel' = [channel EXCEPT ![c] = DisableWriting(channel[c])]
    BY <1>8 DEF AsksForOut, Open
  <2>2. /\ ChannelFits(EnableWriting(channel[c]), state_[c])
        /\ ChannelFits(DisableWriting(channel[c]), state_[c])
    BY <1>2, <2>1, ChannelsFit
  <2> QED
    BY <1>2, <2>1, <2>2, FitsAsBefore
<1>9. ASSUME NEW c \in made, Disconnects(c) PROVE Channels'
  <2>1. /\ state_[c] = "kConnected" /\ state_' = [state_ EXCEPT ![c] = "kDisconnecting"]
        /\ UNCHANGED channel
    BY <1>9 DEF Disconnects
  <2>2. ChannelFits(channel[c], "kDisconnecting")
    BY <1>2 DEF Channels, ChannelFits
  <2> QED
    BY <1>2, <2>1, <2>2, FitsAsBefore
<1>10. ASSUME NEW c \in Conns, Accept(c) PROVE Channels'
  <2>1. ConnectionEstablished(c) \/ UNCHANGED <<state_, channel>>
    BY <1>10 DEF Accept
  <2> QED
    BY <1>1, <1>3, <2>1, EstablishedFits
<1>11. CASE Still
  BY <1>3, <1>11 DEF Still
<1> QED
  BY <1>4, <1>5, <1>6, <1>7, <1>8, <1>9, <1>10, <1>11, Steps

\* The queues.
LEMMA UnrunIsMade ==
    ASSUME Types, NEW l \in Loops, NEW f, Unrun(l, f)
    PROVE  f \in MadeFunctors /\ f.conn \in made
<1>1. batch[l] \in Seq(MadeFunctors) /\ pending[l] \in Seq(MadeFunctors)
  BY DEF Types, LoopTypes
<1>2. f \in MadeFunctors
  BY <1>1 DEF Unrun, InBatch, InPending
<1> QED
  BY <1>2 DEF MadeFunctors

\* A connection that a callback closes is open.
LEMMA CloserIsOpen ==
    ASSUME Types, NEW l \in Loops, Events(l), NEW c, Closes(l, c)
    PROVE  /\ Open(c) /\ loopOf[c] = l /\ phase[l] = "events" /\ todo[l] # <<>>
           /\ todo[l][1].conn = c /\ todo[l][1].op \in Closing
<1>1. PICK op \in Closing : todo[l] # <<>> /\ Head(todo[l]) = Callback(op, c)
  BY DEF Closes, NextIs
<1>2. todo[l] \in Seq(Callbacks)
  BY DEF Types, LoopTypes
<1>3. 1 \in 1..Len(todo[l]) /\ todo[l][1] = Callback(op, c)
  BY <1>1, <1>2
<1> QED
  BY <1>1, <1>3 DEF Events, Callback

LEMMA PendingQueued ==
    ASSUME Types, NEW m \in Loops, NEW d, Queue(m, d), NEW k \in Loops, NEW g
    PROVE  InPending(k, g)' <=> InPending(k, g) \/ (k = m /\ g = d)
<1> DEFINE q == pending[m]
<1>1. pending \in [Loops -> Seq(MadeFunctors)] /\ q \in Seq(MadeFunctors)
  BY DEF Types, LoopTypes
<1>2. /\ Len(Append(q, d)) = Len(q) + 1 /\ Len(q) \in Nat
      /\ \A i \in 1..Len(q) : Append(q, d)[i] = q[i]
      /\ Append(q, d)[Len(q) + 1] = d
  BY <1>1
<1>3. pending'[k] = IF k = m THEN Append(q, d) ELSE pending[k]
  BY <1>1 DEF Queue
<1> HIDE DEF q
<1>4. (\E i \in 1..Len(Append(q, d)) : Append(q, d)[i] = g)
          <=> (\E i \in 1..Len(q) : q[i] = g) \/ g = d
  BY <1>2
<1> QED
  BY <1>3, <1>4 DEF InPending, q

\* The functor that is run waits no longer; a removal queues a destruction.
LEMMA UnrunAfterRun ==
    ASSUME Types, NoOtherThread, NEW l \in Loops, Once(l), RunFunctor(l),
           NEW k \in Loops, NEW g
    PROVE  LET f == batch[l][ran[l] + 1] IN
           Unrun(k, g)' <=> \/ Unrun(k, g) /\ ~(k = l /\ g = f)
                            \/ /\ f.op = "removeConnectionInLoop"
                               /\ k = loopOf[f.conn] /\ g = Destruction(f.conn)
<1> DEFINE f == batch[l][ran[l] + 1]
           c == f.conn
<1>1. /\ batch \in [Loops -> Seq(MadeFunctors)] /\ ran \in [Loops -> Nat]
      /\ pending \in [Loops -> Seq(MadeFunctors)]
      /\ ran[l] + 1 \in 1..Len(batch[l])
      /\ ran' = [ran EXCEPT ![l] = @ + 1] /\ UNCHANGED batch
  BY DEF RunFunctor, Types, LoopTypes
<1>2. ~InPending(l, f)
  <2>1. ran[l] + 1 > ran[l]
    BY <1>1
  <2> QED
    BY <1>1, <2>1 DEF Once, InPending
<1>3. ASSUME k = l, g = f, InBatch(k, g)' PROVE FALSE
  <2>1. PICK i \in 1..Len(batch[l]) : i > ran[l] + 1 /\ batch[l][i] = g
    BY <1>1, <1>3 DEF InBatch
  <2>2. i > ran[l] /\ ran[l] + 1 > ran[l] /\ i # ran[l] + 1
    BY <1>1, <2>1
  <2> QED
    BY <1>1, <1>3, <2>1, <2>2 DEF Once
<1>4. InBatch(k, g)' <=> InBatch(k, g) /\ ~(k = l /\ g = f)
  <2>1. InBatch(k, g)' => InBatch(k, g)
    BY UnrunRun
  <2>2. InBatch(k, g) => InBatch(k, g)' \/ (k = l /\ g = f)
    BY UnrunRun
  <2>3. ~(k = l /\ g = f /\ InBatch(k, g)')
    BY <1>3
  <2> QED
    BY <2>1, <2>2, <2>3
<1>5. c \in Conns /\ loopOf[c] \in Loops
  BY NextToRun DEF Types, ConnTypes
<1>6. InPending(k, g)' <=> \/ InPending(k, g)
                           \/ /\ f.op = "removeConnectionInLoop"
                              /\ k = loopOf[c] /\ g = Destruction(c)
  <2>1. CASE f.op = "removeConnectionInLoop"
    <3>1. Queue(loopOf[c], Destruction(c))
      BY <2>1, QuietRun DEF RemoveConnectionInLoop, Destruction
    <3> QED
      BY <1>5, <2>1, <3>1, PendingQueued
  <2>2. CASE f.op # "removeConnectionInLoop"
    <3>1. UNCHANGED pending
      BY <2>2, QuietRun
    <3> QED
      BY <2>2, <3>1 DEF InPending
  <2> QED
    BY <2>1, <2>2
<1> HIDE DEF f, c
<1>7. Unrun(k, g)' <=> \/ Unrun(k, g) /\ ~(k = l /\ g = f)
                       \/ /\ f.op = "removeConnectionInLoop"
                          /\ k = loopOf[c] /\ g = Destruction(c)
  BY <1>2, <1>4, <1>6 DEF Unrun
<1> QED
  BY <1>7 DEF f, c

LEMMA OnceQueued ==
    ASSUME Types, NEW k \in Loops, Once(k), UNCHANGED batch,
           ran'[k] \in Nat, ran'[k] >= ran[k],
           \/ UNCHANGED pending
           \/ \E m \in Loops : \E d : Queue(m, d) /\ ~Unrun(m, d)
    PROVE  Once(k)'
<1>1. /\ batch \in [Loops -> Seq(MadeFunctors)] /\ ran \in [Loops -> Nat]
      /\ pending \in [Loops -> Seq(MadeFunctors)]
  BY DEF Types, LoopTypes
<1>2. \A i \in 1..Len(batch[k]) : i > ran'[k] => i > ran[k]
  BY <1>1
<1>3. CASE pending'[k] = pending[k]
  BY <1>2, <1>3 DEF Once
<1>4. ASSUME NEW d, Queue(k, d), ~Unrun(k, d) PROVE Once(k)'
  <2> DEFINE q == pending[k]
  <2>1. q \in Seq(MadeFunctors) /\ pending'[k] = Append(q, d)
    BY <1>1, <1>4 DEF Queue
  <2>2. /\ Len(Append(q, d)) = Len(q) + 1 /\ Len(q) \in Nat
        /\ \A i \in 1..Len(q) : Append(q, d)[i] = q[i]
        /\ Append(q, d)[Len(q) + 1] = d
    BY <2>1
  <2>3. /\ \A i \in 1..Len(q) : q[i] # d
        /\ \A i \in 1..Len(batch[k]) : i > ran[k] => batch[k][i] # d
    BY <1>4 DEF Unrun, InPending, InBatch
  <2>4. /\ \A i, j \in 1..Len(q) : q[i] = q[j] => i = j
        /\ \A i, j \in 1..Len(batch[k]) :
              i > ran[k] /\ j > ran[k] /\ batch[k][i] = batch[k][j] => i = j
        /\ \A i \in 1..Len(batch[k]) : \A j \in 1..Len(q) :
              i > ran[k] => batch[k][i] # q[j]
    BY DEF Once
  <2> HIDE DEF q
  <2>5. \A i, j \in 1..Len(Append(q, d)) : Append(q, d)[i] = Append(q, d)[j] => i = j
    BY <2>2, <2>3, <2>4
  <2>6. \A i \in 1..Len(batch[k]) : \A j \in 1..Len(Append(q, d)) :
            i > ran'[k] => batch[k][i] # Append(q, d)[j]
    BY <1>2, <2>2, <2>3, <2>4
  <2> QED
    BY <1>2, <2>1, <2>4, <2>5, <2>6 DEF Once
<1>5. ASSUME NEW m \in Loops, NEW d, Queue(m, d), ~Unrun(m, d) PROVE Once(k)'
  <2>1. m # k => pending'[k] = pending[k]
    BY <1>1, <1>5 DEF Queue
  <2> QED
    BY <1>3, <1>4, <1>5, <2>1
<1> QED
  BY <1>3, <1>5

\* What is queued did not wait yet.
LEMMA OnceNext ==
    ASSUME Known, Channels, LeftClosed, AllDue, \A l \in Loops : Once(l) /\ Events(l), Next
    PROVE  \A l \in Loops : Once(l)'
<1> SUFFICES ASSUME NEW k \in Loops PROVE Once(k)'
  OBVIOUS
<1>1. Types /\ NoOtherThread /\ BatchesCleared /\ Unmade /\ DestroyedLeft
  BY DEF Known, LeaveInv
<1>2. /\ batch \in [Loops -> Seq(MadeFunctors)] /\ ran \in [Loops -> Nat]
      /\ pending \in [Loops -> Seq(MadeFunctors)]
      /\ made \subseteq Conns /\ map \subseteq made
      /\ loopOf \in [Conns -> Loops] /\ 0 \in Loops
  BY <1>1 DEF Types, LoopTypes, ConnTypes, AcceptTypes, Setup, Loops, numThreads_
<1>3. Once(k) /\ ran[k] \in Nat /\ ran[k] >= ran[k]
  BY <1>2
<1>4. CASE UNCHANGED <<pending, batch, ran>>
  BY <1>3, <1>4 DEF Once
<1>5. ASSUME NEW m \in Loops, NEW d, Queue(m, d), ~Unrun(m, d), UNCHANGED <<batch, ran>>
      PROVE  Once(k)'
  <2>1. ran'[k] \in Nat /\ ran'[k] >= ran[k]
    BY <1>3, <1>5
  <2> QED
    BY <1>1, <1>3, <1>5, <2>1, OnceQueued
\* A functor that closes or destroys does not wait while its connection is open.
<1>6. ASSUME NEW c \in made, Open(c), NEW l \in Loops
      PROVE  ~Unrun(l, Removal(c)) /\ ~Unrun(l, Destruction(c)) /\ c \in map
  <2>1. c \in map
    BY <1>6 DEF LeftClosed, Open
  <2>2. Removal(c) \in MadeFunctors /\ Destruction(c) \in MadeFunctors
    BY <1>2 DEF Removal, Destruction, Functor, MadeFunctors, Functors
  <2>3. ~Unrun(l, Destruction(c))
    BY <1>1, <2>1, <2>2 DEF DestroyedLeft, Destruction, Functor
  <2>4. ~Unrun(l, Removal(c))
    BY <1>6, <2>2 DEF AllDue, Due, Removal, Functor, Open
  <2> QED
    BY <2>1, <2>3, <2>4
<1>7. ASSUME NEW l \in Loops, BeginFunctors(l) PROVE Once(k)'
  <2>1. batch' = [batch EXCEPT ![l] = pending[l]] /\ pending' = [pending EXCEPT ![l] = <<>>]
    BY <1>7 DEF BeginFunctors
  <2>2. UNCHANGED ran
    BY <1>7 DEF BeginFunctors
  <2>3. CASE k = l
    <3>1. batch'[k] = pending[k] /\ pending'[k] = <<>>
      BY <1>2, <2>1, <2>3
    <3> QED
      BY <1>3, <3>1 DEF Once
  <2>4. CASE k # l
    <3>1. batch'[k] = batch[k] /\ pending'[k] = pending[k] /\ ran'[k] = ran[k]
      BY <1>2, <2>1, <2>2, <2>4
    <3> QED
      BY <1>3, <3>1 DEF Once
  <2> QED
    BY <2>3, <2>4
<1>8. ASSUME NEW l \in Loops, EndFunctors(l) PROVE Once(k)'
  <2>1. /\ batch' = [batch EXCEPT ![l] = <<>>] /\ ran' = [ran EXCEPT ![l] = 0]
        /\ UNCHANGED pending
    BY <1>8 DEF EndFunctors
  <2>2. CASE k = l
    <3>1. batch'[k] = <<>> /\ pending'[k] = pending[k]
      BY <1>2, <2>1, <2>2
    <3> QED
      BY <1>3, <3>1 DEF Once
  <2>3. CASE k # l
    <3>1. batch'[k] = batch[k] /\ pending'[k] = pending[k] /\ ran'[k] = ran[k]
      BY <1>2, <2>1, <2>3
    <3> QED
      BY <1>3, <3>1 DEF Once
  <2> QED
    BY <2>2, <2>3
<1>9. ASSUME NEW l \in Loops, RunFunctor(l) PROVE Once(k)'
  <2> DEFINE f == batch[l][ran[l] + 1]
  <2>1. PICK c \in made : c = f.conn /\ f \in MadeFunctors /\ Unrun(l, f)
    BY <1>1, <1>9, NextToRun
  <2>2. UNCHANGED batch /\ ran' = [ran EXCEPT ![l] = @ + 1]
    BY <1>9 DEF RunFunctor
  <2>3. ran'[k] \in Nat /\ ran'[k] >= ran[k]
    BY <1>2, <2>2
  <2>4. CASE f.op = "removeConnectionInLoop"
    <3>1. Queue(loopOf[c], Destruction(c))
      BY <1>1, <1>9, <2>1, <2>4, QuietRun DEF RemoveConnectionInLoop, Destruction
    <3>2. c \in map
      BY <2>1, <2>4 DEF AllDue, Due
    <3>3. Destruction(c) \in MadeFunctors /\ loopOf[c] \in Loops
      BY <1>2 DEF Destruction, Functor, MadeFunctors, Functors
    <3>4. ~Unrun(loopOf[c], Destruction(c))
      BY <1>1, <3>2, <3>3 DEF DestroyedLeft, Destruction, Functor
    <3> QED
      BY <1>1, <1>3, <2>2, <2>3, <3>1, <3>3, <3>4, OnceQueued
  <2>5. CASE f.op # "removeConnectionInLoop"
    <3>1. UNCHANGED pending
      BY <1>1, <1>9, <2>5, QuietRun
    <3> QED
      BY <1>1, <1>3, <2>2, <2>3, <3>1, OnceQueued
  <2> QED
    BY <2>4, <2>5
<1>10. ASSUME NEW l \in Loops, NEW c \in made, Closes(l, c) PROVE Once(k)'
  <2>1. Open(c) /\ HandleClose(l, c) /\ UNCHANGED <<batch, ran>>
    BY <1>1, <1>10, CloserIsOpen DEF Closes
  <2>2. CASE l = 0
    <3>1. Queue(loopOf[c], Destruction(c)) /\ loopOf[c] \in Loops
      BY <1>2, <2>1, <2>2 DEF HandleClose, RemoveConnectionInLoop, Destruction
    <3> QED
      BY <1>5, <1>6, <2>1, <3>1
  <2>3. CASE l # 0
    <3>1. Queue(0, Removal(c))
      BY <2>1, <2>3 DEF HandleClose, Removal
    <3> QED
      BY <1>2, <1>5, <1>6, <2>1, <3>1
  <2> QED
    BY <2>2, <2>3
<1>11. ASSUME NEW c \in Conns, Accept(c) PROVE Once(k)'
  <2> DEFINE l == IF numThreads_ = 0 THEN 0 ELSE next_ + 1
             f == Functor("connectionEstablished", c, TRUE)
  <2>1. c \notin made
    BY <1>1, <1>11 DEF Unmade, Accept
  <2>2. UNCHANGED <<batch, ran>> /\ (UNCHANGED pending \/ Queue(l, f))
    BY <1>11 DEF Accept
  <2>3. l \in Loops
    BY <1>1 DEF Types, AcceptTypes, Setup, Loops, numThreads_
  <2>4. f \notin MadeFunctors
    BY <2>1 DEF Functor, MadeFunctors
  <2> HIDE DEF l, f
  <2>5. ~Unrun(l, f)
    BY <1>1, <2>3, <2>4, UnrunIsMade
  <2> QED
    BY <1>4, <1>5, <2>2, <2>3, <2>5
<1>12. ASSUME Still \/ \E l \in Loops : PollReturn(l) PROVE Once(k)'
  BY <1>4, <1>12 DEF Still, PollReturn
<1>13. ASSUME NEW c \in made, AsksForOut(c) \/ Disconnects(c) PROVE Once(k)'
  BY <1>4, <1>13 DEF AsksForOut, Disconnects
<1> QED
  BY <1>7, <1>8, <1>9, <1>10, <1>11, <1>12, <1>13, Steps

\* What has left the map is not touched again but to be destroyed.
LEMMA LeftByEach ==
    ASSUME \A d \in made' \ map' :
             /\ state_'[d] = "kDisconnected"
             /\ \E k : /\ k = loopOf'[d]
                      /\ \/ Unrun(k, Destruction(d))'
                         \/ channel'[d].status = "kNew" /\ ~channel'[d].added
    PROVE  LeftClosed'
BY DEF LeftClosed, Unrun, InBatch, InPending, Destruction

LEMMA LeftAsBefore ==
    ASSUME Types, LeftClosed, made' \ map' = made \ map,
           \A d \in made \ map :
             /\ loopOf'[d] = loopOf[d] /\ state_'[d] = state_[d]
             /\ channel'[d].status = channel[d].status /\ channel'[d].added = channel[d].added
             /\ \A k \in Loops : Unrun(k, Destruction(d)) => Unrun(k, Destruction(d))'
    PROVE  LeftClosed'
<1> SUFFICES ASSUME NEW d \in made \ map
             PROVE  /\ state_'[d] = "kDisconnected"
                    /\ \E k : /\ k = loopOf'[d]
                             /\ \/ Unrun(k, Destruction(d))'
                                \/ channel'[d].status = "kNew" /\ ~channel'[d].added
  BY LeftByEach
<1>1. PICK k \in Loops : k = loopOf[d]
  BY DEF Types, ConnTypes
<1> QED
  BY <1>1 DEF LeftClosed

LEMMA QueuedIsUnrun ==
    ASSUME Types, BatchesCleared, UNCHANGED <<batch, ran>>, NEW l \in Loops, NEW f,
           Queue(l, f)
    PROVE  \A k \in Loops : \A g : Unrun(k, g)' <=> Unrun(k, g) \/ (k = l /\ g = f)
BY UnrunSteps

LEMMA LeftClosedNext ==
    ASSUME Known, Channels, LeftClosed, AllDue, \A l \in Loops : Once(l) /\ Events(l), Next
    PROVE  LeftClosed'
<1>1. Types /\ NoOtherThread /\ BatchesCleared /\ Unmade /\ DestroyedLeft
  BY DEF Known, LeaveInv
<1>2. /\ made \subseteq Conns /\ map \subseteq made /\ 0 \in Loops
      /\ loopOf \in [Conns -> Loops] /\ state_ \in [Conns -> States]
      /\ channel \in [Conns -> ChannelType]
  BY <1>1 DEF Types, ConnTypes, AcceptTypes, Setup, Loops, numThreads_
<1>3. ASSUME NEW c \in made, Open(c) \/ state_[c] = "kConnecting" PROVE c \in map
  BY <1>3 DEF LeftClosed, Open
<1>4. ASSUME UNCHANGED <<pending, batch, ran>>
      PROVE  \A k \in Loops : \A g : Unrun(k, g)' <=> Unrun(k, g)
  BY <1>1, <1>4, UnrunSteps
<1>5. CASE Still
  BY <1>1, <1>2, <1>4, <1>5, LeftAsBefore DEF Still
<1>6. ASSUME NEW l \in Loops, BeginFunctors(l) \/ EndFunctors(l) PROVE LeftClosed'
  <2>1. \A k \in Loops : \A g : Unrun(k, g)' <=> Unrun(k, g)
    BY <1>1, <1>6, UnrunSteps
  <2>2. UNCHANGED connVars
    BY <1>6 DEF BeginFunctors, EndFunctors
  <2> QED
    BY <1>1, <1>2, <2>1, <2>2, LeftAsBefore DEF connVars
<1>7. ASSUME NEW l \in Loops, PollReturn(l) PROVE LeftClosed'
  <2>1. UNCHANGED <<made, map, loopOf, state_, pending, batch, ran>>
    BY <1>7 DEF PollReturn
  <2>2. \A d \in Conns : /\ channel'[d].status = channel[d].status
                         /\ channel'[d].added = channel[d].added
    BY <1>2, <1>7 DEF PollReturn, ChannelType
  <2> QED
    BY <1>1, <1>2, <1>4, <2>1, <2>2, LeftAsBefore
<1>8. ASSUME NEW l \in Loops, RunFunctor(l) PROVE LeftClosed'
  <2> DEFINE f == batch[l][ran[l] + 1]
  <2>1. PICK c \in made : c = f.conn /\ f \in MadeFunctors /\ Unrun(l, f)
    BY <1>1, <1>8, NextToRun
  <2>2. Once(l)
    OBVIOUS
  <2>3. \A k \in Loops : \A g :
          Unrun(k, g)' <=> \/ Unrun(k, g) /\ ~(k = l /\ g = f)
                           \/ /\ f.op = "removeConnectionInLoop"
                              /\ k = loopOf[c] /\ g = Destruction(c)
    BY <1>1, <1>8, <2>1, <2>2, UnrunAfterRun
  <2>4. CASE f.op = "connectionEstablished"
    <3>1. ConnectionEstablished(c) /\ UNCHANGED <<made, map, loopOf>>
      BY <1>1, <1>8, <2>1, <2>4, QuietRun
    <3>2. c \in map
      BY <1>3, <2>1, <2>4 DEF AllDue, Due
    <3>3. \A d \in made \ map : state_'[d] = state_[d] /\ channel'[d] = channel[d]
      BY <1>2, <3>1, <3>2 DEF ConnectionEstablished
    <3>4. \A d : f # Destruction(d)
      BY <2>4 DEF Destruction, Functor
    <3> HIDE DEF f
    <3> QED
      BY <1>1, <1>2, <2>3, <3>1, <3>3, <3>4, LeftAsBefore
  <2>5. CASE f.op = "removeConnectionInLoop"
    <3>1. RemoveConnectionInLoop(c) /\ UNCHANGED <<made, loopOf, state_, channel>>
      BY <1>1, <1>8, <2>1, <2>5, QuietRun
    <3>2. state_[c] = "kDisconnected" /\ map' = map \ {c}
      BY <2>1, <2>5, <3>1 DEF AllDue, Due, RemoveConnectionInLoop
    <3>3. \A d : f # Destruction(d)
      BY <2>5 DEF Destruction, Functor
    <3> HIDE DEF f
    <3> SUFFICES ASSUME NEW d \in made \ map', NEW k \in Loops, k = loopOf[d]
                 PROVE  /\ state_[d] = "kDisconnected"
                        /\ \/ Unrun(k, Destruction(d))'
                           \/ channel[d].status = "kNew" /\ ~channel[d].added
      BY <1>2, <3>1, LeftByEach
    <3>5. CASE d = c
      BY <2>3, <2>5, <3>2, <3>5
    <3>6. CASE d # c
      BY <2>3, <3>2, <3>3, <3>6 DEF LeftClosed
    <3> QED
      BY <3>5, <3>6
  <2>6. CASE f.op = "connectionDestroyed"
    <3>1. ConnectionsDestroyed({c}) /\ UNCHANGED <<map, made, loopOf>>
      <4>1. ConnectionsDestroyed({c}) /\ UNCHANGED map
        BY <1>1, <1>8, <2>1, <2>6, QuietRun
      <4>2. UNCHANGED <<made, loopOf>>
        BY <4>1 DEF ConnectionsDestroyed
      <4> QED
        BY <4>1, <4>2
    <3>2. c \in made \ map /\ state_[c] = "kDisconnected"
      BY <1>1, <2>1, <2>6 DEF DestroyedLeft, LeftClosed
    <3>3. /\ \A d \in made : state_'[d] = state_[d]
          /\ \A d \in made \ {c} : channel'[d] = channel[d]
          /\ channel'[c] = Removed(channel[c])
      BY <1>2, <3>1, <3>2 DEF ConnectionsDestroyed
    <3>4. channel'[c].status = "kNew" /\ ~channel'[c].added
      BY <1>2, <3>3, RemovedLeaves
    <3>5. \A d \in made \ {c} : f # Destruction(d)
      BY <2>1 DEF Destruction, Functor
    <3> HIDE DEF f
    <3> SUFFICES ASSUME NEW d \in made \ map, NEW k \in Loops, k = loopOf[d]
                 PROVE  /\ state_'[d] = "kDisconnected"
                        /\ \/ Unrun(k, Destruction(d))'
                           \/ channel'[d].status = "kNew" /\ ~channel'[d].added
      BY <1>2, <3>1, LeftByEach
    <3>7. CASE d = c
      BY <3>2, <3>3, <3>4, <3>7
    <3>8. CASE d # c
      BY <2>3, <3>3, <3>5, <3>8 DEF LeftClosed
    <3> QED
      BY <3>7, <3>8
  <2> QED
    BY <1>1, <1>8, <2>4, <2>5, <2>6, QuietRun
<1>9. ASSUME NEW l \in Loops, NEW c \in made, Closes(l, c) PROVE LeftClosed'
  <2>1. Open(c) /\ HandleClose(l, c) /\ UNCHANGED <<batch, ran, made, loopOf>>
    BY <1>1, <1>9, CloserIsOpen DEF Closes, HandleClose
  <2>2. /\ c \in map /\ state_' = [state_ EXCEPT ![c] = "kDisconnected"]
        /\ \A d \in made \ {c} : state_'[d] = state_[d] /\ channel'[d] = channel[d]
    BY <1>2, <1>3, <2>1 DEF HandleClose
  <2>3. CASE l = 0
    <3>1. map' = map \ {c} /\ Queue(loopOf[c], Destruction(c)) /\ loopOf[c] \in Loops
      BY <1>2, <2>1, <2>3 DEF HandleClose, RemoveConnectionInLoop, Destruction
    <3>2. \A k \in Loops : \A g :
            Unrun(k, g)' <=> Unrun(k, g) \/ (k = loopOf[c] /\ g = Destruction(c))
      BY <1>1, <2>1, <3>1, QueuedIsUnrun
    <3> SUFFICES ASSUME NEW d \in made \ map', NEW k \in Loops, k = loopOf[d]
                 PROVE  /\ state_'[d] = "kDisconnected"
                        /\ \/ Unrun(k, Destruction(d))'
                           \/ channel'[d].status = "kNew" /\ ~channel'[d].added
      BY <1>2, <2>1, LeftByEach
    <3>4. CASE d = c
      BY <1>2, <2>2, <3>2, <3>4
    <3>5. CASE d # c
      BY <2>2, <3>1, <3>2, <3>5 DEF LeftClosed
    <3> QED
      BY <3>4, <3>5
  <2>4. CASE l # 0
    <3>1. UNCHANGED map /\ Queue(0, Removal(c))
      BY <2>1, <2>4 DEF HandleClose, Removal
    <3>2. \A k \in Loops : \A g : Unrun(k, g) => Unrun(k, g)'
      BY <1>1, <1>2, <2>1, <3>1, QueuedIsUnrun
    <3> QED
      BY <1>1, <1>2, <2>1, <2>2, <3>1, <3>2, LeftAsBefore
  <2> QED
    BY <2>3, <2>4
<1>10. ASSUME NEW c \in made, AsksForOut(c) \/ Disconnects(c) PROVE LeftClosed'
  <2>1. c \in map
    BY <1>3, <1>10 DEF AsksForOut, Disconnects, Open
  <2>2. /\ UNCHANGED <<made, map, loopOf, pending, batch, ran>>
        /\ \A d \in made \ {c} : state_'[d] = state_[d] /\ channel'[d] = channel[d]
    BY <1>2, <1>10 DEF AsksForOut, Disconnects
  <2> QED
    BY <1>1, <1>2, <1>4, <2>1, <2>2, LeftAsBefore
<1>11. ASSUME NEW c \in Conns, Accept(c) PROVE LeftClosed'
  <2> DEFINE l == IF numThreads_ = 0 THEN 0 ELSE next_ + 1
             f == Functor("connectionEstablished", c, TRUE)
  <2>1. c \notin made
    BY <1>1, <1>11 DEF Unmade, Accept
  <2>2. /\ UNCHANGED <<batch, ran>> /\ (UNCHANGED pending \/ Queue(l, f))
        /\ made' = made \cup {c} /\ map' = map \cup {c} /\ loopOf' = [loopOf EXCEPT ![c] = l]
        /\ ConnectionEstablished(c) \/ UNCHANGED <<state_, channel>>
    BY <1>11 DEF Accept
  <2>3. l \in Loops
    BY <1>1 DEF Types, AcceptTypes, Setup, Loops, numThreads_
  <2> HIDE DEF l, f
  <2>4. \A k \in Loops : \A g : Unrun(k, g) => Unrun(k, g)'
    BY <1>1, <1>4, <2>2, <2>3, QueuedIsUnrun
  <2>5. \A d \in made : /\ loopOf'[d] = loopOf[d] /\ state_'[d] = state_[d]
                        /\ channel'[d] = channel[d]
    BY <1>2, <2>1, <2>2 DEF ConnectionEstablished
  <2>6. made' \ map' = made \ map
    BY <2>1, <2>2
  <2> QED
    BY <1>1, <1>2, <2>4, <2>5, <2>6, LeftAsBefore
<1> QED
  BY <1>5, <1>6, <1>7, <1>8, <1>9, <1>10, <1>11, Steps

\* A functor stays due while its connection is as it was, or is open.
LEMMA StaysDue ==
    ASSUME NEW k, NEW g, Due(k, g), loopOf'[g.conn] = loopOf[g.conn],
           \/ Open(g.conn)
           \/ /\ state_'[g.conn] = state_[g.conn]
              /\ g.conn \in map => g.conn \in map'
    PROVE  Due(k, g)'
<1> DEFINE d == g.conn
<1>1. CASE Open(d)
  BY <1>1 DEF Due, Open
<1>2. CASE state_'[d] = state_[d] /\ (d \in map => d \in map')
  BY <1>2 DEF Due
<1> QED
  BY <1>1, <1>2

LEMMA DueAsBefore ==
    ASSUME Types, UNCHANGED <<setup, made, map, loopOf>>, AllDue,
           \A k \in Loops : \A g : Unrun(k, g)' => Unrun(k, g),
           \A d \in made : state_'[d] = state_[d] \/ Open(d)
    PROVE  AllDue'
<1> SUFFICES ASSUME NEW k \in Loops, NEW g \in MadeFunctors, Unrun(k, g)' PROVE Due(k, g)'
  BY SameTypes DEF AllDue
<1>1. Due(k, g) /\ g.conn \in made
  BY DEF AllDue, MadeFunctors
<1> QED
  BY <1>1, StaysDue

LEMMA SameFunctor ==
    ASSUME NEW f \in MadeFunctors, NEW g \in MadeFunctors,
           f.op = g.op, f.conn = g.conn, f.ref = g.ref
    PROVE  f = g
BY DEF MadeFunctors, Functors

LEMMA AllDueNext ==
    ASSUME Known, Channels, LeftClosed, AllDue, \A l \in Loops : Once(l) /\ Events(l), Next
    PROVE  AllDue'
<1>1. Types /\ NoOtherThread /\ BatchesCleared /\ Unmade /\ DestroyedLeft
  BY DEF Known, LeaveInv
<1>2. /\ made \subseteq Conns /\ map \subseteq made /\ 0 \in Loops
      /\ loopOf \in [Conns -> Loops] /\ state_ \in [Conns -> States]
      /\ channel \in [Conns -> ChannelType]
  BY <1>1 DEF Types, ConnTypes, AcceptTypes, Setup, Loops, numThreads_
<1>3. UNCHANGED setup /\ Loops' = Loops /\ (made' = made => MadeFunctors' = MadeFunctors)
  BY <1>1, SameTypes DEF Next
<1>4. ASSUME UNCHANGED <<pending, batch, ran>>
      PROVE  \A k \in Loops : \A g : Unrun(k, g)' => Unrun(k, g)
  BY <1>1, <1>4, UnrunSteps
<1>5. CASE Still
  BY <1>1, <1>3, <1>4, <1>5, DueAsBefore DEF Still
<1>6. ASSUME NEW l \in Loops, BeginFunctors(l) \/ EndFunctors(l) PROVE AllDue'
  <2>1. \A k \in Loops : \A g : Unrun(k, g)' => Unrun(k, g)
    BY <1>1, <1>6, UnrunSteps
  <2>2. UNCHANGED connVars
    BY <1>6 DEF BeginFunctors, EndFunctors
  <2> QED
    BY <1>1, <1>3, <2>1, <2>2, DueAsBefore DEF connVars
<1>7. ASSUME NEW l \in Loops, PollReturn(l) PROVE AllDue'
  <2>1. UNCHANGED <<made, map, loopOf, state_, pending, batch, ran>>
    BY <1>7 DEF PollReturn
  <2> QED
    BY <1>1, <1>3, <1>4, <2>1, DueAsBefore
<1>8. ASSUME NEW l \in Loops, RunFunctor(l) PROVE AllDue'
  <2> DEFINE f == batch[l][ran[l] + 1]
  <2>1. PICK c \in made : c = f.conn /\ f \in MadeFunctors /\ Unrun(l, f)
    BY <1>1, <1>8, NextToRun
  <2>2. Once(l)
    OBVIOUS
  <2>3. \A k \in Loops : \A g :
          Unrun(k, g)' <=> \/ Unrun(k, g) /\ ~(k = l /\ g = f)
                           \/ /\ f.op = "removeConnectionInLoop"
                              /\ k = loopOf[c] /\ g = Destruction(c)
    BY <1>1, <1>8, <2>1, <2>2, UnrunAfterRun
  <2>4. Due(l, f) /\ UNCHANGED <<made, loopOf>>
    BY <1>8, <2>1 DEF AllDue, RunFunctor, ConnectionsDestroyed, connVars, SendInLoop
  <2> SUFFICES ASSUME NEW k \in Loops, NEW g \in MadeFunctors, Unrun(k, g)' PROVE Due(k, g)'
    BY <1>3, <2>4 DEF AllDue
  <2>5. CASE g = Destruction(c)
    BY <2>5 DEF Due, Destruction, Functor
  <2>6. CASE g # Destruction(c)
    <3>1. Due(k, g) /\ ~(k = l /\ g = f) /\ g.conn \in made
      BY <2>3, <2>6 DEF AllDue, MadeFunctors
    <3>2. CASE g.conn # c
      <4>1. /\ state_'[g.conn] = state_[g.conn]
            /\ g.conn \in map => g.conn \in map'
        <5>1. \/ ConnectionEstablished(c) /\ UNCHANGED map
              \/ RemoveConnectionInLoop(c) /\ UNCHANGED state_
              \/ ConnectionsDestroyed({c}) /\ UNCHANGED map
          BY <1>1, <1>8, <2>1, QuietRun
        <5>2. g.conn \in Conns
          BY <1>2, <3>1
        <5> QED
          BY <1>2, <3>2, <5>1, <5>2
             DEF ConnectionEstablished, RemoveConnectionInLoop, ConnectionsDestroyed
      <4> QED
        BY <2>4, <3>1, <4>1, StaysDue
    <3>3. CASE g.conn = c /\ f.op = "connectionEstablished"
      <4>1. state_[c] = "kConnecting" /\ l = loopOf[c] /\ f.ref = TRUE /\ g.ref = TRUE
        BY <2>1, <2>4, <3>1, <3>3 DEF Due, MadeFunctors, Functors
      <4>2. g.op # "connectionEstablished"
        BY <2>1, <3>1, <3>3, <4>1, SameFunctor DEF Due
      <4>3. g.op # "removeConnectionInLoop"
        BY <3>1, <3>3, <4>1 DEF Due
      <4> QED
        BY <4>1, <4>2, <4>3 DEF Due
    <3>4. CASE g.conn = c /\ f.op = "removeConnectionInLoop"
      <4>1. l = 0 /\ f.ref = TRUE /\ g.ref = TRUE /\ state_[c] = "kDisconnected"
        BY <2>1, <2>4, <3>1, <3>4 DEF Due, MadeFunctors, Functors
      <4>2. g.op # "removeConnectionInLoop"
        BY <2>1, <3>1, <3>4, <4>1, SameFunctor DEF Due
      <4>3. g.op # "connectionEstablished"
        BY <3>1, <3>4, <4>1 DEF Due
      <4> QED
        BY <4>1, <4>2, <4>3 DEF Due
    <3>5. CASE g.conn = c /\ f.op = "connectionDestroyed"
      <4>1. ConnectionsDestroyed({c}) /\ UNCHANGED map
        BY <1>1, <1>8, <2>1, <3>5, QuietRun
      <4>2. c \in made \ map /\ state_[c] = "kDisconnected"
        BY <1>1, <2>1, <3>5 DEF DestroyedLeft, LeftClosed
      <4>3. state_'[c] = state_[c]
        BY <1>2, <4>1, <4>2 DEF ConnectionsDestroyed
      <4> QED
        BY <2>4, <3>1, <3>5, <4>1, <4>3, StaysDue
    <3> QED
      BY <1>1, <1>8, <2>1, <3>2, <3>3, <3>4, <3>5, QuietRun
  <2> QED
    BY <2>5, <2>6
<1>9. ASSUME NEW l \in Loops, NEW c \in made, Closes(l, c) PROVE AllDue'
  <2>1. /\ Open(c) /\ loopOf[c] = l /\ HandleClose(l, c)
        /\ UNCHANGED <<batch, ran, made, loopOf>>
    BY <1>1, <1>9, CloserIsOpen DEF Closes, HandleClose
  <2>2. c \in map /\ state_' = [state_ EXCEPT ![c] = "kDisconnected"] /\ map \ {c} \subseteq map'
    BY <2>1 DEF LeftClosed, Open, HandleClose, RemoveConnectionInLoop
  <2> SUFFICES ASSUME NEW k \in Loops, NEW g \in MadeFunctors, Unrun(k, g)' PROVE Due(k, g)'
    BY <1>3, <2>1 DEF AllDue
  <2>3. ASSUME Unrun(k, g) PROVE Due(k, g)'
    <3>1. Due(k, g) /\ g.conn \in made /\ loopOf'[g.conn] = loopOf[g.conn]
      BY <2>1, <2>3 DEF AllDue, MadeFunctors
    <3>2. g.conn # c =>  /\ state_'[g.conn] = state_[g.conn]
                         /\ g.conn \in map => g.conn \in map'
      BY <1>2, <2>2, <3>1
    <3> QED
      BY <2>1, <3>1, <3>2, StaysDue
  <2>4. CASE l = 0
    <3>1. Queue(loopOf[c], Destruction(c)) /\ loopOf[c] \in Loops
      BY <1>2, <2>1, <2>4 DEF HandleClose, RemoveConnectionInLoop, Destruction
    <3>2. Unrun(k, g) \/ g = Destruction(c)
      BY <1>1, <2>1, <3>1, QueuedIsUnrun
    <3>3. ASSUME g = Destruction(c) PROVE Due(k, g)'
      BY <3>3 DEF Due, Destruction, Functor
    <3> QED
      BY <2>3, <3>2, <3>3
  <2>5. CASE l # 0
    <3>1. UNCHANGED map /\ Queue(0, Removal(c))
      BY <2>1, <2>5 DEF HandleClose, Removal
    <3>2. Unrun(k, g) \/ (k = 0 /\ g = Removal(c))
      BY <1>1, <1>2, <2>1, <3>1, QueuedIsUnrun
    <3>3. ASSUME k = 0, g = Removal(c) PROVE Due(k, g)'
      BY <1>2, <2>1, <2>2, <2>5, <3>1, <3>3 DEF Due, Removal, Functor
    <3> QED
      BY <2>3, <3>2, <3>3
  <2> QED
    BY <2>4, <2>5
<1>10. ASSUME NEW c \in made, AsksForOut(c) \/ Disconnects(c) PROVE AllDue'
  <2>1. /\ UNCHANGED <<made, map, loopOf, pending, batch, ran>>
        /\ \A d \in made : state_'[d] = state_[d] \/ Open(d)
    BY <1>2, <1>10 DEF AsksForOut, Disconnects, Open
  <2> QED
    BY <1>1, <1>3, <1>4, <2>1, DueAsBefore
<1>11. ASSUME NEW c \in Conns, Accept(c) PROVE AllDue'
  <2> DEFINE l == IF numThreads_ = 0 THEN 0 ELSE next_ + 1
             f == Functor("connectionEstablished", c, TRUE)
  <2>1. c \notin made /\ state_[c] = "kConnecting"
    BY <1>1, <1>11 DEF Unmade, Accept
  <2>2. /\ UNCHANGED <<batch, ran>>
        /\ map' = map \cup {c} /\ loopOf' = [loopOf EXCEPT ![c] = l]
        /\ \/ UNCHANGED pending /\ ConnectionEstablished(c)
           \/ Queue(l, f) /\ UNCHANGED state_
    BY <1>11 DEF Accept
  <2>3. l \in Loops /\ f.op = "connectionEstablished" /\ f.conn = c /\ f.ref = TRUE
    BY <1>1 DEF Types, AcceptTypes, Setup, Loops, numThreads_, Functor
  <2> HIDE DEF l, f
  <2> SUFFICES ASSUME NEW k \in Loops, NEW g, Unrun(k, g)' PROVE Due(k, g)'
    BY <1>3 DEF AllDue
  <2>4. ASSUME Unrun(k, g) PROVE Due(k, g)'
    <3>1. Due(k, g) /\ g.conn \in made
      BY <1>1, <2>4, UnrunIsMade DEF AllDue
    <3>2. /\ state_'[g.conn] = state_[g.conn] /\ loopOf'[g.conn] = loopOf[g.conn]
          /\ g.conn \in map => g.conn \in map'
      BY <1>2, <2>1, <2>2, <3>1 DEF ConnectionEstablished
    <3> QED
      BY <3>1, <3>2, StaysDue
  <2>5. CASE UNCHANGED pending
    BY <1>4, <2>2, <2>4, <2>5
  <2>6. CASE Queue(l, f) /\ UNCHANGED state_
    <3>1. Unrun(k, g) \/ (k = l /\ g = f)
      BY <1>1, <2>2, <2>3, <2>6, QueuedIsUnrun
    <3>2. ASSUME k = l, g = f PROVE Due(k, g)'
      BY <1>2, <2>1, <2>2, <2>3, <2>6, <3>2 DEF Due
    <3> QED
      BY <2>4, <3>1, <3>2
  <2> QED
    BY <2>2, <2>5, <2>6
<1> QED
  BY <1>5, <1>6, <1>7, <1>8, <1>9, <1>10, <1>11, Steps

\* The events of a loop.
LEMMA TodoMade ==
    ASSUME Types, NEW l \in Loops
    PROVE  /\ todo[l] \in Seq(Callbacks)
           /\ \A i \in 1..Len(todo[l]) : todo[l][i].conn \in made
<1>1. todo[l] \in Seq(Callbacks)
  BY DEF Types, LoopTypes
<1>2. \A i \in 1..Len(todo[l]) : todo[l][i] \in Callbacks
  BY <1>1
<1> QED
  BY <1>1, <1>2 DEF Callbacks

LEMMA EventsKept ==
    ASSUME Types, NEW k \in Loops, Events(k),
           active'[k] = active[k], todo'[k] = todo[k],
           phase'[k] = phase[k] \/ todo[k] = <<>>,
           \A d \in made : loopOf[d] = k => loopOf'[d] = k /\ (Open(d) => Open(d)')
    PROVE  Events(k)'
<1>1. active[k] \subseteq made /\ todo[k] \in Seq(Callbacks)
  BY DEF Types, LoopTypes
<1>2. \A i \in 1..Len(todo[k]) : todo[k][i].conn \in made
  BY TodoMade
<1>3. \A c \in active'[k] : Open(c)' /\ loopOf'[c] = k
  BY <1>1 DEF Events
<1>4. phase'[k] = "poll" => todo'[k] = <<>>
  BY DEF Events
<1>5. ASSUME NEW i \in 1..Len(todo[k])
      PROVE  /\ loopOf'[todo[k][i].conn] = k /\ todo[k][i].conn \notin active[k]
             /\ todo[k][i].op \in Closing =>
                  /\ Open(todo[k][i].conn)' /\ phase'[k] = "events"
                  /\ \A j \in 1..Len(todo[k]) : todo[k][j].op \in Closing => i = j
  <2>1. todo[k] # <<>>
    BY <1>1, <1>5
  <2>2. PICK d \in made : d = todo[k][i].conn
    BY <1>2
  <2>3. loopOf[d] = k /\ d \notin active[k]
    BY <2>2 DEF Events
  <2>4. CASE todo[k][i].op \in Closing
    <3>1. Open(d) /\ phase[k] = "events"
      BY <2>2, <2>4 DEF Events
    <3>2. Open(d)'
      BY <2>3, <3>1
    <3> QED
      BY <2>1, <2>2, <2>3, <3>1, <3>2 DEF Events, Open
  <2>5. CASE todo[k][i].op \notin Closing
    BY <2>2, <2>3, <2>5
  <2> QED
    BY <2>4, <2>5
<1> QED
  BY <1>3, <1>4, <1>5 DEF Events, Open

\* A callback is done; it may have closed connection c.
LEMMA EventsDone ==
    ASSUME Types, NEW l \in Loops, Events(l), UNCHANGED <<active, phase, loopOf>>,
           todo[l] # <<>>, Done(l), NEW c,
           \A d \in made \ {c} : Open(d) => Open(d)',
           \/ Open(c) => Open(c)'
           \/ todo[l][1].conn = c /\ todo[l][1].op \in Closing
    PROVE  Events(l)'
<1>0. PICK s : s = todo[l]
  OBVIOUS
<1>1. active[l] \subseteq made /\ s \in Seq(Callbacks) /\ s # <<>>
  BY <1>0 DEF Types, LoopTypes
<1>2. /\ Len(Tail(s)) = Len(s) - 1 /\ Len(s) \in Nat /\ Len(s) > 0
      /\ \A i \in 1..Len(Tail(s)) : Tail(s)[i] = s[i + 1] /\ i + 1 \in 1..Len(s) /\ i + 1 # 1
  BY <1>1
<1>3. 1 \in 1..Len(s) /\ \A i \in 1..Len(s) : s[i].conn \in made
  BY <1>0, <1>2, TodoMade
<1>4. todo'[l] = Tail(s)
  BY <1>0 DEF Done, Types, LoopTypes
<1>5. /\ \A d \in active[l] : Open(d) /\ loopOf[d] = l
      /\ phase[l] # "poll"
      /\ \A i \in 1..Len(s) : loopOf[s[i].conn] = l /\ s[i].conn \notin active[l]
  BY <1>0, <1>1 DEF Events
<1>6. \A i \in 1..Len(s) : s[i].op \in Closing =>
          /\ Open(s[i].conn) /\ phase[l] = "events"
          /\ \A j \in 1..Len(s) : s[j].op \in Closing => i = j
  BY <1>0 DEF Events
<1>7. \A d \in active[l] : Open(d)'
  <2> SUFFICES ASSUME NEW d \in active[l] PROVE Open(d)'
    OBVIOUS
  <2>1. d \in made /\ Open(d)
    BY <1>1, <1>5
  <2>2. CASE d # c
    BY <2>1, <2>2
  <2>3. CASE d = c
    <3>1. ~(s[1].conn = c)
      BY <1>3, <1>5, <2>3
    <3> QED
      BY <1>0, <2>1, <2>3, <3>1
  <2> QED
    BY <2>2, <2>3
<1>8. ASSUME NEW i \in 1..Len(Tail(s)), Tail(s)[i].op \in Closing
      PROVE  /\ Open(Tail(s)[i].conn)' /\ phase[l] = "events"
             /\ \A j \in 1..Len(Tail(s)) : Tail(s)[j].op \in Closing => i = j
  <2>1. PICK m \in 1..Len(s) : m = i + 1 /\ m # 1 /\ Tail(s)[i] = s[m]
    BY <1>2
  <2>2. Open(s[m].conn) /\ phase[l] = "events" /\ s[1].op \notin Closing
    BY <1>3, <1>6, <1>8, <2>1
  <2>3. PICK d \in made : d = s[m].conn
    BY <1>3
  <2>4. Open(d)'
    BY <1>0, <2>2, <2>3
  <2>5. \A j \in 1..Len(Tail(s)) : Tail(s)[j].op \in Closing => i = j
    BY <1>2, <1>6, <1>8, <2>1
  <2> QED
    BY <2>1, <2>2, <2>3, <2>4, <2>5 DEF Open
<1>9. \A i \in 1..Len(Tail(s)) : /\ loopOf[Tail(s)[i].conn] = l
                                 /\ Tail(s)[i].conn \notin active[l]
  BY <1>2, <1>5
<1> QED
  BY <1>4, <1>5, <1>7, <1>8, <1>9 DEF Events, Open

\* Only an open connection is reported: a reset, which is reported even when
\* nothing is asked for, comes only where no functor waits during the poll.
LEMMA ReportedOpen ==
    ASSUME Known, Channels, LeftClosed, ResetsApart, NEW l \in Loops, PollReturn(l),
           NEW c \in ReportedOn(l)
    PROVE  c \in made /\ Open(c) /\ loopOf[c] = l
<1>1. Types /\ BatchesCleared /\ ClosedQueued /\ Orderly
  BY DEF Known, LeaveInv
<1>2. /\ c \in made /\ loopOf[c] = l /\ Reported(channel[c], Ready(c)) # {}
      /\ phase[l] = "poll"
  BY DEF ReportedOn, PollReturn
<1>3. /\ channel[c].watched
      /\ Ready(c) \cap (channel[c].interest \cup {"HUP", "ERR"}) # {}
  BY <1>2 DEF Reported
<1>4. c \in Conns /\ state_[c] \in States /\ ChannelFits(channel[c], state_[c])
  BY <1>1, <1>2 DEF Types, ConnTypes, Channels
<1>5. state_[c] # "kConnecting"
  BY <1>3, <1>4 DEF ChannelFits
<1>6. ASSUME state_[c] = "kDisconnected" PROVE FALSE
  <2>1. channel[c].interest = {}
    BY <1>4, <1>6 DEF ChannelFits
  <2>2. "HUP" \in Ready(c) \/ "ERR" \in Ready(c)
    BY <1>3, <2>1
  <2>3. sock[c] \cap {"rst", "err"} # {}
    BY <2>2 DEF Ready
  <2>4. setup.resets
    BY <1>4, <2>3 DEF ResetsApart
  <2>5. l = 0
    BY <1>1, <2>4 DEF Orderly, Loops
  <2>6. pending[0] = <<>> /\ batch[0] = <<>>
    BY <1>1, <1>2, <2>4, <2>5 DEF ResetsApart, BatchesCleared
  <2>7. \A f : ~Unrun(0, f)
    BY <2>6 DEF Unrun, InPending, InBatch
  <2>8. c \notin map
    BY <1>1, <1>6, <2>7 DEF ClosedQueued
  <2>9. channel[c].status = "kNew"
    BY <1>2, <2>5, <2>7, <2>8 DEF LeftClosed
  <2> QED
    BY <1>3, <1>4, <2>9 DEF ChannelFits
<1> QED
  BY <1>2, <1>4, <1>5, <1>6 DEF States, Open

\* The callbacks of an event are for one connection, and one at most may close it.
LEMMA FourParts ==
    ASSUME NEW S, NEW p \in Seq(S), NEW q \in Seq(S), NEW r \in Seq(S), NEW s \in Seq(S),
           NEW t, t = p \o q \o r \o s
    PROVE  /\ Len(t) = Len(p) + Len(q) + Len(r) + Len(s)
           /\ \A i \in 1..Len(t) :
                \/ i <= Len(p) /\ t[i] = p[i]
                \/ i > Len(p) /\ i <= Len(p) + Len(q) /\ t[i] = q[i - Len(p)]
                \/ /\ i > Len(p) + Len(q) /\ i <= Len(p) + Len(q) + Len(r)
                   /\ t[i] = r[i - Len(p) - Len(q)]
                \/ /\ i > Len(p) + Len(q) + Len(r)
                   /\ t[i] = s[i - Len(p) - Len(q) - Len(r)]
<1>1. /\ p \o q \in Seq(S) /\ Len(p \o q) = Len(p) + Len(q)
      /\ \A i \in 1..Len(p \o q) :
            (p \o q)[i] = IF i <= Len(p) THEN p[i] ELSE q[i - Len(p)]
  OBVIOUS
<1>2. /\ p \o q \o r \in Seq(S) /\ Len(p \o q \o r) = Len(p) + Len(q) + Len(r)
      /\ \A i \in 1..Len(p \o q \o r) :
            (p \o q \o r)[i] = IF i <= Len(p \o q) THEN (p \o q)[i] ELSE r[i - Len(p \o q)]
  BY <1>1
<1>3. /\ Len(p \o q \o r \o s) = Len(p) + Len(q) + Len(r) + Len(s)
      /\ \A i \in 1..Len(p \o q \o r \o s) :
            (p \o q \o r \o s)[i] = IF i <= Len(p \o q \o r) THEN (p \o q \o r)[i]
                                                            ELSE s[i - Len(p \o q \o r)]
  BY <1>2
<1>4. Len(p) \in Nat /\ Len(q) \in Nat /\ Len(r) \in Nat /\ Len(s) \in Nat
  OBVIOUS
<1> QED
  BY <1>1, <1>2, <1>3, <1>4

OneIf(b, e) == IF b THEN <<e>> ELSE <<>>

LEMMA NoneOrOne ==
    ASSUME NEW S, NEW e \in S, NEW b \in BOOLEAN
    PROVE  /\ OneIf(b, e) \in Seq(S) /\ Len(OneIf(b, e)) \in {0, 1}
           /\ Len(OneIf(b, e)) = 1 => b
           /\ \A i \in 1..Len(OneIf(b, e)) : OneIf(b, e)[i] = e
<1>1. CASE b
  BY <1>1 DEF OneIf
<1>2. CASE ~b
  BY <1>2 DEF OneIf
<1> QED
  BY <1>1, <1>2

Calls(c, hup, err, in, out) ==
    LET If(b, op) == IF b THEN <<Callback(op, c)>> ELSE <<>>
    IN  If(hup /\ ~in, "handleClose") \o If(err, "handleError")
            \o If(in, "handleRead") \o If(out, "handleWrite")

LEMMA OneCloses ==
    ASSUME NEW c, NEW hup \in BOOLEAN, NEW err \in BOOLEAN, NEW in \in BOOLEAN,
           NEW out \in BOOLEAN
    PROVE  LET t == Calls(c, hup, err, in, out)
           IN /\ \A i \in 1..Len(t) : t[i].conn = c
              /\ \A i, j \in 1..Len(t) : t[i].op \in Closing /\ t[j].op \in Closing => i = j
<1> DEFINE S == {Callback("handleClose", c), Callback("handleError", c),
                 Callback("handleRead", c), Callback("handleWrite", c)}
           p == OneIf(hup /\ ~in, Callback("handleClose", c))
           q == OneIf(err, Callback("handleError", c))
           r == OneIf(in, Callback("handleRead", c))
           s == OneIf(out, Callback("handleWrite", c))
           t == p \o q \o r \o s
<1>0. /\ Callback("handleClose", c) \in S /\ Callback("handleError", c) \in S
      /\ Callback("handleRead", c) \in S /\ Callback("handleWrite", c) \in S
      /\ (hup /\ ~in) \in BOOLEAN
  OBVIOUS
<1> HIDE DEF S
<1>1. /\ p \in Seq(S) /\ Len(p) \in {0, 1} /\ (Len(p) = 1 => ~in)
      /\ \A i \in 1..Len(p) : p[i] = Callback("handleClose", c)
  BY <1>0, NoneOrOne
<1>2. /\ q \in Seq(S) /\ Len(q) \in {0, 1}
      /\ \A i \in 1..Len(q) : q[i] = Callback("handleError", c)
  BY <1>0, NoneOrOne
<1>3. /\ r \in Seq(S) /\ Len(r) \in {0, 1} /\ (Len(r) = 1 => in)
      /\ \A i \in 1..Len(r) : r[i] = Callback("handleRead", c)
  BY <1>0, NoneOrOne
<1>4. /\ s \in Seq(S) /\ Len(s) \in {0, 1}
      /\ \A i \in 1..Len(s) : s[i] = Callback("handleWrite", c)
  BY <1>0, NoneOrOne
<1> HIDE DEF p, q, r, s
<1>5. /\ Len(t) = Len(p) + Len(q) + Len(r) + Len(s)
      /\ \A i \in 1..Len(t) :
           \/ i <= Len(p) /\ t[i] = p[i]
           \/ i > Len(p) /\ i <= Len(p) + Len(q) /\ t[i] = q[i - Len(p)]
           \/ /\ i > Len(p) + Len(q) /\ i <= Len(p) + Len(q) + Len(r)
              /\ t[i] = r[i - Len(p) - Len(q)]
           \/ /\ i > Len(p) + Len(q) + Len(r)
              /\ t[i] = s[i - Len(p) - Len(q) - Len(r)]
  <2>1. p \in Seq(S) /\ q \in Seq(S) /\ r \in Seq(S) /\ s \in Seq(S)
    BY <1>1, <1>2, <1>3, <1>4
  <2>2. t = p \o q \o r \o s
    OBVIOUS
  <2> HIDE DEF t
  <2> QED
    BY <2>1, <2>2, FourParts
<1> HIDE DEF t
<1>6. \A i \in 1..Len(t) :
        \/ i <= Len(p) /\ t[i] = Callback("handleClose", c)
        \/ t[i] = Callback("handleError", c)
        \/ /\ i > Len(p) + Len(q) /\ i <= Len(p) + Len(q) + Len(r)
           /\ t[i] = Callback("handleRead", c)
        \/ t[i] = Callback("handleWrite", c)
  BY <1>1, <1>2, <1>3, <1>4, <1>5
<1>7. \A i \in 1..Len(t) : t[i].conn = c
  BY <1>6 DEF Callback
<1>8. \A i \in 1..Len(t) : t[i].op \in Closing =>
        \/ i <= Len(p)
        \/ i > Len(p) + Len(q) /\ i <= Len(p) + Len(q) + Len(r)
  BY <1>6 DEF Callback, Closing
<1>9. \A i, j \in 1..Len(t) : t[i].op \in Closing /\ t[j].op \in Closing => i = j
  BY <1>1, <1>2, <1>3, <1>8
<1>10. t = Calls(c, hup, err, in, out)
  BY Zenon DEF t, p, q, r, s, Calls, OneIf
<1> QED
  BY <1>7, <1>9, <1>10

\* Of what was read the user hears next.
LEMMA EventsMessage ==
    ASSUME Types, NEW l \in Loops, Events(l), UNCHANGED <<active, phase, loopOf, state_>>,
           NEW c, NextIs(l, "handleRead", c),
           todo' = [todo EXCEPT ![l] = <<Callback("message", c)>> \o Tail(@)]
    PROVE  Events(l)'
<1>1. PICK s : s = todo[l]
  OBVIOUS
<1>2. s \in Seq(Callbacks) /\ s # <<>> /\ Head(s) = Callback("handleRead", c)
  BY <1>1 DEF Types, LoopTypes, NextIs
<1>3. PICK t : t = <<Callback("message", c)>> \o Tail(s)
  OBVIOUS
<1>4. /\ Len(t) = Len(s) /\ Len(s) \in Nat /\ Len(s) > 0
      /\ t[1] = Callback("message", c) /\ s[1] = Callback("handleRead", c)
      /\ \A i \in 1..Len(s) : i # 1 => t[i] = s[i]
  BY <1>2, <1>3
<1>5. todo'[l] = t
  BY <1>1, <1>3 DEF Types, LoopTypes
<1>6. t[1].conn = s[1].conn /\ t[1].op \notin Closing
  BY <1>4 DEF Callback, Closing
<1>7. \A i \in 1..Len(t) : t[i].conn = s[i].conn /\ (t[i].op \in Closing => t[i] = s[i])
  BY <1>4, <1>6
<1>8. /\ \A d \in active[l] : Open(d) /\ loopOf[d] = l
      /\ phase[l] # "poll"
      /\ \A i \in 1..Len(s) : loopOf[s[i].conn] = l /\ s[i].conn \notin active[l]
      /\ \A i \in 1..Len(s) : s[i].op \in Closing =>
          /\ Open(s[i].conn) /\ phase[l] = "events"
          /\ \A j \in 1..Len(s) : s[j].op \in Closing => i = j
  BY <1>1, <1>2 DEF Events
<1>9. /\ \A i \in 1..Len(t) : loopOf[t[i].conn] = l /\ t[i].conn \notin active[l]
      /\ \A i \in 1..Len(t) : t[i].op \in Closing =>
          /\ Open(t[i].conn) /\ phase[l] = "events"
          /\ \A j \in 1..Len(t) : t[j].op \in Closing => i = j
  BY <1>4, <1>7, <1>8
<1> QED
  BY <1>5, <1>8, <1>9 DEF Events, Open

\* A loop that has nothing in hand starts with the callbacks t of connection c.
LEMMA EventsStart ==
    ASSUME NEW l \in Loops, NEW c, NEW t,
           \A d \in active'[l] : Open(d)' /\ loopOf'[d] = l,
           phase'[l] # "poll", todo'[l] = t, loopOf'[c] = l, c \notin active'[l],
           \A i \in 1..Len(t) : t[i].conn = c,
           \A i \in 1..Len(t) : t[i].op \in Closing =>
                /\ Open(c)' /\ phase'[l] = "events"
                /\ \A j \in 1..Len(t) : t[j].op \in Closing => i = j
    PROVE  Events(l)'
BY DEF Events, Open

\* The rounds of a loop, up to its functors.
LEMMA EventsCallbacks ==
    ASSUME Known, \A k \in Loops : Events(k), UNCHANGED setup,
           NEW l \in Loops, NEW c \in Conns,
           \/ HandleEvent(l, c) \/ CloseCallback(l, c) \/ ErrorCallback(l, c)
           \/ ReadCallback(l, c) \/ WriteCallback(l, c) \/ UserReturn(l, c)
    PROVE  \A k \in Loops : Events(k)'
<1>1. Types
  BY DEF Known
<1>2. /\ todo \in [Loops -> Seq(Callbacks)] /\ active \in [Loops -> SUBSET made]
      /\ phase \in [Loops -> {"poll", "events", "functors", "over"}]
      /\ made \subseteq Conns /\ loopOf \in [Conns -> Loops] /\ state_ \in [Conns -> States]
  BY <1>1 DEF Types, LoopTypes, ConnTypes
<1>3. UNCHANGED <<loopOf, phase>>
  BY DEF HandleEvent, CloseCallback, ErrorCallback, ReadCallback, WriteCallback,
         UserReturn, connVars, HandleClose
<1>4. ASSUME NEW k \in Loops, k # l, NEW x, todo' = [todo EXCEPT ![l] = x],
             active'[k] = active[k],
             \A d \in made : loopOf[d] = k => (Open(d) => Open(d)')
      PROVE  Events(k)'
  <2>1. todo'[k] = todo[k] /\ phase'[k] = phase[k] /\ Events(k)
    BY <1>2, <1>3, <1>4
  <2>2. \A d \in made : loopOf[d] = k => loopOf'[d] = k /\ (Open(d) => Open(d)')
    BY <1>3, <1>4
  <2> QED
    BY <1>1, <1>4, <2>1, <2>2, EventsKept
<1>5. UNCHANGED state_ => \A d : Open(d) => Open(d)'
  BY DEF Open
<1>6. CASE HandleEvent(l, c)
  <2> DEFINE hup == "HUP" \in channel[c].revents
             err == "ERR" \in channel[c].revents
             in == "IN" \in channel[c].revents
             out == "OUT" \in channel[c].revents
  <2>1. PICK t : t = Calls(c, hup, err, in, out)
    OBVIOUS
  <2>2. /\ todo' = [todo EXCEPT ![l] = t] /\ active' = [active EXCEPT ![l] = @ \ {c}]
        /\ c \in active[l] /\ phase[l] = "events"
        /\ UNCHANGED <<state_, loopOf, made>>
    BY <1>6, <2>1 DEF HandleEvent, Calls, connVars
  <2>3. /\ \A i \in 1..Len(t) : t[i].conn = c
        /\ \A i, j \in 1..Len(t) : t[i].op \in Closing /\ t[j].op \in Closing => i = j
    <3>1. hup \in BOOLEAN /\ err \in BOOLEAN /\ in \in BOOLEAN /\ out \in BOOLEAN
      OBVIOUS
    <3> HIDE DEF hup, err, in, out
    <3> QED
      BY <2>1, <3>1, OneCloses
  <2> HIDE DEF hup, err, in, out
  <2>4. /\ todo'[l] = t /\ active'[l] = active[l] \ {c} /\ phase'[l] = "events"
        /\ \A k \in Loops \ {l} : active'[k] = active[k]
    BY <1>2, <1>3, <2>2
  <2>5. \A d \in active[l] : Open(d)' /\ loopOf'[d] = l
    BY <1>2, <2>2 DEF Events, Open
  <2>6. c \notin active'[l] /\ phase'[l] # "poll" /\ loopOf'[c] = l /\ Open(c)'
    BY <2>2, <2>4, <2>5
  <2>7. Events(l)'
    BY <2>3, <2>4, <2>5, <2>6, EventsStart
  <2> QED
    BY <1>4, <1>5, <2>2, <2>4, <2>7
<1>7. ASSUME Done(l), todo[l] # <<>>, UNCHANGED <<active, state_>>
      PROVE  \A k \in Loops : Events(k)'
  <2>1. Events(l)'
    BY <1>1, <1>3, <1>5, <1>7, EventsDone
  <2> QED
    BY <1>4, <1>5, <1>7, <2>1 DEF Done
<1>8. ASSUME HandleClose(l, c), Done(l), UNCHANGED active,
             \E op \in Closing : NextIs(l, op, c), UNCHANGED <<batch, ran>>
      PROVE  \A k \in Loops : Events(k)'
  <2>1. /\ Open(c) /\ loopOf[c] = l /\ todo[l] # <<>>
        /\ todo[l][1].conn = c /\ todo[l][1].op \in Closing
    BY <1>1, <1>8, CloserIsOpen DEF Closes
  <2>2. state_' = [state_ EXCEPT ![c] = "kDisconnected"]
    BY <1>8 DEF HandleClose
  <2>3. \A d \in made \ {c} : Open(d) => Open(d)'
    BY <1>2, <2>2 DEF Open
  <2>4. Events(l)'
    BY <1>1, <1>3, <1>8, <2>1, <2>3, EventsDone
  <2>5. ASSUME NEW k \in Loops, k # l PROVE Events(k)'
    <3>1. \A d \in made : loopOf[d] = k => (Open(d) => Open(d)')
      BY <2>1, <2>3, <2>5
    <3> QED
      BY <1>4, <1>8, <2>5, <3>1 DEF Done
  <2> QED
    BY <2>4, <2>5
<1>9. CASE CloseCallback(l, c)
  BY <1>8, <1>9 DEF CloseCallback, Closing
<1>10. CASE ErrorCallback(l, c) \/ UserReturn(l, c)
  BY <1>7, <1>10 DEF ErrorCallback, UserReturn, InUser, NextIs, connVars
<1>11. CASE WriteCallback(l, c)
  BY <1>7, <1>11 DEF WriteCallback, NextIs
<1>12. CASE ReadCallback(l, c)
  <2>1. /\ NextIs(l, "handleRead", c) /\ todo[l] # <<>> /\ UNCHANGED <<active, batch, ran>>
        /\ \E op \in Closing : NextIs(l, op, c)
    BY <1>12 DEF ReadCallback, NextIs, Closing
  <2>2. \/ UNCHANGED state_ /\ todo' = [todo EXCEPT ![l] = <<Callback("message", c)>> \o Tail(@)]
        \/ HandleClose(l, c) /\ Done(l)
        \/ UNCHANGED state_ /\ Done(l)
    BY <1>12 DEF ReadCallback, connVars
  <2>3. CASE HandleClose(l, c) /\ Done(l)
    BY <1>8, <2>1, <2>3
  <2>4. CASE UNCHANGED state_ /\ Done(l)
    BY <1>7, <2>1, <2>4
  <2>5. CASE UNCHANGED state_ /\ todo' = [todo EXCEPT ![l] = <<Callback("message", c)>> \o Tail(@)]
    <3>1. Events(l)'
      BY <1>1, <1>3, <2>1, <2>5, EventsMessage
    <3> QED
      BY <1>4, <1>5, <2>1, <2>5, <3>1
  <2> QED
    BY <2>2, <2>3, <2>4, <2>5
<1> QED
  BY <1>6, <1>9, <1>10, <1>11, <1>12

LEMMA EventsNext ==
    ASSUME Known, Channels, LeftClosed, AllDue, ResetsApart,
           \A l \in Loops : Once(l) /\ Events(l), Next
    PROVE  \A l \in Loops : Events(l)'
<1>1. Types /\ NoOtherThread /\ BatchesCleared /\ Unmade /\ DestroyedLeft /\ UNCHANGED setup
  BY DEF Known, LeaveInv, Next
<1>2. /\ made \subseteq Conns /\ map \subseteq made /\ 0 \in Loops
      /\ loopOf \in [Conns -> Loops] /\ state_ \in [Conns -> States]
      /\ todo \in [Loops -> Seq(Callbacks)] /\ active \in [Loops -> SUBSET made]
      /\ phase \in [Loops -> {"poll", "events", "functors", "over"}]
  BY <1>1 DEF Types, ConnTypes, LoopTypes, AcceptTypes, Setup, Loops, numThreads_
<1>3. ASSUME NEW k \in Loops, active'[k] = active[k], todo'[k] = todo[k],
             phase'[k] = phase[k] \/ todo[k] = <<>>,
             \A d \in made : loopOf'[d] = loopOf[d] /\ (Open(d) => Open(d)')
      PROVE  Events(k)'
  BY <1>1, <1>3, EventsKept
<1>4. ASSUME NEW l \in Loops, PollReturn(l) PROVE \A k \in Loops : Events(k)'
  <2>1. /\ phase[l] = "poll" /\ active' = [active EXCEPT ![l] = ReportedOn(l)]
        /\ phase' = [phase EXCEPT ![l] = "events"]
        /\ UNCHANGED <<made, loopOf, state_, todo>>
    BY <1>4 DEF PollReturn
  <2>2. Events(l)'
    <3>1. todo'[l] = <<>> /\ phase'[l] = "events" /\ active'[l] = ReportedOn(l)
      BY <1>2, <2>1 DEF Events
    <3>2. \A c \in ReportedOn(l) : Open(c) /\ loopOf[c] = l
      BY <1>4, ReportedOpen
    <3> QED
      BY <2>1, <3>1, <3>2 DEF Events, Open
  <2>3. ASSUME NEW k \in Loops, k # l PROVE Events(k)'
    <3>1. active'[k] = active[k] /\ phase'[k] = phase[k] /\ todo'[k] = todo[k]
      BY <1>2, <2>1, <2>3
    <3> QED
      BY <1>3, <2>1, <3>1 DEF Open
  <2> QED
    BY <2>2, <2>3
<1>5. ASSUME NEW l \in Loops, BeginFunctors(l) \/ EndFunctors(l)
      PROVE  \A k \in Loops : Events(k)'
  <2>1. /\ UNCHANGED <<active, todo, connVars>> /\ todo[l] = <<>>
        /\ \E p : phase' = [phase EXCEPT ![l] = p]
    BY <1>5 DEF BeginFunctors, EndFunctors
  <2>2. \A k \in Loops : phase'[k] = phase[k] \/ todo[k] = <<>>
    BY <1>2, <2>1
  <2> QED
    BY <1>3, <2>1, <2>2 DEF connVars, Open
<1>6. ASSUME NEW l \in Loops, RunFunctor(l) PROVE \A k \in Loops : Events(k)'
  <2> DEFINE f == batch[l][ran[l] + 1]
  <2>1. PICK c \in made : c = f.conn /\ f \in MadeFunctors /\ Unrun(l, f)
    BY <1>1, <1>6, NextToRun
  <2>2. Due(l, f) /\ UNCHANGED <<made, loopOf, active, phase>>
    BY <1>6, <2>1 DEF AllDue, RunFunctor, ConnectionsDestroyed, connVars, SendInLoop
  <2>3. phase[l] = "functors" /\ todo[l] = <<>>
    BY <1>6 DEF RunFunctor
  <2>4. CASE f.op = "connectionEstablished"
    <3>1. /\ ConnectionEstablished(c) /\ todo' = [todo EXCEPT ![l] = <<Callback("connection", c)>>]
          /\ state_[c] = "kConnecting" /\ l = loopOf[c]
      BY <1>1, <1>6, <2>1, <2>2, <2>4, QuietRun DEF Due
    <3>2. \A d \in made : Open(d) => Open(d)'
      BY <1>2, <3>1 DEF ConnectionEstablished, Open
    <3>3. \A d \in active[l] : Open(d) /\ loopOf[d] = l
      BY DEF Events
    <3>4. c \notin active[l]
      BY <3>1, <3>3 DEF Open
    <3>5. PICK t : t = <<Callback("connection", c)>>
      OBVIOUS
    <3>6. /\ \A i \in 1..Len(t) : t[i].conn = c
          /\ \A i \in 1..Len(t) : t[i].op \notin Closing
      BY <3>5 DEF Callback, Closing
    <3>7. \A d \in active'[l] : Open(d)' /\ loopOf'[d] = l
      BY <1>2, <2>2, <3>2, <3>3
    <3>8. phase'[l] # "poll" /\ todo'[l] = t /\ loopOf'[c] = l /\ c \notin active'[l]
      BY <1>2, <2>2, <2>3, <3>1, <3>4, <3>5
    <3>9. Events(l)'
      BY <3>6, <3>7, <3>8, EventsStart
    <3>10. \A k \in Loops \ {l} : todo'[k] = todo[k]
      BY <1>2, <3>1
    <3> QED
      BY <1>3, <2>2, <3>2, <3>9, <3>10
  <2>5. CASE f.op # "connectionEstablished"
    <3>1. /\ UNCHANGED todo
          /\ UNCHANGED state_ \/ (f.op = "connectionDestroyed" /\ ConnectionsDestroyed({c}))
      BY <1>1, <1>6, <2>1, <2>5, QuietRun
    <3>2. \A d \in made : Open(d) => Open(d)'
      <4>1. CASE UNCHANGED state_
        BY <4>1 DEF Open
      <4>2. CASE f.op = "connectionDestroyed" /\ ConnectionsDestroyed({c})
        <5>1. c \in made \ map /\ state_[c] = "kDisconnected"
          BY <1>1, <2>1, <4>2 DEF DestroyedLeft, LeftClosed
        <5> QED
          BY <1>2, <4>2, <5>1 DEF ConnectionsDestroyed, Open
      <4> QED
        BY <3>1, <4>1, <4>2
    <3> QED
      BY <1>3, <2>2, <3>1, <3>2
  <2> QED
    BY <2>4, <2>5
<1>7. ASSUME NEW c \in Conns, Accept(c) PROVE \A k \in Loops : Events(k)'
  <2> DEFINE l == IF numThreads_ = 0 THEN 0 ELSE next_ + 1
  <2>1. c \notin made
    BY <1>1, <1>7 DEF Unmade, Accept
  <2>2. /\ UNCHANGED <<active, phase>> /\ phase[0] = "events" /\ todo[0] = <<>>
        /\ loopOf' = [loopOf EXCEPT ![c] = l]
        /\ \/ l = 0 /\ ConnectionEstablished(c) /\ todo' = [todo EXCEPT ![0] = <<Callback("connection", c)>>]
           \/ UNCHANGED <<state_, todo>>
    BY <1>7 DEF Accept
  <2> HIDE DEF l
  <2>3. \A d \in made : loopOf'[d] = loopOf[d] /\ (Open(d) => Open(d)')
    BY <1>2, <2>1, <2>2 DEF ConnectionEstablished, Open
  <2>4. CASE UNCHANGED <<state_, todo>>
    BY <1>3, <2>2, <2>3, <2>4
  <2>5. CASE l = 0 /\ todo' = [todo EXCEPT ![0] = <<Callback("connection", c)>>]
    <3>1. PICK t : t = <<Callback("connection", c)>>
      OBVIOUS
    <3>2. /\ \A i \in 1..Len(t) : t[i].conn = c
          /\ \A i \in 1..Len(t) : t[i].op \notin Closing
      BY <3>1 DEF Callback, Closing
    <3>3. \A d \in active[0] : Open(d) /\ loopOf[d] = 0 /\ d \in made
      BY <1>2 DEF Events
    <3>4. \A d \in active'[0] : Open(d)' /\ loopOf'[d] = 0
      BY <2>2, <2>3, <3>3
    <3>5. phase'[0] # "poll" /\ todo'[0] = t /\ loopOf'[c] = 0 /\ c \notin active'[0]
      BY <1>2, <2>1, <2>2, <2>5, <3>1, <3>3
    <3>6. ASSUME NEW k \in Loops, k = 0 PROVE Events(k)'
      BY <3>2, <3>4, <3>5, <3>6, EventsStart
    <3>7. \A k \in Loops \ {0} : todo'[k] = todo[k]
      BY <1>2, <2>5
    <3> QED
      BY <1>3, <2>2, <2>3, <3>6, <3>7
  <2> QED
    BY <2>2, <2>4, <2>5
<1>8. ASSUME NEW l \in Loops, NEW c \in Conns, UserSend(l, c) \/ UserShutdown(l, c)
      PROVE  \A k \in Loops : Events(k)'
  <2>1. /\ UNCHANGED <<active, todo, phase, loopOf>>
        /\ \/ UNCHANGED state_
           \/ state_[c] = "kConnected" /\ state_' = [state_ EXCEPT ![c] = "kDisconnecting"]
    BY <1>8 DEF UserSend, UserShutdown, SendInLoop, loopVars
  <2>2. \A d \in made : Open(d) => Open(d)'
    BY <1>2, <2>1 DEF Open
  <2> QED
    BY <1>3, <2>1, <2>2
<1>9. ASSUME NEW c \in Conns, Connect(c) \/ Peer(c) PROVE \A k \in Loops : Events(k)'
  <2>1. UNCHANGED <<active, todo, phase, loopOf, state_>>
    BY <1>9 DEF Connect, Peer, connVars, loopVars
  <2> QED
    BY <1>3, <2>1 DEF Open
<1>10. ASSUME NEW l \in Loops, LoopStep(l) PROVE \A k \in Loops : Events(k)'
  BY <1>1, <1>4, <1>5, <1>6, <1>7, <1>10, EventsCallbacks DEF LoopStep
<1> QED
  BY <1>8, <1>9, <1>10, OrderlySteps

\* The sockets: without resets no step leaves an error.
LEMMA NoErrors ==
    ASSUME Types, ~setup.resets, \A c \in Conns : sock[c] \cap {"rst", "err"} = {},
           \/ UNCHANGED sock
           \/ \E c \in Conns : \E x : sock' = [sock EXCEPT ![c] = x]
                                      /\ x \subseteq sock[c] \cup {"data", "fin", "shut", "full"}
    PROVE  \A c \in Conns : sock'[c] \cap {"rst", "err"} = {}
<1>1. sock \in [Conns -> SUBSET {"data", "fin", "rst", "err", "shut", "full"}]
  BY DEF Types, SockTypes
<1> QED
  BY <1>1

LEMMA ResetsApartNext ==
    ASSUME Known, Channels, LeftClosed, AllDue, ResetsApart,
           \A l \in Loops : Once(l) /\ Events(l), Next
    PROVE  ResetsApart'
<1>1. Types /\ NoOtherThread /\ UNCHANGED setup /\ Orderly
  BY DEF Known, Next
<1>2. /\ made \subseteq Conns /\ 0 \in Loops /\ Loops = 0..numThreads_
      /\ loopOf \in [Conns -> Loops] /\ sock \in [Conns -> SUBSET {"data", "fin", "rst", "err", "shut", "full"}]
      /\ pending \in [Loops -> Seq(MadeFunctors)]
      /\ phase \in [Loops -> {"poll", "events", "functors", "over"}]
  BY <1>1 DEF Types, ConnTypes, SockTypes, LoopTypes, AcceptTypes, Setup, Loops, numThreads_
<1>3. setup.resets => \A l \in Loops : l = 0
  BY <1>1, <1>2 DEF Orderly
<1>4. ASSUME UNCHANGED sock \/ \E c \in Conns : \E x :
                sock' = [sock EXCEPT ![c] = x]
                /\ x \subseteq sock[c] \cup {"data", "fin", "shut", "full"},
             setup.resets =>
                \/ UNCHANGED <<pending, phase>> \/ phase'[0] = "events" \/ pending'[0] = <<>>
      PROVE  ResetsApart'
  <2>1. ~setup.resets => \A c \in Conns : sock'[c] \cap {"rst", "err"} = {}
    BY <1>1, <1>4, NoErrors DEF ResetsApart
  <2>2. setup.resets /\ phase'[0] # "events" => pending'[0] = <<>>
    BY <1>4 DEF ResetsApart
  <2> QED
    BY <1>1, <2>1, <2>2 DEF ResetsApart
<1>5. ASSUME NEW l \in Loops, PollReturn(l) PROVE ResetsApart'
  <2>1. UNCHANGED sock /\ phase' = [phase EXCEPT ![l] = "events"]
    BY <1>5 DEF PollReturn
  <2>2. setup.resets => phase'[0] = "events"
    BY <1>2, <1>3, <2>1
  <2> QED
    BY <1>4, <2>1, <2>2
<1>6. ASSUME NEW l \in Loops, BeginFunctors(l) PROVE ResetsApart'
  <2>1. UNCHANGED sock /\ pending' = [pending EXCEPT ![l] = <<>>]
    BY <1>6 DEF BeginFunctors
  <2>2. setup.resets => pending'[0] = <<>>
    BY <1>2, <1>3, <2>1
  <2> QED
    BY <1>4, <2>1, <2>2
<1>7. ASSUME NEW l \in Loops, EndFunctors(l) PROVE ResetsApart'
  <2>1. UNCHANGED <<sock, pending>> /\ phase[l] = "functors"
    BY <1>7 DEF EndFunctors
  <2>2. setup.resets => pending'[0] = <<>>
    BY <1>3, <2>1 DEF ResetsApart
  <2> QED
    BY <1>4, <2>1, <2>2
<1>8. ASSUME NEW l \in Loops, RunFunctor(l) PROVE ResetsApart'
  <2> DEFINE f == batch[l][ran[l] + 1]
  <2>1. PICK c \in made : c = f.conn /\ f \in MadeFunctors /\ Unrun(l, f)
    BY <1>1, <1>8, NextToRun
  <2>2. UNCHANGED <<sock, phase>>
    BY <1>1, <1>8, QuietRun DEF RunFunctor
  <2>3. setup.resets => f.op # "removeConnectionInLoop"
    BY <1>2, <1>3, <2>1 DEF AllDue, Due
  <2>4. setup.resets => UNCHANGED pending
    BY <1>1, <1>8, <2>3, QuietRun
  <2> QED
    BY <1>4, <2>2, <2>4
<1>9. ASSUME NEW l \in Loops, NEW c \in Conns,
             \/ HandleEvent(l, c) \/ ErrorCallback(l, c) \/ WriteCallback(l, c)
             \/ UserReturn(l, c)
      PROVE  ResetsApart'
  <2>1. UNCHANGED <<pending, phase>>
    BY <1>9 DEF HandleEvent, ErrorCallback, WriteCallback, UserReturn
  <2>2. UNCHANGED sock \/ \E x : /\ sock' = [sock EXCEPT ![c] = x]
                                 /\ x \subseteq sock[c] \cup {"data", "fin", "shut", "full"}
    BY <1>9 DEF HandleEvent, ErrorCallback, WriteCallback, UserReturn, WritePart, WriteFails
  <2> QED
    BY <1>4, <2>1, <2>2
<1>10. ASSUME NEW l \in Loops, NEW c \in Conns, CloseCallback(l, c) \/ ReadCallback(l, c)
      PROVE  ResetsApart'
  <2>1. UNCHANGED sock \/ \E x : /\ sock' = [sock EXCEPT ![c] = x]
                                 /\ x \subseteq sock[c] \cup {"data", "fin", "shut", "full"}
    BY <1>10 DEF CloseCallback, ReadCallback
  <2>2. UNCHANGED phase /\ (UNCHANGED pending \/ Closes(l, c))
    BY <1>10 DEF CloseCallback, ReadCallback, Closes, Closing
  <2>3. Closes(l, c) => phase[l] = "events"
    BY <1>1, CloserIsOpen
  <2> QED
    BY <1>3, <1>4, <2>1, <2>2, <2>3
<1>11. ASSUME NEW c \in Conns, Accept(c) PROVE ResetsApart'
  <2>1. UNCHANGED <<sock, phase>> /\ (numThreads_ = 0 => UNCHANGED pending)
    BY <1>11 DEF Accept
  <2> QED
    BY <1>1, <1>4, <2>1 DEF Orderly
<1>12. ASSUME NEW l \in Loops, NEW c \in Conns, UserSend(l, c) \/ UserShutdown(l, c)
       PROVE  ResetsApart'
  <2>1. UNCHANGED <<pending, phase>>
    BY <1>12 DEF UserSend, UserShutdown, loopVars
  <2>2. UNCHANGED sock \/ \E x : /\ sock' = [sock EXCEPT ![c] = x]
                                 /\ x \subseteq sock[c] \cup {"data", "fin", "shut", "full"}
    BY <1>12 DEF UserSend, UserShutdown, SendInLoop, ShutdownInLoop, WriteAll, WritePart,
                 WriteFails
  <2> QED
    BY <1>4, <2>1, <2>2
<1>13. ASSUME NEW c \in Conns, Connect(c) \/ Peer(c) PROVE ResetsApart'
  <2>1. UNCHANGED <<pending, phase>>
    BY <1>13 DEF Connect, Peer, loopVars
  <2>2. CASE setup.resets
    BY <1>1, <2>1, <2>2 DEF ResetsApart
  <2>3. CASE ~setup.resets
    <3>1. UNCHANGED sock \/ \E x : /\ sock' = [sock EXCEPT ![c] = x]
                                   /\ x \subseteq sock[c] \cup {"data", "fin", "shut", "full"}
      BY <1>13, <2>3 DEF Connect, Peer
    <3> QED
      BY <1>4, <2>1, <3>1
  <2> QED
    BY <2>2, <2>3
<1>14. ASSUME NEW l \in Loops, LoopStep(l) PROVE ResetsApart'
  BY <1>5, <1>6, <1>7, <1>8, <1>9, <1>10, <1>11, <1>14 DEF LoopStep
<1> QED
  BY <1>12, <1>13, <1>14, OrderlySteps

\* No assert but that of Channel::remove() fails in the next step.
LEMMA NoFailureNext ==
    ASSUME Known, Channels, LeftClosed, AllDue, \A l \in Loops : Once(l) /\ Events(l), Next
    PROVE  failed' \subseteq {"remove"}
<1>1. Types /\ NoOtherThread /\ Unmade /\ failed = {}
  BY DEF Known, LeaveInv
<1>2. \A name : Failing(name, TRUE) = {}
  BY <1>1 DEF Failing
<1>3. ASSUME \/ Still
             \/ \E l \in Loops : BeginFunctors(l) \/ EndFunctors(l) \/ PollReturn(l)
             \/ \E c \in made : AsksForOut(c) \/ Disconnects(c)
      PROVE  failed' \subseteq {"remove"}
  BY <1>1, <1>3 DEF Still, BeginFunctors, EndFunctors, PollReturn, AsksForOut, Disconnects,
                    connVars
<1>4. ASSUME NEW l \in Loops, RunFunctor(l) PROVE failed' \subseteq {"remove"}
  <2> DEFINE f == batch[l][ran[l] + 1]
  <2>1. PICK c \in made : c = f.conn /\ f \in MadeFunctors /\ Unrun(l, f)
    BY <1>1, <1>4, NextToRun
  <2>2. Due(l, f)
    BY <2>1 DEF AllDue
  <2>3. CASE f.op = "connectionEstablished"
    <3>1. ConnectionEstablished(c) /\ state_[c] = "kConnecting"
      BY <1>1, <1>4, <2>1, <2>2, <2>3, QuietRun DEF Due
    <3> QED
      BY <1>2, <3>1 DEF ConnectionEstablished
  <2>4. CASE f.op = "removeConnectionInLoop"
    <3>1. failed' = Failing("erase", c \in map) /\ c \in map
      BY <1>1, <1>4, <2>1, <2>2, <2>4, QuietRun DEF Due
    <3> QED
      BY <1>1, <3>1 DEF Failing
  <2>5. CASE f.op = "connectionDestroyed"
    <3>1. ConnectionsDestroyed({c})
      BY <1>1, <1>4, <2>1, <2>5, QuietRun
    <3> QED
      BY <1>1, <3>1 DEF ConnectionsDestroyed, Failing
  <2> QED
    BY <1>1, <1>4, <2>3, <2>4, <2>5, QuietRun
<1>5. ASSUME NEW l \in Loops, NEW c \in made, Closes(l, c) PROVE failed' \subseteq {"remove"}
  <2>1. Open(c) /\ HandleClose(l, c)
    BY <1>1, <1>5, CloserIsOpen DEF Closes
  <2>2. c \in map
    BY <2>1 DEF LeftClosed, Open
  <2> QED
    BY <1>1, <2>1, <2>2 DEF HandleClose, Failing, Open
<1>6. ASSUME NEW c \in Conns, Accept(c) PROVE failed' \subseteq {"remove"}
  <2>1. state_[c] = "kConnecting"
    BY <1>1, <1>6 DEF Unmade, Accept
  <2>2. UNCHANGED failed \/ ConnectionEstablished(c)
    BY <1>6 DEF Accept
  <2> QED
    BY <1>1, <1>2, <2>1, <2>2 DEF ConnectionEstablished
<1> QED
  BY <1>3, <1>4, <1>5, <1>6, Steps

-----------------------------------------------------------------------------
(* The theorems.                                                           *)

LEMMA LifeInit == Init => LifeInv
<1> SUFFICES ASSUME Init PROVE Life
  BY DEF LifeInv
<1>1. made = {} /\ map = {} /\ failed = {} /\ gone = FALSE
  BY DEF Init
<1>2. Channels
  BY DEF Init, Channels, ChannelFits, NewChannel
<1>3. LeftClosed /\ AllDue
  BY <1>1 DEF LeftClosed, AllDue, MadeFunctors
<1>4. ResetsApart
  BY SetupAssumption DEF Init, ResetsApart, Setup, Loops, numThreads_
<1>5. \A l \in Loops : Once(l) /\ Events(l)
  BY DEF Init, Once, Events
<1> QED
  BY <1>1, <1>2, <1>3, <1>4, <1>5 DEF Life

LEMMA LifeNext == Types /\ WaitInv /\ LeaveInv /\ LifeInv /\ [Next]_vars => LifeInv'
<1> SUFFICES ASSUME Types, WaitInv, LeaveInv, LifeInv, [Next]_vars, Orderly'
             PROVE  Life'
  BY DEF LifeInv
<1>1. UNCHANGED setup /\ Orderly /\ Loops' = Loops
  BY SameTypes DEF Next, vars, Orderly, numThreads_
<1>2. Life /\ (Next => Known)
  BY <1>1 DEF LifeInv, Life, Known, WaitInv, Orderly, Next
<1>3. /\ Channels /\ LeftClosed /\ AllDue /\ ResetsApart
      /\ \A l \in Loops : Once(l) /\ Events(l)
  BY <1>2 DEF Life
<1>4. CASE Next
  <2>1. Channels' /\ LeftClosed' /\ AllDue'
    BY <1>2, <1>3, <1>4, ChannelsNext, LeftClosedNext, AllDueNext
  <2>2. ResetsApart' /\ failed' \subseteq {"remove"}
    BY <1>2, <1>3, <1>4, ResetsApartNext, NoFailureNext
  <2>3. gone' = FALSE
    BY <1>2, <1>4, OrderlySteps DEF Known
  <2>4. \A l \in Loops : Once(l)'
    BY <1>2, <1>3, <1>4, OnceNext
  <2>5. \A l \in Loops : Events(l)'
    BY <1>2, <1>3, <1>4, EventsNext
  <2> QED
    BY <1>1, <2>1, <2>2, <2>3, <2>4, <2>5 DEF Life
<1>5. CASE UNCHANGED vars
  <2>1. UNCHANGED <<setup, gone, made, map, loopOf, state_, channel, failed, phase, active,
                    todo, pending, batch, ran, sock>>
    BY <1>5 DEF vars, acceptVars, connVars, loopVars
  <2>2. Channels' /\ LeftClosed' /\ AllDue'
    BY <1>1, <1>3, <2>1 DEF Channels, LeftClosed, AllDue, Due, MadeFunctors, Unrun, InBatch,
                            InPending
  <2>3. ResetsApart' /\ \A l \in Loops : Once(l)' /\ Events(l)'
    BY <1>3, <2>1 DEF ResetsApart, Once, Events, Open
  <2> QED
    BY <1>1, <1>2, <2>1, <2>2, <2>3 DEF Life
<1> QED
  BY <1>4, <1>5

LEMMA InBoth ==
    ASSUME NEW S, NEW p \in Seq(S), NEW q \in Seq(S), NEW f,
           (\E i \in 1..Len(p) : p[i] = f) \/ (\E i \in 1..Len(q) : q[i] = f)
    PROVE  f \in ToSet(p \o q)
<1>1. /\ p \o q \in Seq(S) /\ Len(p \o q) = Len(p) + Len(q)
      /\ \A i \in 1..Len(p \o q) :
            (p \o q)[i] = IF i <= Len(p) THEN p[i] ELSE q[i - Len(p)]
      /\ Len(p) \in Nat /\ Len(q) \in Nat
  OBVIOUS
<1>2. \E i \in 1..Len(p \o q) : (p \o q)[i] = f
  <2>1. ASSUME NEW i \in 1..Len(p), p[i] = f PROVE \E j \in 1..Len(p \o q) : (p \o q)[j] = f
    <3>1. i \in 1..Len(p \o q) /\ (p \o q)[i] = f
      BY <1>1, <2>1
    <3> QED
      BY <3>1
  <2>2. ASSUME NEW i \in 1..Len(q), q[i] = f PROVE \E j \in 1..Len(p \o q) : (p \o q)[j] = f
    <3>1. /\ Len(p) + i \in 1..Len(p \o q) /\ ~(Len(p) + i <= Len(p))
          /\ Len(p) + i - Len(p) = i
      BY <1>1
    <3>2. (p \o q)[Len(p) + i] = f
      BY <1>1, <2>2, <3>1
    <3> QED
      BY <3>1, <3>2
  <2> QED
    BY <2>1, <2>2
<1> QED
  BY <1>1, <1>2, SetOfSequence

LEMMA UnrunReferenced ==
    ASSUME Types, NEW l \in Loops, NEW f, Unrun(l, f), f.ref
    PROVE  Referenced(f.conn)
<1>1. batch[l] \in Seq(MadeFunctors) /\ pending[l] \in Seq(MadeFunctors)
  BY DEF Types, LoopTypes
<1>2. f \in ToSet(pending[l] \o batch[l])
  BY <1>1, InBoth DEF Unrun, InPending, InBatch
<1> QED
  BY <1>2 DEF Referenced

LEMMA LifeSuffices ==
    Types /\ LifeInv => AssertsHold /\ DestroyedClean /\ NothingDangles
<1> SUFFICES ASSUME Types, LifeInv, Orderly
             PROVE  AssertsHold /\ DestroyedClean /\ NothingDangles
  BY DEF AssertsHold, DestroyedClean, NothingDangles
<1>1. /\ failed \subseteq {"remove"} /\ LeftClosed /\ AllDue
      /\ \A l \in Loops : Events(l)
  BY DEF LifeInv, Life
<1>2. /\ loopOf \in [Conns -> Loops] /\ made \subseteq Conns
      /\ active \in [Loops -> SUBSET made]
      /\ batch \in [Loops -> Seq(MadeFunctors)] /\ pending \in [Loops -> Seq(MadeFunctors)]
  BY DEF Types, ConnTypes, LoopTypes
<1>3. AssertsHold
  BY <1>1 DEF AssertsHold, OnlyRemoveFails
<1>4. ASSUME NEW c \in freed
      PROVE  /\ c \in made \ map /\ state_[c] = "kDisconnected"
             /\ ~channel[c].added /\ channel[c].status = "kNew"
  <2>1. c \in made \ map /\ ~Referenced(c)
    BY DEF freed, Referenced
  <2>2. Destruction(c).ref /\ Destruction(c).conn = c /\ loopOf[c] \in Loops
    BY <1>2, <2>1 DEF Destruction, Functor
  <2>3. ~Unrun(loopOf[c], Destruction(c))
    BY <2>1, <2>2, UnrunReferenced
  <2> QED
    BY <1>1, <2>1, <2>3 DEF LeftClosed
<1>5. ASSUME NEW l \in Loops, NEW f, Unrun(l, f) PROVE f.conn \notin freed
  <2>1. f.ref
    BY <1>1, <1>5, UnrunIsMade DEF AllDue, Due
  <2> QED
    BY <1>5, <2>1, UnrunReferenced DEF freed
<1>6. ASSUME NEW l \in Loops
      PROVE  /\ active[l] \cap freed = {}
             /\ \A i \in 1..Len(batch[l]) : i > ran[l] => batch[l][i].conn \notin freed
             /\ \A f \in ToSet(pending[l]) : f.conn \notin freed
  <2>1. active[l] \cap freed = {}
    BY <1>1, <1>4 DEF Events, Open
  <2>2. \A i \in 1..Len(batch[l]) : i > ran[l] => batch[l][i].conn \notin freed
    BY <1>5 DEF Unrun, InBatch
  <2>3. ASSUME NEW f \in ToSet(pending[l]) PROVE f.conn \notin freed
    <3>1. InPending(l, f)
      BY <1>2, SetOfSequence DEF InPending
    <3> QED
      BY <1>5, <3>1 DEF Unrun
  <2> QED
    BY <2>1, <2>2, <2>3
<1> QED
  BY <1>3, <1>4, <1>6 DEF DestroyedClean, NothingDangles

LEMMA LifeAlways == Spec => [](Types /\ LifeInv)
<1>1. Init => Types /\ WaitInv /\ LeaveInv /\ LifeInv
  BY TypesInit, WaitInit, LeaveInit, LifeInit
<1>2. /\ Types /\ WaitInv /\ LeaveInv /\ LifeInv /\ [Next]_vars
      => Types' /\ WaitInv' /\ LeaveInv' /\ LifeInv'
  BY TypesNext, WaitNext, LeaveNext, LifeNext
<1> QED
  BY <1>1, <1>2, PTL DEF Spec

\* handleClose() runs once for a connection, from whichever callback comes
\* first, removeConnectionInLoop() finds it in the map, and it is established
\* once: with any number of loops no assert of TcpConnection and TcpServer
\* fails where the use is orderly but, in a build with asserts, that of the
\* Channel::remove() of connectionDestroyed().
THEOREM AssertsAlwaysHold == Spec => []AssertsHold
BY LifeAlways, LifeSuffices, PTL

\* The last shared_ptr of a connection goes only after connectionDestroyed()
\* has run in its loop: ~TcpConnection finds it kDisconnected, and ~Channel
\* out of the loop and of epoll.
THEOREM DestroyedAlwaysClean == Spec => []DestroyedClean
BY LifeAlways, LifeSuffices, PTL

\* No active channel and no functor that is still to be run belongs to a
\* connection that has been destroyed, in any loop.
THEOREM NothingEverDangles == Spec => []NothingDangles
BY LifeAlways, LifeSuffices, PTL
=============================================================================
