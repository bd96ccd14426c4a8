------------------------------ MODULE TcpServer ------------------------------
(***************************************************************************)
(* The life of a connection in a server with a pool of event loops:        *)
(* Acceptor, TcpServer, EventLoopThreadPool and TcpConnection (net/).      *)
(*                                                                         *)
(* Loop 0 is the server's own; it accepts connections, keeps               *)
(* connectionMap_ and passes each connection to a loop of the pool.  Loops *)
(* 1 to numThreads_ are the pool's; with no pool loop 0 does everything.   *)
(* Threads meet only in the queues of pending functors, which are the      *)
(* first-in first-out queues that EventLoop.tla shows a loop to have; a    *)
(* functor that is queued wakes the loop.                                  *)
(*                                                                         *)
(* A connection is destroyed when its last shared_ptr goes: connectionMap_ *)
(* has one, a functor bound to a shared_ptr has one until the batch it is  *)
(* in has been run and cleared, and so has the handling of an event.       *)
(*                                                                         *)
(* An assert that does not hold aborts the program: "failed" then names it *)
(* and nothing more happens; the step in which it fails is shown as if it  *)
(* had been completed.  A build without asserts goes on: it is followed    *)
(* past the assert of Channel::remove() ("remove"), which fails in all use *)
(* of the server, and no further past the others.                          *)
(***************************************************************************)
EXTENDS Channel, Integers, Sequences, SequencesExt

CONSTANTS
    Conns,          \* the connections that peers may make, each once
    Setups          \* what the server is set up for, see Setup

\* One way to use the server: the size of the pool and who does what.
Setup ==
    [numThreads: Nat,
     peers: SUBSET Conns,       \* the connections that are made
     resets: BOOLEAN,           \* a peer may reset a connection
     otherThread: BOOLEAN,      \* a thread of the user's calls send(), shutdown()
     earlySends: BOOLEAN,       \* the user may send() in the connection callback
     serverDies: BOOLEAN,       \* the server may be destroyed, connections open
     asserts: BOOLEAN]          \* the build has asserts: NDEBUG is not defined

ASSUME SetupAssumption == Setups \subseteq Setup

VARIABLE setup      \* the setup of this behaviour; it never changes

numThreads_ == setup.numThreads
Loops == 0..numThreads_

VARIABLES
    backlog,        \* connections that wait to be accepted
    accepting,      \* the listening channel is active in loop 0
    next_,          \* EventLoopThreadPool::next_
    made,           \* connections that have been constructed
    map,            \* TcpServer::connectionMap_
    loopOf,         \* the loop of each connection
    state_,         \* TcpConnection::state_
    channel,        \* TcpConnection::channel_
    output,         \* outputBuffer_ has something to send
    sock,           \* the kernel's side of the socket
    phase,          \* of each loop: poll, events, functors, over
    active,         \* connections whose channels are active, per loop
    todo,           \* callbacks the loop is in the middle of, next one first
    pending,        \* pendingFunctors_ of each loop
    batch,          \* the batch that is being run ...
    ran,            \* ... and how many of it have been
    held,           \* connections of which the user's thread has a shared_ptr
    calling,        \* the call it is inside, per connection
    sent,           \* those on which it has called send(), once at most
    failed,         \* asserts that did not hold
    gone            \* the server has been destroyed

connVars == <<made, map, loopOf, state_, channel, output, failed>>
acceptVars == <<backlog, accepting, next_, gone>>
loopVars == <<phase, active, todo, pending, batch, ran>>
userVars == <<held, calling, sent>>
vars == <<setup, acceptVars, connVars, loopVars, userVars, sock>>

\* A functor: what it calls, on which connection, and whether it is bound to
\* a shared_ptr (ref) or to the bare address.
Functor(op, c, ref) == [op |-> op, conn |-> c, ref |-> ref]
Callback(op, c) == [op |-> op, conn |-> c]

\* There is a shared_ptr to the connection somewhere.
Referenced(c) ==
    \/ c \in map \cup held
    \/ \E l \in Loops :
         \/ \E f \in ToSet(pending[l] \o batch[l]) : f.conn = c /\ f.ref
         \/ \E e \in ToSet(todo[l]) : e.conn = c

\* The connections that have been destroyed.
freed == {c \in made : ~Referenced(c)}

Init ==
    /\ setup \in Setups
    /\ backlog = {} /\ accepting = FALSE /\ next_ = 0 /\ gone = FALSE
    /\ made = {} /\ map = {}
    /\ loopOf = [c \in Conns |-> 0]
    /\ state_ = [c \in Conns |-> "kConnecting"]
    /\ channel = [c \in Conns |-> NewChannel]
    /\ output = [c \in Conns |-> FALSE]
    /\ failed = {}
    /\ phase = [l \in Loops |-> "poll"]
    /\ active = [l \in Loops |-> {}]
    /\ todo = [l \in Loops |-> <<>>]
    /\ pending = [l \in Loops |-> <<>>]
    /\ batch = [l \in Loops |-> <<>>]
    /\ ran = [l \in Loops |-> 0]
    /\ held = {} /\ sent = {}
    /\ calling = [c \in Conns |-> "nothing"]
    /\ sock = [c \in Conns |-> {}]

-----------------------------------------------------------------------------
(* The kernel and the peers.  sock[c] holds: data to be read; fin, the peer *)
(* has closed; rst, it has reset; err, with the error still to be fetched;  *)
(* shut, the read side has been shut down; full, nothing more can be sent.  *)

Ready(c) ==
    (IF sock[c] \cap {"data", "fin", "rst", "shut"} # {} THEN {"IN"} ELSE {})
    \cup (IF "full" \in sock[c] THEN {} ELSE {"OUT"})
    \cup (IF "rst" \in sock[c] THEN {"HUP"} ELSE {})
    \cup (IF "err" \in sock[c] THEN {"ERR"} ELSE {})

ReportedOn(l) ==
    {c \in made \ freed : loopOf[c] = l /\ Reported(channel[c], Ready(c)) # {}}

Connect(c) ==
    /\ c \in setup.peers \ (made \cup backlog)
    /\ backlog' = backlog \cup {c}
    /\ UNCHANGED <<accepting, next_, gone, connVars, loopVars, userVars, sock>>

\* The peer sends, closes, resets, or reads what was sent to it.
Peer(c) ==
    /\ c \in made \ freed
    /\ "rst" \notin sock[c]
    /\ \/ "fin" \notin sock[c] /\ sock' = [sock EXCEPT ![c] = @ \cup {"data"}]
       \/ sock' = [sock EXCEPT ![c] = @ \cup {"fin"}]
       \/ setup.resets /\ sock' = [sock EXCEPT ![c] = (@ \ {"full"}) \cup {"rst", "err"}]
       \/ sock' = [sock EXCEPT ![c] = @ \ {"full"}]
    /\ UNCHANGED <<acceptVars, connVars, loopVars, userVars>>

\* write() takes everything, or a part, or nothing and fails.
WriteAll(c) == sock[c] \cap {"full", "rst"} = {} /\ UNCHANGED sock
WritePart(c) ==
    /\ sock[c] \cap {"full", "rst"} = {}
    /\ sock' = [sock EXCEPT ![c] = @ \cup {"full"}]
WriteFails(c) == sock[c] \cap {"full", "rst"} # {} /\ UNCHANGED sock

-----------------------------------------------------------------------------
(* TcpConnection and TcpServer, in the thread of the loop named.           *)

\* queueInLoop() of loop l.
Queue(l, f) == pending' = [pending EXCEPT ![l] = Append(@, f)]

Failing(name, holds) == IF holds THEN failed ELSE failed \cup {name}

\* sendInLoop(): write at once if nothing waits; keep what was not written
\* and ask for EPOLLOUT.
SendInLoop(c) ==
    /\ IF ~IsWriting(channel[c]) /\ ~output[c]
       THEN \/ WriteAll(c) /\ UNCHANGED <<output, channel>>
            \/ /\ WritePart(c) \/ WriteFails(c)
               /\ output' = [output EXCEPT ![c] = TRUE]
               /\ channel' = [channel EXCEPT ![c] = EnableWriting(@)]
       ELSE UNCHANGED <<sock, output, channel>>
    /\ UNCHANGED <<made, map, loopOf, state_, failed>>

\* Mutant of ShutdownInLoop: output that waits is not looked at.
ShutdownAtOnce(c) == sock' = [sock EXCEPT ![c] = @ \cup {"shut"}]

\* shutdownInLoop(): shuts the read side down, unless output waits.
ShutdownInLoop(c) ==
    sock' = IF IsWriting(channel[c]) THEN sock
            ELSE [sock EXCEPT ![c] = @ \cup {"shut"}]

\* Mutant of RemoveConnectionInLoop: bound to the bare address.
RemoveByAddress(c) ==
    /\ map' = map \ {c}
    /\ Queue(loopOf[c], Functor("connectionDestroyed", c, FALSE))

\* Mutant of RemoveConnectionInLoop: the connection stays in the map.
RemoveKeepsConnection(c) ==
    /\ map' = map
    /\ Queue(loopOf[c], Functor("connectionDestroyed", c, TRUE))

\* removeConnectionInLoop(), in loop 0.
RemoveConnectionInLoop(c) ==
    /\ map' = map \ {c}
    /\ Queue(loopOf[c], Functor("connectionDestroyed", c, TRUE))

\* Mutant of HandleClose: the server is not told.
CloseTellsNobody(l, c) ==
    /\ state_' = [state_ EXCEPT ![c] = "kDisconnected"]
    /\ channel' = [channel EXCEPT ![c] = DisableAll(@)]
    /\ UNCHANGED <<made, map, loopOf, output, failed, pending>>

\* handleClose() and its callback, TcpServer::removeConnection().
HandleClose(l, c) ==
    LET ok == state_[c] \in {"kConnected", "kDisconnecting"} IN
    /\ state_' = [state_ EXCEPT ![c] = "kDisconnected"]
    /\ channel' = [channel EXCEPT ![c] = DisableAll(@)]
    /\ IF l = 0
       THEN /\ RemoveConnectionInLoop(c)
            /\ failed' = Failing("handleClose", ok)
                           \cup Failing("erase", c \in map)
       ELSE /\ Queue(0, Functor("removeConnectionInLoop", c, TRUE))
            /\ failed' = Failing("handleClose", ok)
            /\ UNCHANGED map
    /\ UNCHANGED <<made, loopOf, output>>

\* The user's callback was given a shared_ptr to each of cs and may have passed
\* it on to the user's own thread.
PassedOn(cs) ==
    \E kept \in SUBSET cs : held' = IF setup.otherThread THEN held \cup kept ELSE held

\* Mutant of ConnectionsDestroyed: the channel stays in the loop.
DestroyedUnremoved(cs) ==
    LET open == {c \in cs : state_[c] = "kConnected"} IN
    /\ state_' = [c \in Conns |-> IF c \in open THEN "kDisconnected" ELSE state_[c]]
    /\ PassedOn(open \ freed)
    /\ UNCHANGED <<made, loopOf, channel, output, failed>>

\* connectionDestroyed() of each of cs; one that was not closed before is now,
\* and the user is told, who finds it disconnected.  Then Channel::remove().
ConnectionsDestroyed(cs) ==
    LET open == {c \in cs : state_[c] = "kConnected"} IN
    /\ state_' = [c \in Conns |-> IF c \in open THEN "kDisconnected" ELSE state_[c]]
    /\ channel' = [c \in Conns |->
          CASE c \in open      -> Removed(DisableAll(channel[c]))
            [] c \in cs \ open -> Removed(channel[c])
            [] OTHER           -> channel[c]]
    /\ failed' = Failing("remove", setup.asserts => \A c \in cs : MayRemove(channel[c]))
    /\ PassedOn(open \ freed)
    /\ UNCHANGED <<made, loopOf, output>>

ConnectionEstablished(c) ==
    /\ failed' = Failing("connectionEstablished", state_[c] = "kConnecting")
    /\ state_' = [state_ EXCEPT ![c] = "kConnected"]
    /\ channel' = [channel EXCEPT ![c] = EnableReading(@)]

-----------------------------------------------------------------------------
(* One round of a loop.                                                    *)

\* epoll_wait returns events, or was woken because a functor is pending.
PollReturn(l) ==
    /\ phase[l] = "poll"
    /\ ReportedOn(l) # {} \/ pending[l] # <<>> \/ (l = 0 /\ backlog # {})
    /\ active' = [active EXCEPT ![l] = ReportedOn(l)]
    /\ channel' = [c \in Conns |->
          IF c \in ReportedOn(l)
          THEN [channel[c] EXCEPT !.revents = Reported(channel[c], Ready(c))]
          ELSE channel[c]]
    /\ accepting' = IF l = 0 THEN backlog # {} ELSE accepting
    /\ phase' = [phase EXCEPT ![l] = "events"]
    /\ UNCHANGED <<backlog, next_, gone, made, map, loopOf, state_, output,
                   failed, todo, pending, batch, ran, userVars, sock>>

\* Mutant of HandleEvent: a hang-up closes even when there is input to read.
HangUpCloses(l, c) ==
    LET r == channel[c].revents
        If(b, op) == IF b THEN <<Callback(op, c)>> ELSE <<>>
    IN
    /\ phase[l] = "events" /\ todo[l] = <<>>
    /\ c \in active[l]
    /\ active' = [active EXCEPT ![l] = @ \ {c}]
    /\ todo' = [todo EXCEPT ![l] = If("HUP" \in r, "handleClose")
                   \o If("ERR" \in r, "handleError") \o If("IN" \in r, "handleRead")
                   \o If("OUT" \in r, "handleWrite")]
    /\ UNCHANGED <<phase, pending, batch, ran, acceptVars, connVars, userVars, sock>>

\* handleEvent(): the callbacks its revents_ call for, in order.
HandleEvent(l, c) ==
    LET r == channel[c].revents
        If(b, op) == IF b THEN <<Callback(op, c)>> ELSE <<>>
    IN
    /\ phase[l] = "events" /\ todo[l] = <<>>
    /\ c \in active[l]
    /\ active' = [active EXCEPT ![l] = @ \ {c}]
    /\ todo' = [todo EXCEPT ![l] = If("HUP" \in r /\ "IN" \notin r, "handleClose")
                   \o If("ERR" \in r, "handleError") \o If("IN" \in r, "handleRead")
                   \o If("OUT" \in r, "handleWrite")]
    /\ UNCHANGED <<phase, pending, batch, ran, acceptVars, connVars, userVars, sock>>

\* The next callback is op, on connection c; it is done afterwards.
NextIs(l, op, c) == todo[l] # <<>> /\ Head(todo[l]) = Callback(op, c)
Done(l) == todo' = [todo EXCEPT ![l] = Tail(@)]

CloseCallback(l, c) ==
    /\ NextIs(l, "handleClose", c) /\ Done(l)
    /\ HandleClose(l, c)
    /\ UNCHANGED <<phase, active, batch, ran, acceptVars, userVars, sock>>

\* handleError() fetches SO_ERROR, which clears it.
ErrorCallback(l, c) ==
    /\ NextIs(l, "handleError", c) /\ Done(l)
    /\ sock' = [sock EXCEPT ![c] = @ \ {"err"}]
    /\ UNCHANGED <<phase, active, pending, batch, ran, acceptVars, connVars,
                   userVars>>

\* handleRead(): data for the message callback, the end, or an error.
ReadCallback(l, c) ==
    /\ NextIs(l, "handleRead", c)
    /\ \/ /\ "data" \in sock[c]
          /\ sock' = [sock EXCEPT ![c] = @ \ {"data"}]
          /\ todo' = [todo EXCEPT ![l] = <<Callback("message", c)>> \o Tail(@)]
          /\ UNCHANGED <<pending, connVars>>
       \/ /\ "data" \notin sock[c] /\ ("err" \notin sock[c] \/ "fin" \in sock[c])
          /\ HandleClose(l, c)
          /\ Done(l) /\ UNCHANGED sock
       \/ /\ "data" \notin sock[c] /\ "err" \in sock[c] /\ "fin" \notin sock[c]
          /\ sock' = [sock EXCEPT ![c] = @ \ {"err"}]
          /\ Done(l) /\ UNCHANGED <<pending, connVars>>
    /\ UNCHANGED <<phase, active, batch, ran, acceptVars, userVars>>

\* handleWrite(): send what waits; when all is sent stop asking for EPOLLOUT
\* and go on with a shutdown() that had to wait.
WriteCallback(l, c) ==
    /\ NextIs(l, "handleWrite", c) /\ Done(l)
    /\ \/ /\ IsWriting(channel[c])
          /\ sock[c] \cap {"full", "rst"} = {}
          /\ output' = [output EXCEPT ![c] = FALSE]
          /\ channel' = [channel EXCEPT ![c] = DisableWriting(@)]
          /\ sock' = IF state_[c] = "kDisconnecting"
                     THEN [sock EXCEPT ![c] = @ \cup {"shut"}] ELSE sock
       \/ /\ IsWriting(channel[c])
          /\ WritePart(c) \/ WriteFails(c)
          /\ UNCHANGED <<output, channel>>
       \/ /\ ~IsWriting(channel[c])
          /\ UNCHANGED <<sock, output, channel>>
    /\ UNCHANGED <<made, map, loopOf, state_, failed, phase, active, pending,
                   batch, ran, acceptVars, userVars>>

\* The user's connection or message callback: send(), shutdown(), return.
InUser(l, c) == NextIs(l, "connection", c) \/ NextIs(l, "message", c)

UserSend(l, c) ==
    /\ NextIs(l, "message", c) \/ (setup.earlySends /\ NextIs(l, "connection", c))
    /\ state_[c] = "kConnected"
    /\ SendInLoop(c)
    /\ UNCHANGED <<loopVars, acceptVars, userVars>>

UserShutdown(l, c) ==
    /\ InUser(l, c)
    /\ state_[c] = "kConnected"
    /\ state_' = [state_ EXCEPT ![c] = "kDisconnecting"]
    /\ ShutdownInLoop(c)
    /\ UNCHANGED <<made, map, loopOf, channel, output, failed, loopVars,
                   acceptVars, userVars>>

\* It may also pass the connection on to the user's own thread.
UserReturn(l, c) ==
    /\ InUser(l, c) /\ Done(l)
    /\ PassedOn({c})
    /\ UNCHANGED <<phase, active, pending, batch, ran, acceptVars, connVars,
                   calling, sent, sock>>

\* Mutant of NextInTurn: one loop too far.
NextTooFar == IF next_ + 1 > numThreads_ THEN 0 ELSE next_ + 1

\* getNextLoop() goes round the pool.
NextInTurn == IF next_ + 1 >= numThreads_ THEN 0 ELSE next_ + 1

\* Acceptor::hadleRead() and TcpServer::newConnection(): one connection, for
\* the next loop in turn.
Accept(c) ==
    LET l == IF numThreads_ = 0 THEN 0 ELSE next_ + 1 IN
    /\ phase[0] = "events" /\ todo[0] = <<>>
    /\ accepting /\ c \in backlog
    /\ accepting' = FALSE
    /\ backlog' = backlog \ {c}
    /\ next_' = NextInTurn
    /\ made' = made \cup {c}
    /\ map' = map \cup {c}
    /\ loopOf' = [loopOf EXCEPT ![c] = l]
    /\ IF l = 0
       THEN /\ ConnectionEstablished(c)
            /\ todo' = [todo EXCEPT ![0] = <<Callback("connection", c)>>]
            /\ UNCHANGED pending
       ELSE /\ Queue(l, Functor("connectionEstablished", c, TRUE))
            /\ UNCHANGED <<state_, channel, failed, todo>>
    /\ UNCHANGED <<gone, output, phase, active, batch, ran, userVars, sock>>

\* doPendingFunctors(): take the batch ...
BeginFunctors(l) ==
    /\ phase[l] = "events" /\ todo[l] = <<>> /\ active[l] = {}
    /\ l = 0 => ~accepting
    /\ batch' = [batch EXCEPT ![l] = pending[l]]
    /\ pending' = [pending EXCEPT ![l] = <<>>]
    /\ phase' = [phase EXCEPT ![l] = "functors"]
    /\ UNCHANGED <<active, todo, ran, acceptVars, connVars, userVars, sock>>

\* ... run its functors one after the other ...
RunFunctor(l) ==
    /\ phase[l] = "functors" /\ todo[l] = <<>>
    /\ ran[l] < Len(batch[l])
    /\ ran' = [ran EXCEPT ![l] = @ + 1]
    /\ LET f == batch[l][ran[l] + 1]
           c == f.conn
       IN \/ /\ f.op = "connectionEstablished"
             /\ ConnectionEstablished(c)
             /\ todo' = [todo EXCEPT ![l] = <<Callback("connection", c)>>]
             /\ UNCHANGED <<made, map, loopOf, output, pending, held, sock>>
          \/ /\ f.op = "removeConnectionInLoop"
             /\ RemoveConnectionInLoop(c)
             /\ failed' = Failing("erase", c \in map)
             /\ UNCHANGED <<made, loopOf, state_, channel, output, todo, held, sock>>
          \/ /\ f.op = "connectionDestroyed"
             /\ ConnectionsDestroyed({c})
             /\ UNCHANGED <<map, todo, pending, sock>>
          \/ /\ f.op = "shutdownInLoop"
             /\ ShutdownInLoop(c)
             /\ UNCHANGED <<connVars, todo, pending, held>>
          \/ /\ f.op = "sendInLoop"
             /\ SendInLoop(c)
             /\ UNCHANGED <<todo, pending, held>>
    /\ UNCHANGED <<phase, active, batch, acceptVars, calling, sent>>

\* ... and clear it, with the shared_ptrs that are bound in it.
EndFunctors(l) ==
    /\ phase[l] = "functors" /\ todo[l] = <<>>
    /\ ran[l] = Len(batch[l])
    /\ batch' = [batch EXCEPT ![l] = <<>>]
    /\ ran' = [ran EXCEPT ![l] = 0]
    /\ phase' = [phase EXCEPT ![l] = "poll"]
    /\ UNCHANGED <<active, todo, pending, acceptVars, connVars, userVars, sock>>

-----------------------------------------------------------------------------
(* A thread of the user's that has been given a shared_ptr.                *)

\* send() and shutdown() read state_ ...
OtherCalls(c, op) ==
    /\ c \in held
    /\ calling[c] = "nothing"
    /\ state_[c] = "kConnected"
    /\ op = "send" => c \notin sent
    /\ sent' = IF op = "send" THEN sent \cup {c} ELSE sent
    /\ calling' = [calling EXCEPT ![c] = op]
    /\ UNCHANGED <<held, loopVars, acceptVars, connVars, sock>>

\* ... and go on: send() queues a functor bound to the bare this ...
OtherSend(c) ==
    /\ calling[c] = "send"
    /\ calling' = [calling EXCEPT ![c] = "nothing"]
    /\ Queue(loopOf[c], Functor("sendInLoop", c, FALSE))
    /\ UNCHANGED <<held, sent, phase, active, todo, batch, ran, acceptVars,
                   connVars, sock>>

\* ... and shutdown() sets state_ and queues one bound to a shared_ptr.
OtherShutdown(c) ==
    /\ calling[c] = "shutdown"
    /\ calling' = [calling EXCEPT ![c] = "nothing"]
    /\ state_' = [state_ EXCEPT ![c] = "kDisconnecting"]
    /\ Queue(loopOf[c], Functor("shutdownInLoop", c, TRUE))
    /\ UNCHANGED <<held, sent, made, map, loopOf, channel, output, failed,
                   phase, active, todo, batch, ran, acceptVars, sock>>

OtherDrops(c) ==
    /\ c \in held /\ calling[c] = "nothing"
    /\ held' = held \ {c}
    /\ UNCHANGED <<calling, sent, loopVars, acceptVars, connVars, sock>>

-----------------------------------------------------------------------------
\* ~TcpServer(), in the thread of loop 0 after that loop has returned: each
\* connection is destroyed in its loop, through its bare address, and the map
\* is cleared.
DestroyServer ==
    /\ setup.serverDies /\ ~gone
    /\ phase[0] = "poll"
    /\ gone' = TRUE
    /\ phase' = [phase EXCEPT ![0] = "over"]
    /\ ConnectionsDestroyed({c \in map : loopOf[c] = 0})
    /\ pending' = [l \in Loops |->
          LET cs == SetToSeq({c \in map : loopOf[c] = l /\ l # 0})
          IN pending[l] \o [i \in DOMAIN cs |->
                              Functor("connectionDestroyed", cs[i], FALSE)]]
    /\ map' = {}
    /\ UNCHANGED <<backlog, accepting, next_, active, todo, batch, ran, calling, sent,
                   sock>>

\* The threads of the pool are told to quit and end; their queues go.
LoopOver(l) ==
    /\ gone /\ l # 0
    /\ phase[l] = "poll"
    /\ phase' = [phase EXCEPT ![l] = "over"]
    /\ pending' = [pending EXCEPT ![l] = <<>>]
    /\ UNCHANGED <<active, todo, batch, ran, acceptVars, connVars, userVars, sock>>

-----------------------------------------------------------------------------
LoopStep(l) ==
    /\ l \in Loops /\ failed = {}
    /\ UNCHANGED setup
    /\ \/ PollReturn(l) \/ BeginFunctors(l) \/ RunFunctor(l) \/ EndFunctors(l)
       \/ \E c \in Conns :
            \/ HandleEvent(l, c)
            \/ CloseCallback(l, c) \/ ErrorCallback(l, c)
            \/ ReadCallback(l, c) \/ WriteCallback(l, c)
            \/ UserReturn(l, c)
       \/ l = 0 /\ \E c \in Conns : Accept(c)

Next ==
    /\ failed = {}
    /\ UNCHANGED setup
    /\ \/ \E l \in Loops :
            \/ LoopStep(l) \/ LoopOver(l)
            \/ \E c \in Conns : UserSend(l, c) \/ UserShutdown(l, c)
       \/ \E c \in Conns :
            \/ Connect(c) \/ Peer(c)
            \/ OtherCalls(c, "send") \/ OtherCalls(c, "shutdown")
            \/ OtherSend(c) \/ OtherShutdown(c) \/ OtherDrops(c)
       \/ DestroyServer

\* The threads of the loops are scheduled and the user's callbacks return.
Fairness ==
    \A l \in UNION {0..s.numThreads : s \in Setups} : WF_vars(LoopStep(l))

Spec == Init /\ [][Next]_vars
FairSpec == Spec /\ Fairness

-----------------------------------------------------------------------------
States == {"kConnecting", "kConnected", "kDisconnecting", "kDisconnected"}
Functors ==
    [op: {"connectionEstablished", "removeConnectionInLoop", "connectionDestroyed",
          "shutdownInLoop", "sendInLoop"}, conn: Conns, ref: BOOLEAN]

TypeOK ==
    /\ setup \in Setups
    /\ backlog \subseteq Conns /\ accepting \in BOOLEAN /\ gone \in BOOLEAN
    /\ next_ = 0 \/ next_ \in 0..(numThreads_ - 1)
    /\ made \subseteq Conns /\ map \subseteq made
    /\ loopOf \in [Conns -> Loops]
    /\ state_ \in [Conns -> States]
    /\ channel \in [Conns -> ChannelType]
    /\ output \in [Conns -> BOOLEAN]
    /\ sock \in [Conns -> SUBSET {"data", "fin", "rst", "err", "shut", "full"}]
    /\ phase \in [Loops -> {"poll", "events", "functors", "over"}]
    /\ active \in [Loops -> SUBSET Conns]
    /\ \A l \in Loops : ToSet(pending[l] \o batch[l]) \subseteq Functors
    /\ ran \in [Loops -> Nat]
    /\ held \subseteq made /\ sent \subseteq made
    /\ calling \in [Conns -> {"nothing", "send", "shutdown"}]

\* What the code copes with: no other thread uses a connection, the server
\* outlives the connections, peers reset only where one loop does it all, and
\* nobody sends on a connection of which nothing has been reported yet.
Orderly ==
    /\ ~setup.otherThread /\ ~setup.serverDies /\ ~setup.earlySends
    /\ setup.resets => numThreads_ = 0

\* handleClose() runs once for a connection, which is then in the map once:
\* the asserts of TcpConnection.cpp:120, 221 and TcpServer.cpp:108.  It does
\* not hold of a reset that reaches a loop of the pool.
OnlyRemoveFails == failed \subseteq {"remove"}

\* Where the use is orderly no assert of TcpConnection or TcpServer fails but,
\* in a build that has it, the one behind connectionDestroyed().
AssertsHold == Orderly => OnlyRemoveFails

\* A connection is destroyed only after it is disconnected and its channel has
\* left epoll: the asserts of ~TcpConnection and ~Channel.
DestroyedClean ==
    Orderly => \A c \in freed : /\ state_[c] = "kDisconnected"
                               /\ ~channel[c].added /\ channel[c].status = "kNew"

\* Nothing that is still to be run has the address of a destroyed connection.
NothingDangles ==
    Orderly => \A l \in Loops :
      /\ active[l] \cap freed = {}
      /\ \A i \in 1..Len(batch[l]) : i > ran[l] => batch[l][i].conn \notin freed
      /\ \A f \in ToSet(pending[l]) : f.conn \notin freed

\* A connection that has been closed leaves the map: its removal is queued.
ClosedLeavesMap ==
    \A c \in map : state_[c] = "kDisconnected" =>
      \/ Functor("removeConnectionInLoop", c, TRUE) \in ToSet(pending[0])
      \/ \E i \in 1..Len(batch[0]) : i > ran[0] /\
            batch[0][i] = Functor("removeConnectionInLoop", c, TRUE)

\* shutdown() lets the output that waits go first, however its steps interleave
\* with partial writes.  (Another thread's send() may be queued behind it.)
ShutdownWaits ==
    ~setup.otherThread => \A c \in Conns : "shut" \in sock[c] => ~output[c]

\* Once its peer has closed, a connection is closed and destroyed in the end,
\* if nobody else holds on to it.  In a build with asserts it is not: there the
\* one of Channel::remove(), which tests what was last reported, ends the program.
Reclaimed ==
    \A c \in Conns :
       (Orderly /\ c \in made /\ "fin" \in sock[c]) ~>
           (c \in freed \/ (setup.asserts /\ failed = {"remove"}))
==============================================================================
