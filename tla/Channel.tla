------------------------------- MODULE Channel -------------------------------
(***************************************************************************)
(* One descriptor in one event loop (net/Channel.cpp), together with what  *)
(* Epoll::updateChannel() and removeChannel() (net/Epoll.cpp) make of it:  *)
(* operators on a record, used by Epoll.tla and TcpServer.tla.             *)
(*                                                                         *)
(*   events    what the owner asks for: IN (EPOLLIN | EPOLLPRI), OUT       *)
(*   revents   what the last poll reported, kept until the next report     *)
(*   status    statusInEpoll_: kNew, kAdded, kDeleted                      *)
(*   added     addedToLoop_                                                *)
(*   watched   the kernel has the descriptor in the interest list ...      *)
(*   interest  ... with these events                                       *)
(***************************************************************************)
Interests == {"IN", "OUT"}
Reports == Interests \cup {"HUP", "ERR"}

ChannelType ==
    [events: SUBSET Interests, revents: SUBSET Reports,
     status: {"kNew", "kAdded", "kDeleted"}, added: BOOLEAN,
     watched: BOOLEAN, interest: SUBSET Interests]

NewChannel ==
    [events |-> {}, revents |-> {}, status |-> "kNew", added |-> FALSE,
     watched |-> FALSE, interest |-> {}]

\* isNoneEvent() looks at what was reported, not at what is asked for.
IsNoneEvent(ch) == ch.revents = {}

IsWriting(ch) == "OUT" \in ch.events

\* epoll_ctl with ADD or MOD, and with DEL.
Watch(ch) == [ch EXCEPT !.watched = TRUE, !.interest = ch.events]
Unwatch(ch) == [ch EXCEPT !.watched = FALSE, !.interest = {}]

\* Channel::update() and Epoll::updateChannel().
UpdateChannel(ch) ==
    LET c == [ch EXCEPT !.added = TRUE] IN
    IF ch.status # "kAdded"
    THEN Watch([c EXCEPT !.status = "kAdded"])
    ELSE IF IsNoneEvent(ch)
         THEN Unwatch([c EXCEPT !.status = "kDeleted"])
         ELSE Watch(c)

\* Mutant of DisableWriting: update() is forgotten.
DisableWritingSilently(ch) == [ch EXCEPT !.events = @ \ {"OUT"}]

EnableReading(ch)  == UpdateChannel([ch EXCEPT !.events = @ \cup {"IN"}])
EnableWriting(ch)  == UpdateChannel([ch EXCEPT !.events = @ \cup {"OUT"}])
DisableWriting(ch) == UpdateChannel([ch EXCEPT !.events = @ \ {"OUT"}])
DisableAll(ch)     == UpdateChannel([ch EXCEPT !.events = {}])

\* Mutant of Removed: statusInEpoll_ is not set back to kNew.
RemovedKeepsStatus(ch) == Unwatch([ch EXCEPT !.added = FALSE])

\* What Channel::remove() asserts.  Nothing sets revents_ back, so it fails of
\* every channel of which an event has been reported.
MayRemove(ch) == IsNoneEvent(ch)

\* Channel::remove(), behind its assert, and Epoll::removeChannel().
Removed(ch) ==
    LET c == [ch EXCEPT !.added = FALSE, !.status = "kNew"] IN
    IF ch.status = "kAdded" THEN Unwatch(c) ELSE c

\* What epoll_wait reports of a descriptor on which "ready" holds: HUP and ERR
\* whether they were asked for or not.
Reported(ch, ready) ==
    IF ch.watched THEN ready \cap (ch.interest \cup {"HUP", "ERR"}) ELSE {}
==============================================================================
