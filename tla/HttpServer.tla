------------------------------ MODULE HttpServer ------------------------------
(***************************************************************************)
(* http/HttpServer.cpp, HttpContext.cpp and the data path of               *)
(* net/TcpConnection.cpp: one connection of main.cpp's server.  The peer's *)
(* bytes arrive cut anywhere, a read takes what has arrived, the parser    *)
(* takes lines from the input buffer, the answer is written as far as the  *)
(* kernel takes it and the rest waits for EPOLLOUT.                        *)
(*                                                                         *)
(* The stream is a sequence of symbols: a line is its text, one symbol     *)
(* (none if the line is empty), and then "cr" and "lf".  Both buffers are  *)
(* byte queues, which Buffer.tla shows that a Buffer is.  How a connection *)
(* comes to be, is closed by errors and goes away is TcpServer.tla's.      *)
(***************************************************************************)
EXTENDS Integers, SequencesExt

CONSTANTS
    Scripts,        \* what a peer may send: sequences of names of texts
    ResponseLen,    \* the number of bytes of a response
    SendBuffer      \* how many bytes the kernel holds for the peer

ASSUME ResponseAssumption == ResponseLen \in Nat \ {0} /\ SendBuffer \in Nat \ {0}

\* What the code can tell of a line: the method before the first blank, the
\* path and whether the version is HTTP/1.1 behind the second one, the field of
\* a header if there is a colon, its value if the field is Connection.
Request(m, v, p) ==
    [method |-> m, version |-> v, path |-> p, colon |-> FALSE, connection |-> "none"]
Header(v) ==
    [method |-> "kInvalid", version |-> FALSE, path |-> "none", colon |-> TRUE,
     connection |-> v]
NoText == Request("kInvalid", FALSE, "none")

Text == [get     |-> Request("kGet", TRUE, "/"),
         missing |-> Request("kGet", TRUE, "/missing"),
         old     |-> Request("kGet", FALSE, "/"),       \* HTTP/1.0
         close   |-> Header("close"),
         keep    |-> Header("Keep-Alive"),
         host    |-> Header("none"),
         words   |-> NoText,                            \* no colon, no method
         empty   |-> NoText]

Symbols(name) == IF name = "empty" THEN <<"cr", "lf">> ELSE <<name, "cr", "lf">>

ASSUME ScriptAssumption == \A s \in Scripts : s \in Seq(DOMAIN Text)

VARIABLES
    script,         \* what this peer sends,
    polite,         \*   and whether it waits for each answer before it goes on
    arrived,        \* how many symbols of it have come to the socket
    taken,          \*   and how many of these have been read
    fin,            \* the peer has closed
    shut,           \* shutdownWrite() has been called (it shuts the read side)
    wire,           \* the bytes the kernel has taken from the connection
    got,            \*   and how many of these the peer has
    pc,             \* where the loop's thread is
    state_,         \* TcpConnection
    inputBuffer_, outputBuffer_, writing, context_,
    ended,          \* the assert of setMethod() has ended the program
    parsed,         \* history: the requests that have been parsed
    answers         \* history: the responses that were not dropped

peerVars == <<script, polite, arrived, fin, got>>
outVars == <<wire, outputBuffer_, writing, answers>>
vars == <<peerVars, taken, shut, outVars, pc, state_, inputBuffer_, context_, ended,
          parsed>>

\* Mutant of NewContext: the constructor does not set state_.
NewContextUnset ==
    [state_ |-> "anything", method_ |-> "kInvalid", path_ |-> "none",
     connection |-> "none"]

NewContext ==
    [state_ |-> "kExpectRequestLine", method_ |-> "kInvalid", path_ |-> "none",
     connection |-> "none"]

\* A connection as connectionEstablished() and onConnection() leave it.
Init ==
    /\ script \in Scripts /\ polite \in BOOLEAN
    /\ arrived = 0 /\ taken = 0 /\ fin = FALSE /\ shut = FALSE
    /\ wire = <<>> /\ got = 0
    /\ pc = "poll" /\ state_ = "kConnected"
    /\ inputBuffer_ = <<>> /\ outputBuffer_ = <<>> /\ writing = FALSE
    /\ context_ = NewContext /\ ended = FALSE
    /\ parsed = <<>> /\ answers = <<>>

\* The symbols of the first k lines of s.
Lines(s) ==
    LET lines[k \in 0..Len(s)] ==
          IF k = 0 THEN <<>> ELSE lines[k - 1] \o Symbols(s[k])
    IN lines

Stream == Lines(script)[Len(script)]

-----------------------------------------------------------------------------
(* What the script says when it is read as a whole, line by line.          *)

Unread == [requests |-> <<>>, ends |-> <<>>, length |-> 0, open |-> FALSE,
           path |-> "none", close |-> FALSE, rejected |-> FALSE]

ReadLine(r, name) ==
    LET t == Text[name]
        q == [r EXCEPT !.length = @ + Len(Symbols(name))]
    IN CASE r.rejected -> q
         [] ~r.rejected /\ ~r.open /\ t.version ->
                [q EXCEPT !.open = TRUE, !.path = t.path, !.close = FALSE]
         [] ~r.rejected /\ ~r.open /\ ~t.version -> [q EXCEPT !.rejected = TRUE]
         [] ~r.rejected /\ r.open /\ t.colon ->
                [q EXCEPT !.close = IF t.connection = "none" THEN @
                                    ELSE t.connection = "close"]
         [] ~r.rejected /\ r.open /\ ~t.colon ->
                [q EXCEPT !.open = FALSE, !.ends = Append(@, q.length),
                          !.requests = Append(@, [path |-> r.path, close |-> r.close])]

\* What the first k lines of s say.
Reading(s) ==
    LET reading[k \in 0..Len(s)] ==
          IF k = 0 THEN Unread ELSE ReadLine(reading[k - 1], s[k])
    IN reading

Whole == Reading(script)[Len(script)]

-----------------------------------------------------------------------------
(* The peer and the kernel.                                                *)

\* A polite peer sends the next request when it has the answer to the last
\* one, and nothing after an answer that closes the connection.
MaySend(n) ==
    polite => \A k \in DOMAIN Whole.ends :
        (Whole.ends[k] < arrived + n) =>
            k * ResponseLen <= got /\ ~answers[k].close

PeerSends ==
    /\ ~fin
    /\ \E n \in 1..(Len(Stream) - arrived) : MaySend(n) /\ arrived' = arrived + n
    /\ UNCHANGED <<script, polite, fin, got, taken, shut, outVars, pc, state_,
                   inputBuffer_, context_, ended, parsed>>

PeerReads ==
    /\ got < Len(wire)
    /\ got' = Len(wire)
    /\ UNCHANGED <<script, polite, arrived, fin, taken, shut, outVars, pc, state_,
                   inputBuffer_, context_, ended, parsed>>

PeerCloses ==
    /\ ~fin
    /\ fin' = TRUE
    /\ UNCHANGED <<script, polite, arrived, got, taken, shut, outVars, pc, state_,
                   inputBuffer_, context_, ended, parsed>>

\* write(2) of n bytes: it takes some if there is room, else none (EAGAIN).
Writes(n) ==
    LET room == SendBuffer - (Len(wire) - got)
    IN IF room = 0 THEN {0} ELSE 1..(IF room < n THEN room ELSE n)

-----------------------------------------------------------------------------
(* TcpConnection.                                                          *)

\* Mutant of ShutdownInLoop: output that waits is not looked at.
ShutdownNow == shut' = TRUE

ShutdownInLoop == shut' = (shut \/ ~writing')

\* Mutant of SendInLoop: it writes though output waits.
SendInLoopAlways(r) ==
    LET bytes == [j \in 1..ResponseLen |-> <<Len(answers) + 1, j>>]
    IN \E n \in Writes(ResponseLen) :
          /\ wire' = wire \o SubSeq(bytes, 1, n)
          /\ outputBuffer_' = outputBuffer_ \o SubSeq(bytes, n + 1, ResponseLen)
          /\ writing' = (writing \/ n < ResponseLen)
          /\ answers' = Append(answers, r)

\* What write(2) does not take at once is kept for handleWrite(); a message
\* that comes while output waits is dropped.
SendInLoop(r) ==
    LET bytes == [j \in 1..ResponseLen |-> <<Len(answers) + 1, j>>]
    IN IF ~writing /\ outputBuffer_ = <<>>
       THEN \E n \in Writes(ResponseLen) :
               /\ wire' = wire \o SubSeq(bytes, 1, n)
               /\ outputBuffer_' = SubSeq(bytes, n + 1, ResponseLen)
               /\ writing' = (n < ResponseLen)
               /\ answers' = Append(answers, r)
       ELSE UNCHANGED outVars

\* send() and, after a response that closes, shutdown(): both on the loop's
\* own thread, and only while connected.
Respond(r) ==
    IF state_ = "kConnected"
    THEN /\ SendInLoop(r)
         /\ IF r.close THEN state_' = "kDisconnecting" /\ ShutdownInLoop
                       ELSE UNCHANGED <<state_, shut>>
    ELSE UNCHANGED <<outVars, state_, shut>>

InLoop(label) == ~ended /\ pc = label

\* handleRead() of a socket with data: one read takes all of it; onMessage()
\* begins to parse.
HandleRead ==
    /\ InLoop("poll") /\ state_ # "kDisconnected"
    /\ taken < arrived
    /\ inputBuffer_' = inputBuffer_ \o SubSeq(Stream, taken + 1, arrived)
    /\ taken' = arrived
    /\ pc' = "parseRequest"
    /\ UNCHANGED <<peerVars, shut, outVars, state_, context_, ended, parsed>>

\* handleRead() at the end of the stream, or of a read side that is shut down:
\* handleClose().
HandleClose ==
    /\ InLoop("poll") /\ state_ # "kDisconnected"
    /\ taken = arrived /\ (fin \/ shut)
    /\ state_' = "kDisconnected"
    /\ writing' = FALSE
    /\ UNCHANGED <<peerVars, taken, shut, wire, outputBuffer_, answers, pc,
                   inputBuffer_, context_, ended, parsed>>

\* handleWrite(): goes on with a shutdown() that had to wait for it.
HandleWrite ==
    /\ InLoop("poll") /\ writing
    /\ \E n \in Writes(Len(outputBuffer_)) \ {0} :
          /\ wire' = wire \o SubSeq(outputBuffer_, 1, n)
          /\ outputBuffer_' = SubSeq(outputBuffer_, n + 1, Len(outputBuffer_))
    /\ writing' = (outputBuffer_' # <<>>)
    /\ IF ~writing' /\ state_ = "kDisconnecting" THEN ShutdownInLoop
                                                 ELSE UNCHANGED shut
    /\ UNCHANGED <<peerVars, taken, answers, pc, state_, inputBuffer_, context_, ended,
                   parsed>>

-----------------------------------------------------------------------------
(* HttpContext::parseRequest() and its caller.                             *)

\* findCRLF(): where a line ends in the input buffer.
CrlfAt ==
    {i \in 1..(Len(inputBuffer_) - 1) :
        inputBuffer_[i] = "cr" /\ inputBuffer_[i + 1] = "lf"}

Crlf == CHOOSE i \in CrlfAt : \A j \in CrlfAt : i <= j

\* The text before it.
Line ==
    IF Crlf = 1 THEN Text.empty
    ELSE IF inputBuffer_[1] \in DOMAIN Text THEN Text[inputBuffer_[1]]
    ELSE NoText

\* retrieveUntil(crlf + 2)
RetrieveLine == inputBuffer_' = SubSeq(inputBuffer_, Crlf + 2, Len(inputBuffer_))

InParser(state) == InLoop("parseRequest") /\ context_.state_ = state

\* There is no whole line: parseRequest() returns and waits for the next read.
Incomplete ==
    /\ InLoop("parseRequest") /\ context_.state_ # "kGotAll"
    /\ CrlfAt = {}
    /\ pc' = "poll"
    /\ UNCHANGED <<peerVars, taken, shut, outVars, state_, inputBuffer_, context_, ended,
                   parsed>>

\* processRequestLine() of a good line.
RequestLine ==
    /\ InParser("kExpectRequestLine") /\ CrlfAt # {}
    /\ context_.method_ = "kInvalid"
    /\ Line.method # "kInvalid" /\ Line.version
    /\ context_' = [context_ EXCEPT !.state_ = "kExpectHeader", !.method_ = Line.method,
                                    !.path_ = Line.path]
    /\ RetrieveLine
    /\ UNCHANGED <<peerVars, taken, shut, outVars, pc, state_, ended, parsed>>

\* processRequestLine() of another one: what it has set stays set, the line
\* stays in the buffer, and the connection is shut down after the response.
RejectLine ==
    /\ InParser("kExpectRequestLine") /\ CrlfAt # {}
    /\ context_.method_ = "kInvalid"
    /\ Line.method = "kInvalid" \/ ~Line.version
    /\ context_' = [context_ EXCEPT
          !.method_ = Line.method,
          !.path_ = IF Line.method = "kInvalid" THEN @ ELSE Line.path]
    /\ Respond([code |-> 400, close |-> TRUE])
    /\ pc' = "poll"
    /\ UNCHANGED <<peerVars, taken, inputBuffer_, ended, parsed>>

\* setMethod() asserts that no method has been set.
MethodIsSet ==
    /\ InParser("kExpectRequestLine") /\ CrlfAt # {}
    /\ context_.method_ # "kInvalid"
    /\ ended' = TRUE
    /\ UNCHANGED <<peerVars, taken, shut, outVars, pc, state_, inputBuffer_, context_,
                   parsed>>

\* addHeader(): a field that comes again takes the place of the first.
HeaderLine ==
    /\ InParser("kExpectHeader") /\ CrlfAt # {}
    /\ Line.colon
    /\ context_' = [context_ EXCEPT !.connection =
                        IF Line.connection = "none" THEN @ ELSE Line.connection]
    /\ RetrieveLine
    /\ UNCHANGED <<peerVars, taken, shut, outVars, pc, state_, ended, parsed>>

\* Any line without a colon ends the headers.
EndOfHeaders ==
    /\ InParser("kExpectHeader") /\ CrlfAt # {}
    /\ ~Line.colon
    /\ context_' = [context_ EXCEPT !.state_ = "kGotAll"]
    /\ RetrieveLine
    /\ pc' = "onRequest"
    /\ UNCHANGED <<peerVars, taken, shut, outVars, state_, ended, parsed>>

\* httpCallback() and set404NotFound() of main.cpp; closeConnection_ is set
\* by the request before it and by the callback.
Response(request) ==
    IF request.path_ = "/" THEN [code |-> 200, close |-> request.connection = "close"]
                           ELSE [code |-> 404, close |-> TRUE]

\* Mutant of Reset: the headers of the last request are kept.
ResetKeepsHeaders == context_' = [NewContext EXCEPT !.connection = context_.connection]

\* Mutant of Reset: it is forgotten.
ResetForgotten == UNCHANGED context_

Reset == context_' = NewContext

\* onRequest() and reset(): one request for each call of onMessage(), what is
\* left in the buffer waits for the next read.
OnRequest ==
    /\ InLoop("onRequest")
    /\ Respond(Response(context_))
    /\ Reset
    /\ parsed' = Append(parsed, [path |-> context_.path_,
                                 close |-> context_.connection = "close"])
    /\ pc' = "poll"
    /\ UNCHANGED <<peerVars, taken, inputBuffer_, ended>>

-----------------------------------------------------------------------------
LoopStep ==
    \/ HandleRead \/ HandleClose \/ HandleWrite
    \/ Incomplete \/ RequestLine \/ RejectLine \/ MethodIsSet
    \/ HeaderLine \/ EndOfHeaders \/ OnRequest

Next == LoopStep \/ PeerSends \/ PeerReads \/ PeerCloses

Spec == Init /\ [][Next]_vars

\* The loop goes on and the peer takes what it is sent.
FairSpec == Spec /\ WF_vars(LoopStep) /\ WF_vars(PeerReads)

-----------------------------------------------------------------------------
TypeOK ==
    /\ arrived \in 0..Len(Stream) /\ taken \in 0..arrived
    /\ fin \in BOOLEAN /\ shut \in BOOLEAN /\ writing \in BOOLEAN /\ ended \in BOOLEAN
    /\ got \in 0..Len(wire)
    /\ pc \in {"poll", "parseRequest", "onRequest"}
    /\ state_ \in {"kConnected", "kDisconnecting", "kDisconnected"}
    /\ context_ \in [state_: {"kExpectRequestLine", "kExpectHeader", "kGotAll"},
                     method_: {"kInvalid", "kGet"}, path_: {"none", "/", "/missing"},
                     connection: {"none", "close", "Keep-Alive"}]

\* However the stream is cut, the requests are those of the whole script, in
\* order and each once, and the program ends in setMethod() only if a line of
\* it has been rejected (HttpContext.cpp:13, HttpRequest.cpp:17).
CutsDoNotMatter ==
    /\ IsPrefix(parsed, Whole.requests)
    /\ ended => Whole.rejected

\* The bytes of the first n responses, each told by its response and its place.
BytesOf(n) ==
    [i \in 1..(n * ResponseLen) |->
        <<1 + ((i - 1) \div ResponseLen), 1 + ((i - 1) % ResponseLen)>>]

\* What the kernel has taken and what waits are whole responses in order, and
\* none comes after one that closes.
WholeInOrder ==
    /\ wire \o outputBuffer_ = BytesOf(Len(answers))
    /\ \A k \in DOMAIN answers : answers[k].close => k = Len(answers)

\* So it is whatever write(2) took at a time; and a peer that waits for its
\* answers has been told so when the connection is shut down
\* (TcpConnection.cpp:183, 235).
AnswersAreWhole ==
    /\ WholeInOrder
    /\ (polite /\ shut) => answers # <<>> /\ answers[Len(answers)].close

\* Unless the peer closes first, the connection is shut down and closed only
\* when nothing is left to be written (HttpServer.cpp:75-84).
ClosesWhenWritten ==
    (shut \/ (state_ = "kDisconnected" /\ ~fin)) => outputBuffer_ = <<>>

\* A peer that waits for each answer has the answer to every request that has
\* arrived in the end, unless it closes (HttpServer.h:65).
EachAnswered ==
    \A k \in 1..2 :
        (polite /\ k <= Len(Whole.ends) /\ arrived >= Whole.ends[k])
            ~> (got >= k * ResponseLen \/ fin)

\* setMethod() finds no method set (the assert of HttpRequest.cpp:17).
AssertsHold == ~ended
==============================================================================
