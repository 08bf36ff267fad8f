----------------------------- MODULE HttpServer -----------------------------
(***************************************************************************)
(* HttpServer::start (src/http/http_server.cpp): one process, one accept   *)
(* loop, one connection at a time. A request is HeaderLen units of header, *)
(* the last of which holds the blank line, then body units; a read returns *)
(* any non-empty part of what has arrived, so it may run past the header.  *)
(*                                                                         *)
(* Steps of the code that change nothing are not actions: accept failing   *)
(* with no descriptor left, and read returning 0 in the body loop, which   *)
(* is then repeated for ever.                                              *)
(***************************************************************************)
EXTENDS Integers, Sequences, FiniteSets

CONSTANTS
    Conns,        \* the connections of a run
    HeaderLen,    \* units of header
    Announced,    \* connection -> its Content-Length in units, 0 if none
    BadLength,    \* connections whose Content-Length std::stoi rejects
    Throwing,     \* connections whose parse() or handler throws
    Extra,        \* units a client may send after its announced body
    Large,        \* connections whose answer is larger than the socket's buffers
    MayQuit,      \* connections whose client may stall, close or reset
    MaxFds,       \* descriptors the process may hold for connections
    Backlog,      \* second argument of listen()
    None

ASSUME ConnsAssumption == None \notin Conns /\ IsFiniteSet(Conns)
ASSUME LengthAssumption ==
    /\ HeaderLen \in Nat \ {0}
    /\ Announced \in [Conns -> Nat]
    /\ Extra \in Nat
ASSUME LimitAssumption == MaxFds \in Nat \ {0} /\ Backlog \in Nat \ {0}
ASSUME GroupAssumption ==
    /\ BadLength \subseteq Conns /\ Throwing \subseteq Conns
    /\ Large \subseteq Conns /\ MayQuit \subseteq Conns

VARIABLES
    peer,      \* the client's end: "away", "open", "closed" or "reset"
    sent,      \* units the client has sent
    deaf,      \* connections whose client reads no more
    got,       \* units the server has read
    queue,     \* the listen backlog
    pc,        \* where the accept loop is; "dead": the process has ended
    cur,       \* new_connection, or None
    open,      \* connections whose descriptor the process holds
    outcome    \* what became of each connection

client == <<peer, sent, deaf>>
vars == <<peer, sent, deaf, got, queue, pc, cur, open, outcome>>

Stages == {"accept", "headers", "length", "body", "handle", "send", "close", "dead"}
Outcomes == {"none", "dropped", "handled", "answered", "lost"}

TypeOK ==
    /\ peer \in [Conns -> {"away", "open", "closed", "reset"}]
    /\ sent \in [Conns -> Nat]
    /\ deaf \subseteq Conns
    /\ got \in [Conns -> Nat]
    /\ queue \in Seq(Conns)
    /\ pc \in Stages
    /\ cur \in Conns \cup {None}
    /\ open \in SUBSET Conns
    /\ outcome \in [Conns -> Outcomes]

Init ==
    /\ peer = [c \in Conns |-> "away"]
    /\ sent = [c \in Conns |-> 0]
    /\ deaf = {}
    /\ got = [c \in Conns |-> 0]
    /\ queue = <<>>
    /\ pc = "accept"
    /\ cur = None
    /\ open = {}
    /\ outcome = [c \in Conns |-> "none"]

-----------------------------------------------------------------------------
\* The clients.

Whole(c) == HeaderLen + Announced[c]

Connect(c) ==
    /\ pc # "dead"
    /\ peer[c] = "away"
    /\ Len(queue) < Backlog
    /\ peer' = [peer EXCEPT ![c] = "open"]
    /\ queue' = Append(queue, c)
    /\ UNCHANGED <<sent, deaf, got, pc, cur, open, outcome>>

SendUnit(c) ==
    /\ pc # "dead"
    /\ peer[c] = "open"
    /\ sent[c] < Whole(c) + Extra
    /\ sent' = [sent EXCEPT ![c] = @ + 1]
    /\ UNCHANGED <<peer, deaf, got, queue, pc, cur, open, outcome>>

\* The client stays connected and reads no more, which the server notices only
\* of a large answer.
StopReading(c) ==
    /\ pc # "dead"
    /\ c \in (MayQuit \cap Large) \ deaf
    /\ peer[c] = "open"
    /\ deaf' = deaf \cup {c}
    /\ UNCHANGED <<peer, sent, got, queue, pc, cur, open, outcome>>

\* The client closes, both ways; what it sent before can still be read.
ClientClose(c) ==
    /\ pc # "dead"
    /\ c \in MayQuit
    /\ peer[c] = "open"
    /\ peer' = [peer EXCEPT ![c] = "closed"]
    /\ UNCHANGED <<sent, deaf, got, queue, pc, cur, open, outcome>>

ClientReset(c) ==
    /\ pc # "dead"
    /\ c \in MayQuit
    /\ peer[c] \in {"open", "closed"}
    /\ peer' = [peer EXCEPT ![c] = "reset"]
    /\ UNCHANGED <<sent, deaf, got, queue, pc, cur, open, outcome>>

-----------------------------------------------------------------------------
\* The accept loop.

Unread(c) == sent[c] - got[c]

\* read() returns 0: the client has closed and everything was read.
AtEnd(c) == peer[c] = "closed" /\ Unread(c) = 0

HeaderComplete(n) == n >= HeaderLen

BodyOneMore(c, n) == n - HeaderLen > Announced[c]

BodyNotAwaited(c, n) == TRUE

BodyComplete(c, n) == n - HeaderLen >= Announced[c]

\* A stage of the connection in service that leaves the other state alone.
Goto(stage) ==
    /\ pc' = stage
    /\ UNCHANGED <<client, queue, cur>>

\* An exception nobody catches: std::terminate.
Terminate ==
    /\ Goto("dead")
    /\ UNCHANGED <<got, open, outcome>>

AcceptNewest ==
    /\ pc = "accept"
    /\ queue # <<>>
    /\ Cardinality(open) < MaxFds
    /\ cur' = queue[Len(queue)]
    /\ queue' = SubSeq(queue, 1, Len(queue) - 1)
    /\ open' = open \cup {cur'}
    /\ pc' = "headers"
    /\ UNCHANGED <<client, got, outcome>>

Accept ==
    /\ pc = "accept"
    /\ queue # <<>>
    /\ Cardinality(open) < MaxFds
    /\ cur' = Head(queue)
    /\ queue' = Tail(queue)
    /\ open' = open \cup {Head(queue)}
    /\ pc' = "headers"
    /\ UNCHANGED <<client, got, outcome>>

ReadHeaders ==
    /\ pc = "headers"
    /\ \E n \in 1..Unread(cur) :
          /\ got' = [got EXCEPT ![cur] = @ + n]
          /\ Goto(IF HeaderComplete(got[cur] + n) THEN "length" ELSE "headers")
    /\ UNCHANGED <<open, outcome>>

DropOnErrorOnly ==
    /\ pc = "headers"
    /\ peer[cur] = "reset"
    /\ outcome' = [outcome EXCEPT ![cur] = "dropped"]
    /\ cur' = None
    /\ pc' = "accept"
    /\ UNCHANGED <<client, got, queue, open>>

DropByTerminate ==
    /\ pc = "headers"
    /\ AtEnd(cur) \/ peer[cur] = "reset"
    /\ Terminate

\* read() returned 0 or an error before the blank line: `continue', and the
\* descriptor stays open.
DropConnection ==
    /\ pc = "headers"
    /\ AtEnd(cur) \/ peer[cur] = "reset"
    /\ outcome' = [outcome EXCEPT ![cur] = "dropped"]
    /\ cur' = None
    /\ pc' = "accept"
    /\ UNCHANGED <<client, got, queue, open>>

\* Content-Length is looked for and parsed; a body that came with the header
\* is counted.
StartBody ==
    /\ pc = "length"
    /\ \/ cur \in BadLength /\ Terminate
       \/ /\ cur \notin BadLength
          /\ Goto(IF BodyComplete(cur, got[cur]) THEN "handle" ELSE "body")
          /\ UNCHANGED <<got, open, outcome>>

ReadBody ==
    /\ pc = "body"
    /\ \E n \in 1..Unread(cur) :
          /\ got' = [got EXCEPT ![cur] = @ + n]
          /\ Goto(IF BodyComplete(cur, got[cur] + n) THEN "handle" ELSE "body")
    /\ UNCHANGED <<open, outcome>>

ReadErrorCounted ==
    /\ pc = "body"
    /\ peer[cur] = "reset"
    /\ got' = [got EXCEPT ![cur] = @ - 1]
    /\ Goto("body")
    /\ UNCHANGED <<open, outcome>>

\* read() returned -1, and string(buffer, -1) throws.
ReadBodyFails ==
    /\ pc = "body"
    /\ peer[cur] = "reset"
    /\ Terminate

\* request.parse() and handleRequest(): they run to their end or throw.
HandleRequest ==
    /\ pc = "handle"
    /\ \/ cur \in Throwing /\ Terminate
       \/ /\ cur \notin Throwing
          /\ outcome' = [outcome EXCEPT ![cur] = "handled"]
          /\ Goto("send")
          /\ UNCHANGED <<got, open>>

\* send() waits for room: a connected client has to take what the buffers do
\* not hold.
Blocked(c) == peer[c] = "open" /\ c \in Large \cap deaf

\* The client has gone before it took the whole answer.
Undelivered(c) == peer[c] = "reset" \/ (peer[c] = "closed" /\ c \in Large)

\* One blocking send(), whose result is not looked at. To a client that has
\* reset the connection it fails, or raises SIGPIPE, which ends the process.
SendResponse ==
    /\ pc = "send"
    /\ ~Blocked(cur)
    /\ \/ /\ outcome' = [outcome EXCEPT
                             ![cur] = IF Undelivered(cur) THEN "lost" ELSE "answered"]
          /\ Goto("close")
          /\ UNCHANGED <<got, open>>
       \/ peer[cur] = "reset" /\ Terminate

CloseNothing ==
    /\ pc = "close"
    /\ cur' = None
    /\ pc' = "accept"
    /\ UNCHANGED <<client, got, queue, open, outcome>>

Close ==
    /\ pc = "close"
    /\ open' = open \ {cur}
    /\ cur' = None
    /\ pc' = "accept"
    /\ UNCHANGED <<client, got, queue, outcome>>

Server ==
    \/ Accept
    \/ ReadHeaders
    \/ DropConnection
    \/ StartBody
    \/ ReadBody
    \/ ReadBodyFails
    \/ HandleRequest
    \/ SendResponse
    \/ Close

Client(c) ==
    \/ Connect(c)
    \/ SendUnit(c)
    \/ StopReading(c)
    \/ ClientClose(c)
    \/ ClientReset(c)

Next == Server \/ \E c \in Conns : Client(c)

\* The loop runs whenever it can; a client that does not quit sends its
\* request to the end.
Spec ==
    /\ Init
    /\ [][Next]_vars
    /\ WF_vars(Server)
    /\ \A c \in Conns \ MayQuit : WF_vars(sent[c] < Whole(c) /\ SendUnit(c))

-----------------------------------------------------------------------------
\* A descriptor is held exactly for the connection in service and for every
\* connection that ended before its header did: close() is skipped on the two
\* `continue' paths and nowhere else.
OpenFdsAccounted ==
    open = {c \in Conns : c = cur \/ outcome[c] = "dropped"}

\* No handler sees a request before its header and its whole announced body
\* have been read, and none is answered that was not handled.
HandledWhole ==
    \A c \in Conns :
        outcome[c] \in {"handled", "answered", "lost"} =>
            /\ got[c] >= Whole(c)
            /\ c \notin BadLength \cup Throwing

\* Clients that send all they announce, wait for the answer and read it.
Patient ==
    \A c \in Conns :
        /\ [](peer[c] \in {"away", "open"} /\ c \notin deaf)
        /\ peer[c] = "open" ~> sent[c] >= Whole(c)

\* Patient clients are all answered, whatever the sizes of the reads, unless a
\* request ends the process.
EveryRequestAnswered ==
    Patient => \A c \in Conns : peer[c] = "open" ~> (outcome[c] = "answered" \/ pc = "dead")

\* Where the loop can hang: in read() on a client that neither sends nor
\* closes, in the body loop on a client that closed before the end of its body,
\* and in send() on a client that stays and does not read.
Held ==
    \/ /\ pc \in {"headers", "body"}
       /\ Unread(cur) = 0
       /\ peer[cur] = "open" \/ (pc = "body" /\ peer[cur] = "closed")
    \/ pc = "send" /\ Blocked(cur)

\* Every descriptor is held by a connection that was dropped without close().
OutOfFds == pc = "accept" /\ Cardinality(open) = MaxFds

Ended(c) == outcome[c] \in {"dropped", "answered", "lost"}

\* However the clients behave, every connection comes to its end unless the
\* process ends, or one connection holds the loop for ever, or the dropped
\* ones have used up the descriptors.
ServedUnlessHeld ==
    \/ \A c \in Conns : peer[c] = "open" ~> Ended(c)
    \/ <>(pc = "dead")
    \/ <>[]Held
    \/ <>[]OutOfFds

\* The process ends only on a request that throws or on a client that reset
\* its connection, and then while that very connection is in service.
DiesOnlyInService ==
    pc = "dead" => cur \in BadLength \cup Throwing \/ (cur \in MayQuit /\ peer[cur] = "reset")

\* The loop serves connections one at a time in order of arrival, and ends
\* each of them once.
Serial == INSTANCE SerialService WITH
    Endings <- {"dropped", "answered", "lost"},
    arrived <- {c \in Conns : peer[c] # "away"},
    pending <- queue,
    serving <- IF pc = "close" THEN None ELSE cur,
    ending <- [c \in Conns |-> IF Ended(c) THEN outcome[c] ELSE None],
    down <- pc = "dead"

ServesInOrder == Serial!Spec
=============================================================================
