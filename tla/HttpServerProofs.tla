-------------------------- MODULE HttpServerProofs --------------------------
(***************************************************************************)
(* Theorems of HttpServer for every set of connections, every length of    *)
(* header and body and every limit: its type, three invariants of the      *)
(* accept loop, and that it implements SerialService.                      *)
(***************************************************************************)
EXTENDS HttpServer, TLAPS

\* Which outcomes the connection in service may have at each stage, and what
\* has been read of it by then.
Stage ==
    /\ pc = "accept" <=> cur = None
    /\ pc \in {"headers", "length", "body", "handle"} => outcome[cur] = "none"
    /\ pc = "send" => outcome[cur] = "handled"
    /\ pc = "close" => outcome[cur] \in {"answered", "lost"}
    /\ pc = "dead" => outcome[cur] \in {"none", "handled"}
    /\ pc \in {"body", "handle"} => cur \notin BadLength
    /\ pc = "handle" => got[cur] >= Whole(cur)
    /\ pc = "send" => cur \notin Throwing

\* A connection waits in the backlog once, before anything is done to it.
Waiting ==
    /\ \A j \in 1..Len(queue) :
          /\ queue[j] # cur
          /\ peer[queue[j]] # "away"
          /\ outcome[queue[j]] = "none"
    /\ \A j, k \in 1..Len(queue) : queue[j] = queue[k] => j = k

\* A connection that has not arrived has no outcome and is not in service, only
\* the one in service is handled and not yet answered, and those that left are
\* of clients that may.
Elsewhere ==
    /\ \A c \in Conns : peer[c] = "away" => outcome[c] = "none" /\ c # cur
    /\ \A c \in Conns : outcome[c] = "handled" => c = cur
    /\ \A c \in Conns : peer[c] \in {"closed", "reset"} => c \in MayQuit

LoopInv ==
    /\ TypeOK
    /\ Stage
    /\ Waiting
    /\ Elsewhere
    /\ OpenFdsAccounted
    /\ HandledWhole
    /\ DiesOnlyInService

LEMMA InitLoopInv == Init => LoopInv
  <1> SUFFICES ASSUME Init PROVE LoopInv
    OBVIOUS
  <1> USE ConnsAssumption DEF Init
  <1>1. TypeOK
    BY DEF TypeOK, Stages, Outcomes
  <1>2. Stage
    BY DEF Stage
  <1>3. Waiting
    BY DEF Waiting
  <1>4. Elsewhere
    BY DEF Elsewhere
  <1>5. OpenFdsAccounted
    BY DEF OpenFdsAccounted
  <1>6. HandledWhole /\ DiesOnlyInService
    BY DEF HandledWhole, DiesOnlyInService
  <1> QED
    BY <1>1, <1>2, <1>3, <1>4, <1>5, <1>6 DEF LoopInv

-----------------------------------------------------------------------------
\* The connection at the front of the backlog.

LEMMA Front ==
    ASSUME LoopInv, queue # <<>>
    PROVE  /\ Head(queue) \in Conns
           /\ Head(queue) # None
           /\ peer[Head(queue)] # "away"
           /\ outcome[Head(queue)] = "none"
           /\ Tail(queue) \in Seq(Conns)
           /\ Len(Tail(queue)) = Len(queue) - 1
           /\ \A j \in 1..Len(Tail(queue)) :
                 /\ j + 1 \in 1..Len(queue)
                 /\ Tail(queue)[j] = queue[j + 1]
                 /\ Tail(queue)[j] # Head(queue)
  <1>1. queue \in Seq(Conns) /\ Len(queue) \in Nat \ {0}
    BY DEF LoopInv, TypeOK
  <1>2. Head(queue) = queue[1] /\ 1 \in 1..Len(queue)
    BY <1>1
  <1>3. /\ Tail(queue) \in Seq(Conns)
        /\ Len(Tail(queue)) = Len(queue) - 1
        /\ \A j \in 1..Len(Tail(queue)) : Tail(queue)[j] = queue[j + 1]
    BY <1>1
  <1>4. \A j \in 1..Len(Tail(queue)) : j + 1 \in 1..Len(queue) /\ j + 1 # 1
    BY <1>1, <1>3
  <1>5. \A j \in 1..Len(Tail(queue)) : Tail(queue)[j] # Head(queue)
    BY <1>2, <1>3, <1>4 DEF LoopInv, Waiting
  <1>6. Head(queue) \in Conns
    BY <1>1, <1>2
  <1> QED
    BY <1>2, <1>3, <1>4, <1>5, <1>6, ConnsAssumption DEF LoopInv, Waiting

\* One lemma for each action: it keeps LoopInv.

LEMMA ConnectKeeps ==
    ASSUME NEW c \in Conns, LoopInv, Connect(c) PROVE LoopInv'
  <1> USE DEF Connect
  <1>1. TypeOK'
    BY DEF LoopInv, TypeOK
  <1>2. Stage' /\ OpenFdsAccounted' /\ HandledWhole'
    BY DEF LoopInv, Stage, OpenFdsAccounted, HandledWhole, Whole
  <1>3. /\ Len(queue') = Len(queue) + 1
        /\ \A j \in 1..Len(queue') :
              queue'[j] = IF j <= Len(queue) THEN queue[j] ELSE c
        /\ Len(queue) \in Nat
    BY DEF LoopInv, TypeOK
  <1>4. outcome[c] = "none" /\ c # cur /\ peer'[c] # "away"
    BY DEF LoopInv, TypeOK, Elsewhere
  <1>5. \A j \in 1..Len(queue) : queue[j] # c /\ queue[j] \in Conns
    BY DEF LoopInv, TypeOK, Waiting
  <1>6. \A j \in 1..Len(queue') :
           /\ queue'[j] # cur'
           /\ peer'[queue'[j]] # "away"
           /\ outcome'[queue'[j]] = "none"
    BY <1>3, <1>4, <1>5 DEF LoopInv, TypeOK, Waiting
  <1>7. \A j, k \in 1..Len(queue') : queue'[j] = queue'[k] => j = k
    BY <1>3, <1>5 DEF LoopInv, Waiting
  <1>8. Waiting'
    BY <1>6, <1>7 DEF Waiting
  <1>9. Elsewhere'
    BY DEF LoopInv, TypeOK, Elsewhere
  <1>10. DiesOnlyInService'
    BY DEF DiesOnlyInService
  <1> QED
    BY <1>1, <1>2, <1>8, <1>9, <1>10 DEF LoopInv

LEMMA SendUnitKeeps ==
    ASSUME NEW c \in Conns, LoopInv, SendUnit(c) PROVE LoopInv'
  <1> USE DEF SendUnit
  <1>1. TypeOK'
    BY DEF LoopInv, TypeOK
  <1>2. Stage' /\ Waiting' /\ Elsewhere' /\ OpenFdsAccounted' /\ HandledWhole'
    BY DEF LoopInv, Stage, Waiting, Elsewhere, OpenFdsAccounted, HandledWhole, Whole
  <1>3. DiesOnlyInService'
    BY DEF DiesOnlyInService
  <1> QED
    BY <1>1, <1>2, <1>3 DEF LoopInv

LEMMA StopReadingKeeps ==
    ASSUME NEW c \in Conns, LoopInv, StopReading(c) PROVE LoopInv'
  <1> USE DEF StopReading
  <1>1. TypeOK'
    BY DEF LoopInv, TypeOK
  <1>2. Stage' /\ Waiting' /\ Elsewhere' /\ OpenFdsAccounted' /\ HandledWhole'
    BY DEF LoopInv, Stage, Waiting, Elsewhere, OpenFdsAccounted, HandledWhole, Whole
  <1>3. DiesOnlyInService'
    BY DEF DiesOnlyInService
  <1> QED
    BY <1>1, <1>2, <1>3 DEF LoopInv

\* The client's two ways of leaving.
LEMMA QuitKeeps ==
    ASSUME NEW c \in Conns, LoopInv, ClientClose(c) \/ ClientReset(c)
    PROVE  LoopInv'
  <1> USE DEF ClientClose, ClientReset
  <1>1. /\ UNCHANGED <<sent, deaf, got, queue, pc, cur, open, outcome>>
        /\ pc # "dead"
        /\ peer' \in [Conns -> {"away", "open", "closed", "reset"}]
        /\ \A d \in Conns : peer'[d] = "away" <=> peer[d] = "away"
    BY DEF LoopInv, TypeOK
  <1>2. TypeOK'
    BY <1>1 DEF LoopInv, TypeOK
  <1>3. Stage' /\ OpenFdsAccounted' /\ HandledWhole'
    BY <1>1 DEF LoopInv, Stage, OpenFdsAccounted, HandledWhole, Whole
  <1>4. Waiting'
    BY <1>1 DEF LoopInv, TypeOK, Waiting
  <1>5. Elsewhere'
    BY <1>1 DEF LoopInv, Elsewhere
  <1>6. DiesOnlyInService'
    BY <1>1 DEF DiesOnlyInService
  <1> QED
    BY <1>2, <1>3, <1>4, <1>5, <1>6 DEF LoopInv

LEMMA AcceptKeeps == ASSUME LoopInv, Accept PROVE LoopInv'
  <1> DEFINE front == Head(queue)
             rest == Tail(queue)
  <1>1. /\ pc = "accept" /\ pc' = "headers"
        /\ cur = None /\ cur' = front /\ queue' = rest /\ open' = open \cup {front}
        /\ UNCHANGED <<peer, sent, deaf, got, outcome>>
    BY DEF Accept, client, LoopInv, Stage
  <1>2. /\ front \in Conns /\ front # None
        /\ peer[front] # "away" /\ outcome[front] = "none"
        /\ rest \in Seq(Conns) /\ Len(rest) = Len(queue) - 1
    BY Front DEF Accept
  <1>3. \A j \in 1..Len(rest) :
           j + 1 \in 1..Len(queue) /\ rest[j] = queue[j + 1] /\ rest[j] # front
    BY Front DEF Accept
  <1>4. Len(rest) \in Nat
    BY <1>2
  <1> HIDE DEF front, rest
  <1>5. TypeOK'
    BY <1>1, <1>2 DEF LoopInv, TypeOK, Stages
  <1>6. Stage'
    BY <1>1, <1>2 DEF LoopInv, Stage
  <1>7. \A j \in 1..Len(rest) :
           rest[j] # front /\ peer[rest[j]] # "away" /\ outcome[rest[j]] = "none"
    BY <1>3 DEF LoopInv, Waiting
  <1>8. \A j, k \in 1..Len(rest) : rest[j] = rest[k] => j = k
    <2> TAKE j, k \in 1..Len(rest)
    <2> HAVE rest[j] = rest[k]
    <2>1. j + 1 = k + 1
      BY <1>3 DEF LoopInv, Waiting
    <2> QED
      BY <1>4, <2>1
  <1>9. Waiting'
    BY <1>1, <1>7, <1>8 DEF Waiting
  <1>10. Elsewhere'
    BY <1>1, <1>2, ConnsAssumption DEF LoopInv, Elsewhere
  <1>11. OpenFdsAccounted'
    BY <1>1, <1>2, ConnsAssumption DEF LoopInv, OpenFdsAccounted
  <1>12. HandledWhole' /\ DiesOnlyInService'
    BY <1>1 DEF LoopInv, HandledWhole, Whole, DiesOnlyInService
  <1> QED
    BY <1>5, <1>6, <1>9, <1>10, <1>11, <1>12 DEF LoopInv

\* Reading more of the request in service.
LEMMA ReadKeeps ==
    ASSUME LoopInv,
           pc \in {"headers", "body"},
           NEW n \in 1..Unread(cur),
           got' = [got EXCEPT ![cur] = @ + n],
           UNCHANGED <<peer, sent, deaf, queue, cur, open, outcome>>,
           \/ pc = "headers" /\ pc' \in {"headers", "length"}
           \/ pc = "body" /\ pc' = "body"
           \/ pc = "body" /\ pc' = "handle" /\ BodyComplete(cur, got[cur] + n)
    PROVE  LoopInv'
  <1>1. cur \in Conns /\ outcome[cur] = "none"
    BY DEF LoopInv, TypeOK, Stage
  <1>2. n \in Nat /\ got[cur] \in Nat /\ sent[cur] \in Nat
    BY <1>1 DEF LoopInv, TypeOK, Unread
  <1>3. TypeOK'
    BY <1>1, <1>2 DEF LoopInv, TypeOK, Stages
  <1>4. pc' = "handle" => got'[cur] >= Whole(cur)
    <2>1. got'[cur] = got[cur] + n /\ Announced[cur] \in Nat /\ HeaderLen \in Nat
      BY <1>1, LengthAssumption DEF LoopInv, TypeOK
    <2> QED
      BY <1>2, <2>1 DEF BodyComplete, Whole
  <1>5. Stage'
    BY <1>4 DEF LoopInv, Stage, Whole
  <1>6. Waiting' /\ Elsewhere' /\ OpenFdsAccounted' /\ DiesOnlyInService'
    BY DEF LoopInv, Waiting, Elsewhere, OpenFdsAccounted, DiesOnlyInService
  <1>7. HandledWhole'
    BY <1>1 DEF LoopInv, TypeOK, HandledWhole, Whole
  <1> QED
    BY <1>3, <1>5, <1>6, <1>7 DEF LoopInv

\* The process ends, on a bad request or on a client that has reset.
LEMMA TerminateKeeps ==
    ASSUME LoopInv,
           pc \in {"length", "body", "handle", "send"},
           Terminate,
           cur \in BadLength \cup Throwing \/ peer[cur] = "reset"
    PROVE  LoopInv'
  <1>1. cur \in Conns
    BY DEF LoopInv, TypeOK, Stage
  <1> USE DEF Terminate, Goto, client
  <1>2. TypeOK' /\ Stage' /\ Waiting' /\ Elsewhere'
    BY DEF LoopInv, TypeOK, Stages, Stage, Waiting, Elsewhere
  <1>3. OpenFdsAccounted' /\ HandledWhole'
    BY DEF LoopInv, OpenFdsAccounted, HandledWhole, Whole
  <1>4. DiesOnlyInService'
    BY <1>1 DEF LoopInv, Elsewhere, DiesOnlyInService
  <1> QED
    BY <1>2, <1>3, <1>4 DEF LoopInv

\* The connection in service leaves a stage for good.
LEMMA StageKeeps ==
    ASSUME LoopInv, DropConnection \/ SendResponse \/ Close, pc' # "dead"
    PROVE  LoopInv'
  <1>1. cur \in Conns /\ cur # None
    BY ConnsAssumption
    DEF LoopInv, TypeOK, Stage, DropConnection, SendResponse, Close
  <1>2. CASE DropConnection
    <2> USE <1>2 DEF DropConnection, client
    <2>1. TypeOK' /\ Stage'
      BY <1>1 DEF LoopInv, TypeOK, Stages, Outcomes, Stage
    <2>2. Waiting' /\ Elsewhere'
      <3>1. \A j \in 1..Len(queue) : queue[j] \in Conns /\ queue[j] # None
        BY ConnsAssumption DEF LoopInv, TypeOK
      <3>2. Waiting'
        BY <3>1 DEF LoopInv, TypeOK, Waiting
      <3>3. outcome[cur] = "none"
        BY DEF LoopInv, Stage
      <3>4. Elsewhere'
        BY <1>1, <3>3, ConnsAssumption DEF LoopInv, TypeOK, Elsewhere
      <3> QED
        BY <3>2, <3>4
    <2>3. OpenFdsAccounted'
      BY <1>1, ConnsAssumption DEF LoopInv, TypeOK, OpenFdsAccounted
    <2>4. HandledWhole' /\ DiesOnlyInService'
      BY <1>1 DEF LoopInv, TypeOK, HandledWhole, Whole, DiesOnlyInService
    <2> QED
      BY <2>1, <2>2, <2>3, <2>4 DEF LoopInv
  <1>3. CASE SendResponse
    <2>1. PICK how \in {"lost", "answered"} :
             outcome' = [outcome EXCEPT ![cur] = how]
      BY <1>3 DEF SendResponse, Terminate, Goto
    <2>2. /\ pc = "send" /\ pc' = "close"
          /\ UNCHANGED <<peer, sent, deaf, got, queue, cur, open>>
      BY <1>3 DEF SendResponse, Terminate, Goto, client
    <2>3. TypeOK' /\ Stage'
      BY <1>1, <2>1, <2>2 DEF LoopInv, TypeOK, Stages, Outcomes, Stage
    <2>4. Waiting' /\ Elsewhere'
      BY <1>1, <2>1, <2>2 DEF LoopInv, TypeOK, Waiting, Elsewhere
    <2>5. OpenFdsAccounted'
      BY <1>1, <2>1, <2>2 DEF LoopInv, TypeOK, Stage, OpenFdsAccounted
    <2>6. HandledWhole' /\ DiesOnlyInService'
      BY <1>1, <2>1, <2>2
      DEF LoopInv, TypeOK, Stage, HandledWhole, Whole, DiesOnlyInService
    <2> QED
      BY <2>3, <2>4, <2>5, <2>6 DEF LoopInv
  <1>4. CASE Close
    <2> USE <1>4 DEF Close, client
    <2>1. TypeOK' /\ Stage'
      BY <1>1 DEF LoopInv, TypeOK, Stages, Stage
    <2>2. Waiting' /\ Elsewhere'
      BY <1>1, ConnsAssumption DEF LoopInv, TypeOK, Stage, Waiting, Elsewhere
    <2>3. OpenFdsAccounted'
      BY <1>1, ConnsAssumption DEF LoopInv, TypeOK, Stage, OpenFdsAccounted
    <2>4. HandledWhole' /\ DiesOnlyInService'
      BY <1>1 DEF LoopInv, HandledWhole, Whole, DiesOnlyInService
    <2> QED
      BY <2>1, <2>2, <2>3, <2>4 DEF LoopInv
  <1> QED
    BY <1>2, <1>3, <1>4

\* The connection in service goes on to the body, to its handler or past it.
LEMMA ProceedKeeps ==
    ASSUME LoopInv, StartBody \/ HandleRequest, pc' # "dead"
    PROVE  LoopInv'
  <1>1. cur \in Conns /\ outcome[cur] = "none"
    BY DEF LoopInv, TypeOK, Stage, StartBody, HandleRequest
  <1>2. CASE StartBody
    <2>1. /\ pc' = IF BodyComplete(cur, got[cur]) THEN "handle" ELSE "body"
          /\ cur \notin BadLength
          /\ UNCHANGED <<peer, sent, deaf, got, queue, cur, open, outcome>>
          /\ pc = "length"
      BY <1>2 DEF StartBody, Terminate, Goto, client
    <2>2. pc' = "handle" => got[cur] >= Whole(cur)
      <3>1. got[cur] \in Nat /\ Announced[cur] \in Nat /\ HeaderLen \in Nat
        BY <1>1, LengthAssumption DEF LoopInv, TypeOK
      <3> QED
        BY <2>1, <3>1 DEF BodyComplete, Whole
    <2>3. TypeOK' /\ Waiting' /\ Elsewhere'
      BY <2>1 DEF LoopInv, TypeOK, Stages, Waiting, Elsewhere
    <2>4. Stage'
      BY <2>1, <2>2, <1>1 DEF LoopInv, Stage, Whole
    <2>5. OpenFdsAccounted' /\ HandledWhole' /\ DiesOnlyInService'
      BY <2>1
      DEF LoopInv, OpenFdsAccounted, HandledWhole, Whole, DiesOnlyInService
    <2> QED
      BY <2>3, <2>4, <2>5 DEF LoopInv
  <1>3. CASE HandleRequest
    <2>1. /\ pc = "handle" /\ pc' = "send"
          /\ cur \notin Throwing
          /\ outcome' = [outcome EXCEPT ![cur] = "handled"]
          /\ UNCHANGED <<peer, sent, deaf, got, queue, cur, open>>
      BY <1>3 DEF HandleRequest, Terminate, Goto, client
    <2>2. TypeOK' /\ Stage'
      BY <1>1, <2>1 DEF LoopInv, TypeOK, Stages, Outcomes, Stage
    <2>3. Waiting' /\ Elsewhere'
      BY <1>1, <2>1 DEF LoopInv, TypeOK, Waiting, Elsewhere
    <2>4. OpenFdsAccounted'
      BY <1>1, <2>1 DEF LoopInv, TypeOK, OpenFdsAccounted
    <2>5. HandledWhole' /\ DiesOnlyInService'
      BY <1>1, <2>1 DEF LoopInv, TypeOK, Stage, HandledWhole, Whole, DiesOnlyInService
    <2> QED
      BY <2>2, <2>3, <2>4, <2>5 DEF LoopInv
  <1> QED
    BY <1>2, <1>3

LEMMA NextKeeps == LoopInv /\ [Next]_vars => LoopInv'
  <1> SUFFICES ASSUME LoopInv, [Next]_vars PROVE LoopInv'
    OBVIOUS
  <1>1. ASSUME NEW c \in Conns, Client(c) PROVE LoopInv'
    BY <1>1, ConnectKeeps, SendUnitKeeps, StopReadingKeeps, QuitKeeps DEF Client
  <1>2. CASE Accept
    BY <1>2, AcceptKeeps
  <1>3. CASE ReadHeaders
    <2>1. PICK n \in 1..Unread(cur) : /\ got' = [got EXCEPT ![cur] = @ + n]
                                      /\ pc' \in {"headers", "length"}
      BY <1>3 DEF ReadHeaders, Goto
    <2> QED
      BY <1>3, <2>1, ReadKeeps DEF ReadHeaders, Goto, client
  <1>4. CASE ReadBody
    <2>1. PICK n \in 1..Unread(cur) :
             /\ got' = [got EXCEPT ![cur] = @ + n]
             /\ pc' = IF BodyComplete(cur, got[cur] + n) THEN "handle" ELSE "body"
      BY <1>4 DEF ReadBody, Goto
    <2> QED
      BY <1>4, <2>1, ReadKeeps DEF ReadBody, Goto, client
  <1>5. CASE ReadBodyFails
    BY <1>5, TerminateKeeps DEF ReadBodyFails
  <1>6. CASE (StartBody \/ HandleRequest \/ SendResponse) /\ pc' = "dead"
    <2>1. /\ pc \in {"length", "body", "handle", "send"}
          /\ Terminate
          /\ cur \in BadLength \cup Throwing \/ peer[cur] = "reset"
      BY <1>6 DEF StartBody, HandleRequest, SendResponse, Goto
    <2> QED
      BY <2>1, TerminateKeeps
  <1>7. CASE (StartBody \/ HandleRequest) /\ pc' # "dead"
    BY <1>7, ProceedKeeps
  <1>8. CASE DropConnection \/ Close \/ (SendResponse /\ pc' # "dead")
    BY <1>8, StageKeeps DEF DropConnection, Close
  <1>9. CASE UNCHANGED vars
    BY <1>9 DEF vars, client, LoopInv, TypeOK, Stage, Waiting, Elsewhere,
                OpenFdsAccounted, HandledWhole, Whole, DiesOnlyInService
  <1> QED
    BY <1>1, <1>2, <1>3, <1>4, <1>5, <1>6, <1>7, <1>8, <1>9 DEF Next, Server

LEMMA LoopInvariant == Spec => []LoopInv
  BY InitLoopInv, NextKeeps, PTL DEF Spec

-----------------------------------------------------------------------------
\* Every variable of the server keeps its type.
THEOREM TypeCorrect == Spec => []TypeOK
  <1>1. LoopInv => TypeOK
    BY DEF LoopInv
  <1> QED
    BY <1>1, LoopInvariant, PTL

\* The descriptors held are that of the connection in service and those of the
\* connections dropped before the end of their header.
THEOREM OpenFdsAccountedHolds == Spec => []OpenFdsAccounted
  <1>1. LoopInv => OpenFdsAccounted
    BY DEF LoopInv
  <1> QED
    BY <1>1, LoopInvariant, PTL

\* Only a request that was read whole is handled.
THEOREM HandledWholeHolds == Spec => []HandledWhole
  <1>1. LoopInv => HandledWhole
    BY DEF LoopInv
  <1> QED
    BY <1>1, LoopInvariant, PTL

\* The process ends only while the connection that makes it end is in service.
THEOREM DiesOnlyInServiceHolds == Spec => []DiesOnlyInService
  <1>1. LoopInv => DiesOnlyInService
    BY DEF LoopInv
  <1> QED
    BY <1>1, LoopInvariant, PTL

-----------------------------------------------------------------------------
\* The refinement: initial states map to initial states.
LEMMA InitRefines == Init => Serial!Init
  <1> SUFFICES ASSUME Init PROVE Serial!Init
    OBVIOUS
  <1>1. \A c \in Conns : ~Ended(c)
    BY DEF Init, Ended
  <1> QED
    BY <1>1 DEF Init, Serial!Init

\* The endings do not change in a step that keeps every outcome.
LEMMA SameEndings ==
    ASSUME TypeOK, TypeOK', UNCHANGED outcome
    PROVE  [c \in Conns |-> IF Ended(c) THEN outcome[c] ELSE None]'
             = [c \in Conns |-> IF Ended(c) THEN outcome[c] ELSE None]
  BY DEF Ended

\* A step of the client is an arrival, or nothing the service tells apart.
LEMMA ClientRefines ==
    ASSUME LoopInv, LoopInv', NEW c \in Conns, Client(c)
    PROVE  Serial!Next \/ UNCHANGED Serial!vars
  <1>1. [d \in Conns |-> IF Ended(d) THEN outcome[d] ELSE None]'
          = [d \in Conns |-> IF Ended(d) THEN outcome[d] ELSE None]
    BY SameEndings
    DEF LoopInv, Client, Connect, SendUnit, StopReading, ClientClose, ClientReset
  <1>2. CASE Connect(c)
    <2>1. {d \in Conns : peer[d] # "away"}' = {d \in Conns : peer[d] # "away"} \cup {c}
      BY <1>2 DEF Connect, LoopInv, TypeOK
    <2>2. Serial!Arrive(c)
      BY <1>1, <1>2, <2>1 DEF Connect, Serial!Arrive
    <2> QED
      BY <2>2 DEF Serial!Next
  <1>3. CASE SendUnit(c) \/ StopReading(c) \/ ClientClose(c) \/ ClientReset(c)
    <2>1. {d \in Conns : peer[d] # "away"}' = {d \in Conns : peer[d] # "away"}
      BY <1>3 DEF SendUnit, StopReading, ClientClose, ClientReset, LoopInv, TypeOK
    <2>2. UNCHANGED <<queue, pc, cur>>
      BY <1>3 DEF SendUnit, StopReading, ClientClose, ClientReset
    <2> QED
      BY <1>1, <2>1, <2>2 DEF Serial!vars
  <1> QED
    BY <1>2, <1>3 DEF Client

\* A step of the loop begins a service, ends one, ends the process, or is
\* nothing the service tells apart.
LEMMA ServerRefines ==
    ASSUME LoopInv, LoopInv', Server
    PROVE  Serial!Next \/ UNCHANGED Serial!vars
  <1> DEFINE arrivals == {d \in Conns : peer[d] # "away"}
             ends == [d \in Conns |-> IF Ended(d) THEN outcome[d] ELSE None]
  <1>1. UNCHANGED <<peer, arrivals>>
    BY DEF Server, Accept, ReadHeaders, DropConnection, StartBody, ReadBody,
           ReadBodyFails, HandleRequest, SendResponse, Close, Terminate, Goto, client
  <1>2. UNCHANGED outcome => UNCHANGED ends
    BY SameEndings DEF LoopInv
  <1>3. pc # "accept" => cur \in Conns /\ cur # None
    BY ConnsAssumption DEF LoopInv, TypeOK, Stage
  <1>4. CASE Accept
    <2>1. Serial!Begin
      BY <1>1, <1>2, <1>4 DEF Accept, LoopInv, Stage, Serial!Begin
    <2> QED
      BY <2>1 DEF Serial!Next
  <1>5. CASE pc' = "dead"
    <2>1. /\ pc \in {"length", "body", "handle", "send"}
          /\ UNCHANGED <<outcome, queue, cur>>
      BY <1>5 DEF Server, Accept, ReadHeaders, DropConnection, StartBody, ReadBody,
           ReadBodyFails, HandleRequest, SendResponse, Close, Terminate, Goto
    <2>2. Serial!Halt
      BY <1>1, <1>2, <1>3, <1>5, <2>1 DEF Serial!Halt
    <2> QED
      BY <2>2 DEF Serial!Next
  <1>6. CASE /\ pc' # "dead"
             /\ ReadHeaders \/ StartBody \/ ReadBody \/ ReadBodyFails \/ Close
    <2>1. UNCHANGED <<outcome, queue>> /\ pc # "dead"
      BY <1>6 DEF ReadHeaders, StartBody, ReadBody, ReadBodyFails, Close,
                  Terminate, Goto
    <2>2. UNCHANGED (IF pc = "close" THEN None ELSE cur)
      BY <1>6 DEF ReadHeaders, StartBody, ReadBody, ReadBodyFails, Close,
                  Terminate, Goto
    <2> QED
      BY <1>1, <1>2, <1>6, <2>1, <2>2 DEF Serial!vars
  <1>7. CASE HandleRequest /\ pc' # "dead"
    <2>1. /\ pc = "handle" /\ pc' = "send" /\ UNCHANGED <<queue, cur>>
          /\ outcome' = [outcome EXCEPT ![cur] = "handled"]
      BY <1>7 DEF HandleRequest, Terminate, Goto
    <2>2. outcome[cur] = "none"
      BY <2>1 DEF LoopInv, Stage
    <2>3. UNCHANGED ends
      BY <1>3, <2>1, <2>2 DEF LoopInv, TypeOK, Ended
    <2> QED
      BY <1>1, <2>1, <2>3 DEF Serial!vars
  <1>8. CASE DropConnection \/ (SendResponse /\ pc' # "dead")
    <2>1. PICK how \in {"dropped", "answered", "lost"} :
             outcome' = [outcome EXCEPT ![cur] = how]
      BY <1>8 DEF DropConnection, SendResponse, Terminate, Goto
    <2>2. /\ pc \in {"headers", "send"} /\ pc' \in {"accept", "close"}
          /\ pc' = "accept" => cur' = None
          /\ UNCHANGED queue
      BY <1>8 DEF DropConnection, SendResponse, Terminate, Goto
    <2>3. ~Ended(cur)
      BY <2>2 DEF LoopInv, Stage, Ended
    <2>4. ends' = [ends EXCEPT ![cur] = how]
      BY <1>3, <2>1, <2>2 DEF LoopInv, TypeOK, Ended
    <2>5. Serial!End(how)
      BY <1>1, <1>3, <2>2, <2>3, <2>4 DEF Serial!End
    <2> QED
      BY <2>5 DEF Serial!Next
  <1> QED
    BY <1>4, <1>5, <1>6, <1>7, <1>8 DEF Server

\* The accept loop serves its connections one at a time, in order of arrival,
\* and ends each of them once: it implements SerialService.
THEOREM ServesInOrderHolds == Spec => ServesInOrder
  <1>1. LoopInv /\ LoopInv' /\ [Next]_vars => [Serial!Next]_(Serial!vars)
    <2> SUFFICES ASSUME LoopInv, LoopInv', [Next]_vars
                 PROVE  Serial!Next \/ UNCHANGED Serial!vars
      OBVIOUS
    <2>1. CASE UNCHANGED vars
      BY <2>1, SameEndings DEF LoopInv, vars, client, Serial!vars
    <2> QED
      BY <2>1, ClientRefines, ServerRefines DEF Next
  <1> QED
    BY <1>1, InitRefines, LoopInvariant, PTL DEF Spec, ServesInOrder, Serial!Spec
=============================================================================
