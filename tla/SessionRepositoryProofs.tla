---------------------- MODULE SessionRepositoryProofs ----------------------
(***************************************************************************)
(* Theorems of SessionRepository, for every set of ids, users and TTLs.    *)
(* One inductive invariant ties the table to the three histories; the     *)
(* safety properties follow from it.                                       *)
(***************************************************************************)
EXTENDS SessionRepository, TLAPS

\* The table holds exactly the ids that were accepted and not turned away,
\* each with the time of its last acceptance as creation time.
TableMatchesHistory ==
    \A id \in SessionIds :
        /\ lastOk[id] = Never <=> sessions[id] = Absent
        /\ sessions[id] # Absent /\ id \notin Colliding =>
              /\ sessions[id].creationTime = lastOk[id]
              /\ sessions[id].userData = loginAs[id]

GuardedIsPresent == guarded # NoId => sessions[guarded] # Absent

RejectedIsAbsent == \A id \in rejected : sessions[id] = Absent

IInv ==
    /\ TypeOK
    /\ TableMatchesHistory
    /\ GuardedIsPresent
    /\ RejectedIsAbsent
    /\ answer # Absent

-----------------------------------------------------------------------------
\* The record type of a table entry is not the marker for a missing entry.
LEMMA PresentIsSession ==
    ASSUME TypeOK, NEW id \in SessionIds, sessions[id] # Absent
    PROVE  sessions[id] \in Session
  BY DEF TypeOK

\* Every operation keeps the variables in their sets: the table keeps only
\* records whose times the clock has shown.
THEOREM TypeCorrect == Spec => []TypeOK
  <1>1. Init => TypeOK
    BY TTLAssumption, TimeAssumption DEF Init, TypeOK, Time
  <1>2. TypeOK /\ [Next]_vars => TypeOK'
    <2> SUFFICES ASSUME TypeOK, [Next]_vars
                 PROVE  TypeOK'
      OBVIOUS
    <2> USE DEF TypeOK
    <2>1. CASE Tick
      BY <2>1, TimeAssumption DEF Tick, Time
    <2>2. CASE ClockSetBack
      BY <2>2, TimeAssumption DEF ClockSetBack, Time
    <2>3. ASSUME NEW id \in SessionIds, NEW data \in UserData, CreateSessionID(id, data)
          PROVE  TypeOK'
      <3>1. [userData |-> data, creationTime |-> now] \in Session
        BY DEF Session
      <3>2. sessions' \in [SessionIds -> Session \cup {Absent}]
        BY <2>3, <3>1 DEF CreateSessionID, Insert
      <3> QED
        BY <2>3, <3>2 DEF CreateSessionID
    <2>4. ASSUME NEW id \in SessionIds, AcceptSession(id)
          PROVE  TypeOK'
      <3>1. sessions[id] \in Session
        BY <2>4, PresentIsSession DEF AcceptSession, Valid, Present
      <3>2. [sessions[id] EXCEPT !.creationTime = now] \in Session
        BY <3>1 DEF Session
      <3>3. sessions' \in [SessionIds -> Session \cup {Absent}]
        BY <2>4, <3>2 DEF AcceptSession, Extended
      <3> QED
        BY <2>4, <3>3 DEF AcceptSession
    <2>5. ASSUME NEW id \in SessionIds, RejectSession(id)
          PROVE  TypeOK'
      BY <2>5 DEF RejectSession, Erase
    <2>6. CASE GetSessionData
      <3>1. DataOf(guarded) \in UserData \cup {Absent}
        BY <2>6, PresentIsSession DEF GetSessionData, DataOf, Present, Session
      <3> QED
        BY <2>6, <3>1 DEF GetSessionData
    <2>7. CASE EndRequest
      BY <2>7 DEF EndRequest
    <2>8. ASSUME NEW ttl \in TTLs, SetSessionTTL(ttl)
          PROVE  TypeOK'
      BY <2>8 DEF SetSessionTTL
    <2>9. CASE UNCHANGED vars
      BY <2>9 DEF vars
    <2> QED
      BY <2>1, <2>2, <2>3, <2>4, <2>5, <2>6, <2>7, <2>8, <2>9 DEF Next
  <1> QED
    BY <1>1, <1>2, PTL DEF Spec

-----------------------------------------------------------------------------
\* A record is not the marker for a missing entry.
LEMMA SessionIsPresent ==
    ASSUME NEW s \in Session PROVE s # Absent
  BY MarkerAssumption, TimeAssumption DEF Session, Time

LEMMA InitIInv == Init => IInv
  BY TTLAssumption, TimeAssumption, MarkerAssumption
  DEF Init, IInv, TypeOK, Time, TableMatchesHistory, GuardedIsPresent, RejectedIsAbsent

\* The step that hands out an id: unless the id is in the table it makes an entry.
LEMMA CreateKeepsIInv ==
    ASSUME IInv, TypeOK', NEW id \in SessionIds, NEW data \in UserData,
           CreateSessionID(id, data)
    PROVE  IInv'
  <1>1. [userData |-> data, creationTime |-> now] \in Session
    BY DEF IInv, TypeOK, Session
  <1> DEFINE new == [userData |-> data, creationTime |-> now]
  <1>2. /\ sessions' = IF sessions[id] = Absent THEN [sessions EXCEPT ![id] = new]
                       ELSE sessions
        /\ sessions[id] # Absent => id \in Colliding
        /\ new # Absent
        /\ now # Never
    BY <1>1, SessionIsPresent, MarkerAssumption, TimeAssumption
    DEF CreateSessionID, Insert, Present, IInv, TypeOK, Time
  <1>3. /\ new.creationTime = now
        /\ new.userData = data
    OBVIOUS
  <1> HIDE DEF new
  <1>4. TableMatchesHistory'
    BY <1>2, <1>3 DEF CreateSessionID, IInv, TypeOK, TableMatchesHistory
  <1>5. GuardedIsPresent' /\ RejectedIsAbsent' /\ (answer # Absent)'
    BY <1>2 DEF CreateSessionID, IInv, TypeOK, GuardedIsPresent, RejectedIsAbsent
  <1> QED
    BY <1>4, <1>5 DEF IInv

LEMMA AcceptKeepsIInv ==
    ASSUME IInv, TypeOK', NEW id \in SessionIds, AcceptSession(id)
    PROVE  IInv'
  <1> DEFINE new == [sessions[id] EXCEPT !.creationTime = now]
  <1>1. /\ sessions[id] \in Session
        /\ sessions[id] # Absent
    BY PresentIsSession DEF AcceptSession, Valid, Present, IInv
  <1>2. /\ new \in Session
        /\ new.creationTime = now
        /\ new.userData = sessions[id].userData
    BY <1>1 DEF Session, IInv, TypeOK
  <1>3. /\ sessions' = [sessions EXCEPT ![id] = new]
        /\ now # Never
    BY MarkerAssumption, TimeAssumption DEF AcceptSession, Extended, IInv, TypeOK, Time
  <1>4. new # Absent
    BY <1>2, SessionIsPresent
  <1> HIDE DEF new
  <1>5. TableMatchesHistory'
    BY <1>1, <1>2, <1>3, <1>4 DEF AcceptSession, IInv, TypeOK, TableMatchesHistory
  <1>6. GuardedIsPresent' /\ RejectedIsAbsent' /\ (answer # Absent)'
    BY <1>1, <1>3, <1>4 DEF AcceptSession, IInv, TypeOK, GuardedIsPresent, RejectedIsAbsent
  <1> QED
    BY <1>5, <1>6 DEF IInv

LEMMA RejectKeepsIInv ==
    ASSUME IInv, TypeOK', NEW id \in SessionIds, RejectSession(id)
    PROVE  IInv'
  BY DEF RejectSession, Erase, IInv, TypeOK, TableMatchesHistory,
         GuardedIsPresent, RejectedIsAbsent

LEMMA GetDataKeepsIInv ==
    ASSUME IInv, TypeOK', GetSessionData
    PROVE  IInv'
  <1>1. sessions[guarded] \in Session /\ guarded \in SessionIds
    BY PresentIsSession DEF GetSessionData, IInv, TypeOK, GuardedIsPresent
  <1>2. answer' \in UserData
    BY <1>1, SessionIsPresent DEF GetSessionData, DataOf, Present, Session
  <1> QED
    BY <1>2, MarkerAssumption
    DEF GetSessionData, IInv, TableMatchesHistory, GuardedIsPresent, RejectedIsAbsent

LEMMA InvariantInductive == Spec => []IInv
  <1>1. IInv /\ TypeOK' /\ [Next]_vars => IInv'
    <2> SUFFICES ASSUME IInv, TypeOK', [Next]_vars
                 PROVE  IInv'
      OBVIOUS
    <2>1. CASE Tick \/ ClockSetBack \/ EndRequest
      BY <2>1 DEF Tick, ClockSetBack, EndRequest, IInv,
                  TableMatchesHistory, GuardedIsPresent, RejectedIsAbsent
    <2>2. ASSUME NEW id \in SessionIds, NEW data \in UserData, CreateSessionID(id, data)
          PROVE  IInv'
      BY <2>2, CreateKeepsIInv
    <2>3. ASSUME NEW id \in SessionIds, AcceptSession(id)
          PROVE  IInv'
      BY <2>3, AcceptKeepsIInv
    <2>4. ASSUME NEW id \in SessionIds, RejectSession(id)
          PROVE  IInv'
      BY <2>4, RejectKeepsIInv
    <2>5. CASE GetSessionData
      BY <2>5, GetDataKeepsIInv
    <2>6. ASSUME NEW ttl \in TTLs, SetSessionTTL(ttl)
          PROVE  IInv'
      BY <2>6 DEF SetSessionTTL, IInv, TableMatchesHistory, GuardedIsPresent, RejectedIsAbsent
    <2>7. CASE UNCHANGED vars
      BY <2>7 DEF vars, IInv, TableMatchesHistory, GuardedIsPresent, RejectedIsAbsent
    <2> QED
      BY <2>1, <2>2, <2>3, <2>4, <2>5, <2>6, <2>7 DEF Next
  <1> QED
    BY InitIInv, TypeCorrect, <1>1, PTL DEF Spec

\* Sliding expiry: a request is accepted exactly when its id, never drawn twice,
\* was used less than sessionTTL seconds ago (isSessionValid, extendSessionTime).
THEOREM SlidingExpiryHolds == Spec => []SlidingExpiry
  <1>1. IInv => SlidingExpiry
    <2> SUFFICES ASSUME IInv, NEW id \in SessionIds \ Colliding
                 PROVE  Valid(id) <=> lastOk[id] # Never /\ now - lastOk[id] < sessionTTL
      BY DEF SlidingExpiry
    <2>1. CASE sessions[id] = Absent
      BY <2>1 DEF IInv, TableMatchesHistory, Valid, Present
    <2>2. CASE sessions[id] # Absent
      <3>1. /\ lastOk[id] # Never
            /\ sessions[id].creationTime = lastOk[id]
            /\ lastOk[id] \in Int /\ now \in Int /\ sessionTTL \in Int
        BY <2>2, TTLAssumption, TimeAssumption DEF IInv, TypeOK, TableMatchesHistory, Time
      <3> QED
        BY <2>2, <3>1 DEF Valid, Present, SeesExpired
    <2> QED
      BY <2>1, <2>2
  <1> QED
    BY <1>1, InvariantInductive, PTL

\* What isSessionValid turned away stays turned away until the next login.
THEOREM RejectedForGoodHolds == Spec => []RejectedForGood
  <1>1. IInv => RejectedForGood
    BY DEF IInv, RejectedIsAbsent, RejectedForGood, Valid, Present
  <1> QED
    BY <1>1, InvariantInductive, PTL

\* After isSessionOk answered true, getSessionData of the same request returns
\* the data of the login and never throws.
THEOREM GuardedReadHolds == Spec => []GuardedReadSucceeds
  <1>1. IInv => GuardedReadSucceeds
    BY DEF IInv, TypeOK, TableMatchesHistory, GuardedIsPresent, GuardedReadSucceeds,
           DataOf, Present
  <1> QED
    BY <1>1, InvariantInductive, PTL

\* No operation changes the user of an entry that stays in the table, even
\* when the generator draws an id a second time (insert keeps the old entry).
THEOREM UserDataStableHolds == Spec => UserDataStable
  <1> DEFINE Stable ==
        \A id \in SessionIds :
          sessions[id] # Absent /\ sessions'[id] # Absent
            => sessions'[id].userData = sessions[id].userData
  <1>1. TypeOK /\ [Next]_vars => [Stable]_vars
    <2> SUFFICES ASSUME TypeOK, Next, NEW x \in SessionIds,
                        sessions[x] # Absent, sessions'[x] # Absent
                 PROVE  sessions'[x].userData = sessions[x].userData
      OBVIOUS
    <2>1. ASSUME NEW id \in SessionIds, NEW data \in UserData, CreateSessionID(id, data)
          PROVE  sessions'[x].userData = sessions[x].userData
      BY <2>1 DEF CreateSessionID, Insert, Present, TypeOK
    <2>2. ASSUME NEW id \in SessionIds, AcceptSession(id)
          PROVE  sessions'[x].userData = sessions[x].userData
      <3>1. sessions[x] \in Session
        BY PresentIsSession
      <3>2. [sessions[x] EXCEPT !.creationTime = now].userData = sessions[x].userData
        BY <3>1 DEF Session
      <3> QED
        BY <2>2, <3>2 DEF AcceptSession, Extended, TypeOK
    <2>3. ASSUME NEW id \in SessionIds, RejectSession(id)
          PROVE  sessions'[x].userData = sessions[x].userData
      BY <2>3 DEF RejectSession, Erase, TypeOK
    <2>4. CASE Tick \/ ClockSetBack \/ GetSessionData \/ EndRequest
      BY <2>4 DEF Tick, ClockSetBack, GetSessionData, EndRequest
    <2>5. ASSUME NEW ttl \in TTLs, SetSessionTTL(ttl)
          PROVE  sessions'[x].userData = sessions[x].userData
      BY <2>5 DEF SetSessionTTL
    <2> QED
      BY <2>1, <2>2, <2>3, <2>4, <2>5 DEF Next
  <1> QED
    BY <1>1, TypeCorrect, PTL DEF Spec, UserDataStable

-----------------------------------------------------------------------------
\* What the pages see of one id, and that it is never mistaken for no entry.
LEMMA SeenOfId ==
    ASSUME TypeOK, NEW id \in SessionIds
    PROVE  /\ sessions[id] = Absent => SessionSeen[id] = Absent
           /\ sessions[id] # Absent =>
                 /\ SessionSeen[id] = [user |-> sessions[id].userData, usable |-> Valid(id)]
                 /\ SessionSeen[id] # Absent
                 /\ SessionSeen[id].user = sessions[id].userData
                 /\ SessionSeen[id].usable = Valid(id)
  <1>1. CASE sessions[id] # Absent
    <2> DEFINE seen == [user |-> sessions[id].userData, usable |-> Valid(id)]
    <2>1. sessions[id].userData \in UserData
      BY <1>1, PresentIsSession DEF Session
    <2>2. Valid(id) \in BOOLEAN
      BY DEF Valid, Present, SeesExpired
    <2>3. seen \in [user : UserData, usable : BOOLEAN]
      BY <2>1, <2>2
    <2>4. SessionSeen[id] = seen
      BY <1>1 DEF SessionSeen, Present
    <2> QED
      BY <1>1, <2>3, <2>4, MarkerAssumption
  <1>2. CASE sessions[id] = Absent
    BY <1>2 DEF SessionSeen, Present
  <1> QED
    BY <1>1, <1>2

\* A step that brings in nobody, sends away nobody and changes no user is a
\* drift, whatever it does to times.
LEMMA DriftStep ==
    ASSUME TypeOK, TypeOK',
           \A id \in SessionIds : /\ sessions'[id] = Absent <=> sessions[id] = Absent
                                  /\ sessions[id] # Absent =>
                                        sessions'[id].userData = sessions[id].userData
    PROVE  Service!Next
  <1> DEFINE in == {id \in SessionIds : Valid(id)'}
             drifted == [id \in SessionIds |->
                            IF SessionSeen[id] = Absent THEN Absent
                            ELSE [user |-> SessionSeen[id].user, usable |-> id \in in]]
  <1>1. ASSUME NEW id \in SessionIds PROVE SessionSeen'[id] = drifted[id]
    <2>1. CASE sessions[id] = Absent
      BY <2>1, SeenOfId DEF SessionSeen, Present
    <2>2. CASE sessions[id] # Absent
      <3>1. /\ SessionSeen'[id] = [user |-> sessions'[id].userData, usable |-> Valid(id)']
            /\ sessions'[id].userData = sessions[id].userData
        BY <2>2 DEF SessionSeen, Present
      <3>2. drifted[id] = [user |-> sessions[id].userData, usable |-> id \in in]
        BY <2>2, SeenOfId
      <3>3. (id \in in) = Valid(id)'
        BY DEF Valid, Present, SeesExpired
      <3> QED
        BY <3>1, <3>2, <3>3
    <2> QED
      BY <2>1, <2>2
  <1>2. SessionSeen' = drifted
    BY <1>1 DEF SessionSeen
  <1>3. Service!Drift(in)
    BY <1>2 DEF Service!Drift
  <1> QED
    BY <1>3 DEF Service!Next

LEMMA CreateIsLogin ==
    ASSUME TypeOK, TypeOK', NEW id \in SessionIds, NEW data \in UserData,
           CreateSessionID(id, data), sessions[id] = Absent
    PROVE  Service!Next
  <1>1. sessions[id] = Absent /\ now \in Int /\ sessionTTL \in Nat \ {0}
    BY TTLAssumption, TimeAssumption DEF CreateSessionID, Present, TypeOK, Time
  <1> DEFINE new == [userData |-> data, creationTime |-> now]
  <1>2. new \in Session /\ new.userData = data /\ new.creationTime = now
    BY DEF Session, TypeOK
  <1>3. new # Absent
    BY <1>2, SessionIsPresent
  <1> HIDE DEF new
  <1>4. sessions' = [sessions EXCEPT ![id] = new] /\ sessionTTL' = sessionTTL /\ now' = now
    BY <1>1 DEF CreateSessionID, Insert, Present, new
  <1>5. SessionSeen'[id] = [user |-> data, usable |-> TRUE]
    <2>1. sessions'[id] = new
      BY <1>4 DEF TypeOK
    <2>2. now' - sessions'[id].creationTime = 0
      BY <1>1, <1>2, <1>4, <2>1
    <2>3. Valid(id)'
      BY <1>1, <1>3, <1>4, <2>1, <2>2 DEF Valid, Present, SeesExpired
    <2>4. Valid(id)' = TRUE
      BY <2>3 DEF Valid, Present, SeesExpired
    <2>5. SessionSeen'[id] = [user |-> sessions'[id].userData, usable |-> Valid(id)']
      BY <1>3, <2>1 DEF SessionSeen, Present
    <2> QED
      BY <1>2, <2>1, <2>4, <2>5
  <1>6. ASSUME NEW x \in SessionIds, x # id PROVE SessionSeen'[x] = SessionSeen[x]
    BY <1>4, <1>6 DEF SessionSeen, Present, Valid, SeesExpired, TypeOK
  <1>7. SessionSeen' = [SessionSeen EXCEPT ![id] = [user |-> data, usable |-> TRUE]]
    BY <1>5, <1>6 DEF SessionSeen
  <1>8. SessionSeen[id] = Absent
    BY <1>1, SeenOfId
  <1> QED
    BY <1>7, <1>8 DEF Service!Next, Service!Login

LEMMA RejectIsTurnAway ==
    ASSUME TypeOK, NEW id \in SessionIds, RejectSession(id)
    PROVE  Service!Next
  <1>1. ~(SessionSeen[id] # Absent /\ SessionSeen[id].usable)
    BY SeenOfId DEF RejectSession, Valid, Present
  <1>2. ASSUME NEW x \in SessionIds, x # id PROVE SessionSeen'[x] = SessionSeen[x]
    BY <1>2 DEF RejectSession, Erase, SessionSeen, Present, Valid, SeesExpired, TypeOK
  <1>3. SessionSeen'[id] = Absent
    BY DEF RejectSession, Erase, SessionSeen, Present, TypeOK
  <1>4. SessionSeen' = [SessionSeen EXCEPT ![id] = Absent]
    BY <1>2, <1>3 DEF SessionSeen
  <1> QED
    BY <1>1, <1>4 DEF Service!Next, Service!TurnAway, Service!Usable

\* The session table implements SessionService: the session the pages see comes
\* in only by createSessionID, goes only by isSessionValid's erase, and one id's
\* request leaves the others as they were.
THEOREM ServesSessionsHolds == Spec => ServesSessions
  <1>1. Init => Service!Init
    BY DEF Init, Service!Init, SessionSeen, Present
  <1>2. TypeOK /\ TypeOK' /\ [Next]_vars => [Service!Next]_SessionSeen
    <2> SUFFICES ASSUME TypeOK, TypeOK', [Next]_vars
                 PROVE  Service!Next \/ UNCHANGED SessionSeen
      OBVIOUS
    <2>1. ASSUME UNCHANGED sessions PROVE Service!Next
      BY <2>1, DriftStep
    <2>2. ASSUME NEW id \in SessionIds, NEW data \in UserData, CreateSessionID(id, data)
          PROVE  Service!Next
      <3>1. CASE sessions[id] = Absent
        BY <2>2, <3>1, CreateIsLogin
      <3>2. CASE sessions[id] # Absent
        BY <2>1, <2>2, <3>2 DEF CreateSessionID, Insert, Present
      <3> QED
        BY <3>1, <3>2
    <2>3. ASSUME NEW id \in SessionIds, AcceptSession(id)
          PROVE  Service!Next
      <3> DEFINE new == [sessions[id] EXCEPT !.creationTime = now]
      <3>1. sessions[id] \in Session /\ sessions[id] # Absent
        BY <2>3, PresentIsSession DEF AcceptSession, Valid, Present
      <3>2. new \in Session /\ new.userData = sessions[id].userData
        BY <3>1 DEF Session, TypeOK
      <3>3. new # Absent
        BY <3>2, SessionIsPresent
      <3>4. sessions' = [sessions EXCEPT ![id] = new]
        BY <2>3 DEF AcceptSession, Extended
      <3> HIDE DEF new
      <3>5. \A x \in SessionIds :
              /\ sessions'[x] = Absent <=> sessions[x] = Absent
              /\ sessions[x] # Absent => sessions'[x].userData = sessions[x].userData
        BY <3>1, <3>2, <3>3, <3>4 DEF TypeOK
      <3> QED
        BY <3>5, DriftStep
    <2>4. ASSUME NEW id \in SessionIds, RejectSession(id)
          PROVE  Service!Next
      BY <2>4, RejectIsTurnAway
    <2>5. CASE Tick \/ ClockSetBack \/ GetSessionData \/ EndRequest
      BY <2>1, <2>5 DEF Tick, ClockSetBack, GetSessionData, EndRequest
    <2>6. ASSUME NEW ttl \in TTLs, SetSessionTTL(ttl)
          PROVE  Service!Next
      BY <2>1, <2>6 DEF SetSessionTTL
    <2>7. CASE UNCHANGED vars
      BY <2>1, <2>7 DEF vars
    <2> QED
      BY <2>2, <2>3, <2>4, <2>5, <2>6, <2>7 DEF Next
  <1> QED
    BY <1>1, <1>2, TypeCorrect, PTL DEF Spec, ServesSessions, Service!Spec
=============================================================================
