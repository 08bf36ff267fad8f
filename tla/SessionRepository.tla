------------------------- MODULE SessionRepository -------------------------
(***************************************************************************)
(* The in-memory session table (include/session_repository.h) and the one  *)
(* way the admin handlers use it: isSessionOk(request), which is           *)
(* isSessionValid followed by extendSessionTime, and then, in the handlers *)
(* that need the user, getSessionData on the same id.                      *)
(*                                                                         *)
(* Requests are served one at a time, so between the check and the read of *)
(* one request no other request touches the table; the system clock does   *)
(* move, and being system_clock it may also be set back.                   *)
(***************************************************************************)
EXTENDS Integers

CONSTANTS
    SessionIds,   \* the ids generateSessionID can draw
    UserData,     \* what a login stores: the user's id, as text
    TTLs,         \* the values setSessionTTL is called with
    DefaultTTL,   \* the initial sessionTTL
    MaxTime,      \* bound on the clock
    Colliding,    \* ids the generator may draw while they are in the table
    Absent,       \* no entry in the table
    NoId,         \* no request is between its check and its end
    Never         \* the id was not accepted since it was last rejected

ASSUME TTLAssumption == TTLs \subseteq Nat \ {0} /\ DefaultTTL \in TTLs
ASSUME TimeAssumption == MaxTime \in Nat
ASSUME CollidingAssumption == Colliding \subseteq SessionIds
ASSUME MarkerAssumption ==
    /\ NoId \notin SessionIds
    /\ Absent \notin UserData
    /\ Absent \notin [userData : UserData, creationTime : Nat]
    /\ Absent \notin [user : UserData, usable : BOOLEAN]
    /\ Never \notin Nat \cup UserData \cup {Absent}

VARIABLES
    sessions,     \* id -> [userData, creationTime] or Absent
    sessionTTL,
    now,          \* system_clock::now(), in seconds
    guarded,      \* the id whose isSessionOk answered true in this request
    answer,       \* what the last getSessionData returned; Absent: it threw
    lastOk,       \* history: when the id was last handed out or accepted
    loginAs,      \* history: the user data of the login that got the id
    rejected      \* history: ids rejected since they were handed out

table == <<sessions, sessionTTL>>
history == <<lastOk, loginAs, rejected>>
vars == <<sessions, sessionTTL, now, guarded, answer, lastOk, loginAs, rejected>>

Time == 0..MaxTime
Session == [userData : UserData, creationTime : Time]

Present(id) == sessions[id] # Absent

TypeOK ==
    /\ sessions \in [SessionIds -> Session \cup {Absent}]
    /\ sessionTTL \in TTLs
    /\ now \in Time
    /\ guarded \in SessionIds \cup {NoId}
    /\ answer \in UserData \cup {Absent, Never}
    /\ lastOk \in [SessionIds -> Time \cup {Never}]
    /\ loginAs \in [SessionIds -> UserData \cup {Never}]
    /\ rejected \in SUBSET SessionIds

Init ==
    /\ sessions = [id \in SessionIds |-> Absent]
    /\ sessionTTL = DefaultTTL
    /\ now = 0
    /\ guarded = NoId
    /\ answer = Never
    /\ lastOk = [id \in SessionIds |-> Never]
    /\ loginAs = [id \in SessionIds |-> Never]
    /\ rejected = {}

-----------------------------------------------------------------------------
\* What isSessionValid decides. The truncation of duration_cast to whole
\* seconds does not matter: a positive TTL is reached at the same instant.
SeesExpired(id) == now - sessions[id].creationTime >= sessionTTL

Valid(id) == Present(id) /\ ~SeesExpired(id)

InsertOverwriting(id, data) ==
    [sessions EXCEPT ![id] = [userData |-> data, creationTime |-> now]]

\* unordered_map::insert: an entry that is already there stays as it is.
Insert(id, data) ==
    IF Present(id) THEN sessions
    ELSE [sessions EXCEPT ![id] = [userData |-> data, creationTime |-> now]]

EraseNothing(id) == sessions

Erase(id) == [sessions EXCEPT ![id] = Absent]

ExtendNothing(id) == sessions

ExtendToDeadline(id) == [sessions EXCEPT ![id].creationTime = now + sessionTTL]

\* extendSessionTime: the entry's creation time becomes the present.
Extended(id) == [sessions EXCEPT ![id].creationTime = now]

DataOfUnexpired(id) == IF Valid(id) THEN sessions[id].userData ELSE Absent

\* getSessionData: the user data, or an exception; the TTL is not looked at.
DataOf(id) == IF Present(id) THEN sessions[id].userData ELSE Absent

-----------------------------------------------------------------------------
Tick ==
    /\ now < MaxTime
    /\ now' = now + 1
    /\ UNCHANGED <<sessions, sessionTTL, guarded, answer, lastOk, loginAs, rejected>>

\* system_clock is not steady: an adjustment may put it back.
ClockSetBack ==
    /\ now > 0
    /\ now' = now - 1
    /\ UNCHANGED <<sessions, sessionTTL, guarded, answer, lastOk, loginAs, rejected>>

\* The tail of the login handler: createSessionID(userdata), id to the browser.
CreateSessionID(id, data) ==
    /\ guarded = NoId
    /\ id \notin Colliding => ~Present(id)
    /\ sessions' = Insert(id, data)
    /\ lastOk' = [lastOk EXCEPT ![id] = now]
    /\ loginAs' = [loginAs EXCEPT ![id] = data]
    /\ rejected' = rejected \ {id}
    /\ UNCHANGED <<sessionTTL, now, guarded, answer>>

\* isSessionOk on a session that is in the table and not idle for too long.
AcceptSession(id) ==
    /\ guarded = NoId
    /\ Valid(id)
    /\ sessions' = Extended(id)
    /\ guarded' = id
    /\ lastOk' = [lastOk EXCEPT ![id] = now]
    /\ UNCHANGED <<sessionTTL, now, answer, loginAs, rejected>>

\* isSessionOk on an unknown id, or on an expired one, which is erased.
RejectSession(id) ==
    /\ guarded = NoId
    /\ ~Valid(id)
    /\ sessions' = Erase(id)
    /\ lastOk' = [lastOk EXCEPT ![id] = Never]
    /\ rejected' = rejected \cup {id}
    /\ UNCHANGED <<sessionTTL, now, guarded, answer, loginAs>>

\* The handler reads the session it has just checked.
GetSessionData ==
    /\ guarded # NoId
    /\ answer' = DataOf(guarded)
    /\ guarded' = NoId
    /\ UNCHANGED <<sessions, sessionTTL, now, lastOk, loginAs, rejected>>

\* A handler that only needed the check (the login page, the getters).
EndRequest ==
    /\ guarded # NoId
    /\ guarded' = NoId
    /\ UNCHANGED <<sessions, sessionTTL, now, answer, lastOk, loginAs, rejected>>

SetSessionTTL(ttl) ==
    /\ guarded = NoId
    /\ sessionTTL' = ttl
    /\ UNCHANGED <<sessions, now, guarded, answer, lastOk, loginAs, rejected>>

Next ==
    \/ Tick
    \/ ClockSetBack
    \/ \E id \in SessionIds, data \in UserData : CreateSessionID(id, data)
    \/ \E id \in SessionIds : AcceptSession(id)
    \/ \E id \in SessionIds : RejectSession(id)
    \/ GetSessionData
    \/ EndRequest
    \/ \E ttl \in TTLs : SetSessionTTL(ttl)

Spec == Init /\ [][Next]_vars

-----------------------------------------------------------------------------
\* A session lives exactly as long as it is used: a request would be accepted
\* now if and only if the id was handed out or accepted less than sessionTTL
\* seconds ago and was not turned away since (isSessionValid together with
\* extendSessionTime). An id drawn again while it is in the table does not
\* count: its login is not written down.
SlidingExpiry ==
    \A id \in SessionIds \ Colliding :
        Valid(id) <=> lastOk[id] # Never /\ now - lastOk[id] < sessionTTL

\* An id that was turned away stays turned away until a login hands it out
\* again, even when the clock is set back or the TTL is raised: isSessionValid
\* erases what it rejects.
RejectedForGood == \A id \in rejected : ~Valid(id)

\* The exception of getSessionData, which no handler catches, is never thrown
\* after isSessionOk answered true, however the clock moved in between, and
\* the data read is that of the login the id was handed out by.
GuardedReadSucceeds ==
    /\ answer # Absent
    /\ guarded \notin Colliding \cup {NoId} => DataOf(guarded) = loginAs[guarded]

\* While an id stays in the table its user never changes: neither a login that
\* draws the same id nor an extension touches userData.
UserDataStable ==
    [][\A id \in SessionIds :
          sessions[id] # Absent /\ sessions'[id] # Absent
             => sessions'[id].userData = sessions[id].userData]_vars

\* What the pages see of an entry: its user and whether it would be accepted.
SessionSeen ==
    [id \in SessionIds |->
        IF Present(id) THEN [user |-> sessions[id].userData, usable |-> Valid(id)] ELSE Absent]

Service == INSTANCE SessionService
           WITH Ids <- SessionIds, Users <- UserData, Out <- Absent, session <- SessionSeen

\* The table implements the service the pages rely on: a session comes in only
\* by a login and as the one who logged in, what a request does to one id
\* leaves the others alone, and what was turned away comes back no other way.
ServesSessions == Service!Spec
=============================================================================
