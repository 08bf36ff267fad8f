--------------------------- MODULE SessionService ---------------------------
(***************************************************************************)
(* What the session table promises to the pages that rely on it, without   *)
(* clocks: an id is out, or it stands for the user who logged in with it   *)
(* and is either usable or lapsed. Time lapses sessions and, being set     *)
(* back, may return them, but never one that was turned away; and only a   *)
(* login brings an id in.                                                  *)
(***************************************************************************)
CONSTANTS Ids, Users, Out

VARIABLE session    \* id -> [user, usable], or Out

Init == session = [id \in Ids |-> Out]

Usable(id) == session[id] # Out /\ session[id].usable

Login(id, user) ==
    /\ session[id] = Out
    /\ session' = [session EXCEPT ![id] = [user |-> user, usable |-> TRUE]]

\* A request with the id is turned away, and the id is out from then on.
TurnAway(id) ==
    /\ ~Usable(id)
    /\ session' = [session EXCEPT ![id] = Out]

\* The clock or the TTL moves: of the ids that are in, those of the set in are
\* usable afterwards.
Drift(in) ==
    session' = [id \in Ids |->
                   IF session[id] = Out THEN Out
                   ELSE [user |-> session[id].user, usable |-> id \in in]]

Next ==
    \/ \E id \in Ids, user \in Users : Login(id, user)
    \/ \E id \in Ids : TurnAway(id)
    \/ \E in \in SUBSET Ids : Drift(in)

Spec == Init /\ [][Next]_session
=============================================================================
