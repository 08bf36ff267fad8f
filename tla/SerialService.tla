--------------------------- MODULE SerialService ---------------------------
(***************************************************************************)
(* What the accept loop of HttpServer::start promises, without sockets:    *)
(* connections are taken strictly in the order of their arrival, one is    *)
(* in service at a time and it ends exactly once, or the process ends.     *)
(***************************************************************************)
EXTENDS Sequences

CONSTANTS Conns, None, Endings

VARIABLES
    arrived,    \* connections that have ever arrived
    pending,    \* those not yet taken, in order of arrival
    serving,    \* the connection in service, or None
    ending,     \* how each connection ended, or None
    down        \* the process has ended

vars == <<arrived, pending, serving, ending, down>>

Init ==
    /\ arrived = {}
    /\ pending = <<>>
    /\ serving = None
    /\ ending = [c \in Conns |-> None]
    /\ down = FALSE

Arrive(c) ==
    /\ ~down
    /\ c \notin arrived
    /\ arrived' = arrived \cup {c}
    /\ pending' = Append(pending, c)
    /\ UNCHANGED <<serving, ending, down>>

Begin ==
    /\ ~down
    /\ serving = None
    /\ pending # <<>>
    /\ serving' = Head(pending)
    /\ pending' = Tail(pending)
    /\ UNCHANGED <<arrived, ending, down>>

End(how) ==
    /\ ~down
    /\ serving # None
    /\ ending[serving] = None
    /\ ending' = [ending EXCEPT ![serving] = how]
    /\ serving' = None
    /\ UNCHANGED <<arrived, pending, down>>

Halt ==
    /\ serving # None
    /\ down' = TRUE
    /\ UNCHANGED <<arrived, pending, serving, ending>>

Next ==
    \/ \E c \in Conns : Arrive(c)
    \/ Begin
    \/ \E how \in Endings : End(how)
    \/ Halt

Spec == Init /\ [][Next]_vars
=============================================================================
