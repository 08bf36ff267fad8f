------------------------------- MODULE Router -------------------------------
(***************************************************************************)
(* Router of src/router/router.cpp: the handler of a path. A path is the   *)
(* sequence of its segments, "/" the one empty segment; the query is cut   *)
(* off before. A dynamic route is a path in which Param stands for a       *)
(* parameter, <name> in the code.                                          *)
(***************************************************************************)
EXTENDS Naturals, Sequences, FiniteSetsExt

CONSTANTS
    Static,     \* the paths of the static routes
    Dynamic,    \* the patterns of the dynamic routes, in order of registration
    Param

Missing == <<"404">>

\* The regular expression a pattern becomes: "([^/]+)" for a parameter.
Matches(path, pattern) ==
    /\ Len(path) = Len(pattern)
    /\ \A i \in DOMAIN path : IF pattern[i] = Param THEN path[i] # "" ELSE path[i] = pattern[i]

\* Which parameter of the pattern stands at position i.
ParamAt(pattern, i) == Cardinality({j \in 1..i : pattern[j] = Param})

pathParams(path, pattern) ==
    [n \in 1..ParamAt(pattern, Len(pattern)) |->
        path[CHOOSE i \in DOMAIN pattern : pattern[i] = Param /\ ParamAt(pattern, i) = n]]

handleDynamicRoute(path) ==
    LET hits == {i \in DOMAIN Dynamic : Matches(path, Dynamic[i])}
    IN IF hits = {} THEN [handler |-> Missing, params |-> <<>>]
       ELSE [handler |-> Dynamic[Min(hits)], params |-> pathParams(path, Dynamic[Min(hits)])]

DynamicFirst(path) ==
    LET found == handleDynamicRoute(path) IN
    IF found.handler = Missing /\ path \in Static THEN [handler |-> path, params |-> <<>>] ELSE found

handleRequest(path) ==
    IF path \in Static THEN [handler |-> path, params |-> <<>>] ELSE handleDynamicRoute(path)

\* The path a page writes for a handler: its route, with the parameters in it.
Link(handler, params) ==
    [i \in DOMAIN handler |->
        IF handler[i] # Param THEN handler[i]
        ELSE params[ParamAt(handler, i)]]
=============================================================================
