----------------------------- MODULE Catalogue -----------------------------
(***************************************************************************)
(* What the store of articles promises those who read it (the public       *)
(* pages, the admin's main page, the editor), without the handlers: rows   *)
(* that come, change and go one at a time, and links that come and go one  *)
(* article at a time. An id is given out once, a slug names one article,   *)
(* an edit keeps the slug and the views, and a link belongs to a row.      *)
(***************************************************************************)
EXTENDS Naturals

CONSTANTS
    Ids, Slugs, Titles, Statuses, Kinds, Names,
    Empty,   \* the title no edit leaves behind
    NoRow    \* there is no article with the id

VARIABLES
    rows,    \* id -> [slug, title, status, views] or NoRow
    next,    \* the id the next article gets
    links    \* kind -> <<article id, name>> pairs

catalogue == <<rows, next, links>>

Init ==
    /\ rows = [id \in Ids |-> NoRow]
    /\ next = 1
    /\ links = [k \in Kinds |-> {}]

There == {id \in Ids : rows[id] # NoRow}

New(slug, title, status) ==
    /\ next \in Ids \ There
    /\ \A id \in There : rows[id].slug # slug
    /\ \A k \in Kinds : \A l \in links[k] : l[1] # next
    /\ rows' = [rows EXCEPT ![next] =
                  [slug |-> slug, title |-> title, status |-> status, views |-> 0]]
    /\ next' = next + 1
    /\ UNCHANGED links

Revise(id, title, status) ==
    /\ id \in There /\ title # Empty
    /\ rows' = [rows EXCEPT ![id].title = title, ![id].status = status]
    /\ UNCHANGED <<next, links>>

Restate(id, status) ==
    /\ id \in There /\ status # "draft"
    /\ rows' = [rows EXCEPT ![id].status = status]
    /\ UNCHANGED <<next, links>>

Withdraw(id) ==
    /\ id \in There
    /\ rows' = [rows EXCEPT ![id] = NoRow]
    /\ links' = [k \in Kinds |-> {l \in links[k] : l[1] # id}]
    /\ UNCHANGED next

View(id) ==
    /\ id \in There
    /\ rows' = [rows EXCEPT ![id].views = @ + 1]
    /\ UNCHANGED <<next, links>>

Attach(id, k, name) ==
    /\ id \in There /\ <<id, name>> \notin links[k]
    /\ links' = [links EXCEPT ![k] = @ \cup {<<id, name>>}]
    /\ UNCHANGED <<rows, next>>

Detach(id, k, gone) ==
    /\ id \in There
    /\ links' = [links EXCEPT ![k] = @ \ ({id} \X gone)]
    /\ UNCHANGED <<rows, next>>

Next ==
    \/ \E slug \in Slugs, title \in Titles, status \in Statuses : New(slug, title, status)
    \/ \E id \in Ids :
          \/ \E title \in Titles, status \in Statuses : Revise(id, title, status)
          \/ \E status \in Statuses : Restate(id, status)
          \/ Withdraw(id)
          \/ View(id)
    \/ \E id \in Ids, k \in Kinds :
          \/ \E name \in Names : Attach(id, k, name)
          \/ \E gone \in SUBSET Names : Detach(id, k, gone)

Spec == Init /\ [][Next]_catalogue
=============================================================================
