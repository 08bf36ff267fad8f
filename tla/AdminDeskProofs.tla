--------------------------- MODULE AdminDeskProofs ---------------------------
(***************************************************************************)
(* Theorems of AdminDesk, for any number of desks, users, articles, tags   *)
(* and calls under way. The inductive invariant DeskInv ties each call to  *)
(* the page that made it and each answer to what the server did. FreshInv, *)
(* for UntouchedFieldsKept alone, ties each form, and each save of it that *)
(* waits, to the row of its article.                                       *)
(***************************************************************************)
EXTENDS AdminDesk, FiniteSetTheorems, TLAPS

\* What a call is from its sending to its being heard: saves carry the form of
\* their article, calls by id name an article, and an answer stays only if
\* there is somebody to hear it and is a 200 only if the work was done, the call
\* was redirected or it found no article to work on.
CallOK(c) ==
    /\ c \in Call
    /\ c.kind = "save" => c.form \in Form /\ c.form.id = c.id
    /\ c.kind \in {"article"} \cup Buttons => c.id \in Ids
    /\ c.answer # Waiting =>
          /\ c.heard
          /\ c.answer.code = 200 /\ ~c.answer.redirected => c.answer.done \/ c.answer.missed
          /\ c.kind = "article" /\ c.answer.code = 200 => c.answer.row \in Rows

CallsOK == IsFiniteSet(calls) /\ \A c \in calls : CallOK(c)

\* Room is left for every creation under way: what Save waits for.
RoomLeft == nextId + Cardinality(CreationsUnderWay) <= MaxId + 1

\* The pages with a form, and the form each of them has.
PageHasForm(d) ==
    /\ form[d] = NoForm => page[d] \in {"login", "main"}
    /\ form[d] # NoForm =>
          \/ page[d] = "creator" /\ form[d].id = 0 /\ ~form[d].loaded
          \/ page[d] = "editor" /\ form[d].id \in Ids

\* A row has the slug its id was given at the start, which no other row has, and
\* ids not given out yet have no row.
RowHasSlug ==
    /\ \A id \in Ids : articles[id] # NoRow => id < nextId /\ articles[id].slug = everSlug[id]
    /\ \A i, j \in Existing : articles[i].slug = articles[j].slug => i = j

\* A form that was filled, an answer that will fill one and a save of one that was
\* filled have the slug of the article asked for.
FormHasSlug(d) ==
    form[d] # NoForm /\ form[d].loaded =>
        form[d].id < nextId /\ form[d].slug = everSlug[form[d].id]

CallHasSlug(c) ==
    /\ c.kind = "article" /\ c.answer # Waiting /\ c.answer.code = 200 =>
          c.id < nextId /\ c.answer.row.slug = everSlug[c.id]
    /\ c.kind = "save" /\ c.form.loaded =>
          c.id \in Ids /\ c.id < nextId /\ c.form.slug = everSlug[c.id]

\* The call for an article is heard only by the form it was made for.
CallHasForm(c) ==
    c.kind = "article" /\ c.heard => form[c.desk] # NoForm /\ form[c.desk].id = c.id

TypeInv ==
    /\ TypeOK /\ CallsOK /\ RoomLeft
    /\ \A d \in Desks : PageHasForm(d)

SlugInv ==
    /\ RowHasSlug
    /\ \A d \in Desks : FormHasSlug(d)
    /\ \A c \in calls : CallHasSlug(c) /\ CallHasForm(c)

DeskInv == TypeInv /\ SlugInv

-----------------------------------------------------------------------------
\* The pool of calls.

\* An answer to call c, which waits for it, ends c as a creation under way and
\* leaves the other calls as they are.
LEMMA Answered ==
    ASSUME TypeInv, NEW c \in calls, c.answer = Waiting, NEW a \in Answer, AnswerTo(c, a),
           a.code = 200 /\ ~a.redirected => a.done \/ a.missed,
           c.kind = "article" /\ a.code = 200 => a.row \in Rows
    PROVE  /\ CallsOK'
           /\ CreationsUnderWay' = CreationsUnderWay \ {c}
           /\ \A b \in calls' : \/ b \in calls
                                \/ b = [c EXCEPT !.answer = a] /\ b.heard
  <1> DEFINE b == [c EXCEPT !.answer = a]
  <1>1. calls' \subseteq (calls \ {c}) \cup {b}
    BY DEF AnswerTo
  <1>2. c.heard => calls' = (calls \ {c}) \cup {b}
    BY DEF AnswerTo
  <1>3. ~c.heard => calls' = calls \ {c}
    BY DEF AnswerTo
  <1>4. c \in Call /\ CallOK(c)
    BY DEF TypeInv, CallsOK, CallOK
  <1>5. /\ b \in Call /\ b.kind = c.kind /\ b.id = c.id /\ b.form = c.form
        /\ b.heard = c.heard /\ b.answer = a
    BY <1>4 DEF Call
  <1>6. a # Waiting
    BY MarkerAssumption
  <1>7. c.heard => CallOK(b)
    BY <1>4, <1>5, <1>6 DEF CallOK
  <1>8. \A x \in calls' : x \in calls \/ (x = b /\ b.heard /\ c.heard)
    BY <1>1, <1>3, <1>5
  <1>9. IsFiniteSet(calls')
    <2>1. IsFiniteSet(calls \ {c})
      BY FS_RemoveElement DEF TypeInv, CallsOK
    <2>2. IsFiniteSet((calls \ {c}) \cup {b})
      BY <2>1, FS_AddElement
    <2> QED
      BY <1>2, <1>3, <2>1, <2>2
  <1>10. CallsOK'
    <2>1. \A x \in calls' : CallOK(x)
      BY <1>7, <1>8 DEF TypeInv, CallsOK
    <2> QED
      BY <1>9, <2>1 DEF CallsOK, CallOK
  <1>11. CreationsUnderWay' = CreationsUnderWay \ {c}
    BY <1>1, <1>2, <1>3, <1>5, <1>6 DEF CreationsUnderWay
  <1> QED
    BY <1>8, <1>10, <1>11

\* Leaving a page loses no call that is under way and makes none.
LEMMA Stopped ==
    ASSUME TypeInv, NEW d \in Desks
    PROVE  /\ IsFiniteSet(StopListening(d))
           /\ \A b \in StopListening(d) : CallOK(b) /\ (b.desk = d => ~b.heard)
           /\ \A b \in StopListening(d) :
                 \/ b \in calls /\ b.desk # d
                 \/ b.desk = d /\ ~b.heard /\ b.answer = Waiting
           /\ \A b \in StopListening(d) :
                 \E c \in calls : b.kind = c.kind /\ b.id = c.id /\ b.form = c.form
           /\ LET under == {c \in StopListening(d) :
                               c.kind = "save" /\ c.id = 0 /\ c.answer = Waiting}
              IN  IsFiniteSet(under) /\ Cardinality(under) <= Cardinality(CreationsUnderWay)
  <1> DEFINE Left(c) == IF c.desk = d THEN [c EXCEPT !.heard = FALSE] ELSE c
             kept == {c \in calls : c.desk = d => c.answer = Waiting}
             under == {c \in StopListening(d) :
                          c.kind = "save" /\ c.id = 0 /\ c.answer = Waiting}
  <1>1. \A c \in calls : c \in Call /\ CallOK(c)
    BY DEF TypeInv, CallsOK, CallOK
  <1>2. StopListening(d) = {Left(c) : c \in kept}
    BY DEF StopListening
  <1>3. \A c \in kept : /\ Left(c) \in Call
                        /\ Left(c).kind = c.kind /\ Left(c).id = c.id /\ Left(c).form = c.form
                        /\ Left(c).desk = c.desk /\ Left(c).answer = c.answer
                        /\ IF c.desk = d THEN ~Left(c).heard ELSE Left(c) = c
    BY <1>1 DEF Call
  <1>4. \A c \in kept : CallOK(Left(c))
    BY <1>1, <1>3 DEF CallOK
  <1>5. IsFiniteSet(kept) /\ IsFiniteSet(CreationsUnderWay)
    BY FS_Subset DEF TypeInv, CallsOK, CreationsUnderWay
  <1> HIDE DEF Left
  <1>6. IsFiniteSet(StopListening(d))
    <2> DEFINE f == [c \in kept |-> Left(c)]
    <2>1. f \in Surjection(kept, StopListening(d))
      BY <1>2 DEF Surjection
    <2> QED
      BY <1>5, <2>1, FS_Surjection
  <1>7. IsFiniteSet(under) /\ Cardinality(under) <= Cardinality(CreationsUnderWay)
    <2> DEFINE f == [c \in CreationsUnderWay |-> Left(c)]
    <2>1. CreationsUnderWay \subseteq kept
      BY DEF CreationsUnderWay
    <2>2. under = {Left(c) : c \in CreationsUnderWay}
      BY <1>2, <1>3, <2>1 DEF CreationsUnderWay
    <2>3. f \in Surjection(CreationsUnderWay, under)
      BY <2>2 DEF Surjection
    <2> QED
      BY <1>5, <2>3, FS_Surjection
  <1>8. \A b \in StopListening(d) : CallOK(b) /\ (b.desk = d => ~b.heard)
    BY <1>2, <1>3, <1>4
  <1>9. \A b \in StopListening(d) :
           \/ b \in calls /\ b.desk # d
           \/ b.desk = d /\ ~b.heard /\ b.answer = Waiting
    BY <1>2, <1>3
  <1>10. \A b \in StopListening(d) :
            \E c \in calls : b.kind = c.kind /\ b.id = c.id /\ b.form = c.form
    BY <1>2, <1>3
  <1> QED
    BY <1>6, <1>7, <1>8, <1>9, <1>10

-----------------------------------------------------------------------------
SessionsOK == session \in [Desks -> [user : Users, usable : BOOLEAN] \cup {Out}]

\* The session service keeps its type.
LEMMA SessionType ==
    ASSUME TypeOK
    PROVE  /\ \A d \in Desks, user \in Users : S!Login(d, user) => SessionsOK'
           /\ \A d \in Desks : S!TurnAway(d) => SessionsOK'
           /\ \A in \in SUBSET Desks : S!Drift(in) => SessionsOK'
  <1> USE DEF TypeOK, SessionsOK
  <1>1. \A d \in Desks, user \in Users : S!Login(d, user) => SessionsOK'
    BY DEF S!Login
  <1>2. \A d \in Desks : S!TurnAway(d) => SessionsOK'
    BY DEF S!TurnAway
  <1>3. ASSUME NEW in \in SUBSET Desks, S!Drift(in)
        PROVE  SessionsOK'
    <2>1. \A d \in Desks : session[d] # Out => session[d].user \in Users
      OBVIOUS
    <2> QED
      BY <1>3, <2>1 DEF S!Drift
  <1> QED
    BY <1>1, <1>2, <1>3

\* A page p with form f is shown instead of the one d had; of the calls that d
\* made none is heard, but those that the new page makes.
LEMMA Navigated ==
    ASSUME DeskInv, NEW d \in Desks, NEW p \in {"login", "main", "editor", "creator"},
           NEW f \in Form \cup {NoForm}, NEW new, IsFiniteSet(new),
           \A c \in new : /\ CallOK(c) /\ c.desk = d /\ c.answer = Waiting
                          /\ c.kind \in {"tags", "article"}
                          /\ c.kind = "article" => f # NoForm /\ f.id = c.id,
           f = NoForm => p \in {"login", "main"},
           f # NoForm => /\ ~f.loaded
                         /\ \/ p = "creator" /\ f.id = 0
                            \/ p = "editor" /\ f.id \in Ids,
           Show(d, p, f), calls' = StopListening(d) \cup new, SessionsOK', made' \in [Desks -> Nat],
           UNCHANGED <<catalogue, everSlug, edits, faults>>
    PROVE  DeskInv'
  <1>1. /\ IsFiniteSet(StopListening(d))
        /\ \A b \in StopListening(d) : CallOK(b) /\ (b.desk = d => ~b.heard)
        /\ \A b \in StopListening(d) :
              \/ b \in calls /\ b.desk # d
              \/ b.desk = d /\ ~b.heard /\ b.answer = Waiting
        /\ \A b \in StopListening(d) :
              \E c \in calls : b.kind = c.kind /\ b.id = c.id /\ b.form = c.form
    BY Stopped DEF DeskInv
  <1>2. CallsOK'
    BY <1>1, FS_Union DEF CallsOK, CallOK
  <1>3. RoomLeft'
    <2> DEFINE under == {c \in StopListening(d) :
                            c.kind = "save" /\ c.id = 0 /\ c.answer = Waiting}
    <2>1. CreationsUnderWay' = under
      BY DEF CreationsUnderWay
    <2>2. IsFiniteSet(under) /\ Cardinality(under) <= Cardinality(CreationsUnderWay)
      BY Stopped DEF DeskInv
    <2>3. IsFiniteSet(CreationsUnderWay)
      BY FS_Subset DEF DeskInv, TypeInv, CallsOK, CreationsUnderWay
    <2>4. Cardinality(under) \in Nat /\ Cardinality(CreationsUnderWay) \in Nat
      BY <2>2, <2>3, FS_CardinalityType
    <2>5. nextId' = nextId /\ nextId \in Nat /\ RoomLeft /\ MaxId \in Nat
      BY BoundAssumption DEF DeskInv, TypeInv, TypeOK, catalogue
    <2> HIDE DEF under
    <2> QED
      BY <2>1, <2>2, <2>4, <2>5 DEF RoomLeft
  <1>4. TypeOK'
    <2>1. cards' \in [Desks -> SUBSET Ids]
      BY DEF Show, Existing, DeskInv, TypeInv, TypeOK
    <2>2. told' \in [Desks -> Told]
      BY DEF Show, Silence, Told, DeskInv, TypeInv, TypeOK
    <2>3. calls' \subseteq Call
      BY <1>1 DEF CallOK
    <2>4. page' \in [Desks -> {"login", "main", "editor", "creator"}]
      BY DEF Show, DeskInv, TypeInv, TypeOK
    <2>5. form' \in [Desks -> Form \cup {NoForm}] /\ stale' \in [Desks -> BOOLEAN]
      BY DEF Show, DeskInv, TypeInv, TypeOK
    <2> QED
      BY <2>1, <2>2, <2>3, <2>4, <2>5 DEF DeskInv, TypeInv, TypeOK, SessionsOK, catalogue
  <1>5. \A e \in Desks : PageHasForm(e)'
    BY DEF DeskInv, TypeInv, TypeOK, PageHasForm, Show
  <1>6. RowHasSlug' /\ \A e \in Desks : FormHasSlug(e)'
    BY DEF DeskInv, TypeInv, TypeOK, SlugInv, RowHasSlug, Existing, FormHasSlug, Show, catalogue
  <1>7. \A c \in calls' : CallHasSlug(c)' /\ CallHasForm(c)'
    <2> SUFFICES ASSUME NEW c \in calls'
                 PROVE  CallHasSlug(c)' /\ CallHasForm(c)'
      OBVIOUS
    <2>1. c \in Call
      BY <1>4 DEF TypeOK
    <2>2. form' = [form EXCEPT ![d] = f] /\ form \in [Desks -> Form \cup {NoForm}]
      BY DEF Show, DeskInv, TypeInv, TypeOK
    <2>3. CASE c \in calls /\ c.desk # d
      BY <2>1, <2>2, <2>3 DEF DeskInv, SlugInv, CallHasSlug, CallHasForm, catalogue, Call
    <2>4. CASE c \in StopListening(d) /\ c.desk = d /\ ~c.heard /\ c.answer = Waiting
      <3>1. PICK b \in calls : c.kind = b.kind /\ c.id = b.id /\ c.form = b.form
        BY <1>1, <2>4
      <3> QED
        BY <2>4, <3>1 DEF DeskInv, SlugInv, CallHasSlug, CallHasForm, catalogue
    <2>5. CASE c \in new
      BY <2>1, <2>2, <2>5 DEF CallHasSlug, CallHasForm
    <2> QED
      BY <1>1, <2>3, <2>4, <2>5
  <1> QED
    BY <1>2, <1>3, <1>4, <1>5, <1>6, <1>7 DEF DeskInv, TypeInv, SlugInv

\* What sending a call for something makes is a call.
LEMMA SentIsCall ==
    ASSUME TypeOK, NEW d \in Desks, NEW kind \in Kinds, NEW id \in Ids \cup {0},
           NEW f \in Form \cup {NoForm}, NEW no \in Nat
    PROVE  LET c == Sent(d, kind, id, f, no)
           IN  /\ c \in Call
               /\ c.desk = d /\ c.kind = kind /\ c.id = id /\ c.form = f
               /\ c.answer = Waiting /\ c.heard
  BY DEF Sent, Call

\* The call for the list.
LEMMA ListIsCall ==
    ASSUME TypeOK, NEW d \in Desks
    PROVE  LET c == Sent(d, "tags", 0, NoForm, made[d] + 1)
           IN  c \in Call /\ c.desk = d /\ c.kind = "tags" /\ c.answer = Waiting
  <1>1. made[d] + 1 \in Nat /\ "tags" \in Kinds
    BY DEF TypeOK, Kinds
  <1> QED
    BY <1>1, SentIsCall

LEMMA BlankIsForm ==
    ASSUME NEW kind, NEW id \in Ids \cup {0}
    PROVE  Blank(kind, id) \in Form /\ Blank(kind, id).id = id /\ ~Blank(kind, id).loaded
  <1>1. Initial(kind) \subseteq Options
    BY RowAssumption DEF Initial, Options
  <1> QED
    BY <1>1 DEF Blank, Form, Statuses

LEMMA TurnedAwayKeeps ==
    ASSUME DeskInv, NEW d \in Desks, TurnedAway(d)
    PROVE  DeskInv'
  <1>1. SessionsOK'
    BY SessionType DEF TurnedAway, DeskInv, TypeInv
  <1>2. /\ calls' = StopListening(d) \cup {} /\ Show(d, "login", NoForm) /\ made' \in [Desks -> Nat]
        /\ UNCHANGED <<catalogue, everSlug, edits, faults>>
    BY DEF TurnedAway, counters, DeskInv, TypeInv, TypeOK
  <1>3. IsFiniteSet({})
    BY FS_EmptySet
  <1> QED
    BY <1>1, <1>2, <1>3, Navigated

LEMMA OpenMainKeeps ==
    ASSUME DeskInv, NEW d \in Desks, OpenMain(d)
    PROVE  DeskInv'
  <1>1. CASE TurnedAway(d)
    BY <1>1, TurnedAwayKeeps
  <1>2. CASE ~TurnedAway(d)
    <2>1. SessionsOK'
      BY <1>2 DEF OpenMain, DeskInv, TypeInv, TypeOK, SessionsOK
    <2>2. /\ calls' = StopListening(d) \cup {} /\ Show(d, "main", NoForm)
          /\ made' \in [Desks -> Nat] /\ UNCHANGED <<catalogue, everSlug, edits, faults>>
      BY <1>2 DEF OpenMain, counters, DeskInv, TypeInv, TypeOK
    <2>3. IsFiniteSet({})
      BY FS_EmptySet
    <2> QED
      BY <2>1, <2>2, <2>3, Navigated
  <1> QED
    BY <1>1, <1>2

LEMMA OpenEditorKeeps ==
    ASSUME DeskInv, NEW d \in Desks, NEW id \in Ids, OpenEditor(d, id)
    PROVE  DeskInv'
  <1>1. CASE TurnedAway(d)
    BY <1>1, TurnedAwayKeeps
  <1>2. CASE ~TurnedAway(d)
    <2> DEFINE f == Blank("editor", id)
               list == Sent(d, "tags", 0, NoForm, made[d] + 1)
               article == Sent(d, "article", id, NoForm, made[d] + 2)
    <2>1. /\ calls' = StopListening(d) \cup {list, article} /\ Show(d, "editor", f)
          /\ Number(d, 2) /\ UNCHANGED session
          /\ UNCHANGED <<catalogue, everSlug, edits, faults>>
      BY <1>2 DEF OpenEditor
    <2>2. SessionsOK' /\ made \in [Desks -> Nat]
      BY <2>1 DEF DeskInv, TypeInv, TypeOK, SessionsOK
    <2>3. made' \in [Desks -> Nat] /\ made[d] + 1 \in Nat /\ made[d] + 2 \in Nat
      BY <2>1, <2>2 DEF Number
    <2>4. f \in Form /\ f.id = id /\ ~f.loaded
      BY BlankIsForm
    <2>5. /\ list \in Call /\ list.desk = d /\ list.kind = "tags" /\ list.answer = Waiting
          /\ article \in Call /\ article.desk = d /\ article.kind = "article"
          /\ article.id = id /\ article.answer = Waiting
      <3>1. {"tags", "article"} \subseteq Kinds /\ NoForm \in Form \cup {NoForm} /\ TypeOK
        BY DEF DeskInv, TypeInv, Kinds
      <3>2. list \in Call /\ list.desk = d /\ list.kind = "tags" /\ list.answer = Waiting
        BY <3>1, ListIsCall
      <3>3. /\ article \in Call /\ article.desk = d /\ article.kind = "article"
            /\ article.id = id /\ article.answer = Waiting
        BY <2>3, <3>1, SentIsCall
      <3> QED
        BY <3>2, <3>3
    <2> HIDE DEF f, list, article
    <2>6. CallOK(list) /\ CallOK(article)
      BY <2>5, RowAssumption DEF CallOK
    <2>7. IsFiniteSet({list, article})
      <3>1. {list, article} = {list} \cup {article}
        OBVIOUS
      <3>2. IsFiniteSet({list})
        BY FS_Singleton
      <3> QED
        BY <3>1, <3>2, FS_AddElement
    <2>8. f # NoForm
      BY <2>4, MarkerAssumption
    <2> QED
      BY <2>1, <2>2, <2>3, <2>4, <2>5, <2>6, <2>7, <2>8, Navigated
  <1> QED
    BY <1>1, <1>2

LEMMA OpenCreatorKeeps ==
    ASSUME DeskInv, NEW d \in Desks, OpenCreator(d)
    PROVE  DeskInv'
  <1>1. CASE TurnedAway(d)
    BY <1>1, TurnedAwayKeeps
  <1>2. CASE ~TurnedAway(d)
    <2> DEFINE f == Blank("creator", 0)
               list == Sent(d, "tags", 0, NoForm, made[d] + 1)
    <2>1. /\ calls' = StopListening(d) \cup {list} /\ Show(d, "creator", f)
          /\ Number(d, 1) /\ UNCHANGED session
          /\ UNCHANGED <<catalogue, everSlug, edits, faults>>
      BY <1>2 DEF OpenCreator
    <2>2. SessionsOK' /\ made \in [Desks -> Nat]
      BY <2>1 DEF DeskInv, TypeInv, TypeOK, SessionsOK
    <2>3. made' \in [Desks -> Nat] /\ made[d] + 1 \in Nat
      BY <2>1, <2>2 DEF Number
    <2>4. f \in Form /\ f.id = 0 /\ ~f.loaded
      BY BlankIsForm
    <2>5. list \in Call /\ list.desk = d /\ list.kind = "tags" /\ list.answer = Waiting
      BY <2>3, SentIsCall DEF DeskInv, TypeInv, Kinds
    <2> HIDE DEF f, list
    <2>6. CallOK(list) /\ IsFiniteSet({list}) /\ f # NoForm
      BY <2>4, <2>5, RowAssumption, MarkerAssumption, FS_Singleton DEF CallOK
    <2>7. \A c \in {list} : /\ CallOK(c) /\ c.desk = d /\ c.answer = Waiting
                            /\ c.kind \in {"tags", "article"}
                            /\ c.kind = "article" => f # NoForm /\ f.id = c.id
      BY <2>5, <2>6
    <2> QED
      BY <2>1, <2>2, <2>3, <2>4, <2>6, <2>7, Navigated
  <1> QED
    BY <1>1, <1>2

-----------------------------------------------------------------------------
\* What the user does on a page.

LEMMA LoginKeeps ==
    ASSUME DeskInv, NEW d \in Desks, NEW user \in Users, Login(d, user)
    PROVE  DeskInv'
  <1> USE DEF DeskInv, TypeInv
  <1>1. /\ SessionsOK' /\ Show(d, "main", NoForm) /\ page[d] = "login" /\ form[d] = NoForm
        /\ UNCHANGED <<catalogue, calls, everSlug, counters>>
    <2>1. SessionsOK' /\ Show(d, "main", NoForm) /\ page[d] = "login"
          /\ UNCHANGED <<catalogue, calls, everSlug, counters>>
      BY SessionType DEF Login
    <2>2. form[d] = NoForm
      BY <2>1 DEF PageHasForm
    <2> QED
      BY <2>1, <2>2
  <1>2. form' = form
    BY <1>1 DEF Show, TypeOK
  <1>3. cards' \in [Desks -> SUBSET Ids] /\ told' \in [Desks -> Told] /\ stale' \in [Desks -> BOOLEAN]
    BY <1>1 DEF Show, TypeOK, Existing, Silence, Told
  <1>4. TypeOK'
    BY <1>1, <1>2, <1>3 DEF TypeOK, SessionsOK, Show, catalogue, counters
  <1>5. CallsOK' /\ RoomLeft'
    BY <1>1 DEF CallsOK, RoomLeft, CreationsUnderWay, catalogue
  <1>6. \A e \in Desks : PageHasForm(e)'
    BY <1>1, <1>2 DEF PageHasForm, TypeOK, Show
  <1>7. SlugInv'
    BY <1>1, <1>2 DEF SlugInv, RowHasSlug, Existing, FormHasSlug, CallHasSlug, CallHasForm, catalogue
  <1> QED
    BY <1>4, <1>5, <1>6, <1>7

LEMMA LoginRefusedKeeps ==
    ASSUME DeskInv, NEW d \in Desks, LoginRefused(d)
    PROVE  DeskInv'
  <1> USE DEF DeskInv, TypeInv, LoginRefused, catalogue, desk, counters
  <1>1. told' \in [Desks -> Told]
    BY DEF TypeOK, Told, Silence
  <1>2. TypeOK'
    BY <1>1 DEF TypeOK
  <1>3. CallsOK' /\ RoomLeft' /\ \A e \in Desks : PageHasForm(e)'
    BY DEF CallsOK, RoomLeft, CreationsUnderWay, PageHasForm
  <1>4. SlugInv'
    BY DEF SlugInv, RowHasSlug, Existing, FormHasSlug, CallHasSlug, CallHasForm
  <1> QED
    BY <1>2, <1>3, <1>4

\* A form changed by hand stays the form of its article; if it was filled it
\* keeps its slug.
LEMMA EditKeeps ==
    ASSUME DeskInv, NEW d \in Desks, NEW f \in Form, Edit(d, f),
           f.id = form[d].id, f.loaded = form[d].loaded,
           f.loaded => f.slug = form[d].slug
    PROVE  DeskInv'
  <1> USE DEF DeskInv, TypeInv, Edit, catalogue
  <1>1. form' = [form EXCEPT ![d] = f] /\ form \in [Desks -> Form \cup {NoForm}]
    BY DEF TypeOK
  <1>2. f # NoForm
    BY MarkerAssumption
  <1>3. edits' \in 0..MaxEdits
    BY BoundAssumption DEF TypeOK
  <1>4. TypeOK'
    BY <1>1, <1>3 DEF TypeOK
  <1>5. CallsOK' /\ RoomLeft'
    BY DEF CallsOK, RoomLeft, CreationsUnderWay
  <1>6. \A e \in Desks : PageHasForm(e)'
    BY <1>1, <1>2 DEF PageHasForm
  <1>7. RowHasSlug' /\ \A e \in Desks : FormHasSlug(e)'
    BY <1>1, <1>2 DEF SlugInv, RowHasSlug, Existing, FormHasSlug
  <1>8. \A c \in calls' : CallHasSlug(c)' /\ CallHasForm(c)'
    <2> SUFFICES ASSUME NEW c \in calls
                 PROVE  CallHasSlug(c)' /\ CallHasForm(c)'
      OBVIOUS
    <2>1. c.desk \in Desks
      BY DEF TypeOK, Call
    <2> QED
      BY <1>1, <1>2, <2>1 DEF SlugInv, CallHasSlug, CallHasForm
  <1> QED
    BY <1>4, <1>5, <1>6, <1>7, <1>8 DEF SlugInv

LEMMA EditsKeep ==
    ASSUME DeskInv, NEW d \in Desks,
           \/ \E text \in Texts : TypeText(d, text)
           \/ \E s \in Picks : PickStatus(d, s)
           \/ \E slug \in Slugs : TypeSlug(d, slug)
           \/ \E o \in Options : Choose(d, o)
           \/ \E t \in Tags : AddTag(d, t)
    PROVE  DeskInv'
  <1>1. form[d] # NoForm
    BY DEF TypeText, PickStatus, TypeSlug, Choose, AddTag, Edit
  <1>2. form[d] \in Form /\ \A x \in Fields : Touch(d, x) \subseteq Fields
    BY <1>1 DEF DeskInv, TypeInv, TypeOK, Form, Touch
  <1>3. ASSUME NEW text \in Texts, TypeText(d, text)
        PROVE  DeskInv'
    <2> DEFINE f == [form[d] EXCEPT !.text = text, !.touched = Touch(d, "text")]
    <2>1. f \in Form /\ f.id = form[d].id /\ f.loaded = form[d].loaded /\ f.slug = form[d].slug
      BY <1>2 DEF Form, Fields
    <2>2. Edit(d, f)
      BY <1>3 DEF TypeText
    <2> QED
      BY <2>1, <2>2, EditKeeps
  <1>4. ASSUME NEW s \in Picks, PickStatus(d, s)
        PROVE  DeskInv'
    <2> DEFINE f == [form[d] EXCEPT !.status = s, !.touched = Touch(d, "status")]
    <2>1. f \in Form /\ f.id = form[d].id /\ f.loaded = form[d].loaded /\ f.slug = form[d].slug
      BY <1>2, RowAssumption DEF Form, Fields
    <2>2. Edit(d, f)
      BY <1>4 DEF PickStatus
    <2> QED
      BY <2>1, <2>2, EditKeeps
  <1>5. ASSUME NEW slug \in Slugs, TypeSlug(d, slug)
        PROVE  DeskInv'
    <2> DEFINE f == [form[d] EXCEPT !.slug = slug]
    <2>1. f \in Form /\ f.id = form[d].id /\ f.loaded = form[d].loaded
      BY <1>2 DEF Form
    <2>2. ~form[d].loaded
      BY <1>1, <1>5 DEF TypeSlug, PageHasForm, DeskInv, TypeInv
    <2>3. Edit(d, f)
      BY <1>5 DEF TypeSlug
    <2> QED
      BY <2>1, <2>2, <2>3, EditKeeps
  <1>6. ASSUME NEW o \in Options, Choose(d, o)
        PROVE  DeskInv'
    <2> DEFINE f == [form[d] EXCEPT !.touched = Touch(d, "tags"),
                                    !.chosen = IF o \in @ THEN @ \ {o} ELSE @ \cup {o}]
    <2>1. f \in Form /\ f.id = form[d].id /\ f.loaded = form[d].loaded /\ f.slug = form[d].slug
      BY <1>2 DEF Form, Fields
    <2>2. Edit(d, f)
      BY <1>6 DEF Choose
    <2> QED
      BY <2>1, <2>2, EditKeeps
  <1>7. ASSUME NEW t \in Tags, AddTag(d, t)
        PROVE  DeskInv'
    <2> DEFINE f == [form[d] EXCEPT !.touched = Touch(d, "added"),
                                    !.options = @ \cup {<<"typed", t>>},
                                    !.chosen = @ \cup {<<"typed", t>>}]
    <2>1. <<"typed", t>> \in Options
      BY DEF Options
    <2>2. f \in Form /\ f.id = form[d].id /\ f.loaded = form[d].loaded /\ f.slug = form[d].slug
      BY <1>2, <2>1 DEF Form, Fields
    <2>3. Edit(d, f)
      BY <1>7 DEF AddTag
    <2> QED
      BY <2>2, <2>3, EditKeeps
  <1> QED
    BY <1>3, <1>4, <1>5, <1>6, <1>7

\* A call made by a click: for a creation there must be room.
LEMMA SendKeeps ==
    ASSUME DeskInv, NEW d \in Desks, NEW kind \in {"save"} \cup Buttons, NEW id \in Ids \cup {0},
           NEW f \in Form \cup {NoForm}, Send(d, kind, id, f),
           kind = "save" => f \in Form /\ f.id = id,
           kind = "save" /\ f.loaded => id \in Ids /\ id < nextId /\ f.slug = everSlug[id],
           kind # "save" => id \in Ids,
           kind = "save" /\ id = 0 => nextId + Cardinality(CreationsUnderWay) <= MaxId
    PROVE  DeskInv'
  <1> DEFINE c == Sent(d, kind, id, f, made[d] + 1)
  <1> USE DEF DeskInv, TypeInv, catalogue, desk
  <1>1. /\ calls' = calls \cup {c} /\ Number(d, 1)
        /\ UNCHANGED <<catalogue, session, desk, told, stale, everSlug, edits, faults>>
    BY DEF Send
  <1>2. made' \in [Desks -> Nat] /\ made[d] + 1 \in Nat
    BY <1>1 DEF TypeOK, Number
  <1>3. c \in Call /\ c.kind = kind /\ c.id = id /\ c.form = f /\ c.answer = Waiting
    <2>1. TypeOK /\ kind \in Kinds
      BY DEF Kinds
    <2> QED
      BY <1>2, <2>1, SentIsCall
  <1> HIDE DEF c
  <1>4. kind # "article"
    BY RowAssumption
  <1>5. CallOK(c)
    BY <1>3, <1>4, RowAssumption DEF CallOK
  <1>6. CallsOK'
    BY <1>1, <1>5, FS_AddElement DEF CallsOK, CallOK
  <1>7. TypeOK'
    BY <1>1, <1>2, <1>3 DEF TypeOK
  <1>8. RoomLeft'
    <2>1. IsFiniteSet(CreationsUnderWay)
      BY FS_Subset DEF CallsOK, CreationsUnderWay
    <2>2. Cardinality(CreationsUnderWay) \in Nat /\ MaxId \in Nat /\ nextId \in Nat /\ nextId' = nextId
      BY <1>1, <2>1, FS_CardinalityType, BoundAssumption DEF TypeOK
    <2>3. CASE kind = "save" /\ id = 0
      <3>1. CreationsUnderWay' = CreationsUnderWay \cup {c}
        BY <1>1, <1>3, <2>3 DEF CreationsUnderWay
      <3>2. /\ Cardinality(CreationsUnderWay \cup {c}) \in
                   {Cardinality(CreationsUnderWay), Cardinality(CreationsUnderWay) + 1}
            /\ IsFiniteSet(CreationsUnderWay \cup {c})
        BY <2>1, FS_AddElement
      <3>3. Cardinality(CreationsUnderWay \cup {c}) \in Nat
        BY <3>2, FS_CardinalityType
      <3> QED
        BY <2>2, <2>3, <3>1, <3>2, <3>3 DEF RoomLeft
    <2>4. CASE ~(kind = "save" /\ id = 0)
      <3>1. CreationsUnderWay' = CreationsUnderWay
        BY <1>1, <1>3, <2>4 DEF CreationsUnderWay
      <3> QED
        BY <2>2, <3>1 DEF RoomLeft
    <2> QED
      BY <2>3, <2>4
  <1>9. \A e \in Desks : PageHasForm(e)'
    BY <1>1 DEF PageHasForm
  <1>10. SlugInv'
    BY <1>1, <1>3, <1>4 DEF SlugInv, RowHasSlug, Existing, FormHasSlug, CallHasSlug, CallHasForm
  <1> QED
    BY <1>6, <1>7, <1>8, <1>9, <1>10

LEMMA ClicksKeep ==
    ASSUME DeskInv, NEW d \in Desks,
           Save(d) \/ \E button \in Buttons, id \in Ids : Press(d, button, id)
    PROVE  DeskInv'
  <1>1. CASE Save(d)
    <2>1. form[d] # NoForm /\ form[d] \in Form /\ form[d].id \in Ids \cup {0}
      BY <1>1 DEF Save, DeskInv, TypeInv, TypeOK, Form
    <2>2. Send(d, "save", form[d].id, form[d])
      BY <1>1 DEF Save
    <2>3. form[d].loaded =>
             form[d].id \in Ids /\ form[d].id < nextId /\ form[d].slug = everSlug[form[d].id]
      BY <2>1 DEF DeskInv, TypeInv, PageHasForm, SlugInv, FormHasSlug
    <2> QED
      BY <1>1, <2>1, <2>2, <2>3, SendKeeps DEF Save
  <1>2. ASSUME NEW button \in Buttons, NEW id \in Ids, Press(d, button, id)
        PROVE  DeskInv'
    <2>1. button # "save" /\ Send(d, button, id, NoForm)
      BY <1>2, RowAssumption DEF Press
    <2> QED
      BY <2>1, SendKeeps
  <1> QED
    BY <1>1, <1>2

-----------------------------------------------------------------------------
\* What the server does to the articles: nothing; or a row that is there goes
\* or changes, keeping its slug; or a row comes whose slug no other row has.
RowsAlone == UNCHANGED <<articles, nextId, everSlug>>

RowChanged ==
    \E id \in Existing, row \in Rows \cup {NoRow} :
        /\ articles' = [articles EXCEPT ![id] = row]
        /\ row # NoRow => row.slug = articles[id].slug
        /\ UNCHANGED <<nextId, everSlug>>

RowAdded ==
    \E row \in Rows :
        /\ nextId \in Ids /\ WithSlug(row.slug) = {}
        /\ articles' = [articles EXCEPT ![nextId] = row]
        /\ nextId' = nextId + 1
        /\ everSlug' = [everSlug EXCEPT ![nextId] = row.slug]

TableStep == RowsAlone \/ RowChanged \/ RowAdded

\* Under such a step the slugs stay those of the ids' whole lives.
LEMMA TableKeeps ==
    ASSUME TypeOK, RowHasSlug, TableStep
    PROVE  /\ articles' \in [Ids -> Rows \cup {NoRow}]
           /\ everSlug' \in [Ids -> Slugs \cup {Empty}]
           /\ nextId' \in {nextId, nextId + 1} /\ nextId \in Nat
           /\ RowHasSlug'
           /\ \A id \in Ids : id < nextId => everSlug'[id] = everSlug[id]
  <1> USE DEF TypeOK, RowHasSlug, Existing
  <1>1. nextId \in Nat /\ MaxId \in Nat /\ Ids \subseteq Nat
    BY BoundAssumption DEF Ids
  <1>2. CASE RowsAlone
    BY <1>1, <1>2 DEF RowsAlone
  <1>3. CASE RowChanged
    <2>1. PICK id \in Existing, row \in Rows \cup {NoRow} :
             /\ articles' = [articles EXCEPT ![id] = row]
             /\ row # NoRow => row.slug = articles[id].slug
             /\ UNCHANGED <<nextId, everSlug>>
      BY <1>3 DEF RowChanged
    <2>2. articles' \in [Ids -> Rows \cup {NoRow}]
      BY <2>1
    <2>3. \A i \in Ids : articles'[i] # NoRow => articles[i] # NoRow /\ articles'[i].slug = articles[i].slug
      BY <2>1
    <2> QED
      BY <1>1, <2>1, <2>2, <2>3
  <1>4. CASE RowAdded
    <2>1. PICK row \in Rows :
             /\ nextId \in Ids /\ WithSlug(row.slug) = {}
             /\ articles' = [articles EXCEPT ![nextId] = row]
             /\ nextId' = nextId + 1
             /\ everSlug' = [everSlug EXCEPT ![nextId] = row.slug]
      BY <1>4 DEF RowAdded
    <2>2. row.slug \in Slugs \cup {Empty}
      BY DEF Rows
    <2>3. articles' \in [Ids -> Rows \cup {NoRow}] /\ everSlug' \in [Ids -> Slugs \cup {Empty}]
      BY <2>1, <2>2
    <2>4. \A id \in Ids : id < nextId => everSlug'[id] = everSlug[id]
      BY <1>1, <2>1
    <2>5. RowHasSlug'
      <3>1. \A id \in Ids : articles'[id] # NoRow => id < nextId' /\ articles'[id].slug = everSlug'[id]
        BY <1>1, <2>1
      <3>2. \A i \in Ids \ {nextId} :
               articles'[i] = articles[i] /\ (articles[i] # NoRow => articles[i].slug # row.slug)
        BY <2>1 DEF WithSlug
      <3>3. articles'[nextId] = row
        BY <2>1
      <3> QED
        BY <3>1, <3>2, <3>3
    <2> QED
      BY <1>1, <2>1, <2>3, <2>4, <2>5
  <1> QED
    BY <1>2, <1>3, <1>4 DEF TableStep

\* Call c is handled, with answer a.
LEMMA ServedKeeps ==
    ASSUME DeskInv, NEW c \in calls, c.answer = Waiting, NEW a \in Answer, AnswerTo(c, a),
           a.code = 200 /\ ~a.redirected => a.done \/ a.missed,
           c.kind = "article" /\ a.code = 200 =>
               /\ a.row \in Rows /\ c.id < nextId /\ a.row.slug = everSlug[c.id],
           TableStep, RowAdded => c.kind = "save" /\ c.id = 0, SessionsOK',
           names' \subseteq Tags, stale' \in [Desks -> BOOLEAN], faults' \in 0..MaxFaults, NothingElse
    PROVE  DeskInv'
  <1> USE DEF DeskInv, TypeInv
  <1>1. /\ CallsOK' /\ CreationsUnderWay' = CreationsUnderWay \ {c}
        /\ \A b \in calls' : \/ b \in calls
                             \/ b = [c EXCEPT !.answer = a] /\ b.heard
    BY Answered
  <1>2. /\ articles' \in [Ids -> Rows \cup {NoRow}]
        /\ everSlug' \in [Ids -> Slugs \cup {Empty}]
        /\ nextId' \in {nextId, nextId + 1} /\ nextId \in Nat
        /\ RowHasSlug'
        /\ \A id \in Ids : id < nextId => everSlug'[id] = everSlug[id]
    BY TableKeeps DEF SlugInv
  <1>3. RoomLeft' /\ nextId' \in 1..(MaxId + 1)
    <2>1. IsFiniteSet(CreationsUnderWay)
      BY FS_Subset DEF CallsOK, CreationsUnderWay
    <2>2. /\ Cardinality(CreationsUnderWay) \in Nat
          /\ Cardinality(CreationsUnderWay \ {c}) =
               IF c \in CreationsUnderWay THEN Cardinality(CreationsUnderWay) - 1
               ELSE Cardinality(CreationsUnderWay)
          /\ Cardinality(CreationsUnderWay \ {c}) \in Nat
      BY <2>1, FS_RemoveElement, FS_CardinalityType
    <2>3. nextId' = nextId + 1 => c \in CreationsUnderWay
      BY <1>2 DEF TableStep, RowsAlone, RowChanged, CreationsUnderWay
    <2>4. MaxId \in Nat /\ nextId \in 1..(MaxId + 1)
      BY BoundAssumption DEF TypeOK
    <2>5. nextId' + Cardinality(CreationsUnderWay \ {c}) <= MaxId + 1
      BY <1>2, <2>2, <2>3, <2>4 DEF RoomLeft
    <2>6. nextId' \in 1..(MaxId + 1)
      BY <1>2, <2>2, <2>4, <2>5
    <2> QED
      BY <1>1, <2>5, <2>6 DEF RoomLeft
  <1>4. UNCHANGED <<page, cards, form, told, made, edits>>
    BY DEF NothingElse, desk
  <1>5. TypeOK'
    <2>1. calls' \subseteq Call
      BY <1>1 DEF CallsOK, CallOK
    <2> QED
      BY <1>2, <1>3, <1>4, <2>1 DEF TypeOK, SessionsOK
  <1>6. \A e \in Desks : PageHasForm(e)'
    BY <1>4 DEF PageHasForm
  <1>7. \A e \in Desks : FormHasSlug(e)'
    <2> SUFFICES ASSUME NEW e \in Desks
                 PROVE  FormHasSlug(e)'
      OBVIOUS
    <2>1. form[e] # NoForm /\ form[e].loaded => form[e].id \in Ids
      BY DEF PageHasForm
    <2> QED
      BY <1>2, <1>4, <2>1 DEF SlugInv, FormHasSlug, Ids
  <1>8. \A b \in calls' : CallHasSlug(b)' /\ CallHasForm(b)'
    <2> SUFFICES ASSUME NEW b \in calls'
                 PROVE  CallHasSlug(b)' /\ CallHasForm(b)'
      OBVIOUS
    <2>1. CASE b \in calls
      <3>1. b.kind = "article" => b.id \in Ids
        BY <2>1 DEF CallsOK, CallOK
      <3> QED
        BY <1>2, <1>4, <2>1, <3>1 DEF SlugInv, CallHasSlug, CallHasForm, Ids
    <2>2. CASE b = [c EXCEPT !.answer = a] /\ b.heard
      <3>1. c \in Call /\ (c.kind = "article" => c.id \in Ids)
        BY DEF CallsOK, CallOK
      <3>2. /\ b.kind = c.kind /\ b.id = c.id /\ b.desk = c.desk /\ b.form = c.form
            /\ b.heard = c.heard /\ b.answer = a
        BY <2>2, <3>1 DEF Call
      <3>3. CallHasSlug(b)'
        BY <1>2, <3>1, <3>2 DEF SlugInv, CallHasSlug, Ids
      <3>4. CallHasForm(b)'
        BY <1>4, <2>2, <3>2 DEF SlugInv, CallHasForm
      <3> QED
        BY <3>3, <3>4
    <2> QED
      BY <1>1, <2>1, <2>2
  <1> QED
    BY <1>1, <1>2, <1>3, <1>5, <1>6, <1>7, <1>8 DEF SlugInv

\* What ServedKeeps asks of an answer made by Reply.
LEMMA ReplyIsAnswer ==
    /\ Reply(500, FALSE) \in Answer /\ Reply(500, FALSE).code # 200
    /\ Reply(200, TRUE) \in Answer /\ Reply(200, TRUE).done
  BY DEF Reply, Answer

\* The answer of a handler that works, and what ServedKeeps asks of it.
WorkAnswer(c, code) ==
    [Reply(code, AsAsked(c, articles'[IF c.id = 0 THEN nextId ELSE c.id])) EXCEPT !.missed = Missed(c)]

LEMMA WorkIsAnswer ==
    ASSUME NEW c, NEW code \in {200, 500}, AnswerWork(c, code),
           code = 200 => AsAsked(c, articles'[IF c.id = 0 THEN nextId ELSE c.id]) \/ Missed(c)
    PROVE  /\ WorkAnswer(c, code) \in Answer /\ AnswerTo(c, WorkAnswer(c, code))
           /\ WorkAnswer(c, code).code = 200 =>
                 WorkAnswer(c, code).done \/ WorkAnswer(c, code).missed
  <1>1. PICK asAsked : asAsked = AsAsked(c, articles'[IF c.id = 0 THEN nextId ELSE c.id])
    OBVIOUS
  <1>2. PICK missed : missed = Missed(c)
    OBVIOUS
  <1>3. asAsked \in BOOLEAN /\ missed \in BOOLEAN
    BY <1>1, <1>2 DEF AsAsked, Missed
  <1>4. code = 200 => asAsked = TRUE \/ missed = TRUE
    BY <1>1, <1>2, <1>3
  <1>5. WorkAnswer(c, code) = [Reply(code, asAsked) EXCEPT !.missed = missed]
    BY <1>1, <1>2 DEF WorkAnswer
  <1>6. AnswerTo(c, WorkAnswer(c, code))
    BY DEF AnswerWork, WorkAnswer
  <1>7. /\ WorkAnswer(c, code) \in Answer /\ WorkAnswer(c, code).code = code
        /\ WorkAnswer(c, code).done = asAsked /\ WorkAnswer(c, code).missed = missed
    <2>1. PICK a : a = [Reply(code, asAsked) EXCEPT !.missed = missed]
      OBVIOUS
    <2>2. a \in Answer /\ a.code = code /\ a.done = asAsked /\ a.missed = missed
      BY <1>3, <2>1 DEF Reply, Answer
    <2> QED
      BY <1>5, <2>1, <2>2, Zenon
  <1>8. code = 200 => WorkAnswer(c, code).done = TRUE \/ WorkAnswer(c, code).missed = TRUE
    BY <1>4, <1>7
  <1>9. code = 200 => WorkAnswer(c, code).done \/ WorkAnswer(c, code).missed
    BY <1>8, Zenon
  <1>10. WorkAnswer(c, code).code = 200 => code = 200
    BY <1>7
  <1> QED
    BY <1>6, <1>7, <1>9, <1>10, Zenon

\* Being sent elsewhere changes nothing and claims nothing done.
LEMMA ElsewhereKeeps ==
    ASSUME DeskInv, NEW c \in calls, c.answer = Waiting, c.kind # "article", AnswerElsewhere(c),
           SessionsOK', UNCHANGED <<catalogue, stale, everSlug, faults>>, NothingElse
    PROVE  DeskInv'
  <1> DEFINE a == [Reply(200, FALSE) EXCEPT !.redirected = TRUE]
  <1>1. a \in Answer /\ a.redirected
    BY DEF Reply, Answer
  <1>2. AnswerTo(c, a)
    BY DEF AnswerElsewhere
  <1>3. TableStep /\ ~RowAdded
    BY DEF TableStep, RowsAlone, RowAdded, catalogue, DeskInv, TypeInv, TypeOK
  <1>4. names' \subseteq Tags /\ stale' \in [Desks -> BOOLEAN] /\ faults' \in 0..MaxFaults
    BY DEF catalogue, DeskInv, TypeInv, TypeOK
  <1> HIDE DEF a
  <1> QED
    BY <1>1, <1>2, <1>3, <1>4, ServedKeeps

LEMMA ServeTurnedAwayKeeps ==
    ASSUME DeskInv, NEW c \in calls, ServeTurnedAway(c)
    PROVE  DeskInv'
  <1>1. c.desk \in Desks
    BY DEF DeskInv, TypeInv, TypeOK, Call
  <1>2. SessionsOK'
    BY <1>1, SessionType DEF ServeTurnedAway, DeskInv, TypeInv
  <1> QED
    BY <1>2, ElsewhereKeeps DEF ServeTurnedAway

\* A row changed or added by a call marks the forms open on it.
LEMMA ChangedIsTyped ==
    ASSUME TypeOK, NEW c, NEW id, NEW row, Changed(c, id, row)
    PROVE  stale' \in [Desks -> BOOLEAN] /\ articles' = [articles EXCEPT ![id] = row]
  BY DEF Changed, TypeOK

LEMMA NamedAreTags ==
    ASSUME NEW f \in Form
    PROVE  Named(f.chosen) \subseteq Tags
  BY DEF Named, Form, Options

LEMMA CreateKeeps ==
    ASSUME DeskInv, NEW c \in calls, c.answer = Waiting, c.kind = "save", c.form.id = 0,
           CreateWithSlug(c), UNCHANGED session, NothingElse
    PROVE  DeskInv' /\ TableStep
  <1> DEFINE f == c.form
  <1>1. f \in Form /\ c.id = 0 /\ c.kind # "article"
    BY DEF DeskInv, TypeInv, CallsOK, CallOK
  <1>2. SessionsOK' /\ faults' \in 0..MaxFaults /\ TypeOK
    BY DEF CreateWithSlug, DeskInv, TypeInv, TypeOK, SessionsOK
  <1>3. CASE WithSlug(f.slug) # {}
    <2>1. AnswerWork(c, 500) /\ UNCHANGED <<catalogue, stale, everSlug>>
      BY <1>3 DEF CreateWithSlug
    <2>2. TableStep /\ names' \subseteq Tags /\ stale' \in [Desks -> BOOLEAN]
      BY <1>2, <2>1 DEF TableStep, RowsAlone, catalogue, TypeOK
    <2>3. WorkAnswer(c, 500) \in Answer /\ AnswerTo(c, WorkAnswer(c, 500))
          /\ (WorkAnswer(c, 500).code = 200 =>
                 WorkAnswer(c, 500).done \/ WorkAnswer(c, 500).missed)
      BY <2>1, WorkIsAnswer
    <2> HIDE DEF f
    <2> QED
      BY <1>1, <1>2, <2>2, <2>3, ServedKeeps
  <1>4. CASE WithSlug(f.slug) = {}
    <2>1. PICK tried \in SUBSET f.chosen :
             \E stored \in SUBSET tried, tags \in SUBSET (names \cup Named(tried)) :
                /\ CreationLinks(f.chosen, tried, stored, tags)
                /\ Changed(c, nextId, [slug |-> f.slug, text |-> f.text,
                                       status |-> f.status, tags |-> tags])
                /\ names' = names \cup Named(tried)
                /\ AnswerWork(c, IF stored = f.chosen THEN 200 ELSE 500)
      BY <1>4 DEF CreateWithSlug
    <2>2. PICK linked \in SUBSET (names \cup Named(tried)), code \in {200, 500} :
             /\ Changed(c, nextId, [slug |-> f.slug, text |-> f.text,
                                    status |-> f.status, tags |-> linked])
             /\ names' = names \cup Named(tried)
             /\ AnswerWork(c, code)
      BY <2>1
    <2> DEFINE row == [slug |-> f.slug, text |-> f.text, status |-> f.status, tags |-> linked]
    <2>3. nextId' = nextId + 1 /\ everSlug' = [everSlug EXCEPT ![nextId] = f.slug]
      BY <1>4 DEF CreateWithSlug
    <2>4. names \subseteq Tags /\ Named(tried) \subseteq Tags
      BY <1>1, <1>2 DEF TypeOK, Named, Form, Options
    <2>5. row \in Rows /\ row.slug = f.slug /\ row.text = f.text /\ row.status = f.status
      BY <1>1, <2>4 DEF Form, Rows
    <2>6. nextId \in Ids
      <3>1. c \in CreationsUnderWay /\ IsFiniteSet(CreationsUnderWay)
        BY <1>1, FS_Subset DEF CreationsUnderWay, DeskInv, TypeInv, CallsOK
      <3>2. Cardinality(CreationsUnderWay) \in Nat /\ Cardinality(CreationsUnderWay) # 0
        BY <3>1, FS_CardinalityType, FS_EmptySet
      <3> QED
        BY <3>2, BoundAssumption DEF DeskInv, TypeInv, TypeOK, RoomLeft, Ids
    <2>7. articles' = [articles EXCEPT ![nextId] = row] /\ stale' \in [Desks -> BOOLEAN]
      BY <1>2, <2>2, ChangedIsTyped
    <2>8. names' \subseteq Tags
      BY <2>2, <2>4
    <2> HIDE DEF row
    <2>9. TableStep
      <3>1. WithSlug(row.slug) = {} /\ everSlug' = [everSlug EXCEPT ![nextId] = row.slug]
        BY <1>4, <2>3, <2>5
      <3>2. RowAdded
        BY <2>3, <2>5, <2>6, <2>7, <3>1 DEF RowAdded
      <3> QED
        BY <3>2 DEF TableStep
    <2>10. articles'[nextId] = row /\ row # NoRow
      BY <1>2, <2>5, <2>6, <2>7, MarkerAssumption DEF TypeOK
    <2>11. AsAsked(c, articles'[IF c.id = 0 THEN nextId ELSE c.id])
      BY <1>1, <2>5, <2>10 DEF AsAsked
    <2>12. WorkAnswer(c, code) \in Answer /\ AnswerTo(c, WorkAnswer(c, code))
           /\ (WorkAnswer(c, code).code = 200 =>
                  WorkAnswer(c, code).done \/ WorkAnswer(c, code).missed)
      BY <2>2, <2>11, WorkIsAnswer
    <2> HIDE DEF f
    <2> QED
      BY <1>1, <1>2, <2>7, <2>8, <2>9, <2>12, ServedKeeps
  <1> QED
    BY <1>3, <1>4

\* The row that the editor's handler changes, by slug, keeps it; and if the form
\* was filled from an article that is still there, it is that article's row.
LEMMA SaveOverSlugKeeps ==
    ASSUME DeskInv, NEW c \in calls, c.answer = Waiting, c.kind = "save", c.form.id # 0,
           SaveOverSlug(c), UNCHANGED session, NothingElse
    PROVE  DeskInv' /\ TableStep
  <1>1. c.form \in Form /\ c.id = c.form.id /\ c.id \in Ids /\ c.kind # "article"
    BY DEF DeskInv, TypeInv, CallsOK, CallOK, Form
  <1>2. SessionsOK' /\ TypeOK /\ Named(c.form.chosen) \subseteq Tags
    BY <1>1, NamedAreTags DEF DeskInv, TypeInv, TypeOK, SessionsOK
  <1>3. UNCHANGED <<nextId, everSlug>> /\ ~RowAdded
    BY <1>2 DEF SaveOverSlug, RowAdded, TypeOK
  <1>4. CASE AnswerWork(c, 500) /\ UNCHANGED <<articles, names, stale, faults>>
    <2>1. TableStep /\ names' \subseteq Tags /\ stale' \in [Desks -> BOOLEAN]
          /\ faults' \in 0..MaxFaults
      BY <1>2, <1>3, <1>4 DEF TableStep, RowsAlone, TypeOK
    <2>2. WorkAnswer(c, 500) \in Answer /\ AnswerTo(c, WorkAnswer(c, 500))
          /\ (WorkAnswer(c, 500).code = 200 =>
                 WorkAnswer(c, 500).done \/ WorkAnswer(c, 500).missed)
      BY <1>4, WorkIsAnswer
    <2> QED
      BY <1>1, <1>2, <1>3, <2>1, <2>2, ServedKeeps
  <1>5. ASSUME NEW id \in WithSlug(c.form.slug), NEW tags \in SUBSET Tags,
               Changed(c, id, Saved(articles[id], c.form, tags)),
               names' \subseteq names \cup Named(c.form.chosen),
               UNCHANGED faults \/ Fault, AnswerWork(c, 200)
        PROVE  DeskInv' /\ TableStep
    <2> DEFINE row == Saved(articles[id], c.form, tags)
    <2>1. id \in Existing /\ articles[id] \in Rows /\ articles[id].slug = c.form.slug
      BY <1>2 DEF WithSlug, Existing, TypeOK
    <2>2. /\ row \in Rows /\ row.slug = articles[id].slug
          /\ row.text = c.form.text /\ row.status = c.form.status
      BY <1>1, <2>1 DEF Saved, Rows, Form
    <2>3. articles' = [articles EXCEPT ![id] = row] /\ stale' \in [Desks -> BOOLEAN]
      BY <1>2, <1>5, ChangedIsTyped
    <2> HIDE DEF row
    <2>4. TableStep
      <3>1. RowChanged
        BY <1>3, <2>1, <2>2, <2>3 DEF RowChanged
      <3> QED
        BY <3>1 DEF TableStep
    <2>5. names' \subseteq Tags /\ faults' \in 0..MaxFaults
      BY <1>2, <1>5, BoundAssumption DEF TypeOK, Fault
    <2>6. AsAsked(c, articles'[c.id]) \/ Missed(c)
      <3>1. CASE articles[c.id] = NoRow \/ ~c.form.loaded
        BY <1>1, <3>1 DEF Missed, Ids
      <3>2. CASE articles[c.id] # NoRow /\ c.form.loaded
        <4>1. c.form.slug = everSlug[c.id] /\ articles[c.id].slug = everSlug[c.id]
          BY <1>1, <3>2 DEF DeskInv, SlugInv, CallHasSlug, RowHasSlug
        <4>2. id = c.id
          BY <1>1, <2>1, <3>2, <4>1 DEF DeskInv, SlugInv, RowHasSlug, Existing
        <4>3. articles'[c.id] = row /\ row # NoRow
          BY <1>1, <1>2, <2>2, <2>3, <4>2, MarkerAssumption DEF TypeOK
        <4> QED
          BY <2>2, <4>3 DEF AsAsked
      <3> QED
        BY <3>1, <3>2
    <2>7. c.id # 0
      BY <1>1
    <2>8. WorkAnswer(c, 200) \in Answer /\ AnswerTo(c, WorkAnswer(c, 200))
          /\ (WorkAnswer(c, 200).code = 200 =>
                 WorkAnswer(c, 200).done \/ WorkAnswer(c, 200).missed)
      BY <1>5, <2>6, <2>7, WorkIsAnswer
    <2> QED
      BY <1>1, <1>2, <1>3, <2>3, <2>4, <2>5, <2>8, ServedKeeps
  <1>6. CASE ~(AnswerWork(c, 500) /\ UNCHANGED <<articles, names, stale, faults>>)
    <2>1. PICK id \in WithSlug(c.form.slug), new \in SUBSET Named(c.form.chosen), tags \in SUBSET Tags :
             /\ UNCHANGED faults \/ Fault
             /\ Changed(c, id, Saved(articles[id], c.form, tags))
             /\ names' = names \cup new
      BY <1>6 DEF SaveOverSlug
    <2>2. AnswerWork(c, 200)
      BY <1>6 DEF SaveOverSlug
    <2> QED
      BY <1>5, <2>1, <2>2
  <1> QED
    BY <1>4, <1>6

LEMMA ServeSaveKeeps ==
    ASSUME DeskInv, NEW c \in calls, ServeSave(c)
    PROVE  DeskInv' /\ TableStep
  <1>1. /\ c.answer = Waiting /\ c.kind = "save" /\ UNCHANGED session /\ NothingElse
        /\ IF session[c.desk].user \notin Creators
           THEN AnswerElsewhere(c) /\ UNCHANGED <<catalogue, stale, everSlug, faults>>
           ELSE IF c.form.id = 0 THEN CreateWithSlug(c) ELSE SaveOverSlug(c)
    BY DEF ServeSave
  <1>2. CASE AnswerElsewhere(c) /\ UNCHANGED <<catalogue, stale, everSlug, faults>>
    <2>1. SessionsOK'
      BY <1>1 DEF DeskInv, TypeInv, TypeOK, SessionsOK
    <2> QED
      BY <1>1, <1>2, <2>1, ElsewhereKeeps DEF TableStep, RowsAlone, catalogue
  <1>3. CASE c.form.id = 0 /\ CreateWithSlug(c)
    BY <1>1, <1>3, CreateKeeps
  <1>4. CASE c.form.id # 0 /\ SaveOverSlug(c)
    BY <1>1, <1>4, SaveOverSlugKeeps
  <1> QED
    BY <1>1, <1>2, <1>3, <1>4

LEMMA ServeButtonKeeps ==
    ASSUME DeskInv, NEW c \in calls, ServeButton(c)
    PROVE  DeskInv' /\ TableStep
  <1>1. /\ c.answer = Waiting /\ c.kind \in Buttons /\ UNCHANGED session /\ NothingElse
        /\ AnswerWork(c, 200) /\ UNCHANGED <<nextId, names, everSlug, faults>>
    BY DEF ServeButton, ButtonWorks
  <1>2. /\ SessionsOK' /\ TypeOK /\ names' \subseteq Tags /\ faults' \in 0..MaxFaults
        /\ c.kind \in {"publish", "archive", "delete"} /\ c.kind # "article" /\ c.id \in Ids
    BY <1>1, RowAssumption DEF DeskInv, TypeInv, TypeOK, SessionsOK, CallsOK, CallOK
  <1>3. ~RowAdded
    BY <1>1, <1>2 DEF RowAdded, TypeOK
  <1>4. /\ TableStep /\ stale' \in [Desks -> BOOLEAN]
        /\ AsAsked(c, articles'[c.id]) \/ Missed(c)
    <2>1. CASE articles[c.id] = NoRow
      <3>1. TableStep /\ stale' \in [Desks -> BOOLEAN]
        BY <1>1, <1>2, <2>1 DEF ServeButton, ButtonWorks, TableStep, RowsAlone, TypeOK
      <3> QED
        BY <1>2, <2>1, <3>1 DEF Missed, Ids
    <2>2. CASE articles[c.id] # NoRow
      <3> DEFINE row == IF c.kind = "delete" THEN NoRow
                        ELSE [articles[c.id] EXCEPT !.status =
                                IF c.kind = "publish" THEN "published" ELSE "archived"]
      <3>1. Changed(c, c.id, row)
        BY <2>2 DEF ServeButton, ButtonWorks
      <3>2. articles[c.id] \in Rows /\ c.id \in Existing
        BY <1>2, <2>2 DEF TypeOK, Existing
      <3>3. row \in Rows \cup {NoRow} /\ (row # NoRow => row.slug = articles[c.id].slug)
        BY <3>2 DEF Rows, Statuses
      <3>4. /\ c.kind = "delete" => row = NoRow
            /\ c.kind = "publish" => row \in Rows /\ row.status = "published"
            /\ c.kind = "archive" => row \in Rows /\ row.status = "archived"
        BY <3>2 DEF Rows, Statuses
      <3>5. articles' = [articles EXCEPT ![c.id] = row] /\ stale' \in [Desks -> BOOLEAN]
        BY <1>2, <3>1, ChangedIsTyped
      <3> HIDE DEF row
      <3>6. articles'[c.id] = row
        BY <1>2, <3>5 DEF TypeOK
      <3>7. AsAsked(c, articles'[c.id])
        BY <1>2, <3>4, <3>6, MarkerAssumption DEF AsAsked
      <3> QED
        BY <1>1, <3>2, <3>3, <3>5, <3>7 DEF TableStep, RowChanged
    <2> QED
      BY <2>1, <2>2
  <1>5. c.id # 0
    BY <1>2 DEF Ids
  <1>6. WorkAnswer(c, 200) \in Answer /\ AnswerTo(c, WorkAnswer(c, 200))
        /\ (WorkAnswer(c, 200).code = 200 =>
               WorkAnswer(c, 200).done \/ WorkAnswer(c, 200).missed)
    BY <1>1, <1>4, <1>5, WorkIsAnswer
  <1> QED
    BY <1>1, <1>2, <1>3, <1>4, <1>6, ServedKeeps

LEMMA ServeDataKeeps ==
    ASSUME DeskInv, NEW c \in calls, ServeTags(c) \/ ServeArticle(c)
    PROVE  DeskInv'
  <1>1. /\ c.answer = Waiting /\ NothingElse
        /\ UNCHANGED <<catalogue, session, stale, everSlug, faults>>
    BY DEF ServeTags, ServeArticle
  <1>2. /\ SessionsOK' /\ TypeOK /\ TableStep /\ ~RowAdded
        /\ names' \subseteq Tags /\ stale' \in [Desks -> BOOLEAN] /\ faults' \in 0..MaxFaults
    BY <1>1 DEF DeskInv, TypeInv, TypeOK, SessionsOK, TableStep, RowsAlone, RowAdded, catalogue
  <1>3. CASE ServeTags(c)
    <2> DEFINE a == [Reply(200, TRUE) EXCEPT !.names = names]
    <2>1. c.kind = "tags" /\ AnswerTo(c, a)
      BY <1>3 DEF ServeTags
    <2>2. a \in Answer /\ a.done
      BY <1>2 DEF Reply, Answer, TypeOK
    <2> HIDE DEF a
    <2> QED
      BY <1>1, <1>2, <2>1, <2>2, ServedKeeps
  <1>4. CASE ServeArticle(c)
    <2>1. c.kind = "article" /\ c.id \in Ids
      BY <1>4 DEF ServeArticle, DeskInv, TypeInv, CallsOK, CallOK
    <2>2. CASE articles[c.id] = NoRow
      <3>1. AnswerTo(c, Reply(500, FALSE))
        BY <1>4, <2>2 DEF ServeArticle
      <3>2. Reply(500, FALSE) \in Answer /\ Reply(500, FALSE).code # 200
        BY ReplyIsAnswer
      <3> QED
        BY <1>1, <1>2, <3>1, <3>2, ServedKeeps
    <2>3. CASE articles[c.id] # NoRow
      <3> DEFINE a == [Reply(200, TRUE) EXCEPT !.row = articles[c.id]]
      <3>1. AnswerTo(c, a)
        BY <1>4, <2>3 DEF ServeArticle
      <3>2. articles[c.id] \in Rows
        BY <1>2, <2>1, <2>3 DEF TypeOK
      <3>3. a \in Answer /\ a.done /\ a.row = articles[c.id]
        BY <3>2 DEF Reply, Answer
      <3>4. c.id < nextId /\ articles[c.id].slug = everSlug[c.id]
        BY <2>1, <2>3 DEF DeskInv, SlugInv, RowHasSlug
      <3> HIDE DEF a
      <3> QED
        BY <1>1, <1>2, <3>1, <3>2, <3>3, <3>4, ServedKeeps
    <2> QED
      BY <2>2, <2>3
  <1> QED
    BY <1>3, <1>4

-----------------------------------------------------------------------------
\* Answers heard or lost, and time.

\* A call that was answered goes, and what its page showed goes on.
LEMMA AnsweredGoes ==
    ASSUME DeskInv, NEW c \in calls, c.answer # Waiting, calls' = calls \ {c},
           nextId' = nextId
    PROVE  /\ CallsOK' /\ RoomLeft'
           /\ c.heard /\ c \in Call /\ c.answer \in Answer /\ c.desk \in Desks
  <1> USE DEF DeskInv, TypeInv
  <1>1. CallsOK'
    BY FS_RemoveElement DEF CallsOK, CallOK
  <1>2. CreationsUnderWay' = CreationsUnderWay
    BY DEF CreationsUnderWay
  <1>3. c.heard /\ c \in Call /\ c.answer \in Answer /\ c.desk \in Desks
    BY DEF CallsOK, CallOK, Call
  <1> QED
    BY <1>1, <1>2, <1>3 DEF RoomLeft

LEMMA AlertIsTyped ==
    ASSUME TypeOK, NEW c, c.answer \in Answer, NEW said \in {"nothing", "success", "failure", "unsent"},
           Alert(c, said)
    PROVE  told' \in [Desks -> Told]
  <1>1. [said |-> said, done |-> c.answer.done, missed |-> c.answer.missed,
         redirected |-> c.answer.redirected] \in Told
    BY DEF Answer, Told
  <1> QED
    BY <1>1 DEF Alert, TypeOK

LEMMA HearDataKeeps ==
    ASSUME DeskInv, NEW c \in calls, HearData(c)
    PROVE  DeskInv'
  <1> DEFINE d == c.desk
             f == Heard(c)
  <1>1. /\ c.answer # Waiting /\ c.kind \in {"tags", "article"} /\ calls' = calls \ {c}
        /\ form' = [form EXCEPT ![d] = f]
        /\ UNCHANGED <<catalogue, session, page, cards, stale, everSlug, counters>>
    BY DEF HearData
  <1>2. /\ CallsOK' /\ RoomLeft' /\ TypeOK
        /\ c.heard /\ c \in Call /\ c.answer \in Answer /\ d \in Desks
    BY <1>1, AnsweredGoes DEF catalogue, DeskInv, TypeInv
  <1>3. /\ c.answer.code \in {200, 500} /\ c.answer.names \subseteq Tags
        /\ CallOK(c) /\ CallHasSlug(c) /\ CallHasForm(c) /\ FormHasSlug(d) /\ PageHasForm(d)
    BY <1>2 DEF Answer, DeskInv, TypeInv, CallsOK, SlugInv
  <1>4. form[d] \in Form \cup {NoForm} /\ form \in [Desks -> Form \cup {NoForm}]
    BY <1>2 DEF TypeOK
  \* The form keeps its article; filled, it has the article's slug.
  <1>5. /\ f \in Form \cup {NoForm} /\ (f = NoForm <=> form[d] = NoForm)
        /\ form[d] # NoForm =>
              /\ f.id = form[d].id
              /\ f.loaded => f.id < nextId /\ f.slug = everSlug[f.id]
              /\ f.loaded => form[d].loaded \/ f.id \in Ids
    <2>1. CASE form[d] = NoForm \/ c.answer.redirected \/ c.answer.code = 500
      BY <1>3, <1>4, <2>1 DEF Heard, FormHasSlug
    <2>2. CASE ~(form[d] = NoForm \/ c.answer.redirected \/ c.answer.code = 500) /\ c.kind = "tags"
      <3>1. f = TakeList(form[d], c.answer.names) /\ form[d] \in Form
        BY <1>4, <2>2 DEF Heard
      <3>2. {"listed"} \X c.answer.names \subseteq Options
        BY <1>3 DEF Options
      <3>3. f \in Form /\ f.id = form[d].id /\ f.loaded = form[d].loaded /\ f.slug = form[d].slug
        BY <3>1, <3>2 DEF TakeList, Form
      <3> HIDE DEF f
      <3> QED
        BY <1>3, <2>2, <3>3, MarkerAssumption DEF FormHasSlug
    <2>3. CASE ~(form[d] = NoForm \/ c.answer.redirected \/ c.answer.code = 500) /\ c.kind = "article"
      <3>1. c.answer.code = 200 /\ c.answer.row \in Rows /\ c.id \in Ids
        BY <1>1, <1>3, <2>3 DEF CallOK
      <3>2. f = Fill(form[d], c.answer.row) /\ form[d] \in Form
        BY <1>4, <2>3 DEF Heard
      <3>3. /\ f \in Form /\ f.id = form[d].id /\ f.slug = c.answer.row.slug
        <4> DEFINE row == c.answer.row
                   chosen == {o \in form[d].options : o[2] \in row.tags}
        <4>1. chosen \subseteq Options
          BY <3>2 DEF Form
        <4>2. /\ row.slug \in Slugs \cup {Empty} /\ row.text \in Texts \cup {Empty}
              /\ row.status \in Statuses
          BY <3>1 DEF Rows
        <4>3. f = [form[d] EXCEPT !.slug = row.slug, !.text = row.text, !.status = row.status,
                                  !.loaded = TRUE, !.touched = {}, !.chosen = chosen]
          BY <3>2 DEF Fill
        <4> HIDE DEF chosen, row, f
        <4>4. f \in Form /\ f.id = form[d].id /\ f.slug = row.slug
          BY <3>2, <4>1, <4>2, <4>3 DEF Form
        <4> QED
          BY <4>4 DEF row
      <3>4. form[d].id = c.id /\ c.id < nextId /\ c.answer.row.slug = everSlug[c.id]
        BY <1>1, <1>2, <1>3, <2>3, <3>1 DEF CallHasForm, CallHasSlug
      <3> HIDE DEF f
      <3> QED
        BY <2>3, <3>1, <3>3, <3>4, MarkerAssumption
    <2> QED
      BY <1>1, <2>1, <2>2, <2>3
  <1> HIDE DEF f
  <1>6. told' \in [Desks -> Told]
    <2>1. CASE Alert(c, "failure")
      BY <1>2, <2>1, AlertIsTyped
    <2>2. CASE UNCHANGED told
      BY <1>2, <2>2 DEF TypeOK
    <2> QED
      BY <2>1, <2>2 DEF HearData
  <1>7. TypeOK'
    BY <1>1, <1>2, <1>4, <1>5, <1>6 DEF TypeOK, catalogue, counters
  <1>8. \A e \in Desks : PageHasForm(e)'
    <2>1. 0 \notin Ids
      BY DEF Ids
    <2> QED
      BY <1>1, <1>3, <1>4, <1>5, <2>1 DEF DeskInv, TypeInv, PageHasForm
  <1>9. RowHasSlug' /\ \A e \in Desks : FormHasSlug(e)'
    BY <1>1, <1>4, <1>5 DEF DeskInv, SlugInv, RowHasSlug, Existing, FormHasSlug, catalogue
  <1>10. \A b \in calls' : CallHasSlug(b)' /\ CallHasForm(b)'
    <2> SUFFICES ASSUME NEW b \in calls
                 PROVE  CallHasSlug(b)' /\ CallHasForm(b)'
      BY <1>1
    <2>1. b.desk \in Desks
      BY <1>2 DEF TypeOK, Call
    <2> QED
      BY <1>1, <1>4, <1>5, <2>1 DEF DeskInv, SlugInv, CallHasSlug, CallHasForm, catalogue
  <1> QED
    BY <1>2, <1>7, <1>8, <1>9, <1>10 DEF DeskInv, TypeInv, SlugInv

\* An alert, or the loss of an answer, changes no form.
LEMMA EndedKeeps ==
    ASSUME DeskInv, NEW c \in calls, c.answer # Waiting, calls' = calls \ {c},
           told' \in [Desks -> Told], cards' \in [Desks -> SUBSET Ids], faults' \in 0..MaxFaults,
           UNCHANGED <<catalogue, session, page, form, stale, everSlug, made, edits>>
    PROVE  DeskInv'
  <1> USE DEF DeskInv, TypeInv, catalogue
  <1>1. CallsOK' /\ RoomLeft'
    BY AnsweredGoes
  <1>2. TypeOK'
    BY DEF TypeOK
  <1>3. \A e \in Desks : PageHasForm(e)'
    BY DEF PageHasForm
  <1>4. SlugInv'
    BY DEF SlugInv, RowHasSlug, Existing, FormHasSlug, CallHasSlug, CallHasForm
  <1> QED
    BY <1>1, <1>2, <1>3, <1>4

LEMMA HearVerdictKeeps ==
    ASSUME DeskInv, NEW c \in calls, HearVerdict(c)
    PROVE  DeskInv'
  <1>1. /\ c.answer # Waiting /\ calls' = calls \ {c} /\ Alert(c, Verdict(c))
        /\ UNCHANGED <<catalogue, session, page, form, stale, everSlug, counters>>
    BY DEF HearVerdict
  <1>2. TypeOK /\ c.answer \in Answer /\ c.desk \in Desks
    BY <1>1, AnsweredGoes DEF catalogue, DeskInv, TypeInv
  <1>3. Verdict(c) \in {"success", "failure"}
    BY DEF Verdict
  <1>4. told' \in [Desks -> Told]
    BY <1>1, <1>2, <1>3, AlertIsTyped
  <1>5. cards' \in [Desks -> SUBSET Ids]
    BY <1>2 DEF HearVerdict, TypeOK
  <1>6. faults' \in 0..MaxFaults /\ UNCHANGED <<made, edits>>
    BY <1>1, <1>2 DEF TypeOK, counters
  <1> QED
    BY <1>1, <1>4, <1>5, <1>6, EndedKeeps

LEMMA FaultIsCounted ==
    ASSUME TypeOK, Fault
    PROVE  faults' \in 0..MaxFaults
  BY BoundAssumption DEF Fault, TypeOK

LEMMA LoseKeeps ==
    ASSUME DeskInv, NEW c \in calls, Lose(c)
    PROVE  DeskInv'
  <1>1. /\ c.answer # Waiting /\ calls' = calls \ {c} /\ Fault
        /\ UNCHANGED <<catalogue, session, desk, stale, everSlug, made, edits>>
    BY DEF Lose
  <1>2. TypeOK /\ c.answer \in Answer
    BY <1>1, AnsweredGoes DEF catalogue, DeskInv, TypeInv
  <1>3. told' \in [Desks -> Told]
    <2>1. CASE Alert(c, "unsent")
      BY <1>2, <2>1, AlertIsTyped
    <2>2. CASE UNCHANGED told
      BY <1>2, <2>2 DEF TypeOK
    <2> QED
      BY <2>1, <2>2 DEF Lose
  <1>4. faults' \in 0..MaxFaults
    BY <1>1, <1>2, FaultIsCounted
  <1>5. UNCHANGED <<page, form>> /\ cards' \in [Desks -> SUBSET Ids]
    BY <1>1, <1>2 DEF desk, TypeOK
  <1> QED
    BY <1>1, <1>3, <1>4, <1>5, EndedKeeps

LEMMA DriftKeeps ==
    ASSUME DeskInv, Drift
    PROVE  DeskInv'
  <1> USE DEF DeskInv, TypeInv, catalogue, desk
  <1>1. faults' \in 0..MaxFaults /\ SessionsOK'
    BY FaultIsCounted, SessionType DEF Drift
  <1>2. UNCHANGED <<catalogue, desk, calls, told, stale, everSlug, made, edits>>
    BY DEF Drift
  <1>3. TypeOK'
    BY <1>1, <1>2 DEF TypeOK, SessionsOK
  <1>4. CallsOK' /\ RoomLeft' /\ \A e \in Desks : PageHasForm(e)'
    BY <1>2 DEF CallsOK, RoomLeft, CreationsUnderWay, PageHasForm
  <1>5. SlugInv'
    BY <1>2 DEF SlugInv, RowHasSlug, Existing, FormHasSlug, CallHasSlug, CallHasForm
  <1> QED
    BY <1>3, <1>4, <1>5

-----------------------------------------------------------------------------
\* The invariant, and what follows from it.

LEMMA DeskInit == Init => DeskInv
  <1> SUFFICES ASSUME Init
               PROVE  DeskInv
    OBVIOUS
  <1> USE DEF Init
  <1>1. MaxId \in Nat /\ MaxId > 0 /\ MaxEdits \in Nat /\ MaxFaults \in Nat
    BY BoundAssumption
  <1>2. articles \in [Ids -> Rows \cup {NoRow}] /\ everSlug \in [Ids -> Slugs \cup {Empty}]
    BY RowAssumption DEF Rows, Statuses
  <1>3. session \in [Desks -> [user : Users, usable : BOOLEAN] \cup {Out}]
    BY DEF S!Init
  <1>4. told \in [Desks -> Told]
    BY DEF Silence, Told
  <1>5. nextId \in 1..(MaxId + 1)
    BY <1>1
  <1>6. TypeOK
    BY <1>1, <1>2, <1>3, <1>4, <1>5, RowAssumption DEF TypeOK
  <1>7. CallsOK /\ RoomLeft
    <2>1. CreationsUnderWay = {}
      BY DEF CreationsUnderWay
    <2> QED
      BY <1>1, <2>1, FS_EmptySet DEF CallsOK, RoomLeft
  <1>8. \A d \in Desks : PageHasForm(d)
    BY DEF PageHasForm
  <1>9. SlugInv
    BY <1>1, MarkerAssumption DEF SlugInv, RowHasSlug, Existing, FormHasSlug, Ids
  <1> QED
    BY <1>6, <1>7, <1>8, <1>9 DEF DeskInv, TypeInv

LEMMA UserActsKeep ==
    ASSUME DeskInv, NEW d \in Desks, UserActs(d)
    PROVE  DeskInv'
  <1>1. ASSUME NEW user \in Users, Login(d, user)
        PROVE  DeskInv'
    BY <1>1, LoginKeeps
  <1>2. CASE LoginRefused(d)
    BY <1>2, LoginRefusedKeeps
  <1>3. CASE OpenMain(d)
    BY <1>3, OpenMainKeeps
  <1>4. CASE OpenCreator(d) \/ \E id \in Ids : OpenEditor(d, id)
    BY <1>4, OpenCreatorKeeps, OpenEditorKeeps
  <1>5. CASE \/ \E text \in Texts : TypeText(d, text)
             \/ \E s \in Picks : PickStatus(d, s)
             \/ \E slug \in Slugs : TypeSlug(d, slug)
             \/ \E o \in Options : Choose(d, o)
             \/ \E t \in Tags : AddTag(d, t)
    BY <1>5, EditsKeep
  <1>6. CASE Save(d) \/ \E button \in Buttons, id \in Ids : Press(d, button, id)
    BY <1>6, ClicksKeep
  <1> QED
    BY <1>1, <1>2, <1>3, <1>4, <1>5, <1>6 DEF UserActs

LEMMA ServeKeeps ==
    ASSUME DeskInv, NEW c \in calls, Serve(c)
    PROVE  DeskInv'
  BY ServeTurnedAwayKeeps, ServeSaveKeeps, ServeButtonKeeps, ServeDataKeeps DEF Serve

LEMMA DeskStep == DeskInv /\ [Next]_vars => DeskInv'
  <1> SUFFICES ASSUME DeskInv, [Next]_vars
               PROVE  DeskInv'
    OBVIOUS
  <1>1. ASSUME NEW d \in Desks, UserActs(d)
        PROVE  DeskInv'
    BY <1>1, UserActsKeep
  <1>2. ASSUME NEW c \in calls, Serve(c)
        PROVE  DeskInv'
    BY <1>2, ServeKeeps
  <1>3. ASSUME NEW c \in calls, Hear(c)
        PROVE  DeskInv'
    BY <1>3, HearDataKeeps, HearVerdictKeeps DEF Hear
  <1>4. ASSUME NEW c \in calls, Lose(c)
        PROVE  DeskInv'
    BY <1>4, LoseKeeps
  <1>5. CASE Drift
    BY <1>5, DriftKeeps
  <1>6. CASE UNCHANGED vars
    BY <1>6 DEF vars, DeskInv, TypeInv, TypeOK, CallsOK, CallOK, RoomLeft, CreationsUnderWay,
                PageHasForm, SlugInv, RowHasSlug, Existing, FormHasSlug, CallHasSlug, CallHasForm
  <1> QED
    BY <1>1, <1>2, <1>3, <1>4, <1>5, <1>6 DEF Next

THEOREM DeskInvariant == Spec => []DeskInv
  BY DeskInit, DeskStep, PTL DEF Spec

\* Whatever order calls are handled and answers heard in, the articles, the
\* pages and forms and the calls under way keep their types; the creations that
\* are under way find room.
THEOREM TypeCorrect == Spec => []TypeOK
  <1>1. DeskInv => TypeOK
    BY DEF DeskInv, TypeInv
  <1> QED
    BY <1>1, DeskInvariant, PTL

\* A form shows the article its page was opened for, although answers to the
\* calls of pages left before are still to come: fillArticle in the editor's
\* script asks no answer what it is about.
THEOREM FormShowsItsArticleHolds == Spec => []FormShowsItsArticle
  <1>1. DeskInv => FormShowsItsArticle
    <2> SUFFICES ASSUME DeskInv, NEW d \in Desks, form[d] # NoForm, form[d].loaded
                 PROVE  form[d].id # 0 /\ form[d].slug = everSlug[form[d].id]
      BY DEF FormShowsItsArticle
    <2>1. form[d].id \in Ids
      BY DEF DeskInv, TypeInv, PageHasForm
    <2> QED
      BY <2>1 DEF DeskInv, SlugInv, FormHasSlug, Ids
  <1> QED
    BY <1>1, DeskInvariant, PTL

\* Every step leaves the articles alone, changes one that is there without its
\* slug, or adds one with a slug of its own.
LEMMA StepOnTable == DeskInv /\ [Next]_vars => TableStep
  <1> SUFFICES ASSUME DeskInv, [Next]_vars
               PROVE  TableStep
    OBVIOUS
  <1> USE DEF TableStep, RowsAlone, catalogue
  <1>1. ASSUME NEW d \in Desks, UserActs(d)
        PROVE  TableStep
    BY <1>1 DEF UserActs, Login, LoginRefused, OpenMain, OpenCreator, OpenEditor, TurnedAway,
                TypeText, PickStatus, TypeSlug, Choose, AddTag, Edit, Save, Press, Send
  <1>2. ASSUME NEW c \in calls, Serve(c)
        PROVE  TableStep
    <2>1. CASE ServeTurnedAway(c)
      BY <2>1 DEF ServeTurnedAway
    <2>2. CASE ServeSave(c) \/ ServeButton(c)
      BY <2>2, ServeSaveKeeps, ServeButtonKeeps
    <2>3. CASE ServeTags(c) \/ ServeArticle(c)
      BY <2>3 DEF ServeTags, ServeArticle
    <2> QED
      BY <1>2, <2>1, <2>2, <2>3 DEF Serve
  <1>3. ASSUME NEW c \in calls, Hear(c) \/ Lose(c)
        PROVE  TableStep
    BY <1>3 DEF Hear, HearData, HearVerdict, Lose
  <1>4. CASE Drift \/ UNCHANGED vars
    BY <1>4 DEF Drift, vars
  <1> QED
    BY <1>1, <1>2, <1>3, <1>4 DEF Next

\* No form saved over a deleted article, and no late answer, brings it back:
\* the editor's handler finds rows by slug and makes none.
THEOREM DeletedStaysDeletedHolds == Spec => DeletedStaysDeleted
  <1> DEFINE Stays == \A id \in Ids : id < nextId /\ articles[id] = NoRow => articles'[id] = NoRow
  <1>1. DeskInv /\ [Next]_vars => [Stays]_vars
    <2> SUFFICES ASSUME DeskInv, TableStep, NEW id \in Ids, id < nextId, articles[id] = NoRow
                 PROVE  articles'[id] = NoRow
      BY StepOnTable
    <2>1. articles \in [Ids -> Rows \cup {NoRow}] /\ nextId \in Nat
      BY BoundAssumption DEF DeskInv, TypeInv, TypeOK
    <2>2. CASE RowsAlone
      BY <2>2 DEF RowsAlone
    <2>3. CASE RowChanged
      BY <2>1, <2>3 DEF RowChanged, Existing
    <2>4. CASE RowAdded
      BY <2>1, <2>4 DEF RowAdded, Ids
    <2> QED
      BY <2>2, <2>3, <2>4 DEF TableStep
  <1> QED
    BY <1>1, DeskInvariant, PTL DEF Spec, DeletedStaysDeleted

\* An alert "saved", "published", "archived", "deleted" is true of the moment at
\* which the call was handled, unless fetch followed a redirect or the article was
\* not there to be found: no other way leads to a 200. For a save it rests on the
\* slugs: the row found by the form's slug is the one it was filled from.
THEOREM SuccessUnlessGoneHolds == Spec => []SuccessUnlessGone
  <1>1. Init => SuccessUnlessGone
    BY DEF Init, SuccessUnlessGone, Silence
  <1>2. DeskInv /\ SuccessUnlessGone /\ [Next]_vars => SuccessUnlessGone'
    <2> SUFFICES ASSUME DeskInv, SuccessUnlessGone, [Next]_vars
                 PROVE  SuccessUnlessGone'
      OBVIOUS
    <2> DEFINE True(t) == t.said = "success" => t.done \/ t.redirected \/ t.missed
    <2>1. told \in [Desks -> Told]
      BY DEF DeskInv, TypeInv, TypeOK
    <2>2. ASSUME NEW d \in Desks, NEW t, told' = [told EXCEPT ![d] = t], True(t)
          PROVE  SuccessUnlessGone'
      BY <2>1, <2>2 DEF SuccessUnlessGone
    <2>3. CASE UNCHANGED told
      BY <2>3 DEF SuccessUnlessGone
    <2>4. ASSUME NEW d \in Desks, NEW p, NEW f, Show(d, p, f)
          PROVE  SuccessUnlessGone'
      <3>1. told' = [told EXCEPT ![d] = Silence] /\ True(Silence)
        BY <2>4 DEF Show, Silence
      <3> QED
        BY <2>2, <3>1
    <2>5. ASSUME NEW d \in Desks, UserActs(d)
          PROVE  SuccessUnlessGone'
      <3>1. CASE UNCHANGED told
        BY <2>3, <3>1
      <3>2. CASE \E p, f : Show(d, p, f)
        BY <2>4, <3>2
      <3>3. CASE LoginRefused(d)
        <4> DEFINE t == [Silence EXCEPT !.redirected = TRUE]
        <4>1. told' = [told EXCEPT ![d] = t] /\ True(t)
          BY <3>3 DEF LoginRefused, Silence
        <4> HIDE DEF t
        <4> QED
          BY <2>2, <4>1
      <3> QED
        BY <2>5, <3>1, <3>2, <3>3
        DEF UserActs, Login, OpenMain, OpenCreator, OpenEditor, TurnedAway,
            TypeText, PickStatus, TypeSlug, Choose, AddTag, Edit, Save, Press, Send
    <2>6. ASSUME NEW c \in calls, Serve(c)
          PROVE  SuccessUnlessGone'
      BY <2>3, <2>6 DEF Serve, ServeTurnedAway, ServeSave, ServeButton, ServeTags, ServeArticle,
                        NothingElse
    <2>7. ASSUME NEW c \in calls, c.answer # Waiting, NEW said, Alert(c, said),
                 said = "success" => c.answer.code = 200
          PROVE  SuccessUnlessGone'
      <3> DEFINE t == [said |-> said, done |-> c.answer.done, missed |-> c.answer.missed,
                    redirected |-> c.answer.redirected]
      <3>1. c.desk \in Desks /\ CallOK(c)
        BY DEF DeskInv, TypeInv, CallsOK, CallOK, Call
      <3>2. told' = [told EXCEPT ![c.desk] = t] /\ True(t)
        BY <2>7, <3>1 DEF Alert, CallOK
      <3> HIDE DEF t
      <3> QED
        BY <2>2, <3>1, <3>2
    <2>8. ASSUME NEW c \in calls, Hear(c) \/ Lose(c)
          PROVE  SuccessUnlessGone'
      <3>1. c.answer # Waiting
        BY <2>8 DEF Hear, HearData, HearVerdict, Lose
      <3>2. UNCHANGED told \/ Alert(c, "failure") \/ Alert(c, Verdict(c)) \/ Alert(c, "unsent")
        BY <2>8 DEF Hear, HearData, HearVerdict, Lose
      <3>3. Verdict(c) = "success" => c.answer.code = 200
        BY DEF Verdict
      <3>4. "failure" # "success" /\ "unsent" # "success"
        OBVIOUS
      <3> QED
        BY <2>3, <2>7, <3>1, <3>2, <3>3, <3>4
    <2>9. CASE Drift \/ UNCHANGED vars
      BY <2>3, <2>9 DEF Drift, vars
    <2> QED
      BY <2>5, <2>6, <2>8, <2>9 DEF Next
  <1> QED
    BY <1>1, <1>2, DeskInvariant, PTL DEF Spec

-----------------------------------------------------------------------------
\* What was not changed in form f is as in the row.
Agree(f, row) ==
    /\ "text" \notin f.touched => f.text = row.text
    /\ "status" \notin f.touched => f.status = row.status
    /\ f.touched \cap {"added", "tags"} = {} =>
          /\ Named(f.chosen) \subseteq row.tags
          /\ ListIn(f) => Named(f.chosen) = {} \/ Named(f.chosen) = row.tags

\* g is the form f, some changes or the list of the server later.
Later(f, g) ==
    /\ f.touched \subseteq g.touched
    /\ "text" \notin g.touched => g.text = f.text
    /\ "status" \notin g.touched => g.status = f.status
    /\ g.touched \cap {"added", "tags"} = {} =>
          g.chosen = {} \/ (g.chosen = f.chosen /\ g.options = f.options)

\* The row's tags can be chosen once the list is in.
Listed(f, row) == ListIn(f) => row.tags \subseteq Named(f.options)

-----------------------------------------------------------------------------
\* A save that waits, of a form that was filled and is still shown.
Awaits(c) == c.kind = "save" /\ c.heard /\ c.form.loaded /\ c.answer = Waiting

\* d shows a form, and nothing but its own saves changed its article.
Fresh(d) == form[d] # NoForm /\ ~stale[d] /\ form[d].id \in Existing

NamesKnown == \A id \in Existing : articles[id].tags \subseteq names

\* The form that a call heard is for.
CallInOrder(c) ==
    /\ c.no <= made[c.desk]
    /\ c.kind = "save" /\ c.heard =>
          form[c.desk] # NoForm /\ form[c.desk].id = c.id /\ (c.form.loaded => form[c.desk].loaded)
    /\ c.kind = "article" /\ c.heard => ~form[c.desk].loaded
    /\ Awaits(c) => Later(c.form, form[c.desk])

\* A form is filled once, and its saves are numbered as they were made.
PairInOrder(b, c) ==
    b.desk = c.desk /\ b.heard /\ c.heard =>
        /\ b.kind = "article" /\ c.kind = "article" => b = c
        /\ Awaits(b) /\ Awaits(c) /\ b.no <= c.no => Later(b.form, c.form)

\* What the row is for the form shown, ...
FormFresh(d) ==
    Fresh(d) => IF form[d].loaded THEN Agree(form[d], articles[form[d].id])
                ELSE Listed(form[d], articles[form[d].id])

\* ... for its saves under way and for the answers that it is filled from.
CallFresh(c) ==
    c.heard /\ Fresh(c.desk) =>
        /\ Awaits(c) => Agree(c.form, articles[c.id])
        /\ c.answer # Waiting /\ c.answer.code = 200 /\ ~c.answer.redirected =>
              /\ c.kind = "article" => c.answer.row = articles[c.id]
              /\ c.kind = "tags" /\ ~form[c.desk].loaded =>
                    articles[form[c.desk].id].tags \subseteq c.answer.names

FreshInv ==
    /\ NamesKnown
    /\ \A c \in calls : CallInOrder(c) /\ CallFresh(c)
    /\ \A b, c \in calls : PairInOrder(b, c)
    /\ \A d \in Desks : FormFresh(d)

-----------------------------------------------------------------------------
\* Forms and rows.

LEMMA LaterSelf == \A f : Later(f, f)
  BY DEF Later

LEMMA LaterTrans ==
    ASSUME NEW f, NEW g, NEW h, Later(f, g), Later(g, h)
    PROVE  Later(f, h)
  BY DEF Later

\* Once a save is handled, whatever was not changed since it was made agrees
\* with what it wrote, if its tags are linked as they were sent.
Wrote(f, row) == row.text = f.text /\ row.status = f.status /\ LinkedAsSent(f, row)

LEMMA LaterAgrees ==
    ASSUME NEW f, NEW g, Later(f, g), NEW row, Wrote(f, row)
    PROVE  Agree(g, row)
  <1>1. Named({}) = {}
    BY DEF Named
  <1>2. g.chosen = {} \/ g.chosen = f.chosen
           => /\ Named(g.chosen) \subseteq row.tags
              /\ Named(g.chosen) = {} \/ Named(g.chosen) = row.tags
    BY <1>1 DEF Wrote, LinkedAsSent
  <1> QED
    BY <1>2 DEF Later, Agree, Wrote

\* What a change by hand does to a form.
Edited(f, g) ==
    /\ f.touched \subseteq g.touched
    /\ "text" \notin g.touched => g.text = f.text
    /\ "status" \notin g.touched => g.status = f.status
    /\ g.touched \cap {"added", "tags"} = {} => g.chosen = f.chosen /\ g.options = f.options
    /\ f.options \subseteq g.options /\ (ListIn(g) => ListIn(f))

LEMMA EditedIsLater ==
    ASSUME NEW f, NEW g, Edited(f, g)
    PROVE  /\ Later(f, g)
           /\ \A row : Agree(f, row) => Agree(g, row)
           /\ \A row : Listed(f, row) => Listed(g, row)
  <1>1. Later(f, g)
    BY DEF Edited, Later
  <1>2. ASSUME NEW row, Agree(f, row) PROVE Agree(g, row)
    BY <1>2 DEF Edited, Agree
  <1>3. Named(f.options) \subseteq Named(g.options)
    BY DEF Edited, Named
  <1>4. ASSUME NEW row, Listed(f, row) PROVE Listed(g, row)
    BY <1>3, <1>4 DEF Edited, Listed
  <1> QED
    BY <1>1, <1>2, <1>4

\* The server's list takes the place of the options: nothing is chosen any more.
LEMMA ListTaken ==
    ASSUME NEW f \in Form, NEW list \in SUBSET Tags, NEW g, g = TakeList(f, list)
    PROVE  /\ g.id = f.id /\ g.loaded = f.loaded /\ g \in Form
           /\ Later(f, g)
           /\ \A row : Agree(f, row) => Agree(g, row)
           /\ \A row : row.tags \subseteq list => Listed(g, row)
  <1>1. {"listed"} \X list \subseteq Options
    BY DEF Options
  <1>2. /\ g \in Form /\ g.id = f.id /\ g.loaded = f.loaded /\ g.touched = f.touched
        /\ g.text = f.text /\ g.status = f.status /\ g.chosen = {}
        /\ g.options = {"listed"} \X list
    BY <1>1 DEF TakeList, Form
  <1>3. Later(f, g)
    BY <1>2 DEF Later
  <1>4. Named({}) = {}
    BY DEF Named
  <1>5. ASSUME NEW row, Agree(f, row) PROVE Agree(g, row)
    BY <1>2, <1>4, <1>5 DEF Agree
  <1>6. \A tag \in list : <<"listed", tag>> \in g.options /\ <<"listed", tag>>[2] = tag
    BY <1>2
  <1>7. list \subseteq Named(g.options)
    BY <1>6 DEF Named
  <1> QED
    BY <1>2, <1>3, <1>5, <1>7 DEF Listed

LEMMA FillIsForm ==
    ASSUME NEW f \in Form, NEW row \in Rows
    PROVE  Fill(f, row) \in Form
  <1> DEFINE chosen == {o \in f.options : o[2] \in row.tags}
             g == Fill(f, row)
  <1>1. chosen \subseteq Options
    BY DEF Form
  <1>2. row.slug \in Slugs \cup {Empty} /\ row.text \in Texts \cup {Empty} /\ row.status \in Statuses
    BY DEF Rows
  <1>3. g = [f EXCEPT !.slug = row.slug, !.text = row.text, !.status = row.status,
                      !.loaded = TRUE, !.touched = {}, !.chosen = chosen]
    BY DEF Fill
  <1> HIDE DEF chosen, g
  <1>4. g \in Form
    BY <1>1, <1>2, <1>3 DEF Form
  <1> QED
    BY <1>4 DEF g

\* The article fills the form.
LEMMA Filled ==
    ASSUME NEW f \in Form, NEW row \in Rows, Listed(f, row), NEW g, g = Fill(f, row)
    PROVE  g.id = f.id /\ g.loaded /\ Agree(g, row)
  <1> DEFINE chosen == {o \in f.options : o[2] \in row.tags}
  <1>1. /\ g.id = f.id /\ g.loaded /\ g.touched = {} /\ g.text = row.text
        /\ g.status = row.status /\ g.chosen = chosen /\ g.options = f.options
    BY DEF Fill, Form
  <1>2. Named(chosen) \subseteq row.tags
    BY DEF Named
  <1>3. row.tags \subseteq Named(f.options) => Named(chosen) = row.tags
    BY DEF Named
  <1>4. ListIn(g) => ListIn(f)
    BY <1>1 DEF ListIn
  <1> HIDE DEF chosen
  <1> QED
    BY <1>1, <1>2, <1>3, <1>4 DEF Agree, Listed

-----------------------------------------------------------------------------
\* Steps that leave the forms and their articles as they are.

LEMMA CallTypes ==
    ASSUME DeskInv, NEW c \in calls
    PROVE  /\ c \in Call /\ CallOK(c) /\ CallHasForm(c) /\ c.desk \in Desks
           /\ c.answer # Waiting => c.heard /\ c.answer \in Answer
  BY DEF DeskInv, TypeInv, SlugInv, CallsOK, CallOK, Call

LEMMA QuietKeeps ==
    ASSUME DeskInv, FreshInv, calls' \subseteq calls, UNCHANGED <<articles, names, form, made>>,
           \A d \in Desks : form[d] # NoForm => stale'[d] = stale[d]
    PROVE  FreshInv'
  <1>1. NamesKnown'
    BY DEF FreshInv, NamesKnown, Existing
  <1>2. \A d \in Desks : Fresh(d)' => Fresh(d)
    BY DEF Fresh, Existing
  <1>3. \A d \in Desks : FormFresh(d)'
    BY <1>2 DEF FreshInv, FormFresh
  <1>4. ASSUME NEW c \in calls' PROVE CallInOrder(c)' /\ CallFresh(c)'
    <2>1. c \in calls /\ c.desk \in Desks
      BY CallTypes
    <2>2. CallInOrder(c) /\ CallFresh(c)
      BY <2>1 DEF FreshInv
    <2>3. CallInOrder(c)'
      BY <2>2 DEF CallInOrder, Awaits
    <2>4. CallFresh(c)'
      BY <1>2, <2>1, <2>2 DEF CallFresh, Awaits
    <2> QED
      BY <2>3, <2>4
  <1>5. \A b, c \in calls' : PairInOrder(b, c)'
    BY DEF FreshInv, PairInOrder, Awaits
  <1> QED
    BY <1>1, <1>3, <1>4, <1>5 DEF FreshInv

\* Leaving a page makes no call.
LEMMA StoppedNumbers ==
    ASSUME DeskInv, FreshInv, NEW d \in Desks, NEW b \in StopListening(d)
    PROVE  b.no <= made[b.desk]
  <1>1. CASE b \in calls
    BY <1>1 DEF FreshInv, CallInOrder
  <1>2. CASE b \notin calls
    <2>1. PICK c \in calls : b = [c EXCEPT !.heard = FALSE]
      BY <1>2 DEF StopListening
    <2>2. b.no = c.no /\ b.desk = c.desk
      BY <2>1, CallTypes DEF Call
    <2> QED
      BY <2>2 DEF FreshInv, CallInOrder
  <1> QED
    BY <1>1, <1>2

\* The counts of calls only grow.
MoreMade == made' \in [Desks -> Nat] /\ \A e \in Desks : made'[e] >= made[e]

\* A page is left for page p with form f, which is still to be filled.
LEMMA ShownKeeps ==
    ASSUME DeskInv, FreshInv, NEW d \in Desks, NEW p, NEW f \in Form \cup {NoForm},
           f # NoForm => ~f.loaded /\ (f.id = 0 \/ ~ListIn(f)),
           NEW new,
           \A c \in new : /\ c.desk = d /\ c.answer = Waiting /\ c.no <= made'[d]
                          /\ c.kind \in {"tags", "article"}
                          /\ c.kind = "article" => f # NoForm,
           \A b, c \in new : b.kind = "article" /\ c.kind = "article" => b = c,
           Show(d, p, f), calls' = StopListening(d) \cup new,
           MoreMade, UNCHANGED <<articles, names>>
    PROVE  FreshInv'
  <1>1. \A b \in StopListening(d) : \/ b \in calls /\ b.desk # d
                                    \/ b.desk = d /\ ~b.heard
    BY Stopped DEF DeskInv
  <1>2. /\ \A e \in Desks \ {d} : form'[e] = form[e] /\ stale'[e] = stale[e]
        /\ form'[d] = f
    BY DEF Show, DeskInv, TypeInv, TypeOK
  <1>3. NamesKnown'
    BY DEF FreshInv, NamesKnown, Existing
  <1>4. \A e \in Desks \ {d} : Fresh(e)' => Fresh(e)
    BY <1>2 DEF Fresh, Existing
  <1>5. ASSUME NEW e \in Desks PROVE FormFresh(e)'
    <2>1. CASE e # d
      BY <1>2, <1>4, <2>1 DEF FreshInv, FormFresh
    <2>2. CASE e = d
      <3>1. 0 \notin Ids
        BY DEF Ids
      <3> QED
        BY <1>2, <2>2, <3>1 DEF FormFresh, Fresh, Existing, Listed
    <2> QED
      BY <2>1, <2>2
  <1>6. ASSUME NEW c \in calls' PROVE CallInOrder(c)' /\ CallFresh(c)'
    <2>1. CASE c \in calls /\ c.desk # d
      <3>1. CallInOrder(c) /\ CallFresh(c) /\ c.desk \in Desks \ {d} /\ c.no \in Nat
        BY <2>1, CallTypes DEF FreshInv, Call
      <3>2. made[c.desk] \in Nat /\ made'[c.desk] \in Nat /\ made'[c.desk] >= made[c.desk]
        BY <3>1 DEF MoreMade, DeskInv, TypeInv, TypeOK
      <3>3. c.no <= made'[c.desk]
        BY <3>1, <3>2 DEF CallInOrder
      <3>4. CallInOrder(c)'
        BY <1>2, <3>1, <3>3 DEF CallInOrder, Awaits
      <3>5. CallFresh(c)'
        BY <1>2, <1>4, <3>1 DEF CallFresh, Awaits
      <3> QED
        BY <3>4, <3>5
    <2>2. CASE c \in StopListening(d) /\ c.desk = d /\ ~c.heard
      <3>1. c.no <= made[d] /\ made[d] \in Nat /\ made'[d] \in Nat /\ made'[d] >= made[d]
        BY <2>2, StoppedNumbers DEF MoreMade, DeskInv, TypeInv, TypeOK
      <3>2. c.no \in Nat
        <4>1. CallOK(c)
          BY <2>2, Stopped DEF DeskInv
        <4> QED
          BY <4>1 DEF CallOK, Call
      <3>3. c.no <= made'[d]
        BY <3>1, <3>2
      <3> QED
        BY <2>2, <3>3 DEF CallInOrder, CallFresh, Awaits
    <2>3. CASE c \in new
      BY <1>2, <2>3 DEF CallInOrder, CallFresh, Awaits
    <2> QED
      BY <1>1, <2>1, <2>2, <2>3
  <1>7. ASSUME NEW b \in calls', NEW c \in calls' PROVE PairInOrder(b, c)'
    <2>1. CASE b \in calls /\ c \in calls
      BY <2>1 DEF FreshInv, PairInOrder, Awaits
    <2>2. CASE b \notin calls \/ c \notin calls
      <3>1. SUFFICES ASSUME b.desk = c.desk, b.heard, c.heard
                     PROVE  PairInOrder(b, c)'
        BY DEF PairInOrder
      <3>2. b \in new /\ c \in new
        BY <1>1, <2>2, <3>1
      <3> QED
        BY <3>2 DEF PairInOrder, Awaits
    <2> QED
      BY <2>1, <2>2
  <1> QED
    BY <1>3, <1>5, <1>6, <1>7 DEF FreshInv

\* A form changes, or takes the list, and no call is made.
LEMMA MovedKeeps ==
    ASSUME DeskInv, FreshInv, NEW d \in Desks, form[d] # NoForm, NEW g,
           form' = [form EXCEPT ![d] = g],
           g.id = form[d].id, g.loaded = form[d].loaded, g # NoForm, Later(form[d], g),
           \A row : Agree(form[d], row) => Agree(g, row),
           Fresh(d) /\ ~g.loaded => Listed(g, articles[g.id]),
           calls' \subseteq calls, UNCHANGED <<articles, names, made, stale>>
    PROVE  FreshInv'
  <1>1. \A e \in Desks \ {d} : form'[e] = form[e]
    BY DEF DeskInv, TypeInv, TypeOK
  <1>2. form'[d] = g
    BY DEF DeskInv, TypeInv, TypeOK
  <1>3. NamesKnown'
    BY DEF FreshInv, NamesKnown, Existing
  <1>4. \A e \in Desks : Fresh(e)' => Fresh(e)
    BY <1>1, <1>2 DEF Fresh, Existing
  <1>5. ASSUME NEW e \in Desks PROVE FormFresh(e)'
    BY <1>1, <1>2, <1>4 DEF FreshInv, FormFresh
  <1>6. ASSUME NEW c \in calls' PROVE CallInOrder(c)' /\ CallFresh(c)'
    <2>1. c \in calls /\ c.desk \in Desks /\ CallInOrder(c) /\ CallFresh(c)
      BY CallTypes DEF FreshInv
    <2>2. CASE c.desk # d
      <3>1. form'[c.desk] = form[c.desk]
        BY <1>1, <2>1, <2>2
      <3> QED
        BY <1>4, <2>1, <3>1 DEF CallInOrder, CallFresh, Awaits
    <2>3. CASE c.desk = d
      <3>1. CallInOrder(c)'
        BY <1>2, <2>1, <2>3, LaterTrans DEF CallInOrder, Awaits
      <3>2. CallFresh(c)'
        BY <1>2, <1>4, <2>1, <2>3 DEF CallFresh, Awaits
      <3> QED
        BY <3>1, <3>2
    <2> QED
      BY <2>2, <2>3
  <1>7. \A b, c \in calls' : PairInOrder(b, c)'
    BY DEF FreshInv, PairInOrder, Awaits
  <1> QED
    BY <1>3, <1>5, <1>6, <1>7 DEF FreshInv

\* A click makes a call; a save carries the form as it is.
LEMMA ClickKeeps ==
    ASSUME DeskInv, FreshInv, NEW d \in Desks, NEW kind \in {"save"} \cup Buttons, NEW id, NEW f,
           kind = "save" => form[d] # NoForm /\ f = form[d] /\ id = form[d].id,
           Send(d, kind, id, f)
    PROVE  FreshInv'
  <1>0. PICK c : c = Sent(d, kind, id, f, made[d] + 1)
    OBVIOUS
  <1>1. /\ calls' = calls \cup {c} /\ made' = [made EXCEPT ![d] = @ + 1]
        /\ UNCHANGED <<articles, names, form, stale>>
    BY <1>0 DEF Send, Number, catalogue, desk
  <1>2. /\ c.no = made[d] + 1 /\ c.desk = d /\ c.kind = kind /\ c.id = id /\ c.form = f
        /\ c.answer = Waiting /\ c.heard
    BY <1>0 DEF Sent
  <1>3. /\ made \in [Desks -> Nat] /\ made' \in [Desks -> Nat] /\ made'[d] = made[d] + 1
        /\ \A e \in Desks : made'[e] >= made[e]
        /\ c.kind \notin {"tags", "article"}
    BY <1>1, <1>2, RowAssumption DEF DeskInv, TypeInv, TypeOK
  <1>4. \A b \in calls : b.desk \in Desks /\ b.no \in Nat /\ b.no <= made[b.desk]
    BY CallTypes DEF Call, FreshInv, CallInOrder
  <1>5. NamesKnown' /\ \A e \in Desks : FormFresh(e)'
    BY <1>1 DEF FreshInv, NamesKnown, FormFresh, Fresh, Existing
  <1>6. ASSUME NEW b \in calls PROVE CallInOrder(b)' /\ CallFresh(b)'
    <2>1. CallInOrder(b) /\ CallFresh(b) /\ b.no <= made'[b.desk]
      BY <1>3, <1>4 DEF FreshInv
    <2>2. CallInOrder(b)'
      BY <1>1, <2>1 DEF CallInOrder, Awaits
    <2>3. CallFresh(b)'
      BY <1>1, <2>1 DEF CallFresh, Fresh, Existing, Awaits
    <2> QED
      BY <2>2, <2>3
  <1>7. CallInOrder(c)'
    <2>1. Awaits(c) => Later(c.form, form[d])
      BY <1>2, LaterSelf DEF Awaits
    <2> QED
      BY <1>1, <1>2, <1>3, <2>1 DEF CallInOrder, Awaits
  <1>8. CallFresh(c)'
    BY <1>1, <1>2 DEF FreshInv, FormFresh, CallFresh, Fresh, Existing, Awaits
  <1>9. ASSUME NEW a \in calls', NEW b \in calls' PROVE PairInOrder(a, b)'
    <2>1. CASE a \in calls /\ b \in calls
      BY <2>1 DEF FreshInv, PairInOrder, Awaits
    <2>2. CASE a = c /\ b = c
      BY <2>2, LaterSelf DEF PairInOrder, Awaits
    <2>3. CASE a \in calls /\ b = c
      <3>1. Awaits(a) /\ Awaits(c) /\ a.desk = d => Later(a.form, c.form)
        BY <1>2, <2>3 DEF FreshInv, CallInOrder, Awaits
      <3> QED
        BY <1>2, <1>3, <2>3, <3>1 DEF PairInOrder, Awaits
    <2>4. CASE a = c /\ b \in calls
      <3>1. b.desk = d => ~(a.no <= b.no)
        BY <1>2, <1>3, <1>4, <2>4
      <3> QED
        BY <1>2, <1>3, <2>4, <3>1 DEF PairInOrder, Awaits
    <2> QED
      BY <1>1, <2>1, <2>2, <2>3, <2>4
  <1> QED
    BY <1>1, <1>5, <1>6, <1>7, <1>8, <1>9 DEF FreshInv

-----------------------------------------------------------------------------
\* What the server does.

\* A call that is answered waits no more; the others are as they were.
LEMMA AnsweredInOrder ==
    ASSUME DeskInv, FreshInv, NEW c \in calls, c.answer = Waiting, NEW a \in Answer,
           AnswerTo(c, a), UNCHANGED <<form, made>>
    PROVE  /\ \A b \in calls' : \/ b \in calls \ {c}
                                \/ /\ b.desk = c.desk /\ b.kind = c.kind /\ b.id = c.id
                                   /\ b.heard /\ c.heard /\ b.answer = a /\ ~Awaits(b)
           /\ \A b \in calls' : CallInOrder(b)'
           /\ \A b, e \in calls' : PairInOrder(b, e)'
  <1>0. PICK x : x = [c EXCEPT !.answer = a]
    OBVIOUS
  <1>1. c \in Call
    BY CallTypes
  <1>2. a # Waiting
    BY MarkerAssumption
  <1>3. /\ x.no = c.no /\ x.desk = c.desk /\ x.kind = c.kind /\ x.id = c.id /\ x.form = c.form
        /\ x.heard = c.heard /\ x.answer = a /\ ~Awaits(x)
    BY <1>0, <1>1, <1>2 DEF Call, Awaits
  <1>4. \A b \in calls' : b \in calls \ {c} \/ (b = x /\ x.heard)
    BY <1>0, <1>3 DEF AnswerTo
  <1>5. \A b \in calls : CallInOrder(b)
    BY DEF FreshInv
  <1>6. CallInOrder(x)
    BY <1>3, <1>5 DEF CallInOrder
  <1>7. \A b \in calls' : CallInOrder(b)'
    BY <1>4, <1>5, <1>6 DEF CallInOrder, Awaits
  <1>8. \A b, e \in calls : PairInOrder(b, e)
    BY DEF FreshInv
  <1>9. ASSUME NEW b \in calls', NEW e \in calls' PROVE PairInOrder(b, e)'
    <2>1. CASE b \in calls /\ e \in calls
      BY <1>8, <2>1 DEF PairInOrder, Awaits
    <2>2. CASE b = x /\ e = x
      BY <1>3, <2>2 DEF PairInOrder, Awaits
    <2>3. CASE b = x /\ e \in calls \ {c}
      <3>1. PairInOrder(c, e)
        BY <1>8, <2>3
      <3> QED
        BY <1>3, <2>3, <3>1 DEF PairInOrder, Awaits
    <2>4. CASE b \in calls \ {c} /\ e = x
      <3>1. PairInOrder(b, c)
        BY <1>8, <2>4
      <3> QED
        BY <1>3, <2>4, <3>1 DEF PairInOrder, Awaits
    <2> QED
      BY <1>4, <2>1, <2>2, <2>3, <2>4
  <1> QED
    BY <1>3, <1>4, <1>7, <1>9

\* An answer that changes nothing is true when it is made.
LEMMA AnswerKeeps ==
    ASSUME DeskInv, FreshInv, NEW c \in calls, c.answer = Waiting, NEW a \in Answer,
           AnswerTo(c, a),
           c.kind = "article" /\ a.code = 200 => a.row = articles[c.id],
           c.kind = "tags" /\ a.code = 200 /\ ~a.redirected => names \subseteq a.names,
           UNCHANGED <<articles, names, form, stale, made>>
    PROVE  FreshInv'
  <1>1. /\ \A b \in calls' : \/ b \in calls \ {c}
                             \/ /\ b.desk = c.desk /\ b.kind = c.kind /\ b.id = c.id
                                /\ b.heard /\ c.heard /\ b.answer = a /\ ~Awaits(b)
        /\ \A b \in calls' : CallInOrder(b)'
        /\ \A b, e \in calls' : PairInOrder(b, e)'
    BY AnsweredInOrder
  <1>2. NamesKnown' /\ \A d \in Desks : FormFresh(d)'
    BY DEF FreshInv, NamesKnown, FormFresh, Fresh, Existing
  <1>3. ASSUME NEW b \in calls' PROVE CallFresh(b)'
    <2>1. CASE b \in calls
      BY <2>1 DEF FreshInv, CallFresh, Fresh, Existing, Awaits
    <2>2. CASE /\ b.desk = c.desk /\ b.kind = c.kind /\ b.id = c.id
               /\ b.answer = a /\ ~Awaits(b)
      <3>1. Fresh(c.desk) => articles[form[c.desk].id].tags \subseteq names
        BY DEF FreshInv, NamesKnown, Fresh
      <3> QED
        BY <2>2, <3>1 DEF CallFresh, Fresh, Existing, Awaits
    <2> QED
      BY <1>1, <2>1, <2>2
  <1> QED
    BY <1>1, <1>2, <1>3 DEF FreshInv

\* The article of a form still fresh was not touched, or by the form's own save.
LEMMA ChangeIsOwn ==
    ASSUME DeskInv, FreshInv, NEW c \in calls, c.answer = Waiting, NEW id \in Ids, NEW row,
           Changed(c, id, row), form' = form,
           OwnSaveInOrder(c, c.desk) /\ id = c.id =>
               id \in Existing /\ row.text = c.form.text /\ row.status = c.form.status,
           NEW d \in Desks, Fresh(d)'
    PROVE  /\ Fresh(d)
           /\ \/ form[d].id # id /\ articles'[form[d].id] = articles[form[d].id]
              \/ /\ form[d].id = id /\ id = c.id /\ d = c.desk /\ OwnSaveInOrder(c, d)
                 /\ Awaits(c) /\ form[d].loaded /\ Later(c.form, form[d])
                 /\ Wrote(c.form, articles'[id])
  <1>1. articles \in [Ids -> Rows \cup {NoRow}] /\ articles' = [articles EXCEPT ![id] = row]
    BY DEF DeskInv, TypeInv, TypeOK, Changed
  <1>2. ~stale[d] /\ ~(form[d] # NoForm /\ form[d].id = id
                       /\ ~(OwnSaveInOrder(c, d) /\ LinkedAsSent(c.form, row)))
    BY DEF Changed, Fresh
  <1>3. form[d] # NoForm /\ form[d].id \in Ids /\ articles'[form[d].id] # NoRow
    BY DEF Fresh, Existing
  <1>4. CASE form[d].id # id
    BY <1>1, <1>2, <1>3, <1>4 DEF Fresh, Existing
  <1>5. CASE form[d].id = id
    <2>1. OwnSaveInOrder(c, d) /\ LinkedAsSent(c.form, row)
      BY <1>2, <1>3, <1>5
    <2>2. d = c.desk /\ Awaits(c)
      BY <2>1 DEF OwnSaveInOrder, Awaits
    <2>3. form[d].id = c.id /\ form[d].loaded /\ Later(c.form, form[d])
      BY <2>2 DEF FreshInv, CallInOrder, Awaits
    <2>4. id \in Existing /\ Wrote(c.form, row)
      BY <1>5, <2>1, <2>2, <2>3 DEF Wrote
    <2>5. articles'[id] = row
      BY <1>1
    <2> QED
      BY <1>2, <1>3, <1>5, <2>1, <2>2, <2>3, <2>4, <2>5 DEF Fresh
  <1> QED
    BY <1>4, <1>5

\* An article changes.
LEMMA ChangeKeeps ==
    ASSUME DeskInv, FreshInv, NEW c \in calls, c.answer = Waiting,
           c.kind \notin {"tags", "article"}, NEW a \in Answer, AnswerTo(c, a),
           NEW id \in Ids, NEW row, Changed(c, id, row),
           OwnSaveInOrder(c, c.desk) /\ id = c.id =>
               id \in Existing /\ row.text = c.form.text /\ row.status = c.form.status,
           names \subseteq names', row # NoRow => row.tags \subseteq names',
           UNCHANGED <<form, made>>
    PROVE  FreshInv'
  <1>1. /\ \A b \in calls' : \/ b \in calls \ {c}
                             \/ /\ b.desk = c.desk /\ b.kind = c.kind /\ b.id = c.id
                                /\ b.heard /\ c.heard /\ b.answer = a /\ ~Awaits(b)
        /\ \A b \in calls' : CallInOrder(b)'
        /\ \A b, e \in calls' : PairInOrder(b, e)'
    BY AnsweredInOrder
  <1>2. NamesKnown'
    <2>1. articles \in [Ids -> Rows \cup {NoRow}] /\ articles' = [articles EXCEPT ![id] = row]
      BY DEF DeskInv, TypeInv, TypeOK, Changed
    <2> QED
      BY <2>1 DEF FreshInv, NamesKnown, Existing
  <1>4. ASSUME NEW d \in Desks, Fresh(d)'
        PROVE  /\ Fresh(d)
               /\ \/ form[d].id # id /\ articles'[form[d].id] = articles[form[d].id]
                  \/ /\ form[d].id = id /\ id = c.id /\ d = c.desk /\ OwnSaveInOrder(c, d)
                     /\ Awaits(c) /\ form[d].loaded /\ Later(c.form, form[d])
                     /\ Wrote(c.form, articles'[id])
    BY <1>4, ChangeIsOwn
  <1>5. ASSUME NEW d \in Desks, Fresh(d)' PROVE FormFresh(d)'
    <2>1. CASE form[d].id # id
      BY <1>4, <1>5, <2>1 DEF FreshInv, FormFresh
    <2>2. CASE form[d].id = id
      <3>2. Agree(form[d], articles'[id])
        BY <1>4, <1>5, <2>2, LaterAgrees
      <3>3. form[d].loaded
        BY <1>4, <1>5, <2>2
      <3> QED
        BY <2>2, <3>2, <3>3 DEF FormFresh
    <2> QED
      BY <2>1, <2>2
  <1>6. ASSUME NEW b \in calls \ {c}, b.heard, Fresh(b.desk)' PROVE CallFresh(b)'
    <2>1. b.desk \in Desks /\ CallFresh(b) /\ CallInOrder(b) /\ CallHasForm(b) /\ CallOK(b)
      BY CallTypes DEF FreshInv
    <2>2. CASE form[b.desk].id # id
      <3>1. Fresh(b.desk) /\ articles'[form[b.desk].id] = articles[form[b.desk].id]
        BY <1>4, <1>6, <2>1, <2>2
      <3>2. b.kind \in {"save", "article"} => form[b.desk].id = b.id
        BY <1>6, <2>1 DEF CallInOrder, CallHasForm
      <3> QED
        BY <1>6, <2>1, <3>1, <3>2 DEF CallFresh, Awaits
    <2>3. CASE form[b.desk].id = id
      <3>1. /\ b.desk = c.desk /\ id = c.id /\ OwnSaveInOrder(c, b.desk) /\ Awaits(c)
            /\ form[b.desk].loaded /\ Wrote(c.form, articles'[id])
        BY <1>4, <1>6, <2>1, <2>3
      <3>2. b.kind # "article"
        BY <1>6, <2>1, <3>1 DEF CallInOrder
      <3>3. ASSUME Awaits(b) PROVE Agree(b.form, articles'[b.id])
        <4>1. b.id = id
          BY <1>6, <2>1, <2>3, <3>3 DEF CallInOrder, Awaits
        <4>2. c.no <= b.no
          BY <3>1, <3>3, CallTypes DEF OwnSaveInOrder, Awaits, Call
        <4>3. Later(c.form, b.form)
          BY <3>1, <3>3, <4>2 DEF FreshInv, PairInOrder, Awaits
        <4> QED
          BY <3>1, <4>1, <4>3, LaterAgrees
      <3> QED
        BY <3>1, <3>2, <3>3 DEF CallFresh, Awaits
    <2> QED
      BY <2>2, <2>3
  <1>7. \A b \in calls' : CallFresh(b)'
    BY <1>1, <1>6 DEF CallFresh, Awaits
  <1> QED
    BY <1>1, <1>2, <1>5, <1>7 DEF FreshInv, FormFresh

LEMMA FailureKeepsFresh ==
    ASSUME DeskInv, FreshInv, NEW c \in calls, c.answer = Waiting, AnswerTo(c, Reply(500, FALSE)),
           UNCHANGED <<articles, names, form, stale, made>>
    PROVE  FreshInv'
  <1>1. PICK a : a = Reply(500, FALSE)
    OBVIOUS
  <1>2. a \in Answer /\ a.code # 200 /\ AnswerTo(c, a)
    BY <1>1, ReplyIsAnswer
  <1> QED
    BY <1>2, AnswerKeeps

\* A handler's own answer is an answer.
LEMMA WorkAnswers ==
    ASSUME NEW c, NEW code \in {200, 500}, AnswerWork(c, code)
    PROVE  \E a \in Answer : AnswerTo(c, a)
  <1>1. PICK asAsked : asAsked = AsAsked(c, articles'[IF c.id = 0 THEN nextId ELSE c.id])
    OBVIOUS
  <1>2. PICK missed : missed = Missed(c)
    OBVIOUS
  <1>3. asAsked \in BOOLEAN /\ missed \in BOOLEAN
    BY <1>1, <1>2 DEF AsAsked, Missed
  <1>4. AnswerTo(c, [Reply(code, asAsked) EXCEPT !.missed = missed])
    BY <1>1, <1>2 DEF AnswerWork
  <1>5. [Reply(code, asAsked) EXCEPT !.missed = missed] \in Answer
    BY <1>3 DEF Reply, Answer
  <1> QED
    BY <1>4, <1>5

\* So it is when the handler changed nothing.
LEMMA IdleKeepsFresh ==
    ASSUME DeskInv, FreshInv, NEW c \in calls, c.answer = Waiting, c.kind \notin {"tags", "article"},
           NEW code \in {200, 500}, AnswerWork(c, code),
           UNCHANGED <<articles, names, form, stale, made>>
    PROVE  FreshInv'
  <1>1. PICK a \in Answer : AnswerTo(c, a)
    BY WorkAnswers
  <1> QED
    BY <1>1, AnswerKeeps

LEMMA ElsewhereKeepsFresh ==
    ASSUME DeskInv, FreshInv, NEW c \in calls, c.answer = Waiting, c.kind # "article",
           AnswerElsewhere(c), UNCHANGED <<catalogue, stale>>, NothingElse
    PROVE  FreshInv'
  <1>0. PICK a : a = [Reply(200, FALSE) EXCEPT !.redirected = TRUE]
    OBVIOUS
  <1>1. a \in Answer /\ a.redirected
    BY <1>0 DEF Reply, Answer
  <1>2. AnswerTo(c, a) /\ UNCHANGED <<articles, names, form, stale, made>>
    BY <1>0 DEF AnswerElsewhere, catalogue, NothingElse, desk
  <1> QED
    BY <1>1, <1>2, AnswerKeeps

LEMMA CreateKeepsFresh ==
    ASSUME DeskInv, FreshInv, NEW c \in calls, c.answer = Waiting, c.kind = "save",
           c.form.id = 0, CreateWithSlug(c), UNCHANGED session, NothingElse
    PROVE  FreshInv'
  <1>1. UNCHANGED <<form, made>> /\ c.id = 0
    BY CallTypes DEF NothingElse, desk, CallOK
  <1>2. CASE WithSlug(c.form.slug) # {}
    <2>1. AnswerWork(c, 500) /\ UNCHANGED <<articles, names, stale>>
      BY <1>2 DEF CreateWithSlug, catalogue
    <2> QED
      BY <1>1, <2>1, IdleKeepsFresh
  <1>3. CASE WithSlug(c.form.slug) = {}
    <2>1. PICK tried \in SUBSET c.form.chosen :
             \E stored \in SUBSET tried, tags \in SUBSET (names \cup Named(tried)) :
                /\ CreationLinks(c.form.chosen, tried, stored, tags)
                /\ Changed(c, nextId, [slug |-> c.form.slug, text |-> c.form.text,
                                       status |-> c.form.status, tags |-> tags])
                /\ names' = names \cup Named(tried)
                /\ AnswerWork(c, IF stored = c.form.chosen THEN 200 ELSE 500)
      BY <1>3 DEF CreateWithSlug
    <2>2. PICK stored \in SUBSET tried, tags \in SUBSET (names \cup Named(tried)) :
             /\ Changed(c, nextId, [slug |-> c.form.slug, text |-> c.form.text,
                                    status |-> c.form.status, tags |-> tags])
             /\ names' = names \cup Named(tried)
             /\ AnswerWork(c, IF stored = c.form.chosen THEN 200 ELSE 500)
      BY <2>1
    <2>7. PICK new : new = [slug |-> c.form.slug, text |-> c.form.text,
                            status |-> c.form.status, tags |-> tags]
      OBVIOUS
    <2>8. Changed(c, nextId, new) /\ new.tags \subseteq names' /\ names \subseteq names'
      BY <2>2, <2>7
    <2>9. PICK code \in {200, 500} : AnswerWork(c, code)
      BY <2>2
    <2>3. nextId' = nextId + 1
      BY <1>3 DEF CreateWithSlug
    <2>4. PICK a \in Answer : AnswerTo(c, a)
      BY <2>9, WorkAnswers
    <2>5. nextId \in Ids
      <3>1. nextId \in Nat
        BY DEF DeskInv, TypeInv, TypeOK
      <3>2. RowAdded
        BY <2>3, <3>1, CreateKeeps DEF TableStep, RowsAlone, RowChanged
      <3> QED
        BY <3>2 DEF RowAdded
    <2>6. nextId # c.id /\ c.kind \notin {"tags", "article"}
      BY <1>1, <2>5 DEF Ids
    <2> QED
      BY <1>1, <2>4, <2>5, <2>6, <2>8, ChangeKeeps
  <1> QED
    BY <1>2, <1>3

LEMMA SaveOverSlugKeepsFresh ==
    ASSUME DeskInv, FreshInv, NEW c \in calls, c.answer = Waiting, c.kind = "save",
           SaveOverSlug(c), NothingElse
    PROVE  FreshInv'
  <1> DEFINE sent == Named(c.form.chosen)
  <1>1. UNCHANGED <<form, made>> /\ c.kind \notin {"tags", "article"}
    BY DEF NothingElse, desk
  <1>2. CASE AnswerWork(c, 500) /\ UNCHANGED <<articles, names, stale>>
    BY <1>1, <1>2, IdleKeepsFresh
  <1>3. CASE ~(AnswerWork(c, 500) /\ UNCHANGED <<articles, names, stale>>)
    <2>1. PICK id \in WithSlug(c.form.slug), new \in SUBSET sent, tags \in SUBSET Tags :
             /\ \/ new = sent /\ LinkedTags(articles[id], sent, tags)
                \/ \E stored \in SUBSET sent : LinkedBy(stored, names \cup new, tags)
             /\ Changed(c, id, Saved(articles[id], c.form, tags))
             /\ names' = names \cup new
      BY <1>3 DEF SaveOverSlug
    <2>2. PICK row : row = Saved(articles[id], c.form, tags)
      OBVIOUS
    <2>3. id \in Existing /\ id \in Ids /\ articles[id] \in Rows /\ articles[id].tags \subseteq names
      BY DEF WithSlug, Existing, DeskInv, TypeInv, TypeOK, FreshInv, NamesKnown
    <2>4. row.tags = tags /\ row.text = c.form.text /\ row.status = c.form.status
      BY <2>2, <2>3 DEF Saved, Rows
    <2>5. tags \subseteq names'
      <3>1. CASE new = sent /\ LinkedTags(articles[id], sent, tags)
        BY <2>1, <2>3, <3>1 DEF LinkedTags, LinkedBy
      <3>2. CASE \E stored \in SUBSET sent : LinkedBy(stored, names \cup new, tags)
        BY <2>1, <3>2 DEF LinkedBy
      <3> QED
        BY <2>1, <3>1, <3>2
    <2>6. AnswerWork(c, 200)
      BY <1>3 DEF SaveOverSlug
    <2>7. PICK a \in Answer : AnswerTo(c, a)
      BY <2>6, WorkAnswers
    <2>8. names \subseteq names' /\ Changed(c, id, row)
      BY <2>1, <2>2
    <2> QED
      BY <1>1, <2>3, <2>4, <2>5, <2>7, <2>8, ChangeKeeps
  <1> QED
    BY <1>2, <1>3

LEMMA ButtonKeepsFresh ==
    ASSUME DeskInv, FreshInv, NEW c \in calls, ServeButton(c)
    PROVE  FreshInv'
  <1>1. /\ c.answer = Waiting /\ AnswerWork(c, 200) /\ UNCHANGED <<names, form, made>>
        /\ c.kind \notin {"save", "tags", "article"} /\ c.id \in Ids
    BY CallTypes, RowAssumption DEF ServeButton, ButtonWorks, NothingElse, desk, CallOK
  <1>2. CASE articles[c.id] = NoRow
    <2>1. UNCHANGED <<articles, stale>>
      BY <1>2 DEF ServeButton, ButtonWorks
    <2> QED
      BY <1>1, <2>1, IdleKeepsFresh
  <1>3. CASE articles[c.id] # NoRow
    <2>1. PICK row : row = IF c.kind = "delete" THEN NoRow
                           ELSE [articles[c.id] EXCEPT !.status =
                                   IF c.kind = "publish" THEN "published" ELSE "archived"]
      OBVIOUS
    <2>2. Changed(c, c.id, row)
      BY <1>3, <2>1 DEF ServeButton, ButtonWorks
    <2>3. articles[c.id] \in Rows /\ c.id \in Existing
      BY <1>1, <1>3 DEF Existing, DeskInv, TypeInv, TypeOK
    <2>4. row # NoRow => row.tags = articles[c.id].tags
      BY <2>1, <2>3 DEF Rows
    <2>5. row # NoRow => row.tags \subseteq names'
      BY <1>1, <2>3, <2>4 DEF FreshInv, NamesKnown
    <2>6. ~OwnSaveInOrder(c, c.desk)
      BY <1>1 DEF OwnSaveInOrder
    <2>7. PICK a \in Answer : AnswerTo(c, a)
      BY <1>1, WorkAnswers
    <2> QED
      BY <1>1, <2>2, <2>5, <2>6, <2>7, ChangeKeeps
  <1> QED
    BY <1>2, <1>3

LEMMA DataKeepsFresh ==
    ASSUME DeskInv, FreshInv, NEW c \in calls, ServeTags(c) \/ ServeArticle(c)
    PROVE  FreshInv'
  <1>1. c.answer = Waiting /\ UNCHANGED <<articles, names, form, stale, made>>
    BY DEF ServeTags, ServeArticle, catalogue, NothingElse, desk
  <1>2. CASE ServeTags(c)
    <2>1. PICK a : a = [Reply(200, TRUE) EXCEPT !.names = names]
      OBVIOUS
    <2>2. c.kind = "tags" /\ AnswerTo(c, a)
      BY <1>2, <2>1 DEF ServeTags
    <2>3. a \in Answer /\ a.names = names
      BY <2>1 DEF Reply, Answer, DeskInv, TypeInv, TypeOK
    <2> QED
      BY <1>1, <2>2, <2>3, AnswerKeeps
  <1>3. CASE ServeArticle(c)
    <2>1. c.kind = "article" /\ c.id \in Ids
      BY <1>3, CallTypes DEF ServeArticle, CallOK
    <2>2. CASE articles[c.id] = NoRow
      <3>1. AnswerTo(c, Reply(500, FALSE))
        BY <1>3, <2>2 DEF ServeArticle
      <3> QED
        BY <1>1, <3>1, FailureKeepsFresh
    <2>3. CASE articles[c.id] # NoRow
      <3>1. PICK a : a = [Reply(200, TRUE) EXCEPT !.row = articles[c.id]]
        OBVIOUS
      <3>2. AnswerTo(c, a)
        BY <1>3, <2>3, <3>1 DEF ServeArticle
      <3>3. articles[c.id] \in Rows
        BY <2>1, <2>3 DEF DeskInv, TypeInv, TypeOK
      <3>4. a \in Answer /\ a.row = articles[c.id]
        BY <3>1, <3>3 DEF Reply, Answer
      <3> QED
        BY <1>1, <2>1, <3>2, <3>4, AnswerKeeps
    <2> QED
      BY <2>2, <2>3
  <1> QED
    BY <1>2, <1>3

LEMMA ServeKeepsFresh ==
    ASSUME DeskInv, FreshInv, NEW c \in calls, Serve(c)
    PROVE  FreshInv'
  <1>1. CASE ServeTurnedAway(c)
    BY <1>1, ElsewhereKeepsFresh DEF ServeTurnedAway
  <1>2. CASE ServeSave(c)
    <2>1. /\ c.answer = Waiting /\ c.kind = "save" /\ UNCHANGED session /\ NothingElse
          /\ IF session[c.desk].user \notin Creators
             THEN AnswerElsewhere(c) /\ UNCHANGED <<catalogue, stale, everSlug, faults>>
             ELSE IF c.form.id = 0 THEN CreateWithSlug(c) ELSE SaveOverSlug(c)
      BY <1>2 DEF ServeSave
    <2>2. CASE AnswerElsewhere(c) /\ UNCHANGED <<catalogue, stale, everSlug, faults>>
      BY <2>1, <2>2, ElsewhereKeepsFresh
    <2>3. CASE c.form.id = 0 /\ CreateWithSlug(c)
      BY <2>1, <2>3, CreateKeepsFresh
    <2>4. CASE SaveOverSlug(c)
      BY <2>1, <2>4, SaveOverSlugKeepsFresh
    <2> QED
      BY <2>1, <2>2, <2>3, <2>4
  <1>3. CASE ServeButton(c)
    BY <1>3, ButtonKeepsFresh
  <1>4. CASE ServeTags(c) \/ ServeArticle(c)
    BY <1>4, DataKeepsFresh
  <1> QED
    BY <1>1, <1>2, <1>3, <1>4 DEF Serve

-----------------------------------------------------------------------------
\* Answers heard or lost.

\* The form is filled, once: of its saves none was of a form that was filled.
LEMMA FillKeeps ==
    ASSUME DeskInv, FreshInv, NEW c \in calls, c.kind = "article", c.answer # Waiting,
           c.answer.code = 200, ~c.answer.redirected, form[c.desk] # NoForm,
           form' = [form EXCEPT ![c.desk] = Fill(form[c.desk], c.answer.row)],
           calls' = calls \ {c}, UNCHANGED <<articles, names, made, stale>>
    PROVE  FreshInv'
  <1>1. PICK d \in Desks : d = c.desk
    BY CallTypes
  <1>2. PICK g : g = Fill(form[d], c.answer.row)
    OBVIOUS
  <1>3. /\ c.heard /\ c.answer.row \in Rows /\ form[d].id = c.id /\ ~form[d].loaded
        /\ form[d] \in Form
    BY <1>1, CallTypes DEF CallOK, CallHasForm, FreshInv, CallInOrder, DeskInv, TypeInv, TypeOK
  <1>4. g.id = c.id /\ g.loaded /\ g # NoForm
    <2>1. g \in Form
      BY <1>2, <1>3, FillIsForm
    <2>2. g.id = c.id /\ g.loaded
      BY <1>2, <1>3 DEF Fill, Form
    <2> QED
      BY <2>1, <2>2, MarkerAssumption
  <1>5. form'[d] = g /\ \A e \in Desks \ {d} : form'[e] = form[e]
    BY <1>1, <1>2 DEF DeskInv, TypeInv, TypeOK
  <1>6. \A e \in Desks : Fresh(e)' => Fresh(e)
    BY <1>1, <1>3, <1>4, <1>5 DEF Fresh, Existing
  <1>7. NamesKnown'
    BY DEF FreshInv, NamesKnown, Existing
  <1>8. ASSUME NEW e \in Desks PROVE FormFresh(e)'
    <2>1. CASE e # d
      BY <1>5, <1>6, <2>1 DEF FreshInv, FormFresh
    <2>2. CASE e = d
      <3>1. SUFFICES ASSUME Fresh(d) PROVE Agree(g, articles[c.id])
        BY <1>4, <1>5, <1>6, <2>2 DEF FormFresh
      <3>2. c.answer.row = articles[c.id]
        BY <1>1, <1>3, <3>1 DEF FreshInv, CallFresh
      <3>3. Listed(form[d], c.answer.row)
        BY <1>3, <3>1, <3>2 DEF FreshInv, FormFresh
      <3> QED
        BY <1>2, <1>3, <3>2, <3>3, Filled
    <2> QED
      BY <2>1, <2>2
  <1>9. ASSUME NEW b \in calls' PROVE CallInOrder(b)' /\ CallFresh(b)'
    <2>1. /\ b \in calls /\ b # c /\ b.desk \in Desks /\ CallInOrder(b) /\ CallFresh(b)
          /\ PairInOrder(b, c)
      BY CallTypes DEF FreshInv
    <2>2. CASE b.desk # d
      <3>1. form'[b.desk] = form[b.desk]
        BY <1>5, <2>1, <2>2
      <3> QED
        BY <1>6, <2>1, <3>1 DEF CallInOrder, CallFresh, Awaits
    <2>3. CASE b.desk = d
      <3>1. b.heard => b.kind # "article" /\ ~Awaits(b)
        BY <1>1, <1>3, <2>1, <2>3 DEF PairInOrder, CallInOrder, Awaits
      <3>2. CallInOrder(b)'
        BY <1>3, <1>4, <1>5, <2>1, <2>3, <3>1 DEF CallInOrder, Awaits
      <3>3. CallFresh(b)'
        BY <1>4, <1>5, <2>3, <3>1 DEF CallFresh, Awaits
      <3> QED
        BY <3>2, <3>3
    <2> QED
      BY <2>2, <2>3
  <1>10. \A b, e \in calls' : PairInOrder(b, e)'
    BY DEF FreshInv, PairInOrder, Awaits
  <1> QED
    BY <1>7, <1>8, <1>9, <1>10 DEF FreshInv

LEMMA HearDataKeepsFresh ==
    ASSUME DeskInv, FreshInv, NEW c \in calls, HearData(c)
    PROVE  FreshInv'
  <1>1. /\ c.answer # Waiting /\ c.kind \in {"tags", "article"} /\ calls' = calls \ {c}
        /\ form' = [form EXCEPT ![c.desk] = Heard(c)]
        /\ UNCHANGED <<articles, names, made, stale>>
    BY DEF HearData, catalogue, counters
  <1>2. /\ c.heard /\ c.desk \in Desks /\ c.answer.code \in {200, 500}
        /\ c.answer.names \in SUBSET Tags
    BY <1>1, CallTypes DEF Answer
  <1>3. form \in [Desks -> Form \cup {NoForm}]
    BY DEF DeskInv, TypeInv, TypeOK
  <1>4. CASE form[c.desk] = NoForm \/ c.answer.redirected \/ c.answer.code = 500
    <2>1. form' = form
      BY <1>1, <1>2, <1>3, <1>4 DEF Heard
    <2> QED
      BY <1>1, <2>1, QuietKeeps
  <1>5. CASE /\ form[c.desk] # NoForm /\ ~c.answer.redirected /\ c.answer.code = 200
             /\ c.kind = "tags"
    <2>1. PICK g : g = TakeList(form[c.desk], c.answer.names)
      OBVIOUS
    <2>2. form[c.desk] \in Form /\ form' = [form EXCEPT ![c.desk] = g]
      <3>1. Heard(c) = g
        BY <1>5, <2>1 DEF Heard
      <3> QED
        BY <1>1, <1>2, <1>3, <1>5, <3>1
    <2>3. /\ g.id = form[c.desk].id /\ g.loaded = form[c.desk].loaded /\ g # NoForm
          /\ Later(form[c.desk], g) /\ \A row : Agree(form[c.desk], row) => Agree(g, row)
          /\ \A row : row.tags \subseteq c.answer.names => Listed(g, row)
      BY <1>2, <2>1, <2>2, ListTaken, MarkerAssumption
    <2>4. Fresh(c.desk) /\ ~g.loaded => Listed(g, articles[g.id])
      BY <1>1, <1>2, <1>5, <2>3 DEF FreshInv, CallFresh
    <2> QED
      BY <1>1, <1>2, <1>5, <2>2, <2>3, <2>4, MovedKeeps
  <1>6. CASE /\ form[c.desk] # NoForm /\ ~c.answer.redirected /\ c.answer.code = 200
             /\ c.kind = "article"
    <2>1. Heard(c) = Fill(form[c.desk], c.answer.row)
      <3>1. c.kind # "tags" /\ c.answer.code # 500
        BY <1>6
      <3> QED
        BY <1>6, <3>1, Zenon DEF Heard
    <2> QED
      BY <1>1, <1>6, <2>1, FillKeeps
  <1> QED
    BY <1>1, <1>2, <1>4, <1>5, <1>6

LEMMA EndedKeepsFresh ==
    ASSUME DeskInv, FreshInv, NEW c \in calls, HearVerdict(c) \/ Lose(c)
    PROVE  FreshInv'
  <1>1. calls' \subseteq calls /\ UNCHANGED <<articles, names, form, made, stale>>
    BY DEF HearVerdict, Lose, catalogue, desk, counters
  <1> QED
    BY <1>1, QuietKeeps

-----------------------------------------------------------------------------
\* What the user does.

LEMMA NavigationKeepsFresh ==
    ASSUME DeskInv, FreshInv, NEW d \in Desks, NEW p, Show(d, p, NoForm),
           calls' = StopListening(d), UNCHANGED <<articles, names, made>>
    PROVE  FreshInv'
  <1>1. PICK new : new = {}
    OBVIOUS
  <1>2. calls' = StopListening(d) \cup new /\ MoreMade
    BY <1>1 DEF MoreMade, DeskInv, TypeInv, TypeOK
  <1> QED
    BY <1>1, <1>2, ShownKeeps

LEMMA OpenMainKeepsFresh ==
    ASSUME DeskInv, FreshInv, NEW d \in Desks, OpenMain(d) \/ TurnedAway(d)
    PROVE  FreshInv'
  <1>1. /\ \E p : Show(d, p, NoForm)
        /\ calls' = StopListening(d) /\ UNCHANGED <<articles, names, made>>
    BY DEF OpenMain, TurnedAway, catalogue, counters
  <1> QED
    BY <1>1, NavigationKeepsFresh

\* The editor opens with the page's own options, none of them from the list.
LEMMA OpenEditorKeepsFresh ==
    ASSUME DeskInv, FreshInv, NEW d \in Desks, NEW id \in Ids, OpenEditor(d, id)
    PROVE  FreshInv'
  <1>1. CASE TurnedAway(d)
    BY <1>1, OpenMainKeepsFresh
  <1>2. CASE ~TurnedAway(d)
    <2>1. PICK list, article : /\ list = Sent(d, "tags", 0, NoForm, made[d] + 1)
                               /\ article = Sent(d, "article", id, NoForm, made[d] + 2)
      OBVIOUS
    <2>2. PICK f : f = Blank("editor", id)
      OBVIOUS
    <2>3. PICK new : new = {list, article}
      OBVIOUS
    <2>4. /\ calls' = StopListening(d) \cup new /\ Show(d, "editor", f)
          /\ made' = [made EXCEPT ![d] = @ + 2] /\ UNCHANGED <<articles, names>>
      BY <1>2, <2>1, <2>2, <2>3 DEF OpenEditor, Number, catalogue
    <2>5. made \in [Desks -> Nat]
      BY DEF DeskInv, TypeInv, TypeOK
    <2>6. /\ list.desk = d /\ list.kind = "tags" /\ list.answer = Waiting /\ list.no = made[d] + 1
          /\ article.desk = d /\ article.kind = "article" /\ article.answer = Waiting
          /\ article.no = made[d] + 2
      BY <2>1 DEF Sent
    <2>7. f \in Form /\ f # NoForm /\ ~f.loaded /\ f.options = {"typed"} \X Placeholders
      BY <2>2, BlankIsForm, MarkerAssumption DEF Blank, Initial
    <2>8. ~ListIn(f)
      BY <2>7 DEF ListIn
    <2>9. \A c \in new : /\ c.desk = d /\ c.answer = Waiting /\ c.no <= made'[d]
                         /\ c.kind \in {"tags", "article"}
                         /\ c.kind = "article" => f # NoForm
      BY <2>3, <2>4, <2>5, <2>6, <2>7
    <2>10. \A b, c \in new : b.kind = "article" /\ c.kind = "article" => b = c
      BY <2>3, <2>6
    <2>11. MoreMade
      BY <2>4, <2>5 DEF MoreMade
    <2>12. f # NoForm => ~f.loaded /\ (f.id = 0 \/ ~ListIn(f))
      BY <2>7, <2>8
    <2> QED
      BY <2>4, <2>7, <2>9, <2>10, <2>11, <2>12, ShownKeeps
  <1> QED
    BY <1>1, <1>2

LEMMA OpenCreatorKeepsFresh ==
    ASSUME DeskInv, FreshInv, NEW d \in Desks, OpenCreator(d)
    PROVE  FreshInv'
  <1>1. CASE TurnedAway(d)
    BY <1>1, OpenMainKeepsFresh
  <1>2. CASE ~TurnedAway(d)
    <2>1. PICK list : list = Sent(d, "tags", 0, NoForm, made[d] + 1)
      OBVIOUS
    <2>2. PICK f : f = Blank("creator", 0)
      OBVIOUS
    <2>3. PICK new : new = {list}
      OBVIOUS
    <2>4. /\ calls' = StopListening(d) \cup new /\ Show(d, "creator", f)
          /\ made' = [made EXCEPT ![d] = @ + 1] /\ UNCHANGED <<articles, names>>
      BY <1>2, <2>1, <2>2, <2>3 DEF OpenCreator, Number, catalogue
    <2>5. made \in [Desks -> Nat]
      BY DEF DeskInv, TypeInv, TypeOK
    <2>6. /\ list.desk = d /\ list.kind = "tags" /\ list.answer = Waiting /\ list.no = made[d] + 1
      BY <2>1 DEF Sent
    <2>7. f \in Form /\ f.id = 0 /\ ~f.loaded
      BY <2>2, BlankIsForm
    <2>8. \A c \in new : /\ c.desk = d /\ c.answer = Waiting /\ c.no <= made'[d]
                         /\ c.kind \in {"tags", "article"} /\ c.kind # "article"
      BY <2>3, <2>4, <2>5, <2>6
    <2>9. MoreMade
      BY <2>4, <2>5 DEF MoreMade
    <2> QED
      BY <2>4, <2>7, <2>8, <2>9, ShownKeeps
  <1> QED
    BY <1>1, <1>2

LEMMA LoginKeepsFresh ==
    ASSUME DeskInv, FreshInv, NEW d \in Desks,
           LoginRefused(d) \/ \E user \in Users : Login(d, user)
    PROVE  FreshInv'
  <1>1. CASE LoginRefused(d)
    <2>1. calls' \subseteq calls /\ UNCHANGED <<articles, names, form, made, stale>>
      BY <1>1 DEF LoginRefused, catalogue, desk, counters
    <2> QED
      BY <2>1, QuietKeeps
  <1>2. ASSUME NEW user \in Users, Login(d, user)
        PROVE  FreshInv'
    <2>1. /\ Show(d, "main", NoForm) /\ page[d] = "login"
          /\ calls' \subseteq calls /\ UNCHANGED <<articles, names, made>>
      BY <1>2 DEF Login, catalogue, counters
    <2>2. form[d] = NoForm
      BY <2>1 DEF DeskInv, TypeInv, PageHasForm
    <2>3. form' = form /\ \A e \in Desks : form[e] # NoForm => stale'[e] = stale[e]
      BY <2>1, <2>2 DEF Show, DeskInv, TypeInv, TypeOK
    <2> QED
      BY <2>1, <2>3, QuietKeeps
  <1> QED
    BY <1>1, <1>2

LEMMA EditKeepsFresh ==
    ASSUME DeskInv, FreshInv, NEW d \in Desks, NEW g, Edit(d, g), Edited(form[d], g),
           g.id = form[d].id, g.loaded = form[d].loaded, g # NoForm
    PROVE  FreshInv'
  <1>1. /\ form[d] # NoForm /\ form' = [form EXCEPT ![d] = g] /\ calls' \subseteq calls
        /\ UNCHANGED <<articles, names, made, stale>>
    BY DEF Edit, catalogue
  <1>2. /\ Later(form[d], g) /\ \A row : Agree(form[d], row) => Agree(g, row)
        /\ \A row : Listed(form[d], row) => Listed(g, row)
    BY EditedIsLater
  <1>3. Fresh(d) /\ ~g.loaded => Listed(g, articles[g.id])
    BY <1>2 DEF FreshInv, FormFresh
  <1> QED
    BY <1>1, <1>2, <1>3, MovedKeeps

LEMMA EditsKeepFresh ==
    ASSUME DeskInv, FreshInv, NEW d \in Desks,
           \/ \E text \in Texts : TypeText(d, text)
           \/ \E s \in Picks : PickStatus(d, s)
           \/ \E slug \in Slugs : TypeSlug(d, slug)
           \/ \E o \in Options : Choose(d, o)
           \/ \E t \in Tags : AddTag(d, t)
    PROVE  FreshInv'
  <1>1. form[d] \in Form /\ form'[d] # NoForm
    <2>1. form[d] \in Form
      BY DEF TypeText, PickStatus, TypeSlug, Choose, AddTag, Edit, DeskInv, TypeInv, TypeOK
    <2>2. DeskInv'
      BY EditsKeep
    <2>3. page' = page /\ page[d] \in {"creator", "editor"}
      BY <2>1, MarkerAssumption
      DEF TypeText, PickStatus, TypeSlug, Choose, AddTag, Edit, DeskInv, TypeInv, PageHasForm
    <2> QED
      BY <2>1, <2>2, <2>3 DEF DeskInv, TypeInv, PageHasForm
  <1>2. ASSUME NEW g, Edit(d, g), Edited(form[d], g), g.id = form[d].id,
               g.loaded = form[d].loaded
        PROVE  FreshInv'
    <2>1. g # NoForm
      BY <1>1, <1>2 DEF Edit, DeskInv, TypeInv, TypeOK
    <2> QED
      BY <1>2, <2>1, EditKeepsFresh
  <1>3. ASSUME NEW text \in Texts, TypeText(d, text)
        PROVE  FreshInv'
    <2>1. PICK g : g = [form[d] EXCEPT !.text = text, !.touched = Touch(d, "text")]
      OBVIOUS
    <2>2. g.id = form[d].id /\ g.loaded = form[d].loaded /\ Edited(form[d], g)
      BY <1>1, <2>1 DEF Form, Touch, Edited, ListIn
    <2> QED
      BY <1>2, <1>3, <2>1, <2>2 DEF TypeText
  <1>4. ASSUME NEW s \in Picks, PickStatus(d, s)
        PROVE  FreshInv'
    <2>1. PICK g : g = [form[d] EXCEPT !.status = s, !.touched = Touch(d, "status")]
      OBVIOUS
    <2>2. g.id = form[d].id /\ g.loaded = form[d].loaded /\ Edited(form[d], g)
      BY <1>1, <2>1 DEF Form, Touch, Edited, ListIn
    <2> QED
      BY <1>2, <1>4, <2>1, <2>2 DEF PickStatus
  <1>5. ASSUME NEW slug \in Slugs, TypeSlug(d, slug)
        PROVE  FreshInv'
    <2>1. PICK g : g = [form[d] EXCEPT !.slug = slug]
      OBVIOUS
    <2>2. g.id = form[d].id /\ g.loaded = form[d].loaded /\ Edited(form[d], g)
      BY <1>1, <2>1 DEF Form, Edited, ListIn
    <2> QED
      BY <1>2, <1>5, <2>1, <2>2 DEF TypeSlug
  <1>6. ASSUME NEW o \in Options, Choose(d, o)
        PROVE  FreshInv'
    <2>1. PICK g : g = [form[d] EXCEPT !.touched = Touch(d, "tags"),
                                       !.chosen = IF o \in @ THEN @ \ {o} ELSE @ \cup {o}]
      OBVIOUS
    <2>2. g.id = form[d].id /\ g.loaded = form[d].loaded /\ Edited(form[d], g)
      BY <1>1, <2>1 DEF Form, Touch, Edited, ListIn
    <2> QED
      BY <1>2, <1>6, <2>1, <2>2 DEF Choose
  <1>7. ASSUME NEW t \in Tags, AddTag(d, t)
        PROVE  FreshInv'
    <2>1. PICK g : g = [form[d] EXCEPT !.touched = Touch(d, "added"),
                                       !.options = @ \cup {<<"typed", t>>},
                                       !.chosen = @ \cup {<<"typed", t>>}]
      OBVIOUS
    <2>2. /\ g.id = form[d].id /\ g.loaded = form[d].loaded /\ g.text = form[d].text
          /\ g.status = form[d].status /\ g.touched = form[d].touched \cup {"added"}
          /\ g.options = form[d].options \cup {<<"typed", t>>}
      BY <1>1, <2>1 DEF Form, Touch
    <2>3. ListIn(g) => ListIn(form[d])
      BY <2>2 DEF ListIn
    <2>4. Edited(form[d], g)
      BY <2>2, <2>3 DEF Edited
    <2> QED
      BY <1>2, <1>7, <2>1, <2>2, <2>4 DEF AddTag
  <1> QED
    BY <1>3, <1>4, <1>5, <1>6, <1>7

LEMMA ClicksKeepFresh ==
    ASSUME DeskInv, FreshInv, NEW d \in Desks,
           Save(d) \/ \E button \in Buttons, id \in Ids : Press(d, button, id)
    PROVE  FreshInv'
  <1>1. CASE Save(d)
    <2>1. form[d] # NoForm /\ Send(d, "save", form[d].id, form[d])
      BY <1>1 DEF Save
    <2> QED
      BY <2>1, ClickKeeps
  <1>2. ASSUME NEW button \in Buttons, NEW id \in Ids, Press(d, button, id)
        PROVE  FreshInv'
    <2>1. button # "save" /\ Send(d, button, id, NoForm)
      BY <1>2, RowAssumption DEF Press
    <2> QED
      BY <2>1, ClickKeeps
  <1> QED
    BY <1>1, <1>2

-----------------------------------------------------------------------------
\* The invariant, and the theorem.

LEMMA FreshInit == Init => FreshInv
  <1> SUFFICES ASSUME Init
               PROVE  FreshInv
    OBVIOUS
  <1>1. calls = {} /\ \A d \in Desks : form[d] = NoForm
    BY DEF Init
  <1>2. NamesKnown
    BY DEF Init, NamesKnown, Existing
  <1> QED
    BY <1>1, <1>2 DEF FreshInv, FormFresh, Fresh

LEMMA FreshStep == DeskInv /\ FreshInv /\ [Next]_vars => FreshInv'
  <1> SUFFICES ASSUME DeskInv, FreshInv, [Next]_vars
               PROVE  FreshInv'
    OBVIOUS
  <1>1. ASSUME NEW d \in Desks, UserActs(d)
        PROVE  FreshInv'
    BY <1>1, LoginKeepsFresh, OpenMainKeepsFresh, OpenEditorKeepsFresh, OpenCreatorKeepsFresh,
       EditsKeepFresh, ClicksKeepFresh DEF UserActs
  <1>2. ASSUME NEW c \in calls, Serve(c) \/ Hear(c) \/ Lose(c)
        PROVE  FreshInv'
    BY <1>2, ServeKeepsFresh, HearDataKeepsFresh, EndedKeepsFresh DEF Hear
  <1>3. CASE Drift \/ UNCHANGED vars
    <2>1. calls' \subseteq calls /\ UNCHANGED <<articles, names, form, made, stale>>
      BY <1>3 DEF Drift, vars, catalogue, desk
    <2> QED
      BY <2>1, QuietKeeps
  <1> QED
    BY <1>1, <1>2, <1>3 DEF Next

\* What the theorem says of one save c.
Untouched(c) ==
    /\ c.id \in Existing'
    /\ "text" \notin c.form.touched => articles'[c.id].text = articles[c.id].text
    /\ "status" \notin c.form.touched => articles'[c.id].status = articles[c.id].status
    /\ c.form.touched \cap {"added", "tags"} = {} =>
          /\ FoundFrom(articles'[c.id].tags, articles[c.id].tags)
          /\ ListIn(c.form) /\ faults' = faults =>
                \A n \in articles[c.id].tags : \E m \in articles'[c.id].tags : <<n, m>> \in Like

\* It is so of a save that leaves its article alone.
LEMMA LeftAlone ==
    ASSUME DeskInv, NEW c \in calls, c.id \in Existing, c.id \in Existing',
           articles'[c.id] = articles[c.id]
    PROVE  Untouched(c)
  <1>1. articles[c.id].tags \subseteq Tags
    BY DEF DeskInv, TypeInv, TypeOK, Existing, Rows
  <1>2. \A t \in articles[c.id].tags : <<t, t>> \in Like
    BY <1>1, LikeAssumption
  <1> QED
    BY <1>2 DEF Untouched, FoundFrom

LEMMA SavedUntouched ==
    ASSUME DeskInv, FreshInv, NEW c \in calls, FreshSave(c), SaveOverSlug(c)
    PROVE  Untouched(c)
  <1>1. /\ c.kind = "save" /\ c.heard /\ Awaits(c) /\ ~stale[c.desk]
        /\ c.id \in Ids /\ c.id \in Existing
    BY DEF FreshSave, Served, Awaits, Existing
  <1>2. Agree(c.form, articles[c.id])
    <2>1. form[c.desk] # NoForm /\ form[c.desk].id = c.id
      BY <1>1 DEF FreshInv, CallInOrder
    <2> QED
      BY <1>1, <2>1 DEF FreshInv, CallFresh, Fresh
  <1>3. articles \in [Ids -> Rows \cup {NoRow}] /\ articles[c.id] \in Rows
    BY <1>1 DEF DeskInv, TypeInv, TypeOK, Existing
  <1>4. CASE UNCHANGED articles
    BY <1>1, <1>4, LeftAlone DEF Existing
  <1>5. CASE ~(UNCHANGED articles)
    <2> DEFINE sent == Named(c.form.chosen)
    <2>1. PICK id \in WithSlug(c.form.slug), new \in SUBSET sent, tags \in SUBSET Tags :
             /\ \/ LinkedTags(articles[id], sent, tags)
                \/ Fault /\ \E stored \in SUBSET sent : LinkedBy(stored, names \cup new, tags)
             /\ Changed(c, id, Saved(articles[id], c.form, tags))
      BY <1>5 DEF SaveOverSlug
    <2>2. CASE id # c.id
      <3>1. articles'[c.id] = articles[c.id]
        BY <1>1, <1>3, <2>1, <2>2 DEF Changed
      <3> QED
        BY <1>1, <3>1, LeftAlone DEF Existing
    <2>3. CASE id = c.id
      <3>1. PICK row : row = Saved(articles[c.id], c.form, tags)
        OBVIOUS
      <3>2. articles'[c.id] = row
        BY <1>1, <1>3, <2>1, <2>3, <3>1 DEF Changed
      <3>3. row.text = c.form.text /\ row.status = c.form.status /\ row.tags = tags
        BY <1>3, <3>1 DEF Saved, Rows
      <3>4. c.id \in Existing'
        <4>1. c.form \in Form
          BY <1>1, CallTypes DEF CallOK
        <4>2. row \in Rows
          BY <1>3, <3>1, <4>1 DEF Saved, Rows, Form
        <4> QED
          BY <1>1, <3>2, <4>2, MarkerAssumption DEF Existing
      <3>5. FoundFrom(tags, articles[c.id].tags) \/ ~(sent \subseteq articles[c.id].tags)
        <4>0. \A t \in articles[c.id].tags : <<t, t>> \in Like
          BY <1>3, LikeAssumption DEF Rows
        <4>1. CASE \E known : \E stored \in SUBSET sent : LinkedBy(stored, known, tags)
          BY <4>1 DEF LinkedBy, FoundFrom
        <4>2. CASE tags = articles[c.id].tags
          BY <4>0, <4>2 DEF FoundFrom
        <4>3. \/ tags = articles[c.id].tags
              \/ \E known : \E stored \in SUBSET sent : LinkedBy(stored, known, tags)
          BY <2>1, <2>3 DEF LinkedTags
        <4> QED
          BY <4>1, <4>2, <4>3
      <3>6. (sent = {} \/ sent = articles[c.id].tags) /\ faults' = faults =>
               \A n \in articles[c.id].tags : \E m \in tags : <<n, m>> \in Like
        <4>1. faults \in Nat
          BY BoundAssumption DEF DeskInv, TypeInv, TypeOK
        <4>2. faults' = faults => LinkedTags(articles[c.id], sent, tags)
          BY <2>1, <2>3, <4>1 DEF Fault
        <4>3. CASE tags = articles[c.id].tags
          BY <4>3, LikeAssumption
        <4>4. CASE sent = articles[c.id].tags /\ \E known : LinkedBy(sent, known, tags)
          BY <4>4 DEF LinkedBy
        <4> QED
          BY <4>2, <4>3, <4>4 DEF LinkedTags
      <3>7. c.form.touched \cap {"added", "tags"} = {} =>
               /\ FoundFrom(row.tags, articles[c.id].tags)
               /\ ListIn(c.form) /\ faults' = faults =>
                     \A n \in articles[c.id].tags : \E m \in row.tags : <<n, m>> \in Like
        BY <1>2, <3>3, <3>5, <3>6 DEF Agree
      <3> QED
        BY <1>2, <3>2, <3>3, <3>4, <3>7 DEF Agree, Untouched
    <2> QED
      BY <2>2, <2>3
  <1> QED
    BY <1>4, <1>5

LEMMA FreshSaveUntouched ==
    ASSUME DeskInv, FreshInv, [Next]_vars, NEW c \in calls, FreshSave(c)
    PROVE  Untouched(c)
  <1>1. CASE UNCHANGED articles
    BY <1>1, LeftAlone DEF FreshSave, Existing
  <1>2. ASSUME NEW b \in calls, ServeSave(b) \/ ServeButton(b)
        PROVE  Untouched(c)
    <2>1. CASE b # c
      <3>1. \E a : AnswerTo(b, a)
        BY <1>2, Zenon DEF ServeSave, ServeButton, AnswerElsewhere, CreateWithSlug, SaveOverSlug,
                           ButtonWorks, AnswerWork
      <3> QED
        BY <2>1, <3>1 DEF AnswerTo, FreshSave, Served
    <2>2. CASE b = c
      <3>1. c.kind = "save" /\ c.id \in Existing /\ c.form.id = c.id /\ c.kind \notin Buttons
        BY CallTypes, RowAssumption DEF FreshSave, CallOK
      <3>2. c.form.id # 0
        BY <3>1 DEF Existing, Ids
      <3>3. UNCHANGED articles \/ SaveOverSlug(c)
        BY <1>2, <2>2, <3>1, <3>2 DEF ServeSave, ServeButton, catalogue
      <3> QED
        BY <1>1, <3>3, SavedUntouched
    <2> QED
      BY <2>1, <2>2
  <1>3. ASSUME NEW b \in calls, Serve(b)
        PROVE  Untouched(c)
    BY <1>1, <1>2, <1>3 DEF Serve, ServeTurnedAway, ServeTags, ServeArticle, catalogue
  <1>4. ASSUME NEW d \in Desks, UserActs(d)
        PROVE  Untouched(c)
    BY <1>1, <1>4
    DEF UserActs, Login, LoginRefused, OpenMain, OpenCreator, OpenEditor, TurnedAway,
        TypeText, PickStatus, TypeSlug, Choose, AddTag, Edit, Save, Press, Send, catalogue
  <1>5. ASSUME NEW b \in calls, Hear(b) \/ Lose(b)
        PROVE  Untouched(c)
    BY <1>1, <1>5 DEF Hear, HearData, HearVerdict, Lose, catalogue
  <1>6. CASE Drift \/ UNCHANGED vars
    BY <1>1, <1>6 DEF Drift, vars, catalogue
  <1> QED
    BY <1>3, <1>4, <1>5, <1>6 DEF Next

THEOREM FreshInvariant == Spec => []FreshInv
  BY FreshInit, FreshStep, DeskInvariant, PTL DEF Spec

\* In whatever order the lists and the article were heard and edits and saves
\* made between them, a save that nothing overtook writes what the user changed
\* and leaves the rest of its article: saveArticle in the editor's script sends
\* the whole form, and the handler updates the whole row.
THEOREM UntouchedFieldsKeptHolds == Spec => UntouchedFieldsKept
  <1> DEFINE Kept == \A c \in calls : FreshSave(c) => Untouched(c)
  <1>1. DeskInv /\ FreshInv /\ [Next]_vars => [Kept]_vars
    BY FreshSaveUntouched
  <1>2. [][Kept]_vars => UntouchedFieldsKept
    <2>1. Kept => \A c \in calls : FreshSave(c) =>
                     /\ c.id \in Existing'
                     /\ "text" \notin c.form.touched => articles'[c.id].text = articles[c.id].text
                     /\ "status" \notin c.form.touched =>
                           articles'[c.id].status = articles[c.id].status
                     /\ c.form.touched \cap {"added", "tags"} = {} =>
                           /\ FoundFrom(articles'[c.id].tags, articles[c.id].tags)
                           /\ ListIn(c.form) /\ faults' = faults =>
                                 \A n \in articles[c.id].tags :
                                    \E m \in articles'[c.id].tags : <<n, m>> \in Like
      BY DEF Untouched
    <2> QED
      BY <2>1, PTL DEF UntouchedFieldsKept
  <1> QED
    BY <1>1, <1>2, DeskInvariant, FreshInvariant, PTL DEF Spec
=============================================================================
