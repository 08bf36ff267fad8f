----------------------------- MODULE AdminDesk -----------------------------
(***************************************************************************)
(* The admin pages in the browser (src/views/admin) over the handlers they *)
(* call. A page is opened by a navigation, which the session check         *)
(* may turn into the login page; whatever it does afterwards it does by    *)
(* fetch: each call goes to the server on a connection of its own, is      *)
(* handled whole, one at a time, and its answer comes back in any order    *)
(* with the other answers and with what the user does meanwhile.           *)
(*                                                                         *)
(* Sessions are those of SessionService, which SessionRepository           *)
(* implements; a desk is a browser with the session id it was given last.  *)
(* Of an article only its slug, text, status and tags matter here. The     *)
(* keywords and categories, which are like tags, the statements one by one *)
(* and the failures that a handler answers with 500 are in ArticleStore.   *)
(***************************************************************************)
EXTENDS Naturals, FiniteSets

CONSTANTS
    Desks, Users,
    Creators, Editors, \* users whose roles have the permission
    Slugs, Texts, Tags,
    Like,           \* pairs <<n, m>> such that the name m LIKE '%n%'
    Empty,          \* an empty text field
    Placeholders,   \* tags written into the form's HTML
    Picks,          \* statuses that users pick in forms
    Buttons,        \* buttons of the main page that users press
    Authors,        \* bound: the desks that open forms,
    Pressers,       \* and those that press the buttons of the main page
    MaxId,          \* bound on the articles ever created
    InitialTags,    \* tags of the article there at the start
    InitialSlug, InitialText,
    MaxCalls,       \* bound on the calls ever made by fetch
    MaxEdits,       \* bound on what users change in forms
    MaxFaults,      \* bound on drifts of the sessions, lost answers, failed links
    Out, NoRow, NoForm, Waiting

Statuses == {"draft", "published", "archived"}
Ids == 1..MaxId
Rows == [slug : Slugs \cup {Empty}, text : Texts \cup {Empty}, status : Statuses, tags : SUBSET Tags]

\* An option of the tag list: its value is the tag's id when the server listed
\* it, and its text when it was typed or is part of the page.
Options == {"listed", "typed"} \X Tags
\* Tags may be typed in addition ("added") or clicked on ("tags").
Fields == {"text", "status", "added", "tags"}
Form == [id : Ids \cup {0}, slug : Slugs \cup {Empty}, text : Texts \cup {Empty}, status : Statuses,
         options : SUBSET Options, chosen : SUBSET Options,
         loaded : BOOLEAN, touched : SUBSET Fields]

Kinds == {"tags", "article", "save"} \cup Buttons

ASSUME BoundAssumption == {MaxId, MaxCalls, MaxEdits, MaxFaults} \subseteq Nat /\ MaxId > 0
ASSUME UserAssumption == Authors \cup Pressers \subseteq Desks /\ Creators \subseteq Users /\ Editors \subseteq Users
ASSUME LikeAssumption == Like \subseteq Tags \X Tags /\ \A t \in Tags : <<t, t>> \in Like
ASSUME RowAssumption ==
    /\ InitialSlug \in Slugs /\ InitialText \in Texts /\ InitialTags \subseteq Tags
    /\ Placeholders \subseteq Tags /\ Empty \notin Slugs \cup Texts
    /\ Picks \subseteq Statuses /\ Buttons \subseteq {"publish", "archive", "delete"}

VARIABLES
    articles,   \* id -> row, or NoRow
    nextId,     \* AUTO_INCREMENT
    names,      \* table tags
    session,    \* the session of each desk, of SessionService
    page,       \* desk -> the page it shows
    cards,      \* desk -> ids of the cards on its main page
    form,       \* desk -> its open form, or NoForm
    calls,      \* calls made and not yet taken note of
    told,       \* history: desk -> what the last alert said and what was true
    stale,      \* history: desk -> its article was changed since the form was
                \* opened, not only by the form's own saves in their order,
                \* sent once it was filled and linked as they were sent
    everSlug,   \* history: id -> slug it was created with
    made,       \* desk -> the calls it has made
    edits, faults   \* counters for the bounds

catalogue == <<articles, nextId, names>>
desk == <<page, cards, form>>
counters == <<made, edits, faults>>
vars == <<articles, nextId, names, session, page, cards, form, calls, told, stale,
          everSlug, made, edits, faults>>

S == INSTANCE SessionService WITH Ids <- Desks

\* An answer as fetch sees it: redirects are followed before it looks. History:
\* whether what was asked for is so now ("done"), and whether the handler could
\* not find the article that it was asked for ("missed").
Answer == [code : {200, 500}, redirected : BOOLEAN, done : BOOLEAN, missed : BOOLEAN,
           names : SUBSET Tags, row : Rows \cup {NoRow}]

Call == [no : Nat, desk : Desks, kind : Kinds, id : Ids \cup {0},
         form : Form \cup {NoForm}, answer : Answer \cup {Waiting}, heard : BOOLEAN]

Told == [said : {"nothing", "success", "failure", "unsent"},
         done : BOOLEAN, missed : BOOLEAN, redirected : BOOLEAN]

\* The markers are none of the values they stand in for.
ASSUME MarkerAssumption ==
    /\ NoRow \notin Rows /\ NoForm \notin Form /\ Waiting \notin Answer
    /\ Out \notin [user : Users, usable : BOOLEAN]

TypeOK ==
    /\ articles \in [Ids -> Rows \cup {NoRow}]
    /\ nextId \in 1..(MaxId + 1)
    /\ names \subseteq Tags
    /\ session \in [Desks -> [user : Users, usable : BOOLEAN] \cup {Out}]
    /\ page \in [Desks -> {"login", "main", "editor", "creator"}]
    /\ cards \in [Desks -> SUBSET Ids]
    /\ form \in [Desks -> Form \cup {NoForm}]
    /\ calls \subseteq Call
    /\ told \in [Desks -> Told]
    /\ stale \in [Desks -> BOOLEAN]
    /\ everSlug \in [Ids -> Slugs \cup {Empty}]
    /\ made \in [Desks -> Nat] /\ edits \in 0..MaxEdits
    /\ faults \in 0..MaxFaults

Silence == [said |-> "nothing", done |-> FALSE, missed |-> FALSE, redirected |-> FALSE]

Init ==
    /\ articles = [id \in Ids |-> IF id # 1 THEN NoRow
                                  ELSE [slug |-> InitialSlug, text |-> InitialText,
                                        status |-> "draft", tags |-> InitialTags]]
    /\ nextId = 2
    /\ names = InitialTags
    /\ S!Init
    /\ page = [d \in Desks |-> "login"]
    /\ cards = [d \in Desks |-> {}]
    /\ form = [d \in Desks |-> NoForm]
    /\ calls = {}
    /\ told = [d \in Desks |-> Silence]
    /\ stale = [d \in Desks |-> FALSE]
    /\ everSlug = [id \in Ids |-> IF id = 1 THEN InitialSlug ELSE Empty]
    /\ made = [d \in Desks |-> 0] /\ edits = 0 /\ faults = 0

-----------------------------------------------------------------------------
\* Pages and navigation.

Existing == {id \in Ids : articles[id] # NoRow}

OptionValues(options) == {o[1] : o \in options}

\* What is sent of the options chosen: their texts.
Named(options) == {o[2] : o \in options}

Initial(kind) == {IF kind = "editor" THEN "typed" ELSE "listed"} \X Placeholders

Blank(kind, id) ==
    [id |-> id, slug |-> Empty, text |-> Empty, status |-> "draft", options |-> Initial(kind),
     chosen |-> {}, loaded |-> FALSE, touched |-> {}]

KeepListening(d) == calls

\* The page is left: nobody hears the answers to its calls any more, which the
\* server handles all the same.
StopListening(d) ==
    {c \in calls : c.desk # d} \cup
    {[c EXCEPT !.heard = FALSE] : c \in {b \in calls : b.desk = d /\ b.answer = Waiting}}

\* The desk shows page p, with form f.
Show(d, p, f) ==
    /\ page' = [page EXCEPT ![d] = p]
    /\ form' = [form EXCEPT ![d] = f]
    /\ cards' = [cards EXCEPT ![d] = IF p = "main" THEN Existing ELSE {}]
    /\ told' = [told EXCEPT ![d] = Silence]
    /\ stale' = [stale EXCEPT ![d] = FALSE]

\* The next n calls of d. Each desk numbers its own.
Number(d, n) ==
    /\ made' = [made EXCEPT ![d] = @ + n]
    /\ Cardinality(UNION {{e} \X (1..made'[e]) : e \in Desks}) <= MaxCalls

Sent(d, kind, id, f, no) ==
    [no |-> no, desk |-> d, kind |-> kind, id |-> id, form |-> f, answer |-> Waiting, heard |-> TRUE]

\* A navigation that the session check refuses ends at the login page.
TurnedAway(d) ==
    /\ S!TurnAway(d)
    /\ Show(d, "login", NoForm)
    /\ calls' = StopListening(d)
    /\ UNCHANGED <<catalogue, everSlug, counters>>

\* The right user name and password, of an admin: a new session id.
Login(d, user) ==
    /\ page[d] = "login"
    /\ S!Login(d, user)
    /\ Show(d, "main", NoForm)
    /\ UNCHANGED <<catalogue, calls, everSlug, counters>>

\* Any other login: the handler redirects to the login page, the page goes
\* wherever it was redirected to.
LoginRefused(d) ==
    /\ page[d] = "login"
    /\ told' = [told EXCEPT ![d] = [Silence EXCEPT !.redirected = TRUE]]
    /\ UNCHANGED <<catalogue, session, desk, calls, stale, everSlug, counters>>

OpenMain(d) ==
    /\ page[d] # "login"
    /\ \/ TurnedAway(d)
       \/ /\ S!Usable(d)
          /\ Show(d, "main", NoForm)
          /\ calls' = StopListening(d)
          /\ UNCHANGED <<catalogue, session, everSlug, counters>>

\* The editor's page; its script asks for the lists and for the article at once.
OpenEditor(d, id) ==
    /\ page[d] = "main" /\ id \in cards[d]
    /\ \/ TurnedAway(d)
       \/ /\ S!Usable(d) /\ session[d].user \in Editors
          /\ Number(d, 2)
          /\ Show(d, "editor", Blank("editor", id))
          /\ calls' = StopListening(d) \cup {Sent(d, "tags", 0, NoForm, made[d] + 1),
                                             Sent(d, "article", id, NoForm, made[d] + 2)}
          /\ UNCHANGED <<catalogue, session, everSlug, edits, faults>>

OpenCreator(d) ==
    /\ page[d] = "main"
    /\ \/ TurnedAway(d)
       \/ /\ S!Usable(d) /\ session[d].user \in Creators
          /\ Number(d, 1)
          /\ Show(d, "creator", Blank("creator", 0))
          /\ calls' = StopListening(d) \cup {Sent(d, "tags", 0, NoForm, made[d] + 1)}
          /\ UNCHANGED <<catalogue, session, everSlug, edits, faults>>

-----------------------------------------------------------------------------
\* What the user does on a page.

\* A field of d's form is changed by hand.
Edit(d, f) ==
    /\ form[d] # NoForm
    /\ edits < MaxEdits
    /\ edits' = edits + 1
    /\ form' = [form EXCEPT ![d] = f]
    /\ UNCHANGED <<catalogue, session, page, cards, calls, told, stale, everSlug,
                   made, faults>>

Touch(d, field) == form[d].touched \cup {field}

TypeText(d, text) == Edit(d, [form[d] EXCEPT !.text = text, !.touched = Touch(d, "text")])

PickStatus(d, s) == Edit(d, [form[d] EXCEPT !.status = s, !.touched = Touch(d, "status")])

\* The slug can be typed in the creator only.
TypeSlug(d, slug) == page[d] = "creator" /\ Edit(d, [form[d] EXCEPT !.slug = slug])

Choose(d, o) ==
    /\ form[d] # NoForm /\ o \in form[d].options
    /\ Edit(d, [form[d] EXCEPT !.touched = Touch(d, "tags"),
                               !.chosen = IF o \in @ THEN @ \ {o} ELSE @ \cup {o}])

\* addTag: compares the new text with the values of the options.
AddTag(d, t) ==
    /\ form[d] # NoForm /\ <<"typed", t>> \notin form[d].options
    /\ Edit(d, [form[d] EXCEPT !.touched = Touch(d, "added"),
                               !.options = @ \cup {<<"typed", t>>},
                               !.chosen = @ \cup {<<"typed", t>>}])

\* A click that makes a call.
Send(d, kind, id, f) ==
    /\ Number(d, 1)
    /\ calls' = calls \cup {Sent(d, kind, id, f, made[d] + 1)}
    /\ UNCHANGED <<catalogue, session, desk, told, stale, everSlug, edits, faults>>

CreationsUnderWay == {c \in calls : c.kind = "save" /\ c.id = 0 /\ c.answer = Waiting}

Save(d) ==
    /\ form[d] # NoForm
    /\ form[d].id = 0 => nextId + Cardinality(CreationsUnderWay) <= MaxId
    /\ Send(d, "save", form[d].id, form[d])

\* A button of a card. The page leaves out those the user has no right to; the
\* users here have all rights but, perhaps, to create or to edit.
Press(d, button, id) == page[d] = "main" /\ id \in cards[d] /\ Send(d, button, id, NoForm)

-----------------------------------------------------------------------------
\* The server takes the next call. The answer stays with the call until the
\* page hears it.

AnswerTo(c, a) == calls' = (calls \ {c}) \cup IF c.heard THEN {[c EXCEPT !.answer = a]} ELSE {}

Reply(code, done) ==
    [code |-> code, redirected |-> FALSE, done |-> done, missed |-> FALSE,
     names |-> {}, row |-> NoRow]

\* Redirected to a page, which fetch gets with status 200.
AnswerElsewhere(c) == AnswerTo(c, [Reply(200, FALSE) EXCEPT !.redirected = TRUE])

\* What call c asks for is so of row, the row that its article has then.
AsAsked(c, row) ==
    \/ c.kind = "delete" /\ row = NoRow
    \/ row # NoRow /\ \/ c.kind = "publish" /\ row.status = "published"
                      \/ c.kind = "archive" /\ row.status = "archived"
                      \/ /\ c.kind = "save"
                         /\ row.text = c.form.text /\ row.status = c.form.status

\* The article is gone, or the form was saved before it came.
Missed(c) == c.id # 0 /\ (articles[c.id] = NoRow \/ (c.kind = "save" /\ ~c.form.loaded))

\* Call c is answered by its own handler.
AnswerWork(c, code) ==
    AnswerTo(c, [Reply(code, AsAsked(c, articles'[IF c.id = 0 THEN nextId ELSE c.id]))
                   EXCEPT !.missed = Missed(c)])

-----------------------------------------------------------------------------
\* The links of a save.

\* linked is what is found for the names sent when each is looked up by LIKE
\* among those known: any name that contains it. The same name found twice is a
\* duplicate key.
LinkedBy(sent, known, linked) ==
    \E found \in [sent -> known] :
        /\ \A n \in sent : <<n, found[n]>> \in Like
        /\ linked = {found[n] : n \in sent}

EmptyClears(row, sent, linked) == LinkedBy(sent, names \cup sent, linked)

\* The editor's lists are left alone when they come empty; else each name is
\* put into the table, which swallows one that is there, and looked up.
LinkedTags(row, sent, linked) ==
    IF sent = {} THEN linked = row.tags ELSE LinkedBy(sent, names \cup sent, linked)

\* What the editor's handler makes of a row.
Saved(row, f, linked) == [row EXCEPT !.text = f.text, !.status = f.status, !.tags = linked]

\* The row has the tags that the form sent, if it sent any.
LinkedAsSent(f, row) == Named(f.chosen) \in {{}, row.tags}

OwnSaveInOrder(c, d) ==
    /\ c.desk = d /\ c.kind = "save" /\ c.heard /\ c.form.loaded
    /\ \A b \in calls : b.desk = d /\ b.kind = "save" /\ b.answer = Waiting => b.no >= c.no

\* A change of article id by call c.
Changed(c, id, row) ==
    /\ articles' = [articles EXCEPT ![id] = row]
    /\ stale' = [d \in Desks |->
                    \/ stale[d]
                    \/ /\ form[d] # NoForm /\ form[d].id = id
                       /\ ~(OwnSaveInOrder(c, d) /\ LinkedAsSent(c.form, row))]

\* Something goes wrong.
Fault == faults < MaxFaults /\ faults' = faults + 1

WithSlug(slug) == {id \in Existing : articles[id].slug = slug}

SaveByIdUpserting(c) ==
    /\ c.form.text # Empty /\ c.form.slug # Empty
    /\ Changed(c, c.id, [slug |-> c.form.slug, text |-> c.form.text, status |-> c.form.status,
                         tags |-> Named(c.form.chosen)])
    /\ names' = names \cup Named(c.form.chosen)
    /\ AnswerWork(c, 200)
    /\ UNCHANGED <<nextId, everSlug, faults>>

\* The editor's handler finds the article by its slug, and takes out its links
\* before it makes the new ones. A name or a link that cannot be stored is
\* passed over: the answer is 200 all the same.
SaveOverSlug(c) ==
    LET sent == Named(c.form.chosen)
    IN /\ \/ /\ WithSlug(c.form.slug) = {} \/ c.form.text = Empty
             /\ UNCHANGED <<articles, names, stale, faults>>
             /\ AnswerWork(c, 500)
          \/ /\ c.form.text # Empty
             /\ \E id \in WithSlug(c.form.slug), new \in SUBSET sent, tags \in SUBSET Tags :
                   /\ \/ new = sent /\ LinkedTags(articles[id], sent, tags) /\ UNCHANGED faults
                      \/ /\ sent # {} /\ Fault
                         /\ \E stored \in SUBSET sent : LinkedBy(stored, names \cup new, tags)
                   /\ Changed(c, id, Saved(articles[id], c.form, tags))
                   /\ names' = names \cup new
             /\ AnswerWork(c, 200)
       /\ UNCHANGED <<nextId, everSlug>>

\* The creator's links: made one after another for the options chosen, those
\* listed first, until one is a duplicate. tried are the options it came to.
CreationLinks(chosen, tried, stored, linked) ==
    \E found \in [tried -> names \cup Named(tried)] :
        /\ \A o \in tried : <<o[2], found[o]>> \in Like
        /\ \A o, p \in stored : found[o] = found[p] => o = p
        /\ linked = {found[o] : o \in stored}
        /\ \/ stored = chosen
           \/ \E o \in tried \ stored :
                 /\ tried = stored \cup {o} /\ found[o] \in linked
                 /\ \A p \in chosen : p[1] = "listed" /\ o[1] = "typed" => p \in stored
                 /\ \A p \in stored : p[1] = "typed" => o[1] = "typed"

\* The creator's handler. A slug in use is refused; a tag linked twice is found
\* out when the row and some of its links have been made.
CreateWithSlug(c) ==
    LET f == c.form
    IN /\ UNCHANGED faults
       /\ \/ /\ WithSlug(f.slug) # {}
             /\ UNCHANGED <<catalogue, stale, everSlug>>
             /\ AnswerWork(c, 500)
          \/ /\ WithSlug(f.slug) = {}
             /\ nextId' = nextId + 1
             /\ everSlug' = [everSlug EXCEPT ![nextId] = f.slug]
             /\ \E tried \in SUBSET f.chosen :
                   \E stored \in SUBSET tried, tags \in SUBSET (names \cup Named(tried)) :
                      /\ CreationLinks(f.chosen, tried, stored, tags)
                      /\ Changed(c, nextId, [slug |-> f.slug, text |-> f.text,
                                             status |-> f.status, tags |-> tags])
                      /\ names' = names \cup Named(tried)
                      /\ AnswerWork(c, IF stored = f.chosen THEN 200 ELSE 500)

\* publish, archive and remove by id: no such row is no error.
ButtonWorks(c) ==
    /\ IF articles[c.id] = NoRow THEN UNCHANGED <<articles, stale>>
       ELSE Changed(c, c.id, IF c.kind = "delete" THEN NoRow
                             ELSE [articles[c.id] EXCEPT !.status =
                                     IF c.kind = "publish" THEN "published" ELSE "archived"])
    /\ AnswerWork(c, 200)
    /\ UNCHANGED <<nextId, names, everSlug, faults>>

NothingElse == UNCHANGED <<desk, told, made, edits>>

\* isSessionOk refuses the call: 303 to the login page.
ServeTurnedAway(c) ==
    /\ c \in calls /\ c.answer = Waiting
    /\ c.kind # "article"
    /\ S!TurnAway(c.desk)
    /\ AnswerElsewhere(c)
    /\ UNCHANGED <<catalogue, stale, everSlug, faults>>
    /\ NothingElse

\* Both handlers that save ask for the creator's permission; without it they
\* redirect, in the end to the main page.
ServeSave(c) ==
    /\ c \in calls /\ c.answer = Waiting /\ c.kind = "save"
    /\ S!Usable(c.desk) /\ UNCHANGED session
    /\ IF session[c.desk].user \notin Creators
       THEN AnswerElsewhere(c) /\ UNCHANGED <<catalogue, stale, everSlug, faults>>
       ELSE IF c.form.id = 0 THEN CreateWithSlug(c) ELSE SaveOverSlug(c)
    /\ NothingElse

ServeButton(c) ==
    /\ c \in calls /\ c.answer = Waiting /\ c.kind \in Buttons
    /\ S!Usable(c.desk) /\ UNCHANGED session
    /\ ButtonWorks(c)
    /\ NothingElse

ServeTags(c) ==
    /\ c \in calls /\ c.answer = Waiting /\ c.kind = "tags"
    /\ S!Usable(c.desk) /\ UNCHANGED session
    /\ AnswerTo(c, [Reply(200, TRUE) EXCEPT !.names = names])
    /\ UNCHANGED <<catalogue, stale, everSlug, faults>>
    /\ NothingElse

\* The article as JSON, for which no session is asked.
ServeArticle(c) ==
    /\ c \in calls /\ c.answer = Waiting /\ c.kind = "article"
    /\ AnswerTo(c, IF articles[c.id] = NoRow THEN Reply(500, FALSE)
                   ELSE [Reply(200, TRUE) EXCEPT !.row = articles[c.id]])
    /\ UNCHANGED <<catalogue, session, stale, everSlug, faults>>
    /\ NothingElse

Serve(c) ==
    \/ ServeTurnedAway(c)
    \/ ServeSave(c)
    \/ ServeButton(c)
    \/ ServeTags(c)
    \/ ServeArticle(c)

-----------------------------------------------------------------------------
\* The page hears an answer.

Alert(c, said) ==
    told' = [told EXCEPT ![c.desk] =
               [said |-> said, done |-> c.answer.done, missed |-> c.answer.missed,
                redirected |-> c.answer.redirected]]

AnyAnswerIsSuccess(c) == "success"

\* response.ok, which says nothing of redirects.
Verdict(c) == IF c.answer.code = 200 THEN "success" ELSE "failure"

\* The list's old options go, and with them what was chosen or typed.
TakeList(f, listed) == [f EXCEPT !.options = {"listed"} \X listed, !.chosen = {}]

\* The article's fields replace what is in the form; of its tags those are
\* chosen that are in the list by now.
Fill(f, row) ==
    [f EXCEPT !.slug = row.slug, !.text = row.text, !.status = row.status,
              !.loaded = TRUE, !.touched = {},
              !.chosen = {o \in f.options : o[2] \in row.tags}]

\* What hearing c makes of the form shown. A page instead of JSON, an error or a
\* page without a form leaves it as it is.
Heard(c) ==
    LET f == form[c.desk]
    IN IF f = NoForm \/ c.answer.redirected \/ c.answer.code = 500 THEN f
       ELSE IF c.kind = "tags" THEN TakeList(f, c.answer.names) ELSE Fill(f, c.answer.row)

HearData(c) ==
    /\ c \in calls /\ c.answer # Waiting /\ c.kind \in {"tags", "article"}
    /\ form' = [form EXCEPT ![c.desk] = Heard(c)]
    /\ IF c.answer.code = 500 THEN Alert(c, "failure") ELSE UNCHANGED told
    /\ calls' = calls \ {c}
    /\ UNCHANGED <<catalogue, session, page, cards, stale, everSlug, counters>>

\* The alert; a card goes when its deletion was a success.
HearVerdict(c) ==
    /\ c \in calls /\ c.answer # Waiting /\ c.kind \notin {"tags", "article"}
    /\ Alert(c, Verdict(c))
    /\ cards' = IF c.kind = "delete" /\ Verdict(c) = "success"
                THEN [cards EXCEPT ![c.desk] = @ \ {c.id}] ELSE cards
    /\ calls' = calls \ {c}
    /\ UNCHANGED <<catalogue, session, page, form, stale, everSlug, counters>>

Hear(c) == HearData(c) \/ HearVerdict(c)

\* The connection breaks after the call was handled: fetch rejects.
Lose(c) ==
    /\ c \in calls /\ c.answer # Waiting /\ c.heard
    /\ Fault
    /\ IF c.kind \in {"tags", "article"} THEN UNCHANGED told ELSE Alert(c, "unsent")
    /\ calls' = calls \ {c}
    /\ UNCHANGED <<catalogue, session, desk, stale, everSlug, made, edits>>

\* Time passes for some sessions.
Drift ==
    /\ Fault
    /\ \E in \in SUBSET Desks : S!Drift(in)
    /\ UNCHANGED <<catalogue, desk, calls, told, stale, everSlug, made, edits>>

UserActs(d) ==
    \/ \E user \in Users : Login(d, user)
    \/ LoginRefused(d)
    \/ OpenMain(d)
    \/ d \in Authors /\ (OpenCreator(d) \/ \E id \in Ids : OpenEditor(d, id))
    \/ \E text \in Texts : TypeText(d, text)
    \/ \E s \in Picks : PickStatus(d, s)
    \/ \E slug \in Slugs : TypeSlug(d, slug)
    \/ \E o \in Options : Choose(d, o)
    \/ \E t \in Tags : AddTag(d, t)
    \/ Save(d)
    \/ d \in Pressers /\ \E button \in Buttons, id \in Ids : Press(d, button, id)

Next ==
    \/ \E d \in Desks : UserActs(d)
    \/ \E c \in calls : Serve(c) \/ Hear(c) \/ Lose(c)
    \/ Drift

Spec == Init /\ [][Next]_vars

-----------------------------------------------------------------------------
\* What holds.

Served(c) == c \in calls /\ c.answer = Waiting /\ c \notin calls'

\* The next step handles a save of a form that has its article, still shown,
\* and nothing overtook it.
FreshSave(c) ==
    /\ Served(c) /\ c.kind = "save" /\ c.heard
    /\ c.form.loaded /\ ~stale[c.desk] /\ c.id \in Existing

\* The list of the server is in the form.
ListIn(f) == \E o \in f.options : o[1] = "listed"

\* Each tag of one set is found by looking up, by LIKE, one of the other.
FoundFrom(after, before) == \A m \in after : \E n \in before : <<n, m>> \in Like

\* A save writes back what the user did not touch, in whatever order the lists
\* and the article came - unless another call changed the article since the form
\* was opened, a later save of the form was handled first or an earlier one was
\* linked to other tags than it sent. Text and status stay. Of the tags a save
\* adds none, but those that LIKE finds for one the article had; and once the
\* list is in it loses none, but to such a one or to a failure passed over:
\* before, it may drop those that are not among the page's own options.
UntouchedFieldsKept ==
    [][\A c \in calls : FreshSave(c) =>
          /\ c.id \in Existing'
          /\ "text" \notin c.form.touched => articles'[c.id].text = articles[c.id].text
          /\ "status" \notin c.form.touched => articles'[c.id].status = articles[c.id].status
          /\ c.form.touched \cap {"added", "tags"} = {} =>
                /\ FoundFrom(articles'[c.id].tags, articles[c.id].tags)
                /\ ListIn(c.form) /\ faults' = faults =>
                      \A n \in articles[c.id].tags : \E m \in articles'[c.id].tags : <<n, m>> \in Like]_vars

\* A form shows the article its page was opened for and no other: what is filled
\* in is never another's, whatever was deleted, created with its slug or asked
\* for on pages left before, whose answers the browser drops.
FormShowsItsArticle ==
    \A d \in Desks :
        form[d] # NoForm /\ form[d].loaded =>
            form[d].id # 0 /\ form[d].slug = everSlug[form[d].id]

\* An article that was deleted does not come back by a form still open on it.
DeletedStaysDeleted ==
    [][\A id \in Ids : id < nextId /\ articles[id] = NoRow => articles'[id] = NoRow]_vars

\* "The article was saved", "published", "archived", "deleted": it was when the
\* call was handled - its text and status, not its links, whose failures the
\* editor passes over. These alerts are wrong in three cases only: the call was
\* redirected; the article was gone already, of which publish, archive and a save
\* that finds its slug in another article say nothing; or the form was saved
\* before its article came.
SuccessUnlessGone ==
    \A d \in Desks :
        told[d].said = "success" => told[d].done \/ told[d].redirected \/ told[d].missed

-----------------------------------------------------------------------------
\* What the pages say, and the code does not do.

\* "The article was saved": it was. Breaks when the session ended while the
\* form was open, and for a user who may edit but not create.
SuccessMeansDone == \A d \in Desks : told[d].said = "success" => told[d].done

\* "Add new tag": the tags the article has stay. Breaks when the article came
\* before the list, which unchose them.
AddingTagKeepsTags ==
    [][\A c \in calls : FreshSave(c) /\ "tags" \notin c.form.touched =>
          articles[c.id].tags \subseteq articles'[c.id].tags]_vars

\* "The article was saved", on the page of one article: no other was changed.
\* Breaks when the article was deleted and its slug given to another.
FormSavesItsArticle ==
    [][\A c \in calls : Served(c) /\ c.kind = "save" /\ c.id # 0 =>
          \A id \in Ids \ {c.id} : articles'[id] = articles[id]]_vars
=============================================================================
