---------------------------- MODULE ArticleStore ----------------------------
(***************************************************************************)
(* The handlers of src/router/routes.cpp that write articles, over the     *)
(* MySQL schema of backup_SRF.sql and the preview images in ./images.      *)
(*                                                                         *)
(* A handler is a program: a sequence of statements, each of them one SQL  *)
(* statement (autocommitted, there is no transaction) or one file write.   *)
(* A statement may fail by an exception, which most places turn into       *)
(* status 500 and some swallow, and the process may be killed between two  *)
(* statements. Between two statements of one handler no other handler      *)
(* runs: the accept loop (module HttpServer) finishes a request first.     *)
(***************************************************************************)
EXTENDS Integers, Sequences, FiniteSets

CONSTANTS
    Clients,       \* the browsers that send requests
    Requests,      \* the requests they may send
    Slugs, Titles, Names, Images,
    Empty,         \* the empty string, as a title
    Like,          \* pairs <<n, m>> such that the name m LIKE '%n%'
    MaxId,         \* bound on the articles ever created
    MaxRequests,   \* bound on the requests of a behaviour
    MaxFaults,     \* bound on failing statements and kills
    NoFile,        \* there is no image file for the slug
    Broken,        \* the file is there but is not a whole picture
    NoRow,         \* there is no article with the id
    NoReq          \* no request is being handled, or was answered last

Kinds == {"keyword", "category", "tag"}
Statuses == {"draft", "published", "archived"}
Handlers == {"creator", "editor", "publish", "archive", "delete", "read"}
Ids == 1..MaxId

\* What a request carries; the by-id handlers use the id alone.
Request == [h : Handlers, id : Ids, slug : Slugs, title : Titles, status : Statuses,
            image : Images \cup {NoFile}, lists : [Kinds -> Seq(Names)]]

\* A row of table articles.
Row == [slug : Slugs, title : Titles, status : Statuses, views : Nat]

ASSUME RequestsAssumption == Requests \subseteq Request
ASSUME BoundAssumption == {MaxId, MaxRequests, MaxFaults} \subseteq Nat
ASSUME LikeAssumption == Like \subseteq Names \X Names /\ \A n \in Names : <<n, n>> \in Like
ASSUME MarkerAssumption ==
    /\ NoReq \notin Requests
    /\ {NoFile, Broken} \cap Images = {} /\ NoFile # Broken
    /\ NoRow \notin Slugs /\ NoRow \notin Row

VARIABLES
    articles,   \* id -> row of table articles, or NoRow
    nextId,     \* AUTO_INCREMENT of articles
    terms,      \* kind -> names in keywords, categories, tags
    links,      \* kind -> <<article id, name>> pairs of the link table
    images,     \* slug -> content of ./images/<slug>.jpg
    job,        \* client -> the request being handled and what is left of it
    last,       \* the answer given last, until the next request comes in
    seen,       \* history: id -> views counted of the article
    firstSlug,  \* history: id -> slug of the first article that had it
    requests, faults  \* counters for the bounds

store == <<articles, nextId, terms, links>>
history == <<seen, firstSlug>>
vars == <<articles, nextId, terms, links, images, job, last, seen, firstSlug,
          requests, faults>>

Statement == [op : {"image", "insert", "reread", "load", "update", "unlink",
                    "name", "link", "status", "remove", "count"},
              kind : Kinds, name : Names \cup {Empty}]

Answer == [req : Requests, code : {200, 303, 500}, id : Ids \cup {0}]

TypeOK ==
    /\ articles \in [Ids -> Row \cup {NoRow}]
    /\ nextId \in 1..(MaxId + 1)
    /\ terms \in [Kinds -> SUBSET Names]
    /\ links \in [Kinds -> SUBSET (Ids \X Names)]
    /\ images \in [Slugs -> Images \cup {NoFile, Broken}]
    /\ job \in [Clients -> [req : Requests \cup {NoReq}, plan : Seq(Statement),
                            id : Ids \cup {0}, row : Row \cup {NoRow},
                            since : 0..(MaxId + 1)]]
    /\ last \in Answer \cup {NoReq}
    /\ seen \in [Ids -> Nat]
    /\ firstSlug \in [Ids -> Slugs \cup {NoRow}]
    /\ requests \in 0..MaxRequests
    /\ faults \in 0..MaxFaults

\* since: history, the id that was free when the request was accepted.
Idle == [req |-> NoReq, plan |-> <<>>, id |-> 0, row |-> NoRow, since |-> 0]

Init ==
    /\ articles = [id \in Ids |-> NoRow]
    /\ nextId = 1
    /\ terms = [k \in Kinds |-> {}]
    /\ links = [k \in Kinds |-> {}]
    /\ images = [s \in Slugs |-> NoFile]
    /\ job = [c \in Clients |-> Idle]
    /\ last = NoReq
    /\ seen = [id \in Ids |-> 0]
    /\ firstSlug = [id \in Ids |-> NoRow]
    /\ requests = 0
    /\ faults = 0

-----------------------------------------------------------------------------
\* The programs of the handlers.

Step(op) == [op |-> op, kind |-> "keyword", name |-> Empty]

KindStep(op, k) == [op |-> op, kind |-> k, name |-> Empty]

\* For each name of a list: INSERT INTO the name's table, then look the name
\* up and INSERT the link.
ItemSteps(k, names) ==
    [i \in 1..(2 * Len(names)) |->
        [op |-> IF i % 2 = 1 THEN "name" ELSE "link", kind |-> k, name |-> names[(i + 1) \div 2]]]

InsertThenImage == <<Step("insert"), Step("image"), Step("reread")>>

\* The image is written first, then the row that points to it.
CreateArticle == <<Step("image"), Step("insert"), Step("reread")>>

CreateItems(req) ==
    ItemSteps("keyword", req.lists["keyword"]) \o
    ItemSteps("category", req.lists["category"]) \o
    ItemSteps("tag", req.lists["tag"])

RelinkAdding(req, k) == ItemSteps(k, req.lists[k])

\* The editor leaves the links of a kind alone when the list came empty.
Relink(req, k) ==
    IF req.lists[k] = <<>> THEN <<>>
    ELSE <<KindStep("unlink", k)>> \o ItemSteps(k, req.lists[k])

Program(req) ==
    CASE req.h = "creator" ->
            CreateArticle \o CreateItems(req)
      [] req.h = "editor" ->
            (IF req.image = NoFile THEN <<>> ELSE <<Step("image")>>) \o
            <<Step("load"), Step("update")>> \o
            Relink(req, "keyword") \o Relink(req, "category") \o Relink(req, "tag")
      [] req.h \in {"publish", "archive"} -> <<Step("status")>>
      [] req.h = "delete" -> <<Step("remove")>>
      [] req.h = "read" -> <<Step("count")>>

-----------------------------------------------------------------------------
Busy(c) == job[c].req # NoReq

ServerMultithreaded == TRUE

\* One request at a time: accept() is not called again before close().
ServerFree == \A c \in Clients : ~Busy(c)

\* The next statement of the handler is op.
At(c, op) == Busy(c) /\ job[c].plan # <<>> /\ Head(job[c].plan).op = op

Stmt(c) == Head(job[c].plan)

Req(c) == job[c].req

Continue(c) ==
    /\ job' = [job EXCEPT ![c].plan = Tail(@)]
    /\ UNCHANGED last

Reply(c, code) ==
    /\ job' = [job EXCEPT ![c] = Idle]
    /\ last' = [req |-> Req(c), code |-> code, id |-> job[c].id]

ThrowNotFound(c) == Reply(c, IF Req(c).h = "read" THEN 404 ELSE 500)

\* The handler's catch block: 500, or back to the front page for a reader.
Throw(c) == Reply(c, IF Req(c).h = "read" THEN 303 ELSE 500)

SwallowedAnyLink(c) == Stmt(c).op \in {"name", "link"}

SwallowedInsert(c) ==
    \/ Stmt(c).op \in {"name", "insert"}
    \/ Stmt(c).op = "link" /\ Req(c).h = "editor"

\* The statements whose exceptions are swallowed where they are thrown: a name
\* that cannot be inserted, and any item of the editor.
Swallowed(c) ==
    \/ Stmt(c).op = "name"
    \/ Stmt(c).op = "link" /\ Req(c).h = "editor"

Fail(c) == IF Swallowed(c) THEN Continue(c) ELSE Throw(c)

-----------------------------------------------------------------------------
\* The database: what the schema of backup_SRF.sql makes of each statement.

Rows == {id \in Ids : articles[id] # NoRow}

RowOf(slug) == {id \in Rows : articles[id].slug = slug}

\* UNIQUE KEY slug. (An INSERT it refuses also skips an id, which nothing here
\* depends on.)
SlugFree(slug) == RowOf(slug) = {}

\* SELECT ... WHERE name LIKE '%n%', no ORDER BY: any match may come first.
Matches(k, n) == {m \in terms[k] : <<n, m>> \in Like}

LinksOf(id, k) == {m \in Names : <<id, m>> \in links[k]}

LinksKept(id) == links

LinksWithout(id) == [k \in Kinds |-> {l \in links[k] : l[1] # id}]

\* The file saveBase64Image writes: for an empty previewImage an empty file.
Written(req) == IF req.image = NoFile THEN Broken ELSE req.image

-----------------------------------------------------------------------------
\* The statements, each with every way its handler goes on.

Accept(c, req) ==
    /\ ServerFree
    /\ ~Busy(c)
    /\ requests < MaxRequests
    /\ req.h = "creator" => nextId <= MaxId
    /\ job' = [job EXCEPT ![c] = [req |-> req, plan |-> Program(req), id |-> 0,
                                    row |-> NoRow, since |-> nextId]]
    /\ last' = NoReq
    /\ requests' = requests + 1
    /\ UNCHANGED <<store, images, history, faults>>

SaveImage(c) ==
    /\ At(c, "image")
    /\ images' = [images EXCEPT ![Req(c).slug] = Written(Req(c))]
    /\ Continue(c)
    /\ UNCHANGED <<store, history, requests, faults>>

InsertArticle(c) ==
    /\ At(c, "insert")
    /\ IF SlugFree(Req(c).slug)
       THEN /\ articles' = [articles EXCEPT ![nextId] =
                   [slug |-> Req(c).slug, title |-> Req(c).title,
                    status |-> Req(c).status, views |-> 0]]
            /\ firstSlug' = IF firstSlug[nextId] # NoRow THEN firstSlug
                            ELSE [firstSlug EXCEPT ![nextId] = Req(c).slug]
            /\ nextId' = nextId + 1
            /\ Continue(c)
       ELSE Fail(c) /\ UNCHANGED <<articles, firstSlug, nextId>>
    /\ UNCHANGED <<terms, links, images, seen, requests, faults>>

\* getRecordBySlug: in the creator for the new id, in the editor for the row
\* that update() writes back, its views included.
LoadArticle(c) ==
    /\ At(c, "reread") \/ At(c, "load")
    /\ \/ SlugFree(Req(c).slug) /\ Fail(c)
       \/ /\ \E id \in RowOf(Req(c).slug) :
                job' = [job EXCEPT ![c].plan = Tail(@), ![c].id = id, ![c].row = articles[id]]
          /\ UNCHANGED last
    /\ UNCHANGED <<store, images, history, requests, faults>>

\* The setters, which refuse an empty title, then UPDATE of the whole row.
UpdateArticle(c) ==
    /\ At(c, "update")
    /\ IF Req(c).title = Empty
       THEN Fail(c) /\ UNCHANGED articles
       ELSE /\ articles' = IF articles[job[c].id] = NoRow THEN articles
                           ELSE [articles EXCEPT ![job[c].id] =
                                   [job[c].row EXCEPT !.title = Req(c).title,
                                                      !.status = Req(c).status]]
            /\ Continue(c)
    /\ UNCHANGED <<nextId, terms, links, images, history, requests, faults>>

\* SELECT the ids linked to the article, then DELETE each of them.
Unlink(c) ==
    /\ At(c, "unlink")
    /\ links' = [links EXCEPT ![Stmt(c).kind] = {l \in @ : l[1] # job[c].id}]
    /\ Continue(c)
    /\ UNCHANGED <<articles, nextId, terms, images, history, requests, faults>>

InsertNameOrRetry(c) ==
    /\ At(c, "name")
    /\ terms' = [terms EXCEPT ![Stmt(c).kind] = @ \cup {Stmt(c).name}]
    /\ IF Stmt(c).name \in terms[Stmt(c).kind] THEN UNCHANGED <<job, last>> ELSE Continue(c)
    /\ UNCHANGED <<articles, nextId, links, images, history, requests, faults>>

\* UNIQUE KEY on the name: a second insert throws, which is swallowed.
InsertName(c) ==
    /\ At(c, "name")
    /\ terms' = [terms EXCEPT ![Stmt(c).kind] = @ \cup {Stmt(c).name}]
    /\ Continue(c)
    /\ UNCHANGED <<articles, nextId, links, images, history, requests, faults>>

\* searchByName(name).at(0) and the INSERT of the link: no match, a link that
\* is there already or a missing article is an exception.
InsertLink(c) ==
    /\ At(c, "link")
    /\ LET k == Stmt(c).kind
           found == Matches(k, Stmt(c).name)
       IN \/ found = {} /\ Fail(c) /\ UNCHANGED links
          \/ \E m \in found :
                IF <<job[c].id, m>> \in links[k] \/ job[c].id \notin Rows
                THEN Fail(c) /\ UNCHANGED links
                ELSE links' = [links EXCEPT ![k] = @ \cup {<<job[c].id, m>>}] /\ Continue(c)
    /\ UNCHANGED <<articles, nextId, terms, images, history, requests, faults>>

\* publish() and archive(): an id without a row is not an error.
SetStatus(c) ==
    /\ At(c, "status")
    /\ articles' = IF articles[Req(c).id] = NoRow THEN articles
                   ELSE [articles EXCEPT ![Req(c).id].status =
                           IF Req(c).h = "publish" THEN "published" ELSE "archived"]
    /\ Continue(c)
    /\ UNCHANGED <<nextId, terms, links, images, history, requests, faults>>

RemoveAndReuseId(c) ==
    /\ At(c, "remove")
    /\ articles' = [articles EXCEPT ![Req(c).id] = NoRow]
    /\ nextId' = IF Req(c).id = nextId - 1 THEN Req(c).id ELSE nextId
    /\ links' = LinksWithout(Req(c).id)
    /\ Continue(c)
    /\ UNCHANGED <<terms, images, history, requests, faults>>

\* remove(): the links go with the row (ON DELETE CASCADE), the image stays.
RemoveArticle(c) ==
    /\ At(c, "remove")
    /\ articles' = [articles EXCEPT ![Req(c).id] = NoRow]
    /\ links' = LinksWithout(Req(c).id)
    /\ Continue(c)
    /\ UNCHANGED <<nextId, terms, images, history, requests, faults>>

\* incrementViews(), one UPDATE inside the database.
CountView(c) ==
    /\ At(c, "count")
    /\ IF articles[Req(c).id] = NoRow THEN UNCHANGED <<articles, seen>>
       ELSE /\ articles' = [articles EXCEPT ![Req(c).id].views = @ + 1]
            /\ seen' = [seen EXCEPT ![Req(c).id] = @ + 1]
    /\ Continue(c)
    /\ UNCHANGED <<nextId, terms, links, images, firstSlug, requests, faults>>

\* The end of the handler: status 200.
Respond(c) ==
    /\ Busy(c)
    /\ job[c].plan = <<>>
    /\ Reply(c, 200)
    /\ UNCHANGED <<store, images, history, requests, faults>>

Serve(c) ==
    \/ SaveImage(c)
    \/ InsertArticle(c)
    \/ LoadArticle(c)
    \/ UpdateArticle(c)
    \/ Unlink(c)
    \/ InsertName(c)
    \/ InsertLink(c)
    \/ SetStatus(c)
    \/ RemoveArticle(c)
    \/ CountView(c)
    \/ Respond(c)

-----------------------------------------------------------------------------
\* What may go wrong from outside, at most MaxFaults times.

Fault == faults < MaxFaults /\ faults' = faults + 1 /\ UNCHANGED requests

\* The database refuses a statement: the connection, which is never reopened,
\* is gone, a value does not fit. Nothing is changed.
StatementFails(c) ==
    /\ Fault
    /\ Busy(c) /\ job[c].plan # <<>> /\ Stmt(c).op # "image"
    /\ Fail(c)
    /\ UNCHANGED <<store, images, history>>

\* The loop over the old links is left in the middle.
UnlinkFails(c) ==
    /\ Fault
    /\ At(c, "unlink")
    /\ \E kept \in SUBSET LinksOf(job[c].id, Stmt(c).kind) :
          links' = [links EXCEPT ![Stmt(c).kind] =
                      {l \in @ : l[1] = job[c].id => l[2] \in kept}]
    /\ Throw(c)
    /\ UNCHANGED <<articles, nextId, terms, images, history>>

\* The image cannot be decoded or its file not opened; the editor ignores the
\* second.
ImageFails(c) ==
    /\ Fault
    /\ At(c, "image")
    /\ Throw(c) \/ (Req(c).h = "editor" /\ Continue(c))
    /\ UNCHANGED <<store, images, history>>

\* The file is truncated but the write fails: nobody looks at the stream.
ImageCutShort(c) ==
    /\ Fault
    /\ At(c, "image")
    /\ images' = [images EXCEPT ![Req(c).slug] = Broken]
    /\ Continue(c)
    /\ UNCHANGED <<store, history>>

\* The process is killed and started again: the request is never answered.
Kill ==
    /\ Fault
    /\ \E c \in Clients : Busy(c)
    /\ job' = [c \in Clients |-> Idle]
    /\ last' = NoReq
    /\ UNCHANGED <<store, images, history>>

Next ==
    \/ \E c \in Clients, req \in Requests : Accept(c, req)
    \/ \E c \in Clients : Serve(c)
    \/ \E c \in Clients :
          StatementFails(c) \/ UnlinkFails(c) \/ ImageFails(c) \/ ImageCutShort(c)
    \/ Kill

Spec == Init /\ [][Next]_vars /\ \A c \in Clients : WF_vars(Serve(c))

-----------------------------------------------------------------------------
\* What holds.

\* The schema's promises, which every lookup relies on: a link refers to a row
\* and to a name, a slug names one article.
SchemaHolds ==
    /\ \A k \in Kinds : \A l \in links[k] : l[1] \in Rows /\ l[2] \in terms[k]
    /\ \A i, j \in Rows : articles[i].slug = articles[j].slug => i = j

\* Every article has its preview file, whatever failed or was killed on the
\* way: the creator writes the file before the row and nobody deletes it.
RowHasImage == \A id \in Rows : images[articles[id].slug] # NoFile

\* No view is lost: the editor writes back the counter it has read, and no
\* reader is served in between.
ViewsCounted == \A id \in Rows : articles[id].views = seen[id]

Answered(h, code) == last # NoReq /\ last.req.h = h /\ last.code = code

\* Status 200 of the creator: the row is as requested, there is a file, and
\* each requested name gave one link of its own, to a name that contains it.
CreatedMeansStored ==
    Answered("creator", 200) =>
        /\ last.id \in Rows
        /\ articles[last.id] = [slug |-> last.req.slug, title |-> last.req.title,
                                status |-> last.req.status, views |-> 0]
        /\ images[last.req.slug] \in {Written(last.req), Broken}
        /\ \A k \in Kinds :
              LET names == last.req.lists[k] IN
              /\ Cardinality(LinksOf(last.id, k)) = Len(names)
              /\ \A i \in DOMAIN names :
                    \E m \in LinksOf(last.id, k) : <<names[i], m>> \in Like

\* Status 200 of the editor: title and status are as requested and, of each
\* kind that was sent, no link is left that was not requested.
EditedMeansStored ==
    Answered("editor", 200) =>
        /\ last.id \in Rows
        /\ articles[last.id].slug = last.req.slug
        /\ articles[last.id].title = last.req.title
        /\ articles[last.id].status = last.req.status
        /\ \A k \in Kinds :
              LET names == last.req.lists[k] IN
              names # <<>> =>
                \A m \in LinksOf(last.id, k) :
                   \E i \in DOMAIN names : <<names[i], m>> \in Like

\* The creator never changes an article that was there before, its links
\* included: a slug in use stops it before it looks the article up.
CreatorOnlyAdds ==
    [][\A c \in Clients :
          Busy(c) /\ Req(c).h = "creator" =>
             \A id \in 1..(job[c].since - 1) :
                /\ articles'[id] = articles[id]
                /\ \A k \in Kinds : LinksOf(id, k)' = LinksOf(id, k)]_vars

\* An id stands for one slug for ever: links to it, and forms opened on it, do
\* not come to mean another article, neither by an edit nor after a deletion.
SlugForLife == \A id \in Rows : articles[id].slug = firstSlug[id]

\* The statements of the handlers, whatever fails between them, amount to the
\* catalogue's changes: the whole row the editor writes back changes its title
\* and status alone, ids are not given out twice, links go with their row.
Shelf == INSTANCE Catalogue WITH rows <- articles, next <- nextId

KeepsCatalogue == Shelf!Spec

\* A handler that has begun comes to an answer, unless the process is killed.
EveryRequestEnds == \A c \in Clients : Busy(c) ~> ~Busy(c)

-----------------------------------------------------------------------------
\* What the pages say, and the code does not do.

\* "Error while saving the article on the server": then no article was made.
\* Breaks when a keyword is typed twice, the second link being a duplicate.
ErrorMeansNotCreated == Answered("creator", 500) => last.id = 0
=============================================================================
