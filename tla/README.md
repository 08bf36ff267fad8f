# A TLA+ model of CDragon

CDragon (`src/CDragon`) is a news site in one C++ process: an HTTP server written on
sockets, a router, a template renderer, an in-memory session table, and some fifty route
handlers over a MySQL database and a directory of preview images; its admin pages are forms
whose scripts call the handlers by fetch. Paths below are relative to `src/CDragon` unless
they start with `src/`.

The TLA+ project models the parts where the order of steps, a failure, a limit or an index
decides whether the site is right. TLC checks the models on small instances; TLAPS proves
the results marked so for every value of the constants.

## Inventory

| component | source | state | operations |
|---|---|---|---|
| HTTP server loop | `src/http/http_server.cpp` | listen backlog, descriptors, the buffers of the one connection in service | accept, read header, read body, handle, send, close |
| HTTP request / response | `src/http/http_request.cpp`, `http_response.cpp` | per request | parse, cookies; Location, Set-Cookie |
| Router | `src/router/router.cpp` | route maps filled at start | register, look up |
| Session repository | `include/session_repository.h` | id -> user data and time, TTL | create, check, extend, read, set TTL |
| Article handlers | `src/router/routes.cpp` 727-834, 1095-1306, 1941-1958 | articles, names, links (MySQL); `./images/*.jpg` | create, edit, publish, archive, delete, count a view |
| Tables and records | `src/models/include/**`, schema `src/backup_SRF.sql` | MySQL | insert, update, remove, look-ups |
| Page layout | `src/router/routes.cpp` 1508-1939, 1960-3400 | loop index, template number, HTML | blocks of five to one articles |
| Template renderer | `include/template_renderer.h` | the text, the keys left | replace cycles, replace variables, minify |
| Users, roles, login | `src/router/routes.cpp` 162-255, 320-333, 375-463 | MySQL | permission checks, login |
| Admin pages | `src/views/admin/**` | forms and cards in the browser | open, type, fetch, alert |
| Public read-only pages | `src/router/routes.cpp` 1310-1353 and others | none | filter, images, reading |

How they interact: the accept loop parses one request and calls the router, which calls one
handler; the handler runs to its end before the loop closes the connection and accepts the
next. Handlers share the session repository and the table objects as globals, with no lock
and, thanks to the single loop, without a need for one. Every SQL statement commits on its
own. An exception no handler catches leaves `main` and ends the process. The browser has
several requests on their way at once, hears their answers in any order, follows redirects
before its scripts see them, and keeps the cookies.

What makes each part hard, and what its correctness is:

- *Server loop.* Clients stall, close, reset and stop reading at any point, reads are cut anywhere, errors
  in different places do different things (leak, spin, terminate). Correct: requests are
  handled whole, in order of arrival, once; everything accepted comes to its end.
- *Sessions.* The clock is not steady; the handlers read the entry after a check. Correct: a
  session lives as long as it is used, a rejected id stays rejected, the read after the check
  succeeds, no login gets another user's entry.
- *Articles.* No transaction, swallowed exceptions, a file and several tables to keep in
  step, kills between statements. Correct: the schema's invariants, no article without a
  preview, no lost view, and an answer that tells the truth about what was stored.
- *Admin pages.* A session may expire, an article change or be deleted while a form is open;
  two calls race to fill the form; an answer is lost and the user sends again. Correct: a
  form shows its article, a save leaves what the user left, an alert is wrong only where the
  code cannot tell.
- *Requests and answers.* Paths of static and dynamic routes overlap, every answer sets a
  cookie line, pages redirect to each other, a login is four requests. Correct: links reach
  their handlers, the session id comes back, redirects end.
- *Page layout.* Fifteen hand-written blocks per page, each with its own indices. Correct:
  every article once, in order, for every number of articles.
- *Template renderer.* It looks again at the text it has put in, its keys come in the order of
  a hash table, and its loop ends only if every round removes a marker. Correct: the page is
  the template with each token replaced where it stands, and rendering ends.

The hazards found in the code, each at its line, are listed in `PROJECT.json`, with the
properties that cover them.

## Modules

| module | models | composed with |
|---|---|---|
| `SessionService` | abstract: an id is out, or stands for a user and is usable or lapsed | implemented by `SessionRepository`, used by `AdminDesk` and `SiteExchange` |
| `SessionRepository` | session table, `isSessionOk`, login's tail, the clock | `INSTANCE SessionService`; proved in `SessionRepositoryProofs` |
| `SerialService` | abstract: a queue served one at a time, or halted | implemented by `HttpServer` |
| `HttpServer` | `HttpServer::start` and its clients | `INSTANCE SerialService`; proved in `HttpServerProofs` |
| `Catalogue` | abstract: rows and links that come, change and go one at a time | implemented by `ArticleStore` |
| `ArticleStore` | the writing article handlers, MySQL, the image files | relies on the serial service: `ServerFree`; `INSTANCE Catalogue`; proved in `ArticleStoreProofs` and `ArticleAnswersProofs` |
| `AdminDesk` | the admin pages in the browser over the handlers they call | `INSTANCE SessionService`; proved in `AdminDeskProofs` |
| `Router` | static and dynamic look-up | instantiated by `SiteExchange` |
| `SiteExchange` | a browser's tabs, its cookies, requests, routes, session checks, redirects | `INSTANCE SessionService`, `INSTANCE Router`; proved in `SiteExchangeProofs` |
| `PageLayout` | the two layout loops | proved in `PageLayoutProofs` |
| `TemplateRenderer` | `render`: cycles, variables, minifying | proved in `TemplateRendererProofs` |
| `MCSession`, `MCHttpServer`, `MCArticleStore`, `MCAdminDesk`, `MCSiteExchange`, `MCPageLayout`, `MCTemplateRenderer` | the values of the constants for TLC | |

The refinements are what lets the larger modules leave detail out: `AdminDesk` and
`SiteExchange` have the sessions of `SessionService`, which the repository with its clock
implements (`ServesSessions`), and handle one call in one step, because the loop serves one
request at a time (`ServesInOrder`).

### SessionService and SessionRepository

`sessions` maps an id to its entry or `Absent`, `now` is `system_clock::now()` in seconds and
may be put back (`ClockSetBack`). `CreateSessionID` is the login's call; `unordered_map::insert`
leaves an existing entry alone, which `Insert` models. `AcceptSession` and `RejectSession` are
`isSessionOk` (check, then extend, or erase). `guarded` is the id whose check succeeded in the
request being handled, between which and `GetSessionData` the clock may still move. `lastOk`,
`loginAs` and `rejected` are history variables, never read by an action.

The generator draws ids at random and nothing checks whether one is in the table.
`Colliding` is the set of ids that may be drawn while they are. For all others a session lives
exactly as long as it is used (`SlidingExpiry`), a rejected id stays rejected
(`RejectedForGood`) and the read after the check gives the login's own data
(`GuardedReadSucceeds`, which also says that it never throws, for every id). A colliding login
gets the other user's session: that is why the three except such ids.

`SessionService` is what the pages rely on. An id comes in only by a login, as the user who
logged in; a request with an unusable id turns that id away and touches no other; time lapses
sessions and, set back, returns them. The repository implements it under the mapping
`SessionSeen` (`ServesSessions`), colliding ids included: a login that draws an id in the table
is a stuttering step and never changes the user of the one who has it.

### HttpServer and SerialService

A request is `HeaderLen` units of header, the last holding the blank line, and `Announced[c]`
units of body; a read returns any non-empty part of what has arrived. `pc` is the place in the
loop: `accept`, `headers` (62-75), `length` (87-95), `body` (96-105), `handle` (109-116), `send`,
`close`, and `dead` when the process has ended. The actions follow the code's error paths one
by one: an end of file or an error before the blank line drops the connection *without*
`close` (`DropConnection`); an error in the body loop makes `string(buffer, -1)` throw
(`ReadBodyFails`); an end of file in the body loop changes nothing and is repeated for ever,
so it is not an action and the state is `Held`; `send` to a client that reset either fails
unnoticed or raises SIGPIPE. `send` is a blocking call: to a client that stays connected and
stopped reading (`StopReading`) it does not return when the answer does not fit the socket's
buffers (`Large`: previews have up to a megabyte), so `SendResponse` waits (`Blocked`) until
that client closes or resets.

`SerialService` says what the loop promises without sockets. `HttpServer` implements it under
the mapping in the module (`ServesInOrder`): a connection is in service until its answer is
sent, and its descriptor's closing is a stuttering step.

Fairness: `WF_vars(Server)`, because the loop is a single thread that runs whenever it can; and
weak fairness of `SendUnit` for the clients outside `MayQuit`, the ones a run assumes to send
their whole request. In the run every client may quit, so nothing is assumed of any, and
`EveryRequestAnswered` states its own hypothesis (`Patient`): in behaviours where no client
quits and each sends what it announced, each is answered or the process has ended, however
header and body are cut into reads. A patient client also takes its answer. `ServedUnlessHeld` is
the list of ways in which a connection may never end: the process ended, a connection holds the
loop for ever (in a read of the header or the body, in the body loop after its end, or in
`send`), or dropped connections used up the descriptors. All of them happen in the run.

### ArticleStore and Catalogue

A handler is a program (`Program`): a sequence of statements, each one SQL statement or one
file write. Each statement is an action with all its outcomes, and the handler's `try` blocks
decide whether a failure goes on (`Swallowed`) or answers 500 (`Throw`). `StatementFails`,
`UnlinkFails`, `ImageFails`, `ImageCutShort` and `Kill` are the failures from outside, between
any two statements. `last` is the answer just given. The link tables' three kinds (keyword,
category, tag) have the same code. Names are found by `LIKE '%name%'` without an order, so
`Matches` may give any name that contains the one looked for (`Like`).

`articles` runs all handlers, two slugs, two overlapping names, at most four requests, two
articles and one fault. Two articles are needed for slugs to clash and for links to stay with
the right one, one fault for every partial execution, and four requests for create, edit,
delete and create again. It shows that the schema holds (`SchemaHolds`), each row has its
preview (`RowHasImage`), no view is lost (`ViewsCounted`), 200 means what
`CreatedMeansStored` and `EditedMeansStored` say, the creator changes nothing that was there
(`CreatorOnlyAdds`), the store implements `Catalogue` (`KeepsCatalogue`), and each handler ends
(`EveryRequestEnds`, under weak fairness of each handler's steps: it is straight-line code in
the one thread).

`Catalogue` is the store for those who read it: an id is given out once, a slug names one
article, an edit keeps slug and views and leaves no empty title, links belong to a row and go
with it, each in one step. That a handler which fails half way, is killed, or writes back a row
read two statements earlier still looks like such steps is what the refinement says.

`articles_twice` finds what a page says and the code does not do, without any fault and with one
request that a browser sends: a keyword typed twice answers "error while saving" for an article
that was stored (`ErrorMeansNotCreated`).

The model has more of the kind, which `CreatedMeansStored` and `EditedMeansStored` are worded
around and no run is spent on: removing the last tag answers "saved" and the tag stays, because an
empty list means "not changed"; a keyword contained in an older one is linked as the older one
(`LIKE` and `at(0)`); the editor's failed links are swallowed, so that an answer of 200 does not say
that the requested links are there (`EditedMeansStored` says which links may be left, not that
none is missing); a creation that is refused because its slug is in use has by then replaced the
preview of the article that owns the slug (`CreatorOnlyAdds` is about rows and links); the creator
stores the empty title that `setTitle` refuses elsewhere.

### AdminDesk

A desk is a browser: the page it shows, the cards of its main page, its form, and the session
id it was given last. A navigation passes the session check or ends on the login page
(`TurnedAway`). Opening the editor sends two calls at once, for the list of tags and for the
article; the creator one. Each call waits until the server takes it (`Serve`, any waiting call,
one whole handler) and its answer until the page hears it (`Hear`, in any order), or is lost
on the way (`Lose`); a page that is left hears nothing (`StopListening`), the server works for
it all the same. A redirected answer comes as the 200 that fetch makes of it.

A form has options, listed by the server (value: the id) or typed (value: the text), because
`addTag` compares values only, so a tag may be there twice; the list that comes empties the
select and with it what was chosen; the article chooses among the options there by then.
`ServeSave` is both saving handlers: the creator refuses a slug in use, the editor finds the row
*by slug*; both ask for the creator's permission.

A save links an article to tags by name: each is looked up by `LIKE '%name%'` and the first that is
found is taken, whichever it is (`LinkedBy`, over the constant `Like`), and a link that fails is
passed over (`LinkedTags`, as `Relink` in `ArticleStore`). `ButtonWorks` answers publish and archive
of an article that is gone like any other, with 200 and nothing done, as the code's UPDATE of no
row does; `told` keeps of each alert whether the work was done when the call was handled, whether
fetch followed a redirect, and whether the article was gone (`missed`, history).

`desk`: one desk that writes and one that publishes and deletes, four calls, one change of a form
and one lapse, failed link or lost answer, an article with two tags the name of one of which
contains the other's and of which the editor's page has one among its own options. It shows that a
form shows the article it was opened for, although answers for pages left before are on their way
(`FormShowsItsArticle`); that a save keeps what the user did not touch, whichever came first, the
article or the lists, as long as nothing else changed the article (`UntouchedFieldsKept`, as far as
the code does, see below); that an alert of success is wrong in three cases only
(`SuccessUnlessGone`: fetch followed a redirect; the article was gone and the handler could not
tell, a save that found its slug in another article included; the form was saved before its article
came); and that a deleted article does not come back by a form left open on it
(`DeletedStaysDeleted`). Four calls are an open editor or creator, a save, and either a second save
or a publish or deletion in between. Each desk numbers its own calls, since only the saves of one
desk are ever compared. TLC takes about two minutes for its 2.5 million states.

`UntouchedFieldsKept` is exact of text and status. Of tags it says what the code grants. A tag that a
save adds is one that `LIKE` finds for a tag the article had: a form saved untouched may turn
`news` into `newsflash`. Once the server's list is in the form, a tag is lost only to such a one or
to a failed link. Before, an article that comes first is matched with the options of the page's own
HTML (`anime` and the like, `src/views/admin/article_editor/html/index.html:211-213`): if some of
its tags are among them and others are not, a save made then drops the others, though the user
touched nothing. `stale` is history: the article was changed by something other than this form's own
saves in their order, by one that was sent before the form was filled, or was left by one of them
with other tags than it sent.

Three runs find what the pages say and the code does not do:

- `desk_expired`: "The article was saved" after the session lapsed while the form was open: fetch
  follows the redirect to the login page, a 200 (`SuccessMeansDone`). A user who may edit but
  not create gets the same;
- `desk_order`: the article comes before the list, the list unchooses its tags, and "Add new
  tag" then takes the others away (`AddingTagKeepsTags`);
- `desk_reborn`: a form open on a deleted article saves over a new article with its slug
  (`FormSavesItsArticle`).

`AdminDesk` states no fairness: nothing obliges a user to act, and that calls are answered is
`HttpServer`'s subject.

### Router and SiteExchange

A path is the sequence of its segments. `Router` has the static map and the ordered list of
patterns of `router.cpp`; `SiteExchange` gives it the route table of `setupRoutes`, and for
every page the links, files and calls that its HTML and scripts write. A tab has at most one
request at a time: a page's loads one after another, in any order. `parseCookies` is the code's
(parts without `=` skipped, the first of two with one name kept), `CookieHeaders` is the browser's
(cookies of the path's directories, deepest first), and `Stored` includes that every answer
without a cookie writes `Set-Cookie: HttpOnly`, which some browsers keep as a nameless cookie of
that directory (`BareKept`) and send back in front of the session's. `HandlerAnswers` has each
handler's session check, permission and redirects; a login's answer carries a new id and is
followed to the login page or the main page, after which the script goes there itself.

`exchange`: two tabs, one on the admin pages and one on the public ones, a user who may edit but
not create, two session ids (two logins), one style sheet for all, and one lapse, restart or
lost answer. It shows that the server reads from every request to an admin page the id given last
and from others none (`CookieComesBack`); that links reach their handlers with their
parameters although routes overlap, as `/category_page/styles.css` does (`LinksResolve`, for the
links that are filled in);
that redirects end, whatever becomes of the session (`RedirectsEnd`); and that a login
arrives at the main page although another tab logs in meanwhile (`LoginArrives`, once faults
are over). Fairness: per tab, weak fairness of its request being handled or its answer
received - the server takes every request in turn, the browser every answer.

Not every link of a page is filled in. The article page is served as the file is, so that its image
is first asked for as `/article_read_page/{{ imageLink }}` (`RawImage`), where `stoi` throws and a
redirect to the front page is followed; a front page with fewer than six articles keeps its
placeholders as links (`RawHref`), which lead to 404. `LinksResolve` says where these go, and that all
other links lead to their handlers.

Other behaviours seen here: a refused login shows no message, since the handler answers it
with a redirect to the login page; with a valid session of another tab it ends on the main
page.

### PageLayout

An article is its position in the query's result. `Block(left)` is the list of offsets that
the block used for `left` remaining articles reads, one definition for each template of each
page, since the code writes each out with its own `at(i)` and `at(++i)`. `bad` are articles
whose SEO description cannot be read. `layout` covers both pages for 0 to 28 articles (the front
page has period five; the category page's templates rotate with period ten after the first
five), each with at most one bad article at any position.

It shows that a page that is shown has each article once and in order (`EachArticleOnce`), that
the loop ends (`PageAnswered`), that the front page never fails because of the number of articles
(`FrontPageBuilt`), and when the category page does (`CategoryPageBuilt`): when the number of
articles ends in seven or eight, because the second template's blocks for two and three
articles begin with `at(++i)` (`src/router/routes.cpp:2866` and `:2938`) and run past the end; the
reader is then redirected to the front page. Fairness: `WF_vars(Next)`, a loop in one thread.

### TemplateRenderer

A template is a sequence of tokens: word, tag, line end, comment brackets, cycle markers and
placeholders, over `Names`; the code's files and values are taken to be such (`TextsAreTokens`).
A cycle is closed by the nearest end on its line, since the regular expression's dot stops there;
`ReplaceCycle` replaces the leftmost; one whose list is not in the data is left as it is and found
again, which `SpinOnUnknownList` keeps as a step that changes nothing.
`ReplaceVariable` takes the keys in any order, as the hash table may. `MinifyHTML` removes
comments and the line ends between tags.

`template`: every template of up to five tokens, of the cycle tokens or of the comment tokens,
with an empty list, a list of two, a value that reads like a placeholder, and a list that is
missing. Five tokens hold a cycle with a two-token body and one token around it, two cycles with
one end, an end without a beginning and a cycle on two lines. It shows that the page is the
template with each token replaced where it stands (`RenderedInPlace`, for values without markers and
cycles that are not nested: a value with a marker is replaced again, depending on the order of the
keys) and that rendering ends when every list is there (`RenderingEnds`). Without its list a cycle
makes `render` run for ever. Fairness: `WF_vars(Render)`, a function of one thread.

A cycle is there what the code takes for one (`Pairs`), on one line. The repository's own test expects
more: it renders `src/views/Архив/test_template.html`, whose cycle stands on lines 10 to 12, and
expects it repeated (`include/tests/test_template_renderer.cpp:17`). `template_lines` renders that
template: the markers are left in the page (`CyclesExpanded`). The templates of the site have their
one cycle on one line.

## Proofs

TLAPS proves for every value of the constants, from the named assumptions of each module:

- `SessionRepositoryProofs`: `TypeCorrect`, `SlidingExpiryHolds`, `RejectedForGoodHolds`,
  `GuardedReadHolds`, the refinement `ServesSessionsHolds`, and `UserDataStableHolds` (a session in
  the table never changes its user, colliding ids included). The inductive invariant ties
  each entry's time to `lastOk` and each rejected id to `Absent`.
- `HttpServerProofs`: `TypeCorrect`, `OpenFdsAccountedHolds`, `HandledWholeHolds`,
  `DiesOnlyInServiceHolds`, and the refinement `ServesInOrderHolds`. The inductive invariant
  `LoopInv` adds three parts to the properties: `Stage` (what outcome and how much of the
  request belongs to each place in the loop: without it `Close` could close a dropped
  connection's descriptor and a handler see half a request), `Waiting` (the backlog holds each
  connection once, untouched) and `Elsewhere` (all the others are finished or have not come).
  There is one lemma for each action, and the refinement is proved step by step from `LoopInv`.
- `ArticleStoreProofs`: `TypeCorrect`, `SchemaHoldsHolds`, `RowHasImageHolds`,
  `ViewsCountedHolds`, `SlugForLifeHolds` (an id never comes to mean an article with another
  slug), `CreatorOnlyAddsHolds`, and the refinement `KeepsCatalogueHolds`, under every failure
  and kill. The inductive invariant `StoreInv` follows a handler through its program: `Starts`
  says which statements are still to come, `JobAt` what the ones before have established (the
  creator's file is there before its row, the row the editor holds is still `Current`), `OneJob`
  that no other handler is half way, and `Fresh` that ids not given out have no past.
  `Progress` gives each action what the invariant says of its place; one lemma for each action
  follows.
- `ArticleAnswersProofs`, on top of it: `CreatedMeansStoredHolds` and `EditedMeansStoredHolds`,
  for lists of any length and names that are alike in any way. An answer refers to everything
  its handler did, so `AnswerInv` says by the number of statements behind a handler (`Done`) what
  it has stored: `CreatorKept` ties the number of links of a kind to the number of its link
  statements behind it (`Upto`, from the positions that `CreatorProgram` proves), `EditorKept`
  says that links of a kind once unlinked are all requested ones. `Quiet` (no answer is
  remembered while a request is in service) keeps the answer true after the last statement.
- `AdminDeskProofs`: `TypeCorrect`, `FormShowsItsArticleHolds`, `SuccessUnlessGoneHolds`,
  `DeletedStaysDeletedHolds`, for any number of desks and calls and names that are alike in any way. The
  inductive invariant `DeskInv` has what each call carries (`CallOK`), that creations under way
  leave room for their ids (`RoomLeft`), which pages have forms (`PageHasForm`), and three
  ties of slugs: rows, forms and answers have the slug their id was created with
  (`RowHasSlug`, `FormHasSlug`, `AnswerHasSlug`), and a call for an article that is still heard belongs
  to the form on show (`CallHasForm`) - which is what an answer that comes late would break. Steps
  on the articles are classified once (`StepOnTable`), and `DeletedStaysDeleted` follows from the
  classes.
  Its last part is `UntouchedFieldsKeptHolds`. `FreshInv` says of a form that
  nothing else changed the article of that what is untouched in it agrees with the row (`Agree`),
  and the same of each of its saves under way and of the answers that will fill it (`CallFresh`).
  A save makes the row what its form was, so it must not spoil the saves sent after it: `Later`
  orders the states a form goes through (what is untouched in the later one is as in the earlier
  one, or its tags were emptied by the list), `PairInOrder` says that saves are in that order by
  their numbers, and `LaterAgrees` that whatever is later than a save agrees with what it wrote.
  `NamesKnown` (every tag of a row is in the list the server sends) is why the list loses none.
  An earlier wording of the property promised that untouched tags always stay. It passed in TLC
  with one tag, and its proof failed at the article that comes before the list; with two tags
  TLC shows the loss described above, so the property says what the pages do. A save whose links
  fail or find other tags spoils those sent after it: they make their form stale, which is why
  `FreshInv` survives the look-up by `LIKE`.
- `SiteExchangeProofs`: `TypeCorrect`, `CookieComesBackHolds`, `LinksResolveHolds`, for any number of
  tabs, articles, categories and sessions, and `EveryLinkResolves`, the statement about routes
  alone that the last one rests on: every path the pages write is found by `Router` with the
  parameters that were put into it, and those of placeholders left in a link lead to 404 or to the
  article page. It needs what `NameAssumption` says of names: an article or
  category called "" or a category called `styles.css` has no page of its own, since the static
  route of the style sheet comes first; the category links of the site are a fixed list without
  them. The inductive invariant `SiteInv` has what the jar may hold (`JarOK`: the session id given
  last, for the paths under `/admin`, and otherwise only cookies without name and value, which
  `parseCookies` skips wherever they come), that only the login handler's answers carry an id
  (`ExchangeOK`: any other cookie with that name, of a deeper path, would come first and be the one
  read), and that an id is left for every login under way (`RoomLeft`).
- `PageLayoutProofs`: `TypeCorrect`, `EachArticleOnceHolds`, `FrontPageBuiltHolds`,
  `CategoryPageBuiltHolds`. The loop invariant `LayoutInv` is that the articles shown are the
  first `i`; the key lemma `ReadableBlock` says that a block that can be read consists of the
  next articles in order, the late blocks always reaching past the end. `CategoryInv` ties the
  template to `i % 10`.

- `TemplateRendererProofs`: `TypeCorrect`, `RenderedInPlaceHolds` and `EachRoundEndsOne`, for templates
  and values of any length and any number of keys. All need induction, and the library's theorems for it take
  an operator that none of the provers can be given. But the library also has that the naturals
  are well founded and that every set has a minimum, so induction is stated here over sets
  (`Induction`, `SeqInduction`), and what `FlattenSeq` computes is drawn from it. `Page` is the
  page while some keys wait: `PutPage` replaces one, whichever it is, and that the others can
  be replaced in any order is in its statement. `Laid` is the invariant of the loop over cycles: the
  output is the page up to a position of the template and the template from there on, no cycle
  begins in the first part (`FreeToken`: what was put in begins none, since values have no
  markers), so the leftmost cycle of the output is the next one of the template (`FirstCycle`),
  closed by the same end, and replacing it moves the position past it (`LaidStep`). A pair that
  begins before the position ends before it: without that part of `Laid` a cycle could have lost
  its end. `RenderInv` has one such part for each phase. `EachRoundEndsOne` is the safety half of
  `RenderingEnds`: each round of that loop that replaces something leaves one `{{ endfor }}` less, so
  there are no more rounds than ends, nested and broken cycles included.

Only model-checked: liveness (`EveryRequestAnswered`, `ServedUnlessHeld`, `EveryRequestEnds`,
`PageAnswered`, `RenderingEnds`, `RedirectsEnd`, `LoginArrives`), which is beyond TLAPS's reach.
Every other property of the passing runs has a theorem.

## Bounds

Each bound is a constant of its module, named there. Requests, calls, edits, faults and ids are
counted down by history counters or by the ids left (`MaxRequests`, `MaxCalls`, `MaxEdits`,
`MaxFaults`, `MaxId`, `Ids`), the clock stops at `MaxTime`, `Authors`, `Pressers`, `Buttons`,
`Picks`, `PagesOf`, `LoadsOf` and `Assets` say which users and pages do what in a run. None is in
the code, except `MaxFds` and `Backlog`, which stand for the process's limit and for `listen`'s.
The theorems hold for all their values.

## Not modelled, and why

- The vendored libraries (JSON, base64, bcrypt) and MySQL itself: its statements are modelled by
  the schema and the code's use.
- HTML and CSS, Quill's text editing, date and SEO fields (they go the way of the text), the
  routes commented out at the end of `routes.cpp`.
- The filter panel, its query and `/get_filter_data`'s JSON: they read the tables and write
  nothing; the page promises nothing about which of two answers it shows.
- Text: truncation, rendering of spans and translation of headings, pure functions over
  strings that no other part's behaviour depends on.
- The text of an answer. `include/tests/test_http_response.cpp:49-93` expects a line
  `session_id: abc123` for a cookie, no `Set-Cookie` line in an answer without one, and one
  `Content-Length`; the code (`src/http/http_response.cpp:6-23`) writes a `Set-Cookie` line, also without a
  cookie, and the length twice, from `setBody` and `getResponse`. The model has what the code writes, as
  far as browsers act on it; cookies merged into one line are left out, as no part of the site sets
  two.
- In `SiteExchange`: paths of slugs with `/`, `?` or `%`; the cross-origin case of the login
  page's fetch to `localhost`; a second request of the same tab at the same time; an asset that the
  main page names and the repository lacks (`loadFileContent` answers with empty text).
- Socket creation and `bind`, which run once before the loop and exit on failure.

## Plan

Left to do: what the handlers of `SiteExchange` and `AdminDesk` promise each other is checked apart;
an invariant over both (an admin page shown only with a session that was given to its browser) would
join them. The order of two filters' answers has no property, since the page promises none.
