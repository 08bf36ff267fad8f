---------------------------- MODULE SiteExchange ----------------------------
(***************************************************************************)
(* One browser with several tabs and the server: what goes over the wire.  *)
(* A request is parsed by HttpRequest, routed by Router to a handler of    *)
(* setupRoutes, which asks the session table (SessionService) and answers  *)
(* with HttpResponse; the browser keeps the cookie and follows redirects.  *)
(*                                                                         *)
(* Of a handler this module has the session check, the redirects and the   *)
(* cookie: what it does to articles is in ArticleStore and AdminDesk.      *)
(***************************************************************************)
EXTENDS Naturals, Sequences, FiniteSets, SequencesExt

CONSTANTS
    Tabs, Users,
    Creators, Editors,  \* users whose roles have the permission
    Ids,                \* bound: session ids, none given out twice
    Articles,           \* ids and slugs in links, as they stand in a path
    Categories,         \* names in links to category pages
    Assets,             \* bound: style sheets and scripts that pages load
    PagesOf,            \* bound: tab -> pages it goes to
    LoadsOf,            \* bound: tab -> those whose files and calls are made
    BareKept,           \* bound: directories whose nameless cookie is kept
    MaxFaults,          \* bound on drifts, restarts and lost answers
    Param, None, Out, Waiting

VARIABLES
    session,    \* of SessionService
    issued,     \* session ids ever given out
    jar,        \* cookies of the browser
    given,      \* history: the session id the browser was last given, or None
    shows,      \* tab -> the handler of the page it shows, or None
    exchange,   \* tab -> its request and answer under way, or None
    faults      \* counter for the bound

vars == <<session, issued, jar, given, shows, exchange, faults>>

S == INSTANCE SessionService

-----------------------------------------------------------------------------
\* setupRoutes: the routes, each named by its path.

FrontPage == <<"">>
LoginPage == <<"admin", "login_page">>
LoginHandler == <<"admin", "login_handler">>
MainPage == <<"admin", "main_page">>
FilterHandler == <<"admin", "main_page", "filter_handler">>
CreatorPage == <<"admin", "article_creator_page">>
CreatorHandler == <<"admin", "article_creator_handler">>
EditorPage == <<"admin", "article_editor_page", Param>>
EditorHandler == <<"admin", "article_editor_handler">>
ArticleJson == <<"admin", "get_json_of_article", Param>>
AllCategories == <<"admin", "get_json_of_all_categories">>
AllTags == <<"admin", "get_json_of_all_tags">>
CategoriesOf == <<"admin", "get_all_categories_of_aticle", Param>>
TagsOf == <<"admin", "get_all_tags_of_aticle", Param>>
Publish == <<"admin", "article_editor_page", "publish", Param>>
Delete == <<"admin", "article_editor_page", "delete", Param>>
Archive == <<"admin", "article_editor_page", "archive", Param>>
FilterData == <<"get_filter_data">>
Image == <<"images", Param>>
ReadPage == <<"article_read_page", Param>>
CategoryPage == <<"category_page", Param>>

StyleSheets ==
    {<<p, "styles.css">> : p \in {"main_page", "article_read_page", "category_page"}}
    \cup {<<"admin", p, "css", "styles.css">> : p \in {"article_creator", "article_editor", "main_page"}}
    \cup {<<"admin", "main_page", "css", f>> : f \in {"fp.css", "sp.css"}}
    \cup {<<"admin", "login_page", "css", "style.css">>}
Scripts ==
    {<<"admin", p, "js", f>> : p \in {"article_creator", "article_editor", "main_page"},
                               f \in {"functions.js", "quill_settings.js", "handlers.js"}}
    \cup {<<"admin", "main_page", "js", "fp.js">>}

StaticRoutes ==
    {FrontPage, LoginPage, LoginHandler, MainPage, FilterHandler, CreatorPage, CreatorHandler,
     EditorHandler, AllCategories, AllTags, FilterData} \cup StyleSheets \cup Scripts

DynamicRoutes ==
    <<EditorPage, ArticleJson, CategoriesOf, TagsOf, Publish, Delete, Archive, Image, ReadPage,
      CategoryPage>>

R == INSTANCE Router WITH Static <- StaticRoutes, Dynamic <- DynamicRoutes

\* Handlers that begin with isSessionOk. The last four need a right as well.
Checked ==
    {LoginPage, MainPage, FilterHandler, AllCategories, AllTags, CategoriesOf, TagsOf, Publish,
     Delete, Archive, CreatorPage, EditorPage, CreatorHandler, EditorHandler}

\* What a link is written for whose placeholder is left as it stood.
NoHandler == <<"{{ }}">>

Pages == {FrontPage, LoginPage, MainPage, CreatorPage, EditorPage, ReadPage, CategoryPage}

ASSUME BoundAssumption ==
    /\ IsFiniteSet(Tabs) /\ IsFiniteSet(Ids) /\ MaxFaults \in Nat
    /\ \A t \in Tabs : PagesOf[t] \subseteq Pages \cup {NoHandler}
    /\ Assets \subseteq StyleSheets \cup Scripts

\* Param stands for nothing but the parameter, the last segment of a pattern. A
\* link that is filled in names an article or a category, and none is named like
\* the style sheet beside it.
ASSUME NameAssumption ==
    /\ \A route \in StaticRoutes : \A i \in DOMAIN route : route[i] # Param
    /\ \A n \in DOMAIN DynamicRoutes : \A i \in DOMAIN DynamicRoutes[n] :
          DynamicRoutes[n][i] = Param <=> i = Len(DynamicRoutes[n])
    /\ \A name \in Articles \cup Categories : name \notin {"", "styles.css"}
    /\ None # "session_id"

-----------------------------------------------------------------------------
\* What a page links to, loads and fetches. Buttons that a user without the
\* right does not see are among the links: their addresses can be typed.

Target(handler) == [handler |-> handler, params |-> <<>>]
TargetsWith(handler, values) == {[handler |-> handler, params |-> <<v>>] : v \in values}

\* Placeholders left in links, and the paths a browser makes of them. The
\* article page is served as the file is, with the one of its image. The front
\* page has six links to articles and fills as many as there are articles.
RawLink == "{{ link }}"
Raw(path) == [handler |-> NoHandler, params |-> path]
RawImage == Raw(<<"article_read_page", RawLink>>)
RawHref == Raw(<<RawLink>>)

Filled(target) == target.handler # NoHandler

\* The menu, articles with their images, and a style sheet.
PublicLinks(style) ==
    {Target(FrontPage), Target(<<style, "styles.css">>)}
    \cup TargetsWith(CategoryPage, Categories) \cup TargetsWith(ReadPage, Articles)
    \cup TargetsWith(Image, Articles)

LinksOf(page) ==
    CASE page = FrontPage -> PublicLinks("main_page") \cup {Target(MainPage), RawHref}
      [] page = CategoryPage -> PublicLinks("category_page")
      [] page = ReadPage ->
            PublicLinks("article_read_page") \cup TargetsWith(ArticleJson, Articles) \cup {RawImage}
      [] page = LoginPage -> {Target(a) : a \in {b \in Assets : b[2] = "login_page"}}
      [] page = MainPage ->
            {Target(CreatorPage), Target(FilterHandler), Target(FilterData)}
            \cup (UNION {TargetsWith(h, Articles) : h \in {EditorPage, Publish, Delete, Archive, Image}})
            \cup {Target(a) : a \in {b \in Assets : b[2] = "main_page"}}
      [] page = CreatorPage ->
            {Target(MainPage), Target(CreatorHandler), Target(AllCategories), Target(AllTags)}
            \cup {Target(a) : a \in {b \in Assets : b[2] = "article_creator"}}
      [] page = EditorPage ->
            {Target(MainPage), Target(EditorHandler), Target(AllCategories), Target(AllTags)}
            \cup TargetsWith(ArticleJson, Articles)
            \cup {Target(a) : a \in {b \in Assets : b[2] = "article_editor"}}
      [] OTHER -> {}

\* Addresses that users type, the README's two.
Typed == {Target(LoginPage), Target(FrontPage)}

Targets == (UNION {LinksOf(p) : p \in Pages}) \cup Typed \cup {Target(LoginHandler)}

\* The path written for a target, and where it leads.
Url == [x \in Targets |-> IF Filled(x) THEN R!Link(x.handler, x.params) ELSE x.params]
Routed == [x \in Targets |-> R!handleRequest(Url[x])]

\* What the page itself loads or fetches. The rest is for users to go to.
Loads(target) == target.handler \notin Pages /\ target # RawHref

-----------------------------------------------------------------------------
\* The browser's cookies: [name, value, path]. (External.)

SessionId == "session_id"

\* The directory of a path: where the cookies of its answer are sent.
DefaultPath(path) == SubSeq(path, 1, Len(path) - 1)

\* The jar after an answer to path: its cookie in place of the one of that name
\* and directory. The Set-Cookie line of an answer without cookie, "HttpOnly",
\* names none: browsers keep a cookie without a name, or nothing.
Stored(path, cookie) ==
    LET new == [name |-> IF cookie = None THEN None ELSE SessionId, value |-> cookie,
                path |-> DefaultPath(path)]
    IN IF cookie = None /\ new.path \notin BareKept THEN jar
       ELSE {c \in jar : c.name # new.name \/ c.path # new.path} \cup {new}

\* The Cookie header: what is kept for the path's directories, deepest first.
CookieHeaders(kept, path) ==
    {h \in SetToSeqs({c \in kept : IsPrefix(c.path, path)}) :
        \A i, j \in DOMAIN h : i < j => Len(h[i].path) >= Len(h[j].path)}

-----------------------------------------------------------------------------
\* HttpRequest and HttpResponse.

FirstPart(header) ==
    [name \in (IF header = <<>> THEN {} ELSE {header[1].name} \ {None}) |-> header[1].value]

\* A part without "=" is skipped; of two with one name the first counts.
parseCookies(header) ==
    [name \in {header[i].name : i \in DOMAIN header} \ {None} |->
        header[CHOOSE i \in DOMAIN header :
                  /\ header[i].name = name
                  /\ \A j \in DOMAIN header : header[j].name = name => i <= j].value]

Answers == [location : {None, FrontPage, LoginPage, MainPage}, cookie : Ids \cup {None}]
Plain == [location |-> None, cookie |-> None]
Redirect(path) == [Plain EXCEPT !.location = path]

-----------------------------------------------------------------------------
\* A request and its answer. why: "visit" if the tab goes there, "fetch" if the
\* page or a script loads it, "login" if the login script sends it. who: whose
\* name and password it has, None if not a user's who is an admin. owed:
\* history, the session id given last when it was sent.

Whys == {"visit", "fetch", "login"}

Path(x) == Url[x.target]
Found(x) == Routed[x.target].handler
getCookie(x) == parseCookies(x.cookies)

TypeOK ==
    /\ session \in [Ids -> [user : Users, usable : BOOLEAN] \cup {Out}]
    /\ issued \subseteq Ids /\ given \in issued \cup {None}
    /\ \A c \in jar : <<c.name, c.value>> \in ({SessionId} \X issued) \cup {<<None, None>>}
    /\ shows \in [Tabs -> Pages \cup {R!Missing, None}]
    /\ \A t \in Tabs : exchange[t] # None =>
          /\ exchange[t].target \in Targets /\ exchange[t].why \in Whys
          /\ exchange[t].answer \in Answers \/ exchange[t].answer = Waiting
    /\ faults \in 0..MaxFaults

Init ==
    /\ S!Init
    /\ issued = {}
    /\ jar = {}
    /\ given = None
    /\ shows = [t \in Tabs |-> None]
    /\ exchange = [t \in Tabs |-> None]
    /\ faults = 0

\* Tab t sends a request with the cookies kept and the id given last.
Send(t, target, why, who, redirected, kept, last) ==
    \E h \in CookieHeaders(kept, Url[target]) :
        exchange' = [exchange EXCEPT ![t] =
            [target |-> target, why |-> why, who |-> who,
             redirected |-> redirected, cookies |-> h, owed |-> last, answer |-> Waiting]]

Begin(t, target, why, who) ==
    /\ exchange[t] = None
    /\ Send(t, target, why, who, FALSE, jar, given)
    /\ UNCHANGED <<session, issued, jar, given, shows, faults>>

Visit(t) ==
    \E target \in LinksOf(shows[t]) \cup Typed :
        ~Loads(target) /\ target.handler \in PagesOf[t] /\ Begin(t, target, "visit", None)

Fetch(t) ==
    /\ shows[t] \in LoadsOf[t]
    /\ \E target \in LinksOf(shows[t]) : Loads(target) /\ Begin(t, target, "fetch", None)

\* Logins that are under way and will take a session id.
LoggingIn == {t \in Tabs : exchange[t] # None /\ exchange[t].who # None}

Submit(t, who) ==
    /\ shows[t] = LoginPage
    /\ who # None => Cardinality(issued) + Cardinality(LoggingIn) < Cardinality(Ids)
    /\ Begin(t, Target(LoginHandler), "login", who)

-----------------------------------------------------------------------------
\* The server. A handler runs whole before the next request is taken.

Pending(t) == exchange[t] # None /\ exchange[t].answer = Waiting

\* The request is over: what it carried is not looked at any more.
Respond(t, answer) ==
    exchange' = [exchange EXCEPT ![t].answer = answer, ![t].cookies = <<>>, ![t].who = None,
                                 ![t].owed = None]

HasCookie(x) == SessionId \in DOMAIN getCookie(x)

isSessionOk(x) == HasCookie(x) /\ S!Usable(getCookie(x)[SessionId])

User(x) == session[getCookie(x)[SessionId]].user

NotLoggedInTypo == Redirect(LoginHandler)

NotLoggedIn == Redirect(LoginPage)

LoginPageByCookie(x) == IF HasCookie(x) THEN Redirect(MainPage) ELSE Plain

LoginPageAnswer(x) == IF isSessionOk(x) THEN Redirect(MainPage) ELSE Plain

AcceptedNoCookie(id) == Redirect(MainPage)

AcceptedAnswer(id) == [location |-> MainPage, cookie |-> id]

\* stoi throws on a placeholder.
NoArticle(x) == Routed[x.target].params = <<RawLink>>

\* What a handler may answer: the pages that read the tables may fail on them.
HandlerAnswers(handler, x) ==
    CASE handler = LoginPage -> {LoginPageAnswer(x)}
      [] handler \in Checked \ {LoginPage} /\ ~isSessionOk(x) -> {NotLoggedIn}
      [] handler = CreatorPage /\ isSessionOk(x) /\ User(x) \notin Creators -> {Redirect(MainPage)}
      [] handler = EditorPage /\ isSessionOk(x) /\ User(x) \notin Editors -> {Redirect(MainPage)}
      [] handler \in {CreatorHandler, EditorHandler} /\ isSessionOk(x) /\ User(x) \notin Creators -> {NotLoggedIn}
      [] handler = ReadPage /\ NoArticle(x) -> {Redirect(FrontPage)}
      [] handler \in {ReadPage, CategoryPage} /\ ~NoArticle(x) -> {Plain, Redirect(FrontPage)}
      [] OTHER -> {Plain}

HandleLogin(t) ==
    /\ Pending(t) /\ Found(exchange[t]) = LoginHandler
    /\ IF exchange[t].who = None
       THEN Respond(t, NotLoggedIn) /\ UNCHANGED <<session, issued>>
       ELSE LET id == CHOOSE id \in Ids : id \notin issued IN
               /\ S!Login(id, exchange[t].who)
               /\ issued' = issued \cup {id}
               /\ Respond(t, AcceptedAnswer(id))
    /\ UNCHANGED <<jar, given, shows, faults>>

\* Any other handler, or 404. isSessionOk removes a session that has lapsed.
HandleOther(t) ==
    /\ Pending(t) /\ Found(exchange[t]) # LoginHandler
    /\ \E answer \in HandlerAnswers(Found(exchange[t]), exchange[t]) : Respond(t, answer)
    /\ IF Found(exchange[t]) \in Checked /\ HasCookie(exchange[t]) /\ ~isSessionOk(exchange[t])
       THEN S!TurnAway(getCookie(exchange[t])[SessionId])
       ELSE UNCHANGED session
    /\ UNCHANGED <<issued, jar, given, shows, faults>>

-----------------------------------------------------------------------------
\* The answer reaches the browser.

\* A redirect is followed; the login script goes where it was redirected to.
Receive(t) ==
    /\ exchange[t] # None /\ ~Pending(t)
    /\ LET x == exchange[t]
           last == IF x.answer.cookie = None THEN given ELSE x.answer.cookie
           kept == Stored(Path(x), x.answer.cookie)
       IN /\ jar' = kept /\ given' = last
          /\ IF x.answer.location # None
             THEN Send(t, Target(x.answer.location), x.why, None, x.why = "login", kept, last) /\ UNCHANGED shows
             ELSE IF x.why = "login" /\ x.redirected
             THEN Send(t, x.target, "visit", None, FALSE, kept, last) /\ UNCHANGED shows
             ELSE /\ exchange' = [exchange EXCEPT ![t] = None]
                  /\ shows' = [shows EXCEPT ![t] = IF x.why = "visit" THEN Found(x) ELSE @]
    /\ UNCHANGED <<session, issued, faults>>

-----------------------------------------------------------------------------
\* Faults.

Fault == faults < MaxFaults /\ faults' = faults + 1

\* The exchanges of the tabs fail.
Broken(tabs) ==
    /\ exchange' = [t \in Tabs |-> IF t \in tabs THEN None ELSE exchange[t]]
    /\ shows' = [t \in Tabs |-> IF t \in tabs /\ exchange[t].why = "visit" THEN None ELSE shows[t]]

Lose(t) ==
    /\ exchange[t] # None
    /\ Fault /\ Broken({t})
    /\ UNCHANGED <<session, issued, jar, given>>

\* The process ends and is started again: the session table is in its memory.
Restart ==
    /\ Fault /\ Broken({t \in Tabs : Pending(t)})
    /\ session' = [id \in Ids |-> Out]
    /\ UNCHANGED <<issued, jar, given>>

Drift(in) ==
    /\ Fault /\ S!Drift(in) /\ session' # session
    /\ UNCHANGED <<issued, jar, given, shows, exchange>>

Next ==
    \/ \E t \in Tabs : Visit(t) \/ Fetch(t) \/ HandleLogin(t) \/ HandleOther(t) \/ Receive(t) \/ Lose(t)
    \/ \E t \in Tabs, who \in Users \cup {None} : Submit(t, who)
    \/ Restart
    \/ \E in \in SUBSET Ids : Drift(in)

\* The server takes every request in turn, the browser every answer.
Fairness ==
    \A t \in Tabs : WF_vars(HandleLogin(t) \/ HandleOther(t) \/ Receive(t))

Spec == Init /\ [][Next]_vars /\ Fairness

-----------------------------------------------------------------------------
\* What holds.

\* Whatever other cookies the browser keeps and wherever they stand in the
\* header, the server reads from a request to an admin page or handler the
\* session id that the browser was given last, and from any other request none.
CookieComesBack ==
    \A t \in Tabs : Pending(t) =>
        LET x == exchange[t] IN
        IF x.target.handler[1] = "admin" /\ x.owed # None
        THEN HasCookie(x) /\ getCookie(x)[SessionId] = x.owed
        ELSE ~HasCookie(x)

\* A link that is filled in leads to the handler it was written for, with the
\* parameters it was written with, though the paths of static and dynamic routes
\* overlap. A placeholder left in a link leads nowhere or, next to an article, to
\* the article page, for an article that is none.
Resolves(target) ==
    IF Filled(target) THEN Routed[target] = target
    ELSE Routed[target] \in {Target(R!Missing), [handler |-> ReadPage, params |-> <<RawLink>>]}

LinksResolve == \A t \in Tabs : Pending(t) => Resolves(exchange[t].target)

\* Redirects end: the login page and the main page do not send a tab to each
\* other for ever, whatever became of its session meanwhile.
RedirectsEnd == \A t \in Tabs : exchange[t] # None ~> exchange[t] = None

\* Nothing fails any more and no session lapsed on its way to the browser.
Calm ==
    /\ faults = MaxFaults
    /\ \A t \in Tabs : exchange[t] # None /\ ~Pending(t) /\ exchange[t].answer.cookie # None
                        => S!Usable(exchange[t].answer.cookie)

\* A login with a right name and password brings the tab to the main page, two
\* redirects and two requests later, while other tabs log in and go where they go.
LoginArrives ==
    \A t \in Tabs : (Calm /\ t \in LoggingIn) ~> shows[t] = MainPage
=============================================================================
