-------------------------- MODULE SiteExchangeProofs --------------------------
(***************************************************************************)
(* What SiteExchange.tla says holds, for any tabs, users, session ids,     *)
(* articles and categories: a link leads where it was written to lead, and *)
(* the session id that the browser was given comes back from it.           *)
(***************************************************************************)
EXTENDS SiteExchange, FiniteSetTheorems, SequenceTheorems, TLAPS

-----------------------------------------------------------------------------
\* Where a path leads. The patterns of setupRoutes have one parameter, the
\* last of their n segments.

OneParam(h, n) ==
    /\ n \in Nat \ {0} /\ Len(h) = n /\ DOMAIN h = 1..n
    /\ \A i \in 1..n : h[i] = Param <=> i = n

\* The path of the pattern with v in it.
With(h, n, v) == [i \in 1..n |-> IF i = n THEN v ELSE h[i]]

LEMMA LengthOf ==
    ASSUME NEW n \in Nat, NEW f, DOMAIN f = 1..n, f = [i \in 1..n |-> f[i]]
    PROVE  Len(f) = n
  <1> DEFINE values == {f[i] : i \in 1..n}
  <1>1. f \in [1..n -> values]
    OBVIOUS
  <1> HIDE DEF values
  <1>2. f \in Seq(values)
    BY <1>1
  <1>3. Len(f) \in Nat /\ 1..Len(f) = 1..n
    BY <1>1, <1>2
  <1> QED
    BY <1>3

LEMMA LengthOfWith ==
    ASSUME NEW n \in Nat \ {0}, NEW h, NEW v
    PROVE  Len(With(h, n, v)) = n /\ DOMAIN With(h, n, v) = 1..n
  <1> DEFINE f == With(h, n, v)
  <1>1. DOMAIN f = 1..n /\ f = [i \in 1..n |-> f[i]]
    BY DEF With
  <1> HIDE DEF f
  <1>2. Len(f) = n
    BY <1>1, LengthOf
  <1> QED
    BY <1>1, <1>2 DEF f

LEMMA SameCardinality == ASSUME NEW set PROVE R!Cardinality(set) = Cardinality(set)
  BY DEF R!Cardinality, Cardinality

LEMMA ParamAtEnd ==
    ASSUME NEW h, NEW n, OneParam(h, n), NEW i \in 1..n
    PROVE  R!ParamAt(h, i) = IF i = n THEN 1 ELSE 0
  <1> DEFINE found == {j \in 1..i : h[j] = Param}
  <1>1. n \in Nat \ {0}
    BY DEF OneParam
  <1>2. R!ParamAt(h, i) = Cardinality(found)
    BY SameCardinality DEF R!ParamAt
  <1>3. \A j \in 1..i : j \in 1..n
    BY <1>1
  <1>4. \A j \in 1..i : h[j] = Param <=> j = n
    BY <1>3 DEF OneParam
  <1>5. CASE i = n
    <2>1. found = {n}
      BY <1>1, <1>4, <1>5
    <2> QED
      BY <1>2, <1>5, <2>1, FS_Singleton
  <1>6. CASE i # n
    <2>1. found = {}
      BY <1>1, <1>4, <1>6
    <2> QED
      BY <1>2, <1>6, <2>1, FS_EmptySet
  <1> QED
    BY <1>5, <1>6

\* A page writes v in the place of the parameter.
LEMMA LinkOfPattern ==
    ASSUME NEW h, NEW n, OneParam(h, n), NEW v
    PROVE  R!Link(h, <<v>>) = With(h, n, v)
  <1>1. DOMAIN h = 1..n
    BY DEF OneParam
  <1>2. ASSUME NEW i \in 1..n
        PROVE  (IF h[i] # Param THEN h[i] ELSE <<v>>[R!ParamAt(h, i)]) = (IF i = n THEN v ELSE h[i])
    <2>1. h[i] = Param <=> i = n
      BY DEF OneParam
    <2>2. i = n => R!ParamAt(h, i) = 1
      BY ParamAtEnd
    <2> QED
      BY <2>1, <2>2
  <1> QED
    BY <1>1, <1>2 DEF R!Link, With

\* The regular expression of the pattern gives v back.
LEMMA ParamsOfPattern ==
    ASSUME NEW h, NEW n, OneParam(h, n), NEW v
    PROVE  R!pathParams(With(h, n, v), h) = <<v>>
  <1> DEFINE place(k) == CHOOSE i \in DOMAIN h : h[i] = Param /\ R!ParamAt(h, i) = k
  <1>1. DOMAIN h = 1..n /\ Len(h) = n /\ n \in 1..n
    BY DEF OneParam
  <1>2. R!ParamAt(h, n) = 1
    BY <1>1, ParamAtEnd
  <1>3. h[n] = Param /\ \A i \in DOMAIN h : h[i] = Param => i = n
    BY <1>1 DEF OneParam
  <1>4. place(1) = n
    BY <1>1, <1>2, <1>3
  <1> HIDE DEF place
  <1>5. R!pathParams(With(h, n, v), h) = [k \in 1..1 |-> With(h, n, v)[place(k)]]
    BY <1>1, <1>2 DEF R!pathParams, place
  <1>6. With(h, n, v)[n] = v
    BY <1>1 DEF With
  <1>7. \A k \in 1..1 : With(h, n, v)[place(k)] = v
    BY <1>4, <1>6
  <1> QED
    BY <1>5, <1>7

LEMMA PatternMatches ==
    ASSUME NEW h, NEW n, OneParam(h, n), NEW v, v # ""
    PROVE  R!Matches(With(h, n, v), h)
  <1>1. Len(h) = n /\ Len(With(h, n, v)) = n /\ DOMAIN With(h, n, v) = 1..n
    BY LengthOfWith DEF OneParam
  <1>2. ASSUME NEW i \in 1..n
        PROVE  IF h[i] = Param THEN With(h, n, v)[i] # "" ELSE With(h, n, v)[i] = h[i]
    <2>1. h[i] = Param <=> i = n
      BY DEF OneParam
    <2> QED
      BY <2>1 DEF With
  <1> QED
    BY <1>1, <1>2 DEF R!Matches

LEMMA LongerDiffers ==
    ASSUME NEW h, NEW n \in Nat \ {0}, NEW g, Len(g) # n, NEW v
    PROVE  ~R!Matches(With(h, n, v), g)
  BY LengthOfWith DEF R!Matches

LEMMA OtherPatternDiffers ==
    ASSUME NEW h, NEW n \in Nat \ {0}, NEW g, NEW i \in 1..n, i # n, g[i] # h[i], g[i] # Param,
           NEW v
    PROVE  ~R!Matches(With(h, n, v), g)
  <1>1. DOMAIN With(h, n, v) = 1..n
    BY LengthOfWith
  <1>2. With(h, n, v)[i] = h[i]
    BY DEF With
  <1> QED
    BY <1>1, <1>2 DEF R!Matches

-----------------------------------------------------------------------------
\* The routes of setupRoutes.

Two == {Image, ReadPage, CategoryPage}
Three == {EditorPage, ArticleJson, CategoriesOf, TagsOf}
Four == {Publish, Delete, Archive}

Patterns == Two \cup Three \cup Four

LEMMA DynamicDomain == DOMAIN DynamicRoutes = 1..10
  BY DEF DynamicRoutes

LEMMA PatternIs ==
    /\ \A n \in 1..10 : DynamicRoutes[n] \in Patterns
    /\ \A h \in Patterns : \E n \in 1..10 : DynamicRoutes[n] = h
  BY DEF DynamicRoutes, Patterns, Two, Three, Four

LEMMA ParamLast == \A h \in Patterns : \A i \in DOMAIN h : h[i] = Param <=> i = Len(h)
  <1> TAKE h \in Patterns
  <1>1. PICK n \in 1..10 : DynamicRoutes[n] = h
    BY PatternIs
  <1>2. n \in DOMAIN DynamicRoutes
    BY DynamicDomain
  <1> QED
    BY <1>1, <1>2, NameAssumption, Zenon

LEMMA PatternLengths ==
    /\ \A h \in Two : Len(h) = 2 /\ DOMAIN h = 1..2
    /\ \A h \in Three : Len(h) = 3 /\ DOMAIN h = 1..3
    /\ \A h \in Four : Len(h) = 4 /\ DOMAIN h = 1..4
  <1>1. \A h \in Two : Len(h) = 2 /\ DOMAIN h = 1..2
    BY DEF Two, Image, ReadPage, CategoryPage
  <1>2. \A h \in Three : Len(h) = 3 /\ DOMAIN h = 1..3
    BY DEF Three, EditorPage, ArticleJson, CategoriesOf, TagsOf
  <1>3. \A h \in Four : Len(h) = 4 /\ DOMAIN h = 1..4
    BY DEF Four, Publish, Delete, Archive
  <1> QED
    BY <1>1, <1>2, <1>3

LEMMA PatternsHaveOne ==
    ASSUME NEW h \in Patterns
    PROVE  OneParam(h, Len(h)) /\ Len(h) \in {2, 3, 4}
  <1>1. \A i \in DOMAIN h : h[i] = Param <=> i = Len(h)
    BY ParamLast
  <1>2. \E n \in {2, 3, 4} : Len(h) = n /\ DOMAIN h = 1..n
    BY PatternLengths DEF Patterns
  <1>3. PICK n \in {2, 3, 4} : Len(h) = n /\ DOMAIN h = 1..n
    BY <1>2
  <1>4. OneParam(h, n)
    BY <1>1, <1>3 DEF OneParam
  <1> QED
    BY <1>3, <1>4

LEMMA LengthTells ==
    ASSUME NEW h \in Patterns, NEW g \in Patterns, Len(h) = Len(g)
    PROVE  /\ h \in Two => g \in Two
           /\ h \in Three => g \in Three
           /\ h \in Four => g \in Four
  <1> DEFINE m == Len(h)
             n == Len(g)
  <1>1. /\ h \in Two => m = 2
        /\ h \in Three => m = 3
        /\ h \in Four => m = 4
    BY PatternLengths
  <1>2. \/ g \in Two /\ n = 2
        \/ g \in Three /\ n = 3
        \/ g \in Four /\ n = 4
    BY PatternLengths DEF Patterns
  <1>3. m = n
    OBVIOUS
  <1> HIDE DEF m, n
  <1> QED
    BY <1>1, <1>2, <1>3

\* Two patterns of one length differ before the parameter.
LEMMA PatternsApart ==
    /\ \A h, g \in Two : h # g => h[1] # g[1]
    /\ \A h, g \in Three : h # g => h[2] # g[2]
    /\ \A h, g \in Four : h # g => h[3] # g[3]
  <1>1. \A h, g \in Two : h # g => h[1] # g[1]
    BY DEF Two, Image, ReadPage, CategoryPage
  <1>2. \A h, g \in Three : h # g => h[2] # g[2]
    BY DEF Three, EditorPage, ArticleJson, CategoriesOf, TagsOf
  <1>3. \A h, g \in Four : h # g => h[3] # g[3]
    BY DEF Four, Publish, Delete, Archive
  <1> QED
    BY <1>1, <1>2, <1>3

LEMMA OtherDiffers ==
    ASSUME NEW h \in Patterns, NEW g \in Patterns, h # g, NEW v
    PROVE  ~R!Matches(With(h, Len(h), v), g)
  <1>1. CASE Len(h) # Len(g)
    BY <1>1, PatternsHaveOne, LongerDiffers
  <1>2. CASE Len(h) = Len(g)
    <2> DEFINE n == Len(h)
    <2>1. \E i \in 1..n : i # n /\ g[i] # h[i] /\ n \in Nat \ {0} /\ i \in DOMAIN g
      <3>1. CASE h \in Two
        <4>1. g \in Two
          BY <1>2, <3>1, LengthTells
        <4>2. g[1] # h[1] /\ n = 2 /\ DOMAIN g = 1..2
          BY <3>1, <4>1, PatternLengths, PatternsApart
        <4> HIDE DEF n
        <4> QED
          BY <4>2
      <3>2. CASE h \in Three
        <4>1. g \in Three
          BY <1>2, <3>2, LengthTells
        <4>2. g[2] # h[2] /\ n = 3 /\ DOMAIN g = 1..3
          BY <3>2, <4>1, PatternLengths, PatternsApart
        <4> HIDE DEF n
        <4> QED
          BY <4>2
      <3>3. CASE h \in Four
        <4>1. g \in Four
          BY <1>2, <3>3, LengthTells
        <4>2. g[3] # h[3] /\ n = 4 /\ DOMAIN g = 1..4
          BY <3>3, <4>1, PatternLengths, PatternsApart
        <4> HIDE DEF n
        <4> QED
          BY <4>2
      <3> QED
        BY <3>1, <3>2, <3>3 DEF Patterns
    <2>2. PICK i \in 1..n : i # n /\ g[i] # h[i] /\ n \in Nat \ {0} /\ i \in DOMAIN g
      BY <2>1
    <2>3. n = Len(g)
      BY <1>2
    <2>4. g[i] # Param
      BY <2>2, <2>3, ParamLast
    <2> HIDE DEF n
    <2>5. ~R!Matches(With(h, n, v), g)
      BY <2>2, <2>4, OtherPatternDiffers
    <2> QED
      BY <2>5 DEF n
  <1> QED
    BY <1>1, <1>2

LEMMA DynamicDistinct ==
    \A m, n \in 1..10 : m # n => DynamicRoutes[m] # DynamicRoutes[n]
  BY DEF DynamicRoutes, EditorPage, ArticleJson, CategoriesOf, TagsOf, Publish, Delete,
         Archive, Image, ReadPage, CategoryPage

LEMMA MinOfOne == \A n \in 1..10 : R!Min({n}) = n
  <1> SUFFICES ASSUME NEW n \in 1..10 PROVE R!Min({n}) = n
    OBVIOUS
  <1>1. n <= n
    OBVIOUS
  <1> QED
    BY <1>1 DEF R!Min

LEMMA DynamicResolves ==
    ASSUME NEW h \in Patterns, NEW v, v # ""
    PROVE  R!handleDynamicRoute(With(h, Len(h), v)) = [handler |-> h, params |-> <<v>>]
  <1> DEFINE path == With(h, Len(h), v)
             hits == {i \in DOMAIN DynamicRoutes : R!Matches(path, DynamicRoutes[i])}
  <1>1. PICK n \in 1..10 : DynamicRoutes[n] = h
    BY PatternIs
  <1>2. R!Matches(path, h) /\ R!pathParams(path, h) = <<v>>
    BY PatternsHaveOne, PatternMatches, ParamsOfPattern
  <1>3. \A i \in 1..10 : i # n => ~R!Matches(path, DynamicRoutes[i])
    BY <1>1, DynamicDistinct, PatternIs, OtherDiffers
  <1> HIDE DEF path
  <1>4. hits = {n}
    BY <1>1, <1>2, <1>3, DynamicDomain
  <1>6. R!Min({n}) = n
    BY MinOfOne, Zenon
  <1>7. R!handleDynamicRoute(path) =
           IF hits = {} THEN [handler |-> R!Missing, params |-> <<>>]
           ELSE [handler |-> DynamicRoutes[R!Min(hits)],
                 params |-> R!pathParams(path, DynamicRoutes[R!Min(hits)])]
    BY DEF R!handleDynamicRoute
  <1> HIDE DEF hits
  <1> QED
    BY <1>1, <1>2, <1>4, <1>6, <1>7 DEF path

\* Static routes: their lengths, and what tells them from the patterns.
OtherThanPatterns(r) ==
    \/ \E a : r = <<a>>
    \/ \E a, b : r = <<a, b>> /\ (a = "admin" \/ b = "styles.css")
    \/ \E a, c : r = <<a, "main_page", c>>
    \/ \E a, b, c, d : /\ r = <<a, b, c, d>>
                       /\ b \in {"article_creator", "article_editor", "main_page", "login_page"}

LEMMA StyleSheetsShape == \A r \in StyleSheets : OtherThanPatterns(r)
  BY DEF StyleSheets, OtherThanPatterns

LEMMA ScriptsShape == \A r \in Scripts : OtherThanPatterns(r)
  BY DEF Scripts, OtherThanPatterns

LEMMA SingleShape ==
    \A r \in {FrontPage, LoginPage, LoginHandler, MainPage, FilterHandler, CreatorPage,
              CreatorHandler, EditorHandler, AllCategories, AllTags, FilterData} :
        OtherThanPatterns(r)
  BY DEF FrontPage, LoginPage, LoginHandler, MainPage, FilterHandler, CreatorPage,
         CreatorHandler, EditorHandler, AllCategories, AllTags, FilterData, OtherThanPatterns

LEMMA StaticShape == \A r \in StaticRoutes : OtherThanPatterns(r)
  BY StyleSheetsShape, ScriptsShape, SingleShape DEF StaticRoutes

LEMMA StaticIsFunction ==
    ASSUME NEW r, OtherThanPatterns(r)
    PROVE  r = [i \in DOMAIN r |-> r[i]]
  <1>1. \A a : <<a>> = [i \in DOMAIN <<a>> |-> <<a>>[i]]
    OBVIOUS
  <1>2. \A a, b : <<a, b>> = [i \in DOMAIN <<a, b>> |-> <<a, b>>[i]]
    OBVIOUS
  <1>3. \A a, b, c : <<a, b, c>> = [i \in DOMAIN <<a, b, c>> |-> <<a, b, c>>[i]]
    OBVIOUS
  <1>4. \A a, b, c, d : <<a, b, c, d>> = [i \in DOMAIN <<a, b, c, d>> |-> <<a, b, c, d>>[i]]
    OBVIOUS
  <1>5. ASSUME NEW a, r = <<a>> PROVE r = [i \in DOMAIN r |-> r[i]]
    BY <1>1, <1>5
  <1>6. ASSUME NEW a, NEW b, r = <<a, b>> PROVE r = [i \in DOMAIN r |-> r[i]]
    BY <1>2, <1>6
  <1>7. ASSUME NEW a, NEW b, NEW c, r = <<a, b, c>> PROVE r = [i \in DOMAIN r |-> r[i]]
    BY <1>3, <1>7
  <1>8. ASSUME NEW a, NEW b, NEW c, NEW d, r = <<a, b, c, d>> PROVE r = [i \in DOMAIN r |-> r[i]]
    BY <1>4, <1>8
  <1> QED
    BY <1>5, <1>6, <1>7, <1>8 DEF OtherThanPatterns

LEMMA StaticLink ==
    ASSUME NEW r \in StaticRoutes
    PROVE  R!Link(r, <<>>) = r
  <1>1. \A i \in DOMAIN r : r[i] # Param
    BY NameAssumption
  <1>2. R!Link(r, <<>>) = [i \in DOMAIN r |-> r[i]]
    BY <1>1 DEF R!Link
  <1> QED
    BY <1>2, StaticShape, StaticIsFunction

LEMMA PatternHeads ==
    /\ \A h \in Two : h[1] # "admin"
    /\ \A h \in Three : h[2] # "main_page"
    /\ \A h \in Four :
          h[2] \notin {"article_creator", "article_editor", "main_page", "login_page"}
  <1>1. \A h \in Two : h[1] # "admin"
    BY DEF Two, Image, ReadPage, CategoryPage
  <1>2. \A h \in Three : h[2] # "main_page"
    BY DEF Three, EditorPage, ArticleJson, CategoriesOf, TagsOf
  <1>3. \A h \in Four :
          h[2] \notin {"article_creator", "article_editor", "main_page", "login_page"}
    BY DEF Four, Publish, Delete, Archive
  <1> QED
    BY <1>1, <1>2, <1>3

\* No link of a pattern is taken for a static route.
LEMMA PatternNotStatic ==
    ASSUME NEW h \in Patterns, NEW v, v # "styles.css"
    PROVE  With(h, Len(h), v) \notin StaticRoutes
  <1> DEFINE p == With(h, Len(h), v)
  <1>1. CASE h \in Two
    <2>1. Len(h) = 2 /\ h[1] # "admin"
      BY <1>1, PatternLengths, PatternHeads
    <2>2. Len(p) = 2 /\ p[1] # "admin" /\ p[2] = v
      BY <2>1, LengthOfWith DEF With
    <2> HIDE DEF p
    <2>3. ~OtherThanPatterns(p)
      BY <2>2 DEF OtherThanPatterns
    <2> QED
      BY <2>3, StaticShape DEF p
  <1>2. CASE h \in Three
    <2>1. Len(h) = 3 /\ h[2] # "main_page"
      BY <1>2, PatternLengths, PatternHeads
    <2>2. Len(p) = 3 /\ p[2] # "main_page"
      BY <2>1, LengthOfWith DEF With
    <2> HIDE DEF p
    <2>3. ~OtherThanPatterns(p)
      BY <2>2 DEF OtherThanPatterns
    <2> QED
      BY <2>3, StaticShape DEF p
  <1>3. CASE h \in Four
    <2>1. /\ Len(h) = 4
          /\ h[2] \notin {"article_creator", "article_editor", "main_page", "login_page"}
      BY <1>3, PatternLengths, PatternHeads
    <2>2. /\ Len(p) = 4
          /\ p[2] \notin {"article_creator", "article_editor", "main_page", "login_page"}
      BY <2>1, LengthOfWith DEF With
    <2> HIDE DEF p
    <2>3. ~OtherThanPatterns(p)
      BY <2>2 DEF OtherThanPatterns
    <2> QED
      BY <2>3, StaticShape DEF p
  <1> QED
    BY <1>1, <1>2, <1>3 DEF Patterns

\* Every target is a static route, a pattern with a name in it or a placeholder.
StaticTargets == {Target(r) : r \in StaticRoutes}
PatternTargets == UNION {TargetsWith(h, Articles \cup Categories) : h \in Patterns}
RawTargets == {RawHref, RawImage}

LEMMA PageLinks ==
    \A p : LinksOf(p) \subseteq StaticTargets \cup PatternTargets \cup RawTargets
  <1>1. \A r \in StaticRoutes : Target(r) \in StaticTargets
    BY DEF StaticTargets
  <1>2. \A h \in Patterns : /\ TargetsWith(h, Articles) \subseteq PatternTargets
                            /\ TargetsWith(h, Categories) \subseteq PatternTargets
    BY DEF PatternTargets, TargetsWith
  <1>3. {FrontPage, LoginPage, LoginHandler, MainPage, FilterHandler, CreatorPage, CreatorHandler,
         EditorHandler, AllCategories, AllTags, FilterData} \subseteq StaticRoutes
    BY DEF StaticRoutes
  <1>4. Assets \subseteq StaticRoutes
    BY BoundAssumption DEF StaticRoutes
  <1>5. \A style \in {"main_page", "article_read_page", "category_page"} :
            <<style, "styles.css">> \in StaticRoutes
    BY DEF StaticRoutes, StyleSheets
  <1>6. {CategoryPage, ReadPage, Image, ArticleJson, EditorPage, Publish, Delete, Archive} \subseteq Patterns
    BY DEF Patterns, Two, Three, Four
  <1>7. \A style \in {"main_page", "article_read_page", "category_page"} :
            PublicLinks(style) \subseteq StaticTargets \cup PatternTargets
    BY <1>1, <1>2, <1>3, <1>5, <1>6 DEF PublicLinks
  <1>8. \A test : {Target(a) : a \in {b \in Assets : b[2] = test}} \subseteq StaticTargets
    BY <1>1, <1>4
  <1>9. (UNION {TargetsWith(h, Articles) : h \in {EditorPage, Publish, Delete, Archive, Image}})
           \subseteq PatternTargets
    BY <1>2, <1>6
  <1> DEFINE all == StaticTargets \cup PatternTargets \cup RawTargets
  <1>10. PublicLinks("main_page") \cup {Target(MainPage), RawHref} \subseteq all
    BY <1>1, <1>3, <1>7 DEF RawTargets
  <1>11. PublicLinks("article_read_page") \cup TargetsWith(ArticleJson, Articles) \cup {RawImage}
            \subseteq all
    BY <1>2, <1>6, <1>7 DEF RawTargets
  <1>17. PublicLinks("category_page") \subseteq all
    BY <1>7
  <1>12. {Target(a) : a \in {b \in Assets : b[2] = "login_page"}} \subseteq all
    BY <1>8
  <1>13. {Target(CreatorPage), Target(FilterHandler), Target(FilterData)}
            \cup (UNION {TargetsWith(h, Articles) : h \in {EditorPage, Publish, Delete, Archive, Image}})
            \cup {Target(a) : a \in {b \in Assets : b[2] = "main_page"}} \subseteq all
    BY <1>1, <1>3, <1>8, <1>9
  <1>14. {Target(MainPage), Target(CreatorHandler), Target(AllCategories), Target(AllTags)}
            \cup {Target(a) : a \in {b \in Assets : b[2] = "article_creator"}} \subseteq all
    BY <1>1, <1>3, <1>8
  <1>15. {Target(MainPage), Target(EditorHandler), Target(AllCategories), Target(AllTags)}
            \cup TargetsWith(ArticleJson, Articles)
            \cup {Target(a) : a \in {b \in Assets : b[2] = "article_editor"}} \subseteq all
    BY <1>1, <1>2, <1>3, <1>6, <1>8
  <1> HIDE DEF all
  <1>16. ASSUME NEW p PROVE LinksOf(p) \subseteq all
    BY <1>10, <1>11, <1>12, <1>13, <1>14, <1>15, <1>17, Zenon DEF LinksOf
  <1> QED
    BY <1>16 DEF all

LEMMA TargetsAre == Targets \subseteq StaticTargets \cup PatternTargets \cup RawTargets
  <1>1. {LoginPage, FrontPage, LoginHandler} \subseteq StaticRoutes
    BY DEF StaticRoutes
  <1>2. Typed \cup {Target(LoginHandler)} \subseteq StaticTargets
    BY <1>1 DEF Typed, StaticTargets
  <1> QED
    BY <1>2, PageLinks DEF Targets

LEMMA StaticResolves ==
    ASSUME NEW r \in StaticRoutes
    PROVE  R!handleRequest(R!Link(r, <<>>)) = Target(r)
  BY StaticLink DEF R!handleRequest, Target

LEMMA PatternResolves ==
    ASSUME NEW h \in Patterns, NEW v, v # "", v # "styles.css"
    PROVE  R!handleRequest(R!Link(h, <<v>>)) = [handler |-> h, params |-> <<v>>]
  <1>1. R!Link(h, <<v>>) = With(h, Len(h), v)
    BY PatternsHaveOne, LinkOfPattern
  <1>2. R!Link(h, <<v>>) \notin StaticRoutes
    BY <1>1, PatternNotStatic
  <1> QED
    BY <1>1, <1>2, DynamicResolves DEF R!handleRequest

\* No route has one segment but the front page's and the filter data's, and none
\* is called like the links that are not filled in.
LEMMA SingleSegment ==
    /\ \A a : a \notin {"", "get_filter_data"} => <<a>> \notin StaticRoutes
    /\ \A a : <<a>> \notin Patterns
  <1>1. \A a : <<a>> \notin StyleSheets \cup Scripts
    BY DEF StyleSheets, Scripts
  <1>2. \A a : <<a>> \notin {LoginPage, LoginHandler, MainPage, FilterHandler, CreatorPage,
                            CreatorHandler, EditorHandler, AllCategories, AllTags}
    BY DEF LoginPage, LoginHandler, MainPage, FilterHandler, CreatorPage, CreatorHandler,
       EditorHandler, AllCategories, AllTags
  <1>3. \A a : a \notin {"", "get_filter_data"} => <<a>> # FrontPage /\ <<a>> # FilterData
    BY DEF FrontPage, FilterData
  <1>4. \A a : Len(<<a>>) = 1
    OBVIOUS
  <1>5. \A a : <<a>> \notin Patterns
    BY <1>4, PatternLengths DEF Patterns
  <1> QED
    BY <1>1, <1>2, <1>3, <1>5 DEF StaticRoutes

LEMMA RoutesAreHandlers == NoHandler \notin StaticRoutes \cup Patterns
  BY SingleSegment DEF NoHandler

LEMMA FilledTargets ==
    ASSUME NEW x \in Targets
    PROVE  /\ x \in StaticTargets \cup PatternTargets => Filled(x)
           /\ x \in RawTargets => ~Filled(x)
  BY RoutesAreHandlers DEF StaticTargets, PatternTargets, RawTargets, Target, TargetsWith, Filled,
     RawHref, RawImage, Raw

\* No pattern has one segment.
LEMMA RawHrefMissing == R!handleRequest(<<RawLink>>) = Target(R!Missing)
  <1>1. <<RawLink>> \notin StaticRoutes
    BY SingleSegment DEF RawLink
  <1>2. ASSUME NEW i \in DOMAIN DynamicRoutes PROVE ~R!Matches(<<RawLink>>, DynamicRoutes[i])
    <2>1. DynamicRoutes[i] \in Patterns
      BY DynamicDomain, PatternIs
    <2>2. Len(DynamicRoutes[i]) \in {2, 3, 4}
      BY <2>1, PatternsHaveOne
    <2> DEFINE path == <<RawLink>>
               pattern == DynamicRoutes[i]
    <2>3. Len(path) # Len(pattern)
      <3>1. Len(path) = 1
        OBVIOUS
      <3> HIDE DEF path, pattern
      <3> QED
        BY <2>2, <3>1 DEF pattern
    <2> HIDE DEF path, pattern
    <2>4. ~R!Matches(path, pattern)
      BY <2>3 DEF R!Matches
    <2> QED
      BY <2>4 DEF path, pattern
  <1>3. R!handleDynamicRoute(<<RawLink>>) = [handler |-> R!Missing, params |-> <<>>]
    BY <1>2 DEF R!handleDynamicRoute
  <1> QED
    BY <1>1, <1>3 DEF R!handleRequest, Target

\* The pattern of the article page takes the placeholder for an id.
LEMMA RawImageFound ==
    R!handleRequest(<<"article_read_page", RawLink>>) = [handler |-> ReadPage, params |-> <<RawLink>>]
  <1>1. ReadPage \in Patterns /\ Len(ReadPage) = 2 /\ ReadPage[1] = "article_read_page"
    BY DEF Patterns, Two, ReadPage
  <1>2. R!Link(ReadPage, <<RawLink>>) = With(ReadPage, 2, RawLink)
    BY <1>1, PatternsHaveOne, LinkOfPattern
  <1>3. With(ReadPage, 2, RawLink) = <<"article_read_page", RawLink>>
    BY <1>1 DEF With
  <1>4. RawLink # "" /\ RawLink # "styles.css"
    BY DEF RawLink
  <1> QED
    BY <1>1, <1>2, <1>3, <1>4, PatternResolves

\* Whatever a page links to, loads or fetches, the router finds for its path the
\* handler it was written for, with the parameters it was written with: though
\* static and dynamic routes overlap, and dynamic ones are tried in turn. Links
\* whose placeholder was left in them lead to 404 or to the article page.
THEOREM EveryLinkResolves == \A x \in Targets : Resolves(x)
  <1> SUFFICES ASSUME NEW x \in Targets PROVE Resolves(x)
    OBVIOUS
  <1>1. Filled(x) => Routed[x] = R!handleRequest(R!Link(x.handler, x.params))
    BY DEF Routed, Url
  <1>2. CASE x \in StaticTargets
    <2>1. PICK r \in StaticRoutes : x = Target(r)
      BY <1>2 DEF StaticTargets
    <2>2. x.handler = r /\ x.params = <<>>
      BY <2>1 DEF Target
    <2> QED
      BY <1>1, <1>2, <2>1, <2>2, StaticResolves, FilledTargets DEF Resolves
  <1>3. CASE x \in PatternTargets
    <2>1. PICK h \in Patterns : \E v \in Articles \cup Categories : x = [handler |-> h, params |-> <<v>>]
      BY <1>3 DEF PatternTargets, TargetsWith
    <2>2. PICK v \in Articles \cup Categories : x = [handler |-> h, params |-> <<v>>]
      BY <2>1
    <2>3. x.handler = h /\ x.params = <<v>>
      BY <2>2
    <2> QED
      BY <1>1, <1>3, <2>2, <2>3, NameAssumption, PatternResolves, FilledTargets DEF Resolves
  <1>4. CASE x \in RawTargets
    <2>1. ~Filled(x) /\ Routed[x] = R!handleRequest(x.params)
      BY <1>4, FilledTargets DEF Routed, Url
    <2>2. x.params = <<RawLink>> \/ x.params = <<"article_read_page", RawLink>>
      BY <1>4 DEF RawTargets, RawHref, RawImage, Raw
    <2> QED
      BY <2>1, <2>2, RawHrefMissing, RawImageFound DEF Resolves
  <1> QED
    BY <1>2, <1>3, <1>4, TargetsAre

-----------------------------------------------------------------------------
\* The header of a request.

AdminPath == <<"admin">>
SessionCookie(id) == [name |-> SessionId, value |-> id, path |-> AdminPath]

\* The browser keeps the session id it was given last, for the paths under
\* /admin, and cookies without a name.
JarOK(kept, last) ==
    /\ IsFiniteSet(kept)
    /\ \A c \in kept : \/ c.name = None /\ c.value = None
                       \/ c = SessionCookie(last) /\ last # None
    /\ last # None => SessionCookie(last) \in kept

\* What CookieComesBack says of one request.
CookieGiven(x) ==
    IF x.target.handler[1] = "admin" /\ x.owed # None
    THEN HasCookie(x) /\ getCookie(x)[SessionId] = x.owed
    ELSE ~HasCookie(x)

LEMMA NotNone == None # SessionId
  BY NameAssumption DEF SessionId

LEMMA FirstOf ==
    ASSUME NEW s
    PROVE  SubSeq(s, 1, 1) = <<s[1]>>
  <1> DEFINE set == {s[1]}
             first == SubSeq(s, 1, 1)
  <1>1. \A i \in 1..1 : s[i] \in set
    OBVIOUS
  <1> HIDE DEF set
  <1>2. /\ first \in Seq(set)
        /\ Len(first) = IF 1 <= 1 THEN 1 - 1 + 1 ELSE 0
        /\ \A i \in 1..1 - 1 + 1 : first[i] = s[1 + i - 1]
    BY <1>1, SubSeqProperties
  <1> HIDE DEF first
  <1>3. Len(first) = 1 /\ first[1] = s[1]
    BY <1>2
  <1>4. <<s[1]>> \in Seq(set) /\ Len(<<s[1]>>) = 1
    BY <1>1
  <1>5. \A i \in 1..1 : first[i] = <<s[1]>>[i]
    BY <1>3
  <1>6. first = <<s[1]>>
    BY <1>2, <1>3, <1>4, <1>5, SeqEqual
  <1> QED
    BY <1>6 DEF first

LEMMA AdminPrefix ==
    ASSUME NEW set, NEW path \in Seq(set), Len(path) # 0
    PROVE  IsPrefix(AdminPath, path) <=> path[1] = "admin"
  <1>1. Len(AdminPath) = 1 /\ AdminPath[1] = "admin"
    BY DEF AdminPath
  <1>2. Len(path) >= 1
    OBVIOUS
  <1>3. SubSeq(AdminPath, 1, 1) = <<"admin">> /\ SubSeq(path, 1, 1) = <<path[1]>>
    BY <1>1, FirstOf
  <1>4. <<"admin">> = <<path[1]>> <=> path[1] = "admin"
    OBVIOUS
  <1> QED
    BY <1>1, <1>2, <1>3, <1>4 DEF IsPrefix

LEMMA LoginDirectory == DefaultPath(LoginHandler) = AdminPath
  <1>1. Len(LoginHandler) - 1 = 1 /\ LoginHandler[1] = "admin"
    BY DEF LoginHandler
  <1> QED
    BY <1>1, FirstOf DEF DefaultPath, AdminPath

LEMMA IsSequence ==
    ASSUME NEW n \in Nat, NEW f, DOMAIN f = 1..n, f = [i \in 1..n |-> f[i]]
    PROVE  \E set : f \in Seq(set)
  <1> DEFINE values == {f[i] : i \in 1..n}
  <1>1. f \in [1..n -> values]
    OBVIOUS
  <1> HIDE DEF values
  <1>2. f \in Seq(values)
    BY <1>1
  <1> QED
    BY <1>2

\* A request is for a path under /admin if its handler is.
LEMMA UrlHead ==
    ASSUME NEW x \in Targets
    PROVE  IsPrefix(AdminPath, Url[x]) <=> x.handler[1] = "admin"
  <1> DEFINE path == Url[x]
             admin(s) == s[1] = "admin"
  <1>1. path = IF Filled(x) THEN R!Link(x.handler, x.params) ELSE x.params
    BY DEF Url
  <1>2. \E n \in Nat \ {0} : /\ DOMAIN path = 1..n /\ path = [i \in 1..n |-> path[i]]
                             /\ admin(path) <=> admin(x.handler)
    <2>1. CASE x \in StaticTargets
      <3>1. PICK r \in StaticRoutes : x = Target(r)
        BY <2>1 DEF StaticTargets
      <3>2. x.handler = r /\ path = r
        BY <1>1, <2>1, <3>1, StaticLink, FilledTargets DEF Target
      <3>3. r = [i \in DOMAIN r |-> r[i]]
        BY StaticShape, StaticIsFunction
      <3>4. \E n \in {1, 2, 3, 4} : DOMAIN r = 1..n
        <4>1. ASSUME NEW a PROVE DOMAIN <<a>> = 1..1
          OBVIOUS
        <4>2. ASSUME NEW a, NEW b PROVE DOMAIN <<a, b>> = 1..2
          OBVIOUS
        <4>3. ASSUME NEW a, NEW b, NEW c PROVE DOMAIN <<a, b, c>> = 1..3
          OBVIOUS
        <4>4. ASSUME NEW a, NEW b, NEW c, NEW d PROVE DOMAIN <<a, b, c, d>> = 1..4
          OBVIOUS
        <4>5. OtherThanPatterns(r)
          BY StaticShape
        <4> QED
          BY <4>1, <4>2, <4>3, <4>4, <4>5 DEF OtherThanPatterns
      <3>5. PICK n \in {1, 2, 3, 4} : DOMAIN r = 1..n
        BY <3>4
      <3> HIDE DEF path, admin
      <3> QED
        BY <3>2, <3>3, <3>5
    <2>2. CASE x \in PatternTargets
      <3>1. PICK h \in Patterns : \E v \in Articles \cup Categories : x = [handler |-> h, params |-> <<v>>]
        BY <2>2 DEF PatternTargets, TargetsWith
      <3>2. PICK v \in Articles \cup Categories : x = [handler |-> h, params |-> <<v>>]
        BY <3>1
      <3>3. x.handler = h /\ path = With(h, Len(h), v)
        BY <1>1, <2>2, <3>2, PatternsHaveOne, LinkOfPattern, FilledTargets
      <3>4. PICK n \in {2, 3, 4} : n = Len(h)
        BY PatternsHaveOne
      <3> HIDE DEF path
      <3>5. DOMAIN path = 1..n /\ path = [i \in 1..n |-> path[i]] /\ path[1] = h[1]
        BY <3>3, <3>4 DEF With
      <3> QED
        BY <3>3, <3>5
    <2>3. CASE x \in RawTargets
      <3>1. path = x.params /\ x.handler = NoHandler
        BY <1>1, <2>3, FilledTargets DEF Filled
      <3>2. x.params = <<RawLink>> \/ x.params = <<"article_read_page", RawLink>>
        BY <2>3 DEF RawTargets, RawHref, RawImage, Raw
      <3>3. ~admin(NoHandler)
        BY DEF NoHandler
      <3> HIDE DEF path
      <3>4. CASE x.params = <<RawLink>>
        <4>1. path = <<RawLink>> /\ RawLink # "admin"
          BY <3>1, <3>4 DEF RawLink
        <4>2. DOMAIN path = 1..1 /\ path = [i \in 1..1 |-> path[i]]
          BY <4>1
        <4>3. ~admin(path)
          BY <4>1
        <4> QED
          BY <3>1, <3>3, <4>2, <4>3
      <3>5. CASE x.params = <<"article_read_page", RawLink>>
        <4>1. DOMAIN path = 1..2 /\ path = [i \in 1..2 |-> path[i]] /\ ~admin(path)
          BY <3>1, <3>5
        <4> QED
          BY <3>1, <3>3, <4>1
      <3> QED
        BY <3>2, <3>4, <3>5
    <2> QED
      BY <2>1, <2>2, <2>3, TargetsAre
  <1> HIDE DEF path, admin
  <1>3. PICK n \in Nat \ {0} : /\ DOMAIN path = 1..n /\ path = [i \in 1..n |-> path[i]]
                               /\ admin(path) <=> admin(x.handler)
    BY <1>2
  <1>4. DOMAIN path = 1..n /\ path = [i \in 1..n |-> path[i]]
    BY <1>3, Zenon
  <1>5. PICK set : path \in Seq(set)
    BY <1>4, IsSequence
  <1>6. Len(path) # 0
    BY <1>4, LengthOf
  <1>7. IsPrefix(AdminPath, path) <=> admin(path)
    BY <1>5, <1>6, AdminPrefix DEF admin
  <1>8. admin(path) <=> admin(x.handler)
    BY <1>3, Zenon
  <1> QED
    BY <1>7, <1>8, Zenon DEF path, admin

\* A sequence that lists a finite set leaves nothing out and repeats nothing.
LEMMA ListsAll ==
    ASSUME NEW set, IsFiniteSet(set), NEW h \in SetToSeqs(set)
    PROVE  /\ DOMAIN h = 1..Cardinality(set)
           /\ \A i \in DOMAIN h : h[i] \in set
           /\ \A c \in set : \E i \in DOMAIN h : h[i] = c
           /\ \A i, j \in DOMAIN h : h[i] = h[j] => i = j
  <1> DEFINE n == Cardinality(set)
             D == 1..n
  <1>1. n \in Nat
    BY FS_CardinalityType
  <1>2. h \in [D -> set] /\ \A i, j \in D : i # j => h[i] # h[j]
    BY DEF SetToSeqs
  <1>3. IsFiniteSet(D) /\ Cardinality(D) = n
    <2> HIDE DEF n
    <2> QED
      BY <1>1, FS_Interval
  <1> HIDE DEF n, D
  <1>4. h \in Injection(D, set)
    BY <1>2 DEF Injection, IsInjective
  <1>5. h \in Surjection(D, set)
    BY <1>3, <1>4, FS_Injection DEF n
  <1>6. \A c \in set : \E i \in D : h[i] = c
    BY <1>5 DEF Surjection
  <1> QED
    BY <1>2, <1>6 DEF D, n

\* The header of a request sent with the cookies kept.
LEMMA HeaderTells ==
    ASSUME NEW kept, NEW last, JarOK(kept, last),
           NEW x, x.target \in Targets, x.owed = last,
           x.cookies \in CookieHeaders(kept, Url[x.target])
    PROVE  CookieGiven(x)
  <1> DEFINE h == x.cookies
             path == Url[x.target]
             sent == {c \in kept : IsPrefix(c.path, path)}
             named == {h[i].name : i \in DOMAIN h} \ {None}
             admin == x.target.handler[1] = "admin"
  <1>1. h \in SetToSeqs(sent)
    BY DEF CookieHeaders
  <1>2. IsFiniteSet(sent)
    BY FS_Subset DEF JarOK
  <1>3. /\ \A i \in DOMAIN h : h[i] \in sent
        /\ \A c \in sent : \E i \in DOMAIN h : h[i] = c
        /\ \A i, j \in DOMAIN h : h[i] = h[j] => i = j
    <2> HIDE DEF h, sent
    <2> QED
      BY <1>1, <1>2, ListsAll
  <1>4. SessionCookie(last).path = AdminPath /\ SessionCookie(last).name = SessionId
        /\ SessionCookie(last).value = last
    BY DEF SessionCookie
  <1>5. IsPrefix(AdminPath, path) <=> admin
    BY UrlHead
  <1>6. \A c \in sent : c.name = SessionId => c = SessionCookie(last) /\ last # None /\ admin
    BY <1>4, <1>5, NotNone DEF JarOK
  <1>7. admin /\ last # None => SessionCookie(last) \in sent
    BY <1>4, <1>5 DEF JarOK
  <1>8. HasCookie(x) <=> SessionId \in named
    BY DEF HasCookie, getCookie, parseCookies
  <1> HIDE DEF sent, admin
  <1>9. CASE admin /\ last # None
    <2>1. PICK k \in DOMAIN h : h[k] = SessionCookie(last)
      BY <1>3, <1>7, <1>9
    <2>2. SessionId \in named
      BY <1>4, <2>1, NotNone
    <2>3. \A i \in DOMAIN h : h[i].name = SessionId => i = k
      BY <1>3, <1>6, <2>1
    <2>4. h[k].name = SessionId /\ h[k].value = last
      BY <1>4, <2>1
    <2> DEFINE first == CHOOSE i \in DOMAIN h :
                           /\ h[i].name = SessionId
                           /\ \A j \in DOMAIN h : h[j].name = SessionId => i <= j
    <2>5. first = k
      <3>1. k <= k
        <4>1. DOMAIN h = 1..Cardinality(sent) /\ Cardinality(sent) \in Nat
          BY <1>1, <1>2, ListsAll, FS_CardinalityType
        <4>2. k \in Nat
          BY <4>1
        <4> QED
          BY <4>2
      <3> QED
        BY <2>3, <2>4, <3>1
    <2>6. getCookie(x)[SessionId] = h[first].value
      BY <2>2 DEF getCookie, parseCookies
    <2> HIDE DEF first, h, named
    <2> QED
      BY <1>8, <1>9, <2>2, <2>4, <2>5, <2>6 DEF CookieGiven, admin
  <1>10. CASE ~(admin /\ last # None)
    <2>1. SessionId \notin named
      BY <1>3, <1>6, <1>10
    <2> HIDE DEF h, named
    <2> QED
      BY <1>8, <1>10, <2>1 DEF CookieGiven, admin
  <1> QED
    BY <1>9, <1>10

LEMMA NoHeader ==
    ASSUME NEW x, x.cookies = <<>>, x.owed = None
    PROVE  CookieGiven(x)
  <1>1. DOMAIN x.cookies = {}
    OBVIOUS
  <1>2. {x.cookies[i].name : i \in DOMAIN x.cookies} = {}
    BY <1>1
  <1>3. ~HasCookie(x)
    BY <1>2 DEF HasCookie, getCookie, parseCookies
  <1> QED
    BY <1>3 DEF CookieGiven

\* What the browser makes of an answer.
LEMMA StoredKeeps ==
    ASSUME JarOK(jar, given), NEW path, NEW cookie,
           cookie # None => DefaultPath(path) = AdminPath
    PROVE  JarOK(Stored(path, cookie), IF cookie = None THEN given ELSE cookie)
  <1> DEFINE new == [name |-> IF cookie = None THEN None ELSE SessionId, value |-> cookie,
                     path |-> DefaultPath(path)]
             rest == {c \in jar : c.name # new.name \/ c.path # new.path}
             stored == rest \cup {new}
  <1>1. IsFiniteSet(stored)
    BY FS_Subset, FS_AddElement DEF JarOK
  <1>2. CASE cookie = None
    <2>1. new.name = None /\ new.value = None
      BY <1>2
    <2>2. SessionCookie(given).name # None
      BY NotNone DEF SessionCookie
    <2>3. given # None => SessionCookie(given) \in rest
      BY <2>1, <2>2 DEF JarOK
    <2>4. \A c \in rest : \/ c.name = None /\ c.value = None
                          \/ c = SessionCookie(given) /\ given # None
      BY DEF JarOK
    <2>5. Stored(path, cookie) = jar \/ Stored(path, cookie) = stored
      BY DEF Stored
    <2> HIDE DEF new, rest
    <2>6. JarOK(stored, given)
      BY <1>1, <2>1, <2>3, <2>4 DEF JarOK
    <2> HIDE DEF stored
    <2> QED
      BY <1>2, <2>5, <2>6
  <1>3. CASE cookie # None
    <2>1. new = SessionCookie(cookie)
      BY <1>3 DEF SessionCookie
    <2>2. Stored(path, cookie) = stored
      BY <1>3 DEF Stored
    <2>3. ASSUME NEW c \in rest PROVE c.name = None /\ c.value = None
      <3>1. SessionCookie(given).name = SessionId /\ SessionCookie(given).path = AdminPath
        BY DEF SessionCookie
      <3>2. new.name = SessionId /\ new.path = AdminPath
        BY <1>3
      <3> QED
        BY <2>3, <3>1, <3>2 DEF JarOK
    <2> HIDE DEF new, rest
    <2>4. JarOK(stored, cookie)
      BY <1>1, <1>3, <2>1, <2>3 DEF JarOK
    <2> HIDE DEF stored
    <2> QED
      BY <1>3, <2>2, <2>4
  <1> QED
    BY <1>2, <1>3

-----------------------------------------------------------------------------
\* The inductive invariant.

Rows == [user : Users, usable : BOOLEAN]

\* A request or an answer under way. Only the login handler gives a session id,
\* and only a page is shown.
ExchangeOK(x, ids) ==
    /\ x = [target |-> x.target, why |-> x.why, who |-> x.who, redirected |-> x.redirected,
            cookies |-> x.cookies, owed |-> x.owed, answer |-> x.answer]
    /\ x.target \in Targets /\ x.why \in Whys /\ x.who \in Users \cup {None}
    /\ x.why = "visit" \/ x.redirected = TRUE => ~Loads(x.target)
    /\ x.answer = Waiting => CookieGiven(x)
    /\ x.answer # Waiting =>
          /\ x.answer \in Answers /\ x.answer.cookie \in ids \cup {None}
          /\ x.answer.cookie # None => x.target = Target(LoginHandler)

\* The browser and the server apart from what is under way.
EndsOK ==
    /\ session \in [Ids -> Rows \cup {Out}]
    /\ issued \subseteq Ids /\ given \in issued \cup {None}
    /\ shows \in [Tabs -> Pages \cup {R!Missing, None}]
    /\ faults \in 0..MaxFaults
    /\ JarOK(jar, given)

WireOK ==
    /\ exchange = [t \in Tabs |-> exchange[t]]
    /\ \A t \in Tabs : exchange[t] # None => ExchangeOK(exchange[t], issued)

\* There is an id for every login under way.
RoomLeft == Cardinality(issued) + Cardinality(LoggingIn) <= Cardinality(Ids)

SiteInv == EndsOK /\ WireOK /\ RoomLeft

LEMMA SiteInvImplies == SiteInv => TypeOK /\ CookieComesBack /\ LinksResolve
  <1> SUFFICES ASSUME SiteInv PROVE TypeOK /\ CookieComesBack /\ LinksResolve
    OBVIOUS
  <1>1. \A c \in jar : <<c.name, c.value>> \in ({SessionId} \X issued) \cup {<<None, None>>}
    <2> TAKE c \in jar
    <2>1. CASE c.name = None /\ c.value = None
      BY <2>1
    <2>2. CASE c = SessionCookie(given) /\ given # None
      <3>1. c.name = SessionId /\ c.value = given /\ given \in issued
        BY <2>2 DEF SessionCookie, SiteInv, EndsOK
      <3> QED
        BY <3>1
    <2> QED
      BY <2>1, <2>2 DEF SiteInv, EndsOK, JarOK
  <1>2. TypeOK
    BY <1>1 DEF TypeOK, SiteInv, EndsOK, WireOK, ExchangeOK, Rows
  <1>3. CookieComesBack
    BY DEF CookieComesBack, Pending, SiteInv, WireOK, ExchangeOK, CookieGiven
  <1>4. LinksResolve
    BY EveryLinkResolves DEF LinksResolve, Pending, SiteInv, WireOK, ExchangeOK
  <1> QED
    BY <1>2, <1>3, <1>4

LEMMA LoggingInFinite == IsFiniteSet(LoggingIn) /\ Cardinality(LoggingIn) \in Nat
  <1>1. LoggingIn \in SUBSET Tabs /\ IsFiniteSet(Tabs)
    BY BoundAssumption DEF LoggingIn
  <1> QED
    BY <1>1, FS_Subset, FS_CardinalityType

LEMMA IssuedFinite ==
    ASSUME issued \subseteq Ids
    PROVE  IsFiniteSet(issued) /\ Cardinality(issued) \in Nat
  BY BoundAssumption, FS_Subset, FS_CardinalityType

LEMMA IdsFinite == IsFiniteSet(Ids) /\ Cardinality(Ids) \in Nat
  BY BoundAssumption, FS_CardinalityType

\* Ids are counted in logins begun: none is begun for which there is none.
LEMMA RoomKept ==
    ASSUME SiteInv, issued' = issued, LoggingIn' \subseteq LoggingIn
    PROVE  RoomLeft'
  <1>1. LoggingIn' \in SUBSET LoggingIn
    OBVIOUS
  <1>2. IsFiniteSet(LoggingIn') /\ Cardinality(LoggingIn') <= Cardinality(LoggingIn)
    BY <1>1, LoggingInFinite, FS_Subset
  <1>3. Cardinality(LoggingIn') \in Nat /\ Cardinality(LoggingIn) \in Nat /\ Cardinality(issued) \in Nat
    BY <1>2, LoggingInFinite, IssuedFinite, FS_CardinalityType DEF SiteInv, EndsOK
  <1>4. Cardinality(issued)' = Cardinality(issued) /\ Cardinality(LoggingIn)' = Cardinality(LoggingIn')
    OBVIOUS
  <1>5. Cardinality(issued) + Cardinality(LoggingIn) <= Cardinality(Ids)
    BY DEF SiteInv, RoomLeft
  <1> DEFINE i == Cardinality(issued)
             l == Cardinality(LoggingIn)
             m == Cardinality(LoggingIn')
             n == Cardinality(Ids)
  <1>6. n \in Nat
    BY IdsFinite
  <1> HIDE DEF i, l, m, n
  <1>7. i + m <= n
    BY <1>2, <1>3, <1>5, <1>6 DEF i, l, m, n
  <1> QED
    BY <1>4, <1>7 DEF RoomLeft, i, m, n

LEMMA InitKeeps == Init => SiteInv
  <1> SUFFICES ASSUME Init PROVE SiteInv
    OBVIOUS
  <1>1. JarOK(jar, given)
    BY FS_EmptySet DEF Init, JarOK
  <1>2. session \in [Ids -> Rows \cup {Out}]
    BY DEF Init, S!Init
  <1>3. EndsOK
    BY <1>1, <1>2, BoundAssumption DEF Init, EndsOK
  <1>4. WireOK
    BY DEF Init, WireOK
  <1>5. LoggingIn = {} /\ issued = {}
    BY DEF Init, LoggingIn
  <1>6. RoomLeft
    BY <1>5, FS_EmptySet, IdsFinite DEF RoomLeft
  <1> QED
    BY <1>3, <1>4, <1>6 DEF SiteInv

-----------------------------------------------------------------------------
\* The steps: what each does to the exchange of its tab.

LEMMA MoreIds ==
    ASSUME NEW x, NEW ids, NEW more, ids \subseteq more, ExchangeOK(x, ids)
    PROVE  ExchangeOK(x, more)
  BY Zenon DEF ExchangeOK

LEMMA WireStep ==
    ASSUME SiteInv, NEW t \in Tabs, NEW x, exchange' = [exchange EXCEPT ![t] = x],
           issued \subseteq issued', x = None \/ ExchangeOK(x, issued')
    PROVE  WireOK'
  <1>1. exchange = [u \in Tabs |-> exchange[u]]
    BY DEF SiteInv, WireOK
  <1>2. exchange' = [u \in Tabs |-> exchange'[u]]
    BY <1>1
  <1>3. ASSUME NEW u \in Tabs, exchange'[u] # None
        PROVE  ExchangeOK(exchange'[u], issued')
    <2>1. CASE u = t
      BY <1>1, <1>3, <2>1
    <2>2. CASE u # t
      <3>1. exchange'[u] = exchange[u]
        BY <1>1, <2>2
      <3>2. ExchangeOK(exchange[u], issued)
        BY <1>3, <3>1 DEF SiteInv, WireOK
      <3> QED
        BY <3>1, <3>2, MoreIds
    <2> QED
      BY <2>1, <2>2
  <1> QED
    BY <1>2, <1>3 DEF WireOK

\* A tab whose exchange has no user's name is not logging in.
LEMMA WhoIsLoggingIn ==
    ASSUME SiteInv, NEW t \in Tabs, NEW x, exchange' = [exchange EXCEPT ![t] = x]
    PROVE  /\ LoggingIn' \subseteq LoggingIn \cup {t}
           /\ x = None \/ x.who = None => LoggingIn' \subseteq LoggingIn \ {t}
  <1>1. exchange = [u \in Tabs |-> exchange[u]]
    BY DEF SiteInv, WireOK
  <1>2. exchange'[t] = x /\ \A u \in Tabs : u # t => exchange'[u] = exchange[u]
    BY <1>1
  <1> QED
    BY <1>2 DEF LoggingIn

LEMMA SendOK ==
    ASSUME NEW target \in Targets, NEW why \in Whys, NEW who \in Users \cup {None},
           NEW redirected, why = "visit" \/ redirected = TRUE => ~Loads(target),
           NEW kept, NEW last, JarOK(kept, last), NEW ids,
           NEW h \in CookieHeaders(kept, Url[target])
    PROVE  ExchangeOK([target |-> target, why |-> why, who |-> who, redirected |-> redirected,
                       cookies |-> h, owed |-> last, answer |-> Waiting], ids)
  <1> DEFINE x == [target |-> target, why |-> why, who |-> who, redirected |-> redirected,
                   cookies |-> h, owed |-> last, answer |-> Waiting]
  <1>1. /\ x.target = target /\ x.why = why /\ x.who = who /\ x.redirected = redirected
        /\ x.cookies = h /\ x.owed = last /\ x.answer = Waiting
    OBVIOUS
  <1>2. x = [target |-> x.target, why |-> x.why, who |-> x.who, redirected |-> x.redirected,
             cookies |-> x.cookies, owed |-> x.owed, answer |-> x.answer]
    BY <1>1
  <1> HIDE DEF x
  <1>3. CookieGiven(x)
    BY <1>1, HeaderTells
  <1>4. ExchangeOK(x, ids)
    BY <1>1, <1>2, <1>3 DEF ExchangeOK
  <1> QED
    BY <1>4 DEF x

\* What a tab sends is in order when what it is sent with is.
LEMMA SendKeeps ==
    ASSUME SiteInv, issued' = issued, NEW t \in Tabs,
           NEW target \in Targets, NEW why \in Whys, NEW who \in Users \cup {None},
           NEW redirected, why = "visit" \/ redirected = TRUE => ~Loads(target),
           NEW kept, NEW last, JarOK(kept, last),
           Send(t, target, why, who, redirected, kept, last)
    PROVE  /\ WireOK'
           /\ LoggingIn' \subseteq LoggingIn \cup {t}
           /\ who = None => LoggingIn' \subseteq LoggingIn
  <1> DEFINE x(h) == [target |-> target, why |-> why, who |-> who, redirected |-> redirected,
                      cookies |-> h, owed |-> last, answer |-> Waiting]
  <1>1. PICK h \in CookieHeaders(kept, Url[target]) : exchange' = [exchange EXCEPT ![t] = x(h)]
    BY DEF Send
  <1>2. ExchangeOK(x(h), issued')
    BY SendOK
  <1>3. x(h).who = who
    OBVIOUS
  <1> HIDE DEF x
  <1>4. WireOK'
    BY <1>1, <1>2, WireStep
  <1> QED
    BY <1>1, <1>3, <1>4, WhoIsLoggingIn

LEMMA LinksAreTargets == \A p : LinksOf(p) \subseteq Targets
  <1> TAKE p
  <1>1. CASE p \in Pages
    BY <1>1 DEF Targets
  <1>2. CASE p \notin Pages
    <2>1. LinksOf(p) = {}
      BY <1>2, Zenon DEF LinksOf, Pages
    <2> QED
      BY <2>1
  <1> QED
    BY <1>1, <1>2

LEMMA OtherTargets ==
    /\ Typed \subseteq Targets /\ Target(LoginHandler) \in Targets
    /\ \A p \in {FrontPage, LoginPage, MainPage} : Target(p) \in Targets /\ p \in Pages
  <1>1. Typed \subseteq Targets /\ Target(LoginHandler) \in Targets
    BY DEF Targets
  <1>2. Target(MainPage) \in LinksOf(CreatorPage)
    BY DEF LinksOf, CreatorPage, FrontPage, CategoryPage, ReadPage, LoginPage, MainPage, Target
  <1>3. Target(LoginPage) \in Typed /\ Target(FrontPage) \in Typed
    BY DEF Typed
  <1>4. \A p \in {FrontPage, LoginPage, MainPage} : p \in Pages
    BY DEF Pages
  <1> QED
    BY <1>1, <1>2, <1>3, <1>4, LinksAreTargets

LEMMA EndsUntouched ==
    ASSUME SiteInv, UNCHANGED <<session, issued, jar, given, shows, faults>>
    PROVE  EndsOK'
  BY DEF SiteInv, EndsOK, JarOK

LEMMA VisitKeeps ==
    ASSUME SiteInv, NEW t \in Tabs, Visit(t)
    PROVE  SiteInv'
  <1>1. PICK target \in LinksOf(shows[t]) \cup Typed :
            ~Loads(target) /\ Begin(t, target, "visit", None)
    BY DEF Visit
  <1>2. target \in Targets /\ ~Loads(target)
    BY <1>1, LinksAreTargets, OtherTargets
  <1>3. "visit" \in Whys /\ JarOK(jar, given) /\ issued' = issued
    BY <1>1 DEF Whys, SiteInv, EndsOK, Begin
  <1>4. Send(t, target, "visit", None, FALSE, jar, given)
    BY <1>1 DEF Begin
  <1>5. WireOK' /\ LoggingIn' \subseteq LoggingIn
    BY <1>2, <1>3, <1>4, SendKeeps
  <1>6. EndsOK'
    BY <1>1, EndsUntouched DEF Begin
  <1> QED
    BY <1>3, <1>5, <1>6, RoomKept DEF SiteInv

LEMMA FetchKeeps ==
    ASSUME SiteInv, NEW t \in Tabs, Fetch(t)
    PROVE  SiteInv'
  <1>1. PICK target \in LinksOf(shows[t]) : Begin(t, target, "fetch", None)
    BY DEF Fetch
  <1>2. target \in Targets
    BY <1>1, LinksAreTargets
  <1>3. "fetch" \in Whys /\ JarOK(jar, given) /\ issued' = issued /\ "fetch" # "visit"
    BY <1>1 DEF Whys, SiteInv, EndsOK, Begin
  <1>4. Send(t, target, "fetch", None, FALSE, jar, given)
    BY <1>1 DEF Begin
  <1>5. WireOK' /\ LoggingIn' \subseteq LoggingIn
    BY <1>2, <1>3, <1>4, SendKeeps
  <1>6. EndsOK'
    BY <1>1, EndsUntouched DEF Begin
  <1> QED
    BY <1>3, <1>5, <1>6, RoomKept DEF SiteInv

\* One login more.
LEMMA OneMoreLogin ==
    ASSUME SiteInv, issued' = issued, NEW t \in Tabs, LoggingIn' \subseteq LoggingIn \cup {t},
           Cardinality(issued) + Cardinality(LoggingIn) < Cardinality(Ids)
    PROVE  RoomLeft'
  <1> DEFINE more == LoggingIn \cup {t}
             i == Cardinality(issued)
             l == Cardinality(LoggingIn)
             m == Cardinality(LoggingIn')
             n == Cardinality(Ids)
  <1>1. IsFiniteSet(more) /\ (Cardinality(more) = l \/ Cardinality(more) = l + 1)
    BY LoggingInFinite, FS_AddElement
  <1>2. LoggingIn' \in SUBSET more
    OBVIOUS
  <1>3. m <= Cardinality(more) /\ IsFiniteSet(LoggingIn')
    <2> HIDE DEF more
    <2> QED
      BY <1>1, <1>2, FS_Subset
  <1>4. i \in Nat /\ l \in Nat /\ m \in Nat /\ n \in Nat
    BY <1>3, LoggingInFinite, IssuedFinite, IdsFinite, FS_CardinalityType DEF SiteInv, EndsOK
  <1>5. Cardinality(issued)' = Cardinality(issued) /\ Cardinality(LoggingIn)' = Cardinality(LoggingIn')
    OBVIOUS
  <1>6. i + l < n
    OBVIOUS
  <1> HIDE DEF more, i, l, m, n
  <1>7. i + m <= n
    BY <1>1, <1>3, <1>4, <1>6
  <1> QED
    BY <1>5, <1>7 DEF RoomLeft, i, m, n

LEMMA SubmitKeeps ==
    ASSUME SiteInv, NEW t \in Tabs, NEW who \in Users \cup {None}, Submit(t, who)
    PROVE  SiteInv'
  <1>1. Begin(t, Target(LoginHandler), "login", who)
    BY DEF Submit
  <1>2. Target(LoginHandler) \in Targets
    BY OtherTargets
  <1>3. "login" \in Whys /\ JarOK(jar, given) /\ issued' = issued /\ "login" # "visit"
    BY <1>1 DEF Whys, SiteInv, EndsOK, Begin
  <1>4. Send(t, Target(LoginHandler), "login", who, FALSE, jar, given)
    BY <1>1 DEF Begin
  <1>5. /\ WireOK' /\ LoggingIn' \subseteq LoggingIn \cup {t}
        /\ who = None => LoggingIn' \subseteq LoggingIn
    BY <1>2, <1>3, <1>4, SendKeeps
  <1>6. EndsOK'
    BY <1>1, EndsUntouched DEF Begin
  <1>7. RoomLeft'
    <2>1. CASE who = None
      BY <1>3, <1>5, <2>1, RoomKept
    <2>2. CASE who # None
      <3>1. Cardinality(issued) + Cardinality(LoggingIn) < Cardinality(Ids)
        BY <2>2 DEF Submit
      <3> QED
        BY <1>3, <1>5, <3>1, OneMoreLogin
    <2> QED
      BY <2>1, <2>2
  <1> QED
    BY <1>5, <1>6, <1>7 DEF SiteInv

-----------------------------------------------------------------------------
\* The server.

LEMMA ResponseFields ==
    ASSUME NEW A, NEW B, NEW C, NEW D, NEW E, NEW F, NEW G,
           NEW old \in [target : A, why : B, who : C, redirected : D, cookies : E, owed : F,
                        answer : G],
           NEW answer, NEW x,
           x = [old EXCEPT !.answer = answer, !.cookies = <<>>, !.who = None, !.owed = None]
    PROVE  /\ x = [target |-> x.target, why |-> x.why, who |-> x.who,
                   redirected |-> x.redirected, cookies |-> x.cookies, owed |-> x.owed,
                   answer |-> x.answer]
           /\ x.target = old.target /\ x.why = old.why /\ x.who = None
           /\ x.redirected = old.redirected /\ x.cookies = <<>> /\ x.owed = None
           /\ x.answer = answer
  OBVIOUS

LEMMA RespondedTo ==
    ASSUME NEW old,
           old = [target |-> old.target, why |-> old.why, who |-> old.who,
                  redirected |-> old.redirected, cookies |-> old.cookies, owed |-> old.owed,
                  answer |-> old.answer],
           NEW answer, NEW x,
           x = [old EXCEPT !.answer = answer, !.cookies = <<>>, !.who = None, !.owed = None]
    PROVE  /\ x = [target |-> x.target, why |-> x.why, who |-> x.who,
                   redirected |-> x.redirected, cookies |-> x.cookies, owed |-> x.owed,
                   answer |-> x.answer]
           /\ x.target = old.target /\ x.why = old.why /\ x.who = None
           /\ x.redirected = old.redirected /\ x.cookies = <<>> /\ x.owed = None
           /\ x.answer = answer
  <1> DEFINE A == {old.target}
             B == {old.why}
             C == {old.who}
             D == {old.redirected}
             E == {old.cookies}
             F == {old.owed}
             G == {old.answer}
  <1>1. old \in [target : A, why : B, who : C, redirected : D, cookies : E, owed : F, answer : G]
    OBVIOUS
  <1> HIDE DEF A, B, C, D, E, F, G
  <1> QED
    BY <1>1, ResponseFields

\* Responded to, the exchange has no name, no cookies and no debt any more.
LEMMA RespondKeeps ==
    ASSUME SiteInv, NEW t \in Tabs, exchange[t] # None, NEW answer, Respond(t, answer),
           issued \subseteq issued',
           answer \in Answers, answer.cookie \in issued' \cup {None},
           answer.cookie # None => exchange[t].target = Target(LoginHandler)
    PROVE  WireOK' /\ LoggingIn' \subseteq LoggingIn \ {t}
  <1> DEFINE old == exchange[t]
             x == [old EXCEPT !.answer = answer, !.cookies = <<>>, !.who = None, !.owed = None]
  <1>1. ExchangeOK(old, issued)
    BY DEF SiteInv, WireOK
  <1>2. exchange = [u \in Tabs |-> exchange[u]]
    BY DEF SiteInv, WireOK
  <1>3. old = [target |-> old.target, why |-> old.why, who |-> old.who,
               redirected |-> old.redirected, cookies |-> old.cookies, owed |-> old.owed,
               answer |-> old.answer]
    BY <1>1 DEF ExchangeOK
  <1>4. exchange' = [exchange EXCEPT ![t] = x]
    BY <1>2 DEF Respond
  <1>5. x = [old EXCEPT !.answer = answer, !.cookies = <<>>, !.who = None, !.owed = None]
    OBVIOUS
  <1> HIDE DEF old, x
  <1>6. /\ x = [target |-> x.target, why |-> x.why, who |-> x.who,
                redirected |-> x.redirected, cookies |-> x.cookies, owed |-> x.owed,
                answer |-> x.answer]
        /\ x.target = old.target /\ x.why = old.why /\ x.who = None
        /\ x.redirected = old.redirected /\ x.cookies = <<>> /\ x.owed = None
        /\ x.answer = answer
    BY <1>3, <1>5, RespondedTo
  <1>7. CookieGiven(x)
    BY <1>6, NoHeader
  <1>8. ExchangeOK(x, issued')
    BY <1>1, <1>6, <1>7 DEF ExchangeOK, old
  <1> QED
    BY <1>4, <1>6, <1>8, WireStep, WhoIsLoggingIn

LEMMA AnswersOf ==
    /\ Plain \in Answers /\ Plain.cookie = None
    /\ \A p \in {FrontPage, LoginPage, MainPage} : Redirect(p) \in Answers /\ Redirect(p).cookie = None
    /\ \A id \in Ids : AcceptedAnswer(id) \in Answers /\ AcceptedAnswer(id).cookie = id
  <1>1. Plain \in Answers /\ Plain.cookie = None
    BY DEF Plain, Answers
  <1>2. \A p \in {FrontPage, LoginPage, MainPage} :
            Redirect(p) = [location |-> p, cookie |-> None]
    BY DEF Redirect, Plain
  <1>3. \A p \in {FrontPage, LoginPage, MainPage} : Redirect(p) \in Answers /\ Redirect(p).cookie = None
    BY <1>2 DEF Answers
  <1>4. \A id \in Ids : AcceptedAnswer(id) \in Answers /\ AcceptedAnswer(id).cookie = id
    BY DEF AcceptedAnswer, Answers
  <1> QED
    BY <1>1, <1>3, <1>4

\* No handler but the login handler gives a cookie.
LEMMA NoCookieElsewhere ==
    ASSUME NEW handler, NEW x, NEW answer \in HandlerAnswers(handler, x)
    PROVE  answer \in Answers /\ answer.cookie = None
  <1> DEFINE plain == {a \in Answers : a.cookie = None}
  <1>1. Plain \in plain /\ \A p \in {FrontPage, LoginPage, MainPage} : Redirect(p) \in plain
    BY AnswersOf
  <1>2. LoginPageAnswer(x) \in plain /\ NotLoggedIn \in plain
    BY <1>1 DEF LoginPageAnswer, NotLoggedIn
  <1> HIDE DEF plain
  <1>3. HandlerAnswers(handler, x) \subseteq plain
    BY <1>1, <1>2, Zenon DEF HandlerAnswers
  <1> QED
    BY <1>3 DEF plain

LEMMA LoginTarget ==
    ASSUME SiteInv, NEW t \in Tabs, exchange[t] # None, Found(exchange[t]) = LoginHandler
    PROVE  exchange[t].target = Target(LoginHandler)
  <1> DEFINE x == exchange[t].target
  <1>1. x \in Targets
    BY DEF SiteInv, WireOK, ExchangeOK
  <1>2. x.handler = LoginHandler /\ Filled(x)
    <2>1. LoginHandler # R!Missing /\ LoginHandler # ReadPage
      BY DEF LoginHandler, R!Missing, ReadPage
    <2>2. Routed[x].handler = LoginHandler
      BY DEF Found
    <2> QED
      BY <1>1, <2>1, <2>2, EveryLinkResolves DEF Resolves, Target
  <1>3. CASE x \in StaticTargets
    BY <1>2, <1>3 DEF StaticTargets, Target
  <1>4. CASE x \in PatternTargets
    <2>1. PICK h \in Patterns : \E v \in Articles \cup Categories : x = [handler |-> h, params |-> <<v>>]
      BY <1>4 DEF PatternTargets, TargetsWith
    <2>2. LoginHandler \in Patterns
      BY <1>2, <2>1
    <2>3. LoginHandler \notin Patterns
      <3>1. Len(LoginHandler) = 2 /\ LoginHandler[1] = "admin"
        BY DEF LoginHandler
      <3>2. \A g \in Three \cup Four : Len(g) # 2
        BY PatternLengths
      <3> QED
        BY <3>1, <3>2, PatternHeads DEF Patterns
    <2> QED
      BY <2>2, <2>3
  <1> QED
    BY <1>1, <1>2, <1>3, <1>4, TargetsAre, FilledTargets

LEMMA HandleOtherKeeps ==
    ASSUME SiteInv, NEW t \in Tabs, HandleOther(t)
    PROVE  SiteInv'
  <1>1. exchange[t] # None /\ issued' = issued
    BY DEF HandleOther, Pending
  <1>2. PICK answer \in HandlerAnswers(Found(exchange[t]), exchange[t]) : Respond(t, answer)
    BY DEF HandleOther
  <1>3. answer \in Answers /\ answer.cookie = None
    BY NoCookieElsewhere
  <1>4. WireOK' /\ LoggingIn' \subseteq LoggingIn \ {t}
    BY <1>1, <1>2, <1>3, RespondKeeps
  <1>5. session' \in [Ids -> Rows \cup {Out}]
    BY DEF HandleOther, SiteInv, EndsOK, S!TurnAway
  <1>6. EndsOK'
    BY <1>5 DEF HandleOther, SiteInv, EndsOK, JarOK
  <1>7. RoomLeft'
    BY <1>1, <1>4, RoomKept
  <1> QED
    BY <1>4, <1>6, <1>7 DEF SiteInv

\* The id that a login takes was left for it.
LEMMA RoomTaken ==
    ASSUME SiteInv, NEW t \in LoggingIn
    PROVE  /\ \E id \in Ids : id \notin issued
           /\ \A id \in Ids : /\ id \notin issued
                              /\ issued' = issued \cup {id}
                              /\ LoggingIn' \subseteq LoggingIn \ {t}
                              => RoomLeft'
  <1> DEFINE rest == LoggingIn \ {t}
             i == Cardinality(issued)
             l == Cardinality(LoggingIn)
             n == Cardinality(Ids)
  <1>1. i \in Nat /\ l \in Nat /\ n \in Nat /\ i + l <= n
    BY LoggingInFinite, IssuedFinite, IdsFinite DEF SiteInv, EndsOK, RoomLeft
  <1>2. IsFiniteSet(rest) /\ Cardinality(rest) = l - 1
    BY LoggingInFinite, FS_RemoveElement
  <1>3. Cardinality(rest) \in Nat
    <2> HIDE DEF rest
    <2> QED
      BY <1>2, FS_CardinalityType
  <1>4. \E id \in Ids : id \notin issued
    <2> SUFFICES ASSUME Ids \subseteq issued PROVE FALSE
      OBVIOUS
    <2>1. issued = Ids
      BY DEF SiteInv, EndsOK
    <2>2. i = n
      BY <2>1
    <2> HIDE DEF i, l, n, rest
    <2> QED
      BY <1>1, <1>2, <1>3, <2>2
  <1>5. ASSUME NEW id \in Ids, id \notin issued, issued' = issued \cup {id},
               LoggingIn' \subseteq LoggingIn \ {t}
        PROVE  RoomLeft'
    <2> DEFINE j == Cardinality(issued')
               m == Cardinality(LoggingIn')
    <2>1. IsFiniteSet(issued)
      BY IssuedFinite DEF SiteInv, EndsOK
    <2>2. j = i + 1
      BY <1>5, <2>1, FS_AddElement
    <2>3. LoggingIn' \in SUBSET rest
      BY <1>5
    <2>4. m <= Cardinality(rest) /\ m \in Nat
      <3> HIDE DEF rest
      <3> QED
        BY <1>2, <2>3, FS_Subset, FS_CardinalityType
    <2>5. Cardinality(issued)' = j /\ Cardinality(LoggingIn)' = m
      OBVIOUS
    <2> HIDE DEF i, j, l, m, n, rest
    <2>6. j + m <= n
      BY <1>1, <1>2, <1>3, <2>2, <2>4
    <2> QED
      BY <2>5, <2>6 DEF RoomLeft, n
  <1> QED
    BY <1>4, <1>5

LEMMA HandleLoginKeeps ==
    ASSUME SiteInv, NEW t \in Tabs, HandleLogin(t)
    PROVE  SiteInv'
  <1>1. exchange[t] # None /\ exchange[t].target = Target(LoginHandler)
    BY LoginTarget DEF HandleLogin, Pending
  <1>2. CASE exchange[t].who = None
    <2>1. Respond(t, NotLoggedIn) /\ issued' = issued
      BY <1>2 DEF HandleLogin
    <2>2. NotLoggedIn \in Answers /\ NotLoggedIn.cookie = None
      BY AnswersOf DEF NotLoggedIn
    <2>3. WireOK' /\ LoggingIn' \subseteq LoggingIn \ {t}
      BY <1>1, <2>1, <2>2, RespondKeeps
    <2>4. EndsOK'
      BY <1>2, EndsUntouched DEF HandleLogin
    <2> QED
      BY <2>1, <2>3, <2>4, RoomKept DEF SiteInv
  <1>3. CASE exchange[t].who # None
    <2> DEFINE id == CHOOSE id \in Ids : id \notin issued
               who == exchange[t].who
    <2>1. t \in LoggingIn
      BY <1>1, <1>3 DEF LoggingIn
    <2>2. id \in Ids /\ id \notin issued
      BY <2>1, RoomTaken
    <2>3. S!Login(id, who) /\ issued' = issued \cup {id} /\ Respond(t, AcceptedAnswer(id))
      BY <1>3 DEF HandleLogin
    <2>4. who \in Users
      BY <1>1, <1>3 DEF SiteInv, WireOK, ExchangeOK
    <2> HIDE DEF id, who
    <2>5. AcceptedAnswer(id) \in Answers /\ AcceptedAnswer(id).cookie = id
      BY <2>2, AnswersOf
    <2>6. WireOK' /\ LoggingIn' \subseteq LoggingIn \ {t}
      BY <1>1, <2>3, <2>5, RespondKeeps
    <2>7. RoomLeft'
      BY <2>1, <2>2, <2>3, <2>6, RoomTaken
    <2>8. session' \in [Ids -> Rows \cup {Out}]
      BY <2>2, <2>3, <2>4 DEF S!Login, SiteInv, EndsOK, Rows
    <2>9. EndsOK'
      BY <2>2, <2>3, <2>8 DEF HandleLogin, SiteInv, EndsOK, JarOK
    <2> QED
      BY <2>6, <2>7, <2>9 DEF SiteInv
  <1> QED
    BY <1>2, <1>3

-----------------------------------------------------------------------------
\* The browser.

LEMMA LoginUrl == Url[Target(LoginHandler)] = LoginHandler
  <1>1. LoginHandler \in StaticRoutes
    BY DEF StaticRoutes
  <1>2. Url[Target(LoginHandler)] = R!Link(Target(LoginHandler).handler, Target(LoginHandler).params)
    <2>1. Filled(Target(LoginHandler))
      BY <1>1, OtherTargets, FilledTargets DEF StaticTargets
    <2> QED
      BY <2>1, OtherTargets DEF Url
  <1>3. Target(LoginHandler).handler = LoginHandler /\ Target(LoginHandler).params = <<>>
    BY DEF Target
  <1> QED
    BY <1>1, <1>2, <1>3, StaticLink

\* A tab that is sent somewhere comes to a page or to a 404.
LEMMA WhereVisitsLead ==
    ASSUME NEW target \in Targets, ~Loads(target)
    PROVE  Routed[target].handler \in Pages \cup {R!Missing}
  <1>1. ReadPage \in Pages
    BY DEF Pages
  <1>2. CASE Filled(target)
    <2>1. Routed[target] = target
      BY <1>2, EveryLinkResolves DEF Resolves
    <2>2. target # RawHref
      BY <1>2 DEF Filled, RawHref, Raw
    <2> QED
      BY <2>1, <2>2 DEF Loads
  <1>3. CASE ~Filled(target)
    BY <1>1, <1>3, EveryLinkResolves DEF Resolves, Target
  <1> QED
    BY <1>2, <1>3

\* What the browser knows once an answer is in.
LEMMA AnswerTaken ==
    ASSUME SiteInv, NEW t \in Tabs, exchange[t] # None, ~Pending(t), NEW x, x = exchange[t],
           NEW last, last = IF x.answer.cookie = None THEN given ELSE x.answer.cookie,
           NEW kept, kept = Stored(Path(x), x.answer.cookie)
    PROVE  JarOK(kept, last) /\ last \in issued \cup {None}
  <1>1. x.answer.cookie \in issued \cup {None}
        /\ (x.answer.cookie # None => x.target = Target(LoginHandler))
    BY DEF Pending, SiteInv, WireOK, ExchangeOK
  <1>2. x.answer.cookie # None => DefaultPath(Path(x)) = AdminPath
    BY <1>1, LoginUrl, LoginDirectory DEF Path
  <1>3. JarOK(jar, given) /\ given \in issued \cup {None}
    BY DEF SiteInv, EndsOK
  <1> QED
    BY <1>1, <1>2, <1>3, StoredKeeps

LEMMA ReceiveKeeps ==
    ASSUME SiteInv, NEW t \in Tabs, Receive(t)
    PROVE  SiteInv'
  <1> DEFINE x == exchange[t]
             last == IF x.answer.cookie = None THEN given ELSE x.answer.cookie
             kept == Stored(Path(x), x.answer.cookie)
             location == x.answer.location
  <1>1. exchange[t] # None /\ ~Pending(t)
    BY DEF Receive
  <1>2. JarOK(kept, last) /\ last \in issued \cup {None}
    BY <1>1, AnswerTaken
  <1>3. jar' = kept /\ given' = last /\ session' = session /\ issued' = issued /\ faults' = faults
    BY DEF Receive
  <1>4. x.target \in Targets /\ x.why \in Whys /\ x.answer \in Answers
        /\ (x.why = "visit" \/ x.redirected = TRUE => ~Loads(x.target))
    BY <1>1 DEF Pending, SiteInv, WireOK, ExchangeOK
  <1>5. location \in {None, FrontPage, LoginPage, MainPage}
    BY <1>4 DEF Answers
  <1>6. \/ /\ location # None
           /\ Send(t, Target(location), x.why, None, x.why = "login", kept, last)
           /\ shows' = shows
        \/ /\ x.why = "login" /\ x.redirected
           /\ Send(t, x.target, "visit", None, FALSE, kept, last)
           /\ shows' = shows
        \/ /\ exchange' = [exchange EXCEPT ![t] = None]
           /\ shows' = [shows EXCEPT ![t] = IF x.why = "visit" THEN Found(x) ELSE @]
    BY Zenon DEF Receive
  <1>7. "visit" \in Whys
    BY DEF Whys
  <1>8. shows \in [Tabs -> Pages \cup {R!Missing, None}]
    BY DEF SiteInv, EndsOK
  <1> HIDE DEF last, kept, location
  <1>9. WireOK' /\ LoggingIn' \subseteq LoggingIn /\ shows' \in [Tabs -> Pages \cup {R!Missing, None}]
    <2>1. CASE /\ location # None
               /\ Send(t, Target(location), x.why, None, x.why = "login", kept, last)
               /\ shows' = shows
      <3>1. location \in {FrontPage, LoginPage, MainPage}
        BY <1>5, <2>1
      <3>2. Target(location) \in Targets /\ ~Loads(Target(location))
        BY <3>1, OtherTargets DEF Target, Loads
      <3> HIDE DEF x
      <3> QED
        BY <1>2, <1>3, <1>4, <1>8, <2>1, <3>2, SendKeeps
    <2>2. CASE /\ x.why = "login" /\ x.redirected
               /\ Send(t, x.target, "visit", None, FALSE, kept, last)
               /\ shows' = shows
      <3>1. ~Loads(x.target)
        BY <1>4, <2>2
      <3> HIDE DEF x
      <3> QED
        BY <1>2, <1>3, <1>4, <1>7, <1>8, <2>2, <3>1, SendKeeps
    <2>3. CASE /\ exchange' = [exchange EXCEPT ![t] = None]
               /\ shows' = [shows EXCEPT ![t] = IF x.why = "visit" THEN Found(x) ELSE @]
      <3>1. x.why = "visit" => Found(x) \in Pages \cup {R!Missing}
        BY <1>4, WhereVisitsLead DEF Found
      <3> HIDE DEF x
      <3>2. shows' \in [Tabs -> Pages \cup {R!Missing, None}]
        BY <1>8, <2>3, <3>1
      <3>3. WireOK'
        BY <1>3, <2>3, WireStep
      <3>4. LoggingIn' \subseteq LoggingIn
        BY <2>3, WhoIsLoggingIn
      <3> QED
        BY <3>2, <3>3, <3>4
    <2> QED
      BY <1>6, <2>1, <2>2, <2>3
  <1>10. EndsOK'
    BY <1>2, <1>3, <1>9 DEF SiteInv, EndsOK, JarOK
  <1> QED
    BY <1>3, <1>9, <1>10, RoomKept DEF SiteInv

-----------------------------------------------------------------------------
\* The faults.

LEMMA FaultsCounted ==
    ASSUME SiteInv, Fault
    PROVE  faults' \in 0..MaxFaults
  <1>1. faults \in 0..MaxFaults /\ MaxFaults \in Nat
    BY BoundAssumption DEF SiteInv, EndsOK
  <1> QED
    BY <1>1 DEF Fault

LEMMA BrokenKeeps ==
    ASSUME SiteInv, NEW tabs, Broken(tabs), issued' = issued
    PROVE  /\ WireOK' /\ LoggingIn' \subseteq LoggingIn
           /\ shows' \in [Tabs -> Pages \cup {R!Missing, None}]
  <1>1. exchange' = [t \in Tabs |-> IF t \in tabs THEN None ELSE exchange[t]]
    BY DEF Broken
  <1>2. \A t \in Tabs : exchange'[t] # None => exchange'[t] = exchange[t]
    BY <1>1
  <1>3. WireOK'
    BY <1>1, <1>2 DEF SiteInv, WireOK
  <1>4. LoggingIn' \subseteq LoggingIn
    BY <1>2 DEF LoggingIn
  <1>5. shows' \in [Tabs -> Pages \cup {R!Missing, None}]
    BY DEF Broken, SiteInv, EndsOK
  <1> QED
    BY <1>3, <1>4, <1>5

LEMMA LoseKeeps ==
    ASSUME SiteInv, NEW t \in Tabs, Lose(t)
    PROVE  SiteInv'
  <1>1. Fault /\ Broken({t}) /\ UNCHANGED <<session, issued, jar, given>>
    BY DEF Lose
  <1>2. WireOK' /\ LoggingIn' \subseteq LoggingIn /\ shows' \in [Tabs -> Pages \cup {R!Missing, None}]
    BY <1>1, BrokenKeeps
  <1>3. EndsOK'
    BY <1>1, <1>2, FaultsCounted DEF SiteInv, EndsOK, JarOK
  <1> QED
    BY <1>1, <1>2, <1>3, RoomKept DEF SiteInv

LEMMA RestartKeeps ==
    ASSUME SiteInv, Restart
    PROVE  SiteInv'
  <1>1. /\ Fault /\ Broken({t \in Tabs : Pending(t)})
        /\ session' = [id \in Ids |-> Out] /\ UNCHANGED <<issued, jar, given>>
    BY DEF Restart
  <1>2. WireOK' /\ LoggingIn' \subseteq LoggingIn /\ shows' \in [Tabs -> Pages \cup {R!Missing, None}]
    BY <1>1, BrokenKeeps
  <1>3. session' \in [Ids -> Rows \cup {Out}]
    BY <1>1
  <1>4. EndsOK'
    BY <1>1, <1>2, <1>3, FaultsCounted DEF SiteInv, EndsOK, JarOK
  <1> QED
    BY <1>1, <1>2, <1>4, RoomKept DEF SiteInv

LEMMA DriftKeeps ==
    ASSUME SiteInv, NEW in, Drift(in)
    PROVE  SiteInv'
  <1>1. Fault /\ S!Drift(in) /\ UNCHANGED <<issued, jar, given, shows, exchange>>
    BY DEF Drift
  <1>2. session \in [Ids -> Rows \cup {Out}]
    BY DEF SiteInv, EndsOK
  <1>3. ASSUME NEW id \in Ids, session[id] # Out
        PROVE  [user |-> session[id].user, usable |-> id \in in] \in Rows
    <2>1. session[id] \in Rows
      BY <1>2, <1>3
    <2> QED
      BY <2>1 DEF Rows
  <1>4. session' \in [Ids -> Rows \cup {Out}]
    BY <1>1, <1>3 DEF S!Drift
  <1>5. EndsOK'
    BY <1>1, <1>4, FaultsCounted DEF SiteInv, EndsOK, JarOK
  <1>6. WireOK' /\ LoggingIn' \subseteq LoggingIn
    BY <1>1 DEF SiteInv, WireOK, LoggingIn
  <1> QED
    BY <1>1, <1>5, <1>6, RoomKept DEF SiteInv

-----------------------------------------------------------------------------
\* What always holds.

LEMMA NextKeeps == SiteInv /\ [Next]_vars => SiteInv'
  <1> SUFFICES ASSUME SiteInv, [Next]_vars PROVE SiteInv'
    OBVIOUS
  <1>1. ASSUME NEW t \in Tabs, Visit(t) PROVE SiteInv'
    BY <1>1, VisitKeeps
  <1>2. ASSUME NEW t \in Tabs, Fetch(t) PROVE SiteInv'
    BY <1>2, FetchKeeps
  <1>3. ASSUME NEW t \in Tabs, HandleLogin(t) PROVE SiteInv'
    BY <1>3, HandleLoginKeeps
  <1>4. ASSUME NEW t \in Tabs, HandleOther(t) PROVE SiteInv'
    BY <1>4, HandleOtherKeeps
  <1>5. ASSUME NEW t \in Tabs, Receive(t) PROVE SiteInv'
    BY <1>5, ReceiveKeeps
  <1>6. ASSUME NEW t \in Tabs, Lose(t) PROVE SiteInv'
    BY <1>6, LoseKeeps
  <1>7. ASSUME NEW t \in Tabs, NEW who \in Users \cup {None}, Submit(t, who) PROVE SiteInv'
    BY <1>7, SubmitKeeps
  <1>8. CASE Restart
    BY <1>8, RestartKeeps
  <1>9. ASSUME NEW in \in SUBSET Ids, Drift(in) PROVE SiteInv'
    BY <1>9, DriftKeeps
  <1>10. CASE UNCHANGED vars
    <2>1. /\ session' = session /\ issued' = issued /\ jar' = jar /\ given' = given
          /\ shows' = shows /\ exchange' = exchange /\ faults' = faults
      BY <1>10 DEF vars
    <2>2. EndsOK'
      BY <2>1, EndsUntouched
    <2>3. WireOK' /\ LoggingIn' \subseteq LoggingIn
      BY <2>1 DEF SiteInv, WireOK, LoggingIn
    <2> QED
      BY <2>1, <2>2, <2>3, RoomKept DEF SiteInv
  <1> QED
    BY <1>1, <1>2, <1>3, <1>4, <1>5, <1>6, <1>7, <1>8, <1>9, <1>10 DEF Next

LEMMA Invariant == Spec => []SiteInv
  BY InitKeeps, NextKeeps, PTL DEF Spec

\* Of tabs, cookies, sessions and exchanges, whatever faults there are: ids are
\* given out before they are kept or sent, and only pages are shown.
THEOREM TypeCorrect == Spec => []TypeOK
  BY Invariant, SiteInvImplies, PTL

\* The server reads from a request to an admin page the session id that the
\* browser was given last, however many cookies the browser keeps and in
\* whatever order it sends those of one directory.
THEOREM CookieComesBackHolds == Spec => []CookieComesBack
  BY Invariant, SiteInvImplies, PTL

\* Every request leads to the handler its link was written for, and one for a
\* placeholder left in a link to 404 or to the article page.
THEOREM LinksResolveHolds == Spec => []LinksResolve
  BY Invariant, SiteInvImplies, PTL
=============================================================================
