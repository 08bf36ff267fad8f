--------------------------- MODULE MCSiteExchange ---------------------------
(* The instance of SiteExchange of exchange.cfg: two tabs, one of which also   *)
(* visits the public pages; one user, who may edit but not create; two session ids.   *)
EXTENDS SiteExchange, TLC

\* A style sheet of the main page is enough: all are routed and answered alike.
MainStyle == {<<"admin", "main_page", "css", "styles.css">>}

Deeper == {<<"admin", "main_page">>}

AdminPages == {LoginPage, MainPage, CreatorPage, EditorPage}
PublicPages == {FrontPage, ReadPage, CategoryPage}
PagesOfTab == "t1" :> AdminPages @@ "t2" :> PublicPages \cup {MainPage, NoHandler}
LoadsOfTab == "t1" :> AdminPages @@ "t2" :> {CategoryPage, ReadPage}

OneArticle == {"1"}
OneCategory == {"anime"}
=============================================================================
