--------------------------- MODULE MCArticleStore ---------------------------
(* Instances of ArticleStore. The name "news" is contained in "newsflash".   *)
(* articles.cfg: every handler, two slugs, faults. The articles_*.cfg runs:  *)
(* no fault at all, the requests a browser sends in the case named.          *)
EXTENDS ArticleStore, TLC

CONSTANTS s1, s2, t1, t2, i1, i2, news, newsflash

MCLike == {<<news, news>>, <<news, newsflash>>, <<newsflash, newsflash>>}

Lists(kw, cat, tag) == "keyword" :> kw @@ "category" :> cat @@ "tag" :> tag

NoLists == Lists(<<>>, <<>>, <<>>)

Create(slug, title, image, lists) ==
    [h |-> "creator", id |-> 1, slug |-> slug, title |-> title, status |-> "draft",
     image |-> image, lists |-> lists]

Edit(slug, title, image, lists) ==
    [h |-> "editor", id |-> 1, slug |-> slug, title |-> title, status |-> "published",
     image |-> image, lists |-> lists]

ById(h, id) ==
    [h |-> h, id |-> id, slug |-> s1, title |-> t1, status |-> "draft",
     image |-> NoFile, lists |-> NoLists]

AllRequests ==
    {Create(s1, t1, i1, Lists(<<newsflash>>, <<>>, <<news>>)),
     Create(s1, t2, i2, Lists(<<news>>, <<>>, <<>>)),
     Create(s2, t1, i2, Lists(<<news>>, <<newsflash>>, <<>>)),
     Edit(s1, t2, i2, Lists(<<newsflash>>, <<>>, <<newsflash, news>>)),
     Edit(s1, Empty, NoFile, NoLists),
     ById("publish", 1), ById("archive", 2), ById("delete", 1), ById("read", 1)}

TwiceRequests == {Create(s1, t1, i1, Lists(<<news, news>>, <<>>, <<>>))}
=============================================================================
