----------------------------- MODULE PageLayout -----------------------------
(***************************************************************************)
(* How the front page and the category page lay out their articles         *)
(* (src/router/routes.cpp): a loop over the index i takes up to five       *)
(* articles at a time into a block of HTML. A block for five articles is   *)
(* used while five are left, and one for four, three, two or one at the    *)
(* end. The front page has one template of blocks; the category page has   *)
(* three and rotates them. Each template spells out its own indices, so    *)
(* each is a definition of its own here.                                   *)
(*                                                                         *)
(* An article is its position in the query's result. An index past the end *)
(* (vector::at) or an SEO description whose first piece is not text is an  *)
(* exception: the category page answers with a redirect to the front page, *)
(* the front page has no handler for it and the process ends.              *)
(***************************************************************************)
EXTENDS Integers, Sequences

CONSTANTS
    MaxSize     \* bound on the number of articles

ASSUME SizeAssumption == MaxSize \in Nat

VARIABLES
    page,       \* the page asked for: "front" or "category"
    size,       \* articlesSize
    bad,        \* positions whose seo_description does not start with text
    latest,     \* there is a published article to head the front page
    i,          \* the loop index
    template,   \* templateVariable
    shown,      \* the positions laid out so far
    outcome     \* "building", "shown", "redirected" or "terminated"

input == <<page, size, bad, latest>>
vars == <<page, size, bad, latest, i, template, shown, outcome>>

Positions == 0..(MaxSize - 1)

TypeOK ==
    /\ page \in {"front", "category"}
    /\ size \in 0..MaxSize
    /\ bad \in SUBSET Positions
    /\ latest \in BOOLEAN
    /\ i \in 0..MaxSize
    /\ template \in 1..3
    /\ shown \in Seq(Positions)
    /\ outcome \in {"building", "shown", "redirected", "terminated"}

Init ==
    /\ page \in {"front", "category"}
    /\ size \in 0..MaxSize
    /\ bad \in {{}} \cup {{p} : p \in 0..(size - 1)}
    /\ latest \in (IF page = "front" THEN BOOLEAN ELSE {TRUE})
    /\ i = 0
    /\ template = 1
    /\ shown = <<>>
    /\ outcome = "building"

-----------------------------------------------------------------------------
\* The offsets from i of the articles in a block, in the order they appear.

FirstArticles(n) == [k \in 1..n |-> k - 1]

\* at(++i) where at(i) belongs: the block starts one article late.
LateArticles(n) == [k \in 1..n |-> k]

ArticleRepeated == <<0, 1, 1, 2, 3>>

\* The front page's block of five, and its shorter ones.
FrontFull == FirstArticles(5)

FrontLate(left) == IF left \in {2, 3} THEN LateArticles(left) ELSE FirstArticles(left)

FrontTail(left) == FirstArticles(left)

\* The category page's first, second and third template.
Full1 == FirstArticles(5)

Tail1(left) == FirstArticles(left)

Full2 == FirstArticles(5)

\* The blocks for three and for two articles begin with at(++i).
Tail2(left) == IF left \in {2, 3} THEN LateArticles(left) ELSE FirstArticles(left)

Full3 == FirstArticles(5)

Tail3(left) == FirstArticles(left)

Block(left) ==
    CASE page = "front" -> IF left >= 5 THEN FrontFull ELSE FrontTail(left)
      [] page = "category" /\ template = 1 -> IF left >= 5 THEN Full1 ELSE Tail1(left)
      [] page = "category" /\ template = 2 -> IF left >= 5 THEN Full2 ELSE Tail2(left)
      [] page = "category" /\ template = 3 -> IF left >= 5 THEN Full3 ELSE Tail3(left)

RotateForward == IF page = "front" THEN 1 ELSE template + 1

\* After the third template the variable is set to 1 and then incremented, so
\* the first one is used once.
Rotate ==
    IF page = "front" THEN 1 ELSE IF template = 3 THEN 2 ELSE template + 1

\* The index runs past the block: at(++i) for all but its first article, then
\* the loop's own increment.
IndexAfter(block) == i + block[Len(block)] + 1

\* at() and the access to the SEO text succeed for every article of a block.
Readable(block) == \A k \in DOMAIN block : i + block[k] < size /\ i + block[k] \notin bad

\* What the page's handler makes of an exception.
Exception == IF page = "front" THEN "terminated" ELSE "redirected"

-----------------------------------------------------------------------------
\* getLatestPublishedArticle throws when nothing is published yet.
NoLatest ==
    /\ outcome = "building"
    /\ ~latest
    /\ outcome' = "terminated"
    /\ UNCHANGED <<input, i, template, shown>>

\* One turn of the loop that lays out a block.
PlaceBlock ==
    /\ outcome = "building"
    /\ latest
    /\ i < size
    /\ LET block == Block(size - i) IN
       /\ Readable(block)
       /\ shown' = shown \o [k \in DOMAIN block |-> i + block[k]]
       /\ i' = IndexAfter(block)
    /\ template' = Rotate
    /\ UNCHANGED <<input, outcome>>

RetryBlock ==
    /\ outcome = "building"
    /\ latest
    /\ i < size
    /\ ~Readable(Block(size - i))
    /\ UNCHANGED vars

\* One turn that throws in the middle of its block.
BreakBlock ==
    /\ outcome = "building"
    /\ latest
    /\ i < size
    /\ ~Readable(Block(size - i))
    /\ outcome' = Exception
    /\ UNCHANGED <<input, i, template, shown>>

Finish ==
    /\ outcome = "building"
    /\ latest
    /\ i >= size
    /\ outcome' = "shown"
    /\ UNCHANGED <<input, i, template, shown>>

Next == NoLatest \/ PlaceBlock \/ BreakBlock \/ Finish

Spec == Init /\ [][Next]_vars /\ WF_vars(Next)

-----------------------------------------------------------------------------
\* A page that is shown has every article of the query once, in its order.
EachArticleOnce ==
    outcome = "shown" => shown = [k \in 1..size |-> k - 1]

\* The front page fails only for want of a published article or for an SEO
\* description it cannot read, never because of the number of articles.
FrontPageBuilt ==
    page = "front" /\ outcome \in {"redirected", "terminated"} => ~latest \/ bad # {}

\* The category page fails for an SEO description it cannot read and, because
\* of two blocks of the second template, whenever seven or eight articles are
\* left over by tens, and in no other case.
CategoryPageBuilt ==
    page = "category" /\ outcome # "building" =>
        (outcome = "redirected" <=> bad # {} \/ size % 10 \in {7, 8})

\* The loop ends, whatever the number of articles.
PageAnswered == <>(outcome # "building")
=============================================================================
