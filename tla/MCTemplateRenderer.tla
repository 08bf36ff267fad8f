------------------------- MODULE MCTemplateRenderer -------------------------
(* The instances of TemplateRenderer. In template.cfg: every template of up to  *)
(* five tokens with cycles over a list, over a list that is not there and     *)
(* with an item named like a key; shorter ones with comments.                 *)
EXTENDS TemplateRenderer, TLC

AllNames == {"a", "key", "list", "missing", "other"}

CycleTokens ==
    {LineEnd, For("a", "list"), For("key", "list"), For("a", "missing"), EndFor,
     Var("a"), Var("key")}
CommentTokens == {Tag, LineEnd, Open, Shut, Var("key"), Var("other")}

Templates == BoundedSeq(CycleTokens, 5) \cup BoundedSeq(CommentTokens, 5)

\* An empty list, two values, and a text that reads like a placeholder.
Data(list, key) == "list" :> list @@ "key" :> key @@ "other" :> <<<<Tag, LineEnd>>>>
AllData ==
    {Data(<<>>, <<>>), Data(<<<<Tag>>, <<Word, LineEnd>>>>, <<<<Word>>, <<Tag>>>>),
     Data(<<<<Var("key")>>>>, <<<<Tag>>>>)}

\* test_template.html with the data of test_template_renderer.cpp, for
\* template_lines.cfg: {{ for a in newsList }}, the text and {{ endfor }} on a
\* line each.
TestTemplate ==
    {<<Tag, LineEnd, Tag, Var("other"), Tag, LineEnd, Tag, LineEnd,
       For("a", "list"), LineEnd, Tag, Word, Tag, Var("a"), LineEnd, EndFor, LineEnd, Tag>>}
TestData == {"list" :> <<<<Tag>>, <<Tag>>, <<Tag>>>> @@ "other" :> <<<<Word>>>>}
=============================================================================
