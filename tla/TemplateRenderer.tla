-------------------------- MODULE TemplateRenderer --------------------------
(***************************************************************************)
(* TemplateRenderer::render of include/template_renderer.h, over templates *)
(* as sequences of tokens: words, tags, line ends, comment brackets, the   *)
(* markers {{ for x in l }} and {{ endfor }}, and placeholders {{ x }}.    *)
(*                                                                         *)
(* The cycles are found by a regular expression whose dot stops at a line  *)
(* end, in a loop that ends when there is nothing left to find. Then the   *)
(* placeholders are replaced key by key in whatever order the hash table   *)
(* gives the keys, and what is left is minified.                           *)
(***************************************************************************)
EXTENDS Naturals, Sequences, SequencesExt

CONSTANTS
    Names,   \* of items, lists and placeholders
    Files,   \* what the template file may hold
    Datas,   \* the data a handler may pass: name -> the list of its values
    NoFile   \* the file cannot be opened

VARIABLES phase, template, data, output, keys

vars == <<phase, template, data, output, keys>>

Word == <<"word">>
Tag == <<"tag">>
LineEnd == <<"line end">>
Open == <<"open">>   \* <!--
Shut == <<"shut">>   \* -->
EndFor == <<"endfor">>
For(item, list) == <<"for", item, list>>
Var(name) == <<"var", name>>

Tokens ==
    {Word, Tag, LineEnd, Open, Shut, EndFor}
        \cup {For(item, list) : item \in Names, list \in Names} \cup {Var(name) : name \in Names}

ASSUME TextsAreTokens ==
    /\ \A file \in Files : file \in Seq(Tokens)
    /\ \A values \in Datas : \A key \in DOMAIN values : values[key] \in Seq(Seq(Tokens))

Phases == {"read", "cycles", "variables", "done", "failed"}

TypeOK ==
    /\ phase \in Phases
    /\ output \in Seq(Tokens)
    /\ keys \subseteq DOMAIN data

Init ==
    /\ phase = "read"
    /\ template \in Files \cup {NoFile}
    /\ data \in Datas
    /\ output = <<>>
    /\ keys = {}

-----------------------------------------------------------------------------
\* The first position from p on that has one of the tokens, or after the end.
NextOf(s, p, tokens) ==
    LET found == {q \in p..Len(s) : s[q] \in tokens}
    IN IF found = {} THEN Len(s) + 1 ELSE CHOOSE q \in found : \A r \in found : q <= r

ClosedLast(s, p, close) ==
    LET q == {r \in p + 1..Len(s) : s[r] = close} IN
    IF q = {} THEN 0 ELSE CHOOSE r \in q : \A t \in q : t <= r

\* (.*?): from position p up to the nearest closing token of the line.
ClosedAt(s, p, close) ==
    LET q == NextOf(s, p + 1, {close, LineEnd}) IN IF q <= Len(s) /\ s[q] = close THEN q ELSE 0

Cycles(s) == {p \in DOMAIN s : s[p][1] = "for" /\ ClosedAt(s, p, EndFor) # 0}

Substitute(s, name, value) ==
    FlattenSeq([p \in DOMAIN s |-> IF s[p] = Var(name) THEN value ELSE <<s[p]>>])

\* The text of a cycle, once for each value of its list.
Repeated(scope, item, values) ==
    FlattenSeq([v \in DOMAIN values |-> Substitute(scope, item, values[v])])

FirstValueOrNull(key) == IF data[key] = <<>> THEN <<<<"null">>>> ELSE data[key][1]

FirstValue(key) == IF data[key] = <<>> THEN <<>> ELSE data[key][1]

KnownAndFilled(list) == list \in DOMAIN data /\ data[list] # <<>>

Known(list) == list \in DOMAIN data

-----------------------------------------------------------------------------
ReadFile ==
    /\ phase = "read"
    /\ IF template = NoFile THEN phase' = "failed" /\ UNCHANGED output
       ELSE phase' = "cycles" /\ output' = template
    /\ UNCHANGED <<template, data, keys>>

\* The leftmost cycle. One whose list is not in the data stays as it is, and
\* is the one found again.
ReplaceCycle ==
    /\ phase = "cycles"
    /\ \E p \in Cycles(output) :
          LET q == ClosedAt(output, p, EndFor)
              scope == SubSeq(output, p + 1, q - 1)
          IN /\ \A r \in Cycles(output) : p <= r
             /\ Known(output[p][3])
             /\ output' = SubSeq(output, 1, p - 1)
                          \o Repeated(scope, output[p][2], data[output[p][3]])
                          \o SubSeq(output, q + 1, Len(output))
    /\ UNCHANGED <<phase, template, data, keys>>

SpinOnUnknownList ==
    /\ phase = "cycles"
    /\ \E p \in Cycles(output) : (\A r \in Cycles(output) : p <= r) /\ ~Known(output[p][3])
    /\ UNCHANGED vars

CyclesDone ==
    /\ phase = "cycles" /\ Cycles(output) = {}
    /\ phase' = "variables"
    /\ keys' = DOMAIN data
    /\ UNCHANGED <<template, data, output>>

ReplaceVariable ==
    /\ phase = "variables"
    /\ \E key \in keys :
          /\ output' = Substitute(output, key, FirstValue(key))
          /\ keys' = keys \ {key}
    /\ UNCHANGED <<phase, template, data>>

\* regex_replace of <!--.*?-->: what lies in no comment that ends on its line.
InComment(s, p) == \E o \in 1..p : s[o] = Open /\ p <= ClosedAt(s, o, Shut)

WithoutComments(s) ==
    FlattenSeq([p \in DOMAIN s |-> IF InComment(s, p) THEN <<>> ELSE <<s[p]>>])

\* Of white space only the line ends are looked at: those between two tags go.
BetweenTags(s, p) ==
    /\ s[p] = LineEnd
    /\ \E a \in 1..p - 1, b \in p + 1..Len(s) :
          s[a] \in {Tag, Shut} /\ s[b] \in {Tag, Open} /\ \A m \in a + 1..b - 1 : s[m] = LineEnd

Compressed(s) ==
    FlattenSeq([p \in DOMAIN s |-> IF BetweenTags(s, p) THEN <<>> ELSE <<s[p]>>])

MinifyHTML ==
    /\ phase = "variables" /\ keys = {}
    /\ phase' = "done"
    /\ \E compressed \in {WithoutComments(output)} : output' = Compressed(compressed)
    /\ UNCHANGED <<template, data, keys>>

Render ==
    \/ ReadFile
    \/ ReplaceCycle
    \/ SpinOnUnknownList
    \/ CyclesDone
    \/ ReplaceVariable
    \/ MinifyHTML

Finished == phase \in {"done", "failed"} /\ UNCHANGED vars

Next == Render \/ Finished

Spec == Init /\ [][Next]_vars /\ WF_vars(Render)

-----------------------------------------------------------------------------
\* What holds.

\* No value has a marker of the kinds.
ValuesWithout(kinds) ==
    \A key \in DOMAIN data : \A v \in DOMAIN data[key] :
        \A p \in DOMAIN data[key][v] : data[key][v][p][1] \notin kinds

\* A cycle as replaceCycles reads templates: from a marker to the first end after
\* it, with no line end between them.
Pairs(s) ==
    {pq \in (DOMAIN s) \X (DOMAIN s) :
        /\ pq[1] < pq[2] /\ s[pq[1]][1] = "for" /\ s[pq[2]] = EndFor
        /\ \A m \in pq[1] + 1..pq[2] - 1 : s[m] \notin {EndFor, LineEnd}}

\* No cycle within another one.
Flat(s) == \A pq \in Pairs(s) : \A m \in pq[1] + 1..pq[2] : s[m][1] # "for"

ListsKnown ==
    template # NoFile /\ \A p \in DOMAIN template : template[p][1] = "for" => template[p][3] \in DOMAIN data

\* What stands in the page for a token outside of cycles.
Shown(token) ==
    IF token[1] = "var" /\ token[2] \in DOMAIN data THEN FirstValue(token[2]) ELSE <<token>>

\* What stands there for the cycle from p to q.
ShownFor(s, p, q) ==
    FlattenSeq([v \in DOMAIN data[s[p][3]] |->
        FlattenSeq([m \in 1..q - p - 1 |->
            IF s[p + m] = Var(s[p][2]) THEN data[s[p][3]][v] ELSE Shown(s[p + m])])])

Standing(s, p) ==
    IF \E pq \in Pairs(s) : p \in pq[1] + 1..pq[2] THEN <<>>
    ELSE IF \E pq \in Pairs(s) : p = pq[1]
         THEN ShownFor(s, p, CHOOSE q \in DOMAIN s : <<p, q>> \in Pairs(s))
         ELSE Shown(s[p])

\* The page is the template with every token replaced where it stands, whatever
\* the order of the keys and whichever cycle was found first: replacing one thing
\* does not disturb another, unless a value reads like a marker. A cycle over
\* several lines is no cycle to the code: its markers stay in the page.
RenderedInPlace ==
    phase = "done" /\ ValuesWithout({"for", "endfor", "var"}) /\ Flat(template) /\ ListsKnown =>
        output = Compressed(WithoutComments(FlattenSeq([p \in DOMAIN template |-> Standing(template, p)])))

\* Rendering ends if every cycle of the template names a list that is there, be
\* the cycles nested, unclosed or on more than one line: each round of the loop
\* leaves an {{ endfor }} less.
RenderingEnds ==
    (phase = "cycles" /\ ListsKnown /\ ValuesWithout({"for", "endfor"})) ~> phase = "done"
-----------------------------------------------------------------------------
\* What the test of the renderer expects, and the code does not do.

\* A cycle that is closed is repeated, on however many lines it stands: no marker
\* is left in the page with an end after it.
CyclesExpanded ==
    phase = "done" /\ ValuesWithout({"for", "endfor"}) /\ ListsKnown =>
        \A p, q \in DOMAIN output : p < q /\ output[p][1] = "for" => output[q] # EndFor
=============================================================================
