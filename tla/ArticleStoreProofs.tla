------------------------- MODULE ArticleStoreProofs -------------------------
(***************************************************************************)
(* Theorems of ArticleStore for every set of requests, names and slugs and *)
(* any number of articles, failures and kills: what the store keeps.       *)
(*                                                                         *)
(* The invariant follows a handler through its program. What is left of a  *)
(* plan is a preamble, which Starts names statement by statement, and then *)
(* only statements about links.                                            *)
(***************************************************************************)
EXTENDS ArticleStore, SequenceTheorems, TLAPS

ItemOps == {"unlink", "name", "link"}

\* The statements of a plan: a name to insert is one of the names.
Named == {s \in Statement : s.op = "name" => s.name \in Names}

Preambles == {"image", "insert", "reread", "load", "update"}

Starts(plan, ops) ==
    /\ Len(plan) >= Len(ops)
    /\ \A p \in 1..Len(plan) :
          IF p <= Len(ops) THEN plan[p].op = ops[p] ELSE plan[p].op \in ItemOps

\* A row that was read is still there, with the slug and the views it had.
Current(j) ==
    /\ j.row # NoRow
    /\ j.id \in Rows
    /\ j.row.slug = articles[j.id].slug
    /\ j.row.views = articles[j.id].views

\* The creator's progress: its article is the one with the id since.
CreatorAt(j) ==
    \/ /\ Starts(j.plan, <<"image", "insert", "reread">>)
       /\ nextId <= MaxId /\ j.since = nextId
    \/ /\ Starts(j.plan, <<"insert", "reread">>)
       /\ nextId <= MaxId /\ j.since = nextId
       /\ images[j.req.slug] # NoFile
    \/ /\ Starts(j.plan, <<"reread">>)
       /\ j.since \in Rows /\ articles[j.since].slug = j.req.slug
    \/ /\ Starts(j.plan, <<>>)
       /\ Current(j) /\ j.id = j.since

EditorAt(j) ==
    \/ Starts(j.plan, <<"image", "load", "update">>)
    \/ Starts(j.plan, <<"load", "update">>)
    \/ Starts(j.plan, <<"update">>) /\ Current(j)
    \/ Starts(j.plan, <<>>) /\ Current(j)

OneStatement(j) ==
    /\ Len(j.plan) <= 1
    /\ j.plan # <<>> => j.plan[1].op \in {"status", "remove", "count"}

JobAt(j) ==
    /\ j.since <= nextId
    /\ CASE j.req.h = "creator" -> CreatorAt(j)
         [] j.req.h = "editor" -> EditorAt(j)
         [] OTHER -> OneStatement(j)

Jobs == \A c \in Clients : Busy(c) => JobAt(job[c])

\* One request is handled at a time.
OneJob == \A c, d \in Clients : Busy(c) /\ Busy(d) => c = d

\* The ids not given out yet.
Fresh ==
    \A id \in Ids : id >= nextId =>
        articles[id] = NoRow /\ seen[id] = 0 /\ firstSlug[id] = NoRow

\* TypeOK in two parts: what is stored, and the request being handled.
StoreType ==
    /\ articles \in [Ids -> Row \cup {NoRow}]
    /\ nextId \in 1..(MaxId + 1)
    /\ terms \in [Kinds -> SUBSET Names]
    /\ links \in [Kinds -> SUBSET (Ids \X Names)]
    /\ images \in [Slugs -> Images \cup {NoFile, Broken}]
    /\ seen \in [Ids -> Nat]
    /\ firstSlug \in [Ids -> Slugs \cup {NoRow}]
    /\ requests \in 0..MaxRequests
    /\ faults \in 0..MaxFaults

Job == [req : Requests \cup {NoReq}, plan : Seq(Named), id : Ids \cup {0},
        row : Row \cup {NoRow}, since : 0..(MaxId + 1)]

JobType == job \in [Clients -> Job] /\ last \in Answer \cup {NoReq}

StoreOK == StoreType /\ Fresh /\ SchemaHolds /\ RowHasImage /\ ViewsCounted /\ SlugForLife

StoreInv == StoreOK /\ JobType /\ OneJob /\ Jobs

-----------------------------------------------------------------------------
\* Plans.

LEMMA StartsTail ==
    ASSUME NEW plan \in Seq(Named), NEW ops \in Seq(Preambles),
           Starts(plan, ops), ops # <<>>
    PROVE  /\ plan # <<>>
           /\ Head(plan).op = ops[1]
           /\ Starts(Tail(plan), Tail(ops))
  <1>1. Len(ops) \in Nat \ {0} /\ Len(plan) \in Nat /\ Len(plan) >= Len(ops)
    BY DEF Starts
  <1>2. plan # <<>> /\ Head(plan) = plan[1] /\ 1 \in 1..Len(plan) /\ 1 <= Len(ops)
    BY <1>1
  <1>3. /\ Len(Tail(plan)) = Len(plan) - 1 /\ Len(Tail(ops)) = Len(ops) - 1
        /\ \A p \in 1..Len(Tail(plan)) : Tail(plan)[p] = plan[p + 1]
        /\ \A p \in 1..Len(Tail(ops)) : Tail(ops)[p] = ops[p + 1]
    BY <1>1, <1>2
  <1>4. \A p \in 1..Len(Tail(plan)) :
           IF p <= Len(Tail(ops)) THEN Tail(plan)[p].op = Tail(ops)[p]
                                  ELSE Tail(plan)[p].op \in ItemOps
    <2> TAKE p \in 1..Len(Tail(plan))
    <2>1. p + 1 \in 1..Len(plan) /\ Tail(plan)[p] = plan[p + 1]
      BY <1>1, <1>3
    <2>2. CASE p <= Len(Tail(ops))
      <3>1. p + 1 <= Len(ops) /\ Tail(ops)[p] = ops[p + 1]
        BY <1>1, <1>3, <2>2
      <3> QED
        BY <2>1, <2>2, <3>1 DEF Starts
    <2>3. CASE ~(p <= Len(Tail(ops)))
      <3>1. ~(p + 1 <= Len(ops))
        BY <1>1, <1>3, <2>3
      <3> QED
        BY <2>1, <2>3, <3>1 DEF Starts
    <2> QED
      BY <2>2, <2>3
  <1> QED
    BY <1>1, <1>2, <1>3, <1>4 DEF Starts

LEMMA ItemTail ==
    ASSUME NEW plan \in Seq(Named), Starts(plan, <<>>), plan # <<>>
    PROVE  Head(plan).op \in ItemOps /\ Starts(Tail(plan), <<>>)
  <1>1. Len(plan) \in Nat \ {0} /\ Head(plan) = plan[1] /\ Len(<<>>) = 0
    OBVIOUS
  <1>2. /\ Len(Tail(plan)) = Len(plan) - 1
        /\ \A p \in 1..Len(Tail(plan)) : Tail(plan)[p] = plan[p + 1] /\ p + 1 \in 1..Len(plan)
    BY <1>1
  <1>3. \A p \in 1..Len(plan) : plan[p].op \in ItemOps
    BY <1>1 DEF Starts
  <1> QED
    BY <1>1, <1>2, <1>3 DEF Starts

\* More statements about links may follow.
LEMMA StartsConcat ==
    ASSUME NEW s \in Seq(Named), NEW t \in Seq(Named), NEW ops \in Seq(Preambles),
           Starts(s, ops), Starts(t, <<>>)
    PROVE  s \o t \in Seq(Named) /\ Starts(s \o t, ops)
  <1>1. /\ s \o t \in Seq(Named)
        /\ Len(s \o t) = Len(s) + Len(t)
        /\ \A p \in 1..(Len(s) + Len(t)) :
              (s \o t)[p] = IF p <= Len(s) THEN s[p] ELSE t[p - Len(s)]
    BY ConcatProperties
  <1>2. Len(s) \in Nat /\ Len(t) \in Nat /\ Len(ops) \in Nat /\ Len(s) >= Len(ops)
    BY DEF Starts
  <1>3. \A p \in 1..Len(t) : t[p].op \in ItemOps
    BY <1>2 DEF Starts
  <1>4. \A p \in 1..(Len(s) + Len(t)) :
           IF p <= Len(ops) THEN (s \o t)[p].op = ops[p] ELSE (s \o t)[p].op \in ItemOps
    <2> TAKE p \in 1..(Len(s) + Len(t))
    <2>1. CASE p <= Len(s)
      BY <1>1, <1>2, <2>1 DEF Starts
    <2>2. CASE ~(p <= Len(s))
      <3>1. p - Len(s) \in 1..Len(t) /\ ~(p <= Len(ops))
        BY <1>2, <2>2
      <3> QED
        BY <1>1, <1>3, <2>2, <3>1
    <2> QED
      BY <2>1, <2>2
  <1> QED
    BY <1>1, <1>2, <1>4 DEF Starts

LEMMA ItemStepsShape ==
    ASSUME NEW k \in Kinds, NEW names \in Seq(Names)
    PROVE  ItemSteps(k, names) \in Seq(Named) /\ Starts(ItemSteps(k, names), <<>>)
  <1> DEFINE n == 2 * Len(names)
             items == ItemSteps(k, names)
  <1>1. n \in Nat /\ Len(names) \in Nat
    OBVIOUS
  <1>2. \A i \in 1..n : names[(i + 1) \div 2] \in Names
    BY <1>1
  <1>3. \A i \in 1..n :
           /\ items[i] = [op |-> IF i % 2 = 1 THEN "name" ELSE "link", kind |-> k,
                          name |-> names[(i + 1) \div 2]]
           /\ items[i] \in Named
           /\ items[i].op \in ItemOps
    BY <1>2 DEF ItemSteps, Named, Statement, ItemOps
  <1>4. items \in Seq(Named) /\ Len(items) = n
    BY <1>1, <1>3 DEF ItemSteps
  <1> QED
    BY <1>1, <1>3, <1>4 DEF Starts

LEMMA RelinkShape ==
    ASSUME NEW req \in Request, NEW k \in Kinds
    PROVE  Relink(req, k) \in Seq(Named) /\ Starts(Relink(req, k), <<>>)
  <1>1. req.lists[k] \in Seq(Names)
    BY DEF Request
  <1>2. /\ <<>> \in Seq(Named) /\ Starts(<<>>, <<>>)
        /\ <<KindStep("unlink", k)>> \in Seq(Named)
        /\ Starts(<<KindStep("unlink", k)>>, <<>>)
    BY DEF Starts, KindStep, Named, Statement, ItemOps
  <1>3. <<>> \in Seq(Preambles)
    OBVIOUS
  <1> QED
    BY <1>1, <1>2, <1>3, ItemStepsShape, StartsConcat DEF Relink

\* The program of every handler begins as the invariant says.
LEMMA ProgramShape ==
    ASSUME NEW req \in Request
    PROVE  /\ Program(req) \in Seq(Named)
           /\ req.h = "creator" => Starts(Program(req), <<"image", "insert", "reread">>)
           /\ req.h = "editor" => \/ Starts(Program(req), <<"image", "load", "update">>)
                                  \/ Starts(Program(req), <<"load", "update">>)
           /\ req.h \notin {"creator", "editor"} =>
                 /\ Len(Program(req)) = 1
                 /\ Program(req)[1].op \in {"status", "remove", "count"}
  <1>1. /\ "keyword" \in Kinds /\ "category" \in Kinds /\ "tag" \in Kinds
        /\ req.h \in Handlers
        /\ \A k \in Kinds : req.lists[k] \in Seq(Names)
    BY DEF Request, Kinds
  <1>2. \A op \in {"image", "insert", "reread", "load", "update", "status", "remove", "count"} :
           Step(op) \in Named /\ Step(op).op = op
    BY DEF Step, Named, Statement, Kinds
  <1>3. CASE req.h = "creator"
    <2>1. CreateItems(req) \in Seq(Named) /\ Starts(CreateItems(req), <<>>)
      <3>1. <<>> \in Seq(Preambles)
        OBVIOUS
      <3> QED
        BY <1>1, <3>1, ItemStepsShape, StartsConcat DEF CreateItems
    <2>2. /\ CreateArticle \in Seq(Named)
          /\ Starts(CreateArticle, <<"image", "insert", "reread">>)
      BY <1>2 DEF CreateArticle, Starts
    <2>3. <<"image", "insert", "reread">> \in Seq(Preambles)
      BY DEF Preambles
    <2>4. Program(req) = CreateArticle \o CreateItems(req)
      BY <1>3 DEF Program
    <2> QED
      BY <1>3, <2>1, <2>2, <2>3, <2>4, StartsConcat
  <1>4. CASE req.h = "editor"
    <2> DEFINE pre == (IF req.image = NoFile THEN <<>> ELSE <<Step("image")>>)
                         \o <<Step("load"), Step("update")>>
               r1 == Relink(req, "keyword")
               r2 == Relink(req, "category")
               r3 == Relink(req, "tag")
    <2>1. Program(req) = pre \o r1 \o r2 \o r3
      BY <1>4 DEF Program
    <2>2. PICK ops \in {<<"image", "load", "update">>, <<"load", "update">>} :
             pre \in Seq(Named) /\ Starts(pre, ops)
      <3>1. CASE req.image = NoFile
        <4> DEFINE two == <<Step("load"), Step("update")>>
        <4>1. pre = two
          BY <3>1
        <4>2. /\ two \in Seq(Named) /\ Len(two) = 2
              /\ two[1].op = "load" /\ two[2].op = "update"
          BY <1>2
        <4> HIDE DEF two, pre
        <4>3. Starts(two, <<"load", "update">>)
          BY <4>2 DEF Starts
        <4> QED
          BY <4>1, <4>2, <4>3
      <3>2. CASE req.image # NoFile
        <4> DEFINE one == <<Step("image")>>
                   two == <<Step("load"), Step("update")>>
        <4>1. /\ one \in Seq(Named) /\ Len(one) = 1 /\ one[1].op = "image"
              /\ two \in Seq(Named) /\ Len(two) = 2
              /\ two[1].op = "load" /\ two[2].op = "update"
          BY <1>2
        <4>2. pre = one \o two
          BY <3>2
        <4> HIDE DEF one, two, pre
        <4>3. /\ pre \in Seq(Named) /\ Len(pre) = 3
              /\ pre[1] = one[1] /\ pre[2] = two[1] /\ pre[3] = two[2]
          BY <4>1, <4>2, ConcatProperties
        <4>4. Starts(pre, <<"image", "load", "update">>)
          BY <4>1, <4>3 DEF Starts
        <4> QED
          BY <4>3, <4>4
      <3> QED
        BY <3>1, <3>2
    <2>3. ops \in Seq(Preambles)
      <3>1. /\ <<"image", "load", "update">> \in Seq(Preambles)
            /\ <<"load", "update">> \in Seq(Preambles)
        BY DEF Preambles
      <3> QED
        BY <3>1
    <2>4. /\ r1 \in Seq(Named) /\ Starts(r1, <<>>)
          /\ r2 \in Seq(Named) /\ Starts(r2, <<>>)
          /\ r3 \in Seq(Named) /\ Starts(r3, <<>>)
      BY <1>1, RelinkShape
    <2> HIDE DEF pre, r1, r2, r3
    <2>5. pre \o r1 \in Seq(Named) /\ Starts(pre \o r1, ops)
      BY <2>2, <2>3, <2>4, StartsConcat
    <2>6. pre \o r1 \o r2 \in Seq(Named) /\ Starts(pre \o r1 \o r2, ops)
      BY <2>3, <2>4, <2>5, StartsConcat
    <2>7. pre \o r1 \o r2 \o r3 \in Seq(Named) /\ Starts(pre \o r1 \o r2 \o r3, ops)
      BY <2>3, <2>4, <2>6, StartsConcat
    <2> QED
      BY <1>4, <2>1, <2>7
  <1>5. CASE req.h \notin {"creator", "editor"}
    <2>1. PICK op \in {"status", "remove", "count"} : Program(req) = <<Step(op)>>
      BY <1>1, <1>5 DEF Program, Handlers
    <2> QED
      BY <1>2, <1>5, <2>1
  <1> QED
    BY <1>3, <1>4, <1>5

-----------------------------------------------------------------------------
\* The request in service.

LEMMA BusyJob ==
    ASSUME JobType, NEW c \in Clients, Busy(c)
    PROVE  /\ Req(c) \in Requests /\ Req(c) \in Request
           /\ job[c] \in Job
           /\ job[c].plan \in Seq(Named)
           /\ job[c].plan # <<>> => /\ Stmt(c) = job[c].plan[1]
                                    /\ Stmt(c) \in Named
                                    /\ Tail(job[c].plan) \in Seq(Named)
  <1>1. job[c] \in Job /\ job[c].req \in Requests /\ job[c].plan \in Seq(Named)
    BY DEF JobType, Job, Busy
  <1> QED
    BY <1>1, RequestsAssumption DEF Req, Stmt

\* What the handler has done when op is its next statement, and what is left.
LEMMA Progress ==
    ASSUME JobType, Jobs, NEW c \in Clients, NEW op, At(c, op)
    PROVE  LET j == job[c] IN
           \/ /\ op = "image" /\ j.req.h = "creator" /\ nextId <= MaxId /\ j.since = nextId
              /\ Starts(Tail(j.plan), <<"insert", "reread">>)
           \/ /\ op = "image" /\ j.req.h = "editor"
              /\ Starts(Tail(j.plan), <<"load", "update">>)
           \/ /\ op = "insert" /\ j.req.h = "creator" /\ nextId <= MaxId
              /\ j.since = nextId /\ images[j.req.slug] # NoFile
              /\ Starts(Tail(j.plan), <<"reread">>)
           \/ /\ op = "reread" /\ j.req.h = "creator" /\ Starts(Tail(j.plan), <<>>)
              /\ j.since \in Rows /\ articles[j.since].slug = j.req.slug
           \/ /\ op = "load" /\ j.req.h = "editor" /\ Starts(Tail(j.plan), <<"update">>)
           \/ /\ op = "update" /\ j.req.h = "editor" /\ Starts(Tail(j.plan), <<>>)
              /\ Current(j)
           \/ /\ op \in ItemOps /\ j.req.h \in {"creator", "editor"}
              /\ Starts(Tail(j.plan), <<>>) /\ Current(j)
              /\ j.req.h = "creator" => j.id = j.since
           \/ /\ op \in {"status", "remove", "count"}
              /\ j.req.h \notin {"creator", "editor"}
              /\ Tail(j.plan) = <<>>
  <1> DEFINE j == job[c]
             plan == job[c].plan
  <1>1. /\ Busy(c) /\ JobAt(j) /\ plan \in Seq(Named) /\ plan # <<>>
        /\ Head(plan).op = op
    BY BusyJob DEF At, Jobs
  <1>2. ASSUME NEW ops \in Seq(Preambles), ops # <<>>, Starts(plan, ops)
        PROVE  op = ops[1] /\ Starts(Tail(plan), Tail(ops))
    BY <1>1, <1>2, StartsTail
  <1>3. /\ <<"image", "insert", "reread">> \in Seq(Preambles)
        /\ <<"insert", "reread">> \in Seq(Preambles)
        /\ <<"reread">> \in Seq(Preambles)
        /\ <<"image", "load", "update">> \in Seq(Preambles)
        /\ <<"load", "update">> \in Seq(Preambles)
        /\ <<"update">> \in Seq(Preambles)
    BY DEF Preambles
  <1>4. /\ Tail(<<"image", "insert", "reread">>) = <<"insert", "reread">>
        /\ Tail(<<"insert", "reread">>) = <<"reread">>
        /\ Tail(<<"reread">>) = <<>>
        /\ Tail(<<"image", "load", "update">>) = <<"load", "update">>
        /\ Tail(<<"load", "update">>) = <<"update">>
        /\ Tail(<<"update">>) = <<>>
    OBVIOUS
  <1>5. CASE j.req.h = "creator"
    <2>1. CreatorAt(j)
      BY <1>1, <1>5 DEF JobAt
    <2>2. CASE Starts(plan, <<"image", "insert", "reread">>) /\ nextId <= MaxId /\ j.since = nextId
      <3>1. op = "image" /\ Starts(Tail(plan), <<"insert", "reread">>)
        BY <1>2, <1>3, <1>4, <2>2
      <3> QED
        BY <1>5, <2>2, <3>1
    <2>3. CASE /\ Starts(plan, <<"insert", "reread">>) /\ nextId <= MaxId
               /\ j.since = nextId /\ images[j.req.slug] # NoFile
      <3>1. op = "insert" /\ Starts(Tail(plan), <<"reread">>)
        BY <1>2, <1>3, <1>4, <2>3
      <3> QED
        BY <1>5, <2>3, <3>1
    <2>4. CASE /\ Starts(plan, <<"reread">>)
               /\ j.since \in Rows /\ articles[j.since].slug = j.req.slug
      <3>1. op = "reread" /\ Starts(Tail(plan), <<>>)
        BY <1>2, <1>3, <1>4, <2>4
      <3> QED
        BY <1>5, <2>4, <3>1
    <2>5. CASE Starts(plan, <<>>) /\ Current(j) /\ j.id = j.since
      BY <1>1, <1>5, <2>5, ItemTail
    <2> HIDE DEF j, plan
    <2> QED
      BY <2>1, <2>2, <2>3, <2>4, <2>5 DEF CreatorAt, j, plan
  <1>6. CASE j.req.h = "editor"
    <2>1. EditorAt(j)
      BY <1>1, <1>6 DEF JobAt
    <2>2. CASE Starts(plan, <<"image", "load", "update">>)
      <3>1. op = "image" /\ Starts(Tail(plan), <<"load", "update">>)
        BY <1>2, <1>3, <1>4, <2>2
      <3> QED
        BY <1>6, <3>1
    <2>3. CASE Starts(plan, <<"load", "update">>)
      <3>1. op = "load" /\ Starts(Tail(plan), <<"update">>)
        BY <1>2, <1>3, <1>4, <2>3
      <3> QED
        BY <1>6, <3>1
    <2>4. CASE Starts(plan, <<"update">>) /\ Current(j)
      <3>1. op = "update" /\ Starts(Tail(plan), <<>>)
        BY <1>2, <1>3, <1>4, <2>4
      <3> QED
        BY <1>6, <2>4, <3>1
    <2>5. CASE Starts(plan, <<>>) /\ Current(j)
      BY <1>1, <1>6, <2>5, ItemTail
    <2> QED
      BY <2>1, <2>2, <2>3, <2>4, <2>5 DEF EditorAt
  <1>7. CASE j.req.h \notin {"creator", "editor"}
    <2>1. OneStatement(j)
      BY <1>1, <1>7 DEF JobAt
    <2>2. Len(plan) = 1 /\ Head(plan) = plan[1] /\ Tail(plan) = <<>>
      <3>0. Len(plan) \in Nat \ {0} /\ Len(plan) <= 1
        BY <1>1, <2>1, EmptySeq DEF OneStatement
      <3> DEFINE n == Len(plan)
      <3>1. n = 1
        <4>1. n \in Nat \ {0} /\ n <= 1
          BY <3>0
        <4> HIDE DEF n
        <4> QED
          BY <4>1
      <3>2. Tail(plan) \in Seq(Named) /\ Len(Tail(plan)) = 0
        BY <1>1, <3>1
      <3>3. Tail(plan) = <<>>
        BY <3>2, EmptySeq
      <3> QED
        BY <1>1, <3>1, <3>3
    <2> QED
      BY <1>1, <1>7, <2>1, <2>2 DEF OneStatement
  <1> QED
    BY <1>5, <1>6, <1>7

\* An answer leaves no request in service.
LEMMA ReplyJobs ==
    ASSUME JobType, OneJob, NEW c \in Clients, Busy(c),
           NEW code \in {200, 303, 500}, Reply(c, code)
    PROVE  JobType' /\ OneJob' /\ Jobs'
  <1>1. Req(c) \in Requests /\ job[c] \in Job
    BY BusyJob
  <1>2. Idle \in Job
    BY BoundAssumption DEF Idle, Job
  <1>3. job' = [job EXCEPT ![c] = Idle] /\ last' \in Answer
    BY <1>1 DEF Reply, Answer, Job
  <1>4. \A d \in Clients : ~Busy(d)'
    BY <1>3 DEF JobType, OneJob, Busy, Idle
  <1>5. JobType'
    BY <1>2, <1>3 DEF JobType, Answer, Job
  <1> QED
    BY <1>4, <1>5 DEF OneJob, Jobs

LEMMA ThrowJobs ==
    ASSUME JobType, OneJob, NEW c \in Clients, Busy(c), Throw(c)
    PROVE  JobType' /\ OneJob' /\ Jobs'
  BY ReplyJobs DEF Throw

\* The handler goes on.
LEMMA ContinueJobs ==
    ASSUME JobType, OneJob, NEW c \in Clients, Busy(c), job[c].plan # <<>>, Continue(c)
    PROVE  /\ JobType' /\ OneJob'
           /\ job'[c] = [job[c] EXCEPT !.plan = Tail(@)]
           /\ JobAt(job[c])' => Jobs'
  <1>1. job[c] \in Job /\ Tail(job[c].plan) \in Seq(Named)
    BY BusyJob
  <1>2. /\ job' = [job EXCEPT ![c].plan = Tail(job[c].plan)] /\ last' = last
    BY DEF Continue
  <1>3. job'[c] = [job[c] EXCEPT !.plan = Tail(@)] /\ job'[c].req = job[c].req
    BY <1>1, <1>2 DEF JobType, Job
  <1>4. \A d \in Clients : d # c => job'[d] = job[d]
    BY <1>2 DEF JobType
  <1>5. JobType'
    <2>1. [job[c] EXCEPT !.plan = Tail(job[c].plan)] \in Job
      BY <1>1 DEF Job
    <2>2. job' = [job EXCEPT ![c] = [job[c] EXCEPT !.plan = Tail(job[c].plan)]]
      BY <1>2 DEF JobType
    <2>3. last' \in Answer \cup {NoReq}
      BY <1>2 DEF JobType, Answer
    <2> QED
      BY <2>1, <2>2, <2>3 DEF JobType, Job
  <1>6. \A d \in Clients : Busy(d)' <=> Busy(d)
    BY <1>3, <1>4 DEF Busy
  <1>7. OneJob'
    BY <1>6 DEF OneJob
  <1>8. JobAt(job[c])' => Jobs'
    BY <1>6, <1>7 DEF OneJob, Jobs
  <1> QED
    BY <1>3, <1>5, <1>7, <1>8

\* A statement about links is skipped or done, with the articles untouched.
LEMMA ItemJobs ==
    ASSUME JobType, OneJob, Jobs, NEW c \in Clients, NEW op \in ItemOps, At(c, op),
           Continue(c), UNCHANGED <<articles, nextId, images>>
    PROVE  JobType' /\ OneJob' /\ Jobs'
  <1>1. /\ Busy(c) /\ job[c].plan # <<>> /\ job[c] \in Job
    BY BusyJob DEF At
  <1>2. /\ job[c].req.h \in {"creator", "editor"}
        /\ Starts(Tail(job[c].plan), <<>>)
        /\ Current(job[c])
        /\ job[c].req.h = "creator" => job[c].id = job[c].since
        /\ job[c].since <= nextId
    BY <1>1, Progress DEF ItemOps, Jobs, JobAt
  <1>3. /\ JobType' /\ OneJob'
        /\ job'[c] = [job[c] EXCEPT !.plan = Tail(@)]
        /\ JobAt(job[c])' => Jobs'
    BY <1>1, ContinueJobs
  <1>4. /\ job'[c].plan = Tail(job[c].plan)
        /\ job'[c].req = job[c].req /\ job'[c].id = job[c].id
        /\ job'[c].row = job[c].row /\ job'[c].since = job[c].since
    BY <1>1, <1>3 DEF Job
  <1>5. JobAt(job[c])'
    BY <1>2, <1>4 DEF JobAt, CreatorAt, EditorAt, Current, Rows
  <1> QED
    BY <1>3, <1>5

-----------------------------------------------------------------------------
\* What is stored stays right, one lemma for each way of changing it.

LEMMA SameStore ==
    ASSUME StoreOK, UNCHANGED <<store, images, history>>,
           requests' \in 0..MaxRequests, faults' \in 0..MaxFaults
    PROVE  StoreOK'
  BY DEF StoreOK, StoreType, Fresh, SchemaHolds, RowHasImage, ViewsCounted, SlugForLife,
         Rows, store, history

LEMMA SameCounters ==
    ASSUME StoreOK PROVE requests \in 0..MaxRequests /\ faults \in 0..MaxFaults
  BY DEF StoreOK, StoreType

\* Links between articles and names that are there.
LEMMA LinksChange ==
    ASSUME StoreOK, UNCHANGED <<articles, nextId, images, history, requests>>,
           faults' \in 0..MaxFaults,
           terms' \in [Kinds -> SUBSET Names],
           \A k \in Kinds : terms[k] \subseteq terms'[k],
           links' \in [Kinds -> SUBSET (Ids \X Names)],
           \A k \in Kinds : \A l \in links'[k] :
              l \in links[k] \/ (l[1] \in Rows /\ l[2] \in terms[k])
    PROVE  StoreOK'
  <1>1. StoreType' /\ Fresh' /\ RowHasImage' /\ ViewsCounted' /\ SlugForLife'
    BY DEF StoreOK, StoreType, Fresh, RowHasImage, ViewsCounted, SlugForLife, Rows, history
  <1>2. SchemaHolds'
    BY DEF StoreOK, SchemaHolds, Rows
  <1> QED
    BY <1>1, <1>2 DEF StoreOK

\* A row changes, but neither its slug nor, against the count of its views,
\* its counter.
LEMMA RowChanges ==
    ASSUME StoreOK, NEW id \in Rows, NEW row \in Row,
           articles' = [articles EXCEPT ![id] = row],
           row.slug = articles[id].slug,
           seen' \in [Ids -> Nat],
           row.views = seen'[id],
           \A i \in Ids : i # id => seen'[i] = seen[i],
           UNCHANGED <<nextId, terms, links, images, firstSlug, requests, faults>>
    PROVE  StoreOK'
  <1>1. id \in Ids /\ row # NoRow /\ articles[id] # NoRow
    BY MarkerAssumption DEF Rows
  <1>2. Rows' = Rows
    BY <1>1 DEF Rows, StoreOK, StoreType
  <1>3. \A i \in Rows : articles'[i].slug = articles[i].slug
    BY <1>1 DEF Rows, StoreOK, StoreType
  <1>4. StoreType'
    BY <1>1 DEF StoreOK, StoreType
  <1>5. Fresh'
    BY <1>1 DEF StoreOK, StoreType, Fresh
  <1>6. SchemaHolds' /\ RowHasImage' /\ SlugForLife'
    BY <1>2, <1>3 DEF StoreOK, SchemaHolds, RowHasImage, SlugForLife
  <1>7. ViewsCounted'
    BY <1>1, <1>2 DEF StoreOK, StoreType, ViewsCounted, Rows
  <1> QED
    BY <1>4, <1>5, <1>6, <1>7 DEF StoreOK

-----------------------------------------------------------------------------
\* The actions, one lemma each.

LEMMA AcceptKeeps ==
    ASSUME StoreInv, NEW c \in Clients, NEW req \in Requests, Accept(c, req)
    PROVE  StoreInv'
  <1> DEFINE j == [req |-> req, plan |-> Program(req), id |-> 0, row |-> NoRow,
                   since |-> nextId]
  <1>1. /\ req \in Request /\ req # NoReq /\ req.h \in Handlers
        /\ Program(req) \in Seq(Named)
    BY RequestsAssumption, MarkerAssumption, ProgramShape DEF Request
  <1>2. nextId \in 1..(MaxId + 1) /\ MaxId \in Nat
    BY BoundAssumption DEF StoreInv, StoreOK, StoreType
  <1>3. j.req = req /\ j.plan = Program(req) /\ j.since = nextId
    OBVIOUS
  <1>4. j \in Job
    <2>1. nextId \in 0..(MaxId + 1) /\ 0 \in Ids \cup {0} /\ NoRow \in Row \cup {NoRow}
      BY <1>2
    <2> QED
      BY <1>1, <2>1 DEF Job
  <1>5. job' = [job EXCEPT ![c] = j] /\ last' = NoReq
    BY DEF Accept
  <1> HIDE DEF j
  <1>6. JobType'
    BY <1>4, <1>5 DEF StoreInv, JobType, Job, Answer
  <1>7. \A d \in Clients : Busy(d)' => d = c
    BY <1>5 DEF Accept, ServerFree, Busy, StoreInv, JobType
  <1>8. OneJob'
    BY <1>7 DEF OneJob
  <1>9. /\ job'[c].req = req /\ job'[c].plan = Program(req) /\ job'[c].since = nextId
        /\ req.h = "creator" => nextId <= MaxId
        /\ UNCHANGED <<nextId, articles, images>>
    BY <1>3, <1>5 DEF StoreInv, JobType, Accept, store
  <1>10. JobAt(job[c])'
    <2>1. CASE req.h = "creator"
      BY <1>1, <1>2, <1>9, <2>1, ProgramShape DEF JobAt, CreatorAt
    <2>2. CASE req.h = "editor"
      BY <1>1, <1>2, <1>9, <2>2, ProgramShape DEF JobAt, EditorAt
    <2>3. CASE req.h \notin {"creator", "editor"}
      <3>1. OneStatement(job[c])'
        <4>1. Len(Program(req)) = 1 /\ Program(req)[1].op \in {"status", "remove", "count"}
          BY <1>1, <2>3, ProgramShape
        <4> QED
          BY <1>9, <4>1 DEF OneStatement
      <3> QED
        BY <1>2, <1>9, <2>3, <3>1 DEF JobAt
    <2> QED
      BY <2>1, <2>2, <2>3
  <1>11. Jobs'
    BY <1>7, <1>10 DEF Jobs
  <1>12. requests' \in 0..MaxRequests /\ faults' \in 0..MaxFaults
    BY BoundAssumption DEF Accept, StoreInv, StoreOK, StoreType
  <1>13. StoreOK'
    BY <1>12, SameStore DEF Accept, StoreInv
  <1> QED
    BY <1>6, <1>8, <1>11, <1>13 DEF StoreInv

\* A file is written, whole or cut short.
LEMMA ImageKeeps ==
    ASSUME StoreInv, NEW c \in Clients, At(c, "image"), Continue(c),
           NEW pic \in Images \cup {Broken},
           images' = [images EXCEPT ![Req(c).slug] = pic],
           UNCHANGED <<store, history, requests>>, faults' \in 0..MaxFaults
    PROVE  StoreInv'
  <1>1. /\ Busy(c) /\ job[c].plan # <<>> /\ job[c] \in Job
        /\ Req(c) \in Request /\ Req(c).slug \in Slugs
        /\ JobType /\ OneJob /\ Jobs /\ StoreOK
    BY BusyJob DEF At, Request, StoreInv
  <1>2. pic # NoFile
    BY MarkerAssumption
  <1>3. images' \in [Slugs -> Images \cup {NoFile, Broken}]
    BY <1>1 DEF StoreOK, StoreType
  <1>4. StoreType' /\ Fresh' /\ SchemaHolds' /\ ViewsCounted' /\ SlugForLife'
    BY <1>1, <1>3
    DEF StoreOK, StoreType, Fresh, SchemaHolds, ViewsCounted, SlugForLife, Rows, store, history
  <1>5. RowHasImage'
    BY <1>1, <1>2 DEF StoreOK, StoreType, RowHasImage, Rows, store
  <1>6. /\ JobType' /\ OneJob' /\ job'[c] = [job[c] EXCEPT !.plan = Tail(@)]
        /\ JobAt(job[c])' => Jobs'
    BY <1>1, ContinueJobs
  <1>7. /\ job'[c].plan = Tail(job[c].plan)
        /\ job'[c].req = job[c].req /\ job'[c].since = job[c].since
    BY <1>1, <1>6 DEF Job
  <1>8. /\ job[c].since <= nextId
        /\ \/ /\ job[c].req.h = "creator" /\ nextId <= MaxId /\ job[c].since = nextId
              /\ Starts(Tail(job[c].plan), <<"insert", "reread">>)
           \/ /\ job[c].req.h = "editor"
              /\ Starts(Tail(job[c].plan), <<"load", "update">>)
    BY <1>1, Progress DEF ItemOps, Jobs, JobAt
  <1>9. images'[Req(c).slug] # NoFile
    BY <1>1, <1>2 DEF StoreOK, StoreType
  <1>10. JobAt(job[c])'
    BY <1>7, <1>8, <1>9 DEF JobAt, CreatorAt, EditorAt, store, Req
  <1> QED
    BY <1>4, <1>5, <1>6, <1>10 DEF StoreInv, StoreOK

\* The editor goes on although its file could not be opened.
LEMMA ImageSkipped ==
    ASSUME StoreInv, NEW c \in Clients, At(c, "image"), Continue(c),
           Req(c).h = "editor", UNCHANGED <<articles, nextId, images>>
    PROVE  JobType' /\ OneJob' /\ Jobs'
  <1>1. /\ Busy(c) /\ job[c].plan # <<>> /\ job[c] \in Job
        /\ JobType /\ OneJob /\ Jobs
    BY BusyJob DEF At, StoreInv
  <1>2. /\ JobType' /\ OneJob' /\ job'[c] = [job[c] EXCEPT !.plan = Tail(@)]
        /\ JobAt(job[c])' => Jobs'
    BY <1>1, ContinueJobs
  <1>3. /\ job'[c].plan = Tail(job[c].plan)
        /\ job'[c].req = job[c].req /\ job'[c].since = job[c].since
    BY <1>1, <1>2 DEF Job
  <1>4. /\ job[c].since <= nextId
        /\ Starts(Tail(job[c].plan), <<"load", "update">>)
    BY <1>1, Progress DEF ItemOps, Jobs, JobAt, Req
  <1>5. JobAt(job[c])'
    BY <1>3, <1>4 DEF JobAt, EditorAt, Req
  <1> QED
    BY <1>2, <1>5

\* A handler that throws leaves the store as it is.
LEMMA ThrowKeeps ==
    ASSUME StoreInv, NEW c \in Clients, Busy(c), Throw(c),
           UNCHANGED <<store, images, history, requests>>, faults' \in 0..MaxFaults
    PROVE  StoreInv'
  <1>1. StoreOK'
    BY SameStore, SameCounters DEF StoreInv
  <1> QED
    BY <1>1, ThrowJobs DEF StoreInv

LEMMA InsertKeeps ==
    ASSUME StoreInv, NEW c \in Clients, InsertArticle(c)
    PROVE  StoreInv'
  <1>1. /\ At(c, "insert") /\ Busy(c) /\ job[c].plan # <<>> /\ job[c] \in Job
        /\ Req(c) \in Request
        /\ Req(c).slug \in Slugs /\ Req(c).title \in Titles /\ Req(c).status \in Statuses
        /\ JobType /\ OneJob /\ Jobs /\ StoreOK
    BY BusyJob DEF InsertArticle, At, Request, StoreInv
  <1>2. CASE ~SlugFree(Req(c).slug)
    <2>1. Throw(c)
      BY <1>2 DEF InsertArticle, Fail, Swallowed, At, Stmt
    <2>2. UNCHANGED <<store, images, history, requests, faults>>
      BY <1>2 DEF InsertArticle, store, history
    <2> QED
      BY <1>1, <2>1, <2>2, ThrowKeeps, SameCounters
  <1>3. CASE SlugFree(Req(c).slug)
    <2> DEFINE row == [slug |-> Req(c).slug, title |-> Req(c).title,
                       status |-> Req(c).status, views |-> 0]
    <2>1. /\ articles' = [articles EXCEPT ![nextId] = row]
          /\ firstSlug' = IF firstSlug[nextId] # NoRow THEN firstSlug
                          ELSE [firstSlug EXCEPT ![nextId] = Req(c).slug]
          /\ nextId' = nextId + 1
          /\ Continue(c)
          /\ UNCHANGED <<terms, links, images, seen, requests, faults>>
      BY <1>3 DEF InsertArticle
    <2>2. row \in Row /\ row # NoRow /\ row.slug = Req(c).slug /\ row.views = 0
      BY <1>1, MarkerAssumption DEF Row
    <2>3. /\ nextId <= MaxId /\ job[c].since = nextId /\ job[c].req.h = "creator"
          /\ images[Req(c).slug] # NoFile
          /\ Starts(Tail(job[c].plan), <<"reread">>)
      BY <1>1, Progress DEF ItemOps, Req
    <2>4. nextId \in Ids /\ nextId \in Nat /\ MaxId \in Nat
      BY <1>1, <2>3, BoundAssumption DEF StoreOK, StoreType, Ids
    <2>5. articles[nextId] = NoRow /\ seen[nextId] = 0 /\ firstSlug[nextId] = NoRow
      BY <1>1, <2>4 DEF StoreOK, Fresh
    <2> HIDE DEF row
    <2>6. /\ articles'[nextId] = row
          /\ \A id \in Ids : id # nextId => articles'[id] = articles[id]
          /\ firstSlug' = [firstSlug EXCEPT ![nextId] = Req(c).slug]
          /\ nextId \notin Rows
      BY <1>1, <2>1, <2>4, <2>5 DEF StoreOK, StoreType, Rows
    <2>7. Rows' = Rows \cup {nextId}
      BY <2>2, <2>4, <2>6 DEF Rows
    <2>8. StoreType'
      <3>1. nextId' \in 1..(MaxId + 1)
        BY <2>1, <2>3, <2>4
      <3>2. articles' \in [Ids -> Row \cup {NoRow}]
        BY <1>1, <2>1, <2>2, <2>4 DEF StoreOK, StoreType
      <3>3. firstSlug' \in [Ids -> Slugs \cup {NoRow}]
        BY <1>1, <2>6, <2>4 DEF StoreOK, StoreType
      <3> QED
        BY <1>1, <2>1, <3>1, <3>2, <3>3 DEF StoreOK, StoreType
    <2>9. Fresh'
      BY <1>1, <2>1, <2>4, <2>6 DEF StoreOK, StoreType, Fresh, Ids
    <2>10. \A id \in Rows : articles[id].slug # Req(c).slug
      BY <1>3 DEF SlugFree, RowOf
    <2>11. SchemaHolds'
      <3>1. \A k \in Kinds : \A l \in links'[k] : l[1] \in Rows' /\ l[2] \in terms'[k]
        BY <1>1, <2>1, <2>7 DEF StoreOK, SchemaHolds
      <3>2. \A i, m \in Rows' : articles'[i].slug = articles'[m].slug => i = m
        BY <1>1, <2>2, <2>6, <2>7, <2>10 DEF StoreOK, SchemaHolds, Rows
      <3> QED
        BY <3>1, <3>2 DEF SchemaHolds
    <2>12. RowHasImage'
      BY <1>1, <2>1, <2>2, <2>3, <2>6, <2>7 DEF StoreOK, RowHasImage, Rows
    <2>13. ViewsCounted'
      BY <1>1, <2>1, <2>2, <2>5, <2>6, <2>7 DEF StoreOK, ViewsCounted, Rows
    <2>14. SlugForLife'
      BY <1>1, <2>2, <2>6, <2>7 DEF StoreOK, StoreType, SlugForLife, Rows
    <2>15. StoreOK'
      BY <2>8, <2>9, <2>11, <2>12, <2>13, <2>14 DEF StoreOK
    <2>16. /\ JobType' /\ OneJob' /\ job'[c] = [job[c] EXCEPT !.plan = Tail(@)]
           /\ JobAt(job[c])' => Jobs'
      BY <1>1, <2>1, ContinueJobs
    <2>17. /\ job'[c].plan = Tail(job[c].plan)
           /\ job'[c].req = job[c].req /\ job'[c].since = job[c].since
      BY <1>1, <2>16 DEF Job
    <2>18. JobAt(job[c])'
      BY <2>1, <2>2, <2>3, <2>4, <2>6, <2>7, <2>17 DEF JobAt, CreatorAt, Req
    <2> QED
      BY <2>15, <2>16, <2>18 DEF StoreInv
  <1> QED
    BY <1>2, <1>3

LEMMA LoadKeeps ==
    ASSUME StoreInv, NEW c \in Clients, LoadArticle(c)
    PROVE  StoreInv'
  <1>1. PICK op \in {"reread", "load"} : At(c, op)
    BY DEF LoadArticle
  <1>2. /\ Busy(c) /\ job[c].plan # <<>> /\ job[c] \in Job
        /\ Tail(job[c].plan) \in Seq(Named)
        /\ Stmt(c).op = op
        /\ JobType /\ OneJob /\ Jobs /\ StoreOK
    BY <1>1, BusyJob DEF At, Stmt, StoreInv
  <1>3. UNCHANGED <<store, images, history, requests, faults>>
    BY DEF LoadArticle
  <1>4. CASE Fail(c)
    <2>1. Throw(c)
      BY <1>2, <1>4 DEF Fail, Swallowed
    <2> QED
      BY <1>2, <1>3, <2>1, ThrowKeeps, SameCounters
  <1>5. CASE ~Fail(c)
    <2>1. PICK id \in RowOf(Req(c).slug) :
             job' = [job EXCEPT ![c].plan = Tail(@), ![c].id = id, ![c].row = articles[id]]
      BY <1>5 DEF LoadArticle
    <2>2. last' = last
      BY <1>5 DEF LoadArticle
    <2>3. /\ id \in Ids /\ id \in Rows /\ articles[id] \in Row /\ articles[id] # NoRow
          /\ articles[id].slug = Req(c).slug
      BY <1>2 DEF RowOf, Rows, StoreOK, StoreType
    <2>4. /\ job'[c].plan = Tail(job[c].plan) /\ job'[c].req = job[c].req
          /\ job'[c].id = id /\ job'[c].row = articles[id] /\ job'[c].since = job[c].since
          /\ job'[c] \in Job
          /\ \A d \in Clients : d # c => job'[d] = job[d]
          /\ job' = [job EXCEPT ![c] = job'[c]]
      BY <1>2, <2>1, <2>3 DEF JobType, Job
    <2>5. JobType'
      BY <1>2, <2>2, <2>4 DEF JobType, Job, Answer
    <2>6. OneJob'
      BY <1>2, <2>4 DEF OneJob, Busy
    <2>7. /\ Starts(Tail(job[c].plan), <<"update">>) \/ Starts(Tail(job[c].plan), <<>>)
          /\ job[c].since <= nextId
          /\ job[c].req.h = "creator" => /\ Starts(Tail(job[c].plan), <<>>)
                                         /\ job[c].since = id
          /\ job[c].req.h \in {"creator", "editor"}
      <3>1. job[c].since <= nextId
        BY <1>2 DEF Jobs, JobAt
      <3>2. CASE op = "reread"
        BY <1>1, <1>2, <2>3, <3>1, <3>2, Progress DEF ItemOps, StoreOK, SchemaHolds, Req
      <3>3. CASE op = "load"
        BY <1>1, <1>2, <3>1, <3>3, Progress DEF ItemOps
      <3> QED
        BY <3>2, <3>3
    <2>8. Current(job[c])'
      BY <1>3, <2>3, <2>4 DEF Current, Rows, store
    <2>9. JobAt(job[c])'
      BY <1>3, <2>4, <2>7, <2>8 DEF JobAt, CreatorAt, EditorAt, store
    <2>10. Jobs'
      BY <1>2, <2>4, <2>9 DEF Jobs, OneJob, Busy
    <2>11. StoreOK'
      BY <1>2, <1>3, SameStore, SameCounters
    <2> QED
      BY <2>5, <2>6, <2>10, <2>11 DEF StoreInv
  <1> QED
    BY <1>4, <1>5

LEMMA UpdateKeeps ==
    ASSUME StoreInv, NEW c \in Clients, UpdateArticle(c)
    PROVE  StoreInv'
  <1>1. /\ At(c, "update") /\ Busy(c) /\ job[c].plan # <<>> /\ job[c] \in Job
        /\ Req(c) \in Request /\ Req(c).title \in Titles /\ Req(c).status \in Statuses
        /\ JobType /\ OneJob /\ Jobs /\ StoreOK
    BY BusyJob DEF UpdateArticle, At, Request, StoreInv
  <1>2. CASE Req(c).title = Empty
    <2>1. Throw(c)
      BY <1>2 DEF UpdateArticle, Fail, Swallowed, At, Stmt
    <2>2. UNCHANGED <<store, images, history, requests, faults>>
      BY <1>2 DEF UpdateArticle, store
    <2> QED
      BY <1>1, <2>1, <2>2, ThrowKeeps, SameCounters
  <1>3. CASE Req(c).title # Empty
    <2> DEFINE id == job[c].id
               row == [job[c].row EXCEPT !.title = Req(c).title, !.status = Req(c).status]
    <2>1. /\ job[c].req.h = "editor" /\ Starts(Tail(job[c].plan), <<>>)
          /\ Current(job[c]) /\ job[c].since <= nextId
      BY <1>1, Progress DEF ItemOps, Jobs, JobAt
    <2>2. /\ job[c].row \in Row /\ id \in Rows /\ articles[id] # NoRow
          /\ job[c].row.slug = articles[id].slug /\ job[c].row.views = articles[id].views
      BY <1>1, <2>1 DEF Current, Job, Rows
    <2>3. row \in Row /\ row.slug = articles[id].slug /\ row.views = articles[id].views
      BY <1>1, <2>2 DEF Row
    <2>4. /\ articles' = [articles EXCEPT ![id] = row]
          /\ Continue(c)
          /\ UNCHANGED <<nextId, terms, links, images, history, requests, faults>>
      BY <1>3, <2>2 DEF UpdateArticle
    <2> HIDE DEF row
    <2>5. StoreOK'
      <3>1. seen' \in [Ids -> Nat] /\ row.views = seen'[id] /\ UNCHANGED <<seen, firstSlug>>
        BY <1>1, <2>2, <2>3, <2>4 DEF StoreOK, StoreType, ViewsCounted, history
      <3> QED
        BY <1>1, <2>2, <2>3, <2>4, <3>1, RowChanges
    <2>6. /\ JobType' /\ OneJob' /\ job'[c] = [job[c] EXCEPT !.plan = Tail(@)]
          /\ JobAt(job[c])' => Jobs'
      BY <1>1, <2>4, ContinueJobs
    <2>7. /\ job'[c].plan = Tail(job[c].plan) /\ job'[c].req = job[c].req
          /\ job'[c].id = id /\ job'[c].row = job[c].row /\ job'[c].since = job[c].since
      BY <1>1, <2>6 DEF Job
    <2>8. articles'[id] = row /\ row # NoRow /\ id \in Ids
      BY <1>1, <2>2, <2>3, <2>4, MarkerAssumption DEF StoreOK, StoreType, Rows
    <2>9. Current(job[c])'
      BY <2>1, <2>2, <2>3, <2>7, <2>8 DEF Current, Rows
    <2>10. JobAt(job[c])'
      BY <2>1, <2>4, <2>7, <2>9 DEF JobAt, EditorAt
    <2> QED
      BY <2>5, <2>6, <2>10 DEF StoreInv
  <1> QED
    BY <1>2, <1>3

\* The statements about links.
LEMMA UnlinkKeeps ==
    ASSUME StoreInv, NEW c \in Clients, Unlink(c)
    PROVE  StoreInv'
  <1>1. /\ At(c, "unlink") /\ Stmt(c).kind \in Kinds /\ "unlink" \in ItemOps
        /\ JobType /\ OneJob /\ Jobs /\ StoreOK
    BY BusyJob DEF Unlink, At, Named, Statement, ItemOps, StoreInv
  <1>2. /\ links' \in [Kinds -> SUBSET (Ids \X Names)]
        /\ \A k \in Kinds : links'[k] \subseteq links[k]
    BY <1>1 DEF Unlink, StoreOK, StoreType
  <1>3. StoreOK'
    BY <1>1, <1>2, LinksChange, SameCounters DEF Unlink, StoreOK, StoreType, history
  <1>4. JobType' /\ OneJob' /\ Jobs'
    BY <1>1, ItemJobs DEF Unlink
  <1> QED
    BY <1>3, <1>4 DEF StoreInv

LEMMA InsertNameKeeps ==
    ASSUME StoreInv, NEW c \in Clients, InsertName(c)
    PROVE  StoreInv'
  <1>1. /\ At(c, "name") /\ "name" \in ItemOps
        /\ Stmt(c).kind \in Kinds
        /\ JobType /\ OneJob /\ Jobs /\ StoreOK
    BY BusyJob DEF InsertName, At, Named, Statement, ItemOps, StoreInv
  <1>2. Stmt(c).name \in Names
    BY <1>1, BusyJob DEF At, Stmt, Named
  <1>3. /\ terms' \in [Kinds -> SUBSET Names]
        /\ \A k \in Kinds : terms[k] \subseteq terms'[k]
    BY <1>1, <1>2 DEF InsertName, StoreOK, StoreType
  <1>4. StoreOK'
    BY <1>1, <1>3, LinksChange, SameCounters
    DEF InsertName, StoreOK, StoreType, SchemaHolds, history
  <1>5. JobType' /\ OneJob' /\ Jobs'
    BY <1>1, ItemJobs DEF InsertName
  <1> QED
    BY <1>4, <1>5 DEF StoreInv

LEMMA InsertLinkKeeps ==
    ASSUME StoreInv, NEW c \in Clients, InsertLink(c)
    PROVE  StoreInv'
  <1>1. /\ At(c, "link") /\ Busy(c) /\ "link" \in ItemOps
        /\ Stmt(c).kind \in Kinds
        /\ JobType /\ OneJob /\ Jobs /\ StoreOK
        /\ UNCHANGED <<articles, nextId, terms, images, history, requests, faults>>
    BY BusyJob DEF InsertLink, At, Named, Statement, ItemOps, StoreInv
  <1>2. CASE Fail(c) /\ UNCHANGED links
    <2>1. UNCHANGED <<store, images, history, requests, faults>>
      BY <1>1, <1>2 DEF store
    <2>2. CASE Continue(c)
      <3>1. StoreOK'
        BY <1>1, <2>1, SameStore, SameCounters
      <3>2. JobType' /\ OneJob' /\ Jobs'
        BY <1>1, <2>2, ItemJobs
      <3> QED
        BY <3>1, <3>2 DEF StoreInv
    <2>3. CASE Throw(c)
      BY <1>1, <2>1, <2>3, ThrowKeeps, SameCounters
    <2> QED
      BY <1>2, <2>2, <2>3 DEF Fail
  <1>3. CASE ~(Fail(c) /\ UNCHANGED links)
    <2> DEFINE k == Stmt(c).kind
    <2>1. PICK m \in Matches(k, Stmt(c).name) :
             /\ job[c].id \in Rows
             /\ links' = [links EXCEPT ![k] = @ \cup {<<job[c].id, m>>}]
             /\ Continue(c)
      BY <1>3 DEF InsertLink
    <2>2. m \in terms[k] /\ m \in Names /\ job[c].id \in Ids
      BY <1>1, <2>1 DEF Matches, Rows, StoreOK, StoreType
    <2>3. /\ links' \in [Kinds -> SUBSET (Ids \X Names)]
          /\ \A i \in Kinds : \A l \in links'[i] :
                l \in links[i] \/ (l[1] \in Rows /\ l[2] \in terms[i])
      <3>1. links' \in [Kinds -> SUBSET (Ids \X Names)]
        BY <1>1, <2>1, <2>2 DEF StoreOK, StoreType
      <3>2. ASSUME NEW i \in Kinds, NEW l \in links'[i], l \notin links[i]
            PROVE  l[1] \in Rows /\ l[2] \in terms[i]
        <4>1. i = k /\ l = <<job[c].id, m>>
          BY <1>1, <2>1, <3>2 DEF StoreOK, StoreType
        <4> QED
          BY <2>1, <2>2, <4>1
      <3> QED
        BY <3>1, <3>2
    <2>4. StoreOK'
      <3>1. /\ terms' \in [Kinds -> SUBSET Names]
            /\ \A i \in Kinds : terms[i] \subseteq terms'[i]
        BY <1>1 DEF StoreOK, StoreType
      <3> QED
        BY <1>1, <2>3, <3>1, LinksChange, SameCounters
    <2>5. JobType' /\ OneJob' /\ Jobs'
      BY <1>1, <2>1, ItemJobs
    <2> QED
      BY <2>4, <2>5 DEF StoreInv
  <1> QED
    BY <1>2, <1>3

\* The last statement of a handler by id: nothing is left to do but answer.
LEMMA LastJobs ==
    ASSUME JobType, OneJob, Jobs, NEW c \in Clients,
           NEW op \in {"status", "remove", "count"}, At(c, op), Continue(c),
           nextId' = nextId
    PROVE  JobType' /\ OneJob' /\ Jobs'
  <1>1. /\ Busy(c) /\ job[c].plan # <<>> /\ job[c] \in Job
    BY BusyJob DEF At
  <1>2. /\ JobType' /\ OneJob' /\ job'[c] = [job[c] EXCEPT !.plan = Tail(@)]
        /\ JobAt(job[c])' => Jobs'
    BY <1>1, ContinueJobs
  <1>3. /\ job[c].since <= nextId /\ Tail(job[c].plan) = <<>>
        /\ job[c].req.h \notin {"creator", "editor"}
    BY <1>1, Progress DEF ItemOps, Jobs, JobAt
  <1>4. /\ job'[c].plan = <<>> /\ job'[c].req = job[c].req /\ job'[c].since = job[c].since
    BY <1>1, <1>2, <1>3 DEF Job
  <1>5. JobAt(job[c])'
    BY <1>3, <1>4 DEF JobAt, OneStatement
  <1> QED
    BY <1>2, <1>5

LEMMA SetStatusKeeps ==
    ASSUME StoreInv, NEW c \in Clients, SetStatus(c)
    PROVE  StoreInv'
  <1> DEFINE id == Req(c).id
             new == IF Req(c).h = "publish" THEN "published" ELSE "archived"
             row == [articles[id] EXCEPT !.status = new]
  <1>1. /\ At(c, "status") /\ Busy(c) /\ id \in Ids
        /\ JobType /\ OneJob /\ Jobs /\ StoreOK
        /\ Continue(c)
        /\ UNCHANGED <<nextId, terms, links, images, history, requests, faults>>
    BY BusyJob DEF SetStatus, At, Request, StoreInv
  <1>2. JobType' /\ OneJob' /\ Jobs'
    BY <1>1, LastJobs
  <1>3. StoreOK'
    <2>1. CASE articles[id] = NoRow
      <3>1. UNCHANGED <<store, images, history, requests, faults>>
        BY <1>1, <2>1 DEF SetStatus, store
      <3> QED
        BY <1>1, <3>1, SameStore, SameCounters
    <2>2. CASE articles[id] # NoRow
      <3>1. id \in Rows /\ articles[id] \in Row
        BY <1>1, <2>2 DEF Rows, StoreOK, StoreType
      <3>2. /\ row \in Row /\ row.slug = articles[id].slug
            /\ row.views = articles[id].views
        BY <3>1 DEF Row, Statuses
      <3>3. articles' = [articles EXCEPT ![id] = row]
        BY <1>1, <2>2 DEF SetStatus, StoreOK, StoreType
      <3>4. seen' \in [Ids -> Nat] /\ row.views = seen'[id] /\ UNCHANGED <<seen, firstSlug>>
        BY <1>1, <3>1, <3>2 DEF StoreOK, StoreType, ViewsCounted, history
      <3> HIDE DEF row, id
      <3> QED
        BY <1>1, <3>1, <3>2, <3>3, <3>4, RowChanges
    <2> QED
      BY <2>1, <2>2
  <1> QED
    BY <1>2, <1>3 DEF StoreInv

LEMMA CountViewKeeps ==
    ASSUME StoreInv, NEW c \in Clients, CountView(c)
    PROVE  StoreInv'
  <1> DEFINE id == Req(c).id
             row == [articles[id] EXCEPT !.views = @ + 1]
  <1>1. /\ At(c, "count") /\ Busy(c) /\ id \in Ids
        /\ JobType /\ OneJob /\ Jobs /\ StoreOK
        /\ Continue(c)
        /\ UNCHANGED <<nextId, terms, links, images, firstSlug, requests, faults>>
    BY BusyJob DEF CountView, At, Request, StoreInv
  <1>2. JobType' /\ OneJob' /\ Jobs'
    BY <1>1, LastJobs
  <1>3. StoreOK'
    <2>1. CASE articles[id] = NoRow
      <3>1. UNCHANGED <<store, images, history, requests, faults>>
        BY <1>1, <2>1 DEF CountView, store, history
      <3> QED
        BY <1>1, <3>1, SameStore, SameCounters
    <2>2. CASE articles[id] # NoRow
      <3>1. id \in Rows /\ articles[id] \in Row
        BY <1>1, <2>2 DEF Rows, StoreOK, StoreType
      <3>2. /\ row \in Row /\ row.slug = articles[id].slug
            /\ row.views = articles[id].views + 1
        BY <3>1 DEF Row
      <3>3. /\ articles' = [articles EXCEPT ![id] = row]
            /\ seen' = [seen EXCEPT ![id] = @ + 1]
        BY <1>1, <2>2 DEF CountView, StoreOK, StoreType
      <3>4. /\ seen' \in [Ids -> Nat] /\ row.views = seen'[id]
            /\ \A i \in Ids : i # id => seen'[i] = seen[i]
        BY <1>1, <3>1, <3>2, <3>3 DEF StoreOK, StoreType, ViewsCounted
      <3> HIDE DEF row, id
      <3> QED
        BY <1>1, <3>1, <3>2, <3>3, <3>4, RowChanges
    <2> QED
      BY <2>1, <2>2
  <1> QED
    BY <1>2, <1>3 DEF StoreInv

LEMMA RemoveKeeps ==
    ASSUME StoreInv, NEW c \in Clients, RemoveArticle(c)
    PROVE  StoreInv'
  <1> DEFINE id == Req(c).id
  <1>1. /\ At(c, "remove") /\ Busy(c) /\ id \in Ids
        /\ JobType /\ OneJob /\ Jobs /\ StoreOK
        /\ articles' = [articles EXCEPT ![id] = NoRow]
        /\ links' = LinksWithout(id)
        /\ Continue(c)
        /\ UNCHANGED <<nextId, terms, images, history, requests, faults>>
    BY BusyJob DEF RemoveArticle, At, Request, StoreInv
  <1>2. JobType' /\ OneJob' /\ Jobs'
    BY <1>1, LastJobs
  <1> HIDE DEF id
  <1>3. /\ articles' \in [Ids -> Row \cup {NoRow}]
        /\ Rows' = Rows \ {id}
        /\ \A i \in Rows' : articles'[i] = articles[i]
    BY <1>1 DEF StoreOK, StoreType, Rows
  <1>4. /\ links' \in [Kinds -> SUBSET (Ids \X Names)]
        /\ \A k \in Kinds : \A l \in links'[k] : l \in links[k] /\ l[1] # id
    BY <1>1 DEF StoreOK, StoreType, LinksWithout
  <1>5. StoreType'
    BY <1>1, <1>3, <1>4 DEF StoreOK, StoreType, history
  <1>6. Fresh'
    BY <1>1 DEF StoreOK, StoreType, Fresh, history
  <1>7. SchemaHolds'
    <2>1. \A k \in Kinds : \A l \in links'[k] : l[1] \in Rows' /\ l[2] \in terms'[k]
      BY <1>1, <1>3, <1>4 DEF StoreOK, SchemaHolds
    <2>2. \A i, m \in Rows' : articles'[i].slug = articles'[m].slug => i = m
      BY <1>1, <1>3 DEF StoreOK, SchemaHolds
    <2> QED
      BY <2>1, <2>2 DEF SchemaHolds
  <1>8. RowHasImage' /\ ViewsCounted' /\ SlugForLife'
    BY <1>1, <1>3 DEF StoreOK, RowHasImage, ViewsCounted, SlugForLife, history
  <1> QED
    BY <1>2, <1>5, <1>6, <1>7, <1>8 DEF StoreInv, StoreOK

LEMMA SaveImageKeeps ==
    ASSUME StoreInv, NEW c \in Clients, SaveImage(c)
    PROVE  StoreInv'
  <1>1. Req(c) \in Request /\ Req(c).image \in Images \cup {NoFile}
    BY BusyJob DEF SaveImage, At, Request, StoreInv
  <1>2. Written(Req(c)) \in Images \cup {Broken}
    BY <1>1 DEF Written
  <1>3. faults' \in 0..MaxFaults
    BY SameCounters DEF SaveImage, StoreInv
  <1> QED
    BY <1>2, <1>3, ImageKeeps DEF SaveImage

LEMMA RespondKeeps ==
    ASSUME StoreInv, NEW c \in Clients, Respond(c)
    PROVE  StoreInv'
  <1>1. JobType' /\ OneJob' /\ Jobs'
    BY ReplyJobs DEF Respond, StoreInv
  <1>2. StoreOK'
    BY SameStore, SameCounters DEF Respond, StoreInv
  <1> QED
    BY <1>1, <1>2 DEF StoreInv

\* The failures.
LEMMA FaultCounts ==
    ASSUME StoreOK, Fault PROVE faults' \in 0..MaxFaults /\ requests' = requests
  <1>1. faults \in 0..MaxFaults /\ MaxFaults \in Nat
    BY BoundAssumption DEF StoreOK, StoreType
  <1> QED
    BY <1>1 DEF Fault

LEMMA StatementFailsKeeps ==
    ASSUME StoreInv, NEW c \in Clients, StatementFails(c)
    PROVE  StoreInv'
  <1>1. /\ Busy(c) /\ job[c].plan # <<>>
        /\ UNCHANGED <<store, images, history>>
        /\ faults' \in 0..MaxFaults /\ requests' = requests
        /\ JobType /\ OneJob /\ Jobs /\ StoreOK
    BY FaultCounts DEF StatementFails, StoreInv
  <1>2. CASE Throw(c)
    BY <1>1, <1>2, ThrowKeeps
  <1>3. CASE Continue(c) /\ Swallowed(c)
    <2>1. Stmt(c).op \in ItemOps /\ At(c, Stmt(c).op)
      BY <1>1, <1>3 DEF Swallowed, ItemOps, At, Stmt
    <2>2. JobType' /\ OneJob' /\ Jobs'
      BY <1>1, <1>3, <2>1, ItemJobs DEF store
    <2>3. StoreOK'
      BY <1>1, SameStore, SameCounters
    <2> QED
      BY <2>2, <2>3 DEF StoreInv
  <1> QED
    BY <1>2, <1>3 DEF StatementFails, Fail

LEMMA UnlinkFailsKeeps ==
    ASSUME StoreInv, NEW c \in Clients, UnlinkFails(c)
    PROVE  StoreInv'
  <1>1. /\ Busy(c) /\ Throw(c) /\ Stmt(c).kind \in Kinds
        /\ faults' \in 0..MaxFaults /\ requests' = requests
        /\ JobType /\ OneJob /\ Jobs /\ StoreOK
        /\ UNCHANGED <<articles, nextId, terms, images, history>>
    BY BusyJob, FaultCounts DEF UnlinkFails, At, Named, Statement, StoreInv
  <1>2. PICK kept \in SUBSET LinksOf(job[c].id, Stmt(c).kind) :
           links' = [links EXCEPT ![Stmt(c).kind] = {l \in @ : l[1] = job[c].id => l[2] \in kept}]
    BY DEF UnlinkFails
  <1>3. /\ links' \in [Kinds -> SUBSET (Ids \X Names)]
        /\ \A k \in Kinds : links'[k] \subseteq links[k]
    BY <1>1, <1>2 DEF StoreOK, StoreType
  <1>4. StoreOK'
    BY <1>1, <1>3, LinksChange DEF StoreOK, StoreType
  <1>5. JobType' /\ OneJob' /\ Jobs'
    BY <1>1, ThrowJobs
  <1> QED
    BY <1>4, <1>5 DEF StoreInv

LEMMA ImageFailsKeeps ==
    ASSUME StoreInv, NEW c \in Clients, ImageFails(c)
    PROVE  StoreInv'
  <1>1. /\ At(c, "image") /\ Busy(c)
        /\ UNCHANGED <<store, images, history>>
        /\ faults' \in 0..MaxFaults /\ requests' = requests
        /\ StoreOK
    BY FaultCounts DEF ImageFails, At, StoreInv
  <1>2. CASE Throw(c)
    BY <1>1, <1>2, ThrowKeeps
  <1>3. CASE Req(c).h = "editor" /\ Continue(c)
    <2>1. JobType' /\ OneJob' /\ Jobs'
      BY <1>1, <1>3, ImageSkipped DEF store
    <2>2. StoreOK'
      BY <1>1, SameStore, SameCounters
    <2> QED
      BY <2>1, <2>2 DEF StoreInv
  <1> QED
    BY <1>2, <1>3 DEF ImageFails

LEMMA ImageCutShortKeeps ==
    ASSUME StoreInv, NEW c \in Clients, ImageCutShort(c)
    PROVE  StoreInv'
  <1>1. faults' \in 0..MaxFaults /\ requests' = requests /\ Broken \in Images \cup {Broken}
    BY FaultCounts DEF ImageCutShort, StoreInv
  <1> QED
    BY <1>1, ImageKeeps DEF ImageCutShort

LEMMA KillKeeps ==
    ASSUME StoreInv, Kill
    PROVE  StoreInv'
  <1>1. Idle \in Job
    BY BoundAssumption DEF Idle, Job
  <1>2. \A c \in Clients : ~Busy(c)'
    BY DEF Kill, Busy, Idle
  <1>3. JobType' /\ OneJob' /\ Jobs'
    BY <1>1, <1>2 DEF Kill, JobType, OneJob, Jobs, Job, Answer
  <1>4. StoreOK'
    BY FaultCounts, SameStore, SameCounters DEF Kill, StoreInv
  <1> QED
    BY <1>3, <1>4 DEF StoreInv

-----------------------------------------------------------------------------
\* The invariant.

LEMMA InitKeeps == Init => StoreInv
  <1> SUFFICES ASSUME Init PROVE StoreInv
    OBVIOUS
  <1>1. MaxId \in Nat /\ MaxRequests \in Nat /\ MaxFaults \in Nat
    BY BoundAssumption
  <1>2. Rows = {}
    BY DEF Init, Rows
  <1>3. StoreType
    BY <1>1 DEF Init, StoreType
  <1>4. Fresh /\ SchemaHolds /\ RowHasImage /\ ViewsCounted /\ SlugForLife
    BY <1>2 DEF Init, Fresh, SchemaHolds, RowHasImage, ViewsCounted, SlugForLife
  <1>5. Idle \in Job /\ \A c \in Clients : ~Busy(c)
    BY <1>1 DEF Init, Busy, Idle, Job
  <1>6. JobType /\ OneJob /\ Jobs
    BY <1>5 DEF Init, JobType, OneJob, Jobs, Job
  <1> QED
    BY <1>3, <1>4, <1>6 DEF StoreInv, StoreOK

LEMMA NextKeeps == StoreInv /\ [Next]_vars => StoreInv'
  <1> SUFFICES ASSUME StoreInv, [Next]_vars PROVE StoreInv'
    OBVIOUS
  <1>1. ASSUME NEW c \in Clients, NEW req \in Requests, Accept(c, req) PROVE StoreInv'
    BY <1>1, AcceptKeeps
  <1>2. ASSUME NEW c \in Clients, Serve(c) PROVE StoreInv'
    BY <1>2, SaveImageKeeps, InsertKeeps, LoadKeeps, UpdateKeeps, UnlinkKeeps,
       InsertNameKeeps, InsertLinkKeeps, SetStatusKeeps, RemoveKeeps, CountViewKeeps,
       RespondKeeps
    DEF Serve
  <1>3. ASSUME NEW c \in Clients,
               StatementFails(c) \/ UnlinkFails(c) \/ ImageFails(c) \/ ImageCutShort(c)
        PROVE  StoreInv'
    BY <1>3, StatementFailsKeeps, UnlinkFailsKeeps, ImageFailsKeeps, ImageCutShortKeeps
  <1>4. CASE Kill
    BY <1>4, KillKeeps
  <1>5. CASE UNCHANGED vars
    <2>1. UNCHANGED <<store, images, history>> /\ UNCHANGED <<job, last, faults, requests>>
      BY <1>5 DEF vars, store, history
    <2>2. StoreOK'
      BY <2>1, SameStore, SameCounters DEF StoreInv, StoreOK, StoreType
    <2>3. JobType' /\ OneJob'
      BY <2>1 DEF StoreInv, JobType, OneJob, Busy, history
    <2>4. UNCHANGED <<articles, nextId, terms, links, images, seen, firstSlug, job>>
      BY <2>1 DEF store, history
    <2>5. \A c \in Clients : Busy(c)' <=> Busy(c)
      BY <2>4 DEF Busy
    <2>6. ASSUME NEW c \in Clients, JobAt(job[c]) PROVE JobAt(job[c])'
      BY <2>4, <2>6 DEF JobAt, CreatorAt, EditorAt, OneStatement, Current, Rows
    <2>7. Jobs'
      BY <2>5, <2>6 DEF StoreInv, Jobs
    <2> QED
      BY <2>2, <2>3, <2>7 DEF StoreInv
  <1> QED
    BY <1>1, <1>2, <1>3, <1>4, <1>5 DEF Next

LEMMA Invariant == Spec => []StoreInv
  BY InitKeeps, NextKeeps, PTL DEF Spec

-----------------------------------------------------------------------------
\* The theorems.

\* Every variable has its type: what is stored fits the tables, and what a
\* handler holds is a request, what is left of its program and a row.
THEOREM TypeCorrect == Spec => []TypeOK
  <1>1. ASSUME NEW s, s \in Seq(Named) PROVE s \in Seq(Statement)
    BY <1>1 DEF Named
  <1>2. StoreInv => TypeOK
    BY <1>1 DEF StoreInv, StoreOK, StoreType, JobType, Job, TypeOK
  <1> QED
    BY <1>2, Invariant, PTL

\* Links refer to rows and names that are there and a slug names one article,
\* however many handlers were left half way.
THEOREM SchemaHoldsHolds == Spec => []SchemaHolds
  <1>1. StoreInv => SchemaHolds
    BY DEF StoreInv, StoreOK
  <1> QED
    BY <1>1, Invariant, PTL

\* Whatever statement fails and whenever the process is killed, no row is
\* without its preview file.
THEOREM RowHasImageHolds == Spec => []RowHasImage
  <1>1. StoreInv => RowHasImage
    BY DEF StoreInv, StoreOK
  <1> QED
    BY <1>1, Invariant, PTL

\* The editor, which writes a counter back that it read two statements
\* earlier, loses no view.
THEOREM ViewsCountedHolds == Spec => []ViewsCounted
  <1>1. StoreInv => ViewsCounted
    BY DEF StoreInv, StoreOK
  <1> QED
    BY <1>1, Invariant, PTL

\* An id never comes to mean an article with another slug.
THEOREM SlugForLifeHolds == Spec => []SlugForLife
  <1>1. StoreInv => SlugForLife
    BY DEF StoreInv, StoreOK
  <1> QED
    BY <1>1, Invariant, PTL

\* What the creator does to the rows and links there were before it began.
LEMMA CreatorStep ==
    ASSUME StoreInv, [Next]_vars, NEW c \in Clients, Busy(c), Req(c).h = "creator",
           NEW id \in 1..(job[c].since - 1)
    PROVE  articles'[id] = articles[id] /\ \A k \in Kinds : LinksOf(id, k)' = LinksOf(id, k)
  <1>1. /\ job[c] \in Job /\ job[c].since <= nextId /\ CreatorAt(job[c])
        /\ nextId \in 1..(MaxId + 1) /\ MaxId \in Nat
        /\ JobType /\ OneJob /\ Jobs /\ StoreOK
    BY BusyJob, BoundAssumption
    DEF StoreInv, StoreOK, StoreType, Jobs, JobAt, Req
  <1>2. job[c].since \in Nat /\ id \in Ids /\ id # nextId /\ id # job[c].since
    BY <1>1 DEF Job, Ids
  <1>3. ASSUME UNCHANGED <<articles, links>>
        PROVE  articles'[id] = articles[id] /\ \A k \in Kinds : LinksOf(id, k)' = LinksOf(id, k)
    BY <1>3 DEF LinksOf
  <1>4. ASSUME NEW d \in Clients, NEW req \in Requests, Accept(d, req)
        PROVE  UNCHANGED <<articles, links>>
    BY <1>4 DEF Accept, store
  <1>5. ASSUME NEW d \in Clients, NEW op, At(d, op)
        PROVE  /\ d = c
               /\ op \in {"image", "insert", "reread"} \cup ItemOps
               /\ op \in ItemOps => job[c].id = job[c].since
    <2>1. d = c
      BY <1>1, <1>5 DEF At, OneJob
    <2> QED
      BY <1>1, <1>5, <2>1, Progress DEF Req, ItemOps
  <1>6. ASSUME NEW d \in Clients, Serve(d)
        PROVE  articles'[id] = articles[id] /\ \A k \in Kinds : LinksOf(id, k)' = LinksOf(id, k)
    <2>1. CASE InsertArticle(d)
      <3>1. articles'[id] = articles[id] /\ links' = links
        BY <1>1, <1>2, <2>1 DEF InsertArticle, StoreOK, StoreType
      <3> QED
        BY <3>1 DEF LinksOf
    <2>2. CASE Unlink(d)
      <3>1. /\ At(c, "unlink") /\ d = c /\ job[c].id # id /\ UNCHANGED articles
            /\ links' = [links EXCEPT ![Stmt(c).kind] = {l \in @ : l[1] # job[c].id}]
        BY <1>2, <1>5, <2>2 DEF Unlink, ItemOps
      <3> QED
        BY <1>1, <3>1 DEF LinksOf, StoreOK, StoreType
    <2>3. CASE InsertLink(d)
      <3>1. /\ At(c, "link") /\ d = c /\ job[c].id # id /\ UNCHANGED articles
        BY <1>2, <1>5, <2>3 DEF InsertLink, ItemOps
      <3>2. CASE links' = links
        BY <3>1, <3>2, <1>3
      <3>3. CASE links' # links
        <4>1. PICK m : links' = [links EXCEPT ![Stmt(c).kind] = @ \cup {<<job[c].id, m>>}]
          BY <2>3, <3>1, <3>3 DEF InsertLink
        <4> QED
          BY <1>1, <3>1, <4>1 DEF LinksOf, StoreOK, StoreType
      <3> QED
        BY <3>2, <3>3
    <2>4. CASE SaveImage(d) \/ LoadArticle(d) \/ InsertName(d) \/ Respond(d)
      <3>1. UNCHANGED <<articles, links>>
        BY <2>4 DEF SaveImage, LoadArticle, InsertName, Respond, store
      <3> QED
        BY <1>3, <3>1
    <2>5. CASE UpdateArticle(d) \/ SetStatus(d) \/ RemoveArticle(d) \/ CountView(d)
      <3>1. PICK op \in {"update", "status", "remove", "count"} : At(d, op)
        BY <2>5 DEF UpdateArticle, SetStatus, RemoveArticle, CountView
      <3> QED
        BY <1>5, <3>1 DEF ItemOps
    <2> QED
      BY <1>6, <2>1, <2>2, <2>3, <2>4, <2>5 DEF Serve
  <1>7. ASSUME NEW d \in Clients, UnlinkFails(d)
        PROVE  articles'[id] = articles[id] /\ \A k \in Kinds : LinksOf(id, k)' = LinksOf(id, k)
    <2>1. At(c, "unlink") /\ d = c /\ job[c].id # id /\ UNCHANGED articles
      BY <1>2, <1>5, <1>7 DEF UnlinkFails, ItemOps
    <2>2. PICK kept \in SUBSET LinksOf(job[d].id, Stmt(d).kind) :
             links' = [links EXCEPT ![Stmt(d).kind] =
                         {l \in @ : l[1] = job[d].id => l[2] \in kept}]
      BY <1>7 DEF UnlinkFails
    <2> QED
      BY <1>1, <2>1, <2>2 DEF LinksOf, StoreOK, StoreType
  <1>8. ASSUME NEW d \in Clients, StatementFails(d) \/ ImageFails(d) \/ ImageCutShort(d)
        PROVE  UNCHANGED <<articles, links>>
    BY <1>8 DEF StatementFails, ImageFails, ImageCutShort, store
  <1>9. ASSUME Kill \/ UNCHANGED vars PROVE UNCHANGED <<articles, links>>
    BY <1>9 DEF Kill, vars, store
  <1> QED
    BY <1>3, <1>4, <1>6, <1>7, <1>8, <1>9 DEF Next

\* The creator changes no article and no link that was there before it began,
\* a slug in use included.
THEOREM CreatorOnlyAddsHolds == Spec => CreatorOnlyAdds
  <1>1. StoreInv /\ [Next]_vars =>
           [\A c \in Clients :
              Busy(c) /\ Req(c).h = "creator" =>
                 \A id \in 1..(job[c].since - 1) :
                    /\ articles'[id] = articles[id]
                    /\ \A k \in Kinds : LinksOf(id, k)' = LinksOf(id, k)]_vars
    BY CreatorStep
  <1> QED
    BY <1>1, Invariant, PTL DEF Spec, CreatorOnlyAdds

-----------------------------------------------------------------------------
\* The catalogue: each statement is one of its changes or none.

OnShelf == Shelf!Next \/ UNCHANGED <<articles, nextId, links>>

LEMMA Shelved == Rows = Shelf!There
  BY DEF Rows, Shelf!There

LEMMA InsertOnShelf ==
    ASSUME StoreInv, NEW c \in Clients, InsertArticle(c)
    PROVE  OnShelf
  <1> DEFINE req == Req(c)
  <1>1. /\ At(c, "insert") /\ JobType /\ Jobs /\ StoreOK
        /\ req.slug \in Slugs /\ req.title \in Titles /\ req.status \in Statuses
    BY BusyJob DEF InsertArticle, At, Request, StoreInv
  <1>2. nextId <= MaxId /\ nextId \in Ids
    <2>1. nextId <= MaxId
      BY <1>1, Progress DEF ItemOps
    <2> QED
      BY <1>1, <2>1, BoundAssumption DEF StoreOK, StoreType, Ids
  <1>3. nextId \notin Rows /\ \A k \in Kinds : \A l \in links[k] : l[1] # nextId
    BY <1>1, <1>2, BoundAssumption
    DEF StoreOK, StoreType, Fresh, SchemaHolds, Rows, Ids
  <1>4. CASE SlugFree(req.slug)
    <2>1. \A id \in Rows : articles[id].slug # req.slug
      BY <1>4 DEF SlugFree, RowOf
    <2>2. Shelf!New(req.slug, req.title, req.status)
      BY <1>2, <1>3, <1>4, <2>1, Shelved DEF InsertArticle, Shelf!New
    <2> HIDE DEF req
    <2> QED
      BY <1>1, <2>2 DEF OnShelf, Shelf!Next
  <1>5. CASE ~SlugFree(req.slug)
    BY <1>5 DEF InsertArticle, OnShelf
  <1> QED
    BY <1>4, <1>5

LEMMA UpdateOnShelf ==
    ASSUME StoreInv, NEW c \in Clients, UpdateArticle(c)
    PROVE  OnShelf
  <1> DEFINE req == Req(c)
             id == job[c].id
             old == articles[id]
             row == job[c].row
  <1>1. /\ At(c, "update") /\ JobType /\ Jobs /\ StoreOK /\ job[c] \in Job
        /\ req.title \in Titles /\ req.status \in Statuses
    BY BusyJob DEF UpdateArticle, At, Request, StoreInv
  <1>2. Current(job[c])
    BY <1>1, Progress DEF ItemOps
  <1>3. /\ id \in Rows /\ id \in Ids /\ old # NoRow /\ old \in Row /\ row \in Row
        /\ row.slug = old.slug /\ row.views = old.views
    BY <1>1, <1>2 DEF Current, Rows, StoreOK, StoreType, Job
  <1>4. CASE req.title = Empty
    BY <1>4 DEF UpdateArticle, OnShelf
  <1>5. CASE req.title # Empty
    <2>1. [row EXCEPT !.title = req.title, !.status = req.status]
            = [old EXCEPT !.title = req.title, !.status = req.status]
      BY <1>3 DEF Row
    <2>2. /\ articles' = [articles EXCEPT ![id] =
                            [row EXCEPT !.title = req.title, !.status = req.status]]
          /\ UNCHANGED <<nextId, links>>
      BY <1>3, <1>5 DEF UpdateArticle
    <2> HIDE DEF req, id, row
    <2>3. articles' = [articles EXCEPT ![id].title = req.title, ![id].status = req.status]
      BY <1>1, <1>3, <2>1, <2>2 DEF StoreOK, StoreType
    <2>4. Shelf!Revise(id, req.title, req.status)
      BY <1>3, <1>5, <2>2, <2>3, Shelved DEF Shelf!Revise
    <2> QED
      BY <1>1, <1>3, <2>4 DEF OnShelf, Shelf!Next
  <1> QED
    BY <1>4, <1>5

LEMMA StatusOnShelf ==
    ASSUME StoreInv, NEW c \in Clients, SetStatus(c)
    PROVE  OnShelf
  <1> DEFINE id == Req(c).id
             status == IF Req(c).h = "publish" THEN "published" ELSE "archived"
  <1>1. id \in Ids /\ status \in Statuses /\ status # "draft"
    BY BusyJob DEF SetStatus, At, Request, Statuses, StoreInv
  <1>2. CASE articles[id] = NoRow
    BY <1>2 DEF SetStatus, OnShelf
  <1>3. CASE articles[id] # NoRow
    <2>1. Shelf!Restate(id, status)
      BY <1>1, <1>3 DEF SetStatus, Shelf!Restate, Shelf!There
    <2> HIDE DEF id, status
    <2> QED
      BY <1>1, <2>1 DEF OnShelf, Shelf!Next
  <1> QED
    BY <1>2, <1>3

LEMMA RemoveOnShelf ==
    ASSUME StoreInv, NEW c \in Clients, RemoveArticle(c)
    PROVE  OnShelf
  <1> DEFINE id == Req(c).id
  <1>1. id \in Ids /\ StoreOK
    BY BusyJob DEF RemoveArticle, At, Request, StoreInv
  <1>2. CASE articles[id] # NoRow
    <2>1. Shelf!Withdraw(id)
      BY <1>1, <1>2 DEF RemoveArticle, LinksWithout, Shelf!Withdraw, Shelf!There
    <2> HIDE DEF id
    <2> QED
      BY <1>1, <2>1 DEF OnShelf, Shelf!Next
  <1>3. CASE articles[id] = NoRow
    <2>1. \A k \in Kinds : {l \in links[k] : l[1] # id} = links[k]
      BY <1>1, <1>3 DEF StoreOK, SchemaHolds, Rows
    <2>2. UNCHANGED <<articles, nextId, links>>
      BY <1>1, <1>3, <2>1 DEF RemoveArticle, LinksWithout, StoreOK, StoreType
    <2> QED
      BY <2>2 DEF OnShelf
  <1> QED
    BY <1>2, <1>3

LEMMA ViewOnShelf ==
    ASSUME StoreInv, NEW c \in Clients, CountView(c)
    PROVE  OnShelf
  <1> DEFINE id == Req(c).id
  <1>1. id \in Ids
    BY BusyJob DEF CountView, At, Request, StoreInv
  <1>2. CASE articles[id] = NoRow
    BY <1>2 DEF CountView, OnShelf
  <1>3. CASE articles[id] # NoRow
    <2>1. Shelf!View(id)
      BY <1>1, <1>3 DEF CountView, Shelf!View, Shelf!There
    <2> HIDE DEF id
    <2> QED
      BY <1>1, <2>1 DEF OnShelf, Shelf!Next
  <1> QED
    BY <1>2, <1>3

\* The statements about links of a handler whose article is there.
LEMMA ItemJob ==
    ASSUME StoreInv, NEW c \in Clients, NEW op \in ItemOps, At(c, op)
    PROVE  Stmt(c).kind \in Kinds /\ job[c].id \in Rows /\ job[c].id \in Ids
  <1>1. JobType /\ Jobs
    BY DEF StoreInv
  <1>2. Stmt(c).kind \in Kinds
    BY <1>1, BusyJob DEF At, Named, Statement
  <1>3. Current(job[c])
    BY <1>1, Progress DEF ItemOps
  <1> QED
    BY <1>2, <1>3 DEF Current, Rows

LEMMA DetachOnShelf ==
    ASSUME StoreInv, NEW id \in Rows, NEW k \in Kinds, NEW gone \in SUBSET Names,
           links' = [links EXCEPT ![k] = @ \ ({id} \X gone)],
           UNCHANGED <<articles, nextId>>
    PROVE  OnShelf
  <1>1. Shelf!Detach(id, k, gone) /\ id \in Ids
    BY Shelved DEF Shelf!Detach, Rows
  <1> QED
    BY <1>1 DEF OnShelf, Shelf!Next

LEMMA UnlinkOnShelf ==
    ASSUME StoreInv, NEW c \in Clients, Unlink(c)
    PROVE  OnShelf
  <1> DEFINE id == job[c].id
             k == Stmt(c).kind
  <1>1. id \in Rows /\ k \in Kinds
    BY ItemJob DEF Unlink, ItemOps
  <1>2. /\ links' = [links EXCEPT ![k] = {l \in @ : l[1] # id}]
        /\ UNCHANGED <<articles, nextId>>
    BY DEF Unlink
  <1>3. links \in [Kinds -> SUBSET (Ids \X Names)]
    BY DEF StoreInv, StoreOK, StoreType
  <1> HIDE DEF id, k
  <1>4. {l \in links[k] : l[1] # id} = links[k] \ ({id} \X Names)
    BY <1>1, <1>3
  <1> QED
    BY <1>1, <1>2, <1>3, <1>4, DetachOnShelf

LEMMA UnlinkFailsOnShelf ==
    ASSUME StoreInv, NEW c \in Clients, UnlinkFails(c)
    PROVE  OnShelf
  <1> DEFINE id == job[c].id
             k == Stmt(c).kind
  <1>1. id \in Rows /\ k \in Kinds
    BY ItemJob DEF UnlinkFails, ItemOps
  <1>2. PICK kept \in SUBSET LinksOf(id, k) :
           links' = [links EXCEPT ![k] = {l \in @ : l[1] = id => l[2] \in kept}]
    BY DEF UnlinkFails
  <1>3. UNCHANGED <<articles, nextId>> /\ links \in [Kinds -> SUBSET (Ids \X Names)]
    BY DEF UnlinkFails, StoreInv, StoreOK, StoreType
  <1> HIDE DEF id, k
  <1>4. {l \in links[k] : l[1] = id => l[2] \in kept}
           = links[k] \ ({id} \X (Names \ kept))
    BY <1>1, <1>3
  <1>5. Names \ kept \in SUBSET Names
    OBVIOUS
  <1> QED
    BY <1>1, <1>2, <1>3, <1>4, <1>5, DetachOnShelf

LEMMA LinkOnShelf ==
    ASSUME StoreInv, NEW c \in Clients, InsertLink(c)
    PROVE  OnShelf
  <1> DEFINE id == job[c].id
             k == Stmt(c).kind
  <1>1. id \in Rows /\ id \in Ids /\ k \in Kinds
    BY ItemJob DEF InsertLink, ItemOps
  <1>2. CASE links' = links
    BY <1>2 DEF InsertLink, OnShelf
  <1>3. CASE links' # links
    <2>1. PICK m \in Matches(k, Stmt(c).name) :
             /\ <<id, m>> \notin links[k]
             /\ links' = [links EXCEPT ![k] = @ \cup {<<id, m>>}]
      BY <1>3 DEF InsertLink
    <2>2. m \in Names
      BY <1>1, <2>1 DEF Matches, StoreInv, StoreOK, StoreType
    <2>3. Shelf!Attach(id, k, m)
      BY <1>1, <2>1, Shelved DEF InsertLink, Shelf!Attach
    <2> HIDE DEF id, k
    <2> QED
      BY <1>1, <2>2, <2>3 DEF OnShelf, Shelf!Next
  <1> QED
    BY <1>2, <1>3

LEMMA ShelfStep ==
    ASSUME StoreInv, [Next]_vars
    PROVE  OnShelf
  <1>1. ASSUME NEW c \in Clients, NEW req \in Requests, Accept(c, req) PROVE OnShelf
    BY <1>1 DEF Accept, store, OnShelf
  <1>2. ASSUME NEW c \in Clients, Serve(c) PROVE OnShelf
    <2>1. CASE SaveImage(c) \/ LoadArticle(c) \/ InsertName(c) \/ Respond(c)
      BY <2>1 DEF SaveImage, LoadArticle, InsertName, Respond, store, OnShelf
    <2> QED
      BY <1>2, <2>1, InsertOnShelf, UpdateOnShelf, UnlinkOnShelf, LinkOnShelf,
         StatusOnShelf, RemoveOnShelf, ViewOnShelf
      DEF Serve
  <1>3. ASSUME NEW c \in Clients,
               StatementFails(c) \/ UnlinkFails(c) \/ ImageFails(c) \/ ImageCutShort(c)
        PROVE  OnShelf
    <2>1. CASE StatementFails(c) \/ ImageFails(c) \/ ImageCutShort(c)
      BY <2>1 DEF StatementFails, ImageFails, ImageCutShort, store, OnShelf
    <2> QED
      BY <1>3, <2>1, UnlinkFailsOnShelf
  <1>4. CASE Kill \/ UNCHANGED vars
    BY <1>4 DEF Kill, vars, store, OnShelf
  <1> QED
    BY <1>1, <1>2, <1>3, <1>4 DEF Next

\* Whatever fails between the statements of the handlers and whenever the
\* process is killed, the store changes as a catalogue does.
THEOREM KeepsCatalogueHolds == Spec => KeepsCatalogue
  <1>1. Init => Shelf!Init
    BY DEF Init, Shelf!Init
  <1>2. StoreInv /\ [Next]_vars => [Shelf!Next]_(Shelf!catalogue)
    BY ShelfStep DEF OnShelf, Shelf!catalogue
  <1> QED
    BY <1>1, <1>2, Invariant, PTL DEF Spec, KeepsCatalogue, Shelf!Spec
=============================================================================
