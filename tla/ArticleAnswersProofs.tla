------------------------ MODULE ArticleAnswersProofs ------------------------
(***************************************************************************)
(* Theorems of ArticleStore about status 200 of the creator and of the     *)
(* editor: what was asked for is what is stored.                           *)
(*                                                                         *)
(* StoreInv alone does not tell what a handler has stored so far. AnswerInv *)
(* adds it, by the number of statements of the program that are behind it. *)
(***************************************************************************)
EXTENDS ArticleStoreProofs, FiniteSetTheorems

Done(j) == Len(Program(j.req)) - Len(j.plan)

\* The plan is what is left of the program.
OnPlan(j) ==
    /\ Len(j.plan) <= Len(Program(j.req))
    /\ \A p \in 1..Len(j.plan) : j.plan[p] = Program(j.req)[Done(j) + p]

\* In the creator's program the links of a kind are the statements
\* Base + 2, Base + 4, ...
Base(req, k) ==
    CASE k = "keyword"  -> 3
      [] k = "category" -> 3 + 2 * Len(req.lists["keyword"])
      [] k = "tag"      -> 3 + 2 * Len(req.lists["keyword"]) + 2 * Len(req.lists["category"])

\* Of the positions b + 2, b + 4, ..., b + 2 * n, those up to d.
Upto(b, n, d) ==
    IF d < b THEN 0 ELSE IF d >= b + 2 * n THEN n ELSE (d - b) \div 2

NewRow(req) == [slug |-> req.slug, title |-> req.title, status |-> req.status, views |-> 0]

Linked(id, k, name) == \E m \in LinksOf(id, k) : <<name, m>> \in Like

\* The creator: each link statement behind it has made one link.
CreatorKept(j) ==
    /\ Done(j) >= 1 => images[j.req.slug] \in {Written(j.req), Broken}
    /\ Done(j) >= 2 => articles[j.since] = NewRow(j.req)
    /\ \A k \in Kinds :
          /\ IsFiniteSet(LinksOf(j.since, k))
          /\ Cardinality(LinksOf(j.since, k)) = Upto(Base(j.req, k), Len(j.req.lists[k]), Done(j))
          /\ \A i \in 1..Len(j.req.lists[k]) :
                Base(j.req, k) + 2 * i <= Done(j) => Linked(j.since, k, j.req.lists[k][i])

Behind(j, op, k) ==
    \E p \in 1..Done(j) : Program(j.req)[p].op = op /\ Program(j.req)[p].kind = k

Asked(req, k, m) == \E i \in DOMAIN req.lists[k] : <<req.lists[k][i], m>> \in Like

RowAsAsked(j) ==
    /\ articles[j.id].slug = j.req.slug
    /\ articles[j.id].title = j.req.title
    /\ articles[j.id].status = j.req.status

\* The editor: its row after the UPDATE, and a kind's links after the unlinking.
EditorKept(j) ==
    /\ j.row # NoRow => j.row.slug = j.req.slug
    /\ (\E k \in Kinds : Behind(j, "update", k)) => RowAsAsked(j)
    /\ \A k \in Kinds :
          Behind(j, "unlink", k) => \A m \in LinksOf(j.id, k) : Asked(j.req, k, m)

Kept(j) ==
    /\ OnPlan(j)
    /\ j.req.h = "creator" => CreatorKept(j)
    /\ j.req.h = "editor" => EditorKept(j)

AllKept == \A c \in Clients : Busy(c) => Kept(job[c])

\* An answer is not remembered into the next request.
Quiet == last # NoReq => \A c \in Clients : ~Busy(c)

AnswerOK == Quiet /\ AllKept /\ CreatedMeansStored /\ EditedMeansStored

AnswerInv == StoreInv /\ AnswerOK

-----------------------------------------------------------------------------
\* Counting.

LEMMA UptoStep ==
    ASSUME NEW b \in Nat, NEW n \in Nat, NEW d \in Nat
    PROVE  /\ \A i \in 1..n : d + 1 = b + 2 * i => Upto(b, n, d + 1) = Upto(b, n, d) + 1
           /\ (\A i \in 1..n : d + 1 # b + 2 * i) => Upto(b, n, d + 1) = Upto(b, n, d)
  <1>1. ASSUME NEW i \in 1..n, d + 1 = b + 2 * i
        PROVE  Upto(b, n, d + 1) = Upto(b, n, d) + 1
    <2>1. i \in Nat /\ i >= 1 /\ i <= n /\ d - b = 2 * i - 1 /\ d >= b /\ ~(d >= b + 2 * n)
      BY <1>1
    <2>2. Upto(b, n, d) = i - 1
      BY <2>1 DEF Upto
    <2>3. Upto(b, n, d + 1) = i
      BY <2>1, <1>1 DEF Upto
    <2> QED
      BY <2>1, <2>2, <2>3
  <1>2. ASSUME \A i \in 1..n : d + 1 # b + 2 * i
        PROVE  Upto(b, n, d + 1) = Upto(b, n, d)
    <2>1. CASE d < b
      BY <2>1 DEF Upto
    <2>2. CASE d >= b + 2 * n
      BY <2>2 DEF Upto
    <2>3. CASE d >= b /\ d < b + 2 * n
      <3> DEFINE h == (d - b) \div 2
      <3>1. h \in Nat /\ (d - b = 2 * h \/ d - b = 2 * h + 1) /\ h < n
        BY <2>3
      <3>2. h + 1 \in 1..n
        BY <3>1
      <3>3. d + 1 # b + 2 * (h + 1)
        BY <1>2, <3>2
      <3>4. d - b = 2 * h
        BY <3>1, <3>3
      <3>5. (d + 1 - b) \div 2 = h /\ d + 1 < b + 2 * n
        BY <3>1, <3>4, <2>3
      <3> QED
        BY <2>3, <3>5 DEF Upto
    <2> QED
      BY <2>1, <2>2, <2>3
  <1> QED
    BY <1>1, <1>2

\* One statement further.
LEMMA Ahead ==
    ASSUME JobType, NEW c \in Clients, Busy(c), job[c].plan # <<>>, OnPlan(job[c]),
           NEW j, j.req = job[c].req, j.plan = Tail(job[c].plan)
    PROVE  /\ Done(job[c]) \in Nat
           /\ Done(job[c]) + 1 \in 1..Len(Program(j.req))
           /\ Stmt(c) = Program(j.req)[Done(job[c]) + 1]
           /\ Done(j) = Done(job[c]) + 1
           /\ OnPlan(j)
  <1> DEFINE plan == job[c].plan
             P == Program(job[c].req)
  <1>1. /\ plan \in Seq(Named) /\ P \in Seq(Named) /\ plan # <<>>
        /\ Stmt(c) = plan[1]
    BY BusyJob, ProgramShape DEF Req
  <1>2. Len(plan) \in Nat \ {0} /\ Len(P) \in Nat /\ Len(plan) <= Len(P)
    BY <1>1 DEF OnPlan
  <1>3. /\ Len(Tail(plan)) = Len(plan) - 1
        /\ \A p \in 1..Len(Tail(plan)) : Tail(plan)[p] = plan[p + 1] /\ p + 1 \in 1..Len(plan)
    BY <1>1, <1>2
  <1>4. \A p \in 1..Len(plan) : plan[p] = P[Len(P) - Len(plan) + p]
    BY DEF OnPlan, Done
  <1>5. Done(job[c]) = Len(P) - Len(plan) /\ Done(j) = Len(P) - (Len(plan) - 1)
    BY <1>3 DEF Done
  <1> HIDE DEF plan, P
  <1>6. Done(j) = Done(job[c]) + 1 /\ Done(job[c]) \in Nat
    BY <1>2, <1>5
  <1>7. \A p \in 1..Len(Tail(plan)) : Tail(plan)[p] = P[Done(j) + p]
    <2> TAKE p \in 1..Len(Tail(plan))
    <2>1. Tail(plan)[p] = plan[p + 1] /\ p + 1 \in 1..Len(plan) /\ p \in Nat
      BY <1>3
    <2>2. plan[p + 1] = P[Len(P) - Len(plan) + (p + 1)]
      BY <1>4, <2>1
    <2>3. Len(P) - Len(plan) + (p + 1) = Done(j) + p
      BY <1>2, <1>5, <2>1
    <2> QED
      BY <2>1, <2>2, <2>3
  <1>8. Stmt(c) = P[Done(job[c]) + 1] /\ Done(job[c]) + 1 \in 1..Len(P)
    BY <1>1, <1>2, <1>4, <1>5
  <1> QED
    BY <1>2, <1>3, <1>6, <1>7, <1>8 DEF OnPlan, P, plan

-----------------------------------------------------------------------------
\* The programs, statement by statement.

LEMMA ItemAt ==
    ASSUME NEW k, NEW names \in Seq(Names)
    PROVE  /\ Len(ItemSteps(k, names)) = 2 * Len(names)
           /\ \A i \in 1..Len(names) :
                 ItemSteps(k, names)[2 * i] = [op |-> "link", kind |-> k, name |-> names[i]]
           /\ \A p \in 1..(2 * Len(names)) :
                 /\ ItemSteps(k, names)[p].op \in {"name", "link"}
                 /\ ItemSteps(k, names)[p].op = "link" =>
                       \E i \in 1..Len(names) : p = 2 * i
  <1> DEFINE n == Len(names)
             items == ItemSteps(k, names)
  <1>1. n \in Nat
    OBVIOUS
  <1>2. \A p \in 1..(2 * n) :
           items[p] = [op |-> IF p % 2 = 1 THEN "name" ELSE "link", kind |-> k,
                       name |-> names[(p + 1) \div 2]]
    BY DEF ItemSteps
  <1>3. \A i \in 1..n : 2 * i \in 1..(2 * n) /\ (2 * i) % 2 # 1 /\ (2 * i + 1) \div 2 = i
    BY <1>1
  <1>4. \A p \in 1..(2 * n) : p % 2 # 1 => \E i \in 1..n : p = 2 * i
    <2> SUFFICES ASSUME NEW p \in 1..(2 * n), p % 2 # 1 PROVE \E i \in 1..n : p = 2 * i
      OBVIOUS
    <2>1. p = 2 * (p \div 2) /\ p \div 2 \in 1..n
      BY <1>1
    <2> QED
      BY <2>1
  <1>5. Len(items) = 2 * n
    BY <1>1 DEF ItemSteps
  <1> HIDE DEF items, n
  <1>6. \A i \in 1..n : items[2 * i] = [op |-> "link", kind |-> k, name |-> names[i]]
    BY <1>2, <1>3
  <1>7. \A p \in 1..(2 * n) :
           /\ items[p].op \in {"name", "link"}
           /\ items[p].op = "link" => \E i \in 1..n : p = 2 * i
    <2> TAKE p \in 1..(2 * n)
    <2> DEFINE odd == p % 2 = 1
    <2>1. items[p] = [op |-> IF odd THEN "name" ELSE "link", kind |-> k,
                      name |-> names[(p + 1) \div 2]]
      BY <1>2
    <2>2. ~odd => \E i \in 1..n : p = 2 * i
      BY <1>4
    <2> HIDE DEF odd
    <2>3. items[p].op = IF odd THEN "name" ELSE "link"
      BY <2>1
    <2> QED
      BY <2>2, <2>3
  <1> QED
    BY <1>5, <1>6, <1>7 DEF items, n

LEMMA ConcatAt ==
    ASSUME NEW s \in Seq(Named), NEW t \in Seq(Named)
    PROVE  /\ s \o t \in Seq(Named) /\ Len(s \o t) = Len(s) + Len(t)
           /\ Len(s) \in Nat /\ Len(t) \in Nat
           /\ \A p \in 1..Len(s) : (s \o t)[p] = s[p]
           /\ \A p \in 1..Len(t) : (s \o t)[Len(s) + p] = t[p]
  BY ConcatProperties

LEMMA CreatorProgram ==
    ASSUME NEW req \in Request, req.h = "creator"
    PROVE  /\ Program(req)[1].op = "image" /\ Program(req)[2].op = "insert"
           /\ \A p \in 1..Len(Program(req)) :
                 /\ Program(req)[p].op = "image" => p = 1
                 /\ Program(req)[p].op = "insert" => p = 2
                 /\ Program(req)[p].op # "unlink"
           /\ Len(Program(req)) \in Nat /\ Len(Program(req)) >= 3
           /\ \A k \in Kinds :
                 /\ Base(req, k) \in Nat /\ Len(req.lists[k]) \in Nat
                 /\ Base(req, k) + 2 * Len(req.lists[k]) <= Len(Program(req))
                 /\ Base(req, k) >= 3
                 /\ \A i \in 1..Len(req.lists[k]) :
                       Program(req)[Base(req, k) + 2 * i] =
                          [op |-> "link", kind |-> k, name |-> req.lists[k][i]]
           /\ \A p \in 1..Len(Program(req)) :
                 Program(req)[p].op = "link" =>
                    \E k \in Kinds : \E i \in 1..Len(req.lists[k]) : p = Base(req, k) + 2 * i
  <1> DEFINE K == req.lists["keyword"]
             C == req.lists["category"]
             T == req.lists["tag"]
             k1 == ItemSteps("keyword", K)
             k2 == ItemSteps("category", C)
             k3 == ItemSteps("tag", T)
             q2 == k1 \o k2
             q3 == q2 \o k3
             P == Program(req)
  <1>1. K \in Seq(Names) /\ C \in Seq(Names) /\ T \in Seq(Names)
    BY DEF Request, Kinds
  <1>2. P = CreateArticle \o q3
    BY DEF Program, CreateItems
  <1>3. /\ CreateArticle \in Seq(Named) /\ Len(CreateArticle) = 3
        /\ CreateArticle[1].op = "image" /\ CreateArticle[2].op = "insert"
        /\ CreateArticle[3].op = "reread"
    BY DEF CreateArticle, Step, Named, Statement, Kinds
  <1>4. k1 \in Seq(Named) /\ k2 \in Seq(Named) /\ k3 \in Seq(Named)
    BY <1>1, ItemStepsShape DEF Kinds
  <1>5. /\ Len(K) \in Nat /\ Len(C) \in Nat /\ Len(T) \in Nat
        /\ Len(k1) = 2 * Len(K) /\ Len(k2) = 2 * Len(C) /\ Len(k3) = 2 * Len(T)
    <2>1. Len(k1) = 2 * Len(K)
      BY <1>1, ItemAt
    <2>2. Len(k2) = 2 * Len(C)
      BY <1>1, ItemAt
    <2>3. Len(k3) = 2 * Len(T)
      BY <1>1, ItemAt
    <2> QED
      BY <1>1, <2>1, <2>2, <2>3
  <1> HIDE DEF k1, k2, k3, P
  <1>6. /\ q2 \in Seq(Named) /\ Len(q2) = Len(k1) + Len(k2)
        /\ \A p \in 1..Len(k1) : q2[p] = k1[p]
        /\ \A p \in 1..Len(k2) : q2[Len(k1) + p] = k2[p]
    BY <1>4, ConcatAt
  <1> HIDE DEF q2
  <1>7. /\ q3 \in Seq(Named)
        /\ Len(q3) = Len(q2) + Len(k3)
        /\ \A p \in 1..Len(q2) : q3[p] = q2[p]
        /\ \A p \in 1..Len(k3) : q3[Len(q2) + p] = k3[p]
    <2>1. k3 \in Seq(Named) /\ q2 \in Seq(Named)
      BY <1>4, <1>6
    <2> QED
      BY <2>1, ConcatAt
  <1> HIDE DEF q3
  <1>8. /\ Len(P) = 3 + Len(q3)
        /\ \A p \in 1..3 : P[p] = CreateArticle[p]
        /\ \A p \in 1..Len(q3) : P[3 + p] = q3[p]
    <2>1. CreateArticle \in Seq(Named) /\ Len(CreateArticle) = 3 /\ q3 \in Seq(Named)
      BY <1>3, <1>7
    <2>2. /\ Len(P) = Len(CreateArticle) + Len(q3)
          /\ \A p \in 1..Len(CreateArticle) : P[p] = CreateArticle[p]
          /\ \A p \in 1..Len(q3) : P[Len(CreateArticle) + p] = q3[p]
      BY <1>2, <2>1, ConcatAt
    <2> QED
      BY <2>1, <2>2
  <1> DEFINE a == 2 * Len(K)
             b == 2 * Len(C)
             e == 2 * Len(T)
  <1>9. /\ a \in Nat /\ b \in Nat /\ e \in Nat
        /\ Len(k1) = a /\ Len(k2) = b /\ Len(k3) = e
        /\ Len(q2) = a + b /\ Len(q3) = a + b + e /\ Len(P) = 3 + a + b + e
    <2>1. a \in Nat /\ b \in Nat /\ e \in Nat
      BY <1>5
    <2>2. Len(k1) = a /\ Len(k2) = b /\ Len(k3) = e
      BY <1>5
    <2>3. Len(q2) = Len(k1) + Len(k2) /\ Len(q3) = Len(q2) + Len(k3) /\ Len(P) = 3 + Len(q3)
      BY <1>6, <1>7, <1>8
    <2> HIDE DEF a, b, e
    <2> QED
      BY <2>1, <2>2, <2>3
  <1> HIDE DEF K, C, T, a, b, e
  <1>10. \A p \in 1..a : P[3 + p] = k1[p]
    <2> TAKE p \in 1..a
    <2>1. p \in 1..Len(k1) /\ p \in 1..Len(q2) /\ p \in 1..Len(q3)
      BY <1>9
    <2> QED
      BY <1>6, <1>7, <1>8, <2>1
  <1>11. \A p \in 1..b : P[3 + a + p] = k2[p]
    <2> TAKE p \in 1..b
    <2>1. /\ p \in 1..Len(k2) /\ a + p \in 1..Len(q2)
          /\ a + p \in 1..Len(q3) /\ 3 + a + p = 3 + (a + p) /\ Len(k1) = a
      BY <1>9
    <2>2. P[3 + (a + p)] = q3[a + p]
      BY <1>8, <2>1
    <2>3. q3[a + p] = q2[a + p]
      BY <1>7, <2>1
    <2>4. q2[a + p] = k2[p]
      BY <1>6, <2>1
    <2> QED
      BY <2>1, <2>2, <2>3, <2>4
  <1>12. \A p \in 1..e : P[3 + a + b + p] = k3[p]
    <2> TAKE p \in 1..e
    <2>1. /\ p \in 1..Len(k3) /\ Len(q2) = a + b
          /\ a + b + p \in 1..Len(q3) /\ 3 + a + b + p = 3 + (a + b + p)
      BY <1>9
    <2>2. P[3 + (a + b + p)] = q3[a + b + p]
      BY <1>8, <2>1
    <2>3. q3[a + b + p] = k3[p]
      BY <1>7, <2>1
    <2> QED
      BY <2>1, <2>2, <2>3
  <1>13. /\ Base(req, "keyword") = 3 /\ Base(req, "category") = 3 + a
         /\ Base(req, "tag") = 3 + a + b
         /\ Kinds = {"keyword", "category", "tag"}
    BY DEF Base, Kinds, a, b, K, C
  <1>14. /\ \A i \in 1..Len(K) : P[3 + 2 * i] = [op |-> "link", kind |-> "keyword", name |-> K[i]]
         /\ \A i \in 1..Len(C) : P[3 + a + 2 * i] = [op |-> "link", kind |-> "category", name |-> C[i]]
         /\ \A i \in 1..Len(T) : P[3 + a + b + 2 * i] = [op |-> "link", kind |-> "tag", name |-> T[i]]
    <2>1. \A i \in 1..Len(K) : /\ 2 * i \in 1..a
                               /\ k1[2 * i] = [op |-> "link", kind |-> "keyword", name |-> K[i]]
      BY <1>1, <1>5, ItemAt DEF k1, a
    <2>2. \A i \in 1..Len(C) : /\ 2 * i \in 1..b
                               /\ k2[2 * i] = [op |-> "link", kind |-> "category", name |-> C[i]]
      BY <1>1, <1>5, ItemAt DEF k2, b
    <2>3. \A i \in 1..Len(T) : /\ 2 * i \in 1..e
                               /\ k3[2 * i] = [op |-> "link", kind |-> "tag", name |-> T[i]]
      BY <1>1, <1>5, ItemAt DEF k3, e
    <2> QED
      BY <1>10, <1>11, <1>12, <2>1, <2>2, <2>3
  <1>15. /\ \A p \in 1..a : /\ k1[p].op \in {"name", "link"}
                            /\ k1[p].op = "link" => \E i \in 1..Len(K) : p = 2 * i
         /\ \A p \in 1..b : /\ k2[p].op \in {"name", "link"}
                            /\ k2[p].op = "link" => \E i \in 1..Len(C) : p = 2 * i
         /\ \A p \in 1..e : /\ k3[p].op \in {"name", "link"}
                            /\ k3[p].op = "link" => \E i \in 1..Len(T) : p = 2 * i
    BY <1>1, ItemAt DEF k1, k2, k3, a, b, e
  <1>16. \A p \in 1..Len(P) :
            \/ p \in 1..3
            \/ \E q \in 1..a : p = 3 + q
            \/ \E q \in 1..b : p = 3 + a + q
            \/ \E q \in 1..e : p = 3 + a + b + q
    <2> TAKE p \in 1..Len(P)
    <2>1. \/ p \in 1..3
          \/ p - 3 \in 1..a /\ p = 3 + (p - 3)
          \/ p - (3 + a) \in 1..b /\ p = 3 + a + (p - (3 + a))
          \/ p - (3 + a + b) \in 1..e /\ p = 3 + a + b + (p - (3 + a + b))
      BY <1>9
    <2> QED
      BY <2>1
  <1>17. \A p \in 1..Len(P) :
            \/ p = 1 /\ P[p].op = "image"
            \/ p = 2 /\ P[p].op = "insert"
            \/ p = 3 /\ P[p].op = "reread"
            \/ /\ P[p].op \in {"name", "link"}
               /\ P[p].op = "link" => \/ \E i \in 1..Len(K) : p = 3 + 2 * i
                                      \/ \E i \in 1..Len(C) : p = 3 + a + 2 * i
                                      \/ \E i \in 1..Len(T) : p = 3 + a + b + 2 * i
    <2> TAKE p \in 1..Len(P)
    <2>1. CASE p \in 1..3
      BY <1>3, <1>8, <2>1
    <2>2. CASE \E q \in 1..a : p = 3 + q
      BY <1>10, <1>15, <2>2
    <2>3. CASE \E q \in 1..b : p = 3 + a + q
      BY <1>11, <1>15, <2>3
    <2>4. CASE \E q \in 1..e : p = 3 + a + b + q
      BY <1>12, <1>15, <2>4
    <2> QED
      BY <1>16, <2>1, <2>2, <2>3, <2>4
  <1>18. \A k \in Kinds :
            /\ Base(req, k) \in Nat /\ Len(req.lists[k]) \in Nat
            /\ Base(req, k) + 2 * Len(req.lists[k]) <= Len(P)
            /\ Base(req, k) >= 3
            /\ \A i \in 1..Len(req.lists[k]) :
                  P[Base(req, k) + 2 * i] = [op |-> "link", kind |-> k, name |-> req.lists[k][i]]
    <2>1. a = 2 * Len(K) /\ b = 2 * Len(C) /\ e = 2 * Len(T)
      BY DEF a, b, e
    <2> DEFINE x == Len(K)
               y == Len(C)
               z == Len(T)
    <2>2. x \in Nat /\ y \in Nat /\ z \in Nat /\ Len(P) = 3 + 2 * x + 2 * y + 2 * z
      BY <1>5, <1>9, <2>1
    <2> HIDE DEF x, y, z
    <2>3. /\ 3 + 2 * x <= Len(P)
          /\ 3 + 2 * x \in Nat /\ 3 + 2 * x + 2 * y <= Len(P)
          /\ 3 + 2 * x + 2 * y \in Nat /\ 3 + 2 * x + 2 * y + 2 * z <= Len(P)
          /\ 3 + 2 * x >= 3 /\ 3 + 2 * x + 2 * y >= 3
      BY <2>2
    <2> SUFFICES ASSUME NEW k \in Kinds
                 PROVE  /\ Base(req, k) \in Nat /\ Len(req.lists[k]) \in Nat
                        /\ Base(req, k) + 2 * Len(req.lists[k]) <= Len(P)
                        /\ Base(req, k) >= 3
                        /\ \A i \in 1..Len(req.lists[k]) :
                              P[Base(req, k) + 2 * i] =
                                 [op |-> "link", kind |-> k, name |-> req.lists[k][i]]
      OBVIOUS
    <2>4. CASE k = "keyword"
      <3>1. Base(req, k) = 3 /\ req.lists[k] = K
        BY <1>13, <2>4 DEF K
      <3> QED
        BY <1>14, <2>2, <2>3, <2>4, <3>1 DEF x
    <2>5. CASE k = "category"
      <3>1. Base(req, k) = 3 + a /\ req.lists[k] = C /\ a = 2 * x
        BY <1>13, <2>1, <2>5 DEF C, x
      <3> QED
        BY <1>14, <2>2, <2>3, <2>5, <3>1 DEF y
    <2>6. CASE k = "tag"
      <3>1. Base(req, k) = 3 + a + b /\ req.lists[k] = T /\ a = 2 * x /\ b = 2 * y
        BY <1>13, <2>1, <2>6 DEF T, x, y
      <3> QED
        BY <1>14, <2>2, <2>3, <2>6, <3>1 DEF z
    <2> QED
      BY <1>13, <2>4, <2>5, <2>6
  <1>19. \A p \in 1..Len(P) :
            P[p].op = "link" =>
               \E k \in Kinds : \E i \in 1..Len(req.lists[k]) : p = Base(req, k) + 2 * i
    BY <1>13, <1>17 DEF K, C, T
  <1>20. Len(P) \in Nat /\ Len(P) >= 3 /\ P[1].op = "image" /\ P[2].op = "insert"
    BY <1>3, <1>8, <1>9
  <1> QED
    BY <1>17, <1>18, <1>19, <1>20 DEF P

\* A link names what was requested.
InRequest(stmt, req) ==
    stmt.op = "link" =>
       \E i \in DOMAIN req.lists[stmt.kind] : stmt.name = req.lists[stmt.kind][i]

Requested(s, req) == \A p \in 1..Len(s) : InRequest(s[p], req)

Detaches(s, k) == \E p \in 1..Len(s) : s[p].op = "unlink" /\ s[p].kind = k

LEMMA PartsConcat ==
    ASSUME NEW req, NEW s \in Seq(Named), NEW t \in Seq(Named),
           Requested(s, req), Requested(t, req)
    PROVE  /\ s \o t \in Seq(Named)
           /\ Requested(s \o t, req)
           /\ \A k \in Kinds : Detaches(s, k) \/ Detaches(t, k) => Detaches(s \o t, k)
  <1> DEFINE u == s \o t
  <1>1. /\ u \in Seq(Named) /\ Len(u) = Len(s) + Len(t)
        /\ Len(s) \in Nat /\ Len(t) \in Nat
        /\ \A p \in 1..Len(s) : u[p] = s[p]
        /\ \A p \in 1..Len(t) : u[Len(s) + p] = t[p]
    BY ConcatAt
  <1> HIDE DEF u
  <1>2. \A p \in 1..Len(u) : p \in 1..Len(s) \/ p - Len(s) \in 1..Len(t)
    BY <1>1
  <1>3. \A p \in 1..Len(u) : p - Len(s) \in 1..Len(t) => u[p] = t[p - Len(s)]
    <2> SUFFICES ASSUME NEW p \in 1..Len(u), p - Len(s) \in 1..Len(t)
                 PROVE  u[p] = t[p - Len(s)]
      OBVIOUS
    <2>1. Len(s) + (p - Len(s)) = p
      BY <1>1
    <2> QED
      BY <1>1, <2>1
  <1>4. Requested(u, req)
    BY <1>1, <1>2, <1>3 DEF Requested
  <1>5. \A p \in 1..Len(s) : p \in 1..Len(u)
    BY <1>1
  <1>6. \A p \in 1..Len(t) : Len(s) + p \in 1..Len(u)
    BY <1>1
  <1>7. \A k \in Kinds : Detaches(s, k) \/ Detaches(t, k) => Detaches(u, k)
    BY <1>1, <1>5, <1>6 DEF Detaches
  <1> QED
    BY <1>1, <1>4, <1>7 DEF u

LEMMA RelinkParts ==
    ASSUME NEW req \in Request, NEW k \in Kinds
    PROVE  /\ Relink(req, k) \in Seq(Named)
           /\ Requested(Relink(req, k), req)
           /\ req.lists[k] # <<>> => Detaches(Relink(req, k), k)
  <1> DEFINE names == req.lists[k]
             one == <<KindStep("unlink", k)>>
             items == ItemSteps(k, names)
  <1>1. names \in Seq(Names) /\ Relink(req, k) \in Seq(Named)
    BY RelinkShape DEF Request
  <1>2. one \in Seq(Named) /\ Len(one) = 1 /\ one[1].op = "unlink" /\ one[1].kind = k
    BY DEF KindStep, Named, Statement
  <1>3. items \in Seq(Named)
    BY <1>1, ItemStepsShape
  <1>4. Requested(items, req)
    <2> DEFINE n == Len(names)
    <2>1. /\ Len(items) = 2 * n
          /\ \A i \in 1..n : items[2 * i] = [op |-> "link", kind |-> k, name |-> names[i]]
          /\ \A p \in 1..(2 * n) : items[p].op = "link" => \E i \in 1..n : p = 2 * i
      <3>1. names \in Seq(Names)
        BY <1>1
      <3> HIDE DEF names
      <3>2. /\ Len(items) = 2 * n
            /\ \A i \in 1..n : items[2 * i] = [op |-> "link", kind |-> k, name |-> names[i]]
            /\ \A p \in 1..(2 * n) :
                  /\ items[p].op \in {"name", "link"}
                  /\ items[p].op = "link" => \E i \in 1..n : p = 2 * i
        BY <3>1, ItemAt, Zenon
      <3> HIDE DEF items, n
      <3> QED
        BY <3>2, Zenon
    <2>2. DOMAIN names = 1..n
      BY <1>1
    <2> HIDE DEF items, n
    <2> SUFFICES ASSUME NEW p \in 1..Len(items), items[p].op = "link"
                 PROVE  InRequest(items[p], req)
      BY DEF Requested, InRequest
    <2>3. PICK i \in 1..n : p = 2 * i
      BY <2>1
    <2>4. items[p] = [op |-> "link", kind |-> k, name |-> names[i]]
      <3>1. items[2 * i] = [op |-> "link", kind |-> k, name |-> names[i]]
        BY <2>1
      <3> QED
        BY <2>3, <3>1, Zenon
    <2>5. items[p].kind = k /\ items[p].name = names[i]
      BY <2>4
    <2> QED
      BY <2>2, <2>5 DEF InRequest
  <1> HIDE DEF one, items
  <1>5. Requested(one, req) /\ Detaches(one, k)
    BY <1>2 DEF Requested, InRequest, Detaches
  <1>6. Requested(one \o items, req) /\ Detaches(one \o items, k)
    BY <1>2, <1>3, <1>4, <1>5, PartsConcat
  <1>7. CASE names = <<>>
    <2>1. Relink(req, k) = <<>>
      BY <1>7 DEF Relink
    <2> QED
      BY <1>1, <1>7, <2>1 DEF Requested
  <1>8. CASE names # <<>>
    <2>1. Relink(req, k) = one \o items
      BY <1>8 DEF Relink, one, items
    <2> QED
      BY <1>1, <1>6, <2>1
  <1> QED
    BY <1>7, <1>8

LEMMA EditorProgram ==
    ASSUME NEW req \in Request, req.h = "editor"
    PROVE  /\ \A p, q \in 1..Len(Program(req)) :
                 p < q /\ Program(req)[q].op = "load" => Program(req)[p].op = "image"
           /\ \E p \in 1..Len(Program(req)) : Program(req)[p].op = "update"
           /\ Requested(Program(req), req)
           /\ \A k \in Kinds : req.lists[k] # <<>> => Detaches(Program(req), k)
  <1> DEFINE P == Program(req)
  <1>1. /\ P \in Seq(Named)
        /\ Starts(P, <<"image", "load", "update">>) \/ Starts(P, <<"load", "update">>)
    BY ProgramShape
  <1>2. Len(P) \in Nat
    BY <1>1
  <1>3. /\ \A p, q \in 1..Len(P) : p < q /\ P[q].op = "load" => P[p].op = "image"
        /\ \E p \in 1..Len(P) : P[p].op = "update"
    <2> HIDE DEF P
    <2>1. CASE Starts(P, <<"image", "load", "update">>)
      <3> DEFINE ops == <<"image", "load", "update">>
      <3>1. /\ Len(ops) = 3 /\ ops[1] = "image" /\ ops[2] = "load" /\ ops[3] = "update"
        OBVIOUS
      <3> HIDE DEF ops
      <3>2. /\ Len(P) >= 3
            /\ \A p \in 1..Len(P) : IF p <= 3 THEN P[p].op = ops[p] ELSE P[p].op \in ItemOps
        BY <2>1, <3>1 DEF Starts, ops
      <3>3. \A q \in 1..Len(P) : P[q].op = "load" => q = 2
        BY <3>1, <3>2 DEF ItemOps
      <3>4. P[1].op = "image" /\ P[3].op = "update" /\ 3 \in 1..Len(P)
        BY <1>2, <3>1, <3>2
      <3> QED
        BY <3>3, <3>4
    <2>2. CASE Starts(P, <<"load", "update">>)
      <3> DEFINE ops == <<"load", "update">>
      <3>1. Len(ops) = 2 /\ ops[1] = "load" /\ ops[2] = "update"
        OBVIOUS
      <3> HIDE DEF ops
      <3>2. /\ Len(P) >= 2
            /\ \A p \in 1..Len(P) : IF p <= 2 THEN P[p].op = ops[p] ELSE P[p].op \in ItemOps
        BY <2>2, <3>1 DEF Starts, ops
      <3>3. \A q \in 1..Len(P) : P[q].op = "load" => q = 1
        BY <3>1, <3>2 DEF ItemOps
      <3>4. P[2].op = "update" /\ 2 \in 1..Len(P)
        BY <1>2, <3>1, <3>2
      <3> QED
        BY <3>3, <3>4
    <2> QED
      BY <1>1, <2>1, <2>2
  <1> DEFINE pre == (IF req.image = NoFile THEN <<>> ELSE <<Step("image")>>)
                       \o <<Step("load"), Step("update")>>
             r1 == Relink(req, "keyword")
             r2 == Relink(req, "category")
             r3 == Relink(req, "tag")
  <1>4. P = pre \o r1 \o r2 \o r3
    BY DEF Program
  <1>5. pre \in Seq(Named) /\ Requested(pre, req)
    <2> DEFINE one == <<Step("image")>>
               two == <<Step("load"), Step("update")>>
    <2>1. /\ one \in Seq(Named) /\ Len(one) = 1 /\ one[1].op = "image"
          /\ two \in Seq(Named) /\ Len(two) = 2 /\ two[1].op = "load" /\ two[2].op = "update"
      BY DEF Step, Named, Statement, Kinds
    <2>2. pre = IF req.image = NoFile THEN two ELSE one \o two
      <3>1. CASE req.image = NoFile
        BY <3>1
      <3>2. CASE req.image # NoFile
        BY <3>2
      <3> QED
        BY <3>1, <3>2
    <2> HIDE DEF one, two, pre
    <2>3. Requested(one, req) /\ Requested(two, req)
      BY <2>1 DEF Requested, InRequest
    <2> QED
      BY <2>1, <2>2, <2>3, PartsConcat
  <1>6. /\ r1 \in Seq(Named) /\ Requested(r1, req)
        /\ req.lists["keyword"] # <<>> => Detaches(r1, "keyword")
        /\ r2 \in Seq(Named) /\ Requested(r2, req)
        /\ req.lists["category"] # <<>> => Detaches(r2, "category")
        /\ r3 \in Seq(Named) /\ Requested(r3, req)
        /\ req.lists["tag"] # <<>> => Detaches(r3, "tag")
    BY RelinkParts DEF Kinds
  <1> HIDE DEF P, pre, r1, r2, r3
  <1> DEFINE p1 == pre \o r1
             p2 == p1 \o r2
  <1>7. /\ p1 \in Seq(Named) /\ Requested(p1, req)
        /\ \A k \in Kinds : Detaches(r1, k) => Detaches(p1, k)
    BY <1>5, <1>6, PartsConcat
  <1>8. P = p2 \o r3
    BY <1>4
  <1> HIDE DEF p1
  <1>9. /\ p2 \in Seq(Named) /\ Requested(p2, req)
        /\ \A k \in Kinds : Detaches(p1, k) \/ Detaches(r2, k) => Detaches(p2, k)
    BY <1>6, <1>7, PartsConcat
  <1> HIDE DEF p2
  <1>10. /\ Requested(P, req)
         /\ \A k \in Kinds : Detaches(p2, k) \/ Detaches(r3, k) => Detaches(P, k)
    BY <1>6, <1>8, <1>9, PartsConcat
  <1>11. \A k \in Kinds : req.lists[k] # <<>> => Detaches(P, k)
    BY <1>6, <1>7, <1>9, <1>10 DEF Kinds
  <1> QED
    BY <1>3, <1>10, <1>11 DEF P

-----------------------------------------------------------------------------
\* A handler that goes on.

LEMMA CreatorStart ==
    ASSUME NEW req \in Request, req.h = "creator", NEW p \in 1..Len(Program(req))
    PROVE  /\ Program(req)[p].op = "image" <=> p = 1
           /\ Program(req)[p].op = "insert" <=> p = 2
  BY CreatorProgram

LEMMA CreatorLinkAt ==
    ASSUME NEW req \in Request, req.h = "creator",
           NEW p \in 1..Len(Program(req)), Program(req)[p].op = "link"
    PROVE  \E k \in Kinds : \E i \in 1..Len(req.lists[k]) :
              /\ p = Base(req, k) + 2 * i
              /\ Program(req)[p] = [op |-> "link", kind |-> k, name |-> req.lists[k][i]]
  <1> DEFINE P == Program(req)
  <1>1. \E k \in Kinds : \E i \in 1..Len(req.lists[k]) : p = Base(req, k) + 2 * i
    BY CreatorProgram
  <1>2. \A k \in Kinds : \A i \in 1..Len(req.lists[k]) :
           P[Base(req, k) + 2 * i] = [op |-> "link", kind |-> k, name |-> req.lists[k][i]]
    BY CreatorProgram
  <1> HIDE DEF P
  <1>3. PICK k \in Kinds : \E i \in 1..Len(req.lists[k]) : p = Base(req, k) + 2 * i
    BY <1>1
  <1>4. PICK i \in 1..Len(req.lists[k]) : p = Base(req, k) + 2 * i
    BY <1>3
  <1>5. P[p] = [op |-> "link", kind |-> k, name |-> req.lists[k][i]]
    BY <1>2, <1>4
  <1> QED
    BY <1>4, <1>5, Zenon DEF P

LEMMA CreatorLists ==
    ASSUME NEW req \in Request, req.h = "creator", NEW k \in Kinds
    PROVE  /\ Base(req, k) \in Nat /\ Len(req.lists[k]) \in Nat
           /\ \A i \in 1..Len(req.lists[k]) :
                 Program(req)[Base(req, k) + 2 * i] =
                    [op |-> "link", kind |-> k, name |-> req.lists[k][i]]
  BY CreatorProgram

LEMMA CreatorAhead ==
    ASSUME StoreInv, NEW c \in Clients, Busy(c), job[c].plan # <<>>,
           Kept(job[c]), Req(c).h = "creator",
           NEW j, j.req = job[c].req, j.plan = Tail(job[c].plan), j.since = job[c].since,
           j = job'[c],
           Stmt(c).op = "image" => images'[Req(c).slug] \in {Written(Req(c)), Broken},
           Stmt(c).op # "image" => images'[Req(c).slug] = images[Req(c).slug],
           Stmt(c).op = "insert" => articles'[j.since] = NewRow(Req(c)),
           Stmt(c).op # "insert" => articles'[j.since] = articles[j.since],
           \A k \in Kinds :
              IF Stmt(c).op = "link" /\ Stmt(c).kind = k
              THEN \E m : /\ m \notin LinksOf(j.since, k) /\ <<Stmt(c).name, m>> \in Like
                          /\ LinksOf(j.since, k)' = LinksOf(j.since, k) \cup {m}
              ELSE LinksOf(j.since, k)' = LinksOf(j.since, k)
    PROVE  Kept(job[c])'
  <1> DEFINE req == j.req
             P == Program(req)
             d == Done(job[c])
             id == j.since
  <1>1. req \in Request /\ req.h = "creator" /\ Req(c) = req
    BY BusyJob DEF StoreInv, Req
  <1>2. /\ d \in Nat /\ d + 1 \in 1..Len(P) /\ Stmt(c) = P[d + 1]
        /\ Done(j) = d + 1 /\ OnPlan(j)
    BY Ahead DEF StoreInv, Kept
  <1>3. CreatorKept(job[c])
    BY <1>1 DEF Kept
  <1>8. /\ Stmt(c).op = "image" <=> d = 0
        /\ Stmt(c).op = "insert" <=> d = 1
    <2>1. P[d + 1].op = "image" <=> d + 1 = 1
      BY <1>1, <1>2, CreatorStart
    <2>2. P[d + 1].op = "insert" <=> d + 1 = 2
      BY <1>1, <1>2, CreatorStart
    <2> HIDE DEF d, req, id, P
    <2> QED
      BY <1>2, <2>1, <2>2
  <1> HIDE DEF d, req, id, P
  <1>4. Done(j) >= 1 => images'[req.slug] \in {Written(req), Broken}
    <2>1. CASE d = 0
      <3>1. Stmt(c).op = "image"
        BY <1>8, <2>1
      <3> QED
        BY <1>1, <3>1
    <2>2. CASE d >= 1
      <3>1. Stmt(c).op # "image"
        BY <1>2, <1>8, <2>2
      <3>2. images[req.slug] \in {Written(req), Broken}
        BY <1>3, <2>2 DEF CreatorKept, d, req
      <3> QED
        BY <1>1, <3>1, <3>2
    <2> QED
      BY <1>2, <2>1, <2>2
  <1>5. Done(j) >= 2 => articles'[id] = NewRow(req)
    <2>1. CASE d = 1
      <3>1. Stmt(c).op = "insert"
        BY <1>8, <2>1
      <3> QED
        BY <1>1, <3>1 DEF id
    <2>2. CASE d >= 2
      <3>1. Stmt(c).op # "insert"
        BY <1>2, <1>8, <2>2
      <3>2. articles[id] = NewRow(req)
        BY <1>3, <2>2 DEF CreatorKept, d, req, id
      <3> QED
        BY <1>1, <3>1, <3>2 DEF id
    <2> QED
      BY <1>2, <2>1, <2>2
  <1>6. ASSUME NEW k \in Kinds
        PROVE  /\ IsFiniteSet(LinksOf(id, k)')
               /\ Cardinality(LinksOf(id, k)') = Upto(Base(req, k), Len(req.lists[k]), d + 1)
               /\ \A i \in 1..Len(req.lists[k]) :
                     Base(req, k) + 2 * i <= d + 1 =>
                        \E m \in LinksOf(id, k)' : <<req.lists[k][i], m>> \in Like
    <2> DEFINE b == Base(req, k)
               n == Len(req.lists[k])
               old == LinksOf(id, k)
               new == LinksOf(id, k)'
    <2>1. /\ IsFiniteSet(old) /\ Cardinality(old) = Upto(b, n, d)
          /\ \A i \in 1..n : b + 2 * i <= d => \E m \in old : <<req.lists[k][i], m>> \in Like
      BY <1>3 DEF CreatorKept, Linked, d, req, id
    <2>2. /\ b \in Nat /\ n \in Nat
          /\ \A i \in 1..n : P[b + 2 * i] = [op |-> "link", kind |-> k, name |-> req.lists[k][i]]
      BY <1>1, CreatorLists DEF P
    <2>3. CASE Stmt(c).op = "link" /\ Stmt(c).kind = k
      <3>1. PICK m : m \notin old /\ <<Stmt(c).name, m>> \in Like /\ new = old \cup {m}
        BY <2>3 DEF id
      <3>2. PICK l \in Kinds : \E i \in 1..Len(req.lists[l]) :
               /\ d + 1 = Base(req, l) + 2 * i
               /\ P[d + 1] = [op |-> "link", kind |-> l, name |-> req.lists[l][i]]
        <4>1. d + 1 \in 1..Len(P) /\ P[d + 1].op = "link"
          BY <1>2, <2>3
        <4> QED
          BY <1>1, <4>1, CreatorLinkAt DEF P
      <3> PICK i \in 1..Len(req.lists[l]) :
               /\ d + 1 = Base(req, l) + 2 * i
               /\ P[d + 1] = [op |-> "link", kind |-> l, name |-> req.lists[l][i]]
        BY <3>2
      <3>3. Stmt(c) = [op |-> "link", kind |-> l, name |-> req.lists[l][i]]
        BY <1>2
      <3>4. l = k /\ Stmt(c).name = req.lists[k][i] /\ i \in 1..n /\ d + 1 = b + 2 * i
        BY <2>3, <3>3
      <3> HIDE DEF b, n, old, new
      <3>5. Upto(b, n, d + 1) = Upto(b, n, d) + 1
        BY <1>2, <2>2, <3>4, UptoStep
      <3>6. IsFiniteSet(new) /\ Cardinality(new) = Cardinality(old) + 1
        BY <2>1, <3>1, FS_AddElement
      <3>7. ASSUME NEW h \in 1..n, b + 2 * h <= d + 1
            PROVE  \E x \in new : <<req.lists[k][h], x>> \in Like
        <4>1. CASE h = i
          BY <3>1, <3>4, <4>1
        <4>2. CASE h # i
          <5>1. b + 2 * h <= d
            BY <1>2, <2>2, <3>4, <3>7, <4>2
          <5> QED
            BY <2>1, <3>1, <5>1
        <4> QED
          BY <4>1, <4>2
      <3> QED
        BY <2>1, <3>5, <3>6, <3>7 DEF b, n, old, new
    <2>4. CASE ~(Stmt(c).op = "link" /\ Stmt(c).kind = k)
      <3>1. new = old
        BY <2>4 DEF id
      <3>2. \A i \in 1..n : d + 1 # b + 2 * i
        <4> SUFFICES ASSUME NEW i \in 1..n, d + 1 = b + 2 * i PROVE FALSE
          OBVIOUS
        <4> HIDE DEF b, n
        <4>1. Stmt(c) = [op |-> "link", kind |-> k, name |-> req.lists[k][i]]
          BY <1>2, <2>2
        <4> QED
          BY <2>4, <4>1
      <3> HIDE DEF b, n, old, new
      <3>3. Upto(b, n, d + 1) = Upto(b, n, d)
        BY <1>2, <2>2, <3>2, UptoStep
      <3>4. \A i \in 1..n : b + 2 * i <= d + 1 => b + 2 * i <= d
        BY <1>2, <2>2, <3>2
      <3> QED
        BY <2>1, <3>1, <3>3, <3>4 DEF b, n, old, new
    <2> QED
      BY <2>3, <2>4
  <1>7. CreatorKept(job[c])'
    <2>1. Done(j)' = Done(j)
      BY DEF Done
    <2>2. (Done(j) >= 1 => images[req.slug] \in {Written(req), Broken})'
      BY <1>4, <2>1 DEF req
    <2>3. (Done(j) >= 2 => articles[id] = NewRow(req))'
      BY <1>5, <2>1 DEF id, req
    <2>4. Done(j)' = d + 1
      BY <1>2, <2>1
    <2>5. ASSUME NEW k \in Kinds
          PROVE  /\ IsFiniteSet(LinksOf(id, k)')
                 /\ Cardinality(LinksOf(id, k)') = Upto(Base(req, k), Len(req.lists[k]), Done(j)')
      BY <1>6, <2>4
    <2>6. ASSUME NEW k \in Kinds, NEW i \in 1..Len(req.lists[k]),
                 Base(req, k) + 2 * i <= Done(j)'
          PROVE  Linked(id, k, req.lists[k][i])'
      BY <1>6, <2>4, <2>6 DEF Linked
    <2>7. CreatorKept(j)'
      BY <2>2, <2>3, <2>5, <2>6 DEF CreatorKept, id, req
    <2> QED
      BY <2>7
  <1> QED
    BY <1>1, <1>2, <1>7 DEF Kept, req

LEMMA EditorAhead ==
    ASSUME StoreInv, NEW c \in Clients, Busy(c), job[c].plan # <<>>,
           Kept(job[c]), Req(c).h = "editor",
           NEW j, j.req = job[c].req, j.plan = Tail(job[c].plan), j = job'[c],
           j.row # NoRow => j.row.slug = j.req.slug,
           Stmt(c).op # "load" => j.id = job[c].id,
           Stmt(c).op = "update" => /\ articles'[j.id].slug = j.req.slug
                                    /\ articles'[j.id].title = j.req.title
                                    /\ articles'[j.id].status = j.req.status,
           Stmt(c).op \notin {"load", "update"} => articles'[j.id] = articles[j.id],
           \A k \in Kinds :
              IF Stmt(c).op = "unlink" /\ Stmt(c).kind = k
              THEN LinksOf(j.id, k)' = {}
              ELSE \A m \in LinksOf(j.id, k)' : m \in LinksOf(j.id, k) \/ Asked(j.req, k, m)
    PROVE  Kept(job[c])'
  <1> DEFINE req == j.req
             P == Program(req)
             d == Done(job[c])
  <1>1. req \in Request /\ req.h = "editor" /\ Req(c) = req
    BY BusyJob DEF StoreInv, Req
  <1>2. /\ d \in Nat /\ d + 1 \in 1..Len(P) /\ Stmt(c) = P[d + 1]
        /\ Done(j) = d + 1 /\ OnPlan(j)
    BY Ahead DEF StoreInv, Kept
  <1>3. EditorKept(job[c])
    BY <1>1 DEF Kept
  <1>4. P \in Seq(Named) /\ Len(P) \in Nat
    BY <1>1, ProgramShape
  <1> HIDE DEF d, req, P
  <1>5. ASSUME NEW op, NEW k, \E p \in 1..(d + 1) : P[p].op = op /\ P[p].kind = k
        PROVE  Behind(job[c], op, k) \/ (Stmt(c).op = op /\ Stmt(c).kind = k)
    <2>1. PICK p \in 1..(d + 1) : P[p].op = op /\ P[p].kind = k
      BY <1>5
    <2>2. p = d + 1 \/ p \in 1..d
      BY <1>2
    <2> QED
      BY <1>2, <2>1, <2>2 DEF Behind, d, P, req
  <1>6. ASSUME NEW op \in {"update", "unlink"}, NEW k, Stmt(c).op = "load"
        PROVE  ~\E p \in 1..(d + 1) : P[p].op = op /\ P[p].kind = k
    <2>1. \A p \in 1..d : p \in 1..Len(P) /\ p < d + 1
      BY <1>2, <1>4
    <2>2. \A p \in 1..d : P[p].op = "image"
      BY <1>1, <1>2, <1>6, <2>1, EditorProgram DEF P
    <2>3. \A p \in 1..(d + 1) : p \in 1..d \/ p = d + 1
      BY <1>2
    <2> QED
      BY <1>2, <1>6, <2>2, <2>3
  <1>7. ASSUME NEW k \in Kinds, \E p \in 1..(d + 1) : P[p].op = "update" /\ P[p].kind = k
        PROVE  RowAsAsked(j)'
    <2>1. Stmt(c).op # "load"
      BY <1>6, <1>7
    <2>2. CASE Stmt(c).op = "update"
      BY <2>2 DEF RowAsAsked
    <2>3. CASE Stmt(c).op # "update"
      <3>1. Behind(job[c], "update", k)
        BY <1>5, <1>7, <2>3
      <3>2. RowAsAsked(job[c]) /\ articles'[j.id] = articles[j.id] /\ j.id = job[c].id
        BY <1>3, <2>1, <2>3, <3>1 DEF EditorKept
      <3> QED
        BY <3>2 DEF RowAsAsked
    <2> QED
      BY <2>2, <2>3
  <1>8. ASSUME NEW k \in Kinds, \E p \in 1..(d + 1) : P[p].op = "unlink" /\ P[p].kind = k,
               NEW m \in LinksOf(j.id, k)'
        PROVE  Asked(req, k, m)
    <2>1. Stmt(c).op # "load"
      BY <1>6, <1>8
    <2>2. ~(Stmt(c).op = "unlink" /\ Stmt(c).kind = k)
      BY <1>8
    <2>3. m \in LinksOf(j.id, k) \/ Asked(req, k, m)
      BY <1>8, <2>2 DEF req
    <2>4. Behind(job[c], "unlink", k) /\ j.id = job[c].id
      BY <1>5, <1>8, <2>1, <2>2
    <2>5. \A x \in LinksOf(j.id, k) : Asked(req, k, x)
      BY <1>3, <2>4 DEF EditorKept, req
    <2> QED
      BY <2>3, <2>5
  <1>9. EditorKept(j)'
    BY <1>2, <1>7, <1>8 DEF EditorKept, Behind, P, req
  <1>10. EditorKept(job[c])'
    BY <1>9 DEF EditorKept, RowAsAsked
  <1> QED
    BY <1>1, <1>2, <1>10 DEF Kept, req

-----------------------------------------------------------------------------
\* Answers.

LEMMA NoAnswer ==
    ASSUME last' = NoReq
    PROVE  Quiet' /\ CreatedMeansStored' /\ EditedMeansStored'
  BY DEF Quiet, CreatedMeansStored, EditedMeansStored, Answered

\* While a request is in service there is no answer, and only its client is busy.
LEMMA InService ==
    ASSUME StoreInv, AnswerOK, NEW c \in Clients, Busy(c)
    PROVE  last = NoReq /\ Kept(job[c]) /\ \A d \in Clients : Busy(d) => d = c
  BY DEF AnswerOK, Quiet, AllKept, StoreInv, OneJob

LEMMA GoesOn ==
    ASSUME StoreInv, AnswerOK, NEW c \in Clients, Busy(c), UNCHANGED last,
           \A d \in Clients : d # c => job'[d] = job[d],
           Kept(job[c])'
    PROVE  AnswerOK'
  <1>1. last' = NoReq /\ \A d \in Clients : d # c => ~Busy(d)
    BY InService
  <1>2. AllKept'
    <2> SUFFICES ASSUME NEW d \in Clients, Busy(d)' PROVE Kept(job[d])'
      BY DEF AllKept
    <2>1. d = c
      BY <1>1 DEF Busy
    <2> QED
      BY <2>1
  <1> QED
    BY <1>1, <1>2, NoAnswer DEF AnswerOK

LEMMA NobodyBusy ==
    ASSUME StoreInv, NEW c \in Clients, Busy(c), NEW code, Reply(c, code)
    PROVE  \A d \in Clients : ~Busy(d)'
  <1>1. job \in [Clients -> Job] /\ \A d \in Clients : Busy(d) => d = c
    BY DEF StoreInv, JobType, OneJob
  <1> QED
    BY <1>1 DEF Reply, Busy, Idle

LEMMA Thrown ==
    ASSUME StoreInv, NEW c \in Clients, Busy(c), Throw(c)
    PROVE  AnswerOK'
  <1>1. PICK code \in {303, 500} : Reply(c, code)
    BY DEF Throw
  <1>2. \A d \in Clients : ~Busy(d)'
    BY <1>1, NobodyBusy
  <1>3. last'.code # 200
    BY <1>1 DEF Reply
  <1> QED
    BY <1>2, <1>3
    DEF AnswerOK, Quiet, AllKept, CreatedMeansStored, EditedMeansStored, Answered

-----------------------------------------------------------------------------
\* The statements.

LEMMA ContinueJob ==
    ASSUME StoreInv, NEW c \in Clients, Continue(c)
    PROVE  /\ job'[c].req = job[c].req /\ job'[c].plan = Tail(job[c].plan)
           /\ job'[c].id = job[c].id /\ job'[c].row = job[c].row
           /\ job'[c].since = job[c].since
           /\ \A d \in Clients : d # c => job'[d] = job[d]
           /\ UNCHANGED last
  <1>1. job \in [Clients -> Job]
    BY DEF StoreInv, JobType
  <1> QED
    BY <1>1 DEF Continue, Job

LEMMA OtherAhead ==
    ASSUME StoreInv, NEW c \in Clients, Busy(c), job[c].plan # <<>>, Kept(job[c]),
           Req(c).h \notin {"creator", "editor"},
           job'[c].req = job[c].req, job'[c].plan = Tail(job[c].plan)
    PROVE  Kept(job[c])'
  <1> DEFINE j == job'[c]
  <1>1. OnPlan(j)
    BY Ahead DEF StoreInv, Kept
  <1>2. j.req = Req(c)
    BY DEF Req
  <1> QED
    BY <1>1, <1>2 DEF Kept

\* A statement that changes at most the image.
LEMMA Unmoved ==
    ASSUME StoreInv, AnswerOK, NEW c \in Clients, Busy(c), job[c].plan # <<>>,
           Continue(c), UNCHANGED <<articles, links>>,
           Stmt(c).op \notin {"insert", "load", "update", "unlink"},
           Stmt(c).op = "link" => Req(c).h # "creator",
           Stmt(c).op = "image" /\ Req(c).h = "creator" =>
              images'[Req(c).slug] \in {Written(Req(c)), Broken},
           Stmt(c).op # "image" => UNCHANGED images
    PROVE  AnswerOK'
  <1> DEFINE j == job'[c]
  <1>1. /\ j.req = job[c].req /\ j.plan = Tail(job[c].plan)
        /\ j.id = job[c].id /\ j.row = job[c].row /\ j.since = job[c].since
        /\ \A d \in Clients : d # c => job'[d] = job[d]
        /\ UNCHANGED last
    BY ContinueJob
  <1>2. Kept(job[c])
    BY InService
  <1>3. \A id, k : LinksOf(id, k)' = LinksOf(id, k)
    BY DEF LinksOf
  <1>4. CASE Req(c).h = "creator"
    <2> HIDE DEF j
    <2>1. Kept(job[c])'
      BY <1>1, <1>2, <1>3, <1>4, CreatorAhead DEF j
    <2> QED
      BY <1>1, <2>1, GoesOn
  <1>5. CASE Req(c).h = "editor"
    <2>1. j.row # NoRow => j.row.slug = j.req.slug
      BY <1>1, <1>2, <1>5 DEF Kept, EditorKept, Req
    <2> HIDE DEF j
    <2>2. Kept(job[c])'
      BY <1>1, <1>2, <1>3, <1>5, <2>1, EditorAhead DEF j
    <2> QED
      BY <1>1, <2>2, GoesOn
  <1>6. CASE Req(c).h \notin {"creator", "editor"}
    BY <1>1, <1>2, <1>6, OtherAhead, GoesOn
  <1> QED
    BY <1>4, <1>5, <1>6

LEMMA SaveImageAnswers ==
    ASSUME StoreInv, AnswerOK, NEW c \in Clients,
           SaveImage(c) \/ ImageCutShort(c) \/ ImageFails(c)
    PROVE  AnswerOK'
  <1>1. /\ Busy(c) /\ job[c].plan # <<>> /\ Stmt(c).op = "image"
        /\ UNCHANGED <<articles, links>>
    BY DEF SaveImage, ImageCutShort, ImageFails, At, Stmt, store
  <1>2. images \in [Slugs -> Images \cup {NoFile, Broken}] /\ Req(c).slug \in Slugs
    BY <1>1, BusyJob DEF StoreInv, StoreOK, StoreType, Request
  <1>3. CASE SaveImage(c)
    BY <1>1, <1>2, <1>3, Unmoved DEF SaveImage
  <1>4. CASE ImageCutShort(c)
    BY <1>1, <1>2, <1>4, Unmoved DEF ImageCutShort
  <1>5. CASE ImageFails(c)
    <2>1. CASE Throw(c)
      BY <1>1, <2>1, Thrown
    <2>2. CASE Req(c).h = "editor" /\ Continue(c)
      BY <1>1, <2>2, Unmoved
    <2> QED
      BY <1>5, <2>1, <2>2 DEF ImageFails
  <1> QED
    BY <1>3, <1>4, <1>5

LEMMA StatementFailsAnswers ==
    ASSUME StoreInv, AnswerOK, NEW c \in Clients, StatementFails(c)
    PROVE  AnswerOK'
  <1>1. /\ Busy(c) /\ job[c].plan # <<>> /\ Fail(c)
        /\ UNCHANGED <<articles, links, images>>
    BY DEF StatementFails, store
  <1>2. CASE Swallowed(c)
    <2>1. /\ Continue(c)
          /\ Stmt(c).op = "name" \/ (Stmt(c).op = "link" /\ Req(c).h = "editor")
      BY <1>1, <1>2 DEF Fail, Swallowed
    <2> QED
      BY <1>1, <2>1, Unmoved
  <1>3. CASE ~Swallowed(c)
    BY <1>1, <1>3, Thrown DEF Fail
  <1> QED
    BY <1>2, <1>3

LEMMA InsertNameAnswers ==
    ASSUME StoreInv, AnswerOK, NEW c \in Clients, InsertName(c)
    PROVE  AnswerOK'
  BY Unmoved DEF InsertName, At, Stmt

LEMMA InsertArticleAnswers ==
    ASSUME StoreInv, AnswerOK, NEW c \in Clients, InsertArticle(c)
    PROVE  AnswerOK'
  <1> DEFINE j == job'[c]
  <1>1. /\ At(c, "insert") /\ Busy(c) /\ job[c].plan # <<>> /\ Stmt(c).op = "insert"
        /\ UNCHANGED <<links, images>>
    BY DEF InsertArticle, At, Stmt
  <1>2. Req(c).h = "creator" /\ job[c].since = nextId /\ nextId <= MaxId
    BY <1>1, Progress DEF StoreInv, Req, ItemOps
  <1>3. nextId \in Ids /\ articles \in [Ids -> Row \cup {NoRow}]
    BY <1>2, BoundAssumption DEF StoreInv, StoreOK, StoreType, Ids
  <1>4. CASE SlugFree(Req(c).slug)
    <2>1. Continue(c) /\ articles' = [articles EXCEPT ![nextId] = NewRow(Req(c))]
      BY <1>4 DEF InsertArticle, NewRow
    <2>2. /\ j.req = job[c].req /\ j.plan = Tail(job[c].plan) /\ j.since = job[c].since
          /\ \A d \in Clients : d # c => job'[d] = job[d]
          /\ UNCHANGED last
      BY <2>1, ContinueJob
    <2>3. articles'[j.since] = NewRow(Req(c))
      BY <1>2, <1>3, <2>1, <2>2
    <2>4. Kept(job[c]) /\ \A id, k : LinksOf(id, k)' = LinksOf(id, k)
      BY <1>1, InService DEF LinksOf
    <2> HIDE DEF j
    <2>5. Kept(job[c])'
      BY <1>1, <1>2, <2>2, <2>3, <2>4, CreatorAhead DEF j
    <2> QED
      BY <1>1, <2>2, <2>5, GoesOn
  <1>5. CASE ~SlugFree(Req(c).slug)
    <2>1. Throw(c)
      BY <1>1, <1>5 DEF InsertArticle, Fail, Swallowed
    <2> QED
      BY <1>1, <2>1, Thrown
  <1> QED
    BY <1>4, <1>5

LEMMA LoadArticleAnswers ==
    ASSUME StoreInv, AnswerOK, NEW c \in Clients, LoadArticle(c)
    PROVE  AnswerOK'
  <1> DEFINE j == job'[c]
  <1>1. PICK op \in {"reread", "load"} : At(c, op)
    BY DEF LoadArticle
  <1>2. /\ Busy(c) /\ job[c].plan # <<>> /\ Stmt(c).op = op
        /\ UNCHANGED <<articles, links, images>>
    BY <1>1 DEF LoadArticle, At, Stmt, store
  <1>3. \/ op = "reread" /\ Req(c).h = "creator"
        \/ op = "load" /\ Req(c).h = "editor"
    BY <1>1, Progress DEF StoreInv, Req, ItemOps
  <1>4. CASE Fail(c)
    BY <1>2, <1>3, <1>4, Thrown DEF Fail, Swallowed
  <1>5. CASE ~Fail(c)
    <2>1. PICK id \in RowOf(Req(c).slug) :
             job' = [job EXCEPT ![c].plan = Tail(@), ![c].id = id, ![c].row = articles[id]]
      BY <1>5 DEF LoadArticle
    <2>2. UNCHANGED last
      BY <1>5 DEF LoadArticle
    <2>3. job \in [Clients -> Job]
      BY DEF StoreInv, JobType
    <2>4. /\ j.req = job[c].req /\ j.plan = Tail(job[c].plan) /\ j.since = job[c].since
          /\ j.row = articles[id] /\ j.id = id
          /\ \A d \in Clients : d # c => job'[d] = job[d]
      BY <2>1, <2>3 DEF Job
    <2>5. j.row # NoRow => j.row.slug = j.req.slug
      BY <2>1, <2>4 DEF RowOf, Req
    <2>6. Kept(job[c]) /\ \A i, k : LinksOf(i, k)' = LinksOf(i, k)
      BY <1>2, InService DEF LinksOf
    <2> HIDE DEF j
    <2>7. CASE op = "reread"
      <3>1. Kept(job[c])'
        BY <1>2, <1>3, <2>4, <2>6, <2>7, CreatorAhead DEF j
      <3> QED
        BY <1>2, <2>2, <2>4, <3>1, GoesOn
    <2>8. CASE op = "load"
      <3>1. Kept(job[c])'
        BY <1>2, <1>3, <2>4, <2>5, <2>6, <2>8, EditorAhead DEF j
      <3> QED
        BY <1>2, <2>2, <2>4, <3>1, GoesOn
    <2> QED
      BY <2>7, <2>8
  <1> QED
    BY <1>4, <1>5

LEMMA UpdateArticleAnswers ==
    ASSUME StoreInv, AnswerOK, NEW c \in Clients, UpdateArticle(c)
    PROVE  AnswerOK'
  <1> DEFINE j == job'[c]
             req == Req(c)
             row == job[c].row
             id == job[c].id
  <1>1. /\ At(c, "update") /\ Busy(c) /\ job[c].plan # <<>> /\ Stmt(c).op = "update"
        /\ UNCHANGED <<links, images>>
    BY DEF UpdateArticle, At, Stmt
  <1>2. req.h = "editor" /\ Current(job[c]) /\ job[c] \in Job
    BY <1>1, Progress, BusyJob DEF StoreInv, Req, ItemOps
  <1>3. Kept(job[c]) /\ \A i, k : LinksOf(i, k)' = LinksOf(i, k)
    BY <1>1, InService DEF LinksOf
  <1>4. /\ row \in Row /\ row.slug = req.slug /\ id \in Ids /\ articles[id] # NoRow
        /\ articles \in [Ids -> Row \cup {NoRow}]
    BY <1>2, <1>3
    DEF Current, Rows, Job, Kept, EditorKept, Req, StoreInv, StoreOK, StoreType
  <1>5. CASE req.title = Empty
    <2>1. Throw(c)
      BY <1>1, <1>5 DEF UpdateArticle, Fail, Swallowed
    <2> QED
      BY <1>1, <2>1, Thrown
  <1>6. CASE req.title # Empty
    <2>1. /\ Continue(c)
          /\ articles' = [articles EXCEPT ![id] =
                            [row EXCEPT !.title = req.title, !.status = req.status]]
      BY <1>4, <1>6 DEF UpdateArticle
    <2>2. /\ j.req = job[c].req /\ j.plan = Tail(job[c].plan)
          /\ j.id = id /\ j.row = row
          /\ \A d \in Clients : d # c => job'[d] = job[d]
          /\ UNCHANGED last
      BY <2>1, ContinueJob
    <2>3. /\ articles'[id].slug = req.slug /\ articles'[id].title = req.title
          /\ articles'[id].status = req.status
      BY <1>4, <2>1 DEF Row
    <2>4. /\ articles'[j.id].slug = j.req.slug /\ articles'[j.id].title = j.req.title
          /\ articles'[j.id].status = j.req.status
      BY <2>2, <2>3 DEF Req
    <2>5. j.row.slug = j.req.slug
      BY <1>4, <2>2 DEF Req
    <2> HIDE DEF j, req, row, id
    <2>6. Kept(job[c])'
      BY <1>1, <1>2, <1>3, <2>2, <2>4, <2>5, EditorAhead DEF j, req, id
    <2> QED
      BY <1>1, <2>2, <2>6, GoesOn
  <1> QED
    BY <1>5, <1>6

\* Only the editor's program takes links away.
LEMMA UnlinkIsEditors ==
    ASSUME StoreInv, NEW c \in Clients, Kept(job[c]), At(c, "unlink")
    PROVE  Req(c).h = "editor"
  <1>1. Req(c).h \in {"creator", "editor"}
    BY Progress DEF StoreInv, Req, ItemOps
  <1>2. Req(c).h # "creator"
    <2> SUFFICES ASSUME Req(c).h = "creator" PROVE FALSE
      OBVIOUS
    <2>1. /\ Busy(c) /\ job[c].plan # <<>> /\ Stmt(c).op = "unlink"
          /\ Req(c) \in Request /\ OnPlan(job[c]) /\ JobType
      BY BusyJob DEF At, Stmt, Kept, StoreInv
    <2> DEFINE j == [req |-> Req(c), plan |-> Tail(job[c].plan)]
               p == Done(job[c]) + 1
    <2>2. j.req = job[c].req /\ j.plan = Tail(job[c].plan)
      BY DEF Req
    <2> HIDE DEF j
    <2>3. p \in 1..Len(Program(Req(c))) /\ Stmt(c) = Program(Req(c))[p]
      BY <2>1, <2>2, Ahead DEF Req
    <2> QED
      BY <2>1, <2>3, CreatorProgram
  <1> QED
    BY <1>1, <1>2

LEMMA UnlinkAnswers ==
    ASSUME StoreInv, AnswerOK, NEW c \in Clients, Unlink(c)
    PROVE  AnswerOK'
  <1> DEFINE j == job'[c]
             id == job[c].id
             kind == Stmt(c).kind
  <1>1. /\ At(c, "unlink") /\ Busy(c) /\ job[c].plan # <<>> /\ Stmt(c).op = "unlink"
        /\ UNCHANGED <<articles, images>> /\ Continue(c)
        /\ links' = [links EXCEPT ![kind] = {l \in @ : l[1] # id}]
    BY DEF Unlink, At, Stmt
  <1>2. Kept(job[c])
    BY <1>1, InService
  <1>3. Req(c).h = "editor"
    BY <1>1, <1>2, UnlinkIsEditors
  <1>4. /\ j.req = job[c].req /\ j.plan = Tail(job[c].plan) /\ j.id = id /\ j.row = job[c].row
        /\ \A d \in Clients : d # c => job'[d] = job[d]
        /\ UNCHANGED last
    BY <1>1, ContinueJob
  <1>5. j.row # NoRow => j.row.slug = j.req.slug
    BY <1>2, <1>3, <1>4 DEF Kept, EditorKept, Req
  <1>6. links \in [Kinds -> SUBSET (Ids \X Names)]
    BY DEF StoreInv, StoreOK, StoreType
  <1> HIDE DEF id, kind
  <1>7. \A k \in Kinds : IF kind = k THEN LinksOf(id, k)' = {}
                                    ELSE LinksOf(id, k)' = LinksOf(id, k)
    <2> SUFFICES ASSUME NEW k \in Kinds
                 PROVE  IF kind = k THEN {m \in Names : <<id, m>> \in links'[k]} = {}
                        ELSE {m \in Names : <<id, m>> \in links'[k]}
                               = {m \in Names : <<id, m>> \in links[k]}
      BY <1>4 DEF LinksOf, id
    <2>1. links'[k] = IF kind = k THEN {l \in links[k] : l[1] # id} ELSE links[k]
      BY <1>1, <1>6
    <2> QED
      BY <2>1
  <1> HIDE DEF j
  <1>8. Kept(job[c])'
    BY <1>1, <1>2, <1>3, <1>4, <1>5, <1>7, EditorAhead DEF j, id, kind
  <1> QED
    BY <1>1, <1>4, <1>8, GoesOn

LEMMA LinkAdded ==
    ASSUME StoreInv, NEW id \in Ids, NEW kind \in Kinds, NEW m \in Names,
           links' = [links EXCEPT ![kind] = @ \cup {<<id, m>>}],
           NEW k \in Kinds
    PROVE  LinksOf(id, k)' = IF kind = k THEN LinksOf(id, k) \cup {m} ELSE LinksOf(id, k)
  <1>1. links \in [Kinds -> SUBSET (Ids \X Names)]
    BY DEF StoreInv, StoreOK, StoreType
  <1>2. links'[k] = IF kind = k THEN links[k] \cup {<<id, m>>} ELSE links[k]
    BY <1>1
  <1>3. {x \in Names : <<id, x>> \in links'[k]}
           = IF kind = k THEN {x \in Names : <<id, x>> \in links[k]} \cup {m}
                         ELSE {x \in Names : <<id, x>> \in links[k]}
    BY <1>2
  <1> QED
    BY <1>3 DEF LinksOf

LEMMA InsertLinkAnswers ==
    ASSUME StoreInv, AnswerOK, NEW c \in Clients, InsertLink(c)
    PROVE  AnswerOK'
  <1> DEFINE j == job'[c]
             kind == Stmt(c).kind
             name == Stmt(c).name
  <1>1. /\ At(c, "link") /\ Busy(c) /\ job[c].plan # <<>> /\ Stmt(c).op = "link"
        /\ UNCHANGED <<articles, images>>
    BY DEF InsertLink, At, Stmt
  <1>2. /\ Req(c).h \in {"creator", "editor"} /\ Current(job[c])
        /\ Req(c).h = "creator" => job[c].id = job[c].since
    BY <1>1, Progress DEF StoreInv, Req, ItemOps
  <1>3. Kept(job[c]) /\ kind \in Kinds
    BY <1>1, InService, BusyJob DEF StoreInv, Named, Statement
  <1>4. CASE Fail(c) /\ links' = links
    <2>1. CASE Req(c).h = "editor"
      <3>1. Continue(c)
        BY <1>1, <1>4, <2>1 DEF Fail, Swallowed
      <3> QED
        BY <1>1, <1>4, <2>1, <3>1, Unmoved
    <2>2. CASE Req(c).h = "creator"
      <3>1. Throw(c)
        BY <1>1, <1>4, <2>2 DEF Fail, Swallowed
      <3> QED
        BY <1>1, <3>1, Thrown
    <2> QED
      BY <1>2, <2>1, <2>2
  <1>5. CASE ~(Fail(c) /\ links' = links)
    <2>1. PICK m \in Matches(kind, name) :
             /\ <<job[c].id, m>> \notin links[kind]
             /\ links' = [links EXCEPT ![kind] = @ \cup {<<job[c].id, m>>}]
             /\ Continue(c)
      BY <1>5 DEF InsertLink
    <2>2. /\ j.req = job[c].req /\ j.plan = Tail(job[c].plan) /\ j.id = job[c].id
          /\ j.row = job[c].row /\ j.since = job[c].since
          /\ \A d \in Clients : d # c => job'[d] = job[d]
          /\ UNCHANGED last
      BY <2>1, ContinueJob
    <2>3. m \in Names /\ <<name, m>> \in Like
      BY <1>3, <2>1 DEF Matches, StoreInv, StoreOK, StoreType
    <2>4. PICK id \in Ids : id = job[c].id
      BY <1>2 DEF Current, Rows
    <2>5. /\ m \notin LinksOf(id, kind)
          /\ \A k \in Kinds : LinksOf(id, k)' = IF kind = k THEN LinksOf(id, k) \cup {m}
                                                ELSE LinksOf(id, k)
      <3>1. m \notin LinksOf(id, kind)
        BY <2>1, <2>4 DEF LinksOf
      <3>2. links' = [links EXCEPT ![kind] = @ \cup {<<id, m>>}]
        BY <2>1, <2>4
      <3> HIDE DEF kind
      <3>3. ASSUME NEW k \in Kinds
            PROVE  LinksOf(id, k)' = IF kind = k THEN LinksOf(id, k) \cup {m} ELSE LinksOf(id, k)
        <4>1. PICK kk \in Kinds : kk = kind
          BY <1>3
        <4>2. links' = [links EXCEPT ![kk] = @ \cup {<<id, m>>}]
          BY <3>2, <4>1
        <4> QED
          BY <2>3, <4>1, <4>2, LinkAdded
      <3> QED
        BY <3>1, <3>3
    <2>6. CASE Req(c).h = "creator"
      <3>1. j.since = id
        BY <1>2, <2>2, <2>4, <2>6
      <3> HIDE DEF j, kind, name
      <3>2. \A k \in Kinds :
               IF Stmt(c).op = "link" /\ Stmt(c).kind = k
               THEN \E x : /\ x \notin LinksOf(id, k) /\ <<Stmt(c).name, x>> \in Like
                           /\ LinksOf(id, k)' = LinksOf(id, k) \cup {x}
               ELSE LinksOf(id, k)' = LinksOf(id, k)
        BY <1>1, <2>3, <2>5 DEF kind, name
      <3>3. Kept(job[c])'
        BY <1>1, <1>3, <2>2, <2>6, <3>1, <3>2, CreatorAhead DEF j
      <3> QED
        BY <1>1, <2>2, <3>3, GoesOn
    <2>7. CASE Req(c).h = "editor"
      <3>1. j.row # NoRow => j.row.slug = j.req.slug
        BY <1>3, <2>2, <2>7 DEF Kept, EditorKept, Req
      <3>2. Asked(j.req, kind, m)
        <4>1. Req(c) \in Request /\ OnPlan(job[c]) /\ JobType
          BY <1>1, <1>3, BusyJob DEF StoreInv, Kept
        <4> DEFINE P == Program(Req(c))
        <4>2. PICK p \in 1..Len(P) : Stmt(c) = P[p]
          BY <1>1, <2>2, <4>1, Ahead DEF Req
        <4>3. InRequest(Stmt(c), Req(c))
          BY <2>7, <4>1, <4>2, EditorProgram DEF Requested
        <4>4. PICK i \in DOMAIN Req(c).lists[kind] : name = Req(c).lists[kind][i]
          BY <1>1, <4>3 DEF InRequest
        <4> QED
          BY <2>2, <2>3, <4>4 DEF Asked, Req
      <3> HIDE DEF j, kind, name
      <3>3. \A k \in Kinds : \A x \in LinksOf(id, k)' :
               x \in LinksOf(id, k) \/ Asked(j.req, k, x)
        BY <2>5, <3>2
      <3>4. j.id = id
        BY <2>2, <2>4
      <3>5. Kept(job[c])'
        BY <1>1, <1>3, <2>2, <2>7, <3>1, <3>3, <3>4, EditorAhead DEF j
      <3> QED
        BY <1>1, <2>2, <3>5, GoesOn
    <2> QED
      BY <1>2, <2>6, <2>7
  <1> QED
    BY <1>4, <1>5

LEMMA ByIdAnswers ==
    ASSUME StoreInv, AnswerOK, NEW c \in Clients,
           SetStatus(c) \/ RemoveArticle(c) \/ CountView(c)
    PROVE  AnswerOK'
  <1>1. /\ \E op \in {"status", "remove", "count"} : At(c, op)
        /\ Busy(c) /\ job[c].plan # <<>> /\ Continue(c)
    BY DEF SetStatus, RemoveArticle, CountView, At
  <1>2. Req(c).h \notin {"creator", "editor"}
    BY <1>1, Progress DEF StoreInv, Req, ItemOps
  <1>3. Kept(job[c])
    BY <1>1, InService
  <1>4. /\ job'[c].req = job[c].req /\ job'[c].plan = Tail(job[c].plan)
        /\ \A d \in Clients : d # c => job'[d] = job[d]
        /\ UNCHANGED last
    BY <1>1, ContinueJob
  <1> QED
    BY <1>1, <1>2, <1>3, <1>4, OtherAhead, GoesOn

\* What the creator has stored when its program is done.
LEMMA CreatorDone ==
    ASSUME StoreInv, NEW c \in Clients, Busy(c), job[c].plan = <<>>,
           Kept(job[c]), Req(c).h = "creator"
    PROVE  /\ job[c].id \in Rows
           /\ articles[job[c].id] = NewRow(Req(c))
           /\ images[Req(c).slug] \in {Written(Req(c)), Broken}
           /\ \A k \in Kinds :
                 /\ Cardinality(LinksOf(job[c].id, k)) = Len(Req(c).lists[k])
                 /\ \A i \in DOMAIN Req(c).lists[k] :
                       \E m \in LinksOf(job[c].id, k) : <<Req(c).lists[k][i], m>> \in Like
  <1> DEFINE req == Req(c)
             P == Program(req)
             j == job[c]
  <1>1. req \in Request /\ req = j.req /\ CreatorAt(j) /\ CreatorKept(j)
    BY BusyJob DEF StoreInv, Jobs, JobAt, Req, Kept
  <1>2. /\ ~Starts(j.plan, <<"image", "insert", "reread">>)
        /\ ~Starts(j.plan, <<"insert", "reread">>)
        /\ ~Starts(j.plan, <<"reread">>)
    BY DEF Starts
  <1>3. Current(j) /\ j.id = j.since
    BY <1>1, <1>2 DEF CreatorAt
  <1>4. Len(P) \in Nat /\ Len(P) >= 3
    BY <1>1, CreatorProgram
  <1>5. Done(j) = Len(P)
    BY <1>1, <1>4 DEF Done
  <1> HIDE DEF j, P, req
  <1>6. images[req.slug] \in {Written(req), Broken} /\ articles[j.id] = NewRow(req)
    BY <1>1, <1>3, <1>4, <1>5 DEF CreatorKept
  <1>7. ASSUME NEW k \in Kinds
        PROVE  /\ Cardinality(LinksOf(j.id, k)) = Len(req.lists[k])
               /\ \A i \in DOMAIN req.lists[k] :
                     \E m \in LinksOf(j.id, k) : <<req.lists[k][i], m>> \in Like
    <2> DEFINE b == Base(req, k)
               n == Len(req.lists[k])
    <2>1. b \in Nat /\ n \in Nat /\ b + 2 * n <= Len(P) /\ b >= 3
      BY <1>1, CreatorProgram DEF P, req
    <2>2. /\ Cardinality(LinksOf(j.id, k)) = Upto(b, n, Len(P))
          /\ \A i \in 1..n : b + 2 * i <= Len(P) => Linked(j.id, k, req.lists[k][i])
      BY <1>1, <1>3, <1>5 DEF CreatorKept
    <2>3. DOMAIN req.lists[k] = 1..n
      <3>1. req.lists[k] \in Seq(Names)
        BY <1>1 DEF Request
      <3> QED
        BY <3>1
    <2> HIDE DEF b, n
    <2>4. Upto(b, n, Len(P)) = n
      BY <1>4, <2>1 DEF Upto
    <2>5. \A i \in 1..n : b + 2 * i <= Len(P)
      BY <1>4, <2>1
    <2>6. \A i \in 1..n : Linked(j.id, k, req.lists[k][i])
      BY <2>2, <2>5
    <2> QED
      BY <2>2, <2>3, <2>4, <2>6 DEF Linked, n
  <1> QED
    BY <1>3, <1>6, <1>7 DEF Current, j, req

\* What the editor has stored when its program is done.
LEMMA EditorDone ==
    ASSUME StoreInv, NEW c \in Clients, Busy(c), job[c].plan = <<>>,
           Kept(job[c]), Req(c).h = "editor"
    PROVE  /\ job[c].id \in Rows
           /\ RowAsAsked(job[c])
           /\ \A k \in Kinds :
                 Req(c).lists[k] # <<>> =>
                    \A m \in LinksOf(job[c].id, k) : Asked(Req(c), k, m)
  <1> DEFINE req == Req(c)
             P == Program(req)
             j == job[c]
  <1>1. req \in Request /\ req = j.req /\ EditorAt(j) /\ EditorKept(j)
    BY BusyJob DEF StoreInv, Jobs, JobAt, Req, Kept
  <1>2. /\ ~Starts(j.plan, <<"image", "load", "update">>)
        /\ ~Starts(j.plan, <<"load", "update">>)
        /\ ~Starts(j.plan, <<"update">>)
    BY DEF Starts
  <1>3. Current(j)
    BY <1>1, <1>2 DEF EditorAt
  <1>4. P \in Seq(Named) /\ Len(P) \in Nat
    BY <1>1, ProgramShape
  <1>5. Done(j) = Len(P)
    BY <1>1, <1>4 DEF Done
  <1> HIDE DEF j, P, req
  <1>6. RowAsAsked(j)
    <2>1. PICK p \in 1..Len(P) : P[p].op = "update"
      BY <1>1, EditorProgram DEF P, req
    <2>2. P[p].kind \in Kinds
      BY <1>4 DEF Named, Statement
    <2>3. Behind(j, "update", P[p].kind)
      BY <1>1, <1>5, <2>1 DEF Behind, P
    <2> QED
      BY <1>1, <2>2, <2>3 DEF EditorKept
  <1>7. ASSUME NEW k \in Kinds, req.lists[k] # <<>>
        PROVE  \A m \in LinksOf(j.id, k) : Asked(req, k, m)
    <2>1. Detaches(P, k)
      BY <1>1, <1>7, EditorProgram DEF P, req
    <2>2. Behind(j, "unlink", k)
      BY <1>1, <1>5, <2>1 DEF Behind, Detaches, P
    <2> QED
      BY <1>1, <2>2 DEF EditorKept
  <1> QED
    BY <1>3, <1>6, <1>7 DEF Current, j, req

LEMMA RespondAnswers ==
    ASSUME StoreInv, AnswerOK, NEW c \in Clients, Respond(c)
    PROVE  AnswerOK'
  <1>1. /\ Busy(c) /\ job[c].plan = <<>> /\ Reply(c, 200)
        /\ last' = [req |-> Req(c), code |-> 200, id |-> job[c].id]
        /\ UNCHANGED <<articles, links, images>>
    BY DEF Respond, Reply, store
  <1>2. Kept(job[c]) /\ \A d \in Clients : ~Busy(d)'
    BY <1>1, InService, NobodyBusy
  <1>3. \A id, k : LinksOf(id, k)' = LinksOf(id, k)
    BY <1>1 DEF LinksOf
  <1>4. Rows' = Rows
    BY <1>1 DEF Rows
  <1>5. CreatedMeansStored'
    <2> SUFFICES ASSUME Answered("creator", 200)' PROVE CreatedMeansStored'
      BY DEF CreatedMeansStored
    <2>1. Req(c).h = "creator"
      BY <1>1 DEF Answered
    <2> DEFINE id == job[c].id
               req == Req(c)
    <2>2. /\ id \in Rows /\ articles[id] = NewRow(req)
          /\ images[req.slug] \in {Written(req), Broken}
          /\ \A k \in Kinds :
                /\ Cardinality(LinksOf(id, k)) = Len(req.lists[k])
                /\ \A i \in DOMAIN req.lists[k] :
                      \E m \in LinksOf(id, k) : <<req.lists[k][i], m>> \in Like
      BY <1>1, <1>2, <2>1, CreatorDone
    <2>3. last'.id = id /\ last'.req = req
      BY <1>1
    <2> QED
      BY <1>1, <1>4, <2>2, <2>3 DEF CreatedMeansStored, NewRow, LinksOf
  <1>6. EditedMeansStored'
    <2> SUFFICES ASSUME Answered("editor", 200)' PROVE EditedMeansStored'
      BY DEF EditedMeansStored
    <2>1. Req(c).h = "editor"
      BY <1>1 DEF Answered
    <2>2. /\ job[c].id \in Rows /\ RowAsAsked(job[c])
          /\ \A k \in Kinds :
                Req(c).lists[k] # <<>> =>
                   \A m \in LinksOf(job[c].id, k) : Asked(Req(c), k, m)
      BY <1>1, <1>2, <2>1, EditorDone
    <2>3. last'.id = job[c].id /\ last'.req = Req(c)
      BY <1>1
    <2> QED
      BY <1>1, <1>4, <2>2, <2>3 DEF EditedMeansStored, RowAsAsked, Asked, LinksOf, Req
  <1> QED
    BY <1>2, <1>5, <1>6 DEF AnswerOK, Quiet, AllKept

LEMMA AcceptAnswers ==
    ASSUME StoreInv, AnswerOK, NEW c \in Clients, NEW req \in Requests, Accept(c, req)
    PROVE  AnswerOK'
  <1> DEFINE j == [req |-> req, plan |-> Program(req), id |-> 0, row |-> NoRow,
                   since |-> nextId]
  <1>1. /\ \A d \in Clients : ~Busy(d)
        /\ job' = [job EXCEPT ![c] = j] /\ last' = NoReq
        /\ UNCHANGED <<articles, links, images>>
        /\ req.h = "creator" => nextId <= MaxId
    BY DEF Accept, ServerFree, store
  <1>2. job \in [Clients -> Job] /\ req \in Request
    BY RequestsAssumption DEF StoreInv, JobType
  <1>3. Len(Program(req)) \in Nat
    BY <1>2, ProgramShape
  <1>4. job'[c] = j /\ \A d \in Clients : d # c => job'[d] = job[d]
    BY <1>1, <1>2
  <1>5. OnPlan(j) /\ Done(j) = 0
    <2>1. j.req = req /\ j.plan = Program(req)
      OBVIOUS
    <2> HIDE DEF j
    <2> QED
      BY <1>3, <2>1 DEF OnPlan, Done
  <1>6. CASE req.h = "creator"
    <2>1. \A k \in Kinds : LinksOf(nextId, k) = {}
      <3>1. nextId \in Ids
        BY <1>1, <1>6, BoundAssumption DEF StoreInv, StoreOK, StoreType, Ids
      <3>2. nextId \notin Rows
        BY <3>1, BoundAssumption DEF StoreInv, StoreOK, StoreType, Fresh, Rows, Ids
      <3>3. \A k \in Kinds : \A l \in links[k] : l[1] \in Rows
        BY DEF StoreInv, StoreOK, SchemaHolds
      <3> QED
        BY <3>2, <3>3 DEF LinksOf
    <2>2. ASSUME NEW k \in Kinds
          PROVE  /\ Upto(Base(req, k), Len(req.lists[k]), 0) = 0
                 /\ \A i \in 1..Len(req.lists[k]) : ~(Base(req, k) + 2 * i <= 0)
      <3> DEFINE b == Base(req, k)
                 n == Len(req.lists[k])
      <3>1. b \in Nat /\ n \in Nat /\ b >= 3
        BY <1>2, <1>6, CreatorProgram
      <3> HIDE DEF b, n
      <3>2. Upto(b, n, 0) = 0 /\ \A i \in 1..n : ~(b + 2 * i <= 0)
        BY <3>1 DEF Upto
      <3> QED
        BY <3>2 DEF b, n
    <2>3. IsFiniteSet({}) /\ Cardinality({}) = 0
      BY FS_EmptySet
    <2>4. /\ j.req = req /\ j.since = nextId
      OBVIOUS
    <2> HIDE DEF j
    <2>5. CreatorKept(j)
      <3>1. ~(Done(j) >= 1) /\ ~(Done(j) >= 2)
        BY <1>5
      <3>2. ASSUME NEW k \in Kinds
            PROVE  /\ IsFiniteSet(LinksOf(j.since, k))
                   /\ Cardinality(LinksOf(j.since, k))
                        = Upto(Base(j.req, k), Len(j.req.lists[k]), Done(j))
                   /\ \A i \in 1..Len(j.req.lists[k]) :
                         Base(j.req, k) + 2 * i <= Done(j) =>
                            Linked(j.since, k, j.req.lists[k][i])
        <4>1. LinksOf(j.since, k) = {}
          BY <2>1, <2>4
        <4>2. /\ Upto(Base(j.req, k), Len(j.req.lists[k]), Done(j)) = 0
              /\ \A i \in 1..Len(j.req.lists[k]) : ~(Base(j.req, k) + 2 * i <= Done(j))
          BY <1>5, <2>2, <2>4
        <4> QED
          BY <2>3, <4>1, <4>2
      <3> QED
        BY <3>1, <3>2 DEF CreatorKept
    <2>6. Kept(job[c])'
      BY <1>1, <1>4, <1>5, <1>6, <2>4, <2>5 DEF Kept, CreatorKept, Linked, LinksOf
    <2> QED
      BY <1>1, <1>4, <2>6, NoAnswer DEF AnswerOK, AllKept, Busy
  <1>7. CASE req.h # "creator"
    <2>1. j.req = req /\ j.row = NoRow
      OBVIOUS
    <2> HIDE DEF j
    <2>2. \A op, k : ~\E p \in 1..Done(j) : Program(j.req)[p].op = op /\ Program(j.req)[p].kind = k
      BY <1>5
    <2>3. Kept(job[c])'
      BY <1>4, <1>5, <1>7, <2>1, <2>2 DEF Kept, EditorKept, Behind
    <2> QED
      BY <1>1, <1>4, <2>3, NoAnswer DEF AnswerOK, AllKept, Busy
  <1> QED
    BY <1>6, <1>7

-----------------------------------------------------------------------------
\* The invariant and the theorems.

LEMMA AnswerStep == AnswerInv /\ [Next]_vars => AnswerInv'
  <1> SUFFICES ASSUME StoreInv, AnswerOK, [Next]_vars PROVE AnswerOK'
    BY NextKeeps DEF AnswerInv
  <1>1. ASSUME NEW c \in Clients, NEW req \in Requests, Accept(c, req) PROVE AnswerOK'
    BY <1>1, AcceptAnswers
  <1>2. ASSUME NEW c \in Clients, Serve(c) PROVE AnswerOK'
    BY <1>2, SaveImageAnswers, InsertArticleAnswers, LoadArticleAnswers,
       UpdateArticleAnswers, UnlinkAnswers, InsertNameAnswers, InsertLinkAnswers,
       ByIdAnswers, RespondAnswers
    DEF Serve
  <1>3. ASSUME NEW c \in Clients,
               StatementFails(c) \/ UnlinkFails(c) \/ ImageFails(c) \/ ImageCutShort(c)
        PROVE  AnswerOK'
    <2>1. CASE UnlinkFails(c)
      BY <2>1, Thrown DEF UnlinkFails, At
    <2> QED
      BY <1>3, <2>1, StatementFailsAnswers, SaveImageAnswers
  <1>4. CASE Kill
    <2>1. last' = NoReq /\ \A c \in Clients : ~Busy(c)'
      BY <1>4 DEF Kill, Busy, Idle
    <2> QED
      BY <2>1, NoAnswer DEF AnswerOK, AllKept
  <1>5. CASE UNCHANGED vars
    <2>1. UNCHANGED <<articles, links, images, job, last>>
      BY <1>5 DEF vars
    <2>2. Quiet'
      BY <2>1 DEF AnswerOK, Quiet, Busy
    <2>3. AllKept'
      <3> SUFFICES ASSUME NEW c \in Clients, Busy(c)' PROVE Kept(job[c])'
        BY DEF AllKept
      <3>1. Kept(job[c])
        BY <2>1 DEF AnswerOK, AllKept, Busy
      <3>2. OnPlan(job[c])'
        BY <2>1, <3>1 DEF Kept, OnPlan, Done
      <3>3. job[c].req.h = "creator" => CreatorKept(job[c])'
        BY <2>1, <3>1 DEF Kept, CreatorKept, Done, Linked, LinksOf
      <3>4. job[c].req.h = "editor" => EditorKept(job[c])'
        BY <2>1, <3>1 DEF Kept, EditorKept, Done, Behind, RowAsAsked, LinksOf
      <3> QED
        BY <2>1, <3>2, <3>3, <3>4 DEF Kept
    <2>4. CreatedMeansStored'
      <3> SUFFICES ASSUME Answered("creator", 200)' PROVE CreatedMeansStored'
        BY DEF CreatedMeansStored
      <3>1. Answered("creator", 200) /\ CreatedMeansStored /\ Rows' = Rows
        BY <2>1 DEF AnswerOK, Answered, Rows
      <3>2. ASSUME NEW k \in Kinds
            PROVE  /\ Cardinality(LinksOf(last.id, k)') = Len(last.req.lists[k])
                   /\ \A i \in DOMAIN last.req.lists[k] :
                         \E m \in LinksOf(last.id, k)' : <<last.req.lists[k][i], m>> \in Like
        <4>1. LinksOf(last.id, k)' = LinksOf(last.id, k)
          BY <2>1 DEF LinksOf
        <4> QED
          BY <2>1, <3>1, <4>1 DEF CreatedMeansStored
      <3> QED
        BY <2>1, <3>1, <3>2 DEF CreatedMeansStored
    <2>5. EditedMeansStored'
      BY <2>1 DEF AnswerOK, EditedMeansStored, Answered, LinksOf, Rows
    <2> QED
      BY <2>2, <2>3, <2>4, <2>5 DEF AnswerOK
  <1> QED
    BY <1>1, <1>2, <1>3, <1>4, <1>5 DEF Next

LEMMA AnswerInvariant == Spec => []AnswerInv
  <1>1. Init => AnswerInv
    <2> SUFFICES ASSUME Init PROVE AnswerOK
      BY InitKeeps DEF AnswerInv
    <2>1. last = NoReq /\ \A c \in Clients : ~Busy(c)
      BY DEF Init, Busy, Idle
    <2> QED
      BY <2>1 DEF AnswerOK, Quiet, AllKept, CreatedMeansStored, EditedMeansStored, Answered
  <1> QED
    BY <1>1, AnswerStep, PTL DEF Spec

\* When the creator answers 200, the row is as requested, its preview file was
\* written, and each name of the lists gave one link of its own.
THEOREM CreatedMeansStoredHolds == Spec => []CreatedMeansStored
  <1>1. AnswerInv => CreatedMeansStored
    BY DEF AnswerInv, AnswerOK
  <1> QED
    BY <1>1, AnswerInvariant, PTL

\* When the editor answers 200, the row is as requested and a list that was
\* sent leaves no link of its kind that was not requested.
THEOREM EditedMeansStoredHolds == Spec => []EditedMeansStored
  <1>1. AnswerInv => EditedMeansStored
    BY DEF AnswerInv, AnswerOK
  <1> QED
    BY <1>1, AnswerInvariant, PTL
=============================================================================
