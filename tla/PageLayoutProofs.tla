-------------------------- MODULE PageLayoutProofs --------------------------
(***************************************************************************)
(* Theorems of PageLayout for every number of articles. The loop invariant *)
(* is that the articles laid out so far are the first i, in order.         *)
(***************************************************************************)
EXTENDS PageLayout, SequenceTheorems, TLAPS

LayoutInv ==
    /\ page \in {"front", "category"}
    /\ size \in 0..MaxSize
    /\ bad \in SUBSET Positions
    /\ latest \in BOOLEAN
    /\ template \in 1..3
    /\ i \in 0..size
    /\ shown = [k \in 1..i |-> k - 1]
    /\ outcome \in {"building", "shown", "redirected", "terminated"}
    /\ outcome = "shown" => i = size

\* A block that can be read consists of the next n articles, in order: the
\* late blocks always reach past the end.
LEMMA ReadableBlock ==
    ASSUME LayoutInv, i < size, Readable(Block(size - i))
    PROVE  \E n \in 1..(size - i) : Block(size - i) = FirstArticles(n)
  <1> DEFINE left == size - i
             block == Block(left)
  <1>1. left \in Nat \ {0} /\ left <= size /\ size - i = left
    BY SizeAssumption DEF LayoutInv
  <1>2. \/ left >= 5 /\ block = FirstArticles(5)
        \/ left < 5 /\ block = FirstArticles(left)
        \/ left \in {2, 3} /\ block = LateArticles(left)
    <2> HIDE DEF left
    <2>1. template \in {1, 2, 3}
      BY DEF LayoutInv
    <2>2. page \in {"front", "category"}
      BY DEF LayoutInv
    <2> QED
      BY <1>1, <2>1, <2>2
      DEF Block, FrontFull, FrontTail, Full1, Tail1, Full2, Tail2, Full3, Tail3
  <1>3. CASE left >= 5 /\ block = FirstArticles(5)
    BY <1>1, <1>3
  <1>4. CASE left < 5 /\ block = FirstArticles(left)
    BY <1>1, <1>4
  <1>5. CASE left \in {2, 3} /\ block = LateArticles(left)
    <2>1. left \in DOMAIN block /\ block[left] = left
      BY <1>1, <1>5 DEF LateArticles
    <2>2. i + left < size
      BY <2>1 DEF Readable
    <2> QED
      BY <2>2, <1>1, SizeAssumption DEF LayoutInv
  <1> QED
    BY <1>2, <1>3, <1>4, <1>5

\* Laying out the next n articles keeps the loop invariant.
LEMMA PlaceKeepsInv ==
    ASSUME LayoutInv, PlaceBlock
    PROVE  LayoutInv'
  <1> DEFINE block == Block(size - i)
  <1>1. PICK n \in 1..(size - i) : block = FirstArticles(n)
    BY ReadableBlock DEF PlaceBlock
  <1>2. /\ size \in Nat /\ i \in Nat /\ n \in Nat \ {0}
        /\ i + n <= size
    BY <1>1, SizeAssumption DEF LayoutInv
  <1>3. /\ DOMAIN block = 1..n
        /\ Len(block) = n
        /\ \A k \in 1..n : block[k] = k - 1
    BY <1>1, <1>2 DEF FirstArticles
  <1>4. i' = i + n
    BY <1>2, <1>3 DEF PlaceBlock, IndexAfter
  <1>5. shown' = [k \in 1..i' |-> k - 1]
    <2> DEFINE more == [k \in 1..n |-> i + (k - 1)]
    <2>1. shown' = shown \o more
      BY <1>3 DEF PlaceBlock
    <2>2. shown = [k \in 1..i |-> k - 1]
      BY DEF LayoutInv
    <2>3. shown \in Seq(Int) /\ more \in Seq(Int) /\ Len(shown) = i /\ Len(more) = n
      BY <1>2, <2>2
    <2> DEFINE all == [k \in 1..(i + n) |-> k - 1]
    <2>4. all \in Seq(Int) /\ Len(all) = i + n
      BY <1>2
    <2>5. /\ shown \o more \in Seq(Int)
          /\ Len(shown \o more) = i + n
          /\ \A k \in 1..(i + n) :
                (shown \o more)[k] = IF k <= i THEN shown[k] ELSE more[k - i]
      <3> HIDE DEF more
      <3> QED
        BY <2>3, ConcatProperties
    <2>6. \A k \in 1..(i + n) :
             (IF k <= i THEN shown[k] ELSE more[k - i]) = k - 1
      BY <1>2, <2>2
    <2>7. \A k \in 1..(i + n) : (shown \o more)[k] = all[k]
      BY <2>5, <2>6
    <2>8. shown \o more = all
      <3> HIDE DEF more, all
      <3> QED
        BY <2>4, <2>5, <2>7, SeqEqual
    <2> QED
      BY <1>4, <2>1, <2>8
  <1>6. template' \in 1..3
    BY DEF PlaceBlock, Rotate, LayoutInv
  <1>7. UNCHANGED <<page, size, bad, latest, outcome>>
    BY DEF PlaceBlock, input
  <1>8. i' \in 0..size' /\ size' \in 0..MaxSize
    BY <1>2, <1>4, <1>7, SizeAssumption DEF LayoutInv
  <1>9. bad' \in SUBSET Positions'
    BY <1>7 DEF LayoutInv, Positions
  <1>10. outcome' = "building"
    BY <1>7 DEF PlaceBlock
  <1> QED
    BY <1>5, <1>6, <1>7, <1>8, <1>9, <1>10 DEF LayoutInv

LEMMA LayoutInvariant == Spec => []LayoutInv
  <1>1. Init => LayoutInv
    <2> SUFFICES ASSUME Init PROVE LayoutInv
      OBVIOUS
    <2>1. bad \in SUBSET Positions
      BY SizeAssumption DEF Init, Positions
    <2>2. shown = [k \in 1..i |-> k - 1]
      BY DEF Init
    <2>3. latest \in BOOLEAN
      BY DEF Init
    <2> QED
      BY <2>1, <2>2, <2>3, SizeAssumption DEF Init, LayoutInv
  <1>2. LayoutInv /\ [Next]_vars => LayoutInv'
    <2> SUFFICES ASSUME LayoutInv, [Next]_vars
                 PROVE  LayoutInv'
      OBVIOUS
    <2>1. CASE NoLatest
      BY <2>1 DEF NoLatest, LayoutInv, input
    <2>2. CASE PlaceBlock
      BY <2>2, PlaceKeepsInv
    <2>3. CASE BreakBlock
      BY <2>3 DEF BreakBlock, Exception, LayoutInv, input
    <2>4. CASE Finish
      BY <2>4, SizeAssumption DEF Finish, LayoutInv, input
    <2>5. CASE UNCHANGED vars
      BY <2>5 DEF vars, input, LayoutInv
    <2> QED
      BY <2>1, <2>2, <2>3, <2>4, <2>5 DEF Next
  <1> QED
    BY <1>1, <1>2, PTL DEF Spec

\* Every variable keeps its type, whatever the number of articles.
THEOREM TypeCorrect == Spec => []TypeOK
  <1>1. LayoutInv => TypeOK
    <2> SUFFICES ASSUME LayoutInv PROVE TypeOK
      OBVIOUS
    <2>1. size \in 0..MaxSize /\ i \in 0..size
      BY DEF LayoutInv
    <2>2. i \in 0..MaxSize
      BY <2>1, SizeAssumption
    <2>3. \A k \in 1..i : k - 1 \in Positions
      BY <2>1, SizeAssumption DEF Positions
    <2>4. shown \in Seq(Positions)
      BY <2>1, <2>3 DEF LayoutInv
    <2> QED
      BY <2>1, <2>2, <2>4 DEF LayoutInv, TypeOK
  <1> QED
    BY <1>1, LayoutInvariant, PTL

\* Whatever the number of articles, a page that is shown has each of them
\* once and in order.
THEOREM EachArticleOnceHolds == Spec => []EachArticleOnce
  <1>1. LayoutInv => EachArticleOnce
    BY DEF LayoutInv, EachArticleOnce
  <1> QED
    BY <1>1, LayoutInvariant, PTL

\* Whatever the number of articles, the front page is built unless nothing is
\* published or an SEO description cannot be read.
THEOREM FrontPageBuiltHolds == Spec => []FrontPageBuilt
  <1>1. Init => FrontPageBuilt
    BY DEF Init, FrontPageBuilt
  <1>2. LayoutInv /\ FrontPageBuilt /\ [Next]_vars => FrontPageBuilt'
    <2> SUFFICES ASSUME LayoutInv, FrontPageBuilt, [Next]_vars
                 PROVE  FrontPageBuilt'
      OBVIOUS
    <2>1. CASE NoLatest
      BY <2>1 DEF NoLatest, FrontPageBuilt, input
    <2>2. CASE PlaceBlock \/ Finish
      BY <2>2 DEF PlaceBlock, Finish, FrontPageBuilt, input
    <2>3. ASSUME BreakBlock, page = "front" PROVE FrontPageBuilt'
      <3> DEFINE left == size - i
                 n == IF left >= 5 THEN 5 ELSE left
      <3>1. left \in Nat \ {0} /\ size \in Nat /\ i \in Nat
        BY <2>3, SizeAssumption DEF BreakBlock, LayoutInv
      <3>2. Block(size - i) = FirstArticles(n)
        BY <2>3 DEF Block, FrontFull, FrontTail
      <3>3. \A k \in 1..n : i + (k - 1) < size
        BY <3>1
      <3>4. \E k \in 1..n : i + (k - 1) \in bad
        BY <2>3, <3>1, <3>2, <3>3 DEF BreakBlock, Readable, FirstArticles
      <3> QED
        BY <2>3, <3>4 DEF BreakBlock, FrontPageBuilt, input
    <2>4. ASSUME BreakBlock, page # "front" PROVE FrontPageBuilt'
      BY <2>4 DEF BreakBlock, input, FrontPageBuilt
    <2>5. CASE UNCHANGED vars
      BY <2>5 DEF vars, input, FrontPageBuilt
    <2> QED
      BY <2>1, <2>2, <2>3, <2>4, <2>5 DEF Next
  <1> QED
    BY <1>1, <1>2, LayoutInvariant, PTL DEF Spec

-----------------------------------------------------------------------------
\* Where the category page stands: the second template is used at five past
\* the tens, the third at the tens, and an article that cannot be read is
\* still ahead. A run that got to the end did not end at seven or eight.
CategoryInv ==
    /\ latest
    /\ template = 1 => i = 0
    /\ template = 2 => i % 10 = 5 \/ i = size
    /\ template = 3 => i % 10 = 0 \/ i = size
    /\ \A p \in bad : i <= p /\ p < size
    /\ i = size => size % 10 \notin {7, 8}
    /\ outcome # "terminated"
    /\ outcome = "redirected" => bad # {} \/ size % 10 \in {7, 8}

\* A block of the category page that can be read takes five articles, or all
\* that are left; the second template's late blocks cannot be read.
LEMMA CategoryBlock ==
    ASSUME page = "category", LayoutInv, i < size, Readable(Block(size - i))
    PROVE  /\ i + Len(Block(size - i)) = IF size - i >= 5 THEN i + 5 ELSE size
           /\ IndexAfter(Block(size - i)) = i + Len(Block(size - i))
           /\ \A k \in 1..Len(Block(size - i)) : i + (k - 1) \notin bad
           /\ template = 2 => size - i \notin {2, 3}
  <1> DEFINE left == size - i
             n == IF left >= 5 THEN 5 ELSE left
             block == Block(left)
  <1>1. left \in Nat \ {0} /\ size \in Nat /\ i \in Nat /\ n \in Nat \ {0}
    BY SizeAssumption DEF LayoutInv
  <1>2. template \in {1, 2, 3}
    BY DEF LayoutInv
  <1>3. PICK m \in 1..left : block = FirstArticles(m)
    BY ReadableBlock
  <1>4. /\ block = FirstArticles(n)
        /\ template = 2 => left \notin {2, 3}
    <2>1. CASE template = 2 /\ left \in {2, 3}
      <3>1. block = LateArticles(left) /\ "category" # "front"
        BY <1>1, <2>1 DEF Block, Full2, Tail2
      <3>2. block[1] = 1
        BY <1>1, <2>1, <3>1 DEF LateArticles
      <3>3. block[1] = 0
        BY <1>1, <1>3 DEF FirstArticles
      <3> QED
        BY <3>2, <3>3
    <2>2. CASE ~(template = 2 /\ left \in {2, 3})
      <3> HIDE DEF left
      <3> QED
        BY <1>1, <1>2, <2>2 DEF Block, Full1, Tail1, Full2, Tail2, Full3, Tail3
    <2> QED
      BY <2>1, <2>2
  <1>5. DOMAIN block = 1..n /\ Len(block) = n /\ \A k \in 1..n : block[k] = k - 1
    BY <1>1, <1>4 DEF FirstArticles
  <1>6. \A k \in 1..n : i + (k - 1) \notin bad
    BY <1>1, <1>5 DEF Readable
  <1>7. IndexAfter(block) = i + n
    <2>1. n \in 1..n /\ block[n] = n - 1
      BY <1>1, <1>5
    <2>2. IndexAfter(block) = i + (n - 1) + 1
      <3> HIDE DEF n, left
      <3> QED
        BY <1>5, <2>1 DEF IndexAfter
    <2> QED
      BY <1>1, <2>2
  <1>8. i + n = (IF left >= 5 THEN i + 5 ELSE size)
    BY <1>1
  <1> HIDE DEF n
  <1> QED
    BY <1>4, <1>5, <1>6, <1>7, <1>8

\* Laying out a block of the category page keeps CategoryInv.
LEMMA CategoryPlace ==
    ASSUME page = "category", LayoutInv, CategoryInv, PlaceBlock
    PROVE  CategoryInv'
  <1> DEFINE left == size - i
             n == Len(Block(left))
  <1>1. /\ size \in Nat /\ i \in Nat /\ i < size
        /\ template \in {1, 2, 3}
    BY SizeAssumption DEF PlaceBlock, LayoutInv
  <1>2. UNCHANGED <<page, size, bad, latest, outcome>> /\ outcome = "building"
    BY DEF PlaceBlock, input
  <1>3. /\ i + n = (IF left >= 5 THEN i + 5 ELSE size)
        /\ i' = i + n
        /\ \A k \in 1..n : i + (k - 1) \notin bad
        /\ template = 2 => left \notin {2, 3}
    BY CategoryBlock DEF PlaceBlock
  <1>4. template' = (IF template = 3 THEN 2 ELSE template + 1)
    BY DEF PlaceBlock, Rotate
  <1>5. i' = (IF left >= 5 THEN i + 5 ELSE size)
    BY <1>3
  <1>6. \/ template = 1 /\ i = 0
        \/ template = 2 /\ i % 10 = 5
        \/ template = 3 /\ i % 10 = 0
    BY <1>1 DEF CategoryInv
  <1>7. /\ template' # 1
        /\ template' = 2 => i' % 10 = 5 \/ i' = size
        /\ template' = 3 => i' % 10 = 0 \/ i' = size
    BY <1>1, <1>4, <1>5, <1>6
  <1>8. \A p \in bad : i' <= p /\ p < size
    <2> SUFFICES ASSUME NEW p \in bad PROVE i' <= p /\ p < size
      OBVIOUS
    <2>1. p \in Int /\ i <= p /\ p < size
      BY SizeAssumption DEF LayoutInv, Positions, CategoryInv
    <2>2. n \in Int /\ n = (IF left >= 5 THEN 5 ELSE left)
      <3>1. Block(left) \in Seq(Int)
        <4>1. PICK m \in 1..left : Block(left) = FirstArticles(m)
          BY ReadableBlock DEF PlaceBlock
        <4> QED
          BY <1>1, <4>1 DEF FirstArticles
      <3>2. n \in Nat
        BY <3>1
      <3> HIDE DEF n
      <3> QED
        BY <1>1, <1>3, <3>2
    <2>3. CASE p < i + n
      <3>1. p - i + 1 \in 1..n /\ i + ((p - i + 1) - 1) = p
        BY <1>1, <2>1, <2>2, <2>3
      <3> QED
        BY <1>3, <3>1
    <2> QED
      BY <1>1, <1>3, <2>1, <2>2, <2>3
  <1>9. i' = size => size % 10 \notin {7, 8}
    BY <1>1, <1>3, <1>5, <1>6
  <1> QED
    BY <1>2, <1>7, <1>8, <1>9 DEF CategoryInv

\* Whatever the number of articles, the category page is a redirect exactly
\* when an SEO description cannot be read or seven or eight are left by tens.
THEOREM CategoryPageBuiltHolds == Spec => []CategoryPageBuilt
  <1> DEFINE Inv == page = "category" => CategoryInv
  <1>1. Init => Inv
    <2> SUFFICES ASSUME Init, page = "category" PROVE CategoryInv
      OBVIOUS
    <2>1. latest /\ template = 1 /\ i = 0 /\ outcome = "building" /\ size \in Nat
      BY SizeAssumption DEF Init
    <2>2. \A p \in bad : i <= p /\ p < size
      BY SizeAssumption DEF Init
    <2>3. i = size => size % 10 \notin {7, 8}
      BY <2>1
    <2> QED
      BY <2>1, <2>2, <2>3 DEF CategoryInv
  <1>2. LayoutInv /\ Inv /\ [Next]_vars => Inv'
    <2>0. [Next]_vars => page' = page
      BY DEF Next, vars, input, NoLatest, PlaceBlock, BreakBlock, Finish
    <2> SUFFICES ASSUME LayoutInv, page = "category", CategoryInv, [Next]_vars
                 PROVE  CategoryInv'
      BY <2>0
    <2>1. CASE NoLatest
      BY <2>1 DEF NoLatest, input, CategoryInv
    <2>2. CASE PlaceBlock
      BY <2>2, CategoryPlace
    <2>3. CASE BreakBlock
      <3> DEFINE left == size - i
                 n == IF left >= 5 THEN 5 ELSE left
      <3>1. left \in Nat \ {0} /\ size \in Nat /\ i \in Nat /\ template \in {1, 2, 3}
        BY <2>3, SizeAssumption DEF BreakBlock, LayoutInv
      <3>2. bad # {} \/ size % 10 \in {7, 8}
        <4> SUFFICES ASSUME bad = {} PROVE size % 10 \in {7, 8}
          OBVIOUS
        <4>1. Block(left) # FirstArticles(n)
          <5> SUFFICES ASSUME Block(left) = FirstArticles(n) PROVE FALSE
            OBVIOUS
          <5>1. \A k \in 1..n : i + (k - 1) < size
            BY <3>1
          <5> QED
            BY <2>3, <3>1, <5>1 DEF BreakBlock, Readable, FirstArticles
        <4>2. template = 2 /\ left \in {2, 3}
          <5> HIDE DEF left
          <5> QED
            BY <3>1, <4>1 DEF Block, Full1, Tail1, Full2, Tail2, Full3, Tail3
        <4>3. i % 10 = 5
          BY <3>1, <4>2 DEF CategoryInv
        <4> QED
          BY <3>1, <4>2, <4>3
      <3>3. outcome' = "redirected" /\ UNCHANGED <<size, bad, latest, i, template>>
        BY <2>3 DEF BreakBlock, Exception, input
      <3> QED
        BY <3>2, <3>3 DEF CategoryInv
    <2>4. CASE Finish
      BY <2>4 DEF Finish, input, CategoryInv
    <2>5. CASE UNCHANGED vars
      BY <2>5 DEF vars, input, CategoryInv
    <2> QED
      BY <2>1, <2>2, <2>3, <2>4, <2>5 DEF Next
  <1>3. LayoutInv /\ Inv => CategoryPageBuilt
    <2> SUFFICES ASSUME LayoutInv, CategoryInv, outcome = "shown"
                 PROVE  bad = {} /\ size % 10 \notin {7, 8}
      BY DEF LayoutInv, CategoryInv, CategoryPageBuilt
    <2>1. i = size /\ size \in Nat
      BY SizeAssumption DEF LayoutInv
    <2>2. \A p \in bad : p \in Int
      BY SizeAssumption DEF LayoutInv, Positions
    <2> QED
      BY <2>1, <2>2 DEF CategoryInv
  <1> QED
    BY <1>1, <1>2, <1>3, LayoutInvariant, PTL DEF Spec
=============================================================================
