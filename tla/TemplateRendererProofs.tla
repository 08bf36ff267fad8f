------------------------ MODULE TemplateRendererProofs ------------------------
(***************************************************************************)
(* Theorems of TemplateRenderer, for every template, every data and every  *)
(* order in which the keys come.                                           *)
(*                                                                         *)
(* The prover's library states induction over an operator, which none of   *)
(* the backends can use: LeastOf brings it back to sets, from the library's*)
(* minimum of a well-founded relation, and Induction and SeqInduction are  *)
(* drawn from it. With them come the facts about FlattenSeq and then those *)
(* about Texts(h, s), a sequence with h of each of its tokens in its place:*)
(* what the code replaces, the values and the page itself are all such.    *)
(*                                                                         *)
(* Page(t, d, K, k) is the page up to position k of the template while the *)
(* keys of K wait. PutPage: replacing a key of K takes it out of K, in any *)
(* order. Laid ties the output to the page while cycles are replaced: its  *)
(* front is the page up to some position, with no cycle that begins in it, *)
(* and its rest is the rest of the template (LaidFirst, LaidStep,          *)
(* LaidLast).                                                              *)
(***************************************************************************)
EXTENDS TemplateRenderer, WellFoundedInduction, NaturalsInduction, SequenceTheorems, TLAPS

-----------------------------------------------------------------------------
\* Natural numbers have a least one.
LEMMA LeastOf ==
    ASSUME NEW T \in SUBSET Nat, T # {}
    PROVE  \E n \in T : \A m \in T : n <= m
  <1> DEFINE R == {ss \in Nat \X Nat : ss[1] < ss[2]}
  <1>1. IsWellFoundedOn(R, Nat)
    BY NatLessThanWellFounded DEF OpToRel
  <1> HIDE DEF R
  <1>2. PICK x \in T : \A y \in T : ~ (<<y, x>> \in R)
    BY <1>1, WFMin
  <1>3. \A y \in T : ~(y < x)
    BY <1>2 DEF R
  <1> QED
    BY <1>3

\* Induction over the natural numbers, over a set of them.
LEMMA Induction ==
    ASSUME NEW T \in SUBSET Nat, 0 \in T, \A n \in T : n + 1 \in T
    PROVE  T = Nat
  <1>1. SUFFICES ASSUME Nat \ T # {} PROVE FALSE
    OBVIOUS
  <1>2. PICK n \in Nat \ T : \A m \in Nat \ T : n <= m
    BY <1>1, LeastOf
  <1>3. n # 0 /\ n - 1 \in Nat /\ n - 1 \in T
    BY <1>2
  <1> QED
    BY <1>2, <1>3

\* f is the recursive function of FlattenSeq over the first n pieces.
Flattens(f, F, n) == f = [i \in 1..n |-> IF i = 1 THEN F[i] ELSE f[i - 1] \o F[i]]

\* The function at one of its arguments.
LEMMA FlattensAt ==
    ASSUME NEW f, NEW F, NEW n, Flattens(f, F, n), NEW i \in 1..n
    PROVE  f[i] = IF i = 1 THEN F[i] ELSE f[i - 1] \o F[i]
  BY Zenon DEF Flattens

\* There is such a function for every number of pieces.
LEMMA FlattensExists ==
    ASSUME NEW F, NEW n \in Nat
    PROVE  \E f : Flattens(f, F, n)
  <1> DEFINE T == {m \in Nat : \E f : Flattens(f, F, m)}
  <1>1. 0 \in T
    <2>1. Flattens([i \in {} |-> {}], F, 0)
      BY DEF Flattens
    <2> QED
      BY <2>1
  <1>2. ASSUME NEW m \in T PROVE m + 1 \in T
    <2>1. PICK f : Flattens(f, F, m)
      OBVIOUS
    <2>2. PICK g : g = [i \in 1..m + 1 |->
                        IF i = m + 1 THEN (IF m = 0 THEN F[1] ELSE f[m] \o F[i]) ELSE f[i]]
      OBVIOUS
    <2>3. ASSUME NEW i \in 1..m + 1
          PROVE  g[i] = IF i = 1 THEN F[i] ELSE g[i - 1] \o F[i]
      <3>1. CASE i = m + 1
        BY <3>1, <2>2
      <3>2. CASE i # m + 1
        <4>1. i \in 1..m /\ g[i] = f[i] /\ (i # 1 => g[i - 1] = f[i - 1])
          BY <3>2, <2>2
        <4>2. f[i] = IF i = 1 THEN F[i] ELSE f[i - 1] \o F[i]
          BY <4>1, <2>1, FlattensAt
        <4> QED
          BY <4>1, <4>2
      <3> QED
        BY <3>1, <3>2
    <2>4. Flattens(g, F, m + 1)
      BY <2>2, <2>3 DEF Flattens
    <2> QED
      BY <2>4
  <1> HIDE DEF T
  <1>3. T = Nat
    <2>1. T \in SUBSET Nat
      BY DEF T
    <2> QED
      BY <1>1, <1>2, <2>1, Induction
  <1> QED
    BY <1>3 DEF T

\* What FlattenSeq of one or more pieces is.
LEMMA FlattenIs ==
    ASSUME NEW F, Len(F) \in Nat \ {0}
    PROVE  \E f : Flattens(f, F, Len(F)) /\ FlattenSeq(F) = f[Len(F)]
  <1> DEFINE g == CHOOSE f : f = [i \in 1..Len(F) |-> IF i = 1 THEN F[i] ELSE f[i - 1] \o F[i]]
  <1>1. FlattenSeq(F) = g[Len(F)]
    BY Zenon DEF FlattenSeq
  <1>2. Flattens(g, F, Len(F))
    <2>1. \E f : f = [i \in 1..Len(F) |-> IF i = 1 THEN F[i] ELSE f[i - 1] \o F[i]]
      BY FlattensExists DEF Flattens
    <2> QED
      BY <2>1, Zenon DEF Flattens
  <1> QED
    BY <1>1, <1>2

\* Induction over sequences, over a set of them.
LEMMA SeqInduction ==
    ASSUME NEW S, NEW T \in SUBSET Seq(S), <<>> \in T,
           \A s \in T : \A e \in S : Append(s, e) \in T
    PROVE  T = Seq(S)
  <1> DEFINE N == {n \in Nat : \A s \in Seq(S) : Len(s) = n => s \in T}
  <1>1. 0 \in N
    BY EmptySeq
  <1>2. ASSUME NEW n \in N PROVE n + 1 \in N
    <2>1. ASSUME NEW s \in Seq(S), Len(s) = n + 1 PROVE s \in T
      <3>1. PICK t \in Seq(S), e \in S : s = Append(t, e)
        <4>1. s # <<>>
          BY <2>1, EmptySeq
        <4> HIDE DEF N
        <4> QED
          BY <4>1, SequenceEmptyOrAppend
      <3>2. Len(t) = n
        BY <2>1, <3>1, AppendProperties, LenProperties
      <3> QED
        BY <3>1, <3>2
    <2> QED
      BY <2>1
  <1>3. N = Nat
    <2>1. N \in SUBSET Nat
      OBVIOUS
    <2> HIDE DEF N
    <2> QED
      BY <1>1, <1>2, <2>1, Induction
  <1>4. \A s \in Seq(S) : Len(s) \in N
    BY <1>3, LenProperties
  <1> QED
    BY <1>4

\* Its value at a piece depends on the pieces before it only.
LEMMA FlattensAgree ==
    ASSUME NEW F, NEW G, NEW n \in Nat, NEW m \in Nat, n <= m, \A i \in 1..n : F[i] = G[i],
           NEW f, Flattens(f, F, n), NEW g, Flattens(g, G, m)
    PROVE  n # 0 => f[n] = g[n]
  <1> DEFINE T == {k \in Nat : k \in 1..n => f[k] = g[k]}
  <1>1. 0 \in T
    OBVIOUS
  <1>2. ASSUME NEW k \in T PROVE k + 1 \in T
    <2>1. SUFFICES ASSUME k + 1 \in 1..n PROVE f[k + 1] = g[k + 1]
      OBVIOUS
    <2>2. k + 1 \in 1..m /\ k + 1 - 1 = k /\ F[k + 1] = G[k + 1]
      BY <2>1
    <2>3. f[k + 1] = IF k + 1 = 1 THEN F[k + 1] ELSE f[k + 1 - 1] \o F[k + 1]
      BY <2>1, FlattensAt
    <2>4. g[k + 1] = IF k + 1 = 1 THEN G[k + 1] ELSE g[k + 1 - 1] \o G[k + 1]
      BY <2>2, FlattensAt
    <2>5. k # 0 => f[k] = g[k]
      BY <2>1
    <2> QED
      BY <2>2, <2>3, <2>4, <2>5
  <1>3. T = Nat
    <2>1. T \in SUBSET Nat
      OBVIOUS
    <2> HIDE DEF T
    <2> QED
      BY <1>1, <1>2, <2>1, Induction
  <1> QED
    BY <1>3

\* FlattenSeq over the empty sequence, and of one piece more.
LEMMA FlattenNone == FlattenSeq(<<>>) = <<>>
  BY EmptySeq, Zenon DEF FlattenSeq

\* FlattenSeq of one piece more.
LEMMA FlattenAppend ==
    ASSUME NEW S, NEW F \in Seq(Seq(S)), NEW s \in Seq(S)
    PROVE  FlattenSeq(Append(F, s)) = FlattenSeq(F) \o s
  <1>1. PICK G : G = Append(F, s)
    OBVIOUS
  <1>2. /\ G \in Seq(Seq(S)) /\ Len(G) = Len(F) + 1 /\ G[Len(F) + 1] = s
        /\ Len(F) \in Nat /\ \A i \in 1..Len(F) : F[i] = G[i]
    BY <1>1, AppendProperties, LenProperties
  <1>3. PICK n \in Nat : n = Len(F)
    BY <1>2
  <1>4. PICK g : Flattens(g, G, n + 1) /\ FlattenSeq(G) = g[n + 1]
    <2>1. Len(G) \in Nat \ {0}
      BY <1>2
    <2>2. Len(G) = n + 1
      BY <1>2, <1>3
    <2> QED
      BY <2>1, <2>2, FlattenIs
  <1>5. g[n + 1] = IF n + 1 = 1 THEN G[n + 1] ELSE g[n + 1 - 1] \o G[n + 1]
    <2>1. n + 1 \in 1..n + 1
      OBVIOUS
    <2> QED
      BY <1>4, <2>1, FlattensAt
  <1>6. CASE F = <<>>
    <2>1. n + 1 = 1
      BY <1>3, <1>6, EmptySeq
    <2>2. FlattenSeq(G) = s
      BY <1>2, <1>3, <1>4, <1>5, <2>1
    <2>3. <<>> \o s = s
      BY ConcatEmptySeq
    <2> QED
      BY <1>1, <1>6, <2>2, <2>3, FlattenNone
  <1>7. CASE F # <<>>
    <2>1. Len(F) \in Nat \ {0}
      BY <1>7, EmptySeq
    <2>2. PICK f : Flattens(f, F, n) /\ FlattenSeq(F) = f[n]
      BY <1>3, <2>1, FlattenIs
    <2>3. n # 0 => f[n] = g[n]
      <3>1. n + 1 \in Nat /\ n <= n + 1 /\ \A i \in 1..n : F[i] = G[i]
        BY <1>2, <1>3
      <3> QED
        BY <1>4, <2>2, <3>1, FlattensAgree
    <2>4. n + 1 # 1 /\ n + 1 - 1 = n /\ n \in 1..n
      BY <1>3, <2>1
    <2>5. g[n + 1] = g[n] \o G[n + 1] /\ g[n] = f[n] /\ G[n + 1] = s
      <3>1. G[n + 1] = s
        BY <1>2, <1>3
      <3> QED
        BY <1>5, <2>3, <2>4, <3>1
    <2> QED
      BY <1>1, <1>4, <2>2, <2>5
  <1> QED
    BY <1>6, <1>7

\* FlattenSeq gives a sequence of what its pieces are made of.
LEMMA FlattenType ==
    ASSUME NEW S, NEW F \in Seq(Seq(S))
    PROVE  FlattenSeq(F) \in Seq(S)
  <1> DEFINE T == {G \in Seq(Seq(S)) : FlattenSeq(G) \in Seq(S)}
  <1>1. <<>> \in T
    BY FlattenNone, EmptySeq
  <1>2. ASSUME NEW G \in T, NEW s \in Seq(S) PROVE Append(G, s) \in T
    BY FlattenAppend, AppendProperties, ConcatProperties
  <1>3. T \in SUBSET Seq(Seq(S))
    OBVIOUS
  <1> HIDE DEF T
  <1>4. T = Seq(Seq(S))
    BY <1>1, <1>2, <1>3, SeqInduction
  <1> QED
    BY <1>4 DEF T

\* h gives a sequence over U for each of S.
Writes(h, S, U) == \A e \in S : h[e] \in Seq(U)

\* What h gives for each element of s.
Pieces(h, s) == [p \in DOMAIN s |-> h[s[p]]]

\* The pieces of one element more.
LEMMA PiecesAppend ==
    ASSUME NEW S, NEW U, NEW h, Writes(h, S, U), NEW s \in Seq(S), NEW e \in S
    PROVE  /\ Pieces(h, s) \in Seq(Seq(U)) /\ h[e] \in Seq(U)
           /\ Pieces(h, Append(s, e)) = Append(Pieces(h, s), h[e])
  <1> DEFINE t == Append(s, e)
             V == Seq(U)
             Hs == [p \in DOMAIN s |-> h[s[p]]]
             Ht == [p \in DOMAIN t |-> h[t[p]]]
  <1>0. \A x \in S : h[x] \in V
    BY DEF Writes
  <1> HIDE DEF V
  <1>1. Len(s) \in Nat /\ DOMAIN s = 1..Len(s) /\ \A p \in 1..Len(s) : s[p] \in S
    BY LenProperties, ElementOfSeq
  <1>2. /\ t \in Seq(S) /\ Len(t) = Len(s) + 1 /\ t[Len(s) + 1] = e
        /\ \A p \in 1..Len(s) : t[p] = s[p]
    BY AppendProperties
  <1>3. DOMAIN t = 1..Len(s) + 1 /\ \A p \in 1..Len(s) + 1 : t[p] \in S
    BY <1>2, LenProperties, ElementOfSeq
  <1> HIDE DEF t
  <1>4. Hs \in Seq(V) /\ Len(Hs) = Len(s)
    BY <1>0, <1>1
  <1>5. Ht \in Seq(V) /\ Len(Ht) = Len(s) + 1
    BY <1>0, <1>1, <1>3
  <1>6. /\ Append(Hs, h[e]) \in Seq(V) /\ Len(Append(Hs, h[e])) = Len(s) + 1
        /\ \A p \in 1..Len(s) : Append(Hs, h[e])[p] = Hs[p]
        /\ Append(Hs, h[e])[Len(s) + 1] = h[e]
    <2> HIDE DEF Hs
    <2> QED
      BY <1>0, <1>4, AppendProperties
  <1>7. \A p \in 1..Len(s) + 1 : Ht[p] = Append(Hs, h[e])[p]
    <2>1. \A p \in 1..Len(s) : Ht[p] = Hs[p]
      BY <1>1, <1>2, <1>3
    <2>2. Ht[Len(s) + 1] = h[e]
      BY <1>1, <1>2, <1>3
    <2>3. \A p \in 1..Len(s) + 1 : p \in 1..Len(s) \/ p = Len(s) + 1
      BY <1>1
    <2> HIDE DEF Hs, Ht
    <2> QED
      BY <1>6, <2>1, <2>2, <2>3
  <1>8. Ht = Append(Hs, h[e])
    <2> HIDE DEF Hs, Ht
    <2> QED
      BY <1>1, <1>5, <1>6, <1>7, SeqEqual
  <1> QED
    BY <1>0, <1>4, <1>8 DEF t, V, Pieces

\* Append and concatenation, and FlattenSeq of a concatenation.
LEMMA AppendConcat ==
    ASSUME NEW S, NEW s \in Seq(S), NEW t \in Seq(S), NEW e \in S
    PROVE  s \o Append(t, e) = Append(s \o t, e)
  <1>1. Append(t, e) = t \o <<e>> /\ <<e>> \in Seq(S) /\ s \o t \in Seq(S)
    BY AppendIsConcat, ConcatProperties
  <1>2. Append(s \o t, e) = (s \o t) \o <<e>>
    BY <1>1, AppendIsConcat
  <1>3. (s \o t) \o <<e>> = s \o (t \o <<e>>)
    BY <1>1, ConcatAssociative
  <1> QED
    BY <1>1, <1>2, <1>3

\* FlattenSeq of a concatenation.
LEMMA FlattenConcat ==
    ASSUME NEW S, NEW F \in Seq(Seq(S)), NEW G \in Seq(Seq(S))
    PROVE  FlattenSeq(F \o G) = FlattenSeq(F) \o FlattenSeq(G)
  <1> DEFINE T == {H \in Seq(Seq(S)) : FlattenSeq(F \o H) = FlattenSeq(F) \o FlattenSeq(H)}
  <1>1. <<>> \in T
    <2>1. F \o <<>> = F /\ FlattenSeq(F) \o <<>> = FlattenSeq(F) /\ <<>> \in Seq(Seq(S))
      BY FlattenType, ConcatEmptySeq, EmptySeq
    <2> QED
      BY <2>1, FlattenNone
  <1>2. ASSUME NEW H \in T, NEW s \in Seq(S) PROVE Append(H, s) \in T
    <2>1. F \o Append(H, s) = Append(F \o H, s) /\ F \o H \in Seq(Seq(S))
      BY AppendConcat, ConcatProperties
    <2>2. FlattenSeq(Append(F \o H, s)) = FlattenSeq(F \o H) \o s
      BY <2>1, FlattenAppend
    <2>3. FlattenSeq(Append(H, s)) = FlattenSeq(H) \o s
      BY FlattenAppend
    <2>4. /\ FlattenSeq(F) \in Seq(S) /\ FlattenSeq(H) \in Seq(S) /\ Append(H, s) \in Seq(Seq(S))
          /\ FlattenSeq(F \o H) = FlattenSeq(F) \o FlattenSeq(H)
      BY FlattenType, AppendProperties
    <2>5. (FlattenSeq(F) \o FlattenSeq(H)) \o s = FlattenSeq(F) \o (FlattenSeq(H) \o s)
      BY <2>4, ConcatAssociative
    <2>6. FlattenSeq(F \o Append(H, s)) = FlattenSeq(F) \o FlattenSeq(Append(H, s))
      BY <2>1, <2>2, <2>3, <2>4, <2>5, Zenon
    <2> QED
      BY <2>4, <2>6
  <1>3. T \in SUBSET Seq(Seq(S))
    OBVIOUS
  <1> HIDE DEF T
  <1>4. T = Seq(Seq(S))
    BY <1>1, <1>2, <1>3, SeqInduction
  <1> QED
    BY <1>4 DEF T

\* A sequence of tokens, with h of it in the place of each.
Texts(h, s) == FlattenSeq(Pieces(h, s))

\* The text of nothing, of one token more and of a concatenation.
LEMMA TextsNone ==
    ASSUME NEW h
    PROVE  Texts(h, <<>>) = <<>>
  <1>1. Pieces(h, <<>>) = <<>>
    BY DEF Pieces
  <1> QED
    BY <1>1, FlattenNone DEF Texts

\* The text of one element more.
LEMMA TextsAppend ==
    ASSUME NEW S, NEW U, NEW h, Writes(h, S, U), NEW s \in Seq(S), NEW e \in S
    PROVE  /\ Texts(h, s) \in Seq(U) /\ h[e] \in Seq(U)
           /\ Texts(h, Append(s, e)) = Texts(h, s) \o h[e]
  <1>1. /\ Pieces(h, s) \in Seq(Seq(U)) /\ h[e] \in Seq(U)
        /\ Pieces(h, Append(s, e)) = Append(Pieces(h, s), h[e])
    BY PiecesAppend
  <1>2. /\ FlattenSeq(Append(Pieces(h, s), h[e])) = FlattenSeq(Pieces(h, s)) \o h[e]
        /\ FlattenSeq(Pieces(h, s)) \in Seq(U)
    BY <1>1, FlattenAppend, FlattenType
  <1> QED
    BY <1>1, <1>2 DEF Texts

\* The text of a concatenation.
LEMMA TextsConcat ==
    ASSUME NEW S, NEW U, NEW h, Writes(h, S, U), NEW s \in Seq(S), NEW t \in Seq(S)
    PROVE  Texts(h, s \o t) = Texts(h, s) \o Texts(h, t)
  <1> DEFINE T == {u \in Seq(S) : Texts(h, s \o u) = Texts(h, s) \o Texts(h, u)}
  <1>1. <<>> \in T
    <2>1. s \o <<>> = s /\ <<>> \in Seq(S)
      BY ConcatEmptySeq, EmptySeq
    <2>2. Texts(h, s) \in Seq(U)
      <3>1. CASE s = <<>>
        BY <3>1, TextsNone, EmptySeq
      <3>2. CASE s # <<>>
        BY <3>2, TextsAppend, ElementOfSeq, EmptySeq
      <3> QED
        BY <3>1, <3>2
    <2>3. Texts(h, s) \o <<>> = Texts(h, s)
      BY <2>2, ConcatEmptySeq
    <2> QED
      BY <2>1, <2>3, TextsNone
  <1>2. ASSUME NEW u \in T, NEW e \in S PROVE Append(u, e) \in T
    <2>1. /\ u \in Seq(S) /\ Append(u, e) \in Seq(S) /\ s \o u \in Seq(S)
          /\ Texts(h, s \o u) = Texts(h, s) \o Texts(h, u)
      BY AppendProperties, ConcatProperties
    <2> HIDE DEF T
    <2>2. s \o Append(u, e) = Append(s \o u, e)
      BY <2>1, AppendConcat
    <2>3. Texts(h, Append(s \o u, e)) = Texts(h, s \o u) \o h[e]
      <3>1. PICK w \in Seq(S) : w = s \o u
        BY <2>1
      <3>2. Texts(h, Append(w, e)) = Texts(h, w) \o h[e]
        BY TextsAppend
      <3> QED
        BY <3>1, <3>2
    <2>4. Texts(h, Append(u, e)) = Texts(h, u) \o h[e] /\ Texts(h, u) \in Seq(U)
      BY <2>1, TextsAppend
    <2>5. Texts(h, s) \in Seq(U) /\ h[e] \in Seq(U)
      BY TextsAppend
    <2>6. (Texts(h, s) \o Texts(h, u)) \o h[e] = Texts(h, s) \o (Texts(h, u) \o h[e])
      <3>1. Texts(h, s) \in Seq(U) /\ Texts(h, u) \in Seq(U) /\ h[e] \in Seq(U)
        BY <2>4, <2>5
      <3>2. PICK a \in Seq(U), b \in Seq(U), c \in Seq(U) :
                a = Texts(h, s) /\ b = Texts(h, u) /\ c = h[e]
        BY <3>1
      <3>3. (a \o b) \o c = a \o (b \o c)
        BY ConcatAssociative
      <3> QED
        BY <3>2, <3>3
    <2>7. Texts(h, s \o Append(u, e)) = Texts(h, s) \o Texts(h, Append(u, e))
      BY <2>1, <2>2, <2>3, <2>4, <2>6, Zenon
    <2> QED
      BY <2>1, <2>7 DEF T
  <1>3. T \in SUBSET Seq(S)
    OBVIOUS
  <1> HIDE DEF T
  <1>4. t \in T
    BY <1>1, <1>2, <1>3, SeqInduction
  <1> QED
    BY <1>4 DEF T

\* Tokens that stand for themselves.
LEMMA TextsOfSelf ==
    ASSUME NEW S, NEW U, NEW h, Writes(h, S, U), NEW s \in Seq(S),
           \A p \in 1..Len(s) : h[s[p]] = <<s[p]>>
    PROVE  Texts(h, s) = s
  <1> DEFINE T == {u \in Seq(S) : (\A p \in 1..Len(u) : h[u[p]] = <<u[p]>>) => Texts(h, u) = u}
  <1>1. <<>> \in T
    BY TextsNone, EmptySeq
  <1>2. ASSUME NEW u \in T, NEW e \in S PROVE Append(u, e) \in T
    <2>1. u \in Seq(S) /\ ((\A p \in 1..Len(u) : h[u[p]] = <<u[p]>>) => Texts(h, u) = u)
      OBVIOUS
    <2> HIDE DEF T
    <2>2. /\ Append(u, e) \in Seq(S) /\ Len(Append(u, e)) = Len(u) + 1 /\ Append(u, e)[Len(u) + 1] = e
          /\ \A p \in 1..Len(u) : Append(u, e)[p] = u[p]
          /\ Len(u) \in Nat
      BY <2>1, AppendProperties, LenProperties
    <2>3. ASSUME \A p \in 1..Len(Append(u, e)) : h[Append(u, e)[p]] = <<Append(u, e)[p]>>
          PROVE  Texts(h, Append(u, e)) = Append(u, e)
      <3>1. ASSUME NEW p \in 1..Len(u) PROVE h[u[p]] = <<u[p]>>
        <4>1. p \in 1..Len(Append(u, e))
          BY <2>2
        <4>2. h[Append(u, e)[p]] = <<Append(u, e)[p]>>
          BY <2>3, <4>1, Zenon
        <4>3. Append(u, e)[p] = u[p]
          BY <2>2, Zenon
        <4> QED
          BY <4>2, <4>3, Zenon
      <3>2. h[e] = <<e>>
        <4>1. Len(u) + 1 \in 1..Len(Append(u, e))
          BY <2>2
        <4>2. h[Append(u, e)[Len(u) + 1]] = <<Append(u, e)[Len(u) + 1]>>
          BY <2>3, <4>1, Zenon
        <4> QED
          BY <2>2, <4>2, Zenon
      <3>3. Texts(h, Append(u, e)) = Texts(h, u) \o h[e]
        BY <2>1, TextsAppend
      <3>4. Texts(h, u) = u
        BY <2>1, <3>1
      <3>5. Append(u, e) = u \o <<e>>
        BY <2>1, AppendIsConcat
      <3> QED
        BY <3>2, <3>3, <3>4, <3>5, Zenon
    <2> QED
      BY <2>2, <2>3 DEF T
  <1>3. T \in SUBSET Seq(S)
    OBVIOUS
  <1> HIDE DEF T
  <1>4. s \in T
    BY <1>1, <1>2, <1>3, SeqInduction
  <1> QED
    BY <1>4 DEF T

\* The first tokens, one after the other.
LEMMA SubSeqGrows ==
    ASSUME NEW S, NEW s \in Seq(S), NEW k \in 1..Len(s)
    PROVE  SubSeq(s, 1, k) = Append(SubSeq(s, 1, k - 1), s[k]) /\ SubSeq(s, 1, k - 1) \in Seq(S)
  <1>1. Len(s) \in Nat /\ \A i \in 1..Len(s) : s[i] \in S
    BY LenProperties, ElementOfSeq
  <1>2. SubSeq(s, 1, k - 1) \in Seq(S)
    BY <1>1, SubSeqProperties
  <1>3. SubSeq(s, 1, k) = SubSeq(s, 1, k - 1) \o <<s[k]>>
    BY <1>1, SubSeqRecursiveSecond
  <1> QED
    BY <1>1, <1>2, <1>3, AppendIsConcat

\* h after g: every text of g is written once more.
LEMMA TextsOfTexts ==
    ASSUME NEW S, NEW U, NEW V, NEW g, NEW h, NEW f,
           Writes(g, S, U), Writes(h, U, V), Writes(f, S, V),
           NEW s \in Seq(S), \A p \in 1..Len(s) : Texts(h, g[s[p]]) = f[s[p]]
    PROVE  Texts(h, Texts(g, s)) = Texts(f, s)
  <1> DEFINE T == {u \in Seq(S) : (\A p \in 1..Len(u) : Texts(h, g[u[p]]) = f[u[p]])
                                    => Texts(h, Texts(g, u)) = Texts(f, u)}
  <1>1. <<>> \in T
    BY TextsNone, EmptySeq
  <1>2. ASSUME NEW u \in T, NEW e \in S PROVE Append(u, e) \in T
    <2>1. /\ u \in Seq(S)
          /\ (\A p \in 1..Len(u) : Texts(h, g[u[p]]) = f[u[p]]) => Texts(h, Texts(g, u)) = Texts(f, u)
      OBVIOUS
    <2> HIDE DEF T
    <2>2. PICK w \in Seq(S) : w = Append(u, e)
      BY <2>1, AppendProperties
    <2>3. /\ Len(w) = Len(u) + 1 /\ w[Len(u) + 1] = e /\ Len(u) \in Nat
          /\ \A p \in 1..Len(u) : w[p] = u[p]
      BY <2>1, <2>2, AppendProperties, LenProperties
    <2>4. ASSUME \A p \in 1..Len(w) : Texts(h, g[w[p]]) = f[w[p]]
          PROVE  Texts(h, Texts(g, w)) = Texts(f, w)
      <3>1. \A p \in 1..Len(u) : p \in 1..Len(w)
        BY <2>3
      <3>2. Len(u) + 1 \in 1..Len(w)
        BY <2>3
      <3>3. \A p \in 1..Len(u) : Texts(h, g[u[p]]) = f[u[p]]
        BY <2>3, <2>4, <3>1, Zenon
      <3>4. Texts(h, g[e]) = f[e]
        BY <2>3, <2>4, <3>2, Zenon
      <3>5. PICK a \in Seq(U), b \in Seq(U) : a = Texts(g, u) /\ b = g[e] /\ Texts(g, w) = a \o b
        <4>1. Texts(g, w) = Texts(g, u) \o g[e] /\ Texts(g, u) \in Seq(U) /\ g[e] \in Seq(U)
          BY <2>1, <2>2, TextsAppend
        <4> QED
          BY <4>1
      <3>6. Texts(h, a \o b) = Texts(h, a) \o Texts(h, b)
        BY TextsConcat
      <3>7. Texts(f, w) = Texts(f, u) \o f[e]
        BY <2>1, <2>2, TextsAppend
      <3> QED
        BY <2>1, <3>3, <3>4, <3>5, <3>6, <3>7, Zenon
    <2> QED
      BY <2>2, <2>4 DEF T
  <1>3. T \in SUBSET Seq(S)
    OBVIOUS
  <1> HIDE DEF T
  <1>4. s \in T
    BY <1>1, <1>2, <1>3, SeqInduction
  <1> QED
    BY <1>4 DEF T

\* The text of one element.
LEMMA TextsOne ==
    ASSUME NEW S, NEW U, NEW h, Writes(h, S, U), NEW e \in S
    PROVE  Texts(h, <<e>>) = h[e]
  <1>1. Append(<<>>, e) = <<e>> /\ <<>> \in Seq(S)
    OBVIOUS
  <1>2. Texts(h, Append(<<>>, e)) = Texts(h, <<>>) \o h[e] /\ h[e] \in Seq(U)
    <2>1. PICK n \in Seq(S) : n = <<>>
      BY <1>1
    <2>2. Texts(h, Append(n, e)) = Texts(h, n) \o h[e] /\ h[e] \in Seq(U)
      BY TextsAppend
    <2> QED
      BY <2>1, <2>2
  <1>3. <<>> \o h[e] = h[e]
    BY <1>2, ConcatEmptySeq
  <1> QED
    BY <1>1, <1>2, <1>3, TextsNone

\* The type of the text.
LEMMA TextsType ==
    ASSUME NEW S, NEW U, NEW h, Writes(h, S, U), NEW s \in Seq(S)
    PROVE  Texts(h, s) \in Seq(U)
  <1>1. CASE s = <<>>
    BY <1>1, TextsNone, EmptySeq
  <1>2. CASE s # <<>>
    <2>1. PICK e \in S : TRUE
      BY <1>2, ElementOfSeq, EmptySeq
    <2> QED
      BY <2>1, TextsAppend
  <1> QED
    BY <1>1, <1>2

-----------------------------------------------------------------------------
\* A text that has no marker.
Plain == {e \in Tokens : e[1] \notin {"for", "endfor", "var"}}

NotFor == {e \in Tokens : e[1] # "for"}

\* What the code writes for a token when name is replaced.
Put(name, value) == [e \in Tokens |-> IF e = Var(name) THEN value ELSE <<e>>]

\* A token is known by its kind.
LEMMA TokenKinds ==
    /\ \A e \in Tokens : e[1] = "for" => e = For(e[2], e[3])
    /\ \A e \in Tokens : e[1] = "var" => e = Var(e[2])
    /\ \A e \in Tokens : e[1] = "endfor" <=> e = EndFor
    /\ \A name : Var(name)[1] = "var" /\ Var(name)[2] = name
    /\ EndFor # LineEnd /\ EndFor \in Tokens /\ LineEnd \in Tokens /\ LineEnd[1] = "line end"
  <1>1. ASSUME NEW e \in Tokens
        PROVE  /\ e[1] = "for" => e = For(e[2], e[3])
               /\ e[1] = "var" => e = Var(e[2])
               /\ e[1] = "endfor" <=> e = EndFor
    <2>1. CASE e \in {Word, Tag, LineEnd, Open, Shut, EndFor}
      <3>1. CASE e = EndFor
        BY <3>1 DEF EndFor
      <3>2. CASE e # EndFor
        <4>1. /\ Word[1] = "word" /\ Tag[1] = "tag" /\ LineEnd[1] = "line end"
              /\ Open[1] = "open" /\ Shut[1] = "shut"
          BY DEF Word, Tag, LineEnd, Open, Shut
        <4>2. e[1] \in {"word", "tag", "line end", "open", "shut"}
          BY <2>1, <3>2, <4>1
        <4> QED
          BY <3>2, <4>2
      <3> QED
        BY <3>1, <3>2
    <2>2. ASSUME NEW item \in Names, NEW list \in Names, e = For(item, list)
          PROVE  e[1] = "for" /\ e = For(e[2], e[3]) /\ e # EndFor
      BY <2>2 DEF For, EndFor
    <2>3. ASSUME NEW name \in Names, e = Var(name)
          PROVE  e[1] = "var" /\ e = Var(e[2]) /\ e # EndFor
      BY <2>3 DEF Var, EndFor
    <2> QED
      BY <2>1, <2>2, <2>3 DEF Tokens
  <1>2. \A name : Var(name)[1] = "var" /\ Var(name)[2] = name
    BY DEF Var
  <1>3. EndFor # LineEnd /\ LineEnd[1] = "line end"
    BY DEF EndFor, LineEnd
  <1>4. EndFor \in Tokens /\ LineEnd \in Tokens
    BY DEF Tokens
  <1> QED
    BY <1>1, <1>2, <1>3, <1>4

\* Put gives a text for every token.
LEMMA PutWrites ==
    ASSUME NEW name, NEW S \in SUBSET Tokens, NEW value \in Seq(S)
    PROVE  Writes(Put(name, value), S, S)
  BY DEF Writes, Put

\* The code's replacement of a name is the text Put gives.
LEMMA SubstituteIs ==
    ASSUME NEW s \in Seq(Tokens), NEW name, NEW value
    PROVE  Substitute(s, name, value) = Texts(Put(name, value), s)
  <1>1. \A p \in DOMAIN s : s[p] \in Tokens
    BY LenProperties, ElementOfSeq
  <1>2. [p \in DOMAIN s |-> IF s[p] = Var(name) THEN value ELSE <<s[p]>>] = Pieces(Put(name, value), s)
    BY <1>1 DEF Pieces, Put
  <1> QED
    BY <1>2 DEF Texts, Substitute

\* The type of what Substitute and Repeated give.
LEMMA SubstituteType ==
    ASSUME NEW s \in Seq(Tokens), NEW name, NEW value \in Seq(Tokens)
    PROVE  Substitute(s, name, value) \in Seq(Tokens)
  <1>1. Writes(Put(name, value), Tokens, Tokens)
    BY PutWrites
  <1>2. Texts(Put(name, value), s) \in Seq(Tokens)
    BY <1>1, TextsType
  <1> QED
    BY <1>2, SubstituteIs

\* The type of the text of a cycle.
LEMMA RepeatedType ==
    ASSUME NEW scope \in Seq(Tokens), NEW item, NEW values \in Seq(Seq(Tokens))
    PROVE  Repeated(scope, item, values) \in Seq(Tokens)
  <1>1. /\ DOMAIN values = 1..Len(values) /\ Len(values) \in Nat
        /\ \A v \in 1..Len(values) : Substitute(scope, item, values[v]) \in Seq(Tokens)
    BY LenProperties, ElementOfSeq, SubstituteType
  <1>2. PICK F : F = [v \in DOMAIN values |-> Substitute(scope, item, values[v])]
    OBVIOUS
  <1>3. F \in Seq(Seq(Tokens))
    BY <1>1, <1>2
  <1> QED
    BY <1>2, <1>3, FlattenType DEF Repeated

-----------------------------------------------------------------------------
\* The value of a key, and what stands for a token while the keys of K wait.
FirstOf(d, key) == IF d[key] = <<>> THEN <<>> ELSE d[key][1]

Seen(d, K) ==
    [e \in Tokens |-> IF e[1] = "var" /\ e[2] \in DOMAIN d \ K THEN FirstOf(d, e[2]) ELSE <<e>>]

\* The same in a cycle over item, in the round of value.
Within(d, K, item, value) == [e \in Tokens |-> IF e = Var(item) THEN value ELSE Seen(d, K)[e]]

Round(d, K, item, scope) == [value \in Seq(Plain) |-> Texts(Within(d, K, item, value), scope)]

\* The text of a whole cycle.
Cycle(d, K, item, list, scope) == Texts(Round(d, K, item, scope), d[list])

\* The values are without markers.
Clean(d) == \A key \in DOMAIN d : d[key] \in Seq(Seq(Plain))

\* The value of a key has no markers if the data has none.
LEMMA FirstIsPlain ==
    ASSUME NEW d, Clean(d), NEW key \in DOMAIN d
    PROVE  FirstOf(d, key) \in Seq(Plain)
  <1>1. d[key] \in Seq(Seq(Plain))
    BY DEF Clean
  <1>2. CASE d[key] = <<>>
    BY <1>2, EmptySeq DEF FirstOf
  <1>3. CASE d[key] # <<>>
    <2>1. d[key][1] \in Seq(Plain)
      BY <1>1, <1>3, EmptySeq, ElementOfSeq
    <2> QED
      BY <1>3, <2>1 DEF FirstOf
  <1> QED
    BY <1>2, <1>3

\* A text without markers is a text.
LEMMA PlainIsText ==
    ASSUME NEW s \in Seq(Plain)
    PROVE  s \in Seq(Tokens) /\ s \in Seq(NotFor)
  BY SeqMonotonic DEF Plain, NotFor

\* Seen gives a text for every token.
LEMMA SeenWrites ==
    ASSUME NEW d, Clean(d), NEW K
    PROVE  Writes(Seen(d, K), Tokens, Tokens)
  BY FirstIsPlain, PlainIsText DEF Writes, Seen

\* Within gives a text for every token.
LEMMA WithinWrites ==
    ASSUME NEW d, Clean(d), NEW K, NEW item, NEW value \in Seq(Plain)
    PROVE  Writes(Within(d, K, item, value), Tokens, Tokens)
  BY SeenWrites, PlainIsText DEF Writes, Within

\* Round gives a text for every value.
LEMMA RoundWrites ==
    ASSUME NEW d, Clean(d), NEW K, NEW item, NEW scope \in Seq(Tokens)
    PROVE  Writes(Round(d, K, item, scope), Seq(Plain), Tokens)
  <1>1. ASSUME NEW value \in Seq(Plain) PROVE Texts(Within(d, K, item, value), scope) \in Seq(Tokens)
    BY WithinWrites, TextsType
  <1> QED
    BY <1>1 DEF Writes, Round

\* Replacing a name leaves a text without markers as it is.
LEMMA PutPlain ==
    ASSUME NEW s \in Seq(Plain), NEW name, NEW value \in Seq(Tokens)
    PROVE  Texts(Put(name, value), s) = s
  <1>1. Writes(Put(name, value), Tokens, Tokens)
    BY PutWrites
  <1>2. s \in Seq(Tokens) /\ \A p \in 1..Len(s) : s[p] \in Plain
    BY PlainIsText, ElementOfSeq
  <1>3. \A p \in 1..Len(s) : Put(name, value)[s[p]] = <<s[p]>>
    BY <1>2, TokenKinds DEF Put, Plain
  <1> QED
    BY <1>1, <1>2, <1>3, TextsOfSelf

\* Replacing the key of K in what stands for a token: the key waits no more.
LEMMA PutSeen ==
    ASSUME NEW d, Clean(d), NEW K, NEW key \in K, key \in DOMAIN d, NEW e \in Tokens
    PROVE  Texts(Put(key, FirstOf(d, key)), Seen(d, K)[e]) = Seen(d, K \ {key})[e]
  <1>1. PICK first \in Seq(Plain) : first = FirstOf(d, key)
    BY FirstIsPlain
  <1>2. first \in Seq(Tokens) /\ Writes(Put(key, first), Tokens, Tokens)
    BY PlainIsText, PutWrites
  <1>3. CASE e[1] = "var" /\ e[2] \in DOMAIN d \ K
    <2>1. Seen(d, K)[e] = FirstOf(d, e[2]) /\ Seen(d, K \ {key})[e] = FirstOf(d, e[2])
      BY <1>3 DEF Seen
    <2>2. FirstOf(d, e[2]) \in Seq(Plain)
      BY <1>3, FirstIsPlain
    <2> QED
      BY <1>1, <1>2, <2>1, <2>2, PutPlain
  <1>4. CASE ~(e[1] = "var" /\ e[2] \in DOMAIN d \ K)
    <2>1. Seen(d, K)[e] = <<e>>
      BY <1>4 DEF Seen
    <2>2. Texts(Put(key, first), <<e>>) = Put(key, first)[e]
      BY <1>2, TextsOne
    <2>3. CASE e = Var(key)
      <3>1. Put(key, first)[e] = first
        BY <2>3 DEF Put
      <3>2. Seen(d, K \ {key})[e] = FirstOf(d, key)
        BY <2>3, TokenKinds DEF Seen
      <3> QED
        BY <1>1, <2>1, <2>2, <3>1, <3>2
    <2>4. CASE e # Var(key)
      <3>1. Put(key, first)[e] = <<e>>
        BY <2>4 DEF Put
      <3>2. ~(e[1] = "var" /\ e[2] \in DOMAIN d \ (K \ {key}))
        BY <1>4, <2>4, TokenKinds
      <3>3. Seen(d, K \ {key})[e] = <<e>>
        BY <3>2 DEF Seen
      <3> QED
        BY <1>1, <2>1, <2>2, <3>1, <3>3
    <2> QED
      BY <2>3, <2>4
  <1> QED
    BY <1>3, <1>4

\* Replacing a key in the text of a round of a cycle.
LEMMA PutWithin ==
    ASSUME NEW d, Clean(d), NEW K, NEW key \in K, key \in DOMAIN d,
           NEW item, NEW value \in Seq(Plain), NEW e \in Tokens
    PROVE  Texts(Put(key, FirstOf(d, key)), Within(d, K, item, value)[e])
             = Within(d, K \ {key}, item, value)[e]
  <1>1. FirstOf(d, key) \in Seq(Tokens)
    BY FirstIsPlain, PlainIsText
  <1>2. CASE e = Var(item)
    <2>1. Within(d, K, item, value)[e] = value /\ Within(d, K \ {key}, item, value)[e] = value
      BY <1>2 DEF Within
    <2> QED
      BY <1>1, <2>1, PutPlain
  <1>3. CASE e # Var(item)
    <2>1. /\ Within(d, K, item, value)[e] = Seen(d, K)[e]
          /\ Within(d, K \ {key}, item, value)[e] = Seen(d, K \ {key})[e]
      BY <1>3 DEF Within
    <2> QED
      BY <2>1, PutSeen
  <1> QED
    BY <1>2, <1>3

\* Replacing a key in a whole round.
LEMMA PutRound ==
    ASSUME NEW d, Clean(d), NEW K, NEW key \in K, key \in DOMAIN d,
           NEW item, NEW scope \in Seq(Tokens), NEW value \in Seq(Plain)
    PROVE  Texts(Put(key, FirstOf(d, key)), Round(d, K, item, scope)[value])
             = Round(d, K \ {key}, item, scope)[value]
  <1>1. PICK h, f, g : /\ h = Put(key, FirstOf(d, key)) /\ f = Within(d, K \ {key}, item, value)
                       /\ g = Within(d, K, item, value)
    OBVIOUS
  <1>2. Writes(g, Tokens, Tokens) /\ Writes(f, Tokens, Tokens)
    BY <1>1, WithinWrites
  <1>3. Writes(h, Tokens, Tokens)
    BY <1>1, FirstIsPlain, PlainIsText, PutWrites
  <1>4. \A p \in 1..Len(scope) : Texts(h, g[scope[p]]) = f[scope[p]]
    <2>1. ASSUME NEW p \in 1..Len(scope) PROVE Texts(h, g[scope[p]]) = f[scope[p]]
      <3>1. PICK e \in Tokens : e = scope[p]
        BY ElementOfSeq
      <3>2. Texts(Put(key, FirstOf(d, key)), Within(d, K, item, value)[e])
              = Within(d, K \ {key}, item, value)[e]
        BY PutWithin
      <3> QED
        BY <1>1, <3>1, <3>2
    <2> QED
      BY <2>1
  <1>5. Texts(h, Texts(g, scope)) = Texts(f, scope)
    BY <1>2, <1>3, <1>4, TextsOfTexts
  <1> QED
    BY <1>1, <1>5 DEF Round

\* Replacing a key in a whole cycle.
LEMMA PutCycle ==
    ASSUME NEW d, Clean(d), NEW K, NEW key \in K, key \in DOMAIN d,
           NEW item, NEW list \in DOMAIN d, NEW scope \in Seq(Tokens)
    PROVE  Texts(Put(key, FirstOf(d, key)), Cycle(d, K, item, list, scope))
             = Cycle(d, K \ {key}, item, list, scope)
  <1>1. PICK h, f, g : /\ h = Put(key, FirstOf(d, key)) /\ f = Round(d, K \ {key}, item, scope)
                       /\ g = Round(d, K, item, scope)
    OBVIOUS
  <1>2. Writes(g, Seq(Plain), Tokens) /\ Writes(f, Seq(Plain), Tokens)
    BY <1>1, RoundWrites
  <1>3. Writes(h, Tokens, Tokens)
    BY <1>1, FirstIsPlain, PlainIsText, PutWrites
  <1>4. d[list] \in Seq(Seq(Plain))
    BY DEF Clean
  <1>5. \A p \in 1..Len(d[list]) : Texts(h, g[d[list][p]]) = f[d[list][p]]
    <2>1. ASSUME NEW p \in 1..Len(d[list]) PROVE Texts(h, g[d[list][p]]) = f[d[list][p]]
      <3>1. PICK value \in Seq(Plain) : value = d[list][p]
        BY <1>4, ElementOfSeq
      <3>2. Texts(Put(key, FirstOf(d, key)), Round(d, K, item, scope)[value])
              = Round(d, K \ {key}, item, scope)[value]
        BY PutRound
      <3> QED
        BY <1>1, <3>1, <3>2
    <2> QED
      BY <2>1
  <1>6. Texts(h, Texts(g, d[list])) = Texts(f, d[list])
    BY <1>2, <1>3, <1>4, <1>5, TextsOfTexts
  <1> QED
    BY <1>1, <1>6 DEF Cycle

\* The type of the text of a cycle.
LEMMA CycleType ==
    ASSUME NEW d, Clean(d), NEW K, NEW item, NEW list \in DOMAIN d, NEW scope \in Seq(Tokens)
    PROVE  Cycle(d, K, item, list, scope) \in Seq(Tokens)
  <1>1. d[list] \in Seq(Seq(Plain))
    BY DEF Clean
  <1> QED
    BY <1>1, RoundWrites, TextsType DEF Cycle

\* The code's text of a cycle, made before any key is replaced.
LEMMA RepeatedIsCycle ==
    ASSUME NEW d, Clean(d), NEW item, NEW list \in DOMAIN d, NEW scope \in Seq(Tokens)
    PROVE  Repeated(scope, item, d[list]) = Cycle(d, DOMAIN d, item, list, scope)
  <1>1. PICK values \in Seq(Seq(Plain)) : values = d[list]
    BY DEF Clean
  <1>2. ASSUME NEW value \in Seq(Plain)
        PROVE  Substitute(scope, item, value) = Round(d, DOMAIN d, item, scope)[value]
    <2>1. Within(d, DOMAIN d, item, value) = Put(item, value)
      BY DEF Within, Put, Seen
    <2> QED
      BY <2>1, SubstituteIs DEF Round
  <1>3. \A v \in DOMAIN values : values[v] \in Seq(Plain)
    BY ElementOfSeq, LenProperties
  <1>4. [v \in DOMAIN values |-> Substitute(scope, item, values[v])]
          = Pieces(Round(d, DOMAIN d, item, scope), values)
    BY <1>2, <1>3 DEF Pieces
  <1> QED
    BY <1>1, <1>4 DEF Repeated, Cycle, Texts

\* The text of a cycle has no marker of another one.
LEMMA CycleNotFor ==
    ASSUME NEW d, Clean(d), NEW item, NEW list \in DOMAIN d, NEW scope \in Seq(NotFor)
    PROVE  Cycle(d, DOMAIN d, item, list, scope) \in Seq(NotFor)
  <1>1. d[list] \in Seq(Seq(Plain))
    BY DEF Clean
  <1>2. Writes(Round(d, DOMAIN d, item, scope), Seq(Plain), NotFor)
    <2>1. ASSUME NEW value \in Seq(Plain)
          PROVE  Texts(Within(d, DOMAIN d, item, value), scope) \in Seq(NotFor)
      <3>1. Within(d, DOMAIN d, item, value) = Put(item, value)
        BY DEF Within, Put, Seen
      <3>2. Writes(Put(item, value), NotFor, NotFor)
        BY PlainIsText, PutWrites DEF NotFor
      <3> QED
        BY <3>1, <3>2, TextsType
    <2> QED
      BY <2>1 DEF Writes, Round
  <1> QED
    BY <1>1, <1>2, TextsType DEF Cycle

-----------------------------------------------------------------------------
\* The page up to position k of template t, while the keys of K wait.

\* The end of the cycle that begins at p.
EndOf(t, p) == CHOOSE q \in DOMAIN t : <<p, q>> \in Pairs(t)

InPair(t, p) == \E pq \in Pairs(t) : p \in pq[1] + 1..pq[2]

BeginsPair(t, p) == \E pq \in Pairs(t) : p = pq[1]

MeansAt(t, d, K, p) ==
    IF InPair(t, p) THEN <<>>
    ELSE IF BeginsPair(t, p) THEN Cycle(d, K, t[p][2], t[p][3], SubSeq(t, p + 1, EndOf(t, p) - 1))
    ELSE Seen(d, K)[t[p]]

Means(t, d, K) == [p \in 1..Len(t) |-> MeansAt(t, d, K, p)]

Upto(k) == [p \in 1..k |-> p]

Page(t, d, K, k) == Texts(Means(t, d, K), Upto(k))

\* What RenderedInPlace asks of template and data.
Fit(t, d) ==
    /\ t \in Seq(Tokens) /\ Clean(d) /\ Flat(t)
    /\ \A p \in DOMAIN t : t[p][1] = "for" => t[p][3] \in DOMAIN d

\* What a cycle of the template looks like.
LEMMA PairShape ==
    ASSUME NEW t \in Seq(Tokens), NEW p, NEW q, <<p, q>> \in Pairs(t)
    PROVE  /\ p \in 1..Len(t) /\ q \in 1..Len(t) /\ p < q /\ t[p][1] = "for" /\ t[q] = EndFor
           /\ \A m \in p + 1..q - 1 : t[m] \notin {EndFor, LineEnd}
  BY LenProperties DEF Pairs

\* A pair is its two positions.
LEMMA PairOf ==
    ASSUME NEW t \in Seq(Tokens), NEW pq \in Pairs(t)
    PROVE  pq = <<pq[1], pq[2]>>
  BY DEF Pairs

\* A cycle has one end.
LEMMA OneEnd ==
    ASSUME NEW t \in Seq(Tokens), NEW p, NEW q, NEW r, <<p, q>> \in Pairs(t), <<p, r>> \in Pairs(t)
    PROVE  q = r
  <1>1. /\ q \in Int /\ r \in Int /\ p \in Int /\ p < q /\ p < r /\ t[q] = EndFor /\ t[r] = EndFor
        /\ \A m \in p + 1..q - 1 : t[m] # EndFor
        /\ \A m \in p + 1..r - 1 : t[m] # EndFor
    BY PairShape, LenProperties
  <1>2. ~(q < r) /\ ~(r < q)
    BY <1>1
  <1> QED
    BY <1>1, <1>2

\* The end of a cycle.
LEMMA EndIs ==
    ASSUME NEW t \in Seq(Tokens), NEW p, NEW q, <<p, q>> \in Pairs(t)
    PROVE  EndOf(t, p) = q
  <1>1. q \in DOMAIN t
    BY PairShape, LenProperties
  <1>2. EndOf(t, p) \in DOMAIN t /\ <<p, EndOf(t, p)>> \in Pairs(t)
    BY <1>1, Zenon DEF EndOf
  <1> QED
    BY <1>2, OneEnd

\* What lies within a stretch is tokens.
LEMMA InnerTokens ==
    ASSUME NEW t \in Seq(Tokens), NEW p \in Nat, NEW q \in Int, q <= Len(t)
    PROVE  SubSeq(t, p + 1, q - 1) \in Seq(Tokens)
  <1>1. Len(t) \in Nat /\ \A i \in p + 1..q - 1 : t[i] \in Tokens
    BY LenProperties, ElementOfSeq
  <1> QED
    BY <1>1, SubSeqProperties

\* A position that begins a cycle has its end.
LEMMA PairThere ==
    ASSUME NEW t \in Seq(Tokens), NEW p \in 1..Len(t), BeginsPair(t, p)
    PROVE  /\ <<p, EndOf(t, p)>> \in Pairs(t) /\ EndOf(t, p) \in 1..Len(t) /\ t[p][1] = "for"
           /\ SubSeq(t, p + 1, EndOf(t, p) - 1) \in Seq(Tokens)
  <1>1. PICK pq \in Pairs(t) : p = pq[1]
    BY DEF BeginsPair
  <1>2. pq = <<pq[1], pq[2]>>
    BY PairOf
  <1>3. PICK q : <<p, q>> \in Pairs(t)
    BY <1>1, <1>2
  <1>4. EndOf(t, p) = q /\ q \in 1..Len(t) /\ t[p][1] = "for" /\ Len(t) \in Nat
    BY <1>3, EndIs, PairShape, LenProperties
  <1>5. SubSeq(t, p + 1, q - 1) \in Seq(Tokens)
    BY <1>4, InnerTokens
  <1> QED
    BY <1>3, <1>4, <1>5

\* Every position of the template means some text.
LEMMA MeansWrites ==
    ASSUME NEW t, NEW d, Fit(t, d), NEW K
    PROVE  Writes(Means(t, d, K), 1..Len(t), Tokens)
  <1>1. t \in Seq(Tokens) /\ Clean(d) /\ DOMAIN t = 1..Len(t) /\ Len(t) \in Nat
    BY LenProperties DEF Fit
  <1>2. ASSUME NEW p \in 1..Len(t) PROVE MeansAt(t, d, K, p) \in Seq(Tokens)
    <2>1. CASE InPair(t, p)
      BY <2>1, EmptySeq DEF MeansAt
    <2>2. CASE ~InPair(t, p) /\ BeginsPair(t, p)
      <3>2. t[p][3] \in DOMAIN d /\ SubSeq(t, p + 1, EndOf(t, p) - 1) \in Seq(Tokens)
        BY <1>1, <2>2, PairThere DEF Fit
      <3>3. Cycle(d, K, t[p][2], t[p][3], SubSeq(t, p + 1, EndOf(t, p) - 1)) \in Seq(Tokens)
        BY <1>1, <3>2, CycleType
      <3> QED
        BY <2>2, <3>3 DEF MeansAt
    <2>3. CASE ~InPair(t, p) /\ ~BeginsPair(t, p)
      <3>1. Seen(d, K)[t[p]] \in Seq(Tokens)
        BY <1>1, SeenWrites, ElementOfSeq DEF Writes
      <3> QED
        BY <2>3, <3>1 DEF MeansAt
    <2> QED
      BY <2>1, <2>2, <2>3
  <1> QED
    BY <1>2 DEF Writes, Means

\* A key replaced in the whole page.
LEMMA PutPage ==
    ASSUME NEW t, NEW d, Fit(t, d), NEW K, NEW key \in K, key \in DOMAIN d
    PROVE  Substitute(Page(t, d, K, Len(t)), key, FirstOf(d, key)) = Page(t, d, K \ {key}, Len(t))
  <1>1. t \in Seq(Tokens) /\ Clean(d) /\ DOMAIN t = 1..Len(t) /\ Len(t) \in Nat
    BY LenProperties DEF Fit
  <1>2. PICK h : h = Put(key, FirstOf(d, key))
    OBVIOUS
  <1>3. FirstOf(d, key) \in Seq(Tokens) /\ Writes(h, Tokens, Tokens)
    BY <1>1, <1>2, FirstIsPlain, PlainIsText, PutWrites
  <1>4. ASSUME NEW p \in 1..Len(t)
        PROVE  Texts(h, MeansAt(t, d, K, p)) = MeansAt(t, d, K \ {key}, p)
    <2>1. CASE InPair(t, p)
      BY <2>1, TextsNone DEF MeansAt
    <2>2. CASE ~InPair(t, p) /\ BeginsPair(t, p)
      <3>2. PICK scope \in Seq(Tokens) : scope = SubSeq(t, p + 1, EndOf(t, p) - 1)
        BY <1>1, <2>2, PairThere
      <3>3. t[p][3] \in DOMAIN d
        BY <1>1, <2>2, PairThere DEF Fit
      <3>4. Texts(h, Cycle(d, K, t[p][2], t[p][3], scope)) = Cycle(d, K \ {key}, t[p][2], t[p][3], scope)
        BY <1>1, <1>2, <3>3, PutCycle
      <3> QED
        BY <2>2, <3>2, <3>4 DEF MeansAt
    <2>3. CASE ~InPair(t, p) /\ ~BeginsPair(t, p)
      <3>1. PICK e \in Tokens : e = t[p]
        BY <1>1, ElementOfSeq
      <3>2. Texts(h, Seen(d, K)[e]) = Seen(d, K \ {key})[e]
        BY <1>1, <1>2, PutSeen
      <3> QED
        BY <2>3, <3>1, <3>2 DEF MeansAt
    <2> QED
      BY <2>1, <2>2, <2>3
  <1>5. PICK g, f, s : g = Means(t, d, K) /\ f = Means(t, d, K \ {key}) /\ s = Upto(Len(t))
    OBVIOUS
  <1>6. Writes(g, 1..Len(t), Tokens) /\ Writes(f, 1..Len(t), Tokens)
    BY <1>5, MeansWrites
  <1>7. s \in Seq(1..Len(t)) /\ \A p \in 1..Len(s) : s[p] \in 1..Len(t)
    BY <1>1, <1>5 DEF Upto
  <1>8. \A p \in 1..Len(s) : Texts(h, g[s[p]]) = f[s[p]]
    BY <1>4, <1>5, <1>7 DEF Means
  <1>9. Texts(h, Texts(g, s)) = Texts(f, s) /\ Texts(g, s) \in Seq(Tokens)
    BY <1>3, <1>6, <1>7, <1>8, TextsOfTexts, TextsType
  <1> QED
    BY <1>2, <1>5, <1>9, SubstituteIs DEF Page

-----------------------------------------------------------------------------
\* A marker at p is closed by the one at q.
Closes(s, p, q) ==
    q \in p + 1..Len(s) /\ s[q] = EndFor /\ \A m \in p + 1..q - 1 : s[m] \notin {EndFor, LineEnd}

\* What NextOf finds.
LEMMA NextIs ==
    ASSUME NEW s \in Seq(Tokens), NEW p \in Nat, NEW kinds
    PROVE  \/ /\ NextOf(s, p, kinds) = Len(s) + 1
              /\ \A q \in p..Len(s) : s[q] \notin kinds
           \/ /\ NextOf(s, p, kinds) \in p..Len(s) /\ s[NextOf(s, p, kinds)] \in kinds
              /\ \A q \in p..NextOf(s, p, kinds) - 1 : s[q] \notin kinds
  <1>1. PICK found : found = {q \in p..Len(s) : s[q] \in kinds}
    OBVIOUS
  <1>2. Len(s) \in Nat
    BY LenProperties
  <1>3. CASE found = {}
    BY <1>1, <1>3 DEF NextOf
  <1>4. CASE found # {}
    <2>1. PICK q : q \in found /\ \A r \in found : q <= r
      <3>1. found \in SUBSET Nat
        BY <1>1, <1>2
      <3> QED
        BY <1>4, <3>1, LeastOf
    <2>2. NextOf(s, p, kinds) = CHOOSE x \in found : \A r \in found : x <= r
      BY <1>1, <1>4 DEF NextOf
    <2>3. PICK n : n = NextOf(s, p, kinds)
      OBVIOUS
    <2>4. n \in found /\ \A r \in found : n <= r
      BY <2>1, <2>2, <2>3, Zenon
    <2>5. n \in p..Len(s) /\ s[n] \in kinds /\ n \in Int
      BY <1>1, <1>2, <2>4
    <2>6. ASSUME NEW m \in p..n - 1 PROVE s[m] \notin kinds
      <3>1. m \in p..Len(s) /\ ~(n <= m)
        BY <1>2, <2>5
      <3> QED
        BY <1>1, <2>4, <3>1
    <2> QED
      BY <2>3, <2>5, <2>6
  <1> QED
    BY <1>3, <1>4

\* What ClosedAt finds.
LEMMA ClosedIs ==
    ASSUME NEW s \in Seq(Tokens), NEW p \in 1..Len(s)
    PROVE  /\ ClosedAt(s, p, EndFor) # 0 => Closes(s, p, ClosedAt(s, p, EndFor))
           /\ \A q : Closes(s, p, q) => ClosedAt(s, p, EndFor) = q /\ q # 0
  <1>1. PICK n : n = NextOf(s, p + 1, {EndFor, LineEnd})
    OBVIOUS
  <1>2. ClosedAt(s, p, EndFor) = IF n <= Len(s) /\ s[n] = EndFor THEN n ELSE 0
    BY <1>1 DEF ClosedAt
  <1>3. Len(s) \in Nat /\ p \in Nat /\ p + 1 \in Nat
    BY LenProperties
  <1>4. \/ n = Len(s) + 1 /\ \A q \in p + 1..Len(s) : s[q] \notin {EndFor, LineEnd}
        \/ /\ n \in p + 1..Len(s) /\ s[n] \in {EndFor, LineEnd}
           /\ \A q \in p + 1..n - 1 : s[q] \notin {EndFor, LineEnd}
    BY <1>1, <1>3, NextIs
  <1>5. ASSUME ClosedAt(s, p, EndFor) # 0 PROVE Closes(s, p, ClosedAt(s, p, EndFor))
    <2>1. n <= Len(s) /\ s[n] = EndFor /\ ClosedAt(s, p, EndFor) = n
      BY <1>2, <1>5
    <2>2. n # Len(s) + 1
      BY <1>3, <2>1
    <2> QED
      BY <1>4, <2>1, <2>2 DEF Closes
  <1>6. ASSUME NEW q, Closes(s, p, q) PROVE ClosedAt(s, p, EndFor) = q /\ q # 0
    <2>1. /\ q \in p + 1..Len(s) /\ s[q] = EndFor
          /\ \A m \in p + 1..q - 1 : s[m] \notin {EndFor, LineEnd}
      BY <1>6 DEF Closes
    <2>2. /\ n \in p + 1..Len(s) /\ s[n] \in {EndFor, LineEnd}
          /\ \A m \in p + 1..n - 1 : s[m] \notin {EndFor, LineEnd}
      BY <1>4, <2>1
    <2>3. ~(n < q) /\ ~(q < n)
      BY <1>3, <2>1, <2>2
    <2>4. n = q
      BY <1>3, <2>1, <2>2, <2>3
    <2> QED
      BY <1>2, <1>3, <2>1, <2>4
  <1> QED
    BY <1>5, <1>6

\* The cycles that the code's loop sees.
LEMMA CyclesAre ==
    ASSUME NEW s \in Seq(Tokens), NEW p
    PROVE  p \in Cycles(s) <=> p \in 1..Len(s) /\ s[p][1] = "for" /\ \E q : Closes(s, p, q)
  <1>1. DOMAIN s = 1..Len(s)
    BY LenProperties
  <1> QED
    BY <1>1, ClosedIs DEF Cycles

\* The cycles of Pairs, found token by token.
LEMMA PairsAre ==
    ASSUME NEW s \in Seq(Tokens), NEW p \in 1..Len(s), NEW q
    PROVE  <<p, q>> \in Pairs(s) <=> s[p][1] = "for" /\ Closes(s, p, q)
  <1>1. DOMAIN s = 1..Len(s) /\ Len(s) \in Nat
    BY LenProperties
  <1>2. q \in DOMAIN s /\ p < q <=> q \in p + 1..Len(s)
    BY <1>1
  <1>3. <<p, q>> \in Pairs(s) <=>
          /\ q \in DOMAIN s /\ p < q /\ s[p][1] = "for" /\ s[q] = EndFor
          /\ \A m \in p + 1..q - 1 : s[m] \notin {EndFor, LineEnd}
    BY <1>1 DEF Pairs
  <1> QED
    BY <1>2, <1>3 DEF Closes

-----------------------------------------------------------------------------
\* The page up to no position, and up to one more.
LEMMA PageNone ==
    ASSUME NEW t, NEW d, NEW K
    PROVE  Page(t, d, K, 0) = <<>>
  <1>1. Upto(0) = <<>>
    BY DEF Upto
  <1> QED
    BY <1>1, TextsNone DEF Page

\* The page up to one position more.
LEMMA PageGrows ==
    ASSUME NEW t, NEW d, Fit(t, d), NEW K, NEW k \in 1..Len(t)
    PROVE  /\ Page(t, d, K, k) = Page(t, d, K, k - 1) \o MeansAt(t, d, K, k)
           /\ MeansAt(t, d, K, k) \in Seq(Tokens)
  <1>1. Len(t) \in Nat
    BY LenProperties DEF Fit
  <1>2. Upto(k) = Append(Upto(k - 1), k) /\ Upto(k - 1) \in Seq(1..Len(t))
    <2>1. Upto(k - 1) \in Seq(1..Len(t)) /\ Upto(k) \in Seq(1..Len(t))
      BY <1>1 DEF Upto
    <2>2. Len(Upto(k - 1)) = k - 1 /\ Len(Upto(k)) = k
      BY <1>1 DEF Upto
    <2>3. /\ \A i \in 1..k - 1 : Upto(k)[i] = i /\ Upto(k - 1)[i] = i
          /\ Upto(k)[k] = k
      BY <1>1 DEF Upto
    <2>4. /\ Append(Upto(k - 1), k) \in Seq(1..Len(t)) /\ Len(Append(Upto(k - 1), k)) = k
          /\ \A i \in 1..k - 1 : Append(Upto(k - 1), k)[i] = i
          /\ Append(Upto(k - 1), k)[k] = k
      BY <1>1, <2>1, <2>2, <2>3, AppendProperties
    <2>5. \A i \in 1..k : Upto(k)[i] = Append(Upto(k - 1), k)[i]
      BY <1>1, <2>3, <2>4
    <2> QED
      BY <2>1, <2>2, <2>4, <2>5, SeqEqual
  <1>3. Writes(Means(t, d, K), 1..Len(t), Tokens)
    BY MeansWrites
  <1>4. /\ Texts(Means(t, d, K), Append(Upto(k - 1), k))
              = Texts(Means(t, d, K), Upto(k - 1)) \o Means(t, d, K)[k]
        /\ Means(t, d, K)[k] \in Seq(Tokens)
    <2>1. PICK h, s : h = Means(t, d, K) /\ s = Upto(k - 1)
      OBVIOUS
    <2>2. Writes(h, 1..Len(t), Tokens) /\ s \in Seq(1..Len(t))
      BY <1>2, <1>3, <2>1
    <2>3. Texts(h, Append(s, k)) = Texts(h, s) \o h[k] /\ h[k] \in Seq(Tokens)
      BY <2>2, TextsAppend
    <2> QED
      BY <2>1, <2>3
  <1>5. Means(t, d, K)[k] = MeansAt(t, d, K, k)
    BY DEF Means
  <1> QED
    BY <1>2, <1>4, <1>5 DEF Page

\* The type of the page.
LEMMA PageType ==
    ASSUME NEW t, NEW d, Fit(t, d), NEW K, NEW k \in 0..Len(t)
    PROVE  Page(t, d, K, k) \in Seq(Tokens)
  <1>1. Len(t) \in Nat
    BY LenProperties DEF Fit
  <1>2. Upto(k) \in Seq(1..Len(t))
    BY <1>1 DEF Upto
  <1> QED
    BY <1>2, MeansWrites, TextsType DEF Page

\* A stretch of the template that stands for itself.
LEMMA PageOfSelf ==
    ASSUME NEW t, NEW d, Fit(t, d), NEW K, NEW k \in 1..Len(t) + 1, NEW j \in k - 1..Len(t),
           \A i \in k..j : MeansAt(t, d, K, i) = <<t[i]>>
    PROVE  Page(t, d, K, j) = Page(t, d, K, k - 1) \o SubSeq(t, k, j)
  <1> DEFINE Grown(i) == Page(t, d, K, i) = Page(t, d, K, k - 1) \o SubSeq(t, k, i)
             T == {i \in Nat : i \in k - 1..j => Grown(i)}
  <1>1. /\ Len(t) \in Nat /\ t \in Seq(Tokens) /\ k \in Nat /\ j \in Nat /\ k - 1 \in 0..Len(t)
        /\ Page(t, d, K, k - 1) \in Seq(Tokens)
        /\ \A i \in 1..Len(t) : t[i] \in Tokens
    BY LenProperties, ElementOfSeq, PageType DEF Fit
  <1>2. Grown(k - 1)
    <2>1. SubSeq(t, k, k - 1) = <<>>
      BY <1>1, SubSeqEmpty
    <2>2. Page(t, d, K, k - 1) \o <<>> = Page(t, d, K, k - 1)
      BY <1>1, ConcatEmptySeq
    <2> QED
      BY <2>1, <2>2
  <1>3. ASSUME NEW i \in k..j, Grown(i - 1) PROVE Grown(i)
    <2>1. i \in k..Len(t) /\ i \in 1..Len(t) /\ k \in 1..Len(t) /\ i \in Nat
      BY <1>1
    <2>2. Page(t, d, K, i) = Page(t, d, K, i - 1) \o <<t[i]>>
      BY <2>1, PageGrows
    <2>3. PICK a \in Seq(Tokens), b \in Seq(Tokens), c \in Seq(Tokens) :
              a = Page(t, d, K, k - 1) /\ b = SubSeq(t, k, i - 1) /\ c = <<t[i]>>
      <3>1. SubSeq(t, k, i - 1) \in Seq(Tokens)
        BY <1>1, <2>1, SubSeqProperties
      <3>2. <<t[i]>> \in Seq(Tokens)
        BY <1>1, <2>1
      <3> QED
        BY <1>1, <3>1, <3>2
    <2>4. (a \o b) \o c = a \o (b \o c)
      BY ConcatAssociative, SMT
    <2>5. SubSeq(t, k, i) = SubSeq(t, k, i - 1) \o <<t[i]>>
      BY <1>1, <2>1, SubSeqRecursiveSecond
    <2> QED
      BY <1>3, <2>2, <2>3, <2>4, <2>5
  <1> HIDE DEF Grown
  <1>4. 0 \in T
    <2>1. 0 \in k - 1..j => 0 = k - 1
      BY <1>1
    <2> QED
      BY <1>2, <2>1
  <1>5. ASSUME NEW i \in T PROVE i + 1 \in T
    <2>1. ASSUME i + 1 \in k - 1..j PROVE Grown(i + 1)
      <3>1. CASE i + 1 = k - 1
        BY <1>2, <3>1
      <3>2. CASE i + 1 # k - 1
        <4>1. PICK m \in k..j : m = i + 1 /\ m - 1 = i /\ i \in k - 1..j
          BY <1>1, <2>1, <3>2
        <4> QED
          BY <1>3, <4>1
      <3> QED
        BY <3>1, <3>2
    <2> QED
      BY <2>1
  <1>6. T \in SUBSET Nat
    OBVIOUS
  <1>7. T = Nat
    <2> HIDE DEF T
    <2> QED
      BY <1>4, <1>5, <1>6, Induction
  <1>8. Grown(j)
    BY <1>1, <1>7
  <1> QED
    BY <1>8 DEF Grown

\* A stretch of the template that stands for nothing.
LEMMA PageOfNone ==
    ASSUME NEW t, NEW d, Fit(t, d), NEW K, NEW k \in 0..Len(t), NEW j \in k..Len(t),
           \A i \in k + 1..j : MeansAt(t, d, K, i) = <<>>
    PROVE  Page(t, d, K, j) = Page(t, d, K, k)
  <1> DEFINE T == {n \in Nat : k + n <= j => Page(t, d, K, k + n) = Page(t, d, K, k)}
  <1>1. Len(t) \in Nat /\ k \in Nat /\ j \in Nat /\ Page(t, d, K, k) \in Seq(Tokens)
    BY LenProperties, PageType DEF Fit
  <1>2. 0 \in T
    <2>1. k + 0 = k
      BY <1>1
    <2> QED
      BY <2>1
  <1>3. ASSUME NEW n \in T PROVE n + 1 \in T
    <2>1. SUFFICES ASSUME k + (n + 1) <= j
                   PROVE  Page(t, d, K, k + (n + 1)) = Page(t, d, K, k)
      OBVIOUS
    <2>2. PICK i \in k + 1..j : i = k + (n + 1)
      BY <1>1, <2>1
    <2>3. k + n <= j /\ k + n = i - 1 /\ i \in 1..Len(t)
      BY <1>1, <2>1, <2>2
    <2>4. Page(t, d, K, i - 1) = Page(t, d, K, k)
      BY <2>3
    <2> HIDE DEF T
    <2>5. Page(t, d, K, i) = Page(t, d, K, i - 1) \o <<>>
      BY <2>2, <2>3, PageGrows
    <2>6. Page(t, d, K, k) \o <<>> = Page(t, d, K, k)
      BY <1>1, ConcatEmptySeq
    <2> QED
      BY <2>2, <2>4, <2>5, <2>6
  <1>4. T \in SUBSET Nat
    OBVIOUS
  <1> HIDE DEF T
  <1>5. T = Nat
    BY <1>2, <1>3, <1>4, Induction
  <1>6. j - k \in Nat /\ k + (j - k) = j
    BY <1>1
  <1>7. j - k \in T
    BY <1>5, <1>6
  <1> QED
    BY <1>6, <1>7 DEF T

-----------------------------------------------------------------------------
\* Output o has the cycles of template t that begin before k replaced, and no
\* other one: its first n tokens are done.
Laid(t, d, o, k, n) ==
    /\ k \in 1..Len(t) + 1
    /\ n = Len(Page(t, d, DOMAIN d, k - 1))
    /\ o = Page(t, d, DOMAIN d, k - 1) \o SubSeq(t, k, Len(t))
    /\ \A p, q : <<p, q>> \in Pairs(t) /\ p < k => q < k
    /\ \A r \in Cycles(o) : n < r

\* The file as it was read.
LEMMA LaidFirst ==
    ASSUME NEW t, NEW d, Fit(t, d)
    PROVE  Laid(t, d, t, 1, 0)
  <1>1. t \in Seq(Tokens) /\ Len(t) \in Nat
    BY LenProperties DEF Fit
  <1>2. Page(t, d, DOMAIN d, 1 - 1) = <<>> /\ Len(<<>>) = 0
    <2>1. 1 - 1 = 0
      OBVIOUS
    <2> QED
      BY <2>1, PageNone, EmptySeq
  <1>3. <<>> \o SubSeq(t, 1, Len(t)) = t
    BY <1>1, SubSeqFull, ConcatEmptySeq
  <1>4. \A r \in Cycles(t) : 0 < r
    BY <1>1, CyclesAre
  <1>5. \A p, q : <<p, q>> \in Pairs(t) => ~(p < 1)
    BY <1>1, PairShape
  <1>6. 1 \in 1..Len(t) + 1
    BY <1>1
  <1> QED
    BY <1>2, <1>3, <1>4, <1>5, <1>6, Zenon DEF Laid

\* The rest of the output is the rest of the template.
LEMMA LaidAt ==
    ASSUME NEW t, NEW d, Fit(t, d), NEW o, NEW k, NEW n, Laid(t, d, o, k, n)
    PROVE  /\ t \in Seq(Tokens) /\ o \in Seq(Tokens) /\ n \in Nat /\ Len(t) \in Nat
           /\ k \in 1..Len(t) + 1 /\ Len(o) = n + Len(t) - k + 1
           /\ \A i \in k..Len(t) : o[n + i - k + 1] = t[i]
           /\ Page(t, d, DOMAIN d, k - 1) \in Seq(Tokens)
           /\ SubSeq(t, k, Len(t)) \in Seq(Tokens)
           /\ \A i \in 1..n : o[i] = Page(t, d, DOMAIN d, k - 1)[i]
           /\ n = Len(Page(t, d, DOMAIN d, k - 1))
  <1>1. t \in Seq(Tokens) /\ Len(t) \in Nat /\ k \in 1..Len(t) + 1
    BY LenProperties DEF Fit, Laid
  <1>2. PICK a, b : a = Page(t, d, DOMAIN d, k - 1) /\ b = SubSeq(t, k, Len(t))
    OBVIOUS
  <1>3. a \in Seq(Tokens) /\ n = Len(a) /\ n \in Nat
    <2>1. k - 1 \in 0..Len(t)
      BY <1>1
    <2> QED
      BY <1>2, <2>1, PageType, LenProperties DEF Laid
  <1>4. /\ b \in Seq(Tokens) /\ Len(b) = Len(t) - k + 1
        /\ \A i \in 1..Len(t) - k + 1 : b[i] = t[k + i - 1]
    <2>1. \A i \in k..Len(t) : t[i] \in Tokens
      BY <1>1, ElementOfSeq
    <2>2. /\ b \in Seq(Tokens) /\ Len(b) = IF k <= Len(t) THEN Len(t) - k + 1 ELSE 0
          /\ \A i \in 1..Len(t) - k + 1 : b[i] = t[k + i - 1]
      BY <1>1, <1>2, <2>1, SubSeqProperties
    <2> QED
      BY <1>1, <2>2
  <1>5. o = a \o b
    BY <1>2 DEF Laid
  <1>6. /\ o \in Seq(Tokens) /\ Len(o) = n + Len(b)
        /\ \A i \in 1..n + Len(b) : o[i] = IF i <= n THEN a[i] ELSE b[i - n]
    <2>1. /\ a \o b \in Seq(Tokens) /\ Len(a \o b) = Len(a) + Len(b)
          /\ \A i \in 1..Len(a) + Len(b) : (a \o b)[i] = IF i <= Len(a) THEN a[i] ELSE b[i - Len(a)]
      <3>1. a \in Seq(Tokens) /\ b \in Seq(Tokens)
        BY <1>3, <1>4
      <3> QED
        BY <3>1, ConcatProperties
    <2> QED
      BY <1>3, <1>5, <2>1
  <1>7. ASSUME NEW i \in k..Len(t) PROVE o[n + i - k + 1] = t[i]
    <2>1. PICK j : j = n + i - k + 1
      OBVIOUS
    <2>2. j \in 1..n + Len(b) /\ ~(j <= n) /\ j - n \in 1..Len(t) - k + 1 /\ k + (j - n) - 1 = i
      BY <1>1, <1>3, <1>4, <2>1
    <2>3. o[j] = b[j - n]
      BY <1>6, <2>2
    <2>4. b[j - n] = t[k + (j - n) - 1]
      BY <1>4, <2>2
    <2> QED
      BY <2>1, <2>2, <2>3, <2>4
  <1>8. \A i \in 1..n : o[i] = a[i]
    BY <1>3, <1>4, <1>6
  <1> QED
    BY <1>1, <1>2, <1>3, <1>4, <1>6, <1>7, <1>8

\* A cycle of the rest of the template is one of the output, and the other way
\* round.
LEMMA LaidPairs ==
    ASSUME NEW t, NEW d, Fit(t, d), NEW o, NEW k, NEW n, Laid(t, d, o, k, n),
           NEW p \in k..Len(t), NEW q \in Int
    PROVE  /\ o[n + p - k + 1] = t[p] /\ n + p - k + 1 \in 1..Len(o)
           /\ <<p, q>> \in Pairs(t) <=>
                t[p][1] = "for" /\ Closes(o, n + p - k + 1, n + q - k + 1)
  <1>1. /\ t \in Seq(Tokens) /\ o \in Seq(Tokens) /\ n \in Nat /\ Len(t) \in Nat
        /\ k \in 1..Len(t) + 1 /\ Len(o) = n + Len(t) - k + 1
        /\ \A i \in k..Len(t) : o[n + i - k + 1] = t[i]
    BY LaidAt
  <1>2. p \in 1..Len(t)
    BY <1>1
  <1>0. PICK u, v : u = n + p - k + 1 /\ v = n + q - k + 1
    OBVIOUS
  <1>3. u \in 1..Len(o) /\ v \in Int /\ u = n + p - k + 1 /\ v = n + q - k + 1
    BY <1>0, <1>1
  <1>4. q \in p + 1..Len(t) <=> v \in u + 1..Len(o)
    BY <1>1, <1>3
  <1>5. ASSUME q \in p + 1..Len(t) PROVE Closes(t, p, q) <=> Closes(o, u, v)
    <2>0. /\ k \in Int /\ n \in Int /\ p \in Int /\ q \in Int /\ Len(t) \in Int
          /\ k <= p /\ p <= Len(t) /\ p < q /\ q <= Len(t)
      BY <1>1, <1>5
    <2>1. o[v] = t[q]
      <3>1. q \in k..Len(t)
        BY <2>0
      <3> QED
        BY <1>1, <1>3, <3>1
    <2>2. ASSUME \A m \in p + 1..q - 1 : t[m] \notin {EndFor, LineEnd}, NEW m \in u + 1..v - 1
          PROVE  o[m] \notin {EndFor, LineEnd}
      <3>1. PICK i : i = m - n + k - 1
        OBVIOUS
      <3>2. i \in k..Len(t) /\ i \in p + 1..q - 1 /\ m = n + i - k + 1
        BY <1>3, <2>0, <3>1
      <3>3. o[m] = t[i]
        BY <1>1, <3>2
      <3> QED
        BY <2>2, <3>2, <3>3
    <2>3. ASSUME \A m \in u + 1..v - 1 : o[m] \notin {EndFor, LineEnd}, NEW i \in p + 1..q - 1
          PROVE  t[i] \notin {EndFor, LineEnd}
      <3>1. i \in k..Len(t)
        BY <2>0
      <3>2. PICK m : m = n + i - k + 1
        OBVIOUS
      <3>3. m \in u + 1..v - 1
        BY <1>3, <2>0, <3>2
      <3>4. o[m] = t[i]
        BY <1>1, <3>1, <3>2
      <3> QED
        BY <2>3, <3>3, <3>4
    <2> QED
      BY <1>4, <1>5, <2>1, <2>2, <2>3 DEF Closes
  <1>6. Closes(t, p, q) <=> Closes(o, u, v)
    BY <1>4, <1>5 DEF Closes
  <1>7. <<p, q>> \in Pairs(t) <=> t[p][1] = "for" /\ Closes(t, p, q)
    BY <1>1, <1>2, PairsAre
  <1>8. o[u] = t[p]
    BY <1>1, <1>3
  <1> QED
    BY <1>3, <1>6, <1>7, <1>8

\* A token of the rest is in no cycle and begins none, if none is replaced
\* before it is.
LEMMA FreeToken ==
    ASSUME NEW t, NEW d, Fit(t, d), NEW o, NEW k, NEW n, Laid(t, d, o, k, n),
           NEW i \in k..Len(t), \A r \in Cycles(o) : n + i - k + 1 <= r
    PROVE  ~InPair(t, i) /\ (n + i - k + 1 \notin Cycles(o) => MeansAt(t, d, DOMAIN d, i) = <<t[i]>>)
  <1>1. /\ t \in Seq(Tokens) /\ o \in Seq(Tokens) /\ n \in Nat /\ Len(t) \in Nat
        /\ k \in 1..Len(t) + 1 /\ Len(o) = n + Len(t) - k + 1
    BY LaidAt
  <1>2. ASSUME NEW p \in k..Len(t), NEW q, <<p, q>> \in Pairs(t)
        PROVE  n + p - k + 1 \in Cycles(o)
    <2>1. q \in Int
      BY <1>1, <1>2, PairShape
    <2>2. /\ o[n + p - k + 1] = t[p] /\ n + p - k + 1 \in 1..Len(o)
          /\ t[p][1] = "for" /\ Closes(o, n + p - k + 1, n + q - k + 1)
      BY <1>2, <2>1, LaidPairs
    <2> QED
      BY <1>1, <2>2, CyclesAre
  <1>3. ASSUME InPair(t, i) PROVE FALSE
    <2>1. PICK pq \in Pairs(t) : i \in pq[1] + 1..pq[2]
      BY <1>3 DEF InPair
    <2>2. PICK p, q : pq = <<p, q>> /\ p = pq[1] /\ q = pq[2]
      BY <1>1, PairOf
    <2>3. <<p, q>> \in Pairs(t) /\ i \in p + 1..q /\ p \in 1..Len(t) /\ q \in 1..Len(t)
      BY <1>1, <2>1, <2>2, PairShape
    <2>4. CASE p < k
      <3>1. q < k
        BY <2>3, <2>4 DEF Laid
      <3> QED
        BY <1>1, <2>3, <3>1
    <2>5. CASE ~(p < k)
      <3>1. p \in k..Len(t)
        BY <1>1, <2>3, <2>5
      <3>2. n + p - k + 1 \in Cycles(o)
        BY <1>2, <2>3, <3>1
      <3>3. n + i - k + 1 <= n + p - k + 1
        BY <3>2
      <3> QED
        BY <1>1, <2>3, <3>1, <3>3
    <2> QED
      BY <2>4, <2>5
  <1>4. ASSUME n + i - k + 1 \notin Cycles(o) PROVE MeansAt(t, d, DOMAIN d, i) = <<t[i]>>
    <2>1. ~BeginsPair(t, i)
      <3>1. ASSUME BeginsPair(t, i) PROVE FALSE
        <4>1. <<i, EndOf(t, i)>> \in Pairs(t)
          <5>1. i \in 1..Len(t)
            BY <1>1
          <5> QED
            BY <1>1, <3>1, <5>1, PairThere
        <4> QED
          BY <1>2, <1>4, <4>1
      <3> QED
        BY <3>1
    <2>2. Seen(d, DOMAIN d)[t[i]] = <<t[i]>>
      <3>1. t[i] \in Tokens
        BY <1>1, ElementOfSeq
      <3> QED
        BY <3>1 DEF Seen
    <2> QED
      BY <1>3, <2>1, <2>2 DEF MeansAt
  <1> QED
    BY <1>3, <1>4

\* With no cycle left, the output is the page.
LEMMA LaidLast ==
    ASSUME NEW t, NEW d, Fit(t, d), NEW o, NEW k, NEW n, Laid(t, d, o, k, n), Cycles(o) = {}
    PROVE  o = Page(t, d, DOMAIN d, Len(t))
  <1>1. Len(t) \in Nat /\ k \in 1..Len(t) + 1
    BY LaidAt
  <1>2. ASSUME NEW i \in k..Len(t) PROVE MeansAt(t, d, DOMAIN d, i) = <<t[i]>>
    BY FreeToken
  <1>3. Len(t) \in k - 1..Len(t)
    BY <1>1
  <1>4. Page(t, d, DOMAIN d, Len(t)) = Page(t, d, DOMAIN d, k - 1) \o SubSeq(t, k, Len(t))
    BY <1>1, <1>2, <1>3, PageOfSelf
  <1> QED
    BY <1>4 DEF Laid

\* Where in the template position u of the output comes from.
Place(p, u, n, k) == p = u - n + k - 1

\* The leftmost cycle of o is the one from u to v.
Leftmost(o, u, v) == u \in Cycles(o) /\ (\A r \in Cycles(o) : u <= r) /\ Closes(o, u, v)

\* The leftmost cycle of the output, and where in the template it comes from.
Found(t, d, o, k, n, u, v, p, q) ==
    /\ Fit(t, d) /\ Laid(t, d, o, k, n) /\ Leftmost(o, u, v)
    /\ Place(p, u, n, k) /\ Place(q, v, n, k)

\* The leftmost cycle of the output is one of the template, from p to q.
LEMMA FirstCycle ==
    ASSUME NEW t, NEW d, Fit(t, d), NEW o, NEW k, NEW n, Laid(t, d, o, k, n),
           NEW u, NEW v, Leftmost(o, u, v), NEW p, NEW q, Place(p, u, n, k), Place(q, v, n, k)
    PROVE  /\ p \in k..Len(t) /\ q \in p + 1..Len(t) /\ <<p, q>> \in Pairs(t)
           /\ u = n + p - k + 1 /\ v = n + q - k + 1 /\ u \in n + 1..Len(o)
           /\ v \in u + 1..Len(o) /\ o[u] = t[p] /\ t[p][1] = "for"
  <1>0. u \in Cycles(o) /\ (\A r \in Cycles(o) : u <= r) /\ Closes(o, u, v)
    BY DEF Leftmost
  <1> USE <1>0
  <1>1. /\ o \in Seq(Tokens) /\ n \in Nat /\ Len(t) \in Nat
        /\ k \in 1..Len(t) + 1 /\ Len(o) = n + Len(t) - k + 1
    BY LaidAt
  <1>2. u \in 1..Len(o) /\ o[u][1] = "for" /\ n < u
    BY <1>1, CyclesAre DEF Laid
  <1>3. v \in u + 1..Len(o)
    BY DEF Closes
  <1>4. /\ p \in k..Len(t) /\ q \in p + 1..Len(t) /\ q \in Int
        /\ u = n + p - k + 1 /\ v = n + q - k + 1 /\ u \in n + 1..Len(o)
    <2>1. /\ u \in Int /\ v \in Int /\ n \in Int /\ k \in Int /\ Len(t) \in Int /\ 1 <= k /\ 0 <= n
          /\ n < u /\ u < v /\ v <= Len(o) /\ Len(o) = n + Len(t) - k + 1
      BY <1>1, <1>2, <1>3
    <2>2. p = u - n + k - 1 /\ q = v - n + k - 1
      BY DEF Place
    <2>3. /\ p \in Int /\ q \in Int /\ k <= p /\ p < q /\ q <= Len(t)
          /\ u = n + p - k + 1 /\ v = n + q - k + 1
      BY <2>1, <2>2
    <2> QED
      BY <2>1, <2>3
  <1>5. /\ o[n + p - k + 1] = t[p]
        /\ <<p, q>> \in Pairs(t) <=> t[p][1] = "for" /\ Closes(o, n + p - k + 1, n + q - k + 1)
    BY <1>4, LaidPairs
  <1>6. o[u] = t[p] /\ (<<p, q>> \in Pairs(t) <=> t[p][1] = "for" /\ Closes(o, u, v))
    BY <1>4, <1>5
  <1> QED
    BY <1>2, <1>3, <1>4, <1>6

\* Two stretches of the same tokens.
LEMMA SameStretch ==
    ASSUME NEW s \in Seq(Tokens), NEW t \in Seq(Tokens), NEW a \in Nat \ {0}, NEW b \in Int,
           NEW c \in Nat \ {0}, NEW e \in Int, b <= Len(s), e <= Len(t), b - a = e - c,
           \A i \in a..b : s[i] = t[i - a + c]
    PROVE  SubSeq(s, a, b) = SubSeq(t, c, e) /\ SubSeq(s, a, b) \in Seq(Tokens)
  <1>1. (\A i \in a..b : s[i] \in Tokens) /\ (\A i \in c..e : t[i] \in Tokens)
    BY LenProperties, ElementOfSeq
  <1>2. PICK x, y : x = SubSeq(s, a, b) /\ y = SubSeq(t, c, e)
    OBVIOUS
  <1>3. /\ x \in Seq(Tokens) /\ Len(x) = IF a <= b THEN b - a + 1 ELSE 0
        /\ \A i \in 1..b - a + 1 : x[i] = s[a + i - 1]
    <2>1. a \in Int /\ \A i \in a..b : s[i] \in Tokens
      BY <1>1
    <2>2. /\ SubSeq(s, a, b) \in Seq(Tokens)
          /\ Len(SubSeq(s, a, b)) = IF a <= b THEN b - a + 1 ELSE 0
          /\ \A i \in 1..b - a + 1 : SubSeq(s, a, b)[i] = s[a + i - 1]
      BY <2>1, SubSeqProperties
    <2> QED
      BY <1>2, <2>2
  <1>4. /\ y \in Seq(Tokens) /\ Len(y) = IF c <= e THEN e - c + 1 ELSE 0
        /\ \A i \in 1..e - c + 1 : y[i] = t[c + i - 1]
    <2>1. c \in Int /\ \A i \in c..e : t[i] \in Tokens
      BY <1>1
    <2>2. /\ SubSeq(t, c, e) \in Seq(Tokens)
          /\ Len(SubSeq(t, c, e)) = IF c <= e THEN e - c + 1 ELSE 0
          /\ \A i \in 1..e - c + 1 : SubSeq(t, c, e)[i] = t[c + i - 1]
      BY <2>1, SubSeqProperties
    <2> QED
      BY <1>2, <2>2
  <1>5. Len(x) = Len(y) /\ Len(x) \in Nat
    BY <1>3, <1>4
  <1>6. ASSUME NEW i \in 1..Len(x) PROVE x[i] = y[i]
    <2>1. i \in 1..b - a + 1 /\ i \in 1..e - c + 1 /\ i \in Int
      BY <1>3, <1>5
    <2>2. x[i] = s[a + i - 1] /\ y[i] = t[c + i - 1]
      BY <1>3, <1>4, <2>1
    <2>3. a + i - 1 \in a..b /\ a + i - 1 - a + c = c + i - 1
      BY <2>1
    <2> QED
      BY <2>2, <2>3
  <1> QED
    BY <1>2, <1>3, <1>4, <1>5, <1>6, SeqEqual

\* What the code cuts out of the output and what it leaves before and after.
CutOut(t, d, o, u, v, p, q) ==
    /\ SubSeq(o, u + 1, v - 1) = SubSeq(t, p + 1, q - 1)
    /\ SubSeq(t, p + 1, q - 1) \in Seq(NotFor) /\ SubSeq(t, p + 1, q - 1) \in Seq(Tokens)
    /\ SubSeq(o, v + 1, Len(o)) = SubSeq(t, q + 1, Len(t))
    /\ SubSeq(o, 1, u - 1) = Page(t, d, DOMAIN d, p - 1)

\* The stretches that ReplaceCycle keeps and replaces.
LEMMA Cuts ==
    ASSUME NEW t, NEW d, NEW o, NEW k, NEW n, NEW u, NEW v, NEW p, NEW q,
           Found(t, d, o, k, n, u, v, p, q)
    PROVE  CutOut(t, d, o, u, v, p, q)
  <1>h. /\ Fit(t, d) /\ Laid(t, d, o, k, n) /\ Leftmost(o, u, v)
        /\ Place(p, u, n, k) /\ Place(q, v, n, k)
    BY DEF Found
  <1>0. u \in Cycles(o) /\ (\A r \in Cycles(o) : u <= r) /\ Closes(o, u, v)
    BY <1>h DEF Leftmost
  <1> USE <1>h, <1>0
  <1>1. /\ t \in Seq(Tokens) /\ o \in Seq(Tokens) /\ n \in Nat /\ Len(t) \in Nat
        /\ k \in 1..Len(t) + 1 /\ Len(o) = n + Len(t) - k + 1
        /\ \A i \in k..Len(t) : o[n + i - k + 1] = t[i]
        /\ \A i \in 1..n : o[i] = Page(t, d, DOMAIN d, k - 1)[i]
        /\ Page(t, d, DOMAIN d, k - 1) \in Seq(Tokens) /\ n = Len(Page(t, d, DOMAIN d, k - 1))
    BY LaidAt
  <1>2. /\ p \in k..Len(t) /\ q \in p + 1..Len(t) /\ <<p, q>> \in Pairs(t)
        /\ u = n + p - k + 1 /\ v = n + q - k + 1 /\ u \in n + 1..Len(o)
        /\ v \in u + 1..Len(o)
    BY FirstCycle
  <1>3. /\ k \in Int /\ p \in Int /\ q \in Int /\ u \in Int /\ v \in Int /\ n \in Int /\ Len(t) \in Int
        /\ 1 <= k /\ k <= p /\ p < q /\ q <= Len(t) /\ 0 <= n
        /\ u = n + p - k + 1 /\ v = n + q - k + 1 /\ Len(o) = n + Len(t) - k + 1
    <2>1. n \in Nat /\ Len(t) \in Nat /\ k \in 1..Len(t) + 1 /\ Len(o) = n + Len(t) - k + 1
      BY <1>1
    <2>2. /\ p \in k..Len(t) /\ q \in p + 1..Len(t)
          /\ u = n + p - k + 1 /\ v = n + q - k + 1
      BY <1>2
    <2> QED
      BY <2>1, <2>2
  <1>4. ASSUME NEW i \in u..Len(o) PROVE o[i] = t[i - n + k - 1]
    <2>1. PICK j : j = i - n + k - 1
      OBVIOUS
    <2>2. j \in k..Len(t) /\ i = n + j - k + 1
      BY <1>3, <2>1
    <2> QED
      BY <1>1, <2>1, <2>2
  <1>5. SubSeq(o, u + 1, v - 1) = SubSeq(t, p + 1, q - 1)
    <2>1. PICK a, b, c, e : a = u + 1 /\ b = v - 1 /\ c = p + 1 /\ e = q - 1
      OBVIOUS
    <2>2. /\ a \in Nat \ {0} /\ c \in Nat \ {0} /\ b \in Int /\ e \in Int
          /\ b <= Len(o) /\ e <= Len(t) /\ b - a = e - c
      BY <1>3, <2>1
    <2>3. ASSUME NEW i \in a..b PROVE o[i] = t[i - a + c]
      <3>1. i \in u..Len(o) /\ i - n + k - 1 = i - a + c
        BY <1>3, <2>1
      <3> QED
        BY <1>4, <3>1
    <2>4. SubSeq(o, a, b) = SubSeq(t, c, e)
      BY <1>1, <2>2, <2>3, SameStretch
    <2> QED
      BY <2>1, <2>4
  <1>6. SubSeq(o, v + 1, Len(o)) = SubSeq(t, q + 1, Len(t))
    <2>1. PICK a, b, c, e : a = v + 1 /\ b = Len(o) /\ c = q + 1 /\ e = Len(t)
      OBVIOUS
    <2>2. /\ a \in Nat \ {0} /\ c \in Nat \ {0} /\ b \in Int /\ e \in Int
          /\ b <= Len(o) /\ e <= Len(t) /\ b - a = e - c
      BY <1>3, <2>1
    <2>3. ASSUME NEW i \in a..b PROVE o[i] = t[i - a + c]
      <3>1. i \in u..Len(o) /\ i - n + k - 1 = i - a + c
        BY <1>3, <2>1
      <3> QED
        BY <1>4, <3>1
    <2>4. SubSeq(o, a, b) = SubSeq(t, c, e)
      BY <1>1, <2>2, <2>3, SameStretch
    <2> QED
      BY <2>1, <2>4
  <1>7. SubSeq(t, p + 1, q - 1) \in Seq(NotFor)
    <2>1. ASSUME NEW i \in p + 1..q - 1 PROVE t[i] \in NotFor
      <3>1. i \in 1..Len(t) /\ i \in p + 1..q
        BY <1>3
      <3>2. t[i] \in Tokens
        BY <1>1, <3>1, ElementOfSeq
      <3>3. t[i][1] # "for"
        <4>1. PICK pq \in Pairs(t) : pq = <<p, q>> /\ pq[1] = p /\ pq[2] = q
          BY <1>2
        <4> QED
          BY <3>1, <4>1 DEF Fit, Flat
      <3> QED
        BY <3>2, <3>3 DEF NotFor
    <2>2. p + 1 \in Int /\ q - 1 \in Int
      BY <1>3
    <2> QED
      BY <2>1, <2>2, SubSeqProperties
  <1>8. SubSeq(t, p + 1, q - 1) \in Seq(Tokens)
    BY <1>7, SeqMonotonic DEF NotFor
  <1>9. SubSeq(o, 1, u - 1) = Page(t, d, DOMAIN d, p - 1)
    <2>1. ASSUME NEW i \in k..p - 1 PROVE MeansAt(t, d, DOMAIN d, i) = <<t[i]>>
      <3>1. i \in k..Len(t) /\ n + i - k + 1 < u /\ n + i - k + 1 \in Int
        BY <1>3
      <3>2. n + i - k + 1 \notin Cycles(o)
        BY <1>3, <3>1
      <3>3. \A r \in Cycles(o) : n + i - k + 1 <= r
        <4>1. \A r \in Cycles(o) : r \in Int
          BY <1>1, CyclesAre
        <4> QED
          BY <1>3, <3>1, <4>1
      <3> QED
        BY <3>1, <3>2, <3>3, FreeToken
    <2>2. p - 1 \in k - 1..Len(t)
      BY <1>3
    <2>3. Page(t, d, DOMAIN d, p - 1) = Page(t, d, DOMAIN d, k - 1) \o SubSeq(t, k, p - 1)
      BY <1>1, <2>1, <2>2, PageOfSelf
    <2>4. PICK a, b : a = Page(t, d, DOMAIN d, k - 1) /\ b = SubSeq(t, k, p - 1)
      OBVIOUS
    <2>5. a \in Seq(Tokens) /\ Len(a) = n /\ \A i \in 1..n : o[i] = a[i]
      BY <1>1, <2>4
    <2>6. /\ b \in Seq(Tokens) /\ Len(b) = p - k /\ \A i \in 1..p - k : b[i] = t[k + i - 1]
      <3>1. \A i \in k..p - 1 : t[i] \in Tokens
        BY <1>1, <1>3, ElementOfSeq
      <3>2. /\ b \in Seq(Tokens) /\ Len(b) = IF k <= p - 1 THEN p - 1 - k + 1 ELSE 0
            /\ \A i \in 1..p - 1 - k + 1 : b[i] = t[k + i - 1]
        BY <1>3, <2>4, <3>1, SubSeqProperties
      <3> QED
        BY <1>3, <3>2
    <2>7. /\ a \o b \in Seq(Tokens) /\ Len(a \o b) = n + (p - k)
          /\ \A i \in 1..n + (p - k) : (a \o b)[i] = IF i <= n THEN a[i] ELSE b[i - n]
      <3>1. /\ a \o b \in Seq(Tokens) /\ Len(a \o b) = Len(a) + Len(b)
            /\ \A i \in 1..Len(a) + Len(b) : (a \o b)[i] = IF i <= Len(a) THEN a[i] ELSE b[i - Len(a)]
        <4>1. a \in Seq(Tokens) /\ b \in Seq(Tokens)
          BY <2>5, <2>6
        <4> QED
          BY <4>1, ConcatProperties
      <3>2. Len(a) = n /\ Len(b) = p - k
        BY <2>5, <2>6
      <3> QED
        BY <3>1, <3>2
    <2>8. PICK c : c = a \o b
      OBVIOUS
    <2>9. ASSUME NEW i \in 1..u - 1 PROVE o[i] = c[i]
      <3>1. i \in 1..n + (p - k) /\ i \in Int
        BY <1>3
      <3>2. CASE i <= n
        <4>1. c[i] = a[i]
          BY <2>7, <2>8, <3>1, <3>2
        <4>2. i \in 1..n
          BY <1>3, <3>2
        <4> QED
          BY <2>5, <4>1, <4>2
      <3>3. CASE ~(i <= n)
        <4>1. PICK j : j = i - n
          OBVIOUS
        <4>2. j \in 1..p - k /\ k + j - 1 \in k..Len(t) /\ n + (k + j - 1) - k + 1 = i
          BY <1>3, <3>1, <3>3, <4>1
        <4>3. c[i] = b[j] /\ b[j] = t[k + j - 1]
          BY <2>6, <2>7, <2>8, <3>1, <3>3, <4>1, <4>2
        <4>4. o[n + (k + j - 1) - k + 1] = t[k + j - 1]
          BY <1>1, <4>2
        <4> QED
          BY <4>2, <4>3, <4>4
      <3> QED
        BY <3>2, <3>3
    <2>10. SubSeq(o, 1, u - 1) = SubSeq(c, 1, u - 1)
      <3>1. /\ 1 \in Nat \ {0} /\ u - 1 \in Int /\ u - 1 <= Len(o) /\ u - 1 <= Len(c)
            /\ u - 1 - 1 = u - 1 - 1 /\ c \in Seq(Tokens)
        BY <1>3, <2>7, <2>8
      <3>2. \A i \in 1..u - 1 : o[i] = c[i - 1 + 1]
        BY <1>3, <2>9
      <3> QED
        BY <1>1, <3>1, <3>2, SameStretch
    <2>11. SubSeq(c, 1, u - 1) = c
      <3>1. u - 1 = Len(c) /\ c \in Seq(Tokens)
        BY <1>3, <2>7, <2>8
      <3> QED
        BY <3>1, SubSeqFull
    <2> QED
      BY <2>3, <2>4, <2>8, <2>10, <2>11
  <1> QED
    BY <1>5, <1>6, <1>7, <1>8, <1>9, Zenon DEF CutOut

\* The page up to the end of the leftmost cycle.
LEMMA PageWithCycle ==
    ASSUME NEW t, NEW d, NEW o, NEW k, NEW n, NEW u, NEW v, NEW p, NEW q,
           Found(t, d, o, k, n, u, v, p, q)
    PROVE  Page(t, d, DOMAIN d, q)
             = Page(t, d, DOMAIN d, p - 1)
                 \o Cycle(d, DOMAIN d, t[p][2], t[p][3], SubSeq(t, p + 1, q - 1))
  <1>h. /\ Fit(t, d) /\ Laid(t, d, o, k, n) /\ Leftmost(o, u, v)
        /\ Place(p, u, n, k) /\ Place(q, v, n, k)
    BY DEF Found
  <1>0. u \in Cycles(o) /\ (\A r \in Cycles(o) : u <= r) /\ Closes(o, u, v)
    BY <1>h DEF Leftmost
  <1> USE <1>h, <1>0
  <1>1. t \in Seq(Tokens) /\ n \in Nat /\ Len(t) \in Nat /\ k \in 1..Len(t) + 1
    BY LaidAt
  <1>2. /\ p \in k..Len(t) /\ q \in p + 1..Len(t) /\ <<p, q>> \in Pairs(t) /\ u = n + p - k + 1
    BY FirstCycle
  <1>3. p \in 1..Len(t) /\ p \in 0..Len(t) /\ q \in p..Len(t)
    BY <1>1, <1>2
  <1>4. ~InPair(t, p)
    BY <1>2, FreeToken
  <1>5. PICK pq \in Pairs(t) : pq = <<p, q>> /\ pq[1] = p /\ pq[2] = q
    BY <1>2
  <1>6. BeginsPair(t, p) /\ EndOf(t, p) = q
    BY <1>1, <1>2, <1>5, EndIs DEF BeginsPair
  <1>7. MeansAt(t, d, DOMAIN d, p)
          = Cycle(d, DOMAIN d, t[p][2], t[p][3], SubSeq(t, p + 1, q - 1))
    BY <1>4, <1>6, Zenon DEF MeansAt
  <1>8. ASSUME NEW i \in p + 1..q PROVE MeansAt(t, d, DOMAIN d, i) = <<>>
    <2>1. InPair(t, i)
      BY <1>5 DEF InPair
    <2> QED
      BY <2>1 DEF MeansAt
  <1>9. Page(t, d, DOMAIN d, q) = Page(t, d, DOMAIN d, p)
    BY <1>3, <1>8, PageOfNone
  <1>10. Page(t, d, DOMAIN d, p) = Page(t, d, DOMAIN d, p - 1) \o MeansAt(t, d, DOMAIN d, p)
    BY <1>3, PageGrows
  <1> QED
    BY <1>7, <1>9, <1>10

\* A stretch with no marker of a cycle in the place of the leftmost cycle:
\* nothing in front of its end begins a cycle.
LEMMA NoneInFront ==
    ASSUME NEW o \in Seq(Tokens), NEW w \in Seq(Tokens),
           NEW u \in Cycles(o), \A r \in Cycles(o) : u <= r, NEW v, Closes(o, u, v),
           NEW c \in Seq(NotFor), Len(w) >= u - 1 + Len(c),
           \A i \in 1..u - 1 : w[i] = o[i],
           \A i \in 1..Len(c) : w[u - 1 + i] = c[i]
    PROVE  \A r \in Cycles(w) : u - 1 + Len(c) < r
  <1>1. /\ u \in 1..Len(o) /\ o[u][1] = "for" /\ Len(o) \in Nat /\ Len(w) \in Nat /\ Len(c) \in Nat
        /\ v \in u + 1..Len(o) /\ o[v] = EndFor
        /\ \A m \in u + 1..v - 1 : o[m] \notin {EndFor, LineEnd}
    BY CyclesAre, LenProperties DEF Closes
  <1>2. SUFFICES ASSUME NEW r \in Cycles(w), ~(u - 1 + Len(c) < r) PROVE FALSE
    OBVIOUS
  <1>3. r \in 1..Len(w) /\ w[r][1] = "for"
    BY CyclesAre
  <1>4. PICK x : Closes(w, r, x)
    BY CyclesAre
  <1>5. /\ x \in r + 1..Len(w) /\ w[x] = EndFor
        /\ \A m \in r + 1..x - 1 : w[m] \notin {EndFor, LineEnd}
    BY <1>4 DEF Closes
  <1>6. CASE r < u
    <2>1. r \in 1..u - 1 /\ r \in 1..Len(o) /\ w[r] = o[r]
      BY <1>1, <1>3, <1>6
    <2>2. r \notin Cycles(o)
      BY <1>1, <1>6, <2>1
    <2>3. \E y : Closes(o, r, y)
      <3>1. CASE x < u
        <4>1. x \in r + 1..Len(o) /\ x \in 1..u - 1
          BY <1>1, <1>5, <2>1, <3>1
        <4>2. \A m \in r + 1..x - 1 : m \in 1..u - 1
          BY <1>1, <2>1, <3>1, <4>1
        <4>3. o[x] = EndFor /\ \A m \in r + 1..x - 1 : o[m] \notin {EndFor, LineEnd}
          BY <1>5, <4>1, <4>2
        <4> QED
          BY <4>1, <4>3 DEF Closes
      <3>2. CASE ~(x < u)
        <4>1. v \in r + 1..Len(o)
          BY <1>1, <1>6, <2>1
        <4>2. ASSUME NEW m \in r + 1..v - 1 PROVE o[m] \notin {EndFor, LineEnd}
          <5>1. CASE m < u
            <6>1. m \in 1..u - 1 /\ m \in r + 1..x - 1
              BY <1>1, <1>5, <2>1, <3>2, <5>1
            <6> QED
              BY <1>5, <6>1
          <5>2. CASE m = u
            <6>1. EndFor[1] # "for" /\ LineEnd[1] # "for"
              BY TokenKinds
            <6> QED
              BY <1>1, <5>2, <6>1
          <5>3. CASE m > u
            <6>1. m \in u + 1..v - 1
              BY <1>1, <2>1, <5>3
            <6> QED
              BY <1>1, <6>1
          <5> QED
            BY <1>1, <2>1, <5>1, <5>2, <5>3
        <4> QED
          BY <1>1, <4>1, <4>2 DEF Closes
      <3> QED
        BY <3>1, <3>2
    <2> QED
      BY <1>3, <2>1, <2>2, <2>3, CyclesAre
  <1>7. CASE ~(r < u)
    <2>1. PICK i : i = r - u + 1
      OBVIOUS
    <2>2. i \in 1..Len(c) /\ u - 1 + i = r
      BY <1>1, <1>2, <1>3, <1>7, <2>1
    <2>3. w[r] = c[i] /\ c[i] \in NotFor
      BY <2>2, ElementOfSeq
    <2> QED
      BY <1>3, <2>3 DEF NotFor
  <1> QED
    BY <1>6, <1>7

\* Replacing the leftmost cycle of the output brings the template's next one
\* to its place.
LEMMA LaidStep ==
    ASSUME NEW t, NEW d, Fit(t, d), NEW o, NEW k, NEW n, Laid(t, d, o, k, n),
           NEW u, NEW v, Leftmost(o, u, v)
    PROVE  \E l, m : Laid(t, d, SubSeq(o, 1, u - 1)
                                  \o Repeated(SubSeq(o, u + 1, v - 1), o[u][2], d[o[u][3]])
                                  \o SubSeq(o, v + 1, Len(o)), l, m)
  <1>1. PICK p, q : Place(p, u, n, k) /\ Place(q, v, n, k)
    BY DEF Place
  <1>24. Found(t, d, o, k, n, u, v, p, q)
    BY <1>1 DEF Found
  <1>25. CutOut(t, d, o, u, v, p, q)
    BY <1>24, Cuts
  <1>2. /\ t \in Seq(Tokens) /\ o \in Seq(Tokens) /\ n \in Nat /\ Len(t) \in Nat
        /\ k \in 1..Len(t) + 1 /\ Len(o) = n + Len(t) - k + 1 /\ Clean(d)
    BY LaidAt DEF Fit
  <1>3. /\ p \in k..Len(t) /\ q \in p + 1..Len(t) /\ <<p, q>> \in Pairs(t)
        /\ u = n + p - k + 1 /\ v = n + q - k + 1 /\ u \in n + 1..Len(o)
        /\ v \in u + 1..Len(o) /\ o[u] = t[p] /\ t[p][1] = "for"
    BY <1>1, FirstCycle
  <1>23. u \in Cycles(o) /\ (\A r \in Cycles(o) : u <= r) /\ Closes(o, u, v)
    BY DEF Leftmost
  <1>0. /\ k \in Int /\ p \in Int /\ q \in Int /\ u \in Int /\ v \in Int /\ n \in Int /\ Len(t) \in Int
        /\ 1 <= k /\ k <= p /\ p < q /\ q <= Len(t) /\ 0 <= n /\ n < u /\ u < v /\ v <= Len(o)
        /\ u = n + p - k + 1 /\ v = n + q - k + 1 /\ Len(o) = n + Len(t) - k + 1
    BY <1>2, <1>3
  <1>4. PICK scope \in Seq(Tokens) : scope = SubSeq(t, p + 1, q - 1) /\ scope \in Seq(NotFor)
    BY <1>25 DEF CutOut
  <1>5. /\ SubSeq(o, u + 1, v - 1) = scope
        /\ SubSeq(o, v + 1, Len(o)) = SubSeq(t, q + 1, Len(t))
        /\ SubSeq(o, 1, u - 1) = Page(t, d, DOMAIN d, p - 1)
    <2>1. /\ SubSeq(o, u + 1, v - 1) = SubSeq(t, p + 1, q - 1)
          /\ SubSeq(o, v + 1, Len(o)) = SubSeq(t, q + 1, Len(t))
          /\ SubSeq(o, 1, u - 1) = Page(t, d, DOMAIN d, p - 1)
      BY <1>25, Zenon DEF CutOut
    <2> QED
      BY <1>4, <2>1
  <1>6. t[p][3] \in DOMAIN d
    <2>1. p \in DOMAIN t
      BY <1>2, <1>3, LenProperties
    <2> QED
      BY <1>3, <2>1 DEF Fit
  <1>7. PICK c \in Seq(Tokens) : /\ c = Repeated(scope, o[u][2], d[o[u][3]]) /\ c \in Seq(NotFor)
                                 /\ c = Cycle(d, DOMAIN d, t[p][2], t[p][3], scope)
    <2>1. Repeated(scope, t[p][2], d[t[p][3]]) = Cycle(d, DOMAIN d, t[p][2], t[p][3], scope)
      BY <1>2, <1>6, RepeatedIsCycle
    <2>2. /\ Cycle(d, DOMAIN d, t[p][2], t[p][3], scope) \in Seq(NotFor)
          /\ Cycle(d, DOMAIN d, t[p][2], t[p][3], scope) \in Seq(Tokens)
      BY <1>2, <1>4, <1>6, CycleNotFor, CycleType
    <2> QED
      BY <1>3, <2>1, <2>2
  <1>8. PICK a \in Seq(Tokens), b \in Seq(Tokens) :
            a = Page(t, d, DOMAIN d, p - 1) /\ b = SubSeq(t, q + 1, Len(t))
    <2>1. p - 1 \in 0..Len(t) /\ q + 1 \in Int /\ Len(t) \in Int
      BY <1>0
    <2>2. \A i \in q + 1..Len(t) : t[i] \in Tokens
      BY <1>0, <1>2, ElementOfSeq
    <2>3. SubSeq(t, q + 1, Len(t)) \in Seq(Tokens)
      BY <2>1, <2>2, SubSeqProperties
    <2>4. Page(t, d, DOMAIN d, p - 1) \in Seq(Tokens)
      BY <2>1, PageType
    <2> QED
      BY <2>3, <2>4
  <1>9. Page(t, d, DOMAIN d, q) = a \o c
    <2>1. Page(t, d, DOMAIN d, q)
            = Page(t, d, DOMAIN d, p - 1)
                \o Cycle(d, DOMAIN d, t[p][2], t[p][3], SubSeq(t, p + 1, q - 1))
      BY <1>24, PageWithCycle
    <2> QED
      BY <1>4, <1>7, <1>8, <2>1
  <1>10. PICK w : w = a \o c \o b
    OBVIOUS
  <1>11. Len(a) = u - 1 /\ \A i \in 1..u - 1 : a[i] = o[i]
    <2>1. a = SubSeq(o, 1, u - 1)
      BY <1>5, <1>8
    <2>2. \A i \in 1..u - 1 : o[i] \in Tokens
      BY <1>2, <1>3, ElementOfSeq
    <2>3. /\ Len(a) = IF 1 <= u - 1 THEN u - 1 - 1 + 1 ELSE 0
          /\ \A i \in 1..u - 1 - 1 + 1 : a[i] = o[1 + i - 1]
      BY <1>0, <2>1, <2>2, SubSeqProperties
    <2>4. Len(a) = u - 1
      BY <1>0, <2>3
    <2>5. \A i \in 1..u - 1 : i \in 1..u - 1 - 1 + 1 /\ 1 + i - 1 = i
      BY <1>0
    <2>6. \A i \in 1..u - 1 : a[i] = o[i]
      BY <2>3, <2>5
    <2> QED
      BY <2>4, <2>6
  <1>12. /\ a \o c \in Seq(Tokens) /\ Len(a \o c) = Len(a) + Len(c)
         /\ \A i \in 1..Len(a) + Len(c) : (a \o c)[i] = IF i <= Len(a) THEN a[i] ELSE c[i - Len(a)]
    BY ConcatProperties
  <1>13. PICK ac \in Seq(Tokens) : ac = a \o c
    BY <1>12
  <1>14. /\ w \in Seq(Tokens) /\ Len(w) = Len(ac) + Len(b)
         /\ \A i \in 1..Len(ac) + Len(b) : w[i] = IF i <= Len(ac) THEN ac[i] ELSE b[i - Len(ac)]
    BY <1>10, <1>13, ConcatProperties
  <1>15. Len(a) \in Nat /\ Len(b) \in Nat /\ Len(c) \in Nat /\ Len(ac) = u - 1 + Len(c)
    BY <1>11, <1>12, <1>13, LenProperties
  <1>16. ASSUME NEW i \in 1..u - 1 PROVE w[i] = o[i]
    <2>1. i \in 1..Len(a) + Len(c) /\ i <= Len(a) /\ i \in 1..Len(ac) + Len(b) /\ i <= Len(ac)
      BY <1>0, <1>11, <1>15
    <2> QED
      BY <1>11, <1>12, <1>13, <1>14, <2>1
  <1>17. ASSUME NEW i \in 1..Len(c) PROVE w[u - 1 + i] = c[i]
    <2>1. PICK j : j = u - 1 + i
      OBVIOUS
    <2>2. /\ j \in 1..Len(a) + Len(c) /\ ~(j <= Len(a)) /\ j - Len(a) = i
          /\ j \in 1..Len(ac) + Len(b) /\ j <= Len(ac)
      BY <1>0, <1>11, <1>15, <2>1
    <2>3. (a \o c)[j] = c[i]
      BY <1>12, <2>2
    <2>4. w[j] = ac[j]
      BY <1>14, <2>2
    <2> QED
      BY <1>13, <2>1, <2>3, <2>4
  <1>18. \A r \in Cycles(w) : Len(ac) < r
    <2>1. Len(w) >= u - 1 + Len(c)
      BY <1>0, <1>14, <1>15
    <2>2. o \in Seq(Tokens) /\ w \in Seq(Tokens) /\ c \in Seq(NotFor)
      BY <1>2, <1>7, <1>14
    <2>3. \A r \in Cycles(w) : u - 1 + Len(c) < r
      BY <1>16, <1>17, <1>23, <2>1, <2>2, NoneInFront
    <2> QED
      BY <1>15, <2>3
  <1>19. ASSUME NEW x, NEW y, <<x, y>> \in Pairs(t), x < q + 1 PROVE y < q + 1
    <2>1. x \in 1..Len(t) /\ y \in 1..Len(t)
      BY <1>2, <1>19, PairShape
    <2>2. CASE x < k
      <3>1. y < k
        BY <1>19, <2>2 DEF Laid
      <3> QED
        BY <1>2, <1>3, <2>1, <3>1
    <2>3. CASE x \in k..p - 1
      <3>1. x \in k..Len(t) /\ y \in Int /\ ~(u <= n + x - k + 1)
        BY <1>2, <1>3, <2>1, <2>3
      <3>2. /\ n + x - k + 1 \in 1..Len(o) /\ o[n + x - k + 1] = t[x]
            /\ t[x][1] = "for" /\ Closes(o, n + x - k + 1, n + y - k + 1)
        BY <1>19, <3>1, LaidPairs
      <3>3. n + x - k + 1 \in Cycles(o)
        BY <1>2, <3>2, CyclesAre
      <3> QED
        BY <1>23, <3>1, <3>3
    <2>4. CASE x = p
      <3>1. y = q
        BY <1>2, <1>3, <1>19, <2>4, OneEnd
      <3> QED
        BY <1>3, <2>1, <3>1
    <2>5. CASE x \in p + 1..q
      <3>1. PICK pq \in Pairs(t) : pq = <<p, q>> /\ pq[1] = p /\ pq[2] = q
        BY <1>3
      <3>2. t[x][1] # "for"
        BY <2>5, <3>1 DEF Fit, Flat
      <3> QED
        BY <1>2, <1>19, <3>2, PairShape
    <2>6. x < k \/ x \in k..p - 1 \/ x = p \/ x \in p + 1..q
      BY <1>2, <1>3, <1>19, <2>1
    <2> QED
      BY <2>2, <2>3, <2>4, <2>5, <2>6
  <1>20. q + 1 \in 1..Len(t) + 1 /\ q + 1 - 1 = q
    BY <1>0
  <1>21. Laid(t, d, w, q + 1, Len(ac))
    <2>3. PICK l : l = q + 1
      OBVIOUS
    <2>7. l - 1 = q
      BY <1>0, <2>3
    <2>1. w = Page(t, d, DOMAIN d, l - 1) \o SubSeq(t, l, Len(t))
      BY <1>8, <1>9, <1>10, <2>3, <2>7
    <2>2. Len(ac) = Len(Page(t, d, DOMAIN d, l - 1))
      BY <1>9, <1>13, <2>7
    <2>4. l \in 1..Len(t) + 1
      BY <1>20, <2>3
    <2>5. \A x, y : <<x, y>> \in Pairs(t) /\ x < l => y < l
      BY <1>19, <2>3
    <2>6. Laid(t, d, w, l, Len(ac))
      BY <1>18, <2>1, <2>2, <2>3, <2>4, <2>5, Zenon DEF Laid
    <2> QED
      BY <2>3, <2>6
  <1>22. w = SubSeq(o, 1, u - 1) \o Repeated(SubSeq(o, u + 1, v - 1), o[u][2], d[o[u][3]])
               \o SubSeq(o, v + 1, Len(o))
    BY <1>5, <1>7, <1>8, <1>10
  <1> QED
    BY <1>21, <1>22

-----------------------------------------------------------------------------
\* What a page is rendered from when RenderedInPlace speaks of it.
Usual == ValuesWithout({"for", "endfor", "var"}) /\ Flat(template) /\ ListsKnown

\* A sequence whose elements are all in T.
LEMMA SeqNarrowed ==
    ASSUME NEW S, NEW T, NEW s \in Seq(S), \A p \in DOMAIN s : s[p] \in T
    PROVE  s \in Seq(T)
  <1>1. Len(s) \in Nat /\ DOMAIN s = 1..Len(s) /\ s = [p \in 1..Len(s) |-> s[p]]
    BY LenProperties
  <1> QED
    BY <1>1

\* Values without markers of the kinds, key by key.
LEMMA ValuesAre ==
    ASSUME data \in Datas, NEW kinds, ValuesWithout(kinds), NEW key \in DOMAIN data
    PROVE  data[key] \in Seq(Seq({e \in Tokens : e[1] \notin kinds}))
  <1>1. PICK values \in Seq(Seq(Tokens)) : values = data[key]
    BY TextsAreTokens
  <1>2. PICK S : S = {e \in Tokens : e[1] \notin kinds}
    OBVIOUS
  <1>3. ASSUME NEW v \in DOMAIN values PROVE values[v] \in Seq(S)
    <2>1. PICK s \in Seq(Tokens) : s = values[v]
      BY LenProperties, ElementOfSeq
    <2>2. \A p \in DOMAIN s : s[p] \in Tokens
      BY LenProperties, ElementOfSeq
    <2>3. \A p \in DOMAIN s : s[p][1] \notin kinds
      BY <1>1, <2>1 DEF ValuesWithout
    <2>4. \A p \in DOMAIN s : s[p] \in S
      BY <1>2, <2>2, <2>3
    <2> QED
      BY <2>1, <2>4, SeqNarrowed
  <1> QED
    BY <1>1, <1>2, <1>3, SeqNarrowed

\* The lemmas above apply to what RenderedInPlace speaks of.
LEMMA UsualFits ==
    ASSUME template \in Files \cup {NoFile}, data \in Datas, Usual
    PROVE  template \in Files /\ Fit(template, data)
  <1>1. template \in Files /\ template \in Seq(Tokens)
    BY TextsAreTokens DEF Usual, ListsKnown
  <1>2. Clean(data)
    BY ValuesAre DEF Usual, Clean, Plain
  <1> QED
    BY <1>1, <1>2 DEF Usual, ListsKnown, Fit

\* With every key replaced, a token is what is shown for it.
LEMMA ShownIs ==
    ASSUME NEW e \in Tokens
    PROVE  Seen(data, {})[e] = Shown(e)
  BY DEF Seen, Shown, FirstValue, FirstOf

\* With every key replaced, a cycle is what is shown for it.
LEMMA CycleShown ==
    ASSUME NEW t \in Seq(Tokens), Clean(data), NEW p \in 1..Len(t), BeginsPair(t, p),
           t[p][3] \in DOMAIN data
    PROVE  Cycle(data, {}, t[p][2], t[p][3], SubSeq(t, p + 1, EndOf(t, p) - 1))
             = ShownFor(t, p, EndOf(t, p))
  <1>1. PICK q \in 1..Len(t) : q = EndOf(t, p) /\ p < q
    BY PairThere, PairShape
  <1>2. PICK scope \in Seq(Tokens) : scope = SubSeq(t, p + 1, q - 1)
    BY <1>1, PairThere
  <1>3. /\ DOMAIN scope = 1..q - p - 1
        /\ \A m \in 1..q - p - 1 : scope[m] = t[p + m] /\ scope[m] \in Tokens
    <2>1. Len(t) \in Nat /\ p \in Int /\ q \in Int /\ 1 <= p /\ p < q /\ q <= Len(t)
      BY <1>1, LenProperties
    <2>2. \A i \in p + 1..q - 1 : t[i] \in Tokens
      BY <2>1, ElementOfSeq
    <2>3. /\ Len(scope) = IF p + 1 <= q - 1 THEN q - 1 - (p + 1) + 1 ELSE 0
          /\ \A i \in 1..q - 1 - (p + 1) + 1 : scope[i] = t[p + 1 + i - 1]
      BY <1>2, <2>1, <2>2, SubSeqProperties
    <2>4. /\ Len(scope) = q - p - 1
          /\ \A i \in 1..q - p - 1 : i \in 1..q - 1 - (p + 1) + 1 /\ p + 1 + i - 1 = p + i
      BY <2>1, <2>3
    <2> QED
      BY <2>3, <2>4, LenProperties, ElementOfSeq
  <1>4. PICK values \in Seq(Seq(Plain)) : values = data[t[p][3]]
    BY DEF Clean
  <1>5. ASSUME NEW value \in Seq(Plain)
        PROVE  Round(data, {}, t[p][2], scope)[value]
                 = FlattenSeq([m \in 1..q - p - 1 |->
                      IF t[p + m] = Var(t[p][2]) THEN value ELSE Shown(t[p + m])])
    <2>1. \A m \in 1..q - p - 1 : Within(data, {}, t[p][2], value)[scope[m]]
                                    = IF t[p + m] = Var(t[p][2]) THEN value ELSE Shown(t[p + m])
      BY <1>3, ShownIs DEF Within
    <2>2. Pieces(Within(data, {}, t[p][2], value), scope)
            = [m \in 1..q - p - 1 |-> IF t[p + m] = Var(t[p][2]) THEN value ELSE Shown(t[p + m])]
      BY <1>3, <2>1 DEF Pieces
    <2> QED
      BY <2>2 DEF Round, Texts
  <1>6. \A v \in DOMAIN values : values[v] \in Seq(Plain)
    BY LenProperties, ElementOfSeq
  <1>7. Pieces(Round(data, {}, t[p][2], scope), values)
          = [v \in DOMAIN values |-> FlattenSeq([m \in 1..q - p - 1 |->
                IF t[p + m] = Var(t[p][2]) THEN values[v] ELSE Shown(t[p + m])])]
    BY <1>5, <1>6 DEF Pieces
  <1> QED
    BY <1>1, <1>2, <1>4, <1>7, Zenon DEF Cycle, Texts, ShownFor

\* The page in the words of RenderedInPlace.
LEMMA PageIsInPlace ==
    ASSUME Fit(template, data)
    PROVE  FlattenSeq([p \in DOMAIN template |-> Standing(template, p)])
             = Page(template, data, {}, Len(template))
  <1>1. PICK t \in Seq(Tokens) : t = template
    BY DEF Fit
  <1>2. Clean(data) /\ DOMAIN t = 1..Len(t) /\ Len(t) \in Nat
    BY LenProperties DEF Fit
  <1>3. ASSUME NEW p \in 1..Len(t) PROVE Standing(t, p) = MeansAt(t, data, {}, p)
    <2>1. Standing(t, p) = IF InPair(t, p) THEN <<>>
                        ELSE IF BeginsPair(t, p) THEN ShownFor(t, p, EndOf(t, p)) ELSE Shown(t[p])
      BY Zenon DEF Standing, InPair, BeginsPair, EndOf
    <2>2. CASE BeginsPair(t, p)
      <3>1. t[p][3] \in DOMAIN data
        BY <1>1, <1>2, <2>2, PairThere DEF Fit
      <3>2. Cycle(data, {}, t[p][2], t[p][3], SubSeq(t, p + 1, EndOf(t, p) - 1))
              = ShownFor(t, p, EndOf(t, p))
        BY <1>2, <2>2, <3>1, CycleShown
      <3> QED
        BY <2>1, <2>2, <3>2, Zenon DEF MeansAt
    <2>3. CASE ~BeginsPair(t, p)
      <3>1. Seen(data, {})[t[p]] = Shown(t[p])
        BY ShownIs, ElementOfSeq
      <3> QED
        BY <2>1, <2>3, <3>1, Zenon DEF MeansAt
    <2> QED
      BY <2>2, <2>3
  <1>4. Pieces(Means(t, data, {}), Upto(Len(t))) = [p \in DOMAIN t |-> Standing(t, p)]
    BY <1>2, <1>3 DEF Pieces, Means, Upto
  <1> QED
    BY <1>1, <1>4 DEF Page, Texts

\* The type of what MinifyHTML gives.
LEMMA MinifiedType ==
    ASSUME NEW s \in Seq(Tokens)
    PROVE  WithoutComments(s) \in Seq(Tokens) /\ Compressed(s) \in Seq(Tokens)
  <1>1. DOMAIN s = 1..Len(s) /\ Len(s) \in Nat /\ \A p \in 1..Len(s) : s[p] \in Tokens
    BY LenProperties, ElementOfSeq
  <1>2. PICK F, G : /\ F = [p \in DOMAIN s |-> IF InComment(s, p) THEN <<>> ELSE <<s[p]>>]
                    /\ G = [p \in DOMAIN s |-> IF BetweenTags(s, p) THEN <<>> ELSE <<s[p]>>]
    OBVIOUS
  <1>3. F \in Seq(Seq(Tokens)) /\ G \in Seq(Seq(Tokens))
    BY <1>1, <1>2
  <1>4. FlattenSeq(F) \in Seq(Tokens) /\ FlattenSeq(G) \in Seq(Tokens)
    BY <1>3, FlattenType
  <1> QED
    BY <1>2, <1>4 DEF WithoutComments, Compressed

\* The type of a stretch.
LEMMA CutType ==
    ASSUME NEW s \in Seq(Tokens), NEW a \in Nat \ {0}, NEW b \in Int, b <= Len(s)
    PROVE  SubSeq(s, a, b) \in Seq(Tokens)
  <1>1. \A i \in a..b : s[i] \in Tokens
    BY LenProperties, ElementOfSeq
  <1> QED
    BY <1>1, SubSeqProperties

-----------------------------------------------------------------------------
\* Each phase leaves the page with one kind of marker less to replace.
RenderInv ==
    /\ template \in Files \cup {NoFile}
    /\ data \in Datas
    /\ phase = "cycles" /\ Usual => \E k, n : Laid(template, data, output, k, n)
    /\ phase = "variables" /\ Usual => output = Page(template, data, keys, Len(template))
    /\ phase = "done" /\ Usual =>
           output = Compressed(WithoutComments(Page(template, data, {}, Len(template))))

\* A step of the rendering that replaces a cycle.
LEMMA CycleStep ==
    ASSUME TypeOK, data \in Datas, ReplaceCycle
    PROVE  /\ output' \in Seq(Tokens)
           /\ \E u, v : /\ Leftmost(output, u, v) /\ output[u][3] \in DOMAIN data
                        /\ output' = SubSeq(output, 1, u - 1)
                             \o Repeated(SubSeq(output, u + 1, v - 1), output[u][2], data[output[u][3]])
                             \o SubSeq(output, v + 1, Len(output))
  <1>1. output \in Seq(Tokens) /\ Len(output) \in Nat
    BY LenProperties DEF TypeOK
  <1>2. PICK u \in Cycles(output) :
            /\ \A r \in Cycles(output) : u <= r
            /\ Known(output[u][3])
            /\ output' = SubSeq(output, 1, u - 1)
                 \o Repeated(SubSeq(output, u + 1, ClosedAt(output, u, EndFor) - 1),
                             output[u][2], data[output[u][3]])
                 \o SubSeq(output, ClosedAt(output, u, EndFor) + 1, Len(output))
    BY Zenon DEF ReplaceCycle
  <1>3. PICK v : v = ClosedAt(output, u, EndFor)
    OBVIOUS
  <1>4. u \in 1..Len(output) /\ Closes(output, u, v)
    BY <1>1, <1>3, CyclesAre, ClosedIs
  <1>5. v \in u + 1..Len(output)
    BY <1>4 DEF Closes
  <1>6. PICK a, b, c : /\ a = SubSeq(output, 1, u - 1)
                       /\ b = Repeated(SubSeq(output, u + 1, v - 1), output[u][2], data[output[u][3]])
                       /\ c = SubSeq(output, v + 1, Len(output))
    OBVIOUS
  <1>7. a \in Seq(Tokens) /\ b \in Seq(Tokens) /\ c \in Seq(Tokens)
    <2>1. /\ u - 1 \in Int /\ u - 1 <= Len(output) /\ v - 1 \in Int /\ v - 1 <= Len(output)
          /\ u + 1 \in Nat \ {0} /\ v + 1 \in Nat \ {0} /\ 1 \in Nat \ {0} /\ Len(output) \in Int
          /\ Len(output) <= Len(output)
      BY <1>1, <1>4, <1>5
    <2>2. /\ a \in Seq(Tokens) /\ c \in Seq(Tokens)
          /\ SubSeq(output, u + 1, v - 1) \in Seq(Tokens)
      BY <1>1, <1>6, <2>1, CutType
    <2>3. data[output[u][3]] \in Seq(Seq(Tokens))
      BY <1>2, TextsAreTokens DEF Known
    <2> QED
      BY <1>6, <2>2, <2>3, RepeatedType
  <1>8. a \o b \o c \in Seq(Tokens)
    BY <1>7, ConcatProperties
  <1>9. output' = a \o b \o c
    BY <1>2, <1>3, <1>6, Zenon
  <1> QED
    BY <1>2, <1>3, <1>4, <1>6, <1>8, <1>9 DEF Leftmost, Known

\* Every step keeps the types.
LEMMA TypeStep ==
    ASSUME TypeOK, RenderInv, [Next]_vars
    PROVE  TypeOK'
  <1> USE DEF TypeOK, Phases
  <1>1. CASE ReadFile
    BY <1>1, TextsAreTokens DEF ReadFile, RenderInv
  <1>2. CASE ReplaceCycle
    BY <1>2, CycleStep DEF ReplaceCycle, RenderInv
  <1>3. CASE SpinOnUnknownList
    BY <1>3 DEF SpinOnUnknownList, vars
  <1>4. CASE CyclesDone
    BY <1>4 DEF CyclesDone
  <1>5. CASE ReplaceVariable
    <2>1. PICK key \in keys : output' = Substitute(output, key, FirstValue(key)) /\ keys' = keys \ {key}
      BY <1>5 DEF ReplaceVariable
    <2>2. data[key] \in Seq(Seq(Tokens))
      BY TextsAreTokens DEF RenderInv
    <2>3. FirstValue(key) \in Seq(Tokens)
      BY <2>2, ElementOfSeq, EmptySeq DEF FirstValue
    <2>4. output' \in Seq(Tokens)
      BY <2>1, <2>3, SubstituteType
    <2> QED
      BY <1>5, <2>1, <2>4 DEF ReplaceVariable
  <1>6. CASE MinifyHTML
    <2>1. output' = Compressed(WithoutComments(output))
      BY <1>6 DEF MinifyHTML
    <2>2. output' \in Seq(Tokens)
      BY <2>1, MinifiedType
    <2> QED
      BY <1>6, <2>2 DEF MinifyHTML
  <1>7. CASE UNCHANGED vars
    BY <1>7 DEF vars
  <1> QED
    BY <1>1, <1>2, <1>3, <1>4, <1>5, <1>6, <1>7 DEF Next, Render, Finished

\* Nothing changes the template or the data.
LEMMA SameUsual ==
    ASSUME UNCHANGED <<template, data>>
    PROVE  Usual' <=> Usual
  BY DEF Usual, ValuesWithout, ListsKnown

\* Every step keeps RenderInv.
LEMMA RenderStep ==
    ASSUME TypeOK, RenderInv, [Next]_vars
    PROVE  RenderInv'
  <1>1. CASE ReadFile
    <2>1. ASSUME phase' = "cycles", Usual'
          PROVE  \E k, n : Laid(template, data, output, k, n)'
      <3>1. Usual /\ output' = template /\ UNCHANGED <<template, data>>
        BY <1>1, <2>1, SameUsual DEF ReadFile
      <3>2. Laid(template, data, template, 1, 0)
        BY <3>1, UsualFits, LaidFirst DEF RenderInv
      <3> QED
        BY <3>1, <3>2
    <2> QED
      BY <1>1, <2>1 DEF ReadFile, RenderInv
  <1>2. CASE ReplaceCycle
    <2>1. ASSUME Usual' PROVE \E k, n : Laid(template, data, output, k, n)'
      <3>1. Usual /\ phase = "cycles" /\ UNCHANGED <<template, data>>
        BY <1>2, <2>1, SameUsual DEF ReplaceCycle
      <3>2. PICK k, n : Laid(template, data, output, k, n)
        BY <3>1 DEF RenderInv
      <3>3. PICK u, v :
              /\ Leftmost(output, u, v)
              /\ output' = SubSeq(output, 1, u - 1)
                   \o Repeated(SubSeq(output, u + 1, v - 1), output[u][2], data[output[u][3]])
                   \o SubSeq(output, v + 1, Len(output))
        BY <1>2, CycleStep DEF RenderInv
      <3>4. Fit(template, data)
        BY <3>1, UsualFits DEF RenderInv
      <3>5. \E l, m : Laid(template, data, output', l, m)
        BY <3>2, <3>3, <3>4, LaidStep
      <3> QED
        BY <3>1, <3>5
    <2> QED
      BY <1>2, <2>1 DEF ReplaceCycle, RenderInv
  <1>3. CASE CyclesDone
    <2>1. ASSUME Usual' PROVE (output = Page(template, data, keys, Len(template)))'
      <3>1. /\ Usual /\ phase = "cycles" /\ Cycles(output) = {} /\ UNCHANGED <<template, data, output>>
            /\ keys' = DOMAIN data
        BY <1>3, <2>1, SameUsual DEF CyclesDone
      <3>2. Fit(template, data)
        BY <3>1, UsualFits DEF RenderInv
      <3>3. output = Page(template, data, DOMAIN data, Len(template))
        BY <3>1, <3>2, LaidLast DEF RenderInv
      <3> QED
        BY <3>1, <3>3
    <2> QED
      BY <1>3, <2>1 DEF CyclesDone, RenderInv
  <1>4. CASE ReplaceVariable
    <2>1. ASSUME Usual' PROVE (output = Page(template, data, keys, Len(template)))'
      <3>1. Usual /\ phase = "variables" /\ UNCHANGED <<template, data>>
        BY <1>4, <2>1, SameUsual DEF ReplaceVariable
      <3>2. PICK key \in keys : output' = Substitute(output, key, FirstValue(key)) /\ keys' = keys \ {key}
        BY <1>4 DEF ReplaceVariable
      <3>3. /\ Fit(template, data) /\ key \in DOMAIN data
            /\ output = Page(template, data, keys, Len(template))
        BY <3>1, UsualFits DEF RenderInv, TypeOK
      <3>4. FirstValue(key) = FirstOf(data, key)
        BY DEF FirstValue, FirstOf
      <3>5. output' = Page(template, data, keys \ {key}, Len(template))
        BY <3>2, <3>3, <3>4, PutPage
      <3> QED
        BY <3>1, <3>2, <3>5
    <2> QED
      BY <1>4, <2>1 DEF ReplaceVariable, RenderInv
  <1>5. CASE MinifyHTML
    <2>1. ASSUME Usual'
          PROVE (output = Compressed(WithoutComments(Page(template, data, {}, Len(template)))))'
      <3>1. /\ Usual /\ phase = "variables" /\ keys = {} /\ UNCHANGED <<template, data>>
            /\ output' = Compressed(WithoutComments(output))
        BY <1>5, <2>1, SameUsual DEF MinifyHTML
      <3>2. output = Page(template, data, {}, Len(template))
        BY <3>1 DEF RenderInv
      <3> QED
        BY <3>1, <3>2
    <2> QED
      BY <1>5, <2>1 DEF MinifyHTML, RenderInv
  <1>6. CASE UNCHANGED vars
    BY <1>6, SameUsual DEF vars, RenderInv
  <1> QED
    BY <1>1, <1>2, <1>3, <1>4, <1>5, <1>6 DEF Next, Render, Finished, SpinOnUnknownList

\* The inductive invariant.
LEMMA Invariant ==
    Spec => [](TypeOK /\ RenderInv)
  <1>1. Init => TypeOK /\ RenderInv
    BY EmptySeq DEF Init, TypeOK, RenderInv, Phases
  <1>2. TypeOK /\ RenderInv /\ [Next]_vars => TypeOK' /\ RenderInv'
    BY TypeStep, RenderStep
  <1> QED
    BY <1>1, <1>2, PTL DEF Spec

\* TemplateRenderer::render, include/template_renderer.h:21-55: whatever order
\* the cycles and the keys are replaced in, the page stays a sequence of the
\* template's and the values' tokens, and only keys of the data wait for their
\* turn.
THEOREM TypeCorrect == Spec => []TypeOK
  BY Invariant, PTL

\* TemplateRenderer::render, include/template_renderer.h:21-55: the page a
\* template without nested cycles is rendered to is the template with every
\* token replaced where it stands, for every template, every data without
\* markers and every order of the keys. A cycle over several lines is none to
\* the code: its markers stay.
THEOREM RenderedInPlaceHolds == Spec => []RenderedInPlace
  <1>1. TypeOK /\ RenderInv => RenderedInPlace
    BY UsualFits, PageIsInPlace DEF RenderInv, RenderedInPlace, Usual
  <1> QED
    BY <1>1, Invariant, PTL

-----------------------------------------------------------------------------
\* The ends of cycles in s, and what is none.
IfEnd == [e \in Tokens |-> IF e = EndFor THEN <<e>> ELSE <<>>]

Ends(s) == Texts(IfEnd, s)

NotEnd == {e \in Tokens : e # EndFor}

LEMMA IfEndWrites ==
    Writes(IfEnd, Tokens, Tokens)
  BY DEF Writes, IfEnd

\* The ends of one stretch after another.
LEMMA EndsConcat ==
    ASSUME NEW s \in Seq(Tokens), NEW t \in Seq(Tokens)
    PROVE  /\ s \o t \in Seq(Tokens) /\ Len(Ends(s)) \in Nat /\ Len(Ends(t)) \in Nat
           /\ Len(Ends(s \o t)) = Len(Ends(s)) + Len(Ends(t))
  <1>1. Ends(s \o t) = Ends(s) \o Ends(t)
    BY IfEndWrites, TextsConcat DEF Ends
  <1>2. Ends(s) \in Seq(Tokens) /\ Ends(t) \in Seq(Tokens)
    BY IfEndWrites, TextsType DEF Ends
  <1>3. Len(Ends(s) \o Ends(t)) = Len(Ends(s)) + Len(Ends(t))
    BY <1>2, ConcatProperties
  <1>4. s \o t \in Seq(Tokens) /\ Len(Ends(s)) \in Nat /\ Len(Ends(t)) \in Nat
    BY <1>2, ConcatProperties, LenProperties
  <1> QED
    BY <1>1, <1>3, <1>4

\* An end is one, and nothing else is.
LEMMA EndsOf ==
    /\ <<EndFor>> \in Seq(Tokens) /\ Len(Ends(<<EndFor>>)) = 1
    /\ \A s \in Seq(NotEnd) : s \in Seq(Tokens) /\ Len(Ends(s)) = 0
  <1>1. Writes(IfEnd, Tokens, Tokens) /\ EndFor \in Tokens
    BY IfEndWrites, TokenKinds
  <1>2. Ends(<<EndFor>>) = <<EndFor>>
    BY <1>1, TextsOne DEF Ends, IfEnd
  <1> DEFINE T == {s \in Seq(NotEnd) : Ends(s) = <<>>}
  <1>3. <<>> \in T
    BY TextsNone, EmptySeq DEF Ends
  <1>4. ASSUME NEW s \in T, NEW e \in NotEnd PROVE Append(s, e) \in T
    <2>1. Writes(IfEnd, NotEnd, Tokens) /\ IfEnd[e] = <<>>
      BY DEF Writes, IfEnd, NotEnd
    <2>2. Ends(Append(s, e)) = Ends(s) \o <<>>
      BY <2>1, TextsAppend DEF Ends
    <2> QED
      BY <2>2, ConcatEmptySeq, AppendProperties, EmptySeq
  <1>5. T \in SUBSET Seq(NotEnd)
    OBVIOUS
  <1> HIDE DEF T
  <1>6. T = Seq(NotEnd)
    BY <1>3, <1>4, <1>5, SeqInduction
  <1>7. \A s \in Seq(NotEnd) : Ends(s) = <<>> /\ s \in Seq(Tokens)
    BY <1>6, SeqMonotonic DEF T, NotEnd
  <1> QED
    BY <1>1, <1>2, <1>7, EmptySeq

\* What stands in the place of a cycle has one end less.
LEMMA OneEndLess ==
    ASSUME NEW o \in Seq(Tokens), NEW u, NEW v, Leftmost(o, u, v), NEW b \in Seq(NotEnd)
    PROVE  Len(Ends(o)) = Len(Ends(SubSeq(o, 1, u - 1) \o b \o SubSeq(o, v + 1, Len(o)))) + 1
  <1>1. u \in 1..Len(o) /\ o[u][1] = "for" /\ Closes(o, u, v) /\ Len(o) \in Nat
    BY CyclesAre, LenProperties DEF Leftmost
  <1>2. /\ v \in u + 1..Len(o) /\ o[v] = EndFor
        /\ \A m \in u + 1..v - 1 : o[m] \notin {EndFor, LineEnd}
    BY <1>1 DEF Closes
  <1>3. PICK a, m, r, c : /\ a = SubSeq(o, 1, u - 1) /\ m = SubSeq(o, u, v - 1)
                          /\ r = SubSeq(o, v, Len(o)) /\ c = SubSeq(o, v + 1, Len(o))
    OBVIOUS
  <1>4. a \in Seq(Tokens) /\ r \in Seq(Tokens) /\ c \in Seq(Tokens)
    <2>1. /\ u - 1 \in Int /\ u - 1 <= Len(o) /\ v \in Nat \ {0} /\ v + 1 \in Nat \ {0}
          /\ 1 \in Nat \ {0} /\ Len(o) \in Int /\ Len(o) <= Len(o)
      BY <1>1, <1>2
    <2> QED
      BY <1>3, <2>1, CutType
  <1>5. m \in Seq(NotEnd)
    <2>1. ASSUME NEW i \in u..v - 1 PROVE o[i] \in NotEnd
      <3>1. i \in 1..Len(o) /\ (i = u \/ i \in u + 1..v - 1)
        BY <1>1, <1>2
      <3>2. o[i] \in Tokens
        BY <3>1, ElementOfSeq
      <3>3. o[i] # EndFor
        BY <1>1, <1>2, <3>1, TokenKinds DEF EndFor
      <3> QED
        BY <3>2, <3>3 DEF NotEnd
    <2>2. u \in Int /\ v - 1 \in Int
      BY <1>1, <1>2
    <2> QED
      BY <1>3, <2>1, <2>2, SubSeqProperties
  <1>6. o = a \o (m \o (<<EndFor>> \o c))
    <2>1. PICK k, j, n, f : k = u - 1 /\ j = v - 1 /\ n = Len(o) /\ f = 1
      OBVIOUS
    <2>2. /\ k \in f - 1..n /\ f \in 1..n + 1 /\ n \in k..n /\ k + 1 = u
          /\ u \in 1..n + 1 /\ j \in u - 1..n /\ n \in j..n /\ j + 1 = v
          /\ v \in 1..n /\ n \in v..n
      BY <1>1, <1>2, <2>1
    <2>3. SubSeq(o, f, k) \o SubSeq(o, k + 1, n) = SubSeq(o, f, n)
      BY <2>1, <2>2, ConcatAdjacentSubSeq
    <2>4. SubSeq(o, u, j) \o SubSeq(o, j + 1, n) = SubSeq(o, u, n)
      BY <2>1, <2>2, ConcatAdjacentSubSeq
    <2>5. SubSeq(o, v, n) = <<o[v]>> \o SubSeq(o, v + 1, n)
      BY <2>1, <2>2, SubSeqRecursiveFirst
    <2>6. SubSeq(o, f, n) = o
      BY <2>1, SubSeqFull
    <2> QED
      BY <1>2, <1>3, <2>1, <2>2, <2>3, <2>4, <2>5, <2>6
  <1>7. /\ m \in Seq(Tokens) /\ Len(Ends(m)) = 0 /\ b \in Seq(Tokens) /\ Len(Ends(b)) = 0
        /\ <<EndFor>> \in Seq(Tokens) /\ Len(Ends(<<EndFor>>)) = 1
    BY <1>5, EndsOf
  <1>8. Len(Ends(o)) = Len(Ends(a)) + 1 + Len(Ends(c))
    <2>1. PICK x \in Seq(Tokens) : x = <<EndFor>> \o c /\ Len(Ends(x)) = 1 + Len(Ends(c))
      <3>1. /\ <<EndFor>> \o c \in Seq(Tokens) /\ Len(Ends(<<EndFor>>)) \in Nat /\ Len(Ends(c)) \in Nat
            /\ Len(Ends(<<EndFor>> \o c)) = Len(Ends(<<EndFor>>)) + Len(Ends(c))
        BY <1>4, <1>7, EndsConcat
      <3>2. Len(Ends(<<EndFor>> \o c)) = 1 + Len(Ends(c))
        BY <1>7, <3>1
      <3> QED
        BY <3>1, <3>2
    <2>2. PICK y \in Seq(Tokens) : y = m \o x /\ Len(Ends(y)) = Len(Ends(x))
      <3>1. /\ m \o x \in Seq(Tokens) /\ Len(Ends(m)) \in Nat /\ Len(Ends(x)) \in Nat
            /\ Len(Ends(m \o x)) = Len(Ends(m)) + Len(Ends(x))
        BY <1>7, EndsConcat
      <3>2. Len(Ends(m \o x)) = Len(Ends(x))
        BY <1>7, <3>1
      <3> QED
        BY <3>1, <3>2
    <2>3. Len(Ends(a \o y)) = Len(Ends(a)) + Len(Ends(y))
      BY <1>4, EndsConcat
    <2>4. Len(Ends(o)) = Len(Ends(a)) + Len(Ends(y))
      BY <1>6, <2>1, <2>2, <2>3
    <2>5. Len(Ends(a)) \in Nat /\ Len(Ends(c)) \in Nat
      BY <1>4, EndsConcat
    <2> QED
      BY <2>1, <2>2, <2>4, <2>5
  <1>9. Len(Ends(a \o b \o c)) = Len(Ends(a)) + Len(Ends(c))
    <2>1. PICK x \in Seq(Tokens) : x = a \o b /\ Len(Ends(x)) = Len(Ends(a))
      <3>1. /\ a \o b \in Seq(Tokens) /\ Len(Ends(a)) \in Nat /\ Len(Ends(b)) \in Nat
            /\ Len(Ends(a \o b)) = Len(Ends(a)) + Len(Ends(b))
        BY <1>4, <1>7, EndsConcat
      <3>2. Len(Ends(a \o b)) = Len(Ends(a))
        BY <1>7, <3>1
      <3> QED
        BY <3>1, <3>2
    <2>2. Len(Ends(x \o c)) = Len(Ends(x)) + Len(Ends(c))
      BY <1>4, EndsConcat
    <2>3. Len(Ends(a)) \in Nat /\ Len(Ends(c)) \in Nat
      BY <1>4, EndsConcat
    <2> QED
      BY <2>1, <2>2, <2>3
  <1>10. Len(Ends(a)) \in Nat /\ Len(Ends(c)) \in Nat
    BY <1>4, EndsConcat
  <1>11. Len(Ends(o)) = Len(Ends(a \o b \o c)) + 1
    BY <1>8, <1>9, <1>10
  <1> QED
    BY <1>3, <1>11

\* Values without ends make a text without.
LEMMA RepeatedNoEnd ==
    ASSUME NEW scope \in Seq(NotEnd), NEW item, NEW values \in Seq(Seq(NotEnd))
    PROVE  Repeated(scope, item, values) \in Seq(NotEnd)
  <1>1. scope \in Seq(Tokens)
    BY EndsOf
  <1>2. ASSUME NEW v \in 1..Len(values) PROVE Substitute(scope, item, values[v]) \in Seq(NotEnd)
    <2>1. values[v] \in Seq(NotEnd)
      BY ElementOfSeq
    <2>2. Writes(Put(item, values[v]), NotEnd, NotEnd)
      BY <2>1, PutWrites DEF NotEnd
    <2> QED
      BY <1>1, <2>2, SubstituteIs, TextsType
  <1>3. PICK F : F = [v \in DOMAIN values |-> Substitute(scope, item, values[v])]
    OBVIOUS
  <1>4. DOMAIN values = 1..Len(values) /\ Len(values) \in Nat
    BY LenProperties
  <1>5. F \in Seq(Seq(NotEnd))
    BY <1>2, <1>3, <1>4
  <1> QED
    BY <1>3, <1>5, FlattenType DEF Repeated

\* TemplateRenderer::replaceCycles, include/template_renderer.h:66-91: each
\* round of its loop that replaces something leaves one end of a cycle less, be
\* the cycles nested, unclosed or on more than one line, so there are no more
\* rounds than ends. What RenderingEnds needs of the values is what it needs.
THEOREM EachRoundEndsOne ==
    Spec => [][ReplaceCycle /\ ValuesWithout({"for", "endfor"}) =>
                   Len(Ends(output)) = Len(Ends(output')) + 1]_vars
  <1>1. ASSUME TypeOK, RenderInv, ReplaceCycle, ValuesWithout({"for", "endfor"})
        PROVE  Len(Ends(output)) = Len(Ends(output')) + 1
    <2>1. output \in Seq(Tokens) /\ data \in Datas
      BY <1>1 DEF TypeOK, RenderInv
    <2>2. PICK u, v :
            /\ Leftmost(output, u, v) /\ output[u][3] \in DOMAIN data
            /\ output' = SubSeq(output, 1, u - 1)
                 \o Repeated(SubSeq(output, u + 1, v - 1), output[u][2], data[output[u][3]])
                 \o SubSeq(output, v + 1, Len(output))
      BY <1>1, <2>1, CycleStep
    <2>3. PICK b : b = Repeated(SubSeq(output, u + 1, v - 1), output[u][2], data[output[u][3]])
      OBVIOUS
    <2>4. SubSeq(output, u + 1, v - 1) \in Seq(NotEnd)
      <3>1. /\ u \in 1..Len(output) /\ v \in u + 1..Len(output) /\ Len(output) \in Nat
            /\ \A m \in u + 1..v - 1 : output[m] \notin {EndFor, LineEnd}
        BY <2>1, <2>2, CyclesAre, LenProperties DEF Leftmost, Closes
      <3>2. ASSUME NEW m \in u + 1..v - 1 PROVE output[m] \in NotEnd
        <4>1. m \in 1..Len(output)
          BY <3>1
        <4> QED
          BY <2>1, <3>1, <4>1, ElementOfSeq DEF NotEnd
      <3>3. u + 1 \in Int /\ v - 1 \in Int
        BY <3>1
      <3> QED
        BY <3>2, <3>3, SubSeqProperties
    <2>5. data[output[u][3]] \in Seq(Seq(NotEnd))
      <3>1. data[output[u][3]] \in Seq(Seq({e \in Tokens : e[1] \notin {"for", "endfor"}}))
        BY <1>1, <2>1, <2>2, ValuesAre
      <3>2. {e \in Tokens : e[1] \notin {"for", "endfor"}} \subseteq NotEnd
        BY TokenKinds DEF NotEnd
      <3> QED
        BY <3>1, <3>2, SeqMonotonic
    <2>6. b \in Seq(NotEnd)
      BY <2>3, <2>4, <2>5, RepeatedNoEnd
    <2> QED
      BY <2>1, <2>2, <2>3, <2>6, OneEndLess
  <1>2. TypeOK /\ RenderInv /\ [Next]_vars =>
            [ReplaceCycle /\ ValuesWithout({"for", "endfor"}) =>
                   Len(Ends(output)) = Len(Ends(output')) + 1]_vars
    BY <1>1
  <1> QED
    BY <1>2, Invariant, PTL DEF Spec
=============================================================================
