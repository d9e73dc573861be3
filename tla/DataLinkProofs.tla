----------------------------- MODULE DataLinkProofs -----------------------------
(***************************************************************************)
(* Proofs about DataLink, for any definitions, delay, number of sessions   *)
(* and bytes of the panel.                                                 *)
(*                                                                         *)
(* A block of definitions is a sequence that FlattenSeq computes, a        *)
(* recursive function; the first two parts say what it computes, for every *)
(* sequence of sequences.  Their induction is on a set of numbers (a set   *)
(* of natural numbers that is not empty has a least element).              *)
(***************************************************************************)
EXTENDS DataLink, SequenceTheorems, WellFoundedInduction, TLAPS

-----------------------------------------------------------------------------
(* Induction. *)

\* There is a well-founded relation that is < on the numbers.
LEMMA LessThan == \E R : IsWellFoundedOn(R, Nat) /\ \A x, y \in Nat : <<x, y>> \in R <=> x < y
<1>1. \A x, y \in Nat : <<x, y>> \in OpToRel(<, Nat) <=> x < y
  BY DEF OpToRel
<1>2. IsWellFoundedOn(OpToRel(<, Nat), Nat)
  BY NatLessThanWellFounded
<1>3. QED
  BY <1>1, <1>2

\* A set of numbers that is not empty has a least element.
LEMMA LeastNumber ==
  ASSUME NEW T \in SUBSET Nat, T # {}
  PROVE  \E n \in T : \A m \in T : n <= m
<1>1. PICK R : IsWellFoundedOn(R, Nat) /\ \A x, y \in Nat : <<x, y>> \in R <=> x < y
  BY LessThan
<1>2. PICK n \in T : \A m \in T : ~ (<<m, n>> \in R)
  <2>1. IsWellFoundedOn(R, Nat) /\ T \subseteq Nat /\ T # {}
    BY <1>1
  <2>2. QED
    BY <2>1, WFMin, Zenon
<1>3. \A m \in T : ~(m < n)
  BY <1>1, <1>2
<1>4. QED
  BY <1>3

\* Induction over the numbers, for a set instead of a predicate.
LEMMA Induction ==
  ASSUME NEW T \in SUBSET Nat, 0 \in T, \A n \in T : n + 1 \in T
  PROVE  T = Nat
<1>1. ASSUME Nat \ T # {} PROVE FALSE
  <2>1. PICK n \in Nat \ T : \A m \in Nat \ T : n <= m
    BY <1>1, LeastNumber
  <2>2. n # 0
    BY <2>1
  <2>3. n - 1 \in Nat /\ (n - 1) + 1 = n
    BY <2>2
  <2>4. n - 1 \in T
    BY <2>1, <2>3
  <2>5. QED
    BY <2>1, <2>3, <2>4
<1>2. QED
  BY <1>1

\* Induction that stops at n.
LEMMA InductionUpTo ==
  ASSUME NEW n \in Nat, NEW T, n # 0 => 1 \in T,
         \A m \in 1..n : m \in T /\ m + 1 \in 1..n => m + 1 \in T
  PROVE  \A m \in 1..n : m \in T
<1> DEFINE M == {m \in Nat : m + 1 \in 1..n => m + 1 \in T}
<1>1. 0 \in M
  <2>1. 0 \in Nat /\ 0 + 1 = 1 /\ (1 \in 1..n => n # 0)
    OBVIOUS
  <2>2. QED
    BY <2>1, Zenon
<1>2. ASSUME NEW m \in M PROVE m + 1 \in M
  <2>1. m \in Nat /\ (m + 1 \in 1..n => m + 1 \in T)
    BY Zenon
  <2>2. m + 1 \in Nat /\ ((m + 1) + 1 \in 1..n => m + 1 \in 1..n)
    <3>1. m \in Nat
      BY <2>1
    <3>2. QED
      BY <3>1
  <2>3. QED
    BY <2>1, <2>2, Zenon
<1>3. M = Nat
  <2>1. M \in SUBSET Nat
    BY Zenon
  <2> HIDE DEF M
  <2>2. QED
    BY <1>1, <1>2, <2>1, Induction
<1>4. ASSUME NEW m \in 1..n PROVE m \in T
  <2>1. m - 1 \in Nat /\ (m - 1) + 1 = m
    OBVIOUS
  <2>2. QED
    BY <1>3, <1>4, <2>1, Zenon
<1>5. QED
  BY <1>4

-----------------------------------------------------------------------------
(* What FlattenSeq computes. *)

\* The equation of its recursive function has a solution up to every n.
LEMMA FlattenUpTo ==
  ASSUME NEW q, NEW n \in Nat
  PROVE  \E f : f = [i \in 1..n |-> IF i = 1 THEN q[i] ELSE f[i - 1] \o q[i]]
<1> DEFINE T == {m \in Nat : \E f : f = [i \in 1..m |-> IF i = 1 THEN q[i] ELSE f[i - 1] \o q[i]]}
<1>1. 0 \in T
  <2> DEFINE f == [i \in 1..0 |-> q[i]]
  <2>1. f = [i \in 1..0 |-> IF i = 1 THEN q[i] ELSE f[i - 1] \o q[i]]
    OBVIOUS
  <2>2. QED
    BY <2>1
<1>2. ASSUME NEW m \in T PROVE m + 1 \in T
  <2>1. m \in Nat
    OBVIOUS
  <2>2. PICK f : f = [i \in 1..m |-> IF i = 1 THEN q[i] ELSE f[i - 1] \o q[i]]
    OBVIOUS
  <2> DEFINE g == [i \in 1..m + 1 |-> IF i = 1 THEN q[i] ELSE f[i - 1] \o q[i]]
  <2>3. ASSUME NEW i \in 1..m PROVE g[i] = f[i]
    <3>1. f[i] = IF i = 1 THEN q[i] ELSE f[i - 1] \o q[i]
      BY <2>2
    <3>2. i \in 1..m + 1
      BY <2>1
    <3>3. QED
      BY <3>1, <3>2
  <2>4. ASSUME NEW i \in 1..m + 1
        PROVE  (IF i = 1 THEN q[i] ELSE f[i - 1] \o q[i]) = (IF i = 1 THEN q[i] ELSE g[i - 1] \o q[i])
    <3>1. i # 1 => i - 1 \in 1..m
      BY <2>1
    <3> HIDE DEF g
    <3>2. QED
      BY <2>3, <3>1
  <2>5. g = [i \in 1..m + 1 |-> IF i = 1 THEN q[i] ELSE g[i - 1] \o q[i]]
    BY <2>4
  <2>6. \E h : h = [i \in 1..m + 1 |-> IF i = 1 THEN q[i] ELSE h[i - 1] \o q[i]]
    <3> HIDE DEF g
    <3>1. QED
      BY <2>5, Zenon
  <2>7. m + 1 \in Nat
    BY <2>1
  <2>8. QED
    BY <2>6, <2>7, Zenon
<1>3. T = Nat
  <2>1. T \in SUBSET Nat
    OBVIOUS
  <2> HIDE DEF T
  <2>2. QED
    BY <1>1, <1>2, <2>1, Induction
<1>4. QED
  BY <1>3

\* FlattenSeq of a sequence that is not empty is the last value of a solution.
LEMMA FlattenEquation ==
  ASSUME NEW q, Len(q) \in Nat \ {0}
  PROVE  \E f : /\ f = [i \in 1..Len(q) |-> IF i = 1 THEN q[i] ELSE f[i - 1] \o q[i]]
                /\ FlattenSeq(q) = f[Len(q)]
<1> DEFINE f == CHOOSE f : f = [i \in 1..Len(q) |-> IF i = 1 THEN q[i] ELSE f[i - 1] \o q[i]]
<1>1. f = [i \in 1..Len(q) |-> IF i = 1 THEN q[i] ELSE f[i - 1] \o q[i]]
  BY FlattenUpTo
<1>2. FlattenSeq(q) = f[Len(q)]
  BY DEF FlattenSeq
<1>3. QED
  BY <1>1, <1>2

-----------------------------------------------------------------------------
(* The parts of a flattened sequence. *)

\* f holds the concatenations of the beginnings of q.
Solves(f, q) == f = [i \in 1..Len(q) |-> IF i = 1 THEN q[i] ELSE f[i - 1] \o q[i]]

\* The first equation of a solution.
LEMMA SolutionFirst ==
  ASSUME NEW f, NEW q, Solves(f, q), Len(q) \in Nat, Len(q) # 0
  PROVE  f[1] = q[1]
<1>1. 1 \in 1..Len(q)
  OBVIOUS
<1>2. QED
  BY <1>1, Zenon DEF Solves

\* The equations of a solution that are not the first.
LEMMA SolutionNext ==
  ASSUME NEW f, NEW q, Solves(f, q), Len(q) \in Nat, NEW n \in 1..Len(q), n + 1 \in 1..Len(q)
  PROVE  f[n + 1] = f[n] \o q[n + 1]
<1>1. f[n + 1] = IF n + 1 = 1 THEN q[n + 1] ELSE f[(n + 1) - 1] \o q[n + 1]
  BY Zenon DEF Solves
<1>2. n + 1 # 1 /\ (n + 1) - 1 = n
  OBVIOUS
<1>3. QED
  BY <1>1, <1>2, Zenon

\* A solution joins sequences over S to sequences over S.
LEMMA SolutionType ==
  ASSUME NEW S, NEW q \in Seq(Seq(S)), NEW f, Solves(f, q)
  PROVE  \A n \in 1..Len(q) : f[n] \in Seq(S)
<1> DEFINE T == {n \in 1..Len(q) : f[n] \in Seq(S)}
<1>1. Len(q) \in Nat /\ \A n \in 1..Len(q) : q[n] \in Seq(S)
  OBVIOUS
<1>2. Len(q) # 0 => 1 \in T
  BY <1>1, SolutionFirst
<1>3. ASSUME NEW n \in 1..Len(q), n \in T, n + 1 \in 1..Len(q) PROVE n + 1 \in T
  <2>1. f[n] \in Seq(S) /\ q[n + 1] \in Seq(S)
    BY <1>1, <1>3
  <2>2. f[n + 1] = f[n] \o q[n + 1]
    BY <1>1, <1>3, SolutionNext
  <2>3. f[n + 1] \in Seq(S)
    BY <2>1, <2>2, ConcatProperties
  <2>4. QED
    BY <1>3, <2>3
<1>4. \A n \in 1..Len(q) : n \in T
  <2> HIDE DEF T
  <2>1. QED
    BY <1>1, <1>2, <1>3, InductionUpTo
<1>5. QED
  BY <1>4

\* A concatenation of longer sequences is longer.
LEMMA ConcatLonger ==
  ASSUME NEW S, NEW s \in Seq(S), NEW t \in Seq(S), NEW u \in Seq(S), NEW v \in Seq(S),
         Len(u) <= Len(s), Len(v) <= Len(t)
  PROVE  Len(u \o v) <= Len(s \o t)
<1>1. Len(u \o v) = Len(u) + Len(v) /\ Len(s \o t) = Len(s) + Len(t)
  OBVIOUS
<1>2. Len(s) \in Nat /\ Len(t) \in Nat /\ Len(u) \in Nat /\ Len(v) \in Nat
  OBVIOUS
<1>3. QED
  BY <1>1, <1>2

\* A sequence of shorter parts is shorter.
LEMMA SolutionLonger ==
  ASSUME NEW S, NEW q \in Seq(Seq(S)), NEW f, Solves(f, q),
         NEW p \in Seq(Seq(S)), NEW e, Solves(e, p), Len(p) = Len(q),
         \A n \in 1..Len(q) : Len(p[n]) <= Len(q[n])
  PROVE  \A n \in 1..Len(q) : Len(e[n]) <= Len(f[n])
<1> DEFINE T == {n \in 1..Len(q) : Len(e[n]) <= Len(f[n])}
<1>1. Len(q) \in Nat /\ \A n \in 1..Len(q) : q[n] \in Seq(S) /\ p[n] \in Seq(S)
  OBVIOUS
<1>2. Len(q) # 0 => 1 \in T
  BY <1>1, SolutionFirst
<1>3. ASSUME NEW n \in 1..Len(q), n \in T, n + 1 \in 1..Len(q) PROVE n + 1 \in T
  <2>1. /\ f[n] \in Seq(S) /\ q[n + 1] \in Seq(S)
        /\ e[n] \in Seq(S) /\ p[n + 1] \in Seq(S)
    BY <1>1, <1>3, SolutionType
  <2>2. f[n + 1] = f[n] \o q[n + 1]
    BY <1>1, <1>3, SolutionNext
  <2>3. e[n + 1] = e[n] \o p[n + 1]
    <3>1. Len(p) \in Nat /\ n \in 1..Len(p) /\ n + 1 \in 1..Len(p)
      BY <1>1, <1>3
    <3>2. QED
      BY <3>1, SolutionNext, Zenon
  <2>4. Len(e[n]) <= Len(f[n]) /\ Len(p[n + 1]) <= Len(q[n + 1])
    BY <1>3
  <2>5. Len(e[n] \o p[n + 1]) <= Len(f[n] \o q[n + 1])
    BY <2>1, <2>4, ConcatLonger, Zenon
  <2>6. QED
    BY <1>3, <2>2, <2>3, <2>5, Zenon
<1>4. \A n \in 1..Len(q) : n \in T
  <2> HIDE DEF T
  <2>1. QED
    BY <1>1, <1>2, <1>3, InductionUpTo
<1>5. QED
  BY <1>4

\* What has elements of P alone in its parts has elements of P alone.
LEMMA SolutionElements ==
  ASSUME NEW S, NEW q \in Seq(Seq(S)), NEW f, Solves(f, q),
         NEW P, \A n \in 1..Len(q) : q[n] \in Seq(P)
  PROVE  \A n \in 1..Len(q) : f[n] \in Seq(P)
<1>1. q \in Seq(Seq(P))
  <2>1. Len(q) \in Nat /\ q = [n \in 1..Len(q) |-> q[n]]
    OBVIOUS
  <2>2. QED
    BY <2>1
<1>2. QED
  BY <1>1, SolutionType

Occurs(x, s) == \E k \in 1..Len(s) : s[k] = x

\* The elements of two sequences are elements of their concatenation.
LEMMA ConcatFirst ==
  ASSUME NEW S, NEW s \in Seq(S), NEW t \in Seq(S), NEW x, Occurs(x, s)
  PROVE  Occurs(x, s \o t)
<1>1. Len(s) \in Nat /\ Len(t) \in Nat /\ Len(s \o t) = Len(s) + Len(t)
  OBVIOUS
<1>2. PICK k \in 1..Len(s) : s[k] = x
  BY DEF Occurs
<1>3. k \in 1..Len(s) + Len(t) /\ k <= Len(s)
  BY <1>1
<1>4. (s \o t)[k] = s[k]
  BY <1>3
<1>5. k \in 1..Len(s \o t)
  BY <1>1, <1>3
<1>6. QED
  BY <1>2, <1>4, <1>5, Zenon DEF Occurs

\* What occurs in the second sequence occurs in the concatenation.
LEMMA ConcatSecond ==
  ASSUME NEW S, NEW s \in Seq(S), NEW t \in Seq(S), NEW x, Occurs(x, t)
  PROVE  Occurs(x, s \o t)
<1>1. Len(s) \in Nat /\ Len(t) \in Nat /\ Len(s \o t) = Len(s) + Len(t)
  OBVIOUS
<1>2. PICK j \in 1..Len(t) : t[j] = x
  BY DEF Occurs
<1> DEFINE k == Len(s) + j
<1>3. k \in 1..Len(s) + Len(t) /\ ~(k <= Len(s)) /\ k - Len(s) = j
  BY <1>1
<1> HIDE DEF k
<1>4. (s \o t)[k] = t[j]
  BY <1>3
<1>5. k \in 1..Len(s \o t)
  BY <1>1, <1>3
<1>6. QED
  BY <1>2, <1>4, <1>5, Zenon DEF Occurs

\* Every element of a part is an element.
LEMMA SolutionHas ==
  ASSUME NEW S, NEW q \in Seq(Seq(S)), NEW f, Solves(f, q),
         NEW i \in 1..Len(q), NEW x, Occurs(x, q[i])
  PROVE  \A n \in 1..Len(q) : i <= n => Occurs(x, f[n])
<1> DEFINE T == {n \in 1..Len(q) : i <= n => Occurs(x, f[n])}
<1>1. Len(q) \in Nat /\ \A n \in 1..Len(q) : q[n] \in Seq(S)
  OBVIOUS
<1>2. Len(q) # 0 => 1 \in T
  <2>1. ASSUME Len(q) # 0, i <= 1 PROVE Occurs(x, f[1])
    <3>1. f[1] = q[1] /\ i = 1
      BY <1>1, <2>1, SolutionFirst
    <3>2. QED
      BY <3>1, Zenon
  <2>2. Len(q) # 0 => 1 \in 1..Len(q)
    BY <1>1
  <2>3. QED
    BY <2>1, <2>2
<1>3. ASSUME NEW n \in 1..Len(q), n \in T, n + 1 \in 1..Len(q) PROVE n + 1 \in T
  <2>1. f[n] \in Seq(S) /\ q[n + 1] \in Seq(S)
    BY <1>1, <1>3, SolutionType
  <2>2. f[n + 1] = f[n] \o q[n + 1]
    BY <1>1, <1>3, SolutionNext
  <2>3. ASSUME i <= n PROVE Occurs(x, f[n + 1])
    <3>1. Occurs(x, f[n])
      BY <1>3, <2>3
    <3>2. QED
      BY <2>1, <2>2, <3>1, ConcatFirst, Zenon
  <2>4. ASSUME i = n + 1 PROVE Occurs(x, f[n + 1])
    <3>1. Occurs(x, q[n + 1])
      BY <2>4, Zenon
    <3>2. QED
      BY <2>1, <2>2, <3>1, ConcatSecond, Zenon
  <2>5. i <= n + 1 => i <= n \/ i = n + 1
    BY <1>1, <1>3
  <2>6. QED
    BY <1>3, <2>3, <2>4, <2>5
<1>4. \A n \in 1..Len(q) : n \in T
  <2> HIDE DEF T
  <2>1. QED
    BY <1>1, <1>2, <1>3, InductionUpTo
<1>5. QED
  BY <1>4


-----------------------------------------------------------------------------
(* Blocks of definitions. *)

Values == (Nat \ {0}) \X Nat

Parts(ds) ==
  [d \in Definitions |-> IF d \in ds THEN [k \in 1..WordsOf[d] |-> <<d, k>>] ELSE <<>>]

\* Each definition has a size, one word at least.
LEMMA DefinitionsType ==
  /\ Len(WordsOf) \in Nat \ {0} /\ Definitions = 1..Len(WordsOf)
  /\ \A d \in Definitions : WordsOf[d] \in Nat \ {0}
<1>1. WordsOf \in Seq(Nat \ {0}) /\ TrimIndicator \in 1..Len(WordsOf)
  BY LinkAssumption
<1>2. Len(WordsOf) \in Nat /\ \A d \in 1..Len(WordsOf) : WordsOf[d] \in Nat \ {0}
  BY <1>1
<1>3. Len(WordsOf) # 0
  BY <1>1, <1>2
<1>4. QED
  BY <1>2, <1>3 DEF Definitions

\* The part of a definition is a sequence of words, empty when it is refused.
LEMMA PartType ==
  ASSUME NEW ds, NEW d \in Definitions
  PROVE  Parts(ds)[d] \in Seq(Values)
<1>1. d \in Nat \ {0} /\ WordsOf[d] \in Nat
  BY DefinitionsType
<1>2. ASSUME NEW k \in 1..WordsOf[d] PROVE <<d, k>> \in Values
  BY <1>1 DEF Values
<1>3. [k \in 1..WordsOf[d] |-> <<d, k>>] \in Seq(Values)
  <2>1. [k \in 1..WordsOf[d] |-> <<d, k>>] \in [1..WordsOf[d] -> Values]
    BY <1>2
  <2>2. QED
    BY <1>1, <2>1
<1>4. <<>> \in Seq(Values)
  OBVIOUS
<1>5. QED
  BY <1>3, <1>4 DEF Parts

\* A block has a part for each definition.
LEMMA PartsType ==
  ASSUME NEW ds
  PROVE  Parts(ds) \in Seq(Seq(Values)) /\ Len(Parts(ds)) = Len(WordsOf)
<1>1. Parts(ds) \in [1..Len(WordsOf) -> Seq(Values)]
  BY PartType, DefinitionsType, Zenon DEF Parts
<1>2. Len(WordsOf) \in Nat
  BY DefinitionsType
<1>3. Parts(ds) \in Seq(Seq(Values))
  BY <1>1, <1>2
<1>4. Len(Parts(ds)) = Len(WordsOf)
  <2>1. Len(Parts(ds)) \in Nat /\ DOMAIN Parts(ds) = 1..Len(Parts(ds))
    BY <1>3
  <2>2. DOMAIN Parts(ds) = 1..Len(WordsOf)
    BY <1>1
  <2>3. QED
    BY <1>2, <2>1, <2>2
<1>5. QED
  BY <1>3, <1>4

\* A block is the last value of a solution for its parts.
LEMMA BlockSolution ==
  ASSUME NEW ds
  PROVE  \E f : Solves(f, Parts(ds)) /\ Block(ds) = f[Len(WordsOf)]
<1>1. Len(Parts(ds)) = Len(WordsOf) /\ Len(WordsOf) \in Nat \ {0}
  BY PartsType, DefinitionsType
<1>2. Block(ds) = FlattenSeq(Parts(ds))
  BY Zenon DEF Block, Parts
<1>3. PICK f : /\ f = [i \in 1..Len(Parts(ds)) |->
                         IF i = 1 THEN Parts(ds)[i] ELSE f[i - 1] \o Parts(ds)[i]]
               /\ FlattenSeq(Parts(ds)) = f[Len(Parts(ds))]
  BY <1>1, FlattenEquation, Zenon
<1>4. QED
  BY <1>1, <1>2, <1>3, Zenon DEF Solves

\* A block is a sequence of words.
LEMMA BlockType ==
  ASSUME NEW ds
  PROVE  Block(ds) \in Seq(Values)
<1>1. PICK f : Solves(f, Parts(ds)) /\ Block(ds) = f[Len(WordsOf)]
  BY BlockSolution
<1>2. Len(WordsOf) \in 1..Len(Parts(ds))
  BY PartsType, DefinitionsType
<1>3. QED
  BY <1>1, <1>2, PartsType, SolutionType, Zenon

\* No block is longer than that of all the definitions.
LEMMA BlockShorter ==
  ASSUME NEW ds
  PROVE  Len(Block(ds)) \in Nat /\ Words \in Nat /\ Len(Block(ds)) <= Words
<1>1. PICK e : Solves(e, Parts(ds)) /\ Block(ds) = e[Len(WordsOf)]
  BY BlockSolution
<1>2. PICK f : Solves(f, Parts(Definitions)) /\ Block(Definitions) = f[Len(WordsOf)]
  BY BlockSolution
<1>3. \A d \in 1..Len(Parts(Definitions)) : Len(Parts(ds)[d]) <= Len(Parts(Definitions)[d])
  <2>1. ASSUME NEW d \in Definitions PROVE Len(Parts(ds)[d]) <= Len(Parts(Definitions)[d])
    <3>1. Parts(ds)[d] = Parts(Definitions)[d] \/ Parts(ds)[d] = <<>>
      BY Zenon DEF Parts
    <3>2. Len(Parts(Definitions)[d]) \in Nat
      BY PartType
    <3>3. QED
      BY <3>1, <3>2
  <2>2. QED
    BY <2>1, PartsType, DefinitionsType, Zenon
<1>4. Len(WordsOf) \in 1..Len(Parts(Definitions)) /\ Len(Parts(ds)) = Len(Parts(Definitions))
  BY PartsType, DefinitionsType
<1>5. Len(e[Len(WordsOf)]) <= Len(f[Len(WordsOf)])
  BY <1>1, <1>2, <1>3, <1>4, PartsType, SolutionLonger, Zenon
<1>6. Len(Block(ds)) \in Nat /\ Len(Block(Definitions)) \in Nat
  BY BlockType
<1>7. QED
  BY <1>1, <1>2, <1>5, <1>6, Zenon DEF Words


\* A block has words of its definitions alone.
LEMMA BlockElements ==
  ASSUME NEW ds, NEW P, \A d \in Definitions : Parts(ds)[d] \in Seq(P)
  PROVE  Block(ds) \in Seq(P)
<1>1. PICK f : Solves(f, Parts(ds)) /\ Block(ds) = f[Len(WordsOf)]
  BY BlockSolution
<1>2. Len(WordsOf) \in 1..Len(Parts(ds))
  BY PartsType, DefinitionsType
<1>3. \A d \in 1..Len(Parts(ds)) : Parts(ds)[d] \in Seq(P)
  BY PartsType, DefinitionsType, Zenon
<1>4. QED
  BY <1>1, <1>2, <1>3, PartsType, SolutionElements, Zenon

\* Before a definition is accepted the block is empty.
LEMMA EmptyBlock == Block({}) = <<>>
<1>1. \A d \in Definitions : Parts({})[d] \in Seq({})
  BY DEF Parts
<1>2. Block({}) \in Seq({})
  BY <1>1, BlockElements
<1>3. QED
  BY <1>2

\* Every word of a definition is in the block of all of them.
LEMMA BlockHas ==
  ASSUME NEW d \in Definitions, NEW k \in 1..WordsOf[d]
  PROVE  Occurs(<<d, k>>, Block(Definitions))
<1>1. PICK f : Solves(f, Parts(Definitions)) /\ Block(Definitions) = f[Len(WordsOf)]
  BY BlockSolution
<1>2. /\ Len(WordsOf) \in 1..Len(Parts(Definitions))
      /\ d \in 1..Len(Parts(Definitions)) /\ d <= Len(WordsOf)
  BY PartsType, DefinitionsType
<1>3. Occurs(<<d, k>>, Parts(Definitions)[d])
  <2>1. Parts(Definitions)[d] = [j \in 1..WordsOf[d] |-> <<d, j>>]
    BY DEF Parts
  <2>2. Len([j \in 1..WordsOf[d] |-> <<d, j>>]) = WordsOf[d]
    BY DefinitionsType
  <2>3. QED
    BY <2>1, <2>2 DEF Occurs
<1>4. QED
  BY <1>1, <1>2, <1>3, PartsType, SolutionHas, Zenon

BlockWords == {Block(Definitions)[w] : w \in 1..Words}

\* The words of a block are among those of all the definitions.
LEMMA BlockIncluded ==
  ASSUME NEW ds
  PROVE  Block(ds) \in Seq(BlockWords)
<1>1. ASSUME NEW d \in Definitions PROVE Parts(ds)[d] \in Seq(BlockWords)
  <2>1. ASSUME NEW k \in 1..WordsOf[d] PROVE <<d, k>> \in BlockWords
    <3>1. PICK w \in 1..Len(Block(Definitions)) : Block(Definitions)[w] = <<d, k>>
      BY BlockHas, Zenon DEF Occurs
    <3>2. QED
      BY <3>1, Zenon DEF BlockWords, Words
  <2>2. [k \in 1..WordsOf[d] |-> <<d, k>>] \in Seq(BlockWords)
    <3>1. [k \in 1..WordsOf[d] |-> <<d, k>>] \in [1..WordsOf[d] -> BlockWords]
      BY <2>1
    <3>2. QED
      BY <3>1, DefinitionsType
  <2>3. <<>> \in Seq(BlockWords)
    OBVIOUS
  <2>4. QED
    BY <2>2, <2>3 DEF Parts
<1>2. QED
  BY <1>1, BlockElements

\* The word that trim starts from is one of those in simVars.
LEMMA IndicatorWordType == IndicatorWord \in 1..Words
<1>1. TrimIndicator \in Definitions /\ 1 \in 1..WordsOf[TrimIndicator]
  <2>1. TrimIndicator \in Definitions
    BY LinkAssumption DEF Definitions
  <2>2. QED
    BY <2>1, DefinitionsType
<1>2. \E w \in 1..Words : Block(Definitions)[w] = <<TrimIndicator, 1>>
  BY <1>1, BlockHas, Zenon DEF Occurs, Words
<1>3. QED
  BY <1>2, Zenon DEF IndicatorWord

\* The words of a block are values, and DataWords.
LEMMA BlockWord ==
  ASSUME NEW ds, NEW w \in 1..Len(Block(ds))
  PROVE  Block(ds)[w] \in DataWords /\ Block(ds)[w] # Garbage
<1>1. Block(ds)[w] \in BlockWords
  BY BlockIncluded
<1>2. Block(ds)[w] \in Values
  BY BlockType
<1>3. Block(ds)[w] # Garbage
  BY <1>2 DEF Values, Garbage
<1>4. QED
  BY <1>1, <1>3, Zenon DEF DataWords, BlockWords

-----------------------------------------------------------------------------
(* The invariant. *)

\* The delay is counted down while the turns waited are counted up.
DelayInv == waited + retryDelay = RetryDelay

\* varSize has grown by one message at most for each session.
SizeInv ==
  /\ varSize <= hSimConnect * Words
  /\ hSimConnect <= 1 => varSize = Len(session.defined)

\* Before the first session nothing is connected and nothing is sent.
NoSessionInv == hSimConnect = 0 => ~connected /\ ~session.requesting

LinkInv ==
  /\ TypeOK /\ DelayInv /\ SizeInv /\ NoSessionInv
  /\ ConnectedHasSession /\ FirstSessionInBounds /\ CleanedUp


\* The type invariant in four parts.
SimpleType ==
  /\ pc \in {"loop", "serial", "done", "corrupt"}
  /\ message \in {"none", "data", "quit", "failed"}
  /\ hSimConnect \in 0..MaxSessions /\ open \subseteq 1..MaxSessions
  /\ quit \in BOOLEAN /\ connected \in BOOLEAN /\ serial \in BOOLEAN
  /\ retryDelay \in 0..RetryDelay /\ waited \in 0..RetryDelay
  /\ input \in Seq({"up", "down", "other"}) /\ Len(input) <= sent
  /\ sent \in 0..MaxInput

DataType == simVars \in [1..Words -> DataWords] /\ trim \subseteq DataWords

SessionType ==
  session \in [defined : {Block(ds) : ds \in SUBSET Definitions}, requesting : BOOLEAN]

SizeType == varSize \in 0..(MaxSessions * Words)

\* The type invariant in four parts.
LEMMA TypeParts == TypeOK <=> SimpleType /\ DataType /\ SessionType /\ SizeType
BY Zenon DEF TypeOK, SimpleType, DataType, SessionType, SizeType

\* The same after a step.
LEMMA TypePartsNext == TypeOK' <=> SimpleType' /\ DataType' /\ SessionType' /\ SizeType'
BY Zenon DEF TypeOK, SimpleType, DataType, SessionType, SizeType

\* Types and counts hold before Run has opened a session.
LEMMA TypeInit == Init => TypeOK /\ DelayInv /\ SizeInv /\ NoSessionInv
<1> SUFFICES ASSUME Init PROVE TypeOK /\ DelayInv /\ SizeInv /\ NoSessionInv
  OBVIOUS
<1>1. Words \in Nat
  BY BlockShorter
<1>2. RetryDelay \in Nat /\ MaxSessions \in Nat /\ MaxInput \in Nat
  BY LinkAssumption
<1>3. SessionType
  <2>1. <<>> \in {Block(ds) : ds \in SUBSET Definitions}
    BY EmptyBlock
  <2>2. QED
    BY <2>1 DEF Init, SessionType
<1>4. DataType
  <2>1. Initial \in DataWords
    BY Zenon DEF DataWords
  <2>2. QED
    BY <2>1 DEF Init, DataType
<1>5. SizeType
  <2>1. MaxSessions * Words \in Nat
    BY <1>1, <1>2
  <2>2. QED
    BY <2>1 DEF Init, SizeType
<1>6. SimpleType
  <2>1. input \in Seq({"up", "down", "other"}) /\ Len(input) = 0 /\ sent = 0
    BY DEF Init
  <2>2. /\ pc = "loop" /\ message = "none" /\ hSimConnect = 0 /\ open = {} /\ retryDelay = 0
        /\ quit = FALSE /\ connected = FALSE /\ serial \in BOOLEAN /\ waited = RetryDelay
    BY Zenon DEF Init
  <2>3. /\ hSimConnect \in 0..MaxSessions /\ open \subseteq 1..MaxSessions
        /\ retryDelay \in 0..RetryDelay /\ waited \in 0..RetryDelay
        /\ sent \in 0..MaxInput /\ Len(input) <= sent
    BY <1>2, <2>1, <2>2
  <2>4. QED
    BY <2>1, <2>2, <2>3, Zenon DEF SimpleType
<1>7. DelayInv /\ NoSessionInv
  BY <1>2 DEF Init, DelayInv, NoSessionInv
<1>8. SizeInv
  <2>1. 0 * Words = 0
    BY <1>1
  <2>2. QED
    BY <2>1 DEF Init, SizeInv
<1>9. QED
  BY <1>3, <1>4, <1>5, <1>6, <1>7, <1>8, TypeParts

\* The invariant holds at first.
LEMMA LinkInit == Init => LinkInv
<1> SUFFICES ASSUME Init PROVE LinkInv
  OBVIOUS
<1>1. FirstSessionInBounds
  BY DEF Init, FirstSessionInBounds, Initial, Garbage
<1>2. ConnectedHasSession /\ CleanedUp
  BY DEF Init, ConnectedHasSession, CleanedUp
<1>3. QED
  BY <1>1, <1>2, TypeInit DEF LinkInv

-----------------------------------------------------------------------------
(* The parts of the type invariant that a step has to do something for. *)

\* What a copy puts in simVars.
LEMMA IncomingType ==
  ASSUME TypeOK, NEW w \in Nat
  PROVE  /\ Incoming(w + 1) \in DataWords
         /\ w + 1 <= Len(session.defined) => Incoming(w + 1) # Garbage
<1>1. PICK ds \in SUBSET Definitions : session.defined = Block(ds)
  BY DEF TypeOK
<1>2. Len(Block(ds)) \in Nat
  BY BlockShorter
<1>3. CASE w + 1 <= Len(session.defined)
  <2>1. Incoming(w + 1) = Block(ds)[w + 1]
    BY <1>1, <1>3 DEF Incoming
  <2>2. w + 1 \in 1..Len(Block(ds))
    BY <1>1, <1>2, <1>3
  <2>3. QED
    BY <2>1, <2>2, BlockWord
<1>4. CASE ~(w + 1 <= Len(session.defined))
  <2>1. Incoming(w + 1) = Garbage
    BY <1>4 DEF Incoming
  <2>2. Garbage \in DataWords
    BY Zenon DEF DataWords
  <2>3. QED
    BY <1>4, <2>1, <2>2
<1>5. QED
  BY <1>3, <1>4

\* A session more takes varSize no further than it may go.
LEMMA SizeGrows ==
  ASSUME NEW n \in Nat, NEW a \in Nat, NEW l \in Nat, NEW b \in Nat, a <= n * b, l <= b
  PROVE  a + l <= (n + 1) * b
<1>1. (n + 1) * b = n * b + b /\ n * b \in Nat
  OBVIOUS
<1> DEFINE c == n * b
<1>2. a <= c /\ c \in Nat
  BY <1>1
<1> HIDE DEF c
<1>3. a + l <= c + b
  BY <1>2
<1>4. QED
  BY <1>1, <1>3 DEF c

\* More sessions allow for more words.
LEMMA SizeBounded ==
  ASSUME NEW n \in Nat, NEW m \in Nat, NEW b \in Nat, n <= m
  PROVE  n * b <= m * b /\ n * b \in Nat /\ m * b \in Nat
OBVIOUS


-----------------------------------------------------------------------------
(* The invariant holds after each step, part by part. *)

\* The flags, counters and bytes keep their types.
LEMMA SimpleTypeStep ==
  ASSUME SimpleType, DelayInv, Next
  PROVE  SimpleType'
<1> USE LinkAssumption
<1>1. CASE DispatchNothing
  BY <1>1 DEF DispatchNothing, SimpleType, simConnectVars, retryVars, panelVars
<1>2. CASE DispatchData
  BY <1>2 DEF DispatchData, SimpleType, simConnectVars, retryVars, panelVars
<1>3. CASE DispatchQuit
  BY <1>3 DEF DispatchQuit, SimpleType, simConnectVars, retryVars, panelVars
<1>4. CASE DispatchFailed
  BY <1>4 DEF DispatchFailed, SimpleType, simConnectVars, retryVars, panelVars
<1>5. CASE NoTrimInput
  <2>1. input' = input \/ (input # <<>> /\ input' = Tail(input))
    BY <1>5 DEF NoTrimInput
  <2>2. input' \in Seq({"up", "down", "other"}) /\ Len(input') <= sent
    <3>1. input \in Seq({"up", "down", "other"}) /\ Len(input) <= sent /\ sent \in Nat
      BY DEF SimpleType
    <3>2. input # <<>> => Tail(input) \in Seq({"up", "down", "other"})
                         /\ Len(Tail(input)) <= sent
      BY <3>1
    <3>3. QED
      BY <2>1, <3>1, <3>2, Zenon
  <2>3. serial' \in BOOLEAN /\ pc' = "loop" /\ UNCHANGED <<quit, connected, message, sent>>
    BY <1>5, Zenon DEF NoTrimInput, SimpleType, dataVars
  <2>4. UNCHANGED <<hSimConnect, open, retryDelay, waited>>
    BY <1>5 DEF NoTrimInput, simConnectVars, retryVars
  <2>5. QED
    BY <2>2, <2>3, <2>4 DEF SimpleType
<1>6. CASE TrimInput
  BY <1>6 DEF TrimInput, SimpleType, dataVars, simConnectVars, retryVars
<1>7. CASE Wait
  BY <1>7 DEF Wait, Waiting, SimpleType, DelayInv, dataVars, simConnectVars, panelVars
<1>8. CASE OpenFails
  BY <1>8 DEF OpenFails, SimpleType, dataVars, simConnectVars, panelVars
<1>9. CASE OpenSucceeds
  BY <1>9 DEF OpenSucceeds, SimpleType, dataVars, panelVars
<1>10. CASE Return
  BY <1>10 DEF Return, SimpleType, dataVars, retryVars, panelVars
<1>11. CASE PanelSends
  BY <1>11 DEF PanelSends, SimpleType, dataVars, simConnectVars, retryVars
<1>12. QED
  BY <1>1, <1>2, <1>3, <1>4, <1>5, <1>6, <1>7, <1>8, <1>9, <1>10, <1>11
  DEF Next, Run, CallDispatch


\* A copy, within bounds or past them, leaves words in simVars.
LEMMA DataTypeStep ==
  ASSUME TypeOK, Next
  PROVE  DataType'
<1>1. DataType
  BY TypeParts
<1>2. CASE UNCHANGED <<simVars, trim>>
  BY <1>1, <1>2 DEF DataType
<1>3. CASE DispatchData
  <2>1. trim' = trim
    BY <1>3 DEF DispatchData, panelVars
  <2>2. CASE varSize > Words
    BY <1>1, <1>3, <2>1, <2>2 DEF DispatchData, DataType
  <2>3. CASE ~(varSize > Words)
    <3>1. simVars' = [w \in 1..Words |-> IF w - 1 \in 1..varSize THEN Incoming(w - 1)
                                                                ELSE simVars[w]]
      BY <1>3, <2>3, Zenon DEF DispatchData
    <3>2. ASSUME NEW w \in 1..Words
          PROVE  (IF w - 1 \in 1..varSize THEN Incoming(w - 1) ELSE simVars[w]) \in DataWords
      <4>1. simVars[w] \in DataWords
        BY <1>1 DEF DataType
      <4>2. w - 1 \in 1..varSize => w - 2 \in Nat /\ (w - 2) + 1 = w - 1
        OBVIOUS
      <4>3. w - 1 \in 1..varSize => Incoming(w - 1) \in DataWords
        BY <4>2, IncomingType, Zenon
      <4>4. QED
        BY <4>1, <4>3
    <3>3. QED
      BY <2>1, <3>1, <3>2, <1>1, Zenon DEF DataType
  <2>4. QED
    BY <2>2, <2>3
<1>4. CASE TrimInput
  <2>1. simVars' = simVars /\ trim' = trim \cup {simVars[IndicatorWord]}
    BY <1>4 DEF TrimInput, dataVars
  <2>2. simVars[IndicatorWord] \in DataWords
    BY <1>1, IndicatorWordType DEF DataType
  <2>3. QED
    BY <1>1, <2>1, <2>2 DEF DataType
<1>5. QED
  BY <1>2, <1>3, <1>4, Zenon
  DEF Next, Run, CallDispatch, DispatchNothing, DispatchQuit, DispatchFailed, NoTrimInput,
      PanelSends, Wait, OpenFails, OpenSucceeds, Return, dataVars, panelVars

\* What is defined in a session is the block of the definitions it took.
LEMMA SessionTypeStep ==
  ASSUME SessionType, Next
  PROVE  SessionType'
<1>1. CASE session' = session
  BY <1>1 DEF SessionType
<1>2. CASE OpenSucceeds
  <2>1. PICK refused \in SUBSET Refusable, requesting \in BOOLEAN :
          session' = [defined |-> Block(Definitions \ refused), requesting |-> requesting]
    BY <1>2, Zenon DEF OpenSucceeds
  <2>2. Block(Definitions \ refused) \in {Block(ds) : ds \in SUBSET Definitions}
    OBVIOUS
  <2>3. QED
    BY <2>1, <2>2 DEF SessionType
<1>3. CASE Return
  <2>1. session' = [session EXCEPT !.requesting = FALSE] \/ session' = session
    BY <1>3 DEF Return
  <2>2. QED
    BY <2>1 DEF SessionType
<1>4. QED
  BY <1>1, <1>2, <1>3, Zenon
  DEF Next, Run, CallDispatch, DispatchNothing, DispatchData, DispatchQuit, DispatchFailed,
      NoTrimInput, TrimInput, PanelSends, Wait, OpenFails, simConnectVars


\* AddReadDefs adds the block of the session to varSize, nothing else changes it.
LEMMA SizeStep ==
  ASSUME SizeInv, SizeType, SimpleType, SessionType, Next
  PROVE  SizeInv' /\ SizeType'
<1>1. /\ hSimConnect \in Nat /\ MaxSessions \in Nat /\ hSimConnect <= MaxSessions
      /\ Words \in Nat
  BY LinkAssumption, BlockShorter DEF SimpleType
<1>2. varSize \in Nat
  <2>1. MaxSessions * Words \in Nat
    BY <1>1
  <2>2. QED
    BY <2>1 DEF SizeType
<1>3. CASE UNCHANGED <<hSimConnect, varSize, session>>
  BY <1>3, Zenon DEF SizeInv, SizeType
<1>4. CASE OpenSucceeds
  <2>1. PICK refused \in SUBSET Refusable, requesting \in BOOLEAN :
          /\ varSize' = varSize + Len(Block(Definitions \ refused))
          /\ session' = [defined |-> Block(Definitions \ refused), requesting |-> requesting]
    BY <1>4, Zenon DEF OpenSucceeds, AddReadDefs
  <2>2. hSimConnect' = hSimConnect + 1 /\ hSimConnect < MaxSessions
    BY <1>4 DEF OpenSucceeds
  <2> DEFINE l == Len(Block(Definitions \ refused))
  <2>3. l \in Nat /\ l <= Words
    BY BlockShorter
  <2>4. varSize' = varSize + l /\ session'.defined = Block(Definitions \ refused)
    BY <2>1
  <2>5. varSize' <= hSimConnect' * Words
    <3>1. varSize <= hSimConnect * Words
      BY Zenon DEF SizeInv
    <3> HIDE DEF l
    <3>2. varSize + l <= (hSimConnect + 1) * Words
      BY <1>1, <1>2, <2>3, <3>1, SizeGrows
    <3>3. QED
      BY <2>2, <2>4, <3>2, Zenon
  <2>6. hSimConnect' <= 1 => varSize' = Len(session'.defined)
    <3>1. ASSUME hSimConnect' <= 1 PROVE varSize = 0
      <4>1. hSimConnect = 0
        BY <1>1, <2>2, <3>1
      <4>2. varSize <= 0 * Words /\ 0 * Words = 0
        BY <1>1, <4>1 DEF SizeInv
      <4>3. QED
        BY <1>2, <4>2
    <3>2. varSize = 0 => varSize' = l
      BY <2>3, <2>4
    <3>3. l = Len(session'.defined)
      BY <2>4, Zenon
    <3>4. QED
      BY <3>1, <3>2, <3>3, Zenon
  <2>7. SizeType'
    <3>1. hSimConnect + 1 <= MaxSessions /\ hSimConnect + 1 \in Nat
      BY <1>1, <2>2
    <3>2. (hSimConnect + 1) * Words <= MaxSessions * Words /\ (hSimConnect + 1) * Words \in Nat
          /\ MaxSessions * Words \in Nat
      BY <1>1, <3>1, SizeBounded
    <3>3. varSize' \in Nat
      BY <1>2, <2>3, <2>4
    <3>4. varSize' <= (hSimConnect + 1) * Words
      BY <2>2, <2>5, Zenon
    <3> DEFINE a == (hSimConnect + 1) * Words
               b == MaxSessions * Words
    <3>5. a \in Nat /\ b \in Nat /\ a <= b /\ varSize' <= a
      BY <3>2, <3>4
    <3> HIDE DEF a, b
    <3>6. varSize' \in 0..b
      BY <3>3, <3>5
    <3>7. QED
      BY <3>6, Zenon DEF SizeType, b, Words
  <2>8. QED
    BY <2>5, <2>6, <2>7, Zenon DEF SizeInv, Words
<1>5. CASE Return
  <2>1. UNCHANGED <<hSimConnect, varSize>> /\ session'.defined = session.defined
    BY <1>5 DEF Return, SessionType
  <2>2. QED
    BY <2>1, Zenon DEF SizeInv, SizeType
<1>6. QED
  BY <1>3, <1>4, <1>5, Zenon
  DEF Next, Run, CallDispatch, DispatchNothing, DispatchData, DispatchQuit, DispatchFailed,
      NoTrimInput, TrimInput, PanelSends, Wait, OpenFails, simConnectVars

\* The turns waited and those still to wait add up to RetryDelay.
LEMMA DelayStep ==
  ASSUME DelayInv, SimpleType, Next
  PROVE  DelayInv'
<1>1. RetryDelay \in Nat /\ retryDelay \in Nat /\ waited \in Nat
  BY LinkAssumption DEF SimpleType
<1>2. CASE UNCHANGED <<retryDelay, waited>>
  BY <1>2, Zenon DEF DelayInv
<1>3. CASE Wait
  BY <1>1, <1>3 DEF Wait, Waiting, DelayInv
<1>4. CASE OpenFails
  BY <1>1, <1>4 DEF OpenFails, DelayInv
<1>5. CASE OpenSucceeds
  BY <1>1, <1>5 DEF OpenSucceeds, Opening, DelayInv
<1>6. QED
  BY <1>2, <1>3, <1>4, <1>5, Zenon
  DEF Next, Run, CallDispatch, DispatchNothing, DispatchData, DispatchQuit, DispatchFailed,
      NoTrimInput, TrimInput, PanelSends, Return, retryVars

\* A session is there while the link takes itself for connected, and is closed at the end.
LEMMA SessionsStep ==
  ASSUME NoSessionInv, ConnectedHasSession, CleanedUp, SimpleType, SessionType, Next
  PROVE  NoSessionInv' /\ ConnectedHasSession' /\ CleanedUp'
<1>1. hSimConnect \in Nat /\ ~(0 \in open)
  BY LinkAssumption DEF SimpleType
<1>2. CASE DispatchNothing \/ DispatchQuit \/ DispatchFailed
  BY <1>2 DEF DispatchNothing, DispatchQuit, DispatchFailed, Dispatching, simConnectVars,
              NoSessionInv, ConnectedHasSession, CleanedUp
<1>3. CASE DispatchData
  <2>1. /\ pc = "loop" /\ connected /\ pc' \in {"serial", "corrupt"}
        /\ UNCHANGED <<hSimConnect, open, session>>
    BY <1>3 DEF DispatchData, Dispatching, simConnectVars
  <2>2. QED
    BY <2>1 DEF NoSessionInv, ConnectedHasSession, CleanedUp
<1>4. CASE NoTrimInput \/ TrimInput
  <2>1. /\ pc = "serial" /\ pc' = "loop"
        /\ UNCHANGED <<hSimConnect, open, session, connected>>
    BY <1>4, Zenon DEF NoTrimInput, TrimInput, simConnectVars
  <2>2. QED
    BY <2>1 DEF NoSessionInv, ConnectedHasSession, CleanedUp
<1>5. CASE PanelSends
  BY <1>5 DEF PanelSends, simConnectVars, NoSessionInv, ConnectedHasSession, CleanedUp
<1>6. CASE Wait \/ OpenFails
  BY <1>6 DEF Wait, OpenFails, simConnectVars, NoSessionInv, ConnectedHasSession, CleanedUp
<1>7. CASE OpenSucceeds
  <2>1. /\ pc = "loop" /\ pc' = pc /\ hSimConnect' = hSimConnect + 1
        /\ open' = open \cup {hSimConnect + 1}
    BY <1>7 DEF OpenSucceeds, Opening
  <2>2. QED
    BY <1>1, <2>1 DEF NoSessionInv, ConnectedHasSession, CleanedUp
<1>8. CASE Return
  <2>1. pc' = "done" /\ UNCHANGED <<hSimConnect, connected>>
    BY <1>8 DEF Return
  <2>2. CASE hSimConnect # 0
    <3>1. session' = [session EXCEPT !.requesting = FALSE] /\ open' = open \ {hSimConnect}
      BY <1>8, <2>2 DEF Return
    <3>2. ~session'.requesting
      BY <3>1 DEF SessionType
    <3>3. QED
      BY <2>1, <2>2, <3>1, <3>2 DEF NoSessionInv, ConnectedHasSession, CleanedUp
  <2>3. CASE hSimConnect = 0
    <3>1. UNCHANGED <<session, open>>
      BY <1>8, <2>3 DEF Return
    <3>2. QED
      BY <1>1, <2>1, <2>3, <3>1 DEF NoSessionInv, ConnectedHasSession, CleanedUp
  <2>4. QED
    BY <2>2, <2>3
<1>9. QED
  BY <1>2, <1>3, <1>4, <1>5, <1>6, <1>7, <1>8, Zenon DEF Next, Run, CallDispatch


\* The copies of the first session have the length of its messages.
LEMMA FirstSessionStep ==
  ASSUME LinkInv, Next
  PROVE  FirstSessionInBounds'
<1>1. hSimConnect \in Nat /\ SimpleType /\ DataType /\ SessionType
  BY LinkAssumption, TypeParts DEF LinkInv, SimpleType
<1>2. CASE UNCHANGED <<hSimConnect, simVars>> /\ pc' # "corrupt"
  BY <1>2, Zenon DEF LinkInv, FirstSessionInBounds, Words
<1>3. CASE OpenSucceeds
  <2>1. pc' = "loop" /\ hSimConnect' = hSimConnect + 1 /\ simVars' = simVars
    BY <1>3 DEF OpenSucceeds, Opening, dataVars
  <2>2. hSimConnect' <= 1 => hSimConnect <= 1
    BY <1>1, <2>1
  <2>3. "loop" # "corrupt"
    OBVIOUS
  <2>4. QED
    BY <2>1, <2>2, <2>3, Zenon DEF LinkInv, FirstSessionInBounds, Words
<1>4. CASE DispatchData
  <2>1. SUFFICES ASSUME hSimConnect' <= 1
                 PROVE  pc' # "corrupt" /\ \A w \in 1..Words : simVars'[w] # Garbage
    BY Zenon DEF FirstSessionInBounds, Words
  <2>2. hSimConnect <= 1
    BY <1>4, <2>1 DEF DispatchData, simConnectVars
  <2>3. varSize = Len(session.defined)
    BY <2>2 DEF LinkInv, SizeInv
  <2>4. Len(session.defined) \in Nat /\ Words \in Nat /\ Len(session.defined) <= Words
    <3>1. PICK ds \in SUBSET Definitions : session.defined = Block(ds)
      BY <1>1 DEF SessionType
    <3>2. QED
      BY <3>1, BlockShorter
  <2>5. ~(varSize > Words)
    BY <2>3, <2>4
  <2>6. pc' = "serial"
    BY <1>4, <2>5, Zenon DEF DispatchData
  <2>7. simVars' = [w \in 1..Words |-> IF w - 1 \in 1..varSize THEN Incoming(w - 1)
                                                              ELSE simVars[w]]
    BY <1>4, <2>5, Zenon DEF DispatchData
  <2>8. ASSUME NEW w \in 1..Words PROVE simVars'[w] # Garbage
    <3>1. simVars[w] # Garbage
      BY <2>2 DEF LinkInv, FirstSessionInBounds
    <3>2. w - 1 \in 1..varSize => w - 2 \in Nat /\ (w - 2) + 1 = w - 1
                                 /\ w - 1 <= Len(session.defined)
      BY <2>3, <2>4
    <3>3. w - 1 \in 1..varSize => Incoming(w - 1) # Garbage
      BY <3>2, IncomingType, Zenon DEF LinkInv
    <3>4. simVars'[w] = IF w - 1 \in 1..varSize THEN Incoming(w - 1) ELSE simVars[w]
      BY <2>7, Zenon
    <3>5. QED
      BY <3>1, <3>3, <3>4, Zenon
  <2>9. QED
    BY <2>6, <2>8
<1>5. CASE CallDispatch /\ ~DispatchData
  <2>1. UNCHANGED <<hSimConnect, simVars>> /\ pc' = "serial"
    BY <1>5 DEF CallDispatch, DispatchNothing, DispatchQuit, DispatchFailed, simConnectVars
  <2>2. QED
    BY <1>2, <2>1
<1>6. CASE NoTrimInput \/ TrimInput
  <2>1. UNCHANGED <<hSimConnect, simVars>> /\ pc' = "loop"
    BY <1>6, Zenon DEF NoTrimInput, TrimInput, simConnectVars, dataVars
  <2>2. QED
    BY <1>2, <2>1
<1>7. CASE Wait \/ OpenFails
  <2>1. UNCHANGED <<hSimConnect, simVars>> /\ pc = "loop" /\ pc' = pc
    BY <1>7 DEF Wait, OpenFails, Waiting, Opening, simConnectVars, dataVars
  <2>2. QED
    BY <1>2, <2>1
<1>8. CASE Return
  <2>1. UNCHANGED <<hSimConnect, simVars>> /\ pc' = "done"
    BY <1>8 DEF Return, dataVars
  <2>2. QED
    BY <1>2, <2>1
<1>9. CASE PanelSends
  <2>1. UNCHANGED <<hSimConnect, simVars, pc>>
    BY <1>9 DEF PanelSends, simConnectVars, dataVars
  <2>2. QED
    BY <2>1, Zenon DEF LinkInv, FirstSessionInBounds, Words
<1>10. QED
  BY <1>3, <1>4, <1>5, <1>6, <1>7, <1>8, <1>9, Zenon DEF Next, Run, CallDispatch

\* The invariant depends on the variables of the specification only.
LEMMA LinkStutter ==
  ASSUME LinkInv, UNCHANGED vars
  PROVE  LinkInv'
<1>1. /\ UNCHANGED <<pc, message, hSimConnect, quit, simVars, connected, varSize, retryDelay>>
      /\ UNCHANGED <<serial, session, open, input, sent, trim, waited>>
  BY Zenon DEF vars, dataVars, simConnectVars, retryVars, panelVars
<1>2. TypeOK'
  BY <1>1, Zenon DEF LinkInv, TypeOK
<1>3. QED
  BY <1>1, <1>2, Zenon DEF LinkInv, DelayInv, SizeInv, NoSessionInv, ConnectedHasSession,
                           FirstSessionInBounds, CleanedUp

\* Every step keeps the invariant.
LEMMA LinkStep == LinkInv /\ [Next]_vars => LinkInv'
<1> SUFFICES ASSUME LinkInv, [Next]_vars PROVE LinkInv'
  OBVIOUS
<1>1. CASE Next
  <2>1. SimpleType /\ DataType /\ SessionType /\ SizeType
    BY TypeParts DEF LinkInv
  <2>2. SimpleType' /\ DataType' /\ SessionType'
    BY <1>1, <2>1, SimpleTypeStep, DataTypeStep, SessionTypeStep DEF LinkInv
  <2>3. SizeInv' /\ SizeType'
    BY <1>1, <2>1, SizeStep DEF LinkInv
  <2>4. DelayInv'
    BY <1>1, <2>1, DelayStep DEF LinkInv
  <2>5. NoSessionInv' /\ ConnectedHasSession' /\ CleanedUp'
    BY <1>1, <2>1, SessionsStep DEF LinkInv
  <2>6. FirstSessionInBounds'
    BY <1>1, FirstSessionStep
  <2>7. QED
    BY <2>2, <2>3, <2>4, <2>5, <2>6, TypePartsNext DEF LinkInv
<1>2. CASE UNCHANGED vars
  BY <1>2, LinkStutter
<1>3. QED
  BY <1>1, <1>2

-----------------------------------------------------------------------------
(* Theorems. *)

\* The inductive invariant of the link.
THEOREM LinkInvariant == Spec => []LinkInv
<1>1. Init => LinkInv
  BY LinkInit
<1>2. LinkInv /\ [Next]_vars => LinkInv'
  BY LinkStep
<1>3. QED
  BY <1>1, <1>2, PTL DEF Spec

\* The variables of the link keep their types, whatever the sim answers; simVars
\* holds words of definitions, and varSize one message for each session at most.
THEOREM LinkTypeCorrect == Spec => []TypeOK
<1>1. LinkInv => TypeOK
  BY DEF LinkInv
<1>2. QED
  BY <1>1, LinkInvariant, PTL

\* A loop that takes itself for connected has a session that is not closed.
THEOREM ConnectedLinkHasSession == Spec => []ConnectedHasSession
<1>1. LinkInv => ConnectedHasSession
  BY DEF LinkInv
<1>2. QED
  BY <1>1, LinkInvariant, PTL

\* The attempts to open a session are RetryDelay turns apart.
THEOREM AttemptsAreSpaced == Spec => []BackOff
<1>1. LinkInv => BackOff
  <2> SUFFICES ASSUME LinkInv, Opening PROVE waited = RetryDelay
    BY DEF BackOff
  <2>1. retryDelay = 0 /\ waited + retryDelay = RetryDelay
    BY DEF LinkInv, DelayInv, Opening
  <2>2. waited \in Nat /\ RetryDelay \in Nat
    BY LinkAssumption DEF LinkInv, TypeOK
  <2>3. QED
    BY <2>1, <2>2
<1>2. QED
  BY <1>1, LinkInvariant, PTL

\* The data of the first session stays within simVars and within the message,
\* whichever definitions the sim has refused.
THEOREM FirstSessionIsCopied == Spec => []FirstSessionInBounds
<1>1. LinkInv => FirstSessionInBounds
  BY DEF LinkInv
<1>2. QED
  BY <1>1, LinkInvariant, PTL

\* When Run has returned the last session is closed and sends nothing.
THEOREM LastSessionIsClosed == Spec => []CleanedUp
<1>1. LinkInv => CleanedUp
  BY DEF LinkInv
<1>2. QED
  BY <1>1, LinkInvariant, PTL

=============================================================================
