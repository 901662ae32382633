----------------------------- MODULE FoldFacts ------------------------------
(***************************************************************************)
(* FoldLeft runs through a sequence step by step.  The operator that is    *)
(* folded is a constant, with two parameters that stay the same from step  *)
(* to step: a module that folds an operator of its own instantiates this   *)
(* one with it.                                                            *)
(***************************************************************************)
EXTENDS Integers, Sequences, SequencesExt, FiniteSetTheorems, SequenceTheorems,
        WellFoundedInduction, TLAPS

CONSTANT Op(_, _, _, _)

Fold(p, q, base, seq) == FoldLeft(LAMBDA x, y : Op(p, q, x, y), base, seq)

(***************************************************************************)
(* Every set of numbers that is not empty has a least one.                 *)
(***************************************************************************)
LEMMA LeastNumber ==
  ASSUME NEW T, T \subseteq Nat, T # {}
  PROVE  \E n \in T : \A m \in T : n <= m
<1> DEFINE R == {p \in Nat \X Nat : p[1] < p[2]}
<1>1. IsWellFoundedOn(R, Nat)
  <2>1. R = OpToRel(<, Nat)
    BY DEF OpToRel
  <2> QED
    BY <2>1, NatLessThanWellFounded
<1>2. \A m, n \in Nat : <<m, n>> \notin R => n <= m
  OBVIOUS
<1> HIDE DEF R
<1>3. \E n \in T : \A m \in T : <<m, n>> \notin R
  BY <1>1, WFMin
<1> QED
  BY <1>2, <1>3

(***************************************************************************)
(* Induction over sequences: a set that holds the empty one, and with a    *)
(* sequence each that is one element longer, holds all.                    *)
(***************************************************************************)
LEMMA SequenceInduction ==
  ASSUME NEW S, NEW T, <<>> \in T,
         \A s \in Seq(S), e \in S : s \in T => Append(s, e) \in T
  PROVE  Seq(S) \subseteq T
<1> DEFINE bad == {n \in Nat : \E s \in Seq(S) : Len(s) = n /\ s \notin T}
<1> SUFFICES ASSUME NEW seq \in Seq(S), seq \notin T
             PROVE  FALSE
  OBVIOUS
<1>1. Len(seq) \in bad
  OBVIOUS
<1>2. PICK n \in bad : \A m \in bad : n <= m
  BY <1>1, LeastNumber
<1>3. PICK s \in Seq(S) : Len(s) = n /\ s \notin T
  BY <1>2
<1> HIDE DEF bad
<1>4. s # <<>>
  BY <1>3
<1>5. PICK t \in Seq(S), e \in S : s = Append(t, e)
  BY <1>4, SequenceEmptyOrAppend
<1>6. Len(s) = Len(t) + 1 /\ Len(t) \in Nat
  BY <1>5
<1>7. t \notin T
  BY <1>3, <1>5
<1>8. Len(t) \in bad
  BY <1>6, <1>7 DEF bad
<1> QED
  BY <1>2, <1>3, <1>6, <1>8

(***************************************************************************)
(* A fold unrolled: what it is after each step, from the first on.         *)
(***************************************************************************)
Runs(f, p, q, base, seq, n) ==
  /\ f[0] = base
  /\ \A k \in 1 .. n : f[k] = Op(p, q, f[k - 1], seq[k])

(***************************************************************************)
(* The recursion of MapThenFoldSet, from the last element down.            *)
(***************************************************************************)
Solves(f, p, q, base, seq, n) ==
  f = [s \in SUBSET (1 .. n) |->
         IF s = {} THEN base ELSE Op(p, q, f[s \ {Max(s)}], seq[Max(s)])]

(***************************************************************************)
(* The greatest element of a set of numbers up to a bound it contains is   *)
(* the bound.                                                              *)
(***************************************************************************)
LEMMA MaxOfInitial ==
  ASSUME NEW n \in Nat, NEW s \in SUBSET (1 .. n + 1), n + 1 \in s
  PROVE  Max(s) = n + 1
<1>1. \E x \in s : \A y \in s : x >= y
  OBVIOUS
<1>2. Max(s) \in s /\ \A y \in s : Max(s) >= y
  BY <1>1 DEF Max
<1>3. Max(s) \in 1 .. n + 1 /\ Max(s) >= n + 1
  BY <1>2
<1> QED
  BY <1>3

(***************************************************************************)
(* The recursion has a solution, for any sequence.                         *)
(***************************************************************************)
LEMMA SolutionExists ==
  ASSUME NEW p, NEW q, NEW base, NEW seq, NEW n \in Nat
  PROVE  \E f : Solves(f, p, q, base, seq, n)
<1> DEFINE bad == {m \in Nat : ~ \E f : Solves(f, p, q, base, seq, m)}
<1> SUFFICES ASSUME bad # {}
             PROVE  FALSE
  OBVIOUS
<1>1. PICK m \in bad : \A k \in bad : m <= k
  BY LeastNumber
<1>2. CASE m = 0
  <2> DEFINE f == [s \in SUBSET (1 .. 0) |-> base]
  <2>1. \A s \in SUBSET (1 .. 0) : s = {}
    OBVIOUS
  <2>2. Solves(f, p, q, base, seq, 0)
    BY <2>1 DEF Solves
  <2> QED
    BY <1>2, <2>2
<1>3. CASE m # 0
  <2> DEFINE k == m - 1
  <2>1. k \in Nat /\ k \notin bad /\ m = k + 1
    BY <1>1, <1>3
  <2>2. PICK f : Solves(f, p, q, base, seq, k)
    BY <2>1
  <2> HIDE DEF k
  <2> DEFINE g == [s \in SUBSET (1 .. k + 1) |->
                     IF k + 1 \in s THEN Op(p, q, f[s \ {k + 1}], seq[k + 1]) ELSE f[s]]
  <2>3. ASSUME NEW s \in SUBSET (1 .. k)
        PROVE  /\ g[s] = f[s]
               /\ f[s] = IF s = {} THEN base
                         ELSE Op(p, q, f[s \ {Max(s)}], seq[Max(s)])
               /\ s \ {Max(s)} \in SUBSET (1 .. k)
    <3>1. s \in SUBSET (1 .. k + 1) /\ k + 1 \notin s
      BY <2>1
    <3> QED
      BY <2>2, <3>1 DEF Solves
  <2>4. ASSUME NEW s \in SUBSET (1 .. k + 1)
        PROVE  g[s] = IF s = {} THEN base ELSE Op(p, q, g[s \ {Max(s)}], seq[Max(s)])
    <3>1. CASE k + 1 \in s
      <4>1. Max(s) = k + 1
        BY <2>1, <3>1, MaxOfInitial
      <4>2. s \ {k + 1} \in SUBSET (1 .. k)
        BY <2>1
      <4>3. g[s \ {k + 1}] = f[s \ {k + 1}]
        BY <2>3, <4>2
      <4>4. g[s] = Op(p, q, f[s \ {k + 1}], seq[k + 1])
        BY <3>1
      <4> HIDE DEF g
      <4> QED
        BY <3>1, <4>1, <4>3, <4>4
    <3>2. CASE k + 1 \notin s
      <4>1. s \in SUBSET (1 .. k)
        BY <2>1, <3>2
      <4>2. g[s \ {Max(s)}] = f[s \ {Max(s)}]
        BY <2>3, <4>1
      <4> HIDE DEF g
      <4> QED
        BY <2>3, <4>1, <4>2
    <3> QED
      BY <3>1, <3>2
  <2>5. g = [s \in SUBSET (1 .. k + 1) |-> g[s]]
    OBVIOUS
  <2> HIDE DEF g
  <2>6. Solves(g, p, q, base, seq, k + 1)
    BY <2>4, <2>5 DEF Solves
  <2> QED
    BY <2>1, <2>6
<1> QED
  BY <1>2, <1>3

(***************************************************************************)
(* A fold is where its run ends.                                           *)
(***************************************************************************)
THEOREM FoldRuns ==
  ASSUME NEW p, NEW q, NEW base, NEW seq, NEW n \in Nat, DOMAIN seq = 1 .. n
  PROVE  \E f : Runs(f, p, q, base, seq, n) /\ Fold(p, q, base, seq) = f[n]
<1> DEFINE g == CHOOSE f : Solves(f, p, q, base, seq, n)
           f == [k \in 0 .. n |-> g[1 .. k]]
<1>1. Fold(p, q, base, seq) = g[1 .. n]
  BY DEF Fold, FoldLeft, MapThenFoldSet, Solves
<1>2. Solves(g, p, q, base, seq, n)
  BY SolutionExists
<1> HIDE DEF g
<1>3. \A s \in SUBSET (1 .. n) :
        g[s] = IF s = {} THEN base ELSE Op(p, q, g[s \ {Max(s)}], seq[Max(s)])
  BY <1>2 DEF Solves
<1>4. f[0] = base
  <2>1. 1 .. 0 = {} /\ {} \in SUBSET (1 .. n)
    OBVIOUS
  <2>2. g[{}] = base
    BY <1>3, <2>1
  <2>3. 0 \in 0 .. n
    OBVIOUS
  <2> QED
    BY <2>1, <2>2, <2>3
<1>5. ASSUME NEW k \in 1 .. n
      PROVE  f[k] = Op(p, q, f[k - 1], seq[k])
  <2>1. Max(1 .. k) = k
    BY MaxOfInitial, k - 1 \in Nat, (k - 1) + 1 = k, k \in 1 .. k
  <2>2. (1 .. k) \ {k} = 1 .. k - 1 /\ 1 .. k # {} /\ 1 .. k \in SUBSET (1 .. n)
    OBVIOUS
  <2>3. g[1 .. k] = Op(p, q, g[1 .. k - 1], seq[k])
    BY <1>3, <2>1, <2>2
  <2> QED
    BY <2>3
<1>6. f[n] = g[1 .. n]
  OBVIOUS
<1> HIDE DEF f
<1> QED
  BY <1>1, <1>4, <1>5, <1>6 DEF Runs

(***************************************************************************)
(* The fold of a sequence that is one element longer.                      *)
(***************************************************************************)
THEOREM FoldAppend ==
  ASSUME NEW p, NEW q, NEW base, NEW S, NEW seq \in Seq(S), NEW e \in S
  PROVE  Fold(p, q, base, Append(seq, e)) = Op(p, q, Fold(p, q, base, seq), e)
<1> DEFINE n == Len(seq)
           long == Append(seq, e)
<1>1. /\ n \in Nat /\ DOMAIN seq = 1 .. n /\ DOMAIN long = 1 .. n + 1
      /\ long[n + 1] = e /\ \A k \in 1 .. n : long[k] = seq[k]
  OBVIOUS
<1> HIDE DEF n, long
<1>2. PICK f : Runs(f, p, q, base, seq, n) /\ Fold(p, q, base, seq) = f[n]
  BY <1>1, FoldRuns
<1>3. PICK g : Runs(g, p, q, base, long, n + 1) /\ Fold(p, q, base, long) = g[n + 1]
  BY <1>1, FoldRuns
<1> DEFINE apart == {k \in 0 .. n : f[k] # g[k]}
<1>4. apart = {}
  <2> SUFFICES ASSUME apart # {}
               PROVE  FALSE
    OBVIOUS
  <2>1. apart \subseteq Nat
    BY <1>1
  <2>2. PICK k \in apart : \A m \in apart : k <= m
    BY <2>1, LeastNumber
  <2>3. k # 0
    BY <1>2, <1>3 DEF Runs
  <2>4. k - 1 \in 0 .. n /\ k - 1 \notin apart /\ k \in 1 .. n /\ k \in 1 .. n + 1
    BY <1>1, <2>2, <2>3
  <2>5. f[k] = Op(p, q, f[k - 1], seq[k]) /\ g[k] = Op(p, q, g[k - 1], long[k])
    BY <1>2, <1>3, <2>4 DEF Runs
  <2> QED
    BY <1>1, <2>2, <2>4, <2>5
<1>5. f[n] = g[n]
  BY <1>1, <1>4
<1>6. n + 1 \in 1 .. n + 1 /\ (n + 1) - 1 = n
  BY <1>1
<1>7. g[n + 1] = Op(p, q, g[n], long[n + 1])
  BY <1>3, <1>6 DEF Runs
<1> QED
  BY <1>1, <1>2, <1>3, <1>5, <1>7 DEF long

(***************************************************************************)
(* The fold of the empty sequence is its base.                             *)
(***************************************************************************)
LEMMA FoldEmpty ==
  ASSUME NEW p, NEW q, NEW base
  PROVE  Fold(p, q, base, <<>>) = base
<1>1. DOMAIN <<>> = 1 .. 0
  OBVIOUS
<1>2. PICK f : Runs(f, p, q, base, <<>>, 0) /\ Fold(p, q, base, <<>>) = f[0]
  BY <1>1, FoldRuns
<1> QED
  BY <1>2 DEF Runs

(***************************************************************************)
(* A fold stays in a set that holds its base and that no step leaves.      *)
(***************************************************************************)
LEMMA FoldStays ==
  ASSUME NEW p, NEW q, NEW base, NEW S, NEW T, base \in T,
         \A x \in T, e \in S : Op(p, q, x, e) \in T,
         NEW seq \in Seq(S)
  PROVE  Fold(p, q, base, seq) \in T
<1> DEFINE good == {s \in Seq(S) : Fold(p, q, base, s) \in T}
<1>1. <<>> \in good
  BY FoldEmpty
<1>2. ASSUME NEW s \in Seq(S), NEW e \in S, s \in good
      PROVE  Append(s, e) \in good
  <2>1. Append(s, e) \in Seq(S)
    OBVIOUS
  <2>2. Fold(p, q, base, Append(s, e)) = Op(p, q, Fold(p, q, base, s), e)
    BY FoldAppend
  <2> QED
    BY <1>2, <2>1, <2>2
<1> HIDE DEF good
<1>3. Seq(S) \subseteq good
  BY <1>1, <1>2, SequenceInduction
<1> QED
  BY <1>3 DEF good

(***************************************************************************)
(* The fold of one element.                                                *)
(***************************************************************************)
LEMMA FoldOne ==
  ASSUME NEW p, NEW q, NEW base, NEW a
  PROVE  Fold(p, q, base, <<a>>) = Op(p, q, base, a)
<1> DEFINE n == 1
           seq == <<a>>
<1>1. n \in Nat /\ DOMAIN seq = 1 .. n /\ seq[1] = a
  OBVIOUS
<1> HIDE DEF n, seq
<1>2. PICK f : Runs(f, p, q, base, seq, n) /\ Fold(p, q, base, seq) = f[n]
  BY <1>1, FoldRuns
<1>3. f[1] = Op(p, q, base, a)
  BY <1>1, <1>2 DEF Runs, n
<1> QED
  BY <1>2, <1>3 DEF n, seq

(***************************************************************************)
(* The fold of two elements.                                               *)
(***************************************************************************)
LEMMA FoldTwo ==
  ASSUME NEW p, NEW q, NEW base, NEW a, NEW b
  PROVE  Fold(p, q, base, <<a, b>>) = Op(p, q, Op(p, q, base, a), b)
<1> DEFINE n == 2
           seq == <<a, b>>
<1>1. n \in Nat /\ DOMAIN seq = 1 .. n /\ seq[1] = a /\ seq[2] = b
  OBVIOUS
<1> HIDE DEF n, seq
<1>2. PICK f : Runs(f, p, q, base, seq, n) /\ Fold(p, q, base, seq) = f[n]
  BY <1>1, FoldRuns
<1>3. f[1] = Op(p, q, base, a) /\ f[2] = Op(p, q, f[1], b)
  BY <1>1, <1>2 DEF Runs, n
<1> QED
  BY <1>2, <1>3 DEF n, seq

(***************************************************************************)
(* The fold of three elements.                                             *)
(***************************************************************************)
LEMMA FoldThree ==
  ASSUME NEW p, NEW q, NEW base, NEW a, NEW b, NEW c
  PROVE  Fold(p, q, base, <<a, b, c>>) = Op(p, q, Op(p, q, Op(p, q, base, a), b), c)
<1> DEFINE n == 3
           seq == <<a, b, c>>
<1>1. n \in Nat /\ DOMAIN seq = 1 .. n /\ seq[1] = a /\ seq[2] = b /\ seq[3] = c
  OBVIOUS
<1> HIDE DEF n, seq
<1>2. PICK f : Runs(f, p, q, base, seq, n) /\ Fold(p, q, base, seq) = f[n]
  BY <1>1, FoldRuns
<1>3. f[1] = Op(p, q, base, a) /\ f[2] = Op(p, q, f[1], b) /\ f[3] = Op(p, q, f[2], c)
  BY <1>1, <1>2 DEF Runs, n
<1> QED
  BY <1>2, <1>3 DEF n, seq

-----------------------------------------------------------------------------
(* Lists: their elements, how many, and what filtering and joining keep *)

(***************************************************************************)
(* The elements of a list that has one more.                               *)
(***************************************************************************)
LEMMA SetOfAppend ==
  ASSUME NEW S, NEW s \in Seq(S), NEW e \in S
  PROVE  ToSet(Append(s, e)) = ToSet(s) \cup {e}
<1> DEFINE long == Append(s, e)
<1>1. /\ DOMAIN long = DOMAIN s \cup {Len(s) + 1} /\ long[Len(s) + 1] = e
      /\ \A k \in DOMAIN s : long[k] = s[k]
  OBVIOUS
<1> HIDE DEF long
<1>2. ASSUME NEW x
      PROVE  x \in ToSet(long) <=> x \in ToSet(s) \cup {e}
  <2>1. /\ x \in ToSet(long) <=> \E m \in DOMAIN long : x = long[m]
        /\ x \in ToSet(s) <=> \E m \in DOMAIN s : x = s[m]
    BY DEF ToSet
  <2> QED
    BY <1>1, <2>1
<1> QED
  BY <1>2 DEF long

(***************************************************************************)
(* The elements of two lists, one after the other.                         *)
(***************************************************************************)
LEMMA SetOfConcatenation ==
  ASSUME NEW S, NEW s \in Seq(S), NEW t \in Seq(S)
  PROVE  ToSet(s \o t) = ToSet(s) \cup ToSet(t)
<1> DEFINE both == s \o t
<1>1. /\ Len(s) \in Nat /\ Len(t) \in Nat /\ DOMAIN s = 1 .. Len(s) /\ DOMAIN t = 1 .. Len(t)
      /\ DOMAIN both = 1 .. Len(s) + Len(t)
      /\ \A k \in 1 .. Len(s) + Len(t) :
           both[k] = IF k <= Len(s) THEN s[k] ELSE t[k - Len(s)]
  OBVIOUS
<1> HIDE DEF both
<1>2. ASSUME NEW x
      PROVE  x \in ToSet(both) <=> x \in ToSet(s) \cup ToSet(t)
  <2>1. /\ x \in ToSet(both) <=> \E m \in DOMAIN both : x = both[m]
        /\ x \in ToSet(s) <=> \E m \in DOMAIN s : x = s[m]
        /\ x \in ToSet(t) <=> \E m \in DOMAIN t : x = t[m]
    BY DEF ToSet
  <2>2. ASSUME NEW m \in DOMAIN s, x = s[m] PROVE x \in ToSet(both)
    BY <1>1, <2>1, <2>2, m \in DOMAIN both
  <2>3. ASSUME NEW m \in DOMAIN t, x = t[m] PROVE x \in ToSet(both)
    <3>1. m + Len(s) \in DOMAIN both /\ both[m + Len(s)] = x
      BY <1>1, <2>3
    <3> QED
      BY <2>1, <3>1
  <2>4. ASSUME NEW m \in DOMAIN both, x = both[m] PROVE x \in ToSet(s) \cup ToSet(t)
    <3>1. CASE m <= Len(s)
      BY <1>1, <2>1, <2>4, <3>1, m \in DOMAIN s
    <3>2. CASE ~(m <= Len(s))
      <4>1. m - Len(s) \in DOMAIN t /\ t[m - Len(s)] = x
        BY <1>1, <2>4, <3>2
      <4> QED
        BY <2>1, <4>1
    <3> QED
      BY <3>1, <3>2
  <2> QED
    BY <2>1, <2>2, <2>3, <2>4
<1> QED
  BY <1>2 DEF both

(***************************************************************************)
(* A list without repeats has as many elements as places.                  *)
(***************************************************************************)
LEMMA CountOfDistinct ==
  ASSUME NEW s, NEW n \in Nat, DOMAIN s = 1 .. n, IsInjective(s)
  PROVE  IsFiniteSet(ToSet(s)) /\ Cardinality(ToSet(s)) = n
<1> DEFINE S == 1 .. n
           f == [i \in S |-> s[i]]
<1>1. IsFiniteSet(S) /\ Cardinality(S) = n
  <2>1. IsFiniteSet(1 .. n) /\ Cardinality(1 .. n) = IF 1 > n THEN 0 ELSE n - 1 + 1
    BY FS_Interval
  <2> QED
    BY <2>1
<1>2. f \in Bijection(S, ToSet(s))
  <2>1. f \in [S -> ToSet(s)]
    BY DEF ToSet
  <2>2. \A i, j \in S : f[i] = f[j] => i = j
    BY DEF IsInjective
  <2>3. \A x \in ToSet(s) : \E i \in S : f[i] = x
    BY DEF ToSet
  <2> HIDE DEF f, S
  <2> QED
    BY <2>1, <2>2, <2>3 DEF Bijection, Injection, Surjection, IsInjective
<1>3. ExistsBijection(S, ToSet(s))
  BY <1>2 DEF ExistsBijection
<1> QED
  BY <1>1, <1>3, FS_Bijection

(***************************************************************************)
(* A list that has one more stays without repeats if that one is new.      *)
(***************************************************************************)
LEMMA DistinctAppend ==
  ASSUME NEW S, NEW s \in Seq(S), NEW e \in S
  PROVE  IsInjective(Append(s, e)) <=> IsInjective(s) /\ e \notin ToSet(s)
<1> DEFINE long == Append(s, e)
<1>1. /\ Len(s) \in Nat /\ DOMAIN s = 1 .. Len(s) /\ DOMAIN long = 1 .. Len(s) + 1
      /\ long[Len(s) + 1] = e
      /\ \A k \in 1 .. Len(s) : long[k] = s[k]
  OBVIOUS
<1> HIDE DEF long
<1>2. e \in ToSet(s) <=> \E k \in 1 .. Len(s) : s[k] = e
  BY <1>1 DEF ToSet
<1>3. IsInjective(s) <=> \A i, j \in 1 .. Len(s) : s[i] = s[j] => i = j
  BY <1>1 DEF IsInjective
<1>4. IsInjective(long) <=> \A i, j \in 1 .. Len(s) + 1 : long[i] = long[j] => i = j
  BY <1>1 DEF IsInjective
<1>5. ASSUME IsInjective(long) PROVE IsInjective(s) /\ e \notin ToSet(s)
  <2>1. \A k \in 1 .. Len(s) : k \in 1 .. Len(s) + 1 /\ k # Len(s) + 1
    BY <1>1
  <2>2. Len(s) + 1 \in 1 .. Len(s) + 1
    BY <1>1
  <2> QED
    BY <1>1, <1>2, <1>3, <1>4, <1>5, <2>1, <2>2
<1>6. ASSUME IsInjective(s), e \notin ToSet(s) PROVE IsInjective(long)
  <2>1. \A k \in 1 .. Len(s) + 1 : k \in 1 .. Len(s) \/ k = Len(s) + 1
    BY <1>1
  <2> QED
    BY <1>1, <1>2, <1>3, <1>4, <1>6, <2>1
<1> QED
  BY <1>5, <1>6 DEF long

(***************************************************************************)
(* Two lists without repeats and without a common element have none, one   *)
(* after the other.                                                        *)
(***************************************************************************)
LEMMA DistinctConcatenation ==
  ASSUME NEW S, NEW s \in Seq(S), NEW t \in Seq(S), IsInjective(s), IsInjective(t),
         ToSet(s) \cap ToSet(t) = {}
  PROVE  IsInjective(s \o t)
<1> DEFINE both == s \o t
<1>1. /\ Len(s) \in Nat /\ Len(t) \in Nat /\ DOMAIN s = 1 .. Len(s) /\ DOMAIN t = 1 .. Len(t)
      /\ DOMAIN both = 1 .. Len(s) + Len(t)
      /\ \A k \in 1 .. Len(s) + Len(t) :
           both[k] = IF k <= Len(s) THEN s[k] ELSE t[k - Len(s)]
  OBVIOUS
<1> HIDE DEF both
<1>2. SUFFICES ASSUME NEW i \in DOMAIN both, NEW j \in DOMAIN both, both[i] = both[j]
               PROVE  i = j
  BY DEF IsInjective, both
<1>3. ASSUME NEW k \in DOMAIN both
      PROVE  \/ k <= Len(s) /\ k \in DOMAIN s /\ both[k] = s[k] /\ both[k] \in ToSet(s)
             \/ /\ ~(k <= Len(s)) /\ k - Len(s) \in DOMAIN t /\ both[k] = t[k - Len(s)]
                /\ both[k] \in ToSet(t)
  <2>1. k \in Int /\ k >= 1 /\ k <= Len(s) + Len(t)
    BY <1>1
  <2>2. CASE k <= Len(s)
    <3>1. k \in DOMAIN s /\ both[k] = s[k]
      BY <1>1, <2>1, <2>2
    <3> QED
      BY <2>2, <3>1 DEF ToSet
  <2>3. CASE ~(k <= Len(s))
    <3>1. k - Len(s) \in DOMAIN t /\ both[k] = t[k - Len(s)]
      BY <1>1, <2>1, <2>3
    <3> QED
      BY <2>3, <3>1 DEF ToSet
  <2> QED
    BY <2>2, <2>3
<1>4. CASE i <= Len(s) /\ j <= Len(s)
  BY <1>2, <1>3, <1>4 DEF IsInjective
<1>5. CASE ~(i <= Len(s)) /\ ~(j <= Len(s))
  <2>1. i - Len(s) = j - Len(s)
    BY <1>2, <1>3, <1>5 DEF IsInjective
  <2> QED
    BY <1>1, <2>1
<1> QED
  BY <1>2, <1>3, <1>4, <1>5

(***************************************************************************)
(* A fold that keeps the elements that are in a set: what it keeps, and    *)
(* that it brings no repeats in.                                           *)
(***************************************************************************)
LEMMA FilterKeeps ==
  ASSUME NEW set, NEW q, NEW S, NEW list \in Seq(S),
         \A kept, e : Op(set, q, kept, e) = IF e \in set THEN Append(kept, e) ELSE kept
  PROVE  /\ Fold(set, q, <<>>, list) \in Seq(S)
         /\ ToSet(Fold(set, q, <<>>, list)) = ToSet(list) \cap set
         /\ IsInjective(list) => IsInjective(Fold(set, q, <<>>, list))
<1> DEFINE Kept(s) == Fold(set, q, <<>>, s)
           Good == {s \in Seq(S) : /\ Kept(s) \in Seq(S) /\ ToSet(Kept(s)) = ToSet(s) \cap set
                                   /\ IsInjective(s) => IsInjective(Kept(s))}
<1>1. <<>> \in Good
  <2>1. Kept(<<>>) = <<>>
    BY FoldEmpty
  <2>2. ToSet(<<>>) = {} /\ <<>> \in Seq(S)
    BY DEF ToSet
  <2> HIDE DEF Kept
  <2> QED
    BY <2>1, <2>2
<1>2. ASSUME NEW s \in Seq(S), NEW e \in S, s \in Good
      PROVE  Append(s, e) \in Good
  <2>1. Kept(Append(s, e)) = IF e \in set THEN Append(Kept(s), e) ELSE Kept(s)
    BY FoldAppend
  <2> HIDE DEF Kept
  <2>2. /\ Append(s, e) \in Seq(S) /\ ToSet(Append(s, e)) = ToSet(s) \cup {e}
        /\ IsInjective(Append(s, e)) <=> IsInjective(s) /\ e \notin ToSet(s)
    BY SetOfAppend, DistinctAppend
  <2>3. /\ Kept(s) \in Seq(S) /\ ToSet(Kept(s)) = ToSet(s) \cap set
        /\ IsInjective(s) => IsInjective(Kept(s))
    BY <1>2
  <2>4. CASE e \in set
    <3>1. /\ ToSet(Append(Kept(s), e)) = ToSet(Kept(s)) \cup {e} /\ Append(Kept(s), e) \in Seq(S)
          /\ IsInjective(Append(Kept(s), e)) <=> IsInjective(Kept(s)) /\ e \notin ToSet(Kept(s))
      BY <2>3, SetOfAppend, DistinctAppend
    <3>2. /\ Kept(Append(s, e)) \in Seq(S)
          /\ ToSet(Kept(Append(s, e))) = ToSet(Append(s, e)) \cap set
      BY <2>1, <2>2, <2>3, <2>4, <3>1
    <3>3. IsInjective(Append(s, e)) => IsInjective(Kept(Append(s, e)))
      BY <2>1, <2>2, <2>3, <2>4, <3>1
    <3> QED
      BY <2>2, <3>2, <3>3
  <2>5. CASE e \notin set
    BY <2>1, <2>2, <2>3, <2>5
  <2> QED
    BY <2>4, <2>5
<1>3. Seq(S) \subseteq Good
  <2> HIDE DEF Good
  <2> QED
    BY <1>1, <1>2, SequenceInduction
<1>4. list \in Good
  <2> HIDE DEF Good
  <2> QED
    BY <1>3
<1> HIDE DEF Kept
<1>5. /\ Kept(list) \in Seq(S) /\ ToSet(Kept(list)) = ToSet(list) \cap set
      /\ IsInjective(list) => IsInjective(Kept(list))
  BY <1>4
<1> QED
  BY <1>5 DEF Kept

(***************************************************************************)
(* A fold that puts lists one after the other: its elements are theirs,    *)
(* and none comes twice if none is in two of them or twice in one.         *)
(***************************************************************************)
LEMMA JoinedParts ==
  ASSUME NEW p, NEW q, NEW S, NEW lists \in Seq(Seq(S)),
         \A all, list : Op(p, q, all, list) = all \o list
  PROVE  /\ Fold(p, q, <<>>, lists) \in Seq(S)
         /\ ToSet(Fold(p, q, <<>>, lists)) = UNION {ToSet(lists[i]) : i \in DOMAIN lists}
         /\ /\ \A i \in DOMAIN lists : IsInjective(lists[i])
            /\ \A i, j \in DOMAIN lists : i # j => ToSet(lists[i]) \cap ToSet(lists[j]) = {}
            => IsInjective(Fold(p, q, <<>>, lists))
<1> DEFINE Whole(s) == Fold(p, q, <<>>, s)
           Apart(s) == /\ \A i \in DOMAIN s : IsInjective(s[i])
                       /\ \A i, j \in DOMAIN s : i # j => ToSet(s[i]) \cap ToSet(s[j]) = {}
           Parts(s) == UNION {ToSet(s[i]) : i \in DOMAIN s}
           Good == {s \in Seq(Seq(S)) : /\ Whole(s) \in Seq(S) /\ ToSet(Whole(s)) = Parts(s)
                                        /\ Apart(s) => IsInjective(Whole(s))}
<1>1. <<>> \in Good
  <2>1. Whole(<<>>) = <<>>
    BY FoldEmpty
  <2>2. ToSet(<<>>) = {} /\ <<>> \in Seq(S) /\ <<>> \in Seq(Seq(S)) /\ IsInjective(<<>>)
        /\ Parts(<<>>) = {}
    BY DEF ToSet, IsInjective
  <2> HIDE DEF Whole, Parts, Apart
  <2> QED
    BY <2>1, <2>2
<1>2. ASSUME NEW s \in Seq(Seq(S)), NEW e \in Seq(S), s \in Good
      PROVE  Append(s, e) \in Good
  <2> DEFINE long == Append(s, e)
  <2>1. Whole(long) = Whole(s) \o e
    BY FoldAppend
  <2>2. /\ long \in Seq(Seq(S)) /\ DOMAIN long = DOMAIN s \cup {Len(s) + 1}
        /\ long[Len(s) + 1] = e /\ \A k \in DOMAIN s : long[k] = s[k] /\ k # Len(s) + 1
    <3>1. /\ long \in Seq(Seq(S)) /\ Len(long) = Len(s) + 1 /\ Len(s) \in Nat
          /\ DOMAIN long = 1 .. Len(s) + 1 /\ DOMAIN s = 1 .. Len(s)
      OBVIOUS
    <3>2. long[Len(s) + 1] = e /\ \A k \in DOMAIN s : long[k] = s[k]
      OBVIOUS
    <3> HIDE DEF long
    <3> QED
      BY <3>1, <3>2
  <2> HIDE DEF long
  <2>3. Parts(long) = Parts(s) \cup ToSet(e)
    BY <2>2
  <2>4. Apart(long) => Apart(s) /\ IsInjective(e) /\ Parts(s) \cap ToSet(e) = {}
    <3>1. ASSUME Apart(long) PROVE Apart(s) /\ IsInjective(e)
      BY <2>2, <3>1
    <3>2. ASSUME Apart(long), NEW k \in DOMAIN s PROVE ToSet(s[k]) \cap ToSet(e) = {}
      BY <2>2, <3>2
    <3> QED
      BY <3>1, <3>2
  <2> HIDE DEF Parts, Apart, Whole
  <2>5. Whole(s) \in Seq(S) /\ ToSet(Whole(s)) = Parts(s) /\ (Apart(s) => IsInjective(Whole(s)))
    BY <1>2
  <2>6. Whole(long) \in Seq(S) /\ ToSet(Whole(long)) = Parts(long)
    BY <2>1, <2>3, <2>5, SetOfConcatenation
  <2>7. Apart(long) => IsInjective(Whole(long))
    BY <2>1, <2>4, <2>5, DistinctConcatenation
  <2> QED
    BY <2>2, <2>6, <2>7 DEF long
<1>3. Seq(Seq(S)) \subseteq Good
  <2> HIDE DEF Good
  <2> QED
    BY <1>1, <1>2, SequenceInduction
<1>4. lists \in Good
  <2> HIDE DEF Good
  <2> QED
    BY <1>3
<1> HIDE DEF Whole, Apart, Parts
<1>5. /\ Whole(lists) \in Seq(S) /\ ToSet(Whole(lists)) = Parts(lists)
      /\ Apart(lists) => IsInjective(Whole(lists))
  BY <1>4
<1> QED
  BY <1>5 DEF Whole, Apart, Parts
=============================================================================
