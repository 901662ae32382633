-------------------------- MODULE RuleOrderProofs ---------------------------
(***************************************************************************)
(* The order of the rules matters to nothing but the rounding of sums, and *)
(* a further rule only adds: proved for every rule file and every set of   *)
(* requests.                                                               *)
(*                                                                         *)
(* What the engine makes of a request is taken apart into five parts: the  *)
(* overrides, the percentages, the fixed costs, the number of ticket       *)
(* drafts and their reasons.  Each is a sum or a union of what the rules   *)
(* of the file contribute one by one, and those of neighbours commute.     *)
(***************************************************************************)
EXTENDS RuleOrder, SequencesExt, FiniteSetTheorems, SequenceTheorems, TLAPS

-----------------------------------------------------------------------------
(* Sums and unions over a sequence *)

\* F sums up the weights of the elements of a sequence.
IsSum(F, weight, S) ==
  /\ weight \in [S -> Nat]
  /\ F[<<>>] = 0
  /\ \A s \in Seq(S), e \in S : F[Append(s, e)] = F[s] + weight[e]

\* F collects the parts of the elements of a sequence.
IsUnion(F, part, S) ==
  /\ F[<<>>] = {}
  /\ \A s \in Seq(S), e \in S : F[Append(s, e)] = F[s] \cup part[e]

\* Two neighbours change places.
Swapped(s, i) == [s EXCEPT ![i] = s[i + 1], ![i + 1] = s[i]]

\* Nothing is folded here: the instance is there for its induction.
NoStep(p, q, x, y) == x
Sequence == INSTANCE FoldFacts WITH Op <- NoStep

(***************************************************************************)
(* A sum of natural numbers is one, and the sum over two sequences in a    *)
(* row is that over the first and that over the second.                    *)
(***************************************************************************)
LEMMA SumOfConcat ==
  ASSUME NEW S, NEW F, NEW weight, IsSum(F, weight, S)
  PROVE  /\ \A s \in Seq(S) : F[s] \in Nat
         /\ \A s, t \in Seq(S) : F[s \o t] = F[s] + F[t]
<1>1. Seq(S) \subseteq {s \in Seq(S) : F[s] \in Nat}
  <2> DEFINE T == {s \in Seq(S) : F[s] \in Nat}
  <2>1. <<>> \in T
    BY DEF IsSum
  <2>2. ASSUME NEW s \in Seq(S), NEW e \in S, s \in T
        PROVE  Append(s, e) \in T
    <3>1. F[Append(s, e)] = F[s] + weight[e] /\ weight[e] \in Nat /\ F[s] \in Nat
      BY <2>2 DEF IsSum
    <3> QED
      BY <3>1
  <2> HIDE DEF T
  <2>3. Seq(S) \subseteq T
    BY <2>1, <2>2, Sequence!SequenceInduction
  <2> QED
    BY <2>3 DEF T
<1>2. ASSUME NEW s \in Seq(S)
      PROVE  \A t \in Seq(S) : F[s \o t] = F[s] + F[t]
  <2> DEFINE T == {t \in Seq(S) : F[s \o t] = F[s] + F[t]}
  <2>1. <<>> \in T
    <3>1. s \o <<>> = s /\ F[<<>>] = 0 /\ F[s] \in Nat
      BY <1>1 DEF IsSum
    <3> QED
      BY <3>1
  <2>2. ASSUME NEW t \in Seq(S), NEW e \in S, t \in T
        PROVE  Append(t, e) \in T
    <3>1. s \o Append(t, e) = Append(s \o t, e) /\ s \o t \in Seq(S)
      OBVIOUS
    <3>2. /\ F[Append(s \o t, e)] = F[s \o t] + weight[e]
          /\ F[Append(t, e)] = F[t] + weight[e]
      BY <3>1 DEF IsSum
    <3>3. F[s] \in Nat /\ F[t] \in Nat /\ weight[e] \in Nat /\ F[s \o t] = F[s] + F[t]
      BY <1>1, <2>2 DEF IsSum
    <3>4. F[s \o Append(t, e)] = F[s] + F[Append(t, e)]
      BY <3>1, <3>2, <3>3
    <3> QED
      BY <3>4
  <2> HIDE DEF T
  <2>3. Seq(S) \subseteq T
    BY <2>1, <2>2, Sequence!SequenceInduction
  <2> QED
    BY <2>3 DEF T
<1> QED
  BY <1>1, <1>2

(***************************************************************************)
(* A sequence two of whose neighbours changed places is one of the same    *)
(* elements.                                                               *)
(***************************************************************************)
LEMMA SwappedSequence ==
  ASSUME NEW S, NEW s \in Seq(S), NEW i \in DOMAIN s, i + 1 \in DOMAIN s
  PROVE  /\ Swapped(s, i) \in Seq(S) /\ Len(Swapped(s, i)) = Len(s)
         /\ Swapped(s, i)[i] = s[i + 1] /\ Swapped(s, i)[i + 1] = s[i]
         /\ \A k \in DOMAIN s \ {i, i + 1} : Swapped(s, i)[k] = s[k]
         /\ Range(Swapped(s, i)) = Range(s)
<1>1. i \in 1 .. Len(s) /\ i + 1 \in 1 .. Len(s) /\ DOMAIN s = 1 .. Len(s)
      /\ Len(s) \in Nat /\ i # i + 1 /\ s[i] \in S /\ s[i + 1] \in S
  OBVIOUS
<1> DEFINE t == Swapped(s, i)
<1>2. t \in Seq(S) /\ Len(t) = Len(s) /\ DOMAIN t = DOMAIN s
  BY <1>1 DEF Swapped
<1>3. /\ t[i] = s[i + 1] /\ t[i + 1] = s[i]
      /\ \A k \in DOMAIN s \ {i, i + 1} : t[k] = s[k]
  BY <1>1 DEF Swapped
<1> HIDE DEF t
<1>4. Range(t) = Range(s)
  <2>1. ASSUME NEW k \in DOMAIN s
        PROVE  /\ \E m \in DOMAIN t : t[m] = s[k]
               /\ \E m \in DOMAIN s : s[m] = t[k]
    <3>1. CASE k = i
      BY <1>1, <1>2, <1>3, <3>1
    <3>2. CASE k = i + 1
      BY <1>1, <1>2, <1>3, <3>2
    <3>3. CASE k # i /\ k # i + 1
      BY <1>1, <1>2, <1>3, <3>3
    <3> QED
      BY <3>1, <3>2, <3>3
  <2>2. ASSUME NEW x
        PROVE  x \in Range(t) <=> x \in Range(s)
    <3>1. /\ x \in Range(t) <=> \E m \in DOMAIN t : x = t[m]
          /\ x \in Range(s) <=> \E m \in DOMAIN s : x = s[m]
      BY DEF Range
    <3> QED
      BY <1>2, <2>1, <3>1
  <2> QED
    BY <2>2
<1> QED
  BY <1>2, <1>3, <1>4 DEF t

(***************************************************************************)
(* A sum does not change when neighbours change places.                    *)
(***************************************************************************)
LEMMA SumOfSwapped ==
  ASSUME NEW S, NEW F, NEW weight, IsSum(F, weight, S)
  PROVE  \A s \in Seq(S) : \A i \in DOMAIN s :
           i + 1 \in DOMAIN s => F[Swapped(s, i)] = F[s]
<1> DEFINE Same(s) == \A i \in DOMAIN s : i + 1 \in DOMAIN s => F[Swapped(s, i)] = F[s]
           T == {s \in Seq(S) : Same(s)}
<1>1. <<>> \in T
  OBVIOUS
<1>2. ASSUME NEW s \in Seq(S), NEW e \in S, s \in T
      PROVE  Append(s, e) \in T
  <2> DEFINE long == Append(s, e)
             n == Len(s)
  <2>1. /\ n \in Nat /\ long \in Seq(S) /\ Len(long) = n + 1 /\ DOMAIN long = 1 .. n + 1
        /\ long[n + 1] = e /\ DOMAIN s = 1 .. n
        /\ \A k \in 1 .. n : long[k] = s[k]
    OBVIOUS
  <2> HIDE DEF n
  <2> SUFFICES ASSUME NEW i \in 1 .. n + 1, i + 1 \in 1 .. n + 1
               PROVE  F[Swapped(long, i)] = F[long]
    BY <2>1
  <2>2. /\ Swapped(long, i) \in Seq(S) /\ Len(Swapped(long, i)) = n + 1
        /\ Swapped(long, i)[i] = long[i + 1] /\ Swapped(long, i)[i + 1] = long[i]
        /\ \A k \in 1 .. n + 1 : k # i /\ k # i + 1 => Swapped(long, i)[k] = long[k]
    <3> HIDE DEF long
    <3> QED
      BY <2>1, SwappedSequence
  <2>3. CASE i + 1 \in 1 .. n
    <3> DEFINE short == Swapped(s, i)
    <3>1. /\ short \in Seq(S) /\ Len(short) = n
          /\ short[i] = s[i + 1] /\ short[i + 1] = s[i]
          /\ \A k \in 1 .. n : k # i /\ k # i + 1 => short[k] = s[k]
      <4>1. i \in DOMAIN s /\ i + 1 \in DOMAIN s
        BY <2>1, <2>3
      <4> QED
        BY <2>1, <4>1, SwappedSequence DEF n
    <3>2. F[short] = F[s]
      BY <1>2, <2>1, <2>3
    <3> HIDE DEF short
    <3> DEFINE made == Append(short, e)
    <3>3. /\ made \in Seq(S) /\ Len(made) = n + 1 /\ made[n + 1] = e
          /\ \A k \in 1 .. n : made[k] = short[k]
      BY <3>1
    <3>4. \A k \in 1 .. n + 1 : Swapped(long, i)[k] = made[k]
      <4> HIDE DEF made, long
      <4>1. ASSUME NEW k \in 1 .. n + 1
            PROVE  Swapped(long, i)[k] = made[k]
        <5>1. CASE k = n + 1
          BY <2>1, <2>2, <2>3, <3>3, <5>1
        <5>2. CASE k \in 1 .. n /\ k = i
          BY <2>1, <2>2, <2>3, <3>1, <3>3, <5>2
        <5>3. CASE k \in 1 .. n /\ k = i + 1
          BY <2>1, <2>2, <2>3, <3>1, <3>3, <5>3
        <5>4. CASE k \in 1 .. n /\ k # i /\ k # i + 1
          BY <2>1, <2>2, <2>3, <3>1, <3>3, <5>4
        <5> QED
          BY <2>1, <5>1, <5>2, <5>3, <5>4
      <4> QED
        BY <4>1
    <3>5. Swapped(long, i) = made
      <4> HIDE DEF made, long
      <4> QED
        BY <2>2, <3>3, <3>4, SeqEqual
    <3>6. F[made] = F[short] + weight[e] /\ F[long] = F[s] + weight[e]
      BY <3>1 DEF IsSum
    <3> QED
      BY <3>2, <3>5, <3>6
  <2>4. CASE i + 1 \notin 1 .. n
    <3>1. i = n /\ n # 0
      BY <2>1, <2>4
    <3>2. s # <<>>
      BY <2>1, <3>1 DEF n
    <3>3. PICK u \in Seq(S), d \in S : s = Append(u, d)
      BY <3>2, SequenceEmptyOrAppend
    <3>4. /\ Len(u) = n - 1 /\ s[n] = d
          /\ \A k \in 1 .. n - 1 : s[k] = u[k]
      BY <3>3 DEF n
    <3> DEFINE made == Append(Append(u, e), d)
    <3>5. /\ made \in Seq(S) /\ Len(made) = n + 1 /\ made[n] = e /\ made[n + 1] = d
          /\ \A k \in 1 .. n - 1 : made[k] = u[k]
      BY <2>1, <3>4
    <3>6. \A k \in 1 .. n + 1 : Swapped(long, i)[k] = made[k]
      <4> HIDE DEF made, long
      <4>1. ASSUME NEW k \in 1 .. n + 1
            PROVE  Swapped(long, i)[k] = made[k]
        <5>1. CASE k = n + 1
          BY <2>1, <2>2, <3>1, <3>4, <3>5, <5>1
        <5>2. CASE k = n
          BY <2>1, <2>2, <3>1, <3>4, <3>5, <5>2
        <5>3. CASE k \in 1 .. n - 1
          BY <2>1, <2>2, <3>1, <3>4, <3>5, <5>3
        <5> QED
          BY <2>1, <5>1, <5>2, <5>3
      <4> QED
        BY <4>1
    <3>7. Swapped(long, i) = made
      <4> HIDE DEF made, long
      <4> QED
        BY <2>2, <3>5, <3>6, SeqEqual
    <3>8. /\ F[made] = F[Append(u, e)] + weight[d] /\ F[Append(u, e)] = F[u] + weight[e]
          /\ F[long] = F[s] + weight[e] /\ F[s] = F[u] + weight[d]
      <4>1. Append(u, e) \in Seq(S)
        OBVIOUS
      <4>2. \A x \in Seq(S), y \in S : F[Append(x, y)] = F[x] + weight[y]
        BY DEF IsSum
      <4>3. F[made] = F[Append(u, e)] + weight[d] /\ F[Append(u, e)] = F[u] + weight[e]
        BY <4>1, <4>2
      <4>4. F[long] = F[s] + weight[e]
        BY <4>2
      <4>5. F[s] = F[u] + weight[d]
        BY <3>3, <4>2
      <4> QED
        BY <4>3, <4>4, <4>5
    <3>9. F[u] \in Nat /\ weight[d] \in Nat /\ weight[e] \in Nat
      BY SumOfConcat DEF IsSum
    <3> QED
      BY <3>7, <3>8, <3>9
  <2> QED
    BY <2>3, <2>4
<1> HIDE DEF T
<1>3. Seq(S) \subseteq T
  BY <1>1, <1>2, Sequence!SequenceInduction
<1> QED
  BY <1>3 DEF T

(***************************************************************************)
(* An element more is one more in the range.                               *)
(***************************************************************************)
LEMMA RangeOfAppend ==
  ASSUME NEW S, NEW s \in Seq(S), NEW e \in S
  PROVE  Range(Append(s, e)) = Range(s) \cup {e}
<1> DEFINE long == Append(s, e)
<1>1. /\ DOMAIN long = DOMAIN s \cup {Len(s) + 1} /\ long[Len(s) + 1] = e
      /\ \A k \in DOMAIN s : long[k] = s[k]
  OBVIOUS
<1> HIDE DEF long
<1>2. ASSUME NEW x
      PROVE  x \in Range(long) <=> x \in Range(s) \cup {e}
  <2>1. /\ x \in Range(long) <=> \E m \in DOMAIN long : x = long[m]
        /\ x \in Range(s) <=> \E m \in DOMAIN s : x = s[m]
    BY DEF Range
  <2> QED
    BY <1>1, <2>1
<1> QED
  BY <1>2 DEF long

(***************************************************************************)
(* A union over a sequence is that of the parts of its elements, whatever  *)
(* their order.                                                            *)
(***************************************************************************)
LEMMA UnionOfParts ==
  ASSUME NEW S, NEW F, NEW part, IsUnion(F, part, S)
  PROVE  \A s \in Seq(S) : F[s] = UNION {part[e] : e \in Range(s)}
<1> DEFINE T == {s \in Seq(S) : F[s] = UNION {part[e] : e \in Range(s)}}
<1>1. <<>> \in T
  BY DEF IsUnion, Range
<1>2. ASSUME NEW s \in Seq(S), NEW e \in S, s \in T
      PROVE  Append(s, e) \in T
  <2>1. Range(Append(s, e)) = Range(s) \cup {e}
    BY RangeOfAppend
  <2>2. F[Append(s, e)] = F[s] \cup part[e]
    BY DEF IsUnion
  <2>3. F[Append(s, e)] = UNION {part[x] : x \in Range(Append(s, e))}
    BY <1>2, <2>1, <2>2
  <2> QED
    BY <2>3
<1> HIDE DEF T
<1>3. Seq(S) \subseteq T
  BY <1>1, <1>2, Sequence!SequenceInduction
<1> QED
  BY <1>3 DEF T

-----------------------------------------------------------------------------
(* What the engine reads off a file, as operators of the file *)

Fits(rule, context) ==
  /\ rule.enabled /\ rule.eventType = context.eventType
  /\ context.fromState \in Range(rule.fromStates)
  /\ Engine!Matches(rule.condition, context)

\* A rule is listed once for each time its fromStates names the state.
Copies(rule, state) ==
  [j \in 1 .. Cardinality({k \in DOMAIN rule.fromStates : rule.fromStates[k] = state})
     |-> rule]

\* The part of the list of matched rules that a rule is responsible for.
Part(rule, context) == IF Fits(rule, context) THEN Copies(rule, context.fromState) ELSE <<>>

ListStep(listing, state, list, i) ==
  IF i \in listing.numbers THEN list \o Copies(listing.rules[i], state) ELSE list

RuleListOf(numbers, rules, state) ==
  FoldLeft(LAMBDA list, i :
             IF i \in numbers THEN list \o Copies(rules[i], state) ELSE list,
           <<>>, [i \in DOMAIN rules |-> i])

FileStep(context, q, list, rule) ==
  IF Fits(rule, context) THEN list \o Copies(rule, context.fromState) ELSE list

ActionStep(p, q, actions, rule) == actions \o rule.actions

TotalStep(type, quantity, sum, action) ==
  IF action.type = type THEN sum + action[quantity] ELSE sum

RunningStep(type, quantity, sum, action) ==
  IF action.type = type THEN Rounded[sum + action[quantity]] ELSE sum

DraftStep(rule, q, drafts, action) ==
  IF action.type = "CREATE_SUPPORT_TICKET"
  THEN Append(drafts, [rule |-> rule.id, reason |-> action.reason])
  ELSE drafts

Listing  == INSTANCE FoldFacts WITH Op <- ListStep
Taking   == INSTANCE FoldFacts WITH Op <- FileStep
Acting   == INSTANCE FoldFacts WITH Op <- ActionStep
Totaling == INSTANCE FoldFacts WITH Op <- TotalStep
Running  == INSTANCE FoldFacts WITH Op <- RunningStep
Drafting == INSTANCE FoldFacts WITH Op <- DraftStep

RuleStep(p, q, drafts, rule) == Drafting!Fold(rule, q, drafts, rule.actions)
Collecting == INSTANCE FoldFacts WITH Op <- RuleStep

\* The rules a context matches, and their actions, sums and drafts.
Taken(rules, context)        == Taking!Fold(context, 0, <<>>, rules)
ActionsOf(list)              == Acting!Fold(0, 0, <<>>, list)
TotalOf(type, quantity, list) == Totaling!Fold(type, quantity, 0, ActionsOf(list))
DraftsOf(list)               == Collecting!Fold(0, 0, <<>>, list)
ReasonsOf(drafts)            == {draft.reason : draft \in Range(drafts)}

FileOK == file \in Seq(RuleChoices)

(***************************************************************************)
(* The rules the engine lists under an index key are taken from the file   *)
(* one by one. (rule_engine.py _build_index, evaluate.)                    *)
(***************************************************************************)
LEMMA MatchedAreTaken ==
  ASSUME FileOK, NEW c
  PROVE  Engine!MatchedRules(c) = Taken(file, c)
<1> DEFINE numbers == Engine!MatchedRuleNumbers(c)
           listing == [numbers |-> numbers, rules |-> file]
           state == c.fromState
           positions == [i \in DOMAIN file |-> i]
           n == Len(file)
<1>1. n \in Nat /\ DOMAIN file = 1 .. n
  BY DEF FileOK
<1>2. DOMAIN positions = 1 .. n /\ \A k \in 1 .. n : positions[k] = k
  BY <1>1
<1>3. \A i \in 1 .. n : i \in numbers <=> Fits(file[i], c)
  BY <1>1 DEF Engine!MatchedRuleNumbers, Engine!IndexedRules, Fits, Range, Engine!Range
<1>4. Engine!MatchedRules(c) = Listing!Fold(listing, state, <<>>, positions)
  <2>1. \A set : Engine!RuleList(set, state) = RuleListOf(set, file, state)
    BY DEF Engine!RuleList, RuleListOf, Copies,
           Engine!FoldLeft, Engine!MapThenFoldSet, Engine!Max,
           Engine!Cardinality, Cardinality, FoldLeft, MapThenFoldSet, Max
  <2>2. \A l : RuleListOf(l.numbers, l.rules, state)
                = Listing!Fold(l, state, <<>>, [i \in DOMAIN l.rules |-> i])
    BY DEF RuleListOf, ListStep, Listing!Fold, FoldLeft, MapThenFoldSet, Max,
           Listing!FoldLeft, Listing!MapThenFoldSet, Listing!Max
  <2>3. listing.numbers = numbers /\ listing.rules = file
    OBVIOUS
  <2> HIDE DEF listing, numbers
  <2>4. Engine!MatchedRules(c) = RuleListOf(listing.numbers, listing.rules, state)
    BY <2>1, <2>3 DEF Engine!MatchedRules, numbers
  <2>5. RuleListOf(listing.numbers, listing.rules, state)
          = Listing!Fold(listing, state, <<>>, positions)
    BY <2>2, <2>3
  <2> QED
    BY <2>4, <2>5
<1> HIDE DEF n, positions
<1>5. PICK f : /\ Listing!Runs(f, listing, state, <<>>, positions, n)
               /\ Listing!Fold(listing, state, <<>>, positions) = f[n]
  BY <1>1, <1>2, Listing!FoldRuns
<1>6. PICK g : Taking!Runs(g, c, 0, <<>>, file, n) /\ Taken(file, c) = g[n]
  BY <1>1, Taking!FoldRuns DEF Taken
<1> DEFINE apart == {k \in 0 .. n : f[k] # g[k]}
<1>7. apart = {}
  <2> SUFFICES ASSUME apart # {}
               PROVE  FALSE
    OBVIOUS
  <2>1. apart \subseteq Nat
    BY <1>1
  <2>2. PICK k \in apart : \A m \in apart : k <= m
    BY <2>1, Sequence!LeastNumber
  <2>3. k # 0
    BY <1>5, <1>6 DEF Listing!Runs, Taking!Runs
  <2>4. k - 1 \in 0 .. n /\ k - 1 \notin apart /\ k \in 1 .. n
    BY <1>1, <2>2, <2>3
  <2>5. f[k] = ListStep(listing, state, f[k - 1], k)
    BY <1>2, <1>5, <2>4 DEF Listing!Runs
  <2>6. g[k] = FileStep(c, 0, g[k - 1], file[k])
    BY <1>6, <2>4 DEF Taking!Runs
  <2>7. f[k] = FileStep(c, 0, f[k - 1], file[k])
    BY <1>3, <2>4, <2>5 DEF ListStep, FileStep
  <2> QED
    BY <2>2, <2>4, <2>6, <2>7
<1> QED
  BY <1>1, <1>4, <1>5, <1>6, <1>7

(***************************************************************************)
(* The totals and the drafts of the engine are those of the rules taken    *)
(* from the file. (rule_engine.py evaluate.)                               *)
(***************************************************************************)
LEMMA EngineFolds ==
  ASSUME FileOK, NEW c
  PROVE  /\ \A type, quantity :
              Engine!Total(c, type, quantity) = TotalOf(type, quantity, Taken(file, c))
         /\ Engine!TicketDrafts(c) = DraftsOf(Taken(file, c))
         /\ Engine!MatchedActions(c) = ActionsOf(Taken(file, c))
<1>1. Engine!MatchedActions(c) = ActionsOf(Engine!MatchedRules(c))
  BY DEF Engine!MatchedActions, ActionsOf, Acting!Fold, ActionStep,
         Engine!FoldLeft, Engine!MapThenFoldSet, Engine!Max,
         Acting!FoldLeft, Acting!MapThenFoldSet, Acting!Max
<1>2. ASSUME NEW type, NEW quantity
      PROVE  Engine!Total(c, type, quantity)
               = Totaling!Fold(type, quantity, 0, Engine!MatchedActions(c))
  BY DEF Engine!Total, Totaling!Fold, TotalStep,
         Engine!FoldLeft, Engine!MapThenFoldSet, Engine!Max,
         Totaling!FoldLeft, Totaling!MapThenFoldSet, Totaling!Max
<1>3. Engine!TicketDrafts(c) = DraftsOf(Engine!MatchedRules(c))
  BY DEF Engine!TicketDrafts, DraftsOf, Collecting!Fold, RuleStep, Drafting!Fold, DraftStep,
         Engine!FoldLeft, Engine!MapThenFoldSet, Engine!Max,
         Drafting!FoldLeft, Drafting!MapThenFoldSet, Drafting!Max,
         Collecting!FoldLeft, Collecting!MapThenFoldSet, Collecting!Max
<1> QED
  BY <1>1, <1>2, <1>3, MatchedAreTaken DEF TotalOf

-----------------------------------------------------------------------------
(* What the rules of a list contribute *)

ActionSet == UNION {Range(rule.actions) : rule \in RuleChoices}

Drafts == [rule : {rule.id : rule \in RuleChoices}, reason : {a.reason : a \in ActionSet}]

\* The sums an amount is made of, by the type of the action and its parameter.
Surcharges == {<<"ADD_TAX", "percentage">>, <<"ADD_FIXED_COST", "amount">>}

DraftsOfRule(rule) == Drafting!Fold(rule, 0, <<>>, rule.actions)

(***************************************************************************)
(* A surcharge is a natural number. (json_rule_repository.py               *)
(* _required_non_negative_number.)                                         *)
(***************************************************************************)
LEMMA SurchargesAreNat ==
  /\ \A rule \in RuleChoices : rule.actions \in Seq(ActionSet)
  /\ \A s \in Surcharges : \A a \in ActionSet : a.type = s[1] => a[s[2]] \in Nat
<1>1. ASSUME NEW rule \in RuleChoices
      PROVE  rule.actions \in Seq(ActionSet)
  <2>1. rule.actions \in Seq(Range(rule.actions)) /\ Range(rule.actions) \subseteq ActionSet
    BY RuleOrderAssumption DEF IsLoadable, ActionSet
  <2> QED
    BY <2>1, SeqMonotonic
<1>2. ASSUME NEW a \in ActionSet
      PROVE  /\ a.type = "ADD_TAX" => a.percentage \in Nat
             /\ a.type = "ADD_FIXED_COST" => a.amount \in Nat
  <2>1. PICK rule \in RuleChoices : a \in Range(rule.actions)
    BY DEF ActionSet
  <2>2. IsLoadable(rule)
    BY RuleOrderAssumption
  <2>3. a.type = "ADD_TAX" => a.percentage \in Nat
    BY <2>1, <2>2 DEF IsLoadable
  <2>4. a.type = "ADD_FIXED_COST" => a.amount \in Nat
    BY <2>1, <2>2 DEF IsLoadable
  <2> QED
    BY <2>3, <2>4
<1> QED
  BY <1>1, <1>2 DEF Surcharges

(***************************************************************************)
(* The total of a surcharge sums it up over the actions. (rule_engine.py   *)
(* evaluate; rule_actions.py.)                                             *)
(***************************************************************************)
LEMMA TotalIsSum ==
  ASSUME NEW s \in Surcharges
  PROVE  IsSum([actions \in Seq(ActionSet) |-> Totaling!Fold(s[1], s[2], 0, actions)],
               [a \in ActionSet |-> IF a.type = s[1] THEN a[s[2]] ELSE 0], ActionSet)
<1> DEFINE F == [actions \in Seq(ActionSet) |-> Totaling!Fold(s[1], s[2], 0, actions)]
           weight == [a \in ActionSet |-> IF a.type = s[1] THEN a[s[2]] ELSE 0]
<1>1. weight \in [ActionSet -> Nat]
  BY SurchargesAreNat
<1>2. F[<<>>] = 0
  <2>1. <<>> \in Seq(ActionSet)
    OBVIOUS
  <2> QED
    BY <2>1, Totaling!FoldEmpty
<1>3. Seq(ActionSet) \subseteq {t \in Seq(ActionSet) : F[t] \in Nat}
  <2> DEFINE T == {t \in Seq(ActionSet) : F[t] \in Nat}
  <2>1. <<>> \in T
    BY <1>2
  <2>2. ASSUME NEW t \in Seq(ActionSet), NEW a \in ActionSet, t \in T
        PROVE  Append(t, a) \in T
    <3>1. F[Append(t, a)] = TotalStep(s[1], s[2], F[t], a) /\ Append(t, a) \in Seq(ActionSet)
      BY Totaling!FoldAppend
    <3>2. a.type = s[1] => a[s[2]] \in Nat
      BY SurchargesAreNat
    <3>3. F[t] \in Nat
      BY <2>2
    <3> HIDE DEF F
    <3>4. F[Append(t, a)] \in Nat
      BY <3>1, <3>2, <3>3 DEF TotalStep
    <3> QED
      BY <3>1, <3>4
  <2> HIDE DEF T
  <2>3. Seq(ActionSet) \subseteq T
    BY <2>1, <2>2, Sequence!SequenceInduction
  <2> QED
    BY <2>3 DEF T
<1>4. ASSUME NEW t \in Seq(ActionSet), NEW a \in ActionSet
      PROVE  F[Append(t, a)] = F[t] + weight[a]
  <2>1. F[Append(t, a)] = TotalStep(s[1], s[2], F[t], a)
    BY Totaling!FoldAppend
  <2>2. F[t] \in Nat /\ weight[a] = IF a.type = s[1] THEN a[s[2]] ELSE 0
    BY <1>3
  <2> HIDE DEF F, weight
  <2> QED
    BY <2>1, <2>2 DEF TotalStep
<1> HIDE DEF F, weight
<1>5. IsSum(F, weight, ActionSet)
  BY <1>1, <1>2, <1>4 DEF IsSum
<1> QED
  BY <1>5 DEF F, weight

(***************************************************************************)
(* The actions of a list of rules are those of its rules in a row.         *)
(* (rule_engine.py evaluate.)                                              *)
(***************************************************************************)
LEMMA ActionsGrow ==
  /\ ActionsOf(<<>>) = <<>>
  /\ \A list \in Seq(RuleChoices), rule \in RuleChoices :
       ActionsOf(Append(list, rule)) = ActionsOf(list) \o rule.actions
  /\ \A list \in Seq(RuleChoices) : ActionsOf(list) \in Seq(ActionSet)
<1>1. ActionsOf(<<>>) = <<>>
  BY Acting!FoldEmpty DEF ActionsOf
<1>2. ASSUME NEW list \in Seq(RuleChoices), NEW rule \in RuleChoices
      PROVE  ActionsOf(Append(list, rule)) = ActionsOf(list) \o rule.actions
  BY Acting!FoldAppend DEF ActionsOf, ActionStep
<1> DEFINE T == {list \in Seq(RuleChoices) : ActionsOf(list) \in Seq(ActionSet)}
<1>3. <<>> \in T
  <2>1. <<>> \in Seq(RuleChoices) /\ <<>> \in Seq(ActionSet)
    OBVIOUS
  <2> QED
    BY <1>1, <2>1
<1>4. ASSUME NEW list \in Seq(RuleChoices), NEW rule \in RuleChoices, list \in T
      PROVE  Append(list, rule) \in T
  <2>1. rule.actions \in Seq(ActionSet) /\ ActionsOf(list) \in Seq(ActionSet)
    BY <1>4, SurchargesAreNat
  <2>2. ActionsOf(list) \o rule.actions \in Seq(ActionSet)
    BY <2>1
  <2>3. Append(list, rule) \in Seq(RuleChoices)
    OBVIOUS
  <2> QED
    BY <1>2, <2>2, <2>3
<1> HIDE DEF T
<1>5. Seq(RuleChoices) \subseteq T
  BY <1>3, <1>4, Sequence!SequenceInduction
<1> QED
  BY <1>1, <1>2, <1>5 DEF T

(***************************************************************************)
(* So a surcharge adds up over the rules. (rule_engine.py evaluate.)       *)
(***************************************************************************)
LEMMA SurchargesAdd ==
  ASSUME NEW s \in Surcharges
  PROVE  IsSum([list \in Seq(RuleChoices) |-> TotalOf(s[1], s[2], list)],
               [rule \in RuleChoices |-> Totaling!Fold(s[1], s[2], 0, rule.actions)],
               RuleChoices)
<1> DEFINE F == [list \in Seq(RuleChoices) |-> TotalOf(s[1], s[2], list)]
           weight == [rule \in RuleChoices |-> Totaling!Fold(s[1], s[2], 0, rule.actions)]
           G == [actions \in Seq(ActionSet) |-> Totaling!Fold(s[1], s[2], 0, actions)]
           w == [a \in ActionSet |-> IF a.type = s[1] THEN a[s[2]] ELSE 0]
<1>1. IsSum(G, w, ActionSet)
  BY TotalIsSum
<1> HIDE DEF w
<1>2. /\ \A t \in Seq(ActionSet) : G[t] \in Nat
      /\ \A t, u \in Seq(ActionSet) : G[t \o u] = G[t] + G[u]
  <2> HIDE DEF G
  <2> QED
    BY <1>1, SumOfConcat
<1>3. /\ \A list \in Seq(RuleChoices) : F[list] = G[ActionsOf(list)]
      /\ \A rule \in RuleChoices : weight[rule] = G[rule.actions]
  BY ActionsGrow, SurchargesAreNat DEF TotalOf
<1>4. G[<<>>] = 0
  <2> HIDE DEF G
  <2> QED
    BY <1>1 DEF IsSum
<1>5. weight \in [RuleChoices -> Nat]
  <2>1. \A rule \in RuleChoices : weight[rule] \in Nat
    <3> HIDE DEF G, weight
    <3> QED
      BY <1>2, <1>3, SurchargesAreNat
  <2> QED
    BY <2>1
<1> HIDE DEF F, G, weight
<1>6. F[<<>>] = 0
  <2>1. <<>> \in Seq(RuleChoices)
    OBVIOUS
  <2> QED
    BY <1>3, <1>4, <2>1, ActionsGrow
<1>7. ASSUME NEW list \in Seq(RuleChoices), NEW rule \in RuleChoices
      PROVE  F[Append(list, rule)] = F[list] + weight[rule]
  <2>1. ActionsOf(list) \in Seq(ActionSet) /\ rule.actions \in Seq(ActionSet)
    BY ActionsGrow, SurchargesAreNat
  <2>2. F[Append(list, rule)] = G[ActionsOf(list) \o rule.actions]
    <3>1. Append(list, rule) \in Seq(RuleChoices)
      OBVIOUS
    <3> QED
      BY <1>3, <3>1, ActionsGrow
  <2> QED
    BY <1>2, <1>3, <2>1, <2>2
<1>8. IsSum(F, weight, RuleChoices)
  BY <1>5, <1>6, <1>7 DEF IsSum
<1> QED
  BY <1>8 DEF F, weight

(***************************************************************************)
(* The drafts a rule adds to those of others: as many, and with the same   *)
(* reasons, as it has by itself. (rule_actions.py CreateSupportTicket.)    *)
(***************************************************************************)
LEMMA DraftsAreAdded ==
  ASSUME NEW rule \in RuleChoices, NEW drafts \in Seq(Drafts)
  PROVE  LET made == Drafting!Fold(rule, 0, drafts, rule.actions)
         IN /\ made \in Seq(Drafts)
            /\ Len(made) = Len(drafts) + Len(DraftsOfRule(rule))
            /\ ReasonsOf(made) = ReasonsOf(drafts) \cup ReasonsOf(DraftsOfRule(rule))
<1> DEFINE With(actions)    == Drafting!Fold(rule, 0, drafts, actions)
           Without(actions) == Drafting!Fold(rule, 0, <<>>, actions)
           Adds(actions) ==
             /\ With(actions) \in Seq(Drafts) /\ Without(actions) \in Seq(Drafts)
             /\ Len(With(actions)) = Len(drafts) + Len(Without(actions))
             /\ ReasonsOf(With(actions)) = ReasonsOf(drafts) \cup ReasonsOf(Without(actions))
           T == {actions \in Seq(ActionSet) : Adds(actions)}
<1>1. <<>> \in T
  <2>1. With(<<>>) = drafts /\ Without(<<>>) = <<>>
    BY Drafting!FoldEmpty
  <2>2. ReasonsOf(<<>>) = {}
    BY DEF ReasonsOf, Range
  <2>3. <<>> \in Seq(ActionSet) /\ <<>> \in Seq(Drafts) /\ Len(<<>>) = 0
        /\ Len(drafts) + 0 = Len(drafts)
    OBVIOUS
  <2> HIDE DEF With, Without
  <2>4. Adds(<<>>)
    BY <2>1, <2>2, <2>3
  <2> QED
    BY <2>3, <2>4
<1>2. ASSUME NEW actions \in Seq(ActionSet), NEW a \in ActionSet, actions \in T
      PROVE  Append(actions, a) \in T
  <2> DEFINE draft == [rule |-> rule.id, reason |-> a.reason]
  <2>1. /\ With(Append(actions, a)) = DraftStep(rule, 0, With(actions), a)
        /\ Without(Append(actions, a)) = DraftStep(rule, 0, Without(actions), a)
    BY Drafting!FoldAppend
  <2>2. draft \in Drafts /\ draft.reason = a.reason
    BY DEF Drafts
  <2>3. Adds(actions)
    BY <1>2
  <2>4. Append(actions, a) \in Seq(ActionSet)
    OBVIOUS
  <2> HIDE DEF With, Without, draft
  <2>5. ASSUME NEW some \in Seq(Drafts)
        PROVE  /\ Append(some, draft) \in Seq(Drafts)
               /\ Len(Append(some, draft)) = Len(some) + 1 /\ Len(some) \in Nat
               /\ ReasonsOf(Append(some, draft)) = ReasonsOf(some) \cup {a.reason}
    <3>1. /\ Append(some, draft) \in Seq(Drafts)
          /\ Len(Append(some, draft)) = Len(some) + 1 /\ Len(some) \in Nat
      BY <2>2
    <3>2. Range(Append(some, draft)) = Range(some) \cup {draft}
      BY <2>2, RangeOfAppend
    <3> QED
      BY <2>2, <3>1, <3>2 DEF ReasonsOf
  <2>6. CASE a.type = "CREATE_SUPPORT_TICKET"
    <3>1. /\ With(Append(actions, a)) = Append(With(actions), draft)
          /\ Without(Append(actions, a)) = Append(Without(actions), draft)
      BY <2>1, <2>6 DEF DraftStep, draft
    <3>2. /\ With(Append(actions, a)) \in Seq(Drafts)
          /\ Without(Append(actions, a)) \in Seq(Drafts)
      BY <2>3, <2>5, <3>1
    <3>3. Len(With(Append(actions, a))) = Len(drafts) + Len(Without(Append(actions, a)))
      BY <2>3, <2>5, <3>1
    <3>4. ReasonsOf(With(Append(actions, a)))
            = ReasonsOf(drafts) \cup ReasonsOf(Without(Append(actions, a)))
      BY <2>3, <2>5, <3>1
    <3>5. Adds(Append(actions, a))
      BY <3>2, <3>3, <3>4
    <3> QED
      BY <2>4, <3>5
  <2>7. CASE a.type # "CREATE_SUPPORT_TICKET"
    <3>1. /\ With(Append(actions, a)) = With(actions)
          /\ Without(Append(actions, a)) = Without(actions)
      BY <2>1, <2>7 DEF DraftStep
    <3> QED
      BY <2>3, <2>4, <3>1
  <2> QED
    BY <2>6, <2>7
<1>3. Seq(ActionSet) \subseteq T
  <2> HIDE DEF T
  <2> QED
    BY <1>1, <1>2, Sequence!SequenceInduction
<1>4. rule.actions \in T
  BY <1>3, SurchargesAreNat
<1> QED
  BY <1>4 DEF DraftsOfRule

(***************************************************************************)
(* So the number of drafts adds up over the rules, and their reasons are   *)
(* those of each rule. (rule_engine.py evaluate.)                          *)
(***************************************************************************)
LEMMA DraftsAdd ==
  /\ \A list \in Seq(RuleChoices) : DraftsOf(list) \in Seq(Drafts)
  /\ IsSum([list \in Seq(RuleChoices) |-> Len(DraftsOf(list))],
           [rule \in RuleChoices |-> Len(DraftsOfRule(rule))], RuleChoices)
  /\ IsUnion([list \in Seq(RuleChoices) |-> ReasonsOf(DraftsOf(list))],
             [rule \in RuleChoices |-> ReasonsOf(DraftsOfRule(rule))], RuleChoices)
<1>1. DraftsOf(<<>>) = <<>>
  BY Collecting!FoldEmpty DEF DraftsOf
<1>2. ASSUME NEW list \in Seq(RuleChoices), NEW rule \in RuleChoices
      PROVE  DraftsOf(Append(list, rule))
               = Drafting!Fold(rule, 0, DraftsOf(list), rule.actions)
  BY Collecting!FoldAppend DEF DraftsOf, RuleStep
<1>3. \A list \in Seq(RuleChoices) : DraftsOf(list) \in Seq(Drafts)
  <2> DEFINE T == {list \in Seq(RuleChoices) : DraftsOf(list) \in Seq(Drafts)}
  <2>1. <<>> \in T
    <3>1. <<>> \in Seq(RuleChoices) /\ <<>> \in Seq(Drafts)
      OBVIOUS
    <3> QED
      BY <1>1, <3>1
  <2>2. ASSUME NEW list \in Seq(RuleChoices), NEW rule \in RuleChoices, list \in T
        PROVE  Append(list, rule) \in T
    <3>1. Append(list, rule) \in Seq(RuleChoices)
      OBVIOUS
    <3> QED
      BY <1>2, <2>2, <3>1, DraftsAreAdded
  <2> HIDE DEF T
  <2>3. Seq(RuleChoices) \subseteq T
    BY <2>1, <2>2, Sequence!SequenceInduction
  <2> QED
    BY <2>3 DEF T
<1> DEFINE F == [list \in Seq(RuleChoices) |-> Len(DraftsOf(list))]
           weight == [rule \in RuleChoices |-> Len(DraftsOfRule(rule))]
           G == [list \in Seq(RuleChoices) |-> ReasonsOf(DraftsOf(list))]
           part == [rule \in RuleChoices |-> ReasonsOf(DraftsOfRule(rule))]
<1>4. <<>> \in Seq(RuleChoices) /\ <<>> \in Seq(Drafts)
  OBVIOUS
<1>5. weight \in [RuleChoices -> Nat]
  <2>1. ASSUME NEW rule \in RuleChoices
        PROVE  DraftsOfRule(rule) \in Seq(Drafts)
    BY <1>4, DraftsAreAdded DEF DraftsOfRule
  <2> QED
    BY <2>1
<1>6. F[<<>>] = 0 /\ G[<<>>] = {}
  BY <1>1, <1>4 DEF ReasonsOf, Range
<1>7. ASSUME NEW list \in Seq(RuleChoices), NEW rule \in RuleChoices
      PROVE  /\ F[Append(list, rule)] = F[list] + weight[rule]
             /\ G[Append(list, rule)] = G[list] \cup part[rule]
  <2>1. Append(list, rule) \in Seq(RuleChoices)
    OBVIOUS
  <2>2. /\ Len(DraftsOf(Append(list, rule)))
             = Len(DraftsOf(list)) + Len(DraftsOfRule(rule))
        /\ ReasonsOf(DraftsOf(Append(list, rule)))
             = ReasonsOf(DraftsOf(list)) \cup ReasonsOf(DraftsOfRule(rule))
    BY <1>2, <1>3, DraftsAreAdded
  <2> QED
    BY <2>1, <2>2
<1> HIDE DEF F, G, weight, part
<1>8. IsSum(F, weight, RuleChoices)
  BY <1>5, <1>6, <1>7 DEF IsSum
<1>9. IsUnion(G, part, RuleChoices)
  BY <1>6, <1>7 DEF IsUnion
<1> QED
  BY <1>3, <1>8, <1>9 DEF F, G, weight, part

-----------------------------------------------------------------------------
(* What the rules of a file contribute to a request *)

(***************************************************************************)
(* The copies of a rule in the index are a list of rules. (rule_engine.py  *)
(* _build_index.)                                                          *)
(***************************************************************************)
LEMMA PartIsList ==
  ASSUME NEW rule \in RuleChoices, NEW c
  PROVE  Part(rule, c) \in Seq(RuleChoices)
<1> DEFINE named == {k \in DOMAIN rule.fromStates : rule.fromStates[k] = c.fromState}
<1>1. rule.fromStates \in Seq(Engine!States)
  BY RuleOrderAssumption DEF IsLoadable
<1>2. DOMAIN rule.fromStates = 1 .. Len(rule.fromStates) /\ Len(rule.fromStates) \in Nat
  BY <1>1
<1>3. IsFiniteSet(named)
  <2>1. IsFiniteSet(1 .. Len(rule.fromStates))
    BY <1>2, FS_Interval
  <2> QED
    BY <1>2, <2>1, FS_Subset
<1>4. Cardinality(named) \in Nat
  BY <1>3, FS_CardinalityType
<1>5. Copies(rule, c.fromState) = [j \in 1 .. Cardinality(named) |-> rule]
  BY DEF Copies
<1> HIDE DEF named
<1>6. Copies(rule, c.fromState) \in Seq(RuleChoices)
  BY <1>4, <1>5
<1> QED
  BY <1>6 DEF Part

(***************************************************************************)
(* The rules taken from a file that is a rule longer. (rule_engine.py      *)
(* _build_index.)                                                          *)
(***************************************************************************)
LEMMA TakenGrows ==
  ASSUME NEW c
  PROVE  /\ Taken(<<>>, c) = <<>>
         /\ \A rules \in Seq(RuleChoices) : Taken(rules, c) \in Seq(RuleChoices)
         /\ \A rules \in Seq(RuleChoices), rule \in RuleChoices :
              Taken(Append(rules, rule), c) = Taken(rules, c) \o Part(rule, c)
<1>1. Taken(<<>>, c) = <<>>
  BY Taking!FoldEmpty DEF Taken
<1>2. ASSUME NEW rules \in Seq(RuleChoices), NEW rule \in RuleChoices,
             Taken(rules, c) \in Seq(RuleChoices)
      PROVE  /\ Taken(Append(rules, rule), c) = Taken(rules, c) \o Part(rule, c)
             /\ Taken(Append(rules, rule), c) \in Seq(RuleChoices)
  <2>1. Taken(Append(rules, rule), c) = FileStep(c, 0, Taken(rules, c), rule)
    BY Taking!FoldAppend DEF Taken
  <2>2. Taken(rules, c) \o <<>> = Taken(rules, c)
    BY <1>2
  <2>3. Taken(Append(rules, rule), c) = Taken(rules, c) \o Part(rule, c)
    BY <2>1, <2>2 DEF FileStep, Part
  <2> QED
    BY <1>2, <2>3, PartIsList, ConcatProperties
<1> DEFINE T == {rules \in Seq(RuleChoices) : Taken(rules, c) \in Seq(RuleChoices)}
<1>3. <<>> \in T
  BY <1>1, EmptySeq
<1>4. ASSUME NEW rules \in Seq(RuleChoices), NEW rule \in RuleChoices, rules \in T
      PROVE  Append(rules, rule) \in T
  <2>1. Append(rules, rule) \in Seq(RuleChoices)
    OBVIOUS
  <2> QED
    BY <1>2, <1>4, <2>1
<1> HIDE DEF T
<1>5. Seq(RuleChoices) \subseteq T
  BY <1>3, <1>4, Sequence!SequenceInduction
<1> QED
  BY <1>1, <1>2, <1>5 DEF T

(***************************************************************************)
(* What is a sum over the matched rules is one over the rules of the file. *)
(* (rule_engine.py evaluate.)                                              *)
(***************************************************************************)
LEMMA SumOverFile ==
  ASSUME NEW F, NEW weight, IsSum(F, weight, RuleChoices), NEW c
  PROVE  IsSum([rules \in Seq(RuleChoices) |-> F[Taken(rules, c)]],
               [rule \in RuleChoices |-> F[Part(rule, c)]], RuleChoices)
<1> DEFINE G == [rules \in Seq(RuleChoices) |-> F[Taken(rules, c)]]
           w == [rule \in RuleChoices |-> F[Part(rule, c)]]
<1>1. w \in [RuleChoices -> Nat]
  BY PartIsList, SumOfConcat
<1>2. G[<<>>] = 0
  <2>1. <<>> \in Seq(RuleChoices)
    OBVIOUS
  <2> QED
    BY <2>1, TakenGrows DEF IsSum
<1>3. ASSUME NEW rules \in Seq(RuleChoices), NEW rule \in RuleChoices
      PROVE  G[Append(rules, rule)] = G[rules] + w[rule]
  <2>1. Append(rules, rule) \in Seq(RuleChoices)
    OBVIOUS
  <2>2. Taken(rules, c) \in Seq(RuleChoices) /\ Part(rule, c) \in Seq(RuleChoices)
    BY TakenGrows, PartIsList
  <2>3. F[Taken(rules, c) \o Part(rule, c)] = F[Taken(rules, c)] + F[Part(rule, c)]
    BY <2>2, SumOfConcat
  <2>4. G[Append(rules, rule)] = F[Taken(rules, c) \o Part(rule, c)]
    BY <2>1, TakenGrows
  <2> QED
    BY <2>3, <2>4
<1> HIDE DEF G, w
<1>4. IsSum(G, w, RuleChoices)
  BY <1>1, <1>2, <1>3 DEF IsSum
<1> QED
  BY <1>4 DEF G, w

(***************************************************************************)
(* What is a union over the matched rules is one over the rules of the     *)
(* file. (rule_engine.py evaluate.)                                        *)
(***************************************************************************)
LEMMA UnionOverFile ==
  ASSUME NEW F, NEW part, IsUnion(F, part, RuleChoices), NEW c
  PROVE  \A rules \in Seq(RuleChoices) :
           F[Taken(rules, c)] = UNION {F[Part(rule, c)] : rule \in Range(rules)}
<1> DEFINE G == [rules \in Seq(RuleChoices) |-> F[Taken(rules, c)]]
           p == [rule \in RuleChoices |-> F[Part(rule, c)]]
<1>1. G[<<>>] = {}
  <2>1. <<>> \in Seq(RuleChoices)
    OBVIOUS
  <2> QED
    BY <2>1, TakenGrows DEF IsUnion
<1>2. ASSUME NEW rules \in Seq(RuleChoices), NEW rule \in RuleChoices
      PROVE  G[Append(rules, rule)] = G[rules] \cup p[rule]
  <2>1. Append(rules, rule) \in Seq(RuleChoices)
    OBVIOUS
  <2>2. Taken(rules, c) \in Seq(RuleChoices) /\ Part(rule, c) \in Seq(RuleChoices)
    BY TakenGrows, PartIsList
  <2>3. Range(Taken(rules, c) \o Part(rule, c)) = Range(Taken(rules, c)) \cup Range(Part(rule, c))
    BY <2>2, RangeConcatenation
  <2>4. Taken(rules, c) \o Part(rule, c) \in Seq(RuleChoices)
    BY <2>2
  <2>5. \A s \in Seq(RuleChoices) : F[s] = UNION {part[e] : e \in Range(s)}
    BY UnionOfParts
  <2>6. F[Taken(rules, c) \o Part(rule, c)] = F[Taken(rules, c)] \cup F[Part(rule, c)]
    <3> DEFINE s == Taken(rules, c)
               t == Part(rule, c)
               both == s \o t
    <3>1. /\ F[s] = UNION {part[e] : e \in Range(s)} /\ F[t] = UNION {part[e] : e \in Range(t)}
          /\ F[both] = UNION {part[e] : e \in Range(both)}
      BY <2>2, <2>4, <2>5
    <3>2. Range(both) = Range(s) \cup Range(t)
      BY <2>3
    <3> HIDE DEF both, s, t
    <3>3. F[both] = F[s] \cup F[t]
      BY <3>1, <3>2
    <3> QED
      BY <3>3 DEF both, s, t
  <2>7. G[Append(rules, rule)] = F[Taken(rules, c) \o Part(rule, c)]
    BY <2>1, TakenGrows
  <2> QED
    BY <2>6, <2>7
<1>3. IsUnion(G, p, RuleChoices)
  <2> HIDE DEF G, p
  <2> QED
    BY <1>1, <1>2 DEF IsUnion
<1>4. \A rules \in Seq(RuleChoices) : G[rules] = UNION {p[rule] : rule \in Range(rules)}
  <2> HIDE DEF G, p
  <2> QED
    BY <1>3, UnionOfParts
<1>5. \A rules \in Seq(RuleChoices) : Range(rules) \subseteq RuleChoices
  BY RangeOfSeq
<1>6. ASSUME NEW rules \in Seq(RuleChoices)
      PROVE  {p[rule] : rule \in Range(rules)} = {F[Part(rule, c)] : rule \in Range(rules)}
  BY <1>5
<1> QED
  BY <1>4, <1>6

-----------------------------------------------------------------------------
(* The five parts of a result *)

OverridesOf(rules, c) ==
  LET matched == {rule \in Range(rules) : Fits(rule, c)}
      actions == UNION {Range(rule.actions) : rule \in matched}
  IN {a.state : a \in {b \in actions : b.type = "SET_FINAL_STATE"}}

SumOf(s, rules, c) == TotalOf(s[1], s[2], Taken(rules, c))
TaxOf(rules, c)    == SumOf(<<"ADD_TAX", "percentage">>, rules, c)
CostOf(rules, c)   == SumOf(<<"ADD_FIXED_COST", "amount">>, rules, c)
CountOf(rules, c)  == Len(DraftsOf(Taken(rules, c)))
CausesOf(rules, c) == ReasonsOf(DraftsOf(Taken(rules, c)))

SameParts(before, after, c) ==
  /\ OverridesOf(after, c) = OverridesOf(before, c)
  /\ TaxOf(after, c) = TaxOf(before, c) /\ CostOf(after, c) = CostOf(before, c)
  /\ CountOf(after, c) = CountOf(before, c) /\ CausesOf(after, c) = CausesOf(before, c)

MoreParts(before, after, c) ==
  /\ OverridesOf(before, c) \subseteq OverridesOf(after, c)
  /\ TaxOf(after, c) >= TaxOf(before, c) /\ CostOf(after, c) >= CostOf(before, c)
  /\ CountOf(after, c) >= CountOf(before, c)

(***************************************************************************)
(* The sums over a file are natural numbers.                               *)
(***************************************************************************)
LEMMA PartTypes ==
  ASSUME NEW rules \in Seq(RuleChoices), NEW c
  PROVE  /\ TaxOf(rules, c) \in Nat /\ CostOf(rules, c) \in Nat
         /\ CountOf(rules, c) \in Nat
<1>1. ASSUME NEW s \in Surcharges
      PROVE  SumOf(s, rules, c) \in Nat
  <2> DEFINE F == [list \in Seq(RuleChoices) |-> TotalOf(s[1], s[2], list)]
  <2>1. \A list \in Seq(RuleChoices) : F[list] \in Nat
    <3>1. IsSum(F, [rule \in RuleChoices |-> Totaling!Fold(s[1], s[2], 0, rule.actions)],
                RuleChoices)
      BY SurchargesAdd
    <3> HIDE DEF F
    <3> QED
      BY <3>1, SumOfConcat
  <2>2. Taken(rules, c) \in Seq(RuleChoices)
    BY TakenGrows
  <2> QED
    BY <2>1, <2>2 DEF SumOf
<1>2. DraftsOf(Taken(rules, c)) \in Seq(Drafts)
  BY TakenGrows, DraftsAdd
<1> QED
  BY <1>1, <1>2 DEF Surcharges, TaxOf, CostOf, CountOf

(***************************************************************************)
(* A sum over a file, as a function of the file: neighbours commute, and   *)
(* a further rule adds to it.                                              *)
(***************************************************************************)
LEMMA FileSumFacts ==
  ASSUME NEW F, NEW weight, IsSum(F, weight, RuleChoices), NEW c,
         NEW rules \in Seq(RuleChoices)
  PROVE  /\ \A i \in DOMAIN rules : i + 1 \in DOMAIN rules =>
              F[Taken(Swapped(rules, i), c)] = F[Taken(rules, c)]
         /\ \A rule \in RuleChoices :
              F[Taken(Append(rules, rule), c)] >= F[Taken(rules, c)]
<1> DEFINE G == [r \in Seq(RuleChoices) |-> F[Taken(r, c)]]
           w == [rule \in RuleChoices |-> F[Part(rule, c)]]
<1>1. IsSum(G, w, RuleChoices)
  BY SumOverFile
<1>2. ASSUME NEW i \in DOMAIN rules, i + 1 \in DOMAIN rules
      PROVE  F[Taken(Swapped(rules, i), c)] = F[Taken(rules, c)]
  <2>1. Swapped(rules, i) \in Seq(RuleChoices)
    BY <1>2, SwappedSequence
  <2>2. G[Swapped(rules, i)] = G[rules]
    <3> HIDE DEF G, w
    <3> QED
      BY <1>1, <1>2, SumOfSwapped
  <2> QED
    BY <2>1, <2>2
<1>3. ASSUME NEW rule \in RuleChoices
      PROVE  F[Taken(Append(rules, rule), c)] >= F[Taken(rules, c)]
  <2>1. Append(rules, rule) \in Seq(RuleChoices)
    OBVIOUS
  <2>2. G[Append(rules, rule)] >= G[rules]
    <3> HIDE DEF G, w
    <3>1. G[Append(rules, rule)] = G[rules] + w[rule] /\ w[rule] \in Nat
      BY <1>1 DEF IsSum
    <3>2. G[rules] \in Nat
      BY <1>1, SumOfConcat
    <3> QED
      BY <3>1, <3>2
  <2> QED
    BY <2>1, <2>2
<1> QED
  BY <1>2, <1>3

(***************************************************************************)
(* Neighbours commute: none of the five parts of a result changes when     *)
(* they change places. (rule_engine.py evaluate.)                          *)
(***************************************************************************)
LEMMA SwapKeepsParts ==
  ASSUME NEW rules \in Seq(RuleChoices), NEW c,
         NEW i \in DOMAIN rules, i + 1 \in DOMAIN rules
  PROVE  SameParts(rules, Swapped(rules, i), c)
<1> DEFINE after == Swapped(rules, i)
<1>1. after \in Seq(RuleChoices) /\ Range(after) = Range(rules)
  BY SwappedSequence
<1>2. OverridesOf(after, c) = OverridesOf(rules, c)
  BY <1>1 DEF OverridesOf
<1>3. Taken(rules, c) \in Seq(RuleChoices) /\ Taken(after, c) \in Seq(RuleChoices)
  BY <1>1, TakenGrows
<1>4. ASSUME NEW s \in Surcharges
      PROVE  SumOf(s, after, c) = SumOf(s, rules, c)
  <2> DEFINE F == [list \in Seq(RuleChoices) |-> TotalOf(s[1], s[2], list)]
  <2>1. F[Taken(after, c)] = F[Taken(rules, c)]
    <3>1. IsSum(F, [rule \in RuleChoices |-> Totaling!Fold(s[1], s[2], 0, rule.actions)],
                RuleChoices)
      BY SurchargesAdd
    <3> HIDE DEF F
    <3> QED
      BY <3>1, FileSumFacts
  <2> QED
    BY <1>3, <2>1 DEF SumOf
<1>5. CountOf(after, c) = CountOf(rules, c)
  <2> DEFINE F == [list \in Seq(RuleChoices) |-> Len(DraftsOf(list))]
  <2>1. F[Taken(after, c)] = F[Taken(rules, c)]
    <3>1. IsSum(F, [rule \in RuleChoices |-> Len(DraftsOfRule(rule))], RuleChoices)
      BY DraftsAdd
    <3> HIDE DEF F
    <3> QED
      BY <3>1, FileSumFacts
  <2> QED
    BY <1>3, <2>1 DEF CountOf
<1>6. CausesOf(after, c) = CausesOf(rules, c)
  <2> DEFINE F == [list \in Seq(RuleChoices) |-> ReasonsOf(DraftsOf(list))]
  <2>1. \A r \in Seq(RuleChoices) :
          F[Taken(r, c)] = UNION {F[Part(rule, c)] : rule \in Range(r)}
    <3>1. IsUnion(F, [rule \in RuleChoices |-> ReasonsOf(DraftsOfRule(rule))], RuleChoices)
      BY DraftsAdd
    <3> HIDE DEF F
    <3> QED
      BY <3>1, UnionOverFile
  <2>2. F[Taken(after, c)] = F[Taken(rules, c)]
    BY <1>1, <2>1
  <2> QED
    BY <1>3, <2>2 DEF CausesOf
<1>7. TaxOf(after, c) = TaxOf(rules, c) /\ CostOf(after, c) = CostOf(rules, c)
  BY <1>4 DEF TaxOf, CostOf, Surcharges
<1> QED
  BY <1>2, <1>5, <1>6, <1>7 DEF SameParts

(***************************************************************************)
(* A further rule adds to each part of a result. (rule_engine.py           *)
(* evaluate.)                                                              *)
(***************************************************************************)
LEMMA RuleAddsToParts ==
  ASSUME NEW rules \in Seq(RuleChoices), NEW c, NEW rule \in RuleChoices
  PROVE  MoreParts(rules, Append(rules, rule), c)
<1> DEFINE after == Append(rules, rule)
<1>1. after \in Seq(RuleChoices) /\ Range(rules) \subseteq Range(after)
  BY RangeOfAppend
<1>2. OverridesOf(rules, c) \subseteq OverridesOf(after, c)
  BY <1>1 DEF OverridesOf
<1>3. Taken(rules, c) \in Seq(RuleChoices) /\ Taken(after, c) \in Seq(RuleChoices)
  BY <1>1, TakenGrows
<1>4. ASSUME NEW s \in Surcharges
      PROVE  SumOf(s, after, c) >= SumOf(s, rules, c)
  <2> DEFINE F == [list \in Seq(RuleChoices) |-> TotalOf(s[1], s[2], list)]
  <2>1. F[Taken(after, c)] >= F[Taken(rules, c)]
    <3>1. IsSum(F, [r \in RuleChoices |-> Totaling!Fold(s[1], s[2], 0, r.actions)],
                RuleChoices)
      BY SurchargesAdd
    <3> HIDE DEF F
    <3> QED
      BY <3>1, FileSumFacts
  <2> QED
    BY <1>3, <2>1 DEF SumOf
<1>5. CountOf(after, c) >= CountOf(rules, c)
  <2> DEFINE F == [list \in Seq(RuleChoices) |-> Len(DraftsOf(list))]
  <2>1. F[Taken(after, c)] >= F[Taken(rules, c)]
    <3>1. IsSum(F, [r \in RuleChoices |-> Len(DraftsOfRule(r))], RuleChoices)
      BY DraftsAdd
    <3> HIDE DEF F
    <3> QED
      BY <3>1, FileSumFacts
  <2> QED
    BY <1>3, <2>1 DEF CountOf
<1>6. TaxOf(after, c) >= TaxOf(rules, c) /\ CostOf(after, c) >= CostOf(rules, c)
  BY <1>4 DEF TaxOf, CostOf, Surcharges
<1> QED
  BY <1>2, <1>5, <1>6 DEF MoreParts

-----------------------------------------------------------------------------
(* A result is made of its parts *)

AmountWith(base, tax, cost) ==
  LET product == base * tax
      sum     == base + product \div 100 + cost
      bounded == Engine!Money \ {Engine!Infinity, Engine!NaN}
  IN CASE base = Engine!NaN \/ (base = Engine!Infinity /\ tax = 0) -> Engine!NaN
       [] base \notin {Engine!Infinity, Engine!NaN} /\ {product, sum} \subseteq bounded -> sum
       [] OTHER -> Engine!Infinity

\* What IsExact says, in terms of the parts.
ExactWith(base, tax, cost) ==
  {base, tax, base * tax, base + (base * tax) \div 100 + cost} \subseteq 0 .. Precision - 1

ContentsWith(count, causes) ==
  IF count = 0 THEN {}
  ELSE IF count = 1 THEN {[reasons |-> causes, aggregate |-> FALSE]}
       ELSE {[reasons |-> causes, aggregate |-> TRUE]}

\* What the engine and the service make of a request, in terms of the parts.
ResultsAreParts ==
  \A c \in Contexts :
    /\ Engine!FinalStateOverrides(c) = OverridesOf(file, c)
    /\ Engine!FinalAmount(c) = AmountWith(c.order.amount, TaxOf(file, c), CostOf(file, c))
    /\ Engine!TicketContents(c) = ContentsWith(CountOf(file, c), CausesOf(file, c))
    /\ IsExact(c) <=> ExactWith(c.order.amount, TaxOf(file, c), CostOf(file, c))
    /\ IsExact(c) => ChargedAmount(c) = c.order.amount
                        + (c.order.amount * TaxOf(file, c)) \div 100 + CostOf(file, c)

(***************************************************************************)
(* A number floats are exact for is not rounded.                           *)
(***************************************************************************)
LEMMA SmallStaySame ==
  \A n \in Nat : n < Precision => Rounded[n] = n
BY DEF Rounded

(***************************************************************************)
(* A running sum that stays among the numbers floats are exact for is the  *)
(* sum. (rule_engine.py 116-117.)                                          *)
(***************************************************************************)
LEMMA RunningIsExact ==
  ASSUME NEW s \in Surcharges, NEW actions \in Seq(ActionSet),
         Totaling!Fold(s[1], s[2], 0, actions) < Precision
  PROVE  Running!Fold(s[1], s[2], 0, actions) = Totaling!Fold(s[1], s[2], 0, actions)
<1> DEFINE F == [t \in Seq(ActionSet) |-> Totaling!Fold(s[1], s[2], 0, t)]
           G == [t \in Seq(ActionSet) |-> Running!Fold(s[1], s[2], 0, t)]
           weight == [a \in ActionSet |-> IF a.type = s[1] THEN a[s[2]] ELSE 0]
           T == {t \in Seq(ActionSet) : F[t] < Precision => G[t] = F[t]}
<1>1. IsSum(F, weight, ActionSet)
  BY TotalIsSum
<1>2. \A t \in Seq(ActionSet) : F[t] \in Nat
  <2> HIDE DEF F, weight
  <2> QED
    BY <1>1, SumOfConcat
<1>3. <<>> \in T
  <2>1. <<>> \in Seq(ActionSet)
    OBVIOUS
  <2>2. F[<<>>] = 0 /\ G[<<>>] = 0
    BY <2>1, Totaling!FoldEmpty, Running!FoldEmpty
  <2> QED
    BY <2>1, <2>2
<1>4. ASSUME NEW t \in Seq(ActionSet), NEW a \in ActionSet, t \in T
      PROVE  Append(t, a) \in T
  <2>1. Append(t, a) \in Seq(ActionSet)
    OBVIOUS
  <2>2. G[Append(t, a)] = RunningStep(s[1], s[2], G[t], a)
    BY <2>1, Running!FoldAppend
  <2>3. F[Append(t, a)] = TotalStep(s[1], s[2], F[t], a)
    BY <2>1, Totaling!FoldAppend
  <2>4. a.type = s[1] => a[s[2]] \in Nat
    BY SurchargesAreNat
  <2>5. F[t] \in Nat /\ (F[t] < Precision => G[t] = F[t])
    BY <1>2, <1>4
  <2> HIDE DEF F, G, T, weight
  <2>6. ASSUME F[Append(t, a)] < Precision
        PROVE  G[Append(t, a)] = F[Append(t, a)]
    <3>1. CASE a.type = s[1]
      <4>1. F[Append(t, a)] = F[t] + a[s[2]] /\ F[t] + a[s[2]] \in Nat
        BY <2>3, <2>4, <2>5, <3>1 DEF TotalStep
      <4>2. F[t] < Precision
        BY <2>4, <2>5, <2>6, <3>1, <4>1, RuleOrderAssumption
      <4>3. G[Append(t, a)] = Rounded[F[t] + a[s[2]]]
        BY <2>2, <2>5, <3>1, <4>2 DEF RunningStep
      <4>4. Rounded[F[t] + a[s[2]]] = F[t] + a[s[2]]
        BY <2>6, <4>1, SmallStaySame
      <4> QED
        BY <4>1, <4>3, <4>4
    <3>2. CASE a.type # s[1]
      BY <2>2, <2>3, <2>5, <2>6, <3>2 DEF RunningStep, TotalStep
    <3> QED
      BY <3>1, <3>2
  <2> QED
    BY <2>1, <2>6 DEF T
<1>5. actions \in T
  <2> HIDE DEF T
  <2> QED
    BY <1>3, <1>4, Sequence!SequenceInduction
<1> QED
  BY <1>5

(***************************************************************************)
(* Where nothing the amount is computed from may be rounded, the amount is *)
(* the exact one. (rule_engine.py 116-117, order_service.py 134-135.)      *)
(***************************************************************************)
LEMMA ExactAmounts ==
  ASSUME FileOK, NEW c \in Contexts, IsExact(c)
  PROVE  ChargedAmount(c) = c.order.amount
           + (c.order.amount * Engine!TotalTaxPercentage(c)) \div 100
           + Engine!TotalFixedCost(c)
<1> DEFINE base == c.order.amount
           tax  == Engine!TotalTaxPercentage(c)
           cost == Engine!TotalFixedCost(c)
           acts == Engine!MatchedActions(c)
<1>1. ASSUME NEW type, NEW quantity
      PROVE  /\ RunningTotal(c, type, quantity) = Running!Fold(type, quantity, 0, acts)
             /\ Engine!Total(c, type, quantity) = Totaling!Fold(type, quantity, 0, acts)
  <2>1. RunningTotal(c, type, quantity) = Running!Fold(type, quantity, 0, acts)
    BY DEF RunningTotal, Running!Fold, RunningStep, FoldLeft, MapThenFoldSet, Max,
           Running!FoldLeft, Running!MapThenFoldSet, Running!Max
  <2>2. Engine!Total(c, type, quantity) = Totaling!Fold(type, quantity, 0, acts)
    BY EngineFolds DEF TotalOf
  <2> QED
    BY <2>1, <2>2
<1>2. acts \in Seq(ActionSet)
  BY EngineFolds, ActionsGrow, TakenGrows DEF FileOK
<1>3. tax \in Nat /\ cost \in Nat
  BY EngineFolds, PartTypes
     DEF FileOK, Engine!TotalTaxPercentage, Engine!TotalFixedCost, TaxOf, CostOf, SumOf
<1> DEFINE product == base * tax
           sum     == base + product \div 100 + cost
<1>4. /\ base \in Nat /\ Precision \in Nat /\ MaxAmount \in Nat /\ Precision <= MaxAmount
      /\ base < Precision /\ tax < Precision /\ product < Precision /\ sum < Precision
  BY RuleOrderAssumption DEF IsExact
<1>5. product \in Nat /\ product \div 100 \in Nat
  <2>1. product \in Nat
    BY <1>3, <1>4
  <2> HIDE DEF product
  <2> QED
    BY <2>1
<1> HIDE DEF product
<1>6. /\ sum \in Nat /\ base + product \div 100 \in Nat
      /\ base + product \div 100 < Precision /\ cost < Precision
  BY <1>3, <1>4, <1>5
<1>7. /\ RunningTotal(c, "ADD_TAX", "percentage") = tax
      /\ RunningTotal(c, "ADD_FIXED_COST", "amount") = cost
  <2>1. /\ tax = Totaling!Fold("ADD_TAX", "percentage", 0, acts)
        /\ cost = Totaling!Fold("ADD_FIXED_COST", "amount", 0, acts)
    BY <1>1 DEF Engine!TotalTaxPercentage, Engine!TotalFixedCost
  <2> HIDE DEF tax, cost, acts
  <2>2. \A s \in Surcharges :
          Totaling!Fold(s[1], s[2], 0, acts) < Precision =>
            Running!Fold(s[1], s[2], 0, acts) = Totaling!Fold(s[1], s[2], 0, acts)
    BY <1>2, RunningIsExact
  <2>3. /\ Running!Fold("ADD_TAX", "percentage", 0, acts) = tax
        /\ Running!Fold("ADD_FIXED_COST", "amount", 0, acts) = cost
    BY <1>4, <1>6, <2>1, <2>2 DEF Surcharges
  <2> QED
    BY <1>1, <2>3 DEF acts
<1>8. /\ Rounded[product] = product
      /\ Rounded[base + product \div 100] = base + product \div 100
      /\ Rounded[base + product \div 100 + cost] = sum
  BY <1>4, <1>5, <1>6, SmallStaySame
<1>9. base # Engine!NaN /\ base # Engine!Infinity
  BY <1>4 DEF Engine!NaN, Engine!Infinity
<1> HIDE DEF base, tax, cost
<1>10. ChargedAmount(c) = sum
  <2>1. product <= MaxAmount /\ sum <= MaxAmount /\ base <= MaxAmount
    BY <1>4, <1>5, <1>6
  <2> QED
    BY <1>7, <1>8, <1>9, <2>1 DEF ChargedAmount, base, product
<1> QED
  BY <1>10 DEF base, tax, cost, product

(***************************************************************************)
(* Every result is put together from the five parts, and from nothing else *)
(* of the file. (rule_engine.py evaluate; order_service.py                 *)
(* _calculate_final_amount, _create_support_tickets.)                      *)
(***************************************************************************)
LEMMA ResultsFromParts ==
  ASSUME FileOK
  PROVE  ResultsAreParts
<1> SUFFICES ASSUME NEW c \in Contexts
             PROVE  /\ Engine!FinalStateOverrides(c) = OverridesOf(file, c)
                    /\ Engine!FinalAmount(c)
                         = AmountWith(c.order.amount, TaxOf(file, c), CostOf(file, c))
                    /\ Engine!TicketContents(c)
                         = ContentsWith(CountOf(file, c), CausesOf(file, c))
                    /\ IsExact(c) <=>
                         ExactWith(c.order.amount, TaxOf(file, c), CostOf(file, c))
                    /\ IsExact(c) => ChargedAmount(c) = c.order.amount
                         + (c.order.amount * TaxOf(file, c)) \div 100 + CostOf(file, c)
  BY DEF ResultsAreParts
<1>1. Engine!FinalStateOverrides(c) = OverridesOf(file, c)
  <2>1. ASSUME NEW a
        PROVE  (\E i \in Engine!MatchedRuleNumbers(c) : a \in Range(file[i].actions)) <=>
                 \E rule \in Range(file) : Fits(rule, c) /\ a \in Range(rule.actions)
    <3>1. \A rule : rule \in Range(file) <=> \E i \in DOMAIN file : rule = file[i]
      BY DEF Range
    <3>2. \A i : i \in Engine!MatchedRuleNumbers(c) <=> i \in DOMAIN file /\ Fits(file[i], c)
      BY DEF Engine!MatchedRuleNumbers, Engine!IndexedRules, Fits, Range, Engine!Range
    <3> QED
      BY <3>1, <3>2
  <2>2. \A f : Engine!Range(f) = Range(f)
    BY DEF Engine!Range, Range
  <2>3. UNION {Engine!Range(file[i].actions) : i \in Engine!MatchedRuleNumbers(c)}
          = UNION {Range(rule.actions) : rule \in {r \in Range(file) : Fits(r, c)}}
    BY <2>1, <2>2
  <2> QED
    BY <2>3 DEF Engine!FinalStateOverrides, OverridesOf
<1>2. /\ Engine!TotalTaxPercentage(c) = TaxOf(file, c)
      /\ Engine!TotalFixedCost(c) = CostOf(file, c)
  BY EngineFolds DEF Engine!TotalTaxPercentage, Engine!TotalFixedCost, TaxOf, CostOf, SumOf
<1>3. Engine!FinalAmount(c) = AmountWith(c.order.amount, TaxOf(file, c), CostOf(file, c))
  BY <1>2 DEF Engine!FinalAmount, AmountWith
<1>4. Engine!TicketContents(c) = ContentsWith(CountOf(file, c), CausesOf(file, c))
  <2> DEFINE drafts == DraftsOf(Taken(file, c))
  <2>1. Engine!TicketDrafts(c) = drafts
    BY EngineFolds
  <2>2. drafts \in Seq(Drafts)
    BY TakenGrows, DraftsAdd DEF FileOK
  <2>3. /\ CountOf(file, c) = Len(drafts)
        /\ CausesOf(file, c) = {d.reason : d \in Range(drafts)}
    BY DEF CountOf, CausesOf, ReasonsOf
  <2> HIDE DEF drafts
  <2>4. CASE drafts = <<>>
    <3>1. Len(drafts) = 0
      BY <2>4
    <3> QED
      BY <2>1, <2>3, <2>4, <3>1 DEF Engine!TicketContents, ContentsWith
  <2>5. CASE drafts # <<>> /\ Len(drafts) = 1
    <3>1. Range(drafts) = {drafts[1]}
      BY <2>2, <2>5 DEF Range
    <3>2. CausesOf(file, c) = {drafts[1].reason}
      BY <2>3, <3>1
    <3>3. Engine!TicketContents(c) = {[reasons |-> {drafts[1].reason}, aggregate |-> FALSE]}
      BY <2>1, <2>5 DEF Engine!TicketContents
    <3>4. ContentsWith(CountOf(file, c), CausesOf(file, c))
            = {[reasons |-> CausesOf(file, c), aggregate |-> FALSE]}
      BY <2>3, <2>5 DEF ContentsWith
    <3> QED
      BY <3>2, <3>3, <3>4
  <2>6. CASE drafts # <<>> /\ Len(drafts) # 1
    <3>1. Len(drafts) # 0
      BY <2>2, <2>6
    <3>2. Engine!Range(drafts) = Range(drafts)
      BY DEF Engine!Range, Range
    <3> QED
      BY <2>1, <2>3, <2>6, <3>1, <3>2 DEF Engine!TicketContents, ContentsWith
  <2> QED
    BY <2>4, <2>5, <2>6
<1>5. IsExact(c) <=> ExactWith(c.order.amount, TaxOf(file, c), CostOf(file, c))
  BY <1>2 DEF IsExact, ExactWith
<1>6. IsExact(c) => ChargedAmount(c) = c.order.amount
        + (c.order.amount * TaxOf(file, c)) \div 100 + CostOf(file, c)
  BY <1>2, ExactAmounts
<1> QED
  BY <1>1, <1>3, <1>4, <1>5, <1>6

(***************************************************************************)
(* An override that a file asks for is a state. (json_rule_repository.py   *)
(* _parse_action.)                                                         *)
(***************************************************************************)
LEMMA OverridesLoaded ==
  ASSUME NEW rules \in Seq(RuleChoices), NEW c
  PROVE  OverridesOf(rules, c) \subseteq Engine!States
<1>1. Range(rules) \subseteq RuleChoices
  BY RangeOfSeq
<1>2. ASSUME NEW rule \in RuleChoices, NEW a \in Range(rule.actions), a.type = "SET_FINAL_STATE"
      PROVE  a.state \in Engine!States
  BY <1>2, RuleOrderAssumption DEF IsLoadable
<1> QED
  BY <1>1, <1>2 DEF OverridesOf

(***************************************************************************)
(* The states of the lifecycle are finitely many. (models.py OrderState.)  *)
(***************************************************************************)
LEMMA StatesFinite == IsFiniteSet(Engine!States)
<1>1. ASSUME NEW a, NEW b, NEW c, NEW d
      PROVE  IsFiniteSet({a, b, c, d})
  <2>1. /\ IsFiniteSet({a}) /\ IsFiniteSet({b}) /\ IsFiniteSet({c}) /\ IsFiniteSet({d})
    BY FS_Singleton
  <2>2. IsFiniteSet({a} \cup {b}) /\ IsFiniteSet({c} \cup {d})
    BY <2>1, FS_Union
  <2>3. IsFiniteSet(({a} \cup {b}) \cup ({c} \cup {d}))
    BY <2>2, FS_Union
  <2>4. ({a} \cup {b}) \cup ({c} \cup {d}) = {a, b, c, d}
    OBVIOUS
  <2> QED
    BY <2>3, <2>4
<1> DEFINE forth == {"Pending", "OnHold", "PendingPayment", "Confirmed"}
           back  == {"Processing", "Shipped", "Delivered", "Returning"}
           last  == {"Returned", "Refunded", "Cancelled", "Cancelled"}
<1>2. IsFiniteSet(forth) /\ IsFiniteSet(back) /\ IsFiniteSet(last)
  BY <1>1
<1>3. Engine!States = (forth \cup back) \cup last
  BY DEF Engine!States
<1> HIDE DEF forth, back, last
<1> QED
  BY <1>2, <1>3, FS_Union

(***************************************************************************)
(* More percentages and more costs make no less of a finite amount.        *)
(* (order_service.py _calculate_final_amount.)                             *)
(***************************************************************************)
LEMMA AmountGrows ==
  ASSUME NEW base \in 0 .. MaxAmount + 2, base # Engine!Infinity,
         NEW tax \in Nat, NEW more \in Nat, more >= tax,
         NEW cost \in Nat, NEW dearer \in Nat, dearer >= cost
  PROVE  AmountWith(base, more, dearer) >= AmountWith(base, tax, cost)
<1> DEFINE Product(t) == base * t
           Sum(t, k) == base + Product(t) \div 100 + k
<1>1. MaxAmount \in Nat
  BY RuleOrderAssumption
<1>2. Engine!Infinity = MaxAmount + 1 /\ Engine!NaN = MaxAmount + 2
      /\ Engine!Money \ {Engine!Infinity, Engine!NaN} = 0 .. MaxAmount
  BY <1>1 DEF Engine!Infinity, Engine!NaN, Engine!Money
<1>3. base \in Nat
  BY <1>1
<1>4. \A t \in Nat : base * t \in Nat
  BY <1>3
<1>5. base * more >= base * tax
  <2>1. PICK d \in Nat : more = tax + d
    <3>1. more - tax \in Nat /\ more = tax + (more - tax)
      OBVIOUS
    <3> QED
      BY <3>1
  <2>2. base * (tax + d) = base * tax + base * d
    BY <1>3
  <2>3. base * tax \in Nat /\ base * d \in Nat
    BY <1>4
  <2> QED
    BY <2>1, <2>2, <2>3
<1>6. \A x, y \in Nat : x >= y => x \div 100 >= y \div 100 /\ x \div 100 \in Nat
  OBVIOUS
<1>7. CASE base = Engine!NaN
  BY <1>1, <1>2, <1>7 DEF AmountWith
<1>8. CASE base # Engine!NaN
  <2> DEFINE Is(t, k, made) == made = IF base * t <= MaxAmount /\ Sum(t, k) <= MaxAmount
                                     THEN Sum(t, k) ELSE MaxAmount + 1
  <2>1. ASSUME NEW t \in Nat, NEW k \in Nat
        PROVE  Is(t, k, AmountWith(base, t, k))
    <3>1. base * t \in Nat /\ Sum(t, k) \in Nat
      BY <1>3, <1>4, <1>6
    <3>2. base \notin {Engine!Infinity, Engine!NaN}
      BY <1>8
    <3> DEFINE p == base * t
               s == Sum(t, k)
    <3>3. AmountWith(base, t, k) = IF {p, s} \subseteq 0 .. MaxAmount THEN s ELSE MaxAmount + 1
      BY <1>2, <3>2 DEF AmountWith
    <3>4. p \in Nat /\ s \in Nat
      BY <3>1
    <3> HIDE DEF p, s
    <3>5. {p, s} \subseteq 0 .. MaxAmount <=> p <= MaxAmount /\ s <= MaxAmount
      BY <1>1, <3>4
    <3> QED
      BY <3>3, <3>5 DEF p, s
  <2>2. Sum(more, dearer) >= Sum(tax, cost)
    <3> DEFINE a == base * more
               b == base * tax
    <3>1. a \in Nat /\ b \in Nat /\ a >= b
      BY <1>4, <1>5
    <3> HIDE DEF a, b
    <3>2. a \div 100 >= b \div 100 /\ a \div 100 \in Nat /\ b \div 100 \in Nat
      BY <1>6, <3>1
    <3>3. base + a \div 100 + dearer >= base + b \div 100 + cost
      BY <1>3, <3>2
    <3> QED
      BY <3>3 DEF a, b
  <2> DEFINE low == AmountWith(base, tax, cost)
             high == AmountWith(base, more, dearer)
             p == base * tax
             q == base * more
             s == Sum(tax, cost)
             r == Sum(more, dearer)
  <2>3. /\ low = IF p <= MaxAmount /\ s <= MaxAmount THEN s ELSE MaxAmount + 1
        /\ high = IF q <= MaxAmount /\ r <= MaxAmount THEN r ELSE MaxAmount + 1
    BY <2>1
  <2>4. p \in Nat /\ q \in Nat /\ s \in Nat /\ r \in Nat /\ q >= p /\ r >= s
    BY <1>3, <1>4, <1>5, <1>6, <2>2
  <2> HIDE DEF low, high, p, q, s, r
  <2>5. high >= low
    BY <1>1, <2>3, <2>4
  <2> QED
    BY <2>5 DEF low, high
<1> QED
  BY <1>7, <1>8

-----------------------------------------------------------------------------
(* The theorems *)

(***************************************************************************)
(* A file stays a list of rules, and so what it does stays the sum of what *)
(* its rules do.                                                           *)
(***************************************************************************)
THEOREM FilesAreLists == Spec => [](FileOK /\ ResultsAreParts)
<1>1. Init => FileOK
  BY DEF Init, FileOK
<1>2. FileOK /\ [Next]_file => FileOK'
  <2> SUFFICES ASSUME FileOK, [Next]_file
               PROVE  FileOK'
    OBVIOUS
  <2>1. ASSUME NEW rule \in RuleChoices, AddRule(rule)
        PROVE  FileOK'
    BY <2>1 DEF AddRule, FileOK
  <2>2. ASSUME NEW i \in DOMAIN file, SwapRules(i)
        PROVE  FileOK'
    BY <2>2, SwappedSequence DEF SwapRules, FileOK, Swapped
  <2>3. CASE UNCHANGED file
    BY <2>3 DEF FileOK
  <2> QED
    BY <2>1, <2>2, <2>3 DEF Next
<1>3. FileOK => ResultsAreParts
  BY ResultsFromParts
<1> QED
  BY <1>1, <1>2, <1>3, PTL DEF Spec

(***************************************************************************)
(* Conflicting overrides fail and drafts make one ticket whatever the      *)
(* order of the rules in the file, and it changes the amount only if sums  *)
(* reach numbers that floats round. (rule_engine.py evaluate,              *)
(* _resolve_final_state_override; order_service.py                         *)
(* _calculate_final_amount.)                                               *)
(***************************************************************************)
THEOREM OrderMattersOnlyToRounding == Spec => OrderIsIrrelevant
<1>1. ASSUME FileOK, ResultsAreParts, ResultsAreParts', NEW i \in DOMAIN file, SwapRules(i),
             NEW c \in Contexts
      PROVE  /\ Effects(c)' = Effects(c)
             /\ IsExact(c) => ChargedAmount(c)' = ChargedAmount(c)
  <2>1. SameParts(file, file', c)
    BY <1>1, SwapKeepsParts DEF FileOK, SwapRules, Swapped
  <2>2. Engine!FinalStateOverrides(c)' = Engine!FinalStateOverrides(c)
    BY <1>1, <2>1 DEF ResultsAreParts, SameParts
  <2>3. ASSUME IsExact(c)
        PROVE  ChargedAmount(c)' = ChargedAmount(c)
    <3>1. TaxOf(file', c) = TaxOf(file, c) /\ CostOf(file', c) = CostOf(file, c)
      BY <2>1 DEF SameParts
    <3>2. /\ ChargedAmount(c) = c.order.amount
                + (c.order.amount * TaxOf(file, c)) \div 100 + CostOf(file, c)
          /\ ExactWith(c.order.amount, TaxOf(file, c), CostOf(file, c))
      BY <1>1, <2>3 DEF ResultsAreParts
    <3>3. /\ IsExact(c)' <=> ExactWith(c.order.amount, TaxOf(file', c), CostOf(file', c))
          /\ IsExact(c)' => ChargedAmount(c)' = c.order.amount
                + (c.order.amount * TaxOf(file', c)) \div 100 + CostOf(file', c)
      BY <1>1 DEF ResultsAreParts, ExactWith
    <3> QED
      BY <3>1, <3>2, <3>3
  <2>4. Engine!TicketContents(c)' = Engine!TicketContents(c)
    BY <1>1, <2>1 DEF ResultsAreParts, SameParts
  <2>5. Engine!OverridesConflict(c)' = Engine!OverridesConflict(c)
    BY <2>2 DEF Engine!OverridesConflict
  <2>6. Engine!FinalState(c)' = Engine!FinalState(c)
    BY <2>2 DEF Engine!FinalState
  <2> QED
    BY <2>3, <2>4, <2>5, <2>6 DEF Effects
<1>2. FileOK /\ ResultsAreParts /\ ResultsAreParts' =>
        [(\E i \in DOMAIN file : SwapRules(i)) =>
           \A context \in Contexts :
             /\ Effects(context)' = Effects(context)
             /\ IsExact(context) => ChargedAmount(context)' = ChargedAmount(context)]_file
  BY <1>1
<1> QED
  BY <1>2, FilesAreLists, PTL DEF OrderIsIrrelevant

(***************************************************************************)
(* A further rule settles no conflict, takes back no ticket and lowers no  *)
(* finite amount. (rule_engine.py evaluate; order_service.py apply_event.) *)
(***************************************************************************)
THEOREM RulesNeverTakeBack == Spec => RulesOnlyAdd
<1>1. ASSUME FileOK, ResultsAreParts, FileOK', ResultsAreParts',
             NEW rule \in RuleChoices, AddRule(rule), NEW c \in Contexts
      PROVE  /\ Engine!OverridesConflict(c) => Engine!OverridesConflict(c)'
             /\ Engine!TicketContents(c) # {} => Engine!TicketContents(c)' # {}
             /\ c.order.amount # Engine!Infinity =>
                  Engine!FinalAmount(c)' >= Engine!FinalAmount(c)
  <2>1. MoreParts(file, file', c)
    BY <1>1, RuleAddsToParts DEF FileOK, AddRule
  <2>2. Engine!OverridesConflict(c) => Engine!OverridesConflict(c)'
    <3> DEFINE old == OverridesOf(file, c)
               new == OverridesOf(file', c)
    <3>1. IsFiniteSet(new)
      <4>1. new \subseteq Engine!States
        BY <1>1, OverridesLoaded DEF FileOK
      <4>2. IsFiniteSet(Engine!States)
        BY StatesFinite
      <4> QED
        BY <4>1, <4>2, FS_Subset
    <3>2. old \subseteq new
      BY <2>1 DEF MoreParts
    <3>3. Cardinality(old) \in Nat /\ Cardinality(new) \in Nat
          /\ Cardinality(old) <= Cardinality(new)
      BY <3>1, <3>2, FS_Subset, FS_CardinalityType
    <3>4. /\ Engine!OverridesConflict(c) <=> Cardinality(old) > 1
          /\ Engine!OverridesConflict(c)' <=> Cardinality(new) > 1
      <4>1. \A set : Engine!Cardinality(set) = Cardinality(set)
        BY DEF Engine!Cardinality, Cardinality
      <4>2. Engine!FinalStateOverrides(c) = old /\ Engine!FinalStateOverrides(c)' = new
        BY <1>1 DEF ResultsAreParts
      <4> QED
        BY <4>1, <4>2 DEF Engine!OverridesConflict
    <3> HIDE DEF old, new
    <3> QED
      BY <3>3, <3>4
  <2>3. Engine!TicketContents(c) # {} => Engine!TicketContents(c)' # {}
    <3>1. /\ CountOf(file, c) \in Nat /\ CountOf(file', c) \in Nat
          /\ CountOf(file', c) >= CountOf(file, c)
      BY <1>1, <2>1, PartTypes DEF FileOK, MoreParts
    <3>2. /\ Engine!TicketContents(c) = ContentsWith(CountOf(file, c), CausesOf(file, c))
          /\ Engine!TicketContents(c)' = ContentsWith(CountOf(file', c), CausesOf(file', c))
      BY <1>1 DEF ResultsAreParts
    <3>3. CountOf(file, c) # 0 => CountOf(file', c) # 0
      BY <3>1
    <3>4. \A n, r : ContentsWith(n, r) # {} <=> n # 0
      BY DEF ContentsWith
    <3> QED
      BY <3>2, <3>3, <3>4
  <2>4. ASSUME c.order.amount # Engine!Infinity
        PROVE  Engine!FinalAmount(c)' >= Engine!FinalAmount(c)
    <3> DEFINE base == c.order.amount
    <3>1. base \in 0 .. MaxAmount + 2
      BY RuleOrderAssumption
    <3>2. /\ TaxOf(file, c) \in Nat /\ TaxOf(file', c) \in Nat
          /\ TaxOf(file', c) >= TaxOf(file, c)
          /\ CostOf(file, c) \in Nat /\ CostOf(file', c) \in Nat
          /\ CostOf(file', c) >= CostOf(file, c)
      BY <1>1, <2>1, PartTypes DEF FileOK, MoreParts
    <3>3. AmountWith(base, TaxOf(file', c), CostOf(file', c))
            >= AmountWith(base, TaxOf(file, c), CostOf(file, c))
      BY <2>4, <3>1, <3>2, AmountGrows
    <3>4. /\ Engine!FinalAmount(c) = AmountWith(base, TaxOf(file, c), CostOf(file, c))
          /\ Engine!FinalAmount(c)' = AmountWith(base, TaxOf(file', c), CostOf(file', c))
      BY <1>1 DEF ResultsAreParts
    <3> QED
      BY <3>3, <3>4
  <2> QED
    BY <2>2, <2>3, <2>4
<1>2. ASSUME FileOK, FileOK', [Next]_file, Len(file') > Len(file)
      PROVE  \E rule \in RuleChoices : AddRule(rule)
  <2>1. ASSUME NEW i \in DOMAIN file, SwapRules(i)
        PROVE  FALSE
    <3>1. Len(file') = Len(file)
      BY <1>2, <2>1, SwappedSequence DEF SwapRules, FileOK, Swapped
    <3> QED
      BY <1>2, <3>1 DEF FileOK
  <2>2. CASE UNCHANGED file
    BY <1>2, <2>2 DEF FileOK
  <2> QED
    BY <1>2, <2>1, <2>2 DEF Next
<1>3. FileOK /\ ResultsAreParts /\ FileOK' /\ ResultsAreParts' /\ [Next]_file =>
        [Len(file') > Len(file) =>
           \A context \in Contexts :
             /\ Engine!OverridesConflict(context) => Engine!OverridesConflict(context)'
             /\ Engine!TicketContents(context) # {} => Engine!TicketContents(context)' # {}
             /\ context.order.amount # Engine!Infinity =>
                  Engine!FinalAmount(context)' >= Engine!FinalAmount(context)]_file
  BY <1>1, <1>2
<1>4. Spec => [][Next]_file
  BY DEF Spec
<1> QED
  BY <1>3, <1>4, FilesAreLists, PTL DEF RulesOnlyAdd
=============================================================================
