------------------------ MODULE RuleRepositoryProofs ------------------------
(***************************************************************************)
(* What the checks at startup buy, for every rule file and every request:  *)
(* an accepted rule never fails where it runs, a rule applies for a reason *)
(* the request gives, and the ids it leaves behind name one entry.         *)
(*                                                                         *)
(* A tree is read from its leaves: its nodes refer to nodes further down,  *)
(* so the recursion that decides it has a solution, and what is shown of   *)
(* each node from the last to the first is shown of the root.              *)
(***************************************************************************)
EXTENDS RuleRepository, FiniteSetTheorems, SequenceTheorems, TLAPS

-----------------------------------------------------------------------------
(* What the loader leaves to run *)

IsSoundCondition(node) ==
  /\ IsNode(node)
  /\ node.operator \in ComparisonOperators
  /\ node.operator \in {"GREATER_THAN", "LESS_THAN"} => IsFiniteNumber(node.value)
  /\ node.operator = "IN" => Is("list", node.value)

IsSoundGroup(node, n, length) ==
  /\ ~IsNode(node)
  /\ node.operator \in LogicalOperators
  /\ node.children \in Seq(n + 1 .. length) /\ node.children # <<>>

IsSoundTree(nodes, length) ==
  /\ length \in Nat \ {0} /\ DOMAIN nodes = 1 .. length
  /\ \A n \in 1 .. length :
       IsSoundCondition(nodes[n]) \/ IsSoundGroup(nodes[n], n, length)

IsSoundRule(rule) ==
  /\ \E length \in Nat : IsSoundTree(rule.condition, length)
  /\ \E length \in Nat : DOMAIN rule.from_states = 1 .. length
  /\ HandlersAccept(rule)

\* A leaf of the tree that the request satisfies.
HasEvidence(nodes, context) ==
  \E leaf \in {node \in Range(nodes) : IsNode(node)} :
    /\ leaf.field \in DOMAIN context.values
    /\ ConditionVerdict(leaf, context) = "true"

-----------------------------------------------------------------------------
(* The verdict of a tree *)

\* No step of a fold: the instance is there for what it says of numbers.
NoStep(p, q, x, y) == x

Numbers == INSTANCE FoldFacts WITH Op <- NoStep

(***************************************************************************)
(* What holds after the last position, and before a position it holds      *)
(* after, holds from the start.                                            *)
(***************************************************************************)
LEMMA FromTheLast ==
  ASSUME NEW length \in Nat, NEW T, length \in T,
         \A n \in 1 .. length : n \in T => n - 1 \in T
  PROVE  0 \in T
<1> DEFINE after == {n \in 0 .. length : n \in T}
<1>1. after # {} /\ after \subseteq Nat
  OBVIOUS
<1> HIDE DEF after
<1>2. PICK n \in after : \A m \in after : n <= m
  BY <1>1, Numbers!LeastNumber
<1>3. n = 0
  <2> SUFFICES ASSUME n # 0
               PROVE  FALSE
    OBVIOUS
  <2>1. n \in 1 .. length /\ n \in T /\ n - 1 \in 0 .. length /\ n - 1 < n
    BY DEF after
  <2>2. n - 1 \in after
    BY <2>1 DEF after
  <2> QED
    BY <1>2, <2>1, <2>2
<1> QED
  BY <1>3 DEF after

(***************************************************************************)
(* A condition the loader accepts has a verdict for every request: it      *)
(* never meets values that do not compare.  (RuleEvaluator, _compare.)     *)
(***************************************************************************)
LEMMA ConditionIsDecided ==
  ASSUME NEW node, NEW context, IsSoundCondition(node)
  PROVE  /\ ConditionVerdict(node, context) \in {"true", "false"}
         /\ ConditionVerdict(node, context) = "true" => node.field \in DOMAIN context.values
<1>1. CASE node.field \notin DOMAIN context.values
  BY <1>1 DEF ConditionVerdict
<1>2. CASE node.field \in DOMAIN context.values
  <2> DEFINE actual == context.values[node.field]
  <2>1. CASE node.operator \in {"EQUALS", "NOT_EQUALS", "IN"}
    BY <1>2, <2>1 DEF ConditionVerdict, IsSoundCondition, Verdict
  <2>2. CASE node.operator \in {"GREATER_THAN", "LESS_THAN"}
    <3>1. Orderable(node.value)
      BY <2>2 DEF IsSoundCondition, Orderable, IsFiniteNumber
    <3>2. ConditionVerdict(node, context) = Ordered(actual, node.operator, node.value)
      BY <1>2, <2>2 DEF ConditionVerdict
    <3>3. Ordered(actual, node.operator, node.value) \in {"true", "false"}
      BY <3>1 DEF Ordered, Verdict
    <3> QED
      BY <1>2, <3>2, <3>3
  <2> QED
    BY <2>1, <2>2 DEF IsSoundCondition, ComparisonOperators
<1> QED
  BY <1>1, <1>2

(***************************************************************************)
(* A group has children, and they are further down.                        *)
(***************************************************************************)
LEMMA ChildrenAreBelow ==
  ASSUME NEW node, NEW n, NEW length, IsSoundGroup(node, n, length)
  PROVE  /\ DOMAIN node.children # {} /\ DOMAIN node.children \subseteq Nat
         /\ \A c \in DOMAIN node.children : node.children[c] \in n + 1 .. length
<1> DEFINE below == n + 1 .. length
<1>1. node.children \in Seq(below) /\ node.children # <<>>
  BY DEF IsSoundGroup
<1> HIDE DEF below
<1>2. ASSUME NEW s \in Seq(below), s # <<>>
      PROVE  /\ DOMAIN s # {} /\ DOMAIN s \subseteq Nat
             /\ \A c \in DOMAIN s : s[c] \in below
  <2>1. DOMAIN s = 1 .. Len(s) /\ Len(s) \in Nat
    OBVIOUS
  <2>2. Len(s) # 0
    BY <1>2, EmptySeq
  <2>3. \A c \in 1 .. Len(s) : s[c] \in below
    OBVIOUS
  <2>4. 1 \in 1 .. Len(s)
    BY <2>1, <2>2
  <2> QED
    BY <2>1, <2>3, <2>4
<1> QED
  BY <1>1, <1>2 DEF below

(***************************************************************************)
(* A group ends where no child decides it, or with the verdict of one that *)
(* does.  (all and any in RuleEvaluator.)                                  *)
(***************************************************************************)
LEMMA GroupEnds ==
  ASSUME NEW node, NEW n \in Nat, NEW length \in Nat, IsSoundGroup(node, n, length),
         NEW context, NEW verdict
  PROVE  LET passes == IF node.operator = "AND" THEN "true" ELSE "false"
         IN \/ /\ NodeVerdict(node, context, verdict) = passes
               /\ \A c \in DOMAIN node.children : verdict[node.children[c]] = passes
            \/ \E c \in DOMAIN node.children :
                 /\ verdict[node.children[c]] # passes
                 /\ NodeVerdict(node, context, verdict) = verdict[node.children[c]]
<1> DEFINE passes  == IF node.operator = "AND" THEN "true" ELSE "false"
           decides == {c \in DOMAIN node.children : verdict[node.children[c]] # passes}
<1>1. NodeVerdict(node, context, verdict) =
        IF decides = {} THEN passes ELSE verdict[node.children[Min(decides)]]
  BY DEF NodeVerdict, IsSoundGroup
<1>2. CASE decides = {}
  BY <1>1, <1>2
<1>3. CASE decides # {}
  <2>1. decides \subseteq Nat
    BY ChildrenAreBelow
  <2>2. PICK c \in decides : \A b \in decides : c <= b
    BY <1>3, <2>1, Numbers!LeastNumber
  <2>3. Min(decides) \in decides
    BY <2>2 DEF Min
  <2> QED
    BY <1>1, <1>3, <2>3
<1> QED
  BY <1>2, <1>3

(***************************************************************************)
(* The verdict of a node depends on nodes further down alone.              *)
(***************************************************************************)
LEMMA VerdictsBelow ==
  ASSUME NEW nodes, NEW length, IsSoundTree(nodes, length), NEW n \in 1 .. length,
         NEW context, NEW f, NEW g, \A m \in n + 1 .. length : f[m] = g[m]
  PROVE  NodeVerdict(nodes[n], context, f) = NodeVerdict(nodes[n], context, g)
<1>1. CASE IsSoundCondition(nodes[n])
  BY <1>1 DEF NodeVerdict, IsSoundCondition
<1>2. CASE IsSoundGroup(nodes[n], n, length)
  <2> DEFINE node == nodes[n]
             passes == IF node.operator = "AND" THEN "true" ELSE "false"
             Decides(v) == {c \in DOMAIN node.children : v[node.children[c]] # passes}
  <2>1. \A c \in DOMAIN node.children : node.children[c] \in n + 1 .. length
    BY <1>2, ChildrenAreBelow
  <2>2. \A c \in DOMAIN node.children : f[node.children[c]] = g[node.children[c]]
    BY <2>1
  <2>3. Decides(f) = Decides(g)
    BY <2>2
  <2>4. Decides(f) # {} => Min(Decides(f)) \in DOMAIN node.children
    <3> SUFFICES ASSUME Decides(f) # {}
                 PROVE  Min(Decides(f)) \in DOMAIN node.children
      OBVIOUS
    <3>1. Decides(f) \subseteq Nat
      BY <1>2, ChildrenAreBelow
    <3>2. PICK c \in Decides(f) : \A b \in Decides(f) : c <= b
      BY <3>1, Numbers!LeastNumber
    <3>3. Min(Decides(f)) \in Decides(f)
      BY <3>2 DEF Min
    <3> QED
      BY <3>3
  <2>5. ASSUME NEW v
        PROVE  NodeVerdict(node, context, v) =
                 IF Decides(v) = {} THEN passes ELSE v[node.children[Min(Decides(v))]]
    BY <1>2 DEF NodeVerdict, IsSoundGroup
  <2> HIDE DEF Decides, passes
  <2> QED
    BY <2>2, <2>3, <2>4, <2>5
<1> QED
  BY <1>1, <1>2 DEF IsSoundTree

\* The recursion of TreeVerdict, and a part of it: that of the nodes after n.
Decides(f, nodes, context) ==
  f = [n \in DOMAIN nodes |-> NodeVerdict(nodes[n], context, f)]

DecidesAfter(f, n, nodes, length, context) ==
  /\ f = [m \in 1 .. length |-> f[m]]
  /\ \A m \in n + 1 .. length : f[m] = NodeVerdict(nodes[m], context, f)

(***************************************************************************)
(* Every tree that loads is decided, node after node from its leaves.      *)
(***************************************************************************)
LEMMA TreeIsDecided ==
  ASSUME NEW nodes, NEW length, IsSoundTree(nodes, length), NEW context
  PROVE  \E f : Decides(f, nodes, context)
<1> DEFINE T == {n \in 0 .. length : \E f : DecidesAfter(f, n, nodes, length, context)}
<1>0. length \in Nat
  BY DEF IsSoundTree
<1>1. length \in T
  <2> DEFINE f == [m \in 1 .. length |-> "false"]
  <2>1. f = [m \in 1 .. length |-> f[m]]
    OBVIOUS
  <2>2. length + 1 .. length = {}
    BY <1>0
  <2> HIDE DEF f
  <2>3. DecidesAfter(f, length, nodes, length, context)
    BY <2>1, <2>2 DEF DecidesAfter
  <2> QED
    BY <1>0, <2>3
<1>2. ASSUME NEW n \in 1 .. length, n \in T
      PROVE  n - 1 \in T
  <2>1. PICK f : DecidesAfter(f, n, nodes, length, context)
    BY <1>2
  <2> DEFINE g == [m \in 1 .. length |-> IF m = n THEN NodeVerdict(nodes[n], context, f)
                                                  ELSE f[m]]
  <2>2. g = [m \in 1 .. length |-> g[m]]
    OBVIOUS
  <2>3. g[n] = NodeVerdict(nodes[n], context, f) /\ \A m \in n + 1 .. length : g[m] = f[m]
    BY <1>0
  <2> HIDE DEF g
  <2>4. ASSUME NEW m \in n .. length
        PROVE  g[m] = NodeVerdict(nodes[m], context, g)
    <3>1. m \in 1 .. length /\ \A k \in m + 1 .. length : k \in n + 1 .. length
      BY <1>0
    <3>2. NodeVerdict(nodes[m], context, f) = NodeVerdict(nodes[m], context, g)
      BY <2>3, <3>1, VerdictsBelow
    <3>3. m = n \/ m \in n + 1 .. length
      BY <1>0
    <3> QED
      BY <2>1, <2>3, <3>2, <3>3 DEF DecidesAfter
  <2>5. (n - 1) + 1 = n /\ n - 1 \in 0 .. length
    BY <1>0
  <2>6. DecidesAfter(g, n - 1, nodes, length, context)
    BY <2>2, <2>4, <2>5 DEF DecidesAfter
  <2> QED
    BY <2>5, <2>6
<1>3. 0 \in T
  <2> HIDE DEF T
  <2> QED
    BY <1>0, <1>1, <1>2, FromTheLast
<1>4. PICK f : DecidesAfter(f, 0, nodes, length, context)
  BY <1>3
<1>5. DOMAIN nodes = 1 .. length /\ 0 + 1 = 1
  BY DEF IsSoundTree
<1>6. f = [n \in 1 .. length |-> NodeVerdict(nodes[n], context, f)]
  BY <1>4, <1>5 DEF DecidesAfter
<1> QED
  BY <1>5, <1>6 DEF Decides

(***************************************************************************)
(* The verdict of a tree that loads is yes or no, and yes only with a leaf *)
(* the request satisfies.  (RuleEvaluator.evaluate.)                       *)
(***************************************************************************)
LEMMA TreeHasReasons ==
  ASSUME NEW nodes, NEW length, IsSoundTree(nodes, length), NEW context
  PROVE  /\ TreeVerdict(nodes, context) \in {"true", "false"}
         /\ TreeVerdict(nodes, context) = "true" => HasEvidence(nodes, context)
<1> DEFINE f == CHOOSE v : Decides(v, nodes, context)
           IsReasoned(v) == v \in {"true", "false"} /\ (v = "true" => HasEvidence(nodes, context))
           T == {n \in 0 .. length : \A m \in n + 1 .. length : IsReasoned(f[m])}
<1>1. TreeVerdict(nodes, context) = f[1]
  BY DEF TreeVerdict, Decides
<1>2. Decides(f, nodes, context)
  BY TreeIsDecided
<1>3. length \in Nat \ {0} /\ DOMAIN nodes = 1 .. length
  BY DEF IsSoundTree
<1> HIDE DEF f
<1>4. \A n \in 1 .. length : f[n] = NodeVerdict(nodes[n], context, f)
  BY <1>2, <1>3 DEF Decides
<1>5. length \in T
  BY <1>3
<1>6. ASSUME NEW n \in 1 .. length, n \in T
      PROVE  n - 1 \in T
  <2>1. IsReasoned(f[n])
    <3>1. CASE IsSoundCondition(nodes[n])
      <4>1. f[n] = ConditionVerdict(nodes[n], context)
        BY <1>4, <3>1 DEF NodeVerdict, IsSoundCondition
      <4>2. nodes[n] \in Range(nodes) /\ IsNode(nodes[n])
        BY <1>3, <3>1 DEF Range, IsSoundCondition
      <4> QED
        BY <3>1, <4>1, <4>2, ConditionIsDecided DEF HasEvidence
    <3>2. CASE IsSoundGroup(nodes[n], n, length)
      <4> DEFINE node == nodes[n]
      <4>1. n \in Nat /\ length \in Nat
        BY <1>3
      <4>2. \A c \in DOMAIN node.children : IsReasoned(f[node.children[c]])
        BY <1>6, <3>2, ChildrenAreBelow
      <4>3. DOMAIN node.children # {}
        BY <3>2, ChildrenAreBelow
      <4> HIDE DEF IsReasoned
      <4> HIDE DEF node
      <4>4. \/ f[n] = "false"
            \/ \E c \in DOMAIN node.children : f[n] = f[node.children[c]]
        <5> DEFINE passes == IF node.operator = "AND" THEN "true" ELSE "false"
        <5>1. IsSoundGroup(node, n, length) /\ f[n] = NodeVerdict(node, context, f)
          BY <1>4, <3>2 DEF node
        <5>2. \/ f[n] = passes /\ \A c \in DOMAIN node.children : f[node.children[c]] = passes
              \/ \E c \in DOMAIN node.children : f[n] = f[node.children[c]]
          BY <4>1, <5>1, GroupEnds
        <5> HIDE DEF passes
        <5> QED
          BY <4>3, <5>2
      <4> QED
        BY <4>2, <4>4 DEF IsReasoned
    <3> QED
      BY <3>1, <3>2 DEF IsSoundTree
  <2>2. n - 1 \in 0 .. length /\ \A m \in (n - 1) + 1 .. length : m = n \/ m \in n + 1 .. length
    BY <1>3
  <2> HIDE DEF IsReasoned
  <2> QED
    BY <1>6, <2>1, <2>2
<1>7. 0 \in T
  <2> HIDE DEF T
  <2> QED
    BY <1>3, <1>5, <1>6, FromTheLast
<1>8. IsReasoned(f[1])
  BY <1>3, <1>7
<1> QED
  BY <1>1, <1>8

-----------------------------------------------------------------------------
(* What is parsed is sound *)

(***************************************************************************)
(* The tree of a rule that fits is one whose nodes run.  (_parse_node.)    *)
(***************************************************************************)
LEMMA ParsedTreeIsSound ==
  ASSUME NEW raw, IsLaidOut(raw), TreeFits(Get(raw, "condition"))
  PROVE  \E length \in Nat : IsSoundTree(ParsedRule(raw).condition, length)
<1> DEFINE tree   == Tree(Get(raw, "condition"))
           nodes  == ParsedRule(raw).condition
           length == Len(tree)
<1>1. nodes = [n \in DOMAIN tree |-> ParsedNode(tree[n])]
  BY DEF ParsedRule
<1>2. tree \in Seq(Range(tree)) /\ tree # <<>>
  BY DEF IsLaidOut, IsSequence, TreeFits
<1>3. \A n \in DOMAIN tree : List(Get(tree[n], "children")) \in Seq(n + 1 .. length)
  BY DEF IsLaidOut
<1>4. \A n \in DOMAIN tree : NodeFits(tree[n])
  BY DEF TreeFits, Range
<1> HIDE DEF tree, nodes
<1>5. length \in Nat \ {0} /\ DOMAIN tree = 1 .. length
  BY <1>2, EmptySeq
<1>6. ASSUME NEW n \in 1 .. length
      PROVE  IsSoundCondition(nodes[n]) \/ IsSoundGroup(nodes[n], n, length)
  <2> DEFINE rawNode == tree[n]
  <2>1. nodes[n] = ParsedNode(rawNode)
    BY <1>1, <1>5
  <2>2. NodeFits(rawNode) /\ List(Get(rawNode, "children")) \in Seq(n + 1 .. length)
    BY <1>3, <1>4, <1>5
  <2> HIDE DEF rawNode, length
  <2>3. CASE Get(rawNode, "type") = [string |-> "CONDITION"] /\ ConditionFits(rawNode)
    <3>1. nodes[n] = ConditionNode(Get(rawNode, "field").string,
                                   Get(rawNode, "operator").string, Get(rawNode, "value"))
      BY <2>1, <2>3 DEF ParsedNode
    <3>2. /\ Get(rawNode, "operator").string \in ComparisonOperators
          /\ ValueFits(Get(rawNode, "field").string, Get(rawNode, "operator").string,
                       Get(rawNode, "value"))
      BY <2>3 DEF ConditionFits, Member
    <3> QED
      BY <3>1, <3>2 DEF ConditionNode, IsSoundCondition, IsNode, ValueFits
  <2>4. CASE /\ Get(rawNode, "type") = [string |-> "GROUP"]
             /\ Member(Get(rawNode, "operator"), LogicalOperators)
             /\ HasChildren(rawNode)
    <3>1. nodes[n] = GroupNode(Get(rawNode, "operator").string,
                               List(Get(rawNode, "children")))
      BY <2>1, <2>4 DEF ParsedNode
    <3>2. /\ Get(rawNode, "operator").string \in LogicalOperators
          /\ List(Get(rawNode, "children")) # <<>>
      BY <2>4 DEF Member, HasChildren, List
    <3>3. ~IsNode(nodes[n])
      BY <3>1 DEF GroupNode, IsNode
    <3> QED
      BY <2>2, <3>1, <3>2, <3>3 DEF GroupNode, IsSoundGroup
  <2> QED
    BY <2>2, <2>3, <2>4 DEF NodeFits
<1>7. DOMAIN nodes = 1 .. length
  BY <1>1, <1>5
<1>8. IsSoundTree(nodes, length)
  BY <1>5, <1>6, <1>7 DEF IsSoundTree
<1> QED
  BY <1>5, <1>8 DEF nodes

(***************************************************************************)
(* The dataclass of an action that fits is the one its handler asks for.   *)
(* (_parse_action and the handlers of rule_actions.py.)                    *)
(***************************************************************************)
LEMMA ParsedActionsAreAccepted ==
  ASSUME NEW raw, RuleFits(raw)
  PROVE  HandlersAccept(ParsedRule(raw))
<1> DEFINE list    == Get(raw, "actions").list
           actions == ParsedRule(raw).actions
<1>1. actions = [a \in DOMAIN list |-> ParsedAction(list[a])]
  BY DEF ParsedRule
<1>2. \A action \in Range(list) : ActionFits(action)
  BY DEF RuleFits, List
<1> HIDE DEF list, actions
<1>3. ASSUME NEW a \in DOMAIN list
      PROVE  actions[a].parameters.class = HandlerParameters[actions[a].action_type]
  <2> DEFINE type == Get(list[a], "type").string
  <2>1. type \in DOMAIN HandlerParameters
    BY <1>2 DEF Range, ActionFits, Member, RuleActionTypes
  <2>2. /\ actions[a].action_type = type
        /\ actions[a].parameters.class =
             CASE type = "CREATE_SUPPORT_TICKET" -> "CreateSupportTicketParameters"
               [] type = "ADD_TAX"        -> "AddTaxParameters"
               [] type = "ADD_FIXED_COST" -> "AddFixedCostParameters"
               [] OTHER                   -> "SetFinalStateParameters"
    BY <1>1 DEF ParsedAction
  <2> HIDE DEF type
  <2>3. type \in {"CREATE_SUPPORT_TICKET", "ADD_TAX", "ADD_FIXED_COST", "SET_FINAL_STATE"}
    BY <2>1 DEF HandlerParameters
  <2> QED
    BY <2>2, <2>3 DEF HandlerParameters
<1> QED
  BY <1>1, <1>3 DEF HandlersAccept, Range, actions

(***************************************************************************)
(* A rule that fits becomes one that runs.  (_parse_rule.)                 *)
(***************************************************************************)
LEMMA ParsedRuleIsSound ==
  ASSUME NEW raw, IsLaidOut(raw), RuleFits(raw)
  PROVE  IsSoundRule(ParsedRule(raw))
<1>1. \E length \in Nat : IsSoundTree(ParsedRule(raw).condition, length)
  BY ParsedTreeIsSound DEF RuleFits
<1>2. \E length \in Nat : DOMAIN ParsedRule(raw).from_states = 1 .. length
  <2> DEFINE list == List(Get(raw, "fromStates"))
  <2>1. list # <<>> /\ list \in Seq(Range(list))
    BY DEF RuleFits, IsLaidOut, IsSequence
  <2>2. Get(raw, "fromStates").list = list
    BY <2>1 DEF List
  <2> HIDE DEF list
  <2>3. DOMAIN list = 1 .. Len(list) /\ Len(list) \in Nat
    BY <2>1
  <2>4. DOMAIN ParsedRule(raw).from_states = DOMAIN list
    BY <2>2 DEF ParsedRule
  <2> QED
    BY <2>3, <2>4
<1>3. HandlersAccept(ParsedRule(raw))
  BY ParsedActionsAreAccepted
<1> QED
  BY <1>1, <1>2, <1>3 DEF IsSoundRule

\* The rules a document leaves.
Loaded(doc) == [r \in DOMAIN doc.object.rules.list |-> ParsedRule(doc.object.rules.list[r])]

(***************************************************************************)
(* The rules of an accepted file are a list of rules that run.  (__init__  *)
(* and _load_rules.)                                                       *)
(***************************************************************************)
LEMMA AcceptedRulesAreSound ==
  ASSUME NEW doc \in Documents, DocumentFits(doc)
  PROVE  /\ Loaded(doc) \in Seq(Range(Loaded(doc)))
         /\ \A rule \in Range(Loaded(doc)) : IsSoundRule(rule)
<1> DEFINE list == doc.object.rules.list
           loaded == Loaded(doc)
<1>1. List(Get(doc, "rules")) = list
  BY DEF DocumentFits, Get, Is, List, Null
<1>2. list \in Seq(Range(list)) /\ \A raw \in Range(list) : IsLaidOut(raw)
  BY <1>1, DocumentsAssumption DEF IsSequence
<1>3. \A r \in DOMAIN list : RuleFits(list[r])
  BY <1>1 DEF DocumentFits, List
<1>4. loaded = [r \in DOMAIN list |-> ParsedRule(list[r])]
  BY DEF Loaded
<1> HIDE DEF list, loaded
<1>5. \A r \in DOMAIN list : IsSoundRule(loaded[r])
  BY <1>2, <1>3, <1>4, ParsedRuleIsSound DEF Range
<1>6. loaded \in Seq(Range(loaded))
  <2>1. DOMAIN list = 1 .. Len(list) /\ Len(list) \in Nat
    BY <1>2
  <2>2. loaded \in [1 .. Len(list) -> Range(loaded)]
    BY <1>4, <2>1 DEF Range
  <2> QED
    BY <2>1, <2>2
<1> QED
  BY <1>4, <1>5, <1>6 DEF loaded, Range

-----------------------------------------------------------------------------
(* What a request is answered *)

ListStep(context, q, list, rule) ==
  LET times == Cardinality({s \in DOMAIN rule.from_states : rule.from_states[s] = context.from})
  IN IF rule.enabled /\ rule.event_type = context.event
     THEN list \o [copy \in 1 .. times |-> rule] ELSE list

ResultStep(context, q, result, rule) == WithRule(result, rule, context)

Listing   == INSTANCE FoldFacts WITH Op <- ListStep
Answering == INSTANCE FoldFacts WITH Op <- ResultStep

(***************************************************************************)
(* The index of a request lists rules of the file.  (RuleEngine.__init__.) *)
(***************************************************************************)
LEMMA IndexedRulesAreRules ==
  ASSUME NEW S, rules \in Seq(S), NEW context,
         \A rule \in S : IsSoundRule(rule)
  PROVE  IndexedRules(context) \in Seq(S)
<1>1. IndexedRules(context) = Listing!Fold(context, 0, <<>>, rules)
  BY DEF IndexedRules, Listing!Fold, ListStep, FoldLeft, MapThenFoldSet, Max,
     Listing!FoldLeft, Listing!MapThenFoldSet, Listing!Max
<1>2. <<>> \in Seq(S)
  BY EmptySeq
<1>3. ASSUME NEW list \in Seq(S), NEW rule \in S
      PROVE  ListStep(context, 0, list, rule) \in Seq(S)
  <2> DEFINE named == {s \in DOMAIN rule.from_states : rule.from_states[s] = context.from}
             times == Cardinality(named)
  <2>1. IsFiniteSet(named)
    <3>1. PICK length \in Nat : DOMAIN rule.from_states = 1 .. length
      BY DEF IsSoundRule
    <3>2. IsFiniteSet(1 .. length)
      BY FS_Interval
    <3> QED
      BY <3>1, <3>2, FS_Subset
  <2>2. times \in Nat
    BY <2>1, FS_CardinalityType
  <2>3. ListStep(context, 0, list, rule) =
          IF rule.enabled /\ rule.event_type = context.event
          THEN list \o [copy \in 1 .. times |-> rule] ELSE list
    BY DEF ListStep
  <2> HIDE DEF times
  <2>4. [copy \in 1 .. times |-> rule] \in Seq(S)
    BY <2>2
  <2>5. list \o [copy \in 1 .. times |-> rule] \in Seq(S)
    BY <2>4, ConcatProperties
  <2>6. CASE rule.enabled /\ rule.event_type = context.event
    BY <2>3, <2>5, <2>6
  <2>7. CASE ~(rule.enabled /\ rule.event_type = context.event)
    BY <2>3, <2>7
  <2> QED
    BY <2>6, <2>7
<1> QED
  BY <1>1, <1>2, <1>3, Listing!FoldStays

\* Nothing was raised, and what matched had a reason.
Reasoned(context, S) ==
  {result \in [raised : {"none"}, matched : Seq({rule.id : rule \in S}),
               overrides : SUBSET UNION {Overrides(rule) : rule \in S}] :
     \A id \in Range(result.matched) :
       \E rule \in S : rule.id = id /\ HasEvidence(rule.condition, context)}

(***************************************************************************)
(* One more rule leaves the answer reasoned.  (RuleEngine.evaluate.)       *)
(***************************************************************************)
LEMMA WithRuleIsReasoned ==
  ASSUME NEW context, NEW S, NEW rule \in S, IsSoundRule(rule),
         NEW result \in Reasoned(context, S)
  PROVE  WithRule(result, rule, context) \in Reasoned(context, S)
<1> DEFINE verdict == TreeVerdict(rule.condition, context)
           more == [result EXCEPT !.matched = Append(@, rule.id),
                                  !.overrides = @ \cup Overrides(rule)]
<1>1. verdict \in {"true", "false"} /\ (verdict = "true" => HasEvidence(rule.condition, context))
  BY TreeHasReasons DEF IsSoundRule
<1>2. HandlersAccept(rule) /\ result.raised = "none"
  BY DEF IsSoundRule, Reasoned
<1>3. WithRule(result, rule, context) = IF verdict = "false" THEN result ELSE more
  BY <1>1, <1>2 DEF WithRule
<1>4. ASSUME verdict = "true"
      PROVE  more \in Reasoned(context, S)
  <2> DEFINE ids == {r.id : r \in S}
             long == Append(result.matched, rule.id)
  <2>1. result.matched \in Seq(ids) /\ rule.id \in ids
    BY DEF Reasoned
  <2>2. \A id \in Range(result.matched) :
          \E r \in S : r.id = id /\ HasEvidence(r.condition, context)
    BY DEF Reasoned
  <2>3. long \in Seq(ids) /\ Range(long) = Range(result.matched) \cup {rule.id}
    <3> HIDE DEF ids
    <3>1. /\ long \in Seq(ids)
          /\ DOMAIN long = DOMAIN result.matched \cup {Len(result.matched) + 1}
          /\ long[Len(result.matched) + 1] = rule.id
          /\ \A k \in DOMAIN result.matched : long[k] = result.matched[k]
      BY <2>1
    <3> HIDE DEF long
    <3> QED
      BY <3>1 DEF Range
  <2>4. result.overrides \cup Overrides(rule) \in SUBSET UNION {Overrides(r) : r \in S}
    BY DEF Reasoned
  <2>5. /\ more.raised = "none" /\ more.matched = long
        /\ more.overrides = result.overrides \cup Overrides(rule)
        /\ more \in [raised : {"none"}, matched : Seq(ids),
                     overrides : SUBSET UNION {Overrides(r) : r \in S}]
    <3> HIDE DEF ids
    <3>1. result \in [raised : {"none"}, matched : Seq(ids),
                      overrides : SUBSET UNION {Overrides(r) : r \in S}]
      BY DEF Reasoned, ids
    <3> QED
      BY <2>3, <2>4, <3>1
  <2> HIDE DEF more, long
  <2> QED
    BY <1>1, <1>4, <2>2, <2>3, <2>5 DEF Reasoned
<1> HIDE DEF verdict, more
<1> QED
  BY <1>1, <1>3, <1>4

(***************************************************************************)
(* Before the conflict of overrides, no answer raises.                     *)
(***************************************************************************)
LEMMA AnswersAreReasoned ==
  ASSUME NEW S, rules \in Seq(S), NEW context,
         \A rule \in S : IsSoundRule(rule)
  PROVE  /\ RuleResult(context).raised \in {"none", "RuleStateOverrideConflictError"}
         /\ \A id \in Range(RuleResult(context).matched) :
              \E rule \in S : rule.id = id /\ HasEvidence(rule.condition, context)
<1> DEFINE result == Answering!Fold(context, 0, Unanswered, IndexedRules(context))
<1>1. RuleResult(context) =
        IF result.raised = "none" /\ Cardinality(result.overrides) > 1
        THEN [result EXCEPT !.raised = "RuleStateOverrideConflictError"] ELSE result
  BY DEF RuleResult, Answering!Fold, ResultStep, FoldLeft, MapThenFoldSet, Max,
     Answering!FoldLeft, Answering!MapThenFoldSet, Answering!Max
<1>2. Unanswered \in Reasoned(context, S)
  <2>1. <<>> \in Seq({rule.id : rule \in S}) /\ Range(<<>>) = {}
    BY EmptySeq DEF Range
  <2> QED
    BY <2>1 DEF Unanswered, Reasoned
<1>3. \A r \in Reasoned(context, S), rule \in S : ResultStep(context, 0, r, rule) \in Reasoned(context, S)
  BY WithRuleIsReasoned DEF ResultStep
<1>4. IndexedRules(context) \in Seq(S)
  BY IndexedRulesAreRules
<1>5. result \in Reasoned(context, S)
  BY <1>2, <1>3, <1>4, Answering!FoldStays
<1> HIDE DEF result
<1>6. RuleResult(context).matched = result.matched
  BY <1>1, <1>5 DEF Reasoned
<1>7. RuleResult(context).raised \in {"none", "RuleStateOverrideConflictError"}
  BY <1>1, <1>5 DEF Reasoned
<1> QED
  BY <1>5, <1>6, <1>7 DEF Reasoned

-----------------------------------------------------------------------------
(* Every behaviour *)

\* Rules run only from a file that fits; before that, nobody is answered.
RepositoryInv ==
  /\ document \in Documents
  /\ \/ status = "serving" /\ DocumentFits(document) /\ rules = Loaded(document)
     \/ status # "serving" /\ rules = <<>> /\ answer.result = Unanswered
  /\ answer.result.raised \in {"none", "RuleStateOverrideConflictError"}
  /\ \A id \in Range(answer.result.matched) :
       \E rule \in Range(rules) : rule.id = id /\ HasEvidence(rule.condition, answer.context)

(***************************************************************************)
(* The program serves only what it has checked, from its start on, and     *)
(* every answer has its reasons.  (dependencies.py, RuleEngine.evaluate.)  *)
(***************************************************************************)
THEOREM RepositoryInvariance == Spec => []RepositoryInv
<1>0. Range(Unanswered.matched) = {} /\ Unanswered.raised = "none"
  BY DEF Unanswered, Range
<1>1. Init => RepositoryInv
  BY <1>0 DEF Init, RepositoryInv
<1>2. RepositoryInv /\ [Next]_vars => RepositoryInv'
  <2> SUFFICES ASSUME RepositoryInv, [Next]_vars
               PROVE  RepositoryInv'
    OBVIOUS
  <2>1. CASE Start
    <3>1. answer.result = Unanswered /\ rules = <<>> /\ UNCHANGED <<document, answer>>
      BY <2>1 DEF Start, RepositoryInv
    <3>2. CASE DocumentFits(document)
      <4>1. status' = "serving" /\ rules' = Loaded(document)
        BY <2>1, <3>2 DEF Start, Loaded
      <4> QED
        BY <1>0, <3>1, <3>2, <4>1 DEF RepositoryInv
    <3>3. CASE ~DocumentFits(document)
      <4>1. status' = "failed" /\ rules' = <<>>
        BY <2>1, <3>1, <3>3 DEF Start
      <4> QED
        BY <1>0, <3>1, <4>1 DEF RepositoryInv
    <3> QED
      BY <3>2, <3>3
  <2>2. ASSUME NEW context \in Contexts, Evaluate(context)
        PROVE  RepositoryInv'
    <3> DEFINE S == Range(rules)
    <3>1. /\ status = "serving" /\ document \in Documents /\ DocumentFits(document)
          /\ rules = Loaded(document) /\ UNCHANGED <<document, rules, status>>
          /\ answer' = [context |-> context, result |-> RuleResult(context)]
      BY <2>2 DEF Evaluate, RepositoryInv
    <3>2. rules \in Seq(S) /\ \A rule \in S : IsSoundRule(rule)
      BY <3>1, AcceptedRulesAreSound
    <3> HIDE DEF S
    <3>3. /\ RuleResult(context).raised \in {"none", "RuleStateOverrideConflictError"}
          /\ \A id \in Range(RuleResult(context).matched) :
               \E rule \in S : rule.id = id /\ HasEvidence(rule.condition, context)
      BY <3>2, AnswersAreReasoned
    <3>4. answer'.result = RuleResult(context) /\ answer'.context = context
      BY <3>1
    <3> QED
      BY <3>1, <3>3, <3>4 DEF RepositoryInv, S
  <2>3. CASE UNCHANGED vars
    BY <2>3 DEF vars, RepositoryInv
  <2> QED
    BY <2>1, <2>2, <2>3 DEF Next
<1> QED
  BY <1>1, <1>2, PTL DEF Spec

(***************************************************************************)
(* Whatever file was accepted, no request meets a condition that cannot    *)
(* compare or an action whose handler refuses its parameters, for every    *)
(* file and every request: what the checks of json_rule_repository.py let  *)
(* through covers what rule_engine.py and rule_actions.py can raise.       *)
(***************************************************************************)
THEOREM NoAcceptedRuleFails == Spec => []AcceptedRulesRun
<1>1. RepositoryInv => AcceptedRulesRun
  BY DEF RepositoryInv, AcceptedRulesRun
<1> QED
  BY <1>1, RepositoryInvariance, PTL

(***************************************************************************)
(* A rule applies only where some condition of its tree names a field the  *)
(* request carries and holds of it, however deep the tree and in whatever  *)
(* order it stops.  (RuleEvaluator.evaluate, rule_engine.py.)              *)
(***************************************************************************)
THEOREM RulesHaveReasons == Spec => []MatchesHaveEvidence
<1>1. RepositoryInv => MatchesHaveEvidence
  BY DEF RepositoryInv, MatchesHaveEvidence, HasEvidence
<1> QED
  BY <1>1, RepositoryInvariance, PTL

(***************************************************************************)
(* The id of a rule that applied names one entry of the file, for every    *)
(* file that loads.  (_load_rules, matched_rule_ids.)                      *)
(***************************************************************************)
THEOREM AuditIdsAreUnique == Spec => []AuditIdsNameOneRule
<1>1. ASSUME RepositoryInv
      PROVE  AuditIdsNameOneRule
  <2> DEFINE list == document.object.rules.list
  <2> SUFFICES ASSUME NEW id \in Range(answer.result.matched)
               PROVE  Cardinality({r \in DOMAIN list : list[r].object.id.string = id}) = 1
    BY DEF AuditIdsNameOneRule
  <2>1. PICK rule \in Range(rules) : rule.id = id
    BY <1>1 DEF RepositoryInv
  <2>2. DocumentFits(document) /\ rules = Loaded(document)
    <3>1. rules # <<>>
      BY <2>1 DEF Range
    <3> QED
      BY <1>1, <3>1 DEF RepositoryInv
  <2>3. Get(document, "rules").list = list
    BY <2>2 DEF DocumentFits, Get, Is, Null
  <2>4. (\A r \in DOMAIN list : RuleFits(list[r])) /\ IdsAreUnique(list)
    BY <2>2, <2>3 DEF DocumentFits
  <2>5. PICK r \in DOMAIN list : rule = ParsedRule(list[r])
    BY <2>1, <2>2 DEF Loaded, Range
  <2> HIDE DEF list
  <2>6. list[r].object.id.string = id
    <3>1. RuleFits(list[r])
      BY <2>4
    <3>2. Get(list[r], "id").string = list[r].object.id.string
      BY <3>1 DEF RuleFits, NonEmptyString, Get, Is, Null
    <3> QED
      BY <2>1, <2>5, <3>2 DEF ParsedRule
  <2>7. {q \in DOMAIN list : list[q].object.id.string = id} = {r}
    BY <2>4, <2>6 DEF IdsAreUnique
  <2> QED
    BY <2>7, FS_Singleton
<1> QED
  BY <1>1, RepositoryInvariance, PTL
=============================================================================
