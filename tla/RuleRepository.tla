--------------------------- MODULE RuleRepository ---------------------------
(***************************************************************************)
(* From the rule file to a rule that runs: JsonRuleRepository              *)
(* (app/adapters/json_rule_repository.py) checks the file once, when       *)
(* app/dependencies.py builds it, and RuleEvaluator and the action         *)
(* handlers rely on what it accepted, request after request.               *)
(*                                                                         *)
(* RuleEngine says what matched rules do; here values keep their JSON      *)
(* type, because the question is whether a condition or an action can fail *)
(* at run time.  A JSON value is a record whose one field is its type:     *)
(* null, bool, number (that a float holds), nonFinite (NaN and Infinity,   *)
(* which json.loads takes), huge (an integer past the floats), string (the *)
(* empty one stands for all blank ones), list or object.  A condition is   *)
(* laid out as a tree, the sequence of its nodes, the root first: where a  *)
(* group has its children, it has the positions they are at.               *)
(***************************************************************************)
EXTENDS OrderStateMachine, Integers, Sequences, SequencesExt

CONSTANTS Documents,  \* what the rule file can hold
          Contexts    \* what a request can ask: event, from, and values by field

VARIABLES document, rules, status, answer

vars == <<document, rules, status, answer>>

RuleFields == {"amount", "productCount", "currentState", "proposedState", "eventType",
               "originCountry", "destinationCountry", "manualReviewRequired"}
NumericRuleFields == {"amount", "productCount"}
ComparisonOperators == {"EQUALS", "NOT_EQUALS", "GREATER_THAN", "LESS_THAN", "IN"}
LogicalOperators == {"AND", "OR"}

\* The dataclass a handler asks of its action, by action type.
HandlerParameters ==
  [CREATE_SUPPORT_TICKET |-> "CreateSupportTicketParameters",
   ADD_TAX               |-> "AddTaxParameters",
   ADD_FIXED_COST        |-> "AddFixedCostParameters",
   SET_FINAL_STATE       |-> "SetFinalStateParameters"]
RuleActionTypes == DOMAIN HandlerParameters

-----------------------------------------------------------------------------
(* What the checks ask of a JSON value *)

Null == [null |-> "null"]

Is(type, value) == type \in DOMAIN value

Get(data, key) ==
  IF Is("object", data) /\ key \in DOMAIN data.object THEN data.object[key] ELSE Null

NonEmptyString(value) == Is("string", value) /\ value.string # ""

Member(value, names) == NonEmptyString(value) /\ value.string \in names

\* On a huge integer math.isfinite raises: that, too, fails the load.
IsFiniteNumber(value) == Is("number", value)

NonNegativeNumber(value) == IsFiniteNumber(value) /\ value.number >= 0

List(value) == IF Is("list", value) THEN value.list ELSE <<>>

Tree(value) == IF Is("tree", value) THEN value.tree ELSE <<>>

-----------------------------------------------------------------------------
(* How a file is laid out here, whatever it says *)

IsSequence(list) == list \in Seq(Range(list))

IsLaidOut(raw) ==
  LET nodes == Tree(Get(raw, "condition"))
  IN /\ IsSequence(List(Get(raw, "fromStates")))
     /\ IsSequence(nodes)
     /\ Is("tree", Get(raw, "condition")) => nodes # <<>>
     /\ \A n \in DOMAIN nodes :
          List(Get(nodes[n], "children")) \in Seq(n + 1 .. Len(nodes))

ASSUME DocumentsAssumption ==
  \A d \in Documents :
    /\ IsSequence(List(Get(d, "rules")))
    /\ \A raw \in Range(List(Get(d, "rules"))) : IsLaidOut(raw)

-----------------------------------------------------------------------------
(* Which documents load *)

\* Mutant: an ordering compares with any value.
ValueIsOfTheField(field, operator, value) ==
  /\ operator \in {"GREATER_THAN", "LESS_THAN"} => field \in NumericRuleFields
  /\ operator = "IN" => Is("list", value)

ValueFits(field, operator, value) ==
  /\ operator \in {"GREATER_THAN", "LESS_THAN"} =>
       field \in NumericRuleFields /\ IsFiniteNumber(value)
  /\ operator = "IN" => Is("list", value)

ConditionFits(raw) ==
  /\ Member(Get(raw, "field"), RuleFields)
  /\ Member(Get(raw, "operator"), ComparisonOperators)
  /\ "value" \in DOMAIN raw.object
  /\ ValueFits(Get(raw, "field").string, Get(raw, "operator").string, Get(raw, "value"))

\* Mutant: a group may be empty.
IsListOfNodes(raw) == Is("list", Get(raw, "children"))

HasChildren(raw) == Is("list", Get(raw, "children")) /\ Get(raw, "children").list # <<>>

NodeFits(raw) ==
  /\ Is("object", raw)
  /\ \/ Get(raw, "type") = [string |-> "CONDITION"] /\ ConditionFits(raw)
     \/ /\ Get(raw, "type") = [string |-> "GROUP"]
        /\ Member(Get(raw, "operator"), LogicalOperators)
        /\ HasChildren(raw)

\* _parse_node descends to every node.
TreeFits(condition) ==
  Is("tree", condition) /\ \A node \in Range(Tree(condition)) : NodeFits(node)

ActionFits(raw) ==
  /\ Is("object", raw)
  /\ Member(Get(raw, "type"), RuleActionTypes)
  /\ LET type       == Get(raw, "type").string
         parameters == Get(raw, "parameters")
     IN /\ Is("object", parameters)
        /\ type = "CREATE_SUPPORT_TICKET" => NonEmptyString(Get(parameters, "reason"))
        /\ type = "ADD_TAX" => NonNegativeNumber(Get(parameters, "percentage"))
        /\ type = "ADD_FIXED_COST" => NonNegativeNumber(Get(parameters, "amount"))
        /\ type = "SET_FINAL_STATE" => Member(Get(parameters, "state"), States)

RuleFits(raw) ==
  /\ Is("object", raw)
  /\ NonEmptyString(Get(raw, "id"))
  /\ NonEmptyString(Get(raw, "name"))
  /\ Is("bool", Get(raw, "enabled"))
  /\ Member(Get(raw, "eventType"), Events)
  /\ List(Get(raw, "fromStates")) # <<>>
  /\ \A state \in Range(List(Get(raw, "fromStates"))) : Member(state, States)
  /\ List(Get(raw, "actions")) # <<>>
  /\ \A action \in Range(List(Get(raw, "actions"))) : ActionFits(action)
  /\ TreeFits(Get(raw, "condition"))

\* Mutant: only the rules that will run are compared.
EnabledIdsAreUnique(raws) ==
  \A i, j \in {k \in DOMAIN raws : raws[k].object.enabled.bool} :
    raws[i].object.id.string = raws[j].object.id.string => i = j

IdsAreUnique(raws) ==
  \A i, j \in DOMAIN raws : raws[i].object.id.string = raws[j].object.id.string => i = j

DocumentFits(raw) ==
  /\ Is("list", Get(raw, "rules"))
  /\ LET raws == Get(raw, "rules").list
     IN (\A i \in DOMAIN raws : RuleFits(raws[i])) /\ IdsAreUnique(raws)

-----------------------------------------------------------------------------
(* What a document that loads becomes *)

ConditionNode(field, operator, value) ==
  [field |-> field, operator |-> operator, value |-> value]

GroupNode(operator, children) == [operator |-> operator, children |-> children]

ParsedNode(raw) ==
  IF Get(raw, "type").string = "CONDITION"
  THEN ConditionNode(Get(raw, "field").string, Get(raw, "operator").string,
                     Get(raw, "value"))
  ELSE GroupNode(Get(raw, "operator").string, List(Get(raw, "children")))

\* _parse_action builds the dataclass of the type; a state is kept for overrides.
ParsedAction(raw) ==
  LET type == Get(raw, "type").string
  IN [action_type |-> type,
      parameters  |-> [class |-> CASE type = "CREATE_SUPPORT_TICKET" -> "CreateSupportTicketParameters"
                                   [] type = "ADD_TAX"        -> "AddTaxParameters"
                                   [] type = "ADD_FIXED_COST" -> "AddFixedCostParameters"
                                   [] OTHER                   -> "SetFinalStateParameters",
                       value |-> Get(raw, "parameters")]]

ParsedRule(raw) ==
  [id          |-> Get(raw, "id").string,
   enabled     |-> Get(raw, "enabled").bool,
   event_type  |-> Get(raw, "eventType").string,
   from_states |-> [s \in DOMAIN Get(raw, "fromStates").list |->
                      Get(raw, "fromStates").list[s].string],
   condition   |-> [n \in DOMAIN Tree(Get(raw, "condition")) |->
                      ParsedNode(Tree(Get(raw, "condition"))[n])],
   actions     |-> [a \in DOMAIN Get(raw, "actions").list |->
                      ParsedAction(Get(raw, "actions").list[a])]]

-----------------------------------------------------------------------------
(* RuleEvaluator and the handlers, with the ways they can raise *)

IsNode(node) == "field" \in DOMAIN node

\* Python compares True and False as 1 and 0, and NaN equals nothing.
Numeric(value) ==
  IF Is("bool", value) THEN [number |-> IF value.bool THEN 1 ELSE 0] ELSE value

PyEqual(left, right) ==
  Numeric(left) = Numeric(right) /\ left # [nonFinite |-> "NaN"]

\* < and > raise TypeError between a number and anything that is not one.
Orderable(value) == \E type \in {"bool", "number", "nonFinite", "huge"} : Is(type, value)

Verdict(holds) == IF holds THEN "true" ELSE "false"

\* NaN and Infinity never compare; the loader refuses them in a rule.
Ordered(actual, operator, value) ==
  IF IsFiniteNumber(actual) /\ ~Orderable(value)
  THEN "TypeError"
  ELSE Verdict(/\ IsFiniteNumber(actual) /\ IsFiniteNumber(value)
               /\ operator = "GREATER_THAN" => actual.number > value.number
               /\ operator = "LESS_THAN"    => actual.number < value.number)

ConditionVerdict(node, context) ==
  IF node.field \notin DOMAIN context.values
  THEN "false"
  ELSE LET actual == context.values[node.field]
       IN CASE node.operator = "EQUALS"     -> Verdict(PyEqual(actual, node.value))
            [] node.operator = "NOT_EQUALS" -> Verdict(~PyEqual(actual, node.value))
            [] node.operator = "IN" ->
                 IF Is("list", node.value)
                 THEN Verdict(\E item \in Range(node.value.list) : PyEqual(actual, item))
                 ELSE "TypeError"
            [] OTHER -> Ordered(actual, node.operator, node.value)

\* all() and any() stop at the first child that decides, or raises.
\* verdict: that of each node further down.
NodeVerdict(node, context, verdict) ==
  IF IsNode(node)
  THEN ConditionVerdict(node, context)
  ELSE LET passes  == IF node.operator = "AND" THEN "true" ELSE "false"
           decides == {c \in DOMAIN node.children : verdict[node.children[c]] # passes}
       IN IF decides = {} THEN passes ELSE verdict[node.children[Min(decides)]]

TreeVerdict(nodes, context) ==
  LET verdict[n \in DOMAIN nodes] == NodeVerdict(nodes[n], context, verdict)
  IN verdict[1]

HandlersAccept(rule) ==
  \A action \in Range(rule.actions) :
    action.parameters.class = HandlerParameters[action.action_type]

Overrides(rule) ==
  {action.parameters.value.object.state.string :
     action \in {a \in Range(rule.actions) : a.action_type = "SET_FINAL_STATE"}}

-----------------------------------------------------------------------------
(* RuleEngine.evaluate, rule after rule *)

\* The index repeats a rule for each time its from_states names the state.
IndexedRules(context) ==
  LET Times(rule) == Cardinality({s \in DOMAIN rule.from_states :
                                    rule.from_states[s] = context.from})
  IN FoldLeft(LAMBDA list, rule :
                IF rule.enabled /\ rule.event_type = context.event
                THEN list \o [copy \in 1 .. Times(rule) |-> rule] ELSE list,
              <<>>, rules)

Unanswered == [raised |-> "none", matched |-> <<>>, overrides |-> {}]

WithRule(result, rule, context) ==
  LET verdict == TreeVerdict(rule.condition, context)
  IN IF result.raised # "none" \/ verdict = "false"
     THEN result
     ELSE IF verdict = "TypeError"
     THEN [result EXCEPT !.raised = "TypeError"]
     ELSE IF ~HandlersAccept(rule)
     THEN [result EXCEPT !.raised = "RuleConfigurationError"]
     ELSE [result EXCEPT !.matched = Append(@, rule.id),
                         !.overrides = @ \cup Overrides(rule)]

RuleResult(context) ==
  LET result == FoldLeft(LAMBDA r, rule : WithRule(r, rule, context),
                         Unanswered, IndexedRules(context))
  IN IF result.raised = "none" /\ Cardinality(result.overrides) > 1
     THEN [result EXCEPT !.raised = "RuleStateOverrideConflictError"]
     ELSE result

-----------------------------------------------------------------------------
(* The program *)

Init ==
  /\ document \in Documents
  /\ rules = <<>>
  /\ status = "starting"
  /\ answer = [context |-> "none", result |-> Unanswered]

\* Any error while the module is imported stops the program.
Start ==
  /\ status = "starting"
  /\ IF DocumentFits(document)
     THEN /\ status' = "serving"
          /\ rules' = [r \in DOMAIN document.object.rules.list |->
                         ParsedRule(document.object.rules.list[r])]
     ELSE status' = "failed" /\ UNCHANGED rules
  /\ UNCHANGED <<document, answer>>

Evaluate(context) ==
  /\ status = "serving"
  /\ answer' = [context |-> context, result |-> RuleResult(context)]
  /\ UNCHANGED <<document, rules, status>>

Next == Start \/ \E context \in Contexts : Evaluate(context)

Spec == Init /\ [][Next]_vars

-----------------------------------------------------------------------------
(* Properties *)

\* Rules are checked only when the program starts (rule_engine.py 55-65 and
\* rule_actions.py 39-90 raise otherwise): whatever file was accepted, no
\* request meets a condition that cannot compare or an action whose handler
\* refuses its parameters.  A conflict of overrides is the one error left.
AcceptedRulesRun ==
  answer.result.raised \in {"none", "RuleStateOverrideConflictError"}

\* A rule that applied had a reason in the request: some condition of its
\* tree names a field the request carries, and holds of it.  Absent metadata
\* never makes a rule match (rule_engine.py 44-47), not through a negation and
\* not through a group without members.
MatchesHaveEvidence ==
  \A id \in Range(answer.result.matched) : \E rule \in Range(rules) :
    /\ rule.id = id
    /\ \E leaf \in {node \in Range(rule.condition) : IsNode(node)} :
         /\ leaf.field \in DOMAIN answer.context.values
         /\ ConditionVerdict(leaf, answer.context) = "true"

\* The ids in matched_rule_ids and in the audit metadata of an override name
\* one entry of the rule file each, disabled entries included: who reads an
\* audit trail finds the rule that applied.
AuditIdsNameOneRule ==
  \A id \in Range(answer.result.matched) :
    Cardinality({r \in DOMAIN document.object.rules.list :
                   document.object.rules.list[r].object.id.string = id}) = 1
=============================================================================
