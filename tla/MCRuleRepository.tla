-------------------------- MODULE MCRuleRepository --------------------------
(***************************************************************************)
(* Rule files around a valid rule: each entry wrong, or unusual, in one    *)
(* way, alone and next to a second rule.                                   *)
(***************************************************************************)
EXTENDS RuleRepository

S(s) == [string |-> s]
N(n) == [number |-> n]
B(b) == [bool |-> b]
L(l) == [list |-> l]
O(o) == [object |-> o]
Empty == [key \in {} |-> Null]
NaN == [nonFinite |-> "NaN"]
Huge == [huge |-> "10^400"]

Condition(field, operator, value) ==
  O([type |-> S("CONDITION"), field |-> S(field), operator |-> S(operator), value |-> value])
\* children: where they are in the tree.
Group(operator, children) ==
  O([type |-> S("GROUP"), operator |-> S(operator), children |-> L(children)])
T(nodes) == [tree |-> nodes]
Action(type, parameters) == O([type |-> S(type), parameters |-> O(parameters)])

HighValue == Condition("amount", "GREATER_THAN", N(5))
NotToUs   == Condition("destinationCountry", "NOT_EQUALS", S("US"))
Hold      == Action("SET_FINAL_STATE", [state |-> S("OnHold")])

Valid ==
  [id |-> S("rule-1"), name |-> S("Rule 1"), enabled |-> B(TRUE),
   eventType |-> S("paymentSuccessful"), fromStates |-> L(<<S("PendingPayment")>>),
   condition |-> T(<<HighValue>>), actions |-> L(<<Hold>>)]

With(key, value) == O([Valid EXCEPT ![key] = value])
Without(key) == O([k \in DOMAIN Valid \ {key} |-> Valid[k]])

Conditions ==
  {Condition("amount", operator, value) :
     operator \in ComparisonOperators,
     value \in {N(5), S("5"), B(TRUE), Null, NaN, Huge, L(<<N(5), S("5")>>)}}
  \cup {NotToUs,
        Condition("manualReviewRequired", "EQUALS", B(TRUE)),
        Condition("destinationCountry", "GREATER_THAN", N(5)),
        Condition("destinationCountry", "IN", L(<<S("US"), Null>>)),
        Condition("destinationCountry", "IN", S("US")),
        Condition("unknown", "EQUALS", N(5)),
        Condition("amount", "CONTAINS", N(5)),
        O([type |-> S("CONDITION"), field |-> S("amount"), operator |-> S("EQUALS")]),
        Group("AND", <<>>), Group("OR", <<>>),
        O([type |-> S("RULE")]), O(Empty), S("amount > 5")}

Trees ==
  {T(<<condition>>) : condition \in Conditions}
  \cup {T(<<Group("NOT", <<2>>), HighValue>>),
        T(<<Group("AND", <<2, 3>>), HighValue, NotToUs>>),
        T(<<Group("OR", <<2, 3>>), NotToUs, Group("AND", <<>>)>>),
        T(<<Group("OR", <<2, 3>>), NotToUs,
            Group("AND", <<4, 5>>), HighValue, HighValue>>),
        T(<<Group("AND", <<2, 3>>), NotToUs, Condition("amount", "LESS_THAN", S("5"))>>)}

ActionLists ==
  {L(<<>>), S("tax"), L(<<Hold, Hold>>), L(<<S("tax")>>),
   L(<<Hold, Action("SET_FINAL_STATE", [state |-> S("Cancelled")])>>),
   L(<<Action("SET_FINAL_STATE", [state |-> S("NeedsCoffee")])>>),
   L(<<Action("SEND_EMAIL", Empty)>>),
   L(<<Action("CREATE_SUPPORT_TICKET", [reason |-> S("")])>>),
   L(<<Action("CREATE_SUPPORT_TICKET", [reason |-> S("Review")])>>),
   L(<<Action("ADD_FIXED_COST", [amount |-> N(2)])>>)}
  \cup {L(<<Action("ADD_TAX", [percentage |-> value])>>) :
          value \in {N(10), N(0), N(-1), S("10"), B(TRUE), NaN, Huge}}

RawRules ==
  {With("condition", tree) : tree \in Trees} \cup {With("actions", a) : a \in ActionLists}
  \cup {Without(key) : key \in DOMAIN Valid}
  \cup {With("id", S("")), With("enabled", S("true")), With("enabled", B(FALSE)),
        With("eventType", S("paid")), With("fromStates", L(<<>>)),
        With("fromStates", L(<<S("Lost")>>)),
        With("fromStates", L(<<S("Pending"), S("PendingPayment"), S("PendingPayment")>>)),
        S("rule-1")}

Second ==
  {With("id", S("rule-2")), With("enabled", B(FALSE)),
   O([Valid EXCEPT !.id = S("rule-2"), !.condition = T(<<NotToUs>>),
        !.actions = L(<<Action("SET_FINAL_STATE", [state |-> S("Processing")])>>)])}

MCDocuments ==
  {O([rules |-> L(raws)]) :
     raws \in {<<>>} \cup {<<r>> : r \in RawRules} \cup {<<r, s>> : r \in RawRules, s \in Second}}
  \cup {O([rules |-> S("none")]), O(Empty), L(<<>>)}

\* A request may carry any JSON value under a metadata key, or not the key.
Metadata == {Empty}
  \cup {[destinationCountry |-> value] : value \in {S("US"), S("CA"), Null, N(5), L(<<>>)}}
  \cup {[manualReviewRequired |-> value] : value \in {B(TRUE), N(1), S("yes")}}

MCContexts ==
  {[event |-> "paymentSuccessful", from |-> "PendingPayment",
    values |-> m @@ [amount |-> a, productCount |-> N(1),
                     currentState |-> S("PendingPayment"),
                     proposedState |-> S("Confirmed"),
                     eventType |-> S("paymentSuccessful")]] :
     m \in Metadata, a \in {N(1), N(5), N(9), [nonFinite |-> "Infinity"], NaN}}
  \cup {[event |-> "orderCancelled", from |-> "Pending",
         values |-> [amount |-> N(9), productCount |-> N(1),
                     currentState |-> S("Pending"), proposedState |-> S("Cancelled"),
                     eventType |-> S("orderCancelled")]]}
=============================================================================
