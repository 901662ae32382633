# Verification of the Order State Machine

TLA+ modules, TLC configurations and TLAPS proofs for the order service under
`src/`: a FastAPI backend that moves orders through a lifecycle under business
rules, on an in-memory or a DynamoDB repository, and a React workspace that
shows and advances one order at a time.

## 1. Inventory

| Part (source) | State | Operations | What is hard | What makes it correct |
|---|---|---|---|---|
| Order lifecycle (`services/state_machine.py`, `domain/order_state.py`, `order_event.py`) | none; a constant table | next state, available events | circles through a delivery issue or a review | payment before shipment; a repeated event is refused |
| Rule engine (`services/rule_engine.py`, `rule_actions.py`, `domain/rule.py`) | an index built at start | evaluate a context | conflicting overrides, sums past the float range, order of rules | all or nothing on a conflict; amounts follow from recorded payments |
| Rule repository (`adapters/json_rule_repository.py`) | the rules, loaded once at start | load and validate | a value that passes the load and fails on some later request; numbers `json.loads` takes and floats do not | whatever is accepted runs; matches have a reason; ids are unique |
| Order service (`services/order_service.py`) | none | create, get, list, apply event | evaluates a copy that may be stale at commit | audit trail is a chain; tickets exactly where due |
| In-memory repository (`adapters/in_memory_*.py`) | orders, tickets, order locks, registry lock | create, get, list, commit | threads of the pool, two lock levels, check and write in separate sections | no lost update, honest answers, no deadlock |
| DynamoDB repository (`adapters/dynamodb_*.py`) | one table and its index | conditional put, transaction, paged reads | lost answers and retries, reads that are no snapshot, clocks, crashes | same ledger; answers that match the table |
| HTTP API (`api/`, `schemas/`, `main.py`, `dependencies.py`) | none | routes, validation, error answers | separate posts are separate requests | an error answer means nothing was recorded |
| Order workspace (`useOrderWorkspace.ts`, `useOrders.ts`, `App.tsx`) | selection, generation, detail, events, loading flags, controllers | open, back, refresh, retry, apply, select created | answers out of order, aborted or stale requests | the workspace shows the selected order, never an older version than it showed; spinners stop |
| Orders overview (`useOrdersOverview.ts`, `orderSummary.ts`) | summaries, health, definition, flags, errors | load, refresh, retry, create, upsert | lists that overtake each other share a spinner and an error | a failure is never shown as emptiness; nothing is waited for that is not under way |
| Event form (`EventForm.tsx`, `availableEventPresentation.ts`) | event chosen, text typed, error; kept while some order is shown | choose, type, submit | an order, its events and the definition are of different moments; state that outlives what it was typed for | nothing is sent to another order; an order is said to have ended only if it has |
| Journey (`StateMachineDiagram/`, `DashboardSummary.tsx`) | none; drawn from three answers | group, draw, list, count | answers of different moments; paths in a circle | every view tells the same, and what the lifecycle allows |
| New orders (`CreateOrderForm.tsx`) | text typed, whether it is being sent | type, submit | the form is left and comes back before the answer | an answer changes its own form only |
| Deployment, scripts | configuration | - | - | - |

The HTTP handlers are plain functions, so FastAPI runs each in a thread of its
pool; all of them share one repository object (`dependencies.py`). The service
calls the repository twice per event, once to load and once to commit, and
nothing is locked in between: that window is what most properties are about.

The browser keeps no lock either. Everything the page shows comes from answers
of calls that were sent earlier, and the user goes on while they are in flight:
an answer is used only if the selection it was asked for is still the current
one (`isCurrentSelection`).

## 2. Modules

| Module | Models | State and actions |
|---|---|---|
| `OrderStateMachine` | the transition table and its two queries | none; `Transitions` is built as the constructor builds it |
| `RuleEngine` | condition trees, the index by event and state, the four actions, the override conflict, sums that leave the float range (`Infinity`, `NaN`); sums within it are exact, as those of floats are while they are whole numbers below 2^53 | none; `Rules` is a constant, what the repository validates is `RulesAssumption` |
| `RuleRepository` | the checks on a rule file, what it becomes, and evaluation with JSON types and Python's errors | `document`, `rules`, `status`, `answer`; `Start` loads or refuses, `Evaluate` answers a request |
| `RuleOrder` | the rule file between starts, with `RuleEngine` instantiated on its present content, and amounts with the rounding of each float operation (`ChargedAmount`; `Precision` stands for 2^53) | `file`; `AddRule`, `SwapRules` |
| `OrderService` | what one event makes of an order: entry, ticket, amount, version | none |
| `OrderRepository` | the abstract specification of a repository: an order is opened, and advanced by one accepted event at a time together with its entry and its ticket. What an event makes of an order is a parameter | `orders`, `tickets`; `Open`, `Advance` |
| `OrderLedger` | that specification with the operators of `OrderService`: every path an order can take | |
| `DefaultRules`, `DefaultPolicy` | `default_rules.json`, and the promises that hold with it | properties over the ledger |
| `InMemoryOrders` | the backend on its in-memory repository: threads that run the routes | a step is what a thread does between two accesses of shared state: lock the registry, look up or allocate an order lock, acquire it, insert, read, check, write, write the ticket, release, answer. `pc` is the place in `commit_transition`, `create` or `get_by_id`; `registryLock`, `orderLocks` and `holder` are the locks; `loaded` and `found` are the local copies |
| `OrderServiceProofs`, `DefaultPolicyProofs`, `InMemoryOrdersProofs`, `DynamoOrdersProofs` | lemmas about the service, and proofs about the ledger and the two backends | |
| `RuleRepositoryProofs`, `RuleOrderProofs` | proofs about the rule file and about the order of its rules | |
| `FoldFacts` | what a fold over a sequence computes, for any operator, and the induction over sequences it takes | none |
| `DynamoOrders` | the backend on its DynamoDB repository: handlers that share a table | a step is a call the table executes, an answer that arrives or is lost, a call that boto3 sends again, a page of a query, or what a handler computes in between. `network` holds the calls that may still be executed, `tokens` the client request tokens, `stamp` the clock of the host |
| `OrderWorkspace` | the browser: selection, generation, controllers, detail, events, spinners, summaries and the calls in flight | a step is a gesture the page allows, the API serving a call, or a continuation of a call, which JavaScript runs to its end |
| `EventForm` | the form on top of `OrderWorkspace`, with the states an order goes through | `form` (there while an order is shown), `path` (the states of each order, one for each version), `requests` (what each event call asks), `hasDefinition`; choosing, typing, submitting, and what each step of the workspace makes of the form |
| `OrdersOverview` | the page around the order, on top of `OrderWorkspace` | `waiting`, `failed` and `probes` are the spinners, errors and calls of the overview, `draft` the form for a new order; retrying the list, typing, submitting, and what each step of the workspace makes of them |
| `Lists` | filtering a list and putting lists one after the other, as backend and page do | none |
| `StateMachineDefinition` | the lifecycle as the API lists it, in the order of its lists | none |
| `PageProofs` | proofs about `OrderWorkspace`, `EventForm` and `OrdersOverview` | |
| `OrderJourney` | what the page draws and lists of an order's journey, and the counters | none |
| `JourneyPolicy` | the promises of the journey, over every order of the ledger and events of any age | |
| `MC*` | instances for TLC | |

`OrderLedger` composes `OrderRepository` with `OrderService`, `RuleEngine` and
`OrderStateMachine`. `InMemoryOrders` and `DynamoOrders` compose the same three
with a repository of their own, and instantiate `OrderRepository` with the same
operators to state that they implement it. In the mapping of
`InMemoryOrders` a ticket counts from the write of its order, since the thread
that owes it holds the lock of the order and cannot fail in between. The mapping
of `DynamoOrders` is the identity: order, event and ticket are one transaction.
`RuleEngine` and `RuleRepository` both evaluate conditions: the first compares
values of one type and says what matched rules do, the second keeps the type of
every value, since its question is what can fail or match by accident.
`OrderWorkspace` knows the API only as versions of orders that grow. `EventForm`
and `OrdersOverview` both extend it: each action of theirs is one of its actions
together with what the component makes of it, or a step of the component alone.
`EventForm` also gives each version its state, from `StateMachineDefinition`.

Definitions named in a comment `Mutant: ...` are plausible bugs. They take no
part in a specification; each shows that a property notices the bug.

### What stands for what

- A request has a number, which also names the event, the ticket and the client
  token drawn for it: the uuids are fresh.
- Timestamps appear only where reads depend on them, in `DynamoOrders`.
- Order ids of the workspace carry a version and nothing else; a call carries
  its selection generation, the gesture it came from and its answer. An id has
  the spelling it was opened by, and the API answers with its own (`Canonical`).
- The metadata of an event is nothing, an object that asks for a review, or no
  JSON object. The text of a new order passes the form's validation or does not.
- An aborted call without an answer rejects and is gone; one whose answer is
  there may still resolve, which the second half of `isCancelled` is about.
- The table of `DynamoOrders` is external. Assumed of it: a conditional put and
  a transaction are atomic; a consistent read sees every write before it; a
  token that committed makes a repeated transaction succeed without effect; two
  transactions on one item may cancel each other.

## 3. Runs

| Run | Shows | Bounds and why they are enough |
|---|---|---|
| `ledger` | `HistoryIsChain`, `PaidBeforeProcessing`, `AmountReplaysHistory`, `TicketIffPaymentFailed`, `RepeatedEventIsRefused`, `TypeOK`; of the page `DrawsWhatIsOffered`, `LinesAreSharedInColumnsOnly`, `ViewsAgree` | one order, ten events, every payment metadata the rules tell apart: the circles through delivery issue, hold and payment are shorter than ten. Amounts on both sides of 1000 and one near `MaxAmount`. Each order is drawn with the events of each state, which includes every list of events that is too old. Deadlock is not checked: an order that ended takes no event |
| `in_memory_loop` | `AnswersInv`, `CommitsOnWhatWasLoaded`, `AnswersMatchStore`, `ConflictMeansMoved`, `ReadsNeverGoBack` | two threads, five requests of any route: one thread loads, the other takes the order through hold and back to the same state, so that comparing states would miss the change; reads and lists fall between any two of these steps. One order, since each of these properties is about one; the proofs are for any number |
| `in_memory_progress` | `TypeOK`, `HistoryExplainsOrder`, `ImplementsLedger`, `EveryRequestIsAnswered` | two orders and three requests to create, apply and list (a get takes the first steps of an apply): a failed payment with its ticket, and the two disagreeing rules of `test_rule_engine.py`, so that the error path of a conflict, like that of an order that does not exist, is among the ways to end |
| `dynamo_answers` | `AnswersMatchTable`, `ImplementsLedger`, `IndInv` | each call sent at most twice, each copy executed late, early or never, its answer lost or not; clocks one unit apart; a rule that keeps the order's state, so that a stale load meets the state it saw |
| `dynamo_reads` | `HistoryCoversVersion`, `AppliedAnswerIsExact`, `ExactInv` | pages of one event, so that every commit can fall between two pages; clocks agree, as `AppliedAnswerIsExact` needs |
| `workspace_visits` | of the workspace `ShowsSelected`, `EverySpinnerHasItsCall`, `KeepsPlace`, `SelectedNeverGoesBack`, `TypeOK`; of the form `EndIsReal`, `DraftStaysWithOrder`, `EndsOnlyByChoice` | four gestures on an order that waits for its payment and an id still to be created: enough to open, leave, have another client advance the order and open it again while the first answer is under way, or to choose, type, submit and be overtaken by a cancellation. From the first state an order can go on and can end |
| `workspace_refresh` | `OverviewSpinnersHaveCalls`, `NoFalseEmptiness`, `DraftSurvives` | three gestures among opening, leaving, refreshing, retrying the list, creating, applying and a restart; typing a new order is not counted, since it toggles one flag. One id, unknown until it is created, so that lists are empty, full and empty again. One probe stands for health and definition, which are loaded in the same way |
| `workspace_stale` | a violation of `SelectedNeverGoesBack` | open, refresh, apply |
| `workspace_spelling` | a violation of `AppliedIsShown` | one order, whose id may be typed in capitals |
| `rule_files` | `AcceptedRulesRun`, `MatchesHaveEvidence`, `AuditIdsNameOneRule` | every operator on a number, a string, a boolean, null, NaN, a huge integer and a list; each key of a rule wrong or missing; groups up to two levels; each alone and next to a rule with another id, or disabled with the same one. Requests with amounts below, at and above the limit, infinite and NaN, and metadata of every type or none. Deadlock is not checked: a program whose rule file is refused stops |
| `rule_order` | `OrderIsIrrelevant`, `RulesOnlyAdd` | every arrangement of up to four of seven rules: three that disagree on the state, two that agree, two taxes, costs, tickets, one disabled, and one whose cost is as large as floats are exact below, so that sums are rounded, exact and, `MaxAmount` being low, beyond the range. Swaps of neighbours reach all arrangements |
| `rule_sums` | a violation of `OrderCannotInfluenceAmounts` | three of these rules |

Elsewhere deadlock is checked; `Exhausted` and `Rest` stutter where the bound on
requests is reached or the user does nothing, with every request answered and
every call settled, so a wait without an end would be reported.

### The findings

**The order of the rules can change an amount.** `order_service.py:132-133` says
that all percentages use the original amount "so action order cannot influence
monetary results". The totals it takes are running sums of floats, in the order
of the file (`rule_engine.py:116-117`), and float addition is not associative:
costs of 0.1, 0.2 and 0.3 add up to 0.6000000000000001, costs of 0.3, 0.2 and 0.1
to 0.6. The run has floats of fewer bits, whole numbers up to 512: costs of 3, 2
and 512 add up to 516, costs of 3, 512 and 2 to 518. State, ticket and refusal do
not depend on the order, nor does the amount where nothing is rounded
(`OrderIsIrrelevant`).

**An older detail replaces the applied event.** `docs/architecture-decisions.md` says that "generation checks prevent stale
responses that already resolved from replacing the currently selected order".
`refreshWorkspace` loads detail and events in one generation. If the events come
first the form works again; an event applied then is answered in the same
generation, and the detail that was computed before it, which passes
`isCurrentSelection`, replaces what it returned (`useOrderWorkspace.ts:165`).
The page shows the state before the event beside the events of the state after.
Without refreshes the property holds (`workspace_visits`).

**An order opened by its id in capitals does not show what was applied to it.**
The page accepts a UUID in either case and keeps it as typed; the API finds the
order and answers with the id in small letters. The apply takes its target from
the answer (`useOrderWorkspace.ts:338`), `isCurrentSelection` compares it with
what was typed, and drops the result: the event is applied, but the page keeps
the old state, and the spinner of the form turns until the order is left or
refreshed. `App.workspace.test.tsx` expects the new state on the page
(`workspace_spelling`).

### Fairness

Only `in_memory_progress` assumes any: weak fairness of each thread that serves
a request (`FairSpec`), because the interpreter schedules every thread that can
run. Clients may fall silent. Python's locks promise no order, but a bounded
number of requests cannot overtake a waiting thread for ever. The workspace
claims no liveness: `apiClient.ts` sets no timeout, so a call may stay in flight;
that a spinner stops is stated against the call it waits for.

## 4. Proofs

What is assumed has a name, and TLC evaluates it on the instances above:

- `RulesAssumption` (what a loaded rule names exists), `ServiceAssumption` (what
  the schemas let through), `LedgerAssumption` (requests are numbered),
  `ThreadsAssumption`, `HandlersAssumption`, `WorkspaceAssumption` and
  `FormAssumption` (what the sets of threads, handlers, ids and events are);
- `OverviewAssumption`: the list is not one of the things probed for;
- `OrdersAreComplete`: the lists of the enums hold their members once each;
- `DocumentsAssumption`: how a rule file is laid out in the model, whatever it
  says: its lists are sequences, and a group in a tree refers to nodes further
  down. It says nothing of what the loader checks;
- `RuleOrderAssumption`: the rules that are edited are rules the loader admits
  (`IsLoadable`), since a file with others stops the program, and the numbers
  floats hold exactly are in their range (`Precision \in 1 .. MaxAmount`).

A theorem that needs more says so in its statement: `Rules = DefaultRules` for
the promises of the default rules, `MaxSkew = 0` where clocks have to agree,
`IdsAreCanonical` where an id has to be typed as the API writes it.

### The ledger

For any orders, amounts, requests and any number of events
(`DefaultPolicyProofs`, on the lemmas of `OrderServiceProofs`):

- `LedgerTypes` and `AuditTrail` (`HistoryIsChain`), for any rules. The trail is
  inductive with the types: `EntryFollowsOrder` says that an accepted event's
  entry follows its order, by the table or by an override it names, and
  `UpdateKeepsChain` that the order so updated is a chain again.
- `RepeatsRefused` (`RepeatedEventIsRefused`) and `PaidFirst`
  (`PaidBeforeProcessing`). `ReviewsOnly` adds to the trail that an override only
  ever sends a successful payment to OnHold; both follow from these without
  another induction. Where the run stops at ten events, these hold for every
  length.
- `TicketsAreExact` (`TicketIffPaymentFailed`). By itself the promise is not
  inductive: it counts the failed payments of orders whose amount is above 1000
  now, while the rule asked for the amount then. `TicketInv` adds that a pending
  order is as it was opened and that a failed payment cancels it, so that the
  amount a failure met is the amount the order was opened with and never changes
  again.
- `AmountsReplay` (`AmountReplaysHistory`). `UpdateReplays` takes one event:
  `SurchargeOfDefault` says that it makes of a bounded amount what the replay of
  its entry makes of it, or leaves the range, and `UnboundedStays` that no event
  comes back from there.

The last two need what the engine computes: the index, the actions of the
matched rules, their totals and the drafts are folds over sequences.
`FoldFacts` proves for any operator that a fold ends where its run, element by
element, ends (`FoldRuns`), and what one element more does (`FoldAppend`). The
induction is a least counterexample: the library's `NatLessThanWellFounded` and
`WFMin` give a least element of any set of numbers, without the operator
parameter of an induction theorem. The engine's steps instantiate the module
(`Listing`, `Acting`, `Totaling`, `Drafting`, `Collecting`), and `DefaultResult`
sums up what the default rules come to.

`FoldFacts` also has the induction over sequences (`SequenceInduction`: a set
that holds the empty sequence and with a sequence each longer one holds all),
what a fold never leaves (`FoldStays`), and what filtering and joining make of
lists (`FilterKeeps`, `JoinedParts`). That is how the results below come to hold
for lists of any length.

### The journey

For every order of the ledger and the events of any state, at the end of
`DefaultPolicyProofs`. What is drawn is a function of the order, so no new
invariant is needed: the types and the audit trail are enough, with what the
lists of the journey hold.

- `OffersWhatIsOffered` (`DrawsWhatIsOffered`), for any rules. `DefinitionIsComplete`
  says that the definition has one row for each state and event it takes,
  `ReachedAreTargets` and `EventsLead` what grouping makes of some of them, and
  `EdgesInvite` that there is one edge to each state some event leads to.
- `EdgesPartOutsideColumns` (`LinesAreSharedInColumnsOnly`), for the default
  rules. A curve from a state to itself is not seen, and only the rules could
  record such a step: the table has none, and the one override goes from
  `PendingPayment` to `OnHold`. Between states of different columns the index of
  an edge moves its control point off those of the others, and at most one of them
  is straight (`MovedOutOfLine`, `CurvesPart`). Between states of one column it
  moves along the line they all share, whatever the index: an order that goes from
  `OnHold` to `PendingPayment` and back is drawn with its edges on one line. No
  document says otherwise, so the property says what remains.
- `EveryViewAgrees` (`ViewsAgree`), for any rules: `CardsShown`, `CardEvents` and
  `ListedTransitions` say what the cards and the list are made of, and
  `PathIsHistory` that the path is the audit trail.

### The rules

For every rule file and every request (`RuleRepositoryProofs`):

- `NoAcceptedRuleFails` (`AcceptedRulesRun`) and `RulesHaveReasons`
  (`MatchesHaveEvidence`). `ParsedRuleIsSound` says what the checks leave: trees
  whose conditions compare and whose groups have children, and actions with the
  dataclass their handler asks for. A tree is decided from its leaves: nodes
  refer to nodes further down, so a solution of the recursion can be built from
  the last node to the first (`TreeIsDecided`), and its verdict is yes or no, and
  yes only with a leaf that holds of the request (`TreeHasReasons`). A group that
  stops early still ends with a child's verdict (`GroupEnds`), and an empty one,
  which would match without a reason, does not load. `AnswersAreReasoned` takes
  this through the index and the rules of a request, both folds.
- `AuditIdsAreUnique` (`AuditIdsNameOneRule`): ids were compared before disabled
  entries were left out.

And for every set of rules the loader admits (`RuleOrderProofs`):

- `OrderMattersOnlyToRounding` (`OrderIsIrrelevant`) and `RulesNeverTakeBack`
  (`RulesOnlyAdd`). The engine's result is taken apart into its overrides,
  percentages, fixed costs, drafts and reasons, each a sum or a union of what
  the rules contribute one by one; neighbours commute in each. Amounts are
  computed with their roundings and said to be the same only where no number is
  as large as `Precision` (`RunningIsExact`: then a running sum is the sum, since
  nothing in between is larger); past it they depend on the order (`rule_sums`).
  A fraction is exact in the same way as long as it takes no more binary digits:
  0.25 is, 0.1 is not. That a further rule lowers no amount is said of exact sums
  and of finite amounts only: zero percent of an infinite amount is no number,
  and one more surcharge makes it infinite again.

### The in-memory backend

For every set of threads, orders, requests and rules, and any number of requests
(`InMemoryOrdersProofs`):

- `Invariance`: `IndInv` is inductive. Neither type correctness nor
  `CommitsOnWhatWasLoaded` is: that a loaded copy is current when it is written
  depends on the lock held since the check, on that lock being the one every
  other thread would find, and on the copy being a snapshot of the past.
  `RequestInPlace`, `LockInPlace` and `SnapshotInPlace` say these for each place
  of a thread. `OneHolder`, `OthersKeepLocks` and `Frame` carry the facts about
  the threads that do not move through each step.
- `TypeCorrect`, `NoLostUpdate` (`CommitsOnWhatWasLoaded`) and `ConflictsAreReal`
  (`ConflictMeansMoved`) follow from it.
- `AnswersInvariance` (`AnswersInv`): `LedgerInv` adds that requests under way have
  numbers of their own, that what is between check and write is a new order or
  an accepted event, and that a recorded event was answered so or has a thread
  that will; `ReadInv` that nobody was told of more than is stored.
- `AnswersAreTrue` (`AnswersMatchStore`), `ReadsAreMonotone` (`ReadsNeverGoBack`)
  and `InMemoryImplementsLedger` (`ImplementsLedger`) follow from that one.
- `HistoriesExplain` (`HistoryExplainsOrder`): every stored order is what its
  history, event by event, makes of a new one, and no entry stands for an event
  on whose state the rules disagreed. It is inductive for the ledger
  (`NewIsExplained`, `UpdateIsExplained`), and each step of the threads is one of
  the ledger or none.

### The DynamoDB backend

For every set of handlers, orders, requests and rules, any page size, number of
attempts and requests (`DynamoOrdersProofs`):

- `Invariance`: `IndInv` is inductive, whatever the clocks. `CallInPlace` says
  what each copy of a call may still do: a transaction expects a version the
  order had, and if the order still has it, it carries what an accepted event
  makes of the order as stored. `RecordInPlace` ties the tokens to what is
  recorded, and says that no copy of a refused call can still commit.
  `LoadInPlace` says what a load in pages has read or will: every event up to the
  version of the item it read first.
- `AnswersAreTrue` (`AnswersMatchTable`), `ReadsAreComplete`
  (`HistoryCoversVersion`) and `DynamoImplementsLedger` (`ImplementsLedger`). The
  refinement meets a read that is no snapshot: a load shows the amount and the
  state of one version and the events of a later one. That the rules read fields
  and not the history (`RulesReadFields`) is what lets its event be the one the
  order as stored accepts.
- `ExactInvariance` (`ExactInv`) and `AppliedAnswersAreExact`
  (`AppliedAnswerIsExact`), where the clocks agree. The table returns events by
  their time; if clocks differ it may return them in another order than they
  were committed in. Where they agree, a page of an order that has not moved
  since is the next part of its history. That it has no gap rests on a bijection
  between the page and the numbers that follow what was read before
  (`RunHasNoGap`).

### The page

For every set of orders and spellings and any number of gestures
(`PageProofs`):

- `Invariance`: calls belong to the present selection or an earlier one, and a
  creation that was begun in the present one was begun where no order was open.
- `ShownIsSelected` (`ShowsSelected`) and `PlaceIsKept` (`KeepsPlace`). The second
  needs the invariant: the code compares generations only, and that they tell
  whether an order is open is what is proved.
- `SpinnersHaveCalls` (`EverySpinnerHasItsCall`). `SpinnerInv` assigns each call in
  flight the spinner it stands for and says that only calls of the present
  selection have one, one call at a time for each. Ids have to be typed as
  the API writes them; of others the property is false, which is the second
  finding.
- `PageSpinnersHaveCalls` (`OverviewSpinnersHaveCalls`): `WaitsFit` adds what the
  page waits for. Lists that overtake each other share one spinner.
- `DraftIsSpared` (`DraftSurvives`) and `EmptinessIsTrue` (`NoFalseEmptiness`), for
  any spelling. `DraftFit` keeps a creation with the form that sent it;
  `PanelsFit` says that an open order without a detail waits for one, shows an
  error, or has a call that will say why.
- `WorkspaceTypes`, `FormWorkspaceTypes` (`TypeOK`). `TypeOK` bounds the numbers
  of the page by the gestures, and is not inductive: a write under way can still
  begin a selection or advance an order. `InBudget` counts these as gestures not
  spent yet.
- `FormInvariance`, `FormShowsSelected`: the workspace's promises hold with the
  event form on the page, since each of its steps is a step of the workspace or
  leaves it alone.
- `DraftsStay` (`DraftStaysWithOrder`): an event call in flight carries the order
  its form was filled in for.
- `ToldEndsAreReal` (`EndIsReal`). `EndInv` says that a path has one state for each
  version and never left an end, that answers carry versions the order reached,
  and that the events shown are of such a version.
- `EndsAreChosen` (`EndsOnlyByChoice`), from the same. The list that is shown is
  the list the API computes, put in order: `ListIsComplete`, `DefinitionIsComplete`
  and `DefinitionKnows` say what the lists of the lifecycle hold, by induction over
  the enums they are built from.

### Only model-checked

- Liveness (`EveryRequestIsAnswered`), which is out of the prover's reach.
- `SelectedNeverGoesBack`: it holds without refreshes only, and the code has them.

## 5. What is not modelled

- `list_summaries` on DynamoDB: it reads an index that may show any past of the
  table, and nothing else reads its result.
- Reading and decoding the rule file: a failure stops the program, as a refused
  file does. Which exception a refusal raises: an integer no float holds makes
  `math.isfinite` raise instead of `RuleConfigurationError`, with the same end.
- Validation of request bodies: it is the choice of requests.
- The order of the reasons within one ticket, which follows the file's.
- Turning answers into JSON; an infinite amount fails there, after the commit.
- Feedback and error texts, labels and formatting: whether an error is shown is
  modelled, what it says is not.
- The filters of the list, the parsing of product ids, the timeline of the
  history and the badge of the copy button: functions of what is shown, or a
  timer that nothing else reads.
- React's second mount in development and the removal of the whole page, after
  which nothing is shown that could be wrong.
- Whether the API answers the health check: the page says it and nothing else
  depends on it.
- Deployment and scripts.

Five hazards have no property: locks that are never freed, amounts past the
float range, a rule that names a state twice, a history sorted by clocks that
disagree, and lists that go back. The models have each of these steps; no
document, test or comment says what should hold instead.

## 6. Plan

The core came first: lifecycle, rules, their file and service; the ledger; the
in-memory backend with its proof; the DynamoDB backend; the workspace. The event
form, the page around it and the journey followed. What is left, in order:

1. Proofs: `HistoryExplainsOrder` for the DynamoDB backend, whose orders are read
   in pages.
2. The conversion of amounts to DynamoDB numbers, and its list route, once a
   promise about them can be stated.
3. The filters of the list and the parsing of product ids, as pure operators
   with a reference definition.
