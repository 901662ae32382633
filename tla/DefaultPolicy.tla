--------------------------- MODULE DefaultPolicy ----------------------------
(***************************************************************************)
(* What the lifecycle and the default rules together guarantee of every    *)
(* order, whichever repository keeps it.                                   *)
(***************************************************************************)
EXTENDS OrderLedger, DefaultRules

Opened == {o \in OrderIds : orders[o] # None}

TypeOK ==
  /\ orders \in [OrderIds -> Order \cup {None}]
  /\ \A k \in tickets : k.id \in RequestIds /\ k.order \in Opened

(***************************************************************************)
(* The version counts the events of the history, the events chain from     *)
(* Pending to the current state, and where an event did not lead where the *)
(* transition table says, its metadata names the override.                 *)
(* (order_service.py apply_event, the audit trail of the README.)          *)
(***************************************************************************)
HistoryIsChain ==
  \A o \in Opened :
    LET h     == orders[o].history
        at(i) == IF i = 0 THEN "Pending" ELSE h[i].to
    IN /\ orders[o].version = Len(h)
       /\ orders[o].state = at(Len(h))
       /\ \A i \in DOMAIN h :
            /\ h[i].from = at(i - 1)
            /\ \/ <<h[i].from, h[i].event, h[i].to>> \in Transitions
               \/ \E v \in h[i].override :
                    /\ v.final = h[i].to
                    /\ <<h[i].from, h[i].event, v.proposed>> \in Transitions

(***************************************************************************)
(* Goods leave only against a payment made since the order last waited for *)
(* one: before every step into Processing there is a successful payment,   *)
(* and no hold or wait for payment in between, also after a delivery issue *)
(* or a manual review sent the order back.                                 *)
(***************************************************************************)
PaidBeforeProcessing ==
  \A o \in Opened :
    LET h == orders[o].history
    IN \A i \in DOMAIN h :
         h[i].to = "Processing" =>
           \E j \in 1 .. i - 1 :
             /\ h[j].event = "paymentSuccessful"
             /\ \A k \in j .. i - 1 : h[k].to \notin {"Pending", "OnHold", "PendingPayment"}

(***************************************************************************)
(* The amount is what the surcharges of the recorded payments make of the  *)
(* opening amount: each payment that a US destination and an amount above  *)
(* 1000 qualify counts once, and nothing else moves money.  (The default   *)
(* surcharge rule; an amount that left the float range stays out of it.)   *)
(***************************************************************************)
Surcharged(amount, entry) ==
  LET qualifies == /\ entry.event = "paymentSuccessful"
                   /\ "destinationCountry" \in DOMAIN entry.metadata
                   /\ entry.metadata.destinationCountry = "US"
                   /\ amount > 1000
  IN IF ~qualifies THEN amount
     ELSE IF amount * 10 > MaxAmount THEN Infinity
     ELSE amount + (amount * 10) \div 100 + 25

AmountReplaysHistory ==
  \A o \in Opened :
    \/ orders[o].amount \in {Infinity, NaN}
    \/ \E amount \in Amounts :
         orders[o].amount = FoldLeft(Surcharged, amount, orders[o].history)

(***************************************************************************)
(* A high-value order whose payment failed has one support ticket, drawn   *)
(* by that very event; no other order has one.                             *)
(***************************************************************************)
FailedPayments(o) ==
  {e \in Range(orders[o].history) : e.event = "paymentFailed" /\ orders[o].amount > 1000}

TicketIffPaymentFailed ==
  {<<k.order, k.id>> : k \in tickets}
    = UNION {{<<o, e.id>> : e \in FailedPayments(o)} : o \in Opened}

(***************************************************************************)
(* Posting again the event an order took last is always refused, so that a *)
(* client that repeats a request it had no answer to cannot advance the    *)
(* order twice: no event is enabled where it leads, overrides included.    *)
(***************************************************************************)
RepeatedEventIsRefused ==
  \A o \in Opened :
    LET h == orders[o].history
    IN h # <<>> => ~IsEnabled(orders[o].state, h[Len(h)].event)
=============================================================================
