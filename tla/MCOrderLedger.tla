--------------------------- MODULE MCOrderLedger ----------------------------
EXTENDS DefaultPolicy, JourneyPolicy

NoMetadata == << >>
UsPayment == [destinationCountry |-> "US"]
ReviewedPayment == [manualReviewRequired |-> TRUE]
ReviewedUsPayment == [destinationCountry |-> "US", manualReviewRequired |-> TRUE]

\* Every event, and payments with each combination the default rules tell apart.
AllRequests ==
  [event : Events, metadata : {NoMetadata}]
    \cup [event : {"paymentSuccessful"},
          metadata : {UsPayment, ReviewedPayment, ReviewedUsPayment}]

\* A request is recorded at most once and ids only name requests: TLC may take
\* them in order.
IdsInOrder ==
  \A o \in OrderIds : orders[o] = None \/
    \A i \in DOMAIN orders[o].history : orders[o].history[i].id = i
=============================================================================
