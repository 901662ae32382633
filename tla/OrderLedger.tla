---------------------------- MODULE OrderLedger -----------------------------
(***************************************************************************)
(* A repository on its own, with the order service that uses it: every     *)
(* path an order can take.  Promises about orders are stated of it, and    *)
(* hold of each repository that implements OrderRepository.                *)
(***************************************************************************)
EXTENDS OrderService

CONSTANT RequestIds

ASSUME LedgerAssumption == RequestIds \subseteq Nat

VARIABLES orders, tickets

INSTANCE OrderRepository
=============================================================================
