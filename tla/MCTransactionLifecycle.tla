------------------------ MODULE MCTransactionLifecycle ------------------------
(* A small instance of TransactionLifecycle for TLC.                       *)
EXTENDS TransactionLifecycle

=============================================================================
