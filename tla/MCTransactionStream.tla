-------------------------- MODULE MCTransactionStream -------------------------
(* A small instance of TransactionStream for TLC.                          *)
EXTENDS TransactionStream

=============================================================================
