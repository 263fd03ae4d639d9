-------------------------- MODULE MCPaymentMiddleware --------------------------
(* A small instance of PaymentMiddleware for TLC: two payments, the first  *)
(* of them in two payloads.                                                *)
EXTENDS PaymentMiddleware, TLC

CONSTANTS p1, p2, q, s, t

MCSubintentOf == p1 :> s @@ p2 :> s @@ q :> t

=============================================================================
