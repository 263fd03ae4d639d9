--------------------------- MODULE MCConnectRelay ---------------------------
(* A small instance of ConnectRelay for TLC: two interactions of one dApp, *)
(* and one of another dApp from an earlier use of the session.             *)
EXTENDS ConnectRelay, TLC

CONSTANTS a, b, c, d, e

MCDAppOf == a :> d @@ b :> d @@ c :> e

=============================================================================
