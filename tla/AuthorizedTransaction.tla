------------------------- MODULE AuthorizedTransaction -------------------------
(***************************************************************************)
(* What the people behind an artifact may rely on, whoever runs which      *)
(* command at which moment.  The notary is asked to sign what everybody    *)
(* asked has signed; what is broadcast has been signed by everybody asked  *)
(* and carries the notary's answer to such a request; the network decides  *)
(* once, and only on a transaction whose notary signed that very intent;   *)
(* and nobody is ever told of a decision that was not made.                *)
(***************************************************************************)
CONSTANTS
    Intents,      \* an intent with signatures attached
    Authorized,   \* those that everybody asked has signed
    Decisions     \* what the network may decide

VARIABLES
    offered,      \* what the notary was asked to sign
    broadcast,    \* pairs of what is carried and what the notary signed
    decision,     \* the network's, "none" before there is one
    claimed       \* the decisions that the record tells of

vars == <<offered, broadcast, decision, claimed>>

Init ==
    /\ offered = {}
    /\ broadcast = {}
    /\ decision = "none"
    /\ claimed = {}

Offer ==
    /\ \E i \in Intents \cap Authorized : offered' = offered \cup {i}
    /\ UNCHANGED <<broadcast, decision, claimed>>

Broadcast ==
    /\ \E i \in Intents \cap Authorized, signed \in offered :
            broadcast' = broadcast \cup {<<i, signed>>}
    /\ UNCHANGED <<offered, decision, claimed>>

Decide ==
    /\ decision = "none"
    /\ \E i \in offered : <<i, i>> \in broadcast
    /\ decision' \in Decisions
    /\ UNCHANGED <<offered, broadcast, claimed>>

(* A record is lost, or made; it need not tell of the decision.            *)
Claim ==
    /\ claimed' \subseteq {decision} \cap Decisions
    /\ UNCHANGED <<offered, broadcast, decision>>

Next == Offer \/ Broadcast \/ Decide \/ Claim

Spec == Init /\ [][Next]_vars

=============================================================================
