------------------------------ MODULE PaidAccess ------------------------------
(***************************************************************************)
(* What a payment gate promises: a payer is charged for a payment that it  *)
(* presented and that is in order, and the resource is handed out for a    *)
(* payment that was made.                                                  *)
(***************************************************************************)
CONSTANTS
    Requests,     \* requests for the resource
    Payloads,     \* signed payments as they are presented
    Exact,        \* payloads that are exactly the payment asked for
    Subintents,   \* payments, each of which can be made once
    SubintentOf   \* the payment in a payload

VARIABLES
    presented,    \* the payload presented with a request: none or one
    paid,         \* payments made
    access        \* "waiting", "granted" or "refused", by request

vars == <<presented, paid, access>>

Init ==
    /\ presented = [r \in Requests |-> {}]
    /\ paid = {}
    /\ access = [r \in Requests |-> "waiting"]

Present(r) ==
    /\ access[r] = "waiting"
    /\ presented[r] = {}
    /\ \E p \in Payloads : presented' = [presented EXCEPT ![r] = {p}]
    /\ UNCHANGED <<paid, access>>

Pay(r) ==
    /\ \E p \in presented[r] \cap Exact : paid' = paid \cup {SubintentOf[p]}
    /\ UNCHANGED <<presented, access>>

Grant(r) ==
    /\ access[r] = "waiting"
    /\ \E p \in presented[r] : SubintentOf[p] \in paid
    /\ access' = [access EXCEPT ![r] = "granted"]
    /\ UNCHANGED <<presented, paid>>

Refuse(R) ==
    /\ \A r \in R : access[r] = "waiting"
    /\ access' = [r \in Requests |-> IF r \in R THEN "refused" ELSE access[r]]
    /\ UNCHANGED <<presented, paid>>

Next ==
    \/ \E r \in Requests : Present(r) \/ Pay(r) \/ Grant(r)
    \/ \E R \in SUBSET Requests : Refuse(R)

Spec == Init /\ [][Next]_vars

=============================================================================
