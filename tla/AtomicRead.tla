------------------------------ MODULE AtomicRead ------------------------------
(***************************************************************************)
(* What the caller of a balance or store read may rely on.  A read that is *)
(* exact returns what all the addresses held at one state version: the one *)
(* asked for, or one that was current while the read was under way.  Of a  *)
(* read that is not exact only this is promised: whatever it attributes to *)
(* an address was held there at some version within the same bounds.       *)
(***************************************************************************)
EXTENDS GatewayLedger

VARIABLES
    phase,        \* "idle", "reading", "returned" or "failed"
    asked,        \* the addresses asked for
    exact,        \* whether one version is promised
    since,        \* the version asked for, or current when the read began
    until,        \* the version asked for, or 0 for the one current at the end
    result        \* what is attributed to each address

vars == <<ledgerVars, phase, asked, exact, since, until, result>>

Nothing == [a \in Accounts |-> {}]
Window == since .. (IF until = 0 THEN tip ELSE until)

Init ==
    /\ LedgerInit
    /\ phase = "idle"
    /\ asked = {}
    /\ exact = FALSE
    /\ since = 0
    /\ until = 0
    /\ result = Nothing

Tick == Commit /\ UNCHANGED <<phase, asked, exact, since, until, result>>

Begin ==
    /\ phase = "idle"
    /\ phase' = "reading"
    /\ asked' \in SUBSET Accounts
    /\ exact' \in BOOLEAN
    /\ \/ since' = tip /\ until' = 0
       \/ since' \in 1 .. tip /\ until' = since'
    /\ UNCHANGED <<ledgerVars, result>>

Return ==
    /\ phase = "reading"
    /\ phase' = "returned"
    /\ result' \in [Accounts -> SUBSET Things]
    /\ \A a \in Accounts : result'[a] # {} => a \in asked
    /\ \A a \in asked : \A t \in result'[a] :
            \E v \in Window : ledger[v][t] = a
    /\ exact => \E v \in Window : \A a \in asked : result'[a] = Held(v, a)
    /\ UNCHANGED <<ledgerVars, asked, exact, since, until>>

(* The Gateway refuses a call, or the read is asked for nothing.           *)
Fail ==
    /\ phase = "reading"
    /\ phase' = "failed"
    /\ UNCHANGED <<ledgerVars, asked, exact, since, until, result>>

Next == Tick \/ Begin \/ Return \/ Fail

Spec == Init /\ [][Next]_vars

=============================================================================
