----------------------------- MODULE GatewayLedger -----------------------------
(***************************************************************************)
(* The ledger as clients see it through the Gateway (external).  Every     *)
(* commit makes a new state version; a request is answered at the version  *)
(* it names in at_ledger_state or, when it names none, at the version that *)
(* is current when it is answered.  What is at stake is where things are:  *)
(* an account holds resources and non-fungibles, a key value store holds   *)
(* entries.  A thing is somewhere else after a transfer, comes into being  *)
(* when it is minted and is gone for good when it is burned.               *)
(***************************************************************************)
EXTENDS Naturals

CONSTANTS
    Accounts,     \* addresses, by number: holder pages are in this order
    Things,       \* what is held, by number: other pages are in this order
    Unminted,     \* where a thing is before it is minted
    Burned,       \* where a thing is once it is burned
    MaxVersion    \* bound: state versions of the ledger

ASSUME LedgerAssumption ==
    /\ Accounts \subseteq Nat \ {0}
    /\ Things \subseteq Nat \ {0}
    /\ Unminted \notin Accounts
    /\ Burned \notin Accounts \cup {Unminted}
    /\ MaxVersion \in Nat \ {0}

VARIABLES
    tip,          \* current state version
    ledger        \* where every thing was at every version up to the tip

ledgerVars == <<tip, ledger>>

Places == Accounts \cup {Unminted, Burned}
Versions == 1 .. MaxVersion

(* Versions that are not there yet are filled with the first one.          *)
LedgerInit ==
    /\ tip = 1
    /\ \E world \in [Things -> Accounts \cup {Unminted}] :
        ledger = [v \in Versions |-> world]

(* Where a thing may be one version later.                                 *)
Onward(place) ==
    IF place = Burned THEN {} ELSE (Accounts \cup {Burned}) \ {place}

(* A committed transaction moves, mints or burns a thing, or does none of  *)
(* it.  A thing may be minted and burned by one transaction.               *)
Commit ==
    /\ tip < MaxVersion
    /\ tip' = tip + 1
    /\ \/ ledger' = [ledger EXCEPT ![tip + 1] = ledger[tip]]
       \/ \E t \in Things : \E p \in Onward(ledger[tip][t]) :
            ledger' = [ledger EXCEPT ![tip + 1] = [ledger[tip] EXCEPT ![t] = p]]

LedgerTypeOK ==
    /\ tip \in Versions
    /\ ledger \in [Versions -> [Things -> Places]]

(* What an account holds at a version.                                     *)
Held(v, a) == {t \in Things : ledger[v][t] = a}

(* What it holds or once held: a resource that is all spent stays listed,  *)
(* with the amount zero.                                                   *)
Listed(v, a) == {t \in Things : \E w \in 1 .. v : ledger[w][t] = a}

(* A page brings what comes after the cursor, in order and not more than   *)
(* the limit of the request; the Gateway may end it earlier.  A page ends  *)
(* at its last item, which is its next_cursor, or at the end of the list.  *)
After(list, cursor) == {x \in list : cursor < x}
PageTo(list, cursor, last) == {x \in After(list, cursor) : x <= last}
PageEnds(list, cursor) ==
    {x \in After(list, cursor) : \E y \in After(list, cursor) : x < y}

=============================================================================
