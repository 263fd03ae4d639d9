---------------------------- MODULE WalletExchange ----------------------------
(***************************************************************************)
(* What a dApp may rely on when it sends interactions to a wallet over one *)
(* session: an answer is the wallet's answer to that interaction, and a    *)
(* failure says what came in its place.                                    *)
(***************************************************************************)
CONSTANTS
    Interactions,   \* wallet interactions, each with an id of its own
    Earlier,        \* interactions of an earlier use of the session
    Error           \* an error in place of an answer; it names no interaction

VARIABLES
    shown,     \* interactions that the wallet may have seen
    posted,    \* what the wallet has sent: answers, by interaction, or Error
    outcome    \* of each interaction, "pending" before there is one

vars == <<shown, posted, outcome>>

Init ==
    /\ shown = {}
    /\ posted \in SUBSET Earlier
    /\ outcome = [i \in Interactions |-> "pending"]

Show(i) ==
    /\ shown' = shown \cup {i}
    /\ UNCHANGED <<posted, outcome>>

Reply ==
    /\ \E m \in shown \cup {Error} : posted' = posted \cup {m}
    /\ UNCHANGED <<shown, outcome>>

Cause(i, o) ==
    CASE o = "answered" -> i \in posted
      [] o = "refused" -> Error \in posted
      [] o = "mismatched" -> posted \ {i, Error} # {}
      [] o = "given up" -> TRUE

Conclude(i) ==
    /\ i \in shown
    /\ outcome[i] = "pending"
    /\ \E o \in {"answered", "refused", "mismatched", "given up"} :
        /\ Cause(i, o)
        /\ outcome' = [outcome EXCEPT ![i] = o]
    /\ UNCHANGED <<shown, posted>>

Next == Reply \/ \E i \in Interactions : Show(i) \/ Conclude(i)

Spec == Init /\ [][Next]_vars

=============================================================================
