----------------------------- MODULE OrderedFeed ------------------------------
(***************************************************************************)
(* What a reader of the ledger may rely on: from the version at which the  *)
(* feed begins, user transactions arrive in the order of their state       *)
(* versions, none of them twice, and none is passed over except in a batch *)
(* that is lost as a whole.                                                *)
(***************************************************************************)
EXTENDS Naturals

CONSTANT
    MaxVersion    \* bound: state versions of the ledger

VARIABLES
    tip,          \* state version of the ledger
    users,        \* state versions that hold a user transaction
    begun,        \* state version at which the feed began, 0 before that
    delivered,    \* user transactions handed to the application
    lost          \* user transactions of batches that were lost

vars == <<tip, users, begun, delivered, lost>>

(* The user transactions that the feed still owes.                         *)
Owed == {v \in users : v >= begun} \ (delivered \cup lost)

Init ==
    /\ tip = 1
    /\ users \in SUBSET {1}
    /\ begun \in 0 .. MaxVersion
    /\ delivered = {}
    /\ lost = {}

(* A ledger version holds a user transaction or ends a round.              *)
Commit ==
    /\ tip < MaxVersion
    /\ tip' = tip + 1
    /\ users' \in {users, users \cup {tip'}}
    /\ UNCHANGED <<begun, delivered, lost>>

Begin ==
    /\ begun = 0
    /\ begun' \in 1 .. tip
    /\ UNCHANGED <<tip, users, delivered, lost>>

(* A batch is what comes next: nothing owed lies below any part of it.     *)
Batches ==
    {b \in SUBSET Owed :
        /\ b # {}
        /\ \A v \in b : \A w \in Owed \ b : v < w}

Deliver ==
    /\ begun # 0
    /\ \E b \in Batches : delivered' = delivered \cup b
    /\ UNCHANGED <<tip, users, begun, lost>>

Lose ==
    /\ begun # 0
    /\ \E b \in Batches : lost' = lost \cup b
    /\ UNCHANGED <<tip, users, begun, delivered>>

Next == Commit \/ Begin \/ Deliver \/ Lose

(* Once it has begun, a feed that owes something eventually moves on.      *)
Spec == Init /\ [][Next]_vars /\ WF_vars(Deliver \/ Lose)

=============================================================================
