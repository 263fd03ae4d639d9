-------------------------- MODULE TransactionStream ---------------------------
(***************************************************************************)
(* TransactionStreamService of src/packages/transaction-stream: a Stream   *)
(* that unfolds pages of user transactions from the Gateway and keeps its  *)
(* place in the Ref of ConfigService.  The Ref outlives a run of the       *)
(* stream: an application that runs the stream again goes on from it.      *)
(*                                                                         *)
(* A run is pulled by its consumer, so it has one step under way at a      *)
(* time; the ledger, the application that changes the configuration and    *)
(* the end of a run (a Gateway error, or an interruption) come in between  *)
(* any two steps.  Transactions stand for their state versions.            *)
(***************************************************************************)
EXTENDS Naturals, FiniteSets

CONSTANTS
    MaxVersion,   \* bound: state versions of the ledger
    Limits,       \* page limits that the application configures
    MaxBatch,     \* bound of the page limits
    Start,        \* configured state version, 0 for Option.none()
    MaxStops      \* bound: runs of the stream that end

ASSUME ConstantsAssumption ==
    /\ MaxVersion \in Nat \ {0}
    /\ Limits \subseteq 1 .. MaxBatch
    /\ MaxBatch \in Nat
    /\ Start \in 0 .. MaxVersion
    /\ MaxStops \in Nat

VARIABLES
    tip,          \* state version of the ledger
    users,        \* state versions that hold a user transaction
    cursor,       \* config.stateVersion, 0 for Option.none()
    limit,        \* config.limitPerPage
    pc,           \* where the run is in its current pull
    take,         \* limitPerPage as the pull read it
    from,         \* stateVersion as the pull read it
    page,         \* state versions of the items fetched
    delivered,    \* transactions that the consumer was handed
    lost,         \* transactions of pages dropped when a run ended
    begun,        \* state version at which the Ref was first set, or 0
    stops         \* number of runs that ended

ledger == <<tip, users>>
config == <<cursor, limit>>
pull == <<take, from, page>>
history == <<delivered, lost, begun, stops>>
vars == <<ledger, config, pc, pull, history>>

PCs == {"pull", "status", "fetch", "advance", "sleep", "emit", "stopped"}

-----------------------------------------------------------------------------
Init ==
    /\ tip = 1
    /\ users \in SUBSET {1}
    /\ cursor = Start
    /\ limit \in Limits
    /\ pc = "pull"
    /\ take = 0
    /\ from = 0
    /\ page = {}
    /\ delivered = {}
    /\ lost = {}
    /\ begun = Start
    /\ stops = 0

(* The network commits a user transaction, or ends a round.                *)
Commit ==
    /\ tip < MaxVersion
    /\ tip' = tip + 1
    /\ users' \in {users, users \cup {tip'}}
    /\ UNCHANGED <<config, pc, pull, history>>

(* The application changes the page limit through the Ref.                 *)
Reconfigure ==
    /\ limit' \in Limits \ {limit}
    /\ UNCHANGED <<ledger, cursor, pc, pull, history>>

(* Each pull reads the configuration once.                                 *)
Pull ==
    /\ pc = "pull"
    /\ take' = limit
    /\ from' = cursor
    /\ pc' = IF cursor = 0 THEN "status" ELSE "fetch"
    /\ UNCHANGED <<ledger, config, page, history>>

(* Without a configured version the stream begins at the current one.      *)
AskStatus ==
    /\ pc = "status"
    /\ from' = tip
    /\ pc' = "fetch"
    /\ UNCHANGED <<ledger, config, take, page, history>>

(* The Gateway returns the first user transactions from a version on.      *)
Available == {v \in users : v >= from}

(* Mutant of FirstPage: a page without a limit.                            *)
WholePage == Available

FirstPage == {v \in Available : Cardinality({w \in Available : w <= v}) <= take}

Fetch ==
    /\ pc = "fetch"
    /\ page' = FirstPage
    /\ pc' = "advance"
    /\ UNCHANGED <<ledger, config, take, from, history>>

(* lastItem of a page, none when the page is empty.                        *)
LastIn(S) == {v \in S : \A x \in S : x <= v}

(* Mutants of NextVersions: the last item is fetched again, the cursor is  *)
(* taken from the ledger, one item is passed over, and an empty page moves *)
(* the cursor.                                                             *)
NextInclusive == IF page = {} THEN {from} ELSE LastIn(page)
NextFromLedger == IF page = {} THEN {from} ELSE {tip + 1}
NextTwoPast == IF page = {} THEN {from} ELSE {v + 2 : v \in LastIn(page)}
NextAfterEmpty ==
    IF page = {} THEN {tip + 1} ELSE {v + 1 : v \in LastIn(page)}

(* nextStateVersion: one past the last item, or where the pull was.        *)
NextVersions ==
    IF page = {} THEN {from}
    ELSE {v + 1 : v \in LastIn(page)}

(* The Ref moves on before the page is returned to the consumer.           *)
Advance ==
    /\ pc = "advance"
    /\ cursor' \in NextVersions
    /\ pc' = IF cursor' = from THEN "sleep" ELSE "emit"
    /\ begun' = IF begun = 0 THEN from ELSE begun
    /\ UNCHANGED <<ledger, limit, pull, delivered, lost, stops>>

(* waitTime passes; the empty page is filtered out of the stream.          *)
Wake ==
    /\ pc = "sleep"
    /\ pc' = "pull"
    /\ UNCHANGED <<ledger, config, pull, history>>

Emit ==
    /\ pc = "emit"
    /\ delivered' = delivered \cup page
    /\ pc' = "pull"
    /\ UNCHANGED <<ledger, config, pull, lost, begun, stops>>

(* A Gateway call fails, which every branch of the handler turns into the  *)
(* end of the run, or the application interrupts the run.                  *)
Stop ==
    /\ pc # "stopped"
    /\ stops < MaxStops
    /\ stops' = stops + 1
    /\ pc' = "stopped"
    /\ lost' = IF pc = "emit" THEN lost \cup page ELSE lost
    /\ UNCHANGED <<ledger, config, pull, delivered, begun>>

(* The application runs the stream again with the same Ref.                *)
Restart ==
    /\ pc = "stopped"
    /\ pc' = "pull"
    /\ UNCHANGED <<ledger, config, pull, history>>

Step == Pull \/ AskStatus \/ Fetch \/ Advance \/ Wake \/ Emit

Next == Commit \/ Reconfigure \/ Step \/ Stop \/ Restart

Spec == Init /\ [][Next]_vars

(* A fiber that can run does, a sleep ends, the Gateway answers or fails;  *)
(* an application that was stopped runs the stream again.                  *)
FairSpec == Spec /\ WF_vars(Step) /\ WF_vars(Restart)

-----------------------------------------------------------------------------
(* Properties *)

TypeOK ==
    /\ tip \in 1 .. MaxVersion
    /\ users \subseteq 1 .. tip
    /\ cursor \in 0 .. MaxVersion + 1
    /\ limit \in Limits
    /\ pc \in PCs
    /\ take \in Limits \cup {0}
    /\ from \in 0 .. MaxVersion + 1
    /\ page \subseteq users
    /\ delivered \subseteq users
    /\ lost \subseteq users
    /\ begun \in 0 .. MaxVersion
    /\ stops \in 0 .. MaxStops

(* No transaction is handed to the consumer twice, and each page lies      *)
(* above all that was handed out before, also after a run that ended       *)
(* between the update of the Ref and the emission was started again.       *)
InOrderOnce ==
    pc = "emit" => \A v \in page : \A w \in delivered \cup lost : w < v

(* The Ref never runs ahead: every user transaction below it was handed    *)
(* out, is about to be, or went down with a page of a run that ended.      *)
NothingSkipped ==
    \A v \in users :
        (begun # 0 /\ begun <= v /\ v < cursor) =>
            v \in delivered \cup lost \cup (IF pc = "emit" THEN page ELSE {})

(* A run that ends takes at most one page with it.                         *)
LossIsBounded == Cardinality(lost) <= MaxBatch * stops

(* The stream is an ordered feed: what its abstract specification promises *)
(* holds, and with the fairness of FairSpec the feed keeps moving, so that *)
(* every user transaction from the start on reaches the consumer unless it *)
(* went down with a run: an idle stream does not stay behind.              *)
Feed == INSTANCE OrderedFeed
ImplementsFeed == Feed!Spec

=============================================================================
