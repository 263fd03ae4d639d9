------------------------------ MODULE LedgerReads ------------------------------
(***************************************************************************)
(* The reads of src/packages/gateway that take several Gateway calls, with *)
(* their users in src/packages/cli and src/packages/core.  A read is split *)
(* into chunks of addresses, each answered at once with the first page of  *)
(* every address, then follows the cursors, then may ask for data; between *)
(* any two calls the ledger may move on.  What keeps the parts together is *)
(* at_ledger_state: the version that the caller asks for, or the one that  *)
(* the first answer came from (paginationState), or nothing.               *)
(*                                                                         *)
(*   fungible    GetFungibleBalance, and account fungibles of the cli      *)
(*   nonFungible GetNonFungibleBalance, and account nfts of the cli        *)
(*   entries     GetKeyValueStore                                          *)
(*   tokens      getFungibleTokens, getNonFungibleTokens of core           *)
(***************************************************************************)
EXTENDS GatewayLedger, FiniteSets

CONSTANTS
    NoCursor,     \* an absent next_cursor
    Kinds,        \* the reads that are made
    Sizes,        \* configured numbers of addresses in a chunk
    Concurrency   \* calls that Effect.forEach has under way at most

ASSUME ReadsAssumption ==
    /\ NoCursor \notin Nat
    /\ Kinds \subseteq {"fungible", "nonFungible", "entries", "tokens"}
    /\ Sizes \subseteq Nat \ {0}
    /\ Concurrency \in Nat \ {0}

VARIABLES
    kind,         \* which read it is, "none" before there is one
    asked,        \* input.addresses
    size,         \* addresses in a chunk
    at,           \* input.at_ledger_state, 0 when it is undefined
    stage,        \* how far the read is
    seen,         \* version of the details of each address, 0 before that
    pin,          \* paginationState.state_version
    cursor,       \* next_cursor of each address
    got,          \* things listed for an address, with their version
    described,    \* things whose data was read, with the version of the data
    since         \* history: the version asked for, or current at the start

input == <<kind, asked, size, at, since>>
answers == <<seen, cursor, got, described>>
readVars == <<input, stage, pin, answers>>
vars == <<ledgerVars, readVars>>

Stages == {"idle", "status", "details", "pages", "data",
           "done", "failed", "died"}
Over == {"done", "failed", "died"}

Init ==
    /\ LedgerInit
    /\ kind = "none"
    /\ asked = {}
    /\ size = 1
    /\ at = 0
    /\ since = 0
    /\ stage = "idle"
    /\ seen = [a \in Accounts |-> 0]
    /\ pin = 0
    /\ cursor = [a \in Accounts |-> NoCursor]
    /\ got = [a \in Accounts |-> {}]
    /\ described = [a \in Accounts |-> {}]

-----------------------------------------------------------------------------
(* Chunks, and what a call is answered with *)

(* chunker: addresses are taken in order, size of them to a chunk.         *)
ChunkOf(a) == Cardinality({b \in asked : b < a}) \div size
Chunks == {ChunkOf(a) : a \in asked}
Members(c) == {a \in asked : ChunkOf(a) = c}

(* The addresses whose turn it is among those that wait.                   *)
Started(waiting) ==
    {a \in waiting : Cardinality({b \in waiting : b < a}) < Concurrency}

(* The version a call is answered at.                                      *)
AnsweredAt(version) == IF version = 0 THEN tip ELSE version

(* Fungible pages list what was ever held, with its amount; pages of       *)
(* non-fungibles and keys list what is there.                              *)
Listing(v, a) ==
    IF kind \in {"fungible", "tokens"} THEN Listed(v, a) ELSE Held(v, a)

(* A page of address a: the items, and the cursor after them.              *)
Cursors(list, from) == {NoCursor} \cup PageEnds(list, from)
Items(list, from, next) ==
    IF next = NoCursor THEN After(list, from) ELSE PageTo(list, from, next)

(* The first pages of a set of addresses, all at one version.              *)
FirstPages(S, v) ==
    \E next \in [S -> Things \cup {NoCursor}] :
        /\ \A a \in S : next[a] \in Cursors(Listing(v, a), 0)
        /\ seen' = [a \in Accounts |-> IF a \in S THEN v ELSE seen[a]]
        /\ cursor' = [a \in Accounts |-> IF a \in S THEN next[a] ELSE cursor[a]]
        /\ got' = [a \in Accounts |->
                IF a \in S THEN Items(Listing(v, a), 0, next[a]) \X {v}
                ELSE got[a]]

(* The page of a after its cursor, at version v.                           *)
NextPage(a, v) ==
    /\ cursor[a] # NoCursor
    /\ \E next \in Cursors(Listing(v, a), cursor[a]) :
        /\ cursor' = [cursor EXCEPT ![a] = next]
        /\ got' = [got EXCEPT ![a] =
                @ \cup (Items(Listing(v, a), cursor[a], next) \X {v})]

-----------------------------------------------------------------------------
(* Calls of the read *)

(* An application calls a helper, at a version of its choice or at none.   *)
BeginRead ==
    /\ stage = "idle"
    /\ kind' \in Kinds \ {"tokens"}
    /\ size' \in Sizes
    /\ asked' \in SUBSET Accounts
    /\ kind' = "entries" => \E a \in Accounts : asked' = {a}
    /\ at' \in 0 .. tip
    /\ since' = IF at' = 0 THEN tip ELSE at'
    /\ stage' = "details"
    /\ UNCHANGED <<ledgerVars, pin, answers>>

(* The cli and core ask where the ledger stands before they read.          *)
BeginAtStatus ==
    /\ stage = "idle"
    /\ kind' \in Kinds \ {"entries"}
    /\ \E a \in Accounts : asked' = {a}
    /\ stage' = "status"
    /\ UNCHANGED <<ledgerVars, size, at, since, pin, answers>>

(* gatewayAccountFungibles and gatewayAccountNfts.                         *)
AccountStatus ==
    /\ stage = "status"
    /\ kind # "tokens"
    /\ at' = tip
    /\ since' = tip
    /\ stage' = "details"
    /\ UNCHANGED <<ledgerVars, kind, asked, size, pin, answers>>

(* getFungibleTokens: every page is asked for at this version.             *)
TokensStatus ==
    /\ stage = "status"
    /\ kind = "tokens"
    /\ at' = tip
    /\ since' = tip
    /\ pin' = tip
    /\ cursor' = [a \in Accounts |-> IF a \in asked THEN 0 ELSE NoCursor]
    /\ stage' = "pages"
    /\ UNCHANGED <<ledgerVars, kind, asked, size, seen, got, described>>

(* A chunk of StateEntityDetails.  No answer pins the other chunks.        *)
FungibleDetails(c) ==
    /\ stage = "details"
    /\ kind = "fungible"
    /\ \A a \in Members(c) : seen[a] = 0
    /\ Cardinality({b \in Chunks : b < c /\ \A a \in Members(b) : seen[a] = 0})
            < Concurrency
    /\ FirstPages(Members(c), AnsweredAt(at))
    /\ UNCHANGED <<ledgerVars, input, stage, pin, described>>

(* A chunk of getStateEntityDetails, with the first ids of each vault.     *)
NftDetails(c) ==
    /\ stage = "details"
    /\ kind = "nonFungible"
    /\ \A a \in Members(c) : seen[a] = 0
    /\ Cardinality({b \in Chunks : b < c /\ \A a \in Members(b) : seen[a] = 0})
            < Concurrency
    /\ FirstPages(Members(c), AnsweredAt(at))
    /\ UNCHANGED <<ledgerVars, input, stage, pin, described>>

(* The first keys of a store.                                              *)
StoreKeys(a) ==
    /\ stage = "details"
    /\ kind = "entries"
    /\ seen[a] = 0
    /\ FirstPages({a}, AnsweredAt(at))
    /\ UNCHANGED <<ledgerVars, input, stage, pin, described>>

(* Mutant of PinFirst: the pages are asked for at the caller's version,    *)
(* which may be none.                                                      *)
PinNothing == {at}

(* paginationState is the version of the first result.  Without a chunk    *)
(* there is none, which StateEntityDetails does not survive.               *)
PinFirst == {seen[a] : a \in Members(0)}

FungiblePin ==
    /\ stage = "details"
    /\ kind = "fungible"
    /\ \A a \in asked : seen[a] # 0
    /\ IF asked = {}
       THEN stage' = "died" /\ pin' = pin
       ELSE stage' = "pages" /\ pin' \in PinFirst
    /\ UNCHANGED <<ledgerVars, input, answers>>

NftPin ==
    /\ stage = "details"
    /\ kind = "nonFungible"
    /\ \A a \in asked : seen[a] # 0
    /\ pin' \in IF asked = {} THEN {at} ELSE PinFirst
    /\ stage' = "pages"
    /\ UNCHANGED <<ledgerVars, input, answers>>

KeysPin ==
    /\ stage = "details"
    /\ kind = "entries"
    /\ \A a \in asked : seen[a] # 0
    /\ pin' \in PinFirst
    /\ stage' = "pages"
    /\ UNCHANGED <<ledgerVars, input, answers>>

(* The addresses that have another page.                                   *)
Paging == {a \in asked : cursor[a] # NoCursor}

FungiblePage(a) ==
    /\ stage = "pages"
    /\ kind = "fungible"
    /\ a \in Started(Paging)
    /\ NextPage(a, AnsweredAt(pin))
    /\ UNCHANGED <<ledgerVars, input, stage, pin, seen, described>>

(* Pages of resources, then of the vaults and ids of each.  The code also  *)
(* asks that total_count be positive before it follows a cursor: that the  *)
(* Gateway gives it with every cursor is assumed.                          *)
NftPage(a) ==
    /\ stage = "pages"
    /\ kind = "nonFungible"
    /\ a \in Started(Paging)
    /\ NextPage(a, AnsweredAt(pin))
    /\ UNCHANGED <<ledgerVars, input, stage, pin, seen, described>>

KeysPage(a) ==
    /\ stage = "pages"
    /\ kind = "entries"
    /\ NextPage(a, AnsweredAt(pin))
    /\ UNCHANGED <<ledgerVars, input, stage, pin, seen, described>>

TokensPage(a) ==
    /\ stage = "pages"
    /\ kind = "tokens"
    /\ NextPage(a, pin)
    /\ UNCHANGED <<ledgerVars, input, stage, pin, seen, described>>

(* The last cursor is used up.                                             *)
PagesEnd ==
    /\ stage = "pages"
    /\ Paging = {}
    /\ stage' = IF kind \in {"nonFungible", "entries"} THEN "data" ELSE "done"
    /\ UNCHANGED <<ledgerVars, input, pin, answers>>

Names(pairs) == {x[1] : x \in pairs}

(* Things of a whose data is not read yet.                                 *)
Undescribed(a) == Names(got[a]) \ Names(described[a])

(* A chunk of NonFungibleData: at the caller's version, not at the one the *)
(* ids were read at.                                                       *)
NftData(a) ==
    /\ stage = "data"
    /\ kind = "nonFungible"
    /\ a \in Started({b \in asked : Undescribed(b) # {}})
    /\ \E ids \in SUBSET Undescribed(a) :
        /\ ids # {}
        /\ described' = [described EXCEPT ![a] = @ \cup (ids \X {AnsweredAt(at)})]
    /\ UNCHANGED <<ledgerVars, input, stage, pin, seen, cursor, got>>

(* Mutant of EntriesAt: the version is not handed on to the data service.  *)
EntriesAnywhere == tip

EntriesAt == AnsweredAt(pin)

(* A chunk of KeyValueStoreDataService, at paginationState.                *)
StoreData(a) ==
    /\ stage = "data"
    /\ kind = "entries"
    /\ \E keys \in SUBSET Undescribed(a) :
        /\ keys # {}
        /\ described' =
                [described EXCEPT ![a] = @ \cup (keys \X {EntriesAt})]
    /\ UNCHANGED <<ledgerVars, input, stage, pin, seen, cursor, got>>

(* Without a key there is no data chunk, and res[0] is not there to take   *)
(* the address from.                                                       *)
DataEnd ==
    /\ stage = "data"
    /\ \A a \in asked : Undescribed(a) = {}
    /\ stage' = IF kind = "entries" /\ \A a \in asked : got[a] = {}
                THEN "died" ELSE "done"
    /\ UNCHANGED <<ledgerVars, input, pin, answers>>

(* wrapMethod: an error ends the read, the other calls under way included. *)
(* Only a 429 does not: it is waited out and the call is made again, which *)
(* leaves everything here as it is.                                        *)
CallFails ==
    /\ stage \in {"status", "details", "pages", "data"}
    /\ stage' = "failed"
    /\ UNCHANGED <<ledgerVars, input, pin, answers>>

-----------------------------------------------------------------------------
Fungible ==
    \/ \E c \in Chunks : FungibleDetails(c)
    \/ FungiblePin
    \/ \E a \in asked : FungiblePage(a)

NonFungible ==
    \/ \E c \in Chunks : NftDetails(c)
    \/ NftPin
    \/ \E a \in asked : NftPage(a)
    \/ \E a \in asked : NftData(a)

Entries ==
    \/ \E a \in asked : StoreKeys(a)
    \/ KeysPin
    \/ \E a \in asked : KeysPage(a)
    \/ \E a \in asked : StoreData(a)

Tokens ==
    \/ TokensStatus
    \/ \E a \in asked : TokensPage(a)

(* What a running read does of itself.                                     *)
Step ==
    \/ AccountStatus
    \/ Fungible
    \/ NonFungible
    \/ Entries
    \/ Tokens
    \/ PagesEnd
    \/ DataEnd

Next ==
    \/ Commit /\ UNCHANGED readVars
    \/ BeginRead
    \/ BeginAtStatus
    \/ Step
    \/ CallFails

Spec == Init /\ [][Next]_vars

(* The Gateway answers a call, if only with an error and after any number  *)
(* of answers 429, and a fiber that can run does.                          *)
FairSpec == Spec /\ WF_vars(Step)

-----------------------------------------------------------------------------
(* Results and properties *)

(* Mutant of Balance: what is listed with the amount zero is returned too. *)
AllListed(a) == Names(got[a])

(* What the caller is handed for an address: amounts above zero, ids,      *)
(* entries.                                                                *)
Balance(a) ==
    IF kind = "entries" THEN Names(described[a])
    ELSE Names({x \in got[a] : ledger[x[2]][x[1]] = a})

(* The reads that name one version to every call, or have one chunk.       *)
Exact == at # 0 \/ Chunks \subseteq {0}

PairsOf == Things \X Versions

TypeOK ==
    /\ LedgerTypeOK
    /\ kind \in Kinds \cup {"none"}
    /\ asked \subseteq Accounts
    /\ size \in Sizes \cup {1}
    /\ at \in 0 .. tip
    /\ since \in 0 .. tip
    /\ stage \in Stages
    /\ seen \in [Accounts -> 0 .. tip]
    /\ pin \in 0 .. tip
    /\ cursor \in [Accounts -> Things \cup {0, NoCursor}]
    /\ got \in [Accounts -> SUBSET PairsOf]
    /\ described \in [Accounts -> SUBSET PairsOf]

(* A read of one chunk, or at a version, returns what every address held   *)
(* at one version, whatever was committed between its calls: the pages     *)
(* follow the version of the first answer.  (For non-fungibles, as long as *)
(* the Gateway gives total_count: see NftPage.)                            *)
OneVersion ==
    (stage = "done" /\ Exact) =>
        \E v \in 1 .. tip : \A a \in asked : Balance(a) = Held(v, a)

(* Data that is read for a thing is data of a thing that was still there,  *)
(* not of one that was moved or burned since it was listed: always for the *)
(* entries of a store, and for non-fungibles when a version is named.      *)
DataOfHeld ==
    (kind = "entries" \/ at # 0) =>
        \A a \in asked : \A x \in described[a] : ledger[x[2]][x[1]] = a

(* Every balance returned was the balance of that address at some version. *)
BalanceWasReal ==
    stage = "done" =>
        \A a \in asked : \E v \in 1 .. tip : Balance(a) = Held(v, a)

(* A read is under way.                                                    *)
Reading == stage \notin {"idle"} \cup Over

(* The promise begins once the read has its version or makes its first     *)
(* call.                                                                   *)
Phase ==
    IF since = 0 THEN "idle"
    ELSE IF stage = "done" THEN "returned"
    ELSE IF stage \in {"failed", "died"} THEN "failed"
    ELSE "reading"
Result ==
    [a \in Accounts |-> IF stage = "done" /\ a \in asked THEN Balance(a) ELSE {}]

(* The reads implement the atomic read, whatever the ledger, the sizes of  *)
(* pages and chunks and the order of concurrent calls.                     *)
Promise == INSTANCE AtomicRead WITH
    phase <- Phase,
    asked <- IF since = 0 THEN {} ELSE asked,
    exact <- since # 0 /\ Exact,
    until <- at,
    result <- Result
KeepsPromise == Promise!Spec

=============================================================================
