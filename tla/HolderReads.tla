------------------------------ MODULE HolderReads ------------------------------
(***************************************************************************)
(* The two reads of src/packages/gateway that ask where things are and not *)
(* what an address holds.  GetResourceHoldersService follows the pages of  *)
(* the holders of a resource; its endpoint takes no at_ledger_state, so    *)
(* every page is of the current version, and the holders are in an order   *)
(* that depends on how much they hold.  GetAddressByNonFungibleService     *)
(* asks where a non-fungible is and, while the answer is that it is        *)
(* burned, asks again one version earlier.                                 *)
(***************************************************************************)
EXTENDS GatewayLedger, FiniteSets

ASSUME HolderAssumption == IsFiniteSet(Things)

VARIABLES
    errand,       \* what is read, or how the read ended
    holders,      \* version of the item kept for a holder, 0 for no item
    rank,         \* next_cursor: place of the last holder in the order
    nonFungible,  \* the non-fungible looked for, 0 before that
    nextVersion,  \* nextStateVersion, 0 when it is undefined
    address,      \* address, Unminted for the empty string
    from          \* history: version at the start, or asked for

holderVars == <<errand, holders, rank, nonFungible, nextVersion, address, from>>
allHolderVars == <<ledgerVars, holderVars>>

(* The order of the holders: who holds more comes first (external).        *)
Amount(v, a) == Cardinality(Held(v, a))
Top == <<Cardinality(Things) + 1, 0>>
Place(v, a) == <<Amount(v, a), a>>
Precedes(r, s) == r[1] > s[1] \/ (r[1] = s[1] /\ r[2] < s[2])
HoldersAfter(v, r) ==
    {a \in Accounts : Held(v, a) # {} /\ Precedes(r, Place(v, a))}

Errands == {"idle", "holders", "trace", "listed", "found", "notFound", "failed"}

HolderInit ==
    /\ LedgerInit
    /\ errand = "idle"
    /\ holders = [a \in Accounts |-> 0]
    /\ rank = Top
    /\ nonFungible = 0
    /\ nextVersion = 0
    /\ address = Unminted
    /\ from = 0

-----------------------------------------------------------------------------
(* GetResourceHoldersService *)

BeginHolders ==
    /\ errand = "idle"
    /\ errand' = "holders"
    /\ from' = tip
    /\ UNCHANGED <<ledgerVars, holders, rank, nonFungible, nextVersion, address>>

(* Of two items with one holder_address the later one is kept.             *)
Keep(page) == [a \in Accounts |-> IF a \in page THEN tip ELSE holders[a]]

(* Mutant of Goes: the first page is taken for all of them.                *)
GoesOnce(last) == FALSE

(* The loop goes on while there is a next cursor.                          *)
Goes(last) == HoldersAfter(tip, last) # {}

(* A page: holders of the current version after the cursor, up to a last.  *)
HoldersPage ==
    /\ errand = "holders"
    /\ LET rest == HoldersAfter(tip, rank)
       IN  \/ \E a \in rest :
                LET last == Place(tip, a)
                IN  /\ holders' = Keep({b \in rest :
                                    ~ Precedes(last, Place(tip, b))})
                    /\ rank' = last
                    /\ errand' = IF Goes(last) THEN "holders" ELSE "listed"
           \/ /\ rest = {}
              /\ errand' = "listed"
              /\ UNCHANGED <<holders, rank>>
    /\ UNCHANGED <<ledgerVars, nonFungible, nextVersion, address, from>>

-----------------------------------------------------------------------------
(* GetAddressByNonFungibleService *)

(* At a version that the caller names, or at none.                         *)
BeginTrace ==
    /\ errand = "idle"
    /\ errand' = "trace"
    /\ nonFungible' \in Things
    /\ nextVersion' \in 0 .. tip
    /\ from' = nextVersion'
    /\ UNCHANGED <<ledgerVars, holders, rank, address>>

LocatedAt == IF nextVersion = 0 THEN tip ELSE nextVersion

(* Mutants of Earlier: a version is passed over; the version asked for is  *)
(* not moved.                                                              *)
EarlierByTwo(v) == IF v > 2 THEN v - 2 ELSE 1
EarlierNot(v) == v

(* From the ledger state of the answer.                                    *)
Earlier(v) == v - 1

(* The answer to getNonFungibleLocation: no location before the mint, else *)
(* burned, or the owner.                                                   *)
Locate ==
    /\ errand = "trace"
    /\ from' = IF from = 0 THEN tip ELSE from
    /\ LET place == ledger[LocatedAt][nonFungible]
       IN  \/ /\ place = Unminted
              /\ errand' = "notFound"
              /\ UNCHANGED <<nextVersion, address>>
           \/ /\ place = Burned
              /\ nextVersion' = Earlier(LocatedAt)
              /\ UNCHANGED <<errand, address>>
           \/ /\ place \in Accounts
              /\ errand' = "found"
              /\ nextVersion' = Earlier(LocatedAt)
              /\ address' = place
    /\ UNCHANGED <<ledgerVars, holders, rank, nonFungible>>

-----------------------------------------------------------------------------
(* wrapMethod: an error ends the read.  A 429 is waited out, which changes *)
(* nothing here.                                                           *)
ReadFails ==
    /\ errand \in {"holders", "trace"}
    /\ errand' = "failed"
    /\ UNCHANGED <<ledgerVars, holders, rank, nonFungible, nextVersion, address,
                   from>>

HolderStep == HoldersPage \/ Locate

HolderNext ==
    \/ Commit /\ UNCHANGED holderVars
    \/ BeginHolders
    \/ BeginTrace
    \/ HolderStep
    \/ ReadFails

HolderSpec == HolderInit /\ [][HolderNext]_allHolderVars
HolderFairSpec == HolderSpec /\ WF_allHolderVars(HolderStep)

-----------------------------------------------------------------------------
HolderTypeOK ==
    /\ LedgerTypeOK
    /\ errand \in Errands
    /\ holders \in [Accounts -> 0 .. tip]
    /\ rank \in (0 .. Cardinality(Things) + 1) \X (Accounts \cup {0})
    /\ nonFungible \in Things \cup {0}
    /\ nextVersion \in 0 .. tip
    /\ address \in Accounts \cup {Unminted}
    /\ from \in 0 .. tip

(* Whoever holds the same amount, above zero, all the time that the pages  *)
(* are read is in the list, whatever others do between two pages.          *)
SteadyHoldersFound ==
    errand = "listed" =>
        \A a \in Accounts :
            (Amount(from, a) > 0 /\ \A v \in from .. tip :
                                        Amount(v, a) = Amount(from, a))
                => holders[a] # 0

(* The walk ends at the last account that held the non-fungible; it finds  *)
(* nothing only if none ever did, as when one transaction mints and burns. *)
TraceIsLastHolder ==
    /\ errand = "found" =>
        \E v \in 1 .. from :
            /\ ledger[v][nonFungible] = address
            /\ \A w \in (v + 1) .. from : ledger[w][nonFungible] = Burned
    /\ errand = "notFound" =>
        \A v \in 1 .. from : ledger[v][nonFungible] \notin Accounts

(* A read is under way.                                                    *)
HolderReading == errand \in {"holders", "trace"}

=============================================================================
