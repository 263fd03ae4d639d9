--------------------------- MODULE HolderReadsProofs ---------------------------
(* Type correctness and the two safety properties of HolderReads.          *)
EXTENDS HolderReads, FiniteSetTheorems, TLAPS

USE LedgerAssumption, HolderAssumption

(* Before its mint a thing is nowhere, and nothing begins burned.          *)
HistoryInv ==
    \A t \in Things :
        /\ ledger[1][t] # Burned
        /\ \A v \in 1 .. tip : ledger[v][t] = Unminted =>
                \A w \in 1 .. v : ledger[w][t] = Unminted

(* The walk has passed burned versions only, and has one left to ask for.  *)
TraceInv ==
    /\ errand \in {"trace", "found", "notFound"} => nonFungible \in Things
    /\ errand = "trace" /\ from = 0 => nextVersion = 0
    /\ errand = "trace" /\ from # 0 =>
        /\ nextVersion \in 1 .. from
        /\ \A v \in (nextVersion + 1) .. from : ledger[v][nonFungible] = Burned

(* Who holds the same amount since the start.                              *)
Steady(a) ==
    Amount(from, a) > 0 /\ \A v \in from .. tip : Amount(v, a) = Amount(from, a)

(* Those who hold steadily are in the list or after the cursor.            *)
ListInv ==
    /\ errand = "idle" => rank = Top
    /\ errand \in {"holders", "listed"} => from # 0
    /\ errand = "holders" =>
        \A a \in Accounts : Steady(a) =>
            holders[a] # 0 \/ Precedes(rank, Place(from, a))
    /\ errand = "listed" => \A a \in Accounts : Steady(a) => holders[a] # 0

HolderInv == HolderTypeOK /\ HistoryInv /\ TraceInv /\ TraceIsLastHolder /\ ListInv

-----------------------------------------------------------------------------
LEMMA AmountType ==
    ASSUME NEW v, NEW a
    PROVE  /\ Amount(v, a) \in 0 .. Cardinality(Things)
           /\ Cardinality(Things) \in Nat
           /\ Held(v, a) = {} => Amount(v, a) = 0
<1>1. Held(v, a) \subseteq Things
  BY DEF Held
<1>2. IsFiniteSet(Held(v, a)) /\ Cardinality(Held(v, a)) <= Cardinality(Things)
  BY <1>1, FS_Subset
<1>3. Cardinality(Held(v, a)) \in Nat /\ Cardinality(Things) \in Nat
  BY <1>2, FS_CardinalityType
<1>4. Held(v, a) = {} => Cardinality(Held(v, a)) = 0
  BY FS_EmptySet
<1> QED
  BY <1>2, <1>3, <1>4 DEF Amount

(* A commit adds a version to the history and changes none.                *)
LEMMA HistoryGrows ==
    ASSUME LedgerTypeOK, Commit
    PROVE  /\ LedgerTypeOK'
           /\ tip \in Nat \ {0} /\ tip' = tip + 1
           /\ \A v \in 1 .. tip : ledger'[v] = ledger[v]
           /\ \A t \in Things : ledger'[tip'][t] = Unminted => ledger[tip][t] = Unminted
<1> USE DEF LedgerTypeOK, Commit, Versions, Places, Onward
<1>1. tip \in Nat \ {0} /\ MaxVersion \in Nat /\ tip' \in Versions /\ tip' = tip + 1
  OBVIOUS
<1>2. CASE ledger' = [ledger EXCEPT ![tip + 1] = ledger[tip]]
  BY <1>1, <1>2
<1>3. CASE \E t \in Things : \E p \in Onward(ledger[tip][t]) :
              ledger' = [ledger EXCEPT ![tip + 1] = [ledger[tip] EXCEPT ![t] = p]]
  <2>1. PICK t \in Things, p \in Places \ {Unminted} :
              ledger' = [ledger EXCEPT ![tip + 1] = [ledger[tip] EXCEPT ![t] = p]]
    BY <1>3
  <2>2. [ledger[tip] EXCEPT ![t] = p] \in [Things -> Places]
    OBVIOUS
  <2> QED
    BY <1>1, <2>1, <2>2
<1> QED
  BY <1>2, <1>3

LEMMA HolderInitInv == HolderInit => HolderInv
<1> SUFFICES ASSUME HolderInit
             PROVE  HolderInv
  OBVIOUS
<1> USE DEF HolderInit, LedgerInit, Versions
<1>1. Cardinality(Things) \in Nat
  BY FS_CardinalityType
<1>2. HolderTypeOK
  BY <1>1 DEF HolderTypeOK, LedgerTypeOK, Places, Errands, Top
<1>3. HistoryInv
  BY DEF HistoryInv
<1>4. TraceInv /\ TraceIsLastHolder /\ ListInv
  BY DEF TraceInv, TraceIsLastHolder, ListInv
<1> QED
  BY <1>2, <1>3, <1>4 DEF HolderInv

LEMMA HolderCommitInv ==
    ASSUME HolderInv, Commit, UNCHANGED holderVars
    PROVE  HolderInv'
<1> USE DEF HolderInv, holderVars
<1>1. /\ LedgerTypeOK'
      /\ tip \in Nat \ {0} /\ tip' = tip + 1
      /\ \A v \in 1 .. tip : ledger'[v] = ledger[v]
      /\ \A t \in Things : ledger'[tip'][t] = Unminted => ledger[tip][t] = Unminted
  BY HistoryGrows DEF HolderTypeOK
<1>2. HolderTypeOK'
  BY <1>1 DEF HolderTypeOK
<1>3. HistoryInv'
  <2> SUFFICES ASSUME NEW t \in Things
               PROVE  /\ ledger'[1][t] # Burned
                      /\ \A v \in 1 .. tip' : ledger'[v][t] = Unminted =>
                            \A w \in 1 .. v : ledger'[w][t] = Unminted
    BY DEF HistoryInv
  <2>1. ledger'[1][t] # Burned
    BY <1>1 DEF HistoryInv
  <2>2. ASSUME NEW v \in 1 .. tip, ledger'[v][t] = Unminted
        PROVE  \A w \in 1 .. v : ledger'[w][t] = Unminted
    BY <1>1, <2>2 DEF HistoryInv
  <2>3. ASSUME ledger'[tip'][t] = Unminted
        PROVE  \A w \in 1 .. tip' : ledger'[w][t] = Unminted
    <3>1. ledger[tip][t] = Unminted /\ tip \in 1 .. tip
      BY <1>1, <2>3
    <3>2. \A w \in 1 .. tip : ledger'[w][t] = Unminted
      BY <1>1, <3>1 DEF HistoryInv
    <3> QED
      BY <1>1, <2>3, <3>2
  <2>4. \A v \in 1 .. tip' : v \in 1 .. tip \/ v = tip'
    BY <1>1
  <2> QED
    BY <2>1, <2>2, <2>3, <2>4
<1>4. from \in 0 .. tip
  BY DEF HolderTypeOK
<1>5. \A v \in 1 .. from : ledger'[v] = ledger[v]
  BY <1>1, <1>4
<1>6. TraceInv'
  BY <1>1, <1>4, <1>5 DEF TraceInv
<1>7. TraceIsLastHolder'
  <2>1. CASE errand = "found"
    <3>1. PICK v \in 1 .. from : /\ ledger[v][nonFungible] = address
                                 /\ \A w \in (v + 1) .. from : ledger[w][nonFungible] = Burned
      BY <2>1 DEF TraceIsLastHolder
    <3>2. ledger'[v][nonFungible] = address
      BY <1>5, <3>1
    <3>3. \A w \in (v + 1) .. from : ledger'[w][nonFungible] = Burned
      BY <1>4, <1>5, <3>1
    <3> QED
      BY <2>1, <3>2, <3>3 DEF TraceIsLastHolder
  <2>2. CASE errand # "found"
    BY <1>5, <2>2 DEF TraceIsLastHolder
  <2> QED
    BY <2>1, <2>2
<1>8. ListInv'
  <2>1. from # 0 => \A a : /\ Place(from, a)' = Place(from, a)
                           /\ Steady(a)' => Steady(a)
    <3> SUFFICES ASSUME from # 0, NEW a
                 PROVE  /\ Place(from, a)' = Place(from, a)
                        /\ Steady(a)' => Steady(a)
      OBVIOUS
    <3>1. \A v \in from .. tip : Amount(v, a)' = Amount(v, a)
      BY <1>1, <1>4 DEF Amount, Held
    <3>2. from \in from .. tip
      BY <1>1, <1>4
    <3>3. Amount(from, a)' = Amount(from, a)
      BY <3>1, <3>2 DEF Amount, Held
    <3>4. Steady(a)' => Steady(a)
      BY <1>1, <1>4, <3>1, <3>3 DEF Steady
    <3> QED
      BY <3>3, <3>4 DEF Place
  <2> QED
    BY <2>1 DEF ListInv, Top, Precedes
<1> QED
  BY <1>2, <1>3, <1>6, <1>7, <1>8

LEMMA BeginHoldersInv ==
    ASSUME HolderInv, BeginHolders
    PROVE  HolderInv'
<1> USE DEF HolderInv, BeginHolders, ledgerVars
<1>1. tip \in Nat \ {0}
  BY DEF HolderTypeOK, LedgerTypeOK, Versions
<1>2. HolderTypeOK'
  BY <1>1 DEF HolderTypeOK, LedgerTypeOK, Errands
<1>3. HistoryInv' /\ TraceInv' /\ TraceIsLastHolder'
  BY DEF HistoryInv, TraceInv, TraceIsLastHolder
<1>4. \A v, a : Precedes(Top, Place(v, a))
  BY AmountType DEF Precedes, Top, Place
<1>5. ListInv'
  <2>1. \A a : Place(from, a)' = Place(tip, a)
    BY DEF Place, Amount, Held
  <2>2. rank' = Top
    BY DEF ListInv
  <2>3. \A a : Precedes(rank, Place(from, a))'
    BY <1>4, <2>1, <2>2 DEF Precedes
  <2> QED
    BY <1>1, <2>3 DEF ListInv
<1> QED
  BY <1>2, <1>3, <1>5

(* A page takes in whoever holds and is not after its last holder.         *)
LEMMA HoldersPageInv ==
    ASSUME HolderInv, HoldersPage
    PROVE  HolderInv'
<1> USE DEF HolderInv, HoldersPage, ledgerVars
<1>1. tip \in Nat \ {0} /\ from \in 0 .. tip /\ from # 0
  BY DEF HolderTypeOK, LedgerTypeOK, Versions, ListInv
<1> DEFINE rest == HoldersAfter(tip, rank)
<1>2. HistoryInv' /\ TraceInv' /\ TraceIsLastHolder'
  BY DEF HistoryInv, TraceInv, TraceIsLastHolder
<1>3. ASSUME NEW a \in Accounts, Steady(a)
      PROVE  Place(tip, a) = Place(from, a) /\ Held(tip, a) # {}
  <2>1. Amount(tip, a) = Amount(from, a) /\ Amount(from, a) > 0
    BY <1>1, <1>3 DEF Steady
  <2> QED
    BY <2>1, AmountType DEF Place
<1>4. \A a \in Accounts : Steady(a) => holders[a] # 0 \/ a \in rest
  <2> SUFFICES ASSUME NEW a \in Accounts, Steady(a), holders[a] = 0
               PROVE  a \in rest
    OBVIOUS
  <2>1. Precedes(rank, Place(from, a))
    BY DEF ListInv
  <2> QED
    BY <1>3, <2>1 DEF HoldersAfter
<1>5. \A a : Steady(a)' = Steady(a) /\ Place(from, a)' = Place(from, a)
  BY DEF Steady, Place, Amount, Held
<1>6. CASE rest = {}
  <2>1. errand' = "listed" /\ UNCHANGED <<holders, rank>>
    BY <1>6
  <2>2. HolderTypeOK'
    BY <2>1 DEF HolderTypeOK, LedgerTypeOK, Errands
  <2>3. ListInv'
    BY <1>1, <1>4, <1>5, <1>6, <2>1 DEF ListInv
  <2> QED
    BY <1>2, <2>2, <2>3
<1>7. ASSUME NEW z \in rest,
             holders' = Keep({b \in rest : ~ Precedes(Place(tip, z), Place(tip, b))}),
             rank' = Place(tip, z),
             errand' = IF Goes(Place(tip, z)) THEN "holders" ELSE "listed"
      PROVE  HolderInv'
  <2>1. HolderTypeOK'
    <3>1. holders' \in [Accounts -> 0 .. tip]
      BY <1>1, <1>7 DEF Keep, HolderTypeOK
    <3>2. rank' \in (0 .. Cardinality(Things) + 1) \X (Accounts \cup {0})
      BY <1>7, AmountType DEF Place, HoldersAfter
    <3> QED
      BY <1>7, <3>1, <3>2 DEF HolderTypeOK, LedgerTypeOK, Errands
  <2>2. \A a \in Accounts : Steady(a) =>
            holders'[a] # 0 \/ (a \in rest /\ Precedes(rank', Place(from, a)))
    <3> SUFFICES ASSUME NEW a \in Accounts, Steady(a),
                        ~ (a \in rest /\ Precedes(rank', Place(from, a)))
                 PROVE  holders'[a] # 0
      OBVIOUS
    <3>1. Place(tip, a) = Place(from, a)
      BY <1>3
    <3>2. CASE a \in rest
      BY <1>1, <1>7, <3>1, <3>2 DEF Keep
    <3>3. CASE a \notin rest
      BY <1>1, <1>4, <1>7, <3>3 DEF Keep
    <3> QED
      BY <3>2, <3>3
  <2>3. errand' = "listed" => \A a \in Accounts : Steady(a) => holders'[a] # 0
    <3> SUFFICES ASSUME errand' = "listed", NEW a \in Accounts, Steady(a), holders'[a] = 0
                 PROVE  FALSE
      OBVIOUS
    <3>1. Precedes(rank', Place(from, a))
      BY <2>2
    <3>2. a \in HoldersAfter(tip, rank')
      BY <1>3, <3>1 DEF HoldersAfter
    <3> QED
      BY <1>7, <3>2 DEF Goes
  <2>4. ListInv'
    BY <1>1, <1>5, <1>7, <2>2, <2>3 DEF ListInv, Precedes
  <2> QED
    BY <1>2, <2>1, <2>4
<1> QED
  BY <1>6, <1>7

LEMMA BeginTraceInv ==
    ASSUME HolderInv, BeginTrace
    PROVE  HolderInv'
<1> USE DEF HolderInv, BeginTrace, ledgerVars
<1>1. tip \in Nat \ {0}
  BY DEF HolderTypeOK, LedgerTypeOK, Versions
<1>2. HolderTypeOK'
  BY <1>1 DEF HolderTypeOK, LedgerTypeOK, Errands
<1>3. nextVersion' \in 0 .. tip /\ from' = nextVersion' /\ errand' = "trace"
  OBVIOUS
<1>4. HistoryInv' /\ TraceIsLastHolder' /\ ListInv'
  BY DEF HistoryInv, TraceIsLastHolder, ListInv
<1>5. TraceInv'
  <2>1. nonFungible' \in Things
    OBVIOUS
  <2>2. from' # 0 =>
            nextVersion' \in 1 .. from' /\ \A v \in (nextVersion' + 1) .. from' : FALSE
    <3>1. \A n \in Nat : n # 0 => n \in 1 .. n /\ \A v \in (n + 1) .. n : FALSE
      OBVIOUS
    <3>2. nextVersion' \in Nat
      BY <1>1, <1>3
    <3> QED
      BY <1>3, <3>1, <3>2
  <2>3. from' = 0 => nextVersion' = 0
    BY <1>3
  <2> HIDE DEF HolderInv, BeginTrace
  <2> QED
    BY <1>3, <2>1, <2>2, <2>3 DEF TraceInv
<1> QED
  BY <1>2, <1>4, <1>5

(* The first version is not a burned one, so the walk stays on the ledger. *)
LEMMA LocateInv ==
    ASSUME HolderInv, Locate
    PROVE  HolderInv'
<1> USE DEF HolderInv, Locate, ledgerVars
<1> DEFINE w == LocatedAt
           place == ledger[w][nonFungible]
<1>1. tip \in Nat \ {0} /\ nonFungible \in Things /\ errand = "trace"
  BY DEF HolderTypeOK, LedgerTypeOK, Versions, TraceInv
<1>2. /\ from' \in 1 .. tip /\ w \in 1 .. from'
      /\ \A v \in (w + 1) .. from' : ledger[v][nonFungible] = Burned
  <2>1. CASE from = 0
    BY <1>1, <2>1 DEF LocatedAt, TraceInv
  <2>2. CASE from # 0
    BY <1>1, <2>2 DEF LocatedAt, TraceInv, HolderTypeOK
  <2> QED
    BY <2>1, <2>2
<1>3. HistoryInv' /\ ListInv'
  BY DEF HistoryInv, ListInv
<1>4. UNCHANGED <<tip, ledger, holders, rank, nonFungible>>
  OBVIOUS
<1> HIDE DEF w
<1>5. CASE place = Unminted /\ errand' = "notFound" /\ UNCHANGED <<nextVersion, address>>
  <2>1. \A v \in 1 .. w : ledger[v][nonFungible] = Unminted
    BY <1>1, <1>2, <1>5 DEF HistoryInv
  <2>2. \A v \in 1 .. from' : v \in 1 .. w \/ v \in (w + 1) .. from'
    BY <1>2
  <2>3. \A v \in 1 .. from' : ledger[v][nonFungible] \notin Accounts
    BY <1>2, <2>1, <2>2
  <2>4. TraceInv' /\ TraceIsLastHolder'
    BY <1>1, <1>4, <1>5, <2>3 DEF TraceInv, TraceIsLastHolder
  <2>5. HolderTypeOK'
    BY <1>1, <1>2, <1>4, <1>5 DEF HolderTypeOK, LedgerTypeOK, Errands
  <2> QED
    BY <1>3, <2>4, <2>5
<1>6. CASE place = Burned /\ nextVersion' = Earlier(w) /\ UNCHANGED <<errand, address>>
  <2>1. w # 1
    BY <1>1, <1>6 DEF HistoryInv
  <2>2. w \in Nat /\ 1 < w /\ from' \in Nat /\ w <= from' /\ from' <= tip
    BY <1>1, <1>2, <2>1
  <2>3. /\ nextVersion' \in 1 .. from' /\ nextVersion' \in 0 .. tip
        /\ \A v \in (nextVersion' + 1) .. from' : v = w \/ v \in (w + 1) .. from'
    <3>1. nextVersion' = w - 1
      BY <1>6 DEF Earlier
    <3> HIDE DEF HolderInv, Locate, place
    <3> QED
      BY <1>1, <2>2, <3>1
  <2>4. \A v \in (nextVersion' + 1) .. from' : ledger[v][nonFungible] = Burned
    BY <1>2, <1>6, <2>3
  <2>5. TraceInv' /\ TraceIsLastHolder'
    BY <1>1, <1>2, <1>4, <1>6, <2>3, <2>4 DEF TraceInv, TraceIsLastHolder
  <2>6. HolderTypeOK'
    BY <1>1, <1>2, <1>4, <1>6, <2>3 DEF HolderTypeOK, LedgerTypeOK, Errands
  <2> QED
    BY <1>3, <2>5, <2>6
<1>7. CASE /\ place \in Accounts /\ errand' = "found"
           /\ nextVersion' = Earlier(w) /\ address' = place
  <2>1. nextVersion' \in 0 .. tip
    BY <1>1, <1>2, <1>7 DEF Earlier
  <2>2. HolderTypeOK'
    BY <1>1, <1>2, <1>4, <1>7, <2>1 DEF HolderTypeOK, LedgerTypeOK, Errands
  <2>3. TraceInv' /\ TraceIsLastHolder'
    BY <1>1, <1>2, <1>4, <1>7 DEF TraceInv, TraceIsLastHolder
  <2> QED
    BY <1>3, <2>2, <2>3
<1> QED
  BY <1>5, <1>6, <1>7 DEF w

LEMMA ReadFailsInv ==
    ASSUME HolderInv, ReadFails \/ UNCHANGED allHolderVars
    PROVE  HolderInv'
<1> USE DEF HolderInv, ReadFails, allHolderVars, holderVars, ledgerVars
<1>1. HolderTypeOK'
  BY DEF HolderTypeOK, LedgerTypeOK, Errands
<1>2. HistoryInv' /\ TraceInv' /\ TraceIsLastHolder'
  BY DEF HistoryInv, TraceInv, TraceIsLastHolder
<1>3. \A a : Steady(a)' = Steady(a) /\ Place(from, a)' = Place(from, a)
  BY DEF Steady, Place, Amount, Held
<1>4. ListInv'
  BY <1>3 DEF ListInv, Precedes
<1> QED
  BY <1>1, <1>2, <1>4

LEMMA HolderNextInv == HolderInv /\ [HolderNext]_allHolderVars => HolderInv'
  BY HolderCommitInv, BeginHoldersInv, HoldersPageInv, BeginTraceInv, LocateInv, ReadFailsInv
     DEF HolderNext, HolderStep

LEMMA HolderInvHolds == HolderSpec => []HolderInv
  BY HolderInitInv, HolderNextInv, PTL DEF HolderSpec

-----------------------------------------------------------------------------
(* Theorems *)

(* Every variable keeps its type: no version below the first is asked for. *)
THEOREM HolderTypeCorrect == HolderSpec => []HolderTypeOK
<1>1. HolderInv => HolderTypeOK
  BY DEF HolderInv
<1> QED
  BY <1>1, HolderInvHolds, PTL

(* The walk to earlier versions ends at the last holder.                   *)
THEOREM TraceCorrect == HolderSpec => []TraceIsLastHolder
<1>1. HolderInv => TraceIsLastHolder
  BY DEF HolderInv
<1> QED
  BY <1>1, HolderInvHolds, PTL

(* Whoever holds steadily while the pages are read is found.               *)
THEOREM HoldersCorrect == HolderSpec => []SteadyHoldersFound
<1>1. HolderInv => SteadyHoldersFound
  BY DEF HolderInv, ListInv, SteadyHoldersFound, Steady
<1> QED
  BY <1>1, HolderInvHolds, PTL

-----------------------------------------------------------------------------
(* What the end of the reads rests on *)

(* The order of the pages is an order: no page comes after itself, whatever*)
(* number of rounds lies between.                                          *)
LEMMA PrecedesIsOrder ==
    ASSUME NEW r \in Nat \X Nat, NEW s \in Nat \X Nat, NEW t \in Nat \X Nat
    PROVE  /\ ~ Precedes(r, r)
           /\ Precedes(r, s) /\ Precedes(s, t) => Precedes(r, t)
  BY DEF Precedes

(* A round that is not the last comes further down among the holders; the  *)
(* walk goes to an earlier version, and never back to the current one.     *)
Onwards ==
    \/ ~ HolderReading'
    \/ errand = "holders" /\ Precedes(rank, rank')
    \/ errand = "trace" /\ nextVersion' \in 1 .. (LocatedAt - 1)

(* Answers bring a read onwards, and nothing else moves it but an error.   *)
HoldersGoOn ==
    [][IF HolderStep THEN Onwards
       ELSE HolderReading /\ HolderReading' =>
                UNCHANGED <<errand, rank, nextVersion>>]_allHolderVars

(* Each answer brings a read of holders or a walk nearer to its end, and   *)
(* no transaction that others make sets it back, although the pages are of *)
(* different versions and the version 0 stands for the current one.        *)
THEOREM HoldersComeToAnEnd == HolderSpec => HoldersGoOn
<1>1. ASSUME HolderInv, HoldersPage
      PROVE  Onwards
  <2>1. CASE errand' = "listed"
    BY <2>1 DEF Onwards, HolderReading
  <2>2. CASE \E a \in HoldersAfter(tip, rank) : rank' = Place(tip, a)
    BY <1>1, <2>2 DEF HoldersAfter, HoldersPage, Onwards
  <2> QED
    BY <1>1, <2>1, <2>2 DEF HoldersPage
<1>2. ASSUME HolderInv, Locate
      PROVE  Onwards
  <2>1. tip \in Nat \ {0} /\ nonFungible \in Things /\ from \in 0 .. tip
    BY <1>2 DEF HolderInv, HolderTypeOK, LedgerTypeOK, Versions, TraceInv, Locate
  <2>2. LocatedAt \in Nat \ {0}
    BY <1>2, <2>1 DEF HolderInv, LocatedAt, TraceInv, Locate
  <2>3. CASE ledger[LocatedAt][nonFungible] = Burned /\ nextVersion' = Earlier(LocatedAt)
    <3>1. LocatedAt # 1
      BY <2>1, <2>3, <1>2 DEF HolderInv, HistoryInv
    <3>2. nextVersion' \in 1 .. (LocatedAt - 1)
      BY <2>2, <2>3, <3>1 DEF Earlier
    <3> QED
      BY <1>2, <3>2 DEF Onwards, Locate
  <2>4. CASE errand' \in {"found", "notFound"}
    BY <2>4 DEF Onwards, HolderReading
  <2> QED
    BY <1>2, <2>3, <2>4 DEF Locate
<1>3. ASSUME [HolderNext]_allHolderVars, ~ HolderStep, HolderReading, HolderReading'
      PROVE  UNCHANGED <<errand, rank, nextVersion>>
  BY <1>3 DEF HolderNext, HolderReading, BeginHolders, BeginTrace, ReadFails,
              allHolderVars, holderVars
<1>4. HolderInv /\ [HolderNext]_allHolderVars =>
        [IF HolderStep THEN Onwards
         ELSE HolderReading /\ HolderReading' =>
                  UNCHANGED <<errand, rank, nextVersion>>]_allHolderVars
  BY <1>1, <1>2, <1>3 DEF HolderStep
<1> QED
  BY <1>4, HolderInvHolds, PTL DEF HolderSpec, HoldersGoOn

=============================================================================
