--------------------------- MODULE LedgerReadsProofs ---------------------------
(* Type correctness and the safety properties of LedgerReads, and the proof*)
(* that its reads implement AtomicRead.                                    *)
EXTENDS LedgerReads, TLAPS

USE LedgerAssumption, ReadsAssumption

(* The versions that an answer may be of.                                  *)
Span == since .. (IF at = 0 THEN tip ELSE at)

(* What the pages up to a cursor bring, and an address read at version v.  *)
UpTo(v, a, last) ==
    IF last = NoCursor THEN Listing(v, a) ELSE {x \in Listing(v, a) : x <= last}
Read(v, a) == got[a] = UpTo(v, a, cursor[a]) \X {v}

(* Before there is a version nothing is read; then the version stays.      *)
BeginInv ==
    /\ stage \in {"idle", "status"} =>
        /\ since = 0
        /\ at = 0
        /\ \A a \in Accounts : seen[a] = 0 /\ got[a] = {} /\ described[a] = {}
    /\ stage \in {"details", "pages", "data", "done", "died"} => since # 0
    /\ at # 0 => since = at
    /\ (kind = "entries" /\ stage # "idle") => \E a \in Accounts : asked = {a}

DetailsInv ==
    stage = "details" =>
        /\ \A a \in Accounts : described[a] = {}
        /\ \A a \in asked : seen[a] # 0 => seen[a] \in Span /\ Read(seen[a], a)
        /\ Exact => \A a, b \in asked :
                        (seen[a] # 0 /\ seen[b] # 0) => seen[a] = seen[b]

(* All pages are read at the pinned version, as the first ones were if the *)
(* read is exact or of a store.                                            *)
PagesInv ==
    (stage \in {"pages", "data", "done"} /\ asked # {}) =>
        /\ pin \in Span
        /\ pin # 0
        /\ (Exact \/ kind = "entries") => \A a \in asked : Read(pin, a)

ItemsInv ==
    \A a \in Accounts : \A x \in got[a] :
        x[2] \in Span /\ x[1] \in Listing(x[2], a)

DataInv ==
    /\ \A a \in Accounts :
        /\ Names(described[a]) \subseteq Names(got[a])
        /\ \A x \in described[a] : x[2] \in 1 .. tip
    /\ stage \in {"data", "done"} => \A a \in asked : cursor[a] = NoCursor
    /\ stage = "done" /\ kind = "entries" =>
        \A a \in asked : Names(got[a]) \subseteq Names(described[a])

ReadInv ==
    TypeOK /\ BeginInv /\ DetailsInv /\ PagesInv /\ ItemsInv /\ DataInv /\ DataOfHeld

-----------------------------------------------------------------------------
LEMMA ThingsType == \A x \in Things : x \in Nat /\ 0 < x
  OBVIOUS

LEMMA ListingType ==
    ASSUME NEW v, NEW a
    PROVE  Listing(v, a) \subseteq Things
  BY DEF Listing, Listed, Held

LEMMA CursorType ==
    ASSUME NEW x \in Things \cup {0, NoCursor}, x # NoCursor
    PROVE  x \in Nat
<1>1. CASE x \in Things
  BY <1>1, ThingsType
<1>2. CASE x = 0
  BY <1>2
<1> QED
  BY <1>1, <1>2

(* A page goes on where the one before it has ended.                       *)
LEMMA ItemsGoOn ==
    ASSUME NEW list \in SUBSET Nat, NEW n \in Nat, NEW next,
           next # NoCursor => next \in Nat /\ n < next
    PROVE  {x \in list : x <= n} \cup Items(list, n, next)
                = IF next = NoCursor THEN list ELSE {x \in list : x <= next}
<1>1. CASE next = NoCursor
  <2>1. \A x \in list : x <= n \/ n < x
    OBVIOUS
  <2>2. Items(list, n, next) = {x \in list : n < x}
    BY <1>1 DEF Items, After
  <2> QED
    BY <1>1, <2>1, <2>2
<1>2. CASE next # NoCursor
  <2>1. \A x \in list : (x <= n \/ (n < x /\ x <= next)) <=> x <= next
    BY <1>2
  <2> QED
    BY <1>2, <2>1 DEF Items, PageTo, After
<1> QED
  BY <1>1, <1>2

(* A commit changes no version that there is.                              *)
LEMMA CommitKeeps ==
    ASSUME LedgerTypeOK, Commit
    PROVE  /\ LedgerTypeOK'
           /\ tip' = tip + 1
           /\ \A v \in 1 .. tip : ledger'[v] = ledger[v]
<1> USE DEF LedgerTypeOK, Commit, Versions, Places, Onward
<1>1. tip \in Nat /\ MaxVersion \in Nat /\ tip' \in Versions /\ tip' = tip + 1
  OBVIOUS
<1>2. CASE ledger' = [ledger EXCEPT ![tip + 1] = ledger[tip]]
  BY <1>1, <1>2
<1>3. CASE \E t \in Things : \E p \in Onward(ledger[tip][t]) :
              ledger' = [ledger EXCEPT ![tip + 1] = [ledger[tip] EXCEPT ![t] = p]]
  <2>1. PICK t \in Things, p \in Places :
              ledger' = [ledger EXCEPT ![tip + 1] = [ledger[tip] EXCEPT ![t] = p]]
    BY <1>3
  <2>2. [ledger[tip] EXCEPT ![t] = p] \in [Things -> Places]
    OBVIOUS
  <2> QED
    BY <1>1, <2>1, <2>2
<1> QED
  BY <1>2, <1>3

LEMMA CommitKeepsListing ==
    ASSUME LedgerTypeOK, Commit, UNCHANGED kind, NEW v \in 1 .. tip, NEW a
    PROVE  Held(v, a)' = Held(v, a) /\ Listing(v, a)' = Listing(v, a)
<1>1. v \in 1 .. v /\ \A w \in 1 .. v : ledger'[w] = ledger[w]
  BY CommitKeeps DEF LedgerTypeOK, Versions
<1>2. Held(v, a)' = Held(v, a)
  BY <1>1 DEF Held
<1>3. Listed(v, a)' = Listed(v, a)
  BY <1>1 DEF Listed
<1> QED
  BY <1>2, <1>3 DEF Listing

(* What a call with first pages, and one with a next page, changes.        *)
LEMMA FirstPagesGive ==
    ASSUME TypeOK, NEW S \in SUBSET Accounts, NEW v \in 1 .. tip, FirstPages(S, v)
    PROVE  /\ seen' \in [Accounts -> 0 .. tip]
           /\ cursor' \in [Accounts -> Things \cup {0, NoCursor}]
           /\ got' \in [Accounts -> SUBSET PairsOf]
           /\ \A a \in S : seen'[a] = v /\ got'[a] = UpTo(v, a, cursor'[a]) \X {v}
           /\ \A a \in Accounts \ S :
                seen'[a] = seen[a] /\ got'[a] = got[a] /\ cursor'[a] = cursor[a]
<1>0. /\ tip \in Versions /\ tip \in Nat /\ v \in Versions
      /\ seen \in [Accounts -> 0 .. tip]
      /\ cursor \in [Accounts -> Things \cup {0, NoCursor}]
      /\ got \in [Accounts -> SUBSET PairsOf]
  BY DEF TypeOK, LedgerTypeOK, Versions
<1>1. PICK next \in [S -> Things \cup {NoCursor}] :
        /\ \A a \in S : next[a] \in Cursors(Listing(v, a), 0)
        /\ seen' = [a \in Accounts |-> IF a \in S THEN v ELSE seen[a]]
        /\ cursor' = [a \in Accounts |-> IF a \in S THEN next[a] ELSE cursor[a]]
        /\ got' = [a \in Accounts |->
                IF a \in S THEN Items(Listing(v, a), 0, next[a]) \X {v}
                ELSE got[a]]
  BY Zenon DEF FirstPages
<1>2. \A a \in S : Items(Listing(v, a), 0, next[a]) = UpTo(v, a, next[a])
  <2> SUFFICES ASSUME NEW a \in S
               PROVE  Items(Listing(v, a), 0, next[a]) = UpTo(v, a, next[a])
    OBVIOUS
  <2>1. \A x \in Listing(v, a) : x \in Nat /\ 0 < x
    <3>1. Listing(v, a) \subseteq Things
      BY ListingType
    <3> QED
      BY <3>1, ThingsType
  <2> QED
    BY <1>1, <2>1 DEF Items, UpTo, After, PageTo
<1>3. \A a \in S : UpTo(v, a, next[a]) \subseteq Things
  BY ListingType DEF UpTo
<1>4. \A a \in S : UpTo(v, a, next[a]) \X {v} \subseteq PairsOf
  BY <1>0, <1>3 DEF PairsOf
<1>5. \A a \in S : next[a] \in Things \cup {NoCursor}
  BY <1>1
<1>6. \A a \in S : Items(Listing(v, a), 0, next[a]) \X {v} = UpTo(v, a, next[a]) \X {v}
  BY <1>2
<1>7. got' \in [Accounts -> SUBSET PairsOf]
  BY <1>0, <1>1, <1>4, <1>6
<1>8. seen' \in [Accounts -> 0 .. tip] /\ cursor' \in [Accounts -> Things \cup {0, NoCursor}]
  BY <1>0, <1>1, <1>5
<1>9. \A a \in S : seen'[a] = v /\ got'[a] = UpTo(v, a, cursor'[a]) \X {v}
  BY <1>1, <1>6
<1>10. \A a \in Accounts \ S :
            seen'[a] = seen[a] /\ got'[a] = got[a] /\ cursor'[a] = cursor[a]
  BY <1>1
<1> QED
  BY <1>7, <1>8, <1>9, <1>10

LEMMA NextPageGives ==
    ASSUME TypeOK, NEW a \in Accounts, NEW v \in 1 .. tip, NextPage(a, v)
    PROVE  /\ cursor' \in [Accounts -> Things \cup {0, NoCursor}]
           /\ got' \in [Accounts -> SUBSET PairsOf]
           /\ \A b \in Accounts \ {a} : got'[b] = got[b] /\ cursor'[b] = cursor[b]
           /\ got[a] \subseteq got'[a]
           /\ \A x \in got'[a] : x \in got[a] \/ (x[2] = v /\ x[1] \in Listing(v, a))
           /\ Read(v, a) => got'[a] = UpTo(v, a, cursor'[a]) \X {v}
<1>0. /\ v \in Versions
      /\ cursor \in [Accounts -> Things \cup {0, NoCursor}]
      /\ got \in [Accounts -> SUBSET PairsOf]
  BY DEF TypeOK, LedgerTypeOK, Versions
<1> DEFINE list == Listing(v, a)
<1>1. list \subseteq Things /\ list \subseteq Nat
  BY ListingType
<1>2. PICK next \in Cursors(list, cursor[a]) :
        /\ cursor' = [cursor EXCEPT ![a] = next]
        /\ got' = [got EXCEPT ![a] =
                @ \cup (Items(list, cursor[a], next) \X {v})]
  BY Zenon DEF NextPage
<1>3. cursor[a] # NoCursor /\ cursor[a] \in Nat
  <2>1. cursor[a] # NoCursor
    BY DEF NextPage
  <2>2. cursor[a] \in Things \cup {0, NoCursor}
    BY <1>0
  <2> QED
    BY <2>1, <2>2, CursorType
<1>4. next = NoCursor \/ (next \in list /\ cursor[a] < next)
  BY <1>2 DEF Cursors, PageEnds, After
<1> HIDE DEF list
<1>5. Items(list, cursor[a], next) \subseteq list
  BY DEF Items, After, PageTo
<1>6. {x \in list : x <= cursor[a]} \cup Items(list, cursor[a], next)
        = IF next = NoCursor THEN list ELSE {x \in list : x <= next}
  <2>1. next # NoCursor => next \in Nat /\ cursor[a] < next
    BY <1>1, <1>4
  <2> QED
    BY <1>1, <1>3, <2>1, ItemsGoOn
<1>7. Items(list, cursor[a], next) \X {v} \subseteq PairsOf
  BY <1>0, <1>1, <1>5 DEF PairsOf
<1>8. got' \in [Accounts -> SUBSET PairsOf]
  BY <1>0, <1>2, <1>7
<1>9. Read(v, a) => got'[a] = UpTo(v, a, cursor'[a]) \X {v}
  <2>1. Read(v, a) => got[a] = {x \in list : x <= cursor[a]} \X {v}
    BY <1>3 DEF Read, UpTo, list
  <2>2. UpTo(v, a, cursor'[a])
            = {x \in list : x <= cursor[a]} \cup Items(list, cursor[a], next)
    BY <1>0, <1>2, <1>6 DEF UpTo, list
  <2> QED
    BY <1>0, <1>2, <2>1, <2>2
<1>10. \A x \in got'[a] : x \in got[a] \/ (x[2] = v /\ x[1] \in list)
  BY <1>0, <1>2, <1>5
<1>11. cursor' \in [Accounts -> Things \cup {0, NoCursor}]
  BY <1>0, <1>1, <1>2, <1>4
<1> QED
  BY <1>0, <1>2, <1>8, <1>9, <1>10, <1>11 DEF list

-----------------------------------------------------------------------------
(* The invariant *)

LEMMA InitInv == Init => ReadInv
<1> SUFFICES ASSUME Init
             PROVE  ReadInv
  OBVIOUS
<1>1. LedgerTypeOK
  BY DEF Init, LedgerInit, LedgerTypeOK, Versions, Places
<1>2. TypeOK
  BY <1>1 DEF Init, LedgerInit, TypeOK, Stages, PairsOf
<1>3. BeginInv /\ DetailsInv /\ PagesInv /\ ItemsInv /\ DataOfHeld
  BY DEF Init, BeginInv, DetailsInv, PagesInv, ItemsInv, DataOfHeld
<1>4. DataInv
  BY DEF Init, DataInv, Names
<1> QED
  BY <1>2, <1>3, <1>4 DEF ReadInv

LEMMA CommitInv ==
    ASSUME ReadInv, Commit, UNCHANGED readVars
    PROVE  ReadInv'
<1> USE DEF ReadInv, readVars, input, answers
<1>1. /\ LedgerTypeOK' /\ tip' = tip + 1 /\ tip \in Nat
      /\ \A v \in 1 .. tip : ledger'[v] = ledger[v]
  BY CommitKeeps DEF TypeOK, LedgerTypeOK, Versions
<1>2. TypeOK'
  BY <1>1 DEF TypeOK, PairsOf
<1>3. BeginInv'
  BY DEF BeginInv
<1>4. Span \subseteq Span' /\ \A v \in Span : v \in 0 .. tip
  BY <1>1 DEF Span, TypeOK
<1>5. \A v \in 1 .. tip : \A a : Listing(v, a)' = Listing(v, a)
  BY CommitKeepsListing DEF TypeOK
<1>6. \A v \in 1 .. tip : \A a : Read(v, a) => Read(v, a)'
  BY <1>5 DEF Read, UpTo
<1>7. Exact' = Exact
  BY DEF Exact, Chunks, ChunkOf
<1>8. DetailsInv'
  BY <1>1, <1>4, <1>6, <1>7 DEF DetailsInv, TypeOK
<1>9. PagesInv'
  BY <1>1, <1>4, <1>6, <1>7 DEF PagesInv, TypeOK
<1>10. ItemsInv'
  <2> SUFFICES ASSUME NEW a \in Accounts, NEW x \in got[a]
               PROVE  x[2] \in Span' /\ x[1] \in Listing(x[2], a)'
    BY DEF ItemsInv
  <2>1. x[2] \in Span /\ x[1] \in Listing(x[2], a) /\ x[2] \in Versions
    BY DEF ItemsInv, TypeOK, PairsOf
  <2>2. x[2] \in 1 .. tip
    BY <1>1, <1>4, <2>1 DEF Versions
  <2> QED
    BY <1>4, <1>5, <2>1, <2>2
<1>11. DataInv'
  <2>1. 1 .. tip \subseteq 1 .. tip'
    BY <1>1
  <2> QED
    BY <2>1 DEF DataInv, Names
<1>12. DataOfHeld'
  <2> SUFFICES ASSUME kind = "entries" \/ at # 0,
                      NEW a \in Accounts, a \in asked, NEW x \in described[a]
               PROVE  ledger'[x[2]][x[1]] = a
    BY DEF DataOfHeld, TypeOK
  <2>1. ledger[x[2]][x[1]] = a
    BY DEF DataOfHeld
  <2>2. x[2] \in 1 .. tip
    BY DEF DataInv
  <2> QED
    BY <1>1, <2>1, <2>2
<1> QED
  BY <1>2, <1>3, <1>8, <1>9, <1>10, <1>11, <1>12

(* The read begins, or learns its version.                                 *)
LEMMA BeginReadInv ==
    ASSUME ReadInv, BeginRead
    PROVE  ReadInv'
<1> USE DEF ReadInv, BeginRead, answers, ledgerVars
<1>1. tip \in Nat \ {0}
  BY DEF TypeOK, LedgerTypeOK, Versions
<1>2. TypeOK'
  BY <1>1 DEF TypeOK, LedgerTypeOK, Stages
<1>3. \A a \in Accounts : seen'[a] = 0 /\ got'[a] = {} /\ described'[a] = {}
  BY DEF BeginInv
<1>4. BeginInv'
  BY <1>1 DEF BeginInv, TypeOK
<1>5. DetailsInv' /\ PagesInv' /\ ItemsInv' /\ DataOfHeld'
  BY <1>2, <1>3 DEF DetailsInv, PagesInv, ItemsInv, DataOfHeld, TypeOK
<1>6. DataInv'
  BY <1>3 DEF DataInv, Names
<1> QED
  BY <1>2, <1>4, <1>5, <1>6

LEMMA StatusInv ==
    ASSUME ReadInv, BeginAtStatus \/ AccountStatus
    PROVE  ReadInv'
<1> USE DEF ReadInv, BeginAtStatus, AccountStatus, answers, ledgerVars
<1>1. tip \in Nat \ {0}
  BY DEF TypeOK, LedgerTypeOK, Versions
<1>2. TypeOK'
  <2>1. CASE BeginAtStatus
    BY <2>1 DEF TypeOK, LedgerTypeOK, Stages
  <2>2. CASE AccountStatus
    BY <1>1, <2>2 DEF TypeOK, LedgerTypeOK, Stages
  <2> QED
    BY <2>1, <2>2
<1>3. \A a \in Accounts : seen'[a] = 0 /\ got'[a] = {} /\ described'[a] = {}
  BY DEF BeginInv
<1>4. BeginInv'
  BY <1>1, <1>3 DEF BeginInv, TypeOK
<1>5. DetailsInv' /\ PagesInv' /\ ItemsInv' /\ DataOfHeld'
  BY <1>2, <1>3 DEF DetailsInv, PagesInv, ItemsInv, DataOfHeld, TypeOK
<1>6. DataInv'
  BY <1>3 DEF DataInv, Names
<1> QED
  BY <1>2, <1>4, <1>5, <1>6

LEMMA TokensStatusInv ==
    ASSUME ReadInv, TokensStatus
    PROVE  ReadInv'
<1> USE DEF ReadInv, TokensStatus, ledgerVars
<1>1. tip \in Nat \ {0}
  BY DEF TypeOK, LedgerTypeOK, Versions
<1>2. TypeOK'
  BY <1>1 DEF TypeOK, LedgerTypeOK, Stages
<1>3. \A a \in Accounts : seen'[a] = 0 /\ got'[a] = {} /\ described'[a] = {}
  BY DEF BeginInv
<1>4. BeginInv'
  BY <1>1 DEF BeginInv, TypeOK
<1>5. \A a \in asked : Read(pin, a)'
  <2> SUFFICES ASSUME NEW a \in asked
               PROVE  got'[a] = UpTo(pin, a, 0)' \X {pin'}
    BY DEF Read, TypeOK
  <2>1. Listing(pin, a)' \subseteq Things
    BY ListingType DEF Listing, Listed, Held
  <2>2. \A x \in Things : ~ (x <= 0)
    BY ThingsType
  <2>3. UpTo(pin, a, 0)' = {}
    <3>1. 0 # NoCursor
      OBVIOUS
    <3>2. UpTo(pin, a, 0)' = {x \in Listing(pin, a)' : x <= 0}
      BY <3>1 DEF UpTo
    <3> QED
      BY <2>1, <2>2, <3>2
  <2> QED
    BY <1>3, <2>3 DEF TypeOK
<1>6. PagesInv'
  BY <1>1, <1>5 DEF PagesInv, Span
<1>7. DetailsInv' /\ ItemsInv' /\ DataOfHeld'
  BY <1>2, <1>3 DEF DetailsInv, ItemsInv, DataOfHeld, TypeOK
<1>8. DataInv'
  BY <1>3 DEF DataInv, Names
<1> QED
  BY <1>2, <1>4, <1>6, <1>7, <1>8

(* First pages: an exact read without a version asks for all of them in one*)
(* call.                                                                   *)
LEMMA FirstPagesInv ==
    ASSUME ReadInv, stage = "details", NEW S \in SUBSET asked,
           (Exact /\ at = 0) => S = asked,
           FirstPages(S, AnsweredAt(at)),
           UNCHANGED <<ledgerVars, input, stage, pin, described>>
    PROVE  ReadInv'
<1> USE DEF ReadInv, ledgerVars, input
<1> DEFINE v == AnsweredAt(at)
<1>1. tip \in Nat /\ v \in 1 .. tip /\ v \in Span /\ S \subseteq Accounts
      /\ since \in Nat /\ at \in Nat
  BY DEF AnsweredAt, Span, TypeOK, LedgerTypeOK, Versions, BeginInv
<1> HIDE DEF v
<1>2. /\ seen' \in [Accounts -> 0 .. tip]
      /\ cursor' \in [Accounts -> Things \cup {0, NoCursor}]
      /\ got' \in [Accounts -> SUBSET PairsOf]
      /\ \A a \in S : seen'[a] = v /\ got'[a] = UpTo(v, a, cursor'[a]) \X {v}
      /\ \A a \in Accounts \ S :
                seen'[a] = seen[a] /\ got'[a] = got[a] /\ cursor'[a] = cursor[a]
  BY <1>1, FirstPagesGive DEF v
<1>3. TypeOK'
  BY <1>2 DEF TypeOK, LedgerTypeOK, PairsOf
<1>4. BeginInv' /\ PagesInv' /\ \A a \in Accounts : described'[a] = {}
  BY DEF BeginInv, PagesInv, DetailsInv
<1>5. Span' = Span /\ Exact' = Exact
  BY DEF Span, Exact, Chunks, ChunkOf
<1>6. \A w, a, n : UpTo(w, a, n)' = UpTo(w, a, n')
  BY DEF UpTo, Listing, Listed, Held
<1>7. DetailsInv'
  <2>1. ASSUME NEW a \in asked, seen'[a] # 0
        PROVE  seen'[a] \in Span /\ got'[a] = UpTo(seen'[a], a, cursor'[a]) \X {seen'[a]}
    <3>1. CASE a \in S
      BY <1>1, <1>2, <3>1
    <3>2. CASE a \notin S
      BY <1>2, <2>1, <3>2 DEF DetailsInv, Read, TypeOK
    <3> QED
      BY <3>1, <3>2
  <2>2. ASSUME Exact, NEW a \in asked, NEW b \in asked, seen'[a] # 0, seen'[b] # 0
        PROVE  seen'[a] = seen'[b]
    <3>1. CASE at = 0
      BY <1>2, <2>2, <3>1
    <3>2. CASE at # 0
      BY <1>1, <2>1, <2>2, <3>2 DEF Span, BeginInv
    <3> QED
      BY <3>1, <3>2
  <2> QED
    BY <1>4, <1>5, <1>6, <2>1, <2>2 DEF DetailsInv, Read
<1>8. ItemsInv'
  <2> SUFFICES ASSUME NEW a \in Accounts, NEW x \in got'[a]
               PROVE  x[2] \in Span /\ x[1] \in Listing(x[2], a)
    BY <1>5 DEF ItemsInv, Listing, Listed, Held
  <2>1. CASE a \in S
    <3>1. x[2] = v /\ x[1] \in UpTo(v, a, cursor'[a])
      BY <1>2, <2>1
    <3> QED
      BY <1>1, <3>1 DEF UpTo
  <2>2. CASE a \notin S
    BY <1>2, <2>2 DEF ItemsInv
  <2> QED
    BY <2>1, <2>2
<1>9. DataInv' /\ DataOfHeld'
  BY <1>4 DEF DataInv, DataOfHeld, Names, TypeOK
<1> QED
  BY <1>3, <1>4, <1>7, <1>8, <1>9

LEMMA DetailsCallInv ==
    ASSUME ReadInv,
           (\E c \in Chunks : FungibleDetails(c) \/ NftDetails(c))
                \/ \E a \in asked : StoreKeys(a)
    PROVE  ReadInv'
<1>1. ASSUME NEW c \in Chunks, FungibleDetails(c) \/ NftDetails(c)
      PROVE  ReadInv'
  <2>1. Exact /\ at = 0 => Members(c) = asked
    BY DEF Exact, Chunks, Members
  <2>2. Members(c) \in SUBSET asked
    BY DEF Members
  <2> QED
    BY <1>1, <2>1, <2>2, FirstPagesInv DEF FungibleDetails, NftDetails
<1>2. ASSUME NEW a \in asked, StoreKeys(a)
      PROVE  ReadInv'
  <2>1. asked = {a}
    BY <1>2 DEF StoreKeys, ReadInv, BeginInv
  <2> QED
    BY <1>2, <2>1, FirstPagesInv DEF StoreKeys
<1> QED
  BY <1>1, <1>2

(* A step that neither lists nor describes a thing.                        *)
LEMMA NothingListed ==
    ASSUME ReadInv, UNCHANGED <<ledgerVars, input, answers>>
    PROVE  /\ Span' = Span
           /\ Exact' = Exact
           /\ ItemsInv'
           /\ DataOfHeld'
<1> USE DEF ReadInv, ledgerVars, input, answers
<1>1. Span' = Span
  BY DEF Span
<1>2. Exact' = Exact
  BY DEF Exact, Chunks, ChunkOf
<1>3. ItemsInv'
  BY <1>1 DEF ItemsInv, Listing, Listed, Held
<1>4. DataOfHeld'
  BY DEF DataOfHeld
<1> QED
  BY <1>1, <1>2, <1>3, <1>4

LEMMA PinInv ==
    ASSUME ReadInv, FungiblePin \/ NftPin \/ KeysPin
    PROVE  ReadInv'
<1> USE DEF ReadInv, FungiblePin, NftPin, KeysPin
<1>1. UNCHANGED <<ledgerVars, input, answers>> /\ stage = "details"
  OBVIOUS
<1>2. Span' = Span /\ Exact' = Exact /\ ItemsInv' /\ DataOfHeld'
  BY <1>1, NothingListed
<1>3. asked # {} => pin' \in PinFirst
  OBVIOUS
<1>4. asked # {} => \E b \in asked : pin' = seen[b]
  BY <1>3 DEF PinFirst, Members
<1>5. \A a \in asked : seen[a] # 0
  OBVIOUS
<1>6. pin' \in 0 .. tip
  <2>1. CASE asked = {}
    BY <2>1 DEF TypeOK, BeginInv
  <2>2. CASE asked # {}
    BY <1>4, <2>2 DEF TypeOK
  <2> QED
    BY <2>1, <2>2
<1>7. stage' \in {"pages", "died"}
  OBVIOUS
<1>8. TypeOK'
  BY <1>1, <1>6, <1>7 DEF TypeOK, LedgerTypeOK, PairsOf, Stages, ledgerVars, input, answers
<1>9. BeginInv' /\ DetailsInv' /\ DataInv'
  BY <1>1, <1>7 DEF BeginInv, DetailsInv, DataInv, Names, ledgerVars, input, answers
<1>10. PagesInv'
  <2> SUFFICES ASSUME asked # {}
               PROVE  /\ pin' \in Span
                      /\ pin' # 0
                      /\ Exact \/ kind = "entries" => \A a \in asked : Read(pin', a)
    BY <1>1, <1>2 DEF PagesInv, input, answers, ledgerVars, Read, UpTo, Listing,
                      Listed, Held
  <2>1. PICK b \in asked : pin' = seen[b]
    BY <1>4
  <2>2. pin' \in Span /\ pin' # 0
    BY <1>1, <1>5, <2>1 DEF DetailsInv
  <2>3. Exact \/ kind = "entries" => \A a \in asked : seen[a] = pin'
    BY <1>1, <1>5, <2>1 DEF DetailsInv, BeginInv
  <2>4. Exact \/ kind = "entries" => \A a \in asked : Read(pin', a)
    BY <1>1, <1>5, <2>3 DEF DetailsInv
  <2> QED
    BY <2>2, <2>4
<1> QED
  BY <1>2, <1>8, <1>9, <1>10

(* A page goes on at the version of the pages before it.                   *)
LEMMA PageInv ==
    ASSUME ReadInv, NEW a \in asked,
           FungiblePage(a) \/ NftPage(a) \/ KeysPage(a) \/ TokensPage(a)
    PROVE  ReadInv'
<1> USE DEF ReadInv
<1>1. stage = "pages" /\ UNCHANGED <<ledgerVars, input, stage, pin, seen, described>>
  BY DEF FungiblePage, NftPage, KeysPage, TokensPage
<1>2. pin # 0 /\ pin \in Span /\ pin \in 1 .. tip /\ a \in Accounts
  BY <1>1 DEF PagesInv, TypeOK
<1>3. NextPage(a, pin)
  BY <1>2 DEF FungiblePage, NftPage, KeysPage, TokensPage, AnsweredAt
<1>4. /\ cursor' \in [Accounts -> Things \cup {0, NoCursor}]
      /\ got' \in [Accounts -> SUBSET PairsOf]
      /\ \A b \in Accounts \ {a} : got'[b] = got[b] /\ cursor'[b] = cursor[b]
      /\ got[a] \subseteq got'[a]
      /\ \A x \in got'[a] : x \in got[a] \/ (x[2] = pin /\ x[1] \in Listing(pin, a))
      /\ Read(pin, a) => got'[a] = UpTo(pin, a, cursor'[a]) \X {pin}
  BY <1>2, <1>3, NextPageGives
<1>5. TypeOK'
  BY <1>1, <1>4 DEF TypeOK, LedgerTypeOK, PairsOf, ledgerVars, input
<1>6. Span' = Span /\ Exact' = Exact
  BY <1>1 DEF Span, Exact, Chunks, ChunkOf, ledgerVars, input
<1>7. \A w, b : Listing(w, b)' = Listing(w', b)
  BY <1>1 DEF Listing, Listed, Held, ledgerVars, input
<1>8. BeginInv' /\ DetailsInv' /\ DataOfHeld'
  BY <1>1 DEF BeginInv, DetailsInv, DataOfHeld, ledgerVars, input
<1>9. PagesInv'
  <2>1. ASSUME Exact \/ kind = "entries", NEW b \in asked
        PROVE  Read(pin, b)'
    <3>1. Read(pin, b)
      BY <1>1, <2>1 DEF PagesInv
    <3>2. CASE b = a
      BY <1>1, <1>4, <1>7, <3>1, <3>2 DEF Read, UpTo
    <3>3. CASE b # a
      BY <1>1, <1>4, <1>7, <3>1, <3>3 DEF Read, UpTo, TypeOK
    <3> QED
      BY <3>2, <3>3
  <2> QED
    BY <1>1, <1>2, <1>6, <2>1 DEF PagesInv, input
<1>10. ItemsInv'
  <2> SUFFICES ASSUME NEW b \in Accounts, NEW x \in got'[b]
               PROVE  x[2] \in Span /\ x[1] \in Listing(x[2], b)
    BY <1>6, <1>7 DEF ItemsInv
  <2> QED
    BY <1>2, <1>4 DEF ItemsInv
<1>11. DataInv'
  <2>1. \A b \in Accounts : got[b] \subseteq got'[b]
    BY <1>4
  <2> QED
    BY <1>1, <2>1 DEF DataInv, Names, ledgerVars
<1> QED
  BY <1>5, <1>8, <1>9, <1>10, <1>11

LEMMA EndsInv ==
    ASSUME ReadInv, PagesEnd \/ CallFails
    PROVE  ReadInv'
<1> USE DEF ReadInv, PagesEnd, CallFails, Paging
<1>1. UNCHANGED <<ledgerVars, input, answers>> /\ pin' = pin
  OBVIOUS
<1>2. Span' = Span /\ Exact' = Exact /\ ItemsInv' /\ DataOfHeld'
  BY <1>1, NothingListed
<1>3. TypeOK'
  BY <1>1 DEF TypeOK, LedgerTypeOK, PairsOf, Stages, ledgerVars, input, answers
<1>4. BeginInv' /\ DetailsInv'
  BY <1>1 DEF BeginInv, DetailsInv, ledgerVars, input, answers
<1>5. PagesInv'
  BY <1>1, <1>2 DEF PagesInv, Read, UpTo, Listing, Listed, Held, ledgerVars, input,
                    answers
<1>6. DataInv'
  BY <1>1 DEF DataInv, Names, ledgerVars, input, answers
<1> QED
  BY <1>2, <1>3, <1>4, <1>5, <1>6

(* What is listed stays in order while data is read.                       *)
LEMMA ListsKept ==
    ASSUME PagesInv, ItemsInv,
           UNCHANGED <<ledgerVars, input, stage, pin, seen, cursor, got>>
    PROVE  PagesInv' /\ ItemsInv'
<1> USE DEF ledgerVars, input
<1>1. Span' = Span
  BY DEF Span
<1>2. Exact' = Exact
  BY DEF Exact, Chunks, ChunkOf
<1>3. PagesInv'
  BY <1>1, <1>2 DEF PagesInv, Read, UpTo, Listing, Listed, Held
<1>4. ItemsInv'
  BY <1>1 DEF ItemsInv, Listing, Listed, Held
<1> QED
  BY <1>3, <1>4

(* Data is read of things that are listed; where the version is the one of *)
(* the list, of things that are held.                                      *)
LEMMA DescribedInv ==
    ASSUME ReadInv, stage = "data", NEW a \in asked, NEW v \in 1 .. tip,
           NEW S \in SUBSET Names(got[a]),
           described' = [described EXCEPT ![a] = @ \cup (S \X {v})],
           kind = "entries" => v = pin,
           kind # "entries" /\ at # 0 => kind = "nonFungible" /\ v = at,
           UNCHANGED <<ledgerVars, input, stage, pin, seen, cursor, got>>
    PROVE  ReadInv'
<1> USE DEF ReadInv, ledgerVars, input
<1>1. a \in Accounts /\ described \in [Accounts -> SUBSET PairsOf]
      /\ got \in [Accounts -> SUBSET PairsOf] /\ v \in Versions /\ tip \in Nat
  BY DEF TypeOK, LedgerTypeOK, Versions
<1>2. S \subseteq Things
  BY <1>1 DEF Names, PairsOf
<1>3. described' \in [Accounts -> SUBSET PairsOf]
  BY <1>1, <1>2 DEF PairsOf
<1>4. TypeOK'
  BY <1>3 DEF TypeOK, LedgerTypeOK, PairsOf
<1>5. BeginInv' /\ DetailsInv'
  BY DEF BeginInv, DetailsInv
<1>6. PagesInv' /\ ItemsInv'
  BY ListsKept
<1>7. DataInv'
  <2>1. ASSUME NEW b \in Accounts, NEW x \in described'[b]
        PROVE  x[1] \in Names(got[b]) /\ x[2] \in 1 .. tip
    <3>1. CASE x \in described[b]
      BY <3>1 DEF DataInv, Names
    <3>2. CASE x \notin described[b]
      <4>1. b = a /\ x \in S \X {v}
        BY <1>1, <2>1, <3>2
      <4> QED
        BY <4>1
    <3> QED
      BY <3>1, <3>2
  <2> QED
    BY <2>1 DEF DataInv, Names
<1>8. DataOfHeld'
  <2> SUFFICES ASSUME kind = "entries" \/ at # 0, NEW b \in asked, NEW x \in described'[b]
               PROVE  ledger[x[2]][x[1]] = b
    BY DEF DataOfHeld
  <2>1. CASE x \in described[b]
    BY <2>1 DEF DataOfHeld
  <2>2. CASE x \notin described[b]
    <3>1. b = a /\ x \in S \X {v}
      BY <1>1, <2>2 DEF TypeOK
    <3>2. Exact \/ kind = "entries"
      BY DEF Exact
    <3>3. v = pin /\ Read(pin, a) /\ cursor[a] = NoCursor
      <4>1. pin \in Span /\ Read(pin, a)
        BY <3>2 DEF PagesInv
      <4>2. at # 0 => pin = at
        BY <4>1 DEF Span, BeginInv, TypeOK
      <4> QED
        BY <4>1, <4>2 DEF DataInv
    <3>4. x[1] \in Listing(pin, a)
      BY <3>1, <3>3 DEF Read, UpTo, Names
    <3>5. x[1] \in Held(pin, a)
      BY <3>4 DEF Listing
    <3> QED
      BY <3>1, <3>3, <3>5 DEF Held
  <2> QED
    BY <2>1, <2>2
<1> QED
  BY <1>4, <1>5, <1>6, <1>7, <1>8

LEMMA DataStepInv ==
    ASSUME ReadInv, NEW a \in asked, NftData(a) \/ StoreData(a)
    PROVE  ReadInv'
<1> USE DEF ReadInv
<1>1. tip \in Nat \ {0}
  BY DEF TypeOK, LedgerTypeOK, Versions
<1>2. CASE NftData(a)
  <2>1. AnsweredAt(at) \in 1 .. tip /\ (at # 0 => AnsweredAt(at) = at)
    BY <1>1 DEF AnsweredAt, TypeOK
  <2>2. PICK ids \in SUBSET Undescribed(a) :
            described' = [described EXCEPT ![a] = @ \cup (ids \X {AnsweredAt(at)})]
    BY <1>2 DEF NftData
  <2>3. ids \in SUBSET Names(got[a])
    BY DEF Undescribed
  <2> QED
    BY <1>2, <2>1, <2>2, <2>3, DescribedInv DEF NftData
<1>3. CASE StoreData(a)
  <2>1. pin # 0 /\ pin \in 1 .. tip /\ EntriesAt = pin
    BY <1>3 DEF StoreData, PagesInv, EntriesAt, AnsweredAt, TypeOK
  <2>2. PICK keys \in SUBSET Undescribed(a) :
            described' = [described EXCEPT ![a] = @ \cup (keys \X {EntriesAt})]
    BY <1>3 DEF StoreData
  <2>3. keys \in SUBSET Names(got[a])
    BY DEF Undescribed
  <2> QED
    BY <1>3, <2>1, <2>2, <2>3, DescribedInv DEF StoreData
<1> QED
  BY <1>2, <1>3

LEMMA DataEndInv ==
    ASSUME ReadInv, DataEnd
    PROVE  ReadInv'
<1> USE DEF ReadInv, DataEnd
<1>1. UNCHANGED <<ledgerVars, input, answers>> /\ pin' = pin
  OBVIOUS
<1>2. Span' = Span /\ Exact' = Exact /\ ItemsInv' /\ DataOfHeld'
  BY <1>1, NothingListed
<1>3. stage = "data" /\ stage' \in {"died", "done"}
  OBVIOUS
<1>4. TypeOK'
  BY <1>1, <1>3 DEF TypeOK, LedgerTypeOK, PairsOf, Stages, ledgerVars, input, answers
<1>5. BeginInv' /\ DetailsInv'
  BY <1>1, <1>3 DEF BeginInv, DetailsInv, ledgerVars, input, answers
<1>6. PagesInv'
  BY <1>1, <1>2, <1>3 DEF PagesInv, Read, UpTo, Listing, Listed, Held, ledgerVars,
                          input, answers
<1>7. \A a \in asked : Names(got[a]) \subseteq Names(described[a])
  BY DEF Undescribed
<1>8. DataInv'
  BY <1>1, <1>3, <1>7 DEF DataInv, Names, ledgerVars, input, answers
<1> QED
  BY <1>2, <1>4, <1>5, <1>6, <1>8

LEMMA NextInv == ReadInv /\ [Next]_vars => ReadInv'
<1> SUFFICES ASSUME ReadInv, [Next]_vars
             PROVE  ReadInv'
  OBVIOUS
<1>1. CASE Step
  BY <1>1, StatusInv, TokensStatusInv, DetailsCallInv, PinInv, PageInv, DataStepInv,
     EndsInv, DataEndInv DEF Step, Fungible, NonFungible, Entries, Tokens
<1>2. CASE UNCHANGED vars
  <2>1. UNCHANGED <<ledgerVars, input, answers>> /\ UNCHANGED <<stage, pin>>
    BY <1>2 DEF vars, readVars
  <2>2. PagesInv' /\ ItemsInv'
    BY <2>1, ListsKept DEF ReadInv, answers
  <2>3. DetailsInv'
    <3>1. Span' = Span /\ Exact' = Exact
      BY <2>1, NothingListed
    <3> QED
      BY <2>1, <3>1 DEF ReadInv, DetailsInv, Read, UpTo, Listing, Listed, Held,
                        ledgerVars, input, answers
  <2>4. TypeOK' /\ BeginInv'
    BY <2>1 DEF ReadInv, TypeOK, LedgerTypeOK, PairsOf, BeginInv, ledgerVars, input,
                answers
  <2>5. DataInv' /\ DataOfHeld'
    BY <2>1 DEF ReadInv, DataInv, DataOfHeld, Names, ledgerVars, input, answers
  <2> QED
    BY <2>2, <2>3, <2>4, <2>5 DEF ReadInv
<1> QED
  BY <1>1, <1>2, CommitInv, BeginReadInv, StatusInv, EndsInv DEF Next

LEMMA InvHolds == Spec => []ReadInv
  BY InitInv, NextInv, PTL DEF Spec

-----------------------------------------------------------------------------
(* Theorems *)

(* Every variable keeps its type.                                          *)
THEOREM TypeCorrect == Spec => []TypeOK
<1>1. ReadInv => TypeOK
  BY DEF ReadInv
<1> QED
  BY <1>1, InvHolds, PTL

(* Data that is read is of things that were still there.                   *)
THEOREM DataCorrect == Spec => []DataOfHeld
<1>1. ReadInv => DataOfHeld
  BY DEF ReadInv
<1> QED
  BY <1>1, InvHolds, PTL

(* Of what is listed at a version, what is there is returned.              *)
LEMMA PairNames ==
    ASSUME NEW S, NEW v
    PROVE  Names(S \X {v}) = S
<1>1. \A x \in S \X {v} : x[1] \in S
  OBVIOUS
<1>2. \A t \in S : \E x \in S \X {v} : t = x[1]
  <2>1. \A t \in S : <<t, v>> \in S \X {v} /\ <<t, v>>[1] = t
    OBVIOUS
  <2> QED
    BY <2>1
<1> QED
  BY <1>1, <1>2 DEF Names

(* What is returned for an address that was read to the end.               *)
LEMMA BalanceIs ==
    ASSUME ReadInv, stage \in {"data", "done"}, NEW a \in asked, Exact,
           kind = "entries" => Names(described[a]) = Names(got[a])
    PROVE  pin \in 1 .. tip /\ pin \in Span /\ Balance(a) = Held(pin, a)
<1> USE DEF ReadInv
<1>1. pin # 0 /\ pin \in Span /\ Read(pin, a) /\ cursor[a] = NoCursor
  BY DEF PagesInv, DataInv
<1>2. pin \in 1 .. tip /\ a \in Accounts
  BY <1>1 DEF TypeOK
<1>3. got[a] = Listing(pin, a) \X {pin}
  BY <1>1 DEF Read, UpTo
<1>4. CASE kind = "entries"
  <2>1. Names(got[a]) = Listing(pin, a)
    BY <1>3, PairNames
  <2> QED
    BY <1>1, <1>2, <1>4, <2>1 DEF Balance, Listing
<1>5. CASE kind # "entries"
  <2>1. Balance(a) = {t \in Listing(pin, a) : ledger[pin][t] = a}
    <3> DEFINE there == {t \in Listing(pin, a) : ledger[pin][t] = a}
    <3>1. {x \in got[a] : ledger[x[2]][x[1]] = a} = there \X {pin}
      BY <1>3
    <3>2. Names(there \X {pin}) = there
      BY PairNames
    <3> QED
      BY <1>5, <3>1, <3>2 DEF Balance
  <2>2. pin \in 1 .. pin
    BY <1>2 DEF TypeOK, LedgerTypeOK, Versions
  <2>3. Held(pin, a) \subseteq Listing(pin, a) /\ Listing(pin, a) \subseteq Things
    BY <2>2, ListingType DEF Listing, Listed, Held
  <2> QED
    BY <1>1, <1>2, <2>1, <2>3 DEF Held
<1> QED
  BY <1>4, <1>5

(* A store that is read to the end has its data for all keys.              *)
LEMMA AllDescribed ==
    ASSUME DataInv, asked \subseteq Accounts, stage = "done", NEW a \in asked,
           kind = "entries"
    PROVE  Names(described[a]) = Names(got[a])
<1>1. Names(described[a]) \subseteq Names(got[a])
  BY DEF DataInv
<1>2. Names(got[a]) \subseteq Names(described[a])
  BY DEF DataInv
<1> QED
  BY <1>1, <1>2

(* A read at one version, or of one chunk, returns one state of the ledger.*)
THEOREM OneVersionCorrect == Spec => []OneVersion
<1>1. ReadInv => OneVersion
  <2> SUFFICES ASSUME ReadInv, stage = "done", Exact
               PROVE  \E v \in 1 .. tip : \A a \in asked : Balance(a) = Held(v, a)
    BY DEF OneVersion
  <2>1. CASE asked = {}
    BY <2>1 DEF ReadInv, TypeOK, LedgerTypeOK, Versions
  <2>2. CASE asked # {}
    <3>1. \A a \in asked : pin \in 1 .. tip /\ Balance(a) = Held(pin, a)
      <4>1. \A a \in asked : kind = "entries" => Names(described[a]) = Names(got[a])
        BY AllDescribed DEF ReadInv, TypeOK
      <4> QED
        BY <4>1, BalanceIs
    <3> QED
      BY <2>2, <3>1
  <2> QED
    BY <2>1, <2>2
<1> QED
  BY <1>1, InvHolds, PTL

-----------------------------------------------------------------------------
(* Refinement *)

(* What a caller gets is what the atomic read allows.                      *)
DoneOK ==
    stage = "done" =>
        /\ \A a \in asked : \A t \in Balance(a) :
                t \in Things /\ \E v \in Span : ledger[v][t] = a
        /\ Exact => \E v \in Span : \A a \in asked : Balance(a) = Held(v, a)

LEMMA DoneHolds == Spec => []DoneOK
<1>1. ReadInv => DoneOK
  <2> SUFFICES ASSUME ReadInv, stage = "done"
               PROVE  DoneOK
    BY DEF DoneOK
  <2> USE DEF ReadInv
  <2>1. ASSUME NEW a \in asked, NEW t \in Balance(a)
        PROVE  t \in Things /\ \E v \in Span : ledger[v][t] = a
    <3>1. a \in Accounts
      BY DEF TypeOK
    <3>2. CASE kind = "entries"
      <4>1. t \in Names(got[a])
        BY <3>1, <3>2 DEF Balance, DataInv
      <4>2. PICK x \in got[a] : t = x[1]
        BY <4>1 DEF Names
      <4>3. x[2] \in Span /\ t \in Held(x[2], a)
        BY <3>1, <3>2, <4>2 DEF ItemsInv, Listing
      <4> QED
        BY <4>3 DEF Held
    <3>3. CASE kind # "entries"
      <4>1. PICK x \in got[a] : t = x[1] /\ ledger[x[2]][x[1]] = a
        BY <3>3 DEF Balance, Names
      <4> QED
        BY <3>1, <4>1 DEF ItemsInv, TypeOK, PairsOf
    <3> QED
      BY <3>2, <3>3
  <2>2. ASSUME Exact
        PROVE  \E v \in Span : \A a \in asked : Balance(a) = Held(v, a)
    <3>1. CASE asked = {}
      <4>1. since \in Span
        BY DEF Span, TypeOK, BeginInv, LedgerTypeOK, Versions
      <4> QED
        BY <3>1, <4>1
    <3>2. CASE asked # {}
      <4>1. \A a \in asked : kind = "entries" => Names(described[a]) = Names(got[a])
        BY AllDescribed DEF TypeOK
      <4>2. \A a \in asked : pin \in Span /\ Balance(a) = Held(pin, a)
        BY <2>2, <4>1, BalanceIs
      <4> QED
        BY <3>2, <4>2
    <3> QED
      BY <3>1, <3>2
  <2> QED
    BY <2>1, <2>2 DEF DoneOK
<1> QED
  BY <1>1, InvHolds, PTL

(* A call of a running read, which the promise does not see.               *)
LEMMA CallUnseen ==
    ASSUME stage \notin Over, stage' \notin Over,
           UNCHANGED <<ledgerVars, kind, asked, size, at, since>>
    PROVE  UNCHANGED Promise!vars
<1>1. Phase' = Phase /\ Exact' = Exact
  BY DEF Phase, Over, Exact, Chunks, ChunkOf
<1>2. Result' = Result
  BY DEF Result, Over
<1> QED
  BY <1>1, <1>2 DEF Promise!vars, Promise!ledgerVars, ledgerVars

LEMMA BeginPromised ==
    ASSUME ReadInv, BeginRead \/ AccountStatus \/ TokensStatus
    PROVE  Promise!Begin
<1> USE DEF ReadInv, BeginRead, AccountStatus, TokensStatus
<1>1. tip \in Nat \ {0} /\ since = 0 /\ stage \in {"idle", "status"}
  BY DEF TypeOK, LedgerTypeOK, Versions, BeginInv
<1>2. stage' \in {"details", "pages"} /\ ledgerVars' = ledgerVars
  OBVIOUS
<1>3. since' # 0 /\ asked' \in SUBSET Accounts
      /\ ((since' = tip /\ at' = 0) \/ (since' \in 1 .. tip /\ at' = since'))
  <2>1. CASE BeginRead
    BY <1>1, <2>1
  <2>2. CASE AccountStatus \/ TokensStatus
    <3>1. since' = tip /\ at' = tip /\ asked' = asked
      BY <2>2
    <3>2. asked \subseteq Accounts
      BY DEF TypeOK
    <3> QED
      BY <1>1, <3>1, <3>2
  <2> QED
    BY <2>1, <2>2
<1>4. Result' = Result
  BY <1>1, <1>2 DEF Result
<1>5. Phase = "idle" /\ Phase' = "reading"
  BY <1>1, <1>2, <1>3 DEF Phase
<1>6. (since' # 0 /\ Exact') \in BOOLEAN
  BY DEF Exact
<1> QED
  BY <1>1, <1>2, <1>3, <1>4, <1>5, <1>6 DEF Promise!Begin, Promise!ledgerVars, ledgerVars

LEMMA FailPromised ==
    ASSUME ReadInv, since # 0, stage \notin Over, stage' \in {"failed", "died"},
           UNCHANGED <<ledgerVars, kind, asked, size, at, since>>
    PROVE  Promise!Fail
<1>1. Phase = "reading" /\ Phase' = "failed" /\ Exact' = Exact
  BY DEF Phase, Over, Exact, Chunks, ChunkOf
<1>2. Result' = Result
  BY DEF Result, Over
<1> QED
  BY <1>1, <1>2 DEF Promise!Fail, Promise!ledgerVars, ledgerVars

LEMMA ReturnPromised ==
    ASSUME ReadInv, DoneOK', since # 0, stage \notin Over, stage' = "done",
           UNCHANGED <<ledgerVars, input, answers>>
    PROVE  Promise!Return
<1> USE DEF ledgerVars, input, answers
<1>1. Phase = "reading" /\ Phase' = "returned" /\ Exact' = Exact /\ Span' = Span
  BY DEF Phase, Over, Exact, Chunks, ChunkOf, Span
<1>2. Promise!Window = Span
  BY DEF Promise!Window, Span
<1>3. \A a \in asked : Balance(a)' = Balance(a)
  BY DEF Balance, Names
<1>4. \A a \in asked : \A t \in Balance(a) : t \in Things /\ \E v \in Span : ledger[v][t] = a
  BY <1>1, <1>3 DEF DoneOK
<1>5. Exact => \E v \in Span : \A a \in asked : Balance(a) = Held(v, a)
  BY <1>1, <1>3 DEF DoneOK, Held
<1>6. Result' = [a \in Accounts |-> IF a \in asked THEN Balance(a) ELSE {}]
  BY <1>3 DEF Result
<1>7. asked \subseteq Accounts
  BY DEF ReadInv, TypeOK
<1>8. Result' \in [Accounts -> SUBSET Things]
  BY <1>4, <1>6
<1>9. \A a \in asked : Result'[a] = Balance(a)
  BY <1>6, <1>7
<1>10. \A a \in Accounts : Result'[a] # {} => a \in asked
  BY <1>6
<1>11. \A v, a : Promise!Held(v, a) = Held(v, a)
  BY DEF Promise!Held, Held
<1> QED
  BY <1>1, <1>2, <1>4, <1>5, <1>8, <1>9, <1>10, <1>11
     DEF Promise!Return, Promise!ledgerVars

LEMMA CommitPromised ==
    ASSUME ReadInv, Commit, UNCHANGED readVars
    PROVE  Promise!Tick
<1> USE DEF readVars, input, answers
<1>1. \A v \in 1 .. tip : ledger'[v] = ledger[v]
  BY CommitKeeps DEF ReadInv, TypeOK
<1>2. Phase' = Phase /\ Exact' = Exact
  BY DEF Phase, Exact, Chunks, ChunkOf
<1>3. \A a \in asked : \A x \in got[a] : x[2] \in 1 .. tip
  BY DEF ReadInv, ItemsInv, TypeOK, PairsOf, Span, LedgerTypeOK, Versions
<1>4. \A a \in asked : Balance(a)' = Balance(a)
  BY <1>1, <1>3 DEF Balance, Names
<1>5. Result' = Result
  BY <1>4 DEF Result
<1>6. Promise!Commit
  BY DEF Commit, Promise!Commit, Onward, Promise!Onward
<1> QED
  BY <1>2, <1>5, <1>6 DEF Promise!Tick

LEMMA StepPromised ==
    ReadInv /\ DoneOK' /\ [Next]_vars => [Promise!Next]_(Promise!vars)
<1> SUFFICES ASSUME ReadInv, DoneOK', [Next]_vars
             PROVE  Promise!Next \/ UNCHANGED Promise!vars
  OBVIOUS
<1> USE DEF input, answers, Over
<1>1. CASE Commit /\ UNCHANGED readVars
  BY <1>1, CommitPromised DEF Promise!Next
<1>2. CASE BeginRead \/ AccountStatus \/ TokensStatus
  BY <1>2, BeginPromised DEF Promise!Next
<1>3. CASE BeginAtStatus
  <2>1. since = 0 /\ since' = 0 /\ at' = at /\ ledgerVars' = ledgerVars
        /\ stage # "done" /\ stage' # "done"
    BY <1>3 DEF BeginAtStatus, ReadInv, BeginInv
  <2> QED
    BY <2>1 DEF Phase, Result, Promise!vars, Promise!ledgerVars, ledgerVars
<1>4. CASE CallFails
  <2>1. CASE since = 0
    BY <1>4, <2>1 DEF CallFails, Phase, Result, Promise!vars, Promise!ledgerVars,
                      ledgerVars
  <2>2. CASE since # 0
    BY <1>4, <2>2, FailPromised DEF CallFails, Promise!Next
  <2> QED
    BY <2>1, <2>2
<1>5. ASSUME NEW c \in Chunks, FungibleDetails(c) \/ NftDetails(c)
      PROVE  UNCHANGED Promise!vars
  BY <1>5, CallUnseen DEF FungibleDetails, NftDetails
<1>6. ASSUME NEW a \in asked, StoreKeys(a) \/ NftData(a) \/ StoreData(a)
      PROVE  UNCHANGED Promise!vars
  BY <1>6, CallUnseen DEF StoreKeys, NftData, StoreData
<1>7. ASSUME NEW a \in asked,
             FungiblePage(a) \/ NftPage(a) \/ KeysPage(a) \/ TokensPage(a)
      PROVE  UNCHANGED Promise!vars
  BY <1>7, CallUnseen DEF FungiblePage, NftPage, KeysPage, TokensPage
<1>8. CASE NftPin \/ KeysPin
  BY <1>8, CallUnseen DEF NftPin, KeysPin
<1>9. CASE FungiblePin
  <2>1. CASE stage' = "pages"
    BY <1>9, <2>1, CallUnseen DEF FungiblePin
  <2>2. CASE stage' = "died"
    BY <1>9, <2>2, FailPromised DEF FungiblePin, ReadInv, BeginInv, Promise!Next
  <2> QED
    BY <1>9, <2>1, <2>2 DEF FungiblePin
<1>10. CASE PagesEnd \/ DataEnd
  <2>1. since # 0 /\ UNCHANGED <<ledgerVars, input, answers>>
    BY <1>10 DEF PagesEnd, DataEnd, ReadInv, BeginInv
  <2>2. CASE stage' = "data"
    BY <1>10, <2>1, <2>2, CallUnseen DEF PagesEnd, DataEnd
  <2>3. CASE stage' = "died"
    BY <1>10, <2>1, <2>3, FailPromised DEF PagesEnd, DataEnd, Promise!Next
  <2>4. CASE stage' = "done"
    BY <1>10, <2>1, <2>4, ReturnPromised DEF PagesEnd, DataEnd, Promise!Next
  <2> QED
    BY <1>10, <2>2, <2>3, <2>4 DEF PagesEnd, DataEnd
<1>11. CASE UNCHANGED vars
  BY <1>11 DEF vars, readVars, ledgerVars, Phase, Result, Balance, Names, Exact, Chunks,
               ChunkOf, Promise!vars, Promise!ledgerVars
<1> QED
  BY <1>1, <1>2, <1>3, <1>4, <1>5, <1>6, <1>7, <1>8, <1>9, <1>10, <1>11
     DEF Next, Step, Fungible, NonFungible, Entries, Tokens

(* The reads implement AtomicRead.                                         *)
THEOREM ReadsKeepPromise == Spec => KeepsPromise
<1>1. Init => Promise!Init
  BY DEF Init, Promise!Init, LedgerInit, Promise!LedgerInit, Phase, Result,
         Promise!Nothing, Versions, Promise!Versions
<1> QED
  BY <1>1, InvHolds, DoneHolds, StepPromised, PTL DEF Spec, KeepsPromise, Promise!Spec

-----------------------------------------------------------------------------
(* What the end of a read rests on *)

(* Stages follow one another in this order.                                *)
StageOrder ==
    [s \in Stages |-> IF s = "idle" THEN 0 ELSE IF s = "status" THEN 1
                      ELSE IF s = "details" THEN 2 ELSE IF s = "pages" THEN 3
                      ELSE IF s = "data" THEN 4 ELSE 5]

(* The cursor of one address moves to a later item, or is used up.         *)
PageTurned(a) ==
    /\ cursor[a] # NoCursor
    /\ cursor'[a] # NoCursor => cursor'[a] > cursor[a]
    /\ \A b \in Accounts \ {a} : cursor'[b] = cursor[b]

(* A call brings a first page, a further page, or data that were missing.  *)
Called ==
    \/ /\ stage = "details"
       /\ \A a \in asked : seen[a] # 0 => seen'[a] # 0
       /\ \E a \in asked : seen[a] = 0 /\ seen'[a] # 0
    \/ stage = "pages" /\ \E a \in asked : PageTurned(a)
    \/ /\ stage = "data"
       /\ \A a \in asked : Undescribed(a)' \subseteq Undescribed(a)
       /\ \E a \in asked : Undescribed(a)' # Undescribed(a)

(* Each step of a read brings it to a later stage or answers a call that   *)
(* was still to be made, and nothing else moves it but an error.           *)
ReadGoesOn ==
    [][/\ Step => StageOrder[stage'] > StageOrder[stage] \/ (stage' = stage /\ Called)
       /\ Reading /\ ~ Step => stage' \in {stage, "failed"} /\
            (stage' = stage => UNCHANGED readVars)]_vars

LEMMA ChunkAnswered ==
    ASSUME ReadInv, stage = "details", stage' = stage, UNCHANGED input,
           NEW S \in SUBSET asked, S # {}, \A a \in S : seen[a] = 0,
           FirstPages(S, AnsweredAt(at))
    PROVE  Called
<1>1. AnsweredAt(at) # 0
  BY DEF ReadInv, TypeOK, LedgerTypeOK, Versions, AnsweredAt
<1>2. \A a \in asked : a \in Accounts
  BY DEF ReadInv, TypeOK
<1>3. \A a \in asked : seen'[a] = IF a \in S THEN AnsweredAt(at) ELSE seen[a]
  BY <1>2 DEF FirstPages
<1> QED
  BY <1>1, <1>3 DEF Called

LEMMA PageAnswered ==
    ASSUME ReadInv, stage = "pages", NEW a \in asked, NEW v, NextPage(a, v)
    PROVE  Called
<1>1. a \in Accounts /\ cursor[a] # NoCursor
  BY DEF ReadInv, TypeOK, NextPage
<1>2. PICK next \in Cursors(Listing(v, a), cursor[a]) :
          cursor' = [cursor EXCEPT ![a] = next]
  BY DEF NextPage
<1>3. next # NoCursor => cursor[a] < next
  BY <1>2 DEF Cursors, PageEnds, After
<1>4. cursor'[a] = next /\ \A b \in Accounts \ {a} : cursor'[b] = cursor[b]
  BY <1>1, <1>2 DEF ReadInv, TypeOK
<1>5. next # NoCursor => next > cursor[a]
  <2>1. cursor[a] \in Nat
    BY <1>1, CursorType DEF ReadInv, TypeOK
  <2>2. next # NoCursor => next \in Nat
    BY <1>2, ListingType, ThingsType DEF Cursors, PageEnds, After
  <2> QED
    BY <1>3, <2>1, <2>2
<1> QED
  BY <1>1, <1>4, <1>5 DEF Called, PageTurned

LEMMA DataAnswered ==
    ASSUME ReadInv, stage = "data", UNCHANGED got, NEW a \in asked, NEW v,
           NEW D \in SUBSET Undescribed(a), D # {},
           described' = [described EXCEPT ![a] = @ \cup (D \X {v})]
    PROVE  Called
<1>1. a \in Accounts /\ described \in [Accounts -> SUBSET PairsOf] /\ asked \subseteq Accounts
  BY DEF ReadInv, TypeOK
<1>2. Names(described'[a]) = Names(described[a]) \cup D
  <2>1. described'[a] = described[a] \cup (D \X {v})
    BY <1>1
  <2>2. Names(described[a] \cup (D \X {v})) = Names(described[a]) \cup Names(D \X {v})
    BY DEF Names
  <2> QED
    BY <2>1, <2>2, PairNames
<1>3. \A b \in asked : b # a => described'[b] = described[b]
  BY <1>1
<1>4. Undescribed(a)' = Undescribed(a) \ D
  BY <1>2 DEF Undescribed, Names
<1>5. \A b \in asked : b # a => Undescribed(b)' = Undescribed(b)
  BY <1>3 DEF Undescribed, Names
<1>6. Undescribed(a)' # Undescribed(a)
  BY <1>4
<1> QED
  BY <1>4, <1>5, <1>6 DEF Called

(* Every answered call of a read, and every step between them, brings the  *)
(* read nearer to its end: to a later stage, or with fewer first pages,    *)
(* further pages or data to ask for.  Nothing else changes a read that is  *)
(* under way but an error, which ends it.                                  *)
THEOREM ReadsComeToAnEnd == Spec => ReadGoesOn
<1>1. ASSUME ReadInv, Step
      PROVE  StageOrder[stage'] > StageOrder[stage] \/ (stage' = stage /\ Called)
  <2>1. CASE AccountStatus \/ TokensStatus \/ FungiblePin \/ NftPin \/ KeysPin
             \/ PagesEnd \/ DataEnd
    BY <2>1
    DEF AccountStatus, TokensStatus, FungiblePin, NftPin, KeysPin, PagesEnd, DataEnd,
        StageOrder, Stages
  <2>2. ASSUME NEW c \in Chunks, FungibleDetails(c) \/ NftDetails(c)
        PROVE  stage' = stage /\ Called
    <3>1. Members(c) # {} /\ Members(c) \subseteq asked
      BY DEF Chunks, Members
    <3> QED
      BY <1>1, <2>2, <3>1, ChunkAnswered DEF FungibleDetails, NftDetails
  <2>3. ASSUME NEW a \in asked, StoreKeys(a)
        PROVE  stage' = stage /\ Called
    <3>1. /\ {a} \in SUBSET asked /\ {a} # {}
          /\ \A b \in {a} : seen[b] = 0
      BY <2>3 DEF StoreKeys
    <3>2. /\ stage = "details" /\ stage' = stage /\ UNCHANGED input
          /\ FirstPages({a}, AnsweredAt(at))
      BY <2>3 DEF StoreKeys
    <3> QED
      BY <1>1, <3>1, <3>2, ChunkAnswered
  <2>4. ASSUME NEW a \in asked,
               FungiblePage(a) \/ NftPage(a) \/ KeysPage(a) \/ TokensPage(a)
        PROVE  stage' = stage /\ Called
    BY <1>1, <2>4, PageAnswered DEF FungiblePage, NftPage, KeysPage, TokensPage
  <2>5. ASSUME NEW a \in asked, NftData(a) \/ StoreData(a)
        PROVE  stage' = stage /\ Called
    BY <1>1, <2>5, DataAnswered DEF NftData, StoreData
  <2> QED
    BY <1>1, <2>1, <2>2, <2>3, <2>4, <2>5
    DEF Step, Fungible, NonFungible, Entries, Tokens
<1>2. ASSUME Next, Reading, ~ Step
      PROVE  /\ stage' \in {stage, "failed"}
             /\ stage' = stage => UNCHANGED readVars
  BY <1>2 DEF Next, Reading, BeginRead, BeginAtStatus, CallFails, readVars
<1>3. ReadInv /\ [Next]_vars =>
        [/\ Step => StageOrder[stage'] > StageOrder[stage] \/ (stage' = stage /\ Called)
         /\ Reading /\ ~ Step => stage' \in {stage, "failed"} /\
              (stage' = stage => UNCHANGED readVars)]_vars
  BY <1>1, <1>2
<1> QED
  BY <1>3, InvHolds, PTL DEF Spec, ReadGoesOn

=============================================================================
