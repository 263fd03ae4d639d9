------------------------ MODULE TransactionStreamProofs -----------------------
(***************************************************************************)
(* Proofs about the transaction stream, for every length of the ledger,    *)
(* every page limit, every starting version and any number of runs.        *)
(***************************************************************************)
EXTENDS TransactionStream, FiniteSetTheorems, TLAPS

-----------------------------------------------------------------------------
(* The inductive invariant.  Between the moment a pull reads the Ref and   *)
(* the moment it writes it back, nothing else moves the Ref, so the page   *)
(* it fetched still begins where the Ref stands.                           *)

(* The Ref is set once the feed has begun; it never runs ahead of the      *)
(* ledger, unless it was configured to begin there.                        *)
CursorInv ==
    /\ cursor = 0 <=> begun = 0
    /\ begun <= cursor
    /\ cursor <= tip + 1 \/ cursor = begun
    /\ \A w \in delivered \cup lost : w < cursor

PullInv ==
    /\ pc = "status" => cursor = 0
    /\ pc \in {"fetch", "advance"} =>
        /\ from # 0
        /\ cursor = from \/ (cursor = 0 /\ from <= tip)

(* A fetched page is the beginning of what there is from its version on.   *)
PageInv ==
    pc = "advance" =>
        \A v \in page :
            /\ from <= v
            /\ \A w \in users : (from <= w /\ w <= v) => w \in page

EmitInv ==
    pc = "emit" =>
        /\ begun # 0
        /\ page # {}
        /\ \A v \in page : begun <= v /\ v < cursor

StreamInv ==
    /\ TypeOK
    /\ CursorInv
    /\ PullInv
    /\ PageInv
    /\ EmitInv
    /\ InOrderOnce
    /\ NothingSkipped

(* The part of the ledger below a version of a page is on the page.        *)
LEMMA FirstPagePrefix ==
    ASSUME TypeOK, NEW v \in FirstPage, NEW w \in users, from <= w, w <= v
    PROVE  w \in FirstPage
<1> DEFINE Below(x) == {u \in Available : u <= x}
<1>1. users \subseteq Nat /\ IsFiniteSet(users)
  <2>1. tip \in Nat
    BY DEF TypeOK
  <2>2. users \in SUBSET Nat /\ \A u \in users : u <= tip
    BY <2>1 DEF TypeOK
  <2> QED BY <2>1, <2>2, FS_BoundedSetOfNaturals
<1>2. v \in Available /\ w \in Available
  BY DEF FirstPage, Available
<1>3. Below(w) \subseteq Below(v)
  <2> SUFFICES ASSUME NEW u \in Available, u <= w PROVE u <= v
    OBVIOUS
  <2>1. u \in Nat /\ v \in Nat /\ w \in Nat
    BY <1>1, <1>2 DEF Available
  <2> QED BY <2>1
<1>4. IsFiniteSet(Below(v))
  BY <1>1, FS_Subset DEF Available
<1>5. /\ Cardinality(Below(w)) \in Nat
      /\ Cardinality(Below(v)) \in Nat
      /\ Cardinality(Below(w)) <= Cardinality(Below(v))
  BY <1>3, <1>4, FS_Subset, FS_CardinalityType
<1>6. Cardinality(Below(v)) <= take
  BY DEF FirstPage
<1>7. take \in Nat
  BY ConstantsAssumption DEF TypeOK, ConstantsAssumption
<1>8. Cardinality(Below(w)) <= take
  BY <1>5, <1>6, <1>7
<1> QED BY <1>2, <1>8 DEF FirstPage

(* Versions are natural numbers, which the steps compare.                  *)
LEMMA VersionTypes ==
    ASSUME TypeOK
    PROVE  /\ tip \in Nat /\ cursor \in Nat /\ from \in Nat /\ begun \in Nat
           /\ users \subseteq Nat /\ page \subseteq Nat
           /\ delivered \subseteq Nat /\ lost \subseteq Nat
           /\ \A v \in users : v <= tip
BY ConstantsAssumption DEF TypeOK, ConstantsAssumption

LEMMA InitInv == Init => StreamInv
BY ConstantsAssumption
DEF Init, StreamInv, TypeOK, PCs, CursorInv, PullInv, PageInv, EmitInv,
    InOrderOnce, NothingSkipped, ConstantsAssumption

(* The ledger grows above everything that was fetched or handed out.       *)
LEMMA CommitInv ==
    ASSUME StreamInv, Commit
    PROVE  StreamInv'
<1> USE DEF StreamInv, Commit, config, pull, history
<1>1. TypeOK'
  BY ConstantsAssumption DEF TypeOK, ConstantsAssumption
<1>2. users' \subseteq users \cup {tip + 1}
  OBVIOUS
<1>3. (CursorInv /\ PullInv /\ EmitInv /\ InOrderOnce)'
  BY VersionTypes DEF CursorInv, PullInv, EmitInv, InOrderOnce
<1>4. PageInv'
  BY <1>2, VersionTypes DEF PageInv, TypeOK
<1>5. NothingSkipped'
  <2> SUFFICES ASSUME begun # 0, begun <= tip + 1, tip + 1 < cursor
               PROVE  FALSE
    BY <1>2 DEF NothingSkipped
  <2> QED BY VersionTypes DEF CursorInv
<1> QED BY <1>1, <1>3, <1>4, <1>5

(* The steps that leave the Ref and what was handed out alone.             *)
LEMMA ReadInv ==
    ASSUME StreamInv, Pull \/ AskStatus \/ Reconfigure
    PROVE  StreamInv'
<1> USE DEF StreamInv, Pull, AskStatus, Reconfigure, ledger, config, pull,
            history
<1>1. TypeOK'
  <2>1. CASE Pull
    BY <2>1 DEF TypeOK, PCs
  <2>2. CASE AskStatus
    <3>1. tip \in 0 .. MaxVersion + 1
      BY ConstantsAssumption DEF TypeOK, ConstantsAssumption
    <3> QED BY <2>2, <3>1 DEF TypeOK, PCs
  <2>3. CASE Reconfigure
    BY <2>3 DEF TypeOK
  <2> QED BY <2>1, <2>2, <2>3
<1>2. PullInv'
  BY VersionTypes DEF PullInv, TypeOK, PCs
<1>3. (CursorInv /\ PageInv /\ EmitInv /\ InOrderOnce /\ NothingSkipped)'
  BY DEF CursorInv, PageInv, EmitInv, InOrderOnce, NothingSkipped
<1> QED BY <1>1, <1>2, <1>3

LEMMA FetchInv ==
    ASSUME StreamInv, Fetch
    PROVE  StreamInv'
<1> USE DEF StreamInv, Fetch, ledger, config, history
<1>1. TypeOK'
  BY DEF TypeOK, PCs, FirstPage, Available
<1>2. PageInv'
  BY FirstPagePrefix DEF PageInv, FirstPage, Available
<1>3. (CursorInv /\ PullInv /\ EmitInv /\ InOrderOnce /\ NothingSkipped)'
  BY DEF CursorInv, PullInv, EmitInv, InOrderOnce, NothingSkipped
<1> QED BY <1>1, <1>2, <1>3

(* The Ref moves past the page and what lay before it, and past nothing    *)
(* else; an empty page leaves it where the pull found it.                  *)
LEMMA AdvanceInv ==
    ASSUME StreamInv, Advance
    PROVE  StreamInv'
<1> USE DEF StreamInv, Advance, ledger, pull
<1>1. /\ from # 0
      /\ cursor = from \/ (cursor = 0 /\ from <= tip)
      /\ \A v \in page :
            /\ from <= v
            /\ \A w \in users : (from <= w /\ w <= v) => w \in page
  BY DEF PullInv, PageInv
<1>2. \/ page = {} /\ cursor' = from
      \/ \E v \in page : cursor' = v + 1 /\ \A x \in page : x <= v
  BY DEF NextVersions, LastIn
<1>3. /\ from <= cursor' /\ cursor' # 0
      /\ cursor' <= tip + 1 \/ cursor' = from
      /\ \A v \in page : v < cursor'
  BY <1>1, <1>2, VersionTypes DEF TypeOK
<1>4. begun' # 0 /\ begun' <= from /\ begun' <= MaxVersion /\ begun' \in Nat
  BY <1>1, VersionTypes, ConstantsAssumption
  DEF CursorInv, TypeOK, ConstantsAssumption
<1>5. TypeOK'
  BY <1>3, <1>4, VersionTypes, ConstantsAssumption
  DEF TypeOK, PCs, ConstantsAssumption, NextVersions
<1>6. \A w \in delivered \cup lost : w < from
  BY <1>1, VersionTypes DEF CursorInv
<1>7. CursorInv'
  <2>1. cursor' <= tip + 1 \/ cursor' = begun'
    <3>1. CASE cursor' = from
      BY <3>1, <1>1, VersionTypes DEF CursorInv
    <3> QED BY <3>1, <1>3
  <2>2. \A w \in delivered \cup lost : w < cursor'
    BY <1>2, <1>3, <1>6, VersionTypes
  <2>3. begun' <= cursor'
    BY <1>2, <1>3, <1>4, VersionTypes
  <2> QED BY <2>1, <2>2, <2>3, <1>3, <1>4 DEF CursorInv
<1>8. (PullInv /\ PageInv)'
  BY DEF PullInv, PageInv
<1>9. EmitInv'
  BY <1>1, <1>2, <1>3, <1>4, VersionTypes DEF EmitInv
<1>10. InOrderOnce'
  BY <1>1, <1>6, VersionTypes DEF InOrderOnce
<1>11. NothingSkipped'
  <2> SUFFICES ASSUME NEW v \in users, begun' <= v, v < cursor'
               PROVE  v \in delivered \cup lost \cup (IF pc' = "emit" THEN page ELSE {})
    BY DEF NothingSkipped
  <2>1. CASE v < from
    BY <2>1, <1>1, VersionTypes DEF NothingSkipped, CursorInv
  <2>2. CASE from <= v
    <3>1. v \in page
      BY <2>2, <1>1, <1>2, VersionTypes
    <3>2. pc' = "emit"
      BY <2>2, <3>1, <1>1, <1>2, VersionTypes
    <3> QED BY <3>1, <3>2
  <2> QED BY <2>1, <2>2, VersionTypes
<1> QED BY <1>5, <1>7, <1>8, <1>9, <1>10, <1>11

LEMMA DeliverInv ==
    ASSUME StreamInv, Emit \/ Stop
    PROVE  StreamInv'
<1> USE DEF StreamInv, Emit, Stop, ledger, config, pull
<1>1. TypeOK'
  <2>1. CASE Emit
    BY <2>1 DEF TypeOK, PCs
  <2>2. CASE Stop
    <3>1. stops' \in 0 .. MaxStops
      BY <2>2, ConstantsAssumption DEF TypeOK, ConstantsAssumption
    <3> QED BY <2>2, <3>1 DEF TypeOK, PCs
  <2> QED BY <2>1, <2>2
<1>2. CursorInv'
  BY DEF CursorInv, EmitInv
<1>3. (PullInv /\ PageInv /\ EmitInv /\ InOrderOnce)'
  BY DEF PullInv, PageInv, EmitInv, InOrderOnce
<1>4. NothingSkipped'
  BY DEF NothingSkipped
<1> QED BY <1>1, <1>2, <1>3, <1>4

LEMMA ResumeInv ==
    ASSUME StreamInv, Wake \/ Restart
    PROVE  StreamInv'
<1> USE DEF StreamInv, Wake, Restart, ledger, config, pull, history
<1>1. TypeOK'
  BY DEF TypeOK, PCs
<1>2. (CursorInv /\ PullInv /\ PageInv /\ EmitInv /\ InOrderOnce)'
  BY DEF CursorInv, PullInv, PageInv, EmitInv, InOrderOnce
<1>3. NothingSkipped'
  BY DEF NothingSkipped
<1> QED BY <1>1, <1>2, <1>3

LEMMA StreamCorrect == Spec => []StreamInv
<1>1. StreamInv /\ [Next]_vars => StreamInv'
  <2> SUFFICES ASSUME StreamInv, [Next]_vars PROVE StreamInv'
    OBVIOUS
  <2>1. CASE UNCHANGED vars
    BY <2>1
    DEF vars, ledger, config, pull, history, StreamInv, TypeOK, CursorInv,
        PullInv, PageInv, EmitInv, InOrderOnce, NothingSkipped
  <2> QED
    BY <2>1, CommitInv, ReadInv, FetchInv, AdvanceInv, DeliverInv, ResumeInv
    DEF Next, Step
<1> QED BY <1>1, InitInv, PTL DEF Spec

(* Every variable of the stream keeps its type: in particular no page that *)
(* is fetched, handed out or lost holds anything the ledger does not.      *)
THEOREM StreamTypeCorrect == Spec => []TypeOK
BY StreamCorrect, PTL DEF StreamInv

(* Every page handed to the consumer lies above all that went before it,   *)
(* so no transaction is seen twice, whatever runs ended in between.        *)
THEOREM StreamInOrderOnce == Spec => []InOrderOnce
BY StreamCorrect, PTL DEF StreamInv

(* No user transaction is passed over.                                     *)
THEOREM StreamSkipsNothing == Spec => []NothingSkipped
BY StreamCorrect, PTL DEF StreamInv

-----------------------------------------------------------------------------
(* What a run that ends can take with it.  That a page has no more items   *)
(* than its limit is known of a page with a last item, and Advance finds   *)
(* one in every page that it hands on.                                     *)
LossInv ==
    /\ pc = "advance" =>
        \A v \in page : Cardinality({w \in page : w <= v}) <= MaxBatch
    /\ pc = "emit" => Cardinality(page) <= MaxBatch
    /\ LossIsBounded

LEMMA FiniteParts ==
    ASSUME TypeOK
    PROVE  /\ MaxBatch \in Nat /\ stops \in Nat
           /\ users \subseteq Nat /\ IsFiniteSet(users)
           /\ \A S \in SUBSET users :
                IsFiniteSet(S) /\ Cardinality(S) \in Nat
<1>1. tip \in Nat /\ MaxBatch \in Nat /\ stops \in Nat
  BY ConstantsAssumption DEF TypeOK, ConstantsAssumption
<1>2. users \in SUBSET Nat /\ \A u \in users : u <= tip
  BY <1>1 DEF TypeOK
<1>3. IsFiniteSet(users)
  BY <1>1, <1>2, FS_BoundedSetOfNaturals
<1>4. \A S \in SUBSET users : IsFiniteSet(S)
  BY <1>3, FS_Subset
<1> QED
  BY <1>1, <1>2, <1>3, <1>4, FS_CardinalityType

LEMMA FetchLoss ==
    ASSUME TypeOK, LossInv, Fetch
    PROVE  LossInv'
<1> USE DEF Fetch, history
<1>1. SUFFICES ASSUME NEW v \in FirstPage
               PROVE  Cardinality({w \in FirstPage : w <= v}) <= MaxBatch
  BY DEF LossInv, LossIsBounded
<1> DEFINE Below == {w \in Available : w <= v}
           Page == {w \in FirstPage : w <= v}
<1>2. Page \subseteq Below /\ Below \subseteq users
  BY DEF FirstPage, Available
<1>3. IsFiniteSet(Below) /\ Cardinality(Below) \in Nat
  BY <1>2, FiniteParts
<1>4. Cardinality(Page) <= Cardinality(Below) /\ Cardinality(Page) \in Nat
  BY <1>2, <1>3, FS_Subset, FS_CardinalityType
<1>5. Cardinality(Below) <= take
  BY <1>1 DEF FirstPage
<1>6. take \in Nat /\ take <= MaxBatch /\ MaxBatch \in Nat
  BY ConstantsAssumption DEF TypeOK, ConstantsAssumption
<1> HIDE DEF Below, Page
<1>7. Cardinality(Page) <= MaxBatch
  BY <1>3, <1>4, <1>5, <1>6
<1> QED
  BY <1>7 DEF Page

LEMMA AdvanceLoss ==
    ASSUME TypeOK, LossInv, Advance
    PROVE  LossInv'
<1> USE DEF Advance, pull
<1>1. LossIsBounded'
  BY DEF LossInv, LossIsBounded
<1>2. ASSUME pc' = "emit"
      PROVE  Cardinality(page) <= MaxBatch
  <2>1. page # {} /\ cursor' \in {v + 1 : v \in LastIn(page)}
    BY <1>2 DEF NextVersions
  <2>2. PICK v \in page : \A x \in page : x <= v
    BY <2>1 DEF LastIn
  <2>3. {w \in page : w <= v} = page
    BY <2>2
  <2> QED
    BY <2>2, <2>3 DEF LossInv
<1> QED
  BY <1>1, <1>2 DEF LossInv

LEMMA StopLoss ==
    ASSUME TypeOK, LossInv, Stop
    PROVE  LossInv'
<1> USE DEF Stop
<1>1. SUFFICES LossIsBounded'
  BY DEF LossInv
<1>2. MaxBatch \in Nat /\ stops \in Nat
  BY FiniteParts
<1>3. /\ Cardinality(lost) \in Nat
      /\ Cardinality(lost) <= MaxBatch * stops
  BY FiniteParts DEF LossInv, LossIsBounded, TypeOK
<1>4. MaxBatch * (stops + 1) = MaxBatch * stops + MaxBatch
  BY <1>2
<1>5. MaxBatch * stops \in Nat
  BY <1>2
<1>6. CASE pc = "emit"
  <2>1. IsFiniteSet(lost) /\ IsFiniteSet(page) /\ IsFiniteSet(lost \cap page)
    BY FiniteParts DEF TypeOK
  <2>2. /\ Cardinality(page) \in Nat
        /\ Cardinality(lost \cap page) \in Nat
    BY <2>1, FS_CardinalityType
  <2>3. Cardinality(lost \cup page) =
            Cardinality(lost) + Cardinality(page) - Cardinality(lost \cap page)
    BY <2>1, FS_Union
  <2>4. Cardinality(page) <= MaxBatch
    BY <1>6 DEF LossInv
  <2>5. Cardinality(lost \cup page) <= MaxBatch * stops + MaxBatch
    BY <1>2, <1>3, <1>5, <2>2, <2>3, <2>4
  <2>6. lost' = lost \cup page /\ stops' = stops + 1
    BY <1>6
  <2> QED
    BY <1>4, <2>5, <2>6 DEF LossIsBounded
<1>7. CASE pc # "emit"
  <2>1. lost' = lost /\ stops' = stops + 1
    BY <1>7
  <2>2. Cardinality(lost) <= MaxBatch * stops + MaxBatch
    BY <1>2, <1>3, <1>5
  <2> QED
    BY <1>4, <2>1, <2>2 DEF LossIsBounded
<1> QED
  BY <1>6, <1>7

(* What the runs that ended took with them is a page of each at most.      *)
THEOREM StreamLosesLittle == Spec => []LossIsBounded
<1>1. Init => LossInv
  <2> SUFFICES ASSUME Init
               PROVE  LossInv
    OBVIOUS
  <2>1. Cardinality({}) = 0 /\ MaxBatch * 0 = 0
    BY FS_EmptySet, ConstantsAssumption DEF ConstantsAssumption
  <2> QED
    BY <2>1 DEF Init, LossInv, LossIsBounded
<1>2. TypeOK /\ LossInv /\ [Next]_vars => LossInv'
  <2> SUFFICES ASSUME TypeOK, LossInv, [Next]_vars
               PROVE  LossInv'
    OBVIOUS
  <2> USE DEF history, pull
  <2>1. CASE Fetch
    BY <2>1, FetchLoss
  <2>2. CASE Advance
    BY <2>2, AdvanceLoss
  <2>3. CASE Stop
    BY <2>3, StopLoss
  <2>4. CASE Commit \/ Reconfigure
    BY <2>4 DEF Commit, Reconfigure, LossInv, LossIsBounded
  <2>5. CASE Pull \/ AskStatus \/ Wake \/ Emit \/ Restart
    BY <2>5 DEF Pull, AskStatus, Wake, Emit, Restart, LossInv, LossIsBounded
  <2>6. CASE UNCHANGED vars
    BY <2>6 DEF vars, LossInv, LossIsBounded
  <2> QED
    BY <2>1, <2>2, <2>3, <2>4, <2>5, <2>6 DEF Next, Step
<1>3. LossInv => LossIsBounded
  BY DEF LossInv
<1> QED
  BY <1>1, <1>2, <1>3, StreamTypeCorrect, PTL DEF Spec

(* The stream implements the safety part of the ordered feed: its initial  *)
(* states are initial states of the feed, and every step of it is a step   *)
(* of the feed or changes nothing that the feed knows of.                  *)
THEOREM StreamRefinesFeed == Spec => Feed!Init /\ [][Feed!Next]_(Feed!vars)
<1>1. Init => Feed!Init
  BY ConstantsAssumption DEF Init, Feed!Init, ConstantsAssumption
<1>2. StreamInv /\ [Next]_vars => [Feed!Next]_(Feed!vars)
  <2> SUFFICES ASSUME StreamInv, [Next]_vars
               PROVE  Feed!Next \/ UNCHANGED Feed!vars
    OBVIOUS
  <2> USE DEF ledger, config, pull, history
  <2>1. ASSUME pc = "emit"
        PROVE  begun # 0 /\ page \in Feed!Batches
    <3>1. page # {} /\ begun # 0 /\ \A v \in page : begun <= v /\ v < cursor
      BY <2>1 DEF StreamInv, EmitInv
    <3>2. page \subseteq Feed!Owed
      BY <2>1, <3>1, VersionTypes DEF StreamInv, TypeOK, InOrderOnce, Feed!Owed
    <3>3. \A w \in Feed!Owed \ page : cursor <= w
      BY <2>1, <3>1, VersionTypes DEF StreamInv, NothingSkipped, Feed!Owed
    <3>4. \A v \in page : \A w \in Feed!Owed \ page : v < w
      BY <3>1, <3>3, VersionTypes DEF StreamInv, Feed!Owed
    <3> QED BY <3>1, <3>2, <3>4 DEF Feed!Batches
  <2>2. CASE Commit
    BY <2>2 DEF Commit, Feed!Next, Feed!Commit
  <2>3. CASE Advance
    <3>1. CASE begun = 0
      <4>1. begun' \in 1 .. tip
        BY <2>3, <3>1, VersionTypes
        DEF Advance, StreamInv, CursorInv, PullInv
      <4> QED BY <2>3, <3>1, <4>1 DEF Advance, Feed!Next, Feed!Begin
    <3>2. CASE begun # 0
      BY <2>3, <3>2 DEF Advance, Feed!vars
    <3> QED BY <3>1, <3>2
  <2>4. CASE Emit
    BY <2>1, <2>4 DEF Emit, Feed!Next, Feed!Deliver
  <2>5. CASE Stop
    <3>1. CASE pc = "emit"
      BY <2>1, <2>5, <3>1 DEF Stop, Feed!Next, Feed!Lose
    <3>2. CASE pc # "emit"
      BY <2>5, <3>2 DEF Stop, Feed!vars
    <3> QED BY <3>1, <3>2
  <2>6. CASE Reconfigure \/ Pull \/ AskStatus \/ Fetch \/ Wake \/ Restart
    BY <2>6 DEF Reconfigure, Pull, AskStatus, Fetch, Wake, Restart, Feed!vars
  <2>7. CASE UNCHANGED vars
    BY <2>7 DEF vars, Feed!vars
  <2> QED BY <2>2, <2>3, <2>4, <2>5, <2>6, <2>7 DEF Next, Step
<1> QED BY <1>1, <1>2, StreamCorrect, PTL DEF Spec

=============================================================================
