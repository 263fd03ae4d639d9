-------------------------- MODULE GatewayClientsProofs --------------------------
(***************************************************************************)
(* Proofs about the clients of one Gateway.  First the client of core:     *)
(* type correctness, its safety properties and its end.  Then all clients  *)
(* together, on the ledger that they share: each of them takes its own     *)
(* steps only, so that what was proved of it alone holds beside the others.*)
(***************************************************************************)
EXTENDS MCGatewayClients, LedgerReadsProofs, HolderReadsProofs

-----------------------------------------------------------------------------
(* The client of core *)

USE CoreAssumption

Dead == {"CommittedFailure", "PermanentlyRejected"}

(* A call has an intent once it is used, and asks while it has a try left. *)
CallsInv ==
    \A c \in Calls :
        /\ coreStage[c] = "unused" <=> intent[c] = NoIntent
        /\ coreStage[c] \in {"unused", "building", "submitting"} => retry[c] = 0
        /\ coreStage[c] = "asking" => retry[c] < MaxRetries
        /\ coreStage[c] = "sleeping" => c \notin aborted

(* The network and the application know of intents in use only, "submit"   *)
(* is said of the dead only, and of two intents in use one is dead.        *)
IntentsInv ==
    /\ known \subseteq Used
    /\ \A i \in Intents : fate[i] # "Unknown" => i \in Used
    /\ \A i \in Intents : advice[i] = "submit" => fate[i] \in Dead
    /\ \A i, j \in Used : i # j => fate[i] \in Dead \/ fate[j] \in Dead

CoreInv == CoreTypeOK /\ CallsInv /\ IntentsInv

LEMMA CoreInitInv == CoreInit => CoreInv
    BY DEF CoreInit, CoreInv, CoreTypeOK, CallsInv, IntentsInv, Intents, CoreStages, CoreOver, Open,
        Final, Advices, Used

(* A step that only moves calls, and gives no call an intent.              *)
LEMMA CallStep ==
    ASSUME CoreInv, UNCHANGED <<intent, known, advice, fate>>
    PROVE  IntentsInv'
    BY DEF CoreInv, IntentsInv, Used

LEMMA SubmitInv ==
    ASSUME CoreInv, NEW c \in Calls, NEW i \in Intents, Submit(c, i)
    PROVE  CoreInv'
<1> USE DEF CoreInv, CoreTypeOK, Intents
<1>1. CoreTypeOK'
    BY DEF Submit, CoreStages
<1>2. CallsInv'
    BY DEF Submit, CallsInv
<1>3. Used' = Used \cup {i}
    <2>1. intent[c] = NoIntent
        BY DEF Submit, CallsInv
    <2> QED BY <2>1 DEF Submit, Used
<1>4. \A j \in Used \ {i} : fate[j] \in Dead
    BY DEF Submit, IntentsInv, Used
<1>5. IntentsInv'
    BY <1>3, <1>4 DEF Submit, IntentsInv
<1> QED BY <1>1, <1>2, <1>5

LEMMA PollAgainInv ==
    ASSUME CoreInv, NEW c \in Calls, NEW i \in Intents, PollAgain(c, i)
    PROVE  CoreInv'
<1> USE DEF CoreInv, CoreTypeOK, Intents
<1>1. CoreTypeOK'
    BY DEF PollAgain, PollStart, CoreStages, CoreOver
<1>2. CallsInv'
    BY DEF PollAgain, CallsInv, PollStart
<1>3. Used' = Used
    <2>1. intent[c] = NoIntent /\ i \in Used
        BY DEF PollAgain, CallsInv, IntentsInv
    <2>2. intent' = [intent EXCEPT ![c] = i]
        BY DEF PollAgain
    <2> QED BY <2>1, <2>2 DEF Used
<1>4. IntentsInv'
    BY <1>3 DEF PollAgain, IntentsInv
<1> QED BY <1>1, <1>2, <1>4

(* An intent that reaches the network is in use, and no fate is undone.    *)
LEMMA ArrivesInv ==
    ASSUME CoreInv, NEW c \in Calls, coreStage[c] # "unused",
           Arrives(intent[c]) \/ fate' = fate, UNCHANGED <<intent, known, advice>>
    PROVE  IntentsInv' /\ fate' \in [Intents -> {"Unknown", "Pending"} \cup Final]
<1>1. intent[c] \in Used /\ intent[c] \in Intents
    BY DEF CoreInv, CallsInv, CoreTypeOK, Used
<1>2. /\ fate' \in [Intents -> {"Unknown", "Pending"} \cup Final]
      /\ \A i \in Intents : fate'[i] = fate[i]
                        \/ (i = intent[c] /\ fate[i] = "Unknown" /\ fate'[i] = "Pending")
    BY <1>1 DEF CoreInv, CoreTypeOK, Arrives
<1>3. Used' = Used /\ Used \subseteq Intents
    BY DEF Used, CoreInv, CoreTypeOK
<1>4. \A i \in Intents : fate[i] \in Dead => fate'[i] \in Dead
    BY <1>2 DEF Dead
<1> QED BY <1>1, <1>2, <1>3, <1>4 DEF CoreInv, IntentsInv

LEMMA CoreStepInv ==
    ASSUME CoreInv, NEW c \in Calls, CoreStep(c)
    PROVE  CoreInv'
<1> USE DEF CoreInv, CoreTypeOK, CoreStages, CoreOver
<1>1. CASE Send(c)
    <2>1. IntentsInv' /\ fate' \in [Intents -> {"Unknown", "Pending"} \cup Final]
        BY <1>1, ArrivesInv DEF Send
    <2>2. CallsInv'
        BY <1>1 DEF Send, CallsInv, PollStart
    <2> QED BY <1>1, <2>1, <2>2 DEF Send, PollStart
<1>2. CASE SendFails(c)
    <2>1. IntentsInv' /\ fate' \in [Intents -> {"Unknown", "Pending"} \cup Final]
        BY <1>2, ArrivesInv DEF SendFails
    <2>2. CallsInv'
        BY <1>2 DEF SendFails, CallsInv
    <2> QED BY <1>2, <2>1, <2>2 DEF SendFails
<1>3. CASE GetStatus(c)
    <2>1. intent[c] \in Used /\ intent[c] \in Intents /\ Used' = Used
        BY <1>3 DEF GetStatus, CallsInv, Used
    <2>2. CoreTypeOK'
        BY <1>3, <2>1 DEF GetStatus, CallsInv, SleepStart
    <2>3. CallsInv'
        BY <1>3 DEF GetStatus, CallsInv, SleepStart
    <2>4. IntentsInv'
        BY <1>3, <2>1 DEF GetStatus, IntentsInv
    <2> QED BY <2>2, <2>3, <2>4
<1>4. CASE GetStatusFails(c)
    BY <1>4, CallStep DEF GetStatusFails, CallsInv
<1>5. CASE Wake(c)
    BY <1>5, CallStep DEF Wake, CallsInv, TriesLeft
<1> QED BY <1>1, <1>2, <1>3, <1>4, <1>5 DEF CoreStep

LEMMA SettleInv ==
    ASSUME CoreInv, NEW i \in Intents, Settle(i)
    PROVE  CoreInv'
<1> USE DEF CoreInv, CoreTypeOK
<1>1. CoreTypeOK' /\ CallsInv'
    BY DEF Settle, CallsInv
<1>2. Used' = Used /\ Used \subseteq Intents
    BY DEF Settle, Used
<1>3. \A j \in Intents : fate'[j] # fate[j] => j = i /\ fate[j] = "Pending"
    BY DEF Settle
<1>4. \A j \in Intents : fate[j] \in Dead => fate'[j] \in Dead
    BY <1>3 DEF Dead
<1>5. IntentsInv'
    BY <1>2, <1>3, <1>4 DEF Settle, IntentsInv
<1> QED BY <1>1, <1>5

(* The advice to submit is given on a final status, which is the real one. *)
LEMMA AdviceInv ==
    ASSUME CoreInv, NEW i \in Intents, Verify(i) \/ VerifyFails(i)
    PROVE  CoreInv'
<1> USE DEF CoreInv, CoreTypeOK
<1>1. PICK a \in Advices : /\ advice' = [advice EXCEPT ![i] = a]
                           /\ a = "submit" => fate[i] \in Dead
    BY DEF Verify, VerifyFails, Advices, DefaultHandler, Reports, Open, Final, Dead
<1>2. UNCHANGED <<coreStage, intent, retry, aborted, known, fate>>
    BY DEF Verify, VerifyFails
<1> QED BY <1>1, <1>2 DEF CallsInv, IntentsInv, Used

LEMMA CoreNextInv == CoreInv /\ [CoreNext]_coreVars => CoreInv'
<1> SUFFICES ASSUME CoreInv, [CoreNext]_coreVars PROVE CoreInv'
    OBVIOUS
<1>1. CASE UNCHANGED coreVars
    BY <1>1 DEF coreVars, CoreInv, CoreTypeOK, CallsInv, IntentsInv, Used
<1>2. ASSUME NEW c \in Calls, SignAndNotarize(c) PROVE CoreInv'
    BY <1>2, CallStep DEF SignAndNotarize, CoreInv, CoreTypeOK, CallsInv, CoreStages
<1>3. ASSUME NEW c \in Calls, BuildFails(c) PROVE CoreInv'
    BY <1>3, CallStep DEF BuildFails, CoreInv, CoreTypeOK, CallsInv, CoreStages, CoreOver
<1>4. ASSUME NEW c \in Calls, Abort(c) PROVE CoreInv'
    BY <1>4, CallStep DEF Abort, CoreInv, CoreTypeOK, CallsInv, CoreStages, CoreOver
<1> QED BY <1>1, <1>2, <1>3, <1>4, SubmitInv, PollAgainInv, CoreStepInv, SettleInv,
        AdviceInv DEF CoreNext

LEMMA CoreInvHolds == CoreSpec => []CoreInv
    BY CoreInitInv, CoreNextInv, PTL DEF CoreSpec

(* Every variable keeps its type, and no poll asks more often than         *)
(* maxRetries (pollTransactionStatus.ts).                                  *)
THEOREM CoreTypeCorrect == CoreSpec => []CoreTypeOK
<1>1. CoreInv => CoreTypeOK
    BY DEF CoreInv
<1> QED BY <1>1, CoreInvHolds, PTL

(* An application that submits again only on the advice of                 *)
(* VerifyTransaction, or under its own header, has one success at most,    *)
(* for any number of calls (client/index.ts, verifyTransaction.ts).        *)
THEOREM OnceCorrect == CoreSpec => []AtMostOneSuccess
<1>1. CoreInv => AtMostOneSuccess
    BY DEF CoreInv, IntentsInv, AtMostOneSuccess, Dead
<1> QED BY <1>1, CoreInvHolds, PTL

(* No status request follows the abort of a call (pollTransactionStatus.ts:*)
(* the check at the start and in sleep).                                   *)
THEOREM AbortCorrect == CoreSpec => AbortStopsAsking
<1>1. ASSUME CoreInv, [CoreNext]_coreVars, NEW c \in aborted, coreStage'[c] = "asking"
      PROVE  coreStage[c] = "asking"
    BY <1>1 DEF CoreInv, CoreTypeOK, CallsInv, CoreNext, coreVars, Submit, PollAgain, PollStart,
        SignAndNotarize, BuildFails, CoreStep, Send, SendFails, GetStatus, SleepStart,
        GetStatusFails, Wake, Abort, Settle, Verify, VerifyFails
<1>2. CoreInv /\ [CoreNext]_coreVars =>
        [\A c \in aborted : coreStage'[c] = "asking" => coreStage[c] = "asking"]_coreVars
    BY <1>1
<1> QED BY <1>2, CoreInvHolds, PTL DEF CoreSpec, AbortStopsAsking

-----------------------------------------------------------------------------
(* What the end of a call of core rests on *)

(* How many steps a call may still take.                                   *)
StepsLeft(c) ==
    IF coreStage[c] = "submitting" THEN 2 * MaxRetries + 1
    ELSE IF coreStage[c] = "sleeping" THEN 2 * (MaxRetries - retry[c]) + 1
    ELSE IF coreStage[c] = "asking" THEN 2 * (MaxRetries - retry[c])
    ELSE 0

(* Each step of a call takes at least one of the steps left away, and      *)
(* nothing adds any.                                                       *)
CallsGoOn ==
    [][\A c \in Calls : Running(c) =>
        /\ StepsLeft(c) \in Nat
        /\ CoreStep(c) => ~ Running(c)' \/ StepsLeft(c)' < StepsLeft(c)
        /\ Running(c)' => StepsLeft(c)' <= StepsLeft(c)]_coreVars

(* A signed submission or a poll takes a bounded number of steps until it  *)
(* is over, whatever the Gateway reports, and no abort, no other call and  *)
(* no advice that the application asks for sets it back.                   *)
THEOREM CallsComeToAnEnd == CoreSpec => CallsGoOn
<1>1. ASSUME CoreInv, CoreNext, NEW c \in Calls, Running(c)
      PROVE  /\ StepsLeft(c) \in Nat
             /\ CoreStep(c) => ~ Running(c)' \/ StepsLeft(c)' < StepsLeft(c)
             /\ Running(c)' => StepsLeft(c)' <= StepsLeft(c)
  <2>1. retry[c] \in 0 .. MaxRetries /\ MaxRetries \in Nat
    BY <1>1 DEF CoreInv, CoreTypeOK
  <2>2. StepsLeft(c) \in Nat
    <3>1. \A m \in Nat : \A n \in 0 .. m :
            2 * m + 1 \in Nat /\ 2 * (m - n) \in Nat /\ 2 * (m - n) + 1 \in Nat
      OBVIOUS
    <3> QED
      BY <2>1, <3>1, Zenon DEF StepsLeft
  <2>3. ASSUME CoreStep(c), Running(c)'
        PROVE  StepsLeft(c)' < StepsLeft(c) /\ StepsLeft(c)' <= StepsLeft(c)
    <3>1. coreStage'[c] \in {"submitting", "asking", "sleeping"}
      BY <2>3 DEF Running
    <3>2. \/ /\ coreStage[c] = "submitting" /\ coreStage'[c] = "asking"
             /\ retry'[c] = 0
          \/ /\ coreStage[c] = "asking" /\ coreStage'[c] = "sleeping"
             /\ retry'[c] = retry[c] + 1
          \/ /\ coreStage[c] = "sleeping" /\ coreStage'[c] = "asking"
             /\ retry'[c] = retry[c]
      <4> USE DEF CoreInv, CoreTypeOK, CallsInv
      <4>1. CASE Send(c)
        BY <1>1, <3>1, <4>1 DEF Send, PollStart
      <4>2. CASE SendFails(c) \/ GetStatusFails(c)
        BY <1>1, <3>1, <4>2 DEF SendFails, GetStatusFails
      <4>3. CASE GetStatus(c)
        BY <1>1, <3>1, <4>3 DEF GetStatus, SleepStart
      <4>4. CASE Wake(c)
        BY <1>1, <3>1, <4>4 DEF Wake
      <4> QED
        BY <2>3, <4>1, <4>2, <4>3, <4>4 DEF CoreStep
    <3>3. \A m \in Nat : \A n \in 0 .. m :
            /\ 2 * (m - 0) < 2 * m + 1
            /\ 2 * (m - (n + 1)) + 1 < 2 * (m - n)
            /\ 2 * (m - n) < 2 * (m - n) + 1
      OBVIOUS
    <3>4. /\ StepsLeft(c) = IF coreStage[c] = "submitting" THEN 2 * MaxRetries + 1
                            ELSE IF coreStage[c] = "sleeping"
                                 THEN 2 * (MaxRetries - retry[c]) + 1
                            ELSE 2 * (MaxRetries - retry[c])
          /\ StepsLeft(c)' = IF coreStage'[c] = "sleeping"
                             THEN 2 * (MaxRetries - retry'[c]) + 1
                             ELSE 2 * (MaxRetries - retry'[c])
      BY <3>2 DEF StepsLeft
    <3> HIDE DEF StepsLeft
    <3> QED
      BY <2>1, <3>2, <3>3, <3>4
  <2>4. ASSUME ~ CoreStep(c), Running(c)'
        PROVE  coreStage'[c] = coreStage[c] /\ retry'[c] = retry[c]
    BY <1>1, <2>4
    DEF CoreInv, CoreTypeOK, CallsInv, CoreNext, Submit, PollAgain, SignAndNotarize,
        BuildFails, CoreStep, Send, SendFails, GetStatus, GetStatusFails, Wake, Abort,
        Settle, Verify, VerifyFails, Running
  <2>5. ASSUME ~ CoreStep(c), Running(c)'
        PROVE  StepsLeft(c)' = StepsLeft(c)
    BY <2>4, <2>5 DEF StepsLeft
  <2> QED
    BY <2>2, <2>3, <2>5
<1>2. CoreInv /\ [CoreNext]_coreVars =>
        [\A c \in Calls : Running(c) =>
            /\ StepsLeft(c) \in Nat
            /\ CoreStep(c) => ~ Running(c)' \/ StepsLeft(c)' < StepsLeft(c)
            /\ Running(c)' => StepsLeft(c)' <= StepsLeft(c)]_coreVars
  BY <1>1
<1> QED
  BY <1>2, CoreInvHolds, PTL DEF CoreSpec, CallsGoOn

-----------------------------------------------------------------------------
(* All clients *)

(* Nothing but a commit moves the ledger.                                  *)
LEMMA OnlyCommits ==
    /\ Next => Commit \/ UNCHANGED ledgerVars
    /\ HolderNext => Commit \/ UNCHANGED ledgerVars
<1>1. Step => UNCHANGED ledgerVars
    BY DEF Step, AccountStatus, Fungible, FungibleDetails, FungiblePin, FungiblePage,
        NonFungible, NftDetails, NftPin, NftPage, NftData, Entries, StoreKeys, KeysPin,
        KeysPage, StoreData, Tokens, TokensStatus, TokensPage, PagesEnd, DataEnd
<1>2. HolderStep => UNCHANGED ledgerVars
    BY DEF HolderStep, HoldersPage, Locate
<1> QED BY <1>1, <1>2 DEF Next, BeginRead, BeginAtStatus, CallFails,
        HolderNext, BeginHolders, BeginTrace, ReadFails

(* Beside the others, each client behaves as it does alone.                *)
THEOREM EachAsAlone == AllSpec => Spec /\ HolderSpec /\ CoreSpec
<1>1. AllInit => Init /\ HolderInit /\ CoreInit
    BY DEF AllInit
<1>2. [AllNext]_clientVars => [Next]_vars
    <2>1. CASE UNCHANGED clientVars
        BY <2>1 DEF clientVars
    <2>2. CASE HolderNext /\ UNCHANGED readVars
        BY <2>2, OnlyCommits DEF Next, vars
    <2>3. CASE (BeginHolders \/ BeginTrace) /\ UNCHANGED readVars
        BY <2>3 DEF BeginHolders, BeginTrace, vars
    <2> QED BY <2>1, <2>2, <2>3 DEF AllNext
<1>3. [AllNext]_clientVars => [HolderNext]_allHolderVars
    <2>1. CASE UNCHANGED clientVars
        BY <2>1 DEF clientVars, vars, allHolderVars
    <2>2. CASE Next /\ UNCHANGED holderVars
        BY <2>2, OnlyCommits DEF HolderNext, allHolderVars
    <2>3. CASE UNCHANGED <<vars, holderVars>>
        BY <2>3 DEF vars, allHolderVars
    <2>4. CASE BeginHolders \/ BeginTrace
        BY <2>4 DEF HolderNext
    <2> QED BY <2>1, <2>2, <2>3, <2>4 DEF AllNext
<1>4. [AllNext]_clientVars => [CoreNext]_coreVars
    BY DEF AllNext, clientVars
<1> QED BY <1>1, <1>2, <1>3, <1>4, PTL DEF AllSpec, Spec, HolderSpec, CoreSpec

(* Every variable of every client keeps its type, whatever the others do.  *)
THEOREM ClientsTypeCorrect == AllSpec => []TypesOK
<1>1. TypeOK /\ HolderTypeOK /\ CoreTypeOK => TypesOK
    BY DEF TypesOK
<1> QED BY <1>1, EachAsAlone, TypeCorrect, HolderTypeCorrect, CoreTypeCorrect, PTL

(* What each client promises alone it promises beside the others.          *)
THEOREM ClientsCorrect ==
    AllSpec => /\ [](OneVersion /\ DataOfHeld)
               /\ [](SteadyHoldersFound /\ TraceIsLastHolder)
               /\ []AtMostOneSuccess
               /\ KeepsPromise
               /\ AbortStopsAsking
               /\ ReadGoesOn /\ HoldersGoOn /\ CallsGoOn
BY EachAsAlone, OneVersionCorrect, DataCorrect, ReadsKeepPromise, HoldersCorrect,
   TraceCorrect, OnceCorrect, AbortCorrect, ReadsComeToAnEnd, HoldersComeToAnEnd,
   CallsComeToAnEnd, PTL

=============================================================================
