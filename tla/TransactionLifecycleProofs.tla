----------------------- MODULE TransactionLifecycleProofs -----------------------
(***************************************************************************)
(* Proofs about TransactionLifecycle, for any calls, manifests, supplied   *)
(* intents, epochs and number of retries.                                  *)
(***************************************************************************)
EXTENDS TransactionLifecycle, TLAPS

(* Where a call stands determines what it has chosen and what was heard    *)
(* and told.                                                               *)
CallOK(c) ==
    /\ pc[c] \in {"idle", "intent"} => intent[c] = {}
    /\ pc[c] \notin {"idle", "intent", "done"} =>
        \E i \in Intents : intent[c] = {i}
    /\ \A i \in intent[c] : i.start <= epoch
    /\ pc[c] \in {"idle", "intent", "sign", "onSubmit"} =>
        Len(heard[c]) = 0 /\ told[c] = "none"
    /\ pc[c] \in {"send", "onSubmitSuccess"} =>
        Len(heard[c]) = 1 /\ told[c] = "none"
    /\ pc[c] = "poll" => Len(heard[c]) = 2 /\ told[c] = "none"
    /\ pc[c] = "onStatusFailure" =>
        Len(heard[c]) = 2 /\ told[c] \in {"permanent", "open"}
    /\ pc[c] = "onSuccess" => Len(heard[c]) = 2 /\ told[c] = "success"

CallInv == \A c \in Calls : CallOK(c)

(* What was accepted was sent, and a fate is settled once.                 *)
NetworkInv ==
    /\ \A c \in Calls :
        pc[c] \in {"onSubmitSuccess", "poll", "onStatusFailure", "onSuccess"} =>
            intent[c] \subseteq sent
    /\ succeeded \cap (failed \cup rejected) = {}

LifecycleInv ==
    /\ TypeOK
    /\ CallInv
    /\ NetworkInv
    /\ VerdictsAreTrue
    /\ NothingSentUnannounced

-----------------------------------------------------------------------------
(* A new intent is an intent, valid from the current epoch.                *)
LEMMA NewIntentType ==
    ASSUME epoch \in Epochs, NEW n \in Calls \cup Manifests \cup Shared
    PROVE  NewIntent(n) \in Intents /\ NewIntent(n).start <= epoch
BY ConstantsAssumption DEF NewIntent, Intents, Epochs

(* A supplied intent that passes the check is an intent that has begun.    *)
LEMMA SharedIntentType ==
    ASSUME NEW i \in [nonce : Shared, start : Epochs, end : Epochs], ValidNow(i)
    PROVE  i \in Intents /\ i.start <= epoch
BY ConstantsAssumption DEF ValidNow, Intents, Epochs

(* Every step in which a call gets its intent is a Choose of an intent     *)
(* that has begun.                                                         *)
LEMMA Choices ==
    ASSUME TypeOK, NEW c \in Calls,
           BuildIntent(c) \/ BuildIntentV2(c) \/ UseIntent(c)
    PROVE  \E i \in Intents : i.start <= epoch /\ Choose(c, i)
<1>1. epoch \in Epochs
  BY DEF TypeOK
<1>2. CASE BuildIntent(c)
  BY <1>1, <1>2, NewIntentType DEF BuildIntent
<1>3. CASE BuildIntentV2(c)
  BY <1>1, <1>3, NewIntentType DEF BuildIntentV2
<1>4. CASE UseIntent(c)
  BY <1>4, SharedIntentType DEF UseIntent
<1> QED
  BY <1>2, <1>3, <1>4

(* The initial states satisfy the invariant.                               *)
LEMMA InitInv == Init => LifecycleInv
<1> SUFFICES ASSUME Init
             PROVE  LifecycleInv
  OBVIOUS
<1> USE DEF Init
<1>1. TypeOK
  BY ConstantsAssumption DEF TypeOK, Epochs, PCs
<1>2. CallInv
  BY DEF CallInv, CallOK
<1>3. NetworkInv /\ VerdictsAreTrue /\ NothingSentUnannounced
  BY DEF NetworkInv, VerdictsAreTrue, NothingSentUnannounced
<1> QED
  BY <1>1, <1>2, <1>3 DEF LifecycleInv

-----------------------------------------------------------------------------
(* The steps of a call, grouped by what they change.                       *)

(* Only the place of the call changes.                                     *)
LEMMA MoveStep ==
    ASSUME LifecycleInv, NEW c \in Calls, Start(c) \/ Sign(c) \/ GiveUp(c)
    PROVE  LifecycleInv'
<1> USE DEF LifecycleInv, Start, Sign, GiveUp, Goto, network
<1>1. TypeOK'
  BY DEF TypeOK, PCs
<1>2. CallInv'
  <2> SUFFICES ASSUME NEW d \in Calls PROVE CallOK(d)'
    BY DEF CallInv
  <2>1. CASE d = c
    BY <2>1 DEF CallInv, CallOK, TypeOK
  <2>2. CASE d # c
    BY <2>2 DEF CallInv, CallOK, TypeOK
  <2> QED
    BY <2>1, <2>2
<1>3. NetworkInv'
  BY DEF NetworkInv, TypeOK
<1>4. VerdictsAreTrue' /\ NothingSentUnannounced'
  BY DEF VerdictsAreTrue, NothingSentUnannounced
<1> QED
  BY <1>1, <1>2, <1>3, <1>4

(* A call gets its intent.                                                 *)
LEMMA ChooseStep ==
    ASSUME LifecycleInv, NEW c \in Calls, NEW i \in Intents,
           i.start <= epoch, Choose(c, i)
    PROVE  LifecycleInv'
<1> USE DEF LifecycleInv, Choose, Goto, network
<1>1. TypeOK'
  BY DEF TypeOK, PCs
<1>2. CallInv'
  BY DEF CallInv, CallOK, TypeOK
<1>3. NetworkInv'
  BY DEF NetworkInv, TypeOK
<1>4. VerdictsAreTrue'
  BY DEF VerdictsAreTrue, TypeOK, CallInv, CallOK
<1>5. NothingSentUnannounced'
  BY DEF NothingSentUnannounced, TypeOK, CallInv, CallOK
<1> QED
  BY <1>1, <1>2, <1>3, <1>4, <1>5

(* A hook is called.                                                       *)
LEMMA HookStep ==
    ASSUME LifecycleInv, NEW c \in Calls,
           OnSubmit(c) \/ OnSubmitSuccess(c) \/ OnStatusFailure(c) \/ OnSuccess(c)
    PROVE  LifecycleInv'
<1>1. PICK h \in Hooks, l \in PCs :
        /\ Hook(c, h, l)
        /\ <<h, l>> \in {<<"onSubmit", "send">>, <<"onSubmitSuccess", "poll">>,
                         <<"onStatusFailure", "done">>, <<"onSuccess", "done">>}
  BY DEF OnSubmit, OnSubmitSuccess, OnStatusFailure, OnSuccess, Hooks, PCs
<1>2. /\ heard[c] \in Seq(Hooks)
      /\ heard'[c] = Append(heard[c], h)
      /\ \A d \in Calls : d # c => heard'[d] = heard[d] /\ pc'[d] = pc[d]
  BY <1>1 DEF LifecycleInv, TypeOK, Hook
<1>3. heard'[c] \in Seq(Hooks) /\ Len(heard'[c]) = Len(heard[c]) + 1
  BY <1>2
<1> USE DEF LifecycleInv, Hook, network
<1>4. TypeOK'
  BY <1>1, <1>3 DEF TypeOK, PCs
<1>5. CallInv'
  <2> SUFFICES ASSUME NEW d \in Calls PROVE CallOK(d)'
    BY DEF CallInv
  <2>1. UNCHANGED <<epoch, intent, told>>
    BY <1>1
  <2>2. CASE d # c
    BY <1>2, <2>1, <2>2 DEF CallInv, CallOK
  <2>3. CASE d = c
    <3>1. CallOK(c) /\ pc[c] = h /\ pc'[c] \in {l, "done"}
      BY <1>1 DEF CallInv, TypeOK
    <3> QED
      BY <1>1, <1>3, <2>1, <2>3, <3>1 DEF CallOK
  <2> QED
    BY <2>2, <2>3
<1>6. NetworkInv'
  BY <1>1, <1>2 DEF NetworkInv, TypeOK
<1>7. VerdictsAreTrue'
  BY <1>1 DEF VerdictsAreTrue
<1>8. NothingSentUnannounced'
  <2>1. \A d \in Calls : Len(heard[d]) > 0 => Len(heard'[d]) > 0
    BY <1>2, <1>3
  <2> QED
    BY <1>1, <2>1 DEF NothingSentUnannounced
<1> QED
  BY <1>4, <1>5, <1>6, <1>7, <1>8

(* The Gateway is given the transaction, or may have been.                 *)
LEMMA SendStep ==
    ASSUME LifecycleInv, NEW c \in Calls, Send(c) \/ SendFails(c)
    PROVE  LifecycleInv'
<1> USE DEF LifecycleInv, Send, SendFails, Goto
<1>0. \E i \in Intents : intent[c] = {i}
  BY DEF CallInv, CallOK
<1>1. TypeOK'
  BY <1>0 DEF TypeOK, PCs
<1>2. CallInv'
  <2> SUFFICES ASSUME NEW d \in Calls PROVE CallOK(d)'
    BY DEF CallInv
  <2>1. CASE d = c
    BY <2>1 DEF CallInv, CallOK, TypeOK
  <2>2. CASE d # c
    BY <2>2 DEF CallInv, CallOK, TypeOK
  <2> QED
    BY <2>1, <2>2
<1>3. NetworkInv'
  BY DEF NetworkInv, TypeOK
<1>4. VerdictsAreTrue'
  BY DEF VerdictsAreTrue
<1>5. NothingSentUnannounced'
  <2>1. Len(heard[c]) > 0
    BY DEF CallInv, CallOK
  <2>2. sent' \subseteq sent \cup intent[c]
    BY DEF TypeOK
  <2> QED
    BY <1>0, <2>1, <2>2 DEF NothingSentUnannounced
<1> QED
  BY <1>1, <1>2, <1>3, <1>4, <1>5

(* The poll goes on, or ends with a verdict.                               *)
LEMMA PollStep ==
    ASSUME LifecycleInv, NEW c \in Calls,
           PollSucceeds(c) \/ PollFails(c) \/ PollAgain(c) \/ PollEnds(c)
    PROVE  LifecycleInv'
<1> USE DEF LifecycleInv, Conclude, Goto, network
<1>1. CASE PollSucceeds(c)
  <2>1. TypeOK'
    BY <1>1 DEF TypeOK, PCs, Verdicts, PollSucceeds
  <2>2. CallInv' /\ NetworkInv'
    BY <1>1 DEF CallInv, CallOK, NetworkInv, TypeOK, PollSucceeds
  <2>3. VerdictsAreTrue' /\ NothingSentUnannounced'
    BY <1>1 DEF VerdictsAreTrue, NothingSentUnannounced, TypeOK, PollSucceeds
  <2> QED
    BY <2>1, <2>2, <2>3
<1>2. CASE PollFails(c)
  <2>1. TypeOK'
    BY <1>2 DEF TypeOK, PCs, Verdicts, PollFails
  <2>2. CallInv' /\ NetworkInv'
    BY <1>2 DEF CallInv, CallOK, NetworkInv, TypeOK, PollFails
  <2>3. VerdictsAreTrue' /\ NothingSentUnannounced'
    BY <1>2 DEF VerdictsAreTrue, NothingSentUnannounced, NetworkInv, TypeOK, PollFails
  <2> QED
    BY <2>1, <2>2, <2>3
<1>3. CASE PollAgain(c)
  <2>1. TypeOK'
    BY <1>3, ConstantsAssumption DEF TypeOK, PollAgain, RetriesLeft
  <2>2. CallInv' /\ NetworkInv'
    BY <1>3 DEF CallInv, CallOK, NetworkInv, PollAgain
  <2>3. VerdictsAreTrue' /\ NothingSentUnannounced'
    BY <1>3 DEF VerdictsAreTrue, NothingSentUnannounced, PollAgain
  <2> QED
    BY <2>1, <2>2, <2>3
<1>4. CASE PollEnds(c)
  <2>1. TypeOK'
    BY <1>4 DEF TypeOK, PCs, Verdicts, PollEnds
  <2>2. CallInv' /\ NetworkInv'
    BY <1>4 DEF CallInv, CallOK, NetworkInv, TypeOK, PollEnds
  <2>3. VerdictsAreTrue' /\ NothingSentUnannounced'
    BY <1>4 DEF VerdictsAreTrue, NothingSentUnannounced, TypeOK, PollEnds
  <2> QED
    BY <2>1, <2>2, <2>3
<1> QED
  BY <1>1, <1>2, <1>3, <1>4

(* The network moves.  That a settled fate stays is what keeps the         *)
(* verdicts true.                                                          *)
LEMMA NetworkStep ==
    ASSUME LifecycleInv, Network
    PROVE  LifecycleInv'
<1> USE DEF LifecycleInv
<1>1. CASE NextEpoch
  <2>1. epoch \in Nat /\ epoch' = epoch + 1 /\ epoch' \in Epochs
    BY <1>1, ConstantsAssumption DEF NextEpoch, TypeOK, Epochs
  <2>2. TypeOK'
    BY <1>1, <2>1 DEF NextEpoch, TypeOK
  <2>3. CallInv'
    <3>1. \A d \in Calls : \A i \in intent[d] : i.start \in Nat
      BY DEF TypeOK, Intents, Epochs
    <3> QED
      BY <1>1, <2>1, <3>1 DEF NextEpoch, CallInv, CallOK
  <2>4. NetworkInv' /\ VerdictsAreTrue' /\ NothingSentUnannounced'
    BY <1>1 DEF NextEpoch, NetworkInv, VerdictsAreTrue, NothingSentUnannounced
  <2> QED
    BY <2>2, <2>3, <2>4
<1>2. CASE Commit \/ Reject
  <2>1. PICK i \in sent \ Settled :
          /\ \/ succeeded' = succeeded \cup {i} /\ failed' = failed /\ rejected' = rejected
             \/ failed' = failed \cup {i} /\ succeeded' = succeeded /\ rejected' = rejected
             \/ rejected' = rejected \cup {i} /\ succeeded' = succeeded /\ failed' = failed
          /\ UNCHANGED <<epoch, sent, pc, intent, polls, told, heard>>
    BY <1>2 DEF Commit, Reject
  <2>2. TypeOK'
    BY <2>1 DEF TypeOK
  <2>3. CallInv' /\ NothingSentUnannounced'
    BY <2>1 DEF CallInv, CallOK, NothingSentUnannounced
  <2>4. NetworkInv'
    BY <2>1 DEF NetworkInv, Settled
  <2>5. VerdictsAreTrue'
    BY <2>1 DEF VerdictsAreTrue, Settled
  <2> QED
    BY <2>2, <2>3, <2>4, <2>5
<1> QED
  BY <1>1, <1>2 DEF Network

(* The invariant is inductive.                                             *)
LEMMA StepInv == LifecycleInv /\ [Next]_vars => LifecycleInv'
<1> SUFFICES ASSUME LifecycleInv, [Next]_vars
             PROVE  LifecycleInv'
  OBVIOUS
<1>1. ASSUME NEW c \in Calls, Step(c)
      PROVE  LifecycleInv'
  <2>1. CASE BuildIntent(c) \/ BuildIntentV2(c) \/ UseIntent(c)
    BY <2>1, Choices, ChooseStep DEF LifecycleInv
  <2> QED
    BY <1>1, <2>1, MoveStep, HookStep, SendStep, PollStep
       DEF Step, Prepare, Submit, Poll
<1>2. CASE Network
  BY <1>2, NetworkStep
<1>3. CASE UNCHANGED vars
  BY <1>3 DEF vars, network, LifecycleInv, TypeOK, CallInv, CallOK, NetworkInv,
              VerdictsAreTrue, NothingSentUnannounced
<1> QED
  BY <1>1, <1>2, <1>3 DEF Next

LEMMA LifecycleCorrect == Spec => []LifecycleInv
  BY InitInv, StepInv, PTL DEF Spec

-----------------------------------------------------------------------------
(* Every variable keeps its type; in particular no call polls more than    *)
(* its retries allow.                                                      *)
THEOREM TypeCorrect == Spec => []TypeOK
<1>1. LifecycleInv => TypeOK
  BY DEF LifecycleInv
<1> QED
  BY <1>1, LifecycleCorrect, PTL

(* What a call reports is the fate of its transaction, and a permanent     *)
(* failure stays one.                                                      *)
THEOREM VerdictsCorrect == Spec => []VerdictsAreTrue
<1>1. LifecycleInv => VerdictsAreTrue
  BY DEF LifecycleInv
<1> QED
  BY <1>1, LifecycleCorrect, PTL

(* Whatever reaches the network was announced to the application first.    *)
THEOREM SentAfterAnnounced == Spec => []NothingSentUnannounced
<1>1. LifecycleInv => NothingSentUnannounced
  BY DEF LifecycleInv
<1> QED
  BY <1>1, LifecycleCorrect, PTL

(* Whatever reaches the network has reached its first epoch.               *)
THEOREM SentInTime == Spec => []NothingSentTooEarly
<1>1. LifecycleInv => NothingSentTooEarly
  BY DEF LifecycleInv, CallInv, CallOK, NothingSentUnannounced, NothingSentTooEarly
<1> QED
  BY <1>1, LifecycleCorrect, PTL

-----------------------------------------------------------------------------
(* The hooks implement SubmissionPromise: each step of a call or of the    *)
(* network is a step of the promise or leaves it unchanged.                *)

(* Only the hooks change what the application knows.                       *)
LEMMA StageKept ==
    ASSUME UNCHANGED heard,
           \A c \in Calls :
                told'[c] = told[c] \/ Len(heard[c]) \in 0 .. 2
    PROVE  UNCHANGED stage
<1>1. \A c \in Calls :
        StageAfter(Len(heard[c]), told'[c]) = StageAfter(Len(heard[c]), told[c])
  BY DEF StageAfter
<1> QED
  BY <1>1 DEF stage

(* A hook moves its call from one stage to the next.                       *)
LEMMA StageMoves ==
    ASSUME LifecycleInv, NEW c \in Calls, NEW h \in Hooks, NEW l, Hook(c, h, l)
    PROVE  LET n == Len(heard[c]) IN
           /\ stage[c] = StageAfter(n, told[c])
           /\ stage' = [stage EXCEPT ![c] = StageAfter(n + 1, told[c])]
<1>1. /\ heard[c] \in Seq(Hooks)
      /\ heard'[c] = Append(heard[c], h)
      /\ \A d \in Calls : d # c => heard'[d] = heard[d]
      /\ told' = told
  BY DEF LifecycleInv, TypeOK, Hook
<1>2. Len(heard'[c]) = Len(heard[c]) + 1
  BY <1>1
<1>3. \A d \in Calls : d # c => stage'[d] = stage[d]
  BY <1>1 DEF stage
<1> QED
  BY <1>1, <1>2, <1>3 DEF stage

(* Choosing an intent is a step of the promise.                            *)
LEMMA ChooseKeepsPromise ==
    ASSUME LifecycleInv, NEW c \in Calls, NEW i \in Intents, Choose(c, i)
    PROVE  Promise!Choose(c)
<1>1. intent[c] = {} /\ intent' = [intent EXCEPT ![c] = {i}]
  BY DEF Choose, LifecycleInv, CallInv, CallOK
<1>2. UNCHANGED <<network, stage>>
  BY StageKept DEF Choose
<1> QED
  BY <1>1, <1>2 DEF Promise!Choose, Promise!network, network

(* Each hook is the step of the promise that it stands for.                *)
LEMMA HookKeepsPromise ==
    ASSUME LifecycleInv, NEW c \in Calls,
           OnSubmit(c) \/ OnSubmitSuccess(c) \/ OnStatusFailure(c) \/ OnSuccess(c)
    PROVE  Promise!Announce(c) \/ Promise!Accept(c) \/ Promise!Conclude(c)
<1>1. CallOK(c) /\ UNCHANGED <<intent, Promise!network>>
  BY DEF LifecycleInv, CallInv, OnSubmit, OnSubmitSuccess, OnStatusFailure,
         OnSuccess, Hook, network, Promise!network
<1>0. /\ stage[c] = StageAfter(Len(heard[c]), told[c])
      /\ stage' = [stage EXCEPT ![c] = StageAfter(Len(heard[c]) + 1, told[c])]
  BY StageMoves DEF OnSubmit, OnSubmitSuccess, OnStatusFailure, OnSuccess, Hooks
<1>2. CASE OnSubmit(c)
  <2>1. Len(heard[c]) = 0 /\ intent[c] # {}
    BY <1>1, <1>2 DEF OnSubmit, Hook, CallOK
  <2>2. stage[c] = "quiet" /\ stage' = [stage EXCEPT ![c] = "announced"]
    BY <2>1, <1>0 DEF StageAfter
  <2> QED
    BY <1>1, <2>1, <2>2 DEF Promise!Announce, Promise!Tell
<1>3. CASE OnSubmitSuccess(c)
  <2>1. Len(heard[c]) = 1 /\ intent[c] \subseteq sent
    BY <1>1, <1>3 DEF OnSubmitSuccess, Hook, CallOK, LifecycleInv, NetworkInv
  <2>2. stage[c] = "announced" /\ stage' = [stage EXCEPT ![c] = "accepted"]
    BY <2>1, <1>0 DEF StageAfter
  <2> QED
    BY <1>1, <2>1, <2>2 DEF Promise!Accept, Promise!Tell
<1>4. CASE OnStatusFailure(c) \/ OnSuccess(c)
  <2>1. Len(heard[c]) = 2 /\ told[c] \in Verdicts
    BY <1>1, <1>4 DEF OnStatusFailure, OnSuccess, Hook, CallOK, Verdicts
  <2>2. stage[c] = "accepted" /\ stage' = [stage EXCEPT ![c] = told[c]]
    BY <2>1, <1>0 DEF StageAfter
  <2>3. /\ told[c] = "success" => intent[c] \subseteq succeeded
        /\ told[c] = "permanent" => intent[c] \subseteq failed \cup rejected
    BY DEF LifecycleInv, VerdictsAreTrue
  <2> QED
    BY <1>1, <2>1, <2>2, <2>3 DEF Promise!Conclude, Promise!Tell, Verdicts
<1> QED
  BY <1>2, <1>3, <1>4

(* The network is only given what was announced.                           *)
LEMMA SendKeepsPromise ==
    ASSUME LifecycleInv, NEW c \in Calls, Send(c) \/ SendFails(c)
    PROVE  Promise!Send(c) \/ UNCHANGED Promise!vars
<1>1. stage[c] = "announced"
  BY DEF Send, SendFails, LifecycleInv, CallInv, CallOK, stage, StageAfter
<1>2. UNCHANGED stage
  BY StageKept DEF Send, SendFails
<1> QED
  BY <1>1, <1>2 DEF Send, SendFails, Promise!Send, Promise!vars, Promise!network

(* Until a hook is called the application does not see the poll.           *)
LEMMA PollKeepsPromise ==
    ASSUME LifecycleInv, NEW c \in Calls,
           PollSucceeds(c) \/ PollFails(c) \/ PollAgain(c) \/ PollEnds(c)
    PROVE  UNCHANGED Promise!vars
<1>1. UNCHANGED <<network, intent, heard>>
  BY DEF PollSucceeds, PollFails, PollAgain, PollEnds, Conclude
<1>2. Len(heard[c]) = 2 /\ \A d \in Calls : d # c => told'[d] = told[d]
  BY DEF PollSucceeds, PollFails, PollAgain, PollEnds, Conclude, LifecycleInv,
         CallInv, CallOK, TypeOK
<1>3. UNCHANGED stage
  BY <1>1, <1>2, StageKept
<1> QED
  BY <1>1, <1>3 DEF Promise!vars, Promise!network, network

(* The fate of an intent is settled once.                                  *)
LEMMA NetworkKeepsPromise ==
    ASSUME LifecycleInv, Network
    PROVE  Promise!Settle \/ UNCHANGED Promise!vars
<1>1. UNCHANGED <<sent, intent, stage>>
  BY StageKept DEF Network, NextEpoch, Commit, Reject
<1>2. CASE NextEpoch
  BY <1>1, <1>2 DEF NextEpoch, Promise!vars, Promise!network
<1>3. CASE Commit
  BY <1>1, <1>3 DEF Commit, Settled, Promise!Settle, Promise!Settled
<1>4. CASE Reject
  BY <1>1, <1>4 DEF Reject, Settled, Promise!Settle, Promise!Settled
<1> QED
  BY <1>2, <1>3, <1>4 DEF Network

(* Every step is a step of the promise or leaves it unchanged.             *)
LEMMA StepKeepsPromise ==
    LifecycleInv /\ [Next]_vars => [Promise!Next]_(Promise!vars)
<1> SUFFICES ASSUME LifecycleInv, [Next]_vars
             PROVE  Promise!Next \/ UNCHANGED Promise!vars
  OBVIOUS
<1>1. ASSUME NEW c \in Calls, Step(c)
      PROVE  Promise!Next \/ UNCHANGED Promise!vars
  <2>1. CASE BuildIntent(c) \/ BuildIntentV2(c) \/ UseIntent(c)
    BY <2>1, Choices, ChooseKeepsPromise DEF LifecycleInv, Promise!Next
  <2>2. CASE Start(c) \/ Sign(c) \/ GiveUp(c)
    <3>1. UNCHANGED <<network, intent, stage>>
      BY <2>2, StageKept DEF Start, Sign, GiveUp
    <3> QED
      BY <3>1 DEF network, Promise!vars, Promise!network
  <2> QED
    BY <1>1, <2>1, <2>2, HookKeepsPromise, SendKeepsPromise, PollKeepsPromise
       DEF Step, Prepare, Submit, Poll, Promise!Next
<1>2. CASE Network
  BY <1>2, NetworkKeepsPromise DEF Promise!Next
<1>3. CASE UNCHANGED vars
  BY <1>3 DEF vars, network, stage, Promise!vars, Promise!network
<1> QED
  BY <1>1, <1>2, <1>3 DEF Next

(* submitTransaction with its hooks implements SubmissionPromise, with     *)
(* stage as what the application knows.                                    *)
THEOREM LifecycleKeepsPromise == Spec => KeepsPromise
<1>1. Init => Promise!Init
  BY DEF Init, Promise!Init, stage, StageAfter
<1> QED
  BY <1>1, LifecycleCorrect, StepKeepsPromise, PTL
     DEF Spec, KeepsPromise, Promise!Spec

-----------------------------------------------------------------------------
(* What VerdictIsHeard rests on: a call that was told a verdict is at the  *)
(* hook for it, or has called it.                                          *)
VerdictReachesHook ==
    \A c \in Calls : told[c] # "none" =>
        \/ pc[c] = "onSuccess" /\ told[c] = "success"
        \/ pc[c] = "onStatusFailure" /\ told[c] \in {"permanent", "open"}
        \/ pc[c] = "done" /\ Len(heard[c]) = 3

LEMMA VerdictStep ==
    ASSUME LifecycleInv, VerdictReachesHook, [Next]_vars
    PROVE  VerdictReachesHook'
<1> USE DEF VerdictReachesHook
<1>1. ASSUME NEW c \in Calls, NEW h \in Hooks, NEW l \in PCs, Hook(c, h, l),
             <<h, l>> \in {<<"onSubmit", "send">>, <<"onSubmitSuccess", "poll">>,
                           <<"onStatusFailure", "done">>, <<"onSuccess", "done">>}
      PROVE  VerdictReachesHook'
  <2>1. /\ pc[c] = h /\ pc'[c] \in {l, "done"} /\ told' = told
        /\ heard[c] \in Seq(Hooks) /\ heard'[c] = Append(heard[c], h)
        /\ \A d \in Calls \ {c} : heard'[d] = heard[d] /\ pc'[d] = pc[d]
    BY <1>1 DEF LifecycleInv, TypeOK, Hook
  <2>2. Len(heard'[c]) = Len(heard[c]) + 1
    BY <2>1
  <2>3. CallOK(c)
    BY DEF LifecycleInv, CallInv
  <2>4. told[c] # "none" => pc'[c] = "done" /\ Len(heard'[c]) = 3
    BY <1>1, <2>1, <2>2, <2>3 DEF CallOK
  <2> QED
    BY <2>1, <2>4
<1>2. ASSUME NEW c \in Calls,
             OnSubmit(c) \/ OnSubmitSuccess(c) \/ OnStatusFailure(c) \/ OnSuccess(c)
      PROVE  VerdictReachesHook'
  BY <1>1, <1>2
  DEF OnSubmit, OnSubmitSuccess, OnStatusFailure, OnSuccess, Hooks, PCs
<1>3. ASSUME NEW c \in Calls, Prepare(c) \/ Send(c) \/ SendFails(c)
      PROVE  VerdictReachesHook'
  <2>1. /\ told[c] = "none" /\ told' = told /\ heard' = heard
        /\ \A d \in Calls \ {c} : pc'[d] = pc[d]
    BY <1>3
    DEF LifecycleInv, CallInv, CallOK, TypeOK, Prepare, Start, BuildIntent, BuildIntentV2,
        UseIntent, Choose, Sign, GiveUp, Send, SendFails, Goto
  <2> QED
    BY <2>1
<1>4. ASSUME NEW c \in Calls, PollSucceeds(c) \/ PollFails(c) \/ PollEnds(c)
      PROVE  VerdictReachesHook'
  BY <1>4
  DEF LifecycleInv, TypeOK, PollSucceeds, PollFails, PollEnds, Conclude, Goto
<1>5. ASSUME NEW c \in Calls, PollAgain(c)
      PROVE  VerdictReachesHook'
  BY <1>5 DEF PollAgain
<1>6. CASE Network \/ UNCHANGED vars
  BY <1>6 DEF Network, NextEpoch, Commit, Reject, vars
<1> QED
  BY <1>2, <1>3, <1>4, <1>5, <1>6 DEF Next, Step, Submit, Poll

(* No verdict is dropped on its way to the application: a call that has    *)
(* been told one waits for the hook of that very verdict or has called it, *)
(* also when a hook died or the Gateway answered late.                     *)
THEOREM NoVerdictIsDropped == Spec => []VerdictReachesHook
<1>1. Init => VerdictReachesHook
  BY DEF Init, VerdictReachesHook
<1> QED
  BY <1>1, VerdictStep, LifecycleCorrect, PTL DEF Spec

=============================================================================
