-------------------------- MODULE TransactionLifecycle --------------------------
(***************************************************************************)
(* TransactionHelper.submitTransaction of src/packages/tx-tool: find or    *)
(* build an intent, sign, compile, submit, poll for the status with a      *)
(* bounded number of retries and a timeout, and call the life cycle hooks  *)
(* on the way.                                                             *)
(*                                                                         *)
(* Calls run concurrently and share the network only.  An intent stands    *)
(* for what its hash covers and the properties tell apart: the epochs in   *)
(* which it is valid, and a nonce.  A version 1 header draws the nonce at  *)
(* random, so each call has its own; a version 2 header has the intent     *)
(* discriminator 0 unless told otherwise, so that the manifest decides; an *)
(* intent that the application supplies may be supplied again.             *)
(***************************************************************************)
EXTENDS Naturals, Sequences

CONSTANTS
    Calls,        \* calls of submitTransaction
    Manifests,    \* manifests of version 2 transactions
    Shared,       \* nonces of intents that the application supplies
    MaxEpoch,     \* bound: epochs of the network
    MaxRetries    \* TRANSACTION_STATUS_MAX_POLL_ATTEMPTS_COUNT

ASSUME ConstantsAssumption ==
    /\ MaxEpoch \in Nat
    /\ MaxRetries \in Nat

VARIABLES
    epoch,        \* epoch of the network
    sent,         \* intents that the Gateway was given
    succeeded,    \* intents committed with success
    failed,       \* intents committed with failure
    rejected,     \* intents that the network will never commit
    pc,           \* where each call is
    intent,       \* the intent of each call: {} before there is one
    polls,        \* unresolved answers to the polls of each call
    told,         \* the verdict of the poll: none before it ends
    heard         \* hooks called for each call, in order

network == <<epoch, sent, succeeded, failed, rejected>>
vars == <<network, pc, intent, polls, told, heard>>

-----------------------------------------------------------------------------
(* Data *)

Epochs == 0 .. MaxEpoch
Intents == [nonce : Calls \cup Manifests \cup Shared,
            start : Epochs, end : 0 .. MaxEpoch + 2]

Hooks == {"onSubmit", "onSubmitSuccess", "onStatusFailure", "onSuccess"}
Verdicts == {"success", "permanent", "open"}

PCs == {"idle", "intent", "sign", "onSubmit", "send", "onSubmitSuccess",
        "poll", "onStatusFailure", "onSuccess", "done"}

Settled == succeeded \cup failed \cup rejected

Goto(c, l) == pc' = [pc EXCEPT ![c] = l]

(* Mutant of ValidNow: the start epoch is not looked at.                   *)
ValidBeforeTheEnd(i) == epoch < i.end

(* verifyEpochBounds, with the epoch of the ledger state just asked for.   *)
ValidNow(i) == i.start <= epoch /\ epoch < i.end

-----------------------------------------------------------------------------
Init ==
    /\ epoch = 0
    /\ sent = {}
    /\ succeeded = {}
    /\ failed = {}
    /\ rejected = {}
    /\ pc = [c \in Calls |-> "idle"]
    /\ intent = [c \in Calls |-> {}]
    /\ polls = [c \in Calls |-> 0]
    /\ told = [c \in Calls |-> "none"]
    /\ heard = [c \in Calls |-> <<>>]

(* The balance of the fee payer, if there is one, is enough.               *)
Start(c) ==
    /\ pc[c] = "idle"
    /\ Goto(c, "intent")
    /\ UNCHANGED <<network, intent, polls, told, heard>>

Choose(c, i) ==
    /\ pc[c] = "intent"
    /\ intent' = [intent EXCEPT ![c] = {i}]
    /\ Goto(c, "sign")
    /\ UNCHANGED <<network, polls, told, heard>>

(* A new header is valid from the current epoch for two epochs.            *)
NewIntent(n) == [nonce |-> n, start |-> epoch, end |-> epoch + 2]

BuildIntent(c) == Choose(c, NewIntent(c))

BuildIntentV2(c) == \E m \in Manifests : Choose(c, NewIntent(m))

UseIntent(c) ==
    \E i \in [nonce : Shared, start : Epochs, end : Epochs] :
        ValidNow(i) /\ Choose(c, i)

(* Mutant of Sign: the transaction is submitted before onSubmit.           *)
SignThenSend(c) ==
    /\ pc[c] = "sign"
    /\ Goto(c, "send")
    /\ UNCHANGED <<network, intent, polls, told, heard>>

(* The signer answers, however late, and the transaction is compiled.      *)
Sign(c) ==
    /\ pc[c] = "sign"
    /\ Goto(c, "onSubmit")
    /\ UNCHANGED <<network, intent, polls, told, heard>>

(* Low balance, no valid intent, no signature: nothing was announced.      *)
GiveUp(c) ==
    /\ pc[c] \in {"idle", "intent", "sign"}
    /\ Goto(c, "done")
    /\ UNCHANGED <<network, intent, polls, told, heard>>

(* One life cycle hook, after which the call goes on at l.  A hook cannot  *)
(* fail, but it can die, and the call dies with it.                        *)
Hook(c, h, l) ==
    /\ pc[c] = h
    /\ heard' = [heard EXCEPT ![c] = Append(@, h)]
    /\ pc' \in {[pc EXCEPT ![c] = l], [pc EXCEPT ![c] = "done"]}
    /\ UNCHANGED <<network, intent, polls, told>>

OnSubmit(c) == Hook(c, "onSubmit", "send")
OnSubmitSuccess(c) == Hook(c, "onSubmitSuccess", "poll")
OnStatusFailure(c) == Hook(c, "onStatusFailure", "done")
OnSuccess(c) == Hook(c, "onSuccess", "done")

(* Mutant of Send: the call does not wait for the Gateway.                 *)
SendInBackground(c) ==
    /\ pc[c] = "send"
    /\ sent' \in {sent, sent \cup intent[c]}
    /\ Goto(c, "onSubmitSuccess")
    /\ UNCHANGED <<epoch, succeeded, failed, rejected, intent, polls, told, heard>>

Send(c) ==
    /\ pc[c] = "send"
    /\ sent' = sent \cup intent[c]
    /\ Goto(c, "onSubmitSuccess")
    /\ UNCHANGED <<epoch, succeeded, failed, rejected, intent, polls, told, heard>>

(* The call fails; the Gateway may have taken the transaction all the same. *)
SendFails(c) ==
    /\ pc[c] = "send"
    /\ sent' \in {sent, sent \cup intent[c]}
    /\ Goto(c, "done")
    /\ UNCHANGED <<epoch, succeeded, failed, rejected, intent, polls, told, heard>>

Conclude(c, verdict, l) ==
    /\ pc[c] = "poll"
    /\ told' = [told EXCEPT ![c] = verdict]
    /\ Goto(c, l)
    /\ UNCHANGED <<network, intent, polls, heard>>

PollSucceeds(c) ==
    intent[c] \subseteq succeeded /\ Conclude(c, "success", "onSuccess")

(* Mutant of PollFails: whatever is not committed yet counts as rejected.  *)
PollFailsEarly(c) ==
    intent[c] \cap succeeded = {} /\ Conclude(c, "permanent", "onStatusFailure")

PollFails(c) ==
    /\ intent[c] \subseteq failed \cup rejected
    /\ Conclude(c, "permanent", "onStatusFailure")

(* Mutant of RetriesLeft: one retry too many.                              *)
OneRetryMore(c) == polls[c] <= MaxRetries

RetriesLeft(c) == polls[c] < MaxRetries

(* Any other status, which a Gateway that lags behind the ledger may still *)
(* report of a transaction whose fate is settled.                          *)
PollAgain(c) ==
    /\ pc[c] = "poll"
    /\ RetriesLeft(c)
    /\ polls' = [polls EXCEPT ![c] = @ + 1]
    /\ UNCHANGED <<network, pc, intent, told, heard>>

(* Mutant of PollEnds: only a failed transaction reaches the hook.         *)
PollEndsUnheard(c) == Conclude(c, "open", "done")

(* The retries are used up, the Gateway call fails, or the timeout cuts    *)
(* the poll short.                                                         *)
PollEnds(c) == Conclude(c, "open", "onStatusFailure")

-----------------------------------------------------------------------------
(* The network: an intent it was given is committed within its epochs or   *)
(* rejected for good, and what it has settled stays.                       *)
NextEpoch ==
    /\ epoch < MaxEpoch
    /\ epoch' = epoch + 1
    /\ UNCHANGED <<sent, succeeded, failed, rejected, pc, intent, polls, told, heard>>

Commit ==
    /\ \E i \in sent \ Settled :
        /\ i.start <= epoch /\ epoch < i.end
        /\ \/ succeeded' = succeeded \cup {i} /\ UNCHANGED failed
           \/ failed' = failed \cup {i} /\ UNCHANGED succeeded
    /\ UNCHANGED <<epoch, sent, rejected, pc, intent, polls, told, heard>>

Reject ==
    /\ \E i \in sent \ Settled : rejected' = rejected \cup {i}
    /\ UNCHANGED <<epoch, sent, succeeded, failed, pc, intent, polls, told, heard>>

Prepare(c) ==
    \/ Start(c) \/ BuildIntent(c) \/ BuildIntentV2(c) \/ UseIntent(c)
    \/ Sign(c) \/ GiveUp(c)

Submit(c) == OnSubmit(c) \/ Send(c) \/ SendFails(c) \/ OnSubmitSuccess(c)

Poll(c) ==
    \/ PollSucceeds(c) \/ PollFails(c) \/ PollAgain(c) \/ PollEnds(c)
    \/ OnStatusFailure(c) \/ OnSuccess(c)

Step(c) == Prepare(c) \/ Submit(c) \/ Poll(c)

Network == NextEpoch \/ Commit \/ Reject

Next == (\E c \in Calls : Step(c)) \/ Network

Spec == Init /\ [][Next]_vars

(* The timeout ends every poll, and the hooks that follow it return.       *)
FairSpec == Spec /\ \A c \in Calls : WF_vars(Poll(c))

-----------------------------------------------------------------------------
(* Properties *)

TypeOK ==
    /\ epoch \in Epochs
    /\ sent \subseteq Intents
    /\ succeeded \subseteq sent
    /\ failed \subseteq sent
    /\ rejected \subseteq sent
    /\ pc \in [Calls -> PCs]
    /\ intent \in [Calls -> SUBSET Intents]
    /\ polls \in [Calls -> 0 .. MaxRetries]
    /\ told \in [Calls -> Verdicts \cup {"none"}]
    /\ heard \in [Calls -> Seq(Hooks)]

(* A call that reports success has its transaction committed, and one that *)
(* reports a permanent failure has a transaction that can never succeed    *)
(* any more, so that a replacement cannot take effect twice: also when the *)
(* answer came late, and when two calls share an intent.                   *)
VerdictsAreTrue ==
    \A c \in Calls :
        /\ told[c] = "success" => intent[c] \subseteq succeeded
        /\ told[c] = "permanent" =>
            intent[c] \subseteq (failed \cup rejected) \ succeeded

(* An application that records what onSubmit tells it knows of everything  *)
(* that may reach the network, whichever call fails later.                 *)
NothingSentUnannounced ==
    \A i \in sent :
        \E c \in Calls : intent[c] = {i} /\ Len(heard[c]) > 0

(* The epochs are verified before the signer is asked, who may take long;  *)
(* still nothing is submitted before its first epoch.                      *)
NothingSentTooEarly == \A i \in sent : i.start <= epoch

(* Every poll ends, and the application hears of it, whatever ended it.    *)
VerdictIsHeard ==
    \A c \in Calls : pc[c] = "poll" ~> Len(heard[c]) = 3

(* What the application knows of a call after n hooks; the last of them    *)
(* told it the verdict.                                                    *)
StageAfter(n, verdict) ==
    IF n = 0 THEN "quiet"
    ELSE IF n = 1 THEN "announced"
    ELSE IF n = 2 THEN "accepted"
    ELSE verdict

stage == [c \in Calls |-> StageAfter(Len(heard[c]), told[c])]

(* The hooks keep the promise that SubmissionPromise makes an application. *)
Promise == INSTANCE SubmissionPromise
KeepsPromise == Promise!Spec

=============================================================================
