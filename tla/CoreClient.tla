------------------------------- MODULE CoreClient -------------------------------
(***************************************************************************)
(* The transaction side of src/packages/core: submitTransaction of the web3*)
(* client, pollTransactionStatus, and VerifyTransaction, which tells an    *)
(* application whether to submit again.  The application (external) wants  *)
(* one thing done once.  It submits a new transaction only if it is told   *)
(* so of every one before, or the same one again, under a header that it   *)
(* supplies itself.                                                        *)
(***************************************************************************)
EXTENDS Naturals

CONSTANTS
    Calls,        \* calls of the application
    Supplied,     \* the intent under the header of the application
    NoIntent,     \* an intent that is not built yet
    MaxRetries    \* pollingOptions.maxRetries

ASSUME CoreAssumption ==
    /\ Supplied \notin Calls
    /\ NoIntent \notin Calls \cup {Supplied}
    /\ MaxRetries \in Nat

VARIABLES
    coreStage,    \* where a call is
    intent,       \* the intent of a call; its hash is the transactionId
    retry,        \* status requests of a call that were answered
    aborted,      \* calls whose abort signal has fired
    known,        \* transaction ids the application has been handed
    advice,       \* what VerifyTransaction said last of an intent
    fate          \* an intent on the network

coreVars == <<coreStage, intent, retry, aborted, known, advice, fate>>

(* A nonce is random, so the intent of a call is its own, unless the       *)
(* application supplies the header.                                        *)
Intents == Calls \cup {Supplied}

Open == {"Unknown", "Pending", "CommitPendingOutcomeUnknown",
         "LikelyButNotCertainRejection"}
Final == {"CommittedSuccess", "CommittedFailure", "PermanentlyRejected"}
CoreOver == {"resolved", "rejected"}
CoreStages ==
    {"unused", "building", "submitting", "asking", "sleeping"} \cup CoreOver
Advices == {"none", "submit", "poll", "neither"}

CoreInit ==
    /\ coreStage = [c \in Calls |-> "unused"]
    /\ intent = [c \in Calls |-> NoIntent]
    /\ retry = [c \in Calls |-> 0]
    /\ aborted = {}
    /\ known = {}
    /\ advice = [i \in Intents |-> "none"]
    /\ fate = [i \in Intents |-> "Unknown"]

Used == {intent[c] : c \in Calls} \ {NoIntent}

-----------------------------------------------------------------------------
(* The Gateway (external) *)

(* It may lag behind the network, but a final status is the real one.      *)
Reports(i) ==
    IF fate[i] = "Unknown" THEN {"Unknown"} ELSE Open \cup ({fate[i]} \cap Final)

(* The network executes an intent it was given once at most, or refuses it.*)
Settle(i) ==
    /\ fate[i] = "Pending"
    /\ \E s \in Final : fate' = [fate EXCEPT ![i] = s]
    /\ UNCHANGED <<coreStage, intent, retry, aborted, known, advice>>

Arrives(i) ==
    fate' = [fate EXCEPT ![i] = IF @ = "Unknown" THEN "Pending" ELSE @]

-----------------------------------------------------------------------------
(* submitTransaction *)

Submit(c, i) ==
    /\ coreStage[c] = "unused"
    /\ \A j \in Used \ {i} : j \in known /\ advice[j] = "submit"
    /\ i \in {c, Supplied}
    /\ coreStage' = [coreStage EXCEPT ![c] = "building"]
    /\ intent' = [intent EXCEPT ![c] = i]
    /\ UNCHANGED <<retry, aborted, known, advice, fate>>

(* The header is built, the signer and the notarizer are asked.            *)
SignAndNotarize(c) ==
    /\ coreStage[c] = "building"
    /\ coreStage' = [coreStage EXCEPT ![c] = "submitting"]
    /\ UNCHANGED <<intent, retry, aborted, known, advice, fate>>

(* No epoch, no signature: the promise is rejected.                        *)
BuildFails(c) ==
    /\ coreStage[c] = "building"
    /\ coreStage' = [coreStage EXCEPT ![c] = "rejected"]
    /\ UNCHANGED <<intent, retry, aborted, known, advice, fate>>

(* A poll starts, unless its signal has fired; it may have no try at all.  *)
PollStart(c) == IF c \in aborted \/ MaxRetries = 0 THEN "rejected" ELSE "asking"

Send(c) ==
    /\ coreStage[c] = "submitting"
    /\ Arrives(intent[c])
    /\ coreStage' = [coreStage EXCEPT ![c] = PollStart(c)]
    /\ UNCHANGED <<intent, retry, aborted, known, advice>>

(* The request fails, or its answer is lost.                               *)
SendFails(c) ==
    /\ coreStage[c] = "submitting"
    /\ Arrives(intent[c]) \/ fate' = fate
    /\ coreStage' = [coreStage EXCEPT ![c] = "rejected"]
    /\ UNCHANGED <<intent, retry, aborted, known, advice>>

-----------------------------------------------------------------------------
(* pollTransactionStatus *)

(* The application polls a transaction whose id it has.                    *)
PollAgain(c, i) ==
    /\ coreStage[c] = "unused"
    /\ i \in known
    /\ intent' = [intent EXCEPT ![c] = i]
    /\ coreStage' = [coreStage EXCEPT ![c] = PollStart(c)]
    /\ UNCHANGED <<retry, aborted, known, advice, fate>>

(* Mutant of SleepStart: the listener alone ends the sleep.                *)
SleepUnchecked(c) == "sleeping"

SleepStart(c) == IF c \in aborted THEN "rejected" ELSE "sleeping"

(* Any status other than Pending is returned, one that is not final too.   *)
GetStatus(c) ==
    /\ coreStage[c] = "asking"
    /\ \E s \in Reports(intent[c]) :
        \/ /\ s = "Pending"
           /\ retry' = [retry EXCEPT ![c] = @ + 1]
           /\ coreStage' = [coreStage EXCEPT ![c] = SleepStart(c)]
           /\ known' = known
        \/ /\ s # "Pending"
           /\ coreStage' = [coreStage EXCEPT ![c] = "resolved"]
           /\ known' = known \cup {intent[c]}
           /\ retry' = retry
    /\ UNCHANGED <<intent, aborted, advice, fate>>

GetStatusFails(c) ==
    /\ coreStage[c] = "asking"
    /\ coreStage' = [coreStage EXCEPT ![c] = "rejected"]
    /\ UNCHANGED <<intent, retry, aborted, known, advice, fate>>

(* Mutant of TriesLeft: retries are counted after the first request.       *)
OneTryMore(c) == retry[c] <= MaxRetries

TriesLeft(c) == retry[c] < MaxRetries

Wake(c) ==
    /\ coreStage[c] = "sleeping"
    /\ coreStage' = [coreStage EXCEPT
            ![c] = IF TriesLeft(c) THEN "asking" ELSE "rejected"]
    /\ UNCHANGED <<intent, retry, aborted, known, advice, fate>>

(* The signal fires; only a sleep hears it at once.                        *)
Abort(c) ==
    /\ coreStage[c] \notin {"unused"} \cup CoreOver
    /\ c \notin aborted
    /\ aborted' = aborted \cup {c}
    /\ coreStage' = [coreStage EXCEPT
            ![c] = IF @ = "sleeping" THEN "rejected" ELSE @]
    /\ UNCHANGED <<intent, retry, known, advice, fate>>

-----------------------------------------------------------------------------
(* VerifyTransaction *)

(* Mutant of DefaultHandler: a transaction that the Gateway does not know  *)
(* is submitted again.                                                     *)
HandlerResubmits(s) ==
    CASE s \in {"CommittedFailure", "PermanentlyRejected", "Unknown"} -> "submit"
      [] s \in Open \ {"Unknown"} -> "poll"
      [] OTHER -> "neither"

DefaultHandler(s) ==
    CASE s \in {"CommittedFailure", "PermanentlyRejected"} -> "submit"
      [] s \in Open -> "poll"
      [] OTHER -> "neither"

Verify(i) ==
    /\ i \in known
    /\ \E s \in Reports(i) :
            advice' = [advice EXCEPT ![i] = DefaultHandler(s)]
    /\ UNCHANGED <<coreStage, intent, retry, aborted, known, fate>>

(* An error that names its type is advice too: poll when the Gateway is    *)
(* behind or broken, neither for the others.  Other errors are thrown.     *)
VerifyFails(i) ==
    /\ i \in known
    /\ \E a \in {"poll", "neither"} : advice' = [advice EXCEPT ![i] = a]
    /\ UNCHANGED <<coreStage, intent, retry, aborted, known, fate>>

-----------------------------------------------------------------------------
(* A submission goes on by itself once it is signed.                       *)
CoreStep(c) ==
    Send(c) \/ SendFails(c) \/ GetStatus(c) \/ GetStatusFails(c) \/ Wake(c)

CoreNext ==
    \/ \E c \in Calls :
        \/ \E i \in Intents : Submit(c, i) \/ PollAgain(c, i)
        \/ SignAndNotarize(c)
        \/ BuildFails(c)
        \/ CoreStep(c)
        \/ Abort(c)
    \/ \E i \in Intents : Settle(i) \/ Verify(i) \/ VerifyFails(i)

CoreSpec == CoreInit /\ [][CoreNext]_coreVars

(* Requests are answered, if only with an error, and timers fire.          *)
CoreFairSpec == CoreSpec /\ WF_coreVars(\E c \in Calls : CoreStep(c))

-----------------------------------------------------------------------------
CoreTypeOK ==
    /\ coreStage \in [Calls -> CoreStages]
    /\ intent \in [Calls -> Intents \cup {NoIntent}]
    /\ retry \in [Calls -> 0 .. MaxRetries]
    /\ aborted \subseteq Calls
    /\ known \subseteq Intents
    /\ advice \in [Intents -> Advices]
    /\ fate \in [Intents -> {"Unknown", "Pending"} \cup Final]

(* An application that follows VerifyTransaction has its wish carried out  *)
(* once at most: no lost answer, timeout, abort or status that lags makes  *)
(* it submit a second transaction while the first can still succeed.       *)
AtMostOneSuccess ==
    \A i, j \in Intents :
        (fate[i] = "CommittedSuccess" /\ fate[j] = "CommittedSuccess") => i = j

(* A call whose signal has fired makes no further status request, whether  *)
(* the signal fired before the poll, during a request or in a sleep.       *)
AbortStopsAsking ==
    [][\A c \in aborted :
        coreStage'[c] = "asking" => coreStage[c] = "asking"]_coreVars

(* A submission that is signed, or a poll, is under way.                   *)
Running(c) == coreStage[c] \in {"submitting", "asking", "sleeping"}

=============================================================================
