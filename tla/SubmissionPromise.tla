--------------------------- MODULE SubmissionPromise ---------------------------
(***************************************************************************)
(* What an application that submits transactions may rely on.  It hears of *)
(* a transaction before the network does; it is told that a submission was *)
(* accepted only when the network has the transaction; and the verdict it  *)
(* gets is the fate of the transaction, or leaves that fate open.          *)
(***************************************************************************)
CONSTANTS
    Calls,        \* submissions by the application
    Intents       \* transaction intents

VARIABLES
    intent,       \* the intents a call is about: none, or a single one
    stage,        \* what the application knows of each call: "quiet",
                  \* "announced", "accepted", or the verdict "success",
                  \* "permanent" or "open"
    sent,         \* intents that the network was given
    succeeded,    \* intents committed with success
    failed,       \* intents committed with failure
    rejected      \* intents that the network will never commit

network == <<sent, succeeded, failed, rejected>>
vars == <<intent, stage, network>>

Settled == succeeded \cup failed \cup rejected

Init ==
    /\ intent = [c \in Calls |-> {}]
    /\ stage = [c \in Calls |-> "quiet"]
    /\ sent = {}
    /\ succeeded = {}
    /\ failed = {}
    /\ rejected = {}

Choose(c) ==
    /\ intent[c] = {}
    /\ \E i \in Intents : intent' = [intent EXCEPT ![c] = {i}]
    /\ UNCHANGED <<stage, network>>

Tell(c, from, to) ==
    /\ stage[c] = from
    /\ stage' = [stage EXCEPT ![c] = to]
    /\ UNCHANGED <<intent, network>>

Announce(c) == intent[c] # {} /\ Tell(c, "quiet", "announced")

Send(c) ==
    /\ stage[c] = "announced"
    /\ sent' = sent \cup intent[c]
    /\ UNCHANGED <<intent, stage, succeeded, failed, rejected>>

Accept(c) == intent[c] \subseteq sent /\ Tell(c, "announced", "accepted")

Conclude(c) ==
    \/ intent[c] \subseteq succeeded /\ Tell(c, "accepted", "success")
    \/ intent[c] \subseteq failed \cup rejected /\ Tell(c, "accepted", "permanent")
    \/ Tell(c, "accepted", "open")

Settle ==
    /\ \E i \in sent \ Settled :
        \/ succeeded' = succeeded \cup {i} /\ UNCHANGED <<failed, rejected>>
        \/ failed' = failed \cup {i} /\ UNCHANGED <<succeeded, rejected>>
        \/ rejected' = rejected \cup {i} /\ UNCHANGED <<succeeded, failed>>
    /\ UNCHANGED <<intent, stage, sent>>

Next ==
    \/ \E c \in Calls : Choose(c) \/ Announce(c) \/ Send(c) \/ Accept(c) \/ Conclude(c)
    \/ Settle

Spec == Init /\ [][Next]_vars

=============================================================================
