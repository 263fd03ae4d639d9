--------------------------- MODULE PaymentMiddleware ---------------------------
(***************************************************************************)
(* The payment middleware of src/examples/x402 in front of a resource,     *)
(* with the sponsored settlement and the facilitator backend behind it.    *)
(*                                                                         *)
(* Requests run concurrently in one process and share the two maps of the  *)
(* middleware, which a restart empties.  Terms are fixed per route, so the *)
(* subintent alone distinguishes cache keys.  A payload is the text that a *)
(* client presents: several payloads may carry one subintent, with other   *)
(* signatures or in another spelling of the same bytes.                    *)
(***************************************************************************)
EXTENDS Naturals

CONSTANTS
    Requests,     \* requests to the protected route
    Payloads,     \* payment payloads that decode
    Exact,        \* payloads that validateExactPaymentSubintent accepts
    Subintents,   \* subintents, by hash
    SubintentOf,  \* the subintent of each payload
    MaxRestarts   \* bound: restarts of the server

ASSUME ConstantsAssumption ==
    /\ Exact \subseteq Payloads
    /\ SubintentOf \in [Payloads -> Subintents]
    /\ MaxRestarts \in Nat

VARIABLES
    settlementRecords,      \* cache keys of settled payments
    payloadSettlementKeys,  \* cache key of each settled payload: none or one
    pc,                     \* where each request is
    payload,                \* payload of each request: none or one
    reply,                  \* "none" before there is one
    submitted,              \* requests whose root transaction the Gateway has
    committed, rejected,    \* the fate of those root transactions
    restarts,
    servedNow,              \* history: payloads served since the last restart
    before                  \* history: servedNow when a request came

cache == <<settlementRecords, payloadSettlementKeys>>
ledger == <<submitted, committed, rejected>>
history == <<restarts, servedNow, before>>
vars == <<cache, pc, payload, reply, ledger, history>>

-----------------------------------------------------------------------------
PCs == {"new", "inspect", "preview", "submit", "wait", "serve", "done"}
Replies == {"none", "required", "invalid", "refused", "served", "failed", "dropped"}

(* Mutant of CacheKey: the payload itself, in place of its subintent.      *)
PayloadAsKey(p) == p

CacheKey(p) == SubintentOf[p]

Recorded(p) == payloadSettlementKeys[p] \cap settlementRecords # {}

PaymentsIn(ps) == {SubintentOf[p] : p \in ps}

(* The subintents that a root transaction of the server has committed.     *)
Paid == PaymentsIn(UNION {payload[r] : r \in committed})

Goto(r, l) == pc' = [pc EXCEPT ![r] = l]

Answer(r, a) ==
    /\ reply' = [reply EXCEPT ![r] = a]
    /\ Goto(r, "done")

Init ==
    /\ settlementRecords = {}
    /\ payloadSettlementKeys = [p \in Payloads |-> {}]
    /\ pc = [r \in Requests |-> "new"]
    /\ payload = [r \in Requests |-> {}]
    /\ reply = [r \in Requests |-> "none"]
    /\ submitted = {}
    /\ committed = {}
    /\ rejected = {}
    /\ restarts = 0
    /\ servedNow = {}
    /\ before = [r \in Requests |-> {}]

-----------------------------------------------------------------------------
(* A request without a payment is told the terms.                          *)
AskTerms(r) ==
    /\ pc[r] = "new"
    /\ Answer(r, "required")
    /\ UNCHANGED <<cache, payload, ledger, history>>

PresentGarbage(r) ==
    /\ pc[r] = "new"
    /\ Answer(r, "invalid")
    /\ UNCHANGED <<cache, payload, ledger, history>>

(* A payload that was settled is served, any other goes to settlement.     *)
Present(r) ==
    /\ pc[r] = "new"
    /\ \E p \in Payloads :
        /\ payload' = [payload EXCEPT ![r] = {p}]
        /\ Goto(r, IF Recorded(p) THEN "serve" ELSE "inspect")
    /\ before' = [before EXCEPT ![r] = servedNow]
    /\ UNCHANGED <<cache, reply, ledger, restarts, servedNow>>

(* Mutant of Validate: the shape of the payment is not looked at.          *)
ValidateAnything(r) ==
    /\ pc[r] = "inspect"
    /\ Goto(r, "preview")
    /\ UNCHANGED <<cache, payload, reply, ledger, history>>

Validate(r) ==
    /\ pc[r] = "inspect"
    /\ payload[r] \subseteq Exact
    /\ Goto(r, "preview")
    /\ UNCHANGED <<cache, payload, reply, ledger, history>>

(* The preview of a root transaction fails once its subintent is spent.    *)
Preview(r) ==
    /\ pc[r] = "preview"
    /\ \A p \in payload[r] : SubintentOf[p] \notin Paid
    /\ Goto(r, "submit")
    /\ UNCHANGED <<cache, payload, reply, ledger, history>>

SubmitRoot(r) ==
    /\ pc[r] = "submit"
    /\ submitted' = submitted \cup {r}
    /\ Goto(r, "wait")
    /\ UNCHANGED <<cache, payload, reply, committed, rejected, history>>

(* The call fails; the Gateway may have taken the transaction all the same. *)
SubmitFails(r) ==
    /\ pc[r] = "submit"
    /\ submitted' \in {submitted, submitted \cup {r}}
    /\ Answer(r, "refused")
    /\ UNCHANGED <<cache, payload, committed, rejected, history>>

Record(r) ==
    /\ settlementRecords' = settlementRecords \cup {CacheKey(p) : p \in payload[r]}
    /\ payloadSettlementKeys' =
        [p \in Payloads |->
            IF p \in payload[r] THEN {CacheKey(p)} ELSE payloadSettlementKeys[p]]

(* Mutant of Observe: a submission is as good as a commit.                 *)
ObserveSubmission(r) ==
    /\ pc[r] = "wait"
    /\ Record(r)
    /\ Goto(r, "serve")
    /\ UNCHANGED <<payload, reply, ledger, history>>

(* Mutant of Observe: nothing is recorded.                                 *)
ObserveOnly(r) ==
    /\ pc[r] = "wait"
    /\ r \in committed
    /\ Goto(r, "serve")
    /\ UNCHANGED <<cache, payload, reply, ledger, history>>

Observe(r) ==
    /\ pc[r] = "wait"
    /\ r \in committed
    /\ Record(r)
    /\ Goto(r, "serve")
    /\ UNCHANGED <<payload, reply, ledger, history>>

(* Mutant of SettlementFails: the failure is not caught.                   *)
SettlementDies(r) ==
    /\ pc[r] \in {"inspect", "preview", "wait"}
    /\ Goto(r, "done")
    /\ UNCHANGED <<cache, payload, reply, ledger, history>>

(* Not an exact payment, a failed preview, no commit observed, a defect.   *)
SettlementFails(r) ==
    /\ pc[r] \in {"inspect", "preview", "wait"}
    /\ Answer(r, "refused")
    /\ UNCHANGED <<cache, payload, ledger, history>>

Serve(r) ==
    /\ pc[r] = "serve"
    /\ \/ Answer(r, "served") /\ servedNow' = servedNow \cup payload[r]
       \/ Answer(r, "failed") /\ UNCHANGED servedNow
    /\ UNCHANGED <<cache, payload, ledger, restarts, before>>

-----------------------------------------------------------------------------
UnderWay(r) == pc[r] \notin {"new", "done"}

(* The memory of the process is lost, and the requests under way with it.  *)
Restart ==
    /\ restarts < MaxRestarts
    /\ restarts' = restarts + 1
    /\ settlementRecords' = {}
    /\ payloadSettlementKeys' = [p \in Payloads |-> {}]
    /\ servedNow' = {}
    /\ pc' = [r \in Requests |-> IF UnderWay(r) THEN "done" ELSE pc[r]]
    /\ reply' = [r \in Requests |-> IF UnderWay(r) THEN "dropped" ELSE reply[r]]
    /\ UNCHANGED <<payload, ledger, before>>

(* The network commits a subintent once at most.                           *)
Commit ==
    /\ \E r \in submitted \ (committed \cup rejected) :
        /\ \A p \in payload[r] : SubintentOf[p] \notin Paid
        /\ committed' = committed \cup {r}
    /\ UNCHANGED <<cache, pc, payload, reply, submitted, rejected, history>>

Reject ==
    /\ \E r \in submitted \ (committed \cup rejected) : rejected' = rejected \cup {r}
    /\ UNCHANGED <<cache, pc, payload, reply, submitted, committed, history>>

Settle(r) ==
    \/ Validate(r) \/ Preview(r) \/ SubmitRoot(r) \/ SubmitFails(r)
    \/ Observe(r) \/ SettlementFails(r)

Step(r) == AskTerms(r) \/ PresentGarbage(r) \/ Present(r) \/ Settle(r) \/ Serve(r)

Next == (\E r \in Requests : Step(r)) \/ Restart \/ Commit \/ Reject

Spec == Init /\ [][Next]_vars

(* Gateway calls return, if only with a failure.                           *)
FairSpec == Spec /\ \A r \in Requests : WF_vars(Settle(r) \/ Serve(r))

-----------------------------------------------------------------------------
(* Properties *)

TypeOK ==
    /\ settlementRecords \subseteq Subintents
    /\ payloadSettlementKeys \in [Payloads -> SUBSET Subintents]
    /\ pc \in [Requests -> PCs]
    /\ payload \in [Requests -> SUBSET Payloads]
    /\ reply \in [Requests -> Replies]
    /\ submitted \subseteq Requests
    /\ committed \subseteq submitted
    /\ rejected \subseteq submitted
    /\ restarts \in 0 .. MaxRestarts
    /\ servedNow \subseteq Payloads
    /\ before \in [Requests -> SUBSET Payloads]

(* The payment release boundary: whoever is let through to the resource,   *)
(* by a settlement of its own or by a record that another request made,    *)
(* presented a payment that has been committed.                            *)
ServedIsPaid ==
    \A r \in Requests :
        pc[r] = "serve" \/ reply[r] \in {"served", "failed"} =>
            \E p \in payload[r] : SubintentOf[p] \in Paid

(* What was served is not charged twice and not withheld, whatever else is *)
(* under way in the process that served it: a payment that had been served *)
(* when a request came is not submitted for that request, in whatever      *)
(* payload it is presented, and the payload that was served is served      *)
(* again and not refused.  Another payload of it finds no record and is    *)
(* refused by the settlement; this is not excluded here.                   *)
RetryIsServed ==
    \A r \in Requests :
        /\ PaymentsIn(payload[r]) \cap PaymentsIn(before[r]) # {} => r \notin submitted
        /\ payload[r] \cap before[r] # {} => reply[r] # "refused"

(* Every payment that is presented is answered, whatever step of the       *)
(* settlement fails.                                                       *)
PaymentAnswered == \A r \in Requests : pc[r] = "inspect" ~> reply[r] # "none"

(* The middleware implements PaidAccess.                                   *)
access ==
    [r \in Requests |->
        IF reply[r] = "none" THEN "waiting"
        ELSE IF reply[r] \in {"served", "failed"} THEN "granted" ELSE "refused"]

Gate == INSTANCE PaidAccess WITH presented <- payload, paid <- Paid
KeepsGate == Gate!Spec

=============================================================================
