------------------------ MODULE PaymentMiddlewareProofs ------------------------
(***************************************************************************)
(* Proofs about PaymentMiddleware, for any requests, payloads, subintents  *)
(* and number of restarts.                                                 *)
(***************************************************************************)
EXTENDS PaymentMiddleware, TLAPS

Settling == {"inspect", "preview", "submit", "wait"}

(* Where a request stands determines what it has presented and submitted.  *)
RequestOK(r) ==
    /\ pc[r] = "new" => payload[r] = {} /\ before[r] = {}
    /\ pc[r] \in Settling \cup {"serve"} => \E p \in Payloads : payload[r] = {p}
    /\ pc[r] # "done" <=> reply[r] = "none"
    /\ pc[r] \in {"preview", "submit", "wait"} => payload[r] \subseteq Exact
    /\ r \in submitted =>
        /\ pc[r] \in {"wait", "serve", "done"}
        /\ \E p \in Exact : payload[r] = {p}
    /\ payload[r] \cap before[r] # {} => pc[r] \notin Settling

RequestInv == \A r \in Requests : RequestOK(r)

(* What is recorded is paid, and what is or was let through is recorded.   *)
RecordInv ==
    /\ settlementRecords \subseteq Paid
    /\ \A p \in Payloads : payloadSettlementKeys[p] \subseteq {CacheKey(p)}
    /\ \A p \in servedNow : Recorded(p)
    /\ \A r \in Requests : pc[r] = "serve" => \A p \in payload[r] : Recorded(p)

(* What was served when a request came is paid, and no preview of a root   *)
(* transaction with the same payment has passed since.                     *)
OnceInv ==
    \A r \in Requests :
        /\ PaymentsIn(before[r]) \subseteq Paid
        /\ pc[r] = "submit" \/ r \in submitted =>
            PaymentsIn(payload[r]) \cap PaymentsIn(before[r]) = {}

GateInv ==
    /\ TypeOK
    /\ RequestInv
    /\ RecordInv
    /\ OnceInv
    /\ ServedIsPaid
    /\ RetryIsServed

-----------------------------------------------------------------------------
(* A subintent is paid when some committed request carries it.             *)
LEMMA PaidIs ==
    \A s : s \in Paid <=>
        \E r \in committed : \E p \in payload[r] : s = SubintentOf[p]
BY DEF Paid, PaymentsIn

(* Paid only depends on the payloads of the committed requests.            *)
LEMMA PaidKept ==
    ASSUME UNCHANGED committed, \A r \in committed : payload'[r] = payload[r]
    PROVE  Paid' = Paid
BY DEF Paid, PaymentsIn

(* A commit pays the subintent of its request, and nothing is paid back.   *)
LEMMA PaidGrows ==
    ASSUME NEW r, committed' = committed \cup {r}, UNCHANGED payload
    PROVE  Paid' = Paid \cup {SubintentOf[p] : p \in payload[r]}
BY DEF Paid, PaymentsIn

(* A payload with a record is paid.                                        *)
LEMMA RecordedIsPaid ==
    ASSUME RecordInv, NEW p \in Payloads, Recorded(p)
    PROVE  SubintentOf[p] \in Paid
BY DEF RecordInv, Recorded, CacheKey

(* A step in which whoever comes to submit has a payment that is not paid, *)
(* and in which nobody presents anything, keeps OnceInv.                   *)
LEMMA OnceKept ==
    ASSUME OnceInv, Paid \subseteq Paid', UNCHANGED <<payload, before>>,
           \A r \in Requests : pc'[r] = "submit" \/ r \in submitted' =>
               \/ pc[r] = "submit" \/ r \in submitted
               \/ PaymentsIn(payload[r]) \cap Paid = {}
    PROVE  OnceInv'
<1> SUFFICES ASSUME NEW r \in Requests
             PROVE  /\ PaymentsIn(before[r]) \subseteq Paid'
                    /\ pc'[r] = "submit" \/ r \in submitted' =>
                        PaymentsIn(payload[r]) \cap PaymentsIn(before[r]) = {}
  BY DEF OnceInv, PaymentsIn
<1> QED
  BY DEF OnceInv

(* The invariant holds before the first request.                           *)
LEMMA InitInv == Init => GateInv
<1> SUFFICES ASSUME Init
             PROVE  GateInv
  OBVIOUS
<1> USE DEF Init
<1>1. TypeOK
  BY ConstantsAssumption DEF TypeOK, PCs, Replies
<1>2. RequestInv
  BY DEF RequestInv, RequestOK, Settling
<1>3. RecordInv /\ OnceInv /\ ServedIsPaid /\ RetryIsServed
  BY DEF RecordInv, OnceInv, PaymentsIn, ServedIsPaid, RetryIsServed
<1> QED
  BY <1>1, <1>2, <1>3 DEF GateInv

-----------------------------------------------------------------------------
(* A request that comes without a payment, or whose settlement fails, is   *)
(* answered; it may have been submitted.                                   *)
LEMMA RefuseStep ==
    ASSUME GateInv, NEW r \in Requests,
           AskTerms(r) \/ PresentGarbage(r) \/ SubmitFails(r) \/ SettlementFails(r)
    PROVE  GateInv'
<1> USE DEF GateInv, Answer, Goto, cache, history
<1>0. /\ UNCHANGED <<cache, payload, committed, rejected, history>>
      /\ submitted' = submitted \/ (pc[r] = "submit" /\ submitted' = submitted \cup {r})
      /\ pc' = [pc EXCEPT ![r] = "done"]
      /\ \E a \in {"required", "invalid", "refused"} :
            reply' = [reply EXCEPT ![r] = a] /\ (a = "refused" => pc[r] \in Settling)
  BY DEF AskTerms, PresentGarbage, SubmitFails, SettlementFails, ledger, Settling
<1>1. TypeOK'
  BY <1>0 DEF TypeOK, PCs, Replies
<1>2. RequestInv'
  <2> SUFFICES ASSUME NEW x \in Requests PROVE RequestOK(x)'
    BY DEF RequestInv
  <2>1. RequestOK(x) /\ RequestOK(r)
    BY DEF RequestInv
  <2>2. CASE x = r
    BY <1>0, <2>1, <2>2 DEF RequestOK, TypeOK, Settling
  <2>3. CASE x # r
    BY <1>0, <2>1, <2>3 DEF RequestOK, TypeOK, Settling
  <2> QED
    BY <2>2, <2>3
<1>3. Paid' = Paid
  BY <1>0, PaidKept
<1>4. RecordInv'
  BY <1>0, <1>3 DEF RecordInv, Recorded, CacheKey, TypeOK
<1>5. ServedIsPaid'
  BY <1>0, <1>3 DEF ServedIsPaid, TypeOK
<1>6. OnceInv'
  BY <1>0, <1>3, OnceKept DEF TypeOK
<1>7. RetryIsServed'
  <2> SUFFICES ASSUME NEW x \in Requests, payload[x] \cap before[x] # {}
               PROVE  reply'[x] # "refused"
    BY <1>0, <1>6 DEF RetryIsServed, OnceInv
  <2> QED
    BY <1>0 DEF RetryIsServed, RequestInv, RequestOK, TypeOK, Settling
<1> QED
  BY <1>1, <1>2, <1>4, <1>5, <1>6, <1>7

(* A payload is presented.                                                 *)
LEMMA PresentStep ==
    ASSUME GateInv, NEW r \in Requests, Present(r)
    PROVE  GateInv'
<1> USE DEF GateInv, Goto, cache, ledger
<1>0. PICK p \in Payloads :
        /\ payload' = [payload EXCEPT ![r] = {p}]
        /\ pc' = [pc EXCEPT ![r] = IF Recorded(p) THEN "serve" ELSE "inspect"]
        /\ before' = [before EXCEPT ![r] = servedNow]
        /\ pc[r] = "new"
        /\ UNCHANGED <<cache, reply, ledger, restarts, servedNow>>
  BY DEF Present
<1>1. TypeOK'
  BY <1>0 DEF TypeOK, PCs
<1>2. r \notin submitted /\ r \notin committed
  BY <1>0 DEF RequestInv, RequestOK, TypeOK
<1>3. Paid' = Paid
  BY <1>0, <1>2, PaidKept DEF TypeOK
<1>4. p \in servedNow => Recorded(p)
  BY DEF RecordInv
<1>5. RequestInv'
  <2> SUFFICES ASSUME NEW x \in Requests PROVE RequestOK(x)'
    BY DEF RequestInv
  <2>1. RequestOK(x)
    BY DEF RequestInv
  <2>2. CASE x = r
    BY <1>0, <1>2, <1>4, <2>1, <2>2 DEF RequestOK, TypeOK, Settling
  <2>3. CASE x # r
    BY <1>0, <2>1, <2>3 DEF RequestOK, TypeOK, Settling
  <2> QED
    BY <2>2, <2>3
<1>6. RecordInv'
  BY <1>0, <1>3 DEF RecordInv, Recorded, CacheKey, TypeOK
<1>7. ServedIsPaid'
  <2> SUFFICES ASSUME NEW x \in Requests,
                      pc'[x] = "serve" \/ reply'[x] \in {"served", "failed"}
               PROVE  \E z \in payload'[x] : SubintentOf[z] \in Paid
    BY <1>3 DEF ServedIsPaid
  <2>1. CASE x = r
    <3>1. reply[r] = "none"
      BY <1>0 DEF RequestInv, RequestOK
    <3>2. Recorded(p) /\ payload'[x] = {p}
      BY <1>0, <2>1, <3>1 DEF TypeOK
    <3> QED
      BY <3>2, RecordedIsPaid
  <2>2. CASE x # r
    BY <1>0, <2>2 DEF ServedIsPaid, TypeOK
  <2> QED
    BY <2>1, <2>2
<1>8. OnceInv'
  <2> SUFFICES ASSUME NEW x \in Requests
               PROVE  /\ PaymentsIn(before'[x]) \subseteq Paid
                      /\ pc'[x] = "submit" \/ x \in submitted =>
                          PaymentsIn(payload'[x]) \cap PaymentsIn(before'[x]) = {}
    BY <1>0, <1>3 DEF OnceInv, PaymentsIn
  <2>1. CASE x = r
    <3>1. before'[x] = servedNow /\ pc'[x] # "submit" /\ x \notin submitted
      BY <1>0, <1>2, <2>1 DEF TypeOK
    <3>2. \A z \in servedNow : SubintentOf[z] \in Paid
      BY RecordedIsPaid DEF RecordInv, TypeOK
    <3> QED
      BY <3>1, <3>2 DEF PaymentsIn
  <2>2. CASE x # r
    BY <1>0, <2>2 DEF OnceInv, TypeOK
  <2> QED
    BY <2>1, <2>2
<1>9. RetryIsServed'
  <2> SUFFICES ASSUME NEW x \in Requests, payload'[x] \cap before'[x] # {}
               PROVE  reply[x] # "refused"
    BY <1>0, <1>8 DEF RetryIsServed, OnceInv
  <2>1. CASE x = r
    BY <1>0, <2>1 DEF RequestInv, RequestOK
  <2>2. CASE x # r
    BY <1>0, <2>2 DEF RetryIsServed, TypeOK
  <2> QED
    BY <2>1, <2>2
<1> QED
  BY <1>1, <1>5, <1>6, <1>7, <1>8, <1>9

(* The settlement goes on.                                                 *)
LEMMA SettleStep ==
    ASSUME GateInv, NEW r \in Requests, Validate(r) \/ Preview(r) \/ SubmitRoot(r)
    PROVE  GateInv'
<1> USE DEF GateInv, Goto, cache, history
<1>0. /\ UNCHANGED <<cache, payload, reply, committed, rejected, history>>
      /\ \/ /\ pc[r] = "inspect" /\ payload[r] \subseteq Exact
            /\ pc' = [pc EXCEPT ![r] = "preview"] /\ submitted' = submitted
         \/ /\ pc[r] = "preview" /\ PaymentsIn(payload[r]) \cap Paid = {}
            /\ pc' = [pc EXCEPT ![r] = "submit"] /\ submitted' = submitted
         \/ /\ pc[r] = "submit"
            /\ pc' = [pc EXCEPT ![r] = "wait"] /\ submitted' = submitted \cup {r}
  BY DEF Validate, Preview, SubmitRoot, ledger, PaymentsIn
<1>1. TypeOK'
  BY <1>0 DEF TypeOK, PCs
<1>2. RequestInv'
  <2> SUFFICES ASSUME NEW x \in Requests PROVE RequestOK(x)'
    BY DEF RequestInv
  <2>1. RequestOK(x)
    BY DEF RequestInv
  <2>2. CASE x = r
    BY <1>0, <2>1, <2>2 DEF RequestOK, TypeOK, Settling
  <2>3. CASE x # r
    BY <1>0, <2>1, <2>3 DEF RequestOK, TypeOK, Settling
  <2> QED
    BY <2>2, <2>3
<1>3. Paid' = Paid
  BY <1>0, PaidKept
<1>4. RecordInv' /\ ServedIsPaid'
  BY <1>0, <1>3 DEF RecordInv, Recorded, CacheKey, ServedIsPaid, TypeOK
<1>5. OnceInv'
  BY <1>0, <1>3, OnceKept DEF TypeOK
<1>6. RetryIsServed'
  BY <1>0, <1>5 DEF RetryIsServed, OnceInv
<1> QED
  BY <1>1, <1>2, <1>4, <1>5, <1>6

(* A commit is observed and recorded.                                      *)
LEMMA ObserveStep ==
    ASSUME GateInv, NEW r \in Requests, Observe(r)
    PROVE  GateInv'
<1> USE DEF GateInv, Observe, Record, Goto, ledger, history
<1>0. PICK p \in Exact : payload[r] = {p}
  BY DEF RequestInv, RequestOK, TypeOK
<1>1. p \in Payloads /\ SubintentOf[p] \in Subintents /\ SubintentOf[p] \in Paid
  BY <1>0, ConstantsAssumption, PaidIs
<1>2. /\ settlementRecords' = settlementRecords \cup {CacheKey(p)}
      /\ payloadSettlementKeys' = [payloadSettlementKeys EXCEPT ![p] = {CacheKey(p)}]
  BY <1>0 DEF TypeOK
<1>3. TypeOK'
  BY <1>1, <1>2 DEF TypeOK, PCs, CacheKey
<1>4. RequestInv'
  <2> SUFFICES ASSUME NEW x \in Requests PROVE RequestOK(x)'
    BY DEF RequestInv
  <2>1. RequestOK(x)
    BY DEF RequestInv
  <2> QED
    BY <2>1 DEF RequestOK, TypeOK, Settling
<1>5. Paid' = Paid
  BY PaidKept
<1>6. Recorded(p)' /\ \A z \in Payloads : Recorded(z) => Recorded(z)'
  BY <1>1, <1>2 DEF Recorded, TypeOK, RecordInv
<1>7. RecordInv'
  <2>1. settlementRecords' \subseteq Paid
    BY <1>1, <1>2 DEF RecordInv, CacheKey
  <2>2. \A z \in Payloads : payloadSettlementKeys'[z] \subseteq {CacheKey(z)}
    BY <1>2 DEF RecordInv, TypeOK
  <2>3. \A z \in servedNow : Recorded(z)'
    BY <1>6 DEF RecordInv, TypeOK
  <2>4. \A x \in Requests : pc'[x] = "serve" => \A z \in payload[x] : Recorded(z)'
    BY <1>0, <1>6 DEF RecordInv, TypeOK
  <2> QED
    BY <1>5, <2>1, <2>2, <2>3, <2>4 DEF RecordInv, CacheKey
<1>8. ServedIsPaid'
  BY <1>0, <1>1, <1>5 DEF ServedIsPaid, TypeOK
<1>9. OnceInv' /\ RetryIsServed'
  BY <1>5, OnceKept DEF TypeOK, RetryIsServed
<1> QED
  BY <1>3, <1>4, <1>7, <1>8, <1>9

(* The resource is handed out.                                             *)
LEMMA ServeStep ==
    ASSUME GateInv, NEW r \in Requests, Serve(r)
    PROVE  GateInv'
<1> USE DEF GateInv, Serve, Answer, Goto, cache, ledger
<1>1. TypeOK'
  BY DEF TypeOK, PCs, Replies
<1>2. RequestInv'
  <2> SUFFICES ASSUME NEW x \in Requests PROVE RequestOK(x)'
    BY DEF RequestInv
  <2>1. RequestOK(x)
    BY DEF RequestInv
  <2> QED
    BY <2>1 DEF RequestOK, TypeOK, Settling
<1>3. Paid' = Paid
  BY PaidKept
<1>4. RecordInv'
  BY <1>3 DEF RecordInv, Recorded, CacheKey, TypeOK
<1>5. ServedIsPaid'
  BY <1>3 DEF ServedIsPaid, TypeOK
<1>6. OnceInv' /\ RetryIsServed'
  BY <1>3, OnceKept DEF TypeOK, RetryIsServed
<1> QED
  BY <1>1, <1>2, <1>4, <1>5, <1>6

(* The server restarts: what it served before is forgotten with the cache. *)
LEMMA RestartStep ==
    ASSUME GateInv, Restart
    PROVE  GateInv'
<1> USE DEF GateInv, Restart, ledger
<1>1. TypeOK'
  BY ConstantsAssumption DEF TypeOK, PCs, Replies
<1>2. RequestInv'
  <2> SUFFICES ASSUME NEW x \in Requests PROVE RequestOK(x)'
    BY DEF RequestInv
  <2>1. RequestOK(x)
    BY DEF RequestInv
  <2> QED
    BY <2>1 DEF RequestOK, UnderWay, TypeOK, Settling, PCs
<1>3. Paid' = Paid
  BY PaidKept
<1>4. RecordInv'
  BY <1>3 DEF RecordInv, UnderWay
<1>5. ServedIsPaid'
  BY <1>3 DEF ServedIsPaid, UnderWay
<1>6. OnceInv' /\ RetryIsServed'
  BY <1>3, OnceKept DEF TypeOK, RetryIsServed
<1> QED
  BY <1>1, <1>2, <1>4, <1>5, <1>6

(* The network settles a root transaction.                                 *)
LEMMA NetworkStep ==
    ASSUME GateInv, Commit \/ Reject
    PROVE  GateInv'
<1> USE DEF GateInv, Commit, Reject, cache, history
<1>1. TypeOK' /\ RequestInv'
  BY DEF TypeOK, RequestInv, RequestOK
<1>2. Paid \subseteq Paid'
  BY PaidKept, PaidGrows
<1>3. RecordInv' /\ ServedIsPaid'
  BY <1>2 DEF RecordInv, Recorded, CacheKey, ServedIsPaid
<1>4. OnceInv' /\ RetryIsServed'
  BY <1>2, OnceKept DEF RetryIsServed
<1> QED
  BY <1>1, <1>3, <1>4

(* The invariant is inductive.                                             *)
LEMMA StepInv == GateInv /\ [Next]_vars => GateInv'
<1> SUFFICES ASSUME GateInv, [Next]_vars
             PROVE  GateInv'
  OBVIOUS
<1>1. ASSUME NEW r \in Requests, Step(r)
      PROVE  GateInv'
  BY <1>1, RefuseStep, PresentStep, SettleStep, ObserveStep, ServeStep
     DEF Step, Settle
<1>2. CASE Restart \/ Commit \/ Reject
  BY <1>2, RestartStep, NetworkStep
<1>3. CASE UNCHANGED vars
  <2>1. UNCHANGED <<cache, pc, payload, reply, ledger, history>>
    BY <1>3 DEF vars
  <2>2. Paid' = Paid
    BY <2>1, PaidKept DEF ledger
  <2>3. OnceInv'
    BY <2>1, <2>2, OnceKept DEF GateInv, ledger, history
  <2> QED
    BY <2>1, <2>2, <2>3
       DEF cache, ledger, history, GateInv, TypeOK, RequestInv, RequestOK, RecordInv,
           Recorded, CacheKey, ServedIsPaid, RetryIsServed
<1> QED
  BY <1>1, <1>2, <1>3 DEF Next

(* The invariant holds in every state of every execution.                  *)
LEMMA GateCorrect == Spec => []GateInv
  BY InitInv, StepInv, PTL DEF Spec

(* Every variable of the middleware keeps its type.                        *)
THEOREM TypeCorrect == Spec => []TypeOK
<1>1. GateInv => TypeOK
  BY DEF GateInv
<1> QED
  BY <1>1, GateCorrect, PTL

(* The resource is released for committed payments only, however many      *)
(* requests share the cache and however often the server restarts.         *)
THEOREM ReleaseCorrect == Spec => []ServedIsPaid
<1>1. GateInv => ServedIsPaid
  BY DEF GateInv
<1> QED
  BY <1>1, GateCorrect, PTL

(* A payment that was served is not submitted again, in whatever payload   *)
(* it is presented, and a payload that was served is served again.         *)
THEOREM RetryCorrect == Spec => []RetryIsServed
<1>1. GateInv => RetryIsServed
  BY DEF GateInv
<1> QED
  BY <1>1, GateCorrect, PTL

-----------------------------------------------------------------------------
(* A request that is answered without the resource is refused.             *)
LEMMA RefuseKeepsGate ==
    ASSUME GateInv, NEW r \in Requests,
           AskTerms(r) \/ PresentGarbage(r) \/ SubmitFails(r) \/ SettlementFails(r)
    PROVE  Gate!Refuse({r})
<1> USE DEF GateInv, TypeOK
<1>1. /\ UNCHANGED <<payload, committed>>
      /\ pc[r] # "done"
      /\ \E a \in {"required", "invalid", "refused"} :
            reply' = [reply EXCEPT ![r] = a]
  BY DEF AskTerms, PresentGarbage, SubmitFails, SettlementFails, Answer, ledger
<1>2. Paid' = Paid
  BY <1>1, PaidKept
<1>3. reply[r] = "none"
  BY <1>1 DEF RequestInv, RequestOK
<1>4. access[r] = "waiting"
  BY <1>3 DEF access
<1>5. access' = [x \in Requests |-> IF x \in {r} THEN "refused" ELSE access[x]]
  BY <1>1 DEF access
<1> QED
  BY <1>1, <1>2, <1>4, <1>5 DEF Gate!Refuse

(* A payload is presented to the gate when the middleware has parsed it.   *)
LEMMA PresentKeepsGate ==
    ASSUME GateInv, NEW r \in Requests, Present(r)
    PROVE  Gate!Present(r)
<1> USE DEF GateInv, TypeOK
<1>1. /\ pc[r] = "new" /\ UNCHANGED <<reply, committed>>
      /\ \E p \in Payloads : payload' = [payload EXCEPT ![r] = {p}]
  BY DEF Present, ledger
<1>2. reply[r] = "none" /\ payload[r] = {} /\ r \notin committed
  BY <1>1 DEF RequestInv, RequestOK
<1>3. Paid' = Paid
  BY <1>1, <1>2, PaidKept
<1>4. access[r] = "waiting" /\ access' = access
  BY <1>1, <1>2 DEF access
<1> QED
  BY <1>1, <1>2, <1>3, <1>4 DEF Gate!Present

(* What the settlement does inside the process is not seen at the gate.    *)
LEMMA SettleKeepsGate ==
    ASSUME NEW r \in Requests,
           Validate(r) \/ Preview(r) \/ SubmitRoot(r) \/ Observe(r) \/ Reject
    PROVE  UNCHANGED Gate!vars
<1>1. UNCHANGED <<payload, reply, committed>>
  BY DEF Validate, Preview, SubmitRoot, Observe, Reject, ledger
<1>2. Paid' = Paid /\ access' = access
  BY <1>1, PaidKept DEF access
<1> QED
  BY <1>1, <1>2 DEF Gate!vars

(* Access is granted to a request whose payment was made.                  *)
LEMMA ServeKeepsGate ==
    ASSUME GateInv, NEW r \in Requests, Serve(r)
    PROVE  Gate!Grant(r)
<1> USE DEF GateInv, TypeOK
<1>1. /\ pc[r] = "serve" /\ UNCHANGED <<payload, committed>>
      /\ \E a \in {"served", "failed"} : reply' = [reply EXCEPT ![r] = a]
  BY DEF Serve, Answer, ledger
<1>2. reply[r] = "none" /\ \E p \in payload[r] : SubintentOf[p] \in Paid
  BY <1>1 DEF RequestInv, RequestOK, ServedIsPaid
<1>3. Paid' = Paid
  BY <1>1, PaidKept
<1>4. access[r] = "waiting" /\ access' = [access EXCEPT ![r] = "granted"]
  BY <1>1, <1>2 DEF access
<1> QED
  BY <1>1, <1>2, <1>3, <1>4 DEF Gate!Grant

(* A restart refuses the requests under way.                               *)
LEMMA RestartKeepsGate ==
    ASSUME GateInv, Restart
    PROVE  Gate!Refuse({r \in Requests : UnderWay(r)})
<1> USE DEF GateInv, TypeOK
<1> DEFINE R == {r \in Requests : UnderWay(r)}
<1>1. UNCHANGED <<payload, committed>>
  BY DEF Restart, ledger
<1>2. \A r \in R : access[r] = "waiting"
  BY DEF UnderWay, RequestInv, RequestOK, access
<1>3. access' = [r \in Requests |-> IF r \in R THEN "refused" ELSE access[r]]
  BY DEF Restart, UnderWay, access
<1>4. Paid' = Paid
  BY <1>1, PaidKept
<1> QED
  BY <1>1, <1>2, <1>3, <1>4 DEF Gate!Refuse

(* The payer is charged for an exact payment that a request presented.     *)
LEMMA CommitKeepsGate ==
    ASSUME GateInv, Commit
    PROVE  \E r \in Requests : Gate!Pay(r)
<1> USE DEF GateInv, TypeOK
<1>1. PICK r \in submitted : committed' = committed \cup {r}
  BY DEF Commit
<1>2. r \in Requests /\ \E p \in Exact : payload[r] = {p}
  BY DEF RequestInv, RequestOK
<1>3. PICK p \in Exact : payload[r] = {p}
  BY <1>2
<1>4. UNCHANGED <<payload, reply>>
  BY DEF Commit
<1>5. Paid' = Paid \cup {SubintentOf[p]}
  BY <1>1, <1>3, <1>4, PaidGrows
<1>6. access' = access
  BY <1>4 DEF access
<1> QED
  BY <1>2, <1>3, <1>4, <1>5, <1>6 DEF Gate!Pay

(* Every step is a step of the gate or leaves it unchanged.                *)
LEMMA StepKeepsGate == GateInv /\ [Next]_vars => [Gate!Next]_(Gate!vars)
<1> SUFFICES ASSUME GateInv, [Next]_vars
             PROVE  Gate!Next \/ UNCHANGED Gate!vars
  OBVIOUS
<1>1. ASSUME NEW r \in Requests, Step(r)
      PROVE  Gate!Next \/ UNCHANGED Gate!vars
  <2>1. CASE AskTerms(r) \/ PresentGarbage(r) \/ SubmitFails(r) \/ SettlementFails(r)
    BY <2>1, RefuseKeepsGate DEF Gate!Next
  <2>2. CASE Present(r)
    BY <2>2, PresentKeepsGate DEF Gate!Next
  <2>3. CASE Validate(r) \/ Preview(r) \/ SubmitRoot(r) \/ Observe(r)
    BY <2>3, SettleKeepsGate
  <2>4. CASE Serve(r)
    BY <2>4, ServeKeepsGate DEF Gate!Next
  <2> QED
    BY <1>1, <2>1, <2>2, <2>3, <2>4 DEF Step, Settle
<1>2. CASE Restart
  BY <1>2, RestartKeepsGate DEF Gate!Next
<1>3. CASE Commit
  BY <1>3, CommitKeepsGate DEF Gate!Next
<1>4. CASE Reject
  <2>1. Requests # {}
    BY <1>4 DEF Reject, GateInv, TypeOK
  <2> QED
    BY <1>4, <2>1, SettleKeepsGate
<1>5. CASE UNCHANGED vars
  BY <1>5 DEF vars, ledger, Paid, PaymentsIn, access, Gate!vars
<1> QED
  BY <1>1, <1>2, <1>3, <1>4, <1>5 DEF Next

(* The middleware implements PaidAccess.                                   *)
THEOREM MiddlewareKeepsGate == Spec => KeepsGate
<1>1. Init => Gate!Init
  BY DEF Init, Gate!Init, access, Paid, PaymentsIn
<1> QED
  BY <1>1, GateCorrect, StepKeepsGate, PTL DEF Spec, KeepsGate, Gate!Spec

=============================================================================
