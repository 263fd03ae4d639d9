--------------------------- MODULE ConnectRelayProofs ---------------------------
(***************************************************************************)
(* Proofs about ConnectRelay, for any interactions and any earlier use of  *)
(* the session.                                                            *)
(***************************************************************************)
EXTENDS ConnectRelay, Naturals, TLAPS

(* A request is shown before it polls, holds only what the relay has held, *)
(* and has a result when it is over.                                       *)
RequestOK(i) ==
    /\ pc[i] # "idle" => i \in shown
    /\ response[i] \subseteq posted \cup {Garbage}
    /\ pc[i] = "done" <=> result[i] # "none"

RelayInv ==
    /\ TypeOK
    /\ \A i \in Interactions : RequestOK(i)
    /\ AnswerIsOwn

-----------------------------------------------------------------------------
(* A verdict is a result, and names what the response was.                 *)
LEMMA VerdictIs ==
    ASSUME NEW i \in Interactions, NEW m \in Messages \cup {Garbage}
    PROVE  /\ Verdict(i, m) \in Results \ {"none", "aborted"}
           /\ Verdict(i, m) = "answered" <=> m = i
           /\ Verdict(i, m) = "refused" <=> m = Error
           /\ Verdict(i, m) \in {"mismatched", "undecodable"}
                <=> m \notin {i, Error, Garbage}
<1>1. i # Error /\ i # Garbage /\ Error # Garbage /\ Decrypts(i, i)
  BY ConstantsAssumption DEF Messages, Decrypts
<1>2. CASE m = Error
  BY <1>1, <1>2 DEF Verdict, Results
<1>3. CASE m = Garbage
  BY <1>1, <1>3 DEF Verdict, Results
<1>4. CASE m = i
  BY <1>1, <1>4 DEF Verdict, Results
<1>5. CASE m \notin {i, Error, Garbage}
  <2>1. Verdict(i, m) = IF Decrypts(i, m) THEN "mismatched" ELSE "undecodable"
    BY <1>5 DEF Verdict
  <2> QED
    BY <1>5, <2>1 DEF Results
<1> QED
  BY <1>2, <1>3, <1>4, <1>5

(* The invariant holds at first.                                           *)
LEMMA InitInv == Init => RelayInv
  BY DEF Init, RelayInv, TypeOK, RequestOK, AnswerIsOwn, PCs, Results

(* A request moves on, with no result yet.                                 *)
LEMMA MoveStep ==
    ASSUME RelayInv, NEW i \in Interactions,
           \/ SendRequest(i) \/ HandlerReturns(i) \/ TimesOut(i) \/ Abort(i)
           \/ GetResponses(i) \/ Wake(i)
    PROVE  RelayInv'
<1> USE DEF RelayInv
<1>1. TypeOK' /\ UNCHANGED <<result, response, relay, posted>>
  BY DEF SendRequest, HandlerReturns, TimesOut, Abort, GetResponses, Wake, Goto,
         signals, wallet, TypeOK, PCs
<1>2. ASSUME NEW x \in Interactions PROVE RequestOK(x)'
  <2>1. RequestOK(x)
    OBVIOUS
  <2> QED
    BY <2>1 DEF SendRequest, HandlerReturns, TimesOut, Abort, GetResponses, Wake,
                Goto, signals, wallet, TypeOK, RequestOK
<1> QED
  BY <1>1, <1>2 DEF AnswerIsOwn

(* The relay is asked, and hands out what it holds, or the call fails.     *)
LEMMA AskStep ==
    ASSUME RelayInv, NEW i \in Interactions,
           Respond(i) \/ RespondGarbage(i) \/ GetFails(i)
    PROVE  RelayInv'
<1> USE DEF RelayInv
<1>1. /\ UNCHANGED <<result, signals, wallet>>
      /\ pc[i] = "asking" /\ pc' = [pc EXCEPT ![i] = "pause"]
      /\ relay' \subseteq relay
  BY DEF Respond, RespondGarbage, GetFails, HandOut, Goto
<1>2. \/ response' = response
      \/ \E m \in relay \cup {Garbage} : response' = [response EXCEPT ![i] = {m}]
  BY DEF Respond, RespondGarbage, GetFails
<1>3. relay \subseteq Messages
  BY DEF TypeOK, Messages
<1>4. TypeOK'
  BY <1>1, <1>2, <1>3 DEF TypeOK, PCs, signals, wallet
<1>5. ASSUME NEW x \in Interactions PROVE RequestOK(x)'
  <2>1. RequestOK(x)
    OBVIOUS
  <2>2. response'[x] \subseteq posted \cup {Garbage}
    BY <1>2, <2>1 DEF RequestOK, TypeOK
  <2> QED
    BY <1>1, <2>1, <2>2 DEF RequestOK, TypeOK, wallet
<1> QED
  BY <1>1, <1>4, <1>5 DEF AnswerIsOwn, wallet

(* A request is over, by a response or without one.                        *)
LEMMA ReturnStep ==
    ASSUME RelayInv, NEW i \in Interactions,
           HandlerFails(i) \/ GiveUp(i) \/ Receive(i)
    PROVE  RelayInv'
<1> USE DEF RelayInv
<1>1. /\ UNCHANGED <<response, aborted, relay, wallet>>
      /\ pc[i] # "idle" /\ pc' = [pc EXCEPT ![i] = "done"]
      /\ timers' \subseteq timers
  BY DEF HandlerFails, GiveUp, Receive, Return, Goto, signals
<1>2. \E o \in Results \ {"none"} :
        /\ result' = [result EXCEPT ![i] = o]
        /\ o = "answered" => i \in posted
  <2>1. CASE HandlerFails(i) \/ GiveUp(i)
    BY <2>1 DEF HandlerFails, GiveUp, Return, Results
  <2>2. CASE Receive(i)
    <3>1. PICK m \in response[i] : result' = [result EXCEPT ![i] = Verdict(i, m)]
      BY <2>2 DEF Receive, Return
    <3>2. m \in Messages \cup {Garbage} /\ m \in posted \cup {Garbage}
      BY <3>1 DEF TypeOK, RequestOK
    <3>3. m # Garbage \/ m # i
      BY ConstantsAssumption DEF Messages
    <3> QED
      BY <3>1, <3>2, <3>3, VerdictIs
  <2> QED
    BY <2>1, <2>2
<1>3. TypeOK'
  BY <1>1, <1>2 DEF TypeOK, PCs, wallet
<1>4. ASSUME NEW x \in Interactions PROVE RequestOK(x)'
  <2>1. RequestOK(x)
    OBVIOUS
  <2> QED
    BY <1>1, <1>2, <2>1 DEF RequestOK, TypeOK, wallet
<1>5. AnswerIsOwn'
  BY <1>1, <1>2 DEF AnswerIsOwn, TypeOK, wallet
<1> QED
  BY <1>3, <1>4, <1>5

(* The wallet posts a response.                                            *)
LEMMA PostStep ==
    ASSUME RelayInv, Post
    PROVE  RelayInv'
<1>1. TypeOK'
  BY DEF RelayInv, Post, TypeOK, signals
<1>2. \A x \in Interactions : RequestOK(x)'
  BY DEF RelayInv, Post, RequestOK
<1>3. AnswerIsOwn'
  BY DEF RelayInv, Post, AnswerIsOwn
<1> QED
  BY <1>1, <1>2, <1>3 DEF RelayInv

(* The invariant is inductive.                                             *)
LEMMA StepInv == RelayInv /\ [Next]_vars => RelayInv'
<1> SUFFICES ASSUME RelayInv, [Next]_vars
             PROVE  RelayInv'
  OBVIOUS
<1>1. ASSUME NEW i \in Interactions, Step(i)
      PROVE  RelayInv'
  BY <1>1, MoveStep, AskStep, ReturnStep DEF Step, Poll
<1>2. CASE Post
  BY <1>2, PostStep
<1>3. CASE UNCHANGED vars
  BY <1>3 DEF vars, signals, wallet, RelayInv, TypeOK, RequestOK, AnswerIsOwn
<1> QED
  BY <1>1, <1>2, <1>3 DEF Next

(* The invariant holds in every state of every execution.                  *)
LEMMA RelayCorrect == Spec => []RelayInv
  BY InitInv, StepInv, PTL DEF Spec

(* Every variable of the transport keeps its type: a request holds one     *)
(* response at most, and the relay nothing that was not posted.            *)
THEOREM TypeCorrect == Spec => []TypeOK
<1>1. RelayInv => TypeOK
  BY DEF RelayInv
<1> QED
  BY <1>1, RelayCorrect, PTL

(* No request returns the answer to another interaction.                   *)
THEOREM AnswerCorrect == Spec => []AnswerIsOwn
<1>1. RelayInv => AnswerIsOwn
  BY DEF RelayInv
<1> QED
  BY <1>1, RelayCorrect, PTL

-----------------------------------------------------------------------------
(* The outcome is read off the result.                                     *)
LEMMA OutcomeIs ==
    /\ Outcome("none") = "pending"
    /\ \A o \in {"failed", "aborted"} : Outcome(o) = "given up"
    /\ \A o \in {"mismatched", "undecodable"} : Outcome(o) = "mismatched"
    /\ Outcome("answered") = "answered" /\ Outcome("refused") = "refused"
BY DEF Outcome

(* A result of a request changes its outcome only.                         *)
LEMMA OutcomeMoves ==
    ASSUME TypeOK, NEW i \in Interactions, NEW o,
           result' = [result EXCEPT ![i] = o]
    PROVE  outcome' = [outcome EXCEPT ![i] = Outcome(o)]
BY DEF outcome, TypeOK

(* What concludes an interaction.                                          *)
LEMMA Concluding ==
    ASSUME NEW i, NEW o \in {"answered", "refused", "mismatched", "given up"},
           i \in shown, outcome[i] = "pending", Exchange!Cause(i, o),
           outcome' = [outcome EXCEPT ![i] = o], UNCHANGED wallet
    PROVE  Exchange!Conclude(i)
BY DEF Exchange!Conclude, wallet

(* The cause of each outcome.                                              *)
LEMMA Causes ==
    ASSUME NEW i
    PROVE  /\ Exchange!Cause(i, "given up")
           /\ i \in posted => Exchange!Cause(i, "answered")
           /\ Error \in posted => Exchange!Cause(i, "refused")
           /\ posted \ {i, Error} # {} => Exchange!Cause(i, "mismatched")
BY DEF Exchange!Cause

(* A request that is over is concluded for the cause that the promise      *)
(* names.                                                                  *)
LEMMA ReturnKeepsExchange ==
    ASSUME RelayInv, NEW i \in Interactions,
           HandlerFails(i) \/ GiveUp(i) \/ Receive(i)
    PROVE  Exchange!Conclude(i)
<1>1. UNCHANGED wallet /\ i \in shown /\ outcome[i] = "pending"
  <2>1. pc[i] \notin {"idle", "done"} /\ UNCHANGED wallet
    BY DEF HandlerFails, GiveUp, Receive
  <2> QED
    BY <2>1, OutcomeIs DEF RelayInv, RequestOK, outcome
<1>2. CASE HandlerFails(i) \/ GiveUp(i)
  <2>1. PICK o \in {"failed", "aborted"} : result' = [result EXCEPT ![i] = o]
    BY <1>2 DEF HandlerFails, GiveUp, Return
  <2>2. outcome' = [outcome EXCEPT ![i] = Outcome(o)] /\ Outcome(o) = "given up"
    BY <2>1, OutcomeIs, OutcomeMoves DEF RelayInv
  <2> QED
    BY <1>1, <2>2, Causes, Concluding
<1>3. CASE Receive(i)
  <2>1. PICK m \in response[i] : result' = [result EXCEPT ![i] = Verdict(i, m)]
    BY <1>3 DEF Receive, Return
  <2>2. m \in Messages \cup {Garbage} /\ m \in posted \cup {Garbage}
    BY <2>1 DEF RelayInv, TypeOK, RequestOK
  <2>3. i # Garbage /\ Error # Garbage /\ i # Error
    BY ConstantsAssumption DEF Messages
  <2>4. outcome' = [outcome EXCEPT ![i] = Outcome(Verdict(i, m))]
    BY <2>1, OutcomeMoves DEF RelayInv
  <2>5. CASE m = i
    <3>1. Verdict(i, m) = "answered"
      BY <2>2, <2>5, VerdictIs
    <3>2. Outcome(Verdict(i, m)) = "answered" /\ i \in posted
      BY <2>2, <2>3, <2>5, <3>1, OutcomeIs
    <3> QED
      BY <1>1, <2>4, <3>2, Causes, Concluding
  <2>6. CASE m = Error
    <3>1. Outcome(Verdict(i, m)) = "refused" /\ Error \in posted
      BY <2>2, <2>3, <2>6, VerdictIs, OutcomeIs
    <3> QED
      BY <1>1, <2>4, <3>1, Causes, Concluding
  <2>7. CASE m = Garbage
    <3>1. Verdict(i, m) = "failed"
      BY <2>2, <2>3, <2>7, VerdictIs DEF Results
    <3>2. Outcome(Verdict(i, m)) = "given up"
      BY <3>1, OutcomeIs
    <3> QED
      BY <1>1, <2>4, <3>2, Causes, Concluding
  <2>8. CASE m \notin {i, Error, Garbage}
    <3>1. Verdict(i, m) \in {"mismatched", "undecodable"}
      BY <2>2, <2>8, VerdictIs
    <3>2. Outcome(Verdict(i, m)) = "mismatched" /\ m \in posted \ {i, Error}
      BY <2>2, <2>8, <3>1, OutcomeIs
    <3> QED
      BY <1>1, <2>4, <3>2, Causes, Concluding
  <2> QED
    BY <2>5, <2>6, <2>7, <2>8
<1> QED
  BY <1>2, <1>3

(* Every step is a step of the exchange or leaves it unchanged.            *)
LEMMA StepKeepsExchange ==
    RelayInv /\ [Next]_vars => [Exchange!Next]_(Exchange!vars)
<1> SUFFICES ASSUME RelayInv, [Next]_vars
             PROVE  Exchange!Next \/ UNCHANGED Exchange!vars
  OBVIOUS
<1>1. ASSUME NEW i \in Interactions, Step(i)
      PROVE  Exchange!Next \/ UNCHANGED Exchange!vars
  <2>1. CASE SendRequest(i)
    BY <2>1 DEF SendRequest, outcome, Exchange!Show, Exchange!Next
  <2>2. CASE HandlerFails(i) \/ GiveUp(i) \/ Receive(i)
    BY <2>2, ReturnKeepsExchange DEF Exchange!Next
  <2>3. CASE \/ HandlerReturns(i) \/ TimesOut(i) \/ Abort(i) \/ GetResponses(i)
             \/ Respond(i) \/ RespondGarbage(i) \/ GetFails(i) \/ Wake(i)
    <3>1. UNCHANGED <<result, wallet>>
      BY <2>3 DEF HandlerReturns, TimesOut, Abort, GetResponses, Respond,
                  RespondGarbage, GetFails, Wake
    <3> QED
      BY <3>1 DEF wallet, outcome, Exchange!vars
  <2> QED
    BY <1>1, <2>1, <2>2, <2>3 DEF Step, Poll
<1>2. CASE Post
  BY <1>2 DEF Post, outcome, Exchange!Reply, Exchange!Next
<1>3. CASE UNCHANGED vars
  BY <1>3 DEF vars, wallet, outcome, Exchange!vars
<1> QED
  BY <1>1, <1>2, <1>3 DEF Next

(* The transport implements WalletExchange.                                *)
THEOREM RelayKeepsExchange == Spec => KeepsExchange
<1>1. Init => Exchange!Init
  BY OutcomeIs DEF Init, Exchange!Init, outcome
<1> QED
  BY <1>1, RelayCorrect, StepKeepsExchange, PTL DEF Spec, KeepsExchange, Exchange!Spec

-----------------------------------------------------------------------------
(* What PollEnds rests on.  A request that waits is never without a timer  *)
(* that will abort it, unless it is aborted.                               *)
Looping == {"check", "asking", "pause"}

Timed ==
    \A i \in Interactions :
        pc[i] \in Looping \cup {"handling"} => i \in timers \cup aborted

LEMMA TimedStep ==
    ASSUME TypeOK, Timed, [Next]_vars
    PROVE  Timed'
<1>1. ASSUME NEW i \in Interactions, Step(i)
      PROVE  Timed'
  <2>1. \A x \in Interactions \ {i} :
            /\ pc'[x] = pc[x]
            /\ x \in timers \cup aborted => x \in timers' \cup aborted'
    BY <1>1
    DEF TypeOK, Step, Poll, SendRequest, HandlerReturns, HandlerFails, TimesOut, Abort,
        GiveUp, GetResponses, Respond, RespondGarbage, GetFails, Wake, Receive,
        Return, Goto, signals
  <2>2. pc'[i] \in Looping \cup {"handling"} => i \in timers' \cup aborted'
    BY <1>1
    DEF TypeOK, Timed, Looping, Step, Poll, SendRequest, HandlerReturns, HandlerFails,
        TimesOut, Abort, GiveUp, GetResponses, Respond, RespondGarbage, GetFails,
        Wake, Receive, Return, Goto, signals
  <2> QED
    BY <2>1, <2>2 DEF Timed
<1>2. CASE Post
  BY <1>2 DEF Post, Timed, signals
<1>3. CASE UNCHANGED vars
  BY <1>3 DEF vars, Timed, signals
<1> QED
  BY <1>1, <1>2, <1>3 DEF Next

(* The timeout of a request runs, or it is aborted, from sendRequest to    *)
(* the end of its loop; other requests and the wallet never stop it.       *)
THEOREM WaitIsTimed == Spec => []Timed
<1>1. Init => Timed
  BY DEF Init, Timed, Looping
<1> QED
  BY <1>1, TimedStep, TypeCorrect, PTL DEF Spec

(* How far an aborted request is from its end.                             *)
StepsLeft ==
    [l \in PCs |-> IF l = "asking" THEN 3 ELSE IF l = "pause" THEN 2
                   ELSE IF l = "check" THEN 1 ELSE 0]

(* A request that is aborted in its loop only moves towards its end.       *)
AbortedEnds ==
    [][\A i \in aborted : pc[i] \in Looping /\ pc'[i] # pc[i] =>
            StepsLeft[pc'[i]] < StepsLeft[pc[i]]]_vars

(* Once a request in its loop is aborted, whatever it does brings it       *)
(* nearer to its end: it begins no further call of the relay.              *)
THEOREM AbortedGoesToItsEnd == Spec => AbortedEnds
<1>1. ASSUME TypeOK, Next, NEW i \in aborted, pc[i] \in Looping, pc'[i] # pc[i]
      PROVE  StepsLeft[pc'[i]] < StepsLeft[pc[i]]
  <2>1. i \in Interactions
    BY <1>1 DEF TypeOK
  <2>2. Poll(i)
    <3>1. PICK x \in Interactions : Step(x)
      BY <1>1 DEF Next, Post
    <3>2. x = i
      BY <1>1, <2>1, <3>1
      DEF TypeOK, Step, Poll, SendRequest, HandlerReturns, HandlerFails, TimesOut, Abort,
          GiveUp, GetResponses, Respond, RespondGarbage, GetFails, Wake, Receive,
          Return, Goto
    <3> QED
      BY <1>1, <3>1, <3>2
      DEF Looping, Step, SendRequest, HandlerReturns, HandlerFails, TimesOut, Abort
  <2>3. \/ pc[i] \in {"check", "pause"} /\ pc'[i] = "done"
        \/ pc[i] = "asking" /\ pc'[i] = "pause"
        \/ pc[i] = "pause" /\ pc'[i] = "check"
    BY <1>1, <2>1, <2>2
    DEF TypeOK, Poll, GiveUp, GetResponses, Respond, RespondGarbage, GetFails, Wake,
        Receive, Return, Goto
  <2> QED
    BY <2>3 DEF StepsLeft, PCs
<1>2. TypeOK /\ [Next]_vars =>
        [\A i \in aborted : pc[i] \in Looping /\ pc'[i] # pc[i] =>
            StepsLeft[pc'[i]] < StepsLeft[pc[i]]]_vars
  BY <1>1
<1> QED
  BY <1>2, TypeCorrect, PTL DEF Spec, AbortedEnds

=============================================================================
