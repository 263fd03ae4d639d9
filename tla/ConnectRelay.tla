----------------------------- MODULE ConnectRelay -----------------------------
(***************************************************************************)
(* Requests to the Radix wallet over the relay transport of                *)
(* packages/connect.                                                       *)
(*                                                                         *)
(* All requests of a transport share its session: each polls the relay for *)
(* responses of the session and takes the first one it gets.  A response   *)
(* is an answer, named by the interaction that it answers, or an error,    *)
(* which names none.  Session and key may be given by the application, so  *)
(* that the relay may hold answers from an earlier use of them.            *)
(***************************************************************************)
CONSTANTS
    Interactions,   \* wallet interactions, one request each
    Earlier,        \* interactions answered in an earlier use of the session
    DApps,          \* dApp definition addresses, the salt of the encryption
    DAppOf,         \* the dApp definition address of each interaction
    Error,          \* an error response
    Garbage         \* what a reply that is no list of responses comes down to

Messages == Interactions \cup Earlier \cup {Error}

ASSUME ConstantsAssumption ==
    /\ DAppOf \in [Interactions \cup Earlier -> DApps]
    /\ Interactions \cap Earlier = {}
    /\ Error \notin Interactions \cup Earlier
    /\ Garbage \notin Messages

VARIABLES
    pc,        \* where each request is
    response,  \* the first response that a request got: none or one
    result,    \* "none" before the request is over
    timers,    \* requests whose timeout is running
    aborted,   \* requests whose signal is aborted
    relay,     \* the responses that the relay holds for the session
    shown,     \* interactions handed to the application as a deep link
    posted     \* history: what the relay has ever held for the session

signals == <<timers, aborted>>
wallet == <<shown, posted>>
vars == <<pc, response, result, signals, relay, wallet>>

PCs == {"idle", "handling", "check", "asking", "pause", "done"}
Results == {"none", "answered", "refused", "mismatched", "undecodable",
            "failed", "aborted"}

Goto(i, l) == pc' = [pc EXCEPT ![i] = l]

Return(i, o) ==
    /\ result' = [result EXCEPT ![i] = o]
    /\ Goto(i, "done")

Init ==
    /\ pc = [i \in Interactions |-> "idle"]
    /\ response = [i \in Interactions |-> {}]
    /\ result = [i \in Interactions |-> "none"]
    /\ timers = {}
    /\ aborted = {}
    /\ relay \in SUBSET Earlier
    /\ shown = {}
    /\ posted = relay

-----------------------------------------------------------------------------
(* The timeout starts, then the application gets the deep link.            *)
SendRequest(i) ==
    /\ pc[i] = "idle"
    /\ timers' = timers \cup {i}
    /\ shown' = shown \cup {i}
    /\ Goto(i, "handling")
    /\ UNCHANGED <<response, result, aborted, relay, posted>>

HandlerReturns(i) ==
    /\ pc[i] = "handling"
    /\ Goto(i, "check")
    /\ UNCHANGED <<response, result, signals, relay, wallet>>

HandlerFails(i) ==
    /\ pc[i] = "handling"
    /\ Return(i, "failed")
    /\ UNCHANGED <<response, signals, relay, wallet>>

(* The timer and the application share the abort controller.               *)
TimesOut(i) ==
    /\ i \in timers
    /\ timers' = timers \ {i}
    /\ aborted' = aborted \cup {i}
    /\ UNCHANGED <<pc, response, result, relay, wallet>>

Abort(i) ==
    /\ i \in shown \ aborted
    /\ aborted' = aborted \cup {i}
    /\ UNCHANGED <<pc, response, result, timers, relay, wallet>>

(* Mutant of GiveUp: the loop goes on.                                     *)
GoOn(i) ==
    /\ pc[i] = "check"
    /\ i \in aborted
    /\ Goto(i, "asking")
    /\ UNCHANGED <<response, result, signals, relay, wallet>>

GiveUp(i) ==
    /\ pc[i] = "check"
    /\ i \in aborted
    /\ Return(i, "aborted")
    /\ UNCHANGED <<response, signals, relay, wallet>>

GetResponses(i) ==
    /\ pc[i] = "check"
    /\ i \notin aborted
    /\ Goto(i, "asking")
    /\ UNCHANGED <<response, result, signals, relay, wallet>>

(* The relay may drop what it has handed out, or keep it.                  *)
HandOut == relay' \in {relay, {}}

(* Mutant of Respond: all responses are taken.                             *)
RespondAll(i) ==
    /\ pc[i] = "asking"
    /\ response' = [response EXCEPT ![i] = relay]
    /\ HandOut
    /\ Goto(i, "pause")
    /\ UNCHANGED <<result, signals, wallet>>

Respond(i) ==
    /\ pc[i] = "asking"
    /\ IF relay = {}
       THEN UNCHANGED response
       ELSE \E m \in relay : response' = [response EXCEPT ![i] = {m}]
    /\ HandOut
    /\ Goto(i, "pause")
    /\ UNCHANGED <<result, signals, wallet>>

RespondGarbage(i) ==
    /\ pc[i] = "asking"
    /\ response' = [response EXCEPT ![i] = {Garbage}]
    /\ Goto(i, "pause")
    /\ UNCHANGED <<result, signals, relay, wallet>>

(* A failed call is logged and tried again; what it fetched is lost.       *)
GetFails(i) ==
    /\ pc[i] = "asking"
    /\ HandOut
    /\ Goto(i, "pause")
    /\ UNCHANGED <<response, result, signals, wallet>>

Wake(i) ==
    /\ pc[i] = "pause"
    /\ response[i] = {}
    /\ Goto(i, "check")
    /\ UNCHANGED <<response, result, signals, relay, wallet>>

Decrypts(i, m) == DAppOf[m] = DAppOf[i]

(* Mutant of Verdict: the interaction id is not compared.                  *)
VerdictUnmatched(i, m) ==
    CASE m = Error -> "refused"
      [] m = Garbage -> "failed"
      [] m \notin {Error, Garbage} /\ ~ Decrypts(i, m) -> "undecodable"
      [] m \notin {Error, Garbage} /\ Decrypts(i, m) -> "answered"

(* Mutant of Verdict: an error counts as a response of another interaction. *)
VerdictBlames(i, m) ==
    CASE m = Garbage -> "failed"
      [] m \notin {Error, Garbage} /\ ~ Decrypts(i, m) -> "undecodable"
      [] m = i -> "answered"
      [] m # i /\ (m = Error \/ Decrypts(i, m)) -> "mismatched"

Verdict(i, m) ==
    CASE m = Error -> "refused"
      [] m = Garbage -> "failed"
      [] m \notin {Error, Garbage} /\ ~ Decrypts(i, m) -> "undecodable"
      [] m = i -> "answered"
      [] m \notin {Error, Garbage, i} /\ Decrypts(i, m) -> "mismatched"

(* A response ends the loop, aborted or not.                               *)
Receive(i) ==
    /\ pc[i] = "pause"
    /\ \E m \in response[i] : Return(i, Verdict(i, m))
    /\ timers' = timers \ {i}
    /\ UNCHANGED <<response, aborted, relay, wallet>>

-----------------------------------------------------------------------------
(* The wallet answers what it was shown, as often as it likes.             *)
Post ==
    \E m \in shown \cup {Error} :
        /\ relay' = relay \cup {m}
        /\ posted' = posted \cup {m}
        /\ UNCHANGED <<pc, response, result, signals, shown>>

Poll(i) ==
    \/ GiveUp(i) \/ GetResponses(i) \/ Respond(i) \/ RespondGarbage(i)
    \/ GetFails(i) \/ Wake(i) \/ Receive(i)

Step(i) ==
    \/ SendRequest(i) \/ HandlerReturns(i) \/ HandlerFails(i)
    \/ TimesOut(i) \/ Abort(i) \/ Poll(i)

Next == (\E i \in Interactions : Step(i)) \/ Post

Spec == Init /\ [][Next]_vars

(* Relay calls return, if only with a failure; timers fire.                *)
FairSpec ==
    Spec /\ \A i \in Interactions : WF_vars(Poll(i)) /\ WF_vars(TimesOut(i))

-----------------------------------------------------------------------------
(* Properties *)

TypeOK ==
    /\ pc \in [Interactions -> PCs]
    /\ response \in
        [Interactions -> {{}} \cup {{m} : m \in Messages \cup {Garbage}}]
    /\ result \in [Interactions -> Results]
    /\ timers \subseteq Interactions
    /\ aborted \subseteq Interactions
    /\ relay \subseteq posted
    /\ shown \subseteq Interactions
    /\ posted \subseteq shown \cup Earlier \cup {Error}

(* Requests of one session take each other's responses, yet a request only *)
(* returns an answer that the wallet gave to its own interaction.          *)
AnswerIsOwn ==
    \A i \in Interactions : result[i] = "answered" => i \in posted

(* Once the application has handed the deep link on, the request ends: by  *)
(* a response, an abort or the timeout.                                    *)
PollEnds ==
    \A i \in Interactions : pc[i] = "check" ~> pc[i] = "done"

(* The transport implements WalletExchange.                                *)
Outcome(o) ==
    CASE o = "none" -> "pending"
      [] o \in {"failed", "aborted"} -> "given up"
      [] o \in {"mismatched", "undecodable"} -> "mismatched"
      [] o \in {"answered", "refused"} -> o

outcome == [i \in Interactions |-> Outcome(result[i])]

Exchange == INSTANCE WalletExchange
KeepsExchange == Exchange!Spec

(* connect.mdx: the transport times out after five minutes.  The timeout   *)
(* only sets a flag, which nothing looks at while handleRequest is pending. *)
TimeoutEndsRequest ==
    \A i \in Interactions : i \in aborted ~> pc[i] = "done"

=============================================================================
