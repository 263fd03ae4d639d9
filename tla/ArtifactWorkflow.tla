--------------------------- MODULE ArtifactWorkflow ---------------------------
(***************************************************************************)
(* The transaction workflow of the rdx command line                        *)
(* (src/packages/cli/src): `tx prepare`, `tx add-signatures`,              *)
(* `tx notarize`, `tx submit` and `tx status` over one transaction         *)
(* artifact directory.                                                     *)
(*                                                                         *)
(* Every command is an operating-system process of its own.  They share    *)
(* nothing but the files of the directory, take no lock, and replace a     *)
(* file by truncating it and writing it again, so a process that stops in  *)
(* between leaves a file that no longer parses.  A process runs one        *)
(* command after the other; a command that fails before it has written     *)
(* anything is not a step of the model.                                    *)
(*                                                                         *)
(* Data abstraction.  A signing request stands for its scope, account and  *)
(* hash, which `tx prepare` fixes together.  The hash of a signed intent   *)
(* stands for the signature entries attached to it, the only part of it    *)
(* that varies once the transaction is prepared.  A signature value stands *)
(* for whether Ed25519 accepts it for the entry's own hash and key.        *)
(***************************************************************************)
EXTENDS Naturals, FiniteSets

CONSTANTS
    Procs,        \* processes that run rdx commands
    Reqs,         \* signing requests that `tx prepare` generates
    Foreign,      \* requests of other transactions, offered by mistake
    Keys,         \* Ed25519 key pairs that sign
    NotaryKey,    \* the key declared in the notary file
    Notaries,     \* the keys that answer a notary request in this instance
    Commands,     \* the commands issued in this instance
    MayCrash,     \* whether a process may stop in the middle of a command
    MaxAnswers    \* bound: answers of the Gateway to submit, poll and status

ASSUME ConstantsAssumption ==
    /\ NotaryKey \in Keys
    /\ Notaries \subseteq Keys
    /\ Commands \subseteq {"prepare", "add", "notarize", "submit", "status"}
    /\ MayCrash \in BOOLEAN
    /\ MaxAnswers \in Nat
    /\ Reqs \cap Foreign = {}

VARIABLES
    dir,          \* the artifact directory exists
    file,         \* state on disk of each file that is read back
    reqFiles,     \* requests whose signing-requests/*.json is on disk
    notaryListed, \* prepared.json lists signing-requests/notary.json
    notaryHash,   \* hash in signing-requests/notary.json
    intentSigs,   \* entries of signatures.json of every scope but notary
    notarySigs,   \* entries of signatures.json of scope notary
    status,       \* networkStatus.status in submitResult.json
    attempts,     \* attempts in submitResult.json
    pc,           \* where each process is in its command
    known,        \* notary hashes among the requests a process has read
    buf,          \* intent entries a process carries between two steps
    bufNotary,    \* notary entries a process carries between two steps
    answer,       \* network status a process carries
    trail,        \* attempts a process carries
    published,    \* hashes ever offered to the notary for signing
    sent,         \* notarized transactions handed to the Gateway
    answers,      \* number of answers the Gateway has given
    ledger        \* outcome of the transaction on the network

files == <<dir, file, reqFiles, notaryListed, notaryHash,
           intentSigs, notarySigs, status, attempts>>
locals == <<known, buf, bufNotary, answer, trail>>
network == <<published, sent, answers, ledger>>
vars == <<files, pc, locals, network>>

-----------------------------------------------------------------------------
(* Data *)

Files == {"prepared", "notary", "signatures", "hex", "result"}
FileStates == {"absent", "torn", "written"}

IntentSig == [req : Reqs \cup Foreign, key : Keys, ok : BOOLEAN]
SignedHash == SUBSET IntentSig
NotarySig == [hash : SignedHash, key : Keys, ok : BOOLEAN]
Payload == [intent : SUBSET IntentSig, notary : NotarySig]

Committed == {"CommittedSuccess", "CommittedFailure"}
Answers == {"Unknown", "Pending"} \cup Committed
Attempt == [id : 1 .. MaxAnswers, status : Answers \cup {"Submitted"}]

PCs == {"idle",
        "prepareRequests", "prepareFill",
        "addImport", "addOpen", "addFill",
        "notarizePreview", "notarizeOpenRequest", "notarizeFillRequest",
        "notarizeOpenPrepared", "notarizeFillPrepared",
        "submitRead", "submitHex", "submitSend", "submitPoll",
        "statusRead", "recordOpen", "recordFill"}

Readable(f) == file[f] = "written"

(* Truncating a file, then writing its new contents.                       *)
Open(f) == file' = [file EXCEPT ![f] = "torn"]
Fill(f) == file' = [file EXCEPT ![f] = "written"]

Goto(p, l) == pc' = [pc EXCEPT ![p] = l]
Return(p) == Goto(p, "idle")

(* prepared.json and every signing request that it lists can be decoded.   *)
RequestsReadable ==
    /\ Readable("prepared")
    /\ reqFiles = Reqs
    /\ notaryListed => Readable("notary")

(* Every request that needs no notary has an entry that answers it.        *)
Complete(sigs) == \A r \in Reqs : \E s \in sigs : s.req = r

Verifies(entry) == entry.ok

SameIdentity(s, t) == s.req = t.req /\ s.key = t.key
SameNotaryIdentity(m, n) == m.hash = n.hash /\ m.key = n.key

(* Mutant of Merge: the imported file replaces what is there.              *)
MergeReplaces(old, new) == new

(* normalizeSignatures: the first entry of each identity wins.             *)

Merge(old, new) ==
    old \cup {s \in new : \A t \in old : ~SameIdentity(s, t)}
MergeNotary(old, new) ==
    old \cup {n \in new : \A m \in old : ~SameNotaryIdentity(m, n)}

(* Signature files as they arrive: at most two intent entries and at most  *)
(* one notary entry, which can only be over a hash that was published.     *)
AtMostOne(S) == {{}} \cup {{x} : x \in S}
AtMostTwo(S) == {{}} \cup {{x, y} : x, y \in S}
NotaryOffers == [hash : published, key : Notaries, ok : BOOLEAN]

-----------------------------------------------------------------------------
Init ==
    /\ dir = FALSE
    /\ file = [f \in Files |-> "absent"]
    /\ reqFiles = {}
    /\ notaryListed = FALSE
    /\ notaryHash = {}
    /\ intentSigs = {}
    /\ notarySigs = {}
    /\ status = "Unknown"
    /\ attempts = {}
    /\ pc = [p \in Procs |-> "idle"]
    /\ known = [p \in Procs |-> {}]
    /\ buf = [p \in Procs |-> {}]
    /\ bufNotary = [p \in Procs |-> {}]
    /\ answer = [p \in Procs |-> "Unknown"]
    /\ trail = [p \in Procs |-> {}]
    /\ published = {}
    /\ sent = {}
    /\ answers = 0
    /\ ledger = "none"

(* A process drops what it carried when its command ends.                  *)
Forget(p) ==
    /\ known' = [known EXCEPT ![p] = {}]
    /\ buf' = [buf EXCEPT ![p] = {}]
    /\ bufNotary' = [bufNotary EXCEPT ![p] = {}]
    /\ answer' = [answer EXCEPT ![p] = "Unknown"]
    /\ trail' = [trail EXCEPT ![p] = {}]

End(p) == Return(p) /\ Forget(p)

-----------------------------------------------------------------------------
(* tx prepare.  The intent, its hash and the Gateway preview come before   *)
(* anything is written; the directory is then claimed by a mkdir that      *)
(* fails when it exists, and prepared.json is the last file written.       *)

(* Mutant of PrepareMkdir: an existing directory is used again.            *)
PrepareMkdirRecursive(p) ==
    /\ "prepare" \in Commands
    /\ pc[p] = "idle"
    /\ dir' = TRUE
    /\ Goto(p, "prepareRequests")
    /\ UNCHANGED <<file, reqFiles, notaryListed, notaryHash, intentSigs,
                   notarySigs, status, attempts, locals, network>>

PrepareMkdir(p) ==
    /\ "prepare" \in Commands
    /\ pc[p] = "idle"
    /\ ~dir
    /\ dir' = TRUE
    /\ Goto(p, "prepareRequests")
    /\ UNCHANGED <<file, reqFiles, notaryListed, notaryHash, intentSigs,
                   notarySigs, status, attempts, locals, network>>

(* Mutant of PrepareRequest: a request of another transaction is written.  *)
PrepareRequestOfOther(p) ==
    /\ pc[p] = "prepareRequests"
    /\ \E r \in (Reqs \cup Foreign) \ reqFiles : reqFiles' = reqFiles \cup {r}
    /\ UNCHANGED <<dir, file, notaryListed, notaryHash, intentSigs,
                   notarySigs, status, attempts, pc, locals, network>>

PrepareRequest(p) ==
    /\ pc[p] = "prepareRequests"
    /\ \E r \in Reqs \ reqFiles : reqFiles' = reqFiles \cup {r}
    /\ UNCHANGED <<dir, file, notaryListed, notaryHash, intentSigs,
                   notarySigs, status, attempts, pc, locals, network>>

(* Mutant of PrepareOpen: prepared.json is written before what it lists.   *)
PrepareOpenEarly(p) ==
    /\ pc[p] = "prepareRequests"
    /\ Open("prepared")
    /\ Goto(p, "prepareFill")
    /\ UNCHANGED <<dir, reqFiles, notaryListed, notaryHash, intentSigs,
                   notarySigs, status, attempts, locals, network>>

PrepareOpen(p) ==
    /\ pc[p] = "prepareRequests"
    /\ reqFiles = Reqs
    /\ Open("prepared")
    /\ Goto(p, "prepareFill")
    /\ UNCHANGED <<dir, reqFiles, notaryListed, notaryHash, intentSigs,
                   notarySigs, status, attempts, locals, network>>

PrepareFill(p) ==
    /\ pc[p] = "prepareFill"
    /\ Fill("prepared")
    /\ notaryListed' = FALSE
    /\ End(p)
    /\ UNCHANGED <<dir, reqFiles, notaryHash, intentSigs, notarySigs,
                   status, attempts, network>>

-----------------------------------------------------------------------------
(* tx add-signatures: read the requests, read signatures.json, check every *)
(* imported entry, write the merged file.  One refused entry refuses the   *)
(* whole import.                                                           *)

AddRead(p) ==
    /\ "add" \in Commands
    /\ pc[p] = "idle"
    /\ RequestsReadable
    /\ known' = [known EXCEPT ![p] = IF notaryListed THEN {notaryHash} ELSE {}]
    /\ Goto(p, "addImport")
    /\ UNCHANGED <<files, buf, bufNotary, answer, trail, network>>

(* A signatures.json that is missing or does not parse counts as empty.    *)
ExistingIntent == IF Readable("signatures") THEN intentSigs ELSE {}
ExistingNotary == IF Readable("signatures") THEN notarySigs ELSE {}

(* Mutant of AcceptsIntent: the signature itself is not verified.          *)
AcceptsIntentUnverified(s) == s.req \in Reqs

AcceptsIntent(s) == s.req \in Reqs /\ Verifies(s)
(* Mutant of AcceptsNotary: the signature itself is not verified.          *)
AcceptsNotaryUnverified(p, n) == n.hash \in known[p]

AcceptsNotary(p, n) == n.hash \in known[p] /\ Verifies(n)

AddImport(p) ==
    /\ pc[p] = "addImport"
    /\ \E new \in AtMostTwo(IntentSig) :
        /\ \A s \in new : AcceptsIntent(s)
        /\ \E newNotary \in AtMostOne(NotaryOffers) :
            /\ \A n \in newNotary : AcceptsNotary(p, n)
            /\ buf' = [buf EXCEPT ![p] = Merge(ExistingIntent, new)]
            /\ bufNotary' = [bufNotary EXCEPT
                                ![p] = MergeNotary(ExistingNotary, newNotary)]
    /\ Goto(p, "addOpen")
    /\ UNCHANGED <<files, known, answer, trail, network>>

(* The imported files hold an entry that is refused, or cannot be read.    *)
AddRefuse(p) ==
    /\ pc[p] = "addImport"
    /\ End(p)
    /\ UNCHANGED <<files, network>>

AddOpen(p) ==
    /\ pc[p] = "addOpen"
    /\ Open("signatures")
    /\ Goto(p, "addFill")
    /\ UNCHANGED <<dir, reqFiles, notaryListed, notaryHash, intentSigs,
                   notarySigs, status, attempts, locals, network>>

AddFill(p) ==
    /\ pc[p] = "addFill"
    /\ Fill("signatures")
    /\ intentSigs' = buf[p]
    /\ notarySigs' = bufNotary[p]
    /\ End(p)
    /\ UNCHANGED <<dir, reqFiles, notaryListed, notaryHash, status, attempts,
                   network>>

-----------------------------------------------------------------------------
(* tx notarize: check that the intent signatures are complete, preview,    *)
(* then write the hash for the notary and add it to prepared.json.         *)

(* Mutant of NotarizeRead: it does not wait for every request.             *)
NotarizeReadIncomplete(p) ==
    /\ "notarize" \in Commands
    /\ pc[p] = "idle"
    /\ RequestsReadable
    /\ Readable("signatures")
    /\ buf' = [buf EXCEPT ![p] = ExistingIntent]
    /\ Goto(p, "notarizePreview")
    /\ UNCHANGED <<files, known, bufNotary, answer, trail, network>>

NotarizeRead(p) ==
    /\ "notarize" \in Commands
    /\ pc[p] = "idle"
    /\ RequestsReadable
    /\ \/ Readable("signatures")
       \/ file["signatures"] = "absent" /\ Reqs = {}
    /\ Complete(ExistingIntent)
    /\ buf' = [buf EXCEPT ![p] = ExistingIntent]
    /\ Goto(p, "notarizePreview")
    /\ UNCHANGED <<files, known, bufNotary, answer, trail, network>>

(* Nothing is written when the Gateway preview fails.                      *)
NotarizePreviewFails(p) ==
    /\ pc[p] = "notarizePreview"
    /\ End(p)
    /\ UNCHANGED <<files, network>>

(* signedTransactionIntent.json is written here; no command reads it.      *)
NotarizePreviewSucceeds(p) ==
    /\ pc[p] = "notarizePreview"
    /\ Goto(p, "notarizeOpenRequest")
    /\ UNCHANGED <<files, locals, network>>

NotarizeOpenRequest(p) ==
    /\ pc[p] = "notarizeOpenRequest"
    /\ Open("notary")
    /\ Goto(p, "notarizeFillRequest")
    /\ UNCHANGED <<dir, reqFiles, notaryListed, notaryHash, intentSigs,
                   notarySigs, status, attempts, locals, network>>

NotarizeFillRequest(p) ==
    /\ pc[p] = "notarizeFillRequest"
    /\ Fill("notary")
    /\ notaryHash' = buf[p]
    /\ published' = published \cup {buf[p]}
    /\ Goto(p, "notarizeOpenPrepared")
    /\ UNCHANGED <<dir, reqFiles, notaryListed, intentSigs, notarySigs,
                   status, attempts, locals, sent, answers, ledger>>

NotarizeOpenPrepared(p) ==
    /\ pc[p] = "notarizeOpenPrepared"
    /\ Open("prepared")
    /\ Goto(p, "notarizeFillPrepared")
    /\ UNCHANGED <<dir, reqFiles, notaryListed, notaryHash, intentSigs,
                   notarySigs, status, attempts, locals, network>>

NotarizeFillPrepared(p) ==
    /\ pc[p] = "notarizeFillPrepared"
    /\ Fill("prepared")
    /\ notaryListed' = TRUE
    /\ End(p)
    /\ UNCHANGED <<dir, reqFiles, notaryHash, intentSigs, notarySigs,
                   status, attempts, network>>

-----------------------------------------------------------------------------
(* tx submit: refuse after a recorded success, check that every request is *)
(* answered, compile with the first notary entry, broadcast, ask for the   *)
(* status once, and record both answers.                                   *)

ArtifactFound == file["prepared"] # "absent"

(* Mutants of the two readers of submitResult.json: it is ignored.         *)
NoRecordedSuccess == FALSE
NoExistingAttempts == {}

(* A submitResult.json that is missing or does not parse counts as none.   *)

RecordedSuccess == Readable("result") /\ status = "CommittedSuccess"
ExistingAttempts == IF Readable("result") THEN attempts ELSE {}

SubmitCheck(p) ==
    /\ "submit" \in Commands
    /\ pc[p] = "idle"
    /\ ArtifactFound
    /\ ~RecordedSuccess
    /\ trail' = [trail EXCEPT ![p] = ExistingAttempts]
    /\ Goto(p, "submitRead")
    /\ UNCHANGED <<files, known, buf, bufNotary, answer, network>>

SubmitReady ==
    /\ RequestsReadable
    /\ Readable("signatures")
    /\ Complete(intentSigs)
    /\ notaryListed => \E n \in notarySigs : n.hash = notaryHash
    /\ notarySigs # {}

(* Entries of scope notary are sorted by hash, so which of them comes      *)
(* first is as good as random.                                             *)
SubmitRead(p) ==
    /\ pc[p] = "submitRead"
    /\ SubmitReady
    /\ buf' = [buf EXCEPT ![p] = intentSigs]
    /\ \E n \in notarySigs : bufNotary' = [bufNotary EXCEPT ![p] = {n}]
    /\ Goto(p, "submitHex")
    /\ UNCHANGED <<files, known, answer, trail, network>>

SubmitNotReady(p) ==
    /\ pc[p] = "submitRead"
    /\ ~SubmitReady
    /\ End(p)
    /\ UNCHANGED <<files, network>>

SubmitHex(p) ==
    /\ pc[p] = "submitHex"
    /\ Fill("hex")
    /\ Goto(p, "submitSend")
    /\ UNCHANGED <<dir, reqFiles, notaryListed, notaryHash, intentSigs,
                   notarySigs, status, attempts, locals, network>>

Broadcast(p) ==
    \E n \in bufNotary[p] :
        sent' = sent \cup {[intent |-> buf[p], notary |-> n]}

(* Mutant of SubmitSend: acceptance by the Gateway is recorded as success. *)
SubmitSendAsSuccess(p) ==
    /\ pc[p] = "submitSend"
    /\ answers < MaxAnswers
    /\ Broadcast(p)
    /\ answers' = answers + 1
    /\ trail' = [trail EXCEPT
                    ![p] = @ \cup {[id |-> answers + 1,
                                   status |-> "CommittedSuccess"]}]
    /\ Goto(p, "submitPoll")
    /\ UNCHANGED <<files, known, buf, bufNotary, answer, published, ledger>>

SubmitSend(p) ==
    /\ pc[p] = "submitSend"
    /\ answers < MaxAnswers
    /\ Broadcast(p)
    /\ answers' = answers + 1
    /\ trail' = [trail EXCEPT
                    ![p] = @ \cup {[id |-> answers + 1, status |-> "Submitted"]}]
    /\ Goto(p, "submitPoll")
    /\ UNCHANGED <<files, known, buf, bufNotary, answer, published, ledger>>

(* The call fails; the Gateway may have taken the transaction all the same. *)
SubmitSendFails(p) ==
    /\ pc[p] = "submitSend"
    /\ Broadcast(p) \/ sent' = sent
    /\ End(p)
    /\ UNCHANGED <<files, published, answers, ledger>>

(* What the Gateway says of the transaction.                               *)
GatewayAnswers ==
    IF ledger \in Committed THEN {ledger}
    ELSE {"Unknown"} \cup (IF sent = {} THEN {} ELSE {"Pending"})

(* One status request is answered, and adds an attempt to the trail.       *)
TakeAnswer(p) ==
    /\ answers < MaxAnswers
    /\ answers' = answers + 1
    /\ \E s \in GatewayAnswers :
        /\ answer' = [answer EXCEPT ![p] = s]
        /\ trail' = [trail EXCEPT
                        ![p] = @ \cup {[id |-> answers + 1, status |-> s]}]

SubmitPoll(p) ==
    /\ pc[p] = "submitPoll"
    /\ TakeAnswer(p)
    /\ Goto(p, "recordOpen")
    /\ UNCHANGED <<files, known, buf, bufNotary, published, sent, ledger>>

SubmitPollFails(p) ==
    /\ pc[p] = "submitPoll"
    /\ End(p)
    /\ UNCHANGED <<files, network>>

-----------------------------------------------------------------------------
(* tx status and tx list --update-network-status: ask the Gateway first,   *)
(* then read submitResult.json and write it back with the answer.          *)

StatusQuery(p) ==
    /\ "status" \in Commands
    /\ pc[p] = "idle"
    /\ ArtifactFound
    /\ TakeAnswer(p)
    /\ Goto(p, "statusRead")
    /\ UNCHANGED <<files, known, buf, bufNotary, published, sent, ledger>>

StatusRead(p) ==
    /\ pc[p] = "statusRead"
    /\ trail' = [trail EXCEPT ![p] = ExistingAttempts \cup @]
    /\ Goto(p, "recordOpen")
    /\ UNCHANGED <<files, known, buf, bufNotary, answer, network>>

(* writeSubmitResult, the end of both commands.                            *)
RecordOpen(p) ==
    /\ pc[p] = "recordOpen"
    /\ Open("result")
    /\ Goto(p, "recordFill")
    /\ UNCHANGED <<dir, reqFiles, notaryListed, notaryHash, intentSigs,
                   notarySigs, status, attempts, locals, network>>

RecordFill(p) ==
    /\ pc[p] = "recordFill"
    /\ Fill("result")
    /\ status' = answer[p]
    /\ attempts' = trail[p]
    /\ End(p)
    /\ UNCHANGED <<dir, reqFiles, notaryListed, notaryHash, intentSigs,
                   notarySigs, network>>

-----------------------------------------------------------------------------
(* A process stops where it is.                                            *)
Crash(p) ==
    /\ MayCrash
    /\ pc[p] # "idle"
    /\ End(p)
    /\ UNCHANGED <<files, network>>

(* The network commits a transaction at most once, and only when its       *)
(* notary signed what it carries.                                          *)
WellNotarized(t) ==
    /\ \A s \in t.intent : s.ok
    /\ t.notary.ok
    /\ t.notary.key = NotaryKey
    /\ t.notary.hash = t.intent

Commit ==
    /\ ledger = "none"
    /\ \E t \in sent : WellNotarized(t)
    /\ ledger' \in Committed
    /\ UNCHANGED <<files, pc, locals, published, sent, answers>>

Prepare(p) ==
    PrepareMkdir(p) \/ PrepareRequest(p) \/ PrepareOpen(p) \/ PrepareFill(p)

AddSignatures(p) ==
    AddRead(p) \/ AddImport(p) \/ AddRefuse(p) \/ AddOpen(p) \/ AddFill(p)

Notarize(p) ==
    \/ NotarizeRead(p)
    \/ NotarizePreviewFails(p) \/ NotarizePreviewSucceeds(p)
    \/ NotarizeOpenRequest(p) \/ NotarizeFillRequest(p)
    \/ NotarizeOpenPrepared(p) \/ NotarizeFillPrepared(p)

Submit(p) ==
    \/ SubmitCheck(p) \/ SubmitRead(p) \/ SubmitNotReady(p) \/ SubmitHex(p)
    \/ SubmitSend(p) \/ SubmitSendFails(p) \/ SubmitPoll(p) \/ SubmitPollFails(p)

Status(p) == StatusQuery(p) \/ StatusRead(p)

Record(p) == RecordOpen(p) \/ RecordFill(p)

Next ==
    \/ \E p \in Procs :
        \/ Prepare(p) \/ AddSignatures(p) \/ Notarize(p)
        \/ Submit(p) \/ Status(p) \/ Record(p) \/ Crash(p)
    \/ Commit

Spec == Init /\ [][Next]_vars

-----------------------------------------------------------------------------
(* Commands that do not get in each other's way.  An import has read       *)
(* signatures.json and will write it back; a submission or a status query  *)
(* has looked at the outcome and will write submitResult.json back.  The   *)
(* code takes no lock, so this is a condition on its use: no two imports   *)
(* overlap there, no two recordings do, and none is cut off between        *)
(* truncating the file and writing it.                                     *)
Importing == {"addOpen", "addFill"}
Recording == {"submitRead", "submitHex", "submitSend", "submitPoll",
              "statusRead", "recordOpen", "recordFill"}

OneAt(places) ==
    \A p, q \in Procs : pc[p] \in places /\ pc[q] \in places => p = q

NotCutOff(f, fill) == file[f] = "torn" => \E p \in Procs : pc[p] = fill

Undisturbed ==
    /\ OneAt(Importing) /\ NotCutOff("signatures", "addFill")
    /\ OneAt(Recording) /\ NotCutOff("result", "recordFill")

SerialSpec == Init /\ [][Next /\ Undisturbed']_vars

(* Commands among which notarizing comes last: once a `tx notarize` has    *)
(* read the signatures, no intent signature is added or lost any more.     *)
(* Nothing in the code sees to it.                                         *)
Notarizing == {"notarizePreview", "notarizeOpenRequest", "notarizeFillRequest"}
SignaturesTaken == published # {} \/ \E p \in Procs : pc[p] \in Notarizing

NotarizedLastSpec ==
    Init /\ [][Next /\ (SignaturesTaken => intentSigs' = intentSigs)]_vars

-----------------------------------------------------------------------------
(* Properties *)

TypeOK ==
    /\ dir \in BOOLEAN
    /\ file \in [Files -> FileStates]
    /\ reqFiles \subseteq Reqs
    /\ notaryListed \in BOOLEAN
    /\ notaryHash \in SignedHash
    /\ intentSigs \subseteq IntentSig
    /\ notarySigs \subseteq NotarySig
    /\ status \in Answers
    /\ attempts \subseteq Attempt
    /\ pc \in [Procs -> PCs]
    /\ known \in [Procs -> SUBSET SignedHash]
    /\ buf \in [Procs -> SUBSET IntentSig]
    /\ bufNotary \in [Procs -> SUBSET NotarySig]
    /\ answer \in [Procs -> Answers]
    /\ trail \in [Procs -> SUBSET Attempt]
    /\ published \subseteq SignedHash
    /\ sent \subseteq Payload
    /\ answers \in 0 .. MaxAnswers
    /\ ledger \in Committed \cup {"none"}

(* Answered(sigs): sigs authorizes the intent as far as rdx can tell       *)
(* locally: every request is answered and every entry verifies.            *)
Answered(sigs) ==
    /\ Complete(sigs)
    /\ \A s \in sigs : s.req \in Reqs /\ Verifies(s)

(* A prepared.json that parses is never ahead of the files it lists,       *)
(* although `tx prepare` and `tx notarize` may stop after any write: the   *)
(* order of the writes (prepare.ts, notarize.ts) is what ensures it.       *)
PreparedIsComplete ==
    Readable("prepared") =>
        /\ dir
        /\ reqFiles = Reqs
        /\ notaryListed => file["notary"] # "absent"

(* Whatever commands interleave, the notary is only ever asked to sign an  *)
(* intent whose every request is answered by a verified signature.         *)
NotaryOnlySeesAnsweredIntents == \A h \in published : Answered(h)

(* signatures.json holds only verified entries that answer a request of    *)
(* this transaction; a notary entry answers a hash that `tx notarize`      *)
(* derived from a complete set of signatures, now or earlier.              *)
StoredSignaturesAnswerRequests ==
    /\ \A s \in intentSigs : s.req \in Reqs /\ Verifies(s)
    /\ \A n \in notarySigs : n.hash \in published /\ Verifies(n)

(* Nothing reaches the network unless every request is answered by a       *)
(* verified signature and a notary entry verifies for a hash that          *)
(* `tx notarize` published, whatever happened to the files since.          *)
BroadcastIsAuthorized ==
    \A t \in sent :
        /\ Answered(t.intent)
        /\ t.notary.hash \in published
        /\ Verifies(t.notary)

(* submitResult.json never claims a commit the ledger does not have, also  *)
(* when a status answer is recorded long after it was given.               *)
RecordIsTrue ==
    /\ status \in Committed => ledger = status
    /\ \A a \in attempts : a.status \in Committed => ledger = a.status

(* All commands together keep what an artifact promises                    *)
(* (AuthorizedTransaction): nothing is offered to the notary, broadcast or *)
(* recorded out of turn, whatever interleaves, stops or comes late.        *)
Claims == ({status} \cup {a.status : a \in attempts}) \cap Committed

Authority == INSTANCE AuthorizedTransaction WITH
    Intents <- SignedHash,
    Authorized <- {h \in SignedHash : Answered(h)},
    Decisions <- Committed,
    offered <- published,
    broadcast <- {<<t.intent, t.notary.hash>> : t \in sent},
    decision <- ledger,
    claimed <- Claims
KeepsAuthority == Authority!Spec

(* `tx prepare` starts only where no artifact file is: an earlier          *)
(* preparation, even one that stopped half-way, is never written over.     *)
PrepareStartsFresh ==
    [][\A p \in Procs :
        pc[p] = "idle" /\ pc'[p] = "prepareRequests" =>
            /\ reqFiles = {}
            /\ \A f \in Files : file[f] = "absent"
            /\ \A q \in Procs : pc[q] \notin {"prepareRequests", "prepareFill"}]_vars

(* An accepted signature stays in signatures.json.                         *)
SignaturesKept ==
    [][intentSigs \subseteq intentSigs' /\ notarySigs \subseteq notarySigs']_vars

(* A recorded attempt stays in submitResult.json.                          *)
AttemptsKept == [][attempts \subseteq attempts']_vars

(* CONTEXT.md:373: "refuses to resubmit after a successful result": no     *)
(* submission starts once the record holds a successful attempt.           *)
RefusesAfterSuccess ==
    [][\A p \in Procs :
        pc[p] = "idle" /\ pc'[p] = "submitRead" =>
            \A a \in attempts : a.status # "CommittedSuccess"]_vars

(* CONTEXT.md:561: "Local Signature Verification catches wrong-key or      *)
(* wrong-hash files before broadcast": what the notary signed is what is   *)
(* broadcast.                                                              *)
BroadcastIsWhatNotarySigned == \A t \in sent : t.notary.hash = t.intent

=============================================================================
