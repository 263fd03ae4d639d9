------------------------ MODULE ArtifactWorkflowProofs ------------------------
(***************************************************************************)
(* Proofs about the transaction workflow, for every number of processes,   *)
(* requests, keys and answers.  Each layer of the inductive invariant      *)
(* relies on the layers before it:                                         *)
(*   TypeOK -> DirectoryInv -> PreparedInv, SignaturesInv, RecordInv.      *)
(* From these follows that the commands implement AuthorizedTransaction.   *)
(* The last sections are about commands that do not get in each other's    *)
(* way (KeptInv, SuccessInv) and about notarizing last (OneIntentInv).     *)
(***************************************************************************)
EXTENDS ArtifactWorkflow, TLAPS

-----------------------------------------------------------------------------
(* What the two merges return stays within the types of their arguments.   *)
LEMMA MergeType ==
    ASSUME NEW old, NEW new
    PROVE  /\ old \subseteq Merge(old, new)
           /\ Merge(old, new) \subseteq old \cup new
           /\ old \subseteq MergeNotary(old, new)
           /\ MergeNotary(old, new) \subseteq old \cup new
BY DEF Merge, MergeNotary

(* A process that ends its command leaves every carried value well typed.  *)
LEMMA EndType ==
    ASSUME TypeOK, NEW p \in Procs, End(p)
    PROVE  /\ pc' \in [Procs -> PCs]
           /\ known' \in [Procs -> SUBSET SignedHash]
           /\ buf' \in [Procs -> SUBSET IntentSig]
           /\ bufNotary' \in [Procs -> SUBSET NotarySig]
           /\ answer' \in [Procs -> Answers]
           /\ trail' \in [Procs -> SUBSET Attempt]
BY DEF TypeOK, End, Forget, Return, Goto, PCs, Answers

(* Opening and filling a file keeps the state of the files well typed.     *)
LEMMA FileType ==
    ASSUME TypeOK, NEW f \in Files, Open(f) \/ Fill(f)
    PROVE  file' \in [Files -> FileStates]
BY DEF TypeOK, Open, Fill, FileStates

(* Moving to another step keeps the program counters well typed.           *)
LEMMA GotoType ==
    ASSUME TypeOK, NEW p \in Procs, NEW l \in PCs, Goto(p, l)
    PROVE  pc' \in [Procs -> PCs]
BY DEF TypeOK, Goto

LEMMA PrepareType ==
    ASSUME TypeOK, NEW p \in Procs, Prepare(p)
    PROVE  TypeOK'
<1> USE DEF files, locals, network
<1>1. CASE PrepareMkdir(p)
  <2>1. pc' \in [Procs -> PCs]
    BY <1>1, GotoType DEF PrepareMkdir, PCs
  <2> QED BY <1>1, <2>1 DEF PrepareMkdir, TypeOK
<1>2. CASE PrepareRequest(p)
  BY <1>2 DEF PrepareRequest, TypeOK
<1>3. CASE PrepareOpen(p)
  <2>1. pc' \in [Procs -> PCs]
    BY <1>3, GotoType DEF PrepareOpen, PCs
  <2>2. file' \in [Files -> FileStates]
    BY <1>3, FileType DEF PrepareOpen, Files
  <2> QED BY <1>3, <2>1, <2>2 DEF PrepareOpen, TypeOK
<1>4. CASE PrepareFill(p)
  <2>1. file' \in [Files -> FileStates]
    BY <1>4, FileType DEF PrepareFill, Files
  <2> QED BY <1>4, <2>1, EndType DEF PrepareFill, TypeOK
<1> QED BY <1>1, <1>2, <1>3, <1>4 DEF Prepare

LEMMA AddSignaturesType ==
    ASSUME TypeOK, NEW p \in Procs, AddSignatures(p)
    PROVE  TypeOK'
<1> USE DEF files, locals, network
<1>1. CASE AddRead(p)
  <2>1. pc' \in [Procs -> PCs]
    BY <1>1, GotoType DEF AddRead, PCs
  <2>2. known' \in [Procs -> SUBSET SignedHash]
    BY <1>1 DEF AddRead, TypeOK
  <2> QED BY <1>1, <2>1, <2>2 DEF AddRead, TypeOK
<1>2. CASE AddImport(p)
  <2>1. pc' \in [Procs -> PCs]
    BY <1>2, GotoType DEF AddImport, PCs
  <2>2. PICK new \in AtMostTwo(IntentSig), newNotary \in AtMostOne(NotaryOffers) :
          /\ buf' = [buf EXCEPT ![p] = Merge(ExistingIntent, new)]
          /\ bufNotary' = [bufNotary EXCEPT
                              ![p] = MergeNotary(ExistingNotary, newNotary)]
    BY <1>2 DEF AddImport
  <2>3. new \subseteq IntentSig
    BY DEF AtMostTwo
  <2>4. newNotary \subseteq NotarySig
    BY ConstantsAssumption
    DEF AtMostOne, NotaryOffers, NotarySig, TypeOK, ConstantsAssumption
  <2>5. Merge(ExistingIntent, new) \subseteq IntentSig
    BY <2>3, MergeType DEF ExistingIntent, TypeOK
  <2>6. MergeNotary(ExistingNotary, newNotary) \subseteq NotarySig
    BY <2>4, MergeType DEF ExistingNotary, TypeOK
  <2>7. /\ buf' \in [Procs -> SUBSET IntentSig]
        /\ bufNotary' \in [Procs -> SUBSET NotarySig]
    BY <2>2, <2>5, <2>6 DEF TypeOK
  <2> QED BY <1>2, <2>1, <2>7 DEF AddImport, TypeOK
<1>3. CASE AddRefuse(p)
  BY <1>3, EndType DEF AddRefuse, TypeOK
<1>4. CASE AddOpen(p)
  <2>1. pc' \in [Procs -> PCs]
    BY <1>4, GotoType DEF AddOpen, PCs
  <2>2. file' \in [Files -> FileStates]
    BY <1>4, FileType DEF AddOpen, Files
  <2> QED BY <1>4, <2>1, <2>2 DEF AddOpen, TypeOK
<1>5. CASE AddFill(p)
  <2>1. file' \in [Files -> FileStates]
    BY <1>5, FileType DEF AddFill, Files
  <2>2. intentSigs' \subseteq IntentSig /\ notarySigs' \subseteq NotarySig
    BY <1>5 DEF AddFill, TypeOK
  <2> QED BY <1>5, <2>1, <2>2, EndType DEF AddFill, TypeOK
<1> QED BY <1>1, <1>2, <1>3, <1>4, <1>5 DEF AddSignatures

LEMMA NotarizeType ==
    ASSUME TypeOK, NEW p \in Procs, Notarize(p)
    PROVE  TypeOK'
<1> USE DEF files, locals, network
<1>1. CASE NotarizeRead(p)
  <2>1. pc' \in [Procs -> PCs]
    BY <1>1, GotoType DEF NotarizeRead, PCs
  <2>2. buf' \in [Procs -> SUBSET IntentSig]
    BY <1>1 DEF NotarizeRead, ExistingIntent, TypeOK
  <2> QED BY <1>1, <2>1, <2>2 DEF NotarizeRead, TypeOK
<1>2. CASE NotarizePreviewFails(p)
  BY <1>2, EndType DEF NotarizePreviewFails, TypeOK
<1>3. CASE NotarizePreviewSucceeds(p)
  <2>1. pc' \in [Procs -> PCs]
    BY <1>3, GotoType DEF NotarizePreviewSucceeds, PCs
  <2> QED BY <1>3, <2>1 DEF NotarizePreviewSucceeds, TypeOK
<1>4. CASE NotarizeOpenRequest(p)
  <2>1. pc' \in [Procs -> PCs]
    BY <1>4, GotoType DEF NotarizeOpenRequest, PCs
  <2>2. file' \in [Files -> FileStates]
    BY <1>4, FileType DEF NotarizeOpenRequest, Files
  <2> QED BY <1>4, <2>1, <2>2 DEF NotarizeOpenRequest, TypeOK
<1>5. CASE NotarizeFillRequest(p)
  <2>1. pc' \in [Procs -> PCs]
    BY <1>5, GotoType DEF NotarizeFillRequest, PCs
  <2>2. file' \in [Files -> FileStates]
    BY <1>5, FileType DEF NotarizeFillRequest, Files
  <2>3. notaryHash' \in SignedHash /\ published' \subseteq SignedHash
    BY <1>5 DEF NotarizeFillRequest, TypeOK, SignedHash
  <2> QED BY <1>5, <2>1, <2>2, <2>3 DEF NotarizeFillRequest, TypeOK
<1>6. CASE NotarizeOpenPrepared(p)
  <2>1. pc' \in [Procs -> PCs]
    BY <1>6, GotoType DEF NotarizeOpenPrepared, PCs
  <2>2. file' \in [Files -> FileStates]
    BY <1>6, FileType DEF NotarizeOpenPrepared, Files
  <2> QED BY <1>6, <2>1, <2>2 DEF NotarizeOpenPrepared, TypeOK
<1>7. CASE NotarizeFillPrepared(p)
  <2>1. file' \in [Files -> FileStates]
    BY <1>7, FileType DEF NotarizeFillPrepared, Files
  <2> QED BY <1>7, <2>1, EndType DEF NotarizeFillPrepared, TypeOK
<1> QED BY <1>1, <1>2, <1>3, <1>4, <1>5, <1>6, <1>7 DEF Notarize

(* An answer taken from the Gateway is an answer, and its attempt is new.  *)
LEMMA TakeAnswerType ==
    ASSUME TypeOK, NEW p \in Procs, TakeAnswer(p)
    PROVE  /\ answer' \in [Procs -> Answers]
           /\ trail' \in [Procs -> SUBSET Attempt]
           /\ answers' \in 0 .. MaxAnswers
<1>1. PICK s \in GatewayAnswers :
        /\ answer' = [answer EXCEPT ![p] = s]
        /\ trail' = [trail EXCEPT
                        ![p] = @ \cup {[id |-> answers + 1, status |-> s]}]
  BY DEF TakeAnswer
<1>2. s \in Answers
  BY DEF GatewayAnswers, Answers
<1>3. answers + 1 \in 1 .. MaxAnswers
  BY ConstantsAssumption DEF TypeOK, TakeAnswer, ConstantsAssumption
<1>4. [id |-> answers + 1, status |-> s] \in Attempt
  BY <1>2, <1>3 DEF Attempt
<1>5. answers' \in 0 .. MaxAnswers
  BY <1>3 DEF TakeAnswer
<1>6. answer' \in [Procs -> Answers]
  BY <1>1, <1>2 DEF TypeOK
<1>7. trail' \in [Procs -> SUBSET Attempt]
  BY <1>1, <1>4 DEF TypeOK
<1> QED BY <1>5, <1>6, <1>7

(* What is broadcast is made of what the process carries.                  *)
LEMMA BroadcastType ==
    ASSUME TypeOK, NEW p \in Procs, Broadcast(p)
    PROVE  sent' \subseteq Payload
<1>1. PICK n \in bufNotary[p] :
        sent' = sent \cup {[intent |-> buf[p], notary |-> n]}
  BY DEF Broadcast
<1>2. [intent |-> buf[p], notary |-> n] \in Payload
  BY DEF TypeOK, Payload
<1> QED BY <1>1, <1>2 DEF TypeOK

LEMMA SubmitType ==
    ASSUME TypeOK, NEW p \in Procs, Submit(p)
    PROVE  TypeOK'
<1> USE DEF files, locals, network
<1>1. CASE SubmitCheck(p)
  <2>1. pc' \in [Procs -> PCs]
    BY <1>1, GotoType DEF SubmitCheck, PCs
  <2>2. trail' \in [Procs -> SUBSET Attempt]
    BY <1>1 DEF SubmitCheck, ExistingAttempts, TypeOK
  <2> QED BY <1>1, <2>1, <2>2 DEF SubmitCheck, TypeOK
<1>2. CASE SubmitRead(p)
  <2>1. pc' \in [Procs -> PCs]
    BY <1>2, GotoType DEF SubmitRead, PCs
  <2>2. /\ buf' \in [Procs -> SUBSET IntentSig]
        /\ bufNotary' \in [Procs -> SUBSET NotarySig]
    BY <1>2 DEF SubmitRead, TypeOK
  <2> QED BY <1>2, <2>1, <2>2 DEF SubmitRead, TypeOK
<1>3. CASE SubmitNotReady(p)
  BY <1>3, EndType DEF SubmitNotReady, TypeOK
<1>4. CASE SubmitHex(p)
  <2>1. pc' \in [Procs -> PCs]
    BY <1>4, GotoType DEF SubmitHex, PCs
  <2>2. file' \in [Files -> FileStates]
    BY <1>4, FileType DEF SubmitHex, Files
  <2> QED BY <1>4, <2>1, <2>2 DEF SubmitHex, TypeOK
<1>5. CASE SubmitSend(p)
  <2>1. pc' \in [Procs -> PCs]
    BY <1>5, GotoType DEF SubmitSend, PCs
  <2>2. sent' \subseteq Payload
    BY <1>5, BroadcastType DEF SubmitSend
  <2>3. answers + 1 \in 1 .. MaxAnswers /\ answers' \in 0 .. MaxAnswers
    BY <1>5, ConstantsAssumption DEF SubmitSend, TypeOK, ConstantsAssumption
  <2>4. [id |-> answers + 1, status |-> "Submitted"] \in Attempt
    BY <2>3 DEF Attempt
  <2>5. trail' \in [Procs -> SUBSET Attempt]
    BY <1>5, <2>4 DEF SubmitSend, TypeOK
  <2> QED BY <1>5, <2>1, <2>2, <2>3, <2>5 DEF SubmitSend, TypeOK
<1>6. CASE SubmitSendFails(p)
  <2>1. sent' \subseteq Payload
    BY <1>6, BroadcastType DEF SubmitSendFails, TypeOK
  <2> QED BY <1>6, <2>1, EndType DEF SubmitSendFails, TypeOK
<1>7. CASE SubmitPoll(p)
  <2>1. pc' \in [Procs -> PCs]
    BY <1>7, GotoType DEF SubmitPoll, PCs
  <2> QED BY <1>7, <2>1, TakeAnswerType DEF SubmitPoll, TypeOK
<1>8. CASE SubmitPollFails(p)
  BY <1>8, EndType DEF SubmitPollFails, TypeOK
<1> QED
  BY <1>1, <1>2, <1>3, <1>4, <1>5, <1>6, <1>7, <1>8 DEF Submit

LEMMA StatusType ==
    ASSUME TypeOK, NEW p \in Procs, Status(p)
    PROVE  TypeOK'
<1> USE DEF files, locals, network
<1>1. CASE StatusQuery(p)
  <2>1. pc' \in [Procs -> PCs]
    BY <1>1, GotoType DEF StatusQuery, PCs
  <2> QED BY <1>1, <2>1, TakeAnswerType DEF StatusQuery, TypeOK
<1>2. CASE StatusRead(p)
  <2>1. pc' \in [Procs -> PCs]
    BY <1>2, GotoType DEF StatusRead, PCs
  <2>2. trail' \in [Procs -> SUBSET Attempt]
    BY <1>2 DEF StatusRead, ExistingAttempts, TypeOK
  <2> QED BY <1>2, <2>1, <2>2 DEF StatusRead, TypeOK
<1> QED BY <1>1, <1>2 DEF Status

LEMMA RecordType ==
    ASSUME TypeOK, NEW p \in Procs, Record(p)
    PROVE  TypeOK'
<1> USE DEF files, locals, network
<1>1. CASE RecordOpen(p)
  <2>1. pc' \in [Procs -> PCs]
    BY <1>1, GotoType DEF RecordOpen, PCs
  <2>2. file' \in [Files -> FileStates]
    BY <1>1, FileType DEF RecordOpen, Files
  <2> QED BY <1>1, <2>1, <2>2 DEF RecordOpen, TypeOK
<1>2. CASE RecordFill(p)
  <2>1. file' \in [Files -> FileStates]
    BY <1>2, FileType DEF RecordFill, Files
  <2>2. status' \in Answers /\ attempts' \subseteq Attempt
    BY <1>2 DEF RecordFill, TypeOK
  <2> QED BY <1>2, <2>1, <2>2, EndType DEF RecordFill, TypeOK
<1> QED BY <1>1, <1>2 DEF Record

(* Every reachable state of every instance is well typed.                  *)
THEOREM TypeCorrect == Spec => []TypeOK
<1>1. Init => TypeOK
  <2> SUFFICES ASSUME Init PROVE TypeOK
    OBVIOUS
  <2>1. /\ file \in [Files -> FileStates]
        /\ pc \in [Procs -> PCs]
        /\ answer \in [Procs -> Answers]
    BY DEF Init, FileStates, PCs, Answers
  <2>2. /\ known \in [Procs -> SUBSET SignedHash]
        /\ buf \in [Procs -> SUBSET IntentSig]
        /\ bufNotary \in [Procs -> SUBSET NotarySig]
        /\ trail \in [Procs -> SUBSET Attempt]
    BY DEF Init
  <2>3. notaryHash \in SignedHash /\ status \in Answers
    BY DEF Init, SignedHash, Answers
  <2>4. answers \in 0 .. MaxAnswers
    BY ConstantsAssumption DEF Init, ConstantsAssumption
  <2> QED BY <2>1, <2>2, <2>3, <2>4 DEF Init, TypeOK
<1>2. TypeOK /\ [Next]_vars => TypeOK'
  <2> SUFFICES ASSUME TypeOK, [Next]_vars PROVE TypeOK'
    OBVIOUS
  <2>1. ASSUME NEW p \in Procs, Crash(p) PROVE TypeOK'
    BY <2>1, EndType DEF Crash, TypeOK, files, network
  <2>2. CASE Commit
    BY <2>2 DEF Commit, TypeOK, files, locals
  <2>3. CASE UNCHANGED vars
    BY <2>3 DEF vars, files, locals, network, TypeOK
  <2> QED
    BY <2>1, <2>2, <2>3, PrepareType, AddSignaturesType, NotarizeType,
       SubmitType, StatusType, RecordType DEF Next
<1> QED BY <1>1, <1>2, PTL DEF Spec

-----------------------------------------------------------------------------
(* The directory.  Until `tx prepare` has claimed it there is nothing in   *)
(* it, and no process is inside a command.                                 *)
DirectoryInv ==
    ~dir =>
        /\ reqFiles = {}
        /\ \A f \in Files : file[f] = "absent"
        /\ \A p \in Procs : pc[p] = "idle"

(* A step of a process either claims the directory or finds it claimed.    *)
LEMMA StepInDirectory ==
    ASSUME TypeOK, DirectoryInv, NEW p \in Procs,
           \/ Prepare(p) \/ AddSignatures(p) \/ Notarize(p)
           \/ Submit(p) \/ Status(p) \/ Record(p) \/ Crash(p)
    PROVE  dir' = TRUE
<1> USE DEF files, locals, network, DirectoryInv, TypeOK
<1>1. "prepared" \in Files
  BY DEF Files
<1>2. CASE Prepare(p)
  BY <1>2 DEF Prepare, PrepareMkdir, PrepareRequest, PrepareOpen, PrepareFill
<1>3. CASE AddSignatures(p)
  BY <1>1, <1>3
  DEF AddSignatures, AddRead, AddImport, AddRefuse, AddOpen, AddFill,
      RequestsReadable, Readable
<1>4. CASE Notarize(p)
  BY <1>1, <1>4
  DEF Notarize, NotarizeRead, NotarizePreviewFails, NotarizePreviewSucceeds,
      NotarizeOpenRequest, NotarizeFillRequest, NotarizeOpenPrepared,
      NotarizeFillPrepared, RequestsReadable, Readable
<1>5. CASE Submit(p)
  BY <1>1, <1>5
  DEF Submit, SubmitCheck, SubmitRead, SubmitNotReady, SubmitHex, SubmitSend,
      SubmitSendFails, SubmitPoll, SubmitPollFails, ArtifactFound
<1>6. CASE Status(p)
  BY <1>1, <1>6 DEF Status, StatusQuery, StatusRead, ArtifactFound
<1>7. CASE Record(p) \/ Crash(p)
  BY <1>7 DEF Record, RecordOpen, RecordFill, Crash
<1> QED BY <1>2, <1>3, <1>4, <1>5, <1>6, <1>7

LEMMA DirectoryStep == TypeOK /\ DirectoryInv /\ [Next]_vars => DirectoryInv'
<1> SUFFICES ASSUME TypeOK, DirectoryInv, [Next]_vars PROVE DirectoryInv'
  OBVIOUS
<1>1. CASE Commit \/ UNCHANGED vars
  BY <1>1 DEF Commit, vars, files, locals, network, DirectoryInv
<1>2. CASE \E p \in Procs :
        \/ Prepare(p) \/ AddSignatures(p) \/ Notarize(p)
        \/ Submit(p) \/ Status(p) \/ Record(p) \/ Crash(p)
  BY <1>2, StepInDirectory DEF DirectoryInv
<1> QED BY <1>1, <1>2 DEF Next

LEMMA DirectoryCorrect == Spec => []DirectoryInv
<1>1. Init => DirectoryInv
  BY DEF Init, DirectoryInv
<1> QED BY <1>1, DirectoryStep, TypeCorrect, PTL DEF Spec

(* A preparation starts in an empty directory with nobody preparing: the   *)
(* mkdir of prepare.ts decides between two preparations, however they      *)
(* interleave, and a preparation that stopped half-way keeps its claim.    *)
THEOREM FreshPreparation == Spec => PrepareStartsFresh
<1>1. TypeOK /\ DirectoryInv /\ [Next]_vars =>
        [\A p \in Procs :
            pc[p] = "idle" /\ pc'[p] = "prepareRequests" =>
                /\ reqFiles = {}
                /\ \A f \in Files : file[f] = "absent"
                /\ \A q \in Procs :
                        pc[q] \notin {"prepareRequests", "prepareFill"}]_vars
  <2> SUFFICES ASSUME TypeOK, DirectoryInv, Next,
                      NEW p \in Procs, pc[p] = "idle",
                      pc'[p] = "prepareRequests"
               PROVE  ~dir
    BY DEF DirectoryInv
  <2> USE DEF TypeOK, Goto, End, Return, files, locals, network
  <2>1. PICK q \in Procs :
          \/ Prepare(q) \/ AddSignatures(q) \/ Notarize(q)
          \/ Submit(q) \/ Status(q) \/ Record(q) \/ Crash(q)
    BY DEF Next, Commit
  <2>2. CASE Prepare(q)
    BY <2>2 DEF Prepare, PrepareMkdir, PrepareRequest, PrepareOpen, PrepareFill
  <2>3. CASE AddSignatures(q)
    BY <2>3
    DEF AddSignatures, AddRead, AddImport, AddRefuse, AddOpen, AddFill
  <2>4. CASE Notarize(q)
    BY <2>4
    DEF Notarize, NotarizeRead, NotarizePreviewFails, NotarizePreviewSucceeds,
        NotarizeOpenRequest, NotarizeFillRequest, NotarizeOpenPrepared,
        NotarizeFillPrepared
  <2>5. CASE Submit(q)
    BY <2>5
    DEF Submit, SubmitCheck, SubmitRead, SubmitNotReady, SubmitHex,
        SubmitSend, SubmitSendFails, SubmitPoll, SubmitPollFails
  <2>6. CASE Status(q) \/ Record(q) \/ Crash(q)
    BY <2>6 DEF Status, StatusQuery, StatusRead, Record, RecordOpen,
                RecordFill, Crash
  <2> QED BY <2>1, <2>2, <2>3, <2>4, <2>5, <2>6
<1> QED BY <1>1, TypeCorrect, DirectoryCorrect, PTL DEF Spec, PrepareStartsFresh

-----------------------------------------------------------------------------
(* prepared.json.  A process about to fill it in has the files that it     *)
(* will list behind it: the requests, and for `tx notarize` also the       *)
(* request for the notary.                                                 *)
AfterRequests == {"prepareFill",
                  "notarizePreview", "notarizeOpenRequest",
                  "notarizeFillRequest", "notarizeOpenPrepared",
                  "notarizeFillPrepared"}
AfterNotaryRequest == {"notarizeFillRequest", "notarizeOpenPrepared",
                       "notarizeFillPrepared"}

PreparedInv ==
    /\ PreparedIsComplete
    /\ \A p \in Procs : pc[p] \in AfterRequests => reqFiles = Reqs
    /\ \A p \in Procs : pc[p] \in AfterNotaryRequest => file["notary"] # "absent"

(* The commands that write none of the files that PreparedInv is about, or *)
(* only end: they move p outside AfterRequests.                            *)
LEMMA PreparedUntouched ==
    ASSUME TypeOK, PreparedInv, NEW p \in Procs,
           dir' = dir, reqFiles' = reqFiles, notaryListed' = notaryListed,
           file'["prepared"] = file["prepared"],
           file'["notary"] = file["notary"],
           NEW l \in PCs \ AfterRequests, Goto(p, l)
    PROVE  PreparedInv'
BY DEF TypeOK, PreparedInv, PreparedIsComplete, Readable, Goto,
       AfterRequests, AfterNotaryRequest

LEMMA PreparedPrepare ==
    ASSUME TypeOK, PreparedInv, NEW p \in Procs, Prepare(p), dir' = TRUE
    PROVE  PreparedInv'
<1> USE DEF TypeOK, PreparedInv, PreparedIsComplete, Readable, Files,
            AfterRequests, AfterNotaryRequest, Goto, files, locals, network
<1>1. CASE PrepareMkdir(p)
  BY <1>1 DEF PrepareMkdir
<1>2. CASE PrepareRequest(p)
  BY <1>2 DEF PrepareRequest
<1>3. CASE PrepareOpen(p)
  BY <1>3 DEF PrepareOpen, Open
<1>4. CASE PrepareFill(p)
  BY <1>4 DEF PrepareFill, Fill, End, Return
<1> QED BY <1>1, <1>2, <1>3, <1>4 DEF Prepare

LEMMA PreparedNotarize ==
    ASSUME TypeOK, PreparedInv, NEW p \in Procs, Notarize(p), dir' = TRUE
    PROVE  PreparedInv'
<1> USE DEF TypeOK, PreparedInv, PreparedIsComplete, Readable, Files,
            AfterRequests, AfterNotaryRequest, Goto, files, locals, network
<1>1. CASE NotarizeRead(p)
  BY <1>1 DEF NotarizeRead, RequestsReadable
<1>2. CASE NotarizePreviewFails(p)
  BY <1>2 DEF NotarizePreviewFails, End, Return
<1>3. CASE NotarizePreviewSucceeds(p)
  BY <1>3 DEF NotarizePreviewSucceeds
<1>4. CASE NotarizeOpenRequest(p)
  BY <1>4 DEF NotarizeOpenRequest, Open
<1>5. CASE NotarizeFillRequest(p)
  BY <1>5 DEF NotarizeFillRequest, Fill
<1>6. CASE NotarizeOpenPrepared(p)
  BY <1>6 DEF NotarizeOpenPrepared, Open
<1>7. CASE NotarizeFillPrepared(p)
  BY <1>7 DEF NotarizeFillPrepared, Fill, End, Return
<1> QED BY <1>1, <1>2, <1>3, <1>4, <1>5, <1>6, <1>7 DEF Notarize

(* Every other command leaves prepared.json and what it lists alone.       *)
LEMMA PreparedOthers ==
    ASSUME TypeOK, PreparedInv, NEW p \in Procs,
           \/ AddSignatures(p) \/ Submit(p)
           \/ Status(p) \/ Record(p) \/ Crash(p)
    PROVE  PreparedInv'
<1> DEFINE Moves == \E l \in PCs \ AfterRequests : Goto(p, l)
<1> USE DEF TypeOK, PCs, AfterRequests, Files, Open, Fill, End, Return,
            files, locals, network
<1> SUFFICES /\ dir' = dir /\ reqFiles' = reqFiles
             /\ notaryListed' = notaryListed
             /\ file'["prepared"] = file["prepared"]
             /\ file'["notary"] = file["notary"]
             /\ Moves
  BY PreparedUntouched
<1>1. CASE AddSignatures(p)
  BY <1>1
  DEF AddSignatures, AddRead, AddImport, AddRefuse, AddOpen, AddFill
<1>2. CASE Submit(p)
  BY <1>2
  DEF Submit, SubmitCheck, SubmitRead, SubmitNotReady, SubmitHex, SubmitSend,
      SubmitSendFails, SubmitPoll, SubmitPollFails
<1>3. CASE Status(p)
  BY <1>3 DEF Status, StatusQuery, StatusRead
<1>4. CASE Record(p) \/ Crash(p)
  BY <1>4 DEF Record, RecordOpen, RecordFill, Crash
<1> QED BY <1>1, <1>2, <1>3, <1>4

(* A prepared.json that parses lists only files that exist, at every point *)
(* of every interleaving and after every crash.                            *)
THEOREM PreparedCorrect == Spec => []PreparedIsComplete
<1>1. Init => PreparedInv
  BY DEF Init, PreparedInv, PreparedIsComplete, Readable, Files,
         AfterRequests, AfterNotaryRequest
<1>2. TypeOK /\ DirectoryInv /\ PreparedInv /\ [Next]_vars => PreparedInv'
  <2> SUFFICES ASSUME TypeOK, DirectoryInv, PreparedInv, [Next]_vars
               PROVE  PreparedInv'
    OBVIOUS
  <2>1. CASE Commit \/ UNCHANGED vars
    BY <2>1 DEF Commit, vars, files, locals, network, PreparedInv,
                PreparedIsComplete, Readable
  <2>2. CASE \E p \in Procs :
          \/ Prepare(p) \/ AddSignatures(p) \/ Notarize(p)
          \/ Submit(p) \/ Status(p) \/ Record(p) \/ Crash(p)
    BY <2>2, StepInDirectory, PreparedPrepare, PreparedNotarize, PreparedOthers
  <2> QED BY <2>1, <2>2 DEF Next
<1>3. PreparedInv => PreparedIsComplete
  BY DEF PreparedInv
<1> QED BY <1>1, <1>2, <1>3, TypeCorrect, DirectoryCorrect, PTL DEF Spec

-----------------------------------------------------------------------------
(* Signatures.  Between the check of an entry and its use lie other        *)
(* processes' steps, so what a process carries must satisfy on its own     *)
(* what the files satisfied when it was read.                              *)
Checked(sigs) == \A s \in sigs : s.req \in Reqs /\ Verifies(s)
NotaryChecked(sigs) == \A n \in sigs : n.hash \in published /\ Verifies(n)

CarryingComplete == {"notarizePreview", "notarizeOpenRequest",
                     "notarizeFillRequest", "submitHex", "submitSend"}

SignaturesInv ==
    /\ StoredSignaturesAnswerRequests
    /\ NotaryOnlySeesAnsweredIntents
    /\ BroadcastIsAuthorized
    /\ \A p \in Procs : Checked(buf[p]) /\ NotaryChecked(bufNotary[p])
    /\ \A p \in Procs : pc[p] \in CarryingComplete => Complete(buf[p])

(* p moves on with checked entries, complete ones if it is bound to        *)
(* publish or broadcast them; what is published is never taken back.       *)
LEMMA CarryChecked ==
    ASSUME TypeOK, SignaturesInv, NEW p \in Procs,
           NEW sigs, NEW notes, NEW l,
           Checked(sigs), NotaryChecked(notes),
           l \in CarryingComplete => Complete(sigs),
           buf' = [buf EXCEPT ![p] = sigs],
           bufNotary' = [bufNotary EXCEPT ![p] = notes],
           pc' = [pc EXCEPT ![p] = l],
           published \subseteq published',
           StoredSignaturesAnswerRequests',
           NotaryOnlySeesAnsweredIntents',
           BroadcastIsAuthorized'
    PROVE  SignaturesInv'
<1>1. ASSUME NEW q \in Procs
      PROVE  Checked(buf[q])' /\ NotaryChecked(bufNotary[q])'
  <2>1. \/ buf'[q] = sigs /\ bufNotary'[q] = notes
        \/ buf'[q] = buf[q] /\ bufNotary'[q] = bufNotary[q]
    BY DEF TypeOK
  <2> QED BY <2>1 DEF SignaturesInv, Checked, NotaryChecked
<1>2. \A q \in Procs : pc'[q] \in CarryingComplete => Complete(buf'[q])
  BY DEF TypeOK, SignaturesInv
<1> QED BY <1>1, <1>2 DEF SignaturesInv, Complete

(* The same when nothing is stored, published or broadcast.                *)
LEMMA CarryOnly ==
    ASSUME TypeOK, SignaturesInv, NEW p \in Procs,
           NEW sigs, NEW notes, NEW l,
           Checked(sigs), NotaryChecked(notes),
           l \in CarryingComplete => Complete(sigs),
           buf' = [buf EXCEPT ![p] = sigs],
           bufNotary' = [bufNotary EXCEPT ![p] = notes],
           pc' = [pc EXCEPT ![p] = l],
           intentSigs' = intentSigs, notarySigs' = notarySigs,
           published' = published, sent' = sent
    PROVE  SignaturesInv'
<1>1. /\ StoredSignaturesAnswerRequests'
      /\ NotaryOnlySeesAnsweredIntents'
      /\ BroadcastIsAuthorized'
  BY DEF SignaturesInv, StoredSignaturesAnswerRequests,
         NotaryOnlySeesAnsweredIntents, BroadcastIsAuthorized
<1> QED BY <1>1, CarryChecked

(* A step that leaves every signature where it is.                         *)
LEMMA SignaturesUntouched ==
    ASSUME TypeOK, SignaturesInv, NEW p \in Procs, NEW l,
           l \in CarryingComplete => pc[p] \in CarryingComplete,
           Goto(p, l), buf' = buf, bufNotary' = bufNotary,
           intentSigs' = intentSigs, notarySigs' = notarySigs,
           published' = published, sent' = sent
    PROVE  SignaturesInv'
<1>1. /\ buf' = [buf EXCEPT ![p] = buf[p]]
      /\ bufNotary' = [bufNotary EXCEPT ![p] = bufNotary[p]]
  BY DEF TypeOK
<1>2. /\ Checked(buf[p]) /\ NotaryChecked(bufNotary[p])
      /\ l \in CarryingComplete => Complete(buf[p])
  BY DEF SignaturesInv
<1> QED BY <1>1, <1>2, CarryOnly DEF Goto

(* A process that ends its command without storing or broadcasting.        *)
LEMMA SignaturesEnd ==
    ASSUME TypeOK, SignaturesInv, NEW p \in Procs, End(p),
           intentSigs' = intentSigs, notarySigs' = notarySigs,
           published' = published, sent' = sent
    PROVE  SignaturesInv'
<1>1. Checked({}) /\ NotaryChecked({}) /\ "idle" \notin CarryingComplete
  BY DEF Checked, NotaryChecked, CarryingComplete
<1> QED BY <1>1, CarryOnly DEF End, Forget, Return, Goto

LEMMA SignaturesPrepare ==
    ASSUME TypeOK, SignaturesInv, NEW p \in Procs, Prepare(p)
    PROVE  SignaturesInv'
<1> USE DEF locals, network, CarryingComplete
<1>1. CASE PrepareMkdir(p)
  BY <1>1, SignaturesUntouched DEF PrepareMkdir
<1>2. CASE PrepareRequest(p)
  <2>1. Goto(p, pc[p])
    BY <1>2 DEF PrepareRequest, Goto, TypeOK
  <2> QED BY <1>2, <2>1, SignaturesUntouched DEF PrepareRequest
<1>3. CASE PrepareOpen(p)
  BY <1>3, SignaturesUntouched DEF PrepareOpen
<1>4. CASE PrepareFill(p)
  BY <1>4, SignaturesEnd DEF PrepareFill
<1> QED BY <1>1, <1>2, <1>3, <1>4 DEF Prepare

LEMMA SignaturesAdd ==
    ASSUME TypeOK, SignaturesInv, NEW p \in Procs, AddSignatures(p)
    PROVE  SignaturesInv'
<1> USE DEF files, locals, network, CarryingComplete
<1>1. CASE AddRead(p)
  BY <1>1, SignaturesUntouched DEF AddRead
<1>2. CASE AddImport(p)
  <2>1. PICK new \in AtMostTwo(IntentSig), newNotary \in AtMostOne(NotaryOffers) :
          /\ \A s \in new : AcceptsIntent(s)
          /\ \A n \in newNotary : AcceptsNotary(p, n)
          /\ buf' = [buf EXCEPT ![p] = Merge(ExistingIntent, new)]
          /\ bufNotary' = [bufNotary EXCEPT
                              ![p] = MergeNotary(ExistingNotary, newNotary)]
    BY <1>2 DEF AddImport
  <2>2. Checked(Merge(ExistingIntent, new))
    BY <2>1, MergeType
    DEF Checked, AcceptsIntent, ExistingIntent, SignaturesInv,
        StoredSignaturesAnswerRequests
  <2>3. \A n \in newNotary : n.hash \in published
    BY DEF AtMostOne, NotaryOffers
  <2>4. NotaryChecked(MergeNotary(ExistingNotary, newNotary))
    BY <2>1, <2>3, MergeType
    DEF NotaryChecked, AcceptsNotary, ExistingNotary, SignaturesInv,
        StoredSignaturesAnswerRequests
  <2> QED BY <1>2, <2>1, <2>2, <2>4, CarryOnly DEF AddImport, Goto
<1>3. CASE AddRefuse(p)
  BY <1>3, SignaturesEnd DEF AddRefuse
<1>4. CASE AddOpen(p)
  BY <1>4, SignaturesUntouched DEF AddOpen
<1>5. CASE AddFill(p)
  <2>1. Checked(buf[p]) /\ NotaryChecked(bufNotary[p])
    BY DEF SignaturesInv
  <2>2. /\ StoredSignaturesAnswerRequests'
        /\ NotaryOnlySeesAnsweredIntents'
        /\ BroadcastIsAuthorized'
    BY <1>5, <2>1
    DEF AddFill, Checked, NotaryChecked, SignaturesInv,
        StoredSignaturesAnswerRequests, NotaryOnlySeesAnsweredIntents,
        BroadcastIsAuthorized
  <2>3. Checked({}) /\ NotaryChecked({})
    BY DEF Checked, NotaryChecked
  <2> QED BY <1>5, <2>2, <2>3, CarryChecked DEF AddFill, End, Forget, Return, Goto
<1> QED BY <1>1, <1>2, <1>3, <1>4, <1>5 DEF AddSignatures

LEMMA SignaturesNotarize ==
    ASSUME TypeOK, SignaturesInv, NEW p \in Procs, Notarize(p)
    PROVE  SignaturesInv'
<1> USE DEF files, locals, network, CarryingComplete
<1>1. CASE NotarizeRead(p)
  <2>1. Checked(ExistingIntent)
    BY DEF Checked, ExistingIntent, SignaturesInv,
           StoredSignaturesAnswerRequests
  <2>2. /\ NotaryChecked(bufNotary[p])
        /\ bufNotary' = [bufNotary EXCEPT ![p] = bufNotary[p]]
    BY <1>1 DEF NotarizeRead, SignaturesInv, TypeOK
  <2> QED BY <1>1, <2>1, <2>2, CarryOnly DEF NotarizeRead, Goto
<1>2. CASE NotarizePreviewFails(p)
  BY <1>2, SignaturesEnd DEF NotarizePreviewFails
<1>3. CASE NotarizePreviewSucceeds(p)
  BY <1>3, SignaturesUntouched DEF NotarizePreviewSucceeds
<1>4. CASE NotarizeOpenRequest(p)
  BY <1>4, SignaturesUntouched DEF NotarizeOpenRequest
<1>5. CASE NotarizeFillRequest(p)
  <2>1. Answered(buf[p])
    BY <1>5 DEF NotarizeFillRequest, SignaturesInv, Checked, Answered
  <2>2. /\ StoredSignaturesAnswerRequests'
        /\ NotaryOnlySeesAnsweredIntents'
        /\ BroadcastIsAuthorized'
    BY <1>5, <2>1
    DEF NotarizeFillRequest, SignaturesInv, StoredSignaturesAnswerRequests,
        NotaryOnlySeesAnsweredIntents, BroadcastIsAuthorized
  <2>3. /\ buf' = [buf EXCEPT ![p] = buf[p]]
        /\ bufNotary' = [bufNotary EXCEPT ![p] = bufNotary[p]]
    BY <1>5 DEF NotarizeFillRequest, TypeOK
  <2>4. Checked(buf[p]) /\ NotaryChecked(bufNotary[p])
    BY DEF SignaturesInv
  <2> QED BY <1>5, <2>2, <2>3, <2>4, CarryChecked DEF NotarizeFillRequest, Goto
<1>6. CASE NotarizeOpenPrepared(p)
  BY <1>6, SignaturesUntouched DEF NotarizeOpenPrepared
<1>7. CASE NotarizeFillPrepared(p)
  BY <1>7, SignaturesEnd DEF NotarizeFillPrepared
<1> QED BY <1>1, <1>2, <1>3, <1>4, <1>5, <1>6, <1>7 DEF Notarize

LEMMA SignaturesSubmit ==
    ASSUME TypeOK, SignaturesInv, NEW p \in Procs, Submit(p)
    PROVE  SignaturesInv'
<1> USE DEF files, locals, network, CarryingComplete
<1>1. CASE SubmitCheck(p)
  BY <1>1, SignaturesUntouched DEF SubmitCheck
<1>2. CASE SubmitRead(p)
  <2>1. PICK n \in notarySigs : bufNotary' = [bufNotary EXCEPT ![p] = {n}]
    BY <1>2 DEF SubmitRead
  <2>2. Checked(intentSigs) /\ NotaryChecked({n})
    BY DEF Checked, NotaryChecked, SignaturesInv,
           StoredSignaturesAnswerRequests
  <2>3. Complete(intentSigs)
    BY <1>2 DEF SubmitRead, SubmitReady
  <2> QED BY <1>2, <2>1, <2>2, <2>3, CarryOnly DEF SubmitRead, Goto
<1>3. CASE SubmitNotReady(p)
  BY <1>3, SignaturesEnd DEF SubmitNotReady
<1>4. CASE SubmitHex(p)
  BY <1>4, SignaturesUntouched DEF SubmitHex
<1>5. ASSUME pc[p] = "submitSend", Broadcast(p) \/ sent' = sent,
             published' = published
      PROVE  BroadcastIsAuthorized'
  <2>1. /\ Answered(buf[p])
        /\ \A n \in bufNotary[p] : n.hash \in published /\ Verifies(n)
    BY <1>5 DEF SignaturesInv, Checked, NotaryChecked, Answered
  <2>2. \A t \in sent' \ sent :
          /\ t.intent = buf[p]
          /\ t.notary \in bufNotary[p]
    BY <1>5 DEF Broadcast
  <2> QED BY <1>5, <2>1, <2>2 DEF SignaturesInv, BroadcastIsAuthorized
<1>6. CASE SubmitSend(p)
  <2>1. /\ StoredSignaturesAnswerRequests'
        /\ NotaryOnlySeesAnsweredIntents'
        /\ BroadcastIsAuthorized'
    BY <1>5, <1>6
    DEF SubmitSend, SignaturesInv, StoredSignaturesAnswerRequests,
        NotaryOnlySeesAnsweredIntents
  <2>2. /\ buf' = [buf EXCEPT ![p] = buf[p]]
        /\ bufNotary' = [bufNotary EXCEPT ![p] = bufNotary[p]]
    BY <1>6 DEF SubmitSend, TypeOK
  <2>3. Checked(buf[p]) /\ NotaryChecked(bufNotary[p])
    BY DEF SignaturesInv
  <2> QED BY <1>6, <2>1, <2>2, <2>3, CarryChecked DEF SubmitSend, Goto
<1>7. CASE SubmitSendFails(p)
  <2>1. /\ StoredSignaturesAnswerRequests'
        /\ NotaryOnlySeesAnsweredIntents'
        /\ BroadcastIsAuthorized'
    BY <1>5, <1>7
    DEF SubmitSendFails, SignaturesInv, StoredSignaturesAnswerRequests,
        NotaryOnlySeesAnsweredIntents
  <2>2. Checked({}) /\ NotaryChecked({})
    BY DEF Checked, NotaryChecked
  <2> QED
    BY <1>7, <2>1, <2>2, CarryChecked
    DEF SubmitSendFails, End, Forget, Return, Goto
<1>8. CASE SubmitPoll(p)
  BY <1>8, SignaturesUntouched DEF SubmitPoll
<1>9. CASE SubmitPollFails(p)
  BY <1>9, SignaturesEnd DEF SubmitPollFails
<1> QED
  BY <1>1, <1>2, <1>3, <1>4, <1>6, <1>7, <1>8, <1>9 DEF Submit

LEMMA SignaturesStep == TypeOK /\ SignaturesInv /\ [Next]_vars => SignaturesInv'
<1> SUFFICES ASSUME TypeOK, SignaturesInv, [Next]_vars PROVE SignaturesInv'
  OBVIOUS
<1> USE DEF files, locals, network, CarryingComplete
<1>1. ASSUME NEW p \in Procs, Status(p) PROVE SignaturesInv'
  BY <1>1, SignaturesUntouched DEF Status, StatusQuery, StatusRead
<1>2. ASSUME NEW p \in Procs, Record(p) PROVE SignaturesInv'
  <2>1. CASE RecordOpen(p)
    BY <2>1, SignaturesUntouched DEF RecordOpen
  <2>2. CASE RecordFill(p)
    BY <2>2, SignaturesEnd DEF RecordFill
  <2> QED BY <1>2, <2>1, <2>2 DEF Record
<1>3. ASSUME NEW p \in Procs, Crash(p) PROVE SignaturesInv'
  BY <1>3, SignaturesEnd DEF Crash
<1>4. CASE Commit \/ UNCHANGED vars
  BY <1>4
  DEF Commit, vars, SignaturesInv, StoredSignaturesAnswerRequests,
      NotaryOnlySeesAnsweredIntents, BroadcastIsAuthorized, NotaryChecked
<1> QED
  BY <1>1, <1>2, <1>3, <1>4, SignaturesPrepare, SignaturesAdd,
     SignaturesNotarize, SignaturesSubmit DEF Next

LEMMA SignaturesCorrect == Spec => []SignaturesInv
<1>1. Init => SignaturesInv
  BY DEF Init, SignaturesInv, StoredSignaturesAnswerRequests,
         NotaryOnlySeesAnsweredIntents, BroadcastIsAuthorized, Checked,
         NotaryChecked, CarryingComplete
<1> QED BY <1>1, SignaturesStep, TypeCorrect, PTL DEF Spec

(* The notary is only ever asked to sign answered intents, whatever other  *)
(* processes do to signatures.json between `tx notarize` reading it and    *)
(* publishing the hash.                                                    *)
THEOREM NotaryCorrect == Spec => []NotaryOnlySeesAnsweredIntents
BY SignaturesCorrect, PTL DEF SignaturesInv

(* signatures.json holds only verified answers to this transaction.        *)
THEOREM StoreCorrect == Spec => []StoredSignaturesAnswerRequests
BY SignaturesCorrect, PTL DEF SignaturesInv

(* Whatever is broadcast is answered, and carries a notary signature over  *)
(* an intent that was answered too.                                        *)
THEOREM BroadcastCorrect == Spec => []BroadcastIsAuthorized
BY SignaturesCorrect, PTL DEF SignaturesInv

-----------------------------------------------------------------------------
(* The record.  An answer travels from the Gateway to submitResult.json in *)
(* a process; the ledger may move meanwhile, but never back.               *)
Holds(s) == s \in Committed => ledger = s
TrailHolds(as) == \A a \in as : Holds(a.status)

RecordInv ==
    /\ Holds(status) /\ TrailHolds(attempts)
    /\ \A p \in Procs : Holds(answer[p]) /\ TrailHolds(trail[p])

(* p carries a true answer and true attempts; the record and the ledger    *)
(* stay as they are.                                                       *)
LEMMA RecordCarry ==
    ASSUME TypeOK, RecordInv, NEW p \in Procs, NEW s, NEW as,
           Holds(s), TrailHolds(as),
           answer' = [answer EXCEPT ![p] = s],
           trail' = [trail EXCEPT ![p] = as],
           Holds(status'), TrailHolds(attempts'), ledger' = ledger
    PROVE  RecordInv'
<1>1. ASSUME NEW q \in Procs
      PROVE  (Holds(answer[q]) /\ TrailHolds(trail[q]))'
  <2>1. \/ answer'[q] = s /\ trail'[q] = as
        \/ answer'[q] = answer[q] /\ trail'[q] = trail[q]
    BY DEF TypeOK
  <2> QED BY <2>1 DEF RecordInv, Holds, TrailHolds
<1> QED BY <1>1 DEF RecordInv, Holds, TrailHolds

LEMMA RecordUntouched ==
    ASSUME RecordInv, UNCHANGED <<status, attempts, answer, trail, ledger>>
    PROVE  RecordInv'
BY DEF RecordInv, Holds, TrailHolds

(* The end of a command, which may store what it carried.                  *)
LEMMA RecordEnd ==
    ASSUME TypeOK, RecordInv, NEW p \in Procs, End(p), ledger' = ledger,
           \/ status' = status /\ attempts' = attempts
           \/ status' = answer[p] /\ attempts' = trail[p]
    PROVE  RecordInv'
<1>1. Holds("Unknown") /\ TrailHolds({})
  BY DEF Holds, TrailHolds, Committed
<1>2. Holds(status') /\ TrailHolds(attempts')
  BY DEF RecordInv
<1> QED BY <1>1, <1>2, RecordCarry DEF End, Forget

(* The Gateway only tells of the commits that the ledger has.              *)
LEMMA RecordTakeAnswer ==
    ASSUME TypeOK, RecordInv, NEW p \in Procs, TakeAnswer(p),
           UNCHANGED <<status, attempts, ledger>>
    PROVE  RecordInv'
<1>1. PICK s \in GatewayAnswers :
        /\ answer' = [answer EXCEPT ![p] = s]
        /\ trail' = [trail EXCEPT
                        ![p] = trail[p] \cup {[id |-> answers + 1, status |-> s]}]
  BY DEF TakeAnswer
<1>2. Holds(s)
  BY DEF Holds, GatewayAnswers, Committed
<1>3. TrailHolds(trail[p] \cup {[id |-> answers + 1, status |-> s]})
  BY <1>2 DEF RecordInv, TrailHolds
<1>4. Holds(status') /\ TrailHolds(attempts')
  BY DEF RecordInv
<1> QED BY <1>1, <1>2, <1>3, <1>4, RecordCarry

LEMMA RecordSubmit ==
    ASSUME TypeOK, RecordInv, NEW p \in Procs, Submit(p)
    PROVE  RecordInv'
<1> USE DEF files, locals, network
<1>1. CASE SubmitCheck(p)
  <2>1. TrailHolds(ExistingAttempts)
    BY DEF ExistingAttempts, RecordInv, TrailHolds
  <2>2. /\ answer' = [answer EXCEPT ![p] = answer[p]]
        /\ Holds(answer[p]) /\ Holds(status') /\ TrailHolds(attempts')
    BY <1>1 DEF SubmitCheck, RecordInv, TypeOK
  <2> QED BY <1>1, <2>1, <2>2, RecordCarry DEF SubmitCheck
<1>2. CASE SubmitRead(p) \/ SubmitHex(p)
  BY <1>2, RecordUntouched DEF SubmitRead, SubmitHex
<1>3. CASE SubmitNotReady(p) \/ SubmitSendFails(p) \/ SubmitPollFails(p)
  BY <1>3, RecordEnd DEF SubmitNotReady, SubmitSendFails, SubmitPollFails
<1>4. CASE SubmitSend(p)
  <2> DEFINE as == trail[p] \cup {[id |-> answers + 1, status |-> "Submitted"]}
  <2>1. TrailHolds(as)
    BY DEF RecordInv, TrailHolds, Holds, Committed
  <2>2. /\ answer' = [answer EXCEPT ![p] = answer[p]]
        /\ trail' = [trail EXCEPT ![p] = as]
        /\ Holds(answer[p]) /\ Holds(status') /\ TrailHolds(attempts')
    BY <1>4 DEF SubmitSend, RecordInv, TypeOK
  <2> HIDE DEF as
  <2> QED BY <1>4, <2>1, <2>2, RecordCarry DEF SubmitSend
<1>5. CASE SubmitPoll(p)
  BY <1>5, RecordTakeAnswer DEF SubmitPoll
<1> QED BY <1>1, <1>2, <1>3, <1>4, <1>5 DEF Submit

LEMMA RecordStatus ==
    ASSUME TypeOK, RecordInv, NEW p \in Procs, Status(p) \/ Record(p)
    PROVE  RecordInv'
<1> USE DEF files, locals, network
<1>1. CASE StatusQuery(p)
  BY <1>1, RecordTakeAnswer DEF StatusQuery
<1>2. CASE StatusRead(p)
  <2> DEFINE as == ExistingAttempts \cup trail[p]
  <2>1. TrailHolds(as)
    BY DEF ExistingAttempts, RecordInv, TrailHolds
  <2>2. /\ answer' = [answer EXCEPT ![p] = answer[p]]
        /\ trail' = [trail EXCEPT ![p] = as]
        /\ Holds(answer[p]) /\ Holds(status') /\ TrailHolds(attempts')
    BY <1>2 DEF StatusRead, RecordInv, TypeOK
  <2> HIDE DEF as
  <2> QED BY <1>2, <2>1, <2>2, RecordCarry DEF StatusRead
<1>3. CASE RecordOpen(p)
  BY <1>3, RecordUntouched DEF RecordOpen
<1>4. CASE RecordFill(p)
  BY <1>4, RecordEnd DEF RecordFill
<1> QED BY <1>1, <1>2, <1>3, <1>4 DEF Status, Record

(* The commands that neither ask the Gateway nor write the record.         *)
LEMMA RecordOthers ==
    ASSUME TypeOK, RecordInv, NEW p \in Procs,
           Prepare(p) \/ AddSignatures(p) \/ Notarize(p) \/ Crash(p)
    PROVE  RecordInv'
<1> USE DEF files, locals, network
<1>1. CASE Prepare(p)
  BY <1>1, RecordUntouched, RecordEnd
  DEF Prepare, PrepareMkdir, PrepareRequest, PrepareOpen, PrepareFill
<1>2. CASE AddSignatures(p)
  BY <1>2, RecordUntouched, RecordEnd
  DEF AddSignatures, AddRead, AddImport, AddRefuse, AddOpen, AddFill
<1>3. CASE Notarize(p)
  BY <1>3, RecordUntouched, RecordEnd
  DEF Notarize, NotarizeRead, NotarizePreviewFails, NotarizePreviewSucceeds,
      NotarizeOpenRequest, NotarizeFillRequest, NotarizeOpenPrepared,
      NotarizeFillPrepared
<1>4. CASE Crash(p)
  BY <1>4, RecordEnd DEF Crash
<1> QED BY <1>1, <1>2, <1>3, <1>4

LEMMA RecordInvCorrect == Spec => []RecordInv
<1>1. Init => RecordInv
  BY DEF Init, RecordInv, Holds, TrailHolds, Committed
<1>2. TypeOK /\ RecordInv /\ [Next]_vars => RecordInv'
  <2> SUFFICES ASSUME TypeOK, RecordInv, [Next]_vars PROVE RecordInv'
    OBVIOUS
  <2>1. CASE Commit
    <3>1. "none" \notin Committed
      BY DEF Committed
    <3>2. ~(status \in Committed) /\ \A a \in attempts : a.status \notin Committed
      BY <2>1, <3>1 DEF Commit, RecordInv, Holds, TrailHolds
    <3>3. \A p \in Procs :
            /\ answer[p] \notin Committed
            /\ \A a \in trail[p] : a.status \notin Committed
      BY <2>1, <3>1 DEF Commit, RecordInv, Holds, TrailHolds
    <3> QED
      BY <2>1, <3>2, <3>3
      DEF Commit, files, locals, RecordInv, Holds, TrailHolds
  <2>2. CASE UNCHANGED vars
    BY <2>2, RecordUntouched DEF vars, files, locals, network
  <2> QED
    BY <2>1, <2>2, RecordSubmit, RecordStatus, RecordOthers DEF Next
<1> QED BY <1>1, <1>2, TypeCorrect, PTL DEF Spec

(* submitResult.json never claims a commit that the ledger does not have.  *)
THEOREM RecordCorrect == Spec => []RecordIsTrue
<1>1. RecordInv => RecordIsTrue
  BY DEF RecordInv, RecordIsTrue, Holds, TrailHolds
<1> QED BY <1>1, RecordInvCorrect, PTL

-----------------------------------------------------------------------------
(* The promise.  The invariants say of every state what the promise says   *)
(* of the step that leads to it; each command takes at most one such step. *)

(* A step that shows nothing of itself outside.                            *)
Unseen == UNCHANGED <<published, sent, ledger, status, attempts>>

LEMMA UnseenStep ==
    ASSUME Unseen
    PROVE  UNCHANGED Authority!vars
BY DEF Unseen, Authority!vars, Claims

(* What is broadcast is complete, checked and carries an offered hash.     *)
LEMMA BroadcastKept ==
    ASSUME TypeOK, SignaturesInv, NEW p \in Procs, pc[p] = "submitSend",
           Broadcast(p), UNCHANGED <<published, ledger, status, attempts>>
    PROVE  Authority!Broadcast
<1>1. PICK n \in bufNotary[p] :
        sent' = sent \cup {[intent |-> buf[p], notary |-> n]}
  BY DEF Broadcast
<1>2. Answered(buf[p]) /\ buf[p] \in SignedHash
  BY DEF SignaturesInv, Checked, CarryingComplete, Answered, TypeOK, SignedHash
<1>3. n.hash \in published
  BY DEF SignaturesInv, NotaryChecked
<1>4. {<<t.intent, t.notary.hash>> : t \in sent'}
        = {<<t.intent, t.notary.hash>> : t \in sent} \cup {<<buf[p], n.hash>>}
  <2> DEFINE new == [intent |-> buf[p], notary |-> n]
  <2>1. new.intent = buf[p] /\ new.notary.hash = n.hash
    OBVIOUS
  <2>2. sent' = sent \cup {new}
    BY <1>1
  <2> HIDE DEF new
  <2> QED BY <2>1, <2>2, Zenon
<1> QED BY <1>2, <1>3, <1>4 DEF Authority!Broadcast, Claims

LEMMA OfferKept ==
    ASSUME TypeOK, SignaturesInv, NEW p \in Procs, NotarizeFillRequest(p)
    PROVE  Authority!Offer
<1>1. Answered(buf[p]) /\ buf[p] \in SignedHash
  BY DEF NotarizeFillRequest, SignaturesInv, Checked, CarryingComplete, Answered,
         TypeOK, SignedHash
<1> QED BY <1>1 DEF NotarizeFillRequest, Authority!Offer, Claims, locals

LEMMA RecordKept ==
    ASSUME TypeOK, RecordInv, NEW p \in Procs, RecordFill(p)
    PROVE  Authority!Claim
<1>1. Claims' \subseteq {ledger} \cap Committed
  BY DEF RecordFill, Claims, RecordInv, Holds, TrailHolds
<1> QED BY <1>1 DEF RecordFill, Authority!Claim, network

LEMMA CommitKept ==
    ASSUME TypeOK, SignaturesInv, Commit
    PROVE  Authority!Decide
<1>1. PICK t \in sent : WellNotarized(t)
  BY DEF Commit
<1>2. t.intent \in published
  BY <1>1 DEF WellNotarized, SignaturesInv, BroadcastIsAuthorized
<1>3. <<t.intent, t.intent>> \in {<<u.intent, u.notary.hash>> : u \in sent}
  BY <1>1 DEF WellNotarized
<1> QED BY <1>2, <1>3 DEF Commit, Authority!Decide, Claims, files

(* All commands together, with crashes at any point, implement             *)
(* AuthorizedTransaction.                                                  *)
THEOREM WorkflowKeepsAuthority == Spec => KeepsAuthority
<1>1. Init => Authority!Init
  BY DEF Init, Authority!Init, Claims, Committed
<1>2. TypeOK /\ SignaturesInv /\ RecordInv /\ [Next]_vars =>
        [Authority!Next]_(Authority!vars)
  <2> SUFFICES ASSUME TypeOK, SignaturesInv, RecordInv, [Next]_vars
               PROVE  [Authority!Next]_(Authority!vars)
    OBVIOUS
  <2> USE DEF files, locals, network, Unseen
  <2>1. ASSUME NEW p \in Procs, Prepare(p) \/ AddSignatures(p) \/ Status(p) \/ Crash(p)
        PROVE  Unseen
    BY <2>1
    DEF Prepare, PrepareMkdir, PrepareRequest, PrepareOpen, PrepareFill,
        AddSignatures, AddRead, AddImport, AddRefuse, AddOpen, AddFill,
        Status, StatusQuery, StatusRead, Crash
  <2>2. ASSUME NEW p \in Procs, Notarize(p)
        PROVE  Unseen \/ Authority!Offer
    BY <2>2, OfferKept
    DEF Notarize, NotarizeRead, NotarizePreviewFails, NotarizePreviewSucceeds,
        NotarizeOpenRequest, NotarizeOpenPrepared, NotarizeFillPrepared
  <2>3. ASSUME NEW p \in Procs, Submit(p)
        PROVE  Unseen \/ Authority!Broadcast
    BY <2>3, BroadcastKept
    DEF Submit, SubmitCheck, SubmitRead, SubmitNotReady, SubmitHex, SubmitSend,
        SubmitSendFails, SubmitPoll, SubmitPollFails
  <2>4. ASSUME NEW p \in Procs, Record(p)
        PROVE  Unseen \/ Authority!Claim
    BY <2>4, RecordKept DEF Record, RecordOpen
  <2>5. CASE UNCHANGED vars
    BY <2>5, UnseenStep DEF vars
  <2> QED
    BY <2>1, <2>2, <2>3, <2>4, <2>5, UnseenStep, CommitKept DEF Next, Authority!Next
<1> QED
  BY <1>1, <1>2, TypeCorrect, SignaturesCorrect, RecordInvCorrect, PTL
  DEF Spec, KeepsAuthority, Authority!Spec

-----------------------------------------------------------------------------
(* Commands that do not get in each other's way.  What an import or a      *)
(* recording carries contains what its file held when it was read; that    *)
(* nobody else writes the file meanwhile, and that it was not found cut    *)
(* off, makes it contain what the file holds when it is written.           *)
Writing == Recording \ {"statusRead"}

KeptInv ==
    /\ file["signatures"] = "absent" => intentSigs = {} /\ notarySigs = {}
    /\ file["result"] = "absent" => attempts = {}
    /\ \A p \in Procs : pc[p] \in Importing =>
            intentSigs \subseteq buf[p] /\ notarySigs \subseteq bufNotary[p]
    /\ \A p \in Procs : pc[p] \in Writing => attempts \subseteq trail[p]

(* p moves and carries enough; the files are neither filled nor removed.   *)
LEMMA KeptMove ==
    ASSUME TypeOK, KeptInv, NEW p \in Procs, NEW l, NEW sigs, NEW notes, NEW as,
           Goto(p, l),
           buf' = [buf EXCEPT ![p] = sigs],
           bufNotary' = [bufNotary EXCEPT ![p] = notes],
           trail' = [trail EXCEPT ![p] = as],
           l \in Importing => intentSigs \subseteq sigs /\ notarySigs \subseteq notes,
           l \in Writing => attempts \subseteq as,
           UNCHANGED <<intentSigs, notarySigs, attempts>>,
           file'["signatures"] = "absent" => file["signatures"] = "absent",
           file'["result"] = "absent" => file["result"] = "absent"
    PROVE  KeptInv'
<1>1. ASSUME NEW q \in Procs
      PROVE  /\ pc'[q] \in Importing =>
                    intentSigs \subseteq buf'[q] /\ notarySigs \subseteq bufNotary'[q]
             /\ pc'[q] \in Writing => attempts \subseteq trail'[q]
  <2>1. CASE q = p
    BY <2>1 DEF TypeOK, Goto
  <2>2. CASE q # p
    BY <2>2 DEF TypeOK, Goto, KeptInv
  <2> QED BY <2>1, <2>2
<1> QED BY <1>1 DEF KeptInv

(* The same when p carries on with what it has.                            *)
LEMMA KeptCarry ==
    ASSUME TypeOK, KeptInv, NEW p \in Procs, NEW l, Goto(p, l),
           UNCHANGED <<buf, bufNotary, trail, intentSigs, notarySigs, attempts>>,
           l \in Importing => pc[p] \in Importing,
           l \in Writing => pc[p] \in Writing,
           file'["signatures"] = "absent" => file["signatures"] = "absent",
           file'["result"] = "absent" => file["result"] = "absent"
    PROVE  KeptInv'
<1>1. /\ buf' = [buf EXCEPT ![p] = buf[p]]
      /\ bufNotary' = [bufNotary EXCEPT ![p] = bufNotary[p]]
      /\ trail' = [trail EXCEPT ![p] = trail[p]]
  BY DEF TypeOK
<1>2. /\ l \in Importing => intentSigs \subseteq buf[p] /\ notarySigs \subseteq bufNotary[p]
      /\ l \in Writing => attempts \subseteq trail[p]
  BY DEF KeptInv
<1> QED BY <1>1, <1>2, KeptMove

(* The same at the end of a command.                                       *)
LEMMA KeptEnd ==
    ASSUME TypeOK, KeptInv, NEW p \in Procs, End(p),
           UNCHANGED <<intentSigs, notarySigs, attempts>>,
           file'["signatures"] = "absent" => file["signatures"] = "absent",
           file'["result"] = "absent" => file["result"] = "absent"
    PROVE  KeptInv'
<1>1. "idle" \notin Importing /\ "idle" \notin Writing
  BY DEF Importing, Writing, Recording
<1> QED BY <1>1, KeptMove DEF End, Return, Forget

(* An import finds every stored entry, a recording every attempt: the file *)
(* was not cut off, and nobody is writing it.                              *)
LEMMA ImportFinds ==
    ASSUME TypeOK, KeptInv, Undisturbed, Undisturbed', NEW p \in Procs,
           pc[p] = "addImport", Goto(p, "addOpen")
    PROVE  ExistingIntent = intentSigs /\ ExistingNotary = notarySigs
<1>1. ~ \E q \in Procs : pc[q] = "addFill"
  <2> SUFFICES ASSUME NEW q \in Procs, pc[q] = "addFill" PROVE FALSE
    OBVIOUS
  <2>1. q # p /\ pc'[q] = "addFill" /\ pc'[p] = "addOpen"
    BY DEF TypeOK, Goto
  <2> QED BY <2>1 DEF Undisturbed, OneAt, Importing
<1>2. file["signatures"] # "torn" /\ file["signatures"] \in FileStates
  BY <1>1 DEF Undisturbed, NotCutOff, TypeOK, Files
<1> QED BY <1>2 DEF FileStates, KeptInv, ExistingIntent, ExistingNotary, Readable

LEMMA RecordingFinds ==
    ASSUME TypeOK, KeptInv, Undisturbed, Undisturbed', NEW p \in Procs,
           NEW l \in Recording, Goto(p, l), pc[p] # "recordFill"
    PROVE  ExistingAttempts = attempts
<1>1. ~ \E q \in Procs : pc[q] = "recordFill"
  <2> SUFFICES ASSUME NEW q \in Procs, pc[q] = "recordFill" PROVE FALSE
    OBVIOUS
  <2>1. q # p /\ pc'[q] = "recordFill" /\ pc'[p] = l
    BY DEF TypeOK, Goto
  <2> QED BY <2>1 DEF Undisturbed, OneAt, Recording
<1>2. file["result"] # "torn" /\ file["result"] \in FileStates
  BY <1>1 DEF Undisturbed, NotCutOff, TypeOK, Files
<1> QED BY <1>2 DEF FileStates, KeptInv, ExistingAttempts, Readable

(* Opening and filling a file never makes another one go away.             *)
LEMMA FilesStay ==
    ASSUME TypeOK, NEW f \in Files, Open(f) \/ Fill(f)
    PROVE  /\ file'["signatures"] = "absent" => file["signatures"] = "absent"
           /\ file'["result"] = "absent" => file["result"] = "absent"
BY DEF TypeOK, Open, Fill, Files

LEMMA KeptPrepare ==
    ASSUME TypeOK, KeptInv, NEW p \in Procs, Prepare(p)
    PROVE  KeptInv'
<1> USE DEF locals, network, Importing, Writing, Recording
<1>1. CASE PrepareMkdir(p)
  BY <1>1, KeptCarry DEF PrepareMkdir
<1>2. CASE PrepareRequest(p)
  BY <1>2 DEF PrepareRequest, KeptInv
<1>3. CASE PrepareOpen(p)
  BY <1>3, KeptCarry, FilesStay DEF PrepareOpen, Files
<1>4. CASE PrepareFill(p)
  BY <1>4, KeptEnd, FilesStay DEF PrepareFill, Files
<1> QED BY <1>1, <1>2, <1>3, <1>4 DEF Prepare

LEMMA KeptAdd ==
    ASSUME TypeOK, KeptInv, Undisturbed, Undisturbed', NEW p \in Procs,
           AddSignatures(p)
    PROVE  KeptInv'
<1> USE DEF files, locals, network, Importing, Writing, Recording
<1>1. CASE AddRead(p)
  BY <1>1, KeptCarry DEF AddRead
<1>2. CASE AddImport(p)
  <2>1. PICK new \in AtMostTwo(IntentSig), newNotary \in AtMostOne(NotaryOffers) :
          /\ buf' = [buf EXCEPT ![p] = Merge(ExistingIntent, new)]
          /\ bufNotary' = [bufNotary EXCEPT
                              ![p] = MergeNotary(ExistingNotary, newNotary)]
    BY <1>2 DEF AddImport
  <2>2. /\ intentSigs \subseteq Merge(ExistingIntent, new)
        /\ notarySigs \subseteq MergeNotary(ExistingNotary, newNotary)
    BY <1>2, ImportFinds, MergeType DEF AddImport
  <2>3. trail' = [trail EXCEPT ![p] = trail[p]]
    BY <1>2 DEF AddImport, TypeOK
  <2> QED BY <1>2, <2>1, <2>2, <2>3, KeptMove DEF AddImport
<1>3. CASE AddRefuse(p)
  BY <1>3, KeptEnd DEF AddRefuse
<1>4. CASE AddOpen(p)
  BY <1>4, KeptCarry, FilesStay DEF AddOpen, Files
<1>5. CASE AddFill(p)
  <2>1. \A q \in Procs : pc'[q] \notin Importing
    BY <1>5 DEF AddFill, End, Return, Goto, TypeOK, Undisturbed, OneAt
  <2>2. \A q \in Procs : pc'[q] \in Writing => pc[q] \in Writing /\ trail'[q] = trail[q]
    BY <1>5 DEF AddFill, End, Return, Goto, Forget, TypeOK
  <2>3. file'["signatures"] = "written" /\ file'["result"] = file["result"]
    BY <1>5 DEF AddFill, Fill, TypeOK, Files
  <2>4. attempts' = attempts
    BY <1>5 DEF AddFill
  <2> QED BY <2>1, <2>2, <2>3, <2>4 DEF KeptInv
<1> QED BY <1>1, <1>2, <1>3, <1>4, <1>5 DEF AddSignatures

LEMMA KeptNotarize ==
    ASSUME TypeOK, KeptInv, NEW p \in Procs, Notarize(p)
    PROVE  KeptInv'
<1> USE DEF files, locals, network, Importing, Writing, Recording
<1>1. CASE NotarizeRead(p)
  <2>1. /\ bufNotary' = [bufNotary EXCEPT ![p] = bufNotary[p]]
        /\ trail' = [trail EXCEPT ![p] = trail[p]]
    BY <1>1 DEF NotarizeRead, TypeOK
  <2> QED BY <1>1, <2>1, KeptMove DEF NotarizeRead
<1>2. CASE NotarizePreviewFails(p)
  BY <1>2, KeptEnd DEF NotarizePreviewFails
<1>3. CASE NotarizePreviewSucceeds(p)
  BY <1>3, KeptCarry DEF NotarizePreviewSucceeds
<1>4. CASE NotarizeOpenRequest(p)
  BY <1>4, KeptCarry, FilesStay DEF NotarizeOpenRequest, Files
<1>5. CASE NotarizeFillRequest(p)
  BY <1>5, KeptCarry, FilesStay DEF NotarizeFillRequest, Files
<1>6. CASE NotarizeOpenPrepared(p)
  BY <1>6, KeptCarry, FilesStay DEF NotarizeOpenPrepared, Files
<1>7. CASE NotarizeFillPrepared(p)
  BY <1>7, KeptEnd, FilesStay DEF NotarizeFillPrepared, Files
<1> QED BY <1>1, <1>2, <1>3, <1>4, <1>5, <1>6, <1>7 DEF Notarize

LEMMA KeptSubmit ==
    ASSUME TypeOK, KeptInv, Undisturbed, Undisturbed', NEW p \in Procs, Submit(p)
    PROVE  KeptInv'
<1> USE DEF files, locals, network, Importing, Writing, Recording
<1>a. /\ buf = [buf EXCEPT ![p] = buf[p]]
      /\ bufNotary = [bufNotary EXCEPT ![p] = bufNotary[p]]
      /\ trail = [trail EXCEPT ![p] = trail[p]]
  BY DEF TypeOK
<1>1. CASE SubmitCheck(p)
  <2>1. ExistingAttempts = attempts
    BY <1>1, RecordingFinds DEF SubmitCheck
  <2> QED BY <1>1, <1>a, <2>1, KeptMove DEF SubmitCheck
<1>2. CASE SubmitRead(p)
  <2>1. PICK n \in notarySigs : bufNotary' = [bufNotary EXCEPT ![p] = {n}]
    BY <1>2 DEF SubmitRead
  <2>2. attempts \subseteq trail[p]
    BY <1>2 DEF SubmitRead, KeptInv
  <2> QED BY <1>2, <1>a, <2>1, <2>2, KeptMove DEF SubmitRead
<1>3. CASE SubmitNotReady(p)
  BY <1>3, KeptEnd DEF SubmitNotReady
<1>4. CASE SubmitHex(p)
  BY <1>4, KeptCarry, FilesStay DEF SubmitHex, Files
<1>5. CASE SubmitSend(p)
  <2>1. attempts \subseteq trail[p] \cup {[id |-> answers + 1, status |-> "Submitted"]}
    BY <1>5 DEF SubmitSend, KeptInv
  <2> QED BY <1>5, <1>a, <2>1, KeptMove DEF SubmitSend
<1>6. CASE SubmitSendFails(p)
  BY <1>6, KeptEnd DEF SubmitSendFails
<1>7. CASE SubmitPoll(p)
  <2>1. PICK s \in GatewayAnswers :
          trail' = [trail EXCEPT
                       ![p] = trail[p] \cup {[id |-> answers + 1, status |-> s]}]
    BY <1>7 DEF SubmitPoll, TakeAnswer
  <2>2. attempts \subseteq trail[p] \cup {[id |-> answers + 1, status |-> s]}
    BY <1>7 DEF SubmitPoll, KeptInv
  <2> QED BY <1>7, <1>a, <2>1, <2>2, KeptMove DEF SubmitPoll
<1>8. CASE SubmitPollFails(p)
  BY <1>8, KeptEnd DEF SubmitPollFails
<1> QED
  BY <1>1, <1>2, <1>3, <1>4, <1>5, <1>6, <1>7, <1>8 DEF Submit

LEMMA KeptStatus ==
    ASSUME TypeOK, KeptInv, Undisturbed, Undisturbed', NEW p \in Procs,
           Status(p) \/ Record(p)
    PROVE  KeptInv'
<1> USE DEF files, locals, network, Importing, Writing, Recording
<1>a. /\ buf = [buf EXCEPT ![p] = buf[p]]
      /\ bufNotary = [bufNotary EXCEPT ![p] = bufNotary[p]]
  BY DEF TypeOK
<1>1. CASE StatusQuery(p)
  <2>1. PICK s \in GatewayAnswers :
          trail' = [trail EXCEPT
                       ![p] = trail[p] \cup {[id |-> answers + 1, status |-> s]}]
    BY <1>1 DEF StatusQuery, TakeAnswer
  <2> QED BY <1>1, <1>a, <2>1, KeptMove DEF StatusQuery
<1>2. CASE StatusRead(p)
  <2>1. attempts \subseteq ExistingAttempts \cup trail[p]
    BY <1>2, RecordingFinds DEF StatusRead
  <2>2. trail' = [trail EXCEPT ![p] = ExistingAttempts \cup trail[p]]
    BY <1>2 DEF StatusRead
  <2> QED BY <1>2, <1>a, <2>1, <2>2, KeptMove DEF StatusRead
<1>3. CASE RecordOpen(p)
  BY <1>3, KeptCarry, FilesStay DEF RecordOpen, Files
<1>4. CASE RecordFill(p)
  <2>1. \A q \in Procs : pc'[q] \notin Writing
    BY <1>4 DEF RecordFill, End, Return, Goto, TypeOK, Undisturbed, OneAt
  <2>2. \A q \in Procs : pc'[q] \in Importing =>
            pc[q] \in Importing /\ buf'[q] = buf[q] /\ bufNotary'[q] = bufNotary[q]
    BY <1>4 DEF RecordFill, End, Return, Goto, Forget, TypeOK
  <2>3. file'["result"] = "written" /\ file'["signatures"] = file["signatures"]
    BY <1>4 DEF RecordFill, Fill, TypeOK, Files
  <2>4. intentSigs' = intentSigs /\ notarySigs' = notarySigs
    BY <1>4 DEF RecordFill
  <2> QED BY <2>1, <2>2, <2>3, <2>4 DEF KeptInv
<1> QED BY <1>1, <1>2, <1>3, <1>4 DEF Status, Record

(* What holds of every use of the directory holds of a serial one.         *)
LEMMA SerialIsUse == SerialSpec => Spec /\ []Undisturbed
<1>1. Init => Undisturbed
  BY DEF Init, Undisturbed, OneAt, NotCutOff, Importing, Recording, Files
<1>2. Undisturbed /\ [Next /\ Undisturbed']_vars => Undisturbed'
  BY DEF Undisturbed, OneAt, NotCutOff, vars, files
<1>3. [Next /\ Undisturbed']_vars => [Next]_vars
  OBVIOUS
<1> QED BY <1>1, <1>2, <1>3, PTL DEF SerialSpec, Spec

LEMMA KeptInvCorrect == SerialSpec => []KeptInv
<1>1. Init => KeptInv
  BY DEF Init, KeptInv, Importing, Writing, Recording
<1>2. TypeOK /\ KeptInv /\ Undisturbed /\ [Next /\ Undisturbed']_vars => KeptInv'
  <2> SUFFICES ASSUME TypeOK, KeptInv, Undisturbed, [Next /\ Undisturbed']_vars
               PROVE  KeptInv'
    OBVIOUS
  <2>1. CASE UNCHANGED vars
    BY <2>1 DEF vars, files, locals, KeptInv
  <2>2. CASE Next /\ Undisturbed'
    <3>1. ASSUME NEW p \in Procs, Crash(p) PROVE KeptInv'
      BY <3>1, KeptEnd DEF Crash, files
    <3>2. CASE Commit
      BY <3>2 DEF Commit, files, locals, KeptInv
    <3> QED
      BY <2>2, <3>1, <3>2, KeptPrepare, KeptAdd, KeptNotarize, KeptSubmit, KeptStatus
      DEF Next
  <2> QED BY <2>1, <2>2
<1> QED BY <1>1, <1>2, SerialIsUse, TypeCorrect, PTL DEF SerialSpec

(* signatures.json gets new contents only when an import fills it, and     *)
(* submitResult.json only when a recording does.                           *)
LEMMA OnlyWriters ==
    ASSUME Next
    PROVE  /\ \/ UNCHANGED <<intentSigs, notarySigs>>
              \/ \E p \in Procs : AddFill(p)
           /\ \/ UNCHANGED attempts
              \/ \E p \in Procs : RecordFill(p)
<1> USE DEF files
<1>1. ASSUME NEW p \in Procs, Prepare(p) \/ Notarize(p)
      PROVE  UNCHANGED <<intentSigs, notarySigs, attempts>>
  BY <1>1
  DEF Prepare, PrepareMkdir, PrepareRequest, PrepareOpen, PrepareFill,
      Notarize, NotarizeRead, NotarizePreviewFails, NotarizePreviewSucceeds,
      NotarizeOpenRequest, NotarizeFillRequest, NotarizeOpenPrepared,
      NotarizeFillPrepared
<1>2. ASSUME NEW p \in Procs, AddSignatures(p), ~AddFill(p)
      PROVE  UNCHANGED <<intentSigs, notarySigs, attempts>>
  BY <1>2 DEF AddSignatures, AddRead, AddImport, AddRefuse, AddOpen
<1>3. ASSUME NEW p \in Procs, Submit(p) \/ Status(p) \/ Crash(p)
      PROVE  UNCHANGED <<intentSigs, notarySigs, attempts>>
  BY <1>3
  DEF Submit, SubmitCheck, SubmitRead, SubmitNotReady, SubmitHex, SubmitSend,
      SubmitSendFails, SubmitPoll, SubmitPollFails,
      Status, StatusQuery, StatusRead, Crash
<1>4. ASSUME NEW p \in Procs, Record(p), ~RecordFill(p)
      PROVE  UNCHANGED <<intentSigs, notarySigs, attempts>>
  BY <1>4 DEF Record, RecordOpen
<1>5. ASSUME NEW p \in Procs, AddFill(p)
      PROVE  UNCHANGED attempts
  BY <1>5 DEF AddFill
<1>6. ASSUME NEW p \in Procs, RecordFill(p)
      PROVE  UNCHANGED <<intentSigs, notarySigs>>
  BY <1>6 DEF RecordFill
<1>7. CASE Commit
  BY <1>7 DEF Commit
<1> QED BY <1>1, <1>2, <1>3, <1>4, <1>5, <1>6, <1>7 DEF Next

(* Among commands that do not get in each other's way, an accepted         *)
(* signature stays in signatures.json: add-signatures loses entries only   *)
(* to a second import or to a file that was cut off.                       *)
THEOREM SerialKeepsSignatures == SerialSpec => SignaturesKept
<1>1. KeptInv /\ [Next]_vars =>
        [intentSigs \subseteq intentSigs' /\ notarySigs \subseteq notarySigs']_vars
  BY OnlyWriters DEF AddFill, KeptInv, Importing
<1> QED BY <1>1, SerialIsUse, KeptInvCorrect, PTL DEF Spec, SignaturesKept

(* Among commands that do not get in each other's way, a recorded attempt  *)
(* stays in submitResult.json: submit, status and list --update-network-   *)
(* status lose attempts only to each other or to a file that was cut off.  *)
THEOREM SerialKeepsAttempts == SerialSpec => AttemptsKept
<1>1. KeptInv /\ [Next]_vars => [attempts \subseteq attempts']_vars
  BY OnlyWriters DEF RecordFill, KeptInv, Writing, Recording
<1> QED BY <1>1, SerialIsUse, KeptInvCorrect, PTL DEF Spec, AttemptsKept

-----------------------------------------------------------------------------
(* The refusal.  A submission looks at the status of the record alone, so  *)
(* that status must be the success as soon as any attempt is one: once the *)
(* ledger has committed, every later answer repeats it.                    *)
HasSuccess(as) == \E a \in as : a.status = "CommittedSuccess"

Submitting == {"submitRead", "submitHex", "submitSend", "submitPoll"}
Answering == {"statusRead", "recordOpen", "recordFill"}

SuccessInv ==
    /\ HasSuccess(attempts) => status = "CommittedSuccess"
    /\ \A p \in Procs : pc[p] \in Submitting =>
            ~HasSuccess(attempts) /\ ~HasSuccess(trail[p])
    /\ \A p \in Procs :
            pc[p] \in Answering /\ (HasSuccess(attempts) \/ HasSuccess(trail[p])) =>
                answer[p] = "CommittedSuccess"

(* p moves on with an answer that tells of any success it knows.           *)
LEMMA SuccessMove ==
    ASSUME TypeOK, SuccessInv, NEW p \in Procs, NEW l, NEW s, NEW as,
           Goto(p, l),
           answer' = [answer EXCEPT ![p] = s],
           trail' = [trail EXCEPT ![p] = as],
           l \in Submitting => ~HasSuccess(attempts) /\ ~HasSuccess(as),
           l \in Answering /\ (HasSuccess(attempts) \/ HasSuccess(as)) =>
               s = "CommittedSuccess",
           UNCHANGED <<status, attempts>>
    PROVE  SuccessInv'
<1>1. ASSUME NEW q \in Procs
      PROVE  /\ pc'[q] \in Submitting => ~HasSuccess(attempts) /\ ~HasSuccess(trail'[q])
             /\ pc'[q] \in Answering /\ (HasSuccess(attempts) \/ HasSuccess(trail'[q])) =>
                    answer'[q] = "CommittedSuccess"
  <2>1. CASE q = p
    BY <2>1 DEF TypeOK, Goto
  <2>2. CASE q # p
    <3>1. pc'[q] = pc[q] /\ answer'[q] = answer[q] /\ trail'[q] = trail[q]
      BY <2>2 DEF TypeOK, Goto
    <3> QED BY <3>1 DEF SuccessInv
  <2> QED BY <2>1, <2>2
<1>2. HasSuccess(attempts)' = HasSuccess(attempts)
  BY DEF HasSuccess
<1>3. \A q \in Procs : HasSuccess(trail[q])' = HasSuccess(trail'[q])
  BY DEF HasSuccess
<1> QED BY <1>1, <1>2, <1>3 DEF SuccessInv

(* The same when p carries on with what it has.                            *)
LEMMA SuccessCarry ==
    ASSUME TypeOK, SuccessInv, NEW p \in Procs, NEW l, Goto(p, l),
           UNCHANGED <<answer, trail, status, attempts>>,
           l \in Submitting => pc[p] \in Submitting,
           l \in Answering => pc[p] \in Answering
    PROVE  SuccessInv'
<1>1. /\ answer' = [answer EXCEPT ![p] = answer[p]]
      /\ trail' = [trail EXCEPT ![p] = trail[p]]
  BY DEF TypeOK
<1>2. /\ l \in Submitting => ~HasSuccess(attempts) /\ ~HasSuccess(trail[p])
      /\ l \in Answering /\ (HasSuccess(attempts) \/ HasSuccess(trail[p])) =>
             answer[p] = "CommittedSuccess"
  BY DEF SuccessInv
<1> QED BY <1>1, <1>2, SuccessMove

(* The same at the end of a command.                                       *)
LEMMA SuccessEnd ==
    ASSUME TypeOK, SuccessInv, NEW p \in Procs, End(p),
           UNCHANGED <<status, attempts>>
    PROVE  SuccessInv'
<1>1. "idle" \notin Submitting /\ "idle" \notin Answering
  BY DEF Submitting, Answering
<1> QED BY <1>1, SuccessMove DEF End, Return, Forget

(* What the Gateway answers once any recorded or carried attempt succeeded.*)
LEMMA SuccessAnswered ==
    ASSUME RecordInv, NEW p \in Procs, NEW s \in GatewayAnswers,
           HasSuccess(attempts) \/ HasSuccess(trail[p])
    PROVE  s = "CommittedSuccess"
<1>1. ledger = "CommittedSuccess"
  BY DEF RecordInv, TrailHolds, Holds, HasSuccess, Committed
<1> QED BY <1>1 DEF GatewayAnswers, Committed

LEMMA SuccessOthers ==
    ASSUME TypeOK, SuccessInv, NEW p \in Procs,
           Prepare(p) \/ AddSignatures(p) \/ Notarize(p) \/ Crash(p)
    PROVE  SuccessInv'
<1> USE DEF files, locals, network, Submitting, Answering
<1>1. CASE PrepareRequest(p)
  BY <1>1 DEF PrepareRequest, SuccessInv, HasSuccess
<1>2. CASE Prepare(p) /\ ~PrepareRequest(p)
  BY <1>2, SuccessCarry, SuccessEnd
  DEF Prepare, PrepareMkdir, PrepareOpen, PrepareFill
<1>3. CASE AddSignatures(p)
  BY <1>3, SuccessCarry, SuccessEnd
  DEF AddSignatures, AddRead, AddImport, AddRefuse, AddOpen, AddFill
<1>4. CASE Notarize(p)
  BY <1>4, SuccessCarry, SuccessEnd
  DEF Notarize, NotarizeRead, NotarizePreviewFails, NotarizePreviewSucceeds,
      NotarizeOpenRequest, NotarizeFillRequest, NotarizeOpenPrepared,
      NotarizeFillPrepared
<1>5. CASE Crash(p)
  BY <1>5, SuccessEnd DEF Crash
<1> QED BY <1>1, <1>2, <1>3, <1>4, <1>5

LEMMA SuccessSubmit ==
    ASSUME TypeOK, KeptInv, RecordInv, SuccessInv, Undisturbed, Undisturbed',
           NEW p \in Procs, Submit(p)
    PROVE  SuccessInv'
<1> USE DEF files, locals, network, Submitting, Answering
<1>1. CASE SubmitCheck(p)
  <2>1. ExistingAttempts = attempts
    BY <1>1, RecordingFinds DEF SubmitCheck, Recording
  <2>2. ~HasSuccess(attempts)
    BY <1>1, <2>1
    DEF SubmitCheck, RecordedSuccess, ExistingAttempts, SuccessInv, HasSuccess
  <2>3. answer' = [answer EXCEPT ![p] = answer[p]]
    BY <1>1 DEF SubmitCheck, TypeOK
  <2> QED BY <1>1, <2>1, <2>2, <2>3, SuccessMove DEF SubmitCheck
<1>2. CASE SubmitRead(p) \/ SubmitHex(p)
  BY <1>2, SuccessCarry DEF SubmitRead, SubmitHex
<1>3. CASE SubmitNotReady(p) \/ SubmitSendFails(p) \/ SubmitPollFails(p)
  BY <1>3, SuccessEnd DEF SubmitNotReady, SubmitSendFails, SubmitPollFails
<1>4. CASE SubmitSend(p)
  <2> DEFINE as == trail[p] \cup {[id |-> answers + 1, status |-> "Submitted"]}
  <2>1. ~HasSuccess(attempts) /\ ~HasSuccess(as)
    BY <1>4 DEF SubmitSend, SuccessInv, HasSuccess
  <2>2. /\ answer' = [answer EXCEPT ![p] = answer[p]]
        /\ trail' = [trail EXCEPT ![p] = as]
    BY <1>4 DEF SubmitSend, TypeOK
  <2> HIDE DEF as
  <2> QED BY <1>4, <2>1, <2>2, SuccessMove DEF SubmitSend
<1>5. CASE SubmitPoll(p)
  <2>1. PICK s \in GatewayAnswers :
          /\ answer' = [answer EXCEPT ![p] = s]
          /\ trail' = [trail EXCEPT
                          ![p] = trail[p] \cup {[id |-> answers + 1, status |-> s]}]
    BY <1>5 DEF SubmitPoll, TakeAnswer
  <2> DEFINE as == trail[p] \cup {[id |-> answers + 1, status |-> s]}
  <2>2. HasSuccess(attempts) \/ HasSuccess(as) => s = "CommittedSuccess"
    BY <1>5 DEF SubmitPoll, SuccessInv, HasSuccess
  <2>3. trail' = [trail EXCEPT ![p] = as]
    BY <2>1
  <2> HIDE DEF as
  <2> QED BY <1>5, <2>1, <2>2, <2>3, SuccessMove DEF SubmitPoll
<1> QED BY <1>1, <1>2, <1>3, <1>4, <1>5 DEF Submit

LEMMA SuccessStatus ==
    ASSUME TypeOK, RecordInv, SuccessInv, Undisturbed, NEW p \in Procs,
           Status(p) \/ Record(p)
    PROVE  SuccessInv'
<1> USE DEF files, locals, network, Submitting, Answering
<1>1. CASE StatusQuery(p)
  <2>1. PICK s \in GatewayAnswers :
          /\ answer' = [answer EXCEPT ![p] = s]
          /\ trail' = [trail EXCEPT
                          ![p] = trail[p] \cup {[id |-> answers + 1, status |-> s]}]
    BY <1>1 DEF StatusQuery, TakeAnswer
  <2> DEFINE as == trail[p] \cup {[id |-> answers + 1, status |-> s]}
  <2>2. HasSuccess(as) => HasSuccess(trail[p]) \/ s = "CommittedSuccess"
    BY DEF HasSuccess
  <2>3. HasSuccess(attempts) \/ HasSuccess(as) => s = "CommittedSuccess"
    BY <2>2, SuccessAnswered
  <2>4. trail' = [trail EXCEPT ![p] = as]
    BY <2>1
  <2> HIDE DEF as
  <2> QED BY <1>1, <2>1, <2>3, <2>4, SuccessMove DEF StatusQuery
<1>2. CASE StatusRead(p)
  <2> DEFINE as == ExistingAttempts \cup trail[p]
  <2>1. HasSuccess(as) => HasSuccess(attempts) \/ HasSuccess(trail[p])
    BY DEF HasSuccess, ExistingAttempts
  <2>2. HasSuccess(attempts) \/ HasSuccess(as) => answer[p] = "CommittedSuccess"
    BY <1>2, <2>1 DEF StatusRead, SuccessInv
  <2>3. /\ answer' = [answer EXCEPT ![p] = answer[p]]
        /\ trail' = [trail EXCEPT ![p] = as]
    BY <1>2 DEF StatusRead, TypeOK
  <2> HIDE DEF as
  <2> QED BY <1>2, <2>2, <2>3, SuccessMove DEF StatusRead
<1>3. CASE RecordOpen(p)
  BY <1>3, SuccessCarry DEF RecordOpen
<1>4. CASE RecordFill(p)
  <2>1. HasSuccess(attempts)' => status' = "CommittedSuccess"
    BY <1>4 DEF RecordFill, SuccessInv, HasSuccess
  <2>2. \A q \in Procs : pc'[q] \notin Submitting /\ pc'[q] \notin Answering
    BY <1>4 DEF RecordFill, End, Return, Goto, TypeOK, Undisturbed, OneAt, Recording
  <2> QED BY <2>1, <2>2 DEF SuccessInv
<1> QED BY <1>1, <1>2, <1>3, <1>4 DEF Status, Record

LEMMA SuccessInvCorrect == SerialSpec => []SuccessInv
<1>1. Init => SuccessInv
  BY DEF Init, SuccessInv, HasSuccess, Submitting, Answering
<1>2. TypeOK /\ KeptInv /\ RecordInv /\ SuccessInv /\ Undisturbed
        /\ [Next /\ Undisturbed']_vars => SuccessInv'
  <2> SUFFICES ASSUME TypeOK, KeptInv, RecordInv, SuccessInv, Undisturbed,
                      [Next /\ Undisturbed']_vars
               PROVE  SuccessInv'
    OBVIOUS
  <2>1. CASE UNCHANGED vars
    BY <2>1 DEF vars, files, locals, SuccessInv, HasSuccess
  <2>2. CASE Next /\ Undisturbed'
    <3>1. CASE Commit
      BY <3>1 DEF Commit, files, locals, SuccessInv, HasSuccess
    <3> QED BY <2>2, <3>1, SuccessOthers, SuccessSubmit, SuccessStatus DEF Next
  <2> QED BY <2>1, <2>2
<1> QED
  BY <1>1, <1>2, SerialIsUse, TypeCorrect, KeptInvCorrect, RecordInvCorrect, PTL
  DEF SerialSpec

(* Among commands that do not get in each other's way, no submission       *)
(* starts once the record holds a successful attempt, whatever was asked   *)
(* and answered since.                                                     *)
THEOREM SerialRefusesAfterSuccess == SerialSpec => RefusesAfterSuccess
<1>1. TypeOK /\ SuccessInv' /\ [Next]_vars =>
        [\A p \in Procs :
            pc[p] = "idle" /\ pc'[p] = "submitRead" =>
                \A a \in attempts : a.status # "CommittedSuccess"]_vars
  <2> SUFFICES ASSUME TypeOK, SuccessInv', Next, NEW p \in Procs,
                      pc[p] = "idle", pc'[p] = "submitRead"
               PROVE  \A a \in attempts : a.status # "CommittedSuccess"
    OBVIOUS
  <2>1. \A q \in Procs : ~RecordFill(q)
    BY DEF RecordFill, End, Return, Goto, TypeOK
  <2>2. attempts' = attempts
    BY <2>1, OnlyWriters
  <2>3. ~HasSuccess(attempts)'
    BY DEF SuccessInv, Submitting
  <2> QED BY <2>2, <2>3 DEF HasSuccess
<1> QED
  BY <1>1, SerialIsUse, TypeCorrect, SuccessInvCorrect, PTL
  DEF Spec, RefusesAfterSuccess

(* One user who runs one command after the other and never stops one in    *)
(* the middle is serial: the three results above are about the plain use   *)
(* of the tool, and about any use that is as careful.                      *)
THEOREM OneUserIsSerial ==
    ASSUME NEW q, Procs = {q}, ~MayCrash
    PROVE  Spec => SerialSpec
<1> DEFINE Whole(f, fill) == file[f] = "torn" => pc[q] = fill
<1>1. OneAt(Importing) /\ OneAt(Recording)
  BY DEF OneAt
<1>2. ASSUME NEW f, NEW fill PROVE NotCutOff(f, fill) <=> Whole(f, fill)
  BY DEF NotCutOff
<1>3. Undisturbed <=> Whole("signatures", "addFill") /\ Whole("result", "recordFill")
  BY <1>1, <1>2 DEF Undisturbed
<1>4. Init => Undisturbed
  BY <1>3 DEF Init, Files
<1>5. TypeOK /\ Undisturbed /\ [Next]_vars => Undisturbed'
  <2> SUFFICES ASSUME TypeOK, Undisturbed, [Next]_vars
               PROVE  /\ Whole("signatures", "addFill")'
                      /\ Whole("result", "recordFill")'
    BY <1>1 DEF Undisturbed, OneAt, NotCutOff
  <2> USE <1>3 DEF TypeOK, Goto, End, Return, Open, Fill, Files, files, locals, network
  <2>1. CASE UNCHANGED vars \/ Commit
    BY <2>1 DEF vars, Commit
  <2>2. CASE Prepare(q)
    BY <2>2 DEF Prepare, PrepareMkdir, PrepareRequest, PrepareOpen, PrepareFill
  <2>3. CASE AddSignatures(q)
    BY <2>3
    DEF AddSignatures, AddRead, AddImport, AddRefuse, AddOpen, AddFill
  <2>4. CASE Notarize(q)
    BY <2>4
    DEF Notarize, NotarizeRead, NotarizePreviewFails, NotarizePreviewSucceeds,
        NotarizeOpenRequest, NotarizeFillRequest, NotarizeOpenPrepared,
        NotarizeFillPrepared
  <2>5. CASE Submit(q)
    BY <2>5
    DEF Submit, SubmitCheck, SubmitRead, SubmitNotReady, SubmitHex, SubmitSend,
        SubmitSendFails, SubmitPoll, SubmitPollFails
  <2>6. CASE Status(q) \/ Record(q)
    BY <2>6 DEF Status, StatusQuery, StatusRead, Record, RecordOpen, RecordFill
  <2> QED BY <2>1, <2>2, <2>3, <2>4, <2>5, <2>6 DEF Next, Crash
<1>6. [Next]_vars /\ Undisturbed' => [Next /\ Undisturbed']_vars
  OBVIOUS
<1> QED BY <1>4, <1>5, <1>6, TypeCorrect, PTL DEF Spec, SerialSpec

-----------------------------------------------------------------------------
(* Notarizing last.  When the intent signatures stay as they are from the  *)
(* moment that `tx notarize` reads them, there is one signed intent, which *)
(* is what everybody carries, publishes and broadcasts.                    *)
Sending == {"submitHex", "submitSend"}

OneIntentInv ==
    /\ file["signatures"] = "absent" => intentSigs = {}
    /\ published \subseteq {intentSigs}
    /\ \A p \in Procs : pc[p] \in Notarizing \cup Sending => buf[p] = intentSigs
    /\ \A p \in Procs : pc[p] \in Sending => published # {}
    /\ BroadcastIsWhatNotarySigned

(* p moves on with the stored signatures, if it is bound to use them.      *)
LEMMA OneIntentMove ==
    ASSUME TypeOK, OneIntentInv, NEW p \in Procs, NEW l, NEW sigs,
           Goto(p, l),
           buf' = [buf EXCEPT ![p] = sigs],
           l \in Notarizing \cup Sending => sigs = intentSigs,
           l \in Sending => published # {},
           file'["signatures"] = "absent" => file["signatures"] = "absent",
           UNCHANGED intentSigs,
           published \subseteq published', published' \subseteq {intentSigs},
           BroadcastIsWhatNotarySigned'
    PROVE  OneIntentInv'
<1>1. ASSUME NEW q \in Procs
      PROVE  /\ pc'[q] \in Notarizing \cup Sending => buf'[q] = intentSigs
             /\ pc'[q] \in Sending => published' # {}
  <2>1. CASE q = p
    BY <2>1 DEF TypeOK, Goto
  <2>2. CASE q # p
    BY <2>2 DEF TypeOK, Goto, OneIntentInv
  <2> QED BY <2>1, <2>2
<1> QED BY <1>1 DEF OneIntentInv

(* The same when p carries on with what it has.                            *)
LEMMA OneIntentCarry ==
    ASSUME TypeOK, OneIntentInv, NEW p \in Procs, NEW l, Goto(p, l),
           l \in Notarizing \cup Sending => pc[p] \in Notarizing \cup Sending,
           l \in Sending => pc[p] \in Sending,
           file'["signatures"] = "absent" => file["signatures"] = "absent",
           UNCHANGED <<buf, intentSigs, published, sent>>
    PROVE  OneIntentInv'
<1>1. buf' = [buf EXCEPT ![p] = buf[p]]
  BY DEF TypeOK
<1>2. /\ l \in Notarizing \cup Sending => buf[p] = intentSigs
      /\ l \in Sending => published # {}
      /\ published \subseteq {intentSigs}
      /\ BroadcastIsWhatNotarySigned'
  BY DEF OneIntentInv, BroadcastIsWhatNotarySigned
<1> QED BY <1>1, <1>2, OneIntentMove

(* The same at the end of a command.                                       *)
LEMMA OneIntentEnd ==
    ASSUME TypeOK, OneIntentInv, NEW p \in Procs, End(p),
           file'["signatures"] = "absent" => file["signatures"] = "absent",
           UNCHANGED <<intentSigs, published>>, BroadcastIsWhatNotarySigned'
    PROVE  OneIntentInv'
<1>1. "idle" \notin Notarizing \cup Sending /\ published \subseteq {intentSigs}
  BY DEF Notarizing, Sending, OneIntentInv
<1> QED BY <1>1, OneIntentMove DEF End, Return, Forget

(* A broadcast is of the one intent, under a signature of the one intent.  *)
LEMMA OneIntentBroadcast ==
    ASSUME SignaturesInv, OneIntentInv, NEW p \in Procs, pc[p] = "submitSend",
           Broadcast(p) \/ sent' = sent
    PROVE  BroadcastIsWhatNotarySigned'
<1>1. buf[p] = intentSigs
  BY DEF OneIntentInv, Sending
<1>2. \A n \in bufNotary[p] : n.hash = intentSigs
  BY DEF SignaturesInv, NotaryChecked, OneIntentInv
<1>3. \A t \in sent' \ sent : t.intent = buf[p] /\ t.notary \in bufNotary[p]
  BY DEF Broadcast
<1> QED BY <1>1, <1>2, <1>3 DEF OneIntentInv, BroadcastIsWhatNotarySigned

LEMMA OneIntentPrepare ==
    ASSUME TypeOK, OneIntentInv, NEW p \in Procs, Prepare(p) \/ Crash(p)
    PROVE  OneIntentInv'
<1> USE DEF files, locals, network, Notarizing, Sending
<1>1. CASE PrepareMkdir(p)
  BY <1>1, OneIntentCarry DEF PrepareMkdir
<1>2. CASE PrepareRequest(p)
  BY <1>2 DEF PrepareRequest, OneIntentInv, BroadcastIsWhatNotarySigned
<1>3. CASE PrepareOpen(p)
  BY <1>3, OneIntentCarry, FilesStay DEF PrepareOpen, Files
<1>4. CASE PrepareFill(p) \/ Crash(p)
  <2>1. BroadcastIsWhatNotarySigned'
    BY <1>4 DEF PrepareFill, Crash, OneIntentInv, BroadcastIsWhatNotarySigned
  <2> QED BY <1>4, <2>1, OneIntentEnd, FilesStay DEF PrepareFill, Crash, Files
<1> QED BY <1>1, <1>2, <1>3, <1>4 DEF Prepare

LEMMA OneIntentAdd ==
    ASSUME TypeOK, OneIntentInv, NEW p \in Procs, AddSignatures(p),
           SignaturesTaken => intentSigs' = intentSigs
    PROVE  OneIntentInv'
<1> USE DEF files, locals, network, Notarizing, Sending
<1>1. CASE AddRead(p)
  BY <1>1, OneIntentCarry DEF AddRead
<1>2. CASE AddImport(p)
  <2>1. PICK sigs : buf' = [buf EXCEPT ![p] = sigs]
    BY <1>2 DEF AddImport
  <2>2. published \subseteq {intentSigs} /\ BroadcastIsWhatNotarySigned'
    BY <1>2 DEF AddImport, OneIntentInv, BroadcastIsWhatNotarySigned
  <2> QED BY <1>2, <2>1, <2>2, OneIntentMove DEF AddImport
<1>3. CASE AddRefuse(p)
  <2>1. BroadcastIsWhatNotarySigned'
    BY <1>3 DEF AddRefuse, OneIntentInv, BroadcastIsWhatNotarySigned
  <2> QED BY <1>3, <2>1, OneIntentEnd DEF AddRefuse
<1>4. CASE AddOpen(p)
  BY <1>4, OneIntentCarry, FilesStay DEF AddOpen, Files
<1>5. CASE AddFill(p)
  <2>1. /\ file'["signatures"] # "absent" /\ published' = published
        /\ BroadcastIsWhatNotarySigned'
    BY <1>5 DEF AddFill, Fill, TypeOK, Files, OneIntentInv, BroadcastIsWhatNotarySigned
  <2>2. \A q \in Procs : pc'[q] \in Notarizing \cup Sending =>
            pc[q] \in Notarizing \cup Sending /\ pc'[q] = pc[q] /\ buf'[q] = buf[q]
    BY <1>5 DEF AddFill, End, Return, Goto, Forget, TypeOK
  <2>3. CASE SignaturesTaken
    BY <2>1, <2>2, <2>3 DEF OneIntentInv
  <2>4. CASE ~SignaturesTaken
    BY <2>1, <2>2, <2>4 DEF SignaturesTaken, OneIntentInv
  <2> QED BY <2>3, <2>4
<1> QED BY <1>1, <1>2, <1>3, <1>4, <1>5 DEF AddSignatures

LEMMA OneIntentNotarize ==
    ASSUME TypeOK, OneIntentInv, NEW p \in Procs, Notarize(p)
    PROVE  OneIntentInv'
<1> USE DEF files, locals, network, Notarizing, Sending
<1>a. BroadcastIsWhatNotarySigned' /\ published \subseteq {intentSigs}
  BY DEF Notarize, NotarizeRead, NotarizePreviewFails, NotarizePreviewSucceeds,
         NotarizeOpenRequest, NotarizeFillRequest, NotarizeOpenPrepared,
         NotarizeFillPrepared, OneIntentInv, BroadcastIsWhatNotarySigned
<1>1. CASE NotarizeRead(p)
  <2>1. ExistingIntent = intentSigs
    BY <1>1 DEF NotarizeRead, ExistingIntent, Readable, OneIntentInv
  <2> QED BY <1>1, <1>a, <2>1, OneIntentMove DEF NotarizeRead
<1>2. CASE NotarizePreviewFails(p)
  BY <1>2, <1>a, OneIntentEnd DEF NotarizePreviewFails
<1>3. CASE NotarizePreviewSucceeds(p)
  BY <1>3, OneIntentCarry DEF NotarizePreviewSucceeds
<1>4. CASE NotarizeOpenRequest(p)
  BY <1>4, OneIntentCarry, FilesStay DEF NotarizeOpenRequest, Files
<1>5. CASE NotarizeFillRequest(p)
  <2>1. buf[p] = intentSigs /\ buf' = [buf EXCEPT ![p] = buf[p]]
    BY <1>5 DEF NotarizeFillRequest, OneIntentInv, TypeOK
  <2>2. published' \subseteq {intentSigs}
    BY <1>5, <1>a, <2>1 DEF NotarizeFillRequest
  <2> QED BY <1>5, <1>a, <2>1, <2>2, OneIntentMove, FilesStay DEF NotarizeFillRequest, Files
<1>6. CASE NotarizeOpenPrepared(p)
  BY <1>6, OneIntentCarry, FilesStay DEF NotarizeOpenPrepared, Files
<1>7. CASE NotarizeFillPrepared(p)
  BY <1>7, <1>a, OneIntentEnd, FilesStay DEF NotarizeFillPrepared, Files
<1> QED BY <1>1, <1>2, <1>3, <1>4, <1>5, <1>6, <1>7 DEF Notarize

LEMMA OneIntentSubmit ==
    ASSUME TypeOK, SignaturesInv, OneIntentInv, NEW p \in Procs,
           Submit(p) \/ Status(p) \/ Record(p)
    PROVE  OneIntentInv'
<1> USE DEF files, locals, network, Notarizing, Sending
<1>1. CASE SubmitCheck(p)
  BY <1>1, OneIntentCarry DEF SubmitCheck
<1>2. CASE SubmitRead(p)
  <2>1. published # {} /\ published \subseteq {intentSigs}
    BY <1>2 DEF SubmitRead, SubmitReady, SignaturesInv,
                StoredSignaturesAnswerRequests, OneIntentInv
  <2>2. BroadcastIsWhatNotarySigned'
    BY <1>2 DEF SubmitRead, OneIntentInv, BroadcastIsWhatNotarySigned
  <2> QED BY <1>2, <2>1, <2>2, OneIntentMove DEF SubmitRead
<1>3. CASE SubmitHex(p)
  BY <1>3, OneIntentCarry, FilesStay DEF SubmitHex, Files
<1>4. CASE SubmitSend(p)
  <2>1. BroadcastIsWhatNotarySigned' /\ published \subseteq {intentSigs}
    BY <1>4, OneIntentBroadcast DEF SubmitSend, OneIntentInv
  <2>2. buf' = [buf EXCEPT ![p] = buf[p]]
    BY <1>4 DEF SubmitSend, TypeOK
  <2> QED BY <1>4, <2>1, <2>2, OneIntentMove DEF SubmitSend
<1>5. CASE SubmitSendFails(p)
  <2>1. BroadcastIsWhatNotarySigned'
    BY <1>5, OneIntentBroadcast DEF SubmitSendFails
  <2> QED BY <1>5, <2>1, OneIntentEnd DEF SubmitSendFails
<1>6. CASE SubmitNotReady(p) \/ SubmitPollFails(p) \/ RecordFill(p)
  <2>1. BroadcastIsWhatNotarySigned'
    BY <1>6 DEF SubmitNotReady, SubmitPollFails, RecordFill, OneIntentInv,
                BroadcastIsWhatNotarySigned
  <2> QED
    BY <1>6, <2>1, OneIntentEnd, FilesStay
    DEF SubmitNotReady, SubmitPollFails, RecordFill, Files
<1>7. CASE SubmitPoll(p) \/ Status(p)
  BY <1>7, OneIntentCarry DEF SubmitPoll, Status, StatusQuery, StatusRead
<1>8. CASE RecordOpen(p)
  BY <1>8, OneIntentCarry, FilesStay DEF RecordOpen, Files
<1> QED
  BY <1>1, <1>2, <1>3, <1>4, <1>5, <1>6, <1>7, <1>8 DEF Submit, Record

(* When no signature is added after notarization has begun, what reaches   *)
(* the network is what the notary signed, for any number of processes and  *)
(* crashes; the code (submit.ts) compares the two nowhere.                 *)
THEOREM NotarizedLastIsWhatIsSent == NotarizedLastSpec => []BroadcastIsWhatNotarySigned
<1> DEFINE Taken == SignaturesTaken => intentSigs' = intentSigs
<1>1. NotarizedLastSpec => Spec
  <2>1. [Next /\ Taken]_vars => [Next]_vars
    OBVIOUS
  <2> QED BY <2>1, PTL DEF NotarizedLastSpec, Spec
<1>2. Init => OneIntentInv
  BY DEF Init, OneIntentInv, Notarizing, Sending, BroadcastIsWhatNotarySigned
<1>3. TypeOK /\ SignaturesInv /\ OneIntentInv /\ [Next /\ Taken]_vars => OneIntentInv'
  <2> SUFFICES ASSUME TypeOK, SignaturesInv, OneIntentInv, [Next /\ Taken]_vars
               PROVE  OneIntentInv'
    OBVIOUS
  <2>1. CASE UNCHANGED vars \/ Commit
    BY <2>1 DEF vars, Commit, files, locals, network, OneIntentInv,
                BroadcastIsWhatNotarySigned
  <2> QED
    BY <2>1, OneIntentPrepare, OneIntentAdd, OneIntentNotarize, OneIntentSubmit DEF Next
<1>4. OneIntentInv => BroadcastIsWhatNotarySigned
  BY DEF OneIntentInv
<1> QED
  BY <1>1, <1>2, <1>3, <1>4, TypeCorrect, SignaturesCorrect, PTL DEF NotarizedLastSpec

=============================================================================
