---------------------------- MODULE MCGatewayClients ----------------------------
(***************************************************************************)
(* The clients of one Gateway on one ledger: reads of what addresses hold, *)
(* reads of who holds, and the transaction client of core.  One of them is *)
(* used in a behaviour; the ledger moves on under the two that read it.    *)
(***************************************************************************)
EXTENDS LedgerReads, HolderReads, CoreClient

clientVars == <<vars, holderVars, coreVars>>

CoreUnused == Used = {}
NoHolding == errand = "idle"
NoReading == stage = "idle"

AllInit == Init /\ HolderInit /\ CoreInit

(* The core client does not look at the ledger, so one ledger will do.     *)
Empty == \A t \in Things : ledger[tip][t] = Unminted

AllNext ==
    \/ Next /\ NoHolding /\ CoreUnused
       /\ UNCHANGED <<holderVars, coreVars>>
    \/ HolderNext /\ ~ NoHolding /\ NoReading /\ CoreUnused
       /\ UNCHANGED <<readVars, coreVars>>
    \/ (BeginHolders \/ BeginTrace) /\ NoReading /\ CoreUnused
       /\ UNCHANGED <<readVars, coreVars>>
    \/ CoreNext /\ NoReading /\ NoHolding /\ tip = 1 /\ Empty
       /\ UNCHANGED <<vars, holderVars>>

(* What the clients do of themselves.                                      *)
AllStep ==
    \/ Step /\ UNCHANGED <<holderVars, coreVars>>
    \/ HolderStep /\ UNCHANGED <<readVars, coreVars>>
    \/ (\E c \in Calls : CoreStep(c)) /\ UNCHANGED <<vars, holderVars>>

AllSpec == AllInit /\ [][AllNext]_clientVars /\ WF_clientVars(AllStep)

(* Every variable of the three clients keeps its type.                     *)
TypesOK == TypeOK /\ HolderTypeOK /\ CoreTypeOK

(* Whatever a client has begun ends: reads that follow cursors, the walk   *)
(* to earlier versions, signed submissions and polls, although the ledger  *)
(* moves on under the reads and a signal may fire.                         *)
UnderWay == Reading \/ HolderReading \/ \E c \in Calls : Running(c)
AllEnds == UnderWay ~> ~ UnderWay

=============================================================================
