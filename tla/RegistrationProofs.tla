------------------------- MODULE RegistrationProofs -------------------------
(***************************************************************************)
(* Proofs about Registration: its types, that the node's thread waits in   *)
(* the right loop, and that it deletes the node when it stops.             *)
(***************************************************************************)
EXTENDS Registration, TLAPS

(***************************************************************************)
(* The inductive invariant: what each place of the node's thread knows     *)
(* about the registry in use and the registration's status.                *)
(***************************************************************************)

\* requests are only sent to a registry
AsksARegistry == pc \notin Waiting \cup {"find", "running", "stopped"} => InUse

InTheLoop ==
  /\ pc = "find" => ~inOperation
  /\ pc = "heartbeat" => status = "done"
  /\ pc = "running" /\ inOperation => InUse /\ status = "done"
  /\ pc = "running" /\ ~inOperation /\ bRun => ~InUse

\* the main thread waits for the node's thread and commits nothing
Stopping ==
  /\ ~bRun => commit = "idle"
  /\ pc = "stopped" \/ (pc = "delete" /\ after = "exit") => ~bRun
  /\ pc = "running" /\ ~inOperation /\ InUse /\ deleted
       => holds[sRegistrationNode] = "nothing"

Locals ==
  /\ WaitsInTheRightLoop /\ LeavesTheRegistry
  /\ AsksARegistry /\ InTheLoop /\ Stopping

Inv == TypeOK /\ Locals

-----------------------------------------------------------------------------
(* Types                                                                   *)

\* TypeOK in two parts, which the solvers handle one at a time
Flags ==
  /\ bRun \in BOOLEAN /\ txt \in BOOLEAN /\ commitTxt \in BOOLEAN
  /\ inOperation \in BOOLEAN /\ deleted \in BOOLEAN /\ browsed \in BOOLEAN

Fields ==
  /\ mRegNode \in [Registries -> {"absent", "good", "bad"}]
  /\ sRegistrationNode \in Registries \cup {None}
  /\ status \in {"start", "done", "failed"}
  /\ eSignal \in {"none", "browseDone", "instanceRemoved"}
  /\ pc \in Waiting \cup {"find", "register", "postNode", "copy", "postRest",
                          "delete", "heartbeat", "running", "stopped"}
  /\ caller \in {"operation", "heartbeat"}
  /\ after \in {"register", "failed", "exit"}
  /\ sent \in Copies
  /\ removed \in Registries \cup {None}
  /\ removed # None => mRegNode[removed] = "absent"
  /\ commit \in {"idle", "look", "txt", "setTxt", "post", "bad"}
  /\ holds \in [Registries -> Copies \cup {"nothing"}]
  /\ troubles \in 0 .. MaxTroubles

LEMMA TypeOKSplit == TypeOK <=> Flags /\ Fields
BY DEF TypeOK, Flags, Fields

LEMMA InitTypeOK == Init => TypeOK
<1>1. Init => Flags
  BY DEF Init, Flags
<1>2. Init => Fields
  BY RegistrationAssumption DEF RegistrationAssumption, Init, Fields, Waiting, Copies
<1> QED
  BY <1>1, <1>2, TypeOKSplit

LEMMA AgedIsACopy ==
  /\ \A c \in Copies : Aged(c) \in Copies
  /\ Aged("nothing") = "nothing"
BY DEF Copies, Aged

LEMMA MarkTyped ==
  ASSUME Fields, NEW g, MarkRegNodeAsBad(g)
  PROVE  /\ mRegNode' \in [Registries -> {"absent", "good", "bad"}]
         /\ \A h \in Registries : mRegNode[h] = "absent" => mRegNode'[h] = "absent"
BY DEF Fields, MarkRegNodeAsBad, Good

\* waiting, choosing a registry and the decisions between requests
LEMMA LocalStepsTyped ==
  ASSUME Flags, Fields,
         Arm \/ Block \/ Wake \/ Timeout \/ Running \/ FindNone
           \/ (\E g \in Registries : FindBest(g)) \/ RegisterSimple \/ CopyResources
  PROVE  Fields'
<1> USE DEF Fields, Waiting, dnsVars, commitVars
<1>1. CASE Arm
  BY <1>1 DEF Arm
<1>7. CASE Block
  BY <1>7 DEF Block
<1>8. CASE Timeout
  BY <1>8 DEF Timeout
<1>2. CASE Wake
  BY <1>2 DEF Wake
<1>3. CASE Running
  BY <1>3 DEF Running
<1>4. CASE FindNone \/ \E g \in Registries : FindBest(g)
  BY <1>4 DEF FindNone, FindBest
<1>5. CASE RegisterSimple
  BY <1>5 DEF RegisterSimple, Registered
<1>6. CASE CopyResources
  BY <1>6 DEF CopyResources, Copies
<1> QED
  BY <1>1, <1>2, <1>3, <1>4, <1>5, <1>6, <1>7, <1>8

LEMMA RequestsTyped ==
  ASSUME Flags, Fields, PostNode \/ RegisterResources \/ UnregisterSimple \/ Heartbeat
  PROVE  Fields'
<1> USE RegistrationAssumption, MarkTyped
    DEF Fields, Waiting, dnsVars, commitVars, Accepts, Refuses, Fails, Trouble,
        Unregister, GiveUp, Registered, RegistrationAssumption
<1>1. CASE PostNode
  BY <1>1 DEF PostNode, Copies
<1>2. CASE RegisterResources
  BY <1>2 DEF RegisterResources
<1>3. CASE UnregisterSimple
  BY <1>3 DEF UnregisterSimple
<1>4. CASE Heartbeat
  BY <1>4 DEF Heartbeat, StaysRegistered
<1> QED
  BY <1>1, <1>2, <1>3, <1>4

LEMMA OthersTyped ==
  ASSUME Flags, Fields,
         Browser \/ CommitResources \/ InCommit \/ StopRun
           \/ \E g \in Registries : Forget(g)
  PROVE  Fields'
<1> USE RegistrationAssumption
    DEF Fields, Waiting, nodeVars, dnsVars, commitVars, Trouble, RegistrationAssumption
<1>1. CASE Browser
  BY <1>1 DEF Browser, AllForNow, SignalRemoved, HandleInstanceResolved,
              HandleInstanceRemoved
<1>2. CASE CommitResources
  BY <1>2, AgedIsACopy DEF CommitResources
<1>3. CASE CommitLook \/ CreatemDNSTxt \/ SetmDNSTxt
  BY <1>3 DEF CommitLook, CreatemDNSTxt, SetmDNSTxt
<1>4. CASE UpdateRegister
  BY <1>4 DEF UpdateRegister, Fails, Copies
<1>5. CASE CommitMarkBad
  BY <1>5, MarkTyped DEF CommitMarkBad
<1>6. CASE StopRun
  BY <1>6 DEF StopRun
<1>7. CASE \E g \in Registries : Forget(g)
  BY <1>7 DEF Forget
<1> QED
  BY <1>1, <1>2, <1>3, <1>4, <1>5, <1>6, <1>7 DEF InCommit

LEMMA NextFlags ==
  ASSUME Flags, Next
  PROVE  Flags'
<1> USE DEF Flags, nodeVars, dnsVars, commitVars
<1>1. CASE NodeThread
  BY <1>1 DEF NodeThread, Arm, Block, Wake, Timeout, Running, FindNone, FindBest,
     RegisterSimple, PostNode, CopyResources, RegisterResources, UnregisterSimple,
     Heartbeat, Registered, StaysRegistered, GiveUp
<1>2. CASE Browser
  BY <1>2 DEF Browser, AllForNow, SignalRemoved, HandleInstanceResolved,
              HandleInstanceRemoved
<1>3. CASE CommitResources \/ InCommit \/ StopRun \/ \E g \in Registries : Forget(g)
  BY <1>3 DEF InCommit, CommitResources, CommitLook, CreatemDNSTxt, SetmDNSTxt,
              UpdateRegister, CommitMarkBad, StopRun, Forget
<1> QED
  BY <1>1, <1>2, <1>3 DEF Next

LEMMA NextTypeOK == TypeOK /\ [Next]_vars => TypeOK'
<1> SUFFICES ASSUME Flags, Fields, [Next]_vars PROVE Flags' /\ Fields'
  BY DEF TypeOK, Flags, Fields
<1>1. CASE Next
  BY <1>1, NextFlags, LocalStepsTyped, RequestsTyped, OthersTyped DEF Next, NodeThread
<1>2. CASE UNCHANGED vars
  BY <1>2 DEF Flags, Fields, vars, nodeVars, dnsVars, commitVars, Waiting
<1> QED
  BY <1>1, <1>2

(***************************************************************************)
(* The state of the registration keeps its types.                          *)
(***************************************************************************)
THEOREM TypeCorrect == Spec => []TypeOK
<1> QED
  BY InitTypeOK, NextTypeOK, PTL DEF Spec

-----------------------------------------------------------------------------
(* The right loop, and the registry left behind                            *)

LEMMA InitInv == Init => Inv
<1>1. Init => Locals
  BY DEF Init, Locals, WaitsInTheRightLoop, LeavesTheRegistry, AsksARegistry,
         InTheLoop, Stopping, Waiting, InUse
<1> QED
  BY <1>1, InitTypeOK DEF Inv, Locals

LEMMA WaitingInv ==
  ASSUME Inv, Arm \/ Block \/ Wake \/ Timeout \/ Running
  PROVE  Locals'
<1> USE DEF Inv, Locals, WaitsInTheRightLoop, LeavesTheRegistry, AsksARegistry,
            InTheLoop, Stopping, Waiting, InUse, commitVars
<1>1. CASE Arm
  BY <1>1 DEF Arm
<1>2. CASE Block
  BY <1>2 DEF Block
<1>3. CASE Wake
  BY <1>3 DEF Wake
<1>4. CASE Timeout
  BY <1>4 DEF Timeout
<1>5. CASE Running
  BY <1>5 DEF Running
<1> QED
  BY <1>1, <1>2, <1>3, <1>4, <1>5

LEMMA FindInv ==
  ASSUME Inv,
         FindNone \/ (\E g \in Registries : FindBest(g)) \/ RegisterSimple \/ CopyResources
  PROVE  Locals'
<1> USE DEF Inv, Locals, WaitsInTheRightLoop, LeavesTheRegistry, AsksARegistry,
            InTheLoop, Stopping, Waiting, InUse, commitVars
<1>1. CASE FindNone
  BY <1>1 DEF FindNone
<1>2. CASE \E g \in Registries : FindBest(g)
  BY <1>2, RegistrationAssumption DEF FindBest, RegistrationAssumption
<1>3. CASE RegisterSimple
  BY <1>3 DEF RegisterSimple, Registered, TypeOK
<1>4. CASE CopyResources
  BY <1>4 DEF CopyResources
<1> QED
  BY <1>1, <1>2, <1>3, <1>4

LEMMA RequestsInv ==
  ASSUME Inv, PostNode \/ RegisterResources \/ UnregisterSimple \/ Heartbeat
  PROVE  Locals'
<1> USE DEF Inv, Locals, WaitsInTheRightLoop, LeavesTheRegistry, AsksARegistry,
            InTheLoop, Stopping, Waiting, InUse, commitVars, Unregister, GiveUp
<1>1. CASE PostNode
  BY <1>1 DEF PostNode
<1>2. CASE RegisterResources
  BY <1>2 DEF RegisterResources, Registered, TypeOK
<1>3. CASE UnregisterSimple
  BY <1>3 DEF UnregisterSimple, TypeOK
<1>4. CASE Heartbeat
  BY <1>4 DEF Heartbeat, StaysRegistered
<1> QED
  BY <1>1, <1>2, <1>3, <1>4

LEMMA OthersInv ==
  ASSUME Inv,
         Browser \/ CommitResources \/ InCommit \/ StopRun
           \/ \E g \in Registries : Forget(g)
  PROVE  Locals'
<1> USE DEF Inv, Locals, WaitsInTheRightLoop, LeavesTheRegistry, AsksARegistry,
            InTheLoop, Stopping, Waiting, InUse, nodeVars, commitVars
<1>1. CASE Browser
  BY <1>1 DEF Browser, AllForNow, SignalRemoved, HandleInstanceResolved,
              HandleInstanceRemoved
<1>2. CASE CommitResources
  BY <1>2, AgedIsACopy DEF CommitResources, TypeOK
<1>3. CASE InCommit
  BY <1>3 DEF InCommit, CommitLook, CreatemDNSTxt, SetmDNSTxt, UpdateRegister,
              CommitMarkBad
<1>4. CASE StopRun
  BY <1>4 DEF StopRun
<1>5. CASE \E g \in Registries : Forget(g)
  BY <1>5 DEF Forget, TypeOK
<1> QED
  BY <1>1, <1>2, <1>3, <1>4, <1>5

LEMMA NextInv == Inv /\ [Next]_vars => Inv'
<1> SUFFICES ASSUME Inv, [Next]_vars PROVE TypeOK' /\ Locals'
  BY DEF Inv, Locals
<1>1. TypeOK'
  BY NextTypeOK DEF Inv
<1>2. CASE Next
  BY <1>1, <1>2, WaitingInv, FindInv, RequestsInv, OthersInv DEF Next, NodeThread
<1>3. CASE UNCHANGED vars
  BY <1>1, <1>3 DEF Inv, Locals, WaitsInTheRightLoop, LeavesTheRegistry, AsksARegistry,
     InTheLoop, Stopping, InUse, vars, nodeVars, dnsVars, commitVars
<1> QED
  BY <1>2, <1>3

(***************************************************************************)
(* Whatever goes wrong with its registries, the node's thread sleeps in    *)
(* the loop that sends heartbeats exactly while it is registered.          *)
(***************************************************************************)
THEOREM RightLoop == Spec => []WaitsInTheRightLoop
<1>1. Inv => WaitsInTheRightLoop
  BY DEF Inv, Locals
<1> QED
  BY <1>1, InitInv, NextInv, PTL DEF Spec

(***************************************************************************)
(* A node that stops takes itself out of the registry it used, unless the  *)
(* DELETE fails.                                                           *)
(***************************************************************************)
THEOREM CleanStop == Spec => []LeavesTheRegistry
<1>1. Inv => LeavesTheRegistry
  BY DEF Inv, Locals
<1> QED
  BY <1>1, InitInv, NextInv, PTL DEF Spec
=============================================================================
