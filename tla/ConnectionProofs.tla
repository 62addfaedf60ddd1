------------------------- MODULE ConnectionProofs --------------------------
(***************************************************************************)
(* Proofs about ConnectionApi: its types; that senders have no ghost       *)
(* activations; that they settle between two PATCHes; and that a locked    *)
(* sender is in the queue.  Then about ConnectionParams, what a request    *)
(* stages and an activation resolves: its types; that an activation        *)
(* resolves; and that a transport file is applied or leaves RTP disabled.  *)
(***************************************************************************)
EXTENDS ConnectionApi, ConnectionParams, FiniteSetTheorems, SequenceTheorems,
        WellFoundedInduction, TLAPS

(***************************************************************************)
(* The inductive invariant behind SendersHaveNoGhosts.  A PATCH changes    *)
(* m_Staged and the queue in several steps, so for each of them it says    *)
(* what may still be queued for the sender being patched.                  *)
(***************************************************************************)

\* while a PATCH decides, what is queued is what its copy announces ...
CopyAgrees(s) ==
  target = s /\ http \in {"copied", "asking", "allowed"}
    => \A k \in Tai : Queued(s, k) => conRequest.at = k

\* ... and one that was not refused with 423 found nothing queued
FreeToStage(s) ==
  target = s /\ http \in {"asking", "allowed"} /\ conRequest.mode # "null"
    => \A k \in Tai : ~Queued(s, k)

\* what is to be removed is the time that m_Staged holds
CancelAgrees(s) ==
  Cancelling(s) => \A k \in Tai : Queued(s, k) => staged[s].at = k

\* from there on nothing is queued until AddActivation()
NothingQueued(s) ==
  target = s /\ http \in {"now", "commit", "schedule", "add", "clear"}
    => \A k \in Tai : ~Queued(s, k)

AddAgrees(s) ==
  /\ target = s /\ http \in {"schedule", "add"} => IsLocked(s)
  /\ target = s /\ http = "add" => staged[s].at = tp

QueuedOnce(s) == \A j, k \in Tai : accepted[j] = s /\ accepted[k] = s => j = k

Control ==
  /\ committed => running # None
  /\ put # "idle" => putTarget \in Receivers

InStep(s) ==
  /\ NoGhost(s) /\ CopyAgrees(s) /\ FreeToStage(s)
  /\ CancelAgrees(s) /\ NothingQueued(s) /\ AddAgrees(s) /\ QueuedOnce(s)

Inv == TypeOK /\ Control /\ \A s \in Senders : InStep(s)
-----------------------------------------------------------------------------
(* Types                                                                   *)

LEMMA InitTypeOK == Init => TypeOK
<1> SUFFICES ASSUME Init PROVE TypeOK
  OBVIOUS
<1> USE ConnectionAssumption DEF ConnectionAssumption, Init
<1>1. PICK p \in Params :
        /\ staged = [r \in Resources |-> [mode |-> "null", requested |-> None,
                                          at |-> None, param |-> p]]
        /\ active = [r \in Resources |-> p]
  OBVIOUS
<1>2. [mode |-> "null", requested |-> None, at |-> None, param |-> p] \in Connections
  BY DEF Connections, Modes
<1> QED
  BY <1>1, <1>2 DEF TypeOK, Queue!Init

LEMMA ClearedTyped ==
  ASSUME NEW c \in Connections
  PROVE  Cleared(c) \in Connections /\ Cleared(c).mode = "null"
BY DEF Cleared, Connections, Modes

\* the steps of the connection server's thread before it calls Stage()
LEMMA PatchTyped ==
  ASSUME TypeOK, (\E r \in Resources : PatchCopy(r)) \/ PatchCheck \/ Answer
  PROVE  TypeOK'
<1> USE ConnectionAssumption DEF TypeOK, queueVars, putVars
<1>1. CASE \E r \in Resources : PatchCopy(r)
  <2>1. PICK r \in Resources : PatchCopy(r)
    BY <1>1
  <2>2. conRequest' \in Connections
    <3>1. staged[r] \in Connections /\ TimesOf[r] \subseteq Tai
      BY DEF ConnectionAssumption
    <3>2. PICK p \in Params :
            \/ conRequest' = [staged[r] EXCEPT !.param = p]
            \/ \E m \in Modes, k \in TimesOf[r] \cup {None} :
                 conRequest' = [staged[r] EXCEPT !.param = p, !.mode = m, !.requested = k]
      BY <2>1 DEF PatchCopy
    <3> QED
      BY <3>1, <3>2 DEF Connections
  <2> QED
    BY <2>1, <2>2 DEF PatchCopy
<1>2. CASE PatchCheck
  BY <1>2 DEF PatchCheck, DropRequest
<1>3. CASE Answer
  BY <1>3 DEF Answer, DropRequest
<1> QED
  BY <1>1, <1>2, <1>3

\* Stage(), each step of which writes m_Staged of the target at most
LEMMA StageTyped ==
  ASSUME TypeOK,
         StageCopy \/ CancelLook \/ CancelRemove \/ CancelClear \/ ActivateNow
           \/ CommitNow \/ ScheduleTime \/ ScheduleAdd
  PROVE  TypeOK'
<1> USE ConnectionAssumption DEF TypeOK, queueVars, putVars
<1>0. staged[target] \in Connections
  OBVIOUS
<1>1. CASE StageCopy
  BY <1>1 DEF StageCopy, DropRequest
<1>2. CASE CancelLook
  BY <1>2 DEF CancelLook
<1>3. CASE CancelRemove
  <2>1. PICK k : RemoveActivation(k)
    BY <1>3 DEF CancelRemove
  <2>2. /\ accepted' \in [Tai -> Resources \cup {None}]
        /\ running' = running
        /\ running' # None => accepted'[running'] # None
    BY <2>1 DEF RemoveActivation, Queue!Withdraw
  <2> QED
    BY <1>3, <2>2 DEF CancelRemove
<1>4. CASE CancelClear
  <2>1. [staged[target] EXCEPT !.at = None] \in Connections
    BY <1>0 DEF Connections
  <2> QED
    BY <1>4, <2>1 DEF CancelClear
<1>5. CASE ActivateNow
  <2>1. /\ [staged[target] EXCEPT !.at = Past] \in Connections
        /\ staged[target].param \in Params
    BY <1>0 DEF Connections
  <2> QED
    BY <1>5, <2>1 DEF ActivateNow
<1>6. CASE CommitNow
  <2>1. staged' = [staged EXCEPT ![target] = Cleared(staged[target])]
    BY <1>6 DEF CommitNow
  <2> QED
    BY <1>0, <1>6, <2>1, ClearedTyped DEF CommitNow
<1>7. CASE ScheduleTime
  <2>1. CASE staged[target].requested = None
    BY <1>7, <2>1 DEF ScheduleTime
  <2>2. CASE staged[target].requested # None
    <3>1. tp' \in Tai
      BY <1>0, <1>7, <2>2 DEF ScheduleTime, Connections, ConnectionAssumption
    <3>2. [staged[target] EXCEPT !.at = tp'] \in Connections
      BY <1>0, <3>1 DEF Connections
    <3>3. tp' # None
      BY <3>1 DEF ConnectionAssumption
    <3> QED
      BY <1>7, <2>2, <3>1, <3>2, <3>3 DEF ScheduleTime
  <2> QED
    BY <2>1, <2>2
<1>8. CASE ScheduleAdd
  <2>1. accepted' \in [Tai -> Resources \cup {None}] /\ running' = running /\ running = None
    BY <1>8 DEF ScheduleAdd, Queue!Request
  <2> QED
    BY <1>8, <2>1 DEF ScheduleAdd
<1> QED
  BY <1>1, <1>2, <1>3, <1>4, <1>5, <1>6, <1>7, <1>8

\* the activator's thread and the one of the discovery server
LEMMA OthersTyped ==
  ASSUME TypeOK, Activation \/ (\E r \in Receivers : PutStage(r)) \/ Put
  PROVE  TypeOK'
<1> USE ConnectionAssumption DEF TypeOK, queueVars, patchVars, putVars
<1>1. CASE ActivateStaged
  <2>1. running' \in Tai /\ accepted[running'] \in Resources /\ accepted' = accepted
    BY <1>1 DEF ActivateStaged, Queue!Start, Queue!First, Queue!Taken
  <2>2. staged[accepted[running']].param \in Params
    BY <2>1 DEF Connections
  <2>3. accepted'[running'] # None
    BY <2>1 DEF ConnectionAssumption
  <2> QED
    BY <1>1, <2>1, <2>2, <2>3 DEF ActivateStaged
<1>2. CASE CommitActivation
  <2> DEFINE r == accepted[running]
  <2>1. r \in Resources /\ staged[r] \in Connections
    BY <1>2 DEF CommitActivation
  <2>2. staged' = [staged EXCEPT ![r] = Cleared(staged[r])]
    BY <1>2 DEF CommitActivation
  <2> HIDE DEF r
  <2> QED
    BY <1>2, <2>1, <2>2, ClearedTyped DEF CommitActivation
<1>3. CASE Activated
  BY <1>3 DEF Activated, Queue!Finish
<1>4. CASE \E r \in Receivers : PutStage(r)
  <2>1. PICK r \in Receivers : PutStage(r)
    BY <1>4
  <2>2. r \in Resources /\ staged[r] \in Connections
    BY DEF Resources
  <2>3. PICK p \in Params : staged' = [staged EXCEPT ![r].param = p, ![r].at = Past]
    BY <2>1 DEF PutStage
  <2>4. staged' \in [Resources -> Connections]
    BY <2>2, <2>3 DEF Connections
  <2> QED
    BY <2>1, <2>2, <2>4 DEF PutStage
<1>5. CASE PutActivate
  <2>1. staged[putTarget].param \in Params
    BY DEF Connections
  <2> QED
    BY <1>5, <2>1 DEF PutActivate
<1>6. CASE PutCommit
  <2>1. staged' = [staged EXCEPT ![putTarget] = Cleared(staged[putTarget])]
    BY <1>6 DEF PutCommit
  <2> QED
    BY <1>6, <2>1, ClearedTyped DEF PutCommit
<1> QED
  BY <1>1, <1>2, <1>3, <1>4, <1>5, <1>6 DEF Activation, Put

LEMMA NextTypeOK == TypeOK /\ [Next]_vars => TypeOK'
<1> SUFFICES ASSUME TypeOK, [Next]_vars PROVE TypeOK'
  OBVIOUS
<1>1. CASE Next
  BY <1>1, PatchTyped, StageTyped, OthersTyped DEF Next, Patch
<1>2. CASE UNCHANGED vars
  BY <1>2 DEF TypeOK, vars, queueVars, patchVars, putVars
<1> QED
  BY <1>1, <1>2

(***************************************************************************)
(* The state of a PATCH, of the queue and of what is staged keeps its      *)
(* types: in particular Stage() is only ever given a patched copy, and     *)
(* AddActivation() a valid time.                                           *)
(***************************************************************************)
THEOREM TypeCorrect == Spec => []TypeOK
<1> QED
  BY InitTypeOK, NextTypeOK, PTL DEF Spec
-----------------------------------------------------------------------------
(* No ghost activations                                                    *)

LEMMA InitInv == Init => Inv
<1> SUFFICES ASSUME Init PROVE Inv
  OBVIOUS
<1>1. TypeOK
  BY InitTypeOK
<1>2. Control
  BY DEF Init, Control
<1>3. ASSUME NEW s \in Senders PROVE InStep(s)
  <2>1. \A k \in Tai : accepted[k] # s
    BY ConnectionAssumption DEF Init, Queue!Init, ConnectionAssumption, Resources
  <2>2. http = "idle"
    BY DEF Init
  <2> QED
    BY <2>1, <2>2 DEF InStep, NoGhost, CopyAgrees, FreeToStage, CancelAgrees,
                      NothingQueued, AddAgrees, QueuedOnce, Queued, Cancelling
<1> QED
  BY <1>1, <1>2, <1>3 DEF Inv

LEMMA NextControl == Inv /\ [Next]_vars => Control'
<1> SUFFICES ASSUME Inv, [Next]_vars PROVE Control'
  OBVIOUS
<1> USE DEF Control, Inv, queueVars, putVars, patchVars
<1>1. CASE \E r \in Resources : PatchCopy(r)
  <2>1. PICK r \in Resources : PatchCopy(r)
    BY <1>1
  <2>2. UNCHANGED <<committed, running, put, putTarget>>
    BY <2>1 DEF PatchCopy
  <2> QED
    BY <2>2
<1>2. CASE Answer \/ Patch
  <2>1. UNCHANGED <<committed, putVars>>
    BY <1>2 DEF Answer, Patch, PatchCheck, StageCopy, CancelLook, CancelRemove,
       CancelClear, ActivateNow, CommitNow, ScheduleTime, ScheduleAdd
  <2>2. running' = running
    BY <1>2 DEF Answer, Patch, PatchCheck, StageCopy, CancelLook, CancelRemove,
       CancelClear, ActivateNow, CommitNow, ScheduleTime, ScheduleAdd,
       RemoveActivation, Queue!Withdraw, Queue!Request
  <2> QED
    BY <2>1, <2>2
<1>3. CASE Activation
  BY <1>3 DEF Activation, ActivateStaged, CommitActivation, Activated
<1>4. CASE (\E r \in Receivers : PutStage(r)) \/ Put
  BY <1>4 DEF PutStage, Put, PutActivate, PutCommit
<1>5. CASE UNCHANGED vars
  BY <1>5 DEF vars
<1> QED
  BY <1>1, <1>2, <1>3, <1>4, <1>5 DEF Next

\* the steps of the thread that serves PATCH
LEMMA PatchInStep ==
  ASSUME Inv, NEW s \in Senders,
         (\E r \in Resources : PatchCopy(r)) \/ Answer \/ Patch
  PROVE  InStep(s)'
<1> USE ConnectionAssumption DEF InStep, NoGhost, CopyAgrees, FreeToStage,
      CancelAgrees, NothingQueued, AddAgrees, QueuedOnce, Queued, Cancelling,
      queueVars, patchVars, putVars
<1>0. InStep(s) /\ TypeOK /\ Control /\ s \in Resources /\ s # None
  BY DEF Inv, Resources, ConnectionAssumption
<1>1. CASE \E r \in Resources : PatchCopy(r)
  <2>1. PICK r \in Resources : PatchCopy(r)
    BY <1>1
  <2>2. staged[r] \in Connections /\ conRequest'.at = staged[r].at
    BY <1>0, <2>1 DEF TypeOK, PatchCopy, Connections
  <2> QED
    BY <1>0, <2>1, <2>2 DEF PatchCopy, IsLocked
<1>2. CASE PatchCheck
  BY <1>0, <1>2 DEF PatchCheck, IsLocked
<1>3. CASE Answer
  BY <1>0, <1>3 DEF Answer, IsLocked
<1>4. CASE StageCopy
  <2>1. staged' = [staged EXCEPT ![target] = conRequest] /\ target' = target
    BY <1>4 DEF StageCopy
  <2>2. http' = "schedule" => conRequest.mode \in Scheduled
    BY <1>0, <1>4 DEF StageCopy, TypeOK, Connections, Modes, Scheduled
  <2>3. http' \in {"cancel", "now", "schedule"}
    BY <1>4 DEF StageCopy
  <2>4. http' = "cancel" <=> conRequest.mode = "null"
    BY <1>4 DEF StageCopy
  <2> QED
    BY <1>0, <1>4, <2>1, <2>2, <2>3, <2>4 DEF StageCopy, TypeOK, IsLocked
<1>5. CASE CancelLook
  BY <1>0, <1>5 DEF CancelLook, IsLocked, ConnectionAssumption
<1>6. CASE CancelRemove
  <2>1. PICK k \in IF staged[target].at # None THEN {staged[target].at} ELSE Garbage :
          RemoveActivation(k)
    BY <1>6 DEF CancelRemove
  <2>2. /\ running = None /\ running' = None /\ ~committed
        /\ \A j \in Tai : accepted'[j] = accepted[j] \/ accepted'[j] = None
        /\ k \in Tai => accepted'[k] # target
    BY <1>0, <2>1 DEF RemoveActivation, Queue!Withdraw, TypeOK, Control,
                      ConnectionAssumption
  <2>3. \A j \in Tai : accepted'[j] = s => accepted[j] = s
    BY <1>0, <2>2
  <2>4. target = s => \A j \in Tai : accepted'[j] # s
    BY <1>0, <1>6, <2>1, <2>2, <2>3 DEF CancelRemove, ConnectionAssumption
  <2> QED
    BY <1>0, <1>6, <2>2, <2>3, <2>4 DEF CancelRemove, IsLocked
<1>7. CASE CancelClear
  <2>1. \A r \in Resources : r # target => staged'[r] = staged[r]
    BY <1>0, <1>7 DEF CancelClear, TypeOK
  <2> QED
    BY <1>0, <1>7, <2>1 DEF CancelClear, IsLocked
<1>8. CASE ActivateNow
  <2>1. \A r \in Resources : r # target => staged'[r] = staged[r]
    BY <1>0, <1>8 DEF ActivateNow, TypeOK
  <2> QED
    BY <1>0, <1>8, <2>1 DEF ActivateNow, IsLocked
<1>9. CASE CommitNow
  <2>1. \A r \in Resources : r # target => staged'[r] = staged[r]
    BY <1>0, <1>9 DEF CommitNow, TypeOK
  <2> QED
    BY <1>0, <1>9, <2>1 DEF CommitNow, IsLocked
<1>10. CASE ScheduleTime
  <2>1. \A r \in Resources : r # target => staged'[r] = staged[r]
    BY <1>0, <1>10 DEF ScheduleTime, TypeOK
  <2>2. target = s /\ http' = "add" => IsLocked(s)' /\ staged'[s].at = tp'
    <3> SUFFICES ASSUME target = s, http' = "add"
                 PROVE  IsLocked(s)' /\ staged'[s].at = tp'
      OBVIOUS
    <3>1. staged' = [staged EXCEPT ![target].at = tp']
      BY <1>10 DEF ScheduleTime
    <3>2. staged[target] \in Connections /\ target' = target
      BY <1>0, <1>10 DEF TypeOK, ScheduleTime
    <3>3. staged'[target] = [staged[target] EXCEPT !.at = tp']
      BY <1>0, <3>1 DEF TypeOK
    <3>4. staged[target].mode \in Scheduled
      BY <1>0, <1>10 DEF ScheduleTime, IsLocked
    <3> QED
      BY <3>2, <3>3, <3>4 DEF IsLocked, Connections
  <2>3. http' # "add" => staged' = staged
    BY <1>10 DEF ScheduleTime
  <2> QED
    BY <1>0, <1>10, <2>1, <2>2, <2>3 DEF ScheduleTime, IsLocked
<1>11. CASE ScheduleAdd
  <2>1. /\ running = None /\ running' = None /\ tp \in Tai
        /\ \A j \in Tai : accepted'[j] = accepted[j] \/ (j = tp /\ accepted'[j] = target)
    BY <1>0, <1>11 DEF ScheduleAdd, Queue!Request, TypeOK
  <2>2. target = s => \A j \in Tai : accepted'[j] = s => j = tp
    BY <1>0, <1>11, <2>1 DEF ScheduleAdd, Control, ConnectionAssumption
  <2>3. target # s => \A j \in Tai : accepted'[j] = s => accepted[j] = s
    BY <2>1
  <2> QED
    BY <1>0, <1>11, <2>1, <2>2, <2>3 DEF ScheduleAdd, IsLocked, Control
<1> QED
  BY <1>1, <1>2, <1>3, <1>4, <1>5, <1>6, <1>7, <1>8, <1>9, <1>10, <1>11 DEF Patch

\* the steps of the activator, which clears what it has activated, and of
\* PUT, which only touches receivers
LEMMA OthersInStep ==
  ASSUME Inv, NEW s \in Senders,
         Activation \/ (\E r \in Receivers : PutStage(r)) \/ Put
  PROVE  InStep(s)'
<1> USE ConnectionAssumption DEF InStep, NoGhost, CopyAgrees, FreeToStage,
      CancelAgrees, NothingQueued, AddAgrees, QueuedOnce, Queued, Cancelling,
      queueVars, patchVars, putVars
<1>0. InStep(s) /\ TypeOK /\ Control /\ s \in Resources /\ s # None /\ s \notin Receivers
  BY DEF Inv, Resources, ConnectionAssumption
<1>1. CASE ActivateStaged
  <2>1. running = None /\ running' \in Tai /\ ~committed /\ ~committed'
    BY <1>0, <1>1 DEF ActivateStaged, Queue!Start, Queue!First, Queue!Taken,
                      Control, TypeOK
  <2>2. UNCHANGED <<accepted, staged, http, target, conRequest, tp>>
    BY <1>1 DEF ActivateStaged, Queue!Start
  <2> QED
    BY <1>0, <2>1, <2>2 DEF IsLocked
<1>2. CASE CommitActivation
  <2>1. /\ running \in Tai /\ ~committed /\ committed' /\ accepted' = accepted
        /\ running' = running
        /\ \A r \in Resources : r # accepted[running] => staged'[r] = staged[r]
    BY <1>0, <1>2 DEF CommitActivation, TypeOK
  <2>2. CASE accepted[running] = s
    <3>1. \A k \in Tai : ~Queued(s, k)'
      BY <1>0, <2>1, <2>2
    <3>2. ~(target = s /\ http \in {"schedule", "add"})
      BY <1>0, <2>1, <2>2
    <3> QED
      BY <1>0, <1>2, <3>1, <3>2, <2>1 DEF CommitActivation
  <2>3. CASE accepted[running] # s
    BY <1>0, <1>2, <2>1, <2>3 DEF CommitActivation, IsLocked
  <2> QED
    BY <2>2, <2>3
<1>3. CASE Activated
  <2>1. /\ running # None /\ committed /\ running' = None /\ ~committed'
        /\ accepted' = [accepted EXCEPT ![running] = None]
        /\ UNCHANGED <<staged, http, target, conRequest, tp>>
    BY <1>3 DEF Activated, Queue!Finish
  <2>2. \A k \in Tai : accepted'[k] = s => accepted[k] = s /\ k # running
    BY <1>0, <2>1 DEF TypeOK
  <2>3. \A k \in Tai : Queued(s, k)' => Queued(s, k)
    BY <2>1, <2>2
  <2> QED
    BY <1>0, <2>1, <2>2, <2>3 DEF IsLocked
<1>4. CASE (\E r \in Receivers : PutStage(r)) \/ Put
  <2>1. /\ UNCHANGED <<accepted, running, committed, http, target, conRequest, tp>>
        /\ staged'[s] = staged[s]
    <3>1. ASSUME NEW r \in Receivers, PutStage(r)
          PROVE  /\ UNCHANGED <<accepted, running, committed, http, target, conRequest, tp>>
                 /\ staged'[s] = staged[s]
      BY <1>0, <3>1 DEF PutStage, TypeOK
    <3>2. CASE Put
      BY <1>0, <3>2 DEF Put, PutActivate, PutCommit, Control, TypeOK
    <3> QED
      BY <1>4, <3>1, <3>2
  <2> QED
    BY <1>0, <2>1 DEF IsLocked
<1> QED
  BY <1>1, <1>2, <1>3, <1>4 DEF Activation

LEMMA NextInv == Inv /\ [Next]_vars => Inv'
<1> SUFFICES ASSUME Inv, [Next]_vars PROVE Inv'
  OBVIOUS
<1>1. TypeOK'
  BY NextTypeOK DEF Inv
<1>2. Control'
  BY NextControl
<1>3. ASSUME NEW s \in Senders PROVE InStep(s)'
  <2>1. CASE Next
    BY <2>1, PatchInStep, OthersInStep DEF Next
  <2>2. CASE UNCHANGED vars
    BY <2>2 DEF Inv, InStep, NoGhost, CopyAgrees, FreeToStage, CancelAgrees,
       NothingQueued, AddAgrees, QueuedOnce, Queued, Cancelling, IsLocked,
       vars, queueVars, patchVars, putVars
  <2> QED
    BY <2>1, <2>2
<1> QED
  BY <1>1, <1>2, <1>3 DEF Inv

(***************************************************************************)
(* No sender is activated by a request that was cancelled or replaced:     *)
(* whatever is queued for it is the activation it is locked for.           *)
(***************************************************************************)
THEOREM NoSenderGhosts == Spec => []SendersHaveNoGhosts
<1>1. Inv => SendersHaveNoGhosts
  BY DEF Inv, InStep, SendersHaveNoGhosts
<1> QED
  BY <1>1, InitInv, NextInv, PTL DEF Spec
-----------------------------------------------------------------------------
(* What is staged between two PATCHes                                      *)

\* in the second half of Stage() the mode is the one that led there, unless
\* an activation has been committed meanwhile
StagedMode(s) ==
  /\ target = s /\ http \in {"cancel", "remove", "clear"} => staged[s].mode = "null"
  /\ target = s /\ http \in {"now", "commit"} => ~IsLocked(s)

\* the other threads leave a sender alone, or clear what it has staged
LEMMA OthersStage ==
  ASSUME Inv, NEW s \in Senders,
         Activation \/ (\E r \in Receivers : PutStage(r)) \/ Put
  PROVE  /\ UNCHANGED patchVars
         /\ \/ staged'[s] = staged[s]
            \/ CommitActivation /\ accepted[running] = s /\ staged'[s] = Cleared(staged[s])
<1>0. TypeOK /\ Control /\ s \in Resources /\ s \notin Receivers
  BY ConnectionAssumption DEF Inv, Resources, ConnectionAssumption
<1>1. CASE ActivateStaged \/ Activated
  BY <1>1 DEF ActivateStaged, Activated
<1>2. CASE CommitActivation
  BY <1>0, <1>2 DEF CommitActivation, TypeOK
<1>3. CASE \E r \in Receivers : PutStage(r)
  BY <1>0, <1>3 DEF PutStage, TypeOK
<1>4. CASE Put
  BY <1>0, <1>4 DEF Put, PutActivate, PutCommit, Control, TypeOK
<1> QED
  BY <1>1, <1>2, <1>3, <1>4 DEF Activation

LEMMA InitMode == ASSUME Init, NEW s \in Senders PROVE StagedMode(s)
BY DEF Init, StagedMode

LEMMA NextMode ==
  ASSUME Inv, NEW s \in Senders, StagedMode(s), [Next]_vars
  PROVE  StagedMode(s)'
<1> USE DEF StagedMode, IsLocked, Scheduled, queueVars, putVars
<1>0. TypeOK /\ s \in Resources
  BY DEF Inv, Resources
<1>1. CASE (\E r \in Resources : PatchCopy(r)) \/ PatchCheck \/ Answer
  <2>1. http' \in {"idle", "copied", "asking", "allowed"}
    BY <1>1 DEF PatchCopy, PatchCheck, Answer
  <2> QED
    BY <2>1
<1>2. CASE StageCopy
  <2>1. /\ http' \in {"cancel", "now", "schedule"}
        /\ http' = "cancel" => conRequest.mode = "null"
        /\ http' = "now" => conRequest.mode = "now"
    BY <1>2 DEF StageCopy
  <2>2. target' = target /\ staged'[target] = conRequest
    BY <1>0, <1>2 DEF StageCopy, TypeOK
  <2> QED
    BY <2>1, <2>2
<1>3. CASE CancelLook \/ CancelRemove
  BY <1>3 DEF CancelLook, CancelRemove
<1>4. CASE CancelClear \/ CommitNow \/ ScheduleTime \/ ScheduleAdd
  <2>1. http' \in {"idle", "add"}
    BY <1>4 DEF CancelClear, CommitNow, ScheduleTime, ScheduleAdd
  <2> QED
    BY <2>1
<1>5. CASE ActivateNow
  <2>1. staged'[target].mode = staged[target].mode
    BY <1>0, <1>5 DEF ActivateNow, TypeOK, Connections
  <2> QED
    BY <1>5, <2>1 DEF ActivateNow
<1>6. CASE Activation \/ (\E r \in Receivers : PutStage(r)) \/ Put
  <2>1. /\ UNCHANGED patchVars
        /\ staged'[s] = staged[s] \/ staged'[s] = Cleared(staged[s])
    BY <1>6, OthersStage
  <2>2. staged'[s].mode = staged[s].mode \/ staged'[s].mode = "null"
    BY <1>0, <2>1, ClearedTyped DEF TypeOK
  <2> QED
    BY <2>1, <2>2 DEF patchVars
<1>7. CASE UNCHANGED vars
  BY <1>7 DEF vars, patchVars
<1> QED
  BY <1>1, <1>2, <1>3, <1>4, <1>5, <1>6, <1>7 DEF Next, Patch

(***************************************************************************)
(* Settled: a sender's staged parameters rest, free or locked, except in   *)
(* the second half of Stage().                                             *)
(***************************************************************************)

Rest(s) == (staged[s].mode = "null" /\ staged[s].at = None) \/ IsLocked(s)

SettledInv(s) ==
  ~(target = s /\ http \in {"cancel", "remove", "clear", "now", "commit"}) => Rest(s)


LEMMA InitSettled == ASSUME Init, NEW s \in Senders PROVE SettledInv(s)
<1>1. s \in Resources
  BY DEF Resources
<1> QED
  BY <1>1 DEF Init, SettledInv, Rest

LEMMA PatchSettled ==
  ASSUME HasPoster, Inv, NEW s \in Senders, StagedMode(s), SettledInv(s),
         (\E r \in Resources : PatchCopy(r)) \/ Answer \/ Patch
  PROVE  SettledInv(s)'
<1> USE DEF StagedMode, SettledInv, Rest, queueVars, putVars
<1>0. TypeOK /\ AddAgrees(s) /\ s \in Resources
  BY DEF Inv, InStep, Resources
<1>1. CASE \E r \in Resources : PatchCopy(r)
  <2>1. PICK r \in Resources : PatchCopy(r)
    BY <1>1
  <2> QED
    BY <2>1 DEF PatchCopy, IsLocked
<1>2. CASE PatchCheck \/ Answer
  <2>1. UNCHANGED <<staged, target>> /\ http \in {"copied", "asking"}
        /\ http' \in {"idle", "asking", "allowed"}
    BY <1>2 DEF PatchCheck, Answer
  <2> QED
    BY <2>1 DEF IsLocked
<1>3. CASE StageCopy
  <2>1. /\ http' \in {"cancel", "now", "schedule"} /\ http = "allowed" /\ target' = target
        /\ http' = "cancel" => conRequest.mode = "null"
        /\ http' = "schedule" => conRequest.mode \in Scheduled
    BY <1>0, <1>3 DEF StageCopy, TypeOK, Connections, Modes, Scheduled
  <2>2. \A r \in Resources : staged'[r] = IF r = target THEN conRequest ELSE staged[r]
    BY <1>0, <1>3 DEF StageCopy, TypeOK
  <2> QED
    BY <1>0, <2>1, <2>2 DEF IsLocked
<1>4. CASE CancelLook
  BY <1>4 DEF CancelLook, IsLocked
<1>5. CASE CancelRemove
  BY <1>5 DEF CancelRemove, IsLocked
<1>6. CASE CancelClear
  <2>1. \A r \in Resources : r # target => staged'[r] = staged[r]
    BY <1>0, <1>6 DEF CancelClear, TypeOK
  <2>2. staged'[target].mode = staged[target].mode /\ staged'[target].at = None
    BY <1>0, <1>6 DEF CancelClear, TypeOK, Connections
  <2> QED
    BY <1>0, <1>6, <2>1, <2>2 DEF CancelClear, IsLocked
<1>7. CASE ActivateNow
  <2>1. \A r \in Resources : r # target => staged'[r] = staged[r]
    BY <1>0, <1>7 DEF ActivateNow, TypeOK
  <2> QED
    BY <1>0, <1>7, <2>1 DEF ActivateNow, IsLocked
<1>8. CASE CommitNow
  <2>1. \A r \in Resources : r # target => staged'[r] = staged[r]
    BY <1>0, <1>8 DEF CommitNow, TypeOK
  <2>2. staged'[target].mode = "null" /\ staged'[target].at = None
    BY <1>0, <1>8 DEF CommitNow, Cleared, TypeOK, Connections
  <2> QED
    BY <1>0, <1>8, <2>1, <2>2 DEF CommitNow, IsLocked
<1>9. CASE ScheduleTime
  <2>1. \A r \in Resources : r # target => staged'[r] = staged[r]
    BY <1>0, <1>9 DEF ScheduleTime, TypeOK
  <2>2. staged'[target].mode = staged[target].mode
    BY <1>0, <1>9 DEF ScheduleTime, TypeOK, Connections
  <2> QED
    BY <1>0, <1>9, <2>1, <2>2 DEF ScheduleTime, AddAgrees, IsLocked
<1>10. CASE ScheduleAdd
  BY <1>0, <1>10 DEF ScheduleAdd, AddAgrees, IsLocked
<1> QED
  BY <1>1, <1>2, <1>3, <1>4, <1>5, <1>6, <1>7, <1>8, <1>9, <1>10 DEF Patch

LEMMA NextSettled ==
  ASSUME HasPoster, Inv, NEW s \in Senders, StagedMode(s), SettledInv(s), [Next]_vars
  PROVE  SettledInv(s)'
<1>1. CASE Activation \/ (\E r \in Receivers : PutStage(r)) \/ Put
  <2>1. CASE UNCHANGED patchVars /\ staged'[s] = staged[s]
    BY <2>1 DEF SettledInv, Rest, IsLocked, patchVars
  <2>2. CASE UNCHANGED patchVars /\ staged'[s] = Cleared(staged[s])
    <3>1. staged[s] \in Connections
      BY DEF Inv, TypeOK, Resources
    <3>2. staged'[s].mode = "null" /\ staged'[s].at = None
      BY <2>2, <3>1 DEF Cleared, Connections
    <3> QED
      BY <2>2, <3>2 DEF SettledInv, Rest, patchVars
  <2> QED
    BY <1>1, <2>1, <2>2, OthersStage
<1>2. CASE UNCHANGED vars
  BY <1>2 DEF SettledInv, Rest, IsLocked, vars, patchVars
<1> QED
  BY <1>1, <1>2, PatchSettled DEF Next

(***************************************************************************)
(* Without a controller's PATCH under way every sender is free, with no    *)
(* activation time left over, or locked: if the application gave Init() an *)
(* EventPoster, for otherwise an immediate activation is not committed.    *)
(***************************************************************************)
THEOREM SendersSettle == ASSUME HasPoster PROVE Spec => []Settled
<1> DEFINE SInv == Inv /\ \A s \in Senders : StagedMode(s) /\ SettledInv(s)
<1>1. Init => SInv
  BY InitInv, InitMode, InitSettled
<1>2. SInv /\ [Next]_vars => SInv'
  BY NextInv, NextMode, NextSettled
<1>3. SInv => Settled
  BY DEF SettledInv, Rest, Settled
<1> QED
  BY <1>1, <1>2, <1>3, PTL DEF Spec
-----------------------------------------------------------------------------
(* What is announced is in the queue                                       *)

(***************************************************************************)
(* LockedMeansPending holds for a sender whose times nobody else asks for, *)
(* which an empty time read by mistake is not either.                      *)
(***************************************************************************)
DistinctTimes ==
  \A s \in Senders :
    /\ \A r \in Resources : r # s => TimesOf[r] \cap TimesOf[s] = {}
    /\ Garbage \cap TimesOf[s] = {}

\* the times in a record of m_Staged's type
TimesFit(c, r) ==
  c.at \in TimesOf[r] \cup {None, Past} /\ c.requested \in TimesOf[r] \cup {None}

\* every time that is on its way to the queue or in it belongs to its resource
OwnTimes ==
  /\ \A k \in Tai : accepted[k] # None => k \in TimesOf[accepted[k]]
  /\ \A r \in Resources : TimesFit(staged[r], r)
  /\ http \in {"copied", "asking", "allowed"} => TimesFit(conRequest, target)
  /\ http = "add" => tp \in TimesOf[target]

Announces(s) == IsLocked(s) /\ staged[s].requested # None

InQueue(s) == staged[s].at \in Tai /\ accepted[staged[s].at] = s

\* from the second half of Stage() on nothing is promised
PendingInv(s) ==
  Announces(s) /\ ~(target = s /\ http \in {"schedule", "add"}) => InQueue(s)

\* what has been committed is not announced again before it leaves the queue
CommittedIsOver(s) ==
  running # None /\ committed /\ accepted[running] = s
    => ~Announces(s) \/ (target = s /\ http \in {"schedule", "add"})

LEMMA ClearedFits ==
  ASSUME NEW c \in Connections, NEW r PROVE TimesFit(Cleared(c), r)
BY DEF Cleared, Connections, TimesFit

LEMMA InitOwnTimes == Init => OwnTimes
BY DEF Init, OwnTimes, TimesFit, Queue!Init

LEMMA PatchOwnTimes ==
  ASSUME TypeOK, OwnTimes, (\E r \in Resources : PatchCopy(r)) \/ PatchCheck \/ Answer
  PROVE  OwnTimes'
<1> USE DEF OwnTimes, queueVars
<1>1. CASE \E r \in Resources : PatchCopy(r)
  <2>1. PICK r \in Resources : PatchCopy(r)
    BY <1>1
  <2>2. TimesFit(conRequest', r)
    <3>1. staged[r] \in Connections
      BY DEF TypeOK
    <3>2. PICK p \in Params :
            \/ conRequest' = [staged[r] EXCEPT !.param = p]
            \/ \E m \in Modes, k \in TimesOf[r] \cup {None} :
                 conRequest' = [staged[r] EXCEPT !.param = p, !.mode = m, !.requested = k]
      BY <2>1 DEF PatchCopy
    <3> QED
      BY <3>1, <3>2 DEF Connections, TimesFit
  <2> QED
    BY <2>1, <2>2 DEF PatchCopy, TimesFit
<1>2. CASE PatchCheck
  BY <1>2 DEF PatchCheck
<1>3. CASE Answer
  BY <1>3 DEF Answer
<1> QED
  BY <1>1, <1>2, <1>3

LEMMA StageOwnTimes ==
  ASSUME TypeOK, OwnTimes,
         StageCopy \/ CancelLook \/ CancelRemove \/ CancelClear \/ ActivateNow
           \/ CommitNow \/ ScheduleTime \/ ScheduleAdd
  PROVE  OwnTimes'
<1> USE DEF OwnTimes, queueVars
<1>0. target \in Resources /\ staged[target] \in Connections /\ TimesFit(staged[target], target)
  BY DEF TypeOK, TimesFit
<1>1. CASE StageCopy
  BY <1>0, <1>1 DEF StageCopy, TypeOK, TimesFit
<1>2. CASE CancelLook
  BY <1>2 DEF CancelLook
<1>3. CASE CancelRemove
  <2>1. PICK k : RemoveActivation(k)
    BY <1>3 DEF CancelRemove
  <2>2. \A j \in Tai : accepted'[j] = accepted[j] \/ accepted'[j] = None
    BY <2>1 DEF RemoveActivation, Queue!Withdraw, TypeOK
  <2> QED
    BY <1>3, <2>2 DEF CancelRemove
<1>4. CASE CancelClear
  <2>1. TimesFit([staged[target] EXCEPT !.at = None], target)
    BY <1>0 DEF Connections, TimesFit
  <2> QED
    BY <1>4, <2>1 DEF CancelClear, TypeOK, TimesFit
<1>5. CASE ActivateNow
  <2>1. TimesFit([staged[target] EXCEPT !.at = Past], target)
    BY <1>0 DEF Connections, TimesFit
  <2> QED
    BY <1>5, <2>1 DEF ActivateNow, TypeOK, TimesFit
<1>6. CASE CommitNow
  <2>1. TimesFit(Cleared(staged[target]), target)
    BY <1>0, ClearedFits
  <2>2. staged' = [staged EXCEPT ![target] = Cleared(staged[target])]
    BY <1>6 DEF CommitNow
  <2> QED
    BY <1>0, <1>6, <2>1, <2>2 DEF CommitNow, TypeOK, TimesFit
<1>7. CASE ScheduleTime
  <2>1. CASE staged[target].requested = None
    BY <1>7, <2>1 DEF ScheduleTime
  <2>2. CASE staged[target].requested # None
    <3>1. tp' \in TimesOf[target]
      BY <1>0, <1>7, <2>2 DEF ScheduleTime, TimesFit
    <3>2. TimesFit([staged[target] EXCEPT !.at = tp'], target)
      BY <1>0, <3>1 DEF Connections, TimesFit
    <3> QED
      BY <1>7, <2>2, <3>1, <3>2 DEF ScheduleTime, TypeOK, TimesFit
  <2> QED
    BY <2>1, <2>2
<1>8. CASE ScheduleAdd
  <2>1. \A j \in Tai : accepted'[j] = accepted[j] \/ (j = tp /\ accepted'[j] = target)
    BY <1>8 DEF ScheduleAdd, Queue!Request, TypeOK
  <2> QED
    BY <1>8, <2>1 DEF ScheduleAdd
<1> QED
  BY <1>1, <1>2, <1>3, <1>4, <1>5, <1>6, <1>7, <1>8

LEMMA OthersOwnTimes ==
  ASSUME TypeOK, Control, OwnTimes, Activation \/ (\E r \in Receivers : PutStage(r)) \/ Put
  PROVE  OwnTimes'
<1>1. /\ UNCHANGED <<http, target, conRequest, tp>>
      /\ \A k \in Tai : accepted'[k] = accepted[k] \/ accepted'[k] = None
  <2>1. CASE ActivateStaged \/ CommitActivation
    BY <2>1 DEF ActivateStaged, Queue!Start, CommitActivation, patchVars, queueVars
  <2>2. CASE Activated
    BY <2>2 DEF Activated, Queue!Finish, patchVars, TypeOK
  <2>3. CASE (\E r \in Receivers : PutStage(r)) \/ Put
    BY <2>3 DEF PutStage, Put, PutActivate, PutCommit, patchVars, queueVars
  <2> QED
    BY <2>1, <2>2, <2>3 DEF Activation
<1>2. ASSUME NEW r \in Resources PROVE TimesFit(staged'[r], r)
  <2>0. staged[r] \in Connections /\ TimesFit(staged[r], r)
    BY DEF TypeOK, OwnTimes, TimesFit
  <2>1. \/ staged'[r] = staged[r]
        \/ staged'[r] = Cleared(staged[r])
        \/ \E p \in Params : staged'[r] = [staged[r] EXCEPT !.param = p, !.at = Past]
    <3>1. CASE ActivateStaged \/ Activated
      BY <3>1 DEF ActivateStaged, Activated
    <3>2. CASE CommitActivation
      BY <3>2 DEF CommitActivation, TypeOK
    <3>3. CASE \E q \in Receivers : PutStage(q)
      <4>1. PICK q \in Receivers, p \in Params :
              staged' = [staged EXCEPT ![q].param = p, ![q].at = Past]
        BY <3>3 DEF PutStage
      <4> QED
        BY <4>1 DEF TypeOK
    <3>4. CASE Put
      BY <3>4 DEF Put, PutActivate, PutCommit, TypeOK
    <3> QED
      BY <3>1, <3>2, <3>3, <3>4 DEF Activation
  <2> QED
    BY <2>0, <2>1, ClearedFits DEF Connections, TimesFit
<1> QED
  BY <1>1, <1>2 DEF OwnTimes, TimesFit

LEMMA NextOwnTimes == Inv /\ OwnTimes /\ [Next]_vars => OwnTimes'
<1> SUFFICES ASSUME Inv, OwnTimes, [Next]_vars PROVE OwnTimes'
  OBVIOUS
<1>1. CASE Next
  BY <1>1, PatchOwnTimes, StageOwnTimes, OthersOwnTimes DEF Next, Patch, Inv
<1>2. CASE UNCHANGED vars
  BY <1>2 DEF OwnTimes, vars, queueVars, patchVars
<1> QED
  BY <1>1, <1>2

(***************************************************************************)
(* Nobody else is in the queue, or is withdrawn from it, at a time of s.   *)
(***************************************************************************)
LEMMA OnlyOwn ==
  ASSUME DistinctTimes, TypeOK, OwnTimes, NEW s \in Senders
  PROVE  /\ \A k \in TimesOf[s] : k \in Tai /\ accepted[k] \in {None, s}
         /\ target # s /\ http = "remove" =>
              \A k \in (IF staged[target].at # None THEN {staged[target].at} ELSE Garbage) :
                k \notin TimesOf[s]
<1> USE ConnectionAssumption DEF ConnectionAssumption
<1>1. s \in Resources /\ TimesOf[s] \subseteq Tai
  BY DEF Resources
<1>2. ASSUME NEW k \in TimesOf[s] PROVE accepted[k] \in {None, s}
  BY <1>1, <1>2 DEF DistinctTimes, OwnTimes, TypeOK
<1>3. ASSUME target # s,
             NEW k \in IF staged[target].at # None THEN {staged[target].at} ELSE Garbage
      PROVE  k \notin TimesOf[s]
  <2>1. CASE staged[target].at # None
    <3>1. target \in Resources /\ k \in TimesOf[target] \cup {Past}
      BY <1>3, <2>1 DEF OwnTimes, TimesFit, TypeOK
    <3> QED
      BY <1>1, <1>3, <3>1 DEF DistinctTimes
  <2>2. CASE staged[target].at = None
    BY <1>3, <2>2 DEF DistinctTimes
  <2> QED
    BY <2>1, <2>2
<1> QED
  BY <1>1, <1>2, <1>3

LEMMA InitPending ==
  ASSUME Init, NEW s \in Senders PROVE PendingInv(s) /\ CommittedIsOver(s)
<1>1. s \in Resources
  BY DEF Resources
<1> QED
  BY <1>1 DEF Init, Queue!Init, PendingInv, CommittedIsOver, Announces, IsLocked, Scheduled

LEMMA PatchPending ==
  ASSUME DistinctTimes, Inv, OwnTimes, NEW s \in Senders,
         StagedMode(s), PendingInv(s), CommittedIsOver(s),
         (\E r \in Resources : PatchCopy(r)) \/ Answer \/ Patch
  PROVE  PendingInv(s)' /\ CommittedIsOver(s)'
<1> USE DEF PendingInv, CommittedIsOver, Announces, InQueue, queueVars, putVars
<1>0. TypeOK /\ Control /\ AddAgrees(s) /\ s \in Resources
  BY DEF Inv, InStep, Resources
<1>1. CASE (\E r \in Resources : PatchCopy(r)) \/ PatchCheck \/ Answer
  <2>1. UNCHANGED <<queueVars, staged, committed>> /\ http \notin {"schedule", "add"}
    BY <1>1 DEF PatchCopy, PatchCheck, Answer
  <2>2. http' \notin {"schedule", "add"}
    BY <1>1 DEF PatchCopy, PatchCheck, Answer
  <2> QED
    BY <2>1, <2>2 DEF IsLocked
<1>2. CASE StageCopy
  <2>1. /\ UNCHANGED <<queueVars, committed, target>> /\ http = "allowed"
        /\ http' # "schedule" => conRequest.mode \notin Scheduled
    BY <1>2 DEF StageCopy, Scheduled
  <2>2. \A r \in Resources : staged'[r] = IF r = target THEN conRequest ELSE staged[r]
    BY <1>0, <1>2 DEF StageCopy, TypeOK
  <2> QED
    BY <1>0, <2>1, <2>2 DEF IsLocked
<1>3. CASE CancelLook
  BY <1>3 DEF CancelLook, IsLocked
<1>4. CASE CancelRemove
  <2>1. PICK k \in IF staged[target].at # None THEN {staged[target].at} ELSE Garbage :
          RemoveActivation(k)
    BY <1>4 DEF CancelRemove
  <2>2. /\ running' = None
        /\ \A j \in Tai : j # k => accepted'[j] = accepted[j]
    BY <1>0, <2>1 DEF RemoveActivation, Queue!Withdraw, TypeOK
  <2>3. CASE target = s
    BY <1>4, <2>2, <2>3 DEF CancelRemove, StagedMode, IsLocked, Scheduled
  <2>4. CASE target # s
    <3>1. k \notin TimesOf[s]
      BY <1>0, <1>4, <2>1, <2>4, OnlyOwn DEF CancelRemove
    <3>2. staged[s].at \in Tai => staged[s].at # k
      BY <1>0, <3>1, ConnectionAssumption DEF ConnectionAssumption, OwnTimes, TimesFit
    <3> QED
      BY <1>4, <2>2, <2>4, <3>2 DEF CancelRemove, IsLocked
  <2> QED
    BY <2>3, <2>4
<1>5. CASE CancelClear \/ ActivateNow \/ CommitNow
  <2>1. /\ UNCHANGED <<queueVars, committed, target>>
        /\ \A r \in Resources : r # target => staged'[r] = staged[r]
    BY <1>0, <1>5 DEF CancelClear, ActivateNow, CommitNow, TypeOK
  <2>2. staged'[target].mode \in {staged[target].mode, "null"}
    <3>1. staged[target] \in Connections
      BY <1>0 DEF TypeOK
    <3>2. staged'[target] \in {[staged[target] EXCEPT !.at = None],
                               [staged[target] EXCEPT !.at = Past], Cleared(staged[target])}
      BY <1>0, <1>5 DEF CancelClear, ActivateNow, CommitNow, TypeOK
    <3> QED
      BY <3>1, <3>2, ClearedTyped DEF Connections
  <2>3. /\ http \in {"clear", "now", "commit"} /\ http' \in {"idle", "commit"}
    BY <1>5 DEF CancelClear, ActivateNow, CommitNow
  <2>4. target = s => ~IsLocked(s)'
    BY <2>1, <2>2, <2>3 DEF StagedMode, IsLocked, Scheduled
  <2> QED
    BY <1>0, <2>1, <2>3, <2>4 DEF IsLocked
<1>6. CASE ScheduleTime
  <2>1. /\ UNCHANGED <<queueVars, committed, target>> /\ http = "schedule"
        /\ \A r \in Resources : r # target => staged'[r] = staged[r]
    BY <1>0, <1>6 DEF ScheduleTime, TypeOK
  <2>2. \/ http' = "add"
        \/ staged[target].requested = None /\ staged' = staged
    BY <1>6 DEF ScheduleTime
  <2> QED
    BY <1>0, <2>1, <2>2 DEF IsLocked
<1>7. CASE ScheduleAdd
  <2>1. /\ UNCHANGED <<staged, target>> /\ running' = None
        /\ http = "add" /\ http' = "idle"
    BY <1>7 DEF ScheduleAdd, Queue!Request
  <2>2. /\ tp \in TimesOf[target] /\ tp \in Tai
        /\ accepted' = [accepted EXCEPT ![tp] = IF accepted[tp] = None THEN target ELSE accepted[tp]]
    BY <1>0, <1>7, ConnectionAssumption
    DEF ScheduleAdd, Queue!Request, OwnTimes, TypeOK, ConnectionAssumption
  <2>3. CASE target = s
    <3>1. accepted'[tp] = s
      BY <1>0, <2>2, <2>3, OnlyOwn DEF TypeOK
    <3> QED
      BY <1>0, <2>1, <2>2, <2>3, <3>1 DEF AddAgrees, IsLocked
  <2>4. CASE target # s
    <3>1. \A k \in Tai : accepted[k] = s => accepted'[k] = s
      BY <1>0, <2>2, ConnectionAssumption DEF TypeOK, ConnectionAssumption
    <3> QED
      BY <2>1, <2>4, <3>1 DEF IsLocked
  <2> QED
    BY <2>3, <2>4
<1> QED
  BY <1>1, <1>2, <1>3, <1>4, <1>5, <1>6, <1>7 DEF Patch

LEMMA OthersPending ==
  ASSUME Inv, NEW s \in Senders, PendingInv(s), CommittedIsOver(s),
         Activation \/ (\E r \in Receivers : PutStage(r)) \/ Put
  PROVE  PendingInv(s)' /\ CommittedIsOver(s)'
<1> USE DEF PendingInv, CommittedIsOver, Announces, InQueue, IsLocked, queueVars, patchVars
<1>0. TypeOK /\ Control /\ s \in Resources /\ s # None /\ None \notin Tai
  BY ConnectionAssumption DEF Inv, Resources, ConnectionAssumption
<1>1. CASE ActivateStaged
  BY <1>0, <1>1 DEF ActivateStaged, Queue!Start
<1>2. CASE CommitActivation
  <2>1. accepted' = accepted /\ running' = running /\ UNCHANGED <<http, target>>
    BY <1>2 DEF CommitActivation
  <2>2. CASE accepted[running] = s
    <3>1. staged'[s] = Cleared(staged[s])
      BY <1>0, <1>2, <2>2 DEF CommitActivation, TypeOK
    <3>2. staged'[s].mode = "null"
      BY <1>0, <3>1, ClearedTyped DEF TypeOK
    <3> QED
      BY <2>1, <3>2 DEF Scheduled
  <2>3. CASE accepted[running] # s
    <3>1. staged'[s] = staged[s]
      BY <1>0, <1>2, <2>3 DEF CommitActivation, TypeOK
    <3> QED
      BY <2>1, <2>3, <3>1
  <2> QED
    BY <2>2, <2>3
<1>3. CASE Activated
  <2>1. /\ running # None /\ committed /\ running' = None
        /\ \A k \in Tai : k # running => accepted'[k] = accepted[k]
        /\ UNCHANGED <<staged, http, target>>
    BY <1>0, <1>3 DEF Activated, Queue!Finish, TypeOK
  <2> QED
    BY <1>0, <2>1
<1>4. CASE (\E r \in Receivers : PutStage(r)) \/ Put
  <2>1. UNCHANGED <<queueVars, committed, http, target>>
    BY <1>4 DEF PutStage, Put, PutActivate, PutCommit
  <2>2. staged'[s] = staged[s]
    <3>1. ~CommitActivation \/ staged' = staged
      BY <1>4 DEF CommitActivation, PutStage, Put, PutActivate, PutCommit, putVars
    <3> QED
      BY <1>0, <1>4, <3>1, OthersStage
  <2> QED
    BY <2>1, <2>2
<1> QED
  BY <1>1, <1>2, <1>3, <1>4 DEF Activation

LEMMA NextPending ==
  ASSUME DistinctTimes, Inv, OwnTimes, NEW s \in Senders,
         StagedMode(s), PendingInv(s), CommittedIsOver(s), [Next]_vars
  PROVE  PendingInv(s)' /\ CommittedIsOver(s)'
<1>1. CASE Next
  BY <1>1, PatchPending, OthersPending DEF Next
<1>2. CASE UNCHANGED vars
  BY <1>2 DEF PendingInv, CommittedIsOver, Announces, InQueue, IsLocked, vars,
              queueVars, patchVars
<1> QED
  BY <1>1, <1>2

(***************************************************************************)
(* A sender that answers 423 has a pending activation, for any number of   *)
(* senders and receivers, if no two of them are scheduled for one time     *)
(* (otherwise it is false: the run ConnectionApi_same_time) and an empty   *)
(* time read by mistake is not the time of a sender.                       *)
(***************************************************************************)
THEOREM LocksArePending == ASSUME DistinctTimes PROVE Spec => []LockedMeansPending
<1> DEFINE PInv == /\ Inv /\ OwnTimes
                   /\ \A s \in Senders : StagedMode(s) /\ PendingInv(s) /\ CommittedIsOver(s)
<1>1. Init => PInv
  BY InitInv, InitOwnTimes, InitMode, InitPending
<1>2. PInv /\ [Next]_vars => PInv'
  BY NextInv, NextOwnTimes, NextMode, NextPending
<1>3. PInv => LockedMeansPending
  BY DEF PendingInv, Announces, InQueue, LockedMeansPending
<1> QED
  BY <1>1, <1>2, <1>3, PTL DEF Spec

-----------------------------------------------------------------------------
(* ConnectionParams                                                        *)

LEMMA KeyValue ==
  ASSUME NEW k, NEW v
  PROVE  /\ k \in IpKeys => (Value(k, v) <=> v \in Strings)
         /\ k \in PortKeys => (Value(k, v) <=> v \in Int \/ v \in Texts \cup {AUTO})
         /\ k \in {"rtp_enabled", "fec_enabled", "rtcp_enabled"} => (Value(k, v) <=> v \in BOOLEAN)
         /\ k \in PortKeys \cup IpKeys => FecUsable(k, v)
         /\ PortKeys \cap IpKeys = {}
  BY DEF Value, IpKeys, PortKeys, FecUsable

\* q is p with other values of the members K
Changes(p, q, K) == DOMAIN q = DOMAIN p \cup K /\ \A k \in DOMAIN p \ K : q[k] = p[k]

LEMMA SetMember ==
  ASSUME NEW p, NEW k, NEW v
  PROVE  Changes(p, Set(p, k, v), {k}) /\ Set(p, k, v)[k] = v
  BY DEF Changes, Set

LEMMA Remainder ==
  ASSUME NEW n \in Int, NEW m \in Nat, m # 0
  PROVE  n % m \in Int /\ n % m >= 0 /\ n % m < m
OBVIOUS

LEMMA PortWraps ==
  ASSUME NEW n \in Int
  PROVE  n % PortSpace \in Int
<1>1. PortSpace \in Nat /\ PortSpace # 0
  BY DEF PortSpace
<1> QED
  BY <1>1, Remainder

LEMMA PortActualized ==
  ASSUME NEW p, NEW k, NEW n
  PROVE  /\ Changes(p, ActualizePort(p, k, n), {k})
         /\ n \in Int => ActualizePort(p, k, n)[k] \in Int
<1>1. CASE k \in DOMAIN p /\ p[k] \in Int /\ p[k] # 0
  <2>1. ActualizePort(p, k, n) = p
    BY <1>1 DEF ActualizePort
  <2> QED
    BY <1>1, <2>1 DEF Changes
<1>2. CASE ~(k \in DOMAIN p /\ p[k] \in Int /\ p[k] # 0)
  <2>1. ActualizePort(p, k, n) = Set(p, k, n % PortSpace)
    BY <1>2 DEF ActualizePort
  <2> QED
    BY <2>1, SetMember, PortWraps
<1> QED
  BY <1>1, <1>2

LEMMA IpActualized ==
  ASSUME NEW p, NEW k, NEW ip
  PROVE  /\ Changes(p, ActualizeIp(p, k, ip), {k})
         /\ \/ k \in DOMAIN p /\ p[k] # AUTO /\ ActualizeIp(p, k, ip)[k] = p[k]
            \/ ActualizeIp(p, k, ip)[k] = ip
<1>1. CASE k \in DOMAIN p /\ p[k] # AUTO
  <2>1. ActualizeIp(p, k, ip) = p
    BY <1>1 DEF ActualizeIp
  <2> QED
    BY <1>1, <2>1 DEF Changes
<1>2. CASE ~(k \in DOMAIN p /\ p[k] # AUTO)
  <2>1. ActualizeIp(p, k, ip) = Set(p, k, ip)
    BY <1>2 DEF ActualizeIp
  <2> QED
    BY <1>2, <2>1, SetMember
<1> QED
  BY <1>1, <1>2

FecDestinations(p) ==
  IF On(p, "fec_enabled") THEN {"fec1D_destination_port", "fec2D_destination_port"} ELSE {}
RtcpDestination(p) == IF On(p, "rtcp_enabled") THEN {"rtcp_destination_port"} ELSE {}
Ports(p) == {"destination_port"} \cup FecDestinations(p) \cup RtcpDestination(p)

\* a port and an address that are not AUTO
SomePort == Int \cup Texts
Known == Addresses \cup WithCR \cup Texts \cup {Null}

\* q[K] are ports
LEMMA PortsActualized ==
  ASSUME NEW p, "destination_port" \in DOMAIN p, ~ActualizeThrows(p),
         Value("destination_port", p.destination_port)
  PROVE  /\ Changes(p, Actualize(p), Ports(p))
         /\ \A k \in Ports(p) : Actualize(p)[k] \in SomePort
         /\ ~Throws(p.destination_port) => Actualize(p)["destination_port"] \in Int
<1> DEFINE port == IF p.destination_port = AUTO THEN 5004 ELSE p.destination_port
           rtp == Set(p, "destination_port", port)
           one == ActualizePort(rtp, "fec1D_destination_port", port + 2)
           two == ActualizePort(one, "fec2D_destination_port", port + 4)
           fec == IF ~On(p, "fec_enabled") THEN rtp ELSE two
           rtcp == ActualizePort(fec, "rtcp_destination_port", port + 1)
           all == IF On(p, "rtcp_enabled") THEN rtcp ELSE fec
<1>0. Actualize(p) = all
  BY DEF Actualize
<1>1. port \in SomePort
  BY KeyValue DEF PortKeys, SomePort
<1>2. On(p, "fec_enabled") \/ On(p, "rtcp_enabled") => port + 1 \in Int /\ port + 2 \in Int /\ port + 4 \in Int
  <2>1. On(p, "fec_enabled") \/ On(p, "rtcp_enabled") => port \in Int
    BY DEF ActualizeThrows, AddsPorts, Throws
  <2> HIDE DEF port
  <2> QED
    BY <2>1
<1>2a. ~Throws(p.destination_port) => port \in Int
  BY DEF Throws
<1> HIDE DEF port
<1>3. /\ Changes(p, rtp, {"destination_port"}) /\ rtp["destination_port"] \in SomePort
      /\ ~Throws(p.destination_port) => rtp["destination_port"] \in Int
  BY <1>1, <1>2a, SetMember
<1> HIDE DEF rtp
<1>4. /\ Changes(rtp, one, {"fec1D_destination_port"})
      /\ On(p, "fec_enabled") => one["fec1D_destination_port"] \in Int
  BY <1>2, PortActualized
<1> HIDE DEF one
<1>5. /\ Changes(one, two, {"fec2D_destination_port"})
      /\ On(p, "fec_enabled") => two["fec2D_destination_port"] \in Int
  BY <1>2, PortActualized
<1> HIDE DEF two
<1>6. /\ Changes(p, fec, {"destination_port"} \cup FecDestinations(p))
      /\ \A k \in {"destination_port"} \cup FecDestinations(p) : fec[k] \in SomePort
      /\ ~Throws(p.destination_port) => fec["destination_port"] \in Int
  BY <1>3, <1>4, <1>5 DEF Changes, FecDestinations, SomePort
<1> HIDE DEF fec
<1>7. /\ Changes(fec, rtcp, {"rtcp_destination_port"})
      /\ On(p, "rtcp_enabled") => rtcp["rtcp_destination_port"] \in Int
  BY <1>2, PortActualized
<1> HIDE DEF rtcp
<1>8. /\ Changes(p, all, Ports(p))
      /\ \A k \in Ports(p) : all[k] \in SomePort
      /\ ~Throws(p.destination_port) => all["destination_port"] \in Int
  BY <1>6, <1>7 DEF Changes, FecDestinations, RtcpDestination, Ports, SomePort
<1> QED
  BY <1>0, <1>8

-----------------------------------------------------------------------------
FecSenderKeys == {"fec_destination_ip", "fec1D_source_port", "fec2D_source_port",
                  "fec1D_destination_port", "fec2D_destination_port"}
RtcpSenderKeys == {"rtcp_destination_ip", "rtcp_source_port", "rtcp_destination_port"}
SenderResolves(p) ==
  {"source_ip", "destination_ip", "source_port", "destination_port"}
    \cup (IF On(p, "fec_enabled") THEN FecSenderKeys ELSE {})
    \cup (IF On(p, "rtcp_enabled") THEN RtcpSenderKeys ELSE {})

\* what a sender has resolved
Definite(k, v) ==
  IF k \in PortKeys THEN v \in SomePort ELSE k \in IpKeys /\ v \in Known

LEMMA SenderActualized ==
  ASSUME NEW p, SenderParams(p), ~ActualizeThrows(p), NEW source \in Known, NEW destination \in Known
  PROVE  /\ Changes(p, ActualizeSender(p, source, destination), SenderResolves(p))
         /\ \A k \in SenderResolves(p) : Definite(k, ActualizeSender(p, source, destination)[k])
         /\ ~Throws(p.destination_port)
              => ActualizeSender(p, source, destination)["destination_port"] \in Int
<1> DEFINE base == Actualize(p)
           src == ActualizeIp(base, "source_ip", source)
           dst == ActualizeIp(src, "destination_ip", destination)
           rtp == ActualizePort(dst, "source_port", 5004)
           port == rtp.source_port
           f1 == ActualizeIp(rtp, "fec_destination_ip", rtp.destination_ip)
           f2 == ActualizePort(f1, "fec1D_source_port", port + 2)
           f3 == ActualizePort(f2, "fec2D_source_port", port + 4)
           fec == IF ~On(p, "fec_enabled") THEN rtp ELSE f3
           r1 == ActualizePort(fec, "rtcp_source_port", port + 1)
           r2 == ActualizeIp(r1, "rtcp_destination_ip", rtp.destination_ip)
           all == IF ~On(p, "rtcp_enabled") THEN fec ELSE r2
<1>0. ActualizeSender(p, source, destination) = all
  BY DEF ActualizeSender
<1>1. /\ \A k \in PortKeys \cap DOMAIN p : Value(k, p[k])
      /\ \A k \in IpKeys \cap DOMAIN p : p[k] = AUTO \/ p[k] \in Known
      /\ {"source_ip", "destination_ip", "source_port", "destination_port"} \subseteq DOMAIN p
  BY KeyValue DEF SenderParams, SenderHas, PortKeys, IpKeys, Strings, Known
<1>2. /\ Changes(p, base, Ports(p))
      /\ \A k \in Ports(p) : base[k] \in SomePort
      /\ ~Throws(p.destination_port) => base["destination_port"] \in Int
  BY <1>1, PortsActualized DEF PortKeys
<1>3. Ports(p) \subseteq PortKeys /\ PortKeys \cap IpKeys = {}
  BY DEF Ports, FecDestinations, RtcpDestination, PortKeys, IpKeys
<1> HIDE DEF base
<1>4. /\ Changes(base, src, {"source_ip"}) /\ src["source_ip"] \in Known
  <2>1. "source_ip" \in DOMAIN base
          => base["source_ip"] = AUTO \/ base["source_ip"] \in Known
    BY <1>1, <1>2, <1>3 DEF Changes, IpKeys
  <2> QED
    BY <2>1, IpActualized
<1> HIDE DEF src
<1>5. /\ Changes(src, dst, {"destination_ip"}) /\ dst["destination_ip"] \in Known
  <2>1. "destination_ip" \in DOMAIN src
          => src["destination_ip"] = AUTO \/ src["destination_ip"] \in Known
    BY <1>1, <1>2, <1>3, <1>4 DEF Changes, IpKeys
  <2> QED
    BY <2>1, IpActualized
<1> HIDE DEF dst
<1>6. /\ Changes(dst, rtp, {"source_port"}) /\ rtp["source_port"] \in Int
  <2>1. "source_port" \notin Ports(p)
    BY DEF Ports, FecDestinations, RtcpDestination
  <2>2. dst["source_port"] = p["source_port"]
    BY <1>1, <1>2, <1>4, <1>5, <2>1 DEF Changes
  <2> QED
    BY <1>1, <2>2, PortActualized DEF PortKeys
<1> HIDE DEF rtp
<1>7. /\ port \in Int /\ {port + 1, port + 2, port + 4} \subseteq Int
      /\ rtp.destination_ip \in Known
  <2>1. port \in Int /\ rtp.destination_ip \in Known
    BY <1>5, <1>6 DEF Changes
  <2> HIDE DEF port
  <2>2. {port + 1, port + 2, port + 4} \subseteq Int
    BY <2>1
  <2> QED
    BY <2>1, <2>2
<1> HIDE DEF port
<1>8. \A k \in DOMAIN rtp : k \notin Ports(p) \cup {"source_ip", "destination_ip", "source_port"}
        => k \in DOMAIN p /\ rtp[k] = p[k]
  BY <1>2, <1>4, <1>5, <1>6 DEF Changes
<1>9. /\ Changes(rtp, f1, {"fec_destination_ip"}) /\ f1["fec_destination_ip"] \in Known
  <2>1. "fec_destination_ip" \in DOMAIN rtp
          => rtp["fec_destination_ip"] = AUTO \/ rtp["fec_destination_ip"] \in Known
    BY <1>1, <1>3, <1>8 DEF IpKeys
  <2> QED
    BY <1>7, <2>1, IpActualized
<1> HIDE DEF f1
<1>10. /\ Changes(f1, f2, {"fec1D_source_port"}) /\ f2["fec1D_source_port"] \in Int
  <2>1. "fec1D_source_port" \notin Ports(p)
    BY DEF Ports, FecDestinations, RtcpDestination
  <2>2. "fec1D_source_port" \in DOMAIN f1 => Value("fec1D_source_port", f1["fec1D_source_port"])
    BY <1>1, <1>8, <1>9, <2>1 DEF Changes, PortKeys
  <2> QED
    BY <1>7, <2>2, PortActualized DEF PortKeys
<1> HIDE DEF f2
<1>11. /\ Changes(f2, f3, {"fec2D_source_port"}) /\ f3["fec2D_source_port"] \in Int
  <2>1. "fec2D_source_port" \notin Ports(p)
    BY DEF Ports, FecDestinations, RtcpDestination
  <2>2. "fec2D_source_port" \in DOMAIN f2 => Value("fec2D_source_port", f2["fec2D_source_port"])
    BY <1>1, <1>8, <1>9, <1>10, <2>1 DEF Changes, PortKeys
  <2> QED
    BY <1>7, <2>2, PortActualized DEF PortKeys
<1> HIDE DEF f3
<1> DEFINE K == IF On(p, "fec_enabled")
                THEN {"fec_destination_ip", "fec1D_source_port", "fec2D_source_port"} ELSE {}
<1>12. /\ Changes(rtp, fec, K)
       /\ \A k \in K : Definite(k, fec[k])
  <2>1. CASE On(p, "fec_enabled")
    BY <1>9, <1>10, <1>11, <2>1 DEF Changes, Definite, PortKeys, IpKeys, SomePort
  <2>2. CASE ~On(p, "fec_enabled")
    BY <2>2 DEF Changes
  <2> QED
    BY <2>1, <2>2
<1> HIDE DEF fec
<1>13. /\ Changes(fec, r1, {"rtcp_source_port"}) /\ r1["rtcp_source_port"] \in Int
  <2>1. "rtcp_source_port" \notin Ports(p) \cup K
    BY DEF Ports, FecDestinations, RtcpDestination
  <2>2. "rtcp_source_port" \in DOMAIN fec => Value("rtcp_source_port", fec["rtcp_source_port"])
    BY <1>1, <1>8, <1>12, <2>1 DEF Changes, PortKeys
  <2> QED
    BY <1>7, <2>2, PortActualized DEF PortKeys
<1> HIDE DEF r1
<1>14. /\ Changes(r1, r2, {"rtcp_destination_ip"})
       /\ r2["rtcp_destination_ip"] \in Known
  <2>1. "rtcp_destination_ip" \notin Ports(p) \cup K
    BY DEF Ports, FecDestinations, RtcpDestination
  <2>2. "rtcp_destination_ip" \in DOMAIN r1
          => r1["rtcp_destination_ip"] = AUTO \/ r1["rtcp_destination_ip"] \in Known
    BY <1>1, <1>8, <1>12, <1>13, <2>1 DEF Changes, IpKeys
  <2> QED
    BY <1>7, <2>2, IpActualized
<1> HIDE DEF r2
<1> DEFINE L == IF On(p, "rtcp_enabled") THEN {"rtcp_source_port", "rtcp_destination_ip"} ELSE {}
<1>15. /\ Changes(fec, all, L)
       /\ \A k \in L : Definite(k, all[k])
  <2>1. CASE On(p, "rtcp_enabled")
    BY <1>13, <1>14, <2>1 DEF Changes, Definite, PortKeys, IpKeys, SomePort
  <2>2. CASE ~On(p, "rtcp_enabled")
    BY <2>2 DEF Changes
  <2> QED
    BY <2>1, <2>2
<1> HIDE DEF all
<1> DEFINE M == Ports(p) \cup {"source_ip", "destination_ip", "source_port"}
<1>16. /\ Changes(p, rtp, M)
       /\ \A k \in M : Definite(k, rtp[k])
  BY <1>2, <1>3, <1>4, <1>5, <1>6 DEF Changes, Definite, PortKeys, IpKeys, SomePort
<1>17. /\ M \cup K \cup L = SenderResolves(p)
       /\ M \cap K = {} /\ M \cap L = {} /\ K \cap L = {}
  BY DEF Ports, FecDestinations, RtcpDestination, SenderResolves, FecSenderKeys, RtcpSenderKeys
<1>17a. ~Throws(p.destination_port) => all["destination_port"] \in Int
  <2>1. /\ "destination_port" \in DOMAIN p
        /\ "destination_port" \notin K \cup L
    BY <1>1
  <2>2. all["destination_port"] = base["destination_port"]
    BY <1>2, <1>4, <1>5, <1>6, <1>12, <1>15, <2>1 DEF Changes
  <2> QED
    BY <1>2, <2>2
<1> HIDE DEF M, K, L
<1>18. /\ Changes(p, all, M \cup K \cup L)
       /\ \A k \in M \cup K \cup L : Definite(k, all[k])
  BY <1>12, <1>15, <1>16, <1>17 DEF Changes
<1> QED
  BY <1>0, <1>17, <1>18, <1>17a

\* an active sender has its types, and nothing it uses is AUTO
LEMMA ActiveSender ==
  ASSUME NEW p, SenderParams(p), ~ActualizeThrows(p), NEW source \in Known, NEW destination \in Known
  PROVE  /\ SenderParams(ActualizeSender(p, source, destination))
         /\ Resolved(ActualizeSender(p, source, destination))
         /\ ~Throws(p.destination_port)
              => ActualizeSender(p, source, destination).destination_port \in Int
<1> DEFINE q == ActualizeSender(p, source, destination)
           K == SenderResolves(p)
<1>1. /\ Changes(p, q, K) /\ \A k \in K : Definite(k, q[k])
      /\ ~Throws(p.destination_port) => q["destination_port"] \in Int
  BY SenderActualized
<1> HIDE DEF q
<1>2. \A k \in K : k \in PortKeys \cup IpKeys /\ k \notin {"multicast_ip", "interface_ip"}
  BY DEF SenderResolves, FecSenderKeys, RtcpSenderKeys, PortKeys, IpKeys
<1>3. \A k \in K : SenderHas(k, q[k])
  <2>1. TAKE k \in K
  <2>2. CASE k \in PortKeys
    BY <1>1, <1>2, <2>2, KeyValue DEF Definite, SenderHas, SomePort
  <2>3. CASE k \notin PortKeys
    BY <1>1, <1>2, <2>3, KeyValue DEF Definite, SenderHas, Known, Strings
  <2> QED
    BY <2>2, <2>3
<1>4. SenderParams(q)
  BY <1>1, <1>3 DEF SenderParams, Changes
<1>5. \A k \in K : q[k] # AUTO
  BY <1>1, ParamsAssumption DEF Definite, SomePort, Known
<1>6. On(p, "fec_enabled") = On(q, "fec_enabled") /\ On(p, "rtcp_enabled") = On(q, "rtcp_enabled")
  <2>1. {"fec_enabled", "rtcp_enabled"} \cap K = {}
    BY <1>2 DEF PortKeys, IpKeys
  <2> QED
    BY <1>1, <2>1 DEF On, Changes
<1>7. \A k \in DOMAIN q : k \notin {"multicast_ip", "interface_ip"}
  BY <1>4 DEF SenderParams, SenderHas
<1>8. Used(q) \subseteq K
  BY <1>6, <1>7 DEF Used, SenderResolves, FecSenderKeys, RtcpSenderKeys, PortKeys, IpKeys,
                    FecKeys, RtcpKeys
<1>9. Resolved(q)
  BY <1>5, <1>8 DEF Resolved
<1> QED
  BY <1>1, <1>4, <1>9 DEF q

ReceiverResolves(p) ==
  {"interface_ip", "source_ip"} \cup Ports(p)
    \cup (IF "fec_enabled" \in DOMAIN p THEN {"fec_destination_ip"} ELSE {})
    \cup (IF "rtcp_enabled" \in DOMAIN p THEN {"rtcp_destination_ip"} ELSE {})

\* what a receiver has resolved
Taken(p, k, v) ==
  IF k \in PortKeys THEN v \in SomePort
  ELSE k \in IpKeys /\ (v \in Known \/ (v = AUTO /\ k \in Unresolved(p)))

LEMMA ReceiverActualized ==
  ASSUME NEW p, ReceiverParams(p), ~ActualizeThrows(p), NEW interface \in Addresses
  PROVE  /\ Changes(p, ActualizeReceiver(p, interface), ReceiverResolves(p))
         /\ \A k \in ReceiverResolves(p) : Taken(p, k, ActualizeReceiver(p, interface)[k])
<1> DEFINE base == Actualize(p)
           ifc == Set(base, "interface_ip", interface)
           rtp == ActualizeIp(ifc, "source_ip", Null)
           group == IF "multicast_ip" \notin DOMAIN p \/ p.multicast_ip = Null
                    THEN interface ELSE p.multicast_ip
           f == ActualizeIp(rtp, "fec_destination_ip", group)
           fec == IF "fec_enabled" \in DOMAIN p THEN f ELSE rtp
           r == ActualizeIp(fec, "rtcp_destination_ip", group)
           all == IF "rtcp_enabled" \in DOMAIN p THEN r ELSE fec
<1>0. ActualizeReceiver(p, interface) = all
  BY DEF ActualizeReceiver
<1>1. /\ \A k \in PortKeys \cap DOMAIN p : Value(k, p[k])
      /\ \A k \in IpKeys \cap DOMAIN p : p[k] \in Known \cup {AUTO}
      /\ {"source_ip", "interface_ip", "destination_port"} \subseteq DOMAIN p
  BY KeyValue DEF ReceiverParams, ReceiverHas, PortKeys, IpKeys, Known, Strings
<1>2. /\ Changes(p, base, Ports(p))
      /\ \A k \in Ports(p) : base[k] \in SomePort
  BY <1>1, PortsActualized DEF PortKeys
<1>3. Ports(p) \subseteq PortKeys /\ PortKeys \cap IpKeys = {}
  BY DEF Ports, FecDestinations, RtcpDestination, PortKeys, IpKeys
<1> HIDE DEF base
<1>4. Changes(base, ifc, {"interface_ip"}) /\ ifc["interface_ip"] \in Known
  BY SetMember DEF Known
<1> HIDE DEF ifc
<1>5. Changes(ifc, rtp, {"source_ip"}) /\ rtp["source_ip"] \in Known
  <2>1. "source_ip" \in DOMAIN ifc => ifc["source_ip"] \in Known \cup {AUTO}
    BY <1>1, <1>2, <1>3, <1>4 DEF Changes, IpKeys
  <2>2. Null \in Known
    BY DEF Known
  <2> QED
    BY <2>1, <2>2, IpActualized
<1> HIDE DEF rtp
<1> DEFINE M == Ports(p) \cup {"interface_ip", "source_ip"}
<1>6. /\ Changes(p, rtp, M)
      /\ \A k \in M : Taken(p, k, rtp[k])
  BY <1>2, <1>3, <1>4, <1>5 DEF Changes, Taken, PortKeys, IpKeys
<1>7. {"fec_destination_ip", "rtcp_destination_ip", "multicast_ip"} \cap M = {}
  BY <1>3 DEF PortKeys
<1> HIDE DEF M
<1>8. group \in Known \/ ("multicast_ip" \in DOMAIN p /\ p.multicast_ip = AUTO /\ group = AUTO)
  <2>1. interface \in Known
    BY DEF Known
  <2>2. "multicast_ip" \in DOMAIN p => p.multicast_ip \in Known \/ p.multicast_ip = AUTO
    BY <1>1 DEF IpKeys
  <2> HIDE DEF Known
  <2>3. CASE "multicast_ip" \notin DOMAIN p \/ p.multicast_ip = Null
    BY <2>1, <2>3
  <2>4. CASE ~("multicast_ip" \notin DOMAIN p \/ p.multicast_ip = Null)
    BY <2>2, <2>4
  <2> QED
    BY <2>3, <2>4
<1> HIDE DEF group
<1>9. /\ Changes(rtp, f, {"fec_destination_ip"})
      /\ Taken(p, "fec_destination_ip", f["fec_destination_ip"])
  <2>1. "fec_destination_ip" \in DOMAIN rtp => rtp["fec_destination_ip"] \in Known \cup {AUTO}
    BY <1>1, <1>6, <1>7 DEF Changes, IpKeys
  <2>2. f["fec_destination_ip"] \in Known \/ f["fec_destination_ip"] = group
    BY <2>1, IpActualized
  <2> QED
    BY <1>8, <2>2, IpActualized DEF Taken, PortKeys, IpKeys, Unresolved
<1> HIDE DEF f
<1> DEFINE K == IF "fec_enabled" \in DOMAIN p THEN {"fec_destination_ip"} ELSE {}
<1>10. /\ Changes(rtp, fec, K)
       /\ \A k \in K : Taken(p, k, fec[k])
  BY <1>9 DEF Changes
<1> HIDE DEF fec
<1>11. /\ Changes(fec, r, {"rtcp_destination_ip"})
       /\ Taken(p, "rtcp_destination_ip", r["rtcp_destination_ip"])
  <2>1. "rtcp_destination_ip" \in DOMAIN fec => fec["rtcp_destination_ip"] \in Known \cup {AUTO}
    BY <1>1, <1>6, <1>7, <1>10 DEF Changes, IpKeys
  <2>2. r["rtcp_destination_ip"] \in Known \/ r["rtcp_destination_ip"] = group
    BY <2>1, IpActualized
  <2> QED
    BY <1>8, <2>2, IpActualized DEF Taken, PortKeys, IpKeys, Unresolved
<1> HIDE DEF r
<1> DEFINE L == IF "rtcp_enabled" \in DOMAIN p THEN {"rtcp_destination_ip"} ELSE {}
<1>12. /\ Changes(fec, all, L)
       /\ \A k \in L : Taken(p, k, all[k])
  BY <1>11 DEF Changes
<1> HIDE DEF all
<1>13. M \cup K \cup L = ReceiverResolves(p) /\ M \cap K = {} /\ M \cap L = {} /\ K \cap L = {}
  BY <1>7 DEF ReceiverResolves, M
<1> HIDE DEF K, L
<1>14. /\ Changes(p, all, M \cup K \cup L)
       /\ \A k \in M \cup K \cup L : Taken(p, k, all[k])
  BY <1>6, <1>10, <1>12, <1>13 DEF Changes
<1> QED
  BY <1>0, <1>13, <1>14

LEMMA ActiveReceiver ==
  ASSUME NEW p, ReceiverParams(p), ~ActualizeThrows(p), NEW interface \in Addresses
  PROVE  /\ ReceiverParams(ActualizeReceiver(p, interface))
         /\ Resolved(ActualizeReceiver(p, interface))
<1> DEFINE q == ActualizeReceiver(p, interface)
           K == ReceiverResolves(p)
<1>1. Changes(p, q, K) /\ \A k \in K : Taken(p, k, q[k])
  BY ReceiverActualized
<1> HIDE DEF q
<1>2. \A k \in K : k \in PortKeys \cup IpKeys /\ k \notin SenderOnly /\ k # "multicast_ip"
  BY DEF ReceiverResolves, Ports, FecDestinations, RtcpDestination, PortKeys, IpKeys, SenderOnly
<1>3. \A k \in K : ReceiverHas(k, q[k])
  <2>1. TAKE k \in K
  <2>2. CASE k \in PortKeys
    BY <1>1, <1>2, <2>2, KeyValue DEF Taken, ReceiverHas, SomePort
  <2>3. CASE k \notin PortKeys
    BY <1>1, <1>2, <2>3, KeyValue DEF Taken, ReceiverHas, Known, Strings
  <2> QED
    BY <2>2, <2>3
<1>4. ReceiverParams(q)
  BY <1>1, <1>3 DEF ReceiverParams, Changes
<1>5. \A k \in K : q[k] = AUTO => k \in Unresolved(p)
  BY <1>1, ParamsAssumption DEF Taken, Known, SomePort
<1>6. /\ On(p, "fec_enabled") = On(q, "fec_enabled")
      /\ On(p, "rtcp_enabled") = On(q, "rtcp_enabled")
      /\ Unresolved(p) = Unresolved(q)
      /\ \A k \in {"fec_enabled", "rtcp_enabled", "multicast_ip"} :
           k \in DOMAIN p <=> k \in DOMAIN q
  <2>1. {"fec_enabled", "rtcp_enabled", "multicast_ip"} \cap K = {}
    BY <1>2 DEF PortKeys, IpKeys
  <2>2. \A k \in {"fec_enabled", "rtcp_enabled", "multicast_ip"} :
          (k \in DOMAIN p <=> k \in DOMAIN q) /\ (k \in DOMAIN p => p[k] = q[k])
    BY <1>1, <2>1 DEF Changes
  <2> QED
    BY <2>2 DEF On, Unresolved
<1>7. \A k \in DOMAIN q : k \notin SenderOnly
  BY <1>4 DEF ReceiverParams, ReceiverHas
<1>8. Used(q) \subseteq K \cup {"multicast_ip"}
  BY <1>6, <1>7 DEF Used, ReceiverResolves, Ports, FecDestinations, RtcpDestination, PortKeys, IpKeys,
                    FecKeys, RtcpKeys, SenderOnly, On
<1>9. Resolved(q)
  <2>1. "multicast_ip" \in Used(q) => q["multicast_ip"] # AUTO
    BY DEF Used, Unresolved
  <2> QED
    BY <1>5, <1>6, <1>8, <2>1 DEF Resolved, Used
<1> QED
  BY <1>4, <1>9 DEF q

\* a member that may be set
LEMMA SetTyped ==
  ASSUME NEW p, NEW k, NEW v
  PROVE  /\ SenderParams(p) /\ SenderHas(k, v) => SenderParams(Set(p, k, v))
         /\ ReceiverParams(p) /\ ReceiverHas(k, v) => ReceiverParams(Set(p, k, v))
<1> DEFINE q == Set(p, k, v)
<1>1. Changes(p, q, {k}) /\ q[k] = v
  BY SetMember
<1> HIDE DEF q
<1>2. DOMAIN q = DOMAIN p \cup {k} /\ \A j \in DOMAIN q : q[j] = IF j = k THEN v ELSE p[j]
  BY <1>1 DEF Changes
<1>3. SenderParams(p) /\ SenderHas(k, v) => SenderParams(q)
  BY <1>1, <1>2 DEF SenderParams
<1>4. ReceiverParams(p) /\ ReceiverHas(k, v) => ReceiverParams(q)
  BY <1>1, <1>2 DEF ReceiverParams
<1> QED
  BY <1>3, <1>4 DEF q

LEMMA SetSame ==
  ASSUME NEW p, NEW k, NEW v, NEW j, j # k
  PROVE  Same(p, Set(p, k, v), j)
<1>1. Changes(p, Set(p, k, v), {k})
  BY SetMember
<1> HIDE DEF Set
<1> QED
  BY <1>1 DEF Changes, Same

LEMMA MemberTyped ==
  ASSUME NEW v
  PROVE  /\ v \in BOOLEAN => SenderHas("rtp_enabled", v) /\ ReceiverHas("rtp_enabled", v)
         /\ v \in Known \cup {AUTO}
              => /\ ReceiverHas("source_ip", v) /\ ReceiverHas("multicast_ip", v)
                 /\ SenderHas("destination_ip", v)
         /\ v \in Int \cup {AUTO}
              => /\ ReceiverHas("destination_port", v) /\ ReceiverHas("rtcp_destination_port", v)
                 /\ SenderHas("destination_port", v)
<1>1. {"rtp_enabled", "source_ip", "multicast_ip", "destination_port", "rtcp_destination_port"}
        \cap SenderOnly = {}
  BY DEF SenderOnly
<1>2. /\ {"source_ip", "multicast_ip", "destination_ip"} \subseteq IpKeys
      /\ {"destination_port", "rtcp_destination_port"} \subseteq PortKeys
  BY DEF IpKeys, PortKeys
<1>3. FecUsable("rtp_enabled", v)
  BY DEF FecUsable
<1>4. v \in Known \cup {AUTO} => v \in Strings \/ v = Null
  BY DEF Known, Strings
<1> QED
  BY <1>1, <1>2, <1>3, <1>4, KeyValue DEF SenderHas, ReceiverHas

LEMMA LineTyped ==
  ASSUME NEW l \in Lines
  PROVE  /\ l.type \in {"origin", "media", "connection", "filter", "rtcp"}
         /\ l.type \in {"origin", "connection"} => l.ip \in Words
         /\ l.type = "filter" => l.group \in Words /\ l.ip \in Words
         /\ l.type = "media" => l.port \in Int \cup {AUTO}
         /\ l.type = "rtcp" => l.port \in Int \cup {AUTO} /\ l.ip \in Words
  BY DEF Lines

\* an address, with its CR or without
LEMMA Disjoint ==
  ASSUME NEW a
  PROVE  /\ ~(Unicast(a) /\ Multicast(a))
         /\ Unicast(a) \/ Multicast(a) => a \in Addresses \cup WithCR
<1>1. /\ Unicasts \cap Multicasts = {} /\ Addresses \cap WithCR = {}
  BY ParamsAssumption
<1>2. \A u, m : <<u, "CR">> = <<m, "CR">> => u = m
  OBVIOUS
<1>3. Unicast(a) \/ Multicast(a) => a \in Addresses \cup WithCR
  BY DEF Unicast, Multicast, Addresses, WithCR
<1>4. ~(Unicast(a) /\ Multicast(a))
  <2>1. \A x \in Addresses : x \notin WithCR
    BY <1>1
  <2>2. \A x \in Addresses : <<x, "CR">> \in WithCR
    BY DEF WithCR
  <2> QED
    BY <1>1, <1>2, <2>1, <2>2 DEF Unicast, Multicast, Addresses
<1> QED
  BY <1>3, <1>4

LEMMA EndOfLine ==
  ASSUME NEW a \in Addresses \cup WithCR, NEW cr
  PROVE  AtEnd(cr, a) \in Known
  BY DEF AtEnd, Known, WithCR

LEMMA GroupKnown ==
  ASSUME NEW l, NEW cr
  PROVE  GroupOf(l, cr) \in Known
<1>1. Multicast(l.ip) => l.ip \in Addresses \cup WithCR
  BY Disjoint
<1>2. Null \in Known /\ Addresses \cup WithCR \subseteq Known
  BY DEF Known
<1> QED
  BY <1>1, <1>2, EndOfLine DEF GroupOf

\* the parser's state
Parsed(s) ==
  /\ s = [tps |-> s.tps, media |-> s.media, ok |-> s.ok, wild |-> s.wild]
  /\ DOMAIN s.tps = 1 .. Streams /\ \A i \in 1 .. Streams : ReceiverParams(s.tps[i])
  /\ s.media \in Nat /\ s.ok \in BOOLEAN /\ s.wild \in BOOLEAN

\* on every stream member k stays
Keeps(s, t, k) == \A i \in 1 .. Streams : Same(s.tps[i], t.tps[i], k)

\* with other streams
LEMMA NewStreams ==
  ASSUME NEW s, Parsed(s), NEW tps, DOMAIN tps = 1 .. Streams,
         \A i \in 1 .. Streams : ReceiverParams(tps[i])
  PROVE  LET t == [s EXCEPT !.tps = tps]
         IN Parsed(t) /\ t.tps = tps /\ t.media = s.media /\ t.ok = s.ok
<1> DEFINE t == [tps |-> tps, media |-> s.media, ok |-> s.ok, wild |-> s.wild]
<1>1. s = [tps |-> s.tps, media |-> s.media, ok |-> s.ok, wild |-> s.wild]
  BY DEF Parsed
<1>2. [s EXCEPT !.tps = tps] = t
  BY <1>1
<1>3. t.tps = tps /\ t.media = s.media /\ t.ok = s.ok /\ t.wild = s.wild
  OBVIOUS
<1>4. t = [tps |-> t.tps, media |-> t.media, ok |-> t.ok, wild |-> t.wild]
  OBVIOUS
<1> HIDE DEF t
<1>5. Parsed(t)
  BY <1>3, <1>4 DEF Parsed
<1> QED
  BY <1>2, <1>3, <1>5

\* with other flags and another count
LEMMA NewFlags ==
  ASSUME NEW s, Parsed(s)
  PROVE  /\ Parsed(Failed(s)) /\ ~Failed(s).ok
         /\ Failed(s).tps = s.tps /\ Failed(s).media = s.media
         /\ LET w == [s EXCEPT !.wild = TRUE]
            IN Parsed(w) /\ w.tps = s.tps /\ w.media = s.media /\ w.ok = s.ok
         /\ LET next == [s EXCEPT !.media = @ + 1]
            IN Parsed(next) /\ next.tps = s.tps /\ next.media = s.media + 1 /\ next.ok = s.ok
<1>1. s = [tps |-> s.tps, media |-> s.media, ok |-> s.ok, wild |-> s.wild]
  BY DEF Parsed
<1>2. s.media \in Nat /\ s.media + 1 \in Nat /\ s.ok \in BOOLEAN /\ s.wild \in BOOLEAN
  BY DEF Parsed
<1>3. ASSUME NEW t, DOMAIN t = DOMAIN s, t.tps = s.tps, t.media \in Nat,
             t.ok \in BOOLEAN, t.wild \in BOOLEAN,
             t = [k \in DOMAIN s |-> t[k]]
      PROVE  Parsed(t)
  <2>1. DOMAIN s = {"tps", "media", "ok", "wild"}
    BY <1>1
  <2>2. t = [tps |-> t.tps, media |-> t.media, ok |-> t.ok, wild |-> t.wild]
    BY <1>3, <2>1
  <2> QED
    BY <1>3, <2>2 DEF Parsed
<1>4. DOMAIN s = {"tps", "media", "ok", "wild"}
  BY <1>1
<1>5. /\ Parsed(Failed(s)) /\ ~Failed(s).ok
      /\ Failed(s).tps = s.tps /\ Failed(s).media = s.media
  <2> DEFINE t == Failed(s)
  <2>1. /\ DOMAIN t = DOMAIN s /\ t.tps = s.tps /\ t.media = s.media /\ t.ok = FALSE
        /\ t.wild = s.wild /\ t = [k \in DOMAIN s |-> t[k]]
    BY <1>4 DEF Failed
  <2> HIDE DEF t
  <2>2. t.ok \in BOOLEAN /\ ~t.ok
    BY <2>1
  <2> QED
    BY <1>2, <1>3, <2>1, <2>2 DEF t
<1>6. LET w == [s EXCEPT !.wild = TRUE]
      IN Parsed(w) /\ w.tps = s.tps /\ w.media = s.media /\ w.ok = s.ok
  <2> DEFINE t == [s EXCEPT !.wild = TRUE]
  <2>1. /\ DOMAIN t = DOMAIN s /\ t.tps = s.tps /\ t.media = s.media /\ t.ok = s.ok
        /\ t.wild = TRUE /\ t = [k \in DOMAIN s |-> t[k]]
    BY <1>4
  <2> HIDE DEF t
  <2>2. t.wild \in BOOLEAN
    BY <2>1
  <2> QED
    BY <1>2, <1>3, <2>1, <2>2 DEF t
<1>7. LET next == [s EXCEPT !.media = @ + 1]
      IN Parsed(next) /\ next.tps = s.tps /\ next.media = s.media + 1 /\ next.ok = s.ok
  <2> DEFINE t == [s EXCEPT !.media = @ + 1]
  <2>1. /\ DOMAIN t = DOMAIN s /\ t.tps = s.tps /\ t.media = s.media + 1 /\ t.ok = s.ok
        /\ t.wild = s.wild /\ t = [k \in DOMAIN s |-> t[k]]
    BY <1>4
  <2> HIDE DEF t
  <2> QED
    BY <1>2, <1>3, <2>1 DEF t
<1> QED
  BY <1>5, <1>6, <1>7

LEMMA FailedKeeps ==
  ASSUME NEW s, Parsed(s)
  PROVE  /\ Parsed(Failed(s)) /\ ~Failed(s).ok
         /\ Failed(s).tps = s.tps /\ Failed(s).media = s.media
  BY NewFlags

\* the stream of a media gets one, at index -1 none does
StreamSet(s, t, media, one) ==
  /\ Parsed(t) /\ t.media = media
  /\ \A i \in 1 .. Streams : i # media => t.tps[i] = s.tps[i]
  /\ media \in 1 .. Streams => t.tps[media] = one

LEMMA SetsStream ==
  ASSUME NEW s, Parsed(s), NEW one, s.media \in 1 .. Streams => ReceiverParams(one)
  PROVE  StreamSet(s, [s EXCEPT !.tps[s.media] = one], s.media, one)
<1> DEFINE tps == [s.tps EXCEPT ![s.media] = one]
<1>1. [s EXCEPT !.tps[s.media] = one] = [s EXCEPT !.tps = tps]
  OBVIOUS
<1>2. /\ DOMAIN tps = 1 .. Streams
      /\ \A i \in 1 .. Streams : tps[i] = IF i = s.media THEN one ELSE s.tps[i]
  BY DEF Parsed
<1> HIDE DEF tps
<1>3. \A i \in 1 .. Streams : ReceiverParams(tps[i])
  BY <1>2 DEF Parsed
<1>4. LET t == [s EXCEPT !.tps = tps]
      IN Parsed(t) /\ t.tps = tps /\ t.media = s.media /\ t.ok = s.ok
  BY <1>2, <1>3, NewStreams
<1> QED
  BY <1>1, <1>2, <1>4 DEF StreamSet

LEMMA SetsMember ==
  ASSUME NEW s, Parsed(s), NEW k, NEW v, ReceiverHas(k, v)
  PROVE  /\ Parsed(Sets(s, k, v)) /\ Sets(s, k, v).media = s.media
         /\ \A i \in 1 .. Streams : i # s.media => Sets(s, k, v).tps[i] = s.tps[i]
         /\ s.media \in 1 .. Streams => Sets(s, k, v).tps[s.media] = Set(s.tps[s.media], k, v)
         /\ \A j : j # k => Keeps(s, Sets(s, k, v), j)
<1> DEFINE t == Sets(s, k, v)
           one == Set(s.tps[s.media], k, v)
<1>1. s.media \in 1 .. Streams => ReceiverParams(one)
  BY SetTyped DEF Parsed
<1>2. \A j : j # k => Same(s.tps[s.media], one, j)
  BY SetSame
<1>3. CASE s.media = 0
  <2>1. t = [s EXCEPT !.wild = TRUE]
    BY <1>3 DEF Sets
  <2> HIDE DEF t
  <2>2. Parsed(t) /\ t.tps = s.tps /\ t.media = s.media
    BY <2>1, NewFlags
  <2>3. s.media \notin 1 .. Streams
    BY <1>3
  <2>4. \A j : Keeps(s, t, j)
    BY <2>2 DEF Keeps, Same
  <2> QED
    BY <2>2, <2>3, <2>4 DEF t
<1>4. CASE s.media # 0
  <2>1. t = [s EXCEPT !.tps[s.media] = one]
    BY <1>4 DEF Sets
  <2> HIDE DEF t, one
  <2>2. StreamSet(s, t, s.media, one)
    BY <1>1, <2>1, SetsStream
  <2>3. \A j : j # k => Keeps(s, t, j)
    <3>1. ASSUME NEW j, j # k, NEW i \in 1 .. Streams
          PROVE  Same(s.tps[i], t.tps[i], j)
      <4>1. CASE i = s.media
        BY <1>2, <2>2, <3>1, <4>1 DEF StreamSet
      <4>2. CASE i # s.media
        BY <2>2, <4>2 DEF StreamSet, Same
      <4> QED
        BY <4>1, <4>2
    <3> QED
      BY <3>1 DEF Keeps
  <2> QED
    BY <2>2, <2>3 DEF StreamSet, t, one
<1> QED
  BY <1>3, <1>4

\* what a line may do to the parser's state
Effect(s, l, cr, t) ==
  /\ Parsed(t) /\ Keeps(s, t, "rtp_enabled")
  /\ l.type # "media" => t.media = s.media /\ Keeps(s, t, "destination_port")
  /\ l.type # "connection" => Keeps(s, t, "multicast_ip")
  /\ l.type = "media" =>
       /\ t.media = s.media + 1
       /\ \A i \in 1 .. Streams : i # t.media => t.tps[i] = s.tps[i]
       /\ t.ok /\ t.media <= Streams => t.tps[t.media].destination_port = l.port
  /\ l.type = "connection" =>
       /\ \A i \in 1 .. Streams : i # s.media => t.tps[i] = s.tps[i]
       /\ t.ok /\ s.media \in 1 .. Streams =>
            /\ "multicast_ip" \in DOMAIN t.tps[s.media]
            /\ t.tps[s.media].multicast_ip = GroupOf(l, cr)

\* a line that fails has the effect of what it did before
LEMMA FailsAfter ==
  ASSUME NEW s, NEW l, NEW cr, NEW u, Effect(s, l, cr, u)
  PROVE  Effect(s, l, cr, Failed(u))
<1>1. Parsed(u)
  BY DEF Effect
<1>2. Parsed(Failed(u)) /\ Failed(u).tps = u.tps /\ Failed(u).media = u.media /\ ~Failed(u).ok
  BY <1>1, FailedKeeps
<1> QED
  BY <1>2 DEF Effect, Keeps

LEMMA NoEffect ==
  ASSUME NEW s, Parsed(s), NEW l, l.type \notin {"media", "connection"}, NEW cr,
         NEW t, Parsed(t), t.tps = s.tps, t.media = s.media
  PROVE  Effect(s, l, cr, t)
  BY DEF Effect, Keeps, Same

\* of a line that sets another member only
LEMMA OtherMember ==
  ASSUME NEW s, NEW l, l.type \notin {"media", "connection"}, NEW cr,
         NEW t, Parsed(t), t.media = s.media,
         \A j \in {"rtp_enabled", "destination_port", "multicast_ip"} : Keeps(s, t, j)
  PROVE  Effect(s, l, cr, t)
  BY DEF Effect

LEMMA OriginEffect ==
  ASSUME NEW s, Parsed(s), NEW l \in Lines, l.type = "origin", NEW cr
  PROVE  Effect(s, l, cr, ParseOriginLine(s, l, cr))
<1> DEFINE all(v) == [s EXCEPT !.tps = [i \in 1 .. Streams |-> Set(@[i], "source_ip", v)]]
           t == ParseOriginLine(s, l, cr)
<1>1. ASSUME NEW v \in Known
      PROVE  Effect(s, l, cr, all(v))
  <2> DEFINE tps == [i \in 1 .. Streams |-> Set(s.tps[i], "source_ip", v)]
  <2>1. all(v) = [s EXCEPT !.tps = tps]
    OBVIOUS
  <2>2. \A i \in 1 .. Streams : ReceiverParams(tps[i])
    BY SetTyped, MemberTyped DEF Parsed
  <2>3. \A i \in 1 .. Streams, j \in {"rtp_enabled", "destination_port", "multicast_ip"} :
          Same(s.tps[i], tps[i], j)
    BY SetSame
  <2>4. DOMAIN tps = 1 .. Streams
    OBVIOUS
  <2> HIDE DEF tps, all
  <2> DEFINE u == [s EXCEPT !.tps = tps]
  <2>5. Parsed(u) /\ u.tps = tps /\ u.media = s.media
    BY <2>2, <2>4, NewStreams
  <2> HIDE DEF u
  <2>6. \A j \in {"rtp_enabled", "destination_port", "multicast_ip"} : Keeps(s, u, j)
    BY <2>3, <2>5 DEF Keeps
  <2>7. Effect(s, l, cr, u)
    BY <2>5, <2>6, OtherMember
  <2> QED
    BY <2>1, <2>7 DEF u
<1>2. Effect(s, l, cr, s)
  BY NoEffect
<1> HIDE DEF all
<1>3. CASE Unicast(l.ip)
  <2>1. l.ip \in Addresses \cup WithCR /\ ~Multicast(l.ip)
    BY <1>3, Disjoint
  <2>2. t = all(AtEnd(cr, l.ip))
    BY <1>3, <2>1 DEF ParseOriginLine, all
  <2> QED
    BY <1>1, <2>1, <2>2, EndOfLine
<1>4. CASE Multicast(l.ip)
  <2>1. ~Unicast(l.ip) /\ Null \in Known
    BY <1>4, Disjoint DEF Known
  <2>2. t = Failed(all(Null))
    BY <1>4, <2>1 DEF ParseOriginLine, all
  <2> QED
    BY <1>1, <2>1, <2>2, FailsAfter
<1>5. CASE ~Unicast(l.ip) /\ ~Multicast(l.ip)
  <2>1. t = Failed(s)
    BY <1>5 DEF ParseOriginLine
  <2> QED
    BY <1>2, <2>1, FailsAfter
<1> QED
  BY <1>3, <1>4, <1>5

LEMMA ConnectionEffect ==
  ASSUME NEW s, Parsed(s), NEW l \in Lines, l.type = "connection", NEW cr
  PROVE  Effect(s, l, cr, ParseConnectionLine(s, l, cr))
<1> DEFINE t == ParseConnectionLine(s, l, cr)
           v == GroupOf(l, cr)
<1>1. CASE Multicast(l.ip) \/ Unicast(l.ip)
  <2>1. t = Sets(s, "multicast_ip", v)
    BY <1>1 DEF ParseConnectionLine
  <2>2. ReceiverHas("multicast_ip", v)
    BY GroupKnown, MemberTyped
  <2> HIDE DEF v, t
  <2>3. /\ Parsed(t) /\ t.media = s.media
        /\ \A i \in 1 .. Streams : i # s.media => t.tps[i] = s.tps[i]
        /\ s.media \in 1 .. Streams => t.tps[s.media] = Set(s.tps[s.media], "multicast_ip", v)
        /\ Keeps(s, t, "rtp_enabled") /\ Keeps(s, t, "destination_port")
    BY <2>1, <2>2, SetsMember
  <2>4. ASSUME NEW p
        PROVE  /\ "multicast_ip" \in DOMAIN Set(p, "multicast_ip", v)
               /\ Set(p, "multicast_ip", v).multicast_ip = v
    <3>1. Changes(p, Set(p, "multicast_ip", v), {"multicast_ip"})
          /\ Set(p, "multicast_ip", v)["multicast_ip"] = v
      BY SetMember
    <3> QED
      BY <3>1 DEF Changes
  <2> QED
    BY <2>3, <2>4 DEF Effect, v, t
<1>2. CASE ~Multicast(l.ip) /\ ~Unicast(l.ip)
  <2>1. t = Failed(s)
    BY <1>2 DEF ParseConnectionLine
  <2>2. Parsed(t) /\ ~t.ok /\ t.tps = s.tps /\ t.media = s.media
    BY <2>1, FailedKeeps
  <2> QED
    BY <2>2 DEF Effect, Keeps, Same
<1> QED
  BY <1>1, <1>2

LEMMA FilterEffect ==
  ASSUME NEW s, Parsed(s), NEW l \in Lines, l.type = "filter", NEW cr
  PROVE  Effect(s, l, cr, ParseSourceFilter(s, l, cr))
<1> DEFINE t == ParseSourceFilter(s, l, cr)
           v == AtEnd(cr, l.ip)
<1>1. CASE Multicast(l.group) /\ Unicast(l.ip)
  <2>1. t = Sets(s, "source_ip", v)
    BY <1>1 DEF ParseSourceFilter
  <2>2. ReceiverHas("source_ip", v)
    BY <1>1, Disjoint, EndOfLine, MemberTyped
  <2> HIDE DEF v, t
  <2>3. /\ Parsed(t) /\ t.media = s.media
        /\ \A j \in {"rtp_enabled", "destination_port", "multicast_ip"} : Keeps(s, t, j)
    BY <2>1, <2>2, SetsMember
  <2> QED
    BY <2>3, OtherMember DEF t
<1>2. CASE ~(Multicast(l.group) /\ Unicast(l.ip))
  <2>1. t = Failed(s)
    BY <1>2 DEF ParseSourceFilter
  <2> QED
    BY <2>1, NoEffect, FailsAfter
<1> QED
  BY <1>1, <1>2

LEMMA NumberOfPort ==
  ASSUME NEW n, PortNumber(n)
  PROVE  n \in Int /\ n # 0
<1>1. n \in Port /\ n # 0
  BY DEF PortNumber
<1>2. Port \subseteq Int
  BY DEF Port, PortSpace
<1> QED
  BY <1>1, <1>2

\* the port of a media or of its RTCP
LEMMA PortSet ==
  ASSUME NEW p, ReceiverParams(p), NEW k, k \in {"destination_port", "rtcp_destination_port"},
         NEW n, n \in Int, n # 0
  PROVE  /\ ReceiverParams(SetPort(p, k, n))
         /\ k \in DOMAIN p => SetPort(p, k, n)[k] = n
         /\ \A j : j # k => Same(p, SetPort(p, k, n), j)
<1>1. CASE k \in DOMAIN p
  <2>1. SetPort(p, k, n) = Set(p, k, n)
    BY <1>1 DEF SetPort
  <2>2. ReceiverHas(k, n)
    BY MemberTyped
  <2>3. ReceiverParams(Set(p, k, n))
    BY <2>2, SetTyped
  <2>4. Set(p, k, n)[k] = n
    BY DEF Set
  <2>5. ASSUME NEW j, j # k
        PROVE  Same(p, Set(p, k, n), j)
    BY <2>5, SetSame
  <2> QED
    BY <2>1, <2>3, <2>4, <2>5
<1>2. CASE k \notin DOMAIN p
  BY <1>2 DEF SetPort, Same
<1> QED
  BY <1>1, <1>2

LEMMA PortOfStream ==
  ASSUME NEW s, Parsed(s), NEW k, k \in {"destination_port", "rtcp_destination_port"},
         NEW n, n \in Int, n # 0
  PROVE  LET one == SetPort(s.tps[s.media], k, n)
             t == [s EXCEPT !.tps[s.media] = one]
         IN /\ StreamSet(s, t, s.media, one)
            /\ \A j : j # k => Keeps(s, t, j)
<1> DEFINE one == SetPort(s.tps[s.media], k, n)
           t == [s EXCEPT !.tps[s.media] = one]
<1>1. s.media \in 1 .. Streams =>
        ReceiverParams(one) /\ \A j : j # k => Same(s.tps[s.media], one, j)
  BY PortSet DEF Parsed
<1> HIDE DEF one
<1>2. StreamSet(s, t, s.media, one)
  BY <1>1, SetsStream
<1> HIDE DEF t
<1>3. ASSUME NEW j, j # k, NEW i \in 1 .. Streams
      PROVE  Same(s.tps[i], t.tps[i], j)
  <2>1. CASE i = s.media
    BY <1>1, <1>2, <1>3, <2>1 DEF StreamSet
  <2>2. CASE i # s.media
    BY <1>2, <2>2 DEF StreamSet, Same
  <2> QED
    BY <2>1, <2>2
<1>4. \A j : j # k => Keeps(s, t, j)
  BY <1>3 DEF Keeps
<1> QED
  BY <1>2, <1>4 DEF t, one

LEMMA RtcpEffect ==
  ASSUME NEW s, Parsed(s), NEW l \in Lines, l.type = "rtcp", NEW cr
  PROVE  Effect(s, l, cr, ParseRTCP(s, l))
<1> DEFINE t == ParseRTCP(s, l)
           one == SetPort(s.tps[s.media], "rtcp_destination_port", l.port)
           w == [s EXCEPT !.wild = TRUE]
           u == [s EXCEPT !.tps[s.media] = one]
           set == IF s.media = 0 THEN w ELSE u
<1>1. CASE ~PortNumber(l.port)
  <2>1. t = Failed(s)
    BY <1>1 DEF ParseRTCP
  <2> QED
    BY <2>1, NoEffect, FailsAfter
<1>2. CASE PortNumber(l.port)
  <2>1. l.port \in Int /\ l.port # 0
    BY <1>2, NumberOfPort
  <2>2. t = set \/ t = Failed(set)
    BY <1>2 DEF ParseRTCP
  <2>3. Effect(s, l, cr, w)
    <3>1. Parsed(w) /\ w.tps = s.tps /\ w.media = s.media
      BY NewFlags
    <3> HIDE DEF w
    <3> QED
      BY <3>1, NoEffect
  <2>4. Effect(s, l, cr, u)
    <3>1. StreamSet(s, u, s.media, one)
          /\ \A j : j # "rtcp_destination_port" => Keeps(s, u, j)
      BY <2>1, PortOfStream
    <3> HIDE DEF u, one
    <3> QED
      BY <3>1, OtherMember DEF StreamSet
  <2> HIDE DEF u, w, t
  <2> QED
    BY <2>2, <2>3, <2>4, FailsAfter DEF t
<1> QED
  BY <1>1, <1>2

LEMMA MediaEffect ==
  ASSUME NEW s, Parsed(s), NEW l \in Lines, l.type = "media", NEW cr
  PROVE  Effect(s, l, cr, ParseMediaLine(s, l))
<1> DEFINE t == ParseMediaLine(s, l)
           next == [s EXCEPT !.media = @ + 1]
           one == SetPort(next.tps[next.media], "destination_port", l.port)
           set == [next EXCEPT !.tps[next.media] = one]
<1>1. Parsed(next) /\ next.tps = s.tps /\ next.media = s.media + 1
  BY NewFlags
<1>2. Streams \in Nat /\ next.media \in Nat /\ next.media # 0
  <2>1. s.media \in Nat /\ next.media = s.media + 1
    BY <1>1 DEF Parsed
  <2> QED
    BY <2>1, ParamsAssumption
<1>3. t = IF next.media > Streams THEN next ELSE IF PortNumber(l.port) THEN set ELSE Failed(next)
  BY DEF ParseMediaLine
<1> HIDE DEF next, t
\* a line that leaves the streams as they were
<1>4. ASSUME NEW u, Parsed(u), u.tps = s.tps, u.media = s.media + 1, ~(u.ok /\ u.media <= Streams)
      PROVE  Effect(s, l, cr, u)
  BY <1>4 DEF Effect, Keeps, Same
<1>5. CASE next.media > Streams
  <2>1. t = next /\ ~(next.media <= Streams)
    BY <1>2, <1>3, <1>5
  <2> QED
    BY <1>1, <1>4, <2>1 DEF t
<1>6. CASE ~(next.media > Streams) /\ PortNumber(l.port)
  <2>1. l.port \in Int /\ l.port # 0
    BY <1>6, NumberOfPort
  <2>2. next.media \in 1 .. Streams
    BY <1>2, <1>6
  <2>3. /\ StreamSet(next, set, next.media, one)
        /\ Keeps(next, set, "rtp_enabled") /\ Keeps(next, set, "multicast_ip")
    BY <1>1, <2>1, PortOfStream
  <2>4. one.destination_port = l.port
    <3>1. /\ ReceiverParams(next.tps[next.media])
          /\ "destination_port" \in DOMAIN next.tps[next.media]
      BY <1>1, <2>2 DEF Parsed, ReceiverParams
    <3> QED
      BY <2>1, <3>1, PortSet
  <2> HIDE DEF one, set
  <2>5. t = set
    BY <1>3, <1>6
  <2>6. Effect(s, l, cr, set)
    BY <1>1, <2>2, <2>3, <2>4 DEF Effect, StreamSet, Keeps
  <2> QED
    BY <2>5, <2>6 DEF t
<1>7. CASE ~(next.media > Streams) /\ ~PortNumber(l.port)
  <2>1. t = Failed(next)
    BY <1>3, <1>7
  <2>2. Parsed(t) /\ ~t.ok /\ t.tps = s.tps /\ t.media = s.media + 1
    BY <1>1, <2>1, FailedKeeps
  <2> QED
    BY <1>4, <2>2 DEF t
<1> QED
  BY <1>5, <1>6, <1>7

LEMMA LineEffect ==
  ASSUME NEW s, Parsed(s), NEW l \in Lines, NEW cr
  PROVE  \/ (~s.ok \/ s.media > Streams) /\ ParseLine(s, l, cr) = s
         \/ s.ok /\ ~(s.media > Streams) /\ Effect(s, l, cr, ParseLine(s, l, cr))
<1> DEFINE t == ParseLine(s, l, cr)
<1>1. CASE ~s.ok \/ s.media > Streams
  BY <1>1 DEF ParseLine
<1>2. CASE s.ok /\ ~(s.media > Streams)
  <2>1. CASE l.type = "origin"
    BY <1>2, <2>1, OriginEffect DEF ParseLine
  <2>2. CASE l.type = "media"
    BY <1>2, <2>2, MediaEffect DEF ParseLine
  <2>3. CASE l.type = "connection"
    BY <1>2, <2>3, ConnectionEffect DEF ParseLine
  <2>4. CASE l.type = "filter"
    BY <1>2, <2>4, FilterEffect DEF ParseLine
  <2>5. CASE l.type = "rtcp"
    BY <1>2, <2>5, RtcpEffect DEF ParseLine
  <2> QED
    BY <1>2, <2>1, <2>2, <2>3, <2>4, <2>5, LineTyped
<1> QED
  BY <1>1, <1>2

LEMMA NatMin == ASSUME NEW T \in SUBSET Nat, T # {} PROVE \E m \in T : \A k \in T : m <= k
<1> DEFINE R == OpToRel(<, Nat)
<1>1. IsWellFoundedOn(R, Nat)
  BY NatLessThanWellFounded
<1>2. PICK m \in T : \A k \in T : ~(<<k, m>> \in R)
  BY <1>1, WFMin
<1>3. \A k \in T : ~(k < m)
  BY <1>2 DEF OpToRel
<1> QED
  BY <1>3

IsRun(g, base, lines, cr, m) ==
  g = [n \in 0 .. m |-> IF n = 0 THEN base ELSE ParseLine(g[n-1], lines[n], cr)]

LEMMA RunExists ==
  ASSUME NEW base, NEW lines, NEW cr, NEW m \in Nat
  PROVE  \E g : IsRun(g, base, lines, cr, m)
<1> DEFINE Def(k) == \E g : IsRun(g, base, lines, cr, k)
           T == {k \in Nat : ~Def(k)}
<1>1. SUFFICES T = {}
  OBVIOUS
<1>2. SUFFICES ASSUME T # {} PROVE FALSE
  OBVIOUS
<1>3. PICK k \in T : \A j \in T : k <= j
  BY <1>2, NatMin
<1>4. CASE k = 0
  <2> DEFINE g == [n \in 0 .. 0 |-> base]
  <2>1. g = [n \in 0 .. 0 |-> IF n = 0 THEN base ELSE ParseLine(g[n-1], lines[n], cr)]
    OBVIOUS
  <2> HIDE DEF g
  <2>2. Def(0)
    BY <2>1 DEF IsRun
  <2> QED
    BY <1>3, <1>4, <2>2
<1>5. CASE k # 0
  <2> HIDE DEF Def
  <2>1. k - 1 \in Nat /\ k - 1 \notin T
    BY <1>3, <1>5
  <2>2. Def(k-1)
    BY <2>1
  <2> USE DEF Def
  <2>3. PICK g : g = [n \in 0 .. k-1 |-> IF n = 0 THEN base ELSE ParseLine(g[n-1], lines[n], cr)]
    BY <2>2 DEF IsRun
  <2> DEFINE h == [n \in 0 .. k |-> IF n = k THEN ParseLine(g[k-1], lines[k], cr) ELSE g[n]]
  <2>4. \A n \in 0 .. k : h[n] = IF n = 0 THEN base ELSE ParseLine(h[n-1], lines[n], cr)
    BY <2>1, <2>3, <1>5
  <2>5. h = [n \in 0 .. k |-> IF n = 0 THEN base ELSE ParseLine(h[n-1], lines[n], cr)]
    BY <2>4
  <2>6. Def(k)
    BY <2>5 DEF IsRun
  <2> QED
    BY <1>3, <2>6
<1> QED
  BY <1>4, <1>5

LEMMA ParseSteps ==
  ASSUME NEW sdp, sdp.lines \in Seq(Lines), NEW tps
  PROVE  /\ ParseLines(sdp, tps)[0] = [tps |-> tps, media |-> 0, ok |-> TRUE, wild |-> FALSE]
         /\ \A n \in 1 .. Len(sdp.lines) :
              ParseLines(sdp, tps)[n] = ParseLine(ParseLines(sdp, tps)[n-1], sdp.lines[n], sdp.cr)
<1> DEFINE g == ParseLines(sdp, tps)
           lines == sdp.lines
           base == [tps |-> tps, media |-> 0, ok |-> TRUE, wild |-> FALSE]
           cr == sdp.cr
           N == Len(lines)
<1>0. N \in Nat
  OBVIOUS
<1> HIDE DEF g, N, base, cr
<1>1. \E f : f = [n \in 0 .. N |-> IF n = 0 THEN base ELSE ParseLine(f[n-1], lines[n], cr)]
  <2>2. PICK f : IsRun(f, base, lines, cr, N)
    BY <1>0, RunExists
  <2>3. f = [n \in 0 .. N |-> IF n = 0 THEN base ELSE ParseLine(f[n-1], lines[n], cr)]
    BY <2>2 DEF IsRun
  <2> QED
    BY <2>3, Zenon
<1>2. g = [n \in 0 .. N |-> IF n = 0 THEN base ELSE ParseLine(g[n-1], lines[n], cr)]
  BY <1>1 DEF g, N, base, cr, ParseLines
<1>3. /\ g[0] = base
      /\ \A n \in 1 .. N : g[n] = ParseLine(g[n-1], lines[n], cr)
  BY <1>0, <1>2
<1> QED
  BY <1>3 DEF g, N, base, cr

MediaLines(lines, n) == {m \in 1 .. n : lines[m].type = "media"}

LEMMA MediaLinesFinite ==
  ASSUME NEW lines, NEW n \in Nat
  PROVE  IsFiniteSet(MediaLines(lines, n)) /\ MediaOf(lines, n) = Cardinality(MediaLines(lines, n))
<1>1. IsFiniteSet(1 .. n)
  BY FS_Interval
<1>2. MediaLines(lines, n) \subseteq 1 .. n
  BY DEF MediaLines
<1> QED
  BY <1>1, <1>2, FS_Subset DEF MediaOf, MediaLines

LEMMA MediaCount ==
  ASSUME NEW lines, NEW n \in Nat
  PROVE  /\ MediaOf(lines, n) \in Nat
         /\ MediaOf(lines, 0) = 0
         /\ \A k \in 0 .. n : MediaOf(lines, k) <= MediaOf(lines, n)
<1>1. MediaOf(lines, n) \in Nat
  BY MediaLinesFinite, FS_CardinalityType
<1>2. MediaOf(lines, 0) = 0
  <2>1. MediaLines(lines, 0) = {}
    BY DEF MediaLines
  <2> QED
    BY <2>1, MediaLinesFinite, FS_EmptySet
<1>3. ASSUME NEW k \in 0 .. n
      PROVE  MediaOf(lines, k) <= MediaOf(lines, n)
  <2>1. MediaLines(lines, k) \subseteq MediaLines(lines, n)
    BY DEF MediaLines
  <2>2. k \in Nat
    OBVIOUS
  <2> QED
    BY <2>1, <2>2, MediaLinesFinite, FS_Subset
<1> QED
  BY <1>1, <1>2, <1>3

LEMMA MediaStep ==
  ASSUME NEW lines, NEW n \in Nat, n # 0
  PROVE  \/ lines[n].type = "media" /\ MediaOf(lines, n) = MediaOf(lines, n - 1) + 1
         \/ lines[n].type # "media" /\ MediaOf(lines, n) = MediaOf(lines, n - 1)
<1> DEFINE S == MediaLines(lines, n - 1)
<1>0. n - 1 \in Nat
  OBVIOUS
<1>1. IsFiniteSet(S) /\ MediaOf(lines, n - 1) = Cardinality(S)
  BY <1>0, MediaLinesFinite
<1>2. MediaOf(lines, n) = Cardinality(MediaLines(lines, n))
  BY MediaLinesFinite
<1>3. CASE lines[n].type = "media"
  <2>1. MediaLines(lines, n) = S \cup {n} /\ n \notin S
    BY <1>3 DEF MediaLines
  <2> HIDE DEF S
  <2>2. Cardinality(S \cup {n}) = Cardinality(S) + 1
    BY <1>1, <2>1, FS_AddElement
  <2> QED
    BY <1>1, <1>2, <1>3, <2>1, <2>2
<1>4. CASE lines[n].type # "media"
  <2>1. MediaLines(lines, n) = S
    BY <1>4 DEF MediaLines
  <2> QED
    BY <1>1, <1>2, <1>4, <2>1
<1> QED
  BY <1>3, <1>4

\* the parser has seen the media lines, or has stopped behind the last stream
Reached(lines, n, s) ==
  \/ s.media <= Streams /\ s.media = MediaOf(lines, n)
  \/ s.media > Streams /\ MediaOf(lines, n) > Streams

\* PortLines and GroupLines of the first n lines
LinesOf(lines, n, i, k) ==
  {m \in 1 .. n : /\ lines[m].type = IF k = "destination_port" THEN "media" ELSE "connection"
                  /\ MediaOf(lines, m) = i}

ToldBy(l, cr, k) == IF k = "destination_port" THEN l.port ELSE GroupOf(l, cr)

\* Tells of the first n lines
TellsSoFar(lines, cr, n, i, k, old, new) ==
  /\ LinesOf(lines, n, i, k) = {} => Same(old, new, k)
  /\ \A m \in LinesOf(lines, n, i, k) :
       (\A j \in LinesOf(lines, n, i, k) : j <= m) =>
         k \in DOMAIN new /\ new[k] = ToldBy(lines[m], cr, k)

LEMMA SameIsTold ==
  ASSUME NEW lines, NEW cr, NEW n, NEW i, NEW k, NEW p, NEW old, NEW new, NEW q,
         TellsSoFar(lines, cr, n, i, k, old, new), Same(p, old, k), Same(new, q, k)
  PROVE  TellsSoFar(lines, cr, n, i, k, p, q)
  BY DEF TellsSoFar, Same

LEMMA TellsStep ==
  ASSUME NEW lines, NEW cr, NEW n \in Nat, n # 0, NEW i, NEW k, NEW base, NEW old, NEW new,
         TellsSoFar(lines, cr, n - 1, i, k, base, old),
         n \in LinesOf(lines, n, i, k) => k \in DOMAIN new /\ new[k] = ToldBy(lines[n], cr, k),
         n \notin LinesOf(lines, n, i, k) => Same(old, new, k)
  PROVE  TellsSoFar(lines, cr, n, i, k, base, new)
<1>1. CASE n \in LinesOf(lines, n, i, k)
  <2>1. \A m \in LinesOf(lines, n, i, k) : m \in 1 .. n
    BY DEF LinesOf
  <2>2. \A m \in LinesOf(lines, n, i, k) : n <= m => m = n
    BY <2>1
  <2> QED
    BY <1>1, <2>2 DEF TellsSoFar
<1>2. CASE n \notin LinesOf(lines, n, i, k)
  <2>1. LinesOf(lines, n, i, k) = LinesOf(lines, n - 1, i, k)
    BY <1>2 DEF LinesOf
  <2>2. TellsSoFar(lines, cr, n - 1, i, k, base, new)
    BY <1>2, SameIsTold DEF Same
  <2> QED
    BY <2>1, <2>2 DEF TellsSoFar
<1> QED
  BY <1>1, <1>2

RtpIsOff(tps) == \A i \in 1 .. Streams : tps[i].rtp_enabled = FALSE

\* the members that FileAppliedOrOff is about
Told == {"destination_port", "multicast_ip"}

ParseInv(lines, cr, n, base, s) ==
  /\ Parsed(s) /\ RtpIsOff(s.tps)
  /\ s.ok => /\ Reached(lines, n, s)
             /\ \A i \in 1 .. Streams, k \in Told :
                  TellsSoFar(lines, cr, n, i, k, base[i], s.tps[i])

LEMMA StoppedStep ==
  ASSUME NEW lines, NEW cr, NEW n \in Nat, n # 0, NEW base, NEW s,
         ParseInv(lines, cr, n - 1, base, s), s.ok, s.media > Streams
  PROVE  ParseInv(lines, cr, n, base, s)
<1>1. Streams \in Nat /\ s.media \in Nat /\ n - 1 \in Nat
  BY ParamsAssumption DEF ParseInv, Parsed
<1>2. MediaOf(lines, n - 1) > Streams /\ MediaOf(lines, n - 1) \in Nat
  BY <1>1, MediaCount DEF ParseInv, Reached
<1>3. MediaOf(lines, n) > Streams /\ MediaOf(lines, n) \in Nat
  <2>1. n - 1 \in 0 .. n
    OBVIOUS
  <2>2. MediaOf(lines, n - 1) <= MediaOf(lines, n) /\ MediaOf(lines, n) \in Nat
    BY <2>1, MediaCount
  <2> QED
    BY <1>1, <1>2, <2>2
<1>4. Reached(lines, n, s)
  BY <1>3 DEF Reached
<1>5. ASSUME NEW i \in 1 .. Streams, NEW k \in Told
      PROVE  TellsSoFar(lines, cr, n, i, k, base[i], s.tps[i])
  <2>1. TellsSoFar(lines, cr, n - 1, i, k, base[i], s.tps[i])
    BY DEF ParseInv
  <2>2. n \notin LinesOf(lines, n, i, k)
    BY <1>1, <1>3 DEF LinesOf
  <2>3. Same(s.tps[i], s.tps[i], k)
    BY DEF Same
  <2> QED
    BY <2>1, <2>2, <2>3, TellsStep
<1> QED
  BY <1>4, <1>5 DEF ParseInv

LEMMA OffStays ==
  ASSUME NEW s, Parsed(s), RtpIsOff(s.tps), NEW t, Keeps(s, t, "rtp_enabled")
  PROVE  RtpIsOff(t.tps)
<1>1. \A i \in 1 .. Streams : "rtp_enabled" \in DOMAIN s.tps[i]
  BY DEF Parsed, ReceiverParams
<1> QED
  BY <1>1 DEF Keeps, Same, RtpIsOff

LEMMA ReadStep ==
  ASSUME NEW lines, NEW cr, NEW n \in Nat, n # 0, NEW base, NEW s,
         ParseInv(lines, cr, n - 1, base, s), s.ok, ~(s.media > Streams),
         NEW t, Effect(s, lines[n], cr, t), t.ok
  PROVE  /\ Reached(lines, n, t)
         /\ \A i \in 1 .. Streams, k \in Told :
              TellsSoFar(lines, cr, n, i, k, base[i], t.tps[i])
<1> DEFINE M == MediaOf(lines, n - 1)
           N == MediaOf(lines, n)
<1>1. Streams \in Nat /\ s.media \in Nat /\ n - 1 \in Nat /\ Parsed(s) /\ Parsed(t)
  BY ParamsAssumption DEF ParseInv, Parsed, Effect
<1>2. s.media = M /\ M <= Streams /\ M \in Nat
  BY <1>1 DEF ParseInv, Reached
<1>3. \/ lines[n].type = "media" /\ N = M + 1
      \/ lines[n].type # "media" /\ N = M
  BY MediaStep
<1>4. t.media = N
  BY <1>2, <1>3 DEF Effect
<1> HIDE DEF M, N
<1>5. Reached(lines, n, t)
  BY <1>1, <1>2, <1>3, <1>4 DEF Reached, N
<1>6. ASSUME NEW i \in 1 .. Streams, NEW k \in Told
      PROVE  TellsSoFar(lines, cr, n, i, k, base[i], t.tps[i])
  <2>1. TellsSoFar(lines, cr, n - 1, i, k, base[i], s.tps[i])
    BY DEF ParseInv
  <2>2. n \in LinesOf(lines, n, i, k) <=>
          /\ lines[n].type = IF k = "destination_port" THEN "media" ELSE "connection"
          /\ N = i
    BY DEF LinesOf, N
  <2>3. CASE k = "destination_port" /\ lines[n].type = "media"
    <3>1. /\ i # N => t.tps[i] = s.tps[i]
          /\ i = N => t.tps[i].destination_port = lines[n].port
      BY <1>1, <1>4, <2>3 DEF Effect
    <3>2. "destination_port" \in DOMAIN t.tps[i]
      BY <1>1 DEF Parsed, ReceiverParams
    <3>3. i # N => Same(s.tps[i], t.tps[i], k)
      BY <3>1 DEF Same
    <3>4. i = N => k \in DOMAIN t.tps[i] /\ t.tps[i][k] = ToldBy(lines[n], cr, k)
      BY <2>3, <3>1, <3>2 DEF ToldBy
    <3> QED
      BY <2>1, <2>2, <2>3, <3>3, <3>4, TellsStep
  <2>4. CASE k = "multicast_ip" /\ lines[n].type = "connection"
    <3>1. /\ i # N => t.tps[i] = s.tps[i]
          /\ i = N => /\ "multicast_ip" \in DOMAIN t.tps[i]
                      /\ t.tps[i].multicast_ip = GroupOf(lines[n], cr)
      BY <1>2, <1>3, <2>4 DEF Effect
    <3>2. i # N => Same(s.tps[i], t.tps[i], k)
      BY <3>1 DEF Same
    <3>3. i = N => k \in DOMAIN t.tps[i] /\ t.tps[i][k] = ToldBy(lines[n], cr, k)
      BY <2>4, <3>1 DEF ToldBy
    <3> QED
      BY <2>1, <2>2, <2>4, <3>2, <3>3, TellsStep
  <2>5. CASE \/ k = "destination_port" /\ lines[n].type # "media"
             \/ k = "multicast_ip" /\ lines[n].type # "connection"
    <3>1. n \notin LinesOf(lines, n, i, k)
      BY <2>2, <2>5
    <3>2. Same(s.tps[i], t.tps[i], k)
      BY <2>5 DEF Effect, Keeps
    <3> QED
      BY <2>1, <3>1, <3>2, TellsStep
  <2> QED
    BY <2>3, <2>4, <2>5 DEF Told
<1> QED
  BY <1>5, <1>6

LEMMA ParseStep ==
  ASSUME NEW lines, NEW n \in Nat, n # 0, lines[n] \in Lines, NEW cr, NEW base,
         NEW s, ParseInv(lines, cr, n - 1, base, s)
  PROVE  ParseInv(lines, cr, n, base, ParseLine(s, lines[n], cr))
<1> DEFINE t == ParseLine(s, lines[n], cr)
<1>1. Parsed(s) /\ RtpIsOff(s.tps)
  BY DEF ParseInv
<1>2. \/ (~s.ok \/ s.media > Streams) /\ t = s
      \/ s.ok /\ ~(s.media > Streams) /\ Effect(s, lines[n], cr, t)
  BY <1>1, LineEffect
<1> HIDE DEF t
<1>3. CASE ~s.ok /\ t = s
  <2>1. ParseInv(lines, cr, n, base, s)
    BY <1>1, <1>3 DEF ParseInv
  <2> QED
    BY <1>3, <2>1 DEF t
<1>4. CASE s.ok /\ s.media > Streams /\ t = s
  <2>1. ParseInv(lines, cr, n, base, s)
    BY <1>4, StoppedStep
  <2> QED
    BY <1>4, <2>1 DEF t
<1>5. CASE s.ok /\ ~(s.media > Streams) /\ Effect(s, lines[n], cr, t)
  <2>1. Parsed(t) /\ RtpIsOff(t.tps)
    BY <1>1, <1>5, OffStays DEF Effect
  <2>2. t.ok => /\ Reached(lines, n, t)
                /\ \A i \in 1 .. Streams, k \in Told :
                     TellsSoFar(lines, cr, n, i, k, base[i], t.tps[i])
    BY <1>5, ReadStep
  <2>3. ParseInv(lines, cr, n, base, t)
    BY <2>1, <2>2 DEF ParseInv
  <2> QED
    BY <2>3 DEF t
<1> QED
  BY <1>2, <1>3, <1>4, <1>5

\* a receiver's streams
Receives(tps) == DOMAIN tps = 1 .. Streams /\ \A i \in 1 .. Streams : ReceiverParams(tps[i])

\* by least counterexample
LEMMA ParseKeepsInv ==
  ASSUME NEW sdp, sdp.lines \in Seq(Lines), NEW tps, Receives(tps), RtpIsOff(tps)
  PROVE  ParseInv(sdp.lines, sdp.cr, Len(sdp.lines), tps, Parse(sdp, tps))
<1> DEFINE lines == sdp.lines
           cr == sdp.cr
           after == ParseLines(sdp, tps)
           Holds(n) == ParseInv(lines, cr, n, tps, after[n])
           Bad == {n \in 0 .. Len(lines) : ~Holds(n)}
<1>0. Len(lines) \in Nat
  OBVIOUS
<1>1. after[0] = [tps |-> tps, media |-> 0, ok |-> TRUE, wild |-> FALSE]
  BY ParseSteps
<1>2. \A n \in 1 .. Len(lines) : after[n] = ParseLine(after[n-1], lines[n], cr)
  BY ParseSteps
<1>3. \A n \in 1 .. Len(lines) : lines[n] \in Lines
  OBVIOUS
<1>4. Parse(sdp, tps) = after[Len(lines)]
  BY DEF Parse
<1> HIDE DEF after, lines, cr
<1>5. Holds(0)
  <2> DEFINE s == [tps |-> tps, media |-> 0, ok |-> TRUE, wild |-> FALSE]
  <2>1. Parsed(s)
    BY DEF Parsed, Receives
  <2>2. Reached(lines, 0, s)
    <3>1. MediaOf(lines, 0) = 0
      BY MediaCount
    <3> QED
      BY <3>1, ParamsAssumption DEF Reached
  <2>3. \A i \in 1 .. Streams, k \in Told : TellsSoFar(lines, cr, 0, i, k, tps[i], s.tps[i])
    BY DEF TellsSoFar, LinesOf, Same
  <2>4. RtpIsOff(s.tps)
    OBVIOUS
  <2> HIDE DEF s
  <2>5. ParseInv(lines, cr, 0, tps, s)
    BY <2>1, <2>2, <2>3, <2>4 DEF ParseInv
  <2> QED
    BY <1>1, <2>5 DEF s
<1>6. Bad = {}
  <2>1. SUFFICES ASSUME Bad # {} PROVE FALSE
    OBVIOUS
  <2>2. Bad \in SUBSET Nat
    BY <1>0
  <2>3. PICK n \in Bad : \A k \in Bad : n <= k
    BY <2>1, <2>2, NatMin
  <2>4. n \in Nat /\ n \in 0 .. Len(lines) /\ ~Holds(n)
    BY <2>2, <2>3
  <2> HIDE DEF Holds
  <2>5. n # 0
    BY <1>5, <2>4
  <2>6. n \in 1 .. Len(lines) /\ n - 1 \in 0 .. Len(lines)
    BY <1>0, <2>4, <2>5
  <2>7. Holds(n - 1)
    BY <1>0, <2>3, <2>4, <2>6
  <2>8. after[n] = ParseLine(after[n-1], lines[n], cr) /\ lines[n] \in Lines
    BY <1>2, <1>3, <2>6
  <2> HIDE DEF Bad
  <2>9. ParseInv(lines, cr, n, tps, ParseLine(after[n-1], lines[n], cr))
    BY <2>4, <2>5, <2>7, <2>8, ParseStep DEF Holds
  <2> QED
    BY <2>4, <2>8, <2>9 DEF Holds
<1>7. Len(lines) \in 0 .. Len(lines)
  BY <1>0
<1>8. ParseInv(lines, cr, Len(lines), tps, after[Len(lines)])
  BY <1>6, <1>7
<1> QED
  BY <1>4, <1>8 DEF lines, cr

LEMMA RtpSwitched ==
  ASSUME NEW tps, Receives(tps), NEW b \in BOOLEAN
  PROVE  LET new == EnableRtp(tps, 1 .. Streams, b)
         IN /\ Receives(new)
            /\ \A i \in 1 .. Streams : new[i].rtp_enabled = b
            /\ \A i \in 1 .. Streams, k \in Told : Same(tps[i], new[i], k)
<1> DEFINE new == EnableRtp(tps, 1 .. Streams, b)
<1>1. DOMAIN new = 1 .. Streams /\ \A i \in 1 .. Streams : new[i] = Set(tps[i], "rtp_enabled", b)
  BY DEF EnableRtp
<1> HIDE DEF new
<1>2. \A p : Set(p, "rtp_enabled", b)["rtp_enabled"] = b
  BY SetMember
<1>3. \A p : ReceiverParams(p) => ReceiverParams(Set(p, "rtp_enabled", b))
  BY SetTyped, MemberTyped
<1>4. Receives(new)
  BY <1>1, <1>3 DEF Receives
<1>5. \A i \in 1 .. Streams : new[i].rtp_enabled = b
  BY <1>1, <1>2
<1>6. \A i \in 1 .. Streams, k \in Told : Same(tps[i], new[i], k)
  BY <1>1, SetSame DEF Told
<1> QED
  BY <1>4, <1>5, <1>6 DEF new

LEMMA FileEffect ==
  ASSUME NEW sdp, sdp \in Sdps, NEW tps, Receives(tps)
  PROVE  LET new == SdpToTransportParams(sdp, tps).tps
         IN /\ Receives(new)
            /\ \/ \A i \in 1 .. Streams : ~new[i].rtp_enabled
               \/ \A i \in 1 .. Streams, k \in Told :
                    TellsSoFar(sdp.lines, sdp.cr, Len(sdp.lines), i, k, tps[i], new[i])
<1> DEFINE off == EnableRtp(tps, 1 .. Streams, FALSE)
           end == Parse(sdp, off)
           on == EnableRtp(end.tps, 1 .. Streams, TRUE)
           new == SdpToTransportParams(sdp, tps).tps
           Tell(p, q) == \A i \in 1 .. Streams, k \in Told :
                           TellsSoFar(sdp.lines, sdp.cr, Len(sdp.lines), i, k, p[i], q[i])
<1>1. sdp.lines \in Seq(Lines)
  BY DEF Sdps
<1>2. /\ Receives(off) /\ RtpIsOff(off)
      /\ \A i \in 1 .. Streams, k \in Told : Same(tps[i], off[i], k)
  BY RtpSwitched DEF RtpIsOff
<1>3. ParseInv(sdp.lines, sdp.cr, Len(sdp.lines), off, end)
  BY <1>1, <1>2, ParseKeepsInv
<1>4. new = IF end.ok THEN on ELSE end.tps
  BY DEF SdpToTransportParams
<1> HIDE DEF new, end, off
<1>5. Receives(end.tps) /\ RtpIsOff(end.tps)
  BY <1>3 DEF ParseInv, Parsed, Receives
<1>6. CASE ~end.ok
  <2>1. new = end.tps
    BY <1>4, <1>6
  <2> QED
    BY <1>5, <2>1 DEF RtpIsOff, new
<1>7. CASE end.ok
  <2>1. new = on
    BY <1>4, <1>7
  <2>2. Receives(on) /\ \A i \in 1 .. Streams, k \in Told : Same(end.tps[i], on[i], k)
    BY <1>5, RtpSwitched
  <2>3. Tell(off, end.tps)
    BY <1>3, <1>7 DEF ParseInv
  <2> HIDE DEF on
  <2>4. Tell(tps, on)
    BY <1>2, <2>2, <2>3, SameIsTold
  <2> QED
    BY <2>1, <2>2, <2>4 DEF new
<1> QED
  BY <1>6, <1>7

Sends(tps) == DOMAIN tps = 1 .. Streams /\ \A i \in 1 .. Streams : SenderParams(tps[i])

LEMMA LinesOfSender ==
  ASSUME NEW p, SenderParams(p), p.destination_port \in Int
  PROVE  CreateOriginLine(p) \in Lines /\ StreamLines(p) \in Seq(Lines)
<1>1. p.source_ip \in Words /\ p.destination_ip \in Words
  <2>1. {"source_ip", "destination_ip"} \subseteq IpKeys
    BY DEF IpKeys
  <2> QED
    BY <2>1, KeyValue DEF SenderParams, SenderHas, Words
<1>2. CreateOriginLine(p) \in Lines
  BY <1>1 DEF CreateOriginLine, Lines
<1>3. CreateMediaLine(p) \in Lines
  <2> DEFINE n == p.destination_port % PortSpace
             port == IF n = 0 THEN 5004 ELSE n
  <2>1. n \in Int
    BY PortWraps
  <2>2. CreateMediaLine(p) = [type |-> "media", port |-> port]
    BY DEF CreateMediaLine
  <2> HIDE DEF n
  <2>3. port \in Int
    BY <2>1
  <2> HIDE DEF port
  <2> QED
    BY <2>2, <2>3 DEF Lines
<1>4. CreateConnectionLine(p) \in Seq(Lines)
  <2> DEFINE d == p.destination_ip
             connection == [type |-> "connection", ip |-> d, ttl |-> Multicast(d)]
             filter == [type |-> "filter", group |-> d, ip |-> p.source_ip]
  <2>1. Multicast(d) \in BOOLEAN
    BY DEF Multicast
  <2>2. connection \in Lines
    <3> DEFINE t == Multicast(d)
    <3> HIDE DEF t
    <3> QED
      BY <1>1, <2>1 DEF Lines, t
  <2>3. filter \in Lines
    BY <1>1 DEF Lines
  <2>4. CreateConnectionLine(p) = CASE Unicast(d) -> <<connection>>
                                    [] Multicast(d) -> <<connection, filter>>
                                    [] OTHER -> <<>>
    BY DEF CreateConnectionLine
  <2>5. ~(Unicast(d) /\ Multicast(d))
    BY Disjoint
  <2> HIDE DEF d, connection, filter
  <2>6. <<connection>> \in Seq(Lines) /\ <<connection, filter>> \in Seq(Lines) /\ <<>> \in Seq(Lines)
    BY <2>2, <2>3
  <2> QED
    BY <2>4, <2>5, <2>6
<1>5. CreateRtcpLines(p) \in Seq(Lines)
  <2> DEFINE ip == p.rtcp_destination_ip
             port == p.rtcp_destination_port
             line == [type |-> "rtcp", port |-> port, ip |-> ip]
  <2>1. CreateRtcpLines(p) = <<>>
        \/ (port \in Nat /\ (Unicast(ip) \/ Multicast(ip)) /\ CreateRtcpLines(p) = <<line>>)
    BY DEF CreateRtcpLines
  <2> HIDE DEF ip, port
  <2>2. Unicast(ip) \/ Multicast(ip) => ip \in Words
    BY Disjoint DEF Words, Strings
  <2>3. port \in Nat /\ (Unicast(ip) \/ Multicast(ip)) => line \in Lines
    BY <2>2 DEF Lines
  <2> HIDE DEF line
  <2>4. line \in Lines => <<line>> \in Seq(Lines)
    OBVIOUS
  <2>5. <<>> \in Seq(Lines)
    OBVIOUS
  <2> QED
    BY <2>1, <2>3, <2>4, <2>5
<1>6. StreamLines(p) \in Seq(Lines)
  BY <1>3, <1>4, <1>5 DEF StreamLines
<1> QED
  BY <1>2, <1>6

LEMMA FileOfSender ==
  ASSUME NEW tps, Sends(tps), \A i \in 1 .. Streams : tps[i].destination_port \in Int
  PROVE  TransportParamsToSdp(tps) \in Sdps
<1>1. 1 \in 1 .. Streams /\ (Streams = 2 => 2 \in 1 .. Streams)
  BY ParamsAssumption
<1>2. /\ CreateOriginLine(tps[1]) \in Lines /\ StreamLines(tps[1]) \in Seq(Lines)
      /\ Streams = 2 => StreamLines(tps[2]) \in Seq(Lines)
  BY <1>1, LinesOfSender DEF Sends
<1> DEFINE first == <<CreateOriginLine(tps[1])>>
           one == StreamLines(tps[1])
           two == IF Streams = 2 THEN StreamLines(tps[2]) ELSE <<>>
           lines == first \o one \o two
<1>3. first \in Seq(Lines) /\ one \in Seq(Lines) /\ two \in Seq(Lines)
  BY <1>2
<1> HIDE DEF first, one, two
<1>4. lines \in Seq(Lines)
  BY <1>3
<1>5. TransportParamsToSdp(tps) = [cr |-> TRUE, lines |-> lines]
  BY DEF TransportParamsToSdp, first, one, two
<1> HIDE DEF lines
<1>6. TRUE \in BOOLEAN
  OBVIOUS
<1> QED
  BY <1>4, <1>5, <1>6 DEF Sdps

LEMMA EmptyFile == Empty \in Sdps
<1>1. <<>> \in Seq(Lines) /\ FALSE \in BOOLEAN
  OBVIOUS
<1> QED
  BY <1>1 DEF Empty, Sdps

-----------------------------------------------------------------------------

\* With() keeps what holds of every member
LEMMA WithSender ==
  ASSUME NEW p, \A k \in DOMAIN p : SenderHas(k, p[k]),
         NEW q, \A k \in DOMAIN q : SenderHas(k, q[k])
  PROVE  /\ \A k \in DOMAIN With(p, q) : SenderHas(k, With(p, q)[k])
         /\ DOMAIN p \subseteq DOMAIN With(p, q)
  BY DEF With

LEMMA WithReceiver ==
  ASSUME NEW p, \A k \in DOMAIN p : ReceiverHas(k, p[k]),
         NEW q, \A k \in DOMAIN q : ReceiverHas(k, q[k])
  PROVE  /\ \A k \in DOMAIN With(p, q) : ReceiverHas(k, With(p, q)[k])
         /\ DOMAIN p \subseteq DOMAIN With(p, q)
  BY DEF With

LEMMA DefaultValues ==
  /\ \A k \in IpKeys \cup PortKeys \cup {"fec_mode"} : Value(k, AUTO)
  /\ \A k \in {"rtp_enabled", "fec_enabled", "rtcp_enabled"} : \A v \in BOOLEAN : Value(k, v)
  /\ Value("fec_type", Reed) /\ FecUsable("fec_type", Reed)
  /\ \A k \in {"fec_block_width", "fec_block_height"} : Value(k, 4) /\ FecUsable(k, 4)
<1>1. AUTO \in Strings /\ Reed \in Strings /\ Reed \in FecTypes /\ 4 \in 4 .. 200
  BY ParamsAssumption DEF Strings, FecTypes
<1> QED
  BY <1>1 DEF Value, FecUsable, IpKeys, PortKeys

\* a record of "auto" and of one flag that is off
Defaults(p, flag) == \A k \in DOMAIN p : (k # flag /\ p[k] = AUTO) \/ (k = flag /\ p[k] \in BOOLEAN)

LEMMA DefaultsTyped ==
  ASSUME NEW p, NEW flag, flag \in {"rtp_enabled", "fec_enabled", "rtcp_enabled"}, Defaults(p, flag),
         DOMAIN p \subseteq IpKeys \cup PortKeys \cup {"fec_mode", flag}
  PROVE  /\ DOMAIN p \cap {"multicast_ip", "interface_ip"} = {} => \A k \in DOMAIN p : SenderHas(k, p[k])
         /\ DOMAIN p \cap SenderOnly = {} => \A k \in DOMAIN p : ReceiverHas(k, p[k])
<1>1. ASSUME NEW k \in DOMAIN p
      PROVE  Value(k, p[k])
  <2>1. CASE p[k] = AUTO /\ k # flag
    BY <1>1, <2>1, DefaultValues
  <2>2. CASE k = flag
    BY <2>2, DefaultValues DEF Defaults
  <2> QED
    BY <1>1, <2>1, <2>2 DEF Defaults
<1>2. ASSUME NEW k \in DOMAIN p
      PROVE  FecUsable(k, p[k])
  BY <1>2 DEF FecUsable, IpKeys, PortKeys
<1> QED
  BY <1>1, <1>2 DEF SenderHas, ReceiverHas

LEMMA FlagsAreOff ==
  Defaults(FecAllowed, "fec_enabled") /\ Defaults(RtcpAllowed, "rtcp_enabled")
<1>1. /\ DOMAIN FecAllowed = {"fec_enabled", "fec_destination_ip", "fec_mode",
                              "fec1D_destination_port", "fec2D_destination_port"}
      /\ FecAllowed["fec_enabled"] \in BOOLEAN
      /\ FecAllowed["fec_destination_ip"] = AUTO /\ FecAllowed["fec_mode"] = AUTO
      /\ FecAllowed["fec1D_destination_port"] = AUTO /\ FecAllowed["fec2D_destination_port"] = AUTO
  BY DEF FecAllowed
<1>2. /\ DOMAIN RtcpAllowed = {"rtcp_enabled", "rtcp_destination_port", "rtcp_destination_ip"}
      /\ RtcpAllowed["rtcp_enabled"] \in BOOLEAN
      /\ RtcpAllowed["rtcp_destination_port"] = AUTO /\ RtcpAllowed["rtcp_destination_ip"] = AUTO
  BY DEF RtcpAllowed
<1> QED
  BY <1>1, <1>2 DEF Defaults

LEMMA WithKeeps ==
  ASSUME NEW p, NEW q, NEW k \in DOMAIN p, k \notin DOMAIN q
  PROVE  k \in DOMAIN With(p, q) /\ With(p, q)[k] = p[k]
  BY DEF With

LEMMA FlagsSetNoPort ==
  LET k == "destination_port"
  IN /\ k \notin DOMAIN If("FEC", SenderFecAllowed) /\ k \notin DOMAIN If("FEC", FecAllowed)
     /\ k \notin DOMAIN If("RTCP", RtcpAllowed)
     /\ k \notin DOMAIN If("MULTICAST", [multicast_ip |-> Null])
  BY DEF If, SenderFecAllowed, With, FecAllowed, RtcpAllowed

LEMMA SenderDefault ==
  SenderParams(TransportParamsRTPSender) /\ TransportParamsRTPSender.destination_port = AUTO
<1> DEFINE base == [destination_port |-> AUTO, rtp_enabled |-> FALSE,
                    source_ip |-> AUTO, destination_ip |-> AUTO, source_port |-> AUTO]
           more == [fec1D_source_port |-> AUTO, fec2D_source_port |-> AUTO,
                    fec_type |-> Reed, fec_block_width |-> 4, fec_block_height |-> 4]
           Typed(p) == \A k \in DOMAIN p : SenderHas(k, p[k])
<1>1. Typed(base)
  <2>1. Defaults(base, "rtp_enabled")
    <3>1. /\ DOMAIN base = {"destination_port", "rtp_enabled", "source_ip", "destination_ip", "source_port"}
          /\ base["rtp_enabled"] \in BOOLEAN
          /\ base["destination_port"] = AUTO /\ base["source_ip"] = AUTO
          /\ base["destination_ip"] = AUTO /\ base["source_port"] = AUTO
      OBVIOUS
    <3> QED
      BY <3>1 DEF Defaults
  <2>2. /\ DOMAIN base \subseteq IpKeys \cup PortKeys \cup {"fec_mode", "rtp_enabled"}
        /\ DOMAIN base \cap {"multicast_ip", "interface_ip"} = {}
    BY DEF IpKeys, PortKeys
  <2> QED
    BY <2>1, <2>2, DefaultsTyped
<1>2. Typed(FecAllowed)
  <2>1. Defaults(FecAllowed, "fec_enabled")
    BY FlagsAreOff
  <2>2. /\ DOMAIN FecAllowed \subseteq IpKeys \cup PortKeys \cup {"fec_mode", "fec_enabled"}
        /\ DOMAIN FecAllowed \cap {"multicast_ip", "interface_ip"} = {}
    BY DEF IpKeys, PortKeys, FecAllowed
  <2> QED
    BY <2>1, <2>2, DefaultsTyped
<1>3. Typed(more)
  <2>1. DOMAIN more = {"fec1D_source_port", "fec2D_source_port", "fec_type",
                       "fec_block_width", "fec_block_height"}
    OBVIOUS
  <2>2. /\ more["fec1D_source_port"] = AUTO /\ more["fec2D_source_port"] = AUTO
        /\ more["fec_type"] = Reed
        /\ more["fec_block_width"] = 4 /\ more["fec_block_height"] = 4
    OBVIOUS
  <2> HIDE DEF more
  <2>3. {"fec1D_source_port", "fec2D_source_port"} \subseteq PortKeys
    BY DEF PortKeys
  <2> QED
    BY <2>1, <2>2, <2>3, DefaultValues, KeyValue DEF SenderHas
<1>4. Typed(RtcpAllowed)
  <2>1. Defaults(RtcpAllowed, "rtcp_enabled")
    BY FlagsAreOff
  <2>2. /\ DOMAIN RtcpAllowed \subseteq IpKeys \cup PortKeys \cup {"fec_mode", "rtcp_enabled"}
        /\ DOMAIN RtcpAllowed \cap {"multicast_ip", "interface_ip"} = {}
    BY DEF IpKeys, PortKeys, RtcpAllowed
  <2> QED
    BY <2>1, <2>2, DefaultsTyped
<1>5. /\ {"source_ip", "destination_ip", "source_port", "destination_port", "rtp_enabled"} \subseteq DOMAIN base
      /\ base["destination_port"] = AUTO
  OBVIOUS
<1> HIDE DEF base
<1>6. Typed(SenderFecAllowed)
  <2> HIDE DEF more
  <2> QED
    BY <1>2, <1>3, WithSender DEF SenderFecAllowed, more
<1>7. \A p : Typed(p) => Typed(If("FEC", p)) /\ Typed(If("RTCP", p))
  BY DEF If
<1>8. Typed(If("FEC", SenderFecAllowed)) /\ Typed(If("RTCP", RtcpAllowed))
  BY <1>4, <1>6, <1>7
<1> DEFINE one == With(base, If("FEC", SenderFecAllowed))
           two == With(one, If("RTCP", RtcpAllowed))
<1>9. /\ Typed(one) /\ DOMAIN base \subseteq DOMAIN one
      /\ one["destination_port"] = AUTO
  BY <1>1, <1>5, <1>8, WithSender, WithKeeps, FlagsSetNoPort
<1> HIDE DEF one
<1>10. /\ Typed(two) /\ DOMAIN one \subseteq DOMAIN two
       /\ two["destination_port"] = AUTO
  BY <1>5, <1>8, <1>9, WithSender, WithKeeps, FlagsSetNoPort
<1>11. TransportParamsRTPSender = two
  BY DEF TransportParamsRTPSender, one, base
<1> HIDE DEF two
<1> QED
  BY <1>5, <1>9, <1>10, <1>11 DEF SenderParams

LEMMA ReceiverDefault ==
  ReceiverParams(TransportParamsRTPReceiver) /\ TransportParamsRTPReceiver.destination_port = AUTO
<1> DEFINE base == [destination_port |-> AUTO, rtp_enabled |-> FALSE,
                    source_ip |-> Null, interface_ip |-> AUTO]
           group == [multicast_ip |-> Null]
           Typed(p) == \A k \in DOMAIN p : ReceiverHas(k, p[k])
<1>1. Typed(base)
  <2>1. DOMAIN base = {"destination_port", "rtp_enabled", "source_ip", "interface_ip"}
    OBVIOUS
  <2>2. /\ base["rtp_enabled"] \in BOOLEAN /\ base["source_ip"] = Null
        /\ base["interface_ip"] = AUTO /\ base["destination_port"] = AUTO
    OBVIOUS
  <2> HIDE DEF base
  <2>3. DOMAIN base \cap SenderOnly = {} /\ "source_ip" \in IpKeys
        /\ "interface_ip" \in IpKeys /\ "destination_port" \in PortKeys
    BY <2>1 DEF SenderOnly, IpKeys, PortKeys
  <2> QED
    BY <2>1, <2>2, <2>3, DefaultValues DEF ReceiverHas
<1>2. Typed(FecAllowed)
  <2>1. Defaults(FecAllowed, "fec_enabled")
    BY FlagsAreOff
  <2>2. /\ DOMAIN FecAllowed \subseteq IpKeys \cup PortKeys \cup {"fec_mode", "fec_enabled"}
        /\ DOMAIN FecAllowed \cap SenderOnly = {}
    BY DEF IpKeys, PortKeys, SenderOnly, FecAllowed
  <2> QED
    BY <2>1, <2>2, DefaultsTyped
<1>3. Typed(group)
  BY DefaultValues DEF ReceiverHas, IpKeys, PortKeys, SenderOnly
<1>4. Typed(RtcpAllowed)
  <2>1. Defaults(RtcpAllowed, "rtcp_enabled")
    BY FlagsAreOff
  <2>2. /\ DOMAIN RtcpAllowed \subseteq IpKeys \cup PortKeys \cup {"fec_mode", "rtcp_enabled"}
        /\ DOMAIN RtcpAllowed \cap SenderOnly = {}
    BY DEF IpKeys, PortKeys, SenderOnly, RtcpAllowed
  <2> QED
    BY <2>1, <2>2, DefaultsTyped
<1>5. /\ {"source_ip", "interface_ip", "destination_port", "rtp_enabled"} \subseteq DOMAIN base
      /\ base["destination_port"] = AUTO
  OBVIOUS
<1> HIDE DEF base, group
<1>7. \A p : Typed(p) => Typed(If("FEC", p)) /\ Typed(If("RTCP", p)) /\ Typed(If("MULTICAST", p))
  BY DEF If
<1>8. Typed(If("FEC", FecAllowed)) /\ Typed(If("RTCP", RtcpAllowed)) /\ Typed(If("MULTICAST", group))
  BY <1>2, <1>3, <1>4, <1>7
<1> DEFINE one == With(base, If("FEC", FecAllowed))
           two == With(one, If("RTCP", RtcpAllowed))
           three == With(two, If("MULTICAST", group))
<1>9. /\ Typed(one) /\ DOMAIN base \subseteq DOMAIN one
      /\ one["destination_port"] = AUTO
  BY <1>1, <1>5, <1>8, WithReceiver, WithKeeps, FlagsSetNoPort
<1> HIDE DEF one
<1>10. /\ Typed(two) /\ DOMAIN one \subseteq DOMAIN two
       /\ two["destination_port"] = AUTO
  BY <1>5, <1>8, <1>9, WithReceiver, WithKeeps, FlagsSetNoPort
<1> HIDE DEF two
<1>11. /\ Typed(three) /\ DOMAIN two \subseteq DOMAIN three
       /\ three["destination_port"] = AUTO
  BY <1>5, <1>8, <1>9, <1>10, WithReceiver, WithKeeps, FlagsSetNoPort DEF group
<1>12. TransportParamsRTPReceiver = three
  BY DEF TransportParamsRTPReceiver, one, two, base, group
<1> HIDE DEF three
<1> QED
  BY <1>5, <1>9, <1>10, <1>11, <1>12 DEF ReceiverParams

(***************************************************************************)
(* The inductive invariant: both have the members that the code gave them, *)
(* and every stream its types.                                             *)
(***************************************************************************)
SenderShape(s) ==
  s = [staged |-> s.staged, active |-> s.active, enabled |-> s.enabled,
       source |-> s.source, destination |-> s.destination, file |-> s.file]

Given(s) ==
  /\ {s.source, s.destination} \subseteq [1 .. Streams -> Addresses \cup {Null}]
  /\ s.enabled \in BOOLEAN

Sending(s) ==
  SenderShape(s) /\ Given(s) /\ s.file \in Sdps /\ Sends(s.staged) /\ Sends(s.active)

Receiving(r) ==
  /\ r = [staged |-> r.staged, active |-> r.active, interface |-> r.interface]
  /\ Receives(r.staged) /\ Receives(r.active) /\ r.interface \in Addresses

ParamsInv == Sending(sender) /\ Receiving(receiver) /\ crashed \in BOOLEAN

LEMMA SenderActivated ==
  ASSUME NEW s, SenderShape(s), Given(s), Sends(s.staged),
         \A i \in 1 .. Streams : /\ ~ActualizeSenderThrows(s.staged[i])
                                 /\ s.enabled => ~Throws(s.staged[i].destination_port)
  PROVE  /\ Sending(ActivatedSender(s))
         /\ \A i \in 1 .. Streams : Resolved(ActivatedSender(s).active[i])
<1> DEFINE tps == [i \in 1 .. Streams |-> ActualizeSender(s.staged[i], s.source[i], s.destination[i])]
           file == IF s.enabled THEN TransportParamsToSdp(tps) ELSE Empty
           new == [staged |-> s.staged, active |-> tps, enabled |-> s.enabled,
                   source |-> s.source, destination |-> s.destination, file |-> file]
<1>1. ActivatedSender(s) = [s EXCEPT !.active = tps, !.file = file]
  BY DEF ActivatedSender
<1>2. ASSUME NEW i \in 1 .. Streams
      PROVE  /\ SenderParams(tps[i]) /\ Resolved(tps[i])
             /\ s.enabled => tps[i].destination_port \in Int
  <2>1. /\ SenderParams(s.staged[i]) /\ ~ActualizeThrows(s.staged[i])
        /\ s.enabled => ~Throws(s.staged[i].destination_port)
    BY DEF Sends, ActualizeSenderThrows
  <2>2. s.source[i] \in Known /\ s.destination[i] \in Known
    BY DEF Given, Known
  <2> QED
    BY <2>1, <2>2, ActiveSender
<1>3. DOMAIN tps = 1 .. Streams
  OBVIOUS
<1> HIDE DEF tps
<1>4. Sends(tps)
  BY <1>2, <1>3 DEF Sends
<1>5. file \in Sdps
  BY <1>2, <1>4, FileOfSender, EmptyFile
<1> HIDE DEF file
<1>6. ActivatedSender(s) = new
  BY <1>1 DEF SenderShape
<1>7. /\ new.staged = s.staged /\ new.active = tps /\ new.enabled = s.enabled
      /\ new.source = s.source /\ new.destination = s.destination /\ new.file = file
  OBVIOUS
<1>8. SenderShape(new)
  BY DEF SenderShape
<1> HIDE DEF new
<1>9. Given(new)
  BY <1>7 DEF Given
<1>10. Sending(new) /\ \A i \in 1 .. Streams : Resolved(new.active[i])
  BY <1>2, <1>4, <1>5, <1>7, <1>8, <1>9 DEF Sending
<1> QED
  BY <1>6, <1>10

LEMMA ReceiverActivated ==
  ASSUME NEW r, Receives(r), NEW ip \in Addresses, \A i \in 1 .. Streams : ~ActualizeThrows(r[i])
  PROVE  LET tps == [i \in 1 .. Streams |-> ActualizeReceiver(r[i], ip)]
         IN Receives(tps) /\ \A i \in 1 .. Streams : Resolved(tps[i])
  BY ActiveReceiver DEF Receives

\* "auto" as a port is no failure
LEMMA DefaultsDoNotThrow ==
  ASSUME NEW p, p.destination_port = AUTO
  PROVE  ~ActualizeThrows(p) /\ ~Throws(p.destination_port)
  BY DEF ActualizeThrows, Throws

LEMMA SenderDefaultResolves == ~ActualizeSenderThrows(TransportParamsRTPSender)
<1> DEFINE p == TransportParamsRTPSender
<1>1. ~ActualizeThrows(p)
  BY SenderDefault, DefaultsDoNotThrow
<1>2. p.source_port = AUTO
  <2>1. /\ "source_port" \notin DOMAIN If("FEC", SenderFecAllowed)
        /\ "source_port" \notin DOMAIN If("RTCP", RtcpAllowed)
    BY DEF If, SenderFecAllowed, With, FecAllowed, RtcpAllowed
  <2> DEFINE base == [destination_port |-> AUTO, rtp_enabled |-> FALSE,
                      source_ip |-> AUTO, destination_ip |-> AUTO, source_port |-> AUTO]
             one == With(base, If("FEC", SenderFecAllowed))
             two == With(one, If("RTCP", RtcpAllowed))
  <2>2. "source_port" \in DOMAIN base /\ base["source_port"] = AUTO
    OBVIOUS
  <2> HIDE DEF base
  <2>3. "source_port" \in DOMAIN one /\ one["source_port"] = AUTO
    BY <2>1, <2>2, WithKeeps
  <2> HIDE DEF one
  <2>4. two["source_port"] = AUTO
    BY <2>1, <2>3, WithKeeps
  <2>5. p = two
    BY DEF TransportParamsRTPSender, one, base
  <2> QED
    BY <2>4, <2>5
<1> QED
  BY <1>1, <1>2, ParamsAssumption DEF ActualizeSenderThrows, Throws

LEMMA SenderStarts ==
  ParamsInit => Sending(sender)
<1> DEFINE defaults == [i \in 1 .. Streams |-> TransportParamsRTPSender]
           s == [staged |-> defaults, active |-> defaults, enabled |-> TRUE,
                 source |-> SourceIps, destination |-> MulticastIps, file |-> Empty]
<1>1. /\ Sends(defaults)
      /\ \A i \in 1 .. Streams : /\ ~ActualizeSenderThrows(defaults[i])
                                 /\ ~Throws(defaults[i].destination_port)
  BY SenderDefault, SenderDefaultResolves, DefaultsDoNotThrow DEF Sends
<1>2. ParamsInit => sender = ActivatedSender(s)
  BY DEF ParamsInit
<1> HIDE DEF defaults
<1>3. /\ s.staged = defaults /\ s.source = SourceIps /\ s.destination = MulticastIps
      /\ s.enabled \in BOOLEAN
  OBVIOUS
<1>4. SenderShape(s)
  BY DEF SenderShape
<1> HIDE DEF s
<1>5. Given(s)
  <2>1. SourceIps \in [1 .. Streams -> Addresses \cup {Null}]
    BY ParamsAssumption
  <2>2. MulticastIps \in [1 .. Streams -> Addresses \cup {Null}]
    BY ParamsAssumption
  <2> QED
    BY <1>3, <2>1, <2>2 DEF Given
<1> QED
  BY <1>1, <1>2, <1>3, <1>4, <1>5, SenderActivated

LEMMA ReceiverStarts ==
  ParamsInit => Receiving(receiver)
<1> SUFFICES ASSUME ParamsInit PROVE Receiving(receiver)
  OBVIOUS
<1> DEFINE defaults == [i \in 1 .. Streams |-> TransportParamsRTPReceiver]
<1>1. PICK ip \in Interfaces :
        receiver = [staged |-> defaults,
                    active |-> [i \in 1 .. Streams |-> ActualizeReceiver(TransportParamsRTPReceiver, ip)],
                    interface |-> ip]
  BY DEF ParamsInit
<1> DEFINE resolved == [i \in 1 .. Streams |-> ActualizeReceiver(TransportParamsRTPReceiver, ip)]
<1>2. ip \in Addresses
  BY ParamsAssumption
<1>3. Receives(defaults)
  BY ReceiverDefault DEF Receives
<1>4. Receives(resolved)
  BY <1>2, ReceiverDefault, DefaultsDoNotThrow, ActiveReceiver DEF Receives
<1> HIDE DEF defaults, resolved
<1>5. receiver = [staged |-> defaults, active |-> resolved, interface |-> ip]
  BY <1>1 DEF resolved
<1> QED
  BY <1>2, <1>3, <1>4, <1>5 DEF Receiving

\* what a request names gets its value, the rest stays
PatchedStream(who, params, i, old, new) ==
  /\ DOMAIN new = DOMAIN old
  /\ \A k \in DOMAIN old :
       \/ new[k] = old[k]
       \/ /\ params # <<>> /\ k \in DOMAIN params[i]
          /\ who = "sender" => SenderTakes(k, new[k]) /\ FecUsable(k, new[k])
          /\ who = "receiver" => ReceiverTakes(k, new[k])

LEMMA PatchedStreams ==
  ASSUME NEW tps, DOMAIN tps = 1 .. Streams, NEW who, NEW params,
         CheckJson(who, params), StreamsPatchable(who, tps, params)
  PROVE  /\ DOMAIN PatchStreams(tps, params) = 1 .. Streams
         /\ \A i \in 1 .. Streams : PatchedStream(who, params, i, tps[i], PatchStreams(tps, params)[i])
<1> DEFINE new == PatchStreams(tps, params)
<1>1. CASE params = <<>>
  BY <1>1 DEF PatchStreams, PatchedStream
<1>2. CASE params # <<>>
  <2>1. new = [i \in 1 .. Streams |-> PatchJson(tps[i], params[i])]
    BY <1>2 DEF PatchStreams
  <2>2. Len(params) = Streams /\ \A i \in 1 .. Streams : Patchable(who, tps[i], params[i])
    BY <1>2 DEF StreamsPatchable
  <2>3. \A i \in 1 .. Streams : \A k \in DOMAIN params[i] :
          /\ IF who = "sender" THEN SenderTakes(k, params[i][k]) ELSE ReceiverTakes(k, params[i][k])
          /\ who = "sender" => FecUsable(k, params[i][k])
    BY <2>2 DEF CheckJson, Patchable
  <2> HIDE DEF new
  <2>4. ASSUME NEW i \in 1 .. Streams
        PROVE  /\ DOMAIN new[i] = DOMAIN tps[i]
               /\ \A k \in DOMAIN tps[i] :
                    new[i][k] = IF k \in DOMAIN params[i] THEN params[i][k] ELSE tps[i][k]
    BY <2>1 DEF PatchJson
  <2>5. DOMAIN new = 1 .. Streams
    BY <2>1
  <2> QED
    BY <1>2, <2>3, <2>4, <2>5 DEF new, PatchedStream
<1> QED
  BY <1>1, <1>2

LEMMA PatchedSender ==
  ASSUME NEW tps, Sends(tps), NEW params,
         CheckJson("sender", params), StreamsPatchable("sender", tps, params)
  PROVE  Sends(PatchStreams(tps, params))
<1> DEFINE new == PatchStreams(tps, params)
<1>0. DOMAIN tps = 1 .. Streams
  BY DEF Sends
<1>1. /\ DOMAIN new = 1 .. Streams
      /\ \A i \in 1 .. Streams : PatchedStream("sender", params, i, tps[i], new[i])
  BY <1>0, PatchedStreams
<1> HIDE DEF new
<1>2. \A k, v : SenderTakes(k, v) /\ FecUsable(k, v) => SenderHas(k, v)
  BY DEF SenderTakes, SenderHas
<1>3. \A i \in 1 .. Streams : SenderParams(new[i])
  BY <1>1, <1>2 DEF PatchedStream, SenderParams, Sends
<1> QED
  BY <1>1, <1>3 DEF Sends, new

LEMMA PatchedReceiver ==
  ASSUME NEW tps, Receives(tps), NEW params,
         CheckJson("receiver", params), StreamsPatchable("receiver", tps, params)
  PROVE  Receives(PatchStreams(tps, params))
<1> DEFINE new == PatchStreams(tps, params)
<1>0. DOMAIN tps = 1 .. Streams
  BY DEF Receives
<1>1. /\ DOMAIN new = 1 .. Streams
      /\ \A i \in 1 .. Streams : PatchedStream("receiver", params, i, tps[i], new[i])
  BY <1>0, PatchedStreams
<1> HIDE DEF new
<1>2. \A k, v : ReceiverTakes(k, v) => ReceiverHas(k, v)
  BY DEF ReceiverTakes, ReceiverHas, IpKeys
<1>3. \A i \in 1 .. Streams : ReceiverParams(new[i])
  BY <1>1, <1>2 DEF PatchedStream, ReceiverParams, Receives
<1> QED
  BY <1>1, <1>3 DEF Receives, new

LEMMA RtpMarked ==
  ASSUME NEW tps, Sends(tps), NEW is, NEW b \in BOOLEAN
  PROVE  Sends(EnableRtp(tps, is, b))
<1> DEFINE new == EnableRtp(tps, is, b)
<1>1. /\ DOMAIN new = 1 .. Streams
      /\ \A i \in 1 .. Streams : new[i] = IF i \in is THEN Set(tps[i], "rtp_enabled", b) ELSE tps[i]
  BY DEF EnableRtp
<1> HIDE DEF new
<1>2. \A p : SenderParams(p) => SenderParams(Set(p, "rtp_enabled", b))
  BY SetTyped, MemberTyped
<1>3. \A i \in 1 .. Streams : SenderParams(new[i])
  BY <1>1, <1>2 DEF Sends
<1> QED
  BY <1>1, <1>3 DEF Sends, new

LEMMA DetailsSet ==
  ASSUME NEW tps, Sends(tps), NEW d \in Details
  PROVE  Sends([i \in 1 .. Streams |->
                  IF i \notin 1 .. Len(d) THEN tps[i]
                  ELSE SetPort(Set(tps[i], "destination_ip", d[i].ip), "destination_port", d[i].port)])
<1> DEFINE R == [ip : Strings, port : Port]
           Ip(i) == Set(tps[i], "destination_ip", d[i].ip)
           Detailed(i) == SetPort(Ip(i), "destination_port", d[i].port)
<1>1. d \in Seq(R)
  BY ParamsAssumption
<1> HIDE DEF R
<1>2. \A i \in 1 .. Len(d) : d[i] \in R
  BY <1>1
<1>3. ASSUME NEW i \in 1 .. Streams, i \in 1 .. Len(d)
      PROVE  SenderParams(Detailed(i))
  <2>1. d[i].ip \in Strings /\ d[i].port \in Port
    BY <1>2, <1>3 DEF R
  <2>2. SenderHas("destination_ip", d[i].ip)
    <3>1. d[i].ip \in Known \cup {AUTO}
      BY <2>1 DEF Known, Strings
    <3> QED
      BY <3>1, MemberTyped
  <2>3. SenderParams(Ip(i))
    BY <2>2, SetTyped DEF Sends
  <2> HIDE DEF Ip
  <2> DEFINE n == d[i].port
  <2>4. n \in Port
    BY <2>1
  <2> HIDE DEF n
  <2>5. n \in Int
    BY <2>4 DEF Port, PortSpace
  <2> DEFINE v == IF n = 0 THEN AUTO ELSE n
  <2>6. v \in Int \cup {AUTO}
    BY <2>5
  <2> HIDE DEF v
  <2>7. SenderHas("destination_port", v)
    BY <2>6, MemberTyped
  <2>8. SenderParams(Set(Ip(i), "destination_port", v))
    BY <2>3, <2>7, SetTyped
  <2>9. Detailed(i) = Set(Ip(i), "destination_port", v) \/ Detailed(i) = Ip(i)
    BY DEF SetPort, v, n
  <2> QED
    BY <2>3, <2>8, <2>9
<1> HIDE DEF Detailed
<1>4. \A i \in 1 .. Streams : SenderParams(IF i \notin 1 .. Len(d) THEN tps[i] ELSE Detailed(i))
  BY <1>3 DEF Sends
<1> QED
  BY <1>4 DEF Sends, Detailed, Ip

\* with other streams, flags and addresses
LEMMA NewSender ==
  ASSUME NEW s, NEW st, NEW ac, NEW enabled, NEW destination, Sending(s),
         Sends(st), Sends(ac), enabled \in BOOLEAN,
         destination \in [1 .. Streams -> Addresses \cup {Null}]
  PROVE  Sending([s EXCEPT !.staged = st, !.active = ac, !.enabled = enabled,
                           !.destination = destination])
<1> DEFINE new == [staged |-> st, active |-> ac, enabled |-> enabled,
                   source |-> s.source, destination |-> destination, file |-> s.file]
<1>1. [s EXCEPT !.staged = st, !.active = ac, !.enabled = enabled,
                !.destination = destination] = new
  <2> DEFINE t == [s EXCEPT !.staged = st, !.active = ac, !.enabled = enabled,
                            !.destination = destination]
  <2>1. DOMAIN s = {"staged", "active", "enabled", "source", "destination", "file"}
    BY DEF Sending, SenderShape
  <2>2. /\ t = [k \in DOMAIN s |-> t[k]]
        /\ t.staged = st /\ t.active = ac /\ t.enabled = enabled
        /\ t.source = s.source /\ t.destination = destination /\ t.file = s.file
    BY <2>1
  <2> HIDE DEF t
  <2>3. t = new
    BY <2>1, <2>2
  <2> QED
    BY <2>3 DEF t
<1>2. /\ new.staged = st /\ new.active = ac /\ new.enabled = enabled
      /\ new.source = s.source /\ new.destination = destination /\ new.file = s.file
  OBVIOUS
<1>3. SenderShape(new)
  BY DEF SenderShape
<1> HIDE DEF new
<1>4. Given(new) /\ new.file \in Sdps /\ Sends(new.staged) /\ Sends(new.active)
  BY <1>2 DEF Given, Sending
<1>5. Sending(new)
  BY <1>3, <1>4 DEF Sending
<1> QED
  BY <1>1, <1>5

\* what the sender's actions assign, in the form of NewSender
LEMMA SenderFields ==
  ASSUME Sending(sender)
  PROVE  /\ Sends(sender.staged) /\ Sends(sender.active) /\ sender.enabled \in BOOLEAN
         /\ sender.destination \in [1 .. Streams -> Addresses \cup {Null}]
         /\ sender.source \in [1 .. Streams -> Addresses \cup {Null}] /\ sender.file \in Sdps
  BY DEF Sending, Given

LEMMA ActivateSenderInv ==
  ASSUME ParamsInv, ActivateSender
  PROVE  /\ Sending(sender') /\ receiver' = receiver /\ crashed' \in BOOLEAN
         /\ ~crashed' => \A i \in 1 .. Streams : Resolved(sender'.active[i])
<1>1. CASE SenderThrows
  BY <1>1 DEF ActivateSender, Crash, ParamsInv
<1>2. CASE ~SenderThrows
  <2>1. sender' = ActivatedSender(sender) /\ receiver' = receiver /\ crashed' = crashed
    BY <1>2 DEF ActivateSender
  <2>2. \A i \in 1 .. Streams : /\ ~ActualizeSenderThrows(sender.staged[i])
                                /\ sender.enabled => ~Throws(sender.staged[i].destination_port)
    BY <1>2 DEF SenderThrows
  <2>3. SenderShape(sender) /\ Given(sender) /\ Sends(sender.staged) /\ crashed \in BOOLEAN
    BY DEF ParamsInv, Sending
  <2> QED
    BY <2>1, <2>2, <2>3, SenderActivated
<1> QED
  BY <1>1, <1>2

LEMMA PatchSenderInv ==
  ASSUME ParamsInv, NEW params, NEW enable \in BOOLEAN, PatchSenderParams(params, enable)
  PROVE  Sending(sender')
<1> DEFINE tps == PatchStreams(sender.staged, params)
<1>1. Sending(sender)
  BY DEF ParamsInv
<1>2. Sends(tps)
  BY <1>1, SenderFields, PatchedSender DEF PatchSenderParams
<1>3. sender' = [sender EXCEPT !.staged = tps, !.enabled = enable]
  BY DEF PatchSenderParams
<1> HIDE DEF tps
<1>4. sender' = [sender EXCEPT !.staged = tps, !.active = sender.active, !.enabled = enable,
                               !.destination = sender.destination]
  BY <1>1, <1>3 DEF Sending, SenderShape
<1> QED
  BY <1>1, <1>2, <1>4, SenderFields, NewSender

LEMMA SetupSenderInv ==
  ASSUME ParamsInv, NEW d \in Destinations, SetupSender(d)
  PROVE  Sending(sender')
<1>1. Sending(sender)
  BY DEF ParamsInv
<1>2. sender' = [sender EXCEPT !.staged = sender.staged, !.active = sender.active,
                               !.enabled = sender.enabled, !.destination = d]
  BY <1>1 DEF SetupSender, Sending, SenderShape
<1>3. d \in [1 .. Streams -> Addresses \cup {Null}]
  BY ParamsAssumption
<1> QED
  BY <1>1, <1>2, <1>3, SenderFields, NewSender

LEMMA MarkRtpInv ==
  ASSUME ParamsInv, NEW is, NEW b \in BOOLEAN, MarkRTPTransmissionAsActive(is, b)
  PROVE  Sending(sender')
<1> DEFINE one == EnableRtp(sender.staged, is, b)
           two == EnableRtp(sender.active, is, b)
<1>1. Sending(sender)
  BY DEF ParamsInv
<1>2. Sends(one) /\ Sends(two)
  BY <1>1, SenderFields, RtpMarked
<1>3. sender' = [sender EXCEPT !.staged = one, !.active = two]
  BY <1>1 DEF MarkRTPTransmissionAsActive, Sending, SenderShape
<1> HIDE DEF one, two
<1>4. sender' = [sender EXCEPT !.staged = one, !.active = two, !.enabled = sender.enabled,
                               !.destination = sender.destination]
  BY <1>1, <1>3 DEF Sending, SenderShape
<1> QED
  BY <1>1, <1>2, <1>4, SenderFields, NewSender

LEMMA SetDetailsInv ==
  ASSUME ParamsInv, NEW d \in Details, SetDestinationDetails(d)
  PROVE  Sending(sender')
<1> DEFINE tps == [i \in 1 .. Streams |->
                     IF i \notin 1 .. Len(d) THEN sender.active[i]
                     ELSE SetPort(Set(sender.active[i], "destination_ip", d[i].ip),
                                  "destination_port", d[i].port)]
<1>1. Sending(sender)
  BY DEF ParamsInv
<1>2. Sends(tps)
  BY <1>1, SenderFields, DetailsSet
<1>3. sender' = [sender EXCEPT !.active = tps]
  BY DEF SetDestinationDetails
<1> HIDE DEF tps
<1>4. sender' = [sender EXCEPT !.staged = sender.staged, !.active = tps,
                               !.enabled = sender.enabled, !.destination = sender.destination]
  BY <1>1, <1>3 DEF Sending, SenderShape
<1> QED
  BY <1>1, <1>2, <1>4, SenderFields, NewSender

LEMMA MasterEnableInv ==
  ASSUME ParamsInv, NEW b \in BOOLEAN, MasterEnable(b)
  PROVE  Sending(sender')
<1>1. Sending(sender)
  BY DEF ParamsInv
<1>2. sender' = [sender EXCEPT !.staged = sender.staged, !.active = sender.active,
                               !.enabled = b, !.destination = sender.destination]
  BY <1>1 DEF MasterEnable, Sending, SenderShape
<1> QED
  BY <1>1, <1>2, SenderFields, NewSender

LEMMA FilesTyped == ASSUME ParamsInv PROVE Files \subseteq Sdps
  BY ParamsAssumption DEF Files, ParamsInv, Sending

LEMMA PatchReceiverInv ==
  ASSUME ParamsInv, NEW sdp \in Files \cup {Null}, NEW params, PatchReceiverParams(sdp, params)
  PROVE  Receiving(receiver') /\ crashed' \in BOOLEAN
<1> DEFINE read == Reads(sdp, receiver.staged).tps
           tps == PatchStreams(read, params)
<1>1. Receives(read)
  <2>1. Receives(receiver.staged)
    BY DEF ParamsInv, Receiving
  <2>2. CASE sdp = Null
    BY <2>1, <2>2 DEF Reads
  <2>3. CASE sdp # Null
    <3>1. sdp \in Sdps
      BY <2>3, FilesTyped
    <3>2. read = SdpToTransportParams(sdp, receiver.staged).tps
      BY <2>3 DEF Reads
    <3> HIDE DEF read
    <3> QED
      BY <2>1, <3>1, <3>2, FileEffect
  <2> QED
    BY <2>2, <2>3
<1>2. CASE crashed' = TRUE /\ UNCHANGED receiver
  BY <1>2 DEF ParamsInv
<1>3. CASE ~(crashed' = TRUE /\ UNCHANGED receiver)
  <2>1. /\ CheckJson("receiver", params) /\ StreamsPatchable("receiver", read, params)
        /\ receiver' = [receiver EXCEPT !.staged = tps] /\ crashed' = crashed
    BY <1>3 DEF PatchReceiverParams
  <2> HIDE DEF read
  <2>2. Receives(tps)
    BY <1>1, <2>1, PatchedReceiver
  <2> HIDE DEF tps
  <2>3. receiver' = [staged |-> tps, active |-> receiver.active, interface |-> receiver.interface]
    BY <2>1 DEF ParamsInv, Receiving
  <2> QED
    BY <2>1, <2>2, <2>3 DEF ParamsInv, Receiving
<1> QED
  BY <1>2, <1>3

LEMMA ActivateReceiverInv ==
  ASSUME ParamsInv, ActivateReceiver
  PROVE  /\ Receiving(receiver') /\ sender' = sender /\ crashed' \in BOOLEAN
         /\ ~crashed' => \A i \in 1 .. Streams : Resolved(receiver'.active[i])
<1> DEFINE tps == [i \in 1 .. Streams |-> ActualizeReceiver(receiver.staged[i], receiver.interface)]
<1>1. Receives(receiver.staged) /\ receiver.interface \in Addresses /\ crashed \in BOOLEAN
  BY DEF ParamsInv, Receiving
<1>2. CASE \E i \in 1 .. Streams : ActualizeThrows(receiver.staged[i])
  BY <1>2 DEF ActivateReceiver, Crash, ParamsInv
<1>3. CASE ~\E i \in 1 .. Streams : ActualizeThrows(receiver.staged[i])
  <2>1. Receives(tps) /\ \A i \in 1 .. Streams : Resolved(tps[i])
    BY <1>1, <1>3, ReceiverActivated
  <2>2. receiver' = [receiver EXCEPT !.active = tps] /\ sender' = sender /\ crashed' = crashed
    BY <1>3 DEF ActivateReceiver
  <2> HIDE DEF tps
  <2>3. receiver' = [staged |-> receiver.staged, active |-> tps, interface |-> receiver.interface]
    BY <2>2 DEF ParamsInv, Receiving
  <2> QED
    BY <1>1, <2>1, <2>2, <2>3 DEF ParamsInv, Receiving
<1> QED
  BY <1>2, <1>3

LEMMA SetupReceiverInv ==
  ASSUME ParamsInv, NEW ip \in Interfaces, SetupReceiver(ip)
  PROVE  Receiving(receiver')
<1>1. receiver' = [staged |-> receiver.staged, active |-> receiver.active, interface |-> ip]
  BY DEF SetupReceiver, ParamsInv, Receiving
<1>2. ip \in Addresses
  BY ParamsAssumption
<1> QED
  BY <1>1, <1>2 DEF ParamsInv, Receiving

LEMMA ParamsStep ==
  ParamsInv /\ [ParamsNext]_paramsVars => ParamsInv'
<1> SUFFICES ASSUME ParamsInv, [ParamsNext]_paramsVars
             PROVE  Sending(sender') /\ Receiving(receiver') /\ crashed' \in BOOLEAN
  BY DEF ParamsInv
<1>0. Sending(sender) /\ Receiving(receiver) /\ crashed \in BOOLEAN
  BY DEF ParamsInv
<1>1. CASE \E p \in SenderPatches : PatchSenderParams(p.params, p.enable)
  <2>1. PICK p \in SenderPatches : PatchSenderParams(p.params, p.enable)
    BY <1>1
  <2>2. p.enable \in BOOLEAN
    BY ParamsAssumption
  <2>3. Sending(sender')
    BY <2>1, <2>2, PatchSenderInv
  <2>4. receiver' = receiver /\ crashed' = crashed
    BY <2>1 DEF PatchSenderParams
  <2> QED
    BY <1>0, <2>3, <2>4
<1>2. CASE \E d \in Destinations : SetupSender(d)
  BY <1>0, <1>2, SetupSenderInv DEF SetupSender
<1>3. CASE \E m \in Marks : MarkRTPTransmissionAsActive(m.streams, m.active)
  <2>1. PICK m \in Marks : MarkRTPTransmissionAsActive(m.streams, m.active)
    BY <1>3
  <2>2. m.active \in BOOLEAN
    BY ParamsAssumption
  <2> QED
    BY <1>0, <2>1, <2>2, MarkRtpInv DEF MarkRTPTransmissionAsActive
<1>4. CASE \E d \in Details : SetDestinationDetails(d)
  BY <1>0, <1>4, SetDetailsInv DEF SetDestinationDetails
<1>5. CASE \E b \in BOOLEAN : MasterEnable(b)
  BY <1>0, <1>5, MasterEnableInv DEF MasterEnable
<1>6. CASE ActivateSender
  BY <1>0, <1>6, ActivateSenderInv
<1>7. CASE \E sdp \in Files \cup {Null}, params \in ReceiverPatches : PatchReceiverParams(sdp, params)
  BY <1>0, <1>7, PatchReceiverInv DEF PatchReceiverParams
<1>8. CASE \E ip \in Interfaces : SetupReceiver(ip)
  BY <1>0, <1>8, SetupReceiverInv DEF SetupReceiver
<1>9. CASE ActivateReceiver
  BY <1>0, <1>9, ActivateReceiverInv
<1>10. CASE \E l \in Limits : \/ AddConstraint(l.who, l.streams, l.key, l.limit)
                              \/ ClearConstraint(l.who, l.streams, l.key)
  BY <1>0, <1>10 DEF AddConstraint, ClearConstraint
<1>11. CASE UNCHANGED paramsVars
  BY <1>0, <1>11 DEF paramsVars
<1> QED
  BY <1>1, <1>2, <1>3, <1>4, <1>5, <1>6, <1>7, <1>8, <1>9, <1>10, <1>11 DEF ParamsNext

LEMMA ParamsInvHolds == ParamsSpec => []ParamsInv
<1>1. ParamsInit => ParamsInv
  <2>1. ParamsInit => crashed \in BOOLEAN
    BY DEF ParamsInit
  <2> QED
    BY <2>1, SenderStarts, ReceiverStarts DEF ParamsInv
<1> QED
  BY <1>1, ParamsStep, PTL DEF ParamsSpec

(***************************************************************************)
(* The parameters keep the JSON types that the requests give them, also    *)
(* the FEC of the sender its codes and sizes, and every transport file is  *)
(* one that the parser can be given.                                       *)
(***************************************************************************)
THEOREM ParamsTyped == ParamsSpec => []ParamsTypeOK
<1>1. ParamsInv => ParamsTypeOK
  BY DEF ParamsInv, Sending, Receiving, Given, Sends, Receives, ParamsTypeOK
<1> QED
  BY <1>1, ParamsInvHolds, PTL

(***************************************************************************)
(* An activation that does not end the process leaves no address and no    *)
(* port that a stream uses at "auto", except a receiver's multicast_ip and *)
(* what comes of it.                                                       *)
(***************************************************************************)
THEOREM NothingAuto == ParamsSpec => AutoIsResolved
<1>1. ParamsInv /\ [ParamsNext]_paramsVars =>
        [/\ ActivateSender /\ ~crashed' => \A i \in 1 .. Streams : Resolved(sender'.active[i])
         /\ ActivateReceiver /\ ~crashed' => \A i \in 1 .. Streams : Resolved(receiver'.active[i])]_paramsVars
  BY ActivateSenderInv, ActivateReceiverInv
<1> QED
  BY <1>1, ParamsInvHolds, PTL DEF ParamsSpec, AutoIsResolved

\* what the file tells of a stream is Tells
LEMMA TellsAll ==
  ASSUME NEW sdp, NEW i, NEW k \in Told, NEW old, NEW new,
         TellsSoFar(sdp.lines, sdp.cr, Len(sdp.lines), i, k, old, new)
  PROVE  Tells(sdp, i, k, old, new)
<1>1. LinesOf(sdp.lines, Len(sdp.lines), i, k) =
        IF k = "destination_port" THEN PortLines(sdp.lines, i) ELSE GroupLines(sdp.lines, i)
  BY DEF LinesOf, PortLines, GroupLines
<1> QED
  BY <1>1 DEF TellsSoFar, Tells, ToldBy

LEMMA PatchTells ==
  ASSUME ParamsInv, NEW sdp \in Files, NEW params, PatchReceiverParams(sdp, params), ~crashed'
  PROVE  AppliedOrOff(sdp, params, receiver.staged, receiver'.staged)
<1> DEFINE old == receiver.staged
           read == SdpToTransportParams(sdp, old).tps
           new == PatchStreams(read, params)
           named(i) == IF params = <<>> THEN {} ELSE DOMAIN params[i]
<1>1. sdp \in Sdps /\ sdp # Null
  BY FilesTyped, ParamsAssumption
<1>2. /\ CheckJson("receiver", params) /\ StreamsPatchable("receiver", read, params)
      /\ receiver' = [receiver EXCEPT !.staged = new]
  BY <1>1 DEF PatchReceiverParams, Reads
<1>3. receiver'.staged = new
  BY <1>2 DEF ParamsInv, Receiving
<1>4. Receives(old)
  BY DEF ParamsInv, Receiving
<1> HIDE DEF read, old
<1>5. /\ Receives(read)
      /\ \/ \A i \in 1 .. Streams : ~read[i].rtp_enabled
         \/ \A i \in 1 .. Streams, k \in Told :
              TellsSoFar(sdp.lines, sdp.cr, Len(sdp.lines), i, k, old[i], read[i])
  BY <1>1, <1>4, FileEffect DEF read
<1>6. \A i \in 1 .. Streams : PatchedStream("receiver", params, i, read[i], new[i])
  <2>1. DOMAIN read = 1 .. Streams
    BY <1>5 DEF Receives
  <2> QED
    BY <1>2, <2>1, PatchedStreams
<1> HIDE DEF new
<1>7. \A i \in 1 .. Streams : \A k : k \notin named(i) => Same(read[i], new[i], k)
  BY <1>6 DEF PatchedStream, Same
<1>8. CASE \A i \in 1 .. Streams : ~read[i].rtp_enabled
  <2>1. \A i \in 1 .. Streams : "rtp_enabled" \in DOMAIN read[i]
    BY <1>5 DEF Receives, ReceiverParams
  <2>2. \A i \in 1 .. Streams : "rtp_enabled" \in named(i) \/ ~new[i].rtp_enabled
    BY <1>7, <1>8, <2>1 DEF Same
  <2> QED
    BY <1>3, <2>2 DEF AppliedOrOff
<1>9. CASE \A i \in 1 .. Streams, k \in Told :
             TellsSoFar(sdp.lines, sdp.cr, Len(sdp.lines), i, k, old[i], read[i])
  <2>1. ASSUME NEW i \in 1 .. Streams, NEW k \in Told, k \notin named(i)
        PROVE  Tells(sdp, i, k, old[i], new[i])
    <3>1. Same(old[i], old[i], k) /\ Same(read[i], new[i], k)
      BY <1>7, <2>1 DEF Same
    <3>2. TellsSoFar(sdp.lines, sdp.cr, Len(sdp.lines), i, k, old[i], new[i])
      BY <1>9, <3>1, SameIsTold
    <3> QED
      BY <3>2, TellsAll
  <2> QED
    BY <1>3, <2>1 DEF AppliedOrOff, Told, old
<1> QED
  BY <1>5, <1>8, <1>9

(***************************************************************************)
(* A PATCH with a transport file leaves RTP disabled where the request     *)
(* does not name it, or gives every stream what its media tells, whatever  *)
(* the lines of the file are.                                              *)
(***************************************************************************)
THEOREM NeverAppliedInPart == ParamsSpec => FileAppliedOrOff
<1>1. ParamsInv /\ [ParamsNext]_paramsVars =>
        [\A sdp \in Files, params \in ReceiverPatches :
           PatchReceiverParams(sdp, params) /\ ~crashed' =>
             AppliedOrOff(sdp, params, receiver.staged, receiver'.staged)]_paramsVars
  BY PatchTells
<1> QED
  BY <1>1, ParamsInvHolds, PTL DEF ParamsSpec, FileAppliedOrOff
=============================================================================
