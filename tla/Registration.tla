---------------------------- MODULE Registration ----------------------------
(***************************************************************************)
(* How a node finds a registry, registers with it and stays registered:    *)
(* NodeApiPrivate::Run() (node/src/nmosthread.cpp) and the functions it    *)
(* calls in nodeapiprivate.cpp.                                            *)
(*                                                                         *)
(* Actors: the node's thread; the DNS-SD browser's thread; the main thread,*)
(* which commits changes and stops the services; and the registries.  An   *)
(* HTTP request and its answer are one step, no lock is held across it.    *)
(* The fields of the node's thread are not atomic and other threads read   *)
(* them without m_mutex; each read is a step of its own here.              *)
(***************************************************************************)
EXTENDS Integers

CONSTANTS
  Registries,   \* registries that DNS-SD can announce
  Priority,     \* their "pri"; one of 200 or more is never chosen
  Rejecting,    \* the ones that answer POST and DELETE with 4xx, 501...
  MaxTroubles,  \* bound: wrong answers, lost registrations, withdrawals
  None

ASSUME RegistrationAssumption ==
  /\ Priority \in [Registries -> 0 .. 199]
  /\ Rejecting \subseteq Registries
  /\ MaxTroubles \in Nat
  /\ None \notin Registries

VARIABLES
  mRegNode,           \* m_mRegNode: each registry's bGood, or absent
  sRegistrationNode,  \* m_sRegistrationNode, None in peer-to-peer mode
  status,             \* m_nRegistrationStatus
  bRun,               \* m_bRun
  eSignal,            \* m_eSignal
  pc, inOperation,    \* the node's thread; is it in RegisteredOperation()?
  caller,             \* who called RegisterSimple()
  after,              \* what follows UnregisterSimple()
  sent,               \* the JSON that RegisterResources() is about to post
  deleted,            \* UnregisterResource()'s last result
  txt,                \* does the TXT record have the ver_ keys?
  removed,            \* HandleInstanceRemoved() is about to compare this one
  commit,             \* where the main thread is in Commit()
  commitTxt,          \* the TXT record it has put together
  holds,              \* what each registry holds of the node
  browsed,            \* the browser has reported AllForNow
  troubles            \* so far, up to MaxTroubles

dnsVars == <<removed, browsed>>
commitVars == <<commit, commitTxt>>
nodeVars == <<pc, inOperation, caller, after, sent, deleted>>
vars == <<mRegNode, sRegistrationNode, status, bRun, eSignal, nodeVars, txt,
          dnsVars, commitVars, holds, troubles>>

\* a copy of the resource model: all of it, all but the last commit, older or
\* incomplete, or none
Copies == {"current", "previous", "behind"}
Aged(c) == CASE c = "current" -> "previous" [] c = "previous" -> "behind" [] OTHER -> c

Waiting == {"arm", "block", "asleep"}

TypeOK ==
  /\ mRegNode \in [Registries -> {"absent", "good", "bad"}]
  /\ sRegistrationNode \in Registries \cup {None}
  /\ status \in {"start", "done", "failed"}
  /\ bRun \in BOOLEAN /\ txt \in BOOLEAN /\ commitTxt \in BOOLEAN
  /\ inOperation \in BOOLEAN /\ deleted \in BOOLEAN /\ browsed \in BOOLEAN
  /\ eSignal \in {"none", "browseDone", "instanceRemoved"}
  /\ pc \in Waiting \cup {"find", "register", "postNode", "copy", "postRest",
                          "delete", "heartbeat", "running", "stopped"}
  /\ caller \in {"operation", "heartbeat"}
  /\ after \in {"register", "failed", "exit"}
  /\ sent \in Copies
  /\ removed \in Registries \cup {None}
  /\ removed # None => mRegNode[removed] = "absent"
  /\ commit \in {"idle", "look", "txt", "setTxt", "post", "bad"}
  /\ holds \in [Registries -> Copies \cup {"nothing"}]
  /\ troubles \in 0 .. MaxTroubles

Init ==
  /\ mRegNode = [g \in Registries |-> "absent"]
  /\ sRegistrationNode = None
  /\ status = "start"
  /\ bRun = TRUE /\ txt = TRUE /\ commitTxt = TRUE /\ deleted = TRUE
  /\ eSignal = "none"
  /\ pc = "arm" /\ inOperation = FALSE
  /\ caller = "operation" /\ after = "exit" /\ sent = "behind"
  /\ removed = None /\ browsed = FALSE
  /\ commit = "idle"
  /\ holds = [g \in Registries |-> "nothing"]
  /\ troubles = 0

Trouble == troubles < MaxTroubles /\ troubles' = troubles + 1

Good == {g \in Registries : mRegNode[g] = "good"}

\* a 500, or no answer: MarkRegNodeAsBad(), and the request had no effect
Fails == Trouble /\ UNCHANGED holds

MarkRegNodeAsBad(g) ==
  mRegNode' = IF g \in Good THEN [mRegNode EXCEPT ![g] = "bad"] ELSE mRegNode

\* any other answer that is not the expected one
Refuses(g) ==
  /\ UNCHANGED <<holds, mRegNode>>
  /\ \/ g \in Rejecting /\ UNCHANGED troubles
     \/ Trouble

Accepts(g) == g \notin Rejecting /\ UNCHANGED <<mRegNode, troubles>>

-----------------------------------------------------------------------------
(* The node's thread: Wait() and WaitUntil()                               *)

Arm ==
  /\ pc = "arm"
  /\ eSignal' = "none"
  /\ pc' = "block"
  /\ UNCHANGED <<mRegNode, sRegistrationNode, status, bRun, inOperation, caller,
                 after, sent, deleted, txt, dnsVars, commitVars, holds, troubles>>

Block ==
  /\ pc = "block"
  /\ pc' = "asleep"
  /\ UNCHANGED <<mRegNode, sRegistrationNode, status, bRun, eSignal, inOperation,
                 caller, after, sent, deleted, txt, dnsVars, commitVars, holds, troubles>>

\* notified, or for no reason
Wake ==
  /\ pc = "asleep"
  /\ pc' = CASE inOperation /\ eSignal = "instanceRemoved" -> "find"
             [] ~inOperation /\ eSignal = "browseDone"     -> "find"
             [] OTHER                                      -> "running"
  /\ status' = IF pc' = "find" /\ inOperation THEN "failed" ELSE status
  /\ inOperation' = (inOperation /\ pc' # "find")
  /\ UNCHANGED <<mRegNode, sRegistrationNode, bRun, eSignal, caller, after, sent,
                 deleted, txt, dnsVars, commitVars, holds, troubles>>

\* mutant of Timeout: no heartbeat
TimeoutWithoutHeartbeat ==
  /\ pc = "asleep"
  /\ pc' = IF inOperation THEN "running" ELSE "find"
  /\ UNCHANGED <<mRegNode, sRegistrationNode, status, bRun, eSignal, inOperation,
                 caller, after, sent, deleted, txt, dnsVars, commitVars, holds, troubles>>

Timeout ==
  /\ pc = "asleep"
  /\ pc' = IF inOperation THEN "heartbeat" ELSE "find"
  /\ UNCHANGED <<mRegNode, sRegistrationNode, status, bRun, eSignal, inOperation,
                 caller, after, sent, deleted, txt, dnsVars, commitVars, holds, troubles>>

\* mutants of Running: stops without unregistering; and does not look at
\* m_bRun while it is registered
RunningForgetsDelete ==
  /\ pc = "running"
  /\ pc' = IF bRun THEN "arm" ELSE "stopped"
  /\ UNCHANGED <<mRegNode, sRegistrationNode, status, bRun, eSignal, inOperation,
                 caller, after, sent, deleted, txt, dnsVars, commitVars, holds, troubles>>

RunningForEver ==
  /\ pc = "running"
  /\ pc' = IF bRun \/ inOperation THEN "arm" ELSE "stopped"
  /\ UNCHANGED <<mRegNode, sRegistrationNode, status, bRun, eSignal, inOperation,
                 caller, after, sent, deleted, txt, dnsVars, commitVars, holds, troubles>>

\* the ends of the two loops
Running ==
  /\ pc = "running"
  /\ pc' = IF bRun THEN "arm" ELSE IF inOperation THEN "delete" ELSE "stopped"
  /\ after' = IF inOperation /\ ~bRun THEN "exit" ELSE after
  /\ UNCHANGED <<mRegNode, sRegistrationNode, status, bRun, eSignal, inOperation,
                 caller, sent, deleted, txt, dnsVars, commitVars, holds, troubles>>

-----------------------------------------------------------------------------
(* The node's thread: FindRegistrationNode(), RegisterSimple()             *)

\* mutant of FindNone: keeps the URL of the last registry
FindNoneKeepsUrl ==
  /\ pc = "find" /\ Good = {}
  /\ status' = "failed"
  /\ pc' = "running"
  /\ UNCHANGED <<mRegNode, sRegistrationNode, bRun, eSignal, inOperation, caller, after,
                 sent, deleted, txt, dnsVars, commitVars, holds, troubles>>

FindNone ==
  /\ pc = "find" /\ Good = {}
  /\ sRegistrationNode' = None
  /\ txt' = IF sRegistrationNode = None THEN txt ELSE TRUE
  /\ status' = "failed"
  /\ pc' = "running"
  /\ UNCHANGED <<mRegNode, bRun, eSignal, inOperation, caller, after, sent, deleted,
                 dnsVars, commitVars, holds, troubles>>

\* a node that had a registry is taken to be registered with the new one too
FindBest(g) ==
  /\ pc = "find" /\ g \in Good
  /\ \A h \in Good : Priority[g] <= Priority[h]
  /\ status' = IF sRegistrationNode = None THEN "start" ELSE "done"
  /\ sRegistrationNode' = g
  /\ txt' = FALSE
  /\ pc' = "register" /\ caller' = "operation"
  /\ UNCHANGED <<mRegNode, bRun, eSignal, inOperation, after, sent, deleted,
                 dnsVars, commitVars, holds, troubles>>

\* where RegisterSimple() returns REG_DONE to
Registered ==
  /\ pc' = IF caller = "operation" THEN "heartbeat" ELSE "running"
  /\ inOperation' = (caller = "heartbeat")

\* false from RegisteredOperation(): FindRegisterNode() looks again
GiveUp == pc' = "find" /\ inOperation' = FALSE /\ status' = "failed"

Unregister(next) == pc' = "delete" /\ after' = next

RegisterSimple ==
  /\ pc = "register"
  /\ \/ status = "done" /\ Registered /\ UNCHANGED status
     \/ status # "done" /\ status' = "failed" /\ pc' = "postNode" /\ UNCHANGED inOperation
  /\ UNCHANGED <<mRegNode, sRegistrationNode, bRun, eSignal, caller, after, sent,
                 deleted, txt, dnsVars, commitVars, holds, troubles>>

PostNode ==
  /\ pc = "postNode"
  /\ LET g == sRegistrationNode
     IN  \/ /\ Accepts(g) /\ holds[g] = "nothing"   \* 201
            /\ holds' = [holds EXCEPT ![g] = "behind"]
            /\ pc' = "copy" /\ UNCHANGED after
         \/ /\ Accepts(g) /\ holds[g] # "nothing"   \* 200: it knows the node
            /\ UNCHANGED holds
            /\ Unregister("register")
         \/ Refuses(g) /\ Unregister("failed")
         \/ Fails /\ MarkRegNodeAsBad(g) /\ Unregister("failed")
  /\ UNCHANGED <<sRegistrationNode, status, bRun, eSignal, inOperation, caller,
                 sent, deleted, txt, dnsVars, commitVars>>

CopyResources ==
  /\ pc = "copy"
  /\ sent' = "current"
  /\ pc' = "postRest"
  /\ UNCHANGED <<mRegNode, sRegistrationNode, status, bRun, eSignal, inOperation,
                 caller, after, deleted, txt, dnsVars, commitVars, holds, troubles>>

RegisterResources ==
  /\ pc = "postRest"
  /\ LET g == sRegistrationNode
     IN  \/ /\ Accepts(g) /\ holds[g] # "nothing"
            /\ holds' = [holds EXCEPT ![g] = sent]
            /\ status' = "done" /\ Registered /\ UNCHANGED after
         \/ /\ \/ Accepts(g) /\ holds[g] = "nothing" /\ UNCHANGED holds   \* no parent
               \/ Refuses(g)
               \/ Fails /\ MarkRegNodeAsBad(g)
            /\ Unregister("failed") /\ UNCHANGED <<status, inOperation>>
  /\ UNCHANGED <<sRegistrationNode, bRun, eSignal, caller, sent, deleted, txt,
                 dnsVars, commitVars>>

\* UnregisterSimple() ignores the result of UnregisterResource()
UnregisterSimple ==
  /\ pc = "delete"
  /\ LET g == sRegistrationNode
     IN  \/ Accepts(g) /\ holds' = [holds EXCEPT ![g] = "nothing"] /\ deleted' = TRUE
         \/ Refuses(g) /\ deleted' = FALSE
         \/ Fails /\ MarkRegNodeAsBad(g) /\ deleted' = FALSE
  /\ \/ /\ after = "register"
        /\ status' = "start" /\ pc' = "register" /\ UNCHANGED inOperation
     \/ /\ after = "failed"
        /\ GiveUp
     \/ /\ after = "exit"
        /\ status' = "start" /\ pc' = "running" /\ inOperation' = FALSE
  /\ UNCHANGED <<sRegistrationNode, bRun, eSignal, caller, after, sent, txt,
                 dnsVars, commitVars>>

-----------------------------------------------------------------------------
(* The node's thread: RegistrationHeartbeat(), HandleHeartbeatResponse()   *)

\* true from HandleHeartbeatResponse(): the loop goes on
StaysRegistered ==
  pc' = "running" /\ inOperation' = TRUE /\ UNCHANGED <<status, caller, after>>

\* RegistrationHeartbeat() marks the registry as bad for 500 and below 100,
\* HandleHeartbeatResponse() leaves the loop for 0 and from 400
Heartbeat ==
  /\ pc = "heartbeat"
  /\ LET g == sRegistrationNode
     IN  \/ /\ \/ holds[g] # "nothing" /\ UNCHANGED troubles   \* 200
               \/ Trouble                                       \* 100 to 399
            /\ UNCHANGED <<holds, mRegNode>>
            /\ StaysRegistered
         \/ Fails /\ MarkRegNodeAsBad(g) /\ StaysRegistered   \* 1 to 99
         \/ /\ holds[g] = "nothing"   \* 404
            /\ UNCHANGED <<holds, mRegNode, troubles, after>>
            /\ status' = "failed" /\ caller' = "heartbeat" /\ pc' = "register"
            /\ UNCHANGED inOperation
         \/ /\ Trouble                \* 409
            /\ UNCHANGED <<holds, mRegNode, status, inOperation>>
            /\ caller' = "heartbeat" /\ Unregister("register")
         \/ /\ Refuses(g) \/ (Fails /\ MarkRegNodeAsBad(g))   \* 400, 501; 0, 500
            /\ GiveUp /\ UNCHANGED <<caller, after>>
  /\ UNCHANGED <<sRegistrationNode, bRun, eSignal, sent, deleted, txt, dnsVars, commitVars>>

-----------------------------------------------------------------------------
(* The browser's thread: NodeZCPoster                                      *)

AllForNow ==
  /\ ~browsed /\ removed = None
  /\ browsed' = TRUE
  /\ eSignal' = "browseDone"
  /\ UNCHANGED <<mRegNode, sRegistrationNode, status, bRun, nodeVars, txt, removed,
                 commitVars, holds, troubles>>

HandleInstanceResolved(g) ==   \* insert() leaves a registry that is there alone
  /\ removed = None /\ mRegNode[g] = "absent"
  /\ mRegNode' = [mRegNode EXCEPT ![g] = "good"]
  /\ UNCHANGED <<sRegistrationNode, status, bRun, eSignal, nodeVars, txt, dnsVars,
                 commitVars, holds, troubles>>

\* mutant of HandleInstanceRemoved: keeps the registry, marked as bad
RemovedIsBad(g) ==
  /\ removed = None /\ mRegNode[g] # "absent"
  /\ Trouble
  /\ mRegNode' = [mRegNode EXCEPT ![g] = "bad"]
  /\ removed' = g
  /\ UNCHANGED <<sRegistrationNode, status, bRun, eSignal, nodeVars, txt, browsed,
                 commitVars, holds>>

HandleInstanceRemoved(g) ==
  /\ removed = None /\ mRegNode[g] # "absent"
  /\ Trouble
  /\ mRegNode' = [mRegNode EXCEPT ![g] = "absent"]
  /\ removed' = g
  /\ UNCHANGED <<sRegistrationNode, status, bRun, eSignal, nodeVars, txt, browsed,
                 commitVars, holds>>

SignalRemoved ==
  /\ removed # None
  /\ eSignal' = IF removed = sRegistrationNode THEN "instanceRemoved" ELSE eSignal
  /\ removed' = None
  /\ UNCHANGED <<mRegNode, sRegistrationNode, status, bRun, nodeVars, txt, browsed,
                 commitVars, holds, troubles>>

-----------------------------------------------------------------------------
(* The main thread: Commit() and StopServices()                            *)

\* the changes are in the model: every copy of it is older now
CommitResources ==
  /\ commit = "idle" /\ bRun
  /\ holds' = [g \in Registries |-> Aged(holds[g])]
  /\ sent' = Aged(sent)
  /\ commit' = "look"
  /\ UNCHANGED <<mRegNode, sRegistrationNode, status, bRun, eSignal, pc, inOperation,
                 caller, after, deleted, txt, dnsVars, commitTxt, troubles>>

CommitLook ==
  /\ commit = "look"
  /\ commit' = IF sRegistrationNode = None THEN "txt" ELSE "post"
  /\ UNCHANGED <<mRegNode, sRegistrationNode, status, bRun, eSignal, nodeVars, txt,
                 dnsVars, commitTxt, holds, troubles>>

CreatemDNSTxt ==
  /\ commit = "txt"
  /\ commitTxt' = (sRegistrationNode = None)
  /\ commit' = "setTxt"
  /\ UNCHANGED <<mRegNode, sRegistrationNode, status, bRun, eSignal, nodeVars, txt,
                 dnsVars, holds, troubles>>

SetmDNSTxt ==
  /\ commit = "setTxt"
  /\ txt' = commitTxt
  /\ commit' = "idle"
  /\ UNCHANGED <<mRegNode, sRegistrationNode, status, bRun, eSignal, nodeVars,
                 dnsVars, commitTxt, holds, troubles>>

\* UpdateRegisterSimple(): the changes only, and no answer is looked at; a
\* registry without the node takes the node alone, when that has changed
UpdateRegister ==
  /\ commit = "post"
  /\ \/ /\ sRegistrationNode = None      \* a URL without a host: no answer
        /\ commit' = "bad" /\ UNCHANGED <<holds, troubles>>
     \/ /\ sRegistrationNode # None
        /\ LET g == sRegistrationNode
           IN  \/ /\ g \notin Rejecting /\ UNCHANGED troubles
                  /\ \/ holds[g] = "previous" /\ holds' = [holds EXCEPT ![g] = "current"]
                     \/ holds[g] = "nothing" /\ holds' = [holds EXCEPT ![g] = "behind"]
                     \/ holds[g] # "previous" /\ UNCHANGED holds
                  /\ commit' = "idle"
               \/ /\ UNCHANGED holds
                  /\ Trouble \/ (g \in Rejecting /\ UNCHANGED troubles)
                  /\ commit' = "idle"
               \/ Fails /\ commit' = "bad"
  /\ UNCHANGED <<mRegNode, sRegistrationNode, status, bRun, eSignal, nodeVars, txt,
                 dnsVars, commitTxt>>

CommitMarkBad ==   \* whichever registry is in use by now
  /\ commit = "bad"
  /\ MarkRegNodeAsBad(sRegistrationNode)
  /\ commit' = "idle"
  /\ UNCHANGED <<sRegistrationNode, status, bRun, eSignal, nodeVars, txt, dnsVars,
                 commitTxt, holds, troubles>>

StopRun ==   \* and waits for the thread; nothing wakes it
  /\ bRun /\ commit = "idle"
  /\ bRun' = FALSE
  /\ UNCHANGED <<mRegNode, sRegistrationNode, status, eSignal, nodeVars, txt, dnsVars,
                 commitVars, holds, troubles>>

-----------------------------------------------------------------------------
\* a registry restarts, or its garbage collector was faster
Forget(g) ==
  /\ holds[g] # "nothing" /\ Trouble
  /\ holds' = [holds EXCEPT ![g] = "nothing"]
  /\ UNCHANGED <<mRegNode, sRegistrationNode, status, bRun, eSignal, nodeVars, txt,
                 dnsVars, commitVars>>

NodeThread ==
  \/ Arm \/ Block \/ Wake \/ Timeout \/ Running
  \/ FindNone \/ (\E g \in Registries : FindBest(g))
  \/ RegisterSimple \/ PostNode \/ CopyResources \/ RegisterResources
  \/ UnregisterSimple \/ Heartbeat

Browser ==
  \/ AllForNow \/ SignalRemoved
  \/ \E g \in Registries : HandleInstanceResolved(g) \/ HandleInstanceRemoved(g)

InCommit ==
  CommitLook \/ CreatemDNSTxt \/ SetmDNSTxt \/ UpdateRegister \/ CommitMarkBad

Next ==
  \/ NodeThread \/ Browser
  \/ CommitResources \/ InCommit \/ StopRun
  \/ \E g \in Registries : Forget(g)

Spec == Init /\ [][Next]_vars

(***************************************************************************)
(* Threads that can run do, every request is answered in the end (restgoose*)
(* has a timeout), and a wait is not ended for no reason again and again:  *)
(* sooner or later it times out.  Nothing makes the browser find anything, *)
(* the application commit or a registry forget.                            *)
(***************************************************************************)
Fairness ==
  /\ WF_vars(NodeThread)
  /\ SF_vars(Timeout)
  /\ WF_vars(SignalRemoved)
  /\ WF_vars(InCommit)

FairSpec == Spec /\ Fairness

-----------------------------------------------------------------------------
(* Properties                                                              *)

InUse == sRegistrationNode # None

(***************************************************************************)
(* The node sleeps between heartbeats only when it has a registry it is    *)
(* registered with, and in the outer loop, where it sends none, only in    *)
(* peer-to-peer mode: no path through a failed registration, a forgotten   *)
(* node, a conflict or a lost registry leaves it in the wrong loop.        *)
(***************************************************************************)
WaitsInTheRightLoop ==
  pc \in Waiting => IF inOperation THEN InUse /\ status = "done" ELSE ~InUse

(***************************************************************************)
(* A node that was stopped is no longer held by the registry it used,      *)
(* unless the DELETE failed.                                               *)
(***************************************************************************)
LeavesTheRegistry ==
  pc = "stopped" /\ InUse /\ deleted => holds[sRegistrationNode] = "nothing"

(***************************************************************************)
(* When the troubles are over and the application no longer commits, a     *)
(* node that knows a good registry ends up registered.  (A commit between  *)
(* the DELETE and the POST of RegisterSimple() posts the node: the POST is *)
(* answered 200 again, and RegisterSimple() starts again.)                 *)
(***************************************************************************)
RegistersInTheEnd ==
  <>[](bRun /\ Good # {} /\ commit = "idle") => <>[](InUse /\ holds[sRegistrationNode] # "nothing")

(***************************************************************************)
(* nodeapi.h, StopServices(): "Stop the thread that is running the nmos    *)
(* services".  It stops.                                                   *)
(***************************************************************************)
ThreadStops == ~bRun ~> pc = "stopped"
=============================================================================
