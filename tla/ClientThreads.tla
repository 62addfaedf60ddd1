---------------------------- MODULE ClientThreads ----------------------------
(***************************************************************************)
(* How the threads of a client find the resources of the nodes:            *)
(* ClientApiImpl (client/src/clientprivate.cpp), ClientHolder              *)
(* (clientholder.cpp) and ThreadPool (base/src/threadpool.cpp).            *)
(*                                                                         *)
(* The browser of dnssd and the HTTP requests hand their events to the     *)
(* client's thread in one slot, m_eSignal with m_pInstance, and wake it if *)
(* it waits.  The client's thread hands nodes to the one worker of the     *)
(* pool, which asks them for what they have.                               *)
(*                                                                         *)
(* The holders of the kinds of resources are filled one after the other in *)
(* the same way: here is one.  What the application is told is in          *)
(* ClientCatalog.                                                          *)
(***************************************************************************)
EXTENDS SequencesExt

CONSTANTS
  Nodes,     \* nodes that announce themselves, each at an address of its own
  Query,     \* the query server of a registry
  Ids,       \* ids of the resources
  MaxQueue,  \* nothing is announced while that many tasks wait for the worker
  None

ASSUME ClientThreadsAssumption ==
  /\ Query \notin Nodes /\ None \notin Nodes \cup {Query}
  /\ MaxQueue \in Nat \ {0}

VARIABLES
  signal, instance, service,   \* m_eSignal, m_pInstance, m_sService
  pc, sig,   \* the client's thread, and the signal it has got
  bRun,      \* m_bRun
  mode,      \* m_eMode
  resolve,   \* what is in m_lstResolve: one node at most
  doneBrowse, \* m_bDoneQueryBrowse
  asked,     \* SubscribeToQueryServer() has asked the query server
  queue,     \* m_qWork
  worker, job, answer,  \* the worker, its node, and what that has answered
  done,      \* m_bDone: the pool is being destroyed
  listed,    \* the address each resource in the holder is listed at
  stored     \* m_setStored

slotVars == <<signal, instance, service>>
threadVars == <<sig, bRun, mode, resolve, doneBrowse, asked>>
workerVars == <<worker, job, answer, done, stored>>
vars == <<slotVars, pc, threadVars, queue, workerVars, listed>>

\* "other": a node browsed, an HTTP request done, exit
Signals == {"none", "resolved", "removed", "done", "other"}

TypeOK ==
  /\ signal \in Signals
  /\ sig \in Signals
  /\ instance \in Nodes \cup {Query, None}
  /\ service \in {"node", "query"}
  /\ pc \in {"reset", "lock", "wait", "woken", "handle", "details", "ended"}
  /\ bRun \in BOOLEAN /\ mode \in {"p2p", "registry"}
  /\ doneBrowse \in BOOLEAN /\ asked \in BOOLEAN
  /\ resolve \in {{}} \cup {{n} : n \in Nodes}
  /\ queue \in BoundedSeq(Nodes, MaxQueue)
  /\ worker \in {"top", "block", "wait", "task", "get", "add", "stale", "signal", "ended"}
  /\ job \in Nodes \cup {None} /\ answer \in SUBSET Ids
  /\ worker \in {"task", "get", "add", "stale"} => job # None
  /\ done \in BOOLEAN
  /\ listed \in [Ids -> Nodes \cup {None}] /\ stored \in SUBSET Ids

\* the browsers are started
Init ==
  /\ signal = "none" /\ instance = None /\ service = "node"
  /\ pc = "reset" /\ sig = "none" /\ bRun = TRUE
  /\ mode = "p2p" /\ resolve = {} /\ doneBrowse = FALSE /\ asked = FALSE
  /\ queue = <<>> /\ worker = "top" /\ job = None /\ answer = {} /\ done = FALSE
  /\ listed = [i \in Ids |-> None] /\ stored = {}

At(n) == {i \in Ids : listed[i] = n}

-----------------------------------------------------------------------------
(* Events: what was in the slot is overwritten, and notify_one() wakes the *)
(* thread only if it waits                                                 *)

\* DeleteServiceBrowser() is the last that the thread does
Announced == pc # "ended"

Signal(s) ==
  /\ signal' = s
  /\ pc' = IF pc = "wait" THEN "woken" ELSE pc

\* a node comes, or has changed what it has; or a query server is found
SetInstanceResolved ==
  /\ Announced /\ Len(queue) < MaxQueue
  /\ instance' \in Nodes \cup {Query}
  /\ Signal("resolved")
  /\ UNCHANGED <<service, threadVars, queue, workerVars, listed>>

SetInstanceRemoved ==
  /\ Announced
  /\ instance' \in Nodes \cup {Query}
  /\ Signal("removed")
  /\ UNCHANGED <<service, threadVars, queue, workerVars, listed>>

SetAllForNow ==
  /\ Announced
  /\ service' \in {"node", "query"}
  /\ Signal("done")
  /\ UNCHANGED <<instance, threadVars, queue, workerVars, listed>>

\* the answer to a command; its own slot is in ClientCommands
SetHttpRequestDone ==
  /\ Signal("other")
  /\ UNCHANGED <<instance, service, threadVars, queue, workerVars, listed>>

StopRun ==
  /\ bRun
  /\ bRun' = FALSE
  /\ Signal("other")
  /\ UNCHANGED <<instance, service, sig, mode, resolve, doneBrowse, asked,
                 queue, workerVars, listed>>

-----------------------------------------------------------------------------
(* The client's thread                                                     *)

Quiet == UNCHANGED <<service, bRun, workerVars>>

\* Wait(): a signal before the thread blocks is not waited for
ResetSignal ==
  /\ pc = "reset" /\ signal' = "none" /\ pc' = "lock"
  /\ UNCHANGED <<instance, sig, mode, resolve, doneBrowse, asked, queue, listed>> /\ Quiet

Block ==
  /\ pc = "lock" /\ pc' = "wait"
  /\ UNCHANGED <<signal, instance, sig, mode, resolve, doneBrowse, asked, queue, listed>> /\ Quiet

Loop == pc' = IF bRun THEN "reset" ELSE "ended"

\* mutant of Timeout: waits again
TimeoutAgain ==
  /\ pc = "wait" /\ pc' = "reset"
  /\ UNCHANGED <<signal, instance, sig, mode, resolve, doneBrowse, asked, queue, listed>> /\ Quiet

Timeout ==
  /\ pc = "wait" /\ Loop
  /\ UNCHANGED <<signal, instance, sig, mode, resolve, doneBrowse, asked, queue, listed>> /\ Quiet

SpuriousWakeup ==
  /\ pc = "wait" /\ pc' = "woken"
  /\ UNCHANGED <<signal, instance, sig, mode, resolve, doneBrowse, asked, queue, listed>> /\ Quiet

GetSignal ==
  /\ pc = "woken" /\ sig' = signal /\ pc' = "handle"
  /\ UNCHANGED <<signal, instance, mode, resolve, doneBrowse, asked, queue, listed>> /\ Quiet

\* mutant of QueryServerFound: forgets that the browsing is done already
QueryServerWaits ==
  /\ instance = Query
  /\ resolve' = {}
  /\ \/ mode' = "registry" /\ UNCHANGED asked
     \/ UNCHANGED <<mode, asked>>

\* with a "pri" that is a number, or not
QueryServerFound ==
  /\ instance = Query
  /\ resolve' = {}
  /\ \/ mode' = "registry" /\ asked' = (asked \/ doneBrowse)
     \/ UNCHANGED <<mode, asked>>

\* m_pInstance may be another than the one that was signalled, or null
HandleInstanceResolved ==
  /\ pc = "handle" /\ sig = "resolved" /\ pc' = "details"
  /\ \/ QueryServerFound
     \/ /\ instance \in Nodes /\ mode = "p2p"
        /\ resolve' = resolve \cup {instance}
        /\ UNCHANGED <<mode, asked>>
     \/ /\ (instance = None \/ (instance \in Nodes /\ mode = "registry"))
        /\ UNCHANGED <<resolve, mode, asked>>
  /\ instance' = None
  /\ sig' = "none" /\ UNCHANGED <<signal, doneBrowse, queue, listed>> /\ Quiet

\* without m_mutex.  A query server is not recognised.  RemoveResources() is of
\* what is listed now: not of what a browser of the node is about to add.
HandleInstanceRemoved ==
  /\ pc = "handle" /\ sig = "removed" /\ pc' = "details"
  /\ IF instance \in Nodes /\ mode = "p2p"
     THEN /\ resolve' = resolve \ {instance}
          /\ listed' = [i \in Ids |-> IF listed[i] = instance THEN None ELSE listed[i]]
     ELSE UNCHANGED <<resolve, listed>>
  /\ instance' = None
  /\ sig' = "none" /\ UNCHANGED <<signal, mode, doneBrowse, asked, queue>> /\ Quiet

HandleBrowseDone ==
  /\ pc = "handle" /\ sig = "done" /\ pc' = "details"
  /\ IF service = "query"
     THEN doneBrowse' = TRUE /\ asked' = (asked \/ mode = "registry")
     ELSE UNCHANGED <<doneBrowse, asked>>
  /\ sig' = "none" /\ UNCHANGED <<signal, instance, mode, resolve, queue, listed>> /\ Quiet

\* NodeDetailsDone() does nothing
HandleOther ==
  /\ pc = "handle" /\ sig \in {"none", "other"} /\ pc' = "details"
  /\ sig' = "none" /\ UNCHANGED <<signal, instance, mode, resolve, doneBrowse, asked, queue, listed>> /\ Quiet

\* mutant of GetNodeDetails: the node stays in the list
DetailsKeep ==
  /\ pc = "details" /\ Loop
  /\ \/ resolve = {} /\ UNCHANGED <<queue, resolve, worker>>
     \/ /\ worker # "block"
        /\ \E n \in resolve : queue' = Append(queue, n)
        /\ worker' = IF worker = "wait" THEN "top" ELSE worker
        /\ UNCHANGED resolve
  /\ UNCHANGED <<slotVars, sig, bRun, mode, doneBrowse, asked, job, answer, done, stored, listed>>

\* Submit() takes the pool's mutex, which a worker about to wait holds, and
\* notifies
GetNodeDetails ==
  /\ pc = "details" /\ Loop
  /\ \/ resolve = {} /\ UNCHANGED <<queue, resolve, worker>>
     \/ /\ worker # "block"
        /\ \E n \in resolve : queue' = Append(queue, n) /\ resolve' = resolve \ {n}
        /\ worker' = IF worker = "wait" THEN "top" ELSE worker
  /\ UNCHANGED <<slotVars, sig, bRun, mode, doneBrowse, asked, job, answer, done, stored, listed>>

-----------------------------------------------------------------------------
(* The pool's worker, and NodeBrowser()                                    *)

WorkerQuiet == UNCHANGED <<instance, service, threadVars>>

\* mutant of WorkerThread: the predicate of the wait is without m_bDone
WorkerThreadWaits ==
  /\ worker = "top"
  /\ \/ queue = <<>> /\ worker' = "block" /\ UNCHANGED <<queue, job>>
     \/ /\ queue # <<>>
        /\ job' = Head(queue) /\ queue' = Tail(queue) /\ worker' = "task"
  /\ UNCHANGED <<signal, pc, answer, done, stored, listed>> /\ WorkerQuiet

\* the loop's condition and the predicate of the wait
WorkerThread ==
  /\ worker = "top"
  /\ \/ done /\ worker' = "ended" /\ UNCHANGED <<queue, job>>
     \/ ~done /\ queue = <<>> /\ worker' = "block" /\ UNCHANGED <<queue, job>>
     \/ /\ ~done /\ queue # <<>>
        /\ job' = Head(queue) /\ queue' = Tail(queue) /\ worker' = "task"
  /\ UNCHANGED <<signal, pc, answer, done, stored, listed>> /\ WorkerQuiet

\* and releases the mutex
WorkerBlock ==
  /\ worker = "block" /\ worker' = "wait"
  /\ UNCHANGED <<signal, pc, queue, job, answer, done, stored, listed>> /\ WorkerQuiet

\* mutant of StoreResources: nothing is remembered
StoreNothing ==
  /\ worker = "task"
  /\ \/ mode = "p2p" /\ worker' = "get"
     \/ mode = "p2p" /\ worker' = "signal"
     \/ mode = "registry" /\ worker' = "top"
  /\ job' = IF mode = "p2p" THEN job ELSE None
  /\ UNCHANGED <<signal, pc, queue, answer, done, stored, listed>> /\ WorkerQuiet

\* NodeBrowser() does not browse when another version of the API is announced
\* or the same ver_ key; in registry mode it does nothing
StoreResources ==
  /\ worker = "task"
  /\ \/ mode = "p2p" /\ worker' = "get" /\ stored' = stored \cup At(job)
     \/ mode = "p2p" /\ worker' = "signal" /\ UNCHANGED stored
     \/ mode = "registry" /\ worker' = "top" /\ UNCHANGED stored
  /\ job' = IF mode = "p2p" THEN job ELSE None
  /\ UNCHANGED <<signal, pc, queue, answer, done, listed>> /\ WorkerQuiet

\* a request that fails is like a node that has nothing
Get ==
  /\ worker = "get" /\ worker' = "add"
  /\ answer' \in SUBSET Ids
  /\ UNCHANGED <<signal, pc, queue, job, done, stored, listed>> /\ WorkerQuiet

\* AddDevices() and its like: UpdateResource() or AddResource()
AddResources ==
  /\ worker = "add" /\ worker' = "stale"
  /\ stored' = stored \ {i \in answer : listed[i] # None}
  /\ listed' = [i \in Ids |-> IF i \in answer /\ listed[i] = None THEN job ELSE listed[i]]
  /\ UNCHANGED <<signal, pc, queue, job, answer, done>> /\ WorkerQuiet

\* m_setStored is not cleared
RemoveStaleResources ==
  /\ worker = "stale" /\ worker' = "signal"
  /\ listed' = [i \in Ids |-> IF i \in stored THEN None ELSE listed[i]]
  /\ answer' = {}
  /\ UNCHANGED <<signal, pc, queue, job, done, stored>> /\ WorkerQuiet

NodeBrowsed ==
  /\ worker = "signal" /\ worker' = "top"
  /\ Signal("other") /\ job' = None
  /\ UNCHANGED <<queue, answer, done, stored, listed>> /\ WorkerQuiet

\* ~ThreadPool() does not take the mutex
DestroyPool ==
  /\ pc = "ended" /\ ~done
  /\ done' = TRUE
  /\ worker' = IF worker = "wait" THEN "top" ELSE worker
  /\ UNCHANGED <<slotVars, pc, threadVars, queue, job, answer, stored, listed>>

Events == SetInstanceResolved \/ SetInstanceRemoved \/ SetAllForNow \/ SetHttpRequestDone \/ StopRun

ClientThread ==
  \/ ResetSignal \/ Block \/ Timeout \/ GetSignal
  \/ HandleInstanceResolved \/ HandleInstanceRemoved \/ HandleBrowseDone \/ HandleOther
  \/ GetNodeDetails

Worker ==
  \/ WorkerThread \/ WorkerBlock
  \/ StoreResources \/ Get \/ AddResources \/ RemoveStaleResources \/ NodeBrowsed

Next == Events \/ ClientThread \/ SpuriousWakeup \/ Worker \/ DestroyPool

Spec == Init /\ [][Next]_vars

(***************************************************************************)
(* The two threads run, and waits and HTTP requests end.  Nothing has to   *)
(* be announced.                                                           *)
(***************************************************************************)
FairSpec == Spec /\ WF_vars(ClientThread) /\ WF_vars(Worker)

-----------------------------------------------------------------------------
(* Properties                                                              *)

(***************************************************************************)
(* "could be told all done before we've been given the node due to         *)
(* threading": once the thread has handled both, in either order, it has   *)
(* asked the query server.                                                 *)
(***************************************************************************)
AskedInEitherOrder == mode = "registry" /\ doneBrowse => asked

(***************************************************************************)
(* After a node has been browsed nothing is listed at its address that it  *)
(* did not answer with, also when the client's thread removes resources in *)
(* the middle.                                                             *)
(***************************************************************************)
StaleResourcesGo ==
  [][RemoveStaleResources => \A i \in Ids : listed'[i] = job => i \in answer]_vars

(***************************************************************************)
(* The comment in NodeBrowser(): "remove any devices that we previously    *)
(* stored but didn;t update. i.e. ones that no longer exist".  What a node *)
(* answers with stays: but a resource that has been removed as stale once  *)
(* is in m_setStored for good, and is removed whenever it is added again.  *)
(***************************************************************************)
AnsweredResourcesStay ==
  [][RemoveStaleResources => \A i \in answer : listed'[i] # None]_vars

(***************************************************************************)
(* Stop() joins the client's thread: it ends although the signal to exit   *)
(* may come when it does not wait.                                         *)
(***************************************************************************)
ThreadStops == ~bRun ~> pc = "ended"

(***************************************************************************)
(* The pool's destructor joins its worker, if it does not set m_bDone just *)
(* between the worker's test and its wait: then it waits for ever.         *)
(***************************************************************************)
PoolJoins == (done /\ worker \notin {"block", "wait"}) ~> worker = "ended"
=============================================================================
