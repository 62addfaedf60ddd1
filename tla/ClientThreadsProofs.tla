------------------------- MODULE ClientThreadsProofs -------------------------
(***************************************************************************)
(* Proofs about ClientThreads: the query server is asked whatever comes    *)
(* first, and what a node does not answer with goes.  The second rests on  *)
(* what m_setStored and the answer hold at each place of NodeBrowser(),    *)
(* which other threads' removals do not disturb; and the types, for which  *)
(* the length of the worker's queue has to be bounded.                     *)
(***************************************************************************)
EXTENDS ClientThreads, TLAPS

\* the nodes that wait to be browsed, and the one that is
JobsAreNodes ==
  /\ instance \in Nodes \cup {Query, None}
  /\ resolve \subseteq Nodes
  /\ queue \in Seq(Nodes)
  /\ worker \in {"task", "get", "add", "stale"} => job \in Nodes

\* what is listed at the node being browsed is to go, unless it answers with it
Marked ==
  /\ worker \in {"get", "add"} => \A i \in Ids : listed[i] = job => i \in stored
  /\ worker = "stale" => \A i \in Ids : listed[i] = job => i \in stored \cup answer

BrowseInv == JobsAreNodes /\ Marked /\ AskedInEitherOrder

-----------------------------------------------------------------------------
(* Events and the client's thread                                          *)

LEMMA InitInv == Init => BrowseInv
BY DEF Init, BrowseInv, JobsAreNodes, Marked, AskedInEitherOrder

(***************************************************************************)
(* Removing resources marks no others.                                     *)
(***************************************************************************)
LEMMA MarkedKept ==
  ASSUME JobsAreNodes, Marked, UNCHANGED <<job, stored, answer>>,
         worker' = worker \/ worker' = "top",
         \A i \in Ids : listed'[i] = listed[i] \/ listed'[i] = None
  PROVE  Marked'
<1>1. worker \in {"get", "add", "stale"} => job # None
  BY ClientThreadsAssumption DEF JobsAreNodes
<1> QED
  BY <1>1 DEF Marked

LEMMA EventsKeep ==
  ASSUME BrowseInv, Events
  PROVE  BrowseInv'
<1>1. \/ UNCHANGED <<threadVars, queue, workerVars, listed>> /\ instance' \in Nodes \cup {Query, None}
      \/ UNCHANGED <<instance, mode, resolve, doneBrowse, asked, queue, workerVars, listed>>
  BY DEF Events, SetInstanceResolved, SetInstanceRemoved, SetAllForNow, SetHttpRequestDone, StopRun,
         BrowseInv, JobsAreNodes
<1>2. UNCHANGED <<mode, resolve, doneBrowse, asked, queue, worker, job, answer, stored, listed>>
  BY <1>1 DEF threadVars, workerVars
<1>3. JobsAreNodes'
  BY <1>1, <1>2 DEF BrowseInv, JobsAreNodes
<1>4. Marked'
  BY <1>2 DEF BrowseInv, Marked
<1> QED
  BY <1>2, <1>3, <1>4 DEF BrowseInv, AskedInEitherOrder

LEMMA QuietKeeps ==
  ASSUME BrowseInv, ResetSignal \/ Block \/ Timeout \/ SpuriousWakeup \/ GetSignal \/ HandleOther
  PROVE  BrowseInv'
<1>1. UNCHANGED <<instance, mode, resolve, doneBrowse, asked, queue, worker, job, answer, stored, listed>>
  BY DEF ResetSignal, Block, Timeout, SpuriousWakeup, GetSignal, HandleOther, Quiet, workerVars
<1> QED
  BY <1>1 DEF BrowseInv, JobsAreNodes, Marked, AskedInEitherOrder

LEMMA ResolvedKeeps ==
  ASSUME BrowseInv, HandleInstanceResolved
  PROVE  BrowseInv'
<1>1. UNCHANGED <<doneBrowse, queue, worker, job, answer, stored, listed>> /\ instance' = None
  BY DEF HandleInstanceResolved, Quiet, workerVars
<1>2. resolve' \subseteq Nodes
  BY DEF HandleInstanceResolved, QueryServerFound, BrowseInv, JobsAreNodes
<1>3. JobsAreNodes'
  BY <1>1, <1>2 DEF BrowseInv, JobsAreNodes
<1>4. Marked'
  BY <1>1 DEF BrowseInv, Marked
<1>5. AskedInEitherOrder'
  <2>1. CASE UNCHANGED <<mode, asked>>
    BY <1>1, <2>1 DEF BrowseInv, AskedInEitherOrder
  <2>2. CASE asked' = (asked \/ doneBrowse)
    <3>1. doneBrowse => asked'
      BY <2>2
    <3> QED
      BY <1>1, <3>1 DEF AskedInEitherOrder
  <2> QED
    BY <2>1, <2>2 DEF HandleInstanceResolved, QueryServerFound
<1> QED
  BY <1>3, <1>4, <1>5 DEF BrowseInv

LEMMA RemovedKeeps ==
  ASSUME BrowseInv, HandleInstanceRemoved
  PROVE  BrowseInv'
<1>1. UNCHANGED <<mode, doneBrowse, asked, queue, worker, job, answer, stored>> /\ instance' = None
  BY DEF HandleInstanceRemoved, Quiet, workerVars
<1>2. JobsAreNodes'
  BY <1>1 DEF HandleInstanceRemoved, BrowseInv, JobsAreNodes
<1>3. \A i \in Ids : listed'[i] = listed[i] \/ listed'[i] = None
  BY DEF HandleInstanceRemoved
<1>4. Marked'
  BY <1>1, <1>3, MarkedKept DEF BrowseInv
<1> QED
  BY <1>1, <1>2, <1>4 DEF BrowseInv, AskedInEitherOrder

LEMMA BrowseDoneKeeps ==
  ASSUME BrowseInv, HandleBrowseDone
  PROVE  BrowseInv'
<1>1. UNCHANGED <<instance, mode, resolve, queue, worker, job, answer, stored, listed>>
  BY DEF HandleBrowseDone, Quiet, workerVars
<1>2. AskedInEitherOrder'
  BY <1>1 DEF HandleBrowseDone, BrowseInv, AskedInEitherOrder
<1> QED
  BY <1>1, <1>2 DEF BrowseInv, JobsAreNodes, Marked

LEMMA DetailsKeeps ==
  ASSUME BrowseInv, GetNodeDetails
  PROVE  BrowseInv'
<1>1. UNCHANGED <<instance, mode, doneBrowse, asked, job, answer, stored, listed>>
  BY DEF GetNodeDetails, slotVars
<1>2. worker' = worker \/ worker' = "top"
  BY DEF GetNodeDetails
<1>3. resolve' \subseteq Nodes /\ queue' \in Seq(Nodes)
  <2>1. CASE UNCHANGED <<queue, resolve>>
    BY <2>1 DEF BrowseInv, JobsAreNodes
  <2>2. ASSUME NEW n \in resolve, queue' = Append(queue, n), resolve' = resolve \ {n}
        PROVE  resolve' \subseteq Nodes /\ queue' \in Seq(Nodes)
    BY <2>2 DEF BrowseInv, JobsAreNodes
  <2> QED
    BY <2>1, <2>2 DEF GetNodeDetails
<1>4. JobsAreNodes'
  BY <1>1, <1>2, <1>3 DEF BrowseInv, JobsAreNodes
<1>5. Marked'
  BY <1>1, <1>2, MarkedKept DEF BrowseInv
<1> QED
  BY <1>1, <1>4, <1>5 DEF BrowseInv, AskedInEitherOrder

-----------------------------------------------------------------------------
(* The worker                                                              *)

LEMMA WorkerQuietKeeps ==
  ASSUME WorkerQuiet
  PROVE  UNCHANGED <<instance, mode, resolve, doneBrowse, asked>>
BY DEF WorkerQuiet, threadVars

LEMMA ThreadKeeps ==
  ASSUME BrowseInv, WorkerThread \/ WorkerBlock
  PROVE  BrowseInv'
<1>1. UNCHANGED <<instance, mode, resolve, doneBrowse, asked>>
  BY WorkerQuietKeeps DEF WorkerThread, WorkerBlock
<1>2. worker' \in {"ended", "block", "wait", "task"}
  BY DEF WorkerThread, WorkerBlock
<1>3. queue' \in Seq(Nodes) /\ (worker' = "task" => job' \in Nodes)
  <2>1. CASE UNCHANGED queue /\ worker' # "task"
    BY <2>1 DEF BrowseInv, JobsAreNodes
  <2>2. CASE queue # <<>> /\ job' = Head(queue) /\ queue' = Tail(queue)
    BY <2>2 DEF BrowseInv, JobsAreNodes
  <2> QED
    BY <2>1, <2>2 DEF WorkerThread, WorkerBlock
<1>4. JobsAreNodes'
  BY <1>1, <1>2, <1>3 DEF BrowseInv, JobsAreNodes
<1>5. Marked'
  BY <1>2 DEF Marked
<1> QED
  BY <1>1, <1>4, <1>5 DEF BrowseInv, AskedInEitherOrder

LEMMA StoreKeeps ==
  ASSUME BrowseInv, StoreResources
  PROVE  BrowseInv'
<1>1. UNCHANGED <<instance, mode, resolve, doneBrowse, asked, queue, answer, listed>>
  BY WorkerQuietKeeps DEF StoreResources
<1>2. worker' \in {"get", "signal", "top"} /\ (worker' = "get" => job' = job /\ stored' = stored \cup At(job))
  BY DEF StoreResources
<1>3. JobsAreNodes'
  BY <1>1, <1>2 DEF StoreResources, BrowseInv, JobsAreNodes
<1>4. Marked'
  BY <1>1, <1>2 DEF Marked, At
<1> QED
  BY <1>1, <1>3, <1>4 DEF BrowseInv, AskedInEitherOrder

LEMMA GetKeeps ==
  ASSUME BrowseInv, Get
  PROVE  BrowseInv'
<1>1. UNCHANGED <<instance, mode, resolve, doneBrowse, asked, queue, job, stored, listed>>
      /\ worker = "get" /\ worker' = "add"
  BY WorkerQuietKeeps DEF Get
<1> QED
  BY <1>1 DEF BrowseInv, JobsAreNodes, Marked, AskedInEitherOrder

LEMMA AddKeeps ==
  ASSUME BrowseInv, AddResources
  PROVE  BrowseInv'
<1>1. UNCHANGED <<instance, mode, resolve, doneBrowse, asked, queue, job, answer>>
      /\ worker = "add" /\ worker' = "stale"
  BY WorkerQuietKeeps DEF AddResources
<1>2. ASSUME NEW i \in Ids, listed'[i] = job
      PROVE  i \in stored' \cup answer
  <2>1. i \in answer \/ listed[i] = job
    BY <1>2 DEF AddResources
  <2>2. listed[i] = job => i \in stored
    BY <1>1 DEF BrowseInv, Marked
  <2> QED
    BY <2>1, <2>2 DEF AddResources
<1>3. Marked'
  BY <1>1, <1>2 DEF Marked
<1> QED
  BY <1>1, <1>3 DEF BrowseInv, JobsAreNodes, AskedInEitherOrder

LEMMA StaleKeeps ==
  ASSUME BrowseInv, RemoveStaleResources
  PROVE  BrowseInv'
<1>1. UNCHANGED <<instance, mode, resolve, doneBrowse, asked, queue, job>> /\ worker' = "signal"
  BY WorkerQuietKeeps DEF RemoveStaleResources
<1> QED
  BY <1>1 DEF BrowseInv, JobsAreNodes, Marked, AskedInEitherOrder

LEMMA BrowsedKeeps ==
  ASSUME BrowseInv, NodeBrowsed
  PROVE  BrowseInv'
<1>1. UNCHANGED <<instance, mode, resolve, doneBrowse, asked, queue>> /\ worker' = "top"
  BY WorkerQuietKeeps DEF NodeBrowsed
<1> QED
  BY <1>1 DEF BrowseInv, JobsAreNodes, Marked, AskedInEitherOrder

LEMMA PoolKeeps ==
  ASSUME BrowseInv, DestroyPool
  PROVE  BrowseInv'
<1>1. UNCHANGED <<instance, mode, resolve, doneBrowse, asked, queue, job, answer, stored, listed>>
      /\ (worker' = worker \/ worker' = "top")
  BY DEF DestroyPool, slotVars, threadVars
<1>2. JobsAreNodes'
  BY <1>1 DEF BrowseInv, JobsAreNodes
<1>3. Marked'
  BY <1>1, MarkedKept DEF BrowseInv
<1> QED
  BY <1>1, <1>2, <1>3 DEF BrowseInv, AskedInEitherOrder

-----------------------------------------------------------------------------
(* The theorems                                                            *)

LEMMA InvNext == BrowseInv /\ [Next]_vars => BrowseInv'
<1> SUFFICES ASSUME BrowseInv, [Next]_vars PROVE BrowseInv'
  OBVIOUS
<1>1. CASE UNCHANGED vars
  BY <1>1 DEF vars, slotVars, threadVars, workerVars, BrowseInv, JobsAreNodes, Marked, AskedInEitherOrder
<1>2. CASE ClientThread
  BY <1>2, QuietKeeps, ResolvedKeeps, RemovedKeeps, BrowseDoneKeeps, DetailsKeeps DEF ClientThread
<1>3. CASE Worker
  BY <1>3, ThreadKeeps, StoreKeeps, GetKeeps, AddKeeps, StaleKeeps, BrowsedKeeps DEF Worker
<1> QED
  BY <1>1, <1>2, <1>3, EventsKeep, QuietKeeps, PoolKeeps DEF Next

LEMMA InvHolds == Spec => []BrowseInv
BY InitInv, InvNext, PTL DEF Spec

(***************************************************************************)
(* Whichever the thread handles first, the query server or the end of the  *)
(* browse, it asks, for any number of nodes.                               *)
(***************************************************************************)
THEOREM QueryServerAsked == Spec => []AskedInEitherOrder
<1>1. BrowseInv => AskedInEitherOrder
  BY DEF BrowseInv
<1> QED
  BY InvHolds, <1>1, PTL

(***************************************************************************)
(* After a browse nothing is listed at the node's address that it did not  *)
(* answer with, for any nodes and resources and any queue of the pool.     *)
(***************************************************************************)
THEOREM StaleOnesGo == Spec => StaleResourcesGo
<1>1. ASSUME BrowseInv, RemoveStaleResources, NEW i \in Ids, listed'[i] = job
      PROVE  i \in answer
  <2>1. job # None
    BY <1>1, ClientThreadsAssumption DEF BrowseInv, JobsAreNodes, RemoveStaleResources
  <2>2. i \notin stored /\ listed[i] = job
    BY <1>1, <2>1 DEF RemoveStaleResources
  <2> QED
    BY <1>1, <2>2 DEF BrowseInv, Marked, RemoveStaleResources
<1>2. BrowseInv /\ [Next]_vars
        => [RemoveStaleResources => \A i \in Ids : listed'[i] = job => i \in answer]_vars
  BY <1>1
<1> QED
  BY InvHolds, <1>2, PTL DEF Spec, StaleResourcesGo
-----------------------------------------------------------------------------
(* Types, and the length of the queue of work                              *)

SlotTypes ==
  /\ signal \in Signals /\ sig \in Signals
  /\ instance \in Nodes \cup {Query, None}
  /\ service \in {"node", "query"}

ThreadTypes ==
  /\ pc \in {"reset", "lock", "wait", "woken", "handle", "details", "ended"}
  /\ bRun \in BOOLEAN /\ mode \in {"p2p", "registry"}
  /\ doneBrowse \in BOOLEAN /\ asked \in BOOLEAN

WorkerTypes ==
  /\ worker \in {"top", "block", "wait", "task", "get", "add", "stale", "signal", "ended"}
  /\ job \in Nodes \cup {None} /\ answer \in SUBSET Ids
  /\ worker \in {"task", "get", "add", "stale"} => job # None
  /\ done \in BOOLEAN /\ stored \in SUBSET Ids

HolderTypes == listed \in [Ids -> Nodes \cup {None}]

(***************************************************************************)
(* A node that the thread has been told of, and has not handed to the      *)
(* worker yet, was announced when there was room for it, and since then    *)
(* nothing has been handed over: a signal is lost at pc = "reset", before  *)
(* the next is waited for.                                                 *)
(***************************************************************************)
Coming ==
  \/ pc \in {"lock", "wait", "woken"} /\ signal = "resolved"
  \/ pc = "handle" /\ sig = "resolved"
  \/ resolve # {}

Room ==
  /\ resolve \in {{}} \cup {{n} : n \in Nodes}
  /\ pc # "details" => resolve = {}
  /\ queue \in Seq(Nodes) /\ Len(queue) <= MaxQueue
  /\ Coming => Len(queue) < MaxQueue

Typed == SlotTypes /\ ThreadTypes /\ WorkerTypes /\ HolderTypes /\ Room

LEMMA InitTyped == Init => Typed
<1> SUFFICES ASSUME Init PROVE Typed
  OBVIOUS
<1>1. SlotTypes /\ ThreadTypes /\ WorkerTypes /\ HolderTypes
  BY DEF Init, SlotTypes, ThreadTypes, WorkerTypes, HolderTypes, Signals
<1>2. Room
  BY ClientThreadsAssumption DEF Init, Room, Coming
<1> QED
  BY <1>1, <1>2 DEF Typed

LEMMA EventsTyped ==
  ASSUME Typed, Events
  PROVE  Typed'
<1> USE DEF Events, SetInstanceResolved, SetInstanceRemoved, SetAllForNow, SetHttpRequestDone, StopRun, Signal
<1>1. /\ UNCHANGED <<sig, mode, resolve, doneBrowse, asked, queue, worker, job, answer, done, stored, listed>>
      /\ pc' = IF pc = "wait" THEN "woken" ELSE pc
  BY DEF threadVars, workerVars
<1>2. SlotTypes'
  BY DEF Typed, SlotTypes, Signals, threadVars
<1>3. ThreadTypes'
  <2>1. bRun' = bRun \/ bRun' = FALSE
    BY DEF threadVars
  <2> QED
    BY <1>1, <2>1 DEF Typed, ThreadTypes
<1>4. WorkerTypes' /\ HolderTypes'
  BY <1>1 DEF Typed, WorkerTypes, HolderTypes
<1>5. Room'
  <2>1. signal' = "resolved" => Len(queue) < MaxQueue
    OBVIOUS
  <2>2. Coming' => Len(queue) < MaxQueue
    BY <1>1, <2>1 DEF Typed, Room, Coming
  <2> QED
    BY <1>1, <2>2 DEF Typed, Room
<1> QED
  BY <1>2, <1>3, <1>4, <1>5 DEF Typed

\* to wait, and to be told
LEMMA WaitTyped ==
  ASSUME Typed, ResetSignal \/ Block \/ Timeout \/ SpuriousWakeup \/ GetSignal
  PROVE  Typed'
<1> USE DEF ResetSignal, Block, Timeout, SpuriousWakeup, GetSignal, Quiet, Loop
<1>1. /\ UNCHANGED <<instance, service, bRun, mode, resolve, doneBrowse, asked, queue, listed>>
      /\ UNCHANGED <<worker, job, answer, done, stored>>
  BY DEF workerVars
<1>2. SlotTypes'
  BY <1>1 DEF Typed, SlotTypes, Signals
<1>3. ThreadTypes'
  <2>1. pc' \in {"lock", "wait", "woken", "handle", "reset", "ended"}
    OBVIOUS
  <2> QED
    BY <1>1, <2>1 DEF Typed, ThreadTypes
<1>4. WorkerTypes' /\ HolderTypes'
  BY <1>1 DEF Typed, WorkerTypes, HolderTypes
<1>5. Room'
  BY <1>1 DEF Typed, Room, Coming
<1> QED
  BY <1>2, <1>3, <1>4, <1>5 DEF Typed

\* what was signalled is handled
LEMMA HandleTyped ==
  ASSUME Typed, HandleInstanceResolved \/ HandleInstanceRemoved \/ HandleBrowseDone \/ HandleOther
  PROVE  Typed'
<1> USE DEF HandleInstanceResolved, HandleInstanceRemoved, HandleBrowseDone, HandleOther, QueryServerFound, Quiet
<1>1. /\ UNCHANGED <<signal, service, bRun, queue>> /\ UNCHANGED <<worker, job, answer, done, stored>>
      /\ pc = "handle" /\ pc' = "details" /\ sig' = "none" /\ instance' \in {instance, None}
  BY DEF workerVars
<1>2. SlotTypes'
  BY <1>1 DEF Typed, SlotTypes, Signals
<1>3. ThreadTypes'
  <2>1. mode' \in {mode, "registry"}
    OBVIOUS
  <2>2. doneBrowse' \in BOOLEAN
    BY DEF Typed, ThreadTypes
  <2>3. asked' \in BOOLEAN
    BY DEF Typed, ThreadTypes
  <2> QED
    BY <1>1, <2>1, <2>2, <2>3 DEF Typed, ThreadTypes
<1>4. WorkerTypes'
  BY <1>1 DEF Typed, WorkerTypes
<1>5. HolderTypes'
  BY DEF Typed, HolderTypes
<1>6. Room'
  <2>1. resolve = {}
    BY <1>1 DEF Typed, Room
  <2>2. resolve' = {} \/ (sig = "resolved" /\ \E n \in Nodes : resolve' = {n})
    BY <2>1
  <2> QED
    BY <1>1, <2>2 DEF Typed, Room, Coming
<1> QED
  BY <1>2, <1>3, <1>4, <1>5, <1>6 DEF Typed

LEMMA DetailsTyped ==
  ASSUME Typed, GetNodeDetails
  PROVE  Typed'
<1> USE DEF GetNodeDetails, Loop
<1>1. /\ UNCHANGED <<signal, instance, service, sig, bRun, mode, doneBrowse, asked, listed>>
      /\ UNCHANGED <<job, answer, done, stored>>
      /\ pc' \in {"reset", "ended"}
  BY DEF slotVars
<1>2. SlotTypes' /\ HolderTypes'
  BY <1>1 DEF Typed, SlotTypes, HolderTypes
<1>3. ThreadTypes'
  BY <1>1 DEF Typed, ThreadTypes
<1>4. WorkerTypes'
  <2>1. worker' = worker \/ worker' = "top"
    OBVIOUS
  <2> QED
    BY <1>1, <2>1 DEF Typed, WorkerTypes
<1>5. Room'
  <2>1. CASE resolve = {} /\ queue' = queue /\ resolve' = resolve
    BY <1>1, <2>1 DEF Typed, Room, Coming
  <2>2. ASSUME NEW n \in resolve, queue' = Append(queue, n), resolve' = resolve \ {n}
        PROVE  Room'
    <3>1. n \in Nodes /\ resolve' = {}
      BY <2>2 DEF Typed, Room
    <3>2. Len(queue) < MaxQueue /\ queue \in Seq(Nodes)
      BY DEF Typed, Room, Coming
    <3>3. queue' \in Seq(Nodes) /\ Len(queue') = Len(queue) + 1
      BY <2>2, <3>1, <3>2
    <3>4. Len(queue') <= MaxQueue
      BY <3>2, <3>3, ClientThreadsAssumption DEF ClientThreadsAssumption
    <3> QED
      BY <1>1, <3>1, <3>3, <3>4 DEF Room, Coming
  <2> QED
    BY <2>1, <2>2
<1> QED
  BY <1>2, <1>3, <1>4, <1>5 DEF Typed

LEMMA WorkerTyped ==
  ASSUME Typed, Worker
  PROVE  Typed'
<1> USE DEF Worker, WorkerThread, WorkerBlock, StoreResources, Get, AddResources, RemoveStaleResources, NodeBrowsed
<1>1. UNCHANGED <<instance, service, sig, bRun, mode, resolve, doneBrowse, asked>>
  BY DEF WorkerQuiet, threadVars
<1>2. \/ UNCHANGED <<signal, pc>>
      \/ signal' = "other" /\ pc' = IF pc = "wait" THEN "woken" ELSE pc
  BY DEF Signal
<1>3. SlotTypes' /\ ThreadTypes'
  BY <1>1, <1>2 DEF Typed, SlotTypes, ThreadTypes, Signals
<1>4. \/ queue' = queue
      \/ /\ queue # <<>> /\ queue' = Tail(queue)
         /\ job' = Head(queue) /\ worker' = "task" /\ UNCHANGED <<answer, done, stored, listed>>
  OBVIOUS
<1>5. queue' \in Seq(Nodes) /\ Len(queue') <= Len(queue)
  BY <1>4 DEF Typed, Room
<1>6. Room'
  <2>1. Coming' => Coming
    BY <1>1, <1>2 DEF Coming
  <2> QED
    BY <1>1, <1>2, <1>5, <2>1, ClientThreadsAssumption DEF Typed, Room, ClientThreadsAssumption
<1>7. WorkerTypes'
  <2>1. CASE WorkerThread
    <3>1. queue # <<>> => Head(queue) \in Nodes
      BY DEF Typed, Room
    <3> QED
      BY <2>1, <3>1, ClientThreadsAssumption DEF Typed, WorkerTypes, ClientThreadsAssumption
  <2>2. CASE WorkerBlock \/ NodeBrowsed
    BY <2>2 DEF Typed, WorkerTypes
  <2>3. CASE StoreResources
    BY <2>3 DEF Typed, WorkerTypes, At
  <2>4. CASE Get \/ AddResources \/ RemoveStaleResources
    BY <2>4 DEF Typed, WorkerTypes
  <2> QED
    BY <2>1, <2>2, <2>3, <2>4
<1>8. HolderTypes'
  <2>1. \A i \in Ids : listed[i] \in Nodes \cup {None} /\ job \in Nodes \cup {None}
    BY DEF Typed, HolderTypes, WorkerTypes
  <2>2. \/ listed' = listed
        \/ listed' = [i \in Ids |-> IF i \in answer /\ listed[i] = None THEN job ELSE listed[i]]
        \/ listed' = [i \in Ids |-> IF i \in stored THEN None ELSE listed[i]]
    OBVIOUS
  <2> QED
    BY <2>1, <2>2 DEF Typed, HolderTypes
<1> QED
  BY <1>3, <1>6, <1>7, <1>8 DEF Typed

LEMMA PoolTyped ==
  ASSUME Typed, DestroyPool
  PROVE  Typed'
<1>1. UNCHANGED <<slotVars, pc, threadVars, queue, job, answer, stored, listed>> /\ done' = TRUE
      /\ (worker' = worker \/ worker' = "top")
  BY DEF DestroyPool
<1>2. UNCHANGED <<signal, instance, service, sig, bRun, mode, resolve, doneBrowse, asked>>
  BY <1>1 DEF slotVars, threadVars
<1>3. SlotTypes' /\ ThreadTypes' /\ HolderTypes'
  BY <1>1, <1>2 DEF Typed, SlotTypes, ThreadTypes, HolderTypes
<1>4. WorkerTypes'
  BY <1>1 DEF Typed, WorkerTypes
<1>5. Room'
  BY <1>1, <1>2 DEF Typed, Room, Coming
<1> QED
  BY <1>3, <1>4, <1>5 DEF Typed

LEMMA TypedNext == Typed /\ [Next]_vars => Typed'
<1> SUFFICES ASSUME Typed, [Next]_vars PROVE Typed'
  OBVIOUS
<1>1. CASE UNCHANGED vars
  BY <1>1 DEF vars, slotVars, threadVars, workerVars, Typed, SlotTypes, ThreadTypes, WorkerTypes,
              HolderTypes, Room, Coming
<1>2. CASE ClientThread
  BY <1>2, WaitTyped, HandleTyped, DetailsTyped DEF ClientThread
<1> QED
  BY <1>1, <1>2, EventsTyped, WaitTyped, WorkerTyped, PoolTyped DEF Next

(***************************************************************************)
(* Types, and that the worker's queue is never longer than MaxQueue,       *)
(* although announcements only stop when it is as long: for any number of  *)
(* nodes, which the slot hands over one at a time.                         *)
(***************************************************************************)
THEOREM TypeCorrect == Spec => []TypeOK
<1>1. Typed => TypeOK
  <2> SUFFICES ASSUME Typed PROVE TypeOK
    OBVIOUS
  <2>1. queue \in [1 .. Len(queue) -> Nodes] /\ Len(queue) \in 0 .. MaxQueue
    BY ClientThreadsAssumption DEF Typed, Room, ClientThreadsAssumption
  <2>2. queue \in BoundedSeq(Nodes, MaxQueue)
    BY <2>1 DEF BoundedSeq, SeqOf
  <2> QED
    BY <2>2 DEF TypeOK, Typed, SlotTypes, ThreadTypes, WorkerTypes, HolderTypes, Room
<1> QED
  BY <1>1, InitTyped, TypedNext, PTL DEF Spec
=============================================================================
