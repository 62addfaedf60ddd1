------------------------------ MODULE Registry ------------------------------
(***************************************************************************)
(* The registry: RegistryServer (common/src/registryserver.cpp) answers    *)
(* HTTP requests on a pool of threads, RegistryApi (registryapi.cpp) looks *)
(* after the resources in RegistryMemory (registrymemory.cpp), and a thread*)
(* collects the nodes that no longer send heartbeats.                      *)
(*                                                                         *)
(* m_mutex of RegistryApi protects some of the accesses to the resources:  *)
(* each critical section is one step, and so is each access without it.    *)
(* The body and the path of a request are members of the one server, not   *)
(* of the request: requests on different threads share them, without a     *)
(* lock.  Two unsynchronised accesses, or an index past the end of a path  *)
(* that has become shorter, are undefined: the handler goes on with        *)
(* anything, or the process ends.                                          *)
(***************************************************************************)
EXTENDS Naturals

CONSTANTS
  Handlers,   \* the threads of the HTTP server
  Nodes, Devices, Others,   \* ids of nodes, of devices, and of the rest
  Bodies,     \* what nodes post: an id, and the id it names as the parent
  Requests,   \* the paths that requests are sent to
  Expiry,     \* seconds without heartbeat that a node is allowed
  None

Resources == Nodes \cup Devices \cup Others

Expired == Expiry + 1

\* what a path can ask for; "bad" stands for all that is answered 405, and is
\* the empty path too
Paths ==
  [op : {"resources", "bad"}, id : {None}] \cup [op : {"health"}, id : Nodes]
    \cup [op : {"resource"}, id : Resources]

ASSUME RegistryAssumption ==
  /\ Nodes \cap (Devices \cup Others) = {} /\ Devices \cap Others = {}
  /\ None \notin Resources
  /\ Bodies \subseteq [id : Resources, parent : Resources \cup {None}]
  /\ None \notin Bodies
  /\ Requests \subseteq Paths
  /\ Expiry \in Nat

VARIABLES
  holders,    \* m_mRegistryHolder: each resource in it, with its parent's id
  age,        \* seconds since each node's m_nHeartbeat, up to Expiry + 1
  sPut,       \* m_sPut: the first body in it
  path,       \* m_vPath: what the last path that was split asks for
  pc, body,   \* each handler: where it is, and its copy of the body
  bRunning,   \* m_bRunning
  stop,       \* where the main thread is in Stop(); in "server" it has m_mutex;
              \* "crashed": the process has ended
  collector   \* the garbage thread

lifeVars == <<bRunning, stop, collector>>
vars == <<holders, age, sPut, path, pc, body, lifeVars>>

Empty == [op |-> "bad", id |-> None]

\* where a handler splits its path, tests the path, and indexes it
Splits == {"splitPost", "splitGet", "splitDelete"}
Tests  == {"post", "get", "delete"}
Uses   == {"health", "read", "remove"}

TypeOK ==
  /\ holders \in SUBSET Bodies
  /\ \A b, c \in holders : b.id = c.id => b = c
  /\ age \in [Nodes -> 0 .. Expired]
  /\ sPut \in Bodies \cup {None}
  /\ path \in Paths
  /\ pc \in [Handlers -> {"idle", "upload", "find", "parent", "insert", "beat", "reset"}
                            \cup Splits \cup Tests \cup Uses]
  /\ body \in [Handlers -> Bodies \cup {None}]
  /\ \A h \in Handlers :
       /\ pc[h] \in {"find", "parent", "insert", "beat"} => body[h] # None
       /\ pc[h] = "beat" => body[h].id \in Nodes
       /\ pc[h] = "parent" => body[h].id \notin Nodes
  /\ bRunning \in BOOLEAN
  /\ stop \in {"no", "server", "yes", "crashed"}
  /\ collector \in {"check", "collect", "ended"}

\* Start(): the server and the garbage thread run
Init ==
  /\ holders = {}
  /\ age = [n \in Nodes |-> Expired]
  /\ sPut = None /\ path = Empty
  /\ pc = [h \in Handlers |-> "idle"]
  /\ body = [h \in Handlers |-> None]
  /\ bRunning = TRUE /\ stop = "no" /\ collector = "check"

Alive == stop # "crashed"
MutexFree == stop \notin {"server", "crashed"}

\* the ids in the registry
Ids == {b.id : b \in holders}

Goto(h, where) == pc' = [pc EXCEPT ![h] = where] /\ UNCHANGED body

\* PostJson() returns
Answer(h) ==
  pc' = [pc EXCEPT ![h] = "reset"] /\ body' = [body EXCEPT ![h] = None]

-----------------------------------------------------------------------------
(* RegistryServer                                                          *)

\* AnswerToConnection(): a POST with a body, in one piece, or without
AddPutData(h, b) ==
  /\ pc[h] = "idle" /\ stop = "no"
  /\ sPut' = IF sPut = None THEN b ELSE sPut
  /\ Goto(h, "upload")
  /\ UNCHANGED <<holders, age, path, lifeVars>>

\* GetPutData(); PostJson() splits the path, which it clears first
GetPutData(h) ==
  /\ pc[h] = "upload" /\ Alive
  /\ body' = [body EXCEPT ![h] = sPut]
  /\ path' = Empty
  /\ pc' = [pc EXCEPT ![h] = "splitPost"]
  /\ UNCHANGED <<holders, age, sPut, lifeVars>>

\* and so do DeleteJson() and GetJson()
Request(h, split) ==
  /\ pc[h] = "idle" /\ stop = "no"
  /\ path' = Empty
  /\ Goto(h, split)
  /\ UNCHANGED <<holders, age, sPut, lifeVars>>

SplitString(h, p) ==
  /\ pc[h] \in Splits /\ Alive
  /\ path' = p
  /\ Goto(h, CASE pc[h] = "splitPost" -> "post"
                [] pc[h] = "splitGet"  -> "get"
                [] OTHER               -> "delete")
  /\ UNCHANGED <<holders, age, sPut, lifeVars>>

\* what a handler takes the path for: anything while another splits it
Seen(h) == IF \E k \in Handlers \ {h} : pc[k] \in Splits THEN Paths ELSE {path}

\* the id at RESOURCE_ID or HEALTH_ID: anything past the end of the path
IdsAt(p) ==
  IF p.op \in {"resource", "health"} THEN {p.id} ELSE Resources \cup {None}

\* the rest of PostJson(), on whatever path is there by now, and the checks of
\* PostJsonNmosResource(), whose reader takes the first of several documents
Dispatch(h) ==
  /\ pc[h] = "post" /\ Alive
  /\ \E p \in Seen(h) :
       \/ p.op = "resources" /\ body[h] # None /\ Goto(h, "find")
       \/ p.op = "health" /\ Goto(h, "health")
       \/ p.op # "health" /\ Answer(h)   \* 405; or 400, ill defined
  /\ UNCHANGED <<holders, age, sPut, path, lifeVars>>

\* the argument is a reference into the path, looked at with m_mutex
PostJsonNmosHealth(h) ==
  /\ pc[h] = "health" /\ MutexFree
  /\ \E p \in Seen(h) : \E r \in IdsAt(p) :
       age' = IF r \in Nodes \cap Ids THEN [age EXCEPT ![r] = 0] ELSE age
  /\ Answer(h)
  /\ UNCHANGED <<holders, sPut, path, lifeVars>>

\* also what other requests have received so far
ResetPutData(h) ==
  /\ pc[h] = "reset" /\ Alive
  /\ sPut' = None
  /\ Goto(h, "idle")
  /\ UNCHANGED <<holders, age, path, lifeVars>>

\* the tests of DeleteJson() and GetJson(): 405, or 404, for another path
DeleteJson(h) ==
  /\ pc[h] = "delete" /\ Alive
  /\ \E p \in Seen(h) : Goto(h, IF p.op = "resource" THEN "remove" ELSE "idle")
  /\ UNCHANGED <<holders, age, sPut, path, lifeVars>>

GetJson(h) ==
  /\ pc[h] = "get" /\ Alive
  /\ \E p \in Seen(h) : Goto(h, IF p.op = "resource" THEN "read" ELSE "idle")
  /\ UNCHANGED <<holders, age, sPut, path, lifeVars>>

\* again by reference: what the path names by now; what it is the parent of
\* stays.  "nodes", of a heartbeat's path, is not a type
DeleteResource(h) ==
  /\ pc[h] = "remove" /\ MutexFree
  /\ \E p \in Seen(h) : \E r \in IdsAt(p) :
       holders' = {b \in holders : b.id # r \/ p.op = "health"}
  /\ Goto(h, "idle")
  /\ UNCHANGED <<age, sPut, path, lifeVars>>

GetResource(h) ==
  /\ pc[h] = "read" /\ MutexFree
  /\ Goto(h, "idle")
  /\ UNCHANGED <<holders, age, sPut, path, lifeVars>>

-----------------------------------------------------------------------------
(* RegistryApi::AddUpdateResource()                                        *)

\* UpdateFromJson() of the object, which may be removed meanwhile, takes the
\* parent from the JSON, whatever is registered: 200; for bad JSON 404, after
\* the parent or before it
UpdateNmosResource(h) ==
  /\ \E b \in {c \in holders : c.id = body[h].id} :
       holders' \in {holders, (holders \ {b}) \cup {body[h]}}
  /\ Answer(h)

\* without m_mutex
FindNmosResource(h) ==
  /\ pc[h] = "find" /\ Alive
  /\ \/ body[h].id \in Ids /\ UpdateNmosResource(h)
     \/ body[h].id \in Nodes \ Ids /\ Goto(h, "insert") /\ UNCHANGED holders
     \/ body[h].id \notin Nodes \cup Ids /\ Goto(h, "parent") /\ UNCHANGED holders
  /\ UNCHANGED <<age, sPut, path, lifeVars>>

\* the type a parent is looked for in
ParentKind(r) == IF r \in Devices THEN Nodes ELSE Devices

\* bad JSON: 404; no parent: 400
FindParent(h) ==
  /\ pc[h] = "parent" /\ MutexFree
  /\ \/ body[h].parent \in Ids \cap ParentKind(body[h].id) /\ Goto(h, "insert")
     \/ Answer(h)
  /\ UNCHANGED <<holders, age, sPut, path, lifeVars>>

\* insert() leaves a resource alone that another request has added meanwhile
Inserted(b) == IF b.id \in Ids THEN holders ELSE holders \cup {b}

\* mutant of AddResource: looks for the parent of a node too
AddResourceWithParent(h) ==
  /\ pc[h] = "insert" /\ MutexFree
  /\ holders' = Inserted(body[h])
  /\ (body[h].id \in Nodes /\ Goto(h, "parent")) \/ (body[h].id \notin Nodes /\ Answer(h))
  /\ UNCHANGED <<age, sPut, path, lifeVars>>

\* m_nHeartbeat of a new node is not initialised
AddResource(h) ==
  /\ pc[h] = "insert" /\ MutexFree
  /\ holders' = Inserted(body[h])
  /\ LET r == body[h].id
     IN  IF r \in Nodes \ Ids
         THEN /\ \E a \in {0, Expired} : age' = [age EXCEPT ![r] = a]
              /\ Goto(h, "beat")
         ELSE UNCHANGED age /\ Answer(h)
  /\ UNCHANGED <<sPut, path, lifeVars>>

\* the first heartbeat, without m_mutex; the node may be gone
FirstHeartbeat(h) ==
  /\ pc[h] = "beat" /\ Alive
  /\ age' = IF body[h].id \in Ids THEN [age EXCEPT ![body[h].id] = 0] ELSE age
  /\ Answer(h)
  /\ UNCHANGED <<holders, sPut, path, lifeVars>>

-----------------------------------------------------------------------------
(* The garbage thread, Stop(), and the time                                *)

\* and sleeps
Running ==
  /\ collector = "check" /\ MutexFree
  /\ collector' = IF bRunning THEN "collect" ELSE "ended"
  /\ UNCHANGED <<holders, age, sPut, path, pc, body, bRunning, stop>>

\* mutant of GarbageCheck: the children of the nodes only
GarbageCheckNodes(kind, parents) ==
  {b.id : b \in {c \in holders : c.id \in kind \cap Devices /\ c.parent \in parents}}

\* what is in the registry below these
GarbageCheck(kind, parents) ==
  {b.id : b \in {c \in holders : c.id \in kind /\ c.parent \in parents}}

\* the nodes without a heartbeat, their devices, and what is on these
Garbage ==
  LET nodes   == {n \in Ids \cap Nodes : age[n] > Expiry}
      devices == GarbageCheck(Devices, nodes)
  IN  nodes \cup devices \cup GarbageCheck(Others, devices)

\* mutant of GarbageCollection: once, not for as long as the registry runs
GarbageCollectionOnce ==
  /\ collector = "collect" /\ MutexFree
  /\ holders' = {b \in holders : b.id \notin Garbage}
  /\ collector' = "ended"
  /\ UNCHANGED <<age, sPut, path, pc, body, bRunning, stop>>

GarbageCollection ==
  /\ collector = "collect" /\ MutexFree
  /\ holders' = {b \in holders : b.id \notin Garbage}
  /\ collector' = "check"
  /\ UNCHANGED <<age, sPut, path, pc, body, bRunning, stop>>

Tick ==
  /\ Alive
  /\ age' = [n \in Nodes |-> IF age[n] = Expired THEN Expired ELSE age[n] + 1]
  /\ UNCHANGED <<holders, sPut, path, pc, body, lifeVars>>

\* Stop() takes m_mutex and tells the server to stop: no more requests
Stop ==
  /\ stop = "no"
  /\ stop' = "server"
  /\ UNCHANGED <<holders, age, sPut, path, pc, body, bRunning, collector>>

\* mutant of StopServer: does not set m_bRunning
StopServerOnly ==
  /\ stop = "server" /\ \A h \in Handlers : pc[h] = "idle"
  /\ stop' = "yes"
  /\ UNCHANGED <<holders, age, sPut, path, pc, body, bRunning, collector>>

\* MHD_stop_daemon() has waited for its threads
StopServer ==
  /\ stop = "server" /\ \A h \in Handlers : pc[h] = "idle"
  /\ stop' = "yes" /\ bRunning' = FALSE
  /\ UNCHANGED <<holders, age, sPut, path, pc, body, collector>>

-----------------------------------------------------------------------------
(* Undefined behaviour                                                     *)

\* another handler is about to touch this one's body, path or resources
Races(h) ==
  \E k \in Handlers \ {h} :
    \/ pc[h] \in Splits \cup Tests \cup Uses /\ pc[k] \in Splits
    \/ pc[h] \in {"upload", "reset"} /\ pc[k] \in {"idle", "reset"}
    \/ pc[h] \in {"find", "beat"} /\ pc[k] \in {"find", "insert", "remove", "read"}

\* the process ends, and with it all that it holds
Undefined(h) ==
  /\ Alive
  /\ \/ Races(h)
     \/ pc[h] \in Uses /\ path.op \notin {"resource", "health"}
     \/ pc[h] \in {"find", "beat"} /\ collector = "collect"
  /\ stop' = "crashed"
  /\ holders' = {} /\ sPut' = None /\ path' = Empty
  /\ pc' = [k \in Handlers |-> "idle"] /\ body' = [k \in Handlers |-> None]
  /\ UNCHANGED <<age, bRunning, collector>>

-----------------------------------------------------------------------------
Arrive(h) ==
  \/ \E b \in Bodies \cup {None} : AddPutData(h, b)
  \/ \E split \in {"splitGet", "splitDelete"} : Request(h, split)

Continue(h) ==
  \/ GetPutData(h) \/ \E p \in Requests : SplitString(h, p)
  \/ Dispatch(h) \/ PostJsonNmosHealth(h) \/ ResetPutData(h)
  \/ DeleteJson(h) \/ DeleteResource(h) \/ GetJson(h) \/ GetResource(h)
  \/ FindNmosResource(h) \/ FindParent(h)
  \/ AddResource(h) \/ FirstHeartbeat(h)

GarbageThread == Running \/ GarbageCollection

Next ==
  \/ \E h \in Handlers : Arrive(h) \/ Continue(h) \/ Undefined(h)
  \/ GarbageThread \/ Stop \/ StopServer \/ Tick

Spec == Init /\ [][Next]_vars

(***************************************************************************)
(* Threads that can run do, time goes on; nobody has to send a request or  *)
(* to call Stop(), and what is undefined need not end the process.         *)
(***************************************************************************)
Fairness ==
  /\ \A h \in Handlers : WF_vars(Continue(h))
  /\ WF_vars(GarbageThread) /\ WF_vars(StopServer) /\ WF_vars(Tick)

FairSpec == Spec /\ Fairness

-----------------------------------------------------------------------------
(* Properties                                                              *)

HasParent(r) ==
  \E b \in holders : b.id = r /\ b.parent \in Ids \cap ParentKind(r)

Orphan(r) == r \in Ids \ Nodes /\ ~HasParent(r)

(***************************************************************************)
(* The collection of a node takes its devices and everything on them: what *)
(* has a parent loses it only by a DELETE of the parent, or by an update of*)
(* its own that names another; or it is added when the parent has gone.    *)
(***************************************************************************)
CollectsWholeTrees ==
  [][\A r \in Ids \ Nodes :
       Orphan(r)' /\ ~Orphan(r)
         => \E h \in Handlers :
              \/ pc[h] = "remove" /\ pc'[h] = "idle"
              \/ pc[h] = "find" /\ pc'[h] = "reset" /\ body[h].id = r]_vars

(***************************************************************************)
(* registryapi.h, GarbageCollection(): "Checks all nodes to see if they are*)
(* still heartbeating and removes those that aren't".  A node does not stay*)
(* without a heartbeat, whatever requests overlap with the collections.    *)
(***************************************************************************)
SilentNodesGo ==
  \A n \in Nodes : []<>(n \notin Ids \/ age[n] <= Expiry \/ stop # "no")

\* the handler will not lock m_mutex again before it answers
PastTheMutex(h) == pc[h] \in {"idle", "beat", "reset"}

(***************************************************************************)
(* Stop() holds m_mutex while it waits for the server's threads.  It comes *)
(* back, and the garbage thread ends, if no request in progress needs the  *)
(* mutex any more; otherwise it waits for ever.  (Two handlers that clear  *)
(* m_sPut at the same time may end the process first.)                     *)
(***************************************************************************)
StopReturns ==
  (stop = "server" /\ \A h \in Handlers : PastTheMutex(h))
    ~> (collector = "ended" \/ ~Alive)
=============================================================================
