--------------------------- MODULE RegistryProofs ---------------------------
(***************************************************************************)
(* Proofs about Registry, for any number of handlers, nodes and resources, *)
(* and whatever parents the requests name: its types, and that a collection*)
(* takes whole trees.                                                      *)
(***************************************************************************)
EXTENDS Registry, TLAPS

USE RegistryAssumption DEF RegistryAssumption

-----------------------------------------------------------------------------
(* Types                                                                   *)

Places == {"idle", "upload", "find", "parent", "insert", "beat", "reset",
           "splitPost", "splitGet", "splitDelete", "post", "get", "delete",
           "health", "read", "remove"}

\* what a handler's place says about its body
BodyFits(where, b) ==
  /\ where \in {"find", "parent", "insert", "beat"} => b # None
  /\ where = "beat" => b.id \in Nodes
  /\ where = "parent" => b.id \notin Nodes

\* TypeOK in four parts, which the solvers handle one at a time
HoldersOK ==
  /\ holders \in SUBSET Bodies
  /\ \A b, c \in holders : b.id = c.id => b = c

Shared ==
  /\ age \in [Nodes -> 0 .. Expired]
  /\ sPut \in Bodies \cup {None}
  /\ path \in Paths

HandlersOK ==
  /\ pc \in [Handlers -> Places]
  /\ body \in [Handlers -> Bodies \cup {None}]
  /\ \A h \in Handlers : BodyFits(pc[h], body[h])

Lives ==
  /\ bRunning \in BOOLEAN
  /\ stop \in {"no", "server", "yes", "crashed"}
  /\ collector \in {"check", "collect", "ended"}

LEMMA TypeOKSplit ==
  /\ TypeOK <=> HoldersOK /\ Shared /\ HandlersOK /\ Lives
  /\ TypeOK' <=> HoldersOK' /\ Shared' /\ HandlersOK' /\ Lives'
<1>1. Places = {"idle", "upload", "find", "parent", "insert", "beat", "reset"}
                 \cup Splits \cup Tests \cup Uses
  BY DEF Places, Splits, Tests, Uses
<1> QED
  BY <1>1 DEF TypeOK, HoldersOK, Shared, HandlersOK, Lives, BodyFits

LEMMA EmptyTyped == Empty \in Paths
BY DEF Empty, Paths

LEMMA BodiesTyped ==
  ASSUME NEW b \in Bodies
  PROVE  b.id \in Resources /\ b # None
OBVIOUS

\* a handler goes somewhere its body fits
LEMMA GotoTyped ==
  ASSUME HandlersOK, NEW h \in Handlers, NEW where \in Places, Goto(h, where),
         BodyFits(where, body[h])
  PROVE  HandlersOK'
BY DEF HandlersOK, Goto

LEMMA AnswerTyped ==
  ASSUME HandlersOK, NEW h \in Handlers, Answer(h)
  PROVE  HandlersOK'
BY DEF HandlersOK, Answer, Places, BodyFits

\* anything fits here
Careless == Places \ {"find", "parent", "insert", "beat"}

LEMMA CarelessTyped ==
  ASSUME HandlersOK, NEW h \in Handlers, NEW where \in Careless, Goto(h, where)
  PROVE  HandlersOK'
<1>1. where \in Places /\ BodyFits(where, body[h])
  BY DEF Careless, BodyFits
<1> QED
  BY <1>1, GotoTyped

LEMMA ArriveTyped ==
  ASSUME TypeOK, NEW h \in Handlers, Arrive(h)
  PROVE  TypeOK'
<1> USE TypeOKSplit
<1>1. ASSUME NEW b \in Bodies \cup {None}, AddPutData(h, b) PROVE TypeOK'
  <2>1. HandlersOK'
    BY <1>1, CarelessTyped DEF AddPutData, Careless, Places
  <2>2. HoldersOK' /\ Shared' /\ Lives'
    BY <1>1 DEF AddPutData, HoldersOK, Shared, Lives, lifeVars
  <2> QED
    BY <2>1, <2>2
<1>2. ASSUME NEW m \in {"splitGet", "splitDelete"}, Request(h, m) PROVE TypeOK'
  <2>1. HandlersOK'
    BY <1>2, CarelessTyped DEF Request, Careless, Places
  <2>2. HoldersOK' /\ Shared' /\ Lives'
    BY <1>2, EmptyTyped DEF Request, HoldersOK, Shared, Lives, lifeVars
  <2> QED
    BY <2>1, <2>2
<1> QED
  BY <1>1, <1>2 DEF Arrive

\* the steps of a request that look at the path
LEMMA ServerTyped ==
  ASSUME TypeOK, NEW h \in Handlers,
         \/ GetPutData(h) \/ (\E p \in Requests : SplitString(h, p))
         \/ Dispatch(h) \/ PostJsonNmosHealth(h) \/ ResetPutData(h)
         \/ DeleteJson(h) \/ DeleteResource(h) \/ GetJson(h) \/ GetResource(h)
  PROVE  TypeOK'
<1> USE TypeOKSplit
<1>1. ASSUME GetPutData(h) PROVE TypeOK'
  <2>1. HandlersOK'
    BY <1>1 DEF GetPutData, HandlersOK, Shared, Places, BodyFits
  <2>2. HoldersOK' /\ Shared' /\ Lives'
    BY <1>1, EmptyTyped DEF GetPutData, HoldersOK, Shared, Lives, lifeVars
  <2> QED
    BY <2>1, <2>2
<1>2. ASSUME NEW p \in Requests, SplitString(h, p) PROVE TypeOK'
  <2>1. HandlersOK'
    BY <1>2, CarelessTyped DEF SplitString, Careless, Places
  <2>2. HoldersOK' /\ Shared' /\ Lives'
    BY <1>2 DEF SplitString, HoldersOK, Shared, Lives, lifeVars
  <2> QED
    BY <2>1, <2>2
<1>3. ASSUME Dispatch(h) PROVE TypeOK'
  <2>1. HoldersOK' /\ Shared' /\ Lives'
    BY <1>3 DEF Dispatch, HoldersOK, Shared, Lives, lifeVars
  <2>2. CASE body[h] # None /\ Goto(h, "find")
    BY <2>1, <2>2, GotoTyped DEF Places, BodyFits
  <2>3. CASE Goto(h, "health")
    BY <2>1, <2>3, CarelessTyped DEF Careless, Places
  <2>4. CASE Answer(h)
    BY <2>1, <2>4, AnswerTyped
  <2> QED
    BY <1>3, <2>2, <2>3, <2>4 DEF Dispatch
<1>4. ASSUME PostJsonNmosHealth(h) PROVE TypeOK'
  <2>1. age' \in [Nodes -> 0 .. Expired]
    <3>1. age \in [Nodes -> 0 .. Expired] /\ 0 \in 0 .. Expired
      BY DEF Shared, Expired
    <3>2. \E r : age' = IF r \in Nodes \cap Ids THEN [age EXCEPT ![r] = 0] ELSE age
      BY <1>4 DEF PostJsonNmosHealth
    <3> QED
      BY <3>1, <3>2
  <2>2. HoldersOK' /\ Shared' /\ Lives'
    BY <1>4, <2>1 DEF PostJsonNmosHealth, HoldersOK, Shared, Lives, lifeVars
  <2> QED
    BY <1>4, <2>2, AnswerTyped DEF PostJsonNmosHealth
<1>5. ASSUME ResetPutData(h) PROVE TypeOK'
  <2>1. HoldersOK' /\ Shared' /\ Lives'
    BY <1>5 DEF ResetPutData, HoldersOK, Shared, Lives, lifeVars
  <2> QED
    BY <1>5, <2>1, CarelessTyped DEF ResetPutData, Careless, Places
<1>6. ASSUME DeleteJson(h) \/ GetJson(h) PROVE TypeOK'
  <2>1. HoldersOK' /\ Shared' /\ Lives'
    BY <1>6 DEF DeleteJson, GetJson, HoldersOK, Shared, Lives, lifeVars
  <2>2. \E where \in {"remove", "read", "idle"} : Goto(h, where)
    BY <1>6 DEF DeleteJson, GetJson
  <2> QED
    BY <2>1, <2>2, CarelessTyped DEF Careless, Places
<1>7. ASSUME DeleteResource(h) PROVE TypeOK'
  <2>1. holders' \subseteq holders
    BY <1>7 DEF DeleteResource
  <2>2. HoldersOK' /\ Shared' /\ Lives'
    BY <1>7, <2>1 DEF DeleteResource, HoldersOK, Shared, Lives, lifeVars
  <2> QED
    BY <1>7, <2>2, CarelessTyped DEF DeleteResource, Careless, Places
<1>8. ASSUME GetResource(h) PROVE TypeOK'
  <2>1. HoldersOK' /\ Shared' /\ Lives'
    BY <1>8 DEF GetResource, HoldersOK, Shared, Lives, lifeVars
  <2> QED
    BY <1>8, <2>1, CarelessTyped DEF GetResource, Careless, Places
<1> QED
  BY <1>1, <1>2, <1>3, <1>4, <1>5, <1>6, <1>7, <1>8

\* the steps of AddUpdateResource()
LEMMA ApiTyped ==
  ASSUME TypeOK, NEW h \in Handlers,
         FindNmosResource(h) \/ FindParent(h) \/ AddResource(h) \/ FirstHeartbeat(h)
  PROVE  TypeOK'
<1> USE TypeOKSplit
<1>a. /\ pc \in [Handlers -> Places] /\ body[h] \in Bodies /\ BodyFits(pc[h], body[h])
  <2>1. pc[h] \in {"find", "parent", "insert", "beat"}
    BY DEF FindNmosResource, FindParent, AddResource, FirstHeartbeat
  <2> QED
    BY <2>1 DEF HandlersOK, BodyFits
<1>b. age \in [Nodes -> 0 .. Expired] /\ 0 \in 0 .. Expired /\ Expired \in 0 .. Expired
  BY DEF Shared, Expired
<1>1. ASSUME FindNmosResource(h) PROVE TypeOK'
  <2>1. Shared' /\ Lives'
    BY <1>1 DEF FindNmosResource, Shared, Lives, lifeVars
  <2>2. CASE UpdateNmosResource(h)
    <3>1. PICK b \in holders : /\ b.id = body[h].id
                               /\ holders' \in {holders, (holders \ {b}) \cup {body[h]}}
      BY <2>2 DEF UpdateNmosResource
    <3>2. HoldersOK'
      BY <3>1, <1>a DEF HoldersOK
    <3> QED
      BY <2>1, <2>2, <3>2, AnswerTyped DEF UpdateNmosResource
  <2>3. CASE Goto(h, "insert") /\ UNCHANGED holders
    BY <2>1, <2>3, <1>a, GotoTyped DEF HoldersOK, Places, BodyFits
  <2>4. CASE body[h].id \notin Nodes /\ Goto(h, "parent") /\ UNCHANGED holders
    BY <2>1, <2>4, <1>a, GotoTyped DEF HoldersOK, Places, BodyFits
  <2> QED
    BY <1>1, <2>2, <2>3, <2>4 DEF FindNmosResource
<1>2. ASSUME FindParent(h) PROVE TypeOK'
  <2>1. HoldersOK' /\ Shared' /\ Lives'
    BY <1>2 DEF FindParent, HoldersOK, Shared, Lives, lifeVars
  <2>2. CASE Answer(h)
    BY <2>1, <2>2, AnswerTyped
  <2>3. CASE Goto(h, "insert")
    BY <2>1, <2>3, <1>a, GotoTyped DEF Places, BodyFits
  <2> QED
    BY <1>2, <2>2, <2>3 DEF FindParent
<1>3. ASSUME AddResource(h) PROVE TypeOK'
  <2>1. HoldersOK'
    BY <1>3, <1>a DEF AddResource, Inserted, HoldersOK, Ids
  <2>2. age' \in [Nodes -> 0 .. Expired]
    BY <1>3, <1>b DEF AddResource
  <2>3. Shared' /\ Lives'
    BY <1>3, <2>2 DEF AddResource, Shared, Lives, lifeVars
  <2>4. CASE Answer(h)
    BY <2>1, <2>3, <2>4, AnswerTyped
  <2>5. CASE body[h].id \in Nodes /\ Goto(h, "beat")
    BY <2>1, <2>3, <2>5, <1>a, GotoTyped DEF Places, BodyFits
  <2> QED
    BY <1>3, <2>4, <2>5 DEF AddResource
<1>4. ASSUME FirstHeartbeat(h) PROVE TypeOK'
  <2>1. age' \in [Nodes -> 0 .. Expired]
    BY <1>4, <1>b DEF FirstHeartbeat
  <2>2. HoldersOK' /\ Shared' /\ Lives'
    BY <1>4, <2>1 DEF FirstHeartbeat, HoldersOK, Shared, Lives, lifeVars
  <2> QED
    BY <1>4, <2>2, AnswerTyped DEF FirstHeartbeat
<1> QED
  BY <1>1, <1>2, <1>3, <1>4

LEMMA UndefinedTyped ==
  ASSUME TypeOK, NEW h \in Handlers, Undefined(h)
  PROVE  TypeOK'
<1>1. HandlersOK'
  BY DEF Undefined, HandlersOK, Places, BodyFits
<1>2. HoldersOK' /\ Shared' /\ Lives'
  BY EmptyTyped, TypeOKSplit DEF Undefined, HoldersOK, Shared, Lives
<1> QED
  BY <1>1, <1>2, TypeOKSplit

LEMMA NextTypeOK == TypeOK /\ [Next]_vars => TypeOK'
<1> SUFFICES ASSUME TypeOK, [Next]_vars PROVE TypeOK'
  OBVIOUS
<1> USE TypeOKSplit
<1>1. ASSUME NEW h \in Handlers, Arrive(h) \/ Continue(h) \/ Undefined(h) PROVE TypeOK'
  BY <1>1, ArriveTyped, ServerTyped, ApiTyped, UndefinedTyped DEF Continue
\* the other threads leave the handlers alone, and add nothing
<1>a. ASSUME UNCHANGED <<pc, body>>, holders' \subseteq holders, Shared', Lives' PROVE TypeOK'
  BY <1>a DEF HandlersOK, HoldersOK
<1>2. CASE Running
  BY <1>2, <1>a DEF Running, Shared, Lives
<1>3. CASE GarbageCollection
  BY <1>3, <1>a DEF GarbageCollection, Shared, Lives
<1>4. CASE Stop
  BY <1>4, <1>a DEF Stop, Shared, Lives
<1>5. CASE StopServer
  BY <1>5, <1>a DEF StopServer, Shared, Lives
<1>6. CASE Tick
  <2>1. age' \in [Nodes -> 0 .. Expired]
    BY <1>6 DEF Shared, Expired, Tick, RegistryAssumption
  <2>2. UNCHANGED <<pc, body, holders>> /\ Shared' /\ Lives'
    BY <1>6, <2>1 DEF Tick, Shared, Lives, lifeVars
  <2> QED
    BY <2>2, <1>a
<1>7. CASE UNCHANGED vars
  BY <1>7, <1>a DEF vars, lifeVars, Shared, Lives
<1> QED
  BY <1>1, <1>2, <1>3, <1>4, <1>5, <1>6, <1>7 DEF Next, GarbageThread

LEMMA InitTypeOK == Init => TypeOK
<1> SUFFICES ASSUME Init PROVE TypeOK
  OBVIOUS
<1>1. HoldersOK /\ Shared
  BY EmptyTyped DEF Init, HoldersOK, Shared, Expired
<1>2. HandlersOK
  BY DEF Init, HandlersOK, Places, BodyFits
<1>3. Lives
  BY DEF Init, Lives
<1> QED
  BY <1>1, <1>2, <1>3, TypeOKSplit

(***************************************************************************)
(* Types, that a resource is in the registry once, and that a handler's    *)
(* body fits its place, however the requests of the other handlers change  *)
(* what they share.                                                        *)
(***************************************************************************)
THEOREM TypeCorrect == Spec => []TypeOK
BY InitTypeOK, NextTypeOK, PTL DEF Spec

-----------------------------------------------------------------------------
(* Collections                                                             *)

\* a resource that is there, with its parent, loses the parent in this step only
\* if the step is a DELETE or an update of its own
WholeTrees ==
  \A r \in Ids \ Nodes :
    Orphan(r)' /\ ~Orphan(r)
      => \E h \in Handlers :
           \/ pc[h] = "remove" /\ pc'[h] = "idle"
           \/ pc[h] = "find" /\ pc'[h] = "reset" /\ body[h].id = r

\* nothing goes and nothing changes its parent: the orphans were orphans
LEMMA MoreWhole ==
  ASSUME holders \subseteq holders'
  PROVE  WholeTrees
<1> SUFFICES ASSUME NEW r \in Ids \ Nodes, HasParent(r) PROVE HasParent(r)'
  BY DEF WholeTrees, Orphan
<1>1. PICK b \in holders : b.id = r /\ b.parent \in Ids \cap ParentKind(r)
  BY DEF HasParent
<1>2. b \in holders' /\ Ids \subseteq Ids' /\ ParentKind(r)' = ParentKind(r)
  BY <1>1 DEF Ids, ParentKind
<1> QED
  BY <1>1, <1>2 DEF HasParent

\* the parent of what a collection leaves is not collected
LEMMA CollectionWhole ==
  ASSUME TypeOK, GarbageCollection,
         NEW r \in Ids \ Nodes, HasParent(r), r \in Ids'
  PROVE  HasParent(r)'
<1> DEFINE nodes   == {n \in Ids \cap Nodes : age[n] > Expiry}
           devices == GarbageCheck(Devices, nodes)
           others  == GarbageCheck(Others, devices)
<1>1. /\ holders' = {b \in holders : b.id \notin Garbage}
      /\ Garbage = nodes \cup devices \cup others
  BY DEF GarbageCollection, Garbage
<1>2. PICK b \in holders : b.id = r /\ b.parent \in Ids \cap ParentKind(r)
  BY DEF HasParent
<1>3. r \in Devices \cup Others /\ b.id \notin Garbage
  <2>1. r \in Resources
    BY <1>2 DEF TypeOK
  <2> QED
    BY <1>1, <1>2, <2>1 DEF Ids, Resources
<1>4. b.parent \notin Garbage
  <2>1. CASE r \in Devices
    <3>1. b.parent \in Nodes /\ b.parent \notin nodes
      <4> HIDE DEF nodes
      <4>1. b.parent \in nodes => r \in devices
        BY <1>2, <2>1 DEF GarbageCheck
      <4> QED
        BY <1>1, <1>2, <1>3, <2>1, <4>1 DEF ParentKind
    <3>2. devices \cap Nodes = {} /\ others \cap Nodes = {}
      BY DEF GarbageCheck
    <3> HIDE DEF nodes, devices, others
    <3> QED
      BY <1>1, <3>1, <3>2
  <2>2. CASE r \in Others
    <3>1. b.parent \in Devices /\ b.parent \notin devices
      <4> HIDE DEF nodes, devices
      <4>1. b.parent \in devices => r \in others
        BY <1>2, <2>2 DEF GarbageCheck
      <4> QED
        BY <1>1, <1>2, <1>3, <2>2, <4>1 DEF ParentKind
    <3>2. others \cap Devices = {} /\ nodes \cap Devices = {}
      BY DEF GarbageCheck
    <3> HIDE DEF nodes, devices, others
    <3> QED
      BY <1>1, <3>1, <3>2
  <2> QED
    BY <1>3, <2>1, <2>2
<1>5. b \in holders' /\ b.parent \in Ids'
  BY <1>1, <1>2, <1>3, <1>4 DEF Ids
<1> QED
  BY <1>2, <1>5 DEF HasParent, ParentKind

\* a lookup that finds nothing changes nothing; one that finds its resource
\* leaves every other one, with the same ids
LEMMA UpdateWhole ==
  ASSUME TypeOK, NEW h \in Handlers, FindNmosResource(h)
  PROVE  WholeTrees
<1>1. CASE UNCHANGED holders
  BY <1>1, MoreWhole
<1>2. CASE UpdateNmosResource(h)
  <2>1. PICK b \in holders : /\ b.id = body[h].id
                             /\ holders' \in {holders, (holders \ {b}) \cup {body[h]}}
    BY <1>2 DEF UpdateNmosResource
  <2>2. Ids' = Ids
    BY <2>1 DEF Ids
  <2>3. pc[h] = "find" /\ pc'[h] = "reset"
    BY <1>2 DEF FindNmosResource, UpdateNmosResource, Answer, TypeOK
  <2>4. ASSUME NEW r \in Ids \ Nodes, r # body[h].id, HasParent(r) PROVE HasParent(r)'
    <3>1. PICK c \in holders : c.id = r /\ c.parent \in Ids \cap ParentKind(r)
      BY <2>4 DEF HasParent
    <3>2. c \in holders'
      BY <2>1, <2>4, <3>1
    <3> QED
      BY <2>2, <3>1, <3>2 DEF HasParent, ParentKind
  <2> QED
    BY <2>3, <2>4 DEF WholeTrees, Orphan
<1> QED
  BY <1>1, <1>2 DEF FindNmosResource

LEMMA NextWhole == TypeOK /\ [Next]_vars => WholeTrees
<1> SUFFICES ASSUME TypeOK, [Next]_vars PROVE WholeTrees
  OBVIOUS
<1>1. ASSUME NEW h \in Handlers, Arrive(h) PROVE WholeTrees
  BY <1>1, MoreWhole DEF Arrive, AddPutData, Request
<1>2. ASSUME NEW h \in Handlers, Continue(h) PROVE WholeTrees
  <2>1. CASE DeleteResource(h)
    <3>1. pc[h] = "remove" /\ pc'[h] = "idle"
      BY <2>1 DEF DeleteResource, Goto, TypeOK
    <3> QED
      BY <3>1 DEF WholeTrees
  <2>2. CASE FindNmosResource(h)
    BY <2>2, UpdateWhole
  <2>3. CASE AddResource(h)
    <3>1. holders \subseteq holders'
      BY <2>3 DEF AddResource, Inserted
    <3> QED
      BY <3>1, MoreWhole
  <2>4. CASE ~(DeleteResource(h) \/ FindNmosResource(h) \/ AddResource(h))
    <3>1. UNCHANGED holders
      BY <1>2, <2>4 DEF Continue, GetPutData, SplitString, Dispatch, PostJsonNmosHealth,
        ResetPutData, DeleteJson, GetJson, GetResource, FindParent, FirstHeartbeat
    <3> QED
      BY <3>1, MoreWhole
  <2> QED
    BY <2>1, <2>2, <2>3, <2>4
<1>3. ASSUME NEW h \in Handlers, Undefined(h) PROVE WholeTrees
  <2>1. Ids' = {}
    BY <1>3 DEF Undefined, Ids
  <2> QED
    BY <2>1 DEF WholeTrees, Orphan
<1>4. CASE GarbageCollection
  BY <1>4, CollectionWhole DEF WholeTrees, Orphan
<1>5. CASE Running \/ Stop \/ StopServer \/ Tick \/ UNCHANGED vars
  BY <1>5, MoreWhole DEF Running, Stop, StopServer, Tick, vars
<1> QED
  BY <1>1, <1>2, <1>3, <1>4, <1>5 DEF Next, GarbageThread

(***************************************************************************)
(* The collection of a node leaves no device of it and nothing on these,   *)
(* also when updates have moved resources from one parent to another.      *)
(***************************************************************************)
THEOREM WholeTreesGo == Spec => CollectsWholeTrees
<1>1. TypeOK /\ [Next]_vars => [WholeTrees]_vars
  BY NextWhole
<1>2. Spec => [][WholeTrees]_vars
  BY <1>1, InitTypeOK, NextTypeOK, PTL DEF Spec
<1> QED
  BY <1>2 DEF CollectsWholeTrees, WholeTrees
=============================================================================
