---------------------------- MODULE ClientCatalog ----------------------------
(***************************************************************************)
(* What a client lists, what the application has asked for and what it is  *)
(* told: the holders, queries and websockets of ClientApiImpl              *)
(* (client/src/clientprivate.cpp) and ClientHolder (clientholder.cpp).     *)
(*                                                                         *)
(* As long as no query server is known the client browses the nodes.  Then *)
(* it asks the server for a websocket for every query, and changes come as *)
(* grains.  What it listed before stays.  A task that browses a node looks *)
(* at the mode once and goes on with its GETs when the mode has changed.   *)
(*                                                                         *)
(* The holders have no lock that all callers take; here the handlers of    *)
(* one kind of resource follow each other.  How the threads overtake each  *)
(* other is in ClientThreads.                                              *)
(***************************************************************************)
EXTENDS Integers, FiniteSets

CONSTANTS
  Nodes,     \* the addresses of nodes
  Registry,  \* the address of what a websocket brings: its source_id
  Ids,       \* ids of resources
  KindOf,    \* and their kinds
  Format,    \* format and media type of the flows
  Media,
  Queries,   \* ids of subscriptions
  None

Kinds == {"node", "device", "source", "flow", "sender", "receiver"}
Addresses == Nodes \cup {Registry}
OfKind(k) == {i \in Ids : KindOf[i] = k}
Flows == OfKind("flow")

ASSUME ClientCatalogAssumption ==
  /\ Registry \notin Nodes /\ None \notin Addresses \cup Kinds \cup Ids
  /\ KindOf \in [Ids -> Kinds]
  /\ DOMAIN Format = Flows /\ DOMAIN Media = Flows
  /\ IsFiniteSet(Ids)

VARIABLES
  mode,      \* m_eMode, or that the process has crashed
  browsing,  \* the nodes with a task that has found the mode to be P2P
  listed,    \* the address each resource in a holder is listed at
  stored,    \* m_setStored of each holder
  told,      \* the resources the application has been told of and not that they went
  query,     \* m_mmQuery: the kind of each query
  subscribed, \* those whose jsSubscription came from the query server
  socket,    \* the kind of resources of the websocket opened for a query
  synced     \* kinds the application was given the whole list of

vars == <<mode, browsing, listed, stored, told, query, subscribed, socket, synced>>

TypeOK ==
  /\ mode \in {"p2p", "registry", "crashed"}
  /\ browsing \in SUBSET Nodes
  /\ listed \in [Ids -> Addresses \cup {None}]
  /\ stored \in SUBSET (Ids \ OfKind("node"))
  /\ told \in SUBSET Ids
  /\ query \in [Queries -> Kinds \cup {None}]
  /\ subscribed \in SUBSET Queries
  /\ \A q \in subscribed : query[q] # None /\ socket[q] = query[q]
  /\ socket \in [Queries -> Kinds \cup {None}]
  /\ synced \in SUBSET Kinds

Init ==
  /\ mode = "p2p" /\ browsing = {}
  /\ listed = [i \in Ids |-> None] /\ stored = {} /\ told = {}
  /\ query = [q \in Queries |-> None] /\ subscribed = {}
  /\ socket = [q \in Queries |-> None] /\ synced = {}

-----------------------------------------------------------------------------
(* The holders                                                             *)

Listed(k) == {i \in OfKind(k) : listed[i] # None}

\* a raw video flow is taken for a coded one: the media type it looks for is
\* "vidoe/raw"
CreateFlow(format, media) ==
  CASE format = "audio" -> IF media = "L24" THEN "FlowAudioRaw" ELSE "FlowAudioCoded"
    [] format = "video" -> IF media = "vidoe/raw" THEN "FlowVideoRaw" ELSE "FlowVideoCoded"
    [] format = "data" /\ media = "smpte291" -> "FlowDataSdiAnc"
    [] format = "data" /\ media = "json" -> "FlowDataJson"
    [] format = "mux" -> "FlowMux"
    [] OTHER -> None

\* what there is no class for is not created
Created(i) == KindOf[i] = "flow" => CreateFlow(Format[i], Media[i]) # None

\* AddDevices() and its like, with an object for each of the ids given: what is
\* listed already, at whatever address, is updated
Add(given) ==
  [added   |-> {i \in given : listed[i] = None /\ Created(i)},
   updated |-> {i \in given : listed[i] # None},
   removed |-> {}]

\* the holder after these changes
Changed(c, address) ==
  [i \in Ids |-> IF i \in c.removed THEN None ELSE IF i \in c.added THEN address ELSE listed[i]]

\* RunQuery() of one list: every query is met
Filter(list, k) == IF \E q \in Queries : query[q] = k THEN list ELSE {}

\* RunQuery() of the changes: it is true with the first list that was empty or
\* has something left, and those after it are not filtered then
RunQuery(c, k) ==
  LET added   == Filter(c.added, k)
      updated == Filter(c.updated, k)
      removed == Filter(c.removed, k)
  IN  IF c.added = {} \/ added # {} THEN [c EXCEPT !.added = added]
      ELSE IF c.updated = {} \/ updated # {} THEN [c EXCEPT !.added = {}, !.updated = updated]
      ELSE [added |-> {}, updated |-> {}, removed |-> removed]

\* the poster's _NodeChanged() and its like
Tell(c) == (told \cup c.added \cup c.updated) \ c.removed

-----------------------------------------------------------------------------
(* Browsing the nodes                                                      *)

\* StoreDevices(), without what AddDevices() updates.  m_setStored is not cleared.
Stored(n, k, c) ==
  (stored \cup {i \in Listed(k) : k # "node" /\ listed[i] = n}) \ c.updated

\* RemoveStaleDevices(): also what was just added, if it has been stale before
Stale(n, k, c) ==
  {i \in Stored(n, k, c) : KindOf[i] = k /\ (i \in c.added \/ listed[i] # None)}

\* mutant of Browsed: without the resources that were stale
BrowsedOnly(n, k, given) == Add(given)

Browsed(n, k, given) == LET c == Add(given) IN [c EXCEPT !.removed = Stale(n, k, c)]

\* a task begins; a node may have several
StartBrowse(n) ==
  /\ mode = "p2p"
  /\ browsing' = browsing \cup {n}
  /\ UNCHANGED <<mode, listed, stored, told, query, subscribed, socket, synced>>

\* its step for one kind of resources, whatever the mode is by now.  The steps
\* of the tasks of a node come in any order; of the kind "node" there is one.
NodeBrowser(n, k, given) ==
  /\ mode # "crashed" /\ n \in browsing
  /\ k = "node" => Cardinality(given) <= 1
  /\ LET c == Add(given)
     IN  /\ stored' = Stored(n, k, c)
         /\ listed' = Changed([c EXCEPT !.removed = Stale(n, k, c)], n)
  /\ told' = Tell(RunQuery(Browsed(n, k, given), k))
  /\ UNCHANGED <<mode, browsing, query, subscribed, socket, synced>>

\* the last of its tasks is done
EndBrowse(n) ==
  /\ mode # "crashed"
  /\ n \in browsing /\ browsing' = browsing \ {n}
  /\ UNCHANGED <<mode, listed, stored, told, query, subscribed, socket, synced>>

\* RemoveResources(), when a node goes; only what is removed is looked at
HandleInstanceRemoved(n) ==
  /\ mode = "p2p"
  /\ LET gone == {i \in Ids : listed[i] = n}
     IN  /\ listed' = [i \in Ids |-> IF i \in gone THEN None ELSE listed[i]]
         /\ told' = told \ UNION {Filter(gone \cap OfKind(k), k) : k \in Kinds}
  /\ UNCHANGED <<mode, browsing, stored, query, subscribed, socket, synced>>

-----------------------------------------------------------------------------
(* Subscriptions                                                           *)

\* mutant of AddQueryP2P: is not told of what is there
AddQueryOnly(q, k) ==
  /\ mode = "p2p" /\ query[q] = None /\ socket[q] = None
  /\ query' = [query EXCEPT ![q] = k]
  /\ synced' = synced \cup {k}
  /\ UNCHANGED <<mode, browsing, listed, stored, told, subscribed, socket>>

AddQueryP2P(q, k) ==
  /\ mode = "p2p" /\ query[q] = None /\ socket[q] = None
  /\ query' = [query EXCEPT ![q] = k]
  /\ told' = told \cup Listed(k)
  /\ synced' = synced \cup {k}
  /\ UNCHANGED <<mode, browsing, listed, stored, subscribed, socket>>

\* m_mmQuery.erase() of the key: all that are about that kind
Erased(q) == [x \in Queries |-> IF query[x] = query[q] THEN None ELSE query[x]]

\* what the application is told about the kind is not filtered by a query now
Unsynced(q) == synced \ {query[q]}

RemoveQueryP2P(q) ==
  /\ mode = "p2p" /\ query[q] # None
  /\ query' = Erased(q)
  /\ synced' = Unsynced(q)
  /\ UNCHANGED <<mode, browsing, listed, stored, told, subscribed, socket>>

\* QueryQueryServer() for these: the server answers some, and a websocket opens
SubscribeToQueryServer(qs) ==
  /\ mode # "crashed" /\ mode' = "registry"
  /\ subscribed' = (subscribed \ {q \in Queries : query[q] # None}) \cup qs
  /\ socket' = [q \in Queries |-> IF q \in qs THEN query[q] ELSE socket[q]]
  /\ UNCHANGED <<browsing, listed, stored, told, query, synced>>

\* the query is stored before the server is asked, and without its answer; it
\* stays when the server refuses
AddQueryRegistry(q, k) ==
  /\ mode = "registry" /\ query[q] = None /\ socket[q] = None
  /\ query' = [query EXCEPT ![q] = k]
  /\ socket' \in {socket, [socket EXCEPT ![q] = k]}
  /\ UNCHANGED <<mode, browsing, listed, stored, told, subscribed, synced>>

\* what grains bring is not filtered by the queries, what a browse brings is
UnsyncedLate(q) == IF browsing = {} THEN synced ELSE Unsynced(q)

\* mutant of RemoveQueryRegistry: the server's answers stay
RemoveQueryHalf(q) ==
  /\ mode = "registry" /\ query[q] # None
  /\ query' = Erased(q)
  /\ socket' = IF q \in subscribed THEN [socket EXCEPT ![q] = None] ELSE socket
  /\ synced' = UnsyncedLate(q)
  /\ UNCHANGED <<mode, browsing, listed, stored, told, subscribed>>

\* The websocket is closed if the stored query has the server's answer.  The
\* loop goes on then, from an element that it has erased: undefined behaviour,
\* here the next element or a crash.
RemoveQueryRegistry(q) ==
  /\ mode = "registry" /\ query[q] # None
  /\ \/ /\ query' = Erased(q)
        /\ socket' = IF q \in subscribed THEN [socket EXCEPT ![q] = None] ELSE socket
        /\ subscribed' = {x \in subscribed : query[x] # query[q]}
        /\ synced' = UnsyncedLate(q)
        /\ mode' = mode
     \/ /\ q \in subscribed
        /\ mode' = "crashed"
        /\ UNCHANGED <<query, subscribed, socket, synced>>
  /\ UNCHANGED <<browsing, listed, stored, told>>

-----------------------------------------------------------------------------
(* Grains                                                                  *)

\* WorkoutAction() takes "post" with "pre" for added and "post" alone for
\* updated: the same is done for both
GrainUpdate(posts, pres) ==
  LET c == Add(posts)
  IN  [c EXCEPT !.removed = {i \in pres : listed[i] # None}]

\* HandleGrainEvent() and GrainUpdateNode() and its like, all of it told
WebsocketMessage(k, posts, pres) ==
  /\ mode # "crashed" /\ \E q \in Queries : socket[q] = k
  /\ posts \cap pres = {}
  /\ LET c == GrainUpdate(posts, pres)
     IN  listed' = Changed(c, Registry) /\ told' = Tell(c)
  /\ stored' = stored \ {i \in posts : listed[i] # None}
  /\ UNCHANGED <<mode, browsing, query, subscribed, socket, synced>>

Browse ==
  \/ \E n \in Nodes, k \in Kinds : \E given \in SUBSET OfKind(k) : NodeBrowser(n, k, given)
  \/ \E n \in Nodes : StartBrowse(n) \/ EndBrowse(n) \/ HandleInstanceRemoved(n)

Subscriptions ==
  \/ \E q \in Queries, i \in Ids : AddQueryP2P(q, KindOf[i]) \/ AddQueryRegistry(q, KindOf[i])
  \/ \E q \in Queries : RemoveQueryP2P(q) \/ RemoveQueryRegistry(q)
  \/ \E qs \in SUBSET {q \in Queries : query[q] # None} : SubscribeToQueryServer(qs)

Next ==
  \/ Browse \/ Subscriptions
  \/ \E k \in Kinds : \E posts, pres \in SUBSET OfKind(k) : WebsocketMessage(k, posts, pres)

Spec == Init /\ [][Next]_vars

-----------------------------------------------------------------------------
(* Properties                                                              *)

(***************************************************************************)
(* Of a kind it has subscribed to while the nodes were browsed the         *)
(* application knows everything that is listed, also what a late browse    *)
(* lists after the change to a query server, and when its websockets come  *)
(* and go.  This ends when it gives up a query about the kind and a node   *)
(* is still browsed: every query about the kind goes with that one, and    *)
(* RunQuery() leaves out what it lists.                                    *)
(***************************************************************************)
AppMissesNothing == \A k \in synced : Listed(k) \subseteq told

(***************************************************************************)
(* And as long it is told when something of such a kind goes: with a       *)
(* browse, with its node, or by a grain.                                   *)
(***************************************************************************)
RemovalsReported ==
  [][\A i \in Ids : KindOf[i] \in synced \cap synced' /\ listed[i] # None /\ listed'[i] = None
                      => i \notin told']_vars
=============================================================================
