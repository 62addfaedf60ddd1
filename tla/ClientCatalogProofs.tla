------------------------- MODULE ClientCatalogProofs -------------------------
(***************************************************************************)
(* Proofs about ClientCatalog.  As long as a browse can list something     *)
(* each kind the application has the whole list of has a query, so that    *)
(* RunQuery() leaves nothing out for it.  That is longer than the mode is  *)
(* P2P: the tasks that have begun by then go on.                           *)
(***************************************************************************)
EXTENDS ClientCatalog, TLAPS

(***************************************************************************)
(* A browsed kind that the application has the list of is still asked for. *)
(***************************************************************************)
Asked ==
  mode = "p2p" \/ (mode = "registry" /\ browsing # {})
    => \A k \in synced : \E q \in Queries : query[q] = k

\* the query server's answers come with it
NoneSubscribed == mode = "p2p" => subscribed = {}

CatalogInv == TypeOK /\ NoneSubscribed /\ Asked /\ AppMissesNothing

-----------------------------------------------------------------------------
(* The helpers                                                             *)

(***************************************************************************)
(* A filter passes the whole list of a kind that is asked for.             *)
(***************************************************************************)
LEMMA FilterAsked ==
  ASSUME NEW k, NEW list, \E q \in Queries : query[q] = k
  PROVE  Filter(list, k) = list
BY DEF Filter

LEMMA FilterLess ==
  ASSUME NEW k, NEW list
  PROVE  Filter(list, k) \subseteq list
BY DEF Filter

LEMMA WithStale ==
  ASSUME NEW n, NEW k, NEW given
  PROVE  Browsed(n, k, given)
           = [added |-> Add(given).added, updated |-> Add(given).updated,
              removed |-> Stale(n, k, Add(given))]
<1> DEFINE stale == Stale(n, k, Add(given))
<1>1. Browsed(n, k, given) = [Add(given) EXCEPT !.removed = stale]
  BY DEF Browsed
<1> HIDE DEF stale
<1> QED
  BY <1>1 DEF Add, stale

(***************************************************************************)
(* RunQuery() leaves nothing out for a kind that is asked for, although it *)
(* does not look at all the lists.                                         *)
(***************************************************************************)
LEMMA RunQueryAsked ==
  ASSUME NEW k, NEW a, NEW u, NEW r, \E q \in Queries : query[q] = k
  PROVE  RunQuery([added |-> a, updated |-> u, removed |-> r], k)
           = [added |-> a, updated |-> u, removed |-> r]
<1>1. Filter(a, k) = a
  BY FilterAsked
<1>2. RunQuery([added |-> a, updated |-> u, removed |-> r], k)
        = [[added |-> a, updated |-> u, removed |-> r] EXCEPT !.added = a]
  <2>1. ASSUME NEW c, c.added = a
        PROVE  RunQuery(c, k) = [c EXCEPT !.added = a]
    <3>1. Filter(c.added, k) = a /\ (c.added = {} \/ Filter(c.added, k) # {})
      BY <1>1, <2>1
    <3> QED
      BY <3>1 DEF RunQuery
  <2> QED
    BY <2>1
<1> QED
  BY <1>2

(***************************************************************************)
(* What RunQuery() returns is made of what it was given.                   *)
(***************************************************************************)
LEMMA RunQueryLess ==
  ASSUME NEW k, NEW a, NEW u, NEW r
  PROVE  /\ RunQuery([added |-> a, updated |-> u, removed |-> r], k).added \subseteq a
         /\ RunQuery([added |-> a, updated |-> u, removed |-> r], k).updated \subseteq u
         /\ RunQuery([added |-> a, updated |-> u, removed |-> r], k).removed \subseteq r
<1>1. Filter(a, k) \subseteq a /\ Filter(u, k) \subseteq u /\ Filter(r, k) \subseteq r
  BY FilterLess
<1> QED
  BY <1>1 DEF RunQuery

-----------------------------------------------------------------------------
(* Types                                                                   *)

LEMMA TypeTask ==
  ASSUME TypeOK, NEW n \in Nodes, StartBrowse(n) \/ EndBrowse(n)
  PROVE  TypeOK'
BY DEF TypeOK, StartBrowse, EndBrowse

LEMMA InitType == Init => TypeOK
BY ClientCatalogAssumption DEF Init, TypeOK, Kinds

LEMMA TypeNodeBrowser ==
  ASSUME TypeOK, NEW n \in Nodes, NEW k \in Kinds, NEW given \in SUBSET OfKind(k),
         NodeBrowser(n, k, given)
  PROVE  TypeOK'
<1> DEFINE c == Browsed(n, k, given)
<1>1. Add(given).added \subseteq Ids /\ Add(given).updated \subseteq Ids
  BY DEF Add, OfKind
<1>2. Stored(n, k, Add(given)) \subseteq Ids \ OfKind("node")
  BY DEF TypeOK, Stored, Listed, OfKind
<1>3. stored' \in SUBSET (Ids \ OfKind("node"))
  BY <1>2 DEF NodeBrowser
<1>4. listed' \in [Ids -> Addresses \cup {None}]
  BY DEF TypeOK, NodeBrowser, Changed, Addresses
<1>5. RunQuery(c, k).added \subseteq Ids /\ RunQuery(c, k).updated \subseteq Ids
  <2>1. c = [added |-> Add(given).added, updated |-> Add(given).updated,
             removed |-> Stale(n, k, Add(given))]
    BY WithStale
  <2> QED
    BY <1>1, <2>1, RunQueryLess
<1>6. told' \in SUBSET Ids
  BY <1>5 DEF TypeOK, NodeBrowser, Tell
<1> QED
  BY <1>3, <1>4, <1>6 DEF TypeOK, NodeBrowser

LEMMA TypeRemoved ==
  ASSUME TypeOK, NEW n \in Nodes, HandleInstanceRemoved(n)
  PROVE  TypeOK'
<1>1. listed' \in [Ids -> Addresses \cup {None}]
  BY DEF TypeOK, HandleInstanceRemoved
<1>2. told' \in SUBSET Ids
  BY DEF TypeOK, HandleInstanceRemoved
<1> QED
  BY <1>1, <1>2 DEF TypeOK, HandleInstanceRemoved

LEMMA TypeAdd ==
  ASSUME TypeOK, NEW q \in Queries, NEW k \in Kinds,
         AddQueryP2P(q, k) \/ AddQueryRegistry(q, k)
  PROVE  TypeOK'
<1>1. query' \in [Queries -> Kinds \cup {None}] /\ q \notin subscribed
  BY DEF TypeOK, AddQueryP2P, AddQueryRegistry
<1>2. \A x \in subscribed : query'[x] = query[x] /\ socket'[x] = socket[x]
  BY <1>1 DEF TypeOK, AddQueryP2P, AddQueryRegistry
<1>3. socket' \in [Queries -> Kinds \cup {None}]
  BY DEF TypeOK, AddQueryP2P, AddQueryRegistry
<1>4. told' \in SUBSET Ids /\ synced' \in SUBSET Kinds
  BY DEF TypeOK, AddQueryP2P, AddQueryRegistry, Listed, OfKind
<1>5. subscribed' = subscribed
  BY DEF AddQueryP2P, AddQueryRegistry
<1> QED
  BY <1>1, <1>2, <1>3, <1>4, <1>5 DEF TypeOK, AddQueryP2P, AddQueryRegistry

LEMMA TypeRemoveP2P ==
  ASSUME TypeOK, NoneSubscribed, NEW q \in Queries, RemoveQueryP2P(q)
  PROVE  TypeOK'
<1>1. query' \in [Queries -> Kinds \cup {None}]
  BY DEF TypeOK, RemoveQueryP2P, Erased
<1> QED
  BY <1>1 DEF TypeOK, NoneSubscribed, RemoveQueryP2P, Unsynced

LEMMA TypeRemoveRegistry ==
  ASSUME TypeOK, NEW q \in Queries, RemoveQueryRegistry(q)
  PROVE  TypeOK'
<1>1. CASE mode' = "crashed"
  <2>1. UNCHANGED <<browsing, listed, stored, told, query, subscribed, socket, synced>>
    BY <1>1 DEF TypeOK, RemoveQueryRegistry
  <2> QED
    BY <1>1, <2>1 DEF TypeOK
<1>2. CASE mode' # "crashed"
  <2>1. /\ query' = Erased(q) /\ mode' = mode
        /\ socket' = IF q \in subscribed THEN [socket EXCEPT ![q] = None] ELSE socket
        /\ subscribed' = {x \in subscribed : query[x] # query[q]}
        /\ synced' \subseteq synced
        /\ UNCHANGED <<browsing, listed, stored, told>>
    BY <1>2 DEF RemoveQueryRegistry, UnsyncedLate, Unsynced
  <2>2. query' \in [Queries -> Kinds \cup {None}] /\ socket' \in [Queries -> Kinds \cup {None}]
    BY <2>1 DEF TypeOK, Erased
  <2>3. ASSUME NEW x \in subscribed'
        PROVE  query'[x] # None /\ socket'[x] = query'[x]
    <3>1. x \in subscribed /\ query[x] # query[q] /\ x \in Queries /\ x # q
      BY <2>1 DEF TypeOK
    <3>2. query'[x] = query[x]
      BY <2>1, <3>1 DEF TypeOK, Erased
    <3>3. socket'[x] = socket[x]
      BY <2>1, <3>1 DEF TypeOK
    <3> QED
      BY <3>1, <3>2, <3>3 DEF TypeOK
  <2>4. subscribed' \in SUBSET Queries
    BY <2>1 DEF TypeOK
  <2> QED
    BY <2>1, <2>2, <2>3, <2>4 DEF TypeOK
<1> QED
  BY <1>1, <1>2

LEMMA TypeSubscribe ==
  ASSUME TypeOK, NEW qs \in SUBSET {q \in Queries : query[q] # None},
         SubscribeToQueryServer(qs)
  PROVE  TypeOK'
<1>1. socket' \in [Queries -> Kinds \cup {None}]
  BY DEF TypeOK, SubscribeToQueryServer
<1>2. subscribed' = qs
  BY DEF TypeOK, SubscribeToQueryServer
<1>3. \A x \in qs : query'[x] # None /\ socket'[x] = query'[x]
  BY DEF TypeOK, SubscribeToQueryServer
<1> QED
  BY <1>1, <1>2, <1>3 DEF TypeOK, SubscribeToQueryServer

LEMMA TypeMessage ==
  ASSUME TypeOK, NEW k \in Kinds, NEW posts \in SUBSET OfKind(k), NEW pres \in SUBSET OfKind(k),
         WebsocketMessage(k, posts, pres)
  PROVE  TypeOK'
<1>1. posts \subseteq Ids
  BY DEF OfKind
<1>2. listed' \in [Ids -> Addresses \cup {None}]
  BY DEF TypeOK, WebsocketMessage, Changed, Addresses
<1>3. told' \in SUBSET Ids
  BY <1>1 DEF TypeOK, WebsocketMessage, GrainUpdate, Add, Tell
<1> QED
  BY <1>2, <1>3 DEF TypeOK, WebsocketMessage

LEMMA TypeNext == CatalogInv /\ [Next]_vars => TypeOK'
<1> SUFFICES ASSUME CatalogInv, [Next]_vars PROVE TypeOK'
  OBVIOUS
<1> USE DEF CatalogInv
<1>1. CASE UNCHANGED vars
  BY <1>1 DEF vars, TypeOK
<1>2. CASE Browse
  BY <1>2, TypeTask, TypeNodeBrowser, TypeRemoved DEF Browse
<1>3. CASE Subscriptions
  <2>1. \A i \in Ids : KindOf[i] \in Kinds
    BY ClientCatalogAssumption
  <2> QED
    BY <1>3, <2>1, TypeAdd, TypeRemoveP2P, TypeRemoveRegistry, TypeSubscribe DEF Subscriptions
<1>4. CASE \E k \in Kinds : \E posts, pres \in SUBSET OfKind(k) : WebsocketMessage(k, posts, pres)
  BY <1>4, TypeMessage
<1> QED
  BY <1>1, <1>2, <1>3, <1>4 DEF Next

-----------------------------------------------------------------------------
(* Queries of the kinds                                                    *)

LEMMA AskedNext == CatalogInv /\ [Next]_vars => NoneSubscribed' /\ Asked'
<1> SUFFICES ASSUME CatalogInv, [Next]_vars PROVE NoneSubscribed' /\ Asked'
  OBVIOUS
<1> USE DEF CatalogInv, NoneSubscribed, Asked
<1>1. CASE UNCHANGED vars
  BY <1>1 DEF vars
<1>2. CASE Browse
  BY <1>2 DEF Browse, StartBrowse, EndBrowse, NodeBrowser, HandleInstanceRemoved
<1>3. ASSUME NEW q \in Queries, NEW k, AddQueryP2P(q, k) \/ AddQueryRegistry(q, k)
      PROVE  NoneSubscribed' /\ Asked'
  <2>1. /\ query'[q] = k /\ \A x \in Queries : query[x] # None => query'[x] = query[x]
        /\ mode' = mode /\ browsing' = browsing /\ subscribed' = subscribed
        /\ synced' = synced \/ synced' = synced \cup {k}
    BY <1>3 DEF AddQueryP2P, AddQueryRegistry, TypeOK
  <2>2. \A j \in synced : j # None
    BY ClientCatalogAssumption DEF TypeOK
  <2> QED
    BY <2>1, <2>2
<1>4. ASSUME NEW q \in Queries, query' = Erased(q), synced' = Unsynced(q), mode' = mode,
             browsing' = browsing, subscribed' \subseteq subscribed
      PROVE  NoneSubscribed' /\ Asked'
  <2>1. \A x \in Queries : query[x] # query[q] => query'[x] = query[x]
    BY <1>4 DEF Erased
  <2> QED
    BY <1>4, <2>1 DEF Unsynced
<1>5. ASSUME NEW q \in Queries, RemoveQueryP2P(q)
      PROVE  NoneSubscribed' /\ Asked'
  BY <1>4, <1>5 DEF RemoveQueryP2P
<1>6. ASSUME NEW q \in Queries, RemoveQueryRegistry(q)
      PROVE  NoneSubscribed' /\ Asked'
  <2>1. CASE mode' = "crashed"
    BY <2>1
  <2>2. CASE mode' # "crashed" /\ browsing = {}
    BY <1>6, <2>2 DEF RemoveQueryRegistry
  <2>3. CASE mode' # "crashed" /\ browsing # {}
    BY <1>4, <1>6, <2>3 DEF RemoveQueryRegistry, UnsyncedLate
  <2> QED
    BY <2>1, <2>2, <2>3
<1>7. ASSUME NEW qs \in SUBSET {q \in Queries : query[q] # None}, SubscribeToQueryServer(qs)
      PROVE  NoneSubscribed' /\ Asked'
  <2>1. mode = "p2p" \/ mode = "registry"
    BY <1>7 DEF SubscribeToQueryServer, TypeOK
  <2> QED
    BY <1>7, <2>1 DEF SubscribeToQueryServer
<1>8. CASE Subscriptions
  BY <1>3, <1>5, <1>6, <1>7, <1>8 DEF Subscriptions
<1>9. CASE \E k \in Kinds : \E posts, pres \in SUBSET OfKind(k) : WebsocketMessage(k, posts, pres)
  BY <1>9 DEF WebsocketMessage
<1> QED
  BY <1>1, <1>2, <1>8, <1>9 DEF Next

-----------------------------------------------------------------------------
(* What is told                                                            *)

(***************************************************************************)
(* A change of the holder of which the application is told everything, or  *)
(* that is of a kind it has not got the list of.                           *)
(***************************************************************************)
Reported(c, k, address) ==
  /\ listed' = Changed(c, address)
  /\ c.added \cup c.updated \cup c.removed \subseteq OfKind(k)
  /\ \A i \in c.added : listed[i] = None
  /\ k \in synced => told' = Tell(c)
  /\ \A i \in told \ OfKind(k) : i \in told'
  /\ synced' = synced

\* of a kind that is listed as a whole: something that goes is not told of any more
GoneIsUntold ==
  \A i \in Ids : KindOf[i] \in synced \cap synced' /\ listed[i] # None /\ listed'[i] = None
                  => i \notin told'

LEMMA ReportedKeeps ==
  ASSUME AppMissesNothing, NEW c, NEW k, NEW address, Reported(c, k, address)
  PROVE  AppMissesNothing' /\ GoneIsUntold
<1>1. ASSUME NEW j \in synced, NEW i \in OfKind(j), listed'[i] # None
      PROVE  i \in told'
  <2>1. i \in Ids /\ KindOf[i] = j
    BY DEF OfKind
  <2>2. i \notin c.removed /\ (i \in c.added \/ listed[i] # None)
    BY <1>1, <2>1 DEF Reported, Changed
  <2>3. listed[i] # None => i \in told
    BY <2>1 DEF AppMissesNothing, Listed
  <2>4. CASE j = k
    BY <2>2, <2>3, <2>4 DEF Reported, Tell
  <2>5. CASE j # k
    BY <2>1, <2>2, <2>3, <2>5 DEF Reported, OfKind
  <2> QED
    BY <2>4, <2>5
<1>2. AppMissesNothing'
  BY <1>1 DEF AppMissesNothing, Listed, Reported
<1>3. ASSUME NEW i \in Ids, KindOf[i] \in synced, listed[i] # None, listed'[i] = None
      PROVE  i \notin told'
  <2>1. i \in c.removed
    BY <1>3 DEF Reported, Changed
  <2>2. KindOf[i] = k
    BY <2>1 DEF Reported, OfKind
  <2> QED
    BY <1>3, <2>1, <2>2 DEF Reported, Tell
<1> QED
  BY <1>2, <1>3 DEF GoneIsUntold

LEMMA ToldNodeBrowser ==
  ASSUME CatalogInv, NEW n \in Nodes, NEW k \in Kinds, NEW given \in SUBSET OfKind(k),
         NodeBrowser(n, k, given)
  PROVE  AppMissesNothing' /\ GoneIsUntold
<1> DEFINE a == Add(given).added
           u == Add(given).updated
           r == Stale(n, k, Add(given))
           c == [added |-> a, updated |-> u, removed |-> r]
<1>1. Browsed(n, k, given) = c
  BY WithStale
<1>2. a \subseteq OfKind(k) /\ u \subseteq OfKind(k) /\ \A i \in a : listed[i] = None
  BY DEF Add
<1>3. r \subseteq OfKind(k)
  BY DEF Stale, Stored, Listed, OfKind, CatalogInv, TypeOK
<1>4. listed' = Changed(c, n)
  BY <1>1 DEF NodeBrowser, Browsed
<1>5. ASSUME k \in synced PROVE told' = Tell(c)
  <2>1. \E q \in Queries : query[q] = k
    BY <1>5 DEF CatalogInv, TypeOK, Asked, NodeBrowser
  <2>2. RunQuery(c, k) = c
    BY <2>1, RunQueryAsked
  <2> QED
    BY <1>1, <2>2 DEF NodeBrowser
<1>6. \A i \in told \ OfKind(k) : i \in told'
  <2>1. RunQuery(c, k).removed \subseteq r
    BY RunQueryLess
  <2>2. told' = Tell(RunQuery(c, k))
    BY <1>1 DEF NodeBrowser
  <2> QED
    BY <1>3, <2>1, <2>2 DEF Tell
<1>7. Reported(c, k, n)
  <2>1. c.added = a /\ c.updated = u /\ c.removed = r
    OBVIOUS
  <2>2. synced' = synced
    BY DEF NodeBrowser
  <2> HIDE DEF a, u, r, c
  <2> QED
    BY <1>2, <1>3, <1>4, <1>5, <1>6, <2>1, <2>2 DEF Reported
<1> QED
  BY <1>7, ReportedKeeps DEF CatalogInv

LEMMA ToldRemoved ==
  ASSUME CatalogInv, NEW n \in Nodes, HandleInstanceRemoved(n)
  PROVE  AppMissesNothing' /\ GoneIsUntold
<1> DEFINE gone == {i \in Ids : listed[i] = n}
<1>1. \A i \in Ids : listed'[i] = IF i \in gone THEN None ELSE listed[i]
  BY DEF HandleInstanceRemoved
<1>2. \A k \in Kinds : Filter(gone \cap OfKind(k), k) \subseteq gone
  BY FilterLess
<1>3. told' = told \ UNION {Filter(gone \cap OfKind(k), k) : k \in Kinds}
  BY DEF HandleInstanceRemoved
<1>4. synced' = synced /\ synced \subseteq Kinds
  BY DEF HandleInstanceRemoved, CatalogInv, TypeOK
<1>5. ASSUME NEW j \in synced, NEW i \in OfKind(j), listed'[i] # None
      PROVE  i \in told'
  <2>1. i \in Ids
    BY DEF OfKind
  <2>2. i \notin gone /\ listed[i] # None
    BY <1>1, <1>5, <2>1
  <2>3. i \in told
    BY <2>2 DEF CatalogInv, AppMissesNothing, Listed
  <2> QED
    BY <1>2, <1>3, <2>2, <2>3
<1>6. AppMissesNothing'
  BY <1>4, <1>5 DEF AppMissesNothing, Listed
<1>7. ASSUME NEW i \in Ids, KindOf[i] \in synced, listed[i] # None, listed'[i] = None
      PROVE  i \notin told'
  <2>1. i \in gone \cap OfKind(KindOf[i])
    BY <1>1, <1>7 DEF OfKind
  <2>2. \E q \in Queries : query[q] = KindOf[i]
    BY <1>7 DEF CatalogInv, Asked, HandleInstanceRemoved
  <2>3. Filter(gone \cap OfKind(KindOf[i]), KindOf[i]) = gone \cap OfKind(KindOf[i])
    BY <2>2, FilterAsked
  <2> QED
    BY <1>3, <1>4, <1>7, <2>1, <2>3
<1> QED
  BY <1>6, <1>7 DEF GoneIsUntold

LEMMA ToldMessage ==
  ASSUME CatalogInv, NEW k \in Kinds, NEW posts \in SUBSET OfKind(k),
         NEW pres \in SUBSET OfKind(k), WebsocketMessage(k, posts, pres)
  PROVE  AppMissesNothing' /\ GoneIsUntold
<1> DEFINE c == GrainUpdate(posts, pres)
<1>1. c.added \cup c.updated \cup c.removed \subseteq OfKind(k)
  BY DEF GrainUpdate, Add
<1>2. \A i \in c.added : listed[i] = None
  BY DEF GrainUpdate, Add
<1>3. listed' = Changed(c, Registry) /\ told' = Tell(c) /\ synced' = synced
  BY DEF WebsocketMessage
<1>4. \A i \in told \ OfKind(k) : i \in told'
  BY <1>1, <1>3 DEF Tell
<1>5. Reported(c, k, Registry)
  BY <1>1, <1>2, <1>3, <1>4 DEF Reported
<1> QED
  BY <1>5, ReportedKeeps DEF CatalogInv

LEMMA ToldNext == CatalogInv /\ [Next]_vars => AppMissesNothing' /\ (GoneIsUntold \/ UNCHANGED vars)
<1> SUFFICES ASSUME CatalogInv, [Next]_vars
             PROVE  AppMissesNothing' /\ (GoneIsUntold \/ UNCHANGED vars)
  OBVIOUS
<1>1. CASE UNCHANGED vars
  BY <1>1 DEF vars, CatalogInv, AppMissesNothing, Listed
<1>2. ASSUME UNCHANGED listed PROVE GoneIsUntold
  BY <1>2 DEF GoneIsUntold
<1>3. ASSUME UNCHANGED <<listed, told>>, synced' \subseteq synced PROVE AppMissesNothing'
  BY <1>3 DEF CatalogInv, AppMissesNothing, Listed
<1>4. CASE Browse
  BY <1>2, <1>3, <1>4, ToldNodeBrowser, ToldRemoved DEF Browse, StartBrowse, EndBrowse
<1>5. ASSUME NEW q \in Queries, NEW k, AddQueryP2P(q, k) PROVE AppMissesNothing' /\ GoneIsUntold
  <2>1. UNCHANGED listed /\ told' = told \cup Listed(k) /\ synced' = synced \cup {k}
    BY <1>5 DEF AddQueryP2P
  <2> QED
    BY <1>2, <2>1 DEF CatalogInv, AppMissesNothing, Listed
<1>6. ASSUME NEW q \in Queries, RemoveQueryP2P(q) \/ RemoveQueryRegistry(q)
      PROVE  UNCHANGED <<listed, told>> /\ synced' \subseteq synced
  BY <1>6 DEF RemoveQueryP2P, RemoveQueryRegistry, UnsyncedLate, Unsynced
<1>7. CASE Subscriptions
  BY <1>2, <1>3, <1>5, <1>6, <1>7 DEF Subscriptions, AddQueryRegistry, SubscribeToQueryServer
<1>8. CASE \E k \in Kinds : \E posts, pres \in SUBSET OfKind(k) : WebsocketMessage(k, posts, pres)
  BY <1>8, ToldMessage
<1> QED
  BY <1>1, <1>4, <1>7, <1>8 DEF Next

-----------------------------------------------------------------------------
(* The theorems                                                            *)

LEMMA InitInv == Init => CatalogInv
BY InitType DEF Init, CatalogInv, NoneSubscribed, Asked, AppMissesNothing

LEMMA CatalogHolds == Spec => []CatalogInv
<1>1. CatalogInv /\ [Next]_vars => CatalogInv'
  BY TypeNext, AskedNext, ToldNext DEF CatalogInv
<1> QED
  BY InitInv, <1>1, PTL DEF Spec

(***************************************************************************)
(* The client's lists, queries and websockets keep their types, and what   *)
(* is subscribed has its query and its websocket, for any resources,       *)
(* addresses and number of queries.                                        *)
(***************************************************************************)
THEOREM TypeCorrect == Spec => []TypeOK
<1>1. CatalogInv => TypeOK
  BY DEF CatalogInv
<1> QED
  BY CatalogHolds, <1>1, PTL

(***************************************************************************)
(* The application knows all that is listed of a kind it has subscribed to *)
(* while nodes were browsed, whatever RunQuery() does not look at, and     *)
(* also if a browse ends long after a query server is found.               *)
(***************************************************************************)
THEOREM NothingMissed == Spec => []AppMissesNothing
<1>1. CatalogInv => AppMissesNothing
  BY DEF CatalogInv
<1> QED
  BY CatalogHolds, <1>1, PTL

(***************************************************************************)
(* And what of it goes is reported, whichever way it goes.                 *)
(***************************************************************************)
THEOREM RemovalsTold == Spec => RemovalsReported
<1>1. CatalogInv /\ [Next]_vars =>
        [\A i \in Ids : KindOf[i] \in synced \cap synced' /\ listed[i] # None /\ listed'[i] = None
                          => i \notin told']_vars
  BY ToldNext DEF GoneIsUntold
<1> QED
  BY CatalogHolds, <1>1, PTL DEF Spec, RemovalsReported
=============================================================================
