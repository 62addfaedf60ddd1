------------------------- MODULE NodeResourcesProofs -------------------------
(***************************************************************************)
(* Proofs about NodeResources, for any number of resources of each kind:   *)
(* its types, that endpoints follow the resources and devices list theirs, *)
(* that a registry misses nothing but sources, and that peers notice what  *)
(* is committed.                                                           *)
(***************************************************************************)
EXTENDS NodeResources, TLAPS

USE NodeResourcesAssumption

LEMMA Constants ==
  /\ Node \in Resources /\ Node \notin Devices /\ Node \notin OnDevices
  /\ Devices \subseteq Resources /\ OnDevices \subseteq Resources
  /\ IOResources \subseteq OnDevices /\ Sources \subseteq OnDevices /\ Flows \subseteq OnDevices
  /\ \A r \in OnDevices : Parent[r] \in Devices /\ r \notin Devices
BY DEF NodeResourcesAssumption, Resources, OnDevices, IOResources

LEMMA BumpedTyped ==
  ASSUME NEW v \in 0 .. MaxVersion
  PROVE  Bumped(v) \in 0 .. MaxVersion /\ Bumped(v) # v
BY DEF NodeResourcesAssumption, Bumped

-----------------------------------------------------------------------------
(* Types                                                                   *)

LEMMA TakeTyped ==
  ASSUME NEW reg \in SUBSET Resources, NEW rs \in SUBSET Resources
  PROVE  Take(reg, rs) \in SUBSET Resources
BY DEF Take

LEMMA UpdateTyped ==
  ASSUME NEW changed \in SUBSET Resources, registry \in SUBSET Resources
  PROVE  UpdateRegisterSimple(changed) \in SUBSET Resources
<1> DEFINE first == Take(registry, changed \cap ({Node} \cup Sources))
           second == Take(first, changed \cap Devices)
<1>1. first \in SUBSET Resources
  BY TakeTyped
<1> HIDE DEF first
<1>2. second \in SUBSET Resources
  BY <1>1, TakeTyped
<1> HIDE DEF second
<1>3. Take(second, changed \ (Sources \cup Devices)) \in SUBSET Resources
  BY <1>2, TakeTyped
<1> QED
  BY <1>3 DEF UpdateRegisterSimple, first, second

LEMMA CommitTyped ==
  ASSUME TypeOK, NEW resources \in SUBSET Resources, NEW updated \in SUBSET Resources,
         NEW linked \in [Devices -> SUBSET IOResources],
         CommitAll(resources, updated, linked),
         endpoints' \in SUBSET Resources, controls' \in SUBSET IOResources
  PROVE  TypeOK'
<1> DEFINE changed == resources \cap updated
           versions == [k \in Kinds |->
                          IF OfKind[k] \cap changed = {} THEN version[k] ELSE Bumped(version[k])]
<1>1. versions \in [Kinds -> 0 .. MaxVersion]
  BY BumpedTyped DEF TypeOK
<1>2. version' = versions /\ txt' = IF registered \/ changed = {} THEN txt ELSE versions
  BY DEF CommitAll
<1>3. version' \in [Kinds -> 0 .. MaxVersion]
      /\ txt' \in [Kinds -> (0 .. MaxVersion) \cup {Silent}]
  <2> HIDE DEF versions, changed
  <2> QED BY <1>1, <1>2 DEF TypeOK
<1> HIDE DEF versions, changed
<1>4. registry' \in SUBSET Resources
  <2>1. resources \cap updated \in SUBSET Resources
    OBVIOUS
  <2>2. UpdateRegisterSimple(resources \cap updated) \in SUBSET Resources
    BY <2>1, UpdateTyped DEF TypeOK
  <2> QED
    BY <2>2 DEF CommitAll, TypeOK
<1>5. staged' \in SUBSET Resources /\ committed' \in SUBSET Resources /\ dirty' \in SUBSET Resources
  BY DEF CommitAll
<1>6. links' \in [Devices -> SUBSET IOResources] /\ json' \in [Devices -> SUBSET IOResources]
  BY DEF CommitAll, TypeOK
<1>7. registered' \in BOOLEAN
  BY DEF CommitAll, TypeOK
<1> QED
  BY <1>3, <1>4, <1>5, <1>6, <1>7 DEF TypeOK

LEMMA LinksTyped ==
  ASSUME TypeOK, NEW r \in IOResources
  PROVE  Listed(r) \in [Devices -> SUBSET IOResources]
         /\ Unlisted(r) \in [Devices -> SUBSET IOResources]
<1>1. links \in [Devices -> SUBSET IOResources]
  BY DEF TypeOK
<1>2. Listed(r) \in [Devices -> SUBSET IOResources]
  BY <1>1 DEF Listed
<1>3. Unlisted(r) \in [Devices -> SUBSET IOResources]
  BY <1>1 DEF Unlisted
<1> QED
  BY <1>2, <1>3

\* THEOREM TypeCorrect's step
LEMMA NextTypeOK == TypeOK /\ [Next]_vars => TypeOK'
<1> SUFFICES ASSUME TypeOK, [Next]_vars PROVE TypeOK'
  OBVIOUS
<1> USE Constants
<1>1. ASSUME NEW d \in Devices, AddDevice(d) PROVE TypeOK'
  BY <1>1 DEF AddDevice, Stage, TypeOK
<1>2. ASSUME NEW s \in Sources, AddSource(s) PROVE TypeOK'
  BY <1>2 DEF AddSource, Stage, TypeOK
<1>3. ASSUME NEW s \in Sources, RemoveSource(s) PROVE TypeOK'
  BY <1>3 DEF RemoveSource, TypeOK
<1>4. ASSUME NEW f \in Flows, AddFlow(f) PROVE TypeOK'
  BY <1>4 DEF AddFlow, Stage, TypeOK
<1>5. ASSUME NEW r \in Receivers, AddReceiver(r) PROVE TypeOK'
  <2>1. r \in IOResources
    BY DEF IOResources
  <2>2. Listed(r) \in [Devices -> SUBSET IOResources]
    BY <2>1, LinksTyped
  <2> QED
    BY <1>5, <2>1, <2>2 DEF AddReceiver, TypeOK
<1>6. ASSUME NEW s \in Senders, AddSender(s) PROVE TypeOK'
  <2>1. s \in IOResources
    BY DEF IOResources
  <2>2. Listed(s) \in [Devices -> SUBSET IOResources]
    BY <2>1, LinksTyped
  <2>3. staged \cup {s} \in SUBSET Resources /\ dirty \cup {s, Parent[s]} \in SUBSET Resources
    BY <2>1 DEF TypeOK
  <2>4. endpoints' \in SUBSET Resources /\ controls' \in SUBSET IOResources
    BY <1>6, <2>1 DEF AddSender, TypeOK
  <2>5. CommitAll(staged \cup {s}, dirty \cup {s, Parent[s]}, Listed(s))
    BY <1>6 DEF AddSender
  <2> QED
    BY <2>2, <2>3, <2>4, <2>5, CommitTyped
<1>7. ASSUME NEW r \in IOResources, RemoveIOResource(r) PROVE TypeOK'
  <2>1. Unlisted(r) \in [Devices -> SUBSET IOResources]
    BY LinksTyped
  <2> QED
    BY <1>7, <2>1 DEF RemoveIOResource, TypeOK
<1>8. ASSUME NEW r \in IOResources, CommitActivation(r) PROVE TypeOK'
  <2>1. /\ CommitAll(staged, dirty \cup ({r} \cap staged), links)
        /\ endpoints' \in SUBSET Resources /\ controls' \in SUBSET IOResources
        /\ dirty \cup ({r} \cap staged) \in SUBSET Resources
    BY <1>8 DEF CommitActivation, TypeOK
  <2> QED
    BY <2>1, CommitTyped DEF TypeOK
<1>9. ASSUME NEW r \in Edited, UpdateVersionTime(r) PROVE TypeOK'
  BY <1>9 DEF UpdateVersionTime, TypeOK
<1>10. CASE Commit
  <2>1. /\ CommitAll(staged, dirty, links)
        /\ endpoints' \in SUBSET Resources /\ controls' \in SUBSET IOResources
    BY <1>10 DEF Commit, TypeOK
  <2> QED
    BY <2>1, CommitTyped DEF TypeOK
<1>11. CASE RegisterSimple
  <2>1. Take({Node}, committed \cap Devices) \in SUBSET Resources
    BY TakeTyped
  <2>2. registry' \in SUBSET Resources
    BY <1>11, <2>1, TakeTyped DEF RegisterSimple
  <2> QED
    BY <1>11, <2>2 DEF RegisterSimple, TypeOK
<1>12. CASE FindNone
  <2>1. txt' \in [Kinds -> (0 .. MaxVersion) \cup {Silent}]
    BY <1>12 DEF FindNone, TypeOK
  <2>2. registered' = FALSE /\ registry' = {}
    BY <1>12 DEF FindNone
  <2> QED
    BY <1>12, <2>1, <2>2 DEF FindNone, TypeOK
<1>13. CASE UNCHANGED vars
  BY <1>13 DEF vars, TypeOK
<1> QED
  BY <1>1, <1>2, <1>3, <1>4, <1>5, <1>6, <1>7, <1>8, <1>9, <1>10, <1>11, <1>12, <1>13 DEF Next

LEMMA InitTypeOK == Init => TypeOK
<1> SUFFICES ASSUME Init PROVE TypeOK
  OBVIOUS
<1>1. 0 \in 0 .. MaxVersion
  BY DEF NodeResourcesAssumption
<1>2. version \in [Kinds -> 0 .. MaxVersion] /\ txt \in [Kinds -> (0 .. MaxVersion) \cup {Silent}]
  BY <1>1 DEF Init
<1>3. staged \in SUBSET Resources /\ dirty \in SUBSET Resources
  BY Constants DEF Init
<1> QED
  BY <1>2, <1>3 DEF Init, TypeOK

(***************************************************************************)
(* Types, the width of the version counters among them, for every number   *)
(* of resources.                                                           *)
(***************************************************************************)
THEOREM TypeCorrect == Spec => []TypeOK
BY InitTypeOK, NextTypeOK, PTL DEF Spec

-----------------------------------------------------------------------------
(* Endpoints                                                               *)

LEMMA NextEndpoints == TypeOK /\ EndpointsFollow /\ [Next]_vars => EndpointsFollow'
<1> SUFFICES ASSUME TypeOK, EndpointsFollow, [Next]_vars PROVE EndpointsFollow'
  OBVIOUS
<1> USE Constants DEF EndpointsFollow
<1>1. ASSUME NEW d \in Devices, AddDevice(d) PROVE EndpointsFollow'
  BY <1>1 DEF AddDevice, Stage
<1>2. ASSUME NEW s \in Sources, AddSource(s) PROVE EndpointsFollow'
  BY <1>2 DEF NodeResourcesAssumption, AddSource, Stage
<1>3. ASSUME NEW s \in Sources, RemoveSource(s) PROVE EndpointsFollow'
  <2> DEFINE gone == {s} \cup (IF s \in committed THEN Fed(s) ELSE {})
  <2>1. staged' = staged \ gone /\ endpoints' = endpoints \ gone /\ controls' = controls \ gone
    BY <1>3 DEF RemoveSource
  <2> HIDE DEF gone
  <2> QED
    BY <2>1
<1>4. ASSUME NEW f \in Flows, AddFlow(f) PROVE EndpointsFollow'
  BY <1>4 DEF NodeResourcesAssumption, AddFlow, Stage
<1>5. ASSUME NEW r \in Receivers, AddReceiver(r) PROVE EndpointsFollow'
  BY <1>5 DEF AddReceiver, IOResources
<1>6. ASSUME NEW s \in Senders, AddSender(s) PROVE EndpointsFollow'
  BY <1>6 DEF AddSender, CommitAll, IOResources
<1>7. ASSUME NEW r \in IOResources, RemoveIOResource(r) PROVE EndpointsFollow'
  BY <1>7 DEF RemoveIOResource
<1>8. ASSUME NEW r \in IOResources, CommitActivation(r) PROVE EndpointsFollow'
  BY <1>8 DEF CommitActivation, CommitAll
<1>9. ASSUME NEW r \in Edited, UpdateVersionTime(r) PROVE EndpointsFollow'
  BY <1>9 DEF UpdateVersionTime
<1>10. CASE Commit
  BY <1>10 DEF Commit, CommitAll
<1>11. CASE RegisterSimple
  BY <1>11 DEF RegisterSimple
<1>12. CASE FindNone
  BY <1>12 DEF FindNone
<1>13. CASE UNCHANGED vars
  BY <1>13 DEF vars
<1> QED
  BY <1>1, <1>2, <1>3, <1>4, <1>5, <1>6, <1>7, <1>8, <1>9, <1>10, <1>11, <1>12, <1>13 DEF Next

(***************************************************************************)
(* The servers have the endpoints of the staged resources and no other,    *)
(* whatever RemoveSource() takes along.                                    *)
(***************************************************************************)
THEOREM EndpointsCorrect == Spec => []EndpointsFollow
<1>1. Init => EndpointsFollow
  BY Constants DEF Init, EndpointsFollow
<1> QED
  BY <1>1, InitTypeOK, NextTypeOK, NextEndpoints, PTL DEF Spec

-----------------------------------------------------------------------------
(* What is committed, and what the registry has                            *)

\* the staged resources have their devices, and so have the committed ones; a
\* resource that no commit would publish has been committed
Placed ==
  /\ staged \ dirty \subseteq committed
  /\ committed \cap Devices \subseteq staged
  /\ \A r \in staged \cap OnDevices : Parent[r] \in staged
  /\ \A r \in committed \cap OnDevices : Parent[r] \in committed

\* and the registry refuses nothing that is posted after the devices
Published == registered => Node \in registry /\ OnlySourcesMissing

LEMMA UpdateTakesAll ==
  ASSUME NEW changed \in SUBSET Resources, NEW resources \in SUBSET Resources,
         Node \in registry,
         changed \subseteq resources,
         resources \ changed \subseteq registry \cup Sources \cup {Node},
         \A r \in resources \cap OnDevices : Parent[r] \in resources
  PROVE  /\ resources \subseteq UpdateRegisterSimple(changed) \cup Sources \cup {Node}
         /\ Node \in UpdateRegisterSimple(changed)
<1> DEFINE first == Take(registry, changed \cap ({Node} \cup Sources))
           second == Take(first, changed \cap Devices)
           third == Take(second, changed \ (Sources \cup Devices))
<1>1. registry \subseteq first
  BY DEF Take
<1> HIDE DEF first
<1>2. first \subseteq second /\ changed \cap Devices \subseteq second
  BY <1>1, Constants DEF NodeResourcesAssumption, Take
<1> HIDE DEF second
<1>3. resources \cap Devices \subseteq second
  BY <1>1, <1>2, Constants DEF NodeResourcesAssumption
<1>4. second \subseteq third
  BY DEF Take
<1>5. ASSUME NEW r \in resources \cap OnDevices, r \notin Sources
      PROVE  r \in third
  <2>1. CASE r \in changed
    <3>1. Parent[r] \in second
      BY <1>3, Constants
    <3> QED
      BY <2>1, <3>1, <1>5, Constants DEF Take
  <2>2. CASE r \notin changed
    BY <2>2, <1>1, <1>2, <1>4, <1>5, Constants
  <2> QED
    BY <2>1, <2>2
<1> HIDE DEF third
<1>6. UpdateRegisterSimple(changed) = third
  BY DEF UpdateRegisterSimple, first, second, third
<1>7. resources \subseteq third \cup Sources \cup {Node}
  BY <1>3, <1>4, <1>5 DEF Resources
<1> QED
  BY <1>1, <1>2, <1>4, <1>6, <1>7

LEMMA CommitPublishes ==
  ASSUME TypeOK, Published,
         NEW resources \in SUBSET Resources, NEW updated \in SUBSET Resources, NEW linked,
         CommitAll(resources, updated, linked),
         resources \ updated \subseteq committed,
         \A r \in resources \cap OnDevices : Parent[r] \in resources
  PROVE  Placed' /\ Published'
<1>1. staged' = resources /\ committed' = resources /\ registered' = registered
  BY DEF CommitAll
<1>2. Placed'
  BY <1>1 DEF Placed
<1>3. CASE registered
  <2>1. registry' = UpdateRegisterSimple(resources \cap updated)
    BY <1>3 DEF CommitAll
  <2>2. resources \ (resources \cap updated) \subseteq registry \cup Sources \cup {Node}
    BY <1>3 DEF Published, OnlySourcesMissing
  <2>3. /\ resources \subseteq UpdateRegisterSimple(resources \cap updated) \cup Sources \cup {Node}
        /\ Node \in UpdateRegisterSimple(resources \cap updated)
    BY <1>3, <2>2, UpdateTakesAll DEF Published
  <2> QED
    BY <1>1, <1>2, <2>1, <2>3 DEF Published, OnlySourcesMissing
<1>4. CASE ~registered
  BY <1>1, <1>2, <1>4 DEF Published
<1> QED
  BY <1>3, <1>4

LEMMA NextPublished == TypeOK /\ Placed /\ Published /\ [Next]_vars => Placed' /\ Published'
<1> SUFFICES ASSUME TypeOK, Placed, Published, [Next]_vars PROVE Placed' /\ Published'
  OBVIOUS
<1> USE Constants
<1>1. ASSUME NEW d \in Devices, AddDevice(d) PROVE Placed' /\ Published'
  BY <1>1 DEF AddDevice, Stage, Placed, Published, OnlySourcesMissing
<1>2. ASSUME NEW s \in Sources, AddSource(s) PROVE Placed' /\ Published'
  <2>1. Parent[s] \in staged
    BY <1>2 DEF AddSource, Placed
  <2> QED
    BY <1>2, <2>1 DEF AddSource, Stage, Placed, Published, OnlySourcesMissing
<1>3. ASSUME NEW s \in Sources, RemoveSource(s) PROVE Placed' /\ Published'
  <2> DEFINE gone == {s} \cup (IF s \in committed THEN Fed(s) ELSE {})
  <2>1. gone \cap Devices = {}
    BY DEF Fed, IOResources
  <2>2. /\ staged' = staged \ gone /\ dirty \subseteq dirty'
        /\ UNCHANGED <<committed, registered, registry>>
    BY <1>3 DEF RemoveSource
  <2> HIDE DEF gone
  <2> QED
    BY <2>1, <2>2 DEF Placed, Published, OnlySourcesMissing
<1>4. ASSUME NEW f \in Flows, AddFlow(f) PROVE Placed' /\ Published'
  <2>1. Parent[f] \in staged
    BY <1>4 DEF AddFlow, Placed
  <2> QED
    BY <1>4, <2>1 DEF AddFlow, Stage, Placed, Published, OnlySourcesMissing
<1>5. ASSUME NEW r \in Receivers, AddReceiver(r) PROVE Placed' /\ Published'
  BY <1>5 DEF AddReceiver, Placed, Published, OnlySourcesMissing, IOResources
<1>6. ASSUME NEW s \in Senders, AddSender(s) PROVE Placed' /\ Published'
  <2> DEFINE resources == staged \cup {s}
             updated == dirty \cup {s, Parent[s]}
  <2>1. s \in OnDevices
    BY DEF IOResources
  <2>2. resources \in SUBSET Resources /\ updated \in SUBSET Resources
    BY <2>1 DEF TypeOK
  <2>3. resources \ updated \subseteq committed
    BY DEF Placed
  <2>4. \A r \in resources \cap OnDevices : Parent[r] \in resources
    BY <1>6 DEF AddSender, Placed
  <2>5. CommitAll(resources, updated, Listed(s))
    BY <1>6 DEF AddSender
  <2> QED
    BY <2>2, <2>3, <2>4, <2>5, CommitPublishes
<1>7. ASSUME NEW r \in IOResources, RemoveIOResource(r) PROVE Placed' /\ Published'
  <2>1. /\ staged' = staged \ {r} /\ dirty \subseteq dirty'
        /\ UNCHANGED <<committed, registered, registry>>
    BY <1>7 DEF RemoveIOResource
  <2> QED
    BY <2>1 DEF Placed, Published, OnlySourcesMissing
<1>8. ASSUME NEW r \in IOResources, CommitActivation(r) PROVE Placed' /\ Published'
  <2>1. CommitAll(staged, dirty \cup ({r} \cap staged), links)
    BY <1>8 DEF CommitActivation
  <2>2. dirty \cup ({r} \cap staged) \in SUBSET Resources /\ staged \in SUBSET Resources
    BY DEF TypeOK
  <2> QED
    BY <2>1, <2>2, CommitPublishes DEF Placed
<1>9. ASSUME NEW r \in Edited, UpdateVersionTime(r) PROVE Placed' /\ Published'
  BY <1>9 DEF UpdateVersionTime, Placed, Published, OnlySourcesMissing
<1>10. CASE Commit
  <2>1. CommitAll(staged, dirty, links)
    BY <1>10 DEF Commit
  <2>2. dirty \in SUBSET Resources /\ staged \in SUBSET Resources
    BY DEF TypeOK
  <2> QED
    BY <2>1, <2>2, CommitPublishes DEF Placed
<1>11. CASE RegisterSimple
  <2> DEFINE first == Take({Node}, committed \cap Devices)
  <2>1. Node \in first /\ committed \cap Devices \subseteq first
    BY DEF NodeResourcesAssumption, Take
  <2>2. registry' = Take(first, committed \cap OnDevices) /\ registered'
        /\ UNCHANGED <<staged, committed, dirty>>
    BY <1>11 DEF RegisterSimple
  <2> HIDE DEF first
  <2>3. \A r \in committed \cap OnDevices : Parent[r] \in first
    BY <2>1 DEF Placed
  <2>4. first \subseteq registry' /\ committed \cap OnDevices \subseteq registry'
    BY <2>2, <2>3 DEF Take
  <2>5. committed \subseteq {Node} \cup Devices \cup OnDevices
    BY DEF TypeOK, Resources
  <2>6. Placed'
    BY <2>2 DEF Placed
  <2> QED
    BY <2>1, <2>2, <2>4, <2>5, <2>6 DEF Published, OnlySourcesMissing
<1>12. CASE FindNone
  BY <1>12 DEF FindNone, Placed, Published
<1>13. CASE UNCHANGED vars
  BY <1>13 DEF vars, Placed, Published, OnlySourcesMissing
<1> QED
  BY <1>1, <1>2, <1>3, <1>4, <1>5, <1>6, <1>7, <1>8, <1>9, <1>10, <1>11, <1>12, <1>13 DEF Next

(***************************************************************************)
(* The order of the POSTs is one that a registry accepts, except for the   *)
(* sources: it has every other resource that has been committed.           *)
(***************************************************************************)
THEOREM RegistryMissesOnlySources == Spec => []OnlySourcesMissing
<1>1. Init => Placed /\ Published
  BY Constants DEF Init, Placed, Published
<1>2. Published => OnlySourcesMissing
  BY DEF Published, OnlySourcesMissing
<1> QED
  BY <1>1, <1>2, InitTypeOK, NextTypeOK, NextPublished, PTL DEF Spec

-----------------------------------------------------------------------------
(* The lists of the devices                                                *)

\* a device lists what is staged on it, and its JSON is the list unless a change
\* of the device waits
Linked ==
  /\ \A r \in staged \cap IOResources : r \in links[Parent[r]]
  /\ \A d \in Devices \ dirty : json[d] = links[d]

LEMMA CommitLinks ==
  ASSUME TypeOK,
         NEW resources \in SUBSET Resources, NEW updated \in SUBSET Resources,
         NEW linked \in [Devices -> SUBSET IOResources],
         CommitAll(resources, updated, linked),
         \A r \in resources \cap IOResources : r \in linked[Parent[r]],
         \A d \in Devices \ updated : json[d] = linked[d]
  PROVE  Linked'
<1>1. staged' = resources /\ links' = linked /\ dirty' = updated \ (resources \cap updated)
  BY DEF CommitAll
<1>2. json' = [d \in Devices |-> IF d \in resources \cap updated THEN linked[d] ELSE json[d]]
  BY DEF CommitAll
<1> QED
  BY <1>1, <1>2 DEF Linked

LEMMA NextLinked == TypeOK /\ Placed /\ Linked /\ [Next]_vars => Linked'
<1> SUFFICES ASSUME TypeOK, Placed, Linked, [Next]_vars PROVE Linked'
  OBVIOUS
<1> USE Constants
<1>a. staged \in SUBSET Resources /\ dirty \in SUBSET Resources
      /\ links \in [Devices -> SUBSET IOResources]
  BY DEF TypeOK
<1>1. ASSUME NEW d \in Devices, AddDevice(d) PROVE Linked'
  BY <1>1 DEF AddDevice, Stage, Linked
<1>2. ASSUME NEW s \in Sources, AddSource(s) PROVE Linked'
  <2>1. s \notin IOResources
    BY DEF NodeResourcesAssumption
  <2> QED
    BY <1>2, <2>1 DEF AddSource, Stage, Linked
<1>3. ASSUME NEW s \in Sources, RemoveSource(s) PROVE Linked'
  <2>1. staged' \subseteq staged /\ dirty \subseteq dirty' /\ UNCHANGED <<links, json>>
    BY <1>3 DEF RemoveSource
  <2> QED
    BY <2>1 DEF Linked
<1>4. ASSUME NEW f \in Flows, AddFlow(f) PROVE Linked'
  <2>1. f \notin IOResources
    BY DEF NodeResourcesAssumption
  <2> QED
    BY <1>4, <2>1 DEF AddFlow, Stage, Linked
<1>5. ASSUME NEW r \in Receivers, AddReceiver(r) PROVE Linked'
  <2>1. r \in IOResources
    BY DEF IOResources
  <2>2. /\ staged' = staged \cup {r} /\ dirty' = dirty \cup {r, Parent[r]}
        /\ links' = [links EXCEPT ![Parent[r]] = @ \cup {r}] /\ json' = json
    BY <1>5 DEF AddReceiver, Listed
  <2> QED
    BY <1>a, <2>1, <2>2 DEF Linked
<1>6. ASSUME NEW s \in Senders, AddSender(s) PROVE Linked'
  <2>1. s \in IOResources
    BY DEF IOResources
  <2>2. Listed(s) \in [Devices -> SUBSET IOResources]
    BY <2>1, LinksTyped
  <2>3. \A r \in (staged \cup {s}) \cap IOResources : r \in Listed(s)[Parent[r]]
    BY <1>a, <2>1 DEF Listed, Linked
  <2>4. \A d \in Devices \ (dirty \cup {s, Parent[s]}) : json[d] = Listed(s)[d]
    BY <1>a DEF Listed, Linked
  <2>5. CommitAll(staged \cup {s}, dirty \cup {s, Parent[s]}, Listed(s))
    BY <1>6 DEF AddSender
  <2> QED
    BY <1>a, <2>1, <2>2, <2>3, <2>4, <2>5, CommitLinks
<1>7. ASSUME NEW r \in IOResources, RemoveIOResource(r) PROVE Linked'
  <2>1. staged' = staged \ {r} /\ json' = json
    BY <1>7 DEF RemoveIOResource
  <2>2. CASE r \in committed /\ Parent[r] \in staged
    <3>1. links' = [links EXCEPT ![Parent[r]] = @ \ {r}] /\ dirty' = dirty \cup {Parent[r]}
      BY <1>7, <2>2 DEF RemoveIOResource, Unlisted
    <3> QED
      BY <1>a, <2>1, <3>1 DEF Linked
  <2>3. CASE ~(r \in committed /\ Parent[r] \in staged)
    BY <1>7, <2>1, <2>3 DEF RemoveIOResource, Linked
  <2> QED
    BY <2>2, <2>3
<1>8. ASSUME NEW r \in IOResources, CommitActivation(r) PROVE Linked'
  <2>1. CommitAll(staged, dirty \cup ({r} \cap staged), links)
    BY <1>8 DEF CommitActivation
  <2>2. \A d \in Devices \ (dirty \cup ({r} \cap staged)) : json[d] = links[d]
    BY DEF Linked
  <2>3. \A x \in staged \cap IOResources : x \in links[Parent[x]]
    BY DEF Linked
  <2>4. dirty \cup ({r} \cap staged) \in SUBSET Resources
    BY <1>a
  <2> QED
    BY <1>a, <2>1, <2>2, <2>3, <2>4, CommitLinks
<1>9. ASSUME NEW r \in Edited, UpdateVersionTime(r) PROVE Linked'
  BY <1>9 DEF UpdateVersionTime, Linked
<1>10. CASE Commit
  <2>1. CommitAll(staged, dirty, links)
    BY <1>10 DEF Commit
  <2> QED
    BY <1>a, <2>1, CommitLinks DEF Linked
<1>11. CASE RegisterSimple
  BY <1>11 DEF RegisterSimple, Linked
<1>12. CASE FindNone
  BY <1>12 DEF FindNone, Linked
<1>13. CASE UNCHANGED vars
  BY <1>13 DEF vars, Linked
<1> QED
  BY <1>1, <1>2, <1>3, <1>4, <1>5, <1>6, <1>7, <1>8, <1>9, <1>10, <1>11, <1>12, <1>13 DEF Next

(***************************************************************************)
(* The JSON of a device lists every sender and receiver on it that is      *)
(* committed and not removed, unless a change of the device waits.         *)
(***************************************************************************)
THEOREM DevicesCorrect == Spec => []DevicesListTheirs
<1>1. Init => Placed /\ Published /\ Linked
  BY Constants DEF Init, Placed, Published, Linked
<1>2. Linked => DevicesListTheirs
  BY Constants DEF Linked, DevicesListTheirs
<1> QED
  BY <1>1, <1>2, InitTypeOK, NextTypeOK, NextPublished, NextLinked, PTL DEF Spec

-----------------------------------------------------------------------------
(* Peers                                                                   *)

\* in peer-to-peer mode the TXT record has the versions
Announced == ~registered => txt = version

Noticed ==
  \A k \in Kinds :
    ~registered /\ (OfKind[k] \cap dirty) \ dirty' # {} => txt'[k] # txt[k]

LEMMA CommitNoticed ==
  ASSUME TypeOK, Announced,
         NEW resources, NEW updated, NEW linked,
         CommitAll(resources, updated, linked), dirty \subseteq updated
  PROVE  Announced' /\ Noticed
<1> DEFINE changed == resources \cap updated
           versions == [k \in Kinds |->
                          IF OfKind[k] \cap changed = {} THEN version[k] ELSE Bumped(version[k])]
<1>1. /\ version' = versions /\ txt' = IF registered \/ changed = {} THEN txt ELSE versions
      /\ dirty' = updated \ changed /\ registered' = registered
  BY DEF CommitAll
<1>2. ASSUME changed = {} PROVE versions = version
  BY <1>2 DEF TypeOK
<1>3. Announced'
  <2> HIDE DEF changed, versions
  <2> QED
    BY <1>1, <1>2 DEF Announced
<1>4. ASSUME NEW k \in Kinds, ~registered, (OfKind[k] \cap dirty) \ dirty' # {}
      PROVE  txt'[k] # txt[k]
  <2>1. OfKind[k] \cap changed # {}
    BY <1>1, <1>4
  <2>2. versions[k] = Bumped(version[k])
    BY <2>1
  <2>3. version[k] \in 0 .. MaxVersion
    BY DEF TypeOK
  <2> HIDE DEF versions
  <2>4. txt' = versions /\ txt = version
    BY <1>1, <1>4, <2>1 DEF Announced
  <2> QED
    BY <2>2, <2>3, <2>4, BumpedTyped
<1> QED
  BY <1>3, <1>4 DEF Noticed

LEMMA NextNoticed == TypeOK /\ Announced /\ [Next]_vars => Announced' /\ (Noticed \/ UNCHANGED vars)
<1> SUFFICES ASSUME TypeOK, Announced, [Next]_vars
             PROVE  Announced' /\ (Noticed \/ UNCHANGED vars)
  OBVIOUS
\* the other steps withdraw no change
<1>a. ASSUME dirty \subseteq dirty', UNCHANGED <<version, txt, registered>>
      PROVE  Announced' /\ Noticed
  BY <1>a DEF Announced, Noticed
<1>1. ASSUME NEW d \in Devices, AddDevice(d) PROVE Announced' /\ Noticed
  BY <1>1, <1>a DEF AddDevice, Stage
<1>2. ASSUME NEW s \in Sources, AddSource(s) PROVE Announced' /\ Noticed
  BY <1>2, <1>a DEF AddSource, Stage
<1>3. ASSUME NEW s \in Sources, RemoveSource(s) PROVE Announced' /\ Noticed
  BY <1>3, <1>a DEF RemoveSource
<1>4. ASSUME NEW f \in Flows, AddFlow(f) PROVE Announced' /\ Noticed
  BY <1>4, <1>a DEF AddFlow, Stage
<1>5. ASSUME NEW r \in Receivers, AddReceiver(r) PROVE Announced' /\ Noticed
  BY <1>5, <1>a DEF AddReceiver
<1>6. ASSUME NEW s \in Senders, AddSender(s) PROVE Announced' /\ Noticed
  <2>1. CommitAll(staged \cup {s}, dirty \cup {s, Parent[s]}, Listed(s))
    BY <1>6 DEF AddSender
  <2> QED
    BY <2>1, CommitNoticed
<1>7. ASSUME NEW r \in IOResources, RemoveIOResource(r) PROVE Announced' /\ Noticed
  BY <1>7, <1>a DEF RemoveIOResource
<1>8. ASSUME NEW r \in IOResources, CommitActivation(r) PROVE Announced' /\ Noticed
  <2>1. CommitAll(staged, dirty \cup ({r} \cap staged), links)
    BY <1>8 DEF CommitActivation
  <2> QED
    BY <2>1, CommitNoticed
<1>9. ASSUME NEW r \in Edited, UpdateVersionTime(r) PROVE Announced' /\ Noticed
  BY <1>9, <1>a DEF UpdateVersionTime
<1>10. CASE Commit
  <2>1. CommitAll(staged, dirty, links)
    BY <1>10 DEF Commit
  <2> QED
    BY <2>1, CommitNoticed
<1>11. CASE RegisterSimple
  BY <1>11 DEF RegisterSimple, Announced, Noticed
<1>12. CASE FindNone
  BY <1>12 DEF FindNone, Announced, Noticed
<1>13. CASE UNCHANGED vars
  BY <1>13 DEF vars, Announced
<1> QED
  BY <1>1, <1>2, <1>3, <1>4, <1>5, <1>6, <1>7, <1>8, <1>9, <1>10, <1>11, <1>12, <1>13 DEF Next

(***************************************************************************)
(* In peer-to-peer mode a commit of a new or updated resource changes the  *)
(* ver_ key of its kind, whatever the limit at which the counters wrap.    *)
(***************************************************************************)
THEOREM PeersAreTold == Spec => PeersNotice
<1>1. Init => Announced
  BY DEF Init, Announced
<1>2. TypeOK /\ Announced /\ [Next]_vars => [Noticed]_vars
  BY NextNoticed
<1>3. Spec => [][Noticed]_vars
  BY <1>1, <1>2, InitTypeOK, NextTypeOK, NextNoticed, PTL DEF Spec
<1> QED
  BY <1>3 DEF PeersNotice, Noticed
=============================================================================
