---------------------------- MODULE NodeResources ----------------------------
(***************************************************************************)
(* The resources of a node: NodeApiPrivate (node/src/nodeapiprivate.cpp)   *)
(* keeps a ResourceHolder (resourceholder.cpp) for each kind.  The         *)
(* application adds and removes resources in the staged maps, Commit()     *)
(* copies these to the maps that are served over HTTP and announces what   *)
(* has changed: to the registry, or, as a peer, by the ver_ keys of the    *)
(* node's TXT record.                                                      *)
(*                                                                         *)
(* A step is a call of the application, or an activation, which commits    *)
(* too; how the POSTs of a commit interleave with those of a registration  *)
(* is in Registration.  Ids are made from labels: a resource added again   *)
(* after its removal is a new object with the old id.                      *)
(***************************************************************************)
EXTENDS Integers

CONSTANTS
  Node,       \* m_self
  Devices, Sources, Flows, Senders, Receivers,   \* ids of the others
  Parent,     \* GetParentResourceId(): a device's node, the others' device
  SourceOf,   \* GetSourceId() of a flow
  FlowOf,     \* GetFlowId() of a sender
  Edited,     \* the resources whose setters the application calls
  MaxVersion, \* where m_nVersion wraps: 255
  Silent      \* in the TXT record: no ver_ key

IOResources == Senders \cup Receivers
OnDevices == Sources \cup Flows \cup IOResources
Resources == {Node} \cup Devices \cup OnDevices

ASSUME NodeResourcesAssumption ==
  /\ Node \notin Devices \cup OnDevices /\ Devices \cap OnDevices = {}
  /\ Sources \cap (Flows \cup IOResources) = {} /\ Flows \cap IOResources = {}
  /\ Parent \in [Devices \cup OnDevices -> {Node} \cup Devices]
  /\ \A d \in Devices : Parent[d] = Node
  /\ \A r \in OnDevices : Parent[r] \in Devices
  /\ SourceOf \in [Flows -> Sources]
  /\ FlowOf \in [Senders -> Flows] /\ Edited \subseteq Resources
  /\ MaxVersion \in Nat \ {0} /\ Silent \notin 0 .. MaxVersion

OfKind == [slf |-> {Node}, dvc |-> Devices, src |-> Sources, flw |-> Flows,
           snd |-> Senders, rcv |-> Receivers]
Kinds == DOMAIN OfKind

VARIABLES
  staged, committed,   \* the ids in the holders' two maps
  dirty,      \* those with m_sVersion # m_sLastVersion
  links,      \* each device's m_setSenders and m_setReceivers
  json,       \* the same as they are in its m_json
  endpoints,  \* resources the IS-04 servers have an endpoint for
  controls,   \* and those the IS-05 servers have
  version,    \* m_nVersion of each holder, m_nDnsVersion of m_self
  txt,        \* the ver_ keys of the TXT record
  registered, \* m_sRegistrationNode is not empty
  registry    \* what of the node the registry has taken

vars == <<staged, committed, dirty, links, json, endpoints, controls, version, txt,
          registered, registry>>

TypeOK ==
  /\ staged \in SUBSET Resources /\ committed \in SUBSET Resources
  /\ dirty \in SUBSET Resources
  /\ links \in [Devices -> SUBSET IOResources] /\ json \in [Devices -> SUBSET IOResources]
  /\ endpoints \in SUBSET Resources /\ controls \in SUBSET IOResources
  /\ version \in [Kinds -> 0 .. MaxVersion]
  /\ txt \in [Kinds -> (0 .. MaxVersion) \cup {Silent}]
  /\ registered \in BOOLEAN /\ registry \in SUBSET Resources

\* Init() has been called and the node is published
Init ==
  /\ staged = {Node} /\ committed = {} /\ dirty = {Node}
  /\ links = [d \in Devices |-> {}] /\ json = [d \in Devices |-> {}]
  /\ endpoints = {} /\ controls = {}
  /\ version = [k \in Kinds |-> 0] /\ txt = version
  /\ registered = FALSE /\ registry = {}

-----------------------------------------------------------------------------
(* Commit()                                                                *)

\* a registry refuses what it does not know the parent of
Take(reg, rs) == reg \cup {r \in rs \ {Node} : Parent[r] \in reg} \cup (rs \cap {Node})

\* mutant of UpdateRegisterSimple: sources, senders and receivers, then the others
IOFirst(changed) ==
  LET first  == Take(registry, changed \cap ({Node} \cup Sources \cup IOResources))
      second == Take(first, changed \cap Devices)
  IN  Take(second, changed \cap Flows)

\* the order of the holders in Commit(); nobody looks at the answers
UpdateRegisterSimple(changed) ==
  LET first  == Take(registry, changed \cap ({Node} \cup Sources))
      second == Take(first, changed \cap Devices)
  IN  Take(second, changed \ (Sources \cup Devices))

\* mutant of Bumped: an int
BumpedInt(v) == v + 1

\* mutant of Bumped: stays at its limit
BumpedToLimit(v) == IF v < MaxVersion THEN v + 1 ELSE v

\* ResourceUpdated()
Bumped(v) == IF v < MaxVersion THEN v + 1 ELSE 0

\* of the resources given, changed as given, all API versions in one go
CommitAll(resources, updated, linked) ==
  LET changed == resources \cap updated
      versions == [k \in Kinds |->
                     IF OfKind[k] \cap changed = {} THEN version[k] ELSE Bumped(version[k])]
  IN  /\ staged' = resources /\ committed' = resources
      /\ dirty' = updated \ changed
      /\ links' = linked
      /\ json' = [d \in Devices |-> IF d \in changed THEN linked[d] ELSE json[d]]
      /\ version' = versions
      /\ txt' = IF registered \/ changed = {} THEN txt ELSE versions
      /\ registry' = IF registered THEN UpdateRegisterSimple(changed) ELSE registry
      /\ UNCHANGED registered

Commit == CommitAll(staged, dirty, links) /\ UNCHANGED <<endpoints, controls>>

-----------------------------------------------------------------------------
(* What the application calls                                              *)

\* a setter of a resource, which ends in UpdateVersionTime()
UpdateVersionTime(r) ==
  /\ r \in staged
  /\ dirty' = dirty \cup {r}
  /\ UNCHANGED <<staged, committed, links, json, endpoints, controls, version, txt,
                 registered, registry>>

Stage(r) ==
  /\ staged' = staged \cup {r}
  /\ endpoints' = endpoints \cup {r}
  /\ UNCHANGED <<committed, links, json, controls, version, txt, registered, registry>>

\* AddControl() updates its version, also if it is there already
AddDevice(d) ==
  /\ Stage(d)
  /\ dirty' = dirty \cup {d}

\* with a clock, SetClock() updates its version
AddSource(s) ==
  /\ Parent[s] \in staged \cup committed
  /\ Stage(s)
  /\ \/ dirty' = dirty \cup {s}
     \/ s \in staged /\ UNCHANGED dirty

AddFlow(f) ==
  /\ Parent[f] \in staged \cup committed /\ SourceOf[f] \in staged \cup committed
  /\ Stage(f)
  /\ dirty' = IF f \in staged THEN dirty ELSE dirty \cup {f}

\* the device's list, and the version of the device
Listed(r) == [links EXCEPT ![Parent[r]] = @ \cup {r}]
Unlisted(r) == [links EXCEPT ![Parent[r]] = @ \ {r}]

\* mutant of AddReceiver: does not update the version of the device
AddReceiverOnly(r) ==
  /\ Parent[r] \in staged /\ r \notin staged
  /\ staged' = staged \cup {r}
  /\ endpoints' = endpoints \cup {r} /\ controls' = controls \cup {r}
  /\ links' = Listed(r)
  /\ dirty' = dirty \cup {r}
  /\ UNCHANGED <<committed, json, version, txt, registered, registry>>

AddReceiver(r) ==
  /\ Parent[r] \in staged /\ r \notin staged
  /\ staged' = staged \cup {r}
  /\ endpoints' = endpoints \cup {r} /\ controls' = controls \cup {r}
  /\ links' = Listed(r)
  /\ dirty' = dirty \cup {r, Parent[r]}
  /\ UNCHANGED <<committed, json, version, txt, registered, registry>>

\* it is activated at once, and that commits all that is staged; its flow may
\* not be there
AddSender(s) ==
  /\ Parent[s] \in staged /\ s \notin staged
  /\ endpoints' = endpoints \cup {s} /\ controls' = controls \cup {s}
  /\ CommitAll(staged \cup {s}, dirty \cup {s, Parent[s]}, Listed(s))

\* RemoveSender() and RemoveReceiver(): the device learns of it if the resource
\* is committed
RemoveIOResource(r) ==
  /\ staged' = staged \ {r}
  /\ endpoints' = endpoints \ {r} /\ controls' = controls \ {r}
  /\ IF r \in committed /\ Parent[r] \in staged
     THEN links' = Unlisted(r) /\ dirty' = dirty \cup {Parent[r]}
     ELSE UNCHANGED <<links, dirty>>
  /\ UNCHANGED <<committed, json, version, txt, registered, registry>>

\* what RemoveSource() removes with a committed source: its staged flows, and the
\* staged senders of its committed flows
Fed(s) ==
  {f \in staged \cap Flows : SourceOf[f] = s}
    \cup {x \in staged \cap Senders : FlowOf[x] \in committed /\ SourceOf[FlowOf[x]] = s}

\* mutant of RemoveSource: leaves the endpoints of the senders
RemoveSourceOnly(s) ==
  LET gone == {s} \cup (IF s \in committed THEN Fed(s) ELSE {})
  IN  /\ staged' = staged \ gone
      /\ endpoints' = endpoints \ (gone \ Senders) /\ controls' = controls
      /\ dirty' = IF s \in committed /\ Parent[s] \in staged THEN dirty \cup {Parent[s]} ELSE dirty
      /\ UNCHANGED <<committed, links, json, version, txt, registered, registry>>

\* its device is told to remove a sender with the source's id, and goes on
\* listing the senders
RemoveSource(s) ==
  LET gone == {s} \cup (IF s \in committed THEN Fed(s) ELSE {})
  IN  /\ staged' = staged \ gone
      /\ endpoints' = endpoints \ gone /\ controls' = controls \ gone
      /\ dirty' = IF s \in committed /\ Parent[s] \in staged THEN dirty \cup {Parent[s]} ELSE dirty
      /\ UNCHANGED <<committed, links, json, version, txt, registered, registry>>

-----------------------------------------------------------------------------
(* Activations and registration                                            *)

\* CommitActivation() of a sender or a receiver that may have been removed
CommitActivation(r) ==
  /\ r \in committed
  /\ CommitAll(staged, dirty \cup ({r} \cap staged), links)
  /\ UNCHANGED <<endpoints, controls>>

\* FindRegistrationNode() and RegisterSimple(), parents first
RegisterSimple ==
  /\ ~registered
  /\ registered' = TRUE
  /\ registry' = Take(Take({Node}, committed \cap Devices), committed \cap OnDevices)
  /\ txt' = [k \in Kinds |-> Silent]
  /\ UNCHANGED <<staged, committed, dirty, links, json, endpoints, controls, version>>

\* FindRegistrationNode() finds no registry any more
FindNone ==
  /\ registered
  /\ registered' = FALSE /\ registry' = {}
  /\ txt' = version
  /\ UNCHANGED <<staged, committed, dirty, links, json, endpoints, controls, version>>

Next ==
  \/ \E d \in Devices : AddDevice(d)
  \/ \E s \in Sources : AddSource(s) \/ RemoveSource(s)
  \/ \E f \in Flows : AddFlow(f)
  \/ \E r \in Receivers : AddReceiver(r)
  \/ \E s \in Senders : AddSender(s)
  \/ \E r \in IOResources : RemoveIOResource(r) \/ CommitActivation(r)
  \/ \E r \in Edited : UpdateVersionTime(r)
  \/ Commit \/ RegisterSimple \/ FindNone

Spec == Init /\ [][Next]_vars

-----------------------------------------------------------------------------
(* Properties                                                              *)

(***************************************************************************)
(* A device announces what is on it: unless a change of the device waits   *)
(* for a commit, the device's JSON lists every sender and receiver of it   *)
(* that has been committed and not removed, however adds, removals of      *)
(* sources, commits and activations follow on each other.                  *)
(***************************************************************************)
DevicesListTheirs ==
  \A r \in committed \cap staged \cap IOResources :
    Parent[r] \notin dirty => r \in json[Parent[r]]

(***************************************************************************)
(* The endpoints of the HTTP servers are those of the staged resources:    *)
(* none is left behind when RemoveSource() takes flows and senders along,  *)
(* and none is missing.                                                    *)
(***************************************************************************)
EndpointsFollow ==
  endpoints = staged \ {Node} /\ controls = staged \cap IOResources

(***************************************************************************)
(* A peer that polls when a ver_ key changes sees every resource that is   *)
(* new or updated, also when the counter of a kind wraps.                  *)
(***************************************************************************)
PeersNotice ==
  [][\A k \in Kinds :
       ~registered /\ (OfKind[k] \cap dirty) \ dirty' # {} => txt'[k] # txt[k]]_vars

(***************************************************************************)
(* The registry learns of every committed resource that is not a source,   *)
(* although Commit() ignores its answers: whatever order resources were    *)
(* added and committed in, the POSTs come in an order it accepts.          *)
(***************************************************************************)
OnlySourcesMissing == registered => committed \subseteq registry \cup Sources \cup {Node}
=============================================================================
