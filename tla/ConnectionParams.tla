-------------------------- MODULE ConnectionParams --------------------------
(***************************************************************************)
(* The RTP transport parameters of a sender and of a receiver of another   *)
(* node, the constraints on them, and the transport file (SDP) that a      *)
(* controller carries from the one to the other (base/src: transportparams,*)
(* connection, constraint, ioresource, sdp, senderbase, receiverbase).     *)
(*                                                                         *)
(* A stream's parameters are a function of the members that its JSON       *)
(* object has by now.  When a PATCH is accepted and when it is activated   *)
(* is in ConnectionApi: here either happens at any time.  The sender's     *)
(* flow and source exist, and the flow has a media line.                   *)
(*                                                                         *)
(* An integer of a request fits an int, a number in a file a long; a text  *)
(* is a word of one line that is no address and begins with no number; the *)
(* minimum and the maximum of a constraint are on ports.                   *)
(***************************************************************************)
EXTENDS Integers, Sequences, FiniteSets

CONSTANTS
  Unicasts, Multicasts,           \* IPv4 addresses
  Texts,                          \* any other word: not empty, no number first
  XOR, Reed,                      \* texts: the values of fec_type
  AUTO, Null,                     \* "auto" and JSON's null
  Streams,                        \* 2 with flagsTP::REDUNDANT, else 1
  Allowed,                        \* flagsTP, of both
  SenderInterfaces, Interfaces,   \* addresses of the sender's node, the receiver's
  SourceIps, MulticastIps,        \* of the sender's streams, when it is added
  SenderPatches, ReceiverPatches, \* requests; their transport_params are <<>> if absent
  ForeignSdps,                    \* transport files that other nodes make
  Destinations,                   \* what the sender's application assigns
  Details,                        \* and what it sets: an ip and a port per stream
  Marks,                          \* the streams that it marks as active or not
  Limits                          \* constraints that the applications add

VARIABLES
  sender,    \* m_Staged, m_Active, their master_enable, m_vSourceDestIp and file
  receiver,  \* m_Staged, m_Active, m_sInterfaceIp
  limits,    \* m_vConstraints of both
  crashed    \* the process has ended

paramsVars == <<sender, receiver, limits, crashed>>

Addresses == Unicasts \cup Multicasts
PortSpace == 65536
Port == 0 .. PortSpace - 1
PortNumber(n) == n \in Port /\ n # 0

\* an address that was the last word of a line of an SDP keeps the line's CR
WithCR == {<<a, "CR">> : a \in Addresses}
Multicast(a) == a \in Multicasts \cup {<<m, "CR">> : m \in Multicasts}
Unicast(a) == a \in Unicasts \cup {<<u, "CR">> : u \in Unicasts}

Strings == Addresses \cup WithCR \cup Texts \cup {AUTO}

\* what a line of a transport file says: its words, AUTO for a port that is no
\* number, and whether a time to live follows the address
Words == Strings \cup {Null}
Lines == [type : {"origin"}, ip : Words]
         \cup [type : {"connection"}, ip : Words, ttl : BOOLEAN]
         \cup [type : {"filter"}, group : Words, ip : Words]
         \cup [type : {"media"}, port : Int \cup {AUTO}]
         \cup [type : {"rtcp"}, port : Int \cup {AUTO}, ip : Words]
Sdps == [cr : BOOLEAN, lines : Seq(Lines)]

FecTypes == {XOR, Reed}

ASSUME ParamsAssumption ==
  /\ Streams \in {1, 2}
  /\ Unicasts \cap Multicasts = {} /\ Addresses \cap WithCR = {}
  /\ FecTypes \subseteq Texts
  /\ \A x \in Texts \cup {AUTO, Null} : x \notin Addresses /\ x \notin WithCR /\ x \notin Int
  /\ AUTO # Null /\ AUTO \notin Texts /\ Null \notin Texts
  /\ SenderInterfaces \cup Interfaces \subseteq Addresses
  /\ SourceIps \in [1 .. Streams -> SenderInterfaces \cup {Null}]
  /\ {MulticastIps} \cup Destinations \subseteq [1 .. Streams -> Addresses \cup {Null}]
  /\ \A d \in Details : d \in Seq([ip : Strings, port : Port])
  /\ \A p \in SenderPatches : p.enable \in BOOLEAN
  /\ ForeignSdps \subseteq Sdps /\ Null \notin Sdps
  /\ \A x \in Marks \cup Limits : x.streams \in {1 .. Streams} \cup {{i} : i \in 1 .. Streams}
  /\ \A m \in Marks : m.active \in BOOLEAN

IpKeys == {"source_ip", "destination_ip", "multicast_ip", "interface_ip",
           "fec_destination_ip", "rtcp_destination_ip"}
PortKeys == {"source_port", "destination_port", "rtcp_source_port", "rtcp_destination_port",
             "fec1D_source_port", "fec2D_source_port",
             "fec1D_destination_port", "fec2D_destination_port"}

\* the receiver takes none of these
SenderOnly == {"destination_ip", "source_port", "rtcp_source_port", "fec1D_source_port",
               "fec2D_source_port", "fec_type", "fec_block_width", "fec_block_height"}
FecKeys == {"fec_type", "fec_mode", "fec_destination_ip", "fec_block_width", "fec_block_height",
            "fec1D_source_port", "fec1D_destination_port", "fec2D_source_port",
            "fec2D_destination_port"}
RtcpKeys == {"rtcp_source_port", "rtcp_destination_ip", "rtcp_destination_port"}

\* the JSON type of a member of a request; an integer fits an int
Value(k, v) ==
  CASE k \in IpKeys \cup {"fec_type", "fec_mode"} -> v \in Strings
    [] k \in PortKeys -> v \in Int \/ v \in Texts \cup {AUTO}
    [] k \in {"rtp_enabled", "fec_enabled", "rtcp_enabled"} -> v \in BOOLEAN
    [] k \in {"fec_block_width", "fec_block_height"} -> v \in Int
    [] OTHER -> FALSE

(* CheckJson() of each *)
SenderTakes(k, v) == k \notin {"multicast_ip", "interface_ip"} /\ Value(k, v)
ReceiverTakes(k, v) ==
  k \notin SenderOnly /\ (Value(k, v) \/ (v = Null /\ k \in {"source_ip", "multicast_ip"}))

\* the sender refuses other codes and sizes of FEC
FecUsable(k, v) ==
  /\ k = "fec_type" => v \in FecTypes
  /\ k \in {"fec_block_width", "fec_block_height"} => v \in 4 .. 200

\* what a member may be by now
SenderHas(k, v) ==
  /\ k \notin {"multicast_ip", "interface_ip"} /\ FecUsable(k, v)
  /\ Value(k, v) \/ (v = Null /\ k \in IpKeys)
ReceiverHas(k, v) == k \notin SenderOnly /\ (Value(k, v) \/ (v = Null /\ k \in IpKeys))

SenderParams(tp) ==
  /\ {"source_ip", "destination_ip", "source_port", "destination_port", "rtp_enabled"} \subseteq DOMAIN tp
  /\ \A k \in DOMAIN tp : SenderHas(k, tp[k])
ReceiverParams(tp) ==
  /\ {"source_ip", "interface_ip", "destination_port", "rtp_enabled"} \subseteq DOMAIN tp
  /\ \A k \in DOMAIN tp : ReceiverHas(k, tp[k])

ParamsTypeOK ==
  /\ \A i \in 1 .. Streams : /\ SenderParams(sender.staged[i]) /\ SenderParams(sender.active[i])
                            /\ ReceiverParams(receiver.staged[i]) /\ ReceiverParams(receiver.active[i])
  /\ {sender.source, sender.destination} \subseteq [1 .. Streams -> Addresses \cup {Null}]
  /\ sender.enabled \in BOOLEAN /\ receiver.interface \in Addresses
  /\ sender.file \in Sdps /\ crashed \in BOOLEAN

-----------------------------------------------------------------------------
(* Transport parameters                                                    *)

\* m_json gets these members, in place of what it had of them
With(tp, members) == [k \in DOMAIN tp \cup DOMAIN members |->
                        IF k \in DOMAIN members THEN members[k] ELSE tp[k]]

FecAllowed == [fec_enabled |-> FALSE, fec_destination_ip |-> AUTO, fec_mode |-> AUTO,
               fec1D_destination_port |-> AUTO, fec2D_destination_port |-> AUTO]

SenderFecAllowed ==
  With(FecAllowed, [fec1D_source_port |-> AUTO, fec2D_source_port |-> AUTO, fec_type |-> Reed,
                    fec_block_width |-> 4, fec_block_height |-> 4])

RtcpAllowed == [rtcp_enabled |-> FALSE, rtcp_destination_port |-> AUTO, rtcp_destination_ip |-> AUTO]

If(flag, members) == IF flag \in Allowed THEN members ELSE <<>>

TransportParamsRTPSender ==
  With(With([destination_port |-> AUTO, rtp_enabled |-> FALSE,
             source_ip |-> AUTO, destination_ip |-> AUTO, source_port |-> AUTO],
            If("FEC", SenderFecAllowed)), If("RTCP", RtcpAllowed))

TransportParamsRTPReceiver ==
  With(With(With([destination_port |-> AUTO, rtp_enabled |-> FALSE,
                  source_ip |-> Null, interface_ip |-> AUTO],
                 If("FEC", FecAllowed)), If("RTCP", RtcpAllowed)),
       If("MULTICAST", [multicast_ip |-> Null]))

Set(tp, k, v) == [j \in DOMAIN tp \cup {k} |-> IF j = k THEN v ELSE tp[j]]

SetPort(tp, k, n) == IF k \in DOMAIN tp THEN Set(tp, k, IF n = 0 THEN AUTO ELSE n) ELSE tp

\* a port that is text is replaced; the new one is an unsigned short
ActualizePort(tp, k, n) ==
  IF k \in DOMAIN tp /\ tp[k] \in Int /\ tp[k] # 0 THEN tp ELSE Set(tp, k, n % PortSpace)

ActualizeIp(tp, k, ip) == IF k \in DOMAIN tp /\ tp[k] # AUTO THEN tp ELSE Set(tp, k, ip)

On(tp, k) == k \in DOMAIN tp /\ tp[k]
AddsPorts(tp) == On(tp, "fec_enabled") \/ On(tp, "rtcp_enabled")

\* asUInt() of a text or of a negative number throws, and nobody catches it
Throws(v) == v \notin Nat \cup {AUTO}

ActualizeThrows(tp) == AddsPorts(tp) /\ Throws(tp.destination_port)

ActualizeSenderThrows(tp) ==
  \/ ActualizeThrows(tp)
  \/ AddsPorts(tp) /\ tp.source_port \in Int /\ Throws(tp.source_port)

\* mutant of Actualize: RTCP has a port when it is enabled first
ActualizeNoRtcp(tp) ==
  LET port == IF tp.destination_port = AUTO THEN 5004 ELSE tp.destination_port
      rtp == Set(tp, "destination_port", port)
  IN IF ~On(tp, "fec_enabled") THEN rtp
     ELSE ActualizePort(ActualizePort(rtp, "fec1D_destination_port", port + 2),
                        "fec2D_destination_port", port + 4)

Actualize(tp) ==
  LET port == IF tp.destination_port = AUTO THEN 5004 ELSE tp.destination_port
      rtp == Set(tp, "destination_port", port)
      fec == IF ~On(tp, "fec_enabled") THEN rtp
             ELSE ActualizePort(ActualizePort(rtp, "fec1D_destination_port", port + 2),
                                "fec2D_destination_port", port + 4)
  IN IF On(tp, "rtcp_enabled") THEN ActualizePort(fec, "rtcp_destination_port", port + 1) ELSE fec

ActualizeSender(tp, source, destination) ==
  LET rtp == ActualizePort(ActualizeIp(ActualizeIp(Actualize(tp), "source_ip", source),
                                       "destination_ip", destination), "source_port", 5004)
      port == rtp.source_port
      fec == IF ~On(tp, "fec_enabled") THEN rtp
             ELSE ActualizePort(ActualizePort(
                    ActualizeIp(rtp, "fec_destination_ip", rtp.destination_ip),
                    "fec1D_source_port", port + 2), "fec2D_source_port", port + 4)
  IN IF ~On(tp, "rtcp_enabled") THEN fec
     ELSE ActualizeIp(ActualizePort(fec, "rtcp_source_port", port + 1),
                      "rtcp_destination_ip", rtp.destination_ip)

\* also what is not enabled
ActualizeReceiver(tp, interface) ==
  LET rtp == ActualizeIp(Set(Actualize(tp), "interface_ip", interface), "source_ip", Null)
      group == IF "multicast_ip" \notin DOMAIN tp \/ tp.multicast_ip = Null
               THEN interface ELSE tp.multicast_ip
      fec == IF "fec_enabled" \in DOMAIN tp
             THEN ActualizeIp(rtp, "fec_destination_ip", group) ELSE rtp
  IN IF "rtcp_enabled" \in DOMAIN tp THEN ActualizeIp(fec, "rtcp_destination_ip", group) ELSE fec

PatchJson(tp, p) == [k \in DOMAIN tp |-> IF k \in DOMAIN p THEN p[k] ELSE tp[k]]

\* mutant of Patchable: what FEC there is, is not looked at
PatchableAny(who, tp, p) ==
  /\ "fec_enabled" \notin DOMAIN tp => DOMAIN p \cap FecKeys = {}
  /\ "rtcp_enabled" \notin DOMAIN tp => DOMAIN p \cap RtcpKeys = {}

\* Patch() of both, after CheckJson()
Patchable(who, tp, p) ==
  /\ "fec_enabled" \notin DOMAIN tp => DOMAIN p \cap FecKeys = {}
  /\ "rtcp_enabled" \notin DOMAIN tp => DOMAIN p \cap RtcpKeys = {}
  /\ who = "sender" => \A k \in DOMAIN p : FecUsable(k, p[k])

CheckJson(who, params) ==
  \A i \in 1 .. Len(params) : \A k \in DOMAIN params[i] :
    IF who = "sender" THEN SenderTakes(k, params[i][k]) ELSE ReceiverTakes(k, params[i][k])

\* of a request with a "transport_params"; one that is refused changes nothing
PatchStreams(tps, params) ==
  IF params = <<>> THEN tps ELSE [i \in 1 .. Streams |-> PatchJson(tps[i], params[i])]

StreamsPatchable(who, tps, params) ==
  params # <<>> => /\ Len(params) = Streams
                   /\ \A i \in 1 .. Streams : Patchable(who, tps[i], params[i])

-----------------------------------------------------------------------------
(* Constraints                                                             *)

NoLimit == [min |-> Null, max |-> Null, enum |-> {}]

Enumerated(values) == [NoLimit EXCEPT !.enum = values]

\* one for every member of the staged parameters
CreateConstraints(tp) == [k \in DOMAIN tp |-> NoLimit]

MeetsConstraint(limit, v) ==
  v \notin {AUTO, Null} => /\ limit.min # Null => v \in Int /\ v >= limit.min
                           /\ limit.max # Null => v \in Int /\ v <= limit.max
                           /\ limit.enum # {} => v \in limit.enum

\* of the patched copy, whatever the request names
CheckConstraints(who, tps) ==
  \A i \in 1 .. Streams : \A k \in DOMAIN tps[i] \cap DOMAIN limits[who][i] :
    MeetsConstraint(limits[who][i][k], tps[i][k])

\* what is not given stays
Merged(old, new) ==
  [min |-> IF new.min = Null THEN old.min ELSE new.min,
   max |-> IF new.max = Null THEN old.max ELSE new.max,
   enum |-> IF new.enum = {} THEN old.enum ELSE new.enum]

\* for one stream or for all; what is staged or active already is not looked at
AddConstraint(who, is, k, limit) ==
  /\ k \in DOMAIN limits[who][1]
  /\ limits' = [limits EXCEPT ![who] =
       [i \in 1 .. Streams |-> IF i \in is THEN [@[i] EXCEPT ![k] = Merged(@, limit)] ELSE @[i]]]
  /\ UNCHANGED <<sender, receiver, crashed>>

ClearConstraint(who, is, k) ==
  /\ k \in DOMAIN limits[who][1]
  /\ limits' = [limits EXCEPT ![who] =
       [i \in 1 .. Streams |-> IF i \in is THEN [@[i] EXCEPT ![k] = NoLimit] ELSE @[i]]]
  /\ UNCHANGED <<sender, receiver, crashed>>

-----------------------------------------------------------------------------
(* Transport files.  A line that says nothing of the parameters is left    *)
(* out.                                                                    *)

Empty == [cr |-> FALSE, lines |-> <<>>]

CreateOriginLine(tp) == [type |-> "origin", ip |-> tp.source_ip]

\* GetDestinationPort() is an unsigned short
CreateMediaLine(tp) ==
  LET n == tp.destination_port % PortSpace IN [type |-> "media", port |-> IF n = 0 THEN 5004 ELSE n]

CreateConnectionLine(tp) ==
  LET connection == [type |-> "connection", ip |-> tp.destination_ip,
                     ttl |-> Multicast(tp.destination_ip)]
      filter == [type |-> "filter", group |-> tp.destination_ip, ip |-> tp.source_ip]
  IN CASE Unicast(tp.destination_ip) -> <<connection>>
       [] Multicast(tp.destination_ip) -> <<connection, filter>>
       [] OTHER -> <<>>

CreateRtcpLines(tp) ==
  IF /\ On(tp, "rtcp_enabled") /\ tp.rtcp_destination_port \in Nat
     /\ Unicast(tp.rtcp_destination_ip) \/ Multicast(tp.rtcp_destination_ip)
  THEN <<[type |-> "rtcp", port |-> tp.rtcp_destination_port, ip |-> tp.rtcp_destination_ip]>>
  ELSE <<>>

StreamLines(tp) == <<CreateMediaLine(tp)>> \o CreateConnectionLine(tp) \o CreateRtcpLines(tp)

TransportParamsToSdp(tps) ==
  [cr |-> TRUE,
   lines |-> <<CreateOriginLine(tps[1])>> \o StreamLines(tps[1])
             \o (IF Streams = 2 THEN StreamLines(tps[2]) ELSE <<>>)]

EnableRtp(tps, is, b) ==
  [i \in 1 .. Streams |-> IF i \in is THEN Set(tps[i], "rtp_enabled", b) ELSE tps[i]]

\* a second CR makes no difference
AtEnd(cr, ip) == IF cr /\ ip \in Addresses THEN <<ip, "CR">> ELSE ip

(***************************************************************************)
(* The state of the parser: the parameters, the media lines so far,        *)
(* whether there was no failure yet, and whether something was set in the  *)
(* stream of a media before the first one, at index -1 of the vector.      *)
(***************************************************************************)
Failed(s) == [s EXCEPT !.ok = FALSE]
Sets(s, k, v) == IF s.media = 0 THEN [s EXCEPT !.wild = TRUE]
                 ELSE [s EXCEPT !.tps[s.media] = Set(@, k, v)]

ParseOriginLine(s, l, cr) ==
  LET all(v) == [s EXCEPT !.tps = [i \in 1 .. Streams |-> Set(@[i], "source_ip", v)]]
  IN CASE Unicast(l.ip) -> all(AtEnd(cr, l.ip))
       [] Multicast(l.ip) -> Failed(all(Null))
       [] OTHER -> Failed(s)

ParseMediaLine(s, l) ==
  LET next == [s EXCEPT !.media = @ + 1]
  IN IF next.media > Streams THEN next
     ELSE IF PortNumber(l.port)
     THEN [next EXCEPT !.tps[next.media] = SetPort(@, "destination_port", l.port)]
     ELSE Failed(next)

\* a time to live is cut off, and the end of the line with it
GroupOf(l, cr) ==
  IF ~Multicast(l.ip) THEN Null ELSE IF l.ttl THEN l.ip ELSE AtEnd(cr, l.ip)

ParseConnectionLine(s, l, cr) ==
  IF Multicast(l.ip) \/ Unicast(l.ip) THEN Sets(s, "multicast_ip", GroupOf(l, cr)) ELSE Failed(s)

ParseSourceFilter(s, l, cr) ==
  IF Multicast(l.group) /\ Unicast(l.ip) THEN Sets(s, "source_ip", AtEnd(cr, l.ip)) ELSE Failed(s)

\* an address after the port is refused, as it is of "IN"
ParseRTCP(s, l) ==
  IF ~PortNumber(l.port) THEN Failed(s)
  ELSE LET set == IF s.media = 0 THEN [s EXCEPT !.wild = TRUE]
                  ELSE [s EXCEPT !.tps[s.media] = SetPort(@, "rtcp_destination_port", l.port)]
       IN IF l.ip = Null THEN set ELSE Failed(set)

ParseLine(s, l, cr) ==
  IF ~s.ok \/ s.media > Streams THEN s ELSE
  CASE l.type = "origin" -> ParseOriginLine(s, l, cr)
    [] l.type = "media" -> ParseMediaLine(s, l)
    [] l.type = "connection" -> ParseConnectionLine(s, l, cr)
    [] l.type = "filter" -> ParseSourceFilter(s, l, cr)
    [] l.type = "rtcp" -> ParseRTCP(s, l)

\* line by line: the state after each
ParseLines(sdp, tps) ==
  LET after[n \in 0 .. Len(sdp.lines)] ==
        IF n = 0 THEN [tps |-> tps, media |-> 0, ok |-> TRUE, wild |-> FALSE]
                 ELSE ParseLine(after[n-1], sdp.lines[n], sdp.cr)
  IN after

Parse(sdp, tps) == ParseLines(sdp, tps)[Len(sdp.lines)]

\* mutant of SdpToTransportParams: RTP is not disabled first
SdpToTransportParamsOn(sdp, tps) ==
  LET end == Parse(sdp, tps)
  IN [tps |-> IF end.ok THEN EnableRtp(end.tps, 1 .. Streams, TRUE) ELSE end.tps, wild |-> end.wild]

SdpToTransportParams(sdp, tps) ==
  LET end == Parse(sdp, EnableRtp(tps, 1 .. Streams, FALSE))
  IN [tps |-> IF end.ok THEN EnableRtp(end.tps, 1 .. Streams, TRUE) ELSE end.tps, wild |-> end.wild]

-----------------------------------------------------------------------------
(* The sender                                                              *)

\* Sender::Activate() and the file of NodeApiPrivate::Activate()
ActivatedSender(s) ==
  LET active == [i \in 1 .. Streams |-> ActualizeSender(s.staged[i], s.source[i], s.destination[i])]
  IN [s EXCEPT !.active = active,
               !.file = IF s.enabled THEN TransportParamsToSdp(active) ELSE Empty]

\* of a default sender nothing throws
ParamsInit ==
  /\ sender = LET staged == [i \in 1 .. Streams |-> TransportParamsRTPSender]
              IN ActivatedSender([staged |-> staged, active |-> staged, enabled |-> TRUE,
                            source |-> SourceIps, destination |-> MulticastIps, file |-> Empty])
  /\ \E ip \in Interfaces :
       receiver = [staged |-> [i \in 1 .. Streams |-> TransportParamsRTPReceiver],
                   active |-> [i \in 1 .. Streams |->
                                 ActualizeReceiver(TransportParamsRTPReceiver, ip)],
                   interface |-> ip]
  /\ limits =
       [sender |-> [i \in 1 .. Streams |->
          [CreateConstraints(TransportParamsRTPSender) EXCEPT
             !.source_ip = Enumerated(SenderInterfaces)]],
        receiver |-> [i \in 1 .. Streams |->
          [CreateConstraints(TransportParamsRTPReceiver) EXCEPT
             !.interface_ip = Enumerated(Interfaces)]]]
  /\ crashed = FALSE

Crash == crashed' = TRUE /\ UNCHANGED <<sender, receiver, limits>>

\* the copy that is patched is staged when it meets the constraints
PatchSenderParams(params, enable) ==
  LET patched == PatchStreams(sender.staged, params)
  IN /\ CheckJson("sender", params)
     /\ StreamsPatchable("sender", sender.staged, params)
     /\ CheckConstraints("sender", patched)
     /\ sender' = [sender EXCEPT !.staged = patched, !.enabled = enable]
     /\ UNCHANGED <<receiver, limits, crashed>>

\* a file is made of every stream, and its media line reads the port again
SenderThrows ==
  \E i \in 1 .. Streams : \/ ActualizeSenderThrows(sender.staged[i])
                          \/ sender.enabled /\ Throws(sender.staged[i].destination_port)

ActivateSender ==
  IF SenderThrows THEN Crash
  ELSE sender' = ActivatedSender(sender) /\ UNCHANGED <<receiver, limits, crashed>>

\* SetupActivation(): the application answers a PATCH with the addresses to use
SetupSender(destination) ==
  /\ sender' = [sender EXCEPT !.destination = destination]
  /\ UNCHANGED <<receiver, limits, crashed>>

MarkRTPTransmissionAsActive(is, b) ==
  /\ sender' = [sender EXCEPT !.staged = EnableRtp(@, is, b), !.active = EnableRtp(@, is, b)]
  /\ UNCHANGED <<receiver, limits, crashed>>

\* the active parameters only, and the file stays; port 0 is "auto" until the
\* next activation
SetDestinationDetails(d) ==
  /\ sender' = [sender EXCEPT !.active = [i \in 1 .. Streams |->
                  IF i \notin 1 .. Len(d) THEN @[i]
                  ELSE SetPort(Set(@[i], "destination_ip", d[i].ip), "destination_port", d[i].port)]]
  /\ UNCHANGED <<receiver, limits, crashed>>

MasterEnable(b) ==
  /\ sender' = [sender EXCEPT !.enabled = b]
  /\ UNCHANGED <<receiver, limits, crashed>>

-----------------------------------------------------------------------------
(* The receiver                                                            *)

Files == {sender.file} \cup ForeignSdps

\* with Null for a PATCH without a file
Reads(sdp, tps) ==
  IF sdp = Null THEN [tps |-> tps, wild |-> FALSE] ELSE SdpToTransportParams(sdp, tps)

\* what the parser made of a file it refused is kept; what it did at index -1
\* ends the process or is not noticed
PatchReceiverParams(sdp, params) ==
  LET read == Reads(sdp, receiver.staged)
      patched == PatchStreams(read.tps, params)
  IN /\ UNCHANGED <<sender, limits>>
     /\ CheckJson("receiver", params)
     /\ \/ read.wild /\ crashed' = TRUE /\ UNCHANGED receiver
        \/ /\ UNCHANGED crashed
           /\ StreamsPatchable("receiver", read.tps, params)
           /\ CheckConstraints("receiver", patched)
           /\ receiver' = [receiver EXCEPT !.staged = patched]

\* also by SubscribeToSender(), whose file is stored and not parsed
ActivateReceiver ==
  IF \E i \in 1 .. Streams : ActualizeThrows(receiver.staged[i]) THEN Crash
  ELSE /\ receiver' = [receiver EXCEPT !.active =
            [i \in 1 .. Streams |-> ActualizeReceiver(receiver.staged[i], receiver.interface)]]
       /\ UNCHANGED <<sender, limits, crashed>>

SetupReceiver(ip) ==
  /\ receiver' = [receiver EXCEPT !.interface = ip]
  /\ UNCHANGED <<sender, limits, crashed>>

ParamsNext ==
  /\ ~crashed
  /\ \/ \E p \in SenderPatches : PatchSenderParams(p.params, p.enable)
     \/ \E d \in Destinations : SetupSender(d)
     \/ \E m \in Marks : MarkRTPTransmissionAsActive(m.streams, m.active)
     \/ \E d \in Details : SetDestinationDetails(d)
     \/ \E b \in BOOLEAN : MasterEnable(b)
     \/ ActivateSender
     \/ \E sdp \in Files \cup {Null}, params \in ReceiverPatches : PatchReceiverParams(sdp, params)
     \/ \E ip \in Interfaces : SetupReceiver(ip)
     \/ ActivateReceiver
     \/ \E l \in Limits : \/ AddConstraint(l.who, l.streams, l.key, l.limit)
                          \/ ClearConstraint(l.who, l.streams, l.key)

ParamsSpec == ParamsInit /\ [][ParamsNext]_paramsVars

-----------------------------------------------------------------------------
(* Properties                                                              *)

\* nobody resolves a receiver's multicast_ip, nor what is copied from it
Unresolved(tp) ==
  IF "multicast_ip" \in DOMAIN tp /\ tp.multicast_ip = AUTO
  THEN {"multicast_ip", "fec_destination_ip", "rtcp_destination_ip"} ELSE {}

Used(tp) ==
  ((IpKeys \cup PortKeys) \cap DOMAIN tp)
    \ (Unresolved(tp) \cup (IF On(tp, "fec_enabled") THEN {} ELSE FecKeys)
                      \cup (IF On(tp, "rtcp_enabled") THEN {} ELSE RtcpKeys))

Resolved(tp) == \A k \in Used(tp) : tp[k] # AUTO

(***************************************************************************)
(* An activation that does not end the process leaves no address and no    *)
(* port that a stream uses at "auto", whatever was enabled when and        *)
(* whatever was requested, except a receiver's multicast_ip and what comes *)
(* of it.  (fec_mode is never resolved, and SetDestinationDetails() of     *)
(* port 0 makes an active port "auto" until the next activation.)          *)
(***************************************************************************)
AutoIsResolved ==
  [][/\ ActivateSender /\ ~crashed' => \A i \in 1 .. Streams : Resolved(sender'.active[i])
     /\ ActivateReceiver /\ ~crashed' => \A i \in 1 .. Streams : Resolved(receiver'.active[i])]_paramsVars

\* the media that the n-th line belongs to
MediaOf(lines, n) == Cardinality({m \in 1 .. n : lines[m].type = "media"})

\* the lines that tell the port and the group of the i-th stream
PortLines(lines, i) ==
  {n \in 1 .. Len(lines) : lines[n].type = "media" /\ MediaOf(lines, n) = i}
GroupLines(lines, i) ==
  {n \in 1 .. Len(lines) : lines[n].type = "connection" /\ MediaOf(lines, n) = i}

Same(p, q, k) == (k \in DOMAIN p <=> k \in DOMAIN q) /\ (k \in DOMAIN p => p[k] = q[k])

\* the last line counts, and without one the member stays
Tells(sdp, i, k, old, new) ==
  LET ns == IF k = "destination_port" THEN PortLines(sdp.lines, i) ELSE GroupLines(sdp.lines, i)
      told(n) == IF k = "destination_port" THEN sdp.lines[n].port ELSE GroupOf(sdp.lines[n], sdp.cr)
  IN /\ ns = {} => Same(old, new, k)
     /\ \A n \in ns : (\A m \in ns : m <= n) => new[k] = told(n)

AppliedOrOff(sdp, params, old, new) ==
  LET named(i) == IF params = <<>> THEN {} ELSE DOMAIN params[i]
  IN \/ \A i \in 1 .. Streams : "rtp_enabled" \in named(i) \/ ~new[i].rtp_enabled
     \/ \A i \in 1 .. Streams, k \in {"destination_port", "multicast_ip"} :
          k \in named(i) \/ Tells(sdp, i, k, old[i], new[i])

(***************************************************************************)
(* A PATCH with a transport file either leaves RTP disabled on every       *)
(* stream whose rtp_enabled the request does not name itself, or the port  *)
(* and the group of every stream, unless named, are those of its media in  *)
(* the file, and what they were if the file does not tell: a file that the *)
(* parser refused half way is not received with, although the PATCH is     *)
(* accepted and keeps the half.                                            *)
(***************************************************************************)
FileAppliedOrOff ==
  [][\A sdp \in Files, params \in ReceiverPatches :
       PatchReceiverParams(sdp, params) /\ ~crashed' =>
         AppliedOrOff(sdp, params, receiver.staged, receiver'.staged)]_paramsVars
=============================================================================
