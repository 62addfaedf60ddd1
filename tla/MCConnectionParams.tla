------------------------- MODULE MCConnectionParams -------------------------
(* A redundant sender with RTCP and FEC and a receiver that takes its file,  *)
(* or one of a single media after an address of the session                  *)
EXTENDS ConnectionParams, TLC

CONSTANTS U1, U2, M1, M2, T1

MCSenderPatches ==
  {[params |-> <<"destination_port" :> 65535 @@ "rtcp_enabled" :> TRUE,
                 "destination_port" :> 5010 @@ "fec_enabled" :> TRUE @@ "destination_ip" :> U1>>, enable |-> TRUE],
   [params |-> <<"destination_port" :> T1 @@ "rtcp_enabled" :> FALSE,
                 "destination_port" :> -1 @@ "fec_enabled" :> FALSE @@ "destination_ip" :> AUTO>>, enable |-> FALSE],
   [params |-> <<"fec_block_width" :> 300, <<>> >>, enable |-> TRUE]}
MCReceiverPatches ==
  {<<>>,
   <<"rtcp_enabled" :> TRUE @@ "destination_port" :> -1 @@ "multicast_ip" :> AUTO,
     "rtp_enabled" :> TRUE @@ "destination_port" :> AUTO @@ "multicast_ip" :> Null>>}

MCSourceIps == <<U1, U1>>
MCMulticastIps == <<M1, M2>>
MCDestinations == {<<M1, M2>>}
MCDetails == {<<[ip |-> U2, port |-> 0]>>}

Media(p) == [type |-> "media", port |-> p]
Group(g) == [type |-> "connection", ip |-> g, ttl |-> FALSE]
Origin(u) == [type |-> "origin", ip |-> u]
MCForeignSdps == {[cr |-> TRUE, lines |-> <<Group(M1), Origin(U2), Media(6002), Group(M2)>>]}

MCMarks == {[streams |-> {2}, active |-> TRUE]}

MCLimits ==
  {[who |-> "sender", streams |-> {1}, key |-> "destination_port",
    limit |-> [min |-> 5004, max |-> 6000, enum |-> {}]]}
=============================================================================
