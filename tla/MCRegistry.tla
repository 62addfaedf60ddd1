----------------------------- MODULE MCRegistry -----------------------------
(* An instance of Registry for TLC: one node with a device and a sender, and*)
(* an update that moves the device below a node that is not registered.     *)
EXTENDS Registry

CONSTANTS Node1, Device1, Sender1

Posts ==
  {[id |-> Node1, parent |-> None], [id |-> Device1, parent |-> Node1],
   [id |-> Device1, parent |-> None], [id |-> Sender1, parent |-> Device1]}

\* registrations, heartbeats, and requests for the node or the device
Sent ==
  {[op |-> "resources", id |-> None], [op |-> "health", id |-> Node1],
   [op |-> "resource", id |-> Device1]}
=============================================================================
