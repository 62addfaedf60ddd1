-------------------------- MODULE MCNodeResources --------------------------
(* An instance of NodeResources for TLC: one resource of each kind, on one  *)
(* device.  Versions wrap at 1 instead of 255.                              *)
EXTENDS NodeResources

CONSTANTS Device1, Source1, Flow1, Sender1, Receiver1

OneEach ==
  [r \in {Device1, Source1, Flow1, Sender1, Receiver1} |-> IF r = Device1 THEN Node ELSE Device1]
FlowSource == [f \in {Flow1} |-> Source1]
SenderFlow == [s \in {Sender1} |-> Flow1]
=============================================================================
