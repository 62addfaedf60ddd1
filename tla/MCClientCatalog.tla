--------------------------- MODULE MCClientCatalog ---------------------------
(* A node, a device, a raw video flow and one the client has no class for, *)
(* at two addresses                                                        *)
EXTENDS ClientCatalog, TLC

CONSTANTS N1, D1, F1, F2

MCIds == {N1, D1, F1, F2}
MCKindOf == (N1 :> "node" @@ D1 :> "device" @@ F1 :> "flow" @@ F2 :> "flow")
MCFormat == (F1 :> "video" @@ F2 :> "data")
MCMedia == (F1 :> "video/raw" @@ F2 :> "other")

\* nothing tells the ids of two queries apart, or two nodes
MCSymmetry == Permutations(Queries) \cup Permutations(Nodes)
=============================================================================
