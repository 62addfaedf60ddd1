-------------------------- MODULE MCClientCommands --------------------------
(* Two requests, in three mixes that have a command of every kind, and a     *)
(* connection and a disconnection                                            *)
EXTENDS ClientCommands, TLC

CONSTANTS R1, R2

MCRequests == {R1, R2}
MCMixes == {R1 :> "TARGET" @@ R2 :> "SENDER_PATCH",
            R1 :> "RECEIVER_ACTIVE" @@ R2 :> "RECEIVER_PATCH",
            R1 :> "TARGET" @@ R2 :> "SENDER_TRANSPORTFILE"}
=============================================================================
