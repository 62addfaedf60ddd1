-------------------------- MODULE MCConnectionApi --------------------------
(* Instances of ConnectionApi for TLC.                                     *)
EXTENDS ConnectionApi

CONSTANTS Early, Between, Late   \* activation times

\* every resource may be scheduled for the same times
SharedTimes == [r \in Resources |-> {Early, Late}]

\* no two resources are scheduled for the same time; one sender at most
SenderTimes == [r \in Resources |-> IF r \in Senders THEN {Early, Late} ELSE {Between}]
=============================================================================
