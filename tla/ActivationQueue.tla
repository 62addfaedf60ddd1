-------------------------- MODULE ActivationQueue --------------------------
(***************************************************************************)
(* What class Activator (node/src/activator.cpp) promises the node that    *)
(* owns it: a queue of activations ordered by time.  An activation that    *)
(* was accepted is run, earliest first and one at a time, unless it is     *)
(* withdrawn before it starts.  Threads, the mutex, the condition variable *)
(* and the clock are the implementation's business (module Activator).     *)
(***************************************************************************)
EXTENDS Integers

CONSTANTS
  Resources,  \* senders and receivers that can be activated
  Tai,        \* activation times that can be asked for
  None        \* no resource, no time

VARIABLES
  accepted,   \* the resource to activate at each time, or None
  running,    \* the time whose activation is being run, or None
  closed      \* the owner has started to destroy the queue

vars == <<accepted, running, closed>>

Taken == {k \in Tai : accepted[k] # None}

First(k) == k \in Taken /\ \A j \in Taken : k <= j

Init ==
  /\ accepted = [k \in Tai |-> None]
  /\ running = None
  /\ closed = FALSE

Request(k, r) ==    \* a time that is taken stays with the resource that has it
  /\ ~closed /\ running = None
  /\ accepted' = [accepted EXCEPT ![k] = IF @ = None THEN r ELSE @]
  /\ running' = running /\ closed' = closed

Withdraw(k, r) ==   \* the head of the queue is withdrawn whoever it belongs to
  /\ ~closed /\ running = None
  /\ First(k) \/ accepted[k] = r
  /\ accepted' = [accepted EXCEPT ![k] = None]
  /\ running' = running /\ closed' = closed

Start ==
  /\ ~closed /\ running = None
  /\ \E k \in Tai : First(k) /\ running' = k
  /\ accepted' = accepted /\ closed' = closed

Finish ==
  /\ running # None
  /\ accepted' = [accepted EXCEPT ![running] = None]
  /\ running' = None
  /\ closed' = closed

Close ==
  /\ ~closed /\ running = None
  /\ closed' = TRUE
  /\ accepted' = accepted /\ running' = running

Calls == \E k \in Tai, r \in Resources : Request(k, r) \/ Withdraw(k, r)

Next == Calls \/ Start \/ Finish \/ Close

Spec == Init /\ [][Next]_vars

(***************************************************************************)
(* Once the node stops changing the queue, everything accepted leaves it,  *)
(* by being run: what the queue exists for.                                *)
(***************************************************************************)
EverythingRuns ==
  <>[][~Calls]_vars => \A k \in Tai : k \in Taken ~> (k \notin Taken \/ closed)
=============================================================================
