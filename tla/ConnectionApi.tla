--------------------------- MODULE ConnectionApi ---------------------------
(***************************************************************************)
(* IS-05 connection management: PATCH /staged of a sender or receiver      *)
(* (IS05Server), staging and activating it (NodeApiPrivate::Stage, class   *)
(* Sender, class Receiver), and the IS-04 PUT /target of a receiver.       *)
(*                                                                         *)
(* Actors: the HTTP thread of the connection server, which handles one     *)
(* PATCH at a time; the application, which allows or refuses a PATCH while *)
(* that thread waits; the activator, of which only what ActivationQueue    *)
(* promises is used; and the HTTP thread of the discovery server.          *)
(* A step is what one thread does under one lock.                          *)
(***************************************************************************)
EXTENDS Integers

CONSTANTS
  Senders, Receivers,
  Tai,        \* bound: the activation times that are asked for
  TimesOf,    \* the ones asked for each resource
  Params,     \* transport parameters, master_enable, peer id: one value each
  HasPoster,  \* the application gave Init() an EventPoster
  Past,       \* the moment of an immediate activation, never a queue key
  Garbage,    \* what dereferencing an empty optional time may read
  None

Resources == Senders \cup Receivers

ASSUME ConnectionAssumption ==
  /\ Senders \cap Receivers = {}
  /\ Tai \subseteq Int
  /\ TimesOf \in [Resources -> SUBSET Tai]
  /\ HasPoster \in BOOLEAN
  /\ Garbage \subseteq Tai \cup {Past}
  /\ None \notin Resources \cup Tai /\ Past \notin Tai /\ Past # None

VARIABLES
  accepted, running,  \* the activation queue, see ActivationQueue
  staged,             \* m_Staged of each resource
  active,             \* m_Active of each resource: its parameters
  committed,          \* the running activation has cleared the staged one
  http,               \* where the connection server's thread is in PATCH
  target,             \* the resource being patched
  conRequest,         \* PatchSender()/PatchReceiver()'s copy of m_Staged, patched
  hasActivation,      \* the request has an "activation" object
  tp,                 \* Stage()'s local: the time to activate at
  put, putTarget      \* where the discovery server's thread is in PUT

queueVars == <<accepted, running>>
patchVars == <<http, target, conRequest, hasActivation, tp>>
putVars == <<put, putTarget>>
vars == <<queueVars, staged, active, committed, patchVars, putVars>>

Queue == INSTANCE ActivationQueue WITH closed <- FALSE

Modes == {"null", "now", "absolute", "relative"}
Scheduled == {"absolute", "relative"}

\* connectionSender/connectionReceiver<activationResponse>; a requested_time that
\* does not parse is None, and so is an absent one: Stage() dereferences it, and
\* where that does not crash it reads a string that is no time
Connections == [mode : Modes, requested : Tai \cup {None},
                at : Tai \cup {None, Past}, param : Params]

TypeOK ==
  /\ accepted \in [Tai -> Resources \cup {None}]
  /\ running \in Tai \cup {None}
  /\ running # None => accepted[running] # None
  /\ staged \in [Resources -> Connections]
  /\ active \in [Resources -> Params]
  /\ committed \in BOOLEAN
  /\ http \in {"idle", "copied", "asking", "allowed", "cancel", "remove", "clear",
               "now", "commit", "schedule", "add"}
  /\ target \in Resources
  /\ conRequest \in Connections \cup {None}
  /\ hasActivation \in BOOLEAN
  /\ http \in {"copied", "asking", "allowed"} => conRequest \in Connections
  /\ tp \in Tai \cup {None}
  /\ http = "add" => tp # None
  /\ put \in {"idle", "staged", "activated"}
  /\ putTarget \in Resources

IsLocked(r) == staged[r].mode \in Scheduled

\* mutant of Cleared: activation::Clear(), which keeps the activation time
ClearedRequest(c) == [c EXCEPT !.mode = "null", !.requested = None]

\* activationResponse::Clear()
Cleared(c) == [c EXCEPT !.mode = "null", !.requested = None, !.at = None]

Init ==
  /\ Queue!Init
  /\ \E p \in Params :
       /\ staged = [r \in Resources |-> [mode |-> "null", requested |-> None,
                                         at |-> None, param |-> p]]
       /\ active = [r \in Resources |-> p]
  /\ committed = FALSE
  /\ http = "idle" /\ conRequest = None /\ hasActivation = FALSE /\ tp = None
  /\ target \in Resources
  /\ put = "idle" /\ putTarget \in Resources

-----------------------------------------------------------------------------
(* PATCH: IS05Server::PatchSender() and PatchReceiver()                    *)

DropRequest == conRequest' = None /\ hasActivation' = FALSE

\* the copy of m_Staged, patched; a PATCH that fails the schema or the
\* constraints goes no further and changes nothing
PatchCopy(r) ==
  /\ http = "idle"
  /\ http' = "copied" /\ target' = r
  /\ \E p \in Params :
       \/ /\ hasActivation' = FALSE
          /\ conRequest' = [staged[r] EXCEPT !.param = p]
       \/ /\ hasActivation' = TRUE
          /\ \E m \in Modes, k \in TimesOf[r] \cup {None} :
               /\ m \notin Scheduled => k = None
               /\ conRequest' = [staged[r] EXCEPT !.param = p, !.mode = m,
                                                  !.requested = k]
  /\ UNCHANGED <<queueVars, staged, active, committed, tp, putVars>>

PatchCheck ==   \* 423 when locked, else ask the application if there is one
  /\ http = "copied"
  /\ \/ /\ conRequest.mode # "null" /\ IsLocked(target)
        /\ http' = "idle" /\ DropRequest
     \/ /\ conRequest.mode = "null" \/ ~IsLocked(target)
        /\ http' = IF HasPoster THEN "asking" ELSE "allowed"
        /\ UNCHANGED <<conRequest, hasActivation>>
  /\ UNCHANGED <<queueVars, staged, active, committed, target, tp, putVars>>

\* SenderPatchAllowed(), ReceiverPatchAllowed(): Signal() ends the Wait()
Answer ==
  /\ http = "asking"
  /\ \/ http' = "allowed" /\ UNCHANGED <<conRequest, hasActivation>>
     \/ http' = "idle" /\ DropRequest
  /\ UNCHANGED <<queueVars, staged, active, committed, target, tp, putVars>>

-----------------------------------------------------------------------------
(* NodeApiPrivate::Stage()                                                 *)

StageCopy ==
  /\ http = "allowed"
  /\ staged' = [staged EXCEPT ![target] = conRequest]
  /\ http' = CASE conRequest.mode = "null" -> "cancel"
               [] conRequest.mode = "now"  -> "now"
               [] OTHER                    -> "schedule"
  /\ DropRequest
  /\ UNCHANGED <<queueVars, active, committed, target, tp, putVars>>

\* mutant of CancelLook: cancelled in m_Staged only
CancelLooksNowhere ==
  /\ http = "cancel"
  /\ http' = "idle"
  /\ UNCHANGED <<queueVars, staged, active, committed, target, conRequest,
                 hasActivation, tp, putVars>>

CancelLook ==   \* is there an activation to remove?
  /\ http = "cancel"
  /\ http' = IF staged[target].at # None THEN "remove" ELSE "idle"
  /\ UNCHANGED <<queueVars, staged, active, committed, target, conRequest,
                 hasActivation, tp, putVars>>

\* mutants of RemoveActivation: without the activator's mutex; and erasing
\* begin() without a look at its time
RemoveInCallback(k) == accepted' = [accepted EXCEPT ![k] = None] /\ UNCHANGED running

RemoveBegin(k) ==
  /\ running = None
  /\ accepted' = [j \in Tai |-> IF Queue!First(j) THEN None ELSE accepted[j]]
  /\ UNCHANGED running

RemoveActivation(k) ==
  \/ k \in Tai /\ Queue!Withdraw(k, target)
  \/ /\ running = None
     /\ k \in Tai => ~Queue!First(k) /\ accepted[k] # target
     /\ UNCHANGED queueVars

\* m_Staged is read again for the time, and by now it may have none
CancelRemove ==
  /\ http = "remove"
  /\ \E k \in IF staged[target].at # None THEN {staged[target].at} ELSE Garbage :
       RemoveActivation(k)
  /\ http' = "clear"
  /\ UNCHANGED <<staged, active, committed, target, conRequest, hasActivation,
                 tp, putVars>>

CancelClear ==
  /\ http = "clear"
  /\ staged' = [staged EXCEPT ![target].at = None]
  /\ http' = "idle"
  /\ UNCHANGED <<queueVars, active, committed, target, conRequest, hasActivation,
                 tp, putVars>>

ActivateNow ==
  /\ http = "now"
  /\ staged' = [staged EXCEPT ![target].at = Past]
  /\ active' = [active EXCEPT ![target] = staged[target].param]
  /\ http' = IF HasPoster THEN "commit" ELSE "idle"
  /\ UNCHANGED <<queueVars, committed, target, conRequest, hasActivation, tp, putVars>>

CommitNow ==
  /\ http = "commit"
  /\ staged' = [staged EXCEPT ![target] = Cleared(@)]
  /\ http' = "idle"
  /\ UNCHANGED <<queueVars, active, committed, target, conRequest, hasActivation,
                 tp, putVars>>

\* the time of an absolute activation is the one requested, of a relative
\* one it depends on the clock; without a valid time the PATCH is answered 500
ScheduleTime ==
  /\ http = "schedule"
  /\ \/ /\ staged[target].requested = None
        /\ http' = "idle"
        /\ UNCHANGED <<staged, tp>>
     \/ /\ staged[target].requested # None
        /\ tp' \in IF staged[target].mode = "absolute"
                     THEN {staged[target].requested} ELSE TimesOf[target]
        /\ staged' = [staged EXCEPT ![target].at = tp']
        /\ http' = "add"
  /\ UNCHANGED <<queueVars, active, committed, target, conRequest, hasActivation, putVars>>

ScheduleAdd ==
  /\ http = "add"
  /\ Queue!Request(tp, target)
  /\ http' = "idle"
  /\ tp' = None
  /\ UNCHANGED <<staged, active, committed, target, conRequest, hasActivation, putVars>>

-----------------------------------------------------------------------------
(* A scheduled activation runs: NodeApiPrivate::Activate(true, resource),  *)
(* with the activator's mutex held                                         *)

ActivateStaged ==
  /\ Queue!Start
  /\ LET r == accepted[running']
     IN  active' = [active EXCEPT ![r] = staged[r].param]
  /\ committed' = FALSE
  /\ UNCHANGED <<staged, patchVars, putVars>>

\* mutant of CommitActivation: waits for the PATCH in progress
CommitAfterPatch ==
  /\ running # None /\ ~committed /\ http = "idle"
  /\ staged' = [staged EXCEPT ![accepted[running]] = Cleared(@)]
  /\ committed' = TRUE
  /\ UNCHANGED <<queueVars, active, patchVars, putVars>>

CommitActivation ==
  /\ running # None /\ ~committed
  /\ staged' = [staged EXCEPT ![accepted[running]] = Cleared(@)]
  /\ committed' = TRUE
  /\ UNCHANGED <<queueVars, active, patchVars, putVars>>

Activated ==
  /\ running # None /\ committed
  /\ Queue!Finish
  /\ committed' = FALSE
  /\ UNCHANGED <<staged, active, patchVars, putVars>>

-----------------------------------------------------------------------------
(* IS-04 PUT /receivers/<id>/target, once the application has agreed:      *)
(* SubscribeToSender(), which does not look at the lock                    *)

PutStage(r) ==
  /\ put = "idle"
  /\ \E p \in Params : staged' = [staged EXCEPT ![r].param = p, ![r].at = Past]
  /\ put' = "staged" /\ putTarget' = r
  /\ UNCHANGED <<queueVars, active, committed, patchVars>>

PutActivate ==
  /\ put = "staged"
  /\ active' = [active EXCEPT ![putTarget] = staged[putTarget].param]
  /\ put' = "activated"
  /\ UNCHANGED <<queueVars, staged, committed, patchVars, putTarget>>

PutCommit ==
  /\ put = "activated"
  /\ staged' = [staged EXCEPT ![putTarget] = Cleared(@)]
  /\ put' = "idle"
  /\ UNCHANGED <<queueVars, active, committed, patchVars, putTarget>>

-----------------------------------------------------------------------------
Patch ==
  \/ PatchCheck \/ StageCopy \/ CancelLook \/ CancelRemove \/ CancelClear
  \/ ActivateNow \/ CommitNow \/ ScheduleTime \/ ScheduleAdd

Activation == ActivateStaged \/ CommitActivation \/ Activated

Put == PutActivate \/ PutCommit

Next ==
  \/ \E r \in Resources : PatchCopy(r)
  \/ Answer \/ Patch
  \/ Activation
  \/ \E r \in Receivers : PutStage(r)
  \/ Put

Spec == Init /\ [][Next]_vars

(***************************************************************************)
(* Threads keep running and the application answers what it is asked; the  *)
(* queue's promise, that what it accepted runs, is the fairness of         *)
(* Activation.                                                             *)
(***************************************************************************)
Fairness ==
  /\ WF_vars(Patch)
  /\ WF_vars(Answer)
  /\ WF_vars(Activation)
  /\ WF_vars(Put)

FairSpec == Spec /\ Fairness

-----------------------------------------------------------------------------
(* Properties                                                              *)

\* in the queue for r, and not yet carried out
Queued(r, k) == accepted[k] = r /\ ~(k = running /\ committed)

Cancelling(r) == target = r /\ http \in {"cancel", "remove"}

(***************************************************************************)
(* No ghost activation: what is queued for a sender is what its staged     *)
(* parameters announce, so a sender that was answered 200 to a cancelling  *)
(* PATCH is not activated later.  Stage() has to keep m_Staged and the     *)
(* queue in step without a lock that covers both.                          *)
(***************************************************************************)
NoGhost(r) ==
  \A k \in Tai : Queued(r, k) /\ ~Cancelling(r) => IsLocked(r) /\ staged[r].at = k

SendersHaveNoGhosts == \A s \in Senders : NoGhost(s)

(***************************************************************************)
(* The 423 that PatchSender() answers, "Sender had pending activation.",   *)
(* is true: while a sender is locked with a valid time and no PATCH of it  *)
(* is in progress, the activation it announces is in the queue.  (A PATCH  *)
(* with an invalid time is answered 500 and locks the sender all the same.)*)
(***************************************************************************)
LockedMeansPending ==
  \A s \in Senders :
    IsLocked(s) /\ staged[s].requested # None /\ ~(target = s /\ http # "idle")
      => staged[s].at \in Tai /\ accepted[staged[s].at] = s

(***************************************************************************)
(* With an application to commit it, an immediate activation leaves        *)
(* nothing staged behind: between two PATCHes a sender is either free,     *)
(* with no activation time, or locked.                                     *)
(***************************************************************************)
Settled ==
  \A s \in Senders : ~(target = s /\ http # "idle")
                       => \/ staged[s].mode = "null" /\ staged[s].at = None
                          \/ IsLocked(s)

(***************************************************************************)
(* Every PATCH is answered: the connection server's thread waits for the   *)
(* application and for the activator's mutex, and neither for ever.        *)
(***************************************************************************)
PatchIsAnswered == http # "idle" ~> http = "idle"
=============================================================================
