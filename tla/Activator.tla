----------------------------- MODULE Activator -----------------------------
(***************************************************************************)
(* class Activator, node/src/activator.cpp: the queue of scheduled IS-05   *)
(* activations and the threads that serve it.  Every member function locks *)
(* m_mutex for its whole body, so it is one action; the mutex outlives an  *)
(* action in two places only, and there it is visible in the state:        *)
(*   - while Activate() runs the node's callback   (pc[t] = "activating")  *)
(*   - while ~Activator() joins the threads        (owner = "joining")     *)
(* wait_until() releases the mutex: a thread in it is "blocked".           *)
(*                                                                         *)
(* A thread is spawned by an AddActivation() that finds the queue empty,   *)
(* also when an earlier thread has not yet noticed that it emptied: two    *)
(* and more threads can serve the same queue.                              *)
(***************************************************************************)
EXTENDS Integers

CONSTANTS
  Resources,    \* IOResources: senders and receivers
  Threads,      \* bound: threads of m_lstThreads alive at the same time
  LeapSeconds,  \* LEAP_SECONDS, TAI - UTC (base/include/utils.h)
  Horizon,      \* bound: the last instant of the clock
  GarbageKeys,  \* what begin()->first reads when the map is empty
  None          \* no resource, no time

Tai == -LeapSeconds .. Horizon + LeapSeconds

ASSUME ActivatorAssumption ==
  /\ LeapSeconds \in Nat
  /\ Horizon \in Nat
  /\ GarbageKeys \subseteq Int
  /\ None \notin Resources
  /\ None \notin Int

VARIABLES
  now,          \* std::chrono::high_resolution_clock, UTC
  activations,  \* m_mmActivations, a std::map: one resource at each TAI time
  bWait,        \* m_bWait
  pc,           \* where each thread is in ActivationThread()
  tp,           \* Wait()'s local: the UTC instant the thread waits for
  notified,     \* threads in wait_until() that notify_one() has picked
  itEvent,      \* key of the activation whose callback is running, or None
  owner         \* "alive", "joining" in ~Activator(), or "destroyed"

threadVars == <<pc, tp, notified>>
vars == <<now, activations, bWait, pc, tp, notified, itEvent, owner>>

Locations == {"exited", "loop", "running", "prime", "wait", "blocked",
              "timedout", "activating"}

(***************************************************************************)
(* Types, and that m_mutex keeps the callbacks apart: one thread at most   *)
(* is in Activate(), and itEvent is set exactly then.                      *)
(***************************************************************************)
TypeOK ==
  /\ now \in 0 .. Horizon
  /\ activations \in [Tai -> Resources \cup {None}]
  /\ bWait \in BOOLEAN
  /\ pc \in [Threads -> Locations]
  /\ tp \in [Threads -> Int]
  /\ notified \subseteq {t \in Threads : pc[t] = "blocked"}
  /\ itEvent \in Tai \cup {None}
  /\ (itEvent # None) <=> \E t \in Threads : pc[t] = "activating"
  /\ \A s, t \in Threads : pc[s] = "activating" /\ pc[t] = "activating" => s = t
  /\ owner \in {"alive", "joining", "destroyed"}

Pending == {k \in Tai : activations[k] # None}

First(k) == k \in Pending /\ \A j \in Pending : k <= j   \* begin()->first

\* mutant of MutexFree: Activate() unlocks m_mutex around the callback
MutexFreeInCallback == owner # "joining"

MutexFree == owner # "joining" /\ \A t \in Threads : pc[t] # "activating"

\* mutant of Locked: calls do not wait for the callback
LockedNever == owner = "alive"

Locked == MutexFree /\ owner = "alive"   \* a call on a live Activator gets m_mutex

Goto(t, l) == pc' = [pc EXCEPT ![t] = l]

\* m_cvSync.notify_one(): wakes some waiter, or is lost when nobody waits
NotifyOne ==
  LET waiters == {t \in Threads : pc[t] = "blocked" /\ t \notin notified}
  IN  IF waiters = {}
        THEN UNCHANGED notified
        ELSE \E t \in waiters : notified' = notified \cup {t}

Init ==
  /\ now = 0
  /\ activations = [k \in Tai |-> None]
  /\ bWait = TRUE
  /\ pc = [t \in Threads |-> "exited"]
  /\ tp = [t \in Threads |-> 0]
  /\ notified = {}
  /\ itEvent = None
  /\ owner = "alive"

-----------------------------------------------------------------------------
(* Calls of the node                                                       *)

SpawnThread ==
  /\ Pending = {}
  /\ \E t \in Threads : pc[t] = "exited" /\ Goto(t, "loop")
  /\ UNCHANGED <<bWait, notified>>

\* mutant of WakeThread: m_bWait without notify_one()
WakeWithoutNotify == bWait' = FALSE /\ UNCHANGED <<pc, notified>>

WakeThread ==
  /\ bWait' = FALSE
  /\ NotifyOne
  /\ UNCHANGED pc

\* mutant of AddActivation: m_mmActivations[tp] = pResource
AddReplaces(k, r) ==
  /\ Locked
  /\ activations' = [activations EXCEPT ![k] = r]
  /\ \/ SpawnThread
     \/ Pending # {} /\ (\A j \in Pending : j > k) /\ WakeThread
     \/ (\E j \in Pending : j <= k) /\ UNCHANGED <<bWait, pc, notified>>
  /\ UNCHANGED <<now, tp, itEvent, owner>>

AddActivation(k, r) ==
  /\ Locked
  /\ activations' = [activations EXCEPT ![k] = IF @ = None THEN r ELSE @]
  /\ \/ SpawnThread
     \/ Pending # {} /\ (\A j \in Pending : j > k) /\ WakeThread
     \/ (\E j \in Pending : j <= k) /\ UNCHANGED <<bWait, pc, notified>>
  /\ UNCHANGED <<now, tp, itEvent, owner>>

RemoveActivation(k, r) ==
  /\ Locked
  /\ \/ /\ First(k)
        /\ activations' = [activations EXCEPT ![k] = None]
        /\ WakeThread
     \/ /\ ~First(k)
        /\ activations' = [activations EXCEPT ![k] = IF @ = r THEN None ELSE @]
        /\ UNCHANGED <<bWait, pc, notified>>
  /\ UNCHANGED <<now, tp, itEvent, owner>>

-----------------------------------------------------------------------------
(* ActivationThread()                                                      *)

IsRunning(t) ==
  /\ pc[t] = "loop" /\ MutexFree
  /\ Goto(t, IF owner = "alive" THEN "running" ELSE "exited")
  /\ UNCHANGED <<now, activations, bWait, tp, notified, itEvent, owner>>

ActivationsPending(t) ==
  /\ pc[t] = "running" /\ MutexFree
  /\ Goto(t, IF Pending # {} THEN "prime" ELSE "exited")
  /\ UNCHANGED <<now, activations, bWait, tp, notified, itEvent, owner>>

\* mutant of PrimeWait: leaves m_bWait false
PrimeNothing(t) ==
  /\ pc[t] = "prime" /\ MutexFree
  /\ Goto(t, "wait")
  /\ UNCHANGED <<now, activations, bWait, tp, notified, itEvent, owner>>

PrimeWait(t) ==
  /\ pc[t] = "prime" /\ MutexFree
  /\ bWait' = TRUE
  /\ Goto(t, "wait")
  /\ UNCHANGED <<now, activations, tp, notified, itEvent, owner>>

Wait(t) ==      \* up to wait_until(), or to "return false" when already signalled
  /\ pc[t] = "wait" /\ MutexFree
  /\ \E k \in Tai \cup GarbageKeys :
       /\ First(k) \/ (Pending = {} /\ k \in GarbageKeys)
       /\ tp' = [tp EXCEPT ![t] = k - LeapSeconds]
  /\ Goto(t, IF bWait THEN "blocked" ELSE "loop")
  /\ UNCHANGED <<now, activations, bWait, notified, itEvent, owner>>

\* wait_until() returns, signalled, timed out or spuriously: the clock decides
\* between cv_status::timeout and no_timeout
Resume(t) ==
  /\ pc[t] = "blocked" /\ MutexFree
  /\ notified' = notified \ {t}
  /\ Goto(t, IF now >= tp[t] THEN "timedout" ELSE IF bWait THEN "blocked" ELSE "loop")
  /\ UNCHANGED <<now, activations, bWait, tp, itEvent, owner>>

BeginActivate(t) ==   \* Activate(): whatever is first by now is activated
  /\ pc[t] = "timedout" /\ MutexFree
  /\ \/ Pending = {} /\ Goto(t, "loop") /\ UNCHANGED itEvent
     \/ \E k \in Tai : First(k) /\ itEvent' = k /\ Goto(t, "activating")
  /\ UNCHANGED <<now, activations, bWait, tp, notified, owner>>

EndActivate(t) ==     \* the callback has returned
  /\ pc[t] = "activating"
  /\ \E k \in Tai : First(k) /\ activations' = [activations EXCEPT ![k] = None]
  /\ itEvent' = None
  /\ Goto(t, "loop")
  /\ UNCHANGED <<now, bWait, tp, notified, owner>>

-----------------------------------------------------------------------------
(* ~Activator(), and the clock                                             *)

Destroy ==
  /\ Locked
  /\ owner' = "joining"
  /\ WakeThread
  /\ UNCHANGED <<now, activations, tp, itEvent>>

Joined ==
  /\ owner = "joining"
  /\ \A t \in Threads : pc[t] = "exited"
  /\ owner' = "destroyed"
  /\ UNCHANGED <<now, activations, bWait, pc, tp, notified, itEvent>>

Tick ==
  /\ now < Horizon
  /\ now' = now + 1
  /\ UNCHANGED <<activations, bWait, pc, tp, notified, itEvent, owner>>

ThreadStep(t) ==
  \/ IsRunning(t) \/ ActivationsPending(t) \/ PrimeWait(t) \/ Wait(t)
  \/ Resume(t) \/ BeginActivate(t) \/ EndActivate(t)

Calls == \E k \in Tai, r \in Resources : AddActivation(k, r) \/ RemoveActivation(k, r)

Next ==
  \/ Calls
  \/ \E t \in Threads : ThreadStep(t)
  \/ Destroy \/ Joined \/ Tick

Spec == Init /\ [][Next]_vars

(***************************************************************************)
(* The scheduler runs every thread that can run, the callback returns and  *)
(* time passes; a blocked thread is only owed a return from wait_until()   *)
(* when it was notified or its time has come.  Nothing makes the node call.*)
(***************************************************************************)
MustStep(t) ==
  ThreadStep(t) /\ (pc[t] = "blocked" => t \in notified \/ now >= tp[t])

Fairness ==
  /\ \A t \in Threads : WF_vars(MustStep(t))
  /\ WF_vars(Joined)
  /\ WF_vars(Tick)

FairSpec == Spec /\ Fairness

-----------------------------------------------------------------------------
(* Properties                                                              *)

\* t will look at the queue no later than its earliest activation is due
Covers(t) ==
  \/ pc[t] \notin {"exited", "blocked"}
  \/ pc[t] = "blocked" /\ \A k \in Pending : tp[t] <= k - LeapSeconds
  \/ t \in notified /\ ~bWait

(***************************************************************************)
(* No lost wakeup: as long as something is queued, some thread is awake,   *)
(* or sleeps no longer than until the earliest activation is due, or has   *)
(* been told to look again.  It is what AddActivation()'s choice between   *)
(* spawning a thread, notifying one and doing nothing has to maintain,     *)
(* against PrimeWait() setting m_bWait back and threads about to exit.     *)
(***************************************************************************)
NoOversleep == owner = "alive" /\ Pending # {} => \E t \in Threads : Covers(t)

(***************************************************************************)
(* Activate() erases begin() after the callback, not the entry the         *)
(* callback ran for: they are the same because nothing changes the queue   *)
(* while the callback runs.                                                *)
(***************************************************************************)
ErasesWhatItRan ==
  [][itEvent # None => \A k \in Tai : activations'[k] # activations[k]
                                        => k = itEvent /\ itEvent' = None]_vars

\* what makes it so: the activation that is run stays at the head of the queue
RunsTheFirst == itEvent # None => First(itEvent)

(***************************************************************************)
(* The threads and the condition variable implement ActivationQueue.       *)
(***************************************************************************)
Queue == INSTANCE ActivationQueue WITH
           accepted <- activations, running <- itEvent, closed <- owner # "alive"

ImplementsQueue == Queue!Spec
QueueEverythingRuns == Queue!EverythingRuns
=============================================================================
