-------------------------- MODULE ActivatorProofs --------------------------
(***************************************************************************)
(* What is proved of Activator for any resources, threads, clock bound and *)
(* leap seconds: its types, that no wakeup is lost, that the entry erased  *)
(* is the entry that ran, and that it implements ActivationQueue.          *)
(***************************************************************************)
EXTENDS Activator, TLAPS

LEMMA InitTypeOK == Init => TypeOK
<1> SUFFICES ASSUME Init PROVE TypeOK
  OBVIOUS
<1> USE ActivatorAssumption DEF Init, TypeOK, Tai, Locations
<1>1. now \in 0 .. Horizon
  OBVIOUS
<1>2. notified \subseteq {t \in Threads : pc[t] = "blocked"}
  OBVIOUS
<1>3. (itEvent # None) <=> \E t \in Threads : pc[t] = "activating"
  OBVIOUS
<1> QED
  BY <1>1, <1>2, <1>3

LEMMA WakeThreadTyped ==
  ASSUME TypeOK, WakeThread
  PROVE  /\ bWait' = FALSE
         /\ notified' \subseteq {t \in Threads : pc'[t] = "blocked"}
         /\ pc' = pc
         /\ notified \subseteq notified'
BY DEF WakeThread, NotifyOne, TypeOK

LEMMA NextTypeOK == TypeOK /\ [Next]_vars => TypeOK'
<1> SUFFICES ASSUME TypeOK, [Next]_vars PROVE TypeOK'
  OBVIOUS
<1> USE ActivatorAssumption DEF TypeOK, Locations, Goto, Locked, MutexFree
<1>1. ASSUME NEW k \in Tai, NEW r \in Resources, AddActivation(k, r)
      PROVE  TypeOK'
  <2>1. activations' \in [Tai -> Resources \cup {None}]
    BY <1>1 DEF AddActivation
  <2>2. CASE SpawnThread
    BY <1>1, <2>1, <2>2 DEF AddActivation, SpawnThread
  <2>3. CASE WakeThread
    BY <1>1, <2>1, <2>3, WakeThreadTyped DEF AddActivation
  <2>4. CASE UNCHANGED <<bWait, pc, notified>>
    BY <1>1, <2>1, <2>4 DEF AddActivation
  <2> QED
    BY <1>1, <2>2, <2>3, <2>4 DEF AddActivation
<1>2. ASSUME NEW k \in Tai, NEW r \in Resources, RemoveActivation(k, r)
      PROVE  TypeOK'
  <2>1. activations' \in [Tai -> Resources \cup {None}]
    BY <1>2 DEF RemoveActivation
  <2>2. CASE WakeThread
    BY <1>2, <2>1, <2>2, WakeThreadTyped DEF RemoveActivation
  <2>3. CASE UNCHANGED <<bWait, pc, notified>>
    BY <1>2, <2>1, <2>3 DEF RemoveActivation
  <2> QED
    BY <1>2, <2>2, <2>3 DEF RemoveActivation
<1>3. ASSUME NEW t \in Threads, ThreadStep(t)
      PROVE  TypeOK'
  <2>1. CASE IsRunning(t)
    BY <2>1 DEF IsRunning
  <2>2. CASE ActivationsPending(t)
    BY <2>2 DEF ActivationsPending
  <2>3. CASE PrimeWait(t)
    BY <2>3 DEF PrimeWait
  <2>4. CASE Wait(t)
    <3>1. tp' \in [Threads -> Int]
      BY <2>4 DEF Wait, Tai
    <3> QED
      BY <2>4, <3>1 DEF Wait
  <2>5. CASE Resume(t)
    BY <2>5 DEF Resume
  <2>6. CASE BeginActivate(t)
    <3>1. CASE itEvent' = itEvent /\ pc' = [pc EXCEPT ![t] = "loop"]
      BY <2>6, <3>1 DEF BeginActivate
    <3>2. CASE \E k \in Tai : itEvent' = k /\ pc' = [pc EXCEPT ![t] = "activating"]
      BY <2>6, <3>2 DEF BeginActivate, Tai
    <3> QED
      BY <2>6, <3>1, <3>2 DEF BeginActivate
  <2>7. CASE EndActivate(t)
    BY <2>7 DEF EndActivate
  <2> QED
    BY <1>3, <2>1, <2>2, <2>3, <2>4, <2>5, <2>6, <2>7 DEF ThreadStep
<1>4. CASE Destroy
  BY <1>4, WakeThreadTyped DEF Destroy
<1>5. CASE Joined
  BY <1>5 DEF Joined
<1>6. CASE Tick
  BY <1>6 DEF Tick
<1>7. CASE UNCHANGED vars
  BY <1>7 DEF vars
<1> QED
  BY <1>1, <1>2, <1>3, <1>4, <1>5, <1>6, <1>7 DEF Next, Calls

(***************************************************************************)
(* The state stays within its types, and at most one thread is inside      *)
(* Activate(), with itEvent set.                                           *)
(***************************************************************************)
THEOREM TypeCorrect == Spec => []TypeOK
<1> QED
  BY InitTypeOK, NextTypeOK, PTL DEF Spec

-----------------------------------------------------------------------------
(* No lost wakeup.  NoOversleep is inductive relative to the types.        *)

LEMMA NextNoOversleep == TypeOK /\ NoOversleep /\ [Next]_vars => NoOversleep'
<1> SUFFICES ASSUME TypeOK, NoOversleep, [Next]_vars, owner' = "alive", Pending' # {}
             PROVE  \E t \in Threads : Covers(t)'
  BY DEF NoOversleep
<1> USE ActivatorAssumption DEF TypeOK, Locations, Goto, Locked, MutexFree
<1>0. WakeThread /\ Pending # {} /\ owner = "alive" => \E t \in Threads : Covers(t)'
  <2> SUFFICES ASSUME WakeThread, Pending # {}, owner = "alive"
               PROVE  \E t \in Threads : Covers(t)'
    OBVIOUS
  <2>1. PICK t \in Threads : Covers(t)
    BY DEF NoOversleep
  <2>2. CASE pc[t] \notin {"exited", "blocked"}
    BY <2>2 DEF WakeThread, Covers
  <2>3. CASE pc[t] = "blocked"
    <3> DEFINE waiters == {u \in Threads : pc[u] = "blocked" /\ u \notin notified}
    <3>1. CASE waiters = {}
      <4>1. t \in notified /\ notified' = notified /\ bWait' = FALSE
        BY <2>3, <3>1 DEF WakeThread, NotifyOne
      <4> QED
        BY <4>1 DEF Covers
    <3>2. CASE waiters # {}
      <4>1. PICK u \in waiters : notified' = notified \cup {u}
        BY <3>2 DEF WakeThread, NotifyOne
      <4> QED
        BY <4>1 DEF WakeThread, Covers
    <3> QED
      BY <3>1, <3>2
  <2> QED
    BY <2>1, <2>2, <2>3 DEF Covers
<1>1. ASSUME NEW k \in Tai, NEW r \in Resources, AddActivation(k, r)
      PROVE  \E t \in Threads : Covers(t)'
  <2>1. CASE SpawnThread
    BY <1>1, <2>1 DEF SpawnThread, Covers
  <2>2. CASE Pending # {} /\ WakeThread
    BY <1>0, <1>1, <2>2 DEF AddActivation
  <2>3. CASE (\E j \in Pending : j <= k) /\ UNCHANGED <<bWait, pc, notified>>
    <3>1. PICK j \in Pending : j <= k
      BY <2>3
    <3>2. Pending' \subseteq Pending \cup {k} /\ UNCHANGED <<bWait, pc, notified, tp>>
      BY <1>1, <2>3 DEF AddActivation, Pending
    <3>3. PICK t \in Threads : Covers(t)
      BY <1>1, <3>1 DEF AddActivation, NoOversleep
    <3>4. (\A i \in Pending : tp[t] <= i - LeapSeconds)
            => \A i \in Pending' : tp[t] <= i - LeapSeconds
      <4> SUFFICES ASSUME \A i \in Pending : tp[t] <= i - LeapSeconds
                   PROVE  tp[t] <= k - LeapSeconds
        BY <3>2
      <4>1. j \in Int /\ k \in Int /\ tp[t] \in Int /\ tp[t] <= j - LeapSeconds
        BY DEF Pending, Tai
      <4> QED
        BY <3>1, <4>1
    <3> QED
      BY <3>2, <3>3, <3>4 DEF Covers
  <2> QED
    BY <1>1, <2>1, <2>2, <2>3 DEF AddActivation
<1>2. ASSUME NEW k \in Tai, NEW r \in Resources, RemoveActivation(k, r)
      PROVE  \E t \in Threads : Covers(t)'
  <2>1. Pending' \subseteq Pending /\ Pending # {}
    BY <1>2 DEF RemoveActivation, Pending
  <2>2. CASE WakeThread
    BY <1>0, <1>2, <2>1, <2>2 DEF RemoveActivation
  <2>3. CASE UNCHANGED <<bWait, pc, notified>>
    <3>1. PICK t \in Threads : Covers(t)
      BY <1>2, <2>1 DEF RemoveActivation, NoOversleep
    <3> QED
      BY <1>2, <2>1, <2>3, <3>1 DEF RemoveActivation, Covers
  <2> QED
    BY <1>2, <2>2, <2>3 DEF RemoveActivation
<1>3. ASSUME NEW s \in Threads, ThreadStep(s)
      PROVE  \E t \in Threads : Covers(t)'
  <2>1. CASE pc'[s] \notin {"exited", "blocked"}
    BY <2>1 DEF Covers
  <2>2. CASE pc'[s] = "exited"
    <3>1. IsRunning(s) \/ ActivationsPending(s)
      BY <1>3, <2>2 DEF ThreadStep, IsRunning, ActivationsPending, PrimeWait, Wait,
                        Resume, BeginActivate, EndActivate
    <3>2. CASE IsRunning(s)
      BY <2>2, <3>2 DEF IsRunning
    <3>3. CASE ActivationsPending(s)
      BY <2>2, <3>3 DEF ActivationsPending, Pending
    <3> QED
      BY <3>1, <3>2, <3>3
  <2>3. CASE pc'[s] = "blocked"
    <3>1. Wait(s) \/ Resume(s)
      BY <1>3, <2>3 DEF ThreadStep, IsRunning, ActivationsPending, PrimeWait, Wait,
                        Resume, BeginActivate, EndActivate
    <3>2. CASE Wait(s)
      <4>1. PICK k \in Tai \cup GarbageKeys :
              /\ First(k) \/ (Pending = {} /\ k \in GarbageKeys)
              /\ tp' = [tp EXCEPT ![s] = k - LeapSeconds]
        BY <3>2 DEF Wait
      <4>2. Pending' = Pending
        BY <3>2 DEF Wait, Pending
      <4>3. First(k) /\ tp'[s] = k - LeapSeconds
        BY <4>1, <4>2
      <4>4. \A j \in Pending : k \in Int /\ j \in Int /\ k <= j
        BY <4>3 DEF First, Pending, Tai
      <4>5. \A j \in Pending' : tp'[s] <= j - LeapSeconds
        BY <4>2, <4>3, <4>4
      <4> QED
        BY <2>3, <4>5 DEF Covers
    <3>3. CASE Resume(s)
      <4>1. Pending' = Pending /\ UNCHANGED <<bWait, tp, owner>> /\ bWait
        BY <2>3, <3>3 DEF Resume, Pending
      <4>2. PICK t \in Threads : Covers(t)
        BY <4>1 DEF NoOversleep
      <4>3. pc'[t] = pc[t]
        BY <2>3, <3>3 DEF Resume
      <4> QED
        BY <4>1, <4>2, <4>3 DEF Covers
    <3> QED
      BY <3>1, <3>2, <3>3
  <2> QED
    BY <2>1, <2>2, <2>3
<1>4. CASE Tick \/ UNCHANGED vars
  <2>1. UNCHANGED <<activations, bWait, pc, tp, notified, owner>>
    BY <1>4 DEF Tick, vars
  <2> QED
    BY <2>1 DEF NoOversleep, Covers, Pending
<1>5. ~Destroy /\ ~Joined
  BY DEF Destroy, Joined
<1> QED
  BY <1>1, <1>2, <1>3, <1>4, <1>5 DEF Next, Calls

(***************************************************************************)
(* No wakeup is lost: whenever an activation is queued, some thread is     *)
(* awake or will wake by the time the earliest one is due.                 *)
(***************************************************************************)
THEOREM NoLostWakeup == Spec => []NoOversleep
<1>1. Init => NoOversleep
  BY ActivatorAssumption DEF Init, NoOversleep, Pending
<1> QED
  BY <1>1, TypeCorrect, NextNoOversleep, PTL DEF Spec

-----------------------------------------------------------------------------
(* The entry that is erased is the entry that ran.                         *)

LEMMA NextRunsTheFirst == TypeOK /\ RunsTheFirst /\ [Next]_vars => RunsTheFirst'
<1> SUFFICES ASSUME TypeOK, RunsTheFirst, [Next]_vars, itEvent' # None
             PROVE  First(itEvent)'
  BY DEF RunsTheFirst
<1> USE ActivatorAssumption DEF TypeOK, Goto, Locked, MutexFree
<1>1. ~Calls /\ ~Destroy
  BY DEF Calls, AddActivation, RemoveActivation, Destroy
<1>2. ASSUME NEW t \in Threads, ThreadStep(t)
      PROVE  First(itEvent)'
  <2>1. CASE BeginActivate(t)
    BY <2>1 DEF BeginActivate, First, Pending
  <2>2. CASE EndActivate(t)
    BY <2>2 DEF EndActivate
  <2>3. CASE UNCHANGED <<activations, itEvent>>
    BY <2>3 DEF RunsTheFirst, First, Pending
  <2> QED
    BY <1>2, <2>1, <2>2, <2>3 DEF ThreadStep, IsRunning, ActivationsPending,
                                  PrimeWait, Wait, Resume
<1>3. CASE Joined \/ Tick \/ UNCHANGED vars
  <2>1. UNCHANGED <<activations, itEvent>>
    BY <1>3 DEF Joined, Tick, vars
  <2> QED
    BY <2>1 DEF RunsTheFirst, First, Pending
<1> QED
  BY <1>1, <1>2, <1>3 DEF Next

LEMMA AlwaysRunsTheFirst == Spec => []RunsTheFirst
<1>1. Init => RunsTheFirst
  BY DEF Init, RunsTheFirst
<1> QED
  BY <1>1, TypeCorrect, NextRunsTheFirst, PTL DEF Spec

LEMMA FirstIsUnique ==
  ASSUME NEW j \in Tai, NEW k \in Tai, First(j), First(k) PROVE j = k
<1>1. j \in Int /\ k \in Int /\ j <= k /\ k <= j
  BY ActivatorAssumption DEF First, Tai
<1> QED
  BY <1>1

\* EndActivate() in terms of the entry that ran
LEMMA EndErasesItEvent ==
  ASSUME TypeOK, RunsTheFirst, NEW t \in Threads, EndActivate(t)
  PROVE  /\ itEvent \in Tai /\ itEvent # None
         /\ activations' = [activations EXCEPT ![itEvent] = None]
         /\ itEvent' = None
<1>1. itEvent \in Tai /\ itEvent # None /\ First(itEvent)
  BY DEF EndActivate, TypeOK, RunsTheFirst
<1>2. PICK k \in Tai : First(k) /\ activations' = [activations EXCEPT ![k] = None]
  BY DEF EndActivate
<1>3. k = itEvent
  BY <1>1, <1>2, FirstIsUnique
<1> QED
  BY <1>1, <1>2, <1>3 DEF EndActivate

(***************************************************************************)
(* While a callback runs nothing but its own entry leaves the queue, and   *)
(* that when it has returned.                                              *)
(***************************************************************************)
THEOREM ErasesOnlyWhatItRan == Spec => ErasesWhatItRan
<1> DEFINE Step == itEvent # None => \A k \in Tai : activations'[k] # activations[k]
                                                      => k = itEvent /\ itEvent' = None
<1>1. TypeOK /\ RunsTheFirst /\ [Next]_vars => [Step]_vars
  <2> SUFFICES ASSUME TypeOK, RunsTheFirst, Next, itEvent # None
               PROVE  Step
    OBVIOUS
  <2>1. ~Calls /\ ~Destroy
    BY DEF TypeOK, Calls, AddActivation, RemoveActivation, Destroy, Locked, MutexFree
  <2>2. CASE \E t \in Threads : EndActivate(t)
    BY <2>2, EndErasesItEvent DEF TypeOK
  <2>3. CASE UNCHANGED activations
    BY <2>3
  <2> QED
    BY <2>1, <2>2, <2>3 DEF Next, ThreadStep, IsRunning, ActivationsPending, PrimeWait,
                            Wait, Resume, BeginActivate, Joined, Tick
<1> QED
  BY <1>1, TypeCorrect, AlwaysRunsTheFirst, PTL DEF Spec, ErasesWhatItRan

-----------------------------------------------------------------------------
(* Activator implements ActivationQueue.                                   *)

\* join() has returned for every thread
AllJoined == owner = "destroyed" => \A t \in Threads : pc[t] = "exited"

LEMMA NextAllJoined == TypeOK /\ AllJoined /\ [Next]_vars => AllJoined'
<1> SUFFICES ASSUME TypeOK, AllJoined, [Next]_vars, owner' = "destroyed"
             PROVE  \A t \in Threads : pc'[t] = "exited"
  BY DEF AllJoined
<1>1. ~Calls /\ ~Destroy
  BY DEF Calls, AddActivation, RemoveActivation, Destroy, Locked
<1>2. ASSUME NEW t \in Threads, ThreadStep(t)
      PROVE  FALSE
  <2>1. owner' = owner /\ pc[t] # "exited"
    BY <1>2 DEF ThreadStep, IsRunning, ActivationsPending, PrimeWait, Wait,
                Resume, BeginActivate, EndActivate
  <2> QED
    BY <2>1 DEF AllJoined
<1>3. CASE Joined \/ Tick \/ UNCHANGED vars
  BY <1>3 DEF AllJoined, Joined, Tick, vars
<1> QED
  BY <1>1, <1>2, <1>3 DEF Next

LEMMA AlwaysAllJoined == Spec => []AllJoined
<1>1. Init => AllJoined
  BY DEF Init, AllJoined
<1> QED
  BY <1>1, TypeCorrect, NextAllJoined, PTL DEF Spec

LEMMA StepImplementsQueue ==
  TypeOK /\ RunsTheFirst /\ AllJoined /\ [Next]_vars => [Queue!Next]_(Queue!vars)
<1> SUFFICES ASSUME TypeOK, RunsTheFirst, AllJoined, [Next]_vars
             PROVE  Queue!Next \/ UNCHANGED Queue!vars
  OBVIOUS
<1> USE ActivatorAssumption
<1>0. Pending = Queue!Taken /\ \A k \in Tai : First(k) <=> Queue!First(k)
  BY DEF Pending, Queue!Taken, First, Queue!First
<1>1. Locked => owner = "alive" /\ itEvent = None
  BY DEF TypeOK, Locked, MutexFree
<1>2. ASSUME NEW k \in Tai, NEW r \in Resources, AddActivation(k, r)
      PROVE  Queue!Request(k, r)
  BY <1>1, <1>2 DEF AddActivation, Queue!Request
<1>3. ASSUME NEW k \in Tai, NEW r \in Resources, RemoveActivation(k, r)
      PROVE  Queue!Withdraw(k, r) \/ UNCHANGED Queue!vars
  <2>1. owner' = owner /\ itEvent' = itEvent
    BY <1>3 DEF RemoveActivation
  <2>2. CASE First(k)
    BY <1>0, <1>1, <1>3, <2>1, <2>2 DEF RemoveActivation, Queue!Withdraw
  <2>3. CASE ~First(k) /\ activations[k] = r
    <3>1. activations' = [activations EXCEPT ![k] = None]
      BY <1>3, <2>3 DEF RemoveActivation
    <3> QED
      BY <1>0, <1>1, <1>3, <2>1, <2>3, <3>1 DEF RemoveActivation, Queue!Withdraw
  <2>4. CASE ~First(k) /\ activations[k] # r
    <3>1. activations' = activations
      BY <1>3, <2>4 DEF RemoveActivation, TypeOK
    <3> QED
      BY <2>1, <3>1 DEF Queue!vars
  <2> QED
    BY <2>2, <2>3, <2>4
<1>4. ASSUME NEW t \in Threads, ThreadStep(t)
      PROVE  Queue!Next \/ UNCHANGED Queue!vars
  <2>1. CASE BeginActivate(t)
    <3>1. UNCHANGED <<activations, owner>> /\ MutexFree
      BY <2>1 DEF BeginActivate
    <3>2. owner = "alive" /\ itEvent = None
      BY <2>1, <3>1 DEF TypeOK, AllJoined, MutexFree, BeginActivate
    <3>3. CASE itEvent' = itEvent
      BY <3>1, <3>3 DEF Queue!vars
    <3>4. CASE \E k \in Tai : First(k) /\ itEvent' = k
      BY <1>0, <3>1, <3>2, <3>4 DEF Queue!Start, Queue!Next
    <3> QED
      BY <2>1, <3>3, <3>4 DEF BeginActivate
  <2>2. CASE EndActivate(t)
    <3>1. owner' = owner
      BY <2>2 DEF EndActivate
    <3> QED
      BY <2>2, <3>1, EndErasesItEvent DEF Queue!Finish, Queue!Next
  <2>3. CASE UNCHANGED <<activations, itEvent, owner>>
    BY <2>3 DEF Queue!vars
  <2> QED
    BY <1>4, <2>1, <2>2, <2>3 DEF ThreadStep, IsRunning, ActivationsPending,
                                  PrimeWait, Wait, Resume
<1>5. CASE Destroy
  BY <1>1, <1>5 DEF Destroy, Queue!Close, Queue!Next
<1>6. CASE Joined \/ Tick \/ UNCHANGED vars
  <2>1. activations' = activations /\ itEvent' = itEvent
        /\ ((owner # "alive")' <=> owner # "alive")
    BY <1>6 DEF Joined, Tick, vars
  <2> QED
    BY <2>1 DEF Queue!vars
<1> QED
  BY <1>2, <1>3, <1>4, <1>5, <1>6 DEF Next, Calls, Queue!Next, Queue!Calls

(***************************************************************************)
(* The threads, the mutex and the condition variable are invisible to the  *)
(* node: every behaviour of Activator is one of ActivationQueue.           *)
(***************************************************************************)
THEOREM Implementation == Spec => ImplementsQueue
<1>1. Init => Queue!Init
  BY DEF Init, Queue!Init
<1> QED
  BY <1>1, StepImplementsQueue, TypeCorrect, AlwaysRunsTheFirst, AlwaysAllJoined, PTL
     DEF Spec, ImplementsQueue, Queue!Spec
=============================================================================
