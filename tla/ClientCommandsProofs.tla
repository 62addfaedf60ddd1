------------------------ MODULE ClientCommandsProofs ------------------------
(***************************************************************************)
(* Proofs about ClientCommands, for any number of requests and             *)
(* connections: its types, that an answer is told once, and that a success *)
(* is true of the receiver.                                                *)
(***************************************************************************)
EXTENDS ClientCommands, TLAPS

USE ClientCommandsAssumption DEF ClientCommandsAssumption

-----------------------------------------------------------------------------
(* Requests                                                                *)

SlotTyped ==
  /\ typeOf \in [Requests -> Types] /\ typeOf \in Mixes
  /\ signal \in {"none", "http", "other"} /\ sig \in {"none", "http", "other"}
  /\ response \in Requests \cup {None} /\ code \in Codes /\ type \in Types \cup {None}
  /\ pc \in {"reset", "lock", "wait", "woken", "handle"}

AnswersTyped ==
  /\ known \in SUBSET {"sender", "receiver"} /\ sent \in SUBSET Requests
  /\ told \in [Requests -> Contents \cup {None}] /\ times \in [Requests -> 0 .. 1]

\* the slot has the type of the request whose answer it has
SlotAgrees ==
  /\ response = None <=> type = None
  /\ response # None => type = typeOf[response]

\* the answer in the slot will be handled, if nothing is written over it
Pending == (signal = "http" /\ pc \in {"lock", "wait", "woken"}) \/ sig = "http"

\* what is under way or pending has not been told
Untold ==
  /\ \A r \in sent : times[r] = 0 /\ told[r] = None
  /\ signal = "http" => response # None
  /\ Pending => response # None /\ times[response] = 0 /\ response \notin sent
  /\ sig = "http" => pc = "handle"

RequestsInv == SlotTyped /\ AnswersTyped /\ SlotAgrees /\ Untold /\ DeliveredOnce

\* what a step does to the slot, when it does not write an answer or tell one
LEMMA SlotQuiet ==
  ASSUME RequestsInv,
         UNCHANGED <<known, typeOf, sent, response, code, type, told, times>>,
         signal' \in {"none", "http", "other"}, sig' \in {"none", "http", "other"},
         pc' \in {"reset", "lock", "wait", "woken", "handle"},
         Pending' => Pending, signal' = "http" => signal = "http", sig' = "http" => pc' = "handle"
  PROVE  RequestsInv'
BY DEF RequestsInv, SlotTyped, AnswersTyped, SlotAgrees, Untold, DeliveredOnce

LEMMA CommandKeeps ==
  ASSUME RequestsInv, NEW r \in Requests, Command(r), UNCHANGED typeOf
  PROVE  RequestsInv'
<1>1. /\ sent' = sent \cup {r} /\ Fresh(r)
      /\ UNCHANGED <<known, slotVars, pc, sig, told, times>>
  BY DEF Command, Subscribe, Unsubscribe, RequestSender, RequestReceiver, PatchSenderStaged,
    PatchReceiverStaged, Send
<1>2. SlotTyped' /\ AnswersTyped' /\ SlotAgrees'
  BY <1>1 DEF RequestsInv, SlotTyped, AnswersTyped, SlotAgrees, slotVars
<1>3. Untold'
  BY <1>1 DEF RequestsInv, Untold, Pending, Fresh, slotVars
<1>4. DeliveredOnce'
  BY <1>1 DEF RequestsInv, DeliveredOnce, Fresh
<1> QED
  BY <1>2, <1>3, <1>4 DEF RequestsInv

LEMMA AnswerKeeps ==
  ASSUME RequestsInv, NEW r \in Requests, NEW c \in Codes, SetHttpRequestDone(r, c),
         UNCHANGED typeOf
  PROVE  RequestsInv'
<1>1. /\ r \in sent /\ sent' = sent \ {r}
      /\ signal' = "http" /\ response' = r /\ code' = c /\ type' = typeOf[r]
      /\ pc' = IF pc = "wait" THEN "woken" ELSE pc
      /\ UNCHANGED <<known, sig, told, times>>
  BY DEF SetHttpRequestDone
<1>2. typeOf[r] \in Types /\ r # None /\ typeOf[r] # None
  BY DEF RequestsInv, SlotTyped
<1>3. SlotTyped' /\ AnswersTyped' /\ SlotAgrees'
  BY <1>1, <1>2 DEF RequestsInv, SlotTyped, AnswersTyped, SlotAgrees
<1>4. times[r] = 0 /\ told[r] = None
  BY <1>1 DEF RequestsInv, Untold
<1>5. Untold'
  BY <1>1, <1>2, <1>4 DEF RequestsInv, Untold
<1>6. DeliveredOnce'
  BY <1>1 DEF RequestsInv, DeliveredOnce
<1> QED
  BY <1>3, <1>5, <1>6 DEF RequestsInv

LEMMA WaitKeeps ==
  ASSUME RequestsInv, Wait, UNCHANGED typeOf
  PROVE  RequestsInv'
<1>1. /\ UNCHANGED <<known, sent, response, code, type, sig, told, times>>
      /\ signal' \in {signal, "none"} /\ pc' \in {"lock", "wait", "reset", "woken"}
      /\ pc' = "lock" => signal' = "none"
      /\ pc \in {"reset", "lock", "wait"} /\ (pc' # "lock" => pc # "reset" /\ signal' = signal)
  BY DEF Wait, ThreadQuiet
<1>2. sig # "http"
  BY <1>1 DEF RequestsInv, Untold
<1>3. Pending' => Pending
  BY <1>1, <1>2 DEF Pending
<1> QED
  BY <1>1, <1>2, <1>3, SlotQuiet DEF RequestsInv, SlotTyped

LEMMA GetSignalKeeps ==
  ASSUME RequestsInv, GetSignal, UNCHANGED typeOf
  PROVE  RequestsInv'
<1>1. /\ UNCHANGED <<known, sent, response, code, type, signal, told, times>>
      /\ pc = "woken" /\ pc' = "handle" /\ sig' = signal
  BY DEF GetSignal, ThreadQuiet
<1>2. Pending' => Pending
  BY <1>1 DEF Pending
<1> QED
  BY <1>1, <1>2, SlotQuiet DEF RequestsInv, SlotTyped

LEMMA HandleKeeps ==
  ASSUME RequestsInv, HandleHttpRequestDone, UNCHANGED typeOf
  PROVE  RequestsInv'
<1>1. /\ pc = "handle" /\ pc' = "reset" /\ sig' = "none"
      /\ UNCHANGED <<known, sent, response, code, type, signal>>
  BY DEF HandleHttpRequestDone, ThreadQuiet
<1>2. CASE sig = "http" /\ type # "RECEIVER_ACTIVE"
  <2>1. /\ told' = [told EXCEPT ![response] = Content]
        /\ times' = [times EXCEPT ![response] = @ + 1]
    BY <1>2 DEF HandleHttpRequestDone
  <2>2. /\ response \in Requests /\ times[response] = 0 /\ response \notin sent
        /\ type = typeOf[response] /\ type \in Types
    BY <1>2 DEF RequestsInv, SlotTyped, SlotAgrees, Untold, Pending
  <2>3. /\ Content \in Contents
        /\ Content \in {"id", "error"} <=> type = "TARGET"
    BY <2>2 DEF Content, Contents
  <2>4. SlotTyped' /\ SlotAgrees'
    BY <1>1 DEF RequestsInv, SlotTyped, SlotAgrees
  <2>5. AnswersTyped'
    BY <1>1, <2>1, <2>2, <2>3 DEF RequestsInv, AnswersTyped
  <2>6. Untold'
    BY <1>1, <2>1, <2>2 DEF RequestsInv, AnswersTyped, Untold, Pending
  <2>7. DeliveredOnce'
    BY <1>1, <1>2, <2>1, <2>2, <2>3 DEF RequestsInv, AnswersTyped, DeliveredOnce
  <2> QED
    BY <2>4, <2>5, <2>6, <2>7 DEF RequestsInv
<1>3. CASE ~(sig = "http" /\ type # "RECEIVER_ACTIVE")
  <2>1. UNCHANGED <<told, times>>
    BY <1>3 DEF HandleHttpRequestDone
  <2>2. ~Pending'
    BY <1>1 DEF Pending
  <2> QED
    BY <1>1, <2>1, <2>2, SlotQuiet DEF RequestsInv, SlotTyped
<1> QED
  BY <1>2, <1>3

LEMMA NextRequests == RequestsInv /\ [Next]_vars => RequestsInv'
<1> SUFFICES ASSUME RequestsInv, [Next]_vars PROVE RequestsInv'
  OBVIOUS
<1>a. ASSUME UNCHANGED <<requestVars, typeOf>>, known' \in SUBSET {"sender", "receiver"}
      PROVE  RequestsInv'
  BY <1>a DEF requestVars, slotVars, RequestsInv, SlotTyped, AnswersTyped, SlotAgrees, Untold,
    Pending, DeliveredOnce
<1>b. known \in SUBSET {"sender", "receiver"}
  BY DEF RequestsInv, AnswersTyped
<1>1. CASE Resources /\ UNCHANGED typeOf
  BY <1>1, <1>a DEF Resources
<1>2. CASE OtherSignal /\ UNCHANGED typeOf
  <2>1. /\ signal' = "other" /\ pc' = IF pc = "wait" THEN "woken" ELSE pc
        /\ UNCHANGED <<known, sent, response, code, type, sig, told, times>>
    BY <1>2 DEF OtherSignal
  <2>2. Pending' => Pending
    BY <2>1 DEF Pending
  <2> QED
    BY <1>2, <2>1, <2>2, SlotQuiet DEF RequestsInv, SlotTyped, Untold
<1>3. ASSUME NEW r \in Requests, Command(r) \/ \E c \in Codes : SetHttpRequestDone(r, c),
             UNCHANGED typeOf
      PROVE  RequestsInv'
  BY <1>3, CommandKeeps, AnswerKeeps
<1>4. ASSUME NEW j \in Jobs, Connect(j) \/ Disconnect(j), UNCHANGED typeOf PROVE RequestsInv'
  BY <1>4, <1>a, <1>b DEF Connect, Disconnect
<1>5. CASE ClientThread /\ UNCHANGED typeOf
  BY <1>5, WaitKeeps, GetSignalKeeps, HandleKeeps DEF ClientThread
<1>6. CASE Task /\ UNCHANGED typeOf
  <2>1. UNCHANGED <<known, requestVars>>
    BY <1>6 DEF Task, Begin, GetSenderConstraints, GetReceiverConstraints, PatchSender,
      GetTransport, PatchReceiver, Work
  <2> QED
    BY <1>6, <2>1, <1>a, <1>b
<1>7. CASE UNCHANGED vars
  BY <1>7, <1>a, <1>b DEF vars
<1> QED
  BY <1>1, <1>2, <1>3, <1>4, <1>5, <1>6, <1>7 DEF Next

LEMMA InitRequests == Init => RequestsInv
<1> SUFFICES ASSUME Init PROVE RequestsInv
  OBVIOUS
<1>1. SlotTyped /\ AnswersTyped
  BY DEF Init, SlotTyped, AnswersTyped, Codes
<1>2. SlotAgrees /\ Untold
  BY DEF Init, SlotAgrees, Untold, Pending
<1>3. \A r \in Requests : told[r] = None /\ times[r] = 0
  BY DEF Init
<1>4. ASSUME NEW r \in Requests PROVE times[r] <= 1
  <2>1. times[r] = 0
    BY <1>3
  <2> QED
    BY ONLY <2>1
<1>5. DeliveredOnce
  BY <1>3, <1>4, Zenon DEF DeliveredOnce
<1> QED
  BY <1>1, <1>2, <1>5 DEF RequestsInv

(***************************************************************************)
(* An answer is told at most once and as what it is, for any number of     *)
(* requests that share the slot.                                           *)
(***************************************************************************)
THEOREM ToldOnce == Spec => []DeliveredOnce
<1>1. RequestsInv => DeliveredOnce
  BY DEF RequestsInv
<1> QED
  BY <1>1, InitRequests, NextRequests, PTL DEF Spec

-----------------------------------------------------------------------------
(* Connections                                                             *)

WorkTyped ==
  /\ queue \in Seq(Jobs) /\ job \in Jobs \cup {None}
  /\ at \in {"idle", "sender", "receiver", "patchSender", "transport", "patchReceiver"}
  /\ at = "idle" <=> job = None
  /\ {sdp, file, receiver, last} \subseteq Jobs \cup {None}
  /\ verdict \in [Jobs -> {"none", "failed", "done"}] /\ ended \in SUBSET Jobs

\* before the receiver is patched the worker does a connection; the file it has
\* by then is that connection's, and a disconnection's is none
FileFits ==
  /\ at \in {"sender", "receiver", "patchSender", "transport"} => job \in Connects
  /\ at \in {"idle", "sender", "receiver", "patchSender", "transport"} => file = None
  /\ at = "transport" => sdp = job
  /\ at = "patchReceiver" => file = IF job \in Connects THEN job ELSE None

WorkInv == WorkTyped /\ FileFits /\ SuccessMeansConnected

LEMMA JobsTyped == None \notin Jobs /\ Connects \subseteq Jobs
BY DEF Jobs

LEMMA SubmitKeeps ==
  ASSUME WorkInv, NEW j \in Jobs, Connect(j) \/ Disconnect(j)
  PROVE  WorkInv'
<1>1. queue' = Append(queue, j) /\ UNCHANGED workVars
  BY DEF Connect, Disconnect
<1>2. queue' \in Seq(Jobs)
  BY <1>1 DEF WorkInv, WorkTyped
<1> QED
  BY <1>1, <1>2 DEF workVars, WorkInv, WorkTyped, FileFits, SuccessMeansConnected

\* the connection that ends is the last the application hears of
LEMMA HandleTyped ==
  ASSUME WorkTyped, job \in Jobs, NEW result \in {"failed", "done"}, HandleConnect(result)
  PROVE  /\ verdict' \in [Jobs -> {"none", "failed", "done"}]
         /\ last' = job /\ verdict'[last'] = result
BY DEF WorkTyped, HandleConnect

LEMMA EndKeepsWork ==
  ASSUME WorkInv, job \in Jobs, NEW result \in {"failed", "done"}, End(result),
         queue' = queue, sdp' \in Jobs \cup {None}, receiver' \in Jobs \cup {None},
         result = "done" => receiver' = IF job \in Connects THEN job ELSE None
  PROVE  WorkInv'
<1>1. HandleConnect(result) /\ job' = None /\ at' = "idle" /\ file' = None
      /\ ended' = ended \cup {job}
  BY DEF End
<1>2. /\ verdict' \in [Jobs -> {"none", "failed", "done"}]
      /\ last' = job /\ verdict'[last'] = result
  BY <1>1, HandleTyped DEF WorkInv
<1>3. WorkTyped'
  BY <1>1, <1>2 DEF WorkInv, WorkTyped
<1>4. FileFits'
  BY <1>1 DEF FileFits
<1>5. SuccessMeansConnected'
  BY <1>2 DEF SuccessMeansConnected
<1> QED
  BY <1>3, <1>4, <1>5 DEF WorkInv

\* the worker goes on with its connection
LEMMA GoOnKeeps ==
  ASSUME WorkInv, job \in Jobs, UNCHANGED <<queue, job, receiver, ended>>,
         at' \in {"sender", "receiver", "patchSender", "transport", "patchReceiver"},
         sdp' \in Jobs \cup {None}, file' \in Jobs \cup {None}, FileFits',
         HandleConnect("failed") \/ UNCHANGED <<verdict, last>>
  PROVE  WorkInv'
<1>1. CASE HandleConnect("failed")
  <2>1. /\ verdict' \in [Jobs -> {"none", "failed", "done"}]
        /\ last' = job /\ verdict'[last'] = "failed"
    BY <1>1, HandleTyped DEF WorkInv
  <2>2. WorkTyped' /\ SuccessMeansConnected'
    BY <2>1, JobsTyped DEF WorkInv, WorkTyped, SuccessMeansConnected
  <2> QED
    BY <2>2 DEF WorkInv
<1>2. CASE UNCHANGED <<verdict, last>>
  BY <1>2, JobsTyped DEF WorkInv, WorkTyped, SuccessMeansConnected
<1> QED
  BY <1>1, <1>2

LEMMA TaskKeeps ==
  ASSUME WorkInv, Task
  PROVE  WorkInv'
<1> USE JobsTyped
<1>1. CASE Begin
  <2>1. /\ at = "idle" /\ queue # <<>> /\ job' = Head(queue) /\ queue' = Tail(queue)
        /\ at' = IF Head(queue) \in Connects THEN "sender" ELSE "patchReceiver"
        /\ UNCHANGED <<sdp, file, receiver, verdict, last, ended>>
    BY <1>1 DEF Begin
  <2>2. Head(queue) \in Jobs /\ Tail(queue) \in Seq(Jobs)
    BY <2>1 DEF WorkInv, WorkTyped
  <2>3. WorkTyped'
    BY <2>1, <2>2 DEF WorkInv, WorkTyped
  <2>4. FileFits'
    BY <2>1, <2>2 DEF WorkInv, FileFits
  <2>5. SuccessMeansConnected'
    BY <2>1 DEF WorkInv, SuccessMeansConnected
  <2> QED
    BY <2>3, <2>4, <2>5 DEF WorkInv
<1>a. at # "idle" => job \in Jobs
  BY DEF WorkInv, WorkTyped
<1>b. {sdp, file, receiver} \subseteq Jobs \cup {None}
  BY DEF WorkInv, WorkTyped
<1>2. CASE GetSenderConstraints
  <2>1. /\ at = "sender" /\ at' = "receiver"
        /\ HandleConnect("failed") \/ UNCHANGED <<verdict, last>>
        /\ UNCHANGED <<queue, job, sdp, file, receiver, ended>>
    BY <1>2 DEF GetSenderConstraints
  <2>2. FileFits'
    BY <2>1 DEF WorkInv, FileFits
  <2> QED
    BY <1>a, <1>b, <2>1, <2>2, GoOnKeeps
<1>3. CASE GetReceiverConstraints
  <2>1. /\ at = "receiver" /\ at' = "patchSender" /\ HandleConnect("failed")
        /\ UNCHANGED <<queue, job, sdp, file, receiver, ended>>
    BY <1>3 DEF GetReceiverConstraints
  <2>2. FileFits'
    BY <2>1 DEF WorkInv, FileFits
  <2> QED
    BY <1>a, <1>b, <2>1, <2>2, GoOnKeeps
<1>4. CASE PatchSender
  <2>1. at = "patchSender" /\ UNCHANGED <<queue, receiver>>
    BY <1>4 DEF PatchSender
  <2>2. CASE sdp' = job /\ at' = "transport" /\ UNCHANGED <<job, file, verdict, last, ended>>
    <3>1. FileFits'
      BY <2>1, <2>2 DEF WorkInv, FileFits
    <3> QED
      BY <1>a, <1>b, <2>1, <2>2, <3>1, GoOnKeeps
  <2>3. CASE sdp' \in {sdp, job} /\ End("failed")
    BY <1>a, <1>b, <2>1, <2>3, EndKeepsWork
  <2> QED
    BY <1>4, <2>2, <2>3 DEF PatchSender
<1>5. CASE GetTransport
  <2>1. at = "transport" /\ UNCHANGED <<queue, sdp, receiver>>
    BY <1>5 DEF GetTransport
  <2>2. CASE file' = sdp /\ at' = "patchReceiver" /\ UNCHANGED <<job, verdict, last, ended>>
    <3>1. FileFits'
      BY <2>1, <2>2 DEF WorkInv, FileFits
    <3> QED
      BY <1>a, <1>b, <2>1, <2>2, <3>1, GoOnKeeps
  <2>3. CASE End("failed")
    BY <1>a, <1>b, <2>1, <2>3, EndKeepsWork
  <2> QED
    BY <1>5, <2>2, <2>3 DEF GetTransport
<1>6. CASE PatchReceiver
  <2>1. at = "patchReceiver" /\ UNCHANGED <<queue, sdp>>
    BY <1>6 DEF PatchReceiver
  <2>2. file = IF job \in Connects THEN job ELSE None
    BY <2>1 DEF WorkInv, FileFits
  <2>3. CASE receiver' = file /\ End("done")
    BY <1>a, <1>b, <2>1, <2>2, <2>3, EndKeepsWork
  <2>4. CASE receiver' \in {receiver, file} /\ End("failed")
    BY <1>a, <1>b, <2>1, <2>4, EndKeepsWork
  <2> QED
    BY <1>6, <2>3, <2>4 DEF PatchReceiver
<1> QED
  BY <1>1, <1>2, <1>3, <1>4, <1>5, <1>6 DEF Task

LEMMA NextWork == WorkInv /\ [Next]_vars => WorkInv'
<1> SUFFICES ASSUME WorkInv, [Next]_vars PROVE WorkInv'
  OBVIOUS
<1>a. ASSUME UNCHANGED <<queue, workVars>> PROVE WorkInv'
  BY <1>a DEF workVars, WorkInv, WorkTyped, FileFits, SuccessMeansConnected
<1>1. CASE Resources \/ OtherSignal
  BY <1>1, <1>a DEF Resources, OtherSignal
<1>2. ASSUME NEW r \in Requests, Command(r) \/ \E c \in Codes : SetHttpRequestDone(r, c)
      PROVE  WorkInv'
  BY <1>2, <1>a DEF Command, Subscribe, Unsubscribe, RequestSender, RequestReceiver,
    PatchSenderStaged, PatchReceiverStaged, Send, SetHttpRequestDone
<1>3. ASSUME NEW j \in Jobs, Connect(j) \/ Disconnect(j) PROVE WorkInv'
  BY <1>3, SubmitKeeps
<1>4. CASE ClientThread
  BY <1>4, <1>a DEF ClientThread, Wait, GetSignal, HandleHttpRequestDone, ThreadQuiet
<1>5. CASE Task
  BY <1>5, TaskKeeps
<1>6. CASE UNCHANGED vars
  BY <1>6, <1>a DEF vars
<1> QED
  BY <1>1, <1>2, <1>3, <1>4, <1>5, <1>6 DEF Next

LEMMA InitWork == Init => WorkInv
<1> SUFFICES ASSUME Init PROVE WorkInv
  OBVIOUS
<1>1. WorkTyped
  BY DEF Init, WorkTyped
<1>2. FileFits /\ SuccessMeansConnected
  BY DEF Init, FileFits, SuccessMeansConnected
<1> QED
  BY <1>1, <1>2 DEF WorkInv

(***************************************************************************)
(* As long as the success of a connection is the last the application      *)
(* heard, the receiver has been activated with the file that connection    *)
(* gave the sender, for any number of connections and disconnections.      *)
(***************************************************************************)
THEOREM SuccessIsTrue == Spec => []SuccessMeansConnected
<1>1. WorkInv => SuccessMeansConnected
  BY DEF WorkInv
<1> QED
  BY <1>1, InitWork, NextWork, PTL DEF Spec

(***************************************************************************)
(* Types, with the bound on how often an answer is told.                   *)
(***************************************************************************)
THEOREM TypeCorrect == Spec => []TypeOK
<1>1. RequestsInv /\ WorkInv => TypeOK
  <2> SUFFICES ASSUME RequestsInv, WorkInv PROVE TypeOK
    OBVIOUS
  <2>1. \A r \in Requests : times[r] \in 0 .. 2
    BY DEF RequestsInv, AnswersTyped
  <2>2. times \in [Requests -> 0 .. 2]
    BY <2>1 DEF RequestsInv, AnswersTyped
  <2>3. sig = "http" => response # None /\ type # None
    BY DEF RequestsInv, Untold, Pending, SlotAgrees
  <2> QED
    BY <2>2, <2>3 DEF RequestsInv, WorkInv, SlotTyped, AnswersTyped, WorkTyped, TypeOK
<1> QED
  BY <1>1, InitRequests, NextRequests, InitWork, NextWork, PTL DEF Spec
=============================================================================
