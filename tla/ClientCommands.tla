--------------------------- MODULE ClientCommands ---------------------------
(***************************************************************************)
(* What an application asks a client to do: IS-04 and IS-05 requests whose *)
(* answers it is told of later, and the connections that a task of the     *)
(* pool makes (client/src/clientprivate.cpp).                              *)
(*                                                                         *)
(* All asynchronous answers go through one slot, m_asyncResponse with its  *)
(* type and signal, that the client's thread reads when it is woken.  The  *)
(* synchronous requests return their answer and leave no trace.            *)
(*                                                                         *)
(* There is one sender and one receiver, on the same device of a node that *)
(* nobody else controls.                                                   *)
(***************************************************************************)
EXTENDS Naturals, Sequences

CONSTANTS
  Requests,   \* asynchronous requests
  Mixes,      \* what their enumConnections may be
  Connects,   \* calls of Connect() and of Disconnect(), which are tasks then
  Disconnects,
  None

SenderTypes == {"SENDER_STAGED", "SENDER_ACTIVE", "SENDER_TRANSPORTFILE",
                "SENDER_CONSTRAINTS", "SENDER_PATCH"}
ReceiverTypes == {"RECEIVER_STAGED", "RECEIVER_ACTIVE", "RECEIVER_CONSTRAINTS",
                  "RECEIVER_PATCH"}
Types == {"TARGET"} \cup SenderTypes \cup ReceiverTypes

Jobs == Connects \cup Disconnects
Codes == {200, 202, 500}
Contents == {"id", "parameters", "nothing", "error"}

ASSUME ClientCommandsAssumption ==
  /\ Mixes \subseteq [Requests -> Types]
  /\ Connects \cap Disconnects = {}
  /\ None \notin Requests \cup Jobs \cup Types \cup Contents

VARIABLES
  known,      \* which of the two are in their holder
  typeOf,     \* the enumConnection of each request, which does not change
  sent,       \* those under way
  signal, response, code, type,  \* m_eSignal, m_asyncResponse, m_nHttpRequestType
  pc, sig,    \* the client's thread, and the signal it has got
  told,       \* what the application was told about a request, and how often
  times,
  queue, job, at,  \* tasks of the pool, the one its worker does, and where it is
  sdp,        \* the connection that activated the sender last: its transport file
  file,       \* the one the worker has got
  receiver,   \* and the one the receiver has been activated with
  verdict,    \* the result of each connection that the application was told last
  last,       \* the one it was told of last
  ended       \* those that it will hear no more of

slotVars == <<signal, response, code, type>>
requestVars == <<sent, slotVars, pc, sig, told, times>>
workVars == <<job, at, sdp, file, receiver, verdict, last, ended>>
vars == <<known, typeOf, requestVars, queue, workVars>>

TypeOK ==
  /\ known \in SUBSET {"sender", "receiver"}
  /\ typeOf \in Mixes /\ sent \in SUBSET Requests
  /\ signal \in {"none", "http", "other"} /\ sig \in {"none", "http", "other"}
  /\ response \in Requests \cup {None} /\ code \in Codes /\ type \in Types \cup {None}
  /\ sig = "http" => response # None /\ type # None
  /\ pc \in {"reset", "lock", "wait", "woken", "handle"}
  /\ told \in [Requests -> Contents \cup {None}] /\ times \in [Requests -> 0 .. 2]
  /\ queue \in Seq(Jobs) /\ job \in Jobs \cup {None}
  /\ at \in {"idle", "sender", "receiver", "patchSender", "transport", "patchReceiver"}
  /\ at = "idle" <=> job = None
  /\ {sdp, file, receiver, last} \subseteq Jobs \cup {None}
  /\ verdict \in [Jobs -> {"none", "failed", "done"}] /\ ended \in SUBSET Jobs

Init ==
  /\ known = {} /\ typeOf \in Mixes /\ sent = {}
  /\ signal = "none" /\ response = None /\ code = 200 /\ type = None
  /\ pc = "reset" /\ sig = "none"
  /\ told = [r \in Requests |-> None] /\ times = [r \in Requests |-> 0]
  /\ queue = <<>> /\ job = None /\ at = "idle"
  /\ sdp = None /\ file = None /\ receiver = None
  /\ verdict = [j \in Jobs |-> "none"] /\ last = None /\ ended = {}

\* the holders: ClientCatalog
Resources ==
  /\ known' \in SUBSET {"sender", "receiver"}
  /\ UNCHANGED <<requestVars, queue, workVars>>

-----------------------------------------------------------------------------
(* Commands that are answered later                                        *)

\* The command is refused without a url: of the node for a target, else the
\* first of the device's controls that answered a GET, now or at an earlier
\* command.  One that is sent is one that had a url.

Send(r) ==
  /\ sent' = sent \cup {r}
  /\ UNCHANGED <<known, slotVars, pc, sig, told, times, queue, workVars>>

\* each request has an id of its own and is sent once
Fresh(r) == r \notin sent /\ response # r /\ times[r] = 0 /\ told[r] = None

\* Subscribe() needs both, and a url of the node for the receiver's target
Subscribe(r) ==
  /\ typeOf[r] = "TARGET" /\ known = {"sender", "receiver"}
  /\ Send(r)

Unsubscribe(r) ==
  /\ typeOf[r] = "TARGET" /\ "receiver" \in known
  /\ Send(r)

RequestSender(r) ==
  /\ typeOf[r] \in SenderTypes \ {"SENDER_PATCH"} /\ "sender" \in known
  /\ Send(r)

RequestReceiver(r) ==
  /\ typeOf[r] \in ReceiverTypes \ {"RECEIVER_PATCH"} /\ "receiver" \in known
  /\ Send(r)

PatchSenderStaged(r) ==
  /\ typeOf[r] = "SENDER_PATCH" /\ "sender" \in known
  /\ Send(r)

PatchReceiverStaged(r) ==
  /\ typeOf[r] = "RECEIVER_PATCH" /\ "receiver" \in known
  /\ Send(r)

Command(r) ==
  /\ Fresh(r)
  /\ \/ Subscribe(r) \/ Unsubscribe(r)
     \/ RequestSender(r) \/ RequestReceiver(r)
     \/ PatchSenderStaged(r) \/ PatchReceiverStaged(r)

\* an answer is written over the last one
SetHttpRequestDone(r, c) ==
  /\ r \in sent
  /\ sent' = sent \ {r}
  /\ signal' = "http" /\ response' = r /\ code' = c /\ type' = typeOf[r]
  /\ pc' = IF pc = "wait" THEN "woken" ELSE pc
  /\ UNCHANGED <<known, sig, told, times, queue, workVars>>

\* the events of ClientThreads
OtherSignal ==
  /\ signal' = "other"
  /\ pc' = IF pc = "wait" THEN "woken" ELSE pc
  /\ UNCHANGED <<known, sent, response, code, type, sig, told, times, queue, workVars>>

-----------------------------------------------------------------------------
(* The client's thread                                                     *)

ThreadQuiet ==
  UNCHANGED <<known, sent, response, code, type, queue, workVars>>

\* mutant of Wait: the signal stays
WaitOnly ==
  /\ \/ pc = "reset" /\ pc' = "lock"
     \/ pc = "lock" /\ pc' = "wait"
     \/ pc = "wait" /\ pc' = "reset"
     \/ pc = "wait" /\ pc' = "woken"
  /\ UNCHANGED <<signal, sig, told, times>> /\ ThreadQuiet

\* resets the signal, blocks, and times out or wakes up for nothing
Wait ==
  /\ \/ pc = "reset" /\ pc' = "lock" /\ signal' = "none"
     \/ pc = "lock" /\ pc' = "wait" /\ UNCHANGED signal
     \/ pc = "wait" /\ pc' = "reset" /\ UNCHANGED signal
     \/ pc = "wait" /\ pc' = "woken" /\ UNCHANGED signal
  /\ UNCHANGED <<sig, told, times>> /\ ThreadQuiet

GetSignal ==
  /\ pc = "woken" /\ pc' = "handle" /\ sig' = signal
  /\ UNCHANGED <<signal, told, times>> /\ ThreadQuiet

\* what the callback gets, of the answer in the slot
Content ==
  CASE type = "TARGET" -> IF code = 202 THEN "id" ELSE "error"
    [] type \in {"SENDER_PATCH", "RECEIVER_PATCH"} ->
         IF code \in {200, 202} THEN "parameters" ELSE "nothing"
    [] OTHER -> IF code = 200 THEN "parameters" ELSE "nothing"

\* the answer in the slot by now.  The handler of RECEIVER_ACTIVE is declared
\* there instead of called.
HandleHttpRequestDone ==
  /\ pc = "handle" /\ pc' = "reset" /\ sig' = "none"
  /\ IF sig = "http" /\ type # "RECEIVER_ACTIVE"
     THEN /\ told' = [told EXCEPT ![response] = Content]
          /\ times' = [times EXCEPT ![response] = @ + 1]
     ELSE UNCHANGED <<told, times>>
  /\ UNCHANGED signal /\ ThreadQuiet

-----------------------------------------------------------------------------
(* Connections                                                             *)

Connect(j) ==
  /\ j \in Connects /\ known = {"sender", "receiver"}
  /\ queue' = Append(queue, j)
  /\ UNCHANGED <<known, requestVars, workVars>>

\* of the sender that the receiver is subscribed to, if it is known
Disconnect(j) ==
  /\ j \in Disconnects /\ known = {"sender", "receiver"}
  /\ queue' = Append(queue, j)
  /\ UNCHANGED <<known, requestVars, workVars>>

Submitted(j) == j \in ended \/ j = job \/ \E i \in DOMAIN queue : queue[i] = j

Work == UNCHANGED <<known, requestVars>>

\* HandleConnect()
HandleConnect(result) ==
  /\ verdict' = [verdict EXCEPT ![job] = result]
  /\ last' = job

\* mutant of End: the worker keeps the task
EndKeeps(result) ==
  /\ HandleConnect(result)
  /\ at' = "idle" /\ file' = None /\ ended' = ended \cup {job} /\ UNCHANGED job

\* and nothing more
End(result) ==
  /\ HandleConnect(result)
  /\ job' = None /\ at' = "idle" /\ file' = None /\ ended' = ended \cup {job}

Begin ==
  /\ at = "idle" /\ queue # <<>>
  /\ job' = Head(queue) /\ queue' = Tail(queue)
  /\ at' = IF Head(queue) \in Connects THEN "sender" ELSE "patchReceiver"
  /\ UNCHANGED <<sdp, file, receiver, verdict, last, ended>> /\ Work

\* a failure, or no constraints, is told, and the connection is made all the same
GetSenderConstraints ==
  /\ at = "sender" /\ at' = "receiver"
  /\ HandleConnect("failed") \/ UNCHANGED <<verdict, last>>
  /\ UNCHANGED <<queue, job, sdp, file, receiver, ended>> /\ Work

\* the url that is asked has no host
GetReceiverConstraints ==
  /\ at = "receiver" /\ at' = "patchSender"
  /\ HandleConnect("failed")
  /\ UNCHANGED <<queue, job, sdp, file, receiver, ended>> /\ Work

\* mutant of PatchSender: says nothing when it fails
PatchSenderSilent ==
  /\ at = "patchSender"
  /\ \/ sdp' = job /\ at' = "transport" /\ UNCHANGED job
     \/ sdp' \in {sdp, job} /\ job' = None /\ at' = "idle"
  /\ UNCHANGED <<queue, file, receiver, verdict, last, ended>> /\ Work

\* mutant of PatchSender: its transport file is taken before
PatchSenderLate ==
  /\ at = "patchSender"
  /\ file' = sdp /\ sdp' = job /\ at' = "patchReceiver"
  /\ UNCHANGED <<queue, job, receiver, verdict, last, ended>> /\ Work

\* when the answer is lost the sender may have been activated
PatchSender ==
  /\ at = "patchSender"
  /\ \/ sdp' = job /\ at' = "transport" /\ UNCHANGED <<job, file, verdict, last, ended>>
     \/ sdp' \in {sdp, job} /\ End("failed")
  /\ UNCHANGED <<queue, receiver>> /\ Work

GetTransport ==
  /\ at = "transport"
  /\ \/ file' = sdp /\ at' = "patchReceiver" /\ UNCHANGED <<job, verdict, last, ended>>
     \/ End("failed")
  /\ UNCHANGED <<queue, sdp, receiver>> /\ Work

\* a disconnection patches with no sender and no file
PatchReceiver ==
  /\ at = "patchReceiver"
  /\ \/ receiver' = file /\ End("done")
     \/ receiver' \in {receiver, file} /\ End("failed")
  /\ UNCHANGED <<queue, sdp>> /\ Work

Task ==
  \/ Begin \/ GetSenderConstraints \/ GetReceiverConstraints
  \/ PatchSender \/ GetTransport \/ PatchReceiver

ClientThread == Wait \/ GetSignal \/ HandleHttpRequestDone

Next ==
  /\ \/ Resources \/ OtherSignal
     \/ \E r \in Requests : Command(r) \/ \E c \in Codes : SetHttpRequestDone(r, c)
     \/ \E j \in Jobs : ~Submitted(j) /\ (Connect(j) \/ Disconnect(j))
     \/ ClientThread \/ Task
  /\ UNCHANGED typeOf

Spec == Init /\ [][Next]_vars

(***************************************************************************)
(* The pool's worker runs, and its HTTP requests end.                      *)
(***************************************************************************)
FairSpec == Spec /\ WF_vars(Task /\ UNCHANGED typeOf)

-----------------------------------------------------------------------------
(* Properties                                                              *)

(***************************************************************************)
(* An answer is told at most once, however the thread wakes up and         *)
(* whatever is written over the slot, and with what the callback of its    *)
(* own type gives.  That it is told at all, as clientapi.h announces, is   *)
(* not so: the next event may be written over it, and HandleHttpRequest-   *)
(* Done() never tells that of RECEIVER_ACTIVE.                             *)
(***************************************************************************)
DeliveredOnce ==
  \A r \in Requests :
    /\ times[r] <= 1
    /\ told[r] # None => /\ r \notin sent
                         /\ (told[r] \in {"id", "error"}) <=> (typeOf[r] = "TARGET")

(***************************************************************************)
(* As long as the last that the application heard is the success of a      *)
(* connection, the receiver takes the file that the sender has had since   *)
(* that connection activated it; after a disconnection it takes none.      *)
(* With one worker in the pool also when several have been asked for.      *)
(***************************************************************************)
SuccessMeansConnected ==
  last # None /\ verdict[last] = "done" =>
    receiver = IF last \in Connects THEN last ELSE None

(***************************************************************************)
(* A connection that has been submitted ends with a result, whatever fails *)
(* on the way.                                                             *)
(***************************************************************************)
ConnectIsAnswered == \A j \in Jobs : Submitted(j) ~> j \in ended
=============================================================================
