--------------------------- MODULE ServerRequests ---------------------------
(***************************************************************************)
(* Requests the app server sends to its clients for one thread: a call of  *)
(* the session waits (session.ts), the runtime sends the request under an  *)
(* id (outgoing_message.ts, runtime.ts), the server stores a record and    *)
(* shows it to the subscribed connections (server/app-server.ts), any      *)
(* client answers it, and all are told that it is resolved.  A dynamic     *)
(* tool the server executes itself takes the same path without a client.   *)
(*                                                                         *)
(* The process may end and start again: what it kept in memory is lost,    *)
(* the records may be on disk, sockets may be restored, and clients keep   *)
(* the prompts they show.  Ids start from 0 in every process.              *)
(*                                                                         *)
(* A message to a connection arrives at once or never; an answer counts    *)
(* from the moment accept() is called with it.  A JSON-RPC error takes the *)
(* path of a result (rejectServerRequest) and is not told apart.  The core *)
(* target of a request is set and deleted with its callback.               *)
(***************************************************************************)
EXTENDS Integers, FiniteSets

CONSTANTS
  Requests,            \* calls of the session that ask something
  Clients,
  NoRequest,           \* not a request
  ToolCalls,           \* the dynamic tool calls: the server may execute them
  MayThrow,            \* bound: the requests whose messages may not be sent
  MayRefuse,           \* bound: the requests whose answers may be refused
  MayLeave,            \* bound: the clients whose connection may close
  MaxRestarts          \* bound on restarts of the process

ASSUME RequestsAssumption ==
  /\ IsFiniteSet(Requests)
  /\ NoRequest \notin Requests
  /\ ToolCalls \subseteq Requests
  /\ MaxRestarts \in Nat

VARIABLES
  era,                 \* which process runs: the number of restarts
  nextId,              \* nextServerRequestId
  stage,               \* how far each request is on its way to the clients
  id,                  \* the id each request was sent under, or NoId
  eraOf,               \* the process it was sent by
  call,                \* what became of the session's call
  by,                  \* history: the prompt whose answer reached the call
  callbacks,           \* requestIdToCallback, by request
  records,             \* the store of pending server requests
  connected,           \* the clients with an open connection
  subs,                \* those subscribed to the thread
  shown,               \* ThreadEventStore.pendingRequests of each client
  answer,              \* the answer of each client to each request
  failed,              \* requests of this process whose send has thrown
  refused,             \* history: those an answer to which the store refused
  missed               \* history: those whose resolution a client missed

processVars == <<era, nextId>>
sentVars == <<id, eraOf>>
callVars == <<call, by>>
clientVars == <<connected, subs>>
historyVars == <<failed, refused, missed>>
vars == <<processVars, stage, sentVars, callVars, callbacks, records,
          clientVars, shown, answer, historyVars>>

NoId == -1

SameId(q, r) == id[q] = id[r]

Stale(r) == eraOf[r] < era

(* "executing" and "submitted" are stages of executed tools only. *)
Stages == {"new", "asked", "sending", "stored", "executing", "submitted",
           "sent"}

(* Every variable stays within its type, and only open connections are     *)
(* subscribed: close() takes the subscriptions with it.                    *)
TypeOK ==
  /\ era \in 0..MaxRestarts
  /\ nextId \in Nat
  /\ stage \in [Requests -> Stages]
  /\ id \in [Requests -> Nat \cup {NoId}]
  /\ eraOf \in [Requests -> 0..MaxRestarts]
  /\ call \in [Requests -> {"none", "waiting", "settled", "cancelled"}]
  /\ by \in [Requests -> Requests \cup {NoRequest}]
  /\ callbacks \subseteq Requests
  /\ records \subseteq Requests
  /\ connected \subseteq Clients
  /\ subs \subseteq connected
  /\ shown \in [Clients -> SUBSET Requests]
  /\ answer \in
       [Clients -> [Requests -> {"none", "received", "taken", "submitted"}]]
  /\ failed \subseteq Requests
  /\ refused \subseteq Requests
  /\ missed \subseteq Clients \X Requests

Init ==
  /\ era = 0
  /\ nextId = 0
  /\ stage = [r \in Requests |-> "new"]
  /\ id = [r \in Requests |-> NoId]
  /\ eraOf = [r \in Requests |-> 0]
  /\ call = [r \in Requests |-> "none"]
  /\ by = [r \in Requests |-> NoRequest]
  /\ callbacks = {}
  /\ records = {}
  /\ connected = {}
  /\ subs = {}
  /\ shown = [c \in Clients |-> {}]
  /\ answer = [c \in Clients |-> [r \in Requests |-> "none"]]
  /\ failed = {}
  /\ refused = {}
  /\ missed = {}

-----------------------------------------------------------------------------
(* From the session to the clients.                                        *)

(* The session's call registers itself and sends its event. *)
Ask(r) ==
  /\ stage[r] = "new"
  /\ stage' = [stage EXCEPT ![r] = "asked"]
  /\ call' = [call EXCEPT ![r] = "waiting"]
  /\ UNCHANGED <<processVars, sentVars, by, callbacks, records, clientVars,
                 shown, answer, historyVars>>

(* A dynamic tool with `execute` is executed; the others go to a client. *)
WaysOf(r) == {"sending"} \cup IF r \in ToolCalls THEN {"executing"} ELSE {}

(* Slip: the number of callbacks is taken for the next id. *)
EmitCounted(r) ==
  /\ stage[r] = "asked"
  /\ id' = [id EXCEPT ![r] = Cardinality(callbacks)]
  /\ eraOf' = [eraOf EXCEPT ![r] = era]
  /\ nextId' = nextId + 1
  /\ callbacks' = callbacks \cup {r}
  /\ \E way \in WaysOf(r) : stage' = [stage EXCEPT ![r] = way]
  /\ UNCHANGED <<era, callVars, records, clientVars, shown, answer,
                 historyVars>>

(* sendRequestWithHandle: the request gets an id and a callback and is on  *)
(* its way; its call may have been cancelled since it asked.               *)
Emit(r) ==
  /\ stage[r] = "asked"
  /\ id' = [id EXCEPT ![r] = nextId]
  /\ eraOf' = [eraOf EXCEPT ![r] = era]
  /\ nextId' = nextId + 1
  /\ callbacks' = callbacks \cup {r}
  /\ \E way \in WaysOf(r) : stage' = [stage EXCEPT ![r] = way]
  /\ UNCHANGED <<era, callVars, records, clientVars, shown, answer,
                 historyVars>>

(* pendingServerRequests.put: a record with the same id is replaced. *)
Put(r) ==
  /\ stage[r] = "sending"
  /\ stage' = [stage EXCEPT ![r] = "stored"]
  /\ records' = {q \in records : ~SameId(q, r)} \cup {r}
  /\ UNCHANGED <<processVars, sentVars, callVars, callbacks, clientVars,
                 shown, answer, historyVars>>

(* noteRequest at some clients: a prompt with the same id is replaced. *)
ShowAt(r, some) ==
  shown' = [c \in Clients |->
    IF c \in some THEN {q \in shown[c] : ~SameId(q, r)} \cup {r}
    ELSE shown[c]]

(* Slip: the request is sent before its record is there. *)
DeliverUnstored(r) ==
  /\ stage[r] = "sending"
  /\ stage' = [stage EXCEPT ![r] = "sent"]
  /\ ShowAt(r, subs)
  /\ UNCHANGED <<processVars, sentVars, callVars, callbacks, records,
                 clientVars, answer, historyVars>>

(* sendToConnections: the subscribers of this moment are sent the request. *)
Deliver(r) ==
  /\ stage[r] = "stored"
  /\ stage' = [stage EXCEPT ![r] = "sent"]
  /\ ShowAt(r, subs)
  /\ UNCHANGED <<processVars, sentVars, callVars, callbacks, records,
                 clientVars, answer, historyVars>>

(* The store, or the send to one of the subscribers, throws; some of the   *)
(* others are sent the request.                                            *)
SendFails(r) ==
  /\ r \in MayThrow
  /\ \/ stage[r] = "sending" /\ UNCHANGED shown
     \/ /\ stage[r] = "stored"
        /\ \E some \in SUBSET subs : some # subs /\ ShowAt(r, some)
  /\ stage' = [stage EXCEPT ![r] = "sent"]
  /\ failed' = failed \cup {r}
  /\ UNCHANGED <<processVars, sentVars, callVars, callbacks, records,
                 clientVars, answer, refused, missed>>

(* The sends are given up: unless an answer was routed meanwhile, the      *)
(* callback is removed.  A record stays.                                   *)
Unregister(r) ==
  /\ r \in failed \cap callbacks
  /\ callbacks' = callbacks \ {r}
  /\ UNCHANGED <<processVars, stage, sentVars, callVars, records, clientVars,
                 shown, answer, historyVars>>
-----------------------------------------------------------------------------
(* From an answer back to the session: resolveServerRequest.               *)

Routed(r) == {q \in callbacks : SameId(q, r)}

(* submit_with_id: the call behind the callback, if it still waits, gets   *)
(* the answer that was given to prompt r.                                  *)
SubmitTo(r) ==
  /\ by' = [q \in Requests |-> IF q \in Routed(r) THEN r ELSE by[q]]
  /\ call' = [q \in Requests |->
       IF q \in Routed(r) /\ call[q] = "waiting" THEN "settled" ELSE call[q]]

(* The callback is taken, and `serverRequest/resolved` is sent: a prompt   *)
(* with the id disappears wherever that arrives.                           *)
Resolved(r) ==
  /\ callbacks' = callbacks \ Routed(r)
  /\ \E some \in SUBSET subs :
       /\ r \notin MayThrow => some = subs
       /\ shown' = [c \in Clients |->
            IF c \in some THEN {q \in shown[c] : ~SameId(q, r)} ELSE shown[c]]
       /\ missed' = missed \cup
            {m \in (Clients \ some) \X Requests :
               m[2] \in shown[m[1]] /\ SameId(m[2], r) /\ ~Stale(m[2])}

(* A client answers a prompt it shows. *)
Answer(c, r) ==
  /\ c \in connected
  /\ r \in shown[c]
  /\ answer[c][r] = "none"
  /\ answer' = [answer EXCEPT ![c][r] = "received"]
  /\ UNCHANGED <<processVars, stage, sentVars, callVars, callbacks, records,
                 clientVars, shown, historyVars>>

(* Slip: the record is read, and deleted once the answer has been routed. *)
TakeKeeps(c, r) ==
  /\ answer[c][r] = "received"
  /\ answer' = [answer EXCEPT ![c][r] =
       IF \E q \in records : SameId(q, r) THEN "taken" ELSE "none"]
  /\ UNCHANGED <<processVars, stage, sentVars, callVars, callbacks, records,
                 clientVars, shown, historyVars>>

(* pendingServerRequests.take: without a record the answer is dropped. *)
Take(c, r) ==
  /\ answer[c][r] = "received"
  /\ answer' = [answer EXCEPT ![c][r] =
       IF \E q \in records : SameId(q, r) THEN "taken" ELSE "none"]
  /\ records' = {q \in records : ~SameId(q, r)}
  /\ UNCHANGED <<processVars, stage, sentVars, callVars, callbacks,
                 clientVars, shown, historyVars>>

(* The store refuses to take the record, which may be gone nevertheless,   *)
(* and the answer is dropped.                                              *)
TakeFails(c, r) ==
  /\ r \in MayRefuse
  /\ answer[c][r] = "received"
  /\ answer' = [answer EXCEPT ![c][r] = "none"]
  /\ records' \in {records, {q \in records : ~SameId(q, r)}}
  /\ refused' = refused \cup {q \in Requests : SameId(q, r) /\ ~Stale(q)}
  /\ UNCHANGED <<processVars, stage, sentVars, callVars, callbacks,
                 clientVars, shown, failed, missed>>

(* Slip: the answers of a client that is not subscribed are dropped. *)
SubmitOfSubscriber(c, r) ==
  /\ answer[c][r] = "taken"
  /\ IF Routed(r) = {} \/ c \notin subs
     THEN /\ answer' = [answer EXCEPT ![c][r] = "none"]
          /\ UNCHANGED callVars
     ELSE /\ answer' = [answer EXCEPT ![c][r] = "submitted"]
          /\ SubmitTo(r)
  /\ UNCHANGED <<processVars, stage, sentVars, callbacks, records, clientVars,
                 shown, historyVars>>

(* resolveServerRequest up to its await: without a callback it throws, and *)
(* nobody is told.                                                         *)
Submit(c, r) ==
  /\ answer[c][r] = "taken"
  /\ IF Routed(r) = {}
     THEN /\ answer' = [answer EXCEPT ![c][r] = "none"]
          /\ UNCHANGED callVars
     ELSE /\ answer' = [answer EXCEPT ![c][r] = "submitted"]
          /\ SubmitTo(r)
  /\ UNCHANGED <<processVars, stage, sentVars, callbacks, records, clientVars,
                 shown, historyVars>>

(* resolveServerRequest goes on. *)
Finish(c, r) ==
  /\ answer[c][r] = "submitted"
  /\ answer' = [answer EXCEPT ![c][r] = "none"]
  /\ Resolved(r)
  /\ UNCHANGED <<processVars, stage, sentVars, callVars, records, clientVars,
                 failed, refused>>

(* maybeExecuteDynamicTool: the tool returns or throws, and its response   *)
(* is routed like an answer, without a record.                             *)
ExecuteEnds(r) ==
  /\ stage[r] = "executing"
  /\ IF Routed(r) = {}
     THEN /\ stage' = [stage EXCEPT ![r] = "sent"]
          /\ UNCHANGED callVars
     ELSE /\ stage' = [stage EXCEPT ![r] = "submitted"]
          /\ SubmitTo(r)
  /\ UNCHANGED <<processVars, sentVars, callbacks, records, clientVars, shown,
                 answer, historyVars>>

FinishExecuted(r) ==
  /\ stage[r] = "submitted"
  /\ stage' = [stage EXCEPT ![r] = "sent"]
  /\ Resolved(r)
  /\ UNCHANGED <<processVars, sentVars, callVars, records, clientVars, answer,
                 failed, refused>>
-----------------------------------------------------------------------------
(* Turns, connections and the process.                                     *)

Cancelled ==
  [r \in Requests |-> IF call[r] = "waiting" THEN "cancelled" ELSE call[r]]

(* cancelPending: the turn of the waiting calls ends; callbacks, records   *)
(* and prompts stay.                                                       *)
EndTurn ==
  /\ call' = Cancelled
  /\ UNCHANGED <<processVars, stage, sentVars, by, callbacks, records,
                 clientVars, shown, answer, historyVars>>

(* A client connects and resumes the thread.  A prompt it still shows      *)
(* stays, and a request sent before is not sent again.                     *)
Join(c) ==
  /\ connected' = connected \cup {c}
  /\ subs' = subs \cup {c}
  /\ UNCHANGED <<processVars, stage, sentVars, callVars, callbacks, records,
                 shown, answer, historyVars>>

(* Slip: the subscription of a closed connection stays. *)
LeaveSubscribed(c) ==
  /\ c \in MayLeave \cap connected
  /\ connected' = connected \ {c}
  /\ shown' \in {shown, [shown EXCEPT ![c] = {}]}
  /\ UNCHANGED <<processVars, stage, sentVars, callVars, callbacks, records,
                 subs, answer, historyVars>>

(* The connection closes; a page that is left forgets its prompts. *)
Leave(c) ==
  /\ c \in MayLeave \cap connected
  /\ connected' = connected \ {c}
  /\ subs' = subs \ {c}
  /\ shown' \in {shown, [shown EXCEPT ![c] = {}]}
  /\ UNCHANGED <<processVars, stage, sentVars, callVars, callbacks, records,
                 answer, historyVars>>

(* The process ends and starts again.  Sockets may be restored without     *)
(* their subscriptions, and the store of records may be durable.           *)
Restart ==
  /\ era < MaxRestarts
  /\ era' = era + 1
  /\ nextId' = 0
  /\ stage' = [r \in Requests |-> IF stage[r] = "new" THEN "new" ELSE "sent"]
  /\ call' = Cancelled
  /\ callbacks' = {}
  /\ records' \in {records, {}}
  /\ connected' \in {connected, {}}
  /\ subs' = {}
  /\ answer' = [c \in Clients |-> [r \in Requests |-> "none"]]
  /\ failed' = {}
  /\ refused' = {}
  /\ missed' = {}
  /\ UNCHANGED <<sentVars, by, shown>>

Routing(c, r) == Take(c, r) \/ Submit(c, r) \/ Finish(c, r)

Sending(r) ==
  Emit(r) \/ Put(r) \/ Deliver(r) \/ SendFails(r) \/ Unregister(r)

Next ==
  \/ \E r \in Requests : Ask(r) \/ Sending(r)
                         \/ ExecuteEnds(r) \/ FinishExecuted(r)
  \/ \E c \in Clients, r \in Requests :
       Answer(c, r) \/ TakeFails(c, r) \/ Routing(c, r)
  \/ \E c \in Clients : Join(c) \/ Leave(c)
  \/ EndTurn
  \/ Restart

Spec == Init /\ [][Next]_vars

(* Promises that can be continued are.                                     *)
FairSpec ==
  /\ Spec
  /\ \A c \in Clients, r \in Requests : WF_vars(Routing(c, r))
-----------------------------------------------------------------------------
(* Properties.                                                             *)

(* The call of a request gets the answer to its own prompt; only a prompt  *)
(* of an earlier process that went by the same id may be answered into it. *)
OwnAnswers ==
  \A q \in Requests : by[q] # NoRequest /\ by[q] # q
    => eraOf[by[q]] < eraOf[q] /\ SameId(by[q], q)

InRouting(c, r) == answer[c][r] \in {"taken", "submitted"}

(* Whoever shows a prompt of this process can answer it: its callback is   *)
(* registered, and its record is stored or an answer under its id is being *)
(* routed.  Not so if its send threw at another client, if the store       *)
(* refused an answer under its id, if the client was away when it was      *)
(* resolved, or if a stale prompt was answered into it.                    *)
PromptAnswerable ==
  \A c \in Clients : \A r \in shown[c] :
    \/ Stale(r) \/ r \in failed \cup refused \/ <<c, r>> \in missed
    \/ by[r] \notin {NoRequest, r}
    \/ /\ r \in callbacks
       /\ \/ r \in records
          \/ \E d \in Clients, q \in Requests : SameId(q, r) /\ InRouting(d, q)

(* Two clients answer one prompt: one of the answers is routed, so that    *)
(* the other cannot settle what the session asks next.                     *)
OneAnswerRouted ==
  \A c, d \in Clients, r \in Requests :
    InRouting(c, r) /\ InRouting(d, r) /\ ~Stale(r) => c = d

(* An answer that is received settles the call it was given for, unless    *)
(* the send of the request had thrown or the store refuses an answer to    *)
(* it; subscribed or not, the client that answers is heard.                *)
AnswerSettles ==
  \A r \in Requests :
    (\E c \in Clients : answer[c][r] = "received")
      /\ call[r] = "waiting" /\ r \notin failed
    ~> call[r] # "waiting" \/ r \in refused
=============================================================================
