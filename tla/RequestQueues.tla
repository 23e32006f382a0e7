--------------------------- MODULE RequestQueues ---------------------------
(***************************************************************************)
(* Client requests at the app server: accept() of a connection             *)
(* (server/app-server.ts), the message processor, the serialization queues *)
(* that requests of one scope share across connections, the gate of each   *)
(* connection and its close.  Handlers are opaque: they succeed, fail, or  *)
(* defer their answer to work in the background (mcp_processor.ts).        *)
(*                                                                         *)
(* What runs without an await is one step.  The queues chain promises, so  *)
(* a queued request starts in a step after its predecessor's tail settled. *)
(***************************************************************************)
EXTENDS Integers, FiniteSets

CONSTANTS
  Connections,
  Requests,            \* each is received once at most
  NoRequest,           \* not a request
  Scopes,              \* serialization scopes
  NoScope,             \* the scope of a request that is not serialized
  Threads,             \* the scopes that are threads
  Of,                  \* the connection of each request
  Scope,               \* the scope of each request
  Optional,            \* those whose scope is optional: it may be left out
  Initializes,         \* the requests with method `initialize`
  Experimental,        \* those of experimental methods
  Deferrable,          \* those of methods that defer their answer
  Restored,            \* the connections created from an initialized snapshot
  MayClose,            \* bound: the connections that may close
  MayThrow             \* bound: the requests whose answer may fail to be sent

ASSUME QueuesAssumption ==
  /\ IsFiniteSet(Requests)
  /\ NoRequest \notin Requests
  /\ Of \in [Requests -> Connections]
  /\ Scope \in [Requests -> Scopes \cup {NoScope}]
  /\ NoScope \notin Scopes
  /\ \A r \in Initializes : Scope[r] = NoScope
  /\ Threads \subseteq Scopes

VARIABLES
  conn,                \* "open", "closing" (close() called) or "closed"
  initialized,         \* the connections whose session is initialized
  live,                \* ThreadStateManager.liveConnections
  subs,                \* the subscriptions: pairs of a thread and a connection
  inFlight,            \* the counter of each connection's gate
  phase,               \* where processing is, for each request
  answer,              \* what the client was sent, for each request
  background,          \* requests whose deferred work is going on
  tails,               \* the last request of each queue, while it is there
  prev,                \* the tail each request was chained to; itself before
  cleaned,             \* requests whose own tail has settled
  ahead,               \* history: who was in the queue before each request
  late                 \* history: connections closed with work in progress

connVars == <<conn, initialized, live, subs>>
queueVars == <<tails, prev, cleaned, ahead>>
vars == <<connVars, inFlight, phase, answer, background, queueVars,
          late>>

Scoped == {r \in Requests : Scope[r] # NoScope}

Phases == {"idle", "queued", "running", "initializing", "result", "error",
           "deferred", "over", "lost"}

(* Every variable stays within its type. *)
TypeOK ==
  /\ conn \in [Connections -> {"open", "closing", "closed"}]
  /\ initialized \subseteq Connections
  /\ live \subseteq Connections
  /\ subs \subseteq Threads \X Connections
  /\ inFlight \in [Connections -> Nat]
  /\ phase \in [Requests -> Phases]
  /\ answer \in [Requests -> {"none", "sent", "lost"}]
  /\ background \subseteq Requests
  /\ tails \in [Scopes -> Scoped \cup {NoRequest}]
  /\ prev \in [Scoped -> Scoped \cup {NoRequest}]
  /\ cleaned \subseteq Scoped
  /\ ahead \in [Scoped -> SUBSET Scoped]
  /\ late \subseteq Connections

Init ==
  /\ conn = [c \in Connections |-> "open"]
  /\ initialized = Connections \cap Restored
  /\ live = initialized
  /\ subs = {}
  /\ inFlight = [c \in Connections |-> 0]
  /\ phase = [r \in Requests |-> "idle"]
  /\ answer = [r \in Requests |-> "none"]
  /\ background = {}
  /\ tails = [k \in Scopes |-> NoRequest]
  /\ prev = [r \in Scoped |-> r]
  /\ cleaned = {}
  /\ ahead = [r \in Scoped |-> {}]
  /\ late = {}
-----------------------------------------------------------------------------
(* accept() up to its first await.                                         *)

InProgress(r) == phase[r] \notin {"idle", "over", "lost"}

(* The request is or was in a queue. *)
Chained(r) == prev[r] # r

(* clientRequestSerializationScope: an optional scope may be left out. *)
ScopesOf(r) == IF r \in Optional THEN {Scope[r], NoScope} ELSE {Scope[r]}

(* `initialize`: its parameters are invalid, the session is initialized    *)
(* already, or the session state is set and the handler is called.         *)
AcceptInitialize(r) ==
  /\ r \in Initializes
  /\ \/ /\ phase' = [phase EXCEPT ![r] = "error"]
        /\ UNCHANGED initialized
     \/ /\ Of[r] \notin initialized
        /\ initialized' = initialized \cup {Of[r]}
        /\ phase' = [phase EXCEPT ![r] = "initializing"]
  /\ UNCHANGED <<inFlight, queueVars>>

(* "Not initialized"; or an experimental method and a client that did not  *)
(* ask for those.                                                          *)
AcceptRefused(r) ==
  /\ r \notin Initializes
  /\ Of[r] \in initialized => r \in Experimental
  /\ phase' = [phase EXCEPT ![r] = "error"]
  /\ UNCHANGED <<initialized, inFlight, queueVars>>

(* A request without a scope enters the gate at once. *)
AcceptUnscoped(r) ==
  /\ r \notin Initializes
  /\ Of[r] \in initialized
  /\ phase' = [phase EXCEPT ![r] = "running"]
  /\ inFlight' = [inFlight EXCEPT ![Of[r]] = @ + 1]
  /\ UNCHANGED <<initialized, queueVars>>

(* enqueue: the work is chained to the tail of its queue and is the tail. *)
AcceptScoped(r, scope) ==
  /\ Of[r] \in initialized
  /\ phase' = [phase EXCEPT ![r] = "queued"]
  /\ prev' = [prev EXCEPT ![r] = tails[scope]]
  /\ tails' = [tails EXCEPT ![scope] = r]
  /\ ahead' = [ahead EXCEPT ![r] =
       {s \in Scoped : Scope[s] = scope /\ Chained(s)}]
  /\ UNCHANGED <<initialized, inFlight, cleaned>>

(* A message arrives: the connection is subscribed to the thread it names, *)
(* and the request is processed.                                           *)
Accept(r) ==
  /\ conn[Of[r]] = "open"
  /\ phase[r] = "idle"
  /\ \E scope \in ScopesOf(r) :
       /\ subs' = IF scope \in Threads THEN subs \cup {<<scope, Of[r]>>}
                  ELSE subs
       /\ \/ AcceptInitialize(r)
          \/ AcceptRefused(r)
          \/ scope = NoScope /\ AcceptUnscoped(r)
          \/ scope # NoScope /\ AcceptScoped(r, scope)
  /\ UNCHANGED <<conn, live, answer, background, late>>
-----------------------------------------------------------------------------
(* The queue and the gate.                                                 *)

(* A closed gate refuses the work. *)
Accepting(c) == conn[c] = "open"

(* Slip: a request whose turn has come does not look at the gate. *)
StartUngated(r) ==
  /\ phase[r] = "queued"
  /\ prev[r] = NoRequest \/ prev[r] \in cleaned
  /\ phase' = [phase EXCEPT ![r] = "running"]
  /\ inFlight' = [inFlight EXCEPT ![Of[r]] = @ + 1]
  /\ UNCHANGED <<connVars, answer, background, queueVars, late>>

(* The tail before the request has settled: its work runs through the gate *)
(* of its connection.                                                      *)
Start(r) ==
  /\ phase[r] = "queued"
  /\ prev[r] = NoRequest \/ prev[r] \in cleaned
  /\ IF Accepting(Of[r])
     THEN /\ phase' = [phase EXCEPT ![r] = "running"]
          /\ inFlight' = [inFlight EXCEPT ![Of[r]] = @ + 1]
     ELSE /\ phase' = [phase EXCEPT ![r] = "error"]
          /\ UNCHANGED inFlight
  /\ UNCHANGED <<connVars, answer, background, queueVars, late>>

(* Slip: without `finally`, a handler that throws never leaves the gate. *)
HandlerEndsLeaky(r) ==
  /\ phase[r] = "running"
  /\ \/ /\ \E end \in {"result", "error"} :
             /\ phase' = [phase EXCEPT ![r] = end]
             /\ inFlight' = IF end = "error" THEN inFlight
                            ELSE [inFlight EXCEPT ![Of[r]] = @ - 1]
        /\ UNCHANGED background
     \/ /\ r \in Deferrable
        /\ phase' = [phase EXCEPT ![r] = "deferred"]
        /\ background' = background \cup {r}
        /\ inFlight' = [inFlight EXCEPT ![Of[r]] = @ - 1]
  /\ UNCHANGED <<connVars, answer, queueVars, late>>

(* The handler returns, throws, or starts deferred work; the gate is left. *)
HandlerEnds(r) ==
  /\ phase[r] = "running"
  /\ inFlight' = [inFlight EXCEPT ![Of[r]] = @ - 1]
  /\ \/ /\ \E end \in {"result", "error"} : phase' = [phase EXCEPT ![r] = end]
        /\ UNCHANGED background
     \/ /\ r \in Deferrable
        /\ phase' = [phase EXCEPT ![r] = "deferred"]
        /\ background' = background \cup {r}
  /\ UNCHANGED <<connVars, answer, queueVars, late>>

WorkEnded(r) == Chained(r) /\ phase[r] \notin {"queued", "running"}

(* Slip: the tail that settles removes whatever tail the queue has. *)
CleanupAnyTail(r) ==
  /\ r \in Scoped \ cleaned
  /\ WorkEnded(r)
  /\ cleaned' = cleaned \cup {r}
  /\ tails' = [tails EXCEPT ![Scope[r]] = NoRequest]
  /\ UNCHANGED <<connVars, inFlight, phase, answer, background,
                 prev, ahead, late>>

(* `finally` of the tail: it leaves the map if it is still the last. *)
Cleanup(r) ==
  /\ r \in Scoped \ cleaned
  /\ WorkEnded(r)
  /\ cleaned' = cleaned \cup {r}
  /\ tails' = [tails EXCEPT ![Scope[r]] =
       IF tails[Scope[r]] = r THEN NoRequest ELSE @]
  /\ UNCHANGED <<connVars, inFlight, phase, answer, background,
                 prev, ahead, late>>
-----------------------------------------------------------------------------
(* Answers.  A message for a connection that is gone is dropped; `send` of *)
(* one that is there may throw.  The end of a send and what accept() does  *)
(* after it are one step.                                                  *)

InitializeEnds(r) ==
  /\ phase[r] = "initializing"
  /\ \E end \in {"result", "error"} : phase' = [phase EXCEPT ![r] = end]
  /\ UNCHANGED <<connVars, inFlight, answer, background, queueVars,
                 late>>

Deliver(r) ==
  answer' = IF conn[Of[r]] = "open" THEN [answer EXCEPT ![r] = "sent"]
            ELSE answer

(* Slip: only an `initialize` that succeeded makes the connection live. *)
ContinueOnSuccess(r) ==
  /\ phase' = [phase EXCEPT ![r] = "over"]
  /\ live' = IF r \in Initializes /\ phase[r] = "result"
             THEN live \cup {Of[r]} ELSE live
  /\ \/ UNCHANGED subs
     \/ /\ phase[r] = "result" /\ r \notin Initializes
        /\ \E t \in Threads : subs' = subs \cup {<<t, Of[r]>>}

(* accept() goes on: an initialize makes the connection live whatever its  *)
(* outcome; a response whose result has a thread subscribes to it.         *)
Continue(r) ==
  /\ phase' = [phase EXCEPT ![r] = "over"]
  /\ live' = IF r \in Initializes THEN live \cup {Of[r]} ELSE live
  /\ \/ UNCHANGED subs
     \/ /\ phase[r] = "result" /\ r \notin Initializes
        /\ \E t \in Threads : subs' = subs \cup {<<t, Of[r]>>}

(* outgoing.sendResponse; if it throws, an error is sent instead. *)
SendResponse(r) ==
  /\ phase[r] = "result"
  /\ \/ Deliver(r) /\ Continue(r)
     \/ /\ r \in MayThrow
        /\ conn[Of[r]] = "open"
        /\ phase' = [phase EXCEPT ![r] = "error"]
        /\ UNCHANGED <<live, subs, answer>>
  /\ UNCHANGED <<conn, initialized, inFlight, background, queueVars, late>>

(* outgoing.sendError; if it throws, so does accept. *)
SendError(r) ==
  /\ phase[r] = "error"
  /\ \/ Deliver(r) /\ Continue(r)
     \/ /\ r \in MayThrow
        /\ conn[Of[r]] = "open"
        /\ phase' = [phase EXCEPT ![r] = "lost"]
        /\ answer' = [answer EXCEPT ![r] = "lost"]
        /\ UNCHANGED <<live, subs>>
  /\ UNCHANGED <<conn, initialized, inFlight, background, queueVars, late>>

(* The answer was deferred: accept() sends nothing. *)
LeaveDeferred(r) ==
  /\ phase[r] = "deferred"
  /\ Continue(r)
  /\ UNCHANGED <<conn, initialized, inFlight, answer, background,
                 queueVars, late>>

(* Slip: the end of deferred work leaves the gate a second time. *)
SendDeferredTwice(r) ==
  /\ r \in background
  /\ background' = background \ {r}
  /\ Deliver(r)
  /\ inFlight' = [inFlight EXCEPT ![Of[r]] = @ - 1]
  /\ UNCHANGED <<connVars, phase, queueVars, late>>

(* runDeferred: the background work ends and its result, or an error, is   *)
(* sent.                                                                   *)
SendDeferred(r) ==
  /\ r \in background
  /\ background' = background \ {r}
  /\ Deliver(r)
  /\ UNCHANGED <<connVars, inFlight, phase, queueVars, late>>
-----------------------------------------------------------------------------
(* close().                                                                *)

(* Slip: the subscriptions of the connection are left as they are. *)
CloseSubscribed(c) ==
  /\ c \in MayClose
  /\ conn[c] = "open"
  /\ conn' = [conn EXCEPT ![c] = "closing"]
  /\ late' = IF \E r \in Requests : Of[r] = c /\ InProgress(r)
             THEN late \cup {c} ELSE late
  /\ UNCHANGED <<initialized, live, subs, inFlight, phase, answer, background,
                 queueVars>>

(* The connection and its subscriptions are removed, its gate is shut. *)
Close(c) ==
  /\ c \in MayClose
  /\ conn[c] = "open"
  /\ conn' = [conn EXCEPT ![c] = "closing"]
  /\ subs' = {s \in subs : s[2] # c}
  /\ late' = IF \E r \in Requests : Of[r] = c /\ InProgress(r)
             THEN late \cup {c} ELSE late
  /\ UNCHANGED <<initialized, live, inFlight, phase, answer, background,
                 queueVars>>

(* The gate has drained: the runtime forgets the connection. *)
Closed(c) ==
  /\ conn[c] = "closing"
  /\ inFlight[c] = 0
  /\ conn' = [conn EXCEPT ![c] = "closed"]
  /\ live' = live \ {c}
  /\ UNCHANGED <<initialized, subs, inFlight, phase, answer, background,
                 queueVars, late>>

(* What the JavaScript run time does once it can. *)
Scheduled(r) == Start(r) \/ Cleanup(r) \/ LeaveDeferred(r)

(* What is up to handlers and to the transport. *)
Hosted(r) == \/ HandlerEnds(r) \/ InitializeEnds(r)
             \/ SendResponse(r) \/ SendError(r) \/ SendDeferred(r)

Next ==
  \/ \E r \in Requests : Accept(r) \/ Scheduled(r) \/ Hosted(r)
  \/ \E c \in Connections : Close(c) \/ Closed(c)

Spec == Init /\ [][Next]_vars

(* Promises that can be continued are; handlers need not end.              *)
FairSpec ==
  /\ Spec
  /\ \A r \in Requests : WF_vars(Scheduled(r))
  /\ \A c \in Connections : WF_vars(Closed(c))
-----------------------------------------------------------------------------
(* Properties.                                                             *)

(* A connection is closed only when no handler of its requests runs, and   *)
(* none starts after that: those still in a queue are refused.             *)
CloseWaits ==
  \A r \in Requests : conn[Of[r]] = "closed" => phase[r] # "running"

(* A closed connection is neither live nor subscribed, unless a request    *)
(* was being processed when it closed: that one may mark it live or        *)
(* subscribe it again afterwards, for good.                                *)
ClosedForgets ==
  \A c \in Connections :
    conn[c] = "closed" /\ c \notin late
      => c \notin live /\ \A t \in Threads : <<t, c>> \notin subs

(* An open connection whose session is initialized is live, unless the     *)
(* `initialize` that did it is in progress or could not be answered.       *)
InitializedIsLive ==
  \A c \in Connections :
    conn[c] = "open" /\ c \in initialized =>
      \/ c \in live
      \/ \E r \in Initializes :
           Of[r] = c /\ (InProgress(r) \/ phase[r] = "lost")

Stage(r) ==
  IF ~Chained(r) THEN "new"
  ELSE IF phase[r] = "queued" THEN "waiting"
  ELSE IF phase[r] = "running" THEN "working" ELSE "over"

Abstract == INSTANCE Serializer WITH
  Work <- Scoped,
  Queue <- [r \in Scoped |-> Scope[r]],
  stage <- [r \in Scoped |-> Stage(r)]

(* The queues keep the promise of Serializer: one request of a scope is    *)
(* handled at a time, in the order of their arrival, over all connections. *)
Serialized == Abstract!SSpec

Settled(r) ==
  phase[r] \in {"over", "lost"} /\ (answer[r] # "none" \/ conn[Of[r]] # "open")

(* If handlers and sends end, every request that was accepted is done with *)
(* and answered unless its connection is gone, and every close completes.  *)
EveryRequestSettles ==
  (\A r \in Requests : WF_vars(Hosted(r))) =>
    /\ \A r \in Requests : phase[r] # "idle" ~> Settled(r)
    /\ \A c \in MayClose : conn[c] = "closing" ~> conn[c] = "closed"
=============================================================================
