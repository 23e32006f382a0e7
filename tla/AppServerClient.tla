-------------------------- MODULE AppServerClient --------------------------
(***************************************************************************)
(* The remote app-server client, createCodexAppServerClient                *)
(* (app-server-client/src/remote.ts): one WebSocket opened on demand, the  *)
(* `initialize` handshake that precedes every other request, the requests  *)
(* waiting for an answer, and the queue of events an async iterator reads. *)
(*                                                                         *)
(* A caller makes one call: request() of a method other than initialize,   *)
(* or events().  An event of the browser (Quiet) comes only when nobody    *)
(* can go on any more: the continuations of settled promises run first.    *)
(* WebSockets and the server behind them are external: each connection has *)
(* a session that accepts one initialize, and other requests after it.     *)
(*                                                                         *)
(* Socket n is the n-th openSocket() and the WebSocket it creates.         *)
(***************************************************************************)
EXTENDS Naturals, Sequences, FiniteSets

CONSTANTS
  Requesters,          \* callers of request(), each with an id of its own
  Watchers,            \* callers of events()
  MaxEvents,           \* bound on the notifications the server sends
  MaxCloses            \* bound on the calls of close()

Callers == Requesters \union Watchers

None == 0              \* socket or openPromise is null
NoCaller == "nobody"   \* initializePromise or pendingRequests[0] is unset

ASSUME CallersAssumption ==
  /\ IsFiniteSet(Callers)
  /\ Requesters \cap Watchers = {}
  /\ NoCaller \notin Callers
  /\ MaxEvents \in Nat
  /\ MaxCloses \in Nat

(* A caller opens at most one socket to initialize and one for its request.*)
Sockets == 1 .. 2 * Cardinality(Callers)

VARIABLES
  socket,              \* the current WebSocket, or None
  openPromise,         \* the openSocket() whose promise is kept, or None
  opened,              \* how often openSocket() was called
  phase,               \* state of each socket, url() included
  waiting,             \* callers that await each openSocket() promise
  pc,                  \* where each caller is
  awaits,              \* whose initialize promise it awaits
  initialize,          \* state of the initialize request each caller made
  initPending,         \* the caller registered under request id 0
  reqPending,          \* the callers registered under their own ids
  sentOn,              \* the socket that carries each caller's request
  initializePromise,   \* the caller whose initialize promise is kept
  initialized,         \* the handshake is taken to be done
  outstanding,         \* requests the server has to answer
  greeted,             \* connections whose server session is initialized
  values,              \* eventQueue: how many events nobody has read
  closed,              \* eventQueue: it was closed and not reopened
  failed,              \* eventQueue: it failed and was not reopened
  reader,              \* the loop over the iterator of events()
  events,              \* messages the server sent on its own
  closes               \* calls of close()

socketVars == <<socket, openPromise, opened, phase>>
callVars == <<pc, awaits, initialize, sentOn>>
pendingVars == <<initPending, reqPending>>
handshakeVars == <<initializePromise, initialized>>
serverVars == <<outstanding, greeted>>
queueVars == <<values, closed, failed, reader>>
boundVars == <<events, closes>>
vars == <<socketVars, waiting, callVars, pendingVars, handshakeVars,
          serverVars, queueVars, boundVars>>

Init ==
  /\ socket = None
  /\ openPromise = None
  /\ opened = 0
  /\ phase = [n \in Sockets |-> "none"]
  /\ waiting = [n \in Sockets |-> <<>>]
  /\ pc = [c \in Callers |-> "idle"]
  /\ awaits = [c \in Callers |-> NoCaller]
  /\ initialize = [c \in Callers |-> "none"]
  /\ initPending = NoCaller
  /\ reqPending = {}
  /\ sentOn = [c \in Callers |-> None]
  /\ initializePromise = NoCaller
  /\ initialized = FALSE
  /\ outstanding = {}
  /\ greeted = {}
  /\ values = 0
  /\ closed = FALSE
  /\ failed = FALSE
  /\ reader = "none"
  /\ events = 0
  /\ closes = 0
-----------------------------------------------------------------------------
(* Promises.                                                               *)

InitSettled(c) ==
  pc[c] = "awaitInit" /\ initialize[awaits[c]] \in {"ok", "failed"}

(* The promise of openSocket() n is settled and somebody awaits it.  A     *)
(* socket that opened has let its callers go on before it is lost.         *)
Opened(n) == phase[n] \in {"open", "lost"}
Refused(n) == phase[n] \in {"failed", "erring", "closed"}
SocketSettled(n) == waiting[n] # <<>> /\ (Opened(n) \/ Refused(n))

(* No continuation is left to run. *)
Quiet ==
  /\ \A c \in Callers : ~InitSettled(c)
  /\ \A n \in Sockets : ~SocketSettled(n)

(* The synchronous part of sendClientRequest: ensureOpenSocket returns the *)
(* open socket, the kept promise, or the promise of a new openSocket(),    *)
(* which reopens the event queue and asks for the url.                     *)
AwaitSocket(c) ==
  LET n == IF socket # None /\ phase[socket] = "open" THEN socket
           ELSE IF openPromise # None THEN openPromise
           ELSE opened + 1
  IN  /\ waiting' = [waiting EXCEPT ![n] = Append(@, c)]
      /\ IF n > opened
         THEN /\ opened' = n
              /\ openPromise' = n
              /\ phase' = [phase EXCEPT ![n] = "url"]
              /\ values' = 0
              /\ closed' = FALSE
              /\ failed' = FALSE
              /\ UNCHANGED <<socket, reader>>
         ELSE UNCHANGED <<socketVars, queueVars>>

(* eventQueue.fail, eventQueue.close, eventQueue.push: a reader that waits *)
(* is woken, and otherwise the change is kept for its next() to find.      *)
QueueFails ==
  /\ failed' = TRUE
  /\ reader' = IF reader = "waiting" THEN "over" ELSE reader
  /\ UNCHANGED <<values, closed>>

QueueCloses ==
  /\ closed' = TRUE
  /\ reader' = IF reader = "waiting" THEN "over" ELSE reader
  /\ UNCHANGED <<values, failed>>

Push ==
  IF reader = "waiting"
  THEN reader' = "busy" /\ UNCHANGED values
  ELSE values' = values + 1 /\ UNCHANGED reader

(* Slip: the pending requests are forgotten without being rejected. *)
ForgetPending ==
  /\ socket' = None
  /\ openPromise' = None
  /\ initializePromise' = NoCaller
  /\ initialized' = FALSE
  /\ initPending' = NoCaller
  /\ reqPending' = {}
  /\ UNCHANGED <<initialize, pc>>

(* closeSocketState: whoever calls it, the connection that is current now  *)
(* is forgotten and every pending request is rejected.                     *)
CloseSocketState ==
  /\ socket' = None
  /\ openPromise' = None
  /\ initializePromise' = NoCaller
  /\ initialized' = FALSE
  /\ initialize' = [c \in Callers |-> IF c = initPending THEN "failed"
                                      ELSE initialize[c]]
  /\ pc' = [c \in Callers |-> IF c \in reqPending THEN "rejected" ELSE pc[c]]
  /\ initPending' = NoCaller
  /\ reqPending' = {}
-----------------------------------------------------------------------------
(* Calls.                                                                  *)

(* ensureInitialized, up to its first await, and request() behind it. *)
Request(c) ==
  /\ Quiet
  /\ c \in Requesters /\ pc[c] = "idle"
  /\ IF initialized
     THEN pc' = [pc EXCEPT ![c] = "socket"] /\ AwaitSocket(c)
          /\ UNCHANGED awaits
     ELSE /\ pc' = [pc EXCEPT ![c] = IF initializePromise = NoCaller
                                     THEN "params" ELSE "awaitInit"]
          /\ awaits' = [awaits EXCEPT ![c] = initializePromise]
          /\ UNCHANGED <<socketVars, waiting, queueVars>>
  /\ UNCHANGED <<initialize, sentOn, pendingVars, handshakeVars, serverVars,
                 boundVars>>

(* events(): ensureInitialized, which nobody awaits, and an iterator.  One *)
(* loop at a time reads the events.                                        *)
Watch(c) ==
  /\ Quiet
  /\ c \in Watchers /\ pc[c] = "idle"
  /\ reader \in {"none", "over"}
  /\ reader' = "busy"
  /\ pc' = [pc EXCEPT ![c] = IF initialized THEN "resolved"
                             ELSE IF initializePromise = NoCaller
                             THEN "params" ELSE "awaitInit"]
  /\ awaits' = [awaits EXCEPT ![c] = initializePromise]
  /\ UNCHANGED <<socketVars, waiting, initialize, sentOn, pendingVars,
                 handshakeVars, serverVars, values, closed, failed, boundVars>>

(* The initialize parameters are there: the request is made and its        *)
(* promise kept, whatever was kept or done since the caller looked.        *)
ParamsResolved(c) ==
  /\ Quiet
  /\ pc[c] = "params"
  /\ initializePromise' = c
  /\ pc' = [pc EXCEPT ![c] = "awaitInit"]
  /\ awaits' = [awaits EXCEPT ![c] = c]
  /\ initialize' = [initialize EXCEPT ![c] = "socket"]
  /\ AwaitSocket(c)
  /\ UNCHANGED <<sentOn, pendingVars, initialized, serverVars, boundVars>>

(* The caller's parameters cannot be had. *)
ParamsFail(c) ==
  /\ Quiet
  /\ pc[c] = "params"
  /\ pc' = [pc EXCEPT ![c] = "rejected"]
  /\ IF c \in Watchers THEN QueueFails ELSE UNCHANGED queueVars
  /\ UNCHANGED <<socketVars, waiting, awaits, initialize, sentOn, pendingVars,
                 handshakeVars, serverVars, boundVars>>

(* The awaited initialize promise is settled. *)
InitContinues(c) ==
  /\ InitSettled(c)
  /\ IF initialize[awaits[c]] = "failed"
     THEN /\ pc' = [pc EXCEPT ![c] = "rejected"]
          /\ IF c \in Watchers THEN QueueFails ELSE UNCHANGED queueVars
          /\ UNCHANGED <<socketVars, waiting, initialized>>
     ELSE /\ initialized' = TRUE
          /\ IF c \in Watchers
             THEN pc' = [pc EXCEPT ![c] = "resolved"]
                  /\ UNCHANGED <<socketVars, waiting, queueVars>>
             ELSE pc' = [pc EXCEPT ![c] = "socket"] /\ AwaitSocket(c)
  /\ UNCHANGED <<awaits, initialize, sentOn, pendingVars, initializePromise,
                 serverVars, boundVars>>

(* The awaited socket is there: the request is registered under its id and *)
(* sent; a socket that is closing again swallows it.  The server takes the *)
(* requests of a connection in order.                                      *)
SocketReady(n) ==
  /\ waiting[n] # <<>> /\ Opened(n)
  /\ LET c     == Head(waiting[n])
         first == initialize[c] = "socket"
         sent  == [by |-> c, initialize |-> first, socket |-> n,
                   ok |-> first <=> n \notin greeted]
     IN  /\ waiting' = [waiting EXCEPT ![n] = Tail(@)]
         /\ IF first
            THEN /\ initialize' = [initialize EXCEPT ![c] = "sent"]
                 /\ initPending' = c
                 /\ UNCHANGED <<pc, reqPending, sentOn>>
            ELSE /\ pc' = [pc EXCEPT ![c] = "sent"]
                 /\ reqPending' = reqPending \union {c}
                 /\ sentOn' = [sentOn EXCEPT ![c] = n]
                 /\ UNCHANGED <<initialize, initPending>>
         /\ IF phase[n] = "open"
            THEN /\ outstanding' = outstanding \union {sent}
                 /\ greeted' = IF first THEN greeted \union {n} ELSE greeted
            ELSE UNCHANGED serverVars
  /\ UNCHANGED <<socketVars, awaits, handshakeVars, queueVars, boundVars>>

(* The awaited socket will not be there. *)
SocketRefused(n) ==
  /\ waiting[n] # <<>> /\ Refused(n)
  /\ LET c == Head(waiting[n])
     IN  /\ waiting' = [waiting EXCEPT ![n] = Tail(@)]
         /\ IF initialize[c] = "socket"
            THEN initialize' = [initialize EXCEPT ![c] = "failed"]
                 /\ UNCHANGED pc
            ELSE pc' = [pc EXCEPT ![c] = "rejected"] /\ UNCHANGED initialize
  /\ UNCHANGED <<socketVars, awaits, sentOn, pendingVars, handshakeVars,
                 serverVars, queueVars, boundVars>>
-----------------------------------------------------------------------------
(* Sockets.                                                                *)

(* url() gives the address and the WebSocket is created: it becomes the    *)
(* current one even if close() was called or another one opened meanwhile. *)
UrlResolved(n) ==
  /\ Quiet
  /\ phase[n] = "url"
  /\ phase' = [phase EXCEPT ![n] = "connecting"]
  /\ socket' = n
  /\ UNCHANGED <<openPromise, opened, waiting, callVars, pendingVars,
                 handshakeVars, serverVars, queueVars, boundVars>>

(* Slip: a failed url() tears down whatever is current. *)
UrlFailsHard(n) ==
  /\ Quiet
  /\ phase[n] = "url"
  /\ phase' = [phase EXCEPT ![n] = "failed"]
  /\ CloseSocketState
  /\ UNCHANGED <<opened, waiting, awaits, sentOn, serverVars, queueVars,
                 boundVars>>

(* url() or the constructor throws.  The rejected promise is kept.         *)
UrlFails(n) ==
  /\ Quiet
  /\ phase[n] = "url"
  /\ phase' = [phase EXCEPT ![n] = "failed"]
  /\ UNCHANGED <<socket, openPromise, opened, waiting, callVars, pendingVars,
                 handshakeVars, serverVars, queueVars, boundVars>>

Opens(n) ==
  /\ Quiet
  /\ phase[n] = "connecting"
  /\ phase' = [phase EXCEPT ![n] = "open"]
  /\ UNCHANGED <<socket, openPromise, opened, waiting, callVars, pendingVars,
                 handshakeVars, serverVars, queueVars, boundVars>>

(* The connection starts to close; the client has not been told yet. *)
Drops(n) ==
  /\ Quiet
  /\ phase[n] = "open"
  /\ phase' = [phase EXCEPT ![n] = "lost"]
  /\ UNCHANGED <<socket, openPromise, opened, waiting, callVars, pendingVars,
                 handshakeVars, serverVars, queueVars, boundVars>>

(* The "error" event; "close" follows it, but not at once. *)
ErrorEvent(n) ==
  /\ Quiet
  /\ phase[n] \in {"connecting", "shut", "lost"}
  /\ phase' = [phase EXCEPT ![n] = "erring"]
  /\ CloseSocketState
  /\ QueueFails
  /\ outstanding' = {m \in outstanding : m.socket # n}
  /\ UNCHANGED <<opened, waiting, awaits, sentOn, greeted, boundVars>>

(* The "close" event: the events' reader is told, then the queue closed. *)
CloseEvent(n) ==
  /\ Quiet
  /\ phase[n] \in {"lost", "erring"}
  /\ phase' = [phase EXCEPT ![n] = "closed"]
  /\ CloseSocketState
  /\ Push
  /\ closed' = TRUE
  /\ outstanding' = {m \in outstanding : m.socket # n}
  /\ UNCHANGED <<opened, waiting, awaits, sentOn, greeted, failed, boundVars>>

(* close(): the state is reset at once; a socket that still connects is    *)
(* shut and reports an error, an open one reports its close.               *)
Close ==
  /\ Quiet
  /\ closes < MaxCloses
  /\ closes' = closes + 1
  /\ CloseSocketState
  /\ QueueCloses
  /\ phase' = [n \in Sockets |->
                 IF n # socket THEN phase[n]
                 ELSE IF phase[n] = "connecting" THEN "shut"
                 ELSE IF phase[n] = "open" THEN "lost"
                 ELSE phase[n]]
  /\ UNCHANGED <<opened, waiting, awaits, sentOn, serverVars, events>>

(* An answer arrives: the caller registered under its id gets it; an       *)
(* answer nobody is registered for is dropped.                             *)
Answer(m) ==
  /\ Quiet
  /\ phase[m.socket] = "open"
  /\ outstanding' = outstanding \ {m}
  /\ IF m.initialize
     THEN /\ initialize' = [c \in Callers |->
                              IF c # initPending THEN initialize[c]
                              ELSE IF m.ok THEN "ok" ELSE "failed"]
          /\ initPending' = NoCaller
          /\ UNCHANGED <<pc, reqPending>>
     ELSE /\ pc' = [c \in Callers |->
                      IF c # m.by \/ c \notin reqPending THEN pc[c]
                      ELSE IF m.ok THEN "resolved" ELSE "rejected"]
          /\ reqPending' = reqPending \ {m.by}
          /\ UNCHANGED <<initialize, initPending>>
  /\ UNCHANGED <<socketVars, waiting, awaits, sentOn, handshakeVars, greeted,
                 queueVars, boundVars>>

(* A notification or a request of the server. *)
Notify(n) ==
  /\ Quiet
  /\ phase[n] = "open"
  /\ events < MaxEvents
  /\ events' = events + 1
  /\ Push
  /\ UNCHANGED <<socketVars, waiting, callVars, pendingVars, handshakeVars,
                 serverVars, closed, failed, closes>>

(* An error without an id: the server could not read what it was sent. *)
ErrorWithoutId(n) ==
  /\ Quiet
  /\ phase[n] = "open"
  /\ events < MaxEvents
  /\ events' = events + 1
  /\ QueueFails
  /\ UNCHANGED <<socketVars, waiting, callVars, pendingVars, handshakeVars,
                 serverVars, closes>>
-----------------------------------------------------------------------------
(* The reader of events().                                                 *)

(* Slip: next() waits as soon as there is nothing to read. *)
NextWaits ==
  /\ Quiet
  /\ reader = "busy"
  /\ IF failed
     THEN reader' = "over" /\ UNCHANGED values
     ELSE IF values > 0
     THEN values' = values - 1 /\ UNCHANGED reader
     ELSE reader' = "waiting" /\ UNCHANGED values
  /\ UNCHANGED <<socketVars, waiting, callVars, pendingVars, handshakeVars,
                 serverVars, closed, failed, boundVars>>

(* Slip: next() takes an event without looking whether there is one. *)
NextTakes ==
  /\ Quiet
  /\ reader = "busy"
  /\ IF failed
     THEN reader' = "over" /\ UNCHANGED values
     ELSE IF ~closed
     THEN values' = values - 1 /\ UNCHANGED reader
     ELSE reader' = "over" /\ UNCHANGED values
  /\ UNCHANGED <<socketVars, waiting, callVars, pendingVars, handshakeVars,
                 serverVars, closed, failed, boundVars>>

(* next() *)
ReadNext ==
  /\ Quiet
  /\ reader = "busy"
  /\ IF failed
     THEN reader' = "over" /\ UNCHANGED values
     ELSE IF values > 0
     THEN values' = values - 1 /\ UNCHANGED reader
     ELSE reader' = (IF closed THEN "over" ELSE "waiting") /\ UNCHANGED values
  /\ UNCHANGED <<socketVars, waiting, callVars, pendingVars, handshakeVars,
                 serverVars, closed, failed, boundVars>>

(* return(): the loop is left and its waiter taken back. *)
ReaderReturns ==
  /\ Quiet
  /\ reader \in {"busy", "waiting"}
  /\ reader' = "over"
  /\ UNCHANGED <<socketVars, waiting, callVars, pendingVars, handshakeVars,
                 serverVars, values, closed, failed, boundVars>>

CallerStep(c) ==
  \/ Request(c) \/ Watch(c) \/ ParamsResolved(c) \/ ParamsFail(c)
  \/ InitContinues(c)

SocketStep(n) ==
  \/ SocketReady(n) \/ SocketRefused(n)
  \/ UrlResolved(n) \/ UrlFails(n) \/ Opens(n) \/ Drops(n)
  \/ ErrorEvent(n) \/ CloseEvent(n)
  \/ Notify(n) \/ ErrorWithoutId(n)

Next ==
  \/ \E c \in Callers : CallerStep(c)
  \/ \E n \in Sockets : SocketStep(n)
  \/ \E m \in outstanding : Answer(m)
  \/ Close \/ ReadNext \/ ReaderReturns

(* Promises go on; parameters and addresses are had or not; a socket that  *)
(* connects opens or fails, one that closes says so; the server answers on *)
(* a connection that stays open; the loop over the events goes on.         *)
Fairness ==
  /\ \A c \in Callers :
       /\ WF_vars(ParamsResolved(c) \/ ParamsFail(c))
       /\ WF_vars(InitContinues(c))
  /\ \A n \in Sockets :
       /\ WF_vars(SocketReady(n) \/ SocketRefused(n))
       /\ WF_vars(UrlResolved(n) \/ UrlFails(n))
       /\ WF_vars(Opens(n) \/ ErrorEvent(n) \/ CloseEvent(n))
       /\ WF_vars(\E m \in outstanding : m.socket = n /\ Answer(m))
  /\ WF_vars(ReadNext)

Spec == Init /\ [][Next]_vars

FairSpec == Spec /\ Fairness
-----------------------------------------------------------------------------
(* Properties.                                                             *)

Points == {"idle", "params", "awaitInit", "socket", "sent", "resolved",
           "rejected"}

Phases == {"none", "url", "connecting", "shut", "open", "lost", "erring",
           "closed", "failed"}

(* Every variable stays within its type. *)
TypeOK ==
  /\ socket \in Sockets \union {None}
  /\ openPromise \in Sockets \union {None}
  /\ opened \in 0 .. 2 * Cardinality(Callers)
  /\ phase \in [Sockets -> Phases]
  /\ waiting \in [Sockets -> Seq(Callers)]
  /\ pc \in [Callers -> Points]
  /\ awaits \in [Callers -> Callers \union {NoCaller}]
  /\ initialize \in [Callers -> {"none", "socket", "sent", "ok", "failed"}]
  /\ initPending \in Callers \union {NoCaller}
  /\ reqPending \subseteq Requesters
  /\ sentOn \in [Callers -> Sockets \union {None}]
  /\ initializePromise \in Callers \union {NoCaller}
  /\ initialized \in BOOLEAN
  /\ outstanding \subseteq [by : Callers, initialize : BOOLEAN,
                            socket : Sockets, ok : BOOLEAN]
  /\ greeted \subseteq Sockets
  /\ values \in Nat
  /\ closed \in BOOLEAN
  /\ failed \in BOOLEAN
  /\ reader \in {"none", "busy", "waiting", "over"}
  /\ events \in 0 .. MaxEvents
  /\ closes \in 0 .. MaxCloses

(* A request on the wire can still settle: it is registered under its id,  *)
(* and the socket that carries it has yet to report its end, however many  *)
(* older sockets the client has forgotten.                                 *)
SentCanSettle ==
  \A c \in Requesters : pc[c] = "sent" =>
    c \in reqPending /\ phase[sentOn[c]] \in {"open", "lost"}

(* The reader waits only while there is nothing to tell it: no event, no   *)
(* close and no failure slips past a next() that found none.               *)
WaitingMeansQuiet ==
  reader = "waiting" => values = 0 /\ ~closed /\ ~failed

(* A request whose connection stays open is rejected only by the server's  *)
(* error answer, by close(), or by the late event of another socket; an    *)
(* url() that cannot be had rejects nothing that is on the wire.           *)
RejectedByTeardown ==
  [][ \A c \in Requesters :
        pc[c] = "sent" /\ pc'[c] = "rejected" /\ phase'[sentOn[c]] = "open" =>
          \/ \E m \in outstanding \ outstanding' : m.by = c /\ ~m.ok
          \/ closes' # closes
          \/ \E n \in Sockets \ {sentOn[c]} :
               phase[n] # phase'[n] /\ phase'[n] \in {"erring", "closed"}
    ]_vars

Settled(c) == pc[c] \in {"resolved", "rejected"}

(* Its initialize request was sent, and the entry under id 0 is another's. *)
Overtaken(c) ==
  /\ pc[c] = "awaitInit"
  /\ initialize[awaits[c]] = "sent"
  /\ initPending # awaits[c]

(* Every call settles, through any sequence of lost connections, unless    *)
(* the initialize it waits for was overtaken by another's under id 0.      *)
SettlesUnlessOvertaken ==
  \A c \in Callers : pc[c] # "idle" ~> Settled(c) \/ Overtaken(c)

(* The client accepts requests and "returns typed method responses"        *)
(* (docs/start-here/02-primitives-and-boundaries.md:30): a request settles.*)
RequestSettles ==
  \A c \in Requesters : pc[c] # "idle" ~> Settled(c)
=============================================================================
