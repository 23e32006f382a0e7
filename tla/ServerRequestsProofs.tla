------------------------ MODULE ServerRequestsProofs ------------------------
(* Proofs about ServerRequests, for any clients and requests and however   *)
(* often the process starts again: TypeOK, OwnAnswers, OneAnswerRouted and *)
(* PromptAnswerable.                                                       *)
EXTENDS ServerRequests, TLAPS

Sent(r) == id[r] # NoId
Current(r) == Sent(r) /\ eraOf[r] = era

(* Ids: none before a request is emitted, below the counter in the process *)
(* that runs, and in no process twice.                                     *)
Ids ==
  /\ \A r \in Requests :
       /\ eraOf[r] <= era
       /\ stage[r] \in {"new", "asked"} => ~Sent(r)
       /\ stage[r] \in {"sending", "stored", "executing", "submitted"}
            => Current(r)
       /\ Current(r) => id[r] < nextId
  /\ \A q, r \in Requests :
       Sent(r) /\ SameId(q, r) /\ eraOf[q] = eraOf[r] => q = r

(* What is registered, stored, shown, answered or settled was sent. *)
Known ==
  /\ \A r \in callbacks : Current(r)
  /\ \A r \in records : Sent(r)
  /\ \A c \in Clients, r \in Requests :
       r \in shown[c] \/ answer[c][r] # "none" => stage[r] = "sent" /\ Sent(r)
  /\ \A r \in Requests : by[r] # NoRequest => Sent(r)
  /\ \A r \in failed : stage[r] = "sent"

(* While an answer to a prompt of this process is routed, no record is     *)
(* left under its id.                                                      *)
Taken ==
  \A c \in Clients, r \in Requests :
    InRouting(c, r) /\ ~Stale(r) => \A q \in records : ~SameId(q, r)

(* An answer that was submitted reached whoever goes by its id. *)
Submitted ==
  \A c \in Clients, q \in Requests : answer[c][q] = "submitted" =>
    /\ id[q] < nextId
    /\ \A r \in callbacks : SameId(q, r) => by[r] # NoRequest

(* A registered request that may be shown is stored, or an answer under    *)
(* its id is being routed, unless the store or a send failed.              *)
Stored ==
  \A r \in callbacks : stage[r] \in {"stored", "sent"} =>
    r \in records \cup failed \cup refused
    \/ \E d \in Clients, q \in Requests : SameId(q, r) /\ InRouting(d, q)

(* A request on its way has not been answered, and is registered unless a  *)
(* stale prompt was answered into it; so is a request that is shown, or    *)
(* its send failed, or its resolution was missed.                          *)
Registered ==
  /\ \A r \in Requests : stage[r] \in {"sending", "stored"} =>
       by[r] # r /\ (r \in callbacks \/ by[r] # NoRequest)
  /\ \A c \in Clients : \A r \in shown[c] :
       \/ Stale(r) \/ r \in failed \cup refused \/ <<c, r>> \in missed
       \/ by[r] \notin {NoRequest, r} \/ r \in callbacks

IInv ==
  /\ TypeOK /\ Ids /\ Known /\ OwnAnswers /\ Taken /\ OneAnswerRouted
  /\ Submitted /\ Stored /\ Registered

LEMMA InitKeeps == Init => IInv
<1> SUFFICES ASSUME Init PROVE IInv
  OBVIOUS
<1>1. TypeOK
  BY RequestsAssumption DEF Init, TypeOK, Stages, NoId
<1>2. Ids /\ Known /\ OwnAnswers /\ Registered /\ Stored
  BY RequestsAssumption DEF Init, Ids, Known, OwnAnswers, Registered, Stored,
     Sent, Current, NoId, SameId
<1>3. \A c \in Clients, r \in Requests : answer[c][r] = "none"
  BY DEF Init
<1>4. Taken /\ OneAnswerRouted /\ Submitted
  BY <1>3 DEF Taken, OneAnswerRouted, Submitted, InRouting
<1>5. QED
  BY <1>1, <1>2, <1>4 DEF IInv

(* The steps that are taken for one request, for one answer, and the rest. *)
RequestStep(r) ==
  Ask(r) \/ Sending(r) \/ ExecuteEnds(r) \/ FinishExecuted(r)
AnswerStep(c, r) == Answer(c, r) \/ TakeFails(c, r) \/ Routing(c, r)
OtherStep == (\E c \in Clients : Join(c) \/ Leave(c)) \/ EndTurn \/ Restart

LEMMA Steps ==
  ASSUME [Next]_vars
  PROVE  \/ \E r \in Requests : RequestStep(r)
         \/ \E c \in Clients, r \in Requests : AnswerStep(c, r)
         \/ OtherStep
         \/ UNCHANGED vars
  BY DEF Next, RequestStep, AnswerStep, OtherStep

LEMMA TypeStep == TypeOK /\ [Next]_vars => TypeOK'
<1> SUFFICES ASSUME TypeOK, [Next]_vars PROVE TypeOK'
  OBVIOUS
<1> USE DEF Stages, NoId, processVars, sentVars, callVars, clientVars,
            historyVars
<1>1. ASSUME NEW r \in Requests, Ask(r) PROVE TypeOK'
  BY <1>1 DEF TypeOK, Ask
<1>2. ASSUME NEW r \in Requests, Emit(r) PROVE TypeOK'
  BY <1>2 DEF TypeOK, Emit, WaysOf
<1>3. ASSUME NEW r \in Requests, Put(r) PROVE TypeOK'
  BY <1>3 DEF TypeOK, Put
<1>4. ASSUME NEW r \in Requests, Deliver(r) PROVE TypeOK'
  BY <1>4 DEF TypeOK, Deliver, ShowAt
<1>5. ASSUME NEW r \in Requests, SendFails(r) PROVE TypeOK'
  BY <1>5 DEF TypeOK, SendFails, ShowAt
<1>6. ASSUME NEW r \in Requests, Unregister(r) PROVE TypeOK'
  BY <1>6 DEF TypeOK, Unregister
<1>7. ASSUME NEW r \in Requests, SubmitTo(r)
      PROVE  /\ call' \in [Requests -> {"none", "waiting", "settled",
                                        "cancelled"}]
             /\ by' \in [Requests -> Requests \cup {NoRequest}]
  BY <1>7 DEF TypeOK, SubmitTo
<1>8. ASSUME NEW r \in Requests, Resolved(r)
      PROVE  /\ callbacks' \subseteq Requests
             /\ shown' \in [Clients -> SUBSET Requests]
             /\ missed' \subseteq Clients \X Requests
  BY <1>8 DEF TypeOK, Resolved
<1>9. ASSUME NEW r \in Requests, ExecuteEnds(r) PROVE TypeOK'
  BY <1>7, <1>9 DEF TypeOK, ExecuteEnds
<1>10. ASSUME NEW r \in Requests, FinishExecuted(r) PROVE TypeOK'
  BY <1>8, <1>10 DEF TypeOK, FinishExecuted
<1>11. ASSUME NEW c \in Clients, NEW r \in Requests, AnswerStep(c, r)
       PROVE  TypeOK'
  <2>1. CASE Answer(c, r)
    BY <2>1 DEF TypeOK, Answer
  <2>2. CASE Take(c, r)
    <3>1. /\ \E w \in {"none", "taken"} :
               answer' = [answer EXCEPT ![c][r] = w]
          /\ records' \subseteq records
          /\ UNCHANGED <<processVars, stage, sentVars, callVars, callbacks,
                         clientVars, shown, historyVars>>
      BY <2>2 DEF Take
    <3>2. answer' \in [Clients -> [Requests ->
                         {"none", "received", "taken", "submitted"}]]
      BY <3>1 DEF TypeOK
    <3>3. QED
      BY <3>1, <3>2 DEF TypeOK
  <2>3. CASE TakeFails(c, r)
    <3>1. /\ answer' = [answer EXCEPT ![c][r] = "none"]
          /\ records' \subseteq records
          /\ refused' \subseteq refused \cup Requests
          /\ UNCHANGED <<processVars, stage, sentVars, callVars, callbacks,
                         clientVars, shown, failed, missed>>
      BY <2>3 DEF TakeFails
    <3>2. answer' \in [Clients -> [Requests ->
                         {"none", "received", "taken", "submitted"}]]
      BY <3>1 DEF TypeOK
    <3>3. QED
      BY <3>1, <3>2 DEF TypeOK
  <2>4. CASE Submit(c, r)
    <3>1. /\ \E w \in {"none", "submitted"} :
               answer' = [answer EXCEPT ![c][r] = w]
          /\ UNCHANGED callVars \/ SubmitTo(r)
          /\ UNCHANGED <<processVars, stage, sentVars, callbacks, records,
                         clientVars, shown, historyVars>>
      BY <2>4 DEF Submit
    <3>2. answer' \in [Clients -> [Requests ->
                         {"none", "received", "taken", "submitted"}]]
      BY <3>1 DEF TypeOK
    <3>3. QED
      BY <1>7, <3>1, <3>2 DEF TypeOK
  <2>5. CASE Finish(c, r)
    BY <1>8, <2>5 DEF TypeOK, Finish
  <2>6. QED
    BY <1>11, <2>1, <2>4, <2>5, <2>3, <2>2 DEF AnswerStep, Routing
<1>12. ASSUME NEW c \in Clients, Join(c) \/ Leave(c) PROVE TypeOK'
  BY <1>12 DEF TypeOK, Join, Leave
<1>13. CASE EndTurn
  BY <1>13 DEF TypeOK, EndTurn, Cancelled
<1>14. CASE Restart
  BY <1>14, RequestsAssumption DEF TypeOK, Restart, Cancelled
<1>15. CASE UNCHANGED vars
  BY <1>15 DEF TypeOK, vars
<1>16. QED
  BY Steps, <1>1, <1>2, <1>3, <1>4, <1>5, <1>9, <1>10, <1>11, <1>12, <1>13,
     <1>14, <1>15, <1>6 DEF RequestStep, Sending, OtherStep

LEMMA IdsStep == IInv /\ [Next]_vars => Ids'
<1> SUFFICES ASSUME IInv, [Next]_vars PROVE Ids'
  OBVIOUS
<1> USE DEF processVars, sentVars, callVars, clientVars, historyVars
<1>1. TypeOK /\ Ids
  BY DEF IInv
<1>2. ASSUME NEW r \in Requests, Emit(r) PROVE Ids'
  <2>1. /\ stage[r] = "asked" /\ ~Sent(r)
        /\ id' = [id EXCEPT ![r] = nextId]
        /\ eraOf' = [eraOf EXCEPT ![r] = era]
        /\ nextId' = nextId + 1 /\ era' = era
        /\ \E way \in {"sending", "executing"} :
             stage' = [stage EXCEPT ![r] = way]
    BY <1>1, <1>2 DEF Emit, WaysOf, Ids
  <2>2. \A q \in Requests : Current(q) => id[q] < nextId
    BY <1>1 DEF Ids
  <2>3. QED
    BY <1>1, <2>1, <2>2 DEF Ids, Sent, Current, TypeOK, SameId, NoId, Stages
<1>3. ASSUME NEW r \in Requests, stage[r] = "new",
             stage' = [stage EXCEPT ![r] = "asked"],
             UNCHANGED <<processVars, sentVars>>
      PROVE  Ids'
  BY <1>1, <1>3 DEF Ids, Sent, Current, TypeOK, SameId
<1>4. ASSUME NEW r \in Requests, NEW to,
             \/ stage[r] = "sending" /\ to \in {"stored", "sent"}
             \/ stage[r] = "stored" /\ to = "sent"
             \/ stage[r] = "executing" /\ to \in {"submitted", "sent"}
             \/ stage[r] = "submitted" /\ to = "sent",
             stage' = [stage EXCEPT ![r] = to],
             UNCHANGED <<processVars, sentVars>>
      PROVE  Ids'
  BY <1>1, <1>4 DEF Ids, Sent, Current, TypeOK, SameId
<1>5. ASSUME UNCHANGED <<processVars, stage, sentVars>> PROVE Ids'
  BY <1>1, <1>5 DEF Ids, Sent, Current, SameId
<1>6. ASSUME NEW r \in Requests, RequestStep(r) PROVE Ids'
  <2>1. CASE Ask(r)
    BY <1>3, <2>1 DEF Ask
  <2>2. CASE Put(r)
    BY <1>4, <2>2 DEF Put
  <2>3. CASE Deliver(r)
    BY <1>4, <2>3 DEF Deliver
  <2>4. CASE SendFails(r)
    BY <1>4, <2>4 DEF SendFails
  <2>5. CASE ExecuteEnds(r)
    BY <1>4, <2>5 DEF ExecuteEnds
  <2>6. CASE FinishExecuted(r)
    BY <1>4, <2>6 DEF FinishExecuted
  <2>7. CASE Unregister(r)
    BY <1>5, <2>7 DEF Unregister
  <2>8. QED
    BY <1>2, <1>6, <2>1, <2>2, <2>3, <2>4, <2>5, <2>6, <2>7
       DEF RequestStep, Sending
<1>7. ASSUME NEW c \in Clients, NEW r \in Requests, AnswerStep(c, r)
      PROVE  Ids'
  BY <1>5, <1>7 DEF AnswerStep, Routing, Answer, Take, TakeFails, Submit,
     Finish
<1>8. CASE Restart
  <2>1. /\ era' = era + 1 /\ nextId' = 0 /\ UNCHANGED <<id, eraOf>>
        /\ \A r \in Requests : stage'[r] \in {"new", "sent"}
        /\ \A r \in Requests : stage'[r] = "new" => stage[r] = "new"
    BY <1>1, <1>8 DEF Restart, TypeOK
  <2>2. \A r \in Requests : eraOf[r] <= era /\ eraOf[r] # era + 1
    BY <1>1 DEF Ids, TypeOK
  <2>3. QED
    BY <1>1, <2>1, <2>2 DEF Ids, Sent, Current, TypeOK, SameId
<1>9. QED
  BY Steps, <1>6, <1>5, <1>7, <1>8 DEF OtherStep, Join, Leave, EndTurn, vars
-----------------------------------------------------------------------------
(* What a step may do to what the rest of the invariant looks at.          *)

(* Ids of a step other than the emission of a request or a restart. *)
SameIds == UNCHANGED <<era, nextId, id, eraOf>>

LEMMA SameIdsFacts ==
  ASSUME SameIds
  PROVE  \A q, r \in Requests :
           /\ Sent(r)' = Sent(r)
           /\ Current(r)' = Current(r)
           /\ Stale(r)' = Stale(r)
           /\ SameId(q, r)' = SameId(q, r)
BY DEF SameIds, Sent, Current, Stale, SameId

(* The request that is emitted gets an id that is new to this process. *)
LEMMA EmitFacts ==
  ASSUME IInv, NEW r \in Requests, Emit(r)
  PROVE  /\ ~Sent(r) /\ Current(r)' /\ id'[r] = nextId
         /\ by[r] = NoRequest
         /\ r \notin callbacks /\ r \notin records
         /\ \A c \in Clients : r \notin shown[c] /\ answer[c][r] = "none"
         /\ \A q \in Requests \ {r} : /\ Sent(q)' = Sent(q)
                                      /\ Current(q)' = Current(q)
                                      /\ Stale(q)' = Stale(q)
         /\ \A q \in Requests \ {r} : Current(q) => ~SameId(q, r)'
         /\ \A p, q \in Requests \ {r} : SameId(p, q)' = SameId(p, q)
<1>1. TypeOK /\ Ids /\ Known
  BY DEF IInv
<1>2. /\ stage[r] = "asked"
      /\ id' = [id EXCEPT ![r] = nextId]
      /\ eraOf' = [eraOf EXCEPT ![r] = era]
      /\ era' = era
  BY DEF Emit
<1>3. ~Sent(r)
  BY <1>1, <1>2 DEF Ids
<1>4. /\ by[r] = NoRequest
      /\ r \notin callbacks /\ r \notin records
      /\ \A c \in Clients : r \notin shown[c] /\ answer[c][r] = "none"
  BY <1>1, <1>2, <1>3 DEF Known, Current
<1>5. id'[r] = nextId /\ eraOf'[r] = era /\ nextId \in Nat
  BY <1>1, <1>2 DEF TypeOK
<1>6. \A q \in Requests \ {r} : id'[q] = id[q] /\ eraOf'[q] = eraOf[q]
  BY <1>1, <1>2 DEF TypeOK
<1>7. \A q \in Requests : Current(q) => id[q] # nextId
  BY <1>1, <1>5 DEF Ids, TypeOK, NoId
<1>8. QED
  BY <1>2, <1>3, <1>4, <1>5, <1>6, <1>7
     DEF Sent, Current, Stale, SameId, NoId

LEMMA RestartFacts ==
  ASSUME IInv, Restart
  PROVE  /\ \A r \in Requests : Sent(r)' = Sent(r)
         /\ \A q, r \in Requests : SameId(q, r)' = SameId(q, r)
         /\ \A r \in Requests : Stale(r)'
         /\ \A r \in Requests : stage'[r] \in {"new", "sent"}
         /\ \A r \in Requests : stage[r] = "sent" => stage'[r] = "sent"
         /\ \A c \in Clients, r \in Requests : answer'[c][r] = "none"
         /\ callbacks' = {} /\ records' \subseteq records
         /\ failed' = {} /\ UNCHANGED <<by, shown, eraOf>>
<1> USE DEF sentVars, historyVars
<1>1. TypeOK /\ Ids
  BY DEF IInv
<1>2. \A r \in Requests : eraOf[r] < era + 1
  BY <1>1 DEF Ids, TypeOK
<1>3. QED
  BY <1>1, <1>2 DEF Restart, Sent, SameId, Stale, TypeOK

(* Both ways an answer is routed. *)
LEMMA SubmitFacts ==
  ASSUME TypeOK, NEW r \in Requests, SubmitTo(r)
  PROVE  \A q \in Requests :
           by'[q] = IF q \in callbacks /\ SameId(q, r) THEN r ELSE by[q]
BY DEF SubmitTo, Routed, TypeOK

LEMMA ResolvedFacts ==
  ASSUME TypeOK, NEW r \in Requests, Resolved(r)
  PROVE  /\ \A q \in Requests :
              q \in callbacks' <=> q \in callbacks /\ ~SameId(q, r)
         /\ callbacks' \subseteq callbacks
         /\ missed \subseteq missed'
         /\ \A c \in Clients : shown'[c] \subseteq shown[c]
         /\ \A c \in Clients : \A q \in shown'[c] :
              SameId(q, r) => Stale(q) \/ <<c, q>> \in missed'
<1>1. PICK some \in SUBSET subs :
        /\ shown' = [c \in Clients |->
             IF c \in some THEN {q \in shown[c] : ~SameId(q, r)} ELSE shown[c]]
        /\ missed' = missed \cup
             {m \in (Clients \ some) \X Requests :
                m[2] \in shown[m[1]] /\ SameId(m[2], r) /\ ~Stale(m[2])}
  BY DEF Resolved
<1>2. ASSUME NEW c \in Clients, NEW q \in shown'[c], SameId(q, r),
             ~Stale(q)
      PROVE  <<c, q>> \in missed'
  <2>1. c \notin some /\ q \in shown[c] /\ q \in Requests
    BY <1>1, <1>2 DEF TypeOK
  <2>2. <<c, q>> \in (Clients \ some) \X Requests
    BY <2>1
  <2>3. QED
    BY <1>1, <1>2, <2>1, <2>2
<1>3. callbacks' = callbacks \ Routed(r)
  BY DEF Resolved
<1>4. QED
  BY <1>1, <1>2, <1>3 DEF Routed

(* A prompt that becomes visible is the one that is delivered. *)
LEMMA ShowFacts ==
  ASSUME TypeOK, NEW r \in Requests, NEW some, ShowAt(r, some)
  PROVE  \A c \in Clients : shown'[c] \subseteq shown[c] \cup {r}
BY DEF ShowAt, TypeOK
-----------------------------------------------------------------------------
LEMMA KnownStep == IInv /\ [Next]_vars => Known'
<1> SUFFICES ASSUME IInv, [Next]_vars PROVE Known'
  OBVIOUS
<1> USE DEF processVars, sentVars, callVars, clientVars, historyVars
<1>1. TypeOK /\ Ids /\ Known
  BY DEF IInv
<1>2. ASSUME NEW r \in Requests, Emit(r) PROVE Known'
  <2>1. /\ callbacks' = callbacks \cup {r}
        /\ UNCHANGED <<by, records, shown, answer, failed>>
        /\ stage[r] = "asked"
        /\ \A q \in Requests \ {r} : stage'[q] = stage[q]
    BY <1>1, <1>2 DEF Emit, TypeOK
  <2>2. /\ Current(r)'
        /\ r \notin records
        /\ \A c \in Clients : r \notin shown[c] /\ answer[c][r] = "none"
        /\ \A q \in Requests \ {r} : /\ Sent(q)' = Sent(q)
                                     /\ Current(q)' = Current(q)
    BY <1>2, EmitFacts
  <2>3. Sent(r)'
    BY <2>2 DEF Current
  <2>4. \A q \in Requests : Sent(q) => Sent(q)'
    BY <2>2, <2>3
  <2>5. (\A q \in callbacks : Current(q))'
    BY <1>1, <2>1, <2>2 DEF Known, TypeOK
  <2>6. (\A q \in records : Sent(q))'
    BY <1>1, <2>1, <2>4 DEF Known, TypeOK
  <2>7. (\A q \in Requests : by[q] # NoRequest => Sent(q))'
    BY <1>1, <2>1, <2>4 DEF Known
  <2>8. (\A q \in failed : stage[q] = "sent")'
    BY <1>1, <2>1 DEF Known, TypeOK
  <2>9. (\A c \in Clients, q \in Requests :
           q \in shown[c] \/ answer[c][q] # "none"
             => stage[q] = "sent" /\ Sent(q))'
    BY <1>1, <2>1, <2>2, <2>4 DEF Known
  <2>10. QED
    BY <2>5, <2>6, <2>7, <2>8, <2>9 DEF Known
<1>3. ASSUME NEW r \in Requests, SameIds, stage[r] # "sent",
             \E to : stage' = [stage EXCEPT ![r] = to],
             \A q \in callbacks' : q \in callbacks,
             \A q \in records' : q \in records \/ (q = r /\ Sent(r)),
             \A c \in Clients, q \in Requests :
               /\ q \in shown'[c] =>
                    q \in shown[c] \/ (q = r /\ stage'[r] = "sent" /\ Sent(r))
               /\ answer'[c][q] = answer[c][q],
             \A q \in Requests :
               by'[q] = by[q] \/ q \in callbacks,
             \A q \in failed' : q \in failed \/ (q = r /\ stage'[r] = "sent")
      PROVE  Known'
  <2>1. \A q \in Requests : stage[q] = "sent" => stage'[q] = "sent"
    BY <1>1, <1>3 DEF TypeOK
  <2>2. QED
    BY <1>1, <1>3, <2>1, SameIdsFacts DEF Known, TypeOK, Current
<1>4. ASSUME SameIds, UNCHANGED stage,
             callbacks' \subseteq callbacks, records' \subseteq records,
             \A c \in Clients, q \in Requests :
               q \in shown'[c] \/ answer'[c][q] # "none" =>
                 q \in shown[c] \/ answer[c][q] # "none",
             \A q \in Requests : by'[q] = by[q] \/ q \in callbacks,
             UNCHANGED failed
      PROVE  Known'
  BY <1>1, <1>4, SameIdsFacts DEF Known, TypeOK, Current
<1>5. ASSUME NEW r \in Requests, RequestStep(r) PROVE Known'
  <2>1. CASE Ask(r)
    BY <1>3, <2>1 DEF Ask, SameIds
  <2>2. CASE Put(r)
    <3>1. Sent(r)
      BY <1>1, <2>2 DEF Put, Ids, Current
    <3>2. QED
      BY <1>1, <1>3, <2>2, <3>1 DEF Put, SameIds
  <2>3. CASE Deliver(r)
    <3>1. Sent(r) /\ stage'[r] = "sent"
      BY <1>1, <2>3 DEF Deliver, Ids, Current, TypeOK
    <3>2. \A c \in Clients : shown'[c] \subseteq shown[c] \cup {r}
      BY <1>1, <2>3, ShowFacts DEF Deliver
    <3>3. QED
      BY <1>1, <1>3, <2>3, <3>1, <3>2 DEF Deliver, SameIds
  <2>4. CASE SendFails(r)
    <3>1. Sent(r) /\ stage'[r] = "sent"
      BY <1>1, <2>4 DEF SendFails, Ids, Current, TypeOK
    <3>2. \A c \in Clients : shown'[c] \subseteq shown[c] \cup {r}
      BY <1>1, <2>4, ShowFacts DEF SendFails
    <3>3. QED
      BY <1>1, <1>3, <2>4, <3>1, <3>2 DEF SendFails, SameIds
  <2>5. CASE ExecuteEnds(r)
    <3>1. \A q \in Requests : by'[q] = by[q] \/ q \in callbacks
      BY <1>1, <2>5, SubmitFacts DEF ExecuteEnds
    <3>2. QED
      BY <1>1, <1>3, <2>5, <3>1 DEF ExecuteEnds, SameIds
  <2>6. CASE FinishExecuted(r)
    <3>1. /\ callbacks' \subseteq callbacks
          /\ \A c \in Clients : shown'[c] \subseteq shown[c]
      BY <1>1, <2>6, ResolvedFacts DEF FinishExecuted
    <3>2. QED
      BY <1>1, <1>3, <2>6, <3>1 DEF FinishExecuted, SameIds
  <2>7. CASE Unregister(r)
    BY <1>1, <1>4, <2>7 DEF Unregister, SameIds
  <2>8. QED
    BY <1>2, <1>5, <2>1, <2>2, <2>3, <2>4, <2>5, <2>6, <2>7
       DEF RequestStep, Sending
<1>6. ASSUME NEW c \in Clients, NEW r \in Requests, AnswerStep(c, r)
      PROVE  Known'
  <2>1. CASE Answer(c, r)
    BY <1>1, <1>4, <2>1 DEF Answer, SameIds, TypeOK
  <2>2. CASE Take(c, r) \/ TakeFails(c, r)
    BY <1>1, <1>4, <2>2 DEF Take, TakeFails, SameIds, TypeOK
  <2>3. CASE Submit(c, r)
    <3>1. \A q \in Requests : by'[q] = by[q] \/ q \in callbacks
      BY <1>1, <2>3, SubmitFacts DEF Submit
    <3>2. \A d \in Clients, q \in Requests :
            answer'[d][q] # "none" => answer[d][q] # "none"
      <4>1. /\ answer[c][r] = "taken"
            /\ \E w \in {"none", "submitted"} :
                 answer' = [answer EXCEPT ![c][r] = w]
        BY <2>3 DEF Submit
      <4>2. QED
        BY <1>1, <4>1 DEF TypeOK
    <3>3. SameIds /\ UNCHANGED <<stage, callbacks, records, shown, failed>>
      BY <2>3 DEF Submit, SameIds
    <3>4. QED
      BY <1>4, <3>1, <3>2, <3>3
  <2>4. CASE Finish(c, r)
    <3>1. /\ callbacks' \subseteq callbacks
          /\ \A d \in Clients : shown'[d] \subseteq shown[d]
      BY <1>1, <2>4, ResolvedFacts DEF Finish
    <3>2. QED
      BY <1>1, <1>4, <2>4, <3>1 DEF Finish, SameIds, TypeOK
  <2>5. QED
    BY <1>6, <2>1, <2>2, <2>3, <2>4 DEF AnswerStep, Routing
<1>7. ASSUME NEW c \in Clients, Join(c) \/ Leave(c) PROVE Known'
  BY <1>1, <1>4, <1>7 DEF Join, Leave, SameIds, TypeOK
<1>8. CASE EndTurn \/ UNCHANGED vars
  BY <1>1, <1>4, <1>8 DEF EndTurn, vars, SameIds
<1>9. CASE Restart
  BY <1>1, <1>9, RestartFacts DEF Known, TypeOK
<1>10. QED
  BY Steps, <1>5, <1>6, <1>7, <1>8, <1>9 DEF OtherStep

LEMMA OwnStep == IInv /\ [Next]_vars => OwnAnswers'
<1> SUFFICES ASSUME IInv, [Next]_vars PROVE OwnAnswers'
  OBVIOUS
<1> USE DEF processVars, sentVars, callVars, clientVars, historyVars
<1>1. TypeOK /\ Ids /\ Known /\ OwnAnswers
  BY DEF IInv
<1>2. ASSUME NEW r \in Requests, Emit(r) PROVE OwnAnswers'
  <2>1. UNCHANGED by /\ \A q \in Requests \ {r} : eraOf'[q] = eraOf[q]
    BY <1>1, <1>2 DEF Emit, TypeOK
  <2>2. /\ ~Sent(r) /\ by[r] = NoRequest
        /\ \A p, q \in Requests \ {r} : SameId(p, q)' = SameId(p, q)
    BY <1>2, EmitFacts
  <2>3. ASSUME NEW q \in Requests, by[q] # NoRequest, by[q] # q
        PROVE  eraOf'[by[q]] < eraOf'[q] /\ SameId(by[q], q)'
    <3>1. by[q] \in Requests /\ Sent(q) /\ q # r
      BY <1>1, <2>2, <2>3 DEF TypeOK, Known
    <3>2. eraOf[by[q]] < eraOf[q] /\ SameId(by[q], q)
      BY <1>1, <2>3 DEF OwnAnswers
    <3>3. by[q] # r
      BY <2>2, <3>1, <3>2 DEF SameId, Sent
    <3>4. QED
      BY <2>1, <2>2, <3>1, <3>2, <3>3
  <2>4. QED
    BY <2>1, <2>3 DEF OwnAnswers
<1>3. ASSUME NEW r \in Requests, Sent(r), SubmitTo(r), SameIds
      PROVE  OwnAnswers'
  <2>1. \A q \in Requests :
          by'[q] = IF q \in callbacks /\ SameId(q, r) THEN r ELSE by[q]
    BY <1>1, <1>3, SubmitFacts
  <2>2. ASSUME NEW q \in Requests, q \in callbacks, SameId(q, r), q # r
        PROVE  eraOf[r] < eraOf[q] /\ SameId(r, q)
    <3>1. eraOf[q] = era /\ eraOf[r] <= era
      BY <1>1, <2>2 DEF Known, Ids, Current
    <3>2. SameId(r, q) /\ eraOf[r] # eraOf[q]
      BY <1>1, <1>3, <2>2 DEF Ids, SameId
    <3>3. eraOf[r] \in Int /\ era \in Int
      BY <1>1, RequestsAssumption DEF TypeOK
    <3>4. QED
      BY <3>1, <3>2, <3>3
  <2>3. QED
    BY <1>1, <1>3, <2>1, <2>2, SameIdsFacts DEF OwnAnswers, SameIds, SameId
<1>4. ASSUME UNCHANGED <<by, id, eraOf>> PROVE OwnAnswers'
  BY <1>1, <1>4 DEF OwnAnswers, SameId
<1>5. ASSUME NEW r \in Requests, RequestStep(r) PROVE OwnAnswers'
  <2>1. CASE ExecuteEnds(r)
    <3>1. Sent(r)
      BY <1>1, <2>1 DEF ExecuteEnds, Ids, Current
    <3>2. QED
      BY <1>3, <1>4, <2>1, <3>1 DEF ExecuteEnds, SameIds
  <2>2. CASE ~Emit(r) /\ ~ExecuteEnds(r)
    BY <1>4, <1>5, <2>2 DEF RequestStep, Sending, Ask, Put, Deliver,
       SendFails, Unregister, FinishExecuted
  <2>3. QED
    BY <1>2, <2>1, <2>2
<1>6. ASSUME NEW c \in Clients, NEW r \in Requests, AnswerStep(c, r)
      PROVE  OwnAnswers'
  <2>1. CASE Submit(c, r)
    <3>1. Sent(r)
      BY <1>1, <2>1 DEF Submit, Known
    <3>2. QED
      BY <1>3, <1>4, <2>1, <3>1 DEF Submit, SameIds
  <2>2. CASE ~Submit(c, r)
    BY <1>4, <1>6, <2>2 DEF AnswerStep, Routing, Answer, Take, TakeFails,
       Finish
  <2>3. QED
    BY <2>1, <2>2
<1>7. CASE OtherStep \/ UNCHANGED vars
  BY <1>4, <1>7 DEF OtherStep, Join, Leave, EndTurn, Restart, vars
<1>8. QED
  BY Steps, <1>5, <1>6, <1>7

LEMMA TakenStep == IInv /\ [Next]_vars => (Taken /\ OneAnswerRouted)'
<1> SUFFICES ASSUME IInv, [Next]_vars PROVE (Taken /\ OneAnswerRouted)'
  OBVIOUS
<1> USE DEF processVars, sentVars, callVars, clientVars, historyVars
<1>1. TypeOK /\ Ids /\ Known /\ Taken /\ OneAnswerRouted
  BY DEF IInv
<1>2. ASSUME NEW r \in Requests, Emit(r) PROVE (Taken /\ OneAnswerRouted)'
  <2>1. UNCHANGED <<answer, records>>
    BY <1>2 DEF Emit
  <2>2. \A c \in Clients, q \in Requests : InRouting(c, q) => q # r
    BY <1>2, EmitFacts DEF InRouting
  <2>3. \A q \in records : q \in Requests \ {r}
    BY <1>1, <1>2, EmitFacts DEF TypeOK
  <2>4. QED
    BY <1>1, <1>2, <2>1, <2>2, <2>3, EmitFacts
       DEF Taken, OneAnswerRouted, InRouting
<1>3. ASSUME SameIds, records' \subseteq records,
             \A c \in Clients, q \in Requests :
               InRouting(c, q)' => InRouting(c, q)
      PROVE  (Taken /\ OneAnswerRouted)'
  BY <1>1, <1>3, SameIdsFacts DEF Taken, OneAnswerRouted, TypeOK
<1>4. ASSUME NEW r \in Requests, Put(r) PROVE (Taken /\ OneAnswerRouted)'
  <2>1. /\ SameIds /\ UNCHANGED answer
        /\ \A q \in records' : q \in records \/ q = r
        /\ Current(r) /\ stage[r] = "sending"
    BY <1>1, <1>4 DEF Put, SameIds, Ids
  <2>2. ASSUME NEW c \in Clients, NEW q \in Requests, InRouting(c, q),
               ~Stale(q)
        PROVE  ~SameId(r, q)
    <3>1. stage[q] = "sent" /\ Sent(q)
      BY <1>1, <2>2 DEF InRouting, Known
    <3>2. eraOf[q] = era
      <4>1. eraOf[q] \in Int /\ era \in Int /\ eraOf[q] <= era
        BY <1>1, RequestsAssumption DEF TypeOK, Ids
      <4>2. QED
        BY <2>2, <4>1 DEF Stale
    <3>3. QED
      BY <1>1, <2>1, <3>1, <3>2 DEF Ids, Current
  <2>3. QED
    BY <1>1, <2>1, <2>2, SameIdsFacts
       DEF Taken, OneAnswerRouted, TypeOK, InRouting
<1>5. ASSUME NEW r \in Requests, RequestStep(r)
      PROVE  (Taken /\ OneAnswerRouted)'
  <2>1. CASE ~Emit(r) /\ ~Put(r)
    BY <1>3, <1>5, <2>1 DEF RequestStep, Sending, Ask, Deliver, SendFails,
       Unregister, ExecuteEnds, FinishExecuted, SameIds, InRouting
  <2>2. QED
    BY <1>2, <1>4, <2>1
<1>6. ASSUME NEW c \in Clients, NEW r \in Requests, Take(c, r)
      PROVE  (Taken /\ OneAnswerRouted)'
  <2>1. SameIds
    BY <1>6 DEF Take, SameIds
  <2>2. /\ records' = {q \in records : ~SameId(q, r)}
        /\ InRouting(c, r)' => \E q \in records : SameId(q, r)
        /\ \A d \in Clients, q \in Requests :
             d # c \/ q # r => answer'[d][q] = answer[d][q]
    BY <1>1, <1>6 DEF Take, TypeOK, InRouting
  <2>3. \A d \in Clients, q \in Requests :
          InRouting(d, q)' => InRouting(d, q) \/ (d = c /\ q = r)
    BY <2>2 DEF InRouting
  <2>4. Taken'
    BY <1>1, <2>1, <2>2, <2>3, SameIdsFacts DEF Taken, TypeOK
  <2>5. \A d \in Clients :
          InRouting(d, r) /\ ~Stale(r) => ~InRouting(c, r)'
    BY <1>1, <2>2 DEF Taken
  <2>6. QED
    BY <1>1, <2>1, <2>3, <2>4, <2>5, SameIdsFacts DEF OneAnswerRouted
<1>7. ASSUME NEW c \in Clients, NEW r \in Requests, AnswerStep(c, r)
      PROVE  (Taken /\ OneAnswerRouted)'
  <2>1. CASE Answer(c, r)
    BY <1>1, <1>3, <2>1 DEF Answer, SameIds, InRouting, TypeOK
  <2>2. CASE TakeFails(c, r)
    <3>1. SameIds /\ records' \subseteq records
      BY <2>2 DEF TakeFails, SameIds
    <3>2. /\ answer[c][r] = "received"
          /\ answer' = [answer EXCEPT ![c][r] = "none"]
      BY <2>2 DEF TakeFails
    <3>3. \A d \in Clients, q \in Requests :
            InRouting(d, q)' => InRouting(d, q)
      BY <1>1, <3>2 DEF InRouting, TypeOK
    <3>4. QED
      BY <1>3, <3>1, <3>3
  <2>3. CASE Submit(c, r) \/ Finish(c, r)
    <3>1. /\ SameIds /\ UNCHANGED records /\ InRouting(c, r)
          /\ \E w : answer' = [answer EXCEPT ![c][r] = w]
      BY <2>3 DEF Submit, Finish, SameIds, InRouting
    <3>2. \A d \in Clients, q \in Requests :
            d # c \/ q # r => answer'[d][q] = answer[d][q]
      BY <1>1, <3>1 DEF TypeOK
    <3>3. \A d \in Clients, q \in Requests :
            InRouting(d, q)' => InRouting(d, q)
      BY <3>1, <3>2 DEF InRouting
    <3>4. QED
      BY <1>3, <3>1, <3>3
  <2>4. QED
    BY <1>6, <1>7, <2>1, <2>3, <2>2 DEF AnswerStep, Routing
<1>8. CASE Restart
  BY <1>8, RestartFacts DEF Taken, OneAnswerRouted, InRouting
<1>9. ASSUME NEW c \in Clients, Join(c) \/ Leave(c)
      PROVE  (Taken /\ OneAnswerRouted)'
  BY <1>3, <1>9 DEF Join, Leave, SameIds, InRouting
<1>10. CASE EndTurn \/ UNCHANGED vars
  BY <1>3, <1>10 DEF EndTurn, vars, SameIds, InRouting
<1>11. QED
  BY Steps, <1>5, <1>7, <1>8, <1>9, <1>10 DEF OtherStep

LEMMA SubmittedStep == IInv /\ [Next]_vars => Submitted'
<1> SUFFICES ASSUME IInv, [Next]_vars PROVE Submitted'
  OBVIOUS
<1> USE DEF processVars, sentVars, callVars, clientVars, historyVars
<1>1. TypeOK /\ Ids /\ Known /\ Submitted
  BY DEF IInv
<1>2. ASSUME NEW r \in Requests, Emit(r) PROVE Submitted'
  <2>1. /\ UNCHANGED <<answer, by>>
        /\ callbacks' = callbacks \cup {r}
        /\ nextId' = nextId + 1
    BY <1>2 DEF Emit
  <2>2. ASSUME NEW c \in Clients, NEW q \in Requests,
               answer[c][q] = "submitted"
        PROVE  /\ id'[q] < nextId'
               /\ \A s \in callbacks' : SameId(q, s)' => by[s] # NoRequest
    <3>1. q # r /\ id[q] < nextId
      BY <1>1, <1>2, <2>2, EmitFacts DEF Submitted
    <3>2. id'[q] = id[q]
      BY <1>1, <1>2, <3>1 DEF Emit, TypeOK
    <3>3. id[q] \in Int /\ nextId \in Int
      BY <1>1 DEF TypeOK, NoId
    <3>4. ~SameId(q, r)'
      BY <1>2, <3>1, <3>2, <3>3, EmitFacts DEF SameId
    <3>5. ASSUME NEW s \in callbacks', SameId(q, s)'
          PROVE  by[s] # NoRequest
      <4>1. s \in callbacks /\ s \in Requests \ {r}
        BY <1>1, <2>1, <3>4, <3>5 DEF TypeOK
      <4>2. SameId(q, s)
        BY <1>2, <3>1, <3>5, <4>1, EmitFacts
      <4>3. QED
        BY <1>1, <2>2, <4>1, <4>2 DEF Submitted
    <3>6. QED
      BY <2>1, <3>1, <3>2, <3>3, <3>5
  <2>3. QED
    BY <2>1, <2>2 DEF Submitted
<1>3. ASSUME SameIds, callbacks' \subseteq callbacks,
             \A q \in Requests : by[q] # NoRequest => by'[q] # NoRequest,
             \A c \in Clients, q \in Requests :
               answer'[c][q] = "submitted" => answer[c][q] = "submitted"
      PROVE  Submitted'
  BY <1>1, <1>3, SameIdsFacts DEF Submitted, SameIds, TypeOK
<1>4. ASSUME NEW r \in Requests, SubmitTo(r)
      PROVE  /\ \A q \in Requests : by[q] # NoRequest => by'[q] # NoRequest
             /\ \A q \in callbacks : SameId(q, r) => by'[q] # NoRequest
  BY <1>1, <1>4, SubmitFacts, RequestsAssumption DEF TypeOK
<1>5. ASSUME NEW r \in Requests, RequestStep(r) PROVE Submitted'
  <2>1. CASE ExecuteEnds(r)
    BY <1>3, <1>4, <2>1 DEF ExecuteEnds, SameIds
  <2>2. CASE FinishExecuted(r)
    BY <1>1, <1>3, <2>2, ResolvedFacts DEF FinishExecuted, SameIds
  <2>3. CASE ~Emit(r) /\ ~ExecuteEnds(r) /\ ~FinishExecuted(r)
    BY <1>3, <1>5, <2>3 DEF RequestStep, Sending, Ask, Put, Deliver,
       SendFails, Unregister, SameIds
  <2>4. QED
    BY <1>2, <2>1, <2>2, <2>3
<1>6. ASSUME NEW c \in Clients, NEW r \in Requests, Submit(c, r)
      PROVE  Submitted'
  <2>1. SameIds /\ UNCHANGED callbacks
    BY <1>6 DEF Submit, SameIds
  <2>2. CASE Routed(r) = {}
    <3>1. UNCHANGED by /\ answer' = [answer EXCEPT ![c][r] = "none"]
      BY <1>6, <2>2 DEF Submit
    <3>2. \A d \in Clients, q \in Requests :
            answer'[d][q] = "submitted" => answer[d][q] = "submitted"
      BY <1>1, <3>1 DEF TypeOK
    <3>3. QED
      BY <1>3, <2>1, <3>1, <3>2
  <2>3. CASE Routed(r) # {}
    <3>1. SubmitTo(r) /\ answer' = [answer EXCEPT ![c][r] = "submitted"]
      BY <1>6, <2>3 DEF Submit
    <3>2. \A d \in Clients, q \in Requests : answer'[d][q] = "submitted" =>
            q = r \/ answer[d][q] = "submitted"
      BY <1>1, <3>1 DEF TypeOK
    <3>3. id[r] < nextId
      BY <1>1, <2>3 DEF Routed, SameId, Known, Ids, TypeOK
    <3>4. QED
      BY <1>1, <1>4, <2>1, <3>1, <3>2, <3>3, SameIdsFacts
         DEF Submitted, SameIds, TypeOK, SameId
  <2>4. QED
    BY <2>2, <2>3
<1>7. ASSUME NEW c \in Clients, NEW r \in Requests, AnswerStep(c, r)
      PROVE  Submitted'
  <2>1. CASE Answer(c, r)
    BY <1>1, <1>3, <2>1 DEF Answer, SameIds, TypeOK
  <2>2. CASE Take(c, r) \/ TakeFails(c, r)
    BY <1>1, <1>3, <2>2 DEF Take, TakeFails, SameIds, TypeOK
  <2>3. CASE Finish(c, r)
    <3>1. callbacks' \subseteq callbacks
      BY <1>1, <2>3, ResolvedFacts DEF Finish
    <3>2. QED
      BY <1>1, <1>3, <2>3, <3>1 DEF Finish, SameIds, TypeOK
  <2>4. QED
    BY <1>6, <1>7, <2>1, <2>2, <2>3 DEF AnswerStep, Routing
<1>8. CASE Restart
  BY <1>8, RestartFacts DEF Submitted
<1>9. ASSUME NEW c \in Clients, Join(c) \/ Leave(c) PROVE Submitted'
  BY <1>3, <1>9 DEF Join, Leave, SameIds
<1>10. CASE EndTurn \/ UNCHANGED vars
  BY <1>3, <1>10 DEF EndTurn, vars, SameIds
<1>11. QED
  BY Steps, <1>5, <1>7, <1>8, <1>9, <1>10 DEF OtherStep

LEMMA StoredStep == IInv /\ [Next]_vars => Stored'
<1> SUFFICES ASSUME IInv, [Next]_vars PROVE Stored'
  OBVIOUS
<1> USE DEF processVars, sentVars, callVars, clientVars, historyVars
<1>1. TypeOK /\ Ids /\ Known /\ Stored
  BY DEF IInv
<1>2. ASSUME NEW r \in Requests, Emit(r) PROVE Stored'
  <2>1. /\ UNCHANGED <<answer, records, failed, refused>>
        /\ callbacks' = callbacks \cup {r}
        /\ stage'[r] \in {"sending", "executing"}
        /\ \A q \in Requests \ {r} : stage'[q] = stage[q]
    BY <1>1, <1>2 DEF Emit, TypeOK, WaysOf
  <2>2. \A c \in Clients, q \in Requests : InRouting(c, q) => q # r
    BY <1>2, EmitFacts DEF InRouting
  <2>3. ASSUME NEW s \in callbacks', stage'[s] \in {"stored", "sent"}
        PROVE  \/ s \in (records \cup failed \cup refused)'
               \/ \E d \in Clients, q \in Requests :
                    SameId(q, s)' /\ InRouting(d, q)'
    <3>1. s \in callbacks /\ s \in Requests \ {r}
          /\ stage[s] \in {"stored", "sent"}
      BY <1>1, <2>1, <2>3 DEF TypeOK
    <3>2. CASE s \in records \cup failed \cup refused
      BY <2>1, <3>2
    <3>3. CASE s \notin records \cup failed \cup refused
      <4>1. PICK d \in Clients, q \in Requests :
              SameId(q, s) /\ InRouting(d, q)
        BY <1>1, <3>1, <3>3 DEF Stored
      <4>2. SameId(q, s)' /\ InRouting(d, q)'
        BY <1>2, <2>1, <2>2, <3>1, <4>1, EmitFacts DEF InRouting
      <4>3. QED
        BY <4>2
    <3>4. QED
      BY <3>2, <3>3
  <2>4. QED
    BY <2>3 DEF Stored
<1>3. ASSUME SameIds, callbacks' \subseteq callbacks,
             failed \subseteq failed', refused \subseteq refused',
             \A s \in callbacks' :
               /\ stage'[s] \in {"stored", "sent"}
                    => stage[s] \in {"stored", "sent"} \/ s \in failed'
               /\ s \in records =>
                    \/ s \in (records \cup refused)'
                    \/ \E d \in Clients, q \in Requests :
                         SameId(q, s) /\ InRouting(d, q)',
             \A d \in Clients, q \in Requests :
               InRouting(d, q) =>
                 InRouting(d, q)' \/ \A s \in callbacks' : ~SameId(q, s)
      PROVE  Stored'
  <2>1. ASSUME NEW s \in callbacks', stage'[s] \in {"stored", "sent"}
        PROVE  \/ s \in (records \cup failed \cup refused)'
               \/ \E d \in Clients, q \in Requests :
                    SameId(q, s)' /\ InRouting(d, q)'
    <3>1. \/ s \in records \cup failed \cup refused \/ s \in failed'
          \/ \E d \in Clients, q \in Requests :
               SameId(q, s) /\ InRouting(d, q)
      BY <1>1, <1>3, <2>1 DEF Stored
    <3>2. \/ s \in (records \cup failed \cup refused)'
          \/ \E d \in Clients, q \in Requests :
               SameId(q, s) /\ InRouting(d, q)'
      BY <1>3, <2>1, <3>1
    <3>3. s \in Requests
      BY <1>1, <1>3, <2>1 DEF TypeOK
    <3>4. QED
      BY <1>3, <3>2, <3>3, SameIdsFacts
  <2>2. QED
    BY <2>1 DEF Stored
<1>4. ASSUME NEW r \in Requests, Put(r) PROVE Stored'
  <2>1. /\ SameIds /\ UNCHANGED <<answer, callbacks, historyVars>>
        /\ records' = {q \in records : ~SameId(q, r)} \cup {r}
        /\ Current(r)
        /\ \A q \in Requests \ {r} : stage'[q] = stage[q]
    BY <1>1, <1>4 DEF Put, SameIds, Ids, TypeOK
  <2>2. \A s \in callbacks : s # r => ~SameId(s, r) /\ s \in Requests
    BY <1>1, <2>1 DEF Known, Ids, Current, TypeOK
  <2>3. QED
    BY <1>1, <2>1, <2>2, SameIdsFacts DEF Stored, TypeOK, InRouting
<1>5. ASSUME NEW r \in Requests, RequestStep(r) PROVE Stored'
  <2>1. CASE Ask(r)
    BY <1>1, <1>3, <2>1 DEF Ask, SameIds, InRouting, TypeOK
  <2>2. CASE Deliver(r)
    BY <1>1, <1>3, <2>2 DEF Deliver, SameIds, InRouting, TypeOK
  <2>3. CASE SendFails(r)
    BY <1>1, <1>3, <2>3 DEF SendFails, SameIds, InRouting, TypeOK
  <2>4. CASE Unregister(r)
    BY <1>3, <2>4 DEF Unregister, SameIds, InRouting
  <2>5. CASE ExecuteEnds(r)
    <3>1. /\ SameIds /\ UNCHANGED <<callbacks, records, answer, historyVars>>
          /\ \A q \in Requests \ {r} : stage'[q] = stage[q]
          /\ stage'[r] = "submitted" \/ r \notin callbacks
      BY <1>1, <2>5 DEF ExecuteEnds, SameIds, TypeOK, Routed, SameId
    <3>2. QED
      BY <1>1, <1>3, <3>1 DEF InRouting, TypeOK
  <2>6. CASE FinishExecuted(r)
    <3>1. callbacks' \subseteq callbacks /\ r \notin callbacks'
      BY <1>1, <2>6, ResolvedFacts DEF FinishExecuted, SameId
    <3>2. /\ SameIds /\ UNCHANGED <<records, answer, failed, refused>>
          /\ \A q \in Requests \ {r} : stage'[q] = stage[q]
      BY <1>1, <2>6 DEF FinishExecuted, SameIds, TypeOK
    <3>3. QED
      BY <1>1, <1>3, <3>1, <3>2 DEF InRouting, TypeOK
  <2>7. QED
    BY <1>2, <1>4, <1>5, <2>1, <2>2, <2>3, <2>5, <2>6, <2>4
       DEF RequestStep, Sending
<1>6. ASSUME NEW c \in Clients, NEW r \in Requests, AnswerStep(c, r)
      PROVE  Stored'
  <2>0. SameIds /\ UNCHANGED <<stage, failed>> /\ refused \subseteq refused'
    BY <1>6 DEF AnswerStep, Routing, Answer, Take, TakeFails, Submit, Finish,
       SameIds
  <2>1. CASE Answer(c, r)
    <3>1. /\ UNCHANGED <<callbacks, records>>
          /\ answer[c][r] = "none"
          /\ \A d \in Clients, q \in Requests :
               d # c \/ q # r => answer'[d][q] = answer[d][q]
      BY <1>1, <2>1 DEF Answer, TypeOK
    <3>2. QED
      BY <1>3, <2>0, <3>1 DEF InRouting
  <2>2. CASE Take(c, r)
    <3>1. /\ UNCHANGED callbacks
          /\ answer[c][r] = "received"
          /\ records' = {q \in records : ~SameId(q, r)}
          /\ (\E q \in records : SameId(q, r)) => answer'[c][r] = "taken"
          /\ \A d \in Clients, q \in Requests :
               d # c \/ q # r => answer'[d][q] = answer[d][q]
      BY <1>1, <2>2 DEF Take, TypeOK
    <3>2. \A s \in records : s \in records'
            \/ (SameId(r, s) /\ InRouting(c, r)')
      BY <3>1 DEF InRouting, SameId
    <3>3. QED
      BY <1>3, <2>0, <3>1, <3>2 DEF InRouting
  <2>3. CASE Submit(c, r)
    <3>1. /\ UNCHANGED <<callbacks, records>>
          /\ answer[c][r] = "taken"
          /\ \E w : answer' = [answer EXCEPT ![c][r] = w]
          /\ Routed(r) # {} =>
               answer' = [answer EXCEPT ![c][r] = "submitted"]
      BY <2>3 DEF Submit
    <3>2. \A d \in Clients, q \in Requests :
            d # c \/ q # r => answer'[d][q] = answer[d][q]
      BY <1>1, <3>1 DEF TypeOK
    <3>3. answer'[c][r] = "submitted" \/ \A s \in callbacks : ~SameId(r, s)
      BY <1>1, <3>1 DEF TypeOK, Routed, SameId
    <3>4. QED
      BY <1>3, <2>0, <3>1, <3>2, <3>3 DEF InRouting
  <2>4. CASE Finish(c, r)
    <3>1. /\ callbacks' \subseteq callbacks
          /\ \A s \in callbacks' : ~SameId(r, s)
      BY <1>1, <2>4, ResolvedFacts DEF Finish, SameId, TypeOK
    <3>2. /\ UNCHANGED records
          /\ \A d \in Clients, q \in Requests :
               d # c \/ q # r => answer'[d][q] = answer[d][q]
      BY <1>1, <2>4 DEF Finish, TypeOK
    <3>3. QED
      BY <1>3, <2>0, <3>1, <3>2 DEF InRouting
  <2>5. CASE TakeFails(c, r)
    <3>1. /\ UNCHANGED callbacks /\ answer[c][r] = "received"
          /\ \A s \in records : s \in records' \/ SameId(s, r)
          /\ \A s \in callbacks : SameId(s, r) => s \in refused'
          /\ \A d \in Clients, q \in Requests :
               d # c \/ q # r => answer'[d][q] = answer[d][q]
      BY <1>1, <2>5 DEF TakeFails, TypeOK, Known, Current, Stale
    <3>2. \A s \in records : s \in callbacks => s \in (records \cup refused)'
      BY <3>1
    <3>3. QED
      BY <1>3, <2>0, <3>1, <3>2 DEF InRouting
  <2>6. QED
    BY <1>6, <2>1, <2>2, <2>3, <2>4, <2>5 DEF AnswerStep, Routing
<1>7. CASE Restart
  BY <1>7, RestartFacts DEF Stored
<1>8. ASSUME NEW c \in Clients, Join(c) \/ Leave(c) PROVE Stored'
  BY <1>3, <1>8 DEF Join, Leave, SameIds, InRouting
<1>9. CASE EndTurn \/ UNCHANGED vars
  BY <1>3, <1>9 DEF EndTurn, vars, SameIds, InRouting
<1>10. QED
  BY Steps, <1>5, <1>6, <1>7, <1>8, <1>9 DEF OtherStep

LEMMA RegisteredStep == IInv /\ [Next]_vars => Registered'
<1> SUFFICES ASSUME IInv, [Next]_vars PROVE Registered'
  OBVIOUS
<1> USE DEF processVars, sentVars, callVars, clientVars, historyVars
<1> DEFINE Waits(s) == stage[s] \in {"sending", "stored"}
<1>1. TypeOK /\ Ids /\ Known /\ Submitted /\ Registered
  BY DEF IInv
<1>2. ASSUME NEW r \in Requests, Emit(r) PROVE Registered'
  <2>1. /\ UNCHANGED <<by, shown, historyVars>>
        /\ callbacks' = callbacks \cup {r}
        /\ \A q \in Requests \ {r} : stage'[q] = stage[q]
    BY <1>1, <1>2 DEF Emit, TypeOK
  <2>2. by[r] # r
    BY <1>2, EmitFacts, RequestsAssumption
  <2>3. \A c \in Clients : \A s \in shown[c] : s \in Requests \ {r}
    BY <1>1, <1>2, EmitFacts DEF TypeOK
  <2>4. QED
    BY <1>1, <1>2, <2>1, <2>2, <2>3, EmitFacts DEF Registered
<1>3. ASSUME SameIds, callbacks \subseteq callbacks',
             UNCHANGED <<by, failed, missed>>, refused \subseteq refused',
             \A s \in Requests : Waits(s)' => Waits(s),
             \A c \in Clients : \A s \in shown'[c] :
               s \in shown[c] \/ (s \in Requests /\ Waits(s))
      PROVE  Registered'
  <2>1. \A c \in Clients : \A s \in shown'[c] : s \in Requests
    BY <1>1, <1>3 DEF TypeOK
  <2>2. \A s \in Requests : Stale(s)' = Stale(s)
    BY <1>3, SameIdsFacts
  <2>3. QED
    BY <1>1, <1>3, <2>1, <2>2 DEF Registered
<1>4. ASSUME NEW r \in Requests, ~Waits(r), SubmitTo(r), SameIds,
             UNCHANGED <<callbacks, shown, historyVars>>,
             \A s \in Requests : Waits(s)' => Waits(s)
      PROVE  Registered'
  <2>1. \A q \in Requests :
          by'[q] = IF q \in callbacks /\ SameId(q, r) THEN r ELSE by[q]
    BY <1>1, <1>4, SubmitFacts
  <2>2. \A s \in Requests : Stale(s)' = Stale(s)
    BY <1>4, SameIdsFacts
  <2>3. \A c \in Clients : \A s \in shown[c] : s \in Requests
    BY <1>1 DEF TypeOK
  <2>4. QED
    BY <1>1, <1>4, <2>1, <2>2, <2>3 DEF Registered
<1>5. ASSUME NEW r \in Requests, Resolved(r), SameIds,
             UNCHANGED <<by, failed, refused>>,
             \A s \in Requests : Waits(s)' => Waits(s),
             \A s \in callbacks :
               SameId(s, r) /\ Waits(s) => by[s] # NoRequest
      PROVE  Registered'
  <2>1. \A s \in Requests : Stale(s)' = Stale(s)
    BY <1>5, SameIdsFacts
  <2>2. /\ \A q \in Requests :
             q \in callbacks' <=> q \in callbacks /\ ~SameId(q, r)
        /\ missed \subseteq missed'
        /\ \A c \in Clients : shown'[c] \subseteq shown[c]
        /\ \A c \in Clients : \A q \in shown'[c] :
             SameId(q, r) => Stale(q) \/ <<c, q>> \in missed'
    BY <1>1, <1>5, ResolvedFacts
  <2>3. \A c \in Clients : \A s \in shown[c] : s \in Requests
    BY <1>1 DEF TypeOK
  <2>4. QED
    BY <1>1, <1>5, <2>1, <2>2, <2>3 DEF Registered
<1>6. ASSUME NEW r \in Requests, RequestStep(r) PROVE Registered'
  <2>1. CASE Ask(r) \/ Put(r)
    BY <1>1, <1>3, <2>1 DEF Ask, Put, SameIds, TypeOK
  <2>2. CASE Deliver(r)
    <3>1. \A c \in Clients : shown'[c] \subseteq shown[c] \cup {r}
      BY <1>1, <2>2, ShowFacts DEF Deliver
    <3>2. QED
      BY <1>1, <1>3, <2>2, <3>1 DEF Deliver, SameIds, TypeOK
  <2>3. CASE SendFails(r)
    <3>1. \A c \in Clients : shown'[c] \subseteq shown[c] \cup {r}
      BY <1>1, <2>3, ShowFacts DEF SendFails
    <3>2. /\ SameIds /\ UNCHANGED <<by, callbacks, refused, missed>>
          /\ failed' = failed \cup {r}
          /\ \A s \in Requests : Waits(s)' => Waits(s) /\ s # r
      BY <1>1, <2>3 DEF SendFails, SameIds, TypeOK
    <3>3. \A c \in Clients : \A s \in shown[c] : s \in Requests
      BY <1>1 DEF TypeOK
    <3>4. \A s \in Requests : Stale(s)' = Stale(s)
      BY <3>2, SameIdsFacts
    <3>5. QED
      BY <1>1, <3>1, <3>2, <3>3, <3>4 DEF Registered
  <2>4. CASE ExecuteEnds(r)
    <3>1. /\ ~Waits(r) /\ SameIds
          /\ UNCHANGED <<callbacks, shown, historyVars>>
          /\ \A s \in Requests : Waits(s)' => Waits(s)
          /\ UNCHANGED by \/ SubmitTo(r)
      BY <1>1, <2>4 DEF ExecuteEnds, SameIds, TypeOK
    <3>2. QED
      BY <1>3, <1>4, <3>1
  <2>5. CASE FinishExecuted(r)
    <3>1. /\ Resolved(r) /\ SameIds /\ UNCHANGED <<by, failed, refused>>
          /\ stage[r] = "submitted"
          /\ \A s \in Requests : Waits(s)' => Waits(s)
      BY <1>1, <2>5 DEF FinishExecuted, SameIds, TypeOK
    <3>2. \A s \in callbacks : SameId(s, r) => s = r
      BY <1>1, <3>1 DEF Known, Ids, Current, TypeOK
    <3>3. QED
      BY <1>5, <3>1, <3>2
  <2>6. CASE Unregister(r)
    <3>1. /\ SameIds /\ UNCHANGED <<by, stage, shown, historyVars>>
          /\ callbacks' = callbacks \ {r} /\ r \in failed
      BY <2>6 DEF Unregister, SameIds
    <3>2. ~Waits(r)
      BY <1>1, <3>1 DEF Known
    <3>3. \A c \in Clients : \A s \in shown[c] : s \in Requests
      BY <1>1 DEF TypeOK
    <3>4. \A s \in Requests : Stale(s)' = Stale(s)
      BY <3>1, SameIdsFacts
    <3>5. QED
      BY <1>1, <3>1, <3>2, <3>3, <3>4 DEF Registered
  <2>7. QED
    BY <1>2, <1>6, <2>1, <2>2, <2>3, <2>4, <2>5, <2>6 DEF RequestStep, Sending
<1>7. ASSUME NEW c \in Clients, NEW r \in Requests, AnswerStep(c, r)
      PROVE  Registered'
  <2>1. CASE Answer(c, r) \/ Take(c, r) \/ TakeFails(c, r)
    BY <1>3, <2>1 DEF Answer, Take, TakeFails, SameIds
  <2>2. CASE Submit(c, r)
    <3>1. /\ SameIds
          /\ UNCHANGED <<stage, callbacks, shown, historyVars>>
          /\ UNCHANGED by \/ SubmitTo(r)
          /\ answer[c][r] = "taken"
      BY <2>2 DEF Submit, SameIds
    <3>2. ~Waits(r)
      BY <1>1, <3>1 DEF Known
    <3>3. QED
      BY <1>3, <1>4, <3>1, <3>2
  <2>3. CASE Finish(c, r)
    <3>1. /\ Resolved(r) /\ SameIds /\ UNCHANGED <<by, failed, refused, stage>>
          /\ answer[c][r] = "submitted"
      BY <2>3 DEF Finish, SameIds
    <3>2. \A s \in callbacks : SameId(s, r) => by[s] # NoRequest
      BY <1>1, <3>1 DEF Submitted, SameId
    <3>3. QED
      BY <1>5, <3>1, <3>2
  <2>4. QED
    BY <1>7, <2>1, <2>2, <2>3 DEF AnswerStep, Routing
<1>8. CASE Restart
  BY <1>1, <1>8, RestartFacts DEF Registered, TypeOK
<1>9. ASSUME NEW c \in Clients, Join(c) \/ Leave(c) PROVE Registered'
  BY <1>1, <1>3, <1>9 DEF Join, Leave, SameIds, TypeOK
<1>10. CASE EndTurn \/ UNCHANGED vars
  BY <1>3, <1>10 DEF EndTurn, vars, SameIds
<1>11. QED
  BY Steps, <1>6, <1>7, <1>8, <1>9, <1>10 DEF OtherStep
-----------------------------------------------------------------------------
(* The invariant holds: which ids are in use, what is registered, stored   *)
(* and on its way, whatever is sent, answered, lost or started again.      *)
THEOREM Invariance == Spec => []IInv
<1>1. IInv /\ [Next]_vars => IInv'
  BY TypeStep, IdsStep, KnownStep, OwnStep, TakenStep, SubmittedStep,
     StoredStep, RegisteredStep DEF IInv
<1>2. QED
  BY InitKeeps, <1>1, PTL DEF Spec

(* Every variable stays in its type.                                       *)
THEOREM TypeCorrect == Spec => []TypeOK
<1>1. IInv => TypeOK
  BY DEF IInv
<1>2. QED
  BY <1>1, Invariance, PTL

(* A call of the session gets the answer to its own prompt, or to one that *)
(* a process before this one sent under the same id.                       *)
THEOREM AnswersReachTheirCalls == Spec => []OwnAnswers
<1>1. IInv => OwnAnswers
  BY DEF IInv
<1>2. QED
  BY <1>1, Invariance, PTL

(* Of all clients that answer a prompt of this process, one is routed.     *)
THEOREM OneIsRouted == Spec => []OneAnswerRouted
<1>1. IInv => OneAnswerRouted
  BY DEF IInv
<1>2. QED
  BY <1>1, Invariance, PTL

(* What a client shows can be answered, but for the named exceptions.      *)
THEOREM PromptsAnswerable == Spec => []PromptAnswerable
<1>1. IInv => PromptAnswerable
  <2> SUFFICES ASSUME IInv, NEW c \in Clients, NEW r \in shown[c],
                      ~Stale(r), r \notin failed \cup refused,
                      <<c, r>> \notin missed,
                      by[r] \in {NoRequest, r}
               PROVE  /\ r \in callbacks
                      /\ \/ r \in records
                         \/ \E d \in Clients, q \in Requests :
                              SameId(q, r) /\ InRouting(d, q)
    BY DEF PromptAnswerable
  <2>1. r \in callbacks
    BY DEF IInv, Registered
  <2>2. stage[r] = "sent"
    BY DEF IInv, Known, TypeOK
  <2>3. QED
    BY <2>1, <2>2 DEF IInv, Stored
<1>2. QED
  BY <1>1, Invariance, PTL
=============================================================================
