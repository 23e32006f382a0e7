----------------------------- MODULE Serializer -----------------------------
(***************************************************************************)
(* What the request queues promise: of the requests that share a queue,    *)
(* one is worked on at a time, in the order in which they were put there.  *)
(* A request may also leave the queue unworked (its connection closed).    *)
(***************************************************************************)
EXTENDS Integers

CONSTANTS
  Work,                \* the pieces of work that go through a queue
  Queue                \* the queue each one goes through

VARIABLES
  stage,               \* "new", "waiting", "working" or "over"
  ahead                \* the work found in the queue by each one, on arrival

sVars == <<stage, ahead>>

SInit ==
  /\ stage = [r \in Work |-> "new"]
  /\ ahead = [r \in Work |-> {}]

(* Everything that was in the queue before r is over. *)
Turn(r) == \A s \in ahead[r] : stage[s] = "over"

Put(r) ==
  /\ stage[r] = "new"
  /\ stage' = [stage EXCEPT ![r] = "waiting"]
  /\ ahead' = [ahead EXCEPT ![r] =
       {s \in Work : Queue[s] = Queue[r] /\ stage[s] # "new"}]

Begin(r) ==
  /\ stage[r] = "waiting"
  /\ Turn(r)
  /\ stage' = [stage EXCEPT ![r] = "working"]
  /\ UNCHANGED ahead

Refuse(r) ==
  /\ stage[r] = "waiting"
  /\ Turn(r)
  /\ stage' = [stage EXCEPT ![r] = "over"]
  /\ UNCHANGED ahead

End(r) ==
  /\ stage[r] = "working"
  /\ stage' = [stage EXCEPT ![r] = "over"]
  /\ UNCHANGED ahead

SNext == \E r \in Work : Put(r) \/ Begin(r) \/ Refuse(r) \/ End(r)

SSpec == SInit /\ [][SNext]_sVars
=============================================================================
