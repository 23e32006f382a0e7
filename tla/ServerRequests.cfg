\* Every request is asked once; a run with all of them resolved still has
\* clients that come and go, so there is no deadlock.
SPECIFICATION FairSpec
CONSTANTS
  c1 = c1
  c2 = c2
  ask1 = ask1
  ask2 = ask2
  NoRequest = NoRequest
  Clients = {c1, c2}
  Requests = {ask1, ask2}
  ToolCalls = {ask2}
  MayThrow = {ask1}
  MayRefuse = {ask2}
  MayLeave = {c1}
  MaxRestarts = 1
INVARIANTS
  TypeOK
  OwnAnswers
  PromptAnswerable
  OneAnswerRouted
PROPERTIES
  AnswerSettles
