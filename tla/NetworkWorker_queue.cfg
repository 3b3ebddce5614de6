\* An activation then a suspension of one service, one process running two calls.
CONSTANTS
  w1 = w1  w2 = w2  c1 = c1  c2 = c2  r1 = r1  r2 = r2  s1 = s1  on = on  off = off
  Jobs = {1, 2}
  Calls = {c1, c2}
  Processes = {w1}
  ProcessOf <- OneProcess
  Routers = {r1}
  Services = {s1}
  RouterOf <- OneRouter
  ServiceOf <- OneService
  KindOf <- CreateThenSuspend
  Desired <- OnThenOff
  OrderJobs = {1}
  AllowedRouters = {r1}
  InitialConfig <- Fresh
  Provisioned = {r1}
  Configs = {on, off}
  Absent = Absent
  NoOwner = NoOwner
  NoJob = NoJob
  MaxAttempts = 2
  FailureThreshold = 2
  LimitPerRouter = 1
  MaxFaults = 1
SPECIFICATION Spec
INVARIANTS OrderFollowsJob ProbeIsOwned SlotsAccounted
CHECK_DEADLOCK FALSE
