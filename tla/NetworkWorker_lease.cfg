\* Two jobs, two routers, one fault.
CONSTANTS
  w1 = w1  w2 = w2  c1 = c1  c2 = c2  r1 = r1  r2 = r2  s1 = s1  on = on  off = off
  Jobs = {1,2}
  Calls = {c1, c2}
  Processes = {w1, w2}
  ProcessOf <- OneCallEach
  Routers = {r1,r2}
  Services = {s1}
  RouterOf <- TwoRouters
  ServiceOf <- OneService
  KindOf <- SuspendThenRestore
  Desired <- OffThenOn
  OrderJobs = {}
  AllowedRouters = {r1}
  InitialConfig <- Online
  Provisioned = {}
  Configs = {on, off}
  Absent = Absent
  NoOwner = NoOwner
  NoJob = NoJob
  MaxAttempts = 2
  FailureThreshold = 2
  LimitPerRouter = 1
  MaxFaults = 1
SPECIFICATION PollingSpec
INVARIANTS LeaseInvariant DoneWasObserved
PROPERTIES MeetsContract EventuallyDecided
CHECK_DEADLOCK FALSE
