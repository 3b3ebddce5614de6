\* Two relays and one fault; t1 may begin as a lead, t2 is not configured and has an audit.
SPECIFICATION FairSpec
CONSTANTS
  t1 = t1  t2 = t2
  Tenants = {t1, t2}
  NoTenant = NoTenant
  Hosted = {t1, t2}
  Configured = {t1}
  Leads = {t1}
  Relays = {r1, r2}
  BatchSize = 2
  Audits <- OneAudit
  MaxRevision <- TwoStates
  MaxFaults = 1
INVARIANTS DeliveryInvariant
PROPERTIES DeliversOutbox AuditsArrive StatesArrive
