SPECIFICATION Spec
CONSTANTS
  Process = {p1, p2}
  Refs = {r1, r2}
  Tails = {k1, k2}
  AdminKeys <- MCAdminKeys
  Presented <- MCPresented
  Key1 = Key1
  Key2 = Key2
  None = None
  Deployments <- MCDeployments
  Keys = {i1}
INVARIANTS KeyOutlivesByOverlap AuditMatches ServedWasEntitled CancelAccounted
  CapExact OtpOncePerKey
PROPERTY OpsEnd
