SPECIFICATION ServicesFairSpec
CONSTANTS
  k1 = k1  k2 = k2  long = long  m1 = m1  m2 = m2  t1 = t1
  Key = {k1, k2, long}
  LongKey = {long}
  Document <- Documents
  Verdict = {"SUCCESS", "VALUE_OUTSIDE_RANGE"}
  Int32Max = 2
  MaxRuns = 2
  MaxResets = 1
  NoDoc = NoDoc
  Registrar = {t1}
  Method = {m1, m2}
  NoMethod = NoMethod
  MaxMethods = 2
  QueueMax = 1
INVARIANTS ServicesTypeOK VersionMeansStored ReportTruthful DispatchSafe RegisteredIsServed MethodsObserved
PROPERTIES CallbackReturns
