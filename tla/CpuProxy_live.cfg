\* The same applications with two GPU threads and two WQEs, and liveness.
SPECIFICATION FairSpec
CONSTANTS
  t1 = t1
  t2 = t2
  q1 = q1
  q2 = q2
  q3 = q3
  Threads = {t1, t2}
  FullQps = {q1}
  NoDbrHwQps = {q3}
  AssistedQps = {q2}
  Populations = {{q1, q3}, {q2}}
  WqeNum = 2
  IdxMod = 8
  First = 6
  MaxWqes = 2
PROPERTIES
  PublishedIsRung
  HostCallsReturn
