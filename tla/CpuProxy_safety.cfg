\* Two QPs that only the proxy rings, with and without a doorbell record, or one
\* whose record it keeps; five WQEs, so that a queue of two is reused, in a range of
\* six, so that the assumption on timing (Timely) has to hold a post back.
SPECIFICATION Spec
CONSTANTS
  t1 = t1
  t2 = t2
  q1 = q1
  q2 = q2
  q3 = q3
  Threads = {t1}
  FullQps = {q1}
  NoDbrHwQps = {q3}
  AssistedQps = {q2}
  Populations = {{q1, q3}, {q2}}
  WqeNum = 2
  IdxMod = 6
  First = 4
  MaxWqes = 5
SYMMETRY Symmetry
INVARIANT
  NoLostDoorbell
PROPERTIES
  IterationUndisturbed
  RecordMovesForward
  ImplementsWorkQueue
