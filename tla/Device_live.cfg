\* Polling: two threads, two WQEs in flight, wqe_counter wrapping once.
\* Counting: two threads of two operations each over three QPs of two slots.
SPECIFICATION DevSpec
CONSTANTS
  t1 = t1
  t2 = t2
  q1 = q1
  q2 = q2
  q3 = q3
  Threads = {t1, t2}
  WqeNum = 2
  CqeNum = 2
  IdxMod = 4
  MaxWqes = 5
  Errors = TRUE
  Posters = {t1, t2}
  Qps = {q1, q2, q3}
  Layouts <- TwoLayouts
  SqSize = 2
  Lens = {1, 2}
  MaxOps = 2
CHECK_DEADLOCK FALSE
INVARIANT
  ConsumerIsExact
PROPERTIES
  PollReturns
  CounterAfterData
  EveryOpCounted
