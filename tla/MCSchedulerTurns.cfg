SPECIFICATION Spec
CONSTANTS
  Agent = {a1, a2}
  Task = {t1, t2}
  NoAgent = NoAgent
  Cap = 1
  MaxMessages = 3
  MaxPasses = 1
  MaxRejections = 1
  MaxRestarts = 1
SYMMETRY Symmetric
INVARIANT AdmissionBound
INVARIANT CountersExact
INVARIANT NoInferenceWhilePending
INVARIANT NoCircularWait
PROPERTY JobsAreDurable
PROPERTY ImplementsPolicy
CHECK_DEADLOCK FALSE
