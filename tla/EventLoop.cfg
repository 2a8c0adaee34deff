\* Two foreign threads and three functors: pushes of both can meet every
\* step of the owner and each other.  No symmetry: liveness is checked.
SPECIFICATION Spec
CONSTANTS
  Owner = owner
  Callers = {t1, t2}
  Functors = {f1, f2, f3}
  EventfdMax = 2
INVARIANTS TypeOK NoLostWakeup WakeupInv
PROPERTIES ImplementsTaskQueue PromptDispatch QuitStopsLoop
CHECK_DEADLOCK FALSE
