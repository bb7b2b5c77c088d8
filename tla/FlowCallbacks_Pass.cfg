\* Two flows created concurrently, each may fail to create, be started and
\* stopped, have its callbacks removed and be destroyed in either order,
\* while the core library's context thread calls back.  Once every flow is
\* closed or failed the registry has no further steps.
CONSTANTS
  Creators = {c1, c2}
  None = None
SPECIFICATION Spec
INVARIANTS
  TypeOK
  CallbackReachesOwner
CHECK_DEADLOCK FALSE
