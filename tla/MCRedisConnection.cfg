\* The name resolves to either of two addresses, to both, or not at all.
SPECIFICATION Spec
CONSTANTS
  Addrs = {a1, a2}
  Null = Null
INVARIANTS TypeOK StatusMatchesContext
PROPERTIES ReconnectLosesNothing FailoverCompletes ImplementsLink
CHECK_DEADLOCK FALSE
