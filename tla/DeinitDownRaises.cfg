CONSTANT MaxSessions = 1
SPECIFICATION Spec
INVARIANT DeinitDownRaises
