SPECIFICATION Spec
CONSTANTS
  Handlers = {h1}
  MaxRev = 2
INVARIANTS
  RecoveredIsSendable
