SPECIFICATION Spec
CONSTANTS
  Handlers = {h1, h2}
  MaxRev = 2
SYMMETRY Symmetry
CONSTRAINT Clear
ACTION_CONSTRAINT NoLostUpdate
INVARIANTS
  TypeOK
  OneReply
  ReadyIsBound
  WritebackFollowsSend
