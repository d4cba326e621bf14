SPECIFICATION Spec
CONSTANTS
    Recipients = {u1, u2}
    Shares = {s1, s2}
    Requests = {q1}
    NoShare = NoShare
    NoRequest = NoRequest
    NoRecipient = NoRecipient
    Handlers = {h1, h2}
SYMMETRY Symmetry
INVARIANTS TypeOK SharesReplaced ShareAnswersRequest LateViewRefused
