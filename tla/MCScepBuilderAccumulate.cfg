CONSTANTS
    Idents = {a, b}
    NonRsa = {b}
    MessageTypes = {PKCSReq}
    Statuses = {FAILURE}
    FAILURE = FAILURE
    FailInfos = {BadAlg}
    Nonces = {n1}
    TransIds = {t1}
    Payloads <- MCPayloads
    SymKeys = {k1}
    IVs = {v1}
    None = None
    NoKey = NoKey
    MaxAttrs = 6
    MaxQueue = 1
    MaxSigners = 1
    MaxCerts = 0
    MaxMessages = 3
SYMMETRY MCSymmetry
SPECIFICATION Spec
INVARIANTS
    MessagesAccumulate
    ReusedMessagesRepeatContentType
