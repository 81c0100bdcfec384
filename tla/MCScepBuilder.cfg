CONSTANTS
    Idents = {a, b}
    NonRsa = {b}
    MessageTypes = {PKCSReq}
    Statuses = {SUCCESS, FAILURE}
    FAILURE = FAILURE
    FailInfos = {BadAlg}
    Nonces = {n1}
    TransIds = {t1}
    Payloads <- MCPayloads
    SymKeys = {k1, k2}
    IVs = {v1, v2}
    None = None
    NoKey = NoKey
    MaxAttrs = 4
    MaxQueue = 2
    MaxSigners = 2
    MaxCerts = 1
    MaxMessages = 2
SYMMETRY MCSymmetry
SPECIFICATION Spec
INVARIANTS
    TypeOK
    RoundTrip
    SignatureVerifies
    AttributeCompleteness
PROPERTY
    ConfiguredAttributesSigned
