SPECIFICATION Spec
CONSTANTS
    plain = plain
    want = want
    short = short
    huge = huge
    MimeType <- MCMimeType
    TextType = {plain}
    WantType = want
    Payload <- MCPayload
    TooLong = {huge}
    Lengthy = {huge}
    Stub = short
    Input <- MCInput
    NullRecord = NullRecord
    NoObject = NoObject
    NoData = NoData
    Object = {o1, o2}
    MaxRecordNum = 2
    RecordCap = 3
    MaxCalls = 5
    MaxWorks = 2
SYMMETRY Symmetry
INVARIANTS
    TypeOK
    PastedIsCopied
    NullsStayLocal
    OnlyExposedCrash
CHECK_DEADLOCK FALSE
