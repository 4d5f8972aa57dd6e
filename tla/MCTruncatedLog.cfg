CONSTANTS
    Base = 32
    Word = 4
    kMagic = 67
    kMaxPayloadLength = 40
    kRecordMagic = 98765
    kFnvOffsetBasis = 746245
    kFnvPrime = 435
    MaxRecords = 2
SPECIFICATION Spec
INVARIANTS
    TruncationReported
