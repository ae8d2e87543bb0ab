\* One analysis meets a body that is not text.
SPECIFICATION Spec
CONSTANTS
    a1 = a1  a2 = a2
    NoSeries = NoSeries
    Analysis = {a1}
    Cutoff = {10000, 12000}
    Second = 1000
    RequiredData <- MCRequiredData
    Payload <- MCPayload
    CollectorSlots = 2  ProviderSlots = 2
    MaxAttempts = 2  MaxEntries = 2  CacheTtl = 1
PROPERTY BadDataAbstains
CHECK_DEADLOCK FALSE
