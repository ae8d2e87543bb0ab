\* Two analyses of two series each, over two cutoffs, competing for slots.
SPECIFICATION FairSpec
CONSTANTS
    a1 = a1  a2 = a2
    NoSeries = NoSeries
    Analysis <- MCAnalysis
    Cutoff = {10000, 12000}
    Second = 1000
    RequiredData <- MCRequiredData
    Payload <- MCPayload
    CollectorSlots = 2  ProviderSlots = 1
    MaxAttempts = 2  MaxEntries = 2  CacheTtl = 1
INVARIANTS FailClosed CutoffsNeverMixed CacheBounded SlotsConserved
PROPERTIES ReportIsFinal EveryFetchEnds
CHECK_DEADLOCK FALSE
