CONSTANTS
    Rates <- SRates
    Jpeg = FALSE
    MaxPushed = 24
SPECIFICATION SkipSpec
INVARIANTS SkipTypeOK RateKept
