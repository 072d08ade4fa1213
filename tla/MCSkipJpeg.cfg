CONSTANTS
    Rates <- SRates
    Jpeg = TRUE
    MaxPushed = 24
SPECIFICATION SkipSpec
INVARIANTS RateHonoured
