\* plans of up to three resources; the program ends
SPECIFICATION CostSpec
CONSTANTS
    Plans <- MCPlans
    RateFiles <- MCRateFiles
    Thresholds <- MCThresholds
    Null = Null
INVARIANTS BillAddsUp NothingVanishes AvoidableWithinTotal
CHECK_DEADLOCK FALSE
