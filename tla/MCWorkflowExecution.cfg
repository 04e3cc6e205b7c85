\* All definitions of one to three steps, legal or not.
CONSTANT Keys <- ThreeKeys
SPECIFICATION FairSpec
INVARIANTS
    VerdictIsRight
    OrderIsReproducible
    StepsSeeTheirInputs
    OutcomeIsExplained
PROPERTY EveryCallEnds
CHECK_DEADLOCK FALSE
