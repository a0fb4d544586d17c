CONSTANT Mixes <- LookupMixes
SPECIFICATION FairSpec
CHECK_DEADLOCK FALSE
PROPERTY SweepEnds
