CONSTANT Mixes <- SafeMixes
SPECIFICATION FairSpec
INVARIANT NoCircularWait
PROPERTY EveryOperationEnds
