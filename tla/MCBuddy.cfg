CONSTANTS
    Sz = 3
    Level = 3
SPECIFICATION FairSpec
INVARIANTS TypeOK SizeRecovered FailsOnlyWhenFull
PROPERTIES ImplementsBuddySpec CallsReturn
