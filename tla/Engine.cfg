SPECIFICATION Spec
CONSTANT Ordered = TRUE
INVARIANTS FlagsTellTruth QuietTeardown EndIsClean
PROPERTY CallsReturn
