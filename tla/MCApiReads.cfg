SPECIFICATION Spec
CONSTANTS
    MaxReconciles = 4
INVARIANTS
    ApiTypeOK
    StatusIsCaughtUp
    CompareIsCaughtUp
