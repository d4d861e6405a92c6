\* The documented command and its variants.
SPECIFICATION Spec
CONSTANTS
    CommandLines <- Documented
    stoul <- StoulValues
    Configs = {"cfg"}
INVARIANT
    DocumentedTenants
CHECK_DEADLOCK FALSE
