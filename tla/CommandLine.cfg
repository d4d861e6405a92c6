\* Every choice of the options of both modes, and malformed command lines.
SPECIFICATION Spec
CONSTANTS
    CommandLines <- AllChoices
    stoul <- StoulValues
    Configs = {"cfg"}
INVARIANTS
    OptionsTaken
    EndingsExplained
CHECK_DEADLOCK FALSE
