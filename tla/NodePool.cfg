CONSTANTS
    Ids = {"a0", "a", "b"}
    Outdated = {"a0"}
    Raw <- MCRaw
    ServedBy <- MCServedBy
    MaxNodes = 2
    MaxTurns <- MCMaxTurns
    None = None
    NoText = NoText

SPECIFICATION Spec
INVARIANTS PoolSound ProofIsOwn
PROPERTIES MarksKept SelectionRestored
CHECK_DEADLOCK FALSE
