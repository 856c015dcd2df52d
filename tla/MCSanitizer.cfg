SPECIFICATION Spec
CONSTANTS
    Order <- Database
    Old <- AtFirst
    Vanish <- Vanishing
    MaxOther = 4
INVARIANTS TwoRunsClean OneRunUnique
PROPERTIES OnlyOrphansGo
