SPECIFICATION Spec
CONSTANTS
    c1 = c1
    c2 = c2
    c3 = c3
    Calls = {c1, c2, c3}
    Role <- Roles
    Recipients <- Given
    Old = {"old"}
    Owner = "bob"
    Nobody = Nobody
    MaxFaults = 1
SYMMETRY Symmetric
INVARIANTS TypeOK NotifiedCanRead HiddenStaysHidden RowsHaveMessage OneMarkEach
PROPERTY SphereEmptied
CHECK_DEADLOCK FALSE
