SPECIFICATION Spec
CONSTANTS
    Builder = {b1, b2}
    SecureBuilder = {b2}
    Bundle = {x1, x2}
    Cell = {1, 2}
    Thread = {t1, t2}
    Type = {"label", "id"}
    Bytes <- MCBytes
    SecretByte = 7
    UnsetByte = 9
    MaxItems = 2
SYMMETRY Same
CHECK_DEADLOCK FALSE
INVARIANTS
    CountsAreHolders
    SecretsStaySecure
PROPERTIES
    ImplementsLists
