SPECIFICATION Spec
CONSTANTS
    n1 = n1  n2 = n2  a = a  b = b  p1 = p1  p2 = p2  r1 = r1
    None = None
    Namespaces = {n1, n2}
    Names = {a, b}
    ProjectNames = {p1, p2}
    Garden <- MCGarden
    Keys = {"tier"}
    Values = {"", "x"}
    Configs <- MCConfigs
    Calls = {r1}
    Questions <- MCQuestions
    MaxWrites = 1
INVARIANTS
    NamespacesContainShoots
CHECK_DEADLOCK FALSE
