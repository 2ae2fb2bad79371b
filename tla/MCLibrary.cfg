\* Two containers of each kind, two objects; a log file of 18 characters; two
\* strings.
SPECIFICATION Spec
CONSTANTS
    Parts = {"ownership", "log", "strings"}
    Objects = {o1, o2}
    Vars = {v1, v2}
    Buffers = {1, 2, 3}
    DefaultSize = 1
    MaxSize = 2
    Kinds = {"list", "array", "optional", "result"}
    Messages <- SomeMessages
    Times = {0, 12}
    BufferSize = 18
    MaxFiled = 3
    StringVars = {x, y}
    Literals <- SomeLiterals
    MaxText = 3
SYMMETRY Symmetric
CHECK_DEADLOCK FALSE
INVARIANTS
    ReferencesOwned
    LogFaithful
    StringsAreValues
