\* Two queues or two lists of two elements in four cells.
SPECIFICATION ChainsSpec
CONSTANTS
    Cells = {1, 2, 3, 4}
    Elements = {a, b}
    Nothing = Nothing
    Shapes = {"queue", "list"}
SYMMETRY Symmetric
PROPERTIES
    ImplementsSequences
