SPECIFICATION Spec
CONSTANTS
    None = None
    Paths <- MCPaths
    Main = "main"
    ChildOf <- MCChildOf
    Target = "topic"
    Moc = "moc"
    Start <- MCStart
    NewBlocks = {"x"}
    Under = "d"
    Outline <- MCOutline
    Threshold = 2
    Sentences <- MCSentences
    Fenced = {"e"}
    MaxBlocks = 2
    MaxEdits = 2
    MaxFaults = 1
    MaxCalls = 2
INVARIANTS OutlineWhole
PROPERTIES BlocksKept
CHECK_DEADLOCK FALSE
