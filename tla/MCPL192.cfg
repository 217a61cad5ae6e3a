SPECIFICATION Spec
CONSTANTS
    Sources <- MCSources
    LEVELS = 2
    MaxDepth = 3
    Environments = {{"enable", "reset"}, {"priority"}, {"soft"}, {"select"}, {"mask0"}, {"vector"}, {"snapshot"}, {"deep"}}
INVARIANTS   Unwinds
