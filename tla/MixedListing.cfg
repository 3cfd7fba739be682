SPECIFICATION DocumentsSpec
CONSTANTS
    Document = {1, 2}
    Subfolder = {3}
    Key = {1, 2}
    Tx = {t1}
    Folded <- SameKeys
    Kinds = {"any"}
    Limit = 1
    VersionCap = 2
INVARIANT
    ListedOnce
CHECK_DEADLOCK FALSE
