SPECIFICATION DocumentsSpec
CONSTANTS
    Document = {1, 2, 3}
    Subfolder = {}
    Key = {1, 2}
    Tx = {t1, t2}
    Folded <- FoldedTitles
    Kinds = {"note"}
    Limit = 2
    VersionCap = 2
SYMMETRY Symmetry
INVARIANTS
    EditsReplaceWhatTheyRead
    PagesMeet
CHECK_DEADLOCK FALSE
