SPECIFICATION Spec
CONSTANTS
    t1 = t1
    t2 = t2
    Tasks = {t1, t2}
    Requests <- MCRequests
    Entries <- MCEntries
    Ranges <- MCRanges
    FileSize = 2
    Word = 6
    Absent = Absent
INVARIANTS
    ResultsTrue
    EntriesTrue
SYMMETRY TaskSymmetry
