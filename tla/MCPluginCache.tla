--------------------------- MODULE MCPluginCache ---------------------------
EXTENDS PluginCache, TLC

CONSTANTS t1, t2

MCString(p, k, t) == [prefix |-> p, key |-> k, type |-> t]

\* Keys that agree when their strings are joined, and one whose length and value
\* together fill a word.
MCEntries == {MCString(<<1>>, <<>>, <<>>), MCString(<<>>, <<>>, <<1>>), MCString(<<1>>, <<1>>, <<1>>)}

MCRange(s, e) == [path |-> <<1>>, start |-> s, end |-> e]

\* A range inside the file, one up to its end, and one beyond it.
MCRanges == {MCRange(0, 1), MCRange(1, 2), MCRange(1, 3)}

MCRequests ==
    [op : {"get", "insert", "get_or_insert"}, keys : {<<k>> : k \in MCEntries}]
    \cup [op : {"get_opts"}, keys : {<<k>> : k \in MCRanges}]
    \cup [op : {"get_ranges"}, keys : {<<MCRange(0, 1), MCRange(1, 3)>>}]

TaskSymmetry == Permutations(Tasks)
=============================================================================
