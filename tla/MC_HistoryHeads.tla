--------------------------- MODULE MC_HistoryHeads ---------------------------
EXTENDS HistoryHeads

\* Two readers of a group chat; every heads vector of them without repeats.
MCHeadSeqs == {<<>>, <<"a">>, <<"b">>, <<"a", "b">>, <<"b", "a">>}
=============================================================================
