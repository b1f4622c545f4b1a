--------------------------- MODULE MC_MaskManager ---------------------------
EXTENDS MaskManager

MCIds == {"m1", "m2"}
\* The core's list may change between two answers.
MCLists == {<<"m1", "m2">>, <<"m2">>}
MCOnDisk == {"m1"}
=============================================================================
