--------------------------- MODULE MC_GeneralDialog ---------------------------
EXTENDS GeneralDialog

\* Two dialogs, so that one can be shown while the other's exec runs.
MCDialogs == {"d1", "d2"}
=============================================================================
