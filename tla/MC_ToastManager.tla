--------------------------- MODULE MC_ToastManager ---------------------------
EXTENDS ToastManager

\* Three toasts, two download paths.
MCToasts == {"t1", "t2", "t3"}
MCPaths == {"p1", "p2"}
=============================================================================
