\* The neighbour bands of three messages under any pointer moves, clicks,
\* space presses and clearSelection calls.
CONSTANT N <- MCN
SPECIFICATION Spec
INVARIANT SelectionJoinsFilled
