--------------------------- MODULE MC_CaptionArea ---------------------------
EXTENDS CaptionArea, TLC

\* A one-line caption and a long one: their expand animations end at
\* different values, so a stale end value is told apart.
MCTexts == {"short", "long"}
MCSpace == ("short" :> 1) @@ ("long" :> 2)
=============================================================================
