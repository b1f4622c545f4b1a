\* The caption's height after its expand animation stops.
CONSTANTS
    Texts <- MCTexts
    Space <- MCSpace
SPECIFICATION Spec
INVARIANT CaptionSettled
