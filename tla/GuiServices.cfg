\* Three toasts of either class, two paths, two pointer or focus events;
\* a download toast over four page widths with four by four name widths;
\* a line edit with texts of up to three characters on either platform;
\* a dialog button of each role with six events;
\* one modal dialog, holding the two-options widget, with 5 builder calls
\* and user events; the gallery's
\* next and menu buttons with two menus; a plain and a saved-path toast
\* over three window widths.
CONSTANTS
    ToastEvents = 2
    ModalEvents = 5
    NoToast = NoToast
SPECIFICATION Spec
\* Each component idles once its events are spent.
CHECK_DEADLOCK FALSE
INVARIANT ManagedVisible
PROPERTY ShownDeleted
INVARIANT LayoutFits
PROPERTY NoPropagateKeysStay
PROPERTY SelectionDeletedExactly
INVARIANT LookFollowsRole
INVARIANT MenuShownIsCurrent
INVARIANT StaleMenusDoomed
PROPERTY ClickFromPress
INVARIANT OptionAnswersDialog
INVARIANT TextToastsFit
INVARIANT TextColorFollowsText
