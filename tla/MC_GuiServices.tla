--------------------------- MODULE MC_GuiServices ---------------------------
(***************************************************************************)
(* GUI components that serve the whole application: the toasts shown     *)
(* over the main window (ToastManager), the layout and the links of a     *)
(* download toast (DownloadToast), the line edit of dialogs and search    *)
(* fields (LineEditEx), the look of a dialog button (DialogButton), a    *)
(* modal popup with its buttons (GeneralDialog) and the two-options      *)
(* widget inside it (TwoOptions), the gallery's control strip with its   *)
(* menu (GalleryFrame), and the plain and the saved-path toasts          *)
(* (TextToasts).  Apart from the dialog and its widget they              *)
(* share no state, so interleaving them would only multiply the states:   *)
(* part chooses, per behaviour, which one moves; the others stay in their *)
(* (single) initial state, and each has exactly the behaviours it has    *)
(* alone.                                                                 *)
(***************************************************************************)
EXTENDS Naturals

CONSTANTS ToastEvents, ModalEvents, NoToast

VARIABLES life, kind, path, visible, doomed, hideTimer, hovered, top, bottom, tEvents, shown,
          phase, opts, btn, result, stack, inExec, queue, dEvents,
          firstHovered, secondHovered, firstSelected, secondSelected, pointing,
          frameShown, at, held, gHovered, pressed, disabled, menuActions, menuPtr, menu,
          emitted, pressOrigin,
          fileW, pathW, page, tall, fileText, pathText, fileRect, pathRect, u2, u3, width,
          dtHovered, dtPressed, opened,
          apple, noProp, len, cursor, sel, focused, leEmitted, key, color, step, leEvents,
          initRole, role, dbHovered, dbPressed, dbFocused, bg, border, text, palette, bEvents,
          ttPage, textW, toastWidth, msg, spPathW, spPathText, spPathRect, u2x, spWidth,
          spHovered, spPressed, spOpened,
          part

\* Three toasts, two download paths.
Toasts == INSTANCE ToastManager
    WITH Toasts <- {"t1", "t2", "t3"}, Paths <- {"p1", "p2"}, MaxEvents <- ToastEvents,
         events <- tEvents

\* The three parts of the English message, a third part as some
\* translations have, names from a few characters to wider than any
\* toast, and pages from 160 px to wider than widthLimit (in 4 px units).
Download == INSTANCE DownloadToast
    WITH T1 <- 7, T2 <- 25, T3 <- 6, SpaceW <- 1, FileWidths <- {5, 40, 70, 150},
         PathWidths <- {5, 30, 60, 150}, Pages <- {40, 70, 90, 120}, MaxX <- 100,
         hovered <- dtHovered, pressed <- dtPressed

\* Texts of up to three characters, options that keep no key or keep
\* Ctrl+Backspace, Escape and Tab from QLineEdit, and six events.
Edit == INSTANCE LineEditEx
    WITH MaxLen <- 3, NoPropSets <- {{}, {"Backspace", "Escape", "Tab"}}, MaxEvents <- 6,
         emitted <- leEmitted, events <- leEvents

\* A button of every role, with six events.
Button == INSTANCE DialogButton
    WITH InitRoles <- {"CONFIRM", "CONFIRM_DELETE", "CANCEL", "RESTART", "DISABLED"},
         MaxEvents <- 6, hovered <- dbHovered, pressed <- dbPressed, focused <- dbFocused

\* One dialog: its buttons' properties need no second one.
Modal == INSTANCE GeneralDialog
    WITH Dialogs <- {"d1"}, MaxEvents <- ModalEvents, events <- dEvents

\* The next button and the menu button, one menu action, and two menus: a
\* menu is replaced after the first was closed or hidden with the frame.
Gallery == INSTANCE GalleryFrame
    WITH Objects <- {"next", "menu"}, MenuButton <- "menu", Actions <- {"goto"},
         Menus <- 1..2, hovered <- gHovered

\* A Toast of a short or a long text and a SavedPathToast of the English
\* message or one with text after the folder, over windows from 120 px;
\* folders on both sides of the width at which each message elides.
Text == INSTANCE TextToasts
    WITH TextWidths <- {20, 80}, Messages <- {<<14, 0>>, <<10, 8>>},
         PathWidths <- {10, 63, 64, 67, 68, 120}, Pages <- {30, 60, 120}, MaxX <- 100,
         page <- ttPage, pathW <- spPathW, pathText <- spPathText, pathRect <- spPathRect,
         width <- spWidth, hovered <- spHovered, pressed <- spPressed, opened <- spOpened

toastVars == <<life, kind, path, visible, doomed, hideTimer, hovered, top, bottom, tEvents, shown>>
\* The dialog's options widget.
Opt == INSTANCE TwoOptions

optVars == <<firstHovered, secondHovered, firstSelected, secondSelected, pointing>>
modalVars == <<phase, opts, btn, result, stack, inExec, queue, dEvents, optVars>>
galleryVars == <<frameShown, at, held, gHovered, pressed, disabled, menuActions, menuPtr, menu,
                 emitted, pressOrigin>>
downloadVars == <<fileW, pathW, page, tall, fileText, pathText, fileRect, pathRect, u2, u3, width,
                  dtHovered, dtPressed, opened>>
buttonVars == <<initRole, role, dbHovered, dbPressed, dbFocused, bg, border, text, palette,
               bEvents>>
lineEditVars == <<apple, noProp, len, cursor, sel, focused, leEmitted, key, color, step,
                 leEvents>>
textVars == <<ttPage, textW, toastWidth, msg, spPathW, spPathText, spPathRect, u2x, spWidth,
             spHovered, spPressed, spOpened>>

\* The dialog's constructor arguments are pinned unless the dialog moves.
Init == /\ Toasts!Init /\ Modal!Init /\ Opt!Init /\ Gallery!Init /\ Download!Init /\ Edit!Init /\ Button!Init
        /\ Text!Init
        /\ part \in {"toasts", "download", "edit", "button", "modal", "gallery", "text", "hover"}
        /\ part # "button" => initRole = "CONFIRM"
        /\ part # "edit" => ~apple /\ noProp = {}
        /\ part # "download" => fileW = 40 /\ pathW = 30 /\ page = 120
        /\ part # "text" => ttPage = 120 /\ textW = 20 /\ msg = <<14, 0>> /\ spPathW = 10
        /\ part # "modal" => opts = [d \in {"d1"} |-> [ignoreKeys |-> FALSE,
                                 rejectable |-> TRUE, leftOff |-> FALSE, rightOff |-> FALSE]]

\* A click in dialog d1's TwoOptionsWidget, while d1 is the modal dialog:
\* its acceptGeneralDialog accepts every open dialog.
OptionsInput ==
    /\ Modal!Input("d1")
    /\ \E y \in Opt!Ys, isClick \in BOOLEAN :
          Opt!Release(y, isClick, Modal!AcceptDialogs, UNCHANGED <<phase, result>>)
    /\ UNCHANGED <<opts, btn, stack, inExec, queue>>

\* The widget's pointer moves and leaves.  They set only the hover flags
\* and the cursor, which nothing but painting reads, so they are explored
\* apart from the dialog, as a part of their own.
OptionsHover ==
    /\ \/ \E y \in Opt!Ys : Opt!MouseMove(y)
       \/ Opt!Leave
    /\ UNCHANGED <<phase, opts, btn, result, stack, inExec, queue, dEvents>>

\* The helpers create toasts one at a time, and which name a new toast
\* gets does not matter: they are born in the order t1, t2, t3.
BornInOrder ==
    LET order == <<"t1", "t2", "t3">>
    IN \A i \in 2..3 : life'[order[i]] # "unborn" => life'[order[i - 1]] # "unborn"

Next == /\ \/ part = "toasts" /\ Toasts!Next /\ BornInOrder
              /\ UNCHANGED <<downloadVars, lineEditVars, buttonVars, modalVars, galleryVars, textVars>>
           \/ part = "download" /\ Download!Next
              /\ UNCHANGED <<toastVars, lineEditVars, buttonVars, modalVars, galleryVars, textVars>>
           \/ part = "edit" /\ Edit!EditNext
              /\ UNCHANGED <<toastVars, downloadVars, buttonVars, modalVars, galleryVars, textVars>>
           \/ part = "button" /\ Button!BtnNext
              /\ UNCHANGED <<toastVars, downloadVars, lineEditVars, modalVars, galleryVars, textVars>>
           \/ part = "modal" /\ ((Modal!Next /\ UNCHANGED optVars) \/ OptionsInput)
              /\ UNCHANGED <<toastVars, downloadVars, lineEditVars, buttonVars, galleryVars, textVars>>
           \/ part = "gallery" /\ Gallery!Next
              /\ UNCHANGED <<toastVars, downloadVars, lineEditVars, buttonVars, modalVars,
                             textVars>>
           \/ part = "hover" /\ OptionsHover
              /\ UNCHANGED <<toastVars, downloadVars, lineEditVars, buttonVars, galleryVars,
                             textVars>>
           \/ part = "text" /\ Text!Next
              /\ UNCHANGED <<toastVars, downloadVars, lineEditVars, buttonVars, modalVars,
                             galleryVars>>
        /\ UNCHANGED part

allVars == <<toastVars, downloadVars, lineEditVars, buttonVars, modalVars, galleryVars,
             textVars, part>>

\* The dialog's and the gallery's properties here are safety properties:
\* the dialog's fairness is left out, which changes no finite prefix of its
\* behaviours, and the gallery moves only on input and its owner's calls.
Spec == Init /\ [][Next]_allVars
             /\ Toasts!Fairness

\* The properties of the components, stated in their modules.
ManagedVisible == Toasts!ManagedVisible
ShownDeleted == Toasts!ShownDeleted
LayoutFits == Download!LayoutFits
LookFollowsRole == Button!LookFollowsRole
NoPropagateKeysStay == Edit!NoPropagateKeysStay
SelectionDeletedExactly == Edit!SelectionDeletedExactly
TextColorFollowsText == Edit!TextColorFollowsText
ClickFromPress == Gallery!ClickFromPress
MenuShownIsCurrent == Gallery!MenuShownIsCurrent
StaleMenusDoomed == Gallery!StaleMenusDoomed
TextToastsFit == Text!TextToastsFit

\* Once the user has chosen an option of the TwoOptionsWidget, the dialog
\* it is in no longer runs its exec (the click's acceptGeneralDialog
\* accepted it), so no second click can choose the other option as well:
\* the caller reads one option.
OptionAnswersDialog ==
    firstSelected \/ secondSelected =>
        /\ ~(firstSelected /\ secondSelected)
        /\ phase["d1"] # "exec"
=============================================================================
