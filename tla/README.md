# TLA+ models of the ICQ client core and GUI state machines

This directory holds the model-checking project for the repository. It has
TLA+ modules, TLC configurations, and `PROJECT.json`. `PROJECT.json` lists the
components, runs, mutants, line map, findings and hazards.

## The system

The repository has two halves. The spec (`spec.md`) describes the first one.

* **Core RPC framework** (`src/core`). A *packet* is one request to the
  server.
  * `wim_packet` builds the request (`init_request`), hands it to the
    transport, and classifies the answer bytes (`parse_response`).
  * *Robusto* packets share a JSON envelope, `{"status":{"code":N}, "results":{...}}`.
    Their status codes are 20000 (ok), 20002 (ok, pagination reset),
    40001 (not a chat member), 40002 (blocked) and others.
  * The repository contains two concrete robusto packets in full:
    `get_chat_members.cpp` and `get_thread_subscribers.cpp`.
  * Six more packets are headers only, with no code to translate.
  * `robusto_packet.cpp` and `wim_packet.cpp` are not in the repository.
* **CoreExecutionContext** (`src/core/main_thread.cpp`). This is a threadpool
  with one worker, named "core main".
  * `execute_core_context` pushes a task onto its queue.
  * Packet completions from the network threads are funneled through it.
  * A finish callback writes a "Core locked" report to the network log when a
    task ran for more than 200 ms and a stack trace exists.
  * `get_core_thread_id` names the single worker.
* **GUI** (`src/gui`). These are Qt widgets with asynchronous state machines:
  * the voip `MaskManager`: seq-matched answers from the core for the mask
    list, previews and models, plus a refresh timer;
  * the read-heads animation and the multiselect marks of
    `HistoryControlPageItem`;
  * `ToastManager` and its toasts, with the download toast's layout and
    links;
  * the animated `AttachFilePopup`;
  * the search, tab and keyboard navigation of `RecentsTab`;
  * `GeneralDialog` and `DialogButton`;
  * the caption and menu of `GalleryFrame`;
  * the key, focus, Tab, context-menu, wheel and colour handling of
    `LineEditEx`.

  The rest is layout and style constants.

How the parts interact:

1. A caller creates a packet.
2. The transport executes it on a network thread.
3. The completion is posted to CoreExecutionContext.
4. Parsing and the caller's callback run there, in posting order.
5. The GUI talks to the core through `core_dispatcher`, by seq-numbered
   messages whose answers come back as queued Qt signals.

## Inventory: state, operations and hard behaviour

| Component | State | Operations | What must hold | Hazards |
|---|---|---|---|---|
| robusto envelope | response bytes; `status_code_` | `parse_response`, `on_response_error_code`, `is_status_code_ok` | envelope errors, result errors and semantic errors stay distinct (spec 7) | non-numeric code (UB in `GetUint`), a swallowed exception |
| get_chat_members | `reset_pages_`, `status_code_`, request params | `init_request`, `parse_response`, `parse_results`, `on_response_error_code` | cursor supersedes filter/pageSize; 20002 raises the flag and is ok; 40001/40002 mapped | pageSize sent with a cursor; 20002 not ok |
| get_thread_subscribers | same | `init_request`, `parse_results`, `on_response_error_code`, `is_status_code_ok` | same | reset flag lost without results |
| CoreExecutionContext | queue, worker, finish callback | `execute_core_context`, worker take/finish, `get_core_thread_id` | FIFO, exactly once, single thread, every task runs; the stall report never alters execution | concurrent pushes, starvation |
| MaskManager | `masks_`, `masksIndex_`, seq maps, `seqLoadMaskList_`, `needPreviews_`, `existentListLoaded_`, the update timer | `onMaskListLoaded`, `onPreviewLoaded`, `onLoaded`, `onRetryUpdate`, `loadPreviews`, `clearContent`, `resetMasks` | stale answers ignored; every mask of the current list gets its preview | stale preview answers drive the chain; a refresh after the chain ends leaves masks without previews |
| HistoryControlPageItem | `heads_` with `adding_`/`removing_`, animations, `lastStatus_` | `setHeads`, `addHeads`, `removeHeads`, animation finished; `setSelected`, `clearSelection`, `enterEvent` and the broadcast lambdas | shown heads match the last `setHeads`; neighbour marks follow the neighbours | remove animation finishing after re-add; an enter that skips a message; `clearSelection` without a broadcast |
| Toasts, popup, tabs, dialogs | visibility, timers, selection | show/hide, timers, keys | one top toast; popup hidden exactly when asked; navigation wraps | timer racing an animation |

## Plan

Modules are listed in order of importance. Done means it is on disk and
checked.

1. **Done:** `RobustoPacket`, `GetChatMembers`, `GetThreadSubscribers`,
   `WimPacket` and `MC_WimPacket` (one packet's lifecycle and parse).
2. **Done:** `SerialExecutor` and `CoreExecutionContext`, which refines it.
3. **Done:** `MaskManager` (the seq protocol with stale answers, refreshes
   and retries).
4. **Done:** `HistoryHeads` (read heads against their animations) and
   `HeadsView` (their painting and hit-testing).
5. **Done:** `ToastManager` and `AttachFilePopup`.
6. **Done:** `RecentsNavigation` (search mode, model switches and
   service-item skipping).
7. **Done:** `GeneralDialog` (builders, nested exec, queued button
   clicks, keys and broadcasts, with `DialogButton`'s enabled checks), and
   `DialogButton` (the button's look through its handlers).
8. **Done:** `GalleryFrame` (the control strip's clicks and its menu's
   life) and `CaptionArea` (the caption's expansion and its animation).
9. **Done:** `HistorySelection` (the multiselect neighbour marks).
10. **Done:** `DownloadToast` (the download toast's layout over page
   resizes, and its links).
11. **Done:** `LineEditEx` (key routing, the Tab event filter, focus,
   clicks, the context menu, the wheel and the text colour).
12. **Done:** `TwoOptions` (the options widget inside a dialog).
13. **Done:** `TextToasts` (the plain toast's width on resizes, and the
   saved-path toast's layout and folder link).
14. **Next:**
   * `PacketPipeline`: several packets posted through
     `CoreExecutionContext` by a paginating caller that restarts on
     `reset_pages_`.

## Modules and their correspondence to the code

**`RobustoPacket.tla`**
* The status codes, return values and response shapes.
* `GetUint` models `get_chat_members.cpp:77`. On a non-unsigned member it
  has two outcomes: a throw, or any code read.
* `RobustoParseResponse` is the default parse, modelled from the spec. It is
  parameterised by the packet's `parse_results` and `on_response_error_code`.

**`GetChatMembers.tla`** and **`GetThreadSubscribers.tla`**
* One operator per overridden method.
* A request is a record: its `params` (a function from the member names
  present to their values), the signed method, and whether it is redacted.
* A parse returns the *set* of outcomes `[ret, status, reset]` the build can
  produce.

**`WimPacket.tla`**
* One packet's lifecycle: constructed → built (`InitRequest`) → received
  (`ExecuteRequest`) or done (`TransportFailure`) → done (`ParseResponse`).
* The response is any member of `Responses`, so every envelope shape is
  explored.

**`SerialExecutor.tla`**
* The abstract executor: `pending` and `done` sequences.
* Actions: `Post(t)` and `Execute`.
* Weak fairness on `Execute`.

**`CoreExecutionContext.tla`**
* Posting threads each have a program of tasks.
* `ExecuteCoreContext(p)` is `push_back`.
* `WorkerTake` and `WorkerFinish` are the pool's worker loop.
  `WorkerFinish` includes the finish callback, which appends to `stallLog`
  when `StallReported`.
* History variables: `posted` and `executed`.
* The refinement mapping puts the running task first among the pending ones,
  ordered by `posted`.

**`MaskManager.tla`** (`gui/voip/MaskManager.cpp`)
* Masks are records `[id, gen]`; a mask is live while it is in `masks`,
  like the `QPointer`s the code keeps.
* Requests to the core are seq-numbered messages in the set `inflight`.
  The core answers them in any order (`OnMaskListLoaded`, `OnPreviewLoaded`,
  `OnModelLoaded`, `OnLoaded`, `OnExistentMasksLoaded`).
* Timer, im-created, retry, reset and the user's `loadPreviews` and
  `load(mask)` are environment actions, bounded by `MaxEvents`.
* Each handler includes the helpers it calls (`loadNextPreview`,
  `loadMaskList`, `clearContent`).

**`HistoryHeads.tla`** (`HistoryControlPageItem.cpp`)
* `heads` is `heads_`, a sequence of `[aimid, adding, removing]`.
* `SetLastStatus`, `SetHeads`, `AddHeads` and `RemoveHeads` are the methods.
  `AddAnimationFinished` and `RemoveAnimationFinished` are the animations'
  finished handlers, run as later events.
* A one-to-one item's remove animation lasts 0 ms. Qt finishes such an
  animation inside `start()`, so `RemoveHeads` erases the heads at once.
* `Data::isSameHeads` is not in the repository. It is taken to compare
  aimids in order.

**`HeadsView.tla`** (`HistoryControlPageItem.cpp`, sizes from
`MessageStyle.cpp`)
* The number of heads, the item's and the contact dialog's widths,
  whether the item is outgoing, multiselect, the cursor, the shown
  tooltip's heads, and the heads the last clicks opened or mentioned.
* Positions are pixel columns counted left from `rc.right()` at scale 1.
* `MaxHeadsCount` is `maxHeadsCount` with `HeadsAtBottom`. `HitFrom` is
  the loop shared by `showHeadsTooltip` and `clickHeads`, and `DrawnFrom`
  is `drawHeads`' loop. Both are RECURSIVE operators walking from the
  placeholder's slot or the last head down to head 0. `Drawn` is the
  picture with no add or remove animation running.
* `MouseMove`, `MousePress` and `MouseRelease` are the mouse handlers.
  Head-list changes, resizes and multiselect are inputs.
* Not checked: `drawHeads` paints each avatar one column right of the
  rect the walks test. A click on the column just left of an avatar
  opens the head, and a click on its rightmost column does nothing. TLC
  finds this as soon as a click-equals-drawn invariant is stated. Also,
  `mouseMoveEvent` sets the pointing cursor but never resets it. The
  items' subclasses, which are not in the repository, may reset it.

**`ToastManager.tla`** (`gui/previewer/toast.cpp`)
* Per toast: `life`, `visible`, `doomed` (a `deleteLater` is posted),
  `hideTimer` and `hovered`. The manager holds `top` and `bottom`.
* `ShowToast` is `showToast` with `hideToast`, `moveToast` and `showAt`.
  `HideTimeout`, `DeferredDelete`, `Enter`, `Leave` and
  `ParentFocusChange` are Qt events.
* `toast.h` is not in the repository. The two rows are taken to be
  `QPointer`s, and `keepRows` to hold for download toasts.

**`DownloadToast.tla`** (`DownloadFinishedToast` in `toast.cpp`)
* The names' full widths `fileW`, `pathW` (chosen at construction), the
  page's width, whether the toast is two lines tall, the labels' texts
  (full or elided, and their widths), the labels' rects, the offsets of
  `messageUnit2_` (with or without its leading space) and `messageUnit3_`,
  the toast's fixed width, and the labels' hovered and pressed flags.
* Positions are columns in 4 px units and a line, 0 or 1.
* `UpdateSize` is `updateSize`; `Compose` is `compose`, split into its
  three layouts `OneLine`, `TwoLines` (narrow page) and `WideLine`.
  `CDiv` is C++'s truncating division of `halfSpace`. `Elide` is
  `elidedText`, taken to give exactly the allowed width.
* `Init` is the constructor (which calls `updateSize`), `Resize` is
  `handleParentResize`, and `MouseMove`, `MousePress`, `MouseRelease` and
  `Leave` are the mouse handlers. A pointer is placed only at the rects'
  edge columns and the columns next to them: any other column hits the
  same rects as one of these.

**`TextToasts.tla`** (`Toast` and `SavedPathToast` in `toast.cpp`)
* The window's width, the plain toast's text width and fixed width; the
  saved-path toast's message parts (`Messages`: the English one, and one
  with text after the folder), the folder's full width, the drawn folder
  width, the folder label's rect, `messageUnit2_`'s offset, the fixed
  width, and the label's hovered and pressed flags and whether a click
  opened the folder (and closed the gallery).
* `PlainWidth` is `Toast::updateSize`; `SavedLayout` is the
  `SavedPathToast` constructor's layout, with its elision to
  `maxToastWidth - (text1 + text2 + 2 * xOffset + 1)`.
* `Init` is both constructors, `Resize` is `handleParentResize` (which
  lays out only the plain toast: `SavedPathToast` has no `updateSize`),
  and `MouseMove`, `MousePress`, `MouseRelease` and `Leave` are the
  saved-path toast's handlers. As in `DownloadToast`, widths are in 4 px
  units and a pointer is placed only at the rect's edges.
* No code in the repository constructs a `SavedPathToast`. Its callers
  are outside `src/`, so the model takes any message and folder.

**`LineEditEx.tla`** (`controls/LineEditEx.cpp`)
* The platform, `options_.noPropagateKeys_`, the text's length, the
  cursor position, the selected range, the focus, and the signals and key
  of the last event. The text is taken as one word, so QLineEdit's
  DeleteStartOfWord deletes back to its start. `LineEditEx.h` is not in
  the repository: `noPropagateKeys_` is one of a few sets of Qt key
  codes. It is looked up by `key()` alone (`QtKey`, `NoPropagated`), so
  Ctrl+Backspace is kept back exactly when Backspace is, and an
  auto-repeated Escape exactly when Escape is.
* `QLineEditKey` is QLineEdit's default handling of each key. Qt is
  outside the repository; it is modelled by what `QWidgetLineControl`
  does: DeleteStartOfWord with a selection deletes from the text's start
  to the selection's anchor (the end the cursor is not at).
* `KeyPress` is `keyPressEvent`: `KeySignals`, then the
  `noPropagateKeys_` return, macOS Cmd+Backspace (`AppleDeleteToStart`),
  and DeleteStartOfWord with a selection turned into Backspace. `TabKey`
  is `eventFilter`. `FocusIn`, `FocusOut`, `MousePress` and `SetOptions`
  are their handlers.
* `color` is the palette's Text colour. `TextChangedSlot` is the
  constructor's lambda on `textChanged`: every action that changes the
  text runs it, and the macOS `setText` branch does so as a non-user
  change.
* `ContextMenu` is `contextMenuEvent`, taken as one step because `exec`
  blocks until the menu closes. The menu's Cut, Delete, Paste and Select
  All edit the text. Undo, Redo and Copy count as a dismissal.
* `Wheel` is `wheelEvent`. Its `step` comes from `CDiv` (C++'s
  truncating division) and, on macOS, from `QRoundDiv` (QPoint's `/ 8`,
  which rounds with `qRound`). It is then divided by an input
  `scale_bitmap(1)` of 1 or 2.

**`AttachFilePopup.tla`** (`AttachFilePopup.cpp`)
* `animState`, `visible`, `persistent`, `hideTimer`, the current index and
  the item count.
* The pointer is one of four zones: the item list, the plus button, the
  rest of the popup, or outside.
* `NewIndex` is the arrow-key arithmetic of `keyPressEvent`. `RefIndex` is
  the cyclic reference it is checked against.

**`RecentsNavigation.tla`** (`contact_list/RecentsTab.cpp`)
* The view's model (recents or unknowns), the recents rows by kind
  (contact or service item, i.e. section header), the number of unknown
  contacts, `pictureOnlyView_`, search mode (the stacked widget shows
  SEARCH) and the row of the view's current index (-1 when invalid).
* `Nav` is `searchUpOrDownPressed` with its `while` loop as the
  RECURSIVE `SkipService`. `HighlightFirst` is `highlightFirstItem`.
  `RefNav` is a reference stated on the set of contact rows with Min and
  Max. It records what the code does at the ends of the list: Up from
  row 0 clears the current index; with only headers above, Up keeps it
  and emits `topItemUpPressed`; Down wraps only from the last row; with
  only headers below, Down does nothing.
* The actions are the key handlers, `highlightContact`, the search
  field's `search` signal, `setPictureOnlyView` (it hides the unknowns
  header), the two model switches and `guiSettingsChanged`.

**`RecentsDrag.tla`** (`contact_list/RecentsTab.cpp`: `RCLEventFilter`,
`dragPositionUpdate`, `dropMimeData`, `autoScroll`)
* A view shows rows 1..`NRows`, three at a time. At scroll offset o, the
  top band, the middle and the bottom band show rows o+1, o+2 and o+3.
  `Droppable` stands for `contactForDrop`: a chat, not a header, not
  read-only.
* Variables:
  * search mode, the recents view's delegate (recents or unknowns), and
    each view's scroll offset;
  * the drag (over the view, last position, last move accepted);
  * the mouse-over and autoscroll timers, and `lastDragPos_`;
  * the three delegates' drag indexes;
  * `dropTo`, the chat the files of this step's drop go to.
* `DragMove`, `DragLeave` and `Drop` are the filter's branches.
  `DragPositionUpdate` is `dragPositionUpdate`, with its asymmetric
  clearing: only `recentsDelegate_` is cleared. `AutoScroll` moves the
  offset toward the band (the scroll bar clamps), then re-highlights.
* A move's mime data and a modal widget are folded into one input,
  "accepted". The files' upload is abstracted to `dropTo`. The search
  mode and the model change only between drags.

**`GeneralDialog.tla`** (`controls/GeneralDialog.cpp`, `controls/DialogButton.cpp`)
* Per dialog: `phase` (new, exec, done = hidden with its exec not yet
  returned, closed), the constructor's options, `result`, and per button
  (`next`, the pair's `left`) its `initRole_`, `role_`, `pressed_`,
  QAbstractButton's `down`, and its queued connections in connection
  order. `stack` holds the dialogs whose `exec()` has not returned,
  innermost last. `inExec` is the static `inExec_`. `queue` holds the
  posted slot calls.
* `AddAcceptButton`, `AddCancelButton` and `AddButtonsPair` are the
  builders, each followed by its `setButtonActive`. `TakeAcceptButton`
  and `SetButtonActive` are the caller's calls. `ShowInCenter` starts an
  exec, and `ExecReturn` is the rest of `showInCenter`.
* The user's actions reach only the innermost dialog, after the posted
  calls are delivered: `Press` and `Release` (with the early returns on
  `isEnabled()`), `KeyEnter`, `KeyEscape` and `PressOutside`. `Deliver`
  runs `leftButtonClick`, `rightButtonClick`, `accept` or `reject`.
  `AcceptGeneralDialog`, `RejectDialogs` and `ApplicationLocked` are the
  InterConnector broadcasts. `AcceptDialogs` is what
  `acceptGeneralDialog` does: every dialog's constructor connects it to
  `acceptDialog`, so it accepts every open dialog.
* `GeneralDialog.h` is not in the repository. The disable-on-click flags
  are chosen initially.

**`TwoOptions.tla`** (`controls/GeneralDialog.cpp`, class `TwoOptionsWidget`)
* `firstHovered_`, `secondHovered_`, `firstSelected_`, `secondSelected_`
  and the pointing cursor. A position is a pixel row, because each option
  row spans the widget's width. `Ys` samples the first and last rows of
  the top margin and of each option, plus a row below the widget, where
  the release of a press may land.
* `MouseMove`, `Release` and `Leave` are the handlers. `InFirst` and
  `InSecond` are the handlers' two `QRect::contains` tests, the first
  tested first. `Utils::clicked` is in `utils.cpp`, outside the
  repository, so it is an input. `pos_`, which only it reads, is left
  out.
* `Release` takes the `acceptGeneralDialog` broadcast as an action
  parameter. `MC_GuiServices`' `OptionsInput` passes the dialog's
  `AcceptDialogs` and routes the user's input to the widget only while
  its dialog is the modal one.

**`DialogButton.tla`** (`controls/DialogButton.cpp`)
* `initRole_`, `role_`, `hovered_`, `pressed_`, the focus, the three
  colour triples (normal, hover, press), and the palette's ButtonText.
  Colours are the style variables' names.
* `RoleBg`, `RoleBorder` and `RoleText` are the three colour setters'
  switches. A role they skip keeps the old triple. `ChangeRole` is
  `changeRole`, and `Pick` is `paintEvent`'s choice: hover, then press,
  then normal.
* `SetEnabled`, `Enter`, `Leave`, `Mouse` (press and release), `Focus`
  (in and out) and `KeyPress` are the handlers, with their early returns
  for a disabled button. A disabled button is still a Qt-enabled widget
  and gets every event. The button has `Qt::NoFocus`, so focus is an
  input: it comes only from a `setFocus()` outside the repository.

**`CaptionArea.tla`** (`previewer/GalleryFrame.cpp`, class `CaptionArea`)
* `text`, `elided` (the preview is elided), `expanded_`, `anim_` as
  `[running, value, end]`, the last `needHeight` emitted, and the height.
  Heights are counted in steps of the animation: 0 is the preview, and
  `Space[t]` is the end value `setExpanded` computes for text `t`.
* `SetExpanded` is `setExpanded` with `updateSize`. Expanding starts the
  animation unless it is running, and `start()` emits the start value.
  Collapsing emits `needHeight(0)` and shrinks to the preview. It leaves
  the animation alone, as the code does.
* `SetCaption` (`GalleryFrame::setCaption`), `CollapseCaption`,
  `ClickMore` (press and release over "more") and `AnimTick` (one
  `valueChanged`, running the lambda connected at the start).

**`GalleryFrame.tla`** (`previewer/GalleryFrame.cpp`, `GalleryFrame` and `CustomMenu`)
* The frame: shown or hidden, the pointer's position (an object, empty
  space, or outside), whether the left button is down, and the sets of
  hovered, pressed and disabled objects. The menu: `menuActions_`,
  `menu_` (a `QPointer`, read as `Current`), and per `CustomMenu` its
  life (unborn, alive, doomed by `deleteLater`, deleted), whether it is
  shown, its items and its pressed item.
* `MouseMove`, `Leave`, `MousePress` and `MouseRelease` are the frame's
  handlers. `MouseRelease` includes `onClick`, and for the menu button
  `showMenuAt` with `createMenu`, `showAtPos` and `resetObjects`.
  `MenuPress`, `MenuRelease` (close, then trigger) and `MenuDismiss` (a
  press outside the popup) are the menu's. `DeliverDelete` is the posted
  deletion. `SetEnabled`, `SetMenuActions`, `CloseMenu` (`onNext`,
  `onPrev`), `HideFrame` (`hideEvent`) and `ShowFrame` are the owner's.
* Qt's rules are guards: a shown popup takes all input, and posted
  deletions are handled before the next input or call.
* `emitted` (the signals of the last step) and `pressOrigin` (where the
  last press began) are history variables for the click property.

**`HistorySelection.tla`** models the multiselect marks of
`HistoryControlPageItem.cpp`. Item i of `1..N` is the message with id i;
its `prev_` is i - 1 and its `next_` is i + 1.
* Variables: `multiselect` and `current` (InterConnector's mode and
  current multiselect message), and per item `selected` (`Selected_`)
  and the neighbour copies `selectedTop`, `selectedBottom`, `hoveredTop`,
  `hoveredBottom`.
* `DrawnSelection` is what `drawSelection` paints: the fill when hovered
  or selected, and whether the fill keeps its top or bottom margin,
  joining the neighbour's fill, which a set mark decides.
* `SelectionStateChanged` and `CurrentMessageChanged` are the two
  constructor lambdas, run for every item at once: signals are direct
  calls. `SetSelected` broadcasts only when the flag changes.
* Actions: `Enter` (`enterEvent`), `Click` (`mouseReleaseEvent` in
  multiselect), `SpaceClicked` (the `multiselectSpaceClicked` lambda),
  `ClearSelection`, and `ToggleMultiselect` (the page). A click needs
  the pointer over the message, so it is the current one.
  `clearSelection`'s callers are not in the repository, so it may come
  at any time.
* InterConnector is not in the repository. `setCurrentMultiselectMessage`
  is taken to store the id and emit `multiSelectCurrentMessageChanged`.

**`MC_MainWindow.tla`** instantiates `HistoryHeads`, `AttachFilePopup`,
`RecentsNavigation`, `RecentsDrag` and `HeadsView`. They share no state. The drag part
has its own copy of the search mode and the model. The two machines of the contact
dialog interleave, and one budget bounds both. The recents list shares
nothing with them either. Interleaving it too would only multiply the
states, so a variable `part`, fixed per behaviour, decides whether the
dialog's machines move, the list's keys do, a drag does, or an item's
heads are pointed at and clicked. Either way, each machine has
exactly the behaviours it has on its own.

**`MC_GuiServices.tla`** puts `ToastManager`, `DownloadToast`, `LineEditEx`, one
`GeneralDialog` with a `TwoOptions` widget inside it, `GalleryFrame` and
`TextToasts` together in the same way. The dialog and its widget share the dialog's
state: the widget gets input only while the dialog is modal, and its
click accepts the dialog. The widget's pointer moves and leaves set only
its hover flags, which nothing but painting reads, so they are a part of
their own (`OptionsHover`). The three toasts are born in the order t1,
t2, t3 (`BornInOrder`): the helpers create one toast at a time and its
name does not matter, so this cuts only renamings of the same behaviours. The dialog's fairness is left out there, because
its property is a safety property. **`MC_GeneralDialog.tla`** gives two
dialogs, so that one can be shown inside the other's exec.

**`MC_Core.tla`** puts a `WimPacket`, `CoreExecutionContext` and
`MaskManager` together in the same way. The executor runs tasks it does not
look into, and the mask manager carries its own model of the core's
answers, so the three share no state. The packet's constructor arguments
are pinned in the behaviours where another part moves.
**`MC_MaskManager.tla`** gives the manager alone for the json-paths
violation run. **`MC_WimPacket.tla`** gives one packet for the violation
runs. **`MC_CaptionArea.tla`** gives a short and a long caption.
**`MC_HistorySelection.tla`** gives three messages.

## Runs

| Run | Result | What it shows |
|---|---|---|
| `core` | pass, about 72k states | Both packets, every response shape and every GetUint outcome keep the error taxonomy. `get_thread_subscribers` sends a cursor or a page size, never both. `get_chat_members` flags 20002. `main_thread` refines `SerialExecutor!FairSpec`: FIFO, exactly once, every task runs. Under any answer order of the core, a mask preview lands only on the mask of its own id, and every list the user asked previews for gets all of them, unless it is replaced. |
| `main_window` | pass, about 166k states | No head is shown twice. Every read head is either painted and opened by a click on it, or named in the tooltip of the painted "more" placeholder, for any number of heads and any item and dialog width (`EveryHeadReachable`). A one-to-one item shows the peer's head exactly when Read. The popup's arrow keys wrap like the reference. A hidden popup is reset. The hide timer hides a popup the pointer has left. The recents list's Up/Down agree with the reference on every list shape. The current row is never a header. The autoscroll timer runs only while a drag is over the list. A drop sends the files only to the highlighted chat, including after autoscrolls. |
| `gui_services` | pass, about 67k states | A dialog button paints the border and the text of its current role, in the colour its flags choose, and its palette agrees with the painted text, after any `setEnabled` calls and events (`LookFollowsRole`). Every visible toast not about to be deleted is one of the two rows. Every shown toast is deleted in the end. A download toast draws all five pieces inside its width with no two overlapping, for any name widths and after any resizes (`LayoutFits`). A key in a line edit's `noPropagateKeys_` never edits the text, moves the cursor or takes the focus away (`NoPropagateKeysStay`), and off macOS Backspace and Ctrl+Backspace with a selection delete exactly the selection, wherever the cursor is in it (`SelectionDeletedExactly`). The edit's text colour is TEXT_SOLID exactly while it holds text: after typing, context-menu edits and the macOS `setText` alike (`TextColorFollowsText`). The gallery frame emits a click only for the enabled object the press began and the release ended over. A shown menu is always `menu_`, on a shown frame. Every menu but `menu_` is closed or given to `deleteLater`. Once an option of a dialog's TwoOptionsWidget is chosen, the dialog has left its exec and no second option can be chosen (`OptionAnswersDialog`). A plain toast leaves `padding()` on each side of any window at least as wide as its margins, after any resizes. A saved-path toast is never wider than `maxToastWidth`, draws the folder inside the rect its clicks hit, and starts text2 where that rect ends (`TextToastsFit`). |
| `numeric_code` | violation | A non-numeric `status.code` returns success, not a parse error. |
| `chat_members_cursor` | violation | `get_chat_members` sends `pageSize` with a cursor. |
| `chat_members_reset_ok` | violation | `get_chat_members`' `is_status_code_ok` rejects 20002. |
| `mask_json_paths` | violation | A refreshed mask list never gets json paths for masks on disk: `existentListLoaded_` is not reset. |
| `heads_settled` | violation | In a group chat, a head put back while the 200 ms remove animation runs is erased when it ends. |
| `toast_leak` | violation | A download toast with the bottom toast's path is dropped without being deleted. |
| `caption_settled` | violation | A caption collapsed (by `setCaption` on navigation, or `collapseCaption`) while its 300 ms expand animation runs ends collapsed, yet with the expanded height and a nonzero `needHeight`: `setExpanded(false)` does not stop the animation. |
| `history_marks` | violation | In multiselect mode, a message's fill stays joined to a neighbour that is neither hovered nor selected. The neighbour marks `drawSelection` uses go stale in two ways: `clearSelection` sends no `selectionStateChanged`, and an `enterEvent` that skips the message between two others clears no hover mark. |
| `dialog_in_exec` | violation | A dialog shown while another's exec runs clears `inExec_` when it returns, so `isActive()` is false while the outer dialog is still open. |

No run checks one more disagreement TLC found in `RecentsDrag`. Take
the invariant "a finished drag leaves no drag index". TLC breaks it in
three steps: `SwitchModel` to unknowns, a `DragMove` over a chat, then
`DragLeave`. `dragPositionUpdate` clears only `recentsDelegate_`'s index,
so the unknown chat stays highlighted. `PROJECT.json` lists it as a hazard.

Nor does a run check the download toast's click areas. `updateSize`
sets the file label's rect from the label's current width and the
toast's current height, before `compose` restores the full name. TLC
shows two ways this goes stale. A two-line toast resized from a 280 px to
a 360 px page gets a file rect that also covers the second line: a click
right of the folder name launches the file. A toast whose name was elided
on a 480 px page, resized to 280 px, draws the full name with a click
area only as wide as the elided one. Both are listed as one hazard.

Each violation is a finding in `PROJECT.json`. Each property of a passing
run has a mutant there: a plausible bug in the code it maps to, under which
TLC finds the property violated. Examples:
* swapped 40001/40002;
* a missing reset of the pages flag;
* a pool with two workers;
* the preview queue popped from the wrong end;
* `addHeads` without `removeAll`;
* a 200 ms remove animation for every item;
* an off-by-one in the arrow-key wrap;
* `hideEvent` without `setPersistent(false)`;
* `moveToast` keeping the old top row;
* `handleMouseLeave` not restarting the hide timer;
* the recents `nextRow` also wrapping above row 0;
* a `DragLeave` without `dragPositionUpdate`;
* an `autoScroll` that does not re-highlight;
* `highlightFirstItem` without the service-item loop;
* the frame's release loop without its `overObject` test;
* a `hideEvent` that leaves the menu shown;
* `showMenuAt` without the `deleteLater` of the old menu;
* a `compose` that sizes a narrow page's toast by its first line only;
* a TwoOptionsWidget release that selects but does not emit
  `acceptGeneralDialog`;
* the text-colour slot connected to `textEdited`, which `setText` does
  not emit;
* a `SavedPathToast` constructor whose elision adds the allowed width
  without taking the folder's full width back.

No run checks what TLC shows of a click in the TwoOptionsWidget's top
margin. The widget is `2 * 44 + 16` px high and its options start 16 px
down, so a click in the top 16 px emits `acceptGeneralDialog` with
neither option selected. The caller's dialog is then accepted, but
`isFirstSelected` and `isSecondSelected` are both false. The broadcast
also accepts every other open dialog: a TwoOptionsWidget clicked in a
dialog shown from inside another dialog's exec accepts the outer dialog
as well.

## Bounds and why they are enough

* **Packets.** One id, one role, one page size, and the cursors
  {empty, "c1"}. The properties are about which members a request carries
  and which branch a parse takes, and none of that depends on the values.
* **Responses.** Every combination of the envelope booleans and codes is
  enumerated. `OtherCode` stands for every code without a meaning.
* **Core.** Two posting threads with two tasks each is enough to interleave
  pushes from different threads, and to have a task queued while another
  runs. Durations {200, 201} sit at the strict threshold.

* **MaskManager.** Two mask ids, two lists (one a sublist), one mask on
  disk, and 4 environment events. These allow a refresh, a retry and a
  stale answer within one behaviour.
* **Heads view.** Up to 7 heads, so that at every `maxHeadsCount` (3, 4
  or 5) the placeholder is reached standing for one or two heads, and the
  last slot holding a head of its own (`heads_.size() == maxCount + 1`)
  is reached too. Item widths are 470, 490 and 510, and dialogs 400 and
  600, on each side of every threshold.
* **Heads.** Two readers and every heads vector over them, with 4 calls.
  Read → None → Read takes 3 calls, and a re-add during a removal takes 3.
* **Toasts.** Three toasts and two paths. The third toast is needed for
  `moveToast` to drop a top row. There are 2 pointer or focus events.
* **Download toast.** The English message (text1 28 px, text2 100 px)
  plus a 24 px third part, as some translations have. Names of 20, 160,
  280 and 600 px, folders of 20, 120, 240 and 600 px, and pages of 160,
  280, 360 and 480 px. This reaches all three layouts, the elision of the
  file and of the folder in the other two, the wide layout's fallback for
  `maxFilePathWidth <= 0`, folders wider than any toast, and resizes
  between every pair of pages. The narrow layout's fallback needs a
  page under 56 px and is not reached.
* **Text toasts.** Texts of 80 and 320 px over windows of 120, 240 and
  480 px, so that the text is narrowed, or not, and resizes go both ways.
  The English "Saved to " (56 px, nothing after the folder) and a
  40 px + 32 px translation, each with folders one unit either side of
  the width at which it elides (63/64 and 67/68 units), a short folder
  and one wider than any toast.
* **Dialog button.** Every role as `initRole_`, with 6 events. A hover,
  a disable and a re-enable take 3 steps, and focus in, a key and a
  leave take 3 more.
* **Line edit.** Texts of up to 3 characters, both platforms, options
  with no kept keys or with Ctrl+Backspace, Escape and Tab kept, and 6
  events. Selecting with Shift+Left puts the cursor at the selection's
  start and Ctrl+A at its end, so both anchors are reached within 6 keys.
* **Popup.** Item counts 4 and 5 (the feature flags), and 4 events.
* **Drag.** Five rows (a chat, a header, two chats, a read-only chat),
  three in view, and 5 drag events or mode changes. That covers a
  scroll to either end and a drop after a scroll. It also covers a move
  off a chat onto a header.
* **Recents.** Three recents lists: headers above two sections, a contact
  on top, and headers on both ends with a single contact. There are 0 or
  2 unknown contacts, and 5 events. Every end case of the navigation
  occurs: a header or a contact at row 0, and a header or a contact last.
  The picture-only toggle also runs with a current row.
* **Dialogs.** One dialog with 5 events for the button property. That
  covers build, show, press, disable, release. Two dialogs with 4 events
  for `inExec_`, which takes show, show, close.
* **Two options.** The same dialog with 5 events: show, then a click
  (press and release) on each option, which takes 4 more. The rows are
  sampled at both edges of the margin and of each option, so every
  branch of the two rect tests is taken.
* **Gallery.** Two objects (the next button and the menu button), one
  menu action and two menus. A press on one object released over the
  other needs two objects. Replacing a menu that was hidden with the frame
  needs a second menu. More actions only multiply the menu's states.
* **Multiselect marks.** Three messages, so that the middle one has a
  neighbour on each side. The shortest violation takes five steps.
* **Caption.** Two texts whose animations end at 1 and 2 steps. The race
  needs one step of the animation after the collapse. Two end values tell
  a stale end apart.

## Fairness

In `CoreExecutionContext`, `WorkerTake` and `WorkerFinish` are weakly fair.
The worker waits on the queue's condition variable. Task bodies return: the
watchdog only reports slow tasks, it never cancels them. The packet model
has no fairness because it checks safety only.

In `MaskManager`, `CoreAnswer` is weakly fair. The core answers every
request, and Qt delivers the queued signals. In the GUI modules, animations
and running timers are weakly fair, because Qt runs them to their end, and
so are posted deletions. For toasts, `Leave` is weakly fair too: the user
does not keep the pointer on a toast for ever. Environment events are never
fair. In `GeneralDialog`, `Deliver` and `ExecReturn` are weakly fair: Qt
delivers posted events, and a hidden dialog's event loop returns. No run
needs them yet. `GalleryFrame` and `CaptionArea` have no fairness: their
properties are safety properties.

## Not modelled

* **`robusto_packet.cpp`, `wim_packet.cpp` and the threadpool.** These are
  not in the repository. They are modelled from the spec and marked
  `spec_modelled` in the map.
* **The header-only packets.** They have no code to translate.
* **JSON text, logging, the log redaction functor, and the signing of
  requests.** These are abstracted to the members the code branches on.
* **Layout and style code** (`MessageStyle.cpp`, video frames). There is no state machine to check.
* **The drawing of `LineEditEx`.** `paintEvent`, `setRenderMargins` and
  the placeholder setters only change how the edit is drawn. No run
  checks the wheel step. Off macOS, `wheelEvent` computes
  `delta() / 8 / 15` with truncating integer division, so a
  high-resolution wheel's half notch (`delta()` 60) emits `scrolled(0)`.
  On macOS the same event gives `qRound(7.5) / 15`, also 0. The model
  (`Wheel`) produces these steps, but no property states what a scroll
  should give. On macOS, Cmd+Backspace with a
  partial selection deletes up to the cursor and not the selection;
  `SelectionDeletedExactly` is therefore stated off macOS only.
* **The rest of `RecentsTab`.** This covers the tap-and-hold modifier,
  `itemClicked` and `itemPressed` (they call models and popup menus that
  are not in the repository), tooltips and the transition animation.
* **Drag selection and relinking in the history view.**
  `handleSelectByPos` depends on the page's selection area, which is not
  in the repository. `setPrev`/`setNext` are called by the history page,
  so `HistorySelection` keeps the chain fixed. Relinking without
  recomputing the neighbour copies is listed as a hazard.
* **The rest of `GalleryFrame`.** The visibility setters and label texts
  change painting only. Layout and the menu's hover are left out too.
  The frame's destruction is decided by its owner, which is not in the
  repository. A menu hidden by `hideEvent` is never closed, so if the
  frame is then destroyed, the parentless menu leaks. This is a hazard
  without a run.
* **The rest of `GeneralDialog`.** `ignoredKeys_`,
  the Tab event filter and the option builders are left out. So is a
  dialog destroyed during its exec: its callers are not in the repository.
  No property is about the `isEnabled()` returns of `DialogButton`'s
  press and release. In the model, the release's return is the only
  place a disabled button's click could come from, so such a property
  would only restate that return. The double post of a pair's right
  button (a second click before the first one's posted calls run) is
  out of reach: the model delivers posted calls before the next input.
  The accept-button bug is stated as `EnabledAsAsked`, but it has no run:
  `addAcceptButton(text, false)` creates a DISABLED button that
  `setButtonActive(true)` cannot enable. `PROJECT.json` lists it as a
  hazard.
* **A re-enabled CANCEL or RESTART button's background.**
  `setBackgroundColor` sets nothing for these roles. After
  `setEnabled(false)` and then `setEnabled(true)`, the button keeps the
  disabled grey fill instead of its transparent one. `LookFollowsRole`
  claims the border, the text and the palette only. There is no run left
  for a violation run.
* **`get_thread_subscribers`' lost reset flag.** `ResetPageFlagged`
  states it, but it has no run of its own (see its hazard).
* **The rest of `RecentsTab`.** Context menus, tooltips, touch
  scrolling and item clicks are left out. Drag and drop is modelled by
  `RecentsDrag`. So is the contact list
  with headers, whose model is not in the repository. The search
  field's text lives in `SearchWidget`, so a `guiSettingsChanged` that
  leaves search mode with a pattern typed is a hazard without a
  property.
* **Geometry, painting, fades, the move animation and the height
  animation.** These change only how widgets are drawn.
