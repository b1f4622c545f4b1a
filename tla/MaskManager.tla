---------------------------- MODULE MaskManager ----------------------------
(***************************************************************************)
(* voip_masks::MaskManager (src/gui/voip/MaskManager.cpp): the GUI side of *)
(* the voip masks.  It asks the core for the list of mask ids, creates one *)
(* Mask object per id, and then, on demand, asks for each mask's preview   *)
(* one after the other, for the face model, for the list of masks already  *)
(* on disk, and for a chosen mask's files.  Every request is a message     *)
(* posted with post_message_to_core, which returns a fresh seq; the answer *)
(* comes back later as a queued signal carrying that seq.                  *)
(*                                                                         *)
(* A Mask object is identified by its id and by the generation of the     *)
(* list that created it: onMaskListLoaded deletes every Mask of the old    *)
(* list.  The pointers kept in masksIndex_ and in the seq maps are tested  *)
(* for null before use, i.e. they are QPointers: a pointer to a deleted    *)
(* Mask reads as null.  The header is not in the repository; the null      *)
(* checks at lines 44, 99, 122 and 147 are what the model follows.         *)
(*                                                                         *)
(* The core answers every request, in any order.  The environment (the    *)
(* login, the update timer, the user, the core's retry notice) is bounded  *)
(* by MaxEvents.                                                           *)
(***************************************************************************)
EXTENDS Integers, Sequences, FiniteSets

CONSTANTS
    Ids,             \* mask ids
    Lists,           \* the id lists the core may answer "masks/get_id_list" with
    InitiallyOnDisk, \* masks the core has already downloaded
    MaxEvents        \* bound on login, timer, user and retry events

ASSUME InitiallyOnDisk \subseteq Ids
ASSUME \A l \in Lists : \A i, j \in DOMAIN l : i # j => l[i] # l[j]

VARIABLES
    masks,              \* masks_: the Mask objects of the current list
    masksIndex,         \* masksIndex_: id -> Mask (QPointer)
    currentDownload,    \* currentDownloadPreviewList_
    previewSeq,         \* previewSeqList_: set of [seq, mask]
    maskSeq,            \* maskSeqList_: set of [seq, mask]
    seqLoadMaskList,    \* seqLoadMaskList_, -1 when no list is awaited
    needPreviews,       \* needPreviews_
    existentListLoaded, \* existentListLoaded_
    timerRunning,       \* updateTimer_ is active (24 h or 1 s)
    gen,                \* how many lists have been applied: the newest Masks' generation
    nextSeq,            \* the seq post_message_to_core hands out next
    inflight,           \* requests the core has not answered yet
    preview,            \* set of [mask, id]: setPreview with the preview of id
    jsonPath,           \* Masks whose setJsonPath was called
    onDisk,             \* ids the core has downloaded
    events,             \* environment events so far
    askedGens           \* history: generations whose previews were asked for

vars == <<masks, masksIndex, currentDownload, previewSeq, maskSeq, seqLoadMaskList,
          needPreviews, existentListLoaded, timerRunning, gen, nextSeq, inflight,
          preview, jsonPath, onDisk, events, askedGens>>

Mask(i, g) == [id |-> i, gen |-> g]
NullMask == Mask("none", 0)

\* A QPointer reads as null once its Mask is deleted: the live Masks are the
\* current list's.
Live(m) == \E k \in DOMAIN masks : masks[k] = m

Msg(kind, seq, id) == [msg |-> kind, seq |-> seq, id |-> id]

Init ==
    /\ masks = <<>>
    /\ masksIndex = [i \in Ids |-> NullMask]
    /\ currentDownload = <<>>
    /\ previewSeq = {}
    /\ maskSeq = {}
    /\ seqLoadMaskList = -1
    /\ needPreviews = FALSE
    /\ existentListLoaded = FALSE
    /\ timerRunning = FALSE
    /\ gen = 0
    /\ nextSeq = 1
    /\ inflight = {}
    /\ preview = {}
    /\ jsonPath = {}
    /\ onDisk = InitiallyOnDisk
    /\ events = 0
    /\ askedGens = {}

(***************************************************************************)
(* The private helpers.  A handler that calls several of them is one       *)
(* action, so each helper takes the values the earlier calls of the same   *)
(* handler left behind (the maps, the posted requests fl, the next seq s). *)
(***************************************************************************)

\* Mutant: the seq is mapped to the first queued Mask, the request names
\* the last.
LoadNextPreviewFront(cd, ps, seq) ==
    IF cd = <<>> THEN [cd |-> cd, ps |-> ps, posts |-> {}, seq |-> seq]
    ELSE [cd    |-> SubSeq(cd, 1, Len(cd) - 1),
          ps    |-> ps \cup {[seq |-> seq, mask |-> cd[1]]},
          posts |-> {Msg("preview", seq, cd[Len(cd)].id)},
          seq   |-> seq + 1]

\* Mutant: the request is posted but its seq is not remembered.
LoadNextPreviewUnmapped(cd, ps, seq) ==
    IF cd = <<>> THEN [cd |-> cd, ps |-> ps, posts |-> {}, seq |-> seq]
    ELSE [cd    |-> SubSeq(cd, 1, Len(cd) - 1),
          ps    |-> ps,
          posts |-> {Msg("preview", seq, cd[Len(cd)].id)},
          seq   |-> seq + 1]

\* loadNextPreview(): ask for the preview of the last queued Mask.
LoadNextPreview(cd, ps, seq) ==
    IF cd = <<>> THEN [cd |-> cd, ps |-> ps, posts |-> {}, seq |-> seq]
    ELSE [cd    |-> SubSeq(cd, 1, Len(cd) - 1),
          ps    |-> ps \cup {[seq |-> seq, mask |-> cd[Len(cd)]]},
          posts |-> {Msg("preview", seq, cd[Len(cd)].id)},
          seq   |-> seq + 1]

\* clearContent(): delete every Mask and forget every pending answer.
ClearContent ==
    /\ masks' = <<>>
    /\ masksIndex' = [i \in Ids |-> NullMask]
    /\ currentDownload' = <<>>
    /\ previewSeq' = {}
    /\ maskSeq' = {}
    /\ existentListLoaded' = FALSE
    /\ seqLoadMaskList' = -1
    /\ needPreviews' = FALSE

\* loadMaskList(): ask for the id list; only its answer will be applied.
LoadMaskList(fl, s) ==
    /\ seqLoadMaskList' = s
    /\ inflight' = fl \cup {Msg("list", s, "none")}
    /\ nextSeq' = s + 1

\* loadPreviews() on the Masks ms of generation g: with none, remember the
\* wish and ask for the list (the timer is left as it is); otherwise stop
\* the update timer and start the preview chain.
LoadPreviews(ms, cd, ps, fl, s, g, timer, listSeq) ==
    IF ms = <<>>
    THEN /\ needPreviews' = TRUE
         /\ LoadMaskList(fl, s)
         /\ timerRunning' = timer
         /\ currentDownload' = cd
         /\ previewSeq' = ps
         /\ UNCHANGED askedGens
    ELSE LET n == LoadNextPreview(cd, ps, s) IN
         /\ needPreviews' = FALSE
         /\ timerRunning' = FALSE
         /\ currentDownload' = n.cd
         /\ previewSeq' = n.ps
         /\ inflight' = fl \cup n.posts
         /\ nextSeq' = n.seq
         /\ seqLoadMaskList' = listSeq
         /\ askedGens' = askedGens \cup {g}

-----------------------------------------------------------------------------
(***************************************************************************)
(* Environment events: the login, the update timer, the user, the core's  *)
(* retry notice.                                                           *)
(***************************************************************************)
Event == events < MaxEvents /\ events' = events + 1

\* onImCreated: the im exists, load the list.
OnImCreated ==
    /\ Event
    /\ LoadMaskList(inflight, nextSeq)
    /\ UNCHANGED <<masks, masksIndex, currentDownload, previewSeq, maskSeq, needPreviews,
                   existentListLoaded, timerRunning, gen, preview, jsonPath, onDisk, askedGens>>

\* The update timer fires: onUpdateTimeout loads the list, and the second
\* connection stops the timer.
OnUpdateTimeout ==
    /\ Event
    /\ timerRunning
    /\ LoadMaskList(inflight, nextSeq)
    /\ timerRunning' = FALSE
    /\ UNCHANGED <<masks, masksIndex, currentDownload, previewSeq, maskSeq, needPreviews,
                   existentListLoaded, gen, preview, jsonPath, onDisk, askedGens>>

\* onRetryUpdate: ignored while a list is awaited; otherwise clear and
\* retry in a second.
OnRetryUpdate ==
    /\ Event
    /\ IF seqLoadMaskList >= 0
       THEN UNCHANGED <<masks, masksIndex, currentDownload, previewSeq, maskSeq,
                        seqLoadMaskList, needPreviews, existentListLoaded, timerRunning>>
       ELSE ClearContent /\ timerRunning' = TRUE
    /\ UNCHANGED <<gen, nextSeq, inflight, preview, jsonPath, onDisk, askedGens>>

\* resetMasks: forget the awaited list, then onRetryUpdate, which now clears.
ResetMasks ==
    /\ Event
    /\ ClearContent
    /\ timerRunning' = TRUE
    /\ UNCHANGED <<gen, nextSeq, inflight, preview, jsonPath, onDisk, askedGens>>

\* The user opens the masks: loadPreviews.
UserLoadPreviews ==
    /\ Event
    /\ LoadPreviews(masks, currentDownload, previewSeq, inflight, nextSeq, gen,
                    timerRunning, seqLoadMaskList)
    /\ UNCHANGED <<masks, masksIndex, maskSeq, existentListLoaded, gen, preview,
                   jsonPath, onDisk>>

\* The user picks a mask: loadMask(id).
UserLoadMask(i) ==
    /\ Event
    /\ IF ~Live(masksIndex[i])
       THEN UNCHANGED <<maskSeq, inflight, nextSeq>>
       ELSE /\ maskSeq' = maskSeq \cup {[seq |-> nextSeq, mask |-> masksIndex[i]]}
            /\ inflight' = inflight \cup {Msg("get", nextSeq, i)}
            /\ nextSeq' = nextSeq + 1
    /\ UNCHANGED <<masks, masksIndex, currentDownload, previewSeq, seqLoadMaskList,
                   needPreviews, existentListLoaded, timerRunning, gen, preview,
                   jsonPath, onDisk, askedGens>>

-----------------------------------------------------------------------------
(***************************************************************************)
(* The core's answers, delivered as queued signals in any order.           *)
(***************************************************************************)

\* onMaskListLoaded(seq, list): applied only if it answers the awaited
\* request.  New Masks replace the old ones (which are deleted), the index
\* gains the new ids and keeps the others, every pending preview and mask
\* answer is forgotten, the 24 h timer starts, and a pending loadPreviews
\* is carried out.
OnMaskListLoaded(q, l) ==
    /\ IF seqLoadMaskList # q.seq
       THEN /\ inflight' = inflight \ {q}
            /\ UNCHANGED <<masks, masksIndex, currentDownload, previewSeq, maskSeq,
                           seqLoadMaskList, needPreviews, timerRunning, gen, nextSeq,
                           askedGens>>
       ELSE LET ms == [k \in DOMAIN l |-> Mask(l[k], gen + 1)] IN
            /\ masks' = ms
            /\ masksIndex' = [i \in Ids |-> IF \E k \in DOMAIN l : l[k] = i
                                             THEN Mask(i, gen + 1) ELSE masksIndex[i]]
            /\ maskSeq' = {}
            /\ gen' = gen + 1
            /\ IF needPreviews
               THEN LoadPreviews(ms, ms, {}, inflight \ {q}, nextSeq, gen + 1, TRUE, -1)
               ELSE /\ currentDownload' = ms
                    /\ previewSeq' = {}
                    /\ seqLoadMaskList' = -1
                    /\ timerRunning' = TRUE
                    /\ inflight' = inflight \ {q}
                    /\ UNCHANGED <<needPreviews, nextSeq, askedGens>>
    /\ UNCHANGED <<existentListLoaded, preview, jsonPath, onDisk, events>>

\* onPreviewLoaded(seq, path): a known seq gives its Mask (if alive) the
\* preview and is erased; whatever the seq, the next preview is asked for,
\* and once no preview is awaited the face model is asked for.
OnPreviewLoaded(q) ==
    LET found == {e \in previewSeq : e.seq = q.seq}
        n     == LoadNextPreview(currentDownload, previewSeq \ found, nextSeq)
        model == IF n.ps = {} THEN {Msg("model", n.seq, "none")} ELSE {}
    IN /\ preview' = preview \cup {[mask |-> e.mask, id |-> q.id] : e \in {f \in found : Live(f.mask)}}
       /\ currentDownload' = n.cd
       /\ previewSeq' = n.ps
       /\ inflight' = (inflight \ {q}) \cup n.posts \cup model
       /\ nextSeq' = n.seq + Cardinality(model)
       /\ UNCHANGED <<masks, masksIndex, maskSeq, seqLoadMaskList, needPreviews,
                      existentListLoaded, timerRunning, gen, jsonPath, onDisk, events, askedGens>>

\* onModelLoaded: ask for the masks on disk, unless that list was loaded.
OnModelLoaded(q) ==
    /\ IF existentListLoaded
       THEN UNCHANGED nextSeq /\ inflight' = inflight \ {q}
       ELSE /\ inflight' = (inflight \ {q}) \cup {Msg("existent", nextSeq, "none")}
            /\ nextSeq' = nextSeq + 1
    /\ UNCHANGED <<masks, masksIndex, currentDownload, previewSeq, maskSeq, seqLoadMaskList,
                   needPreviews, existentListLoaded, timerRunning, gen, preview, jsonPath,
                   onDisk, events, askedGens>>

\* onLoaded(seq, path): the core has the mask's files; a known seq gives its
\* Mask (if alive) the json path and is erased.
OnLoaded(q) ==
    LET found == {e \in maskSeq : e.seq = q.seq} IN
    /\ onDisk' = onDisk \cup {q.id}
    /\ jsonPath' = jsonPath \cup {e.mask : e \in {f \in found : Live(f.mask)}}
    /\ maskSeq' = maskSeq \ found
    /\ inflight' = inflight \ {q}
    /\ UNCHANGED <<masks, masksIndex, currentDownload, previewSeq, seqLoadMaskList,
                   needPreviews, existentListLoaded, timerRunning, gen, nextSeq, preview,
                   events, askedGens>>

\* onExistentMasksLoaded(masks): every downloaded mask the index knows (and
\* that is alive) gets its json path; the list counts as loaded.
OnExistentMasksLoaded(q) ==
    /\ jsonPath' = jsonPath \cup {masksIndex[i] : i \in {j \in onDisk : Live(masksIndex[j])}}
    /\ existentListLoaded' = TRUE
    /\ inflight' = inflight \ {q}
    /\ UNCHANGED <<masks, masksIndex, currentDownload, previewSeq, maskSeq, seqLoadMaskList,
                   needPreviews, timerRunning, gen, nextSeq, preview, onDisk, events, askedGens>>

CoreAnswer ==
    \E q \in inflight :
        \/ q.msg = "list"     /\ \E l \in Lists : OnMaskListLoaded(q, l)
        \/ q.msg = "preview"  /\ OnPreviewLoaded(q)
        \/ q.msg = "model"    /\ OnModelLoaded(q)
        \/ q.msg = "get"      /\ OnLoaded(q)
        \/ q.msg = "existent" /\ OnExistentMasksLoaded(q)

Next ==
    \/ OnImCreated \/ OnUpdateTimeout \/ OnRetryUpdate \/ ResetMasks
    \/ UserLoadPreviews \/ \E i \in Ids : UserLoadMask(i)
    \/ CoreAnswer

\* The core answers every request and Qt delivers every queued signal; the
\* environment is not required to do anything.
Spec == Init /\ [][Next]_vars /\ WF_vars(CoreAnswer)

-----------------------------------------------------------------------------
TypeOK ==
    /\ seqLoadMaskList \in -1..nextSeq
    /\ needPreviews \in BOOLEAN /\ existentListLoaded \in BOOLEAN
    /\ \A q \in inflight : q.msg \in {"list", "preview", "model", "get", "existent"}
    /\ onDisk \subseteq Ids

AllPreviewed == \A k \in DOMAIN masks : \E p \in preview : p.mask = masks[k]

JsonPathsKnown == \A k \in DOMAIN masks : masks[k].id \in onDisk => masks[k] \in jsonPath

\* Every preview a Mask is given is the preview of its own id, though
\* answers arrive in any order and lists replace the Masks under them.
PreviewOfOwnId == \A p \in preview : p.mask.id = p.id

\* Once the user asked for the previews of a list, every Mask of it
\* eventually has its preview, unless the list is replaced first: the
\* chain of loadNextPreview calls driven by onPreviewLoaded reaches them all.
PreviewsLoaded ==
    \A g \in 1..MaxEvents :
        [](g \in askedGens /\ gen = g => <>(gen # g \/ AllPreviewed))

\* Once the previews of a list were asked for, every Mask of it that the
\* core has on disk eventually knows its json path (onModelLoaded loads the
\* existent list), unless the list is replaced first.
JsonPathsLoaded ==
    \A g \in 1..MaxEvents :
        [](g \in askedGens /\ gen = g => <>(gen # g \/ JsonPathsKnown))

=============================================================================
