------------------------------- MODULE Workspace -------------------------------
(***************************************************************************)
(* The notes workspace of the front end (frontend/src/app/notes/            *)
(* notes-workspace.ts and .html): one tab, its list of notes, the note it   *)
(* shows or edits, its sharing panel and previews, against a server that    *)
(* answers late, in any order, or not at all.                               *)
(*                                                                          *)
(* A step is a user's act, a timer, the server at work on a request, or an  *)
(* answer with all that runs up to the next await.  requestVersion and its  *)
(* like make an answer count only if nothing has superseded its request:    *)
(* the requests kept here are those whose answer counts.  What a note says  *)
(* is its revision; the buttons' [disabled] are guards.  Messages are left  *)
(* out, so Retry, which any of the error messages offers, is always there.  *)
(* The names are none of BrowserSession's: one proof module extends both.   *)
(***************************************************************************)
EXTENDS Naturals, FiniteSets

CONSTANTS
    Notes,      \* ids; the server lists notes in the order of their ids
    Queries,    \* texts of the search box
    Found,      \* Found[q]: the notes that match q
    PageSize,   \* notes in an answer
    MaxRev,     \* bound on the revisions of a note; the last one stays
    MaxFailures, \* bound on the failures
    Nothing     \* null, undefined

\* A note as the tab has it, and a change it has asked for.
Copies == [id : Notes, rev : 0..MaxRev]
Mutations ==
    [op : {"save", "delete", "undelete", "file", "item", "share", "addshare", "contacts"},
     note : Notes \cup {Nothing}, st : {"sent", "done", "refused"}]

ASSUME NoteAssumption == IsFiniteSet(Notes) /\ Notes \subseteq Nat
ASSUME NothingAssumption == Nothing \notin Notes \cup Copies \cup Mutations
ASSUME QueryAssumption == Found \in [Queries -> SUBSET Notes] /\ PageSize \in Nat \ {0}
ASSUME LimitAssumption == MaxRev \in Nat /\ MaxFailures \in Nat

VARIABLES
    server,          \* server[n]: the note's state and revision
    notes, total,    \* the loaded part of the list, and the server's count
    query, timer,    \* the search box; is a debounced search due?
    loading, lists,  \* the spinner; list requests that count
    dropped,         \* history: a list was given up or failed, and none came since
    selected,        \* Nothing, or the note shown
    draft,           \* "none" (not editing), "clean" or "dirty"
    busy, mutation,  \* the flag, and the request behind it
    undo,            \* the note the undo toast offers
    sharing, panel,  \* the note whose sharing request counts; Nothing if the panel is
                     \* closed, else the notes whose collaborators it shows
    previewing, preview,  \* the same of attachment previews
    deleted,         \* history: deletions acknowledged and not taken back
    failures

list == <<notes, total, query, timer, loading, lists, dropped>>
shown == <<selected, sharing, panel, previewing, preview>>
operation == <<busy, mutation, undo, deleted>>
world == <<server, failures>>
workspace == <<list, shown, draft, operation, world>>

------------------------------------------------------------------------------
Copy(n) == [id |-> n, rev |-> server[n].rev]
Ids(copies) == {c.id : c \in copies}
FirstOf(copies) == CHOOSE c \in copies : \A d \in copies : c.id <= d.id

\* GET /api/notes.
Matching(q) == {n \in Found[q] : server[n].st = "active"}
Page(q, skip) ==
    {Copy(n) : n \in {m \in Matching(q) :
        Cardinality({l \in Matching(q) : l < m}) \in skip..(skip + PageSize - 1)}}

Failure == failures < MaxFailures /\ failures' = failures + 1

\* A new requestVersion: the user moves on, and no earlier answer counts.
Outdate == lists' = {} /\ dropped' = (dropped \/ \E r \in lists : r.reset)

InvalidateListResponse ==
    Outdate /\ loading' = (timer /\ loading) /\ UNCHANGED timer

CancelListWork == lists' = {} /\ loading' = FALSE /\ timer' = FALSE /\ UNCHANGED dropped

ListRequest(reset, sel) ==
    [st |-> "sent", reset |-> reset, query |-> query,
     skip |-> IF reset THEN 0 ELSE Cardinality(notes),
     sel |-> sel, page |-> {}, total |-> 0]

\* load(): sel, whether a note is selected now, is looked at with the answer.
LoadList(reset, sel) ==
    /\ lists' = {ListRequest(reset, sel)}
    /\ timer' = FALSE /\ loading' = TRUE /\ UNCHANGED dropped

\* Mutant: the panel stays as it is.
ResetSharingForgets == UNCHANGED <<sharing, panel>>

ResetSharingState == sharing' = Nothing /\ panel' = Nothing

ClearAttachmentPreviews == previewing' = Nothing /\ preview' = Nothing
LoadAttachmentPreviews(n) == previewing' = n /\ preview' = Nothing

ApplySelection(copy) ==
    /\ selected' = copy /\ draft' = "none"
    /\ ResetSharingState
    /\ LoadAttachmentPreviews(copy.id)

\* Some notes are there; ngOnInit has sent the first load.
WorkspaceInit ==
    /\ server \in [Notes -> {[st |-> st, rev |-> 0] : st \in {"active", "absent"}}]
    /\ notes = {} /\ total = 0
    /\ query \in {q \in Queries : Found[q] = Notes} /\ timer = FALSE
    /\ loading = TRUE /\ lists = {ListRequest(TRUE, FALSE)} /\ dropped = FALSE
    /\ selected = Nothing /\ draft = "none"
    /\ busy = FALSE /\ mutation = Nothing /\ undo = Nothing
    /\ sharing = Nothing /\ panel = Nothing /\ previewing = Nothing /\ preview = Nothing
    /\ deleted = {} /\ failures = 0

------------------------------------------------------------------------------
(* The list.                                                                 *)

QueueSearch(q) ==
    /\ ~busy
    /\ query' = q /\ timer' = TRUE /\ loading' = TRUE /\ lists' = {}
    /\ UNCHANGED <<notes, total, dropped, shown, draft, operation, world>>

\* The search is due, or the user asks for a retry.
Reload ==
    /\ timer \/ draft = "none"
    /\ LoadList(TRUE, selected # Nothing)
    /\ UNCHANGED <<notes, total, query, shown, draft, operation, world>>

LoadMore ==
    /\ ~busy /\ ~loading /\ Cardinality(notes) < total
    /\ LoadList(FALSE, selected # Nothing)
    /\ UNCHANGED <<notes, total, query, shown, draft, operation, world>>

ServeList(r) ==
    /\ r.st = "sent"
    /\ lists' = (lists \ {r}) \cup
          {[r EXCEPT !.st = "served", !.page = Page(r.query, r.skip),
                     !.total = Cardinality(Matching(r.query))]}
    /\ UNCHANGED <<notes, total, query, timer, loading, dropped, shown, draft,
                   operation, world>>

\* Mutant: a draft of a new note does not keep the first note from being shown.
ShowFirstAnyway(r) ==
    IF ~r.sel /\ r.page # {} THEN ApplySelection(FirstOf(r.page))
                             ELSE UNCHANGED <<shown, draft>>

\* The first note is shown if none was, and no draft is open.
ShowFirst(r) ==
    IF ~r.sel /\ draft = "none" /\ r.page # {} THEN ApplySelection(FirstOf(r.page))
                                               ELSE UNCHANGED <<shown, draft>>

ListArrives(r) ==
    /\ r.st = "served"
    /\ lists' = lists \ {r} /\ loading' = FALSE
    /\ total' = r.total
    /\ IF r.reset
       THEN notes' = r.page /\ dropped' = FALSE /\ ShowFirst(r)
       ELSE /\ notes' = notes \cup {c \in r.page : c.id \notin Ids(notes)}
            /\ UNCHANGED <<dropped, shown, draft>>
    /\ UNCHANGED <<query, timer, operation, world>>

ListFails(r) ==
    /\ Failure
    /\ lists' = lists \ {r} /\ loading' = FALSE /\ dropped' = TRUE
    /\ UNCHANGED <<notes, total, query, timer, shown, draft, operation, server>>

------------------------------------------------------------------------------
(* The note.  An act that would discard unsaved changes is one the user      *)
(* confirmed.                                                                *)

Reading == selected # Nothing /\ draft = "none" /\ ~busy

Select(c) ==
    /\ ~busy
    /\ InvalidateListResponse /\ ApplySelection(c)
    /\ UNCHANGED <<notes, total, query, operation, world>>

Create ==
    /\ ~busy
    /\ InvalidateListResponse /\ ClearAttachmentPreviews /\ ResetSharingState
    /\ selected' = Nothing /\ draft' = "clean"
    /\ UNCHANGED <<notes, total, query, operation, world>>

Edit ==
    /\ Reading
    /\ draft' = "clean"
    /\ UNCHANGED <<list, shown, operation, world>>

\* The fields stay open to the user while a save is under way.
Type ==
    /\ draft # "none"
    /\ draft' \in {"clean", "dirty"} \ {draft}
    /\ UNCHANGED <<list, shown, operation, world>>

Cancel ==
    /\ draft # "none" /\ ~busy
    /\ IF selected = Nothing /\ notes # {}
       THEN ApplySelection(FirstOf(notes))
       ELSE draft' = "none" /\ ResetSharingState /\ UNCHANGED <<selected, previewing, preview>>
    /\ UNCHANGED <<list, operation, world>>

\* The workspace is left when the server has answered, and stays if it failed.
LeaveWorkspace ==
    /\ draft # "none" /\ draft' = "none"
    /\ UNCHANGED <<list, shown, operation, world>>

------------------------------------------------------------------------------
(* Changes.  Each holds busy until its answer, and then reloads the list.    *)

SendChange(op, n) ==
    /\ busy' = TRUE
    /\ mutation' = [op |-> op, note |-> n, st |-> "sent"]

Save ==
    /\ draft # "none" /\ ~busy
    /\ selected = Nothing => draft = "dirty" /\ \E n \in Notes : server[n].st = "absent"
    /\ CancelListWork
    /\ SendChange("save", IF selected = Nothing THEN Nothing ELSE selected.id)
    /\ UNCHANGED <<notes, total, query, shown, draft, undo, deleted, world>>

Remove ==
    /\ Reading
    /\ CancelListWork
    /\ SendChange("delete", selected.id)
    /\ UNCHANGED <<notes, total, query, shown, draft, undo, deleted, world>>

UndoDelete ==
    /\ undo # Nothing /\ ~busy
    /\ CancelListWork
    /\ SendChange("undelete", undo)
    /\ deleted' = deleted \ {undo}
    /\ UNCHANGED <<notes, total, query, shown, draft, undo, world>>

\* dismissUndo, or its 15 seconds are over.
DismissUndo ==
    /\ undo # Nothing /\ undo' = Nothing
    /\ UNCHANGED <<list, shown, draft, busy, mutation, deleted, world>>

\* upload and removeFile ("file"); the three of action items ("item").
ChangeChild(op) ==
    /\ Reading
    /\ CancelListWork
    /\ SendChange(op, selected.id)
    /\ UNCHANGED <<notes, total, query, shown, draft, undo, deleted, world>>

\* addShare, and the other three, which end with their first answer.
ChangeShare(op) ==
    /\ Reading /\ panel # Nothing
    /\ SendChange(op, selected.id)
    /\ UNCHANGED <<list, shown, draft, undo, deleted, world>>

Becomes(n, st, rev) ==
    server' = [server EXCEPT ![n] = [st |-> st, rev |-> IF rev > MaxRev THEN MaxRev ELSE rev]]

Apply(op, n) ==
    CASE op = "delete" -> Becomes(n, "deleted", server[n].rev)
      [] op = "undelete" -> Becomes(n, "active", server[n].rev)
      [] op \in {"save", "file", "item"} -> Becomes(n, "active", server[n].rev + 1)
      [] OTHER -> UNCHANGED server

\* The server carries it out, or refuses it (an undo, after 15 seconds).
ServeMutation ==
    LET n == mutation.note
        Done(m) == mutation' = [mutation EXCEPT !.st = "done", !.note = m]
        Needs == IF mutation.op = "undelete" THEN "deleted" ELSE "active"
    IN  /\ mutation # Nothing /\ mutation.st = "sent"
        /\ \/ /\ n = Nothing
              /\ \E m \in Notes : server[m].st = "absent" /\ Becomes(m, "active", 0) /\ Done(m)
           \/ n # Nothing /\ server[n].st = Needs /\ Apply(mutation.op, n) /\ Done(n)
           \/ /\ n # Nothing /\ (mutation.op = "undelete" \/ server[n].st # Needs)
              /\ mutation' = [mutation EXCEPT !.st = "refused"] /\ UNCHANGED server
        /\ UNCHANGED <<list, shown, draft, busy, undo, deleted, failures>>

Answered(op) ==
    /\ mutation # Nothing /\ mutation.st = "done" /\ mutation.op = op
    /\ busy' = FALSE /\ mutation' = Nothing

\* Mutant: the list is left as it was before the save.
SavedKeepsList ==
    /\ Answered("save")
    /\ ApplySelection(Copy(mutation.note))
    /\ UNCHANGED <<list, undo, deleted, world>>

Saved ==
    /\ Answered("save")
    /\ ApplySelection(Copy(mutation.note))
    /\ LoadList(TRUE, TRUE)
    /\ UNCHANGED <<notes, total, query, undo, deleted, world>>

Others == {c \in notes : c.id # mutation.note}

\* The toast is offered unless the answer took too long.
Forget ==
    /\ notes' = Others
    /\ total' = IF Others # notes /\ total > 0 THEN total - 1 ELSE total
    /\ undo' \in {mutation.note, Nothing}
    /\ deleted' = deleted \cup {mutation.note}

\* Mutant: the note leaves the list, but stays on show.
RemovedKeepsSelection ==
    /\ Answered("delete") /\ Forget
    /\ LoadList(TRUE, selected # Nothing)
    /\ UNCHANGED <<query, shown, draft, world>>

Removed ==
    /\ Answered("delete") /\ Forget
    /\ IF Others # {} THEN ApplySelection(FirstOf(Others))
       ELSE selected' = Nothing /\ ClearAttachmentPreviews /\ ResetSharingState /\ UNCHANGED draft
    /\ LoadList(TRUE, Others # {})
    /\ UNCHANGED <<query, world>>

\* Mutant: the toast stays.
RestoredKeepsToast ==
    /\ Answered("undelete")
    /\ ApplySelection(Copy(mutation.note))
    /\ LoadList(TRUE, TRUE)
    /\ UNCHANGED <<notes, total, query, undo, deleted, world>>

Restored ==
    /\ Answered("undelete")
    /\ undo' = Nothing
    /\ ApplySelection(Copy(mutation.note))
    /\ LoadList(TRUE, TRUE)
    /\ UNCHANGED <<notes, total, query, deleted, world>>

\* The answer is put into the note on show, which may be an object of the list.
ChildChanged(op) ==
    LET Patched(c) == IF c.id = selected.id THEN Copy(c.id) ELSE c
    IN  /\ Answered(op)
        /\ selected' \in {selected, Patched(selected)}
        /\ notes' \in {notes, {Patched(c) : c \in notes}}
        /\ IF op = "file" THEN LoadAttachmentPreviews(selected.id)
                          ELSE UNCHANGED <<previewing, preview>>
        /\ LoadList(TRUE, TRUE)
        /\ UNCHANGED <<total, query, draft, sharing, panel, undo, deleted, world>>

\* The answer changes the collaborators on show.
ShowShares ==
    /\ panel' = IF panel = Nothing THEN Nothing ELSE panel \cup {mutation.note}
    /\ UNCHANGED <<list, selected, draft, sharing, previewing, preview, undo, deleted, world>>

\* After addShare's answer the contacts are fetched, and busy goes on.
ShareAdded ==
    /\ mutation # Nothing /\ mutation.st = "done" /\ mutation.op = "addshare"
    /\ mutation' = [mutation EXCEPT !.op = "contacts"] /\ UNCHANGED busy
    /\ ShowShares

ShareChanged == Answered("share") /\ ShowShares

\* Or they failed to load.
ContactsLoaded ==
    /\ Answered("contacts")
    /\ UNCHANGED <<list, shown, draft, undo, deleted, world>>

\* The server refused, or the request or its answer was lost.
MutationFails ==
    /\ mutation # Nothing /\ mutation.op # "contacts"
    /\ IF mutation.st = "refused" THEN UNCHANGED failures ELSE Failure
    /\ busy' = FALSE /\ mutation' = Nothing
    /\ undo' = IF mutation.op = "undelete" THEN Nothing ELSE undo
    /\ IF mutation.op \in {"share", "addshare"}
       THEN UNCHANGED <<timer, loading, lists, dropped>>
       ELSE LoadList(TRUE, selected # Nothing)
    /\ UNCHANGED <<notes, total, query, shown, draft, deleted, server>>

------------------------------------------------------------------------------
(* Sharing panel and previews.                                               *)

OpenSharing ==
    /\ Reading
    /\ sharing' = selected.id /\ panel' = {}
    /\ UNCHANGED <<list, selected, draft, previewing, preview, operation, world>>

CloseSharing ==
    /\ panel # Nothing /\ panel' = Nothing
    /\ UNCHANGED <<list, selected, draft, sharing, previewing, preview, operation, world>>

\* Both answers are here and replace what is shown, or one failed.
SharingArrives ==
    /\ sharing # Nothing /\ sharing' = Nothing
    /\ panel' \in IF selected = Nothing \/ selected.id # sharing \/ panel = Nothing THEN {panel}
                  ELSE {{sharing}, Nothing}
    /\ UNCHANGED <<list, selected, draft, previewing, preview, operation, world>>

\* One preview, or the last one.
PreviewArrives ==
    /\ previewing # Nothing /\ previewing' \in {previewing, Nothing}
    /\ preview' \in {preview} \cup
          (IF selected # Nothing /\ selected.id = previewing THEN {previewing} ELSE {})
    /\ UNCHANGED <<list, selected, draft, sharing, panel, operation, world>>

------------------------------------------------------------------------------
User ==
    \/ \E q \in Queries : QueueSearch(q)
    \/ Reload \/ LoadMore
    \/ \E c \in notes : Select(c)
    \/ Create \/ Edit \/ Type \/ Cancel \/ LeaveWorkspace
    \/ Save \/ Remove \/ UndoDelete \/ DismissUndo
    \/ \E op \in {"file", "item"} : ChangeChild(op)
    \/ \E op \in {"share", "addshare"} : ChangeShare(op)
    \/ OpenSharing \/ CloseSharing

Arrivals ==
    \/ \E r \in lists : ServeList(r) \/ ListArrives(r) \/ ListFails(r)
    \/ ServeMutation
    \/ Saved \/ Removed \/ Restored \/ ShareAdded \/ ShareChanged \/ ContactsLoaded
    \/ \E op \in {"file", "item"} : ChildChanged(op)
    \/ MutationFails
    \/ SharingArrives \/ PreviewArrives

WorkspaceNext == User \/ Arrivals

WorkspaceSpec == WorkspaceInit /\ [][WorkspaceNext]_workspace

------------------------------------------------------------------------------
ListRequests ==
    [st : {"sent", "served"}, reset : BOOLEAN, query : Queries,
     skip : 0..Cardinality(Notes), sel : BOOLEAN, page : SUBSET Copies,
     total : 0..Cardinality(Notes)]

\* Every variable keeps its type, one list answer at most counts, and busy is
\* held by a request.
WorkspaceTypeOK ==
    /\ server \in [Notes -> [st : {"absent", "active", "deleted"}, rev : 0..MaxRev]]
    /\ notes \subseteq Copies /\ total \in 0..Cardinality(Notes)
    /\ query \in Queries /\ timer \in BOOLEAN /\ loading \in BOOLEAN
    /\ lists \subseteq ListRequests /\ Cardinality(lists) <= 1 /\ dropped \in BOOLEAN
    /\ selected \in Copies \cup {Nothing} /\ draft \in {"none", "clean", "dirty"}
    /\ mutation \in Mutations \cup {Nothing} /\ busy = (mutation # Nothing)
    /\ undo \in Notes \cup {Nothing} /\ deleted \subseteq Notes
    /\ sharing \in Notes \cup {Nothing} /\ (panel = Nothing \/ panel \subseteq Notes)
    /\ previewing \in Notes \cup {Nothing} /\ preview \in Notes \cup {Nothing}
    /\ failures \in 0..MaxFailures

\* Previews and collaborators on show are those of the note on show, in
\* whatever order answers arrive.
ShownBelongs ==
    /\ preview # Nothing => selected # Nothing /\ selected.id = preview
    /\ panel # Nothing => selected # Nothing /\ panel \subseteq {selected.id}

\* Unsaved changes go when the user confirms it or reverts them, when they are
\* saved, or when the user takes back a deletion: no answer of the list, no
\* failed request and no other answer drops them.
DraftIsKept ==
    [][draft = "dirty" /\ draft' # "dirty" =>
         \/ \E c \in notes : Select(c)
         \/ Create \/ Type \/ Cancel \/ LeaveWorkspace
         \/ Saved \/ Restored]_workspace

\* A note whose deletion the server acknowledged is neither listed nor shown
\* again, unless the deletion is taken back: no older answer revives it.
DeletedIsGone ==
    /\ deleted \cap Ids(notes) = {}
    /\ selected # Nothing => selected.id \notin deleted

\* Undo is offered for a note that is deleted, until it is asked for.
UndoIsOffered ==
    undo # Nothing =>
        \/ server[undo].st = "deleted"
        \/ mutation # Nothing /\ mutation.op = "undelete" /\ mutation.note = undo

\* When nothing is under way, the list is what the server has: the notes that
\* match, as they are, the first page at least, and their number.  The user may
\* have moved on before the list came, or it failed: then it is as it was.
ListSettles ==
    lists = {} /\ ~timer /\ ~busy /\ ~dropped =>
        /\ total = Cardinality(Matching(query))
        /\ notes \subseteq {Copy(n) : n \in Matching(query)}
        /\ Page(query, 0) \subseteq notes
==============================================================================
