------------------------------ MODULE Preview -------------------------------
(***************************************************************************)
(* The preview window of the browser: which file it shows, the loads that  *)
(* are on their way (none is ever cancelled), the editor, its save, and    *)
(* the password it asks for when the master key was lost with a reload of  *)
(* the page.                                                               *)
(*                                                                         *)
(* A file is a text, whose content is a member of Texts, or Empty as long  *)
(* as it is new, or a medium, shown through an object URL.  Left out: the  *)
(* toolbar's downloads and exports, which change nothing here, files that  *)
(* are too large or locked by a password, and the keys of single files.    *)
(***************************************************************************)
EXTENDS FiniteSets

CONSTANTS
  Documents, \* text files
  Media,     \* images and the like
  Texts,     \* what the user types
  Empty,     \* the text of a new document
  Loads,     \* bounds the loads that are on their way
  Saves,     \* bounds the saves that are on their way
  None,      \* no file, no load, no save
  Patient    \* the user changes files only when nothing is open or on its way

Files == Documents \union Media

VARIABLES
  content,      \* content[f]: the text of f on the server
  listed,       \* listed[f]: the text of f when the list was fetched
  stale,        \* the list is to be fetched again
  node,         \* previewNode: the file shown and whether its size was 0
  mek,          \* the master key: "none", in the "session", or "derived" (mekDerived)
  view,         \* previewState
  editing,
  text,         \* editText
  of,           \* whose text was put into the editor when it was opened
  saving,
  needPassword,
  keysOff,      \* `editing` as the keyboard handler knows it
  blobUrl,      \* blobUrlRef: the medium its URL shows
  lost,         \* the media with a URL nobody will revoke
  load,         \* the loads on their way
  save,         \* the saves on their way
  derive,       \* the save that waits for the key
  typed         \* what the user has typed and neither saved nor thrown away

server == <<content, listed, stale>>
editor == <<editing, text, of>>
asked == <<saving, needPassword>>
vars == <<server, node, mek, view, editor, asked, keysOff, blobUrl, lost,
          load, save, derive, typed>>

AllTexts == Texts \union {Empty}
Node == [file : Files, new : BOOLEAN]
Load == [file : Files, key : BOOLEAN, text : AllTexts \union {None}, mounted : BOOLEAN]
Save == [file : Documents, text : AllTexts, of : Documents \union {None},
         stored : BOOLEAN, mounted : BOOLEAN]
Nothing == [status |-> "loading", file |-> None, text |-> Empty]

TypeOK ==
  /\ content \in [Files -> AllTexts]
  /\ listed \in [Files -> AllTexts]
  /\ stale \in BOOLEAN
  /\ node \in Node \union {None}
  /\ mek \in {"none", "session", "derived"}
  /\ view \in [status : {"loading", "text", "ready", "error"},
               file : Files \union {None}, text : AllTexts]
  /\ editing \in BOOLEAN
  /\ text \in AllTexts
  /\ of \in Documents \union {None}
  /\ saving \in BOOLEAN
  /\ needPassword \in BOOLEAN
  /\ keysOff \in BOOLEAN
  /\ blobUrl \in Media \union {None}
  /\ lost \subseteq Media
  /\ load \in [Loads -> Load \union {None}]
  /\ save \in [Saves -> Save \union {None}]
  /\ derive \in [file : Documents, text : AllTexts, of : Documents \union {None},
                 key : BOOLEAN, mounted : BOOLEAN] \union {None}
  /\ typed \in Texts \union {None}

Init ==
  /\ content \in [Files -> AllTexts]
  /\ \A f \in Media : content[f] = Empty
  /\ listed = content
  /\ stale = FALSE
  /\ node = None
  /\ mek \in {"none", "derived"}
  /\ view = Nothing
  /\ editing = FALSE
  /\ text = Empty
  /\ of = None
  /\ saving = FALSE
  /\ needPassword = FALSE
  /\ keysOff = FALSE
  /\ blobUrl = None
  /\ lost = {}
  /\ load = [l \in Loads |-> None]
  /\ save = [s \in Saves |-> None]
  /\ derive = None
  /\ typed = None

-----------------------------------------------------------------------------
\* loadPreview

Show(status, f, x) == view' = [status |-> status, file |-> f, text |-> x]

\* Variant: what is shown stays until the load has ended.
KeepShowing == UNCHANGED view

Blank == Show("loading", None, Empty)

\* Variant: the reference to the object URL is kept.
KeepUrl == UNCHANGED blobUrl

\* revokeBlobUrl
RevokeUrl == blobUrl' = None

\* The effect on a change of the file shown or of mekDerived: a new document
\* goes straight to the editor, anything else is fetched.  key says
\* whether mekDerived is set.
LoadPreview(n, key) ==
  /\ RevokeUrl
  /\ IF n.new
     THEN /\ Show("text", n.file, Empty)
          /\ editing' = TRUE
          /\ text' = Empty
          /\ of' = n.file
          /\ UNCHANGED load
     ELSE /\ Blank
          /\ \E l \in Loads :
               /\ load[l] = None
               /\ load' = [load EXCEPT ![l] = [file |-> n.file, key |-> key, text |-> None,
                                             mounted |-> TRUE]]
          /\ UNCHANGED editor

\* The answers of the server; a text may change before it is shown.
Fetch(l) ==
  /\ load[l] # None
  /\ load[l].text = None
  /\ load' = [load EXCEPT ![l].text = content[load[l].file]]
  /\ UNCHANGED <<server, node, mek, view, editor, asked, keysOff, blobUrl, lost,
                 save, derive, typed>>

\* What was loaded is shown, whatever file the window is at by now.  The URL of
\* a medium takes the place of the one that was there.
Loaded(l) ==
  /\ load[l] # None
  /\ load[l].text # None
  /\ LET f == load[l].file
     IN  /\ IF load[l].key /\ f \in Media
            THEN IF load[l].mounted
                 THEN /\ blobUrl' = f
                      /\ lost' = lost \union ({blobUrl} \ {None})
                 ELSE /\ lost' = lost \union {f}
                      /\ UNCHANGED blobUrl
            ELSE UNCHANGED <<blobUrl, lost>>
         /\ IF ~load[l].mounted THEN UNCHANGED view
            ELSE IF ~load[l].key THEN Show("error", f, Empty)
            ELSE IF f \in Media THEN Show("ready", f, Empty)
            ELSE Show("text", f, load[l].text)
  /\ load' = [load EXCEPT ![l] = None]
  /\ UNCHANGED <<server, node, mek, editor, asked, keysOff, save, derive, typed>>

\* A request of the load fails.
LoadFails(l) ==
  /\ load[l] # None
  /\ IF load[l].mounted THEN Show("error", load[l].file, Empty) ELSE UNCHANGED view
  /\ load' = [load EXCEPT ![l] = None]
  /\ UNCHANGED <<server, node, mek, editor, asked, keysOff, blobUrl, lost, save, derive,
                 typed>>

-----------------------------------------------------------------------------
\* Which file is shown

\* Nothing is on its way, being edited or asked, and the list is up to date.
Quiet ==
  /\ ~editing
  /\ ~needPassword
  /\ ~stale
  /\ derive = None
  /\ \A l \in Loads : load[l] = None
  /\ \A s \in Saves : save[s] = None

Listed(f) == [file |-> f, new |-> f \in Documents /\ listed[f] = Empty]

\* The window opens, with a state of its own.
Open(f) ==
  /\ node = None
  /\ node' = Listed(f)
  /\ Patient => Quiet
  /\ keysOff' = FALSE
  /\ LoadPreview(Listed(f), mek = "derived")
  /\ UNCHANGED <<server, mek, asked, lost, save, derive, typed>>

\* Another file is shown in the same window.  What was being edited stays in the
\* editor, unless the new file opens one; the keyboard handler is made anew.
Turn(f) ==
  /\ node # None
  /\ f # node.file
  /\ node' = Listed(f)
  /\ Patient => Quiet
  /\ keysOff' = editing
  /\ LoadPreview(Listed(f), mek = "derived")
  /\ UNCHANGED <<server, mek, asked, lost, save, derive>>

\* The window is closed: its state is gone, its loads and saves go on.
Leave ==
  /\ node # None
  /\ node' = None
  /\ Patient => \A l \in Loads : load[l] = None
  /\ view' = Nothing
  /\ editing' = FALSE
  /\ text' = Empty
  /\ of' = None
  /\ saving' = FALSE
  /\ needPassword' = FALSE
  /\ keysOff' = FALSE
  /\ RevokeUrl
  /\ load' = [l \in Loads |-> IF load[l] = None THEN None
                              ELSE [load[l] EXCEPT !.mounted = FALSE]]
  /\ save' = [s \in Saves |-> IF save[s] = None THEN None
                              ELSE [save[s] EXCEPT !.mounted = FALSE]]
  /\ derive' = IF derive = None THEN None ELSE [derive EXCEPT !.mounted = FALSE]
  /\ UNCHANGED <<server, mek, lost>>

\* The buttons: the user gives up what was typed.
ClickTurn(f) == Turn(f) /\ typed' = None
ClickClose == Leave /\ typed' = None

\* The keys: an arrow, Escape.  The handler does nothing while editing, as far as
\* it knows.
PressTurn(f) == ~keysOff /\ Turn(f) /\ UNCHANGED typed
PressClose == ~keysOff /\ Leave /\ UNCHANGED typed

\* The list is fetched again, and the keyboard handler made anew.
Refetch ==
  /\ stale
  /\ stale' = FALSE
  /\ listed' = content
  /\ keysOff' = (node # None /\ editing)
  /\ UNCHANGED <<content, node, mek, view, editor, asked, blobUrl, lost, load, save,
                 derive, typed>>

-----------------------------------------------------------------------------
\* The editor

InEditor == node # None /\ view.status = "text" /\ editing

\* handleEdit
Edit ==
  /\ node # None
  /\ view.status = "text"
  /\ ~editing
  /\ ~needPassword
  /\ editing' = TRUE
  /\ text' = view.text
  /\ of' = view.file
  /\ UNCHANGED <<server, node, mek, view, asked, keysOff, blobUrl, lost, load, save,
                 derive, typed>>

Type(t) ==
  /\ InEditor
  /\ t # text
  /\ text' = t
  /\ typed' = t
  /\ UNCHANGED <<server, node, mek, view, editing, of, asked, keysOff, blobUrl, lost,
                 load, save, derive>>

Cancel ==
  /\ InEditor
  /\ ~needPassword
  /\ editing' = FALSE
  /\ typed' = None
  /\ UNCHANGED <<server, node, mek, view, text, of, asked, keysOff, blobUrl, lost, load,
                 save, derive>>

\* The part of handleSave after its checks
Send(f, x, o, mounted) ==
  \E s \in Saves :
    /\ save[s] = None
    /\ save' = [save EXCEPT ![s] = [file |-> f, text |-> x, of |-> o, stored |-> FALSE,
                                    mounted |-> mounted]]

\* handleSave from the button: without the key the password is asked for.
HandleSave ==
  /\ InEditor
  /\ node.file \in Documents
  /\ ~needPassword
  /\ ~saving
  /\ IF mek = "derived"
     THEN /\ Send(node.file, text, of, TRUE)
          /\ saving' = TRUE
          /\ UNCHANGED needPassword
     ELSE needPassword' = TRUE /\ UNCHANGED <<saving, save>>
  /\ UNCHANGED <<server, node, mek, view, editor, keysOff, blobUrl, lost, load, derive,
                 typed>>

\* updateFileContent
Stored(s) ==
  /\ save[s] # None
  /\ ~save[s].stored
  /\ content' = [content EXCEPT ![save[s].file] = save[s].text]
  /\ save' = [save EXCEPT ![s].stored = TRUE]
  /\ UNCHANGED <<listed, stale, node, mek, view, editor, asked, keysOff, blobUrl, lost,
                 load, derive, typed>>

\* The answer arrives.
Saved(s) ==
  /\ save[s] # None
  /\ save[s].stored
  /\ IF save[s].mounted
     THEN /\ Show("text", save[s].file, save[s].text)
          /\ editing' = FALSE
          /\ saving' = FALSE
          /\ typed' = None
     ELSE UNCHANGED <<view, editing, saving, typed>>
  /\ stale' = TRUE
  /\ save' = [save EXCEPT ![s] = None]
  /\ UNCHANGED <<content, listed, node, mek, text, of, needPassword, keysOff, blobUrl,
                 lost, load, derive>>

\* It does not, or it is an error.
SaveFails(s) ==
  /\ save[s] # None
  /\ saving' = (saving /\ ~save[s].mounted)
  /\ save' = [save EXCEPT ![s] = None]
  /\ UNCHANGED <<server, node, mek, view, editor, needPassword, keysOff, blobUrl, lost,
                 load, derive, typed>>

-----------------------------------------------------------------------------
\* The password

DropPassword ==
  /\ needPassword
  /\ needPassword' = FALSE
  /\ UNCHANGED <<server, node, mek, view, editor, saving, keysOff, blobUrl, lost, load,
                 save, derive, typed>>

\* handleDeriveAndSave, with what it was rendered with
Derive ==
  /\ needPassword
  /\ view.status = "text"
  /\ node.file \in Documents
  /\ ~saving
  /\ derive = None
  /\ derive' = [file |-> node.file, text |-> text, of |-> of, key |-> mek = "derived",
                mounted |-> TRUE]
  /\ saving' = TRUE
  /\ UNCHANGED <<server, node, mek, view, editor, needPassword, keysOff, blobUrl, lost,
                 load, save, typed>>

\* The key is there: handleSave is called, which still goes by the mekDerived of
\* the click and may ask for the password again.
Derived ==
  /\ derive # None
  /\ derive' = None
  /\ mek' = IF mek = "none" THEN "session" ELSE mek
  /\ IF derive.key
     THEN Send(derive.file, derive.text, derive.of, derive.mounted)
     ELSE UNCHANGED save
  /\ IF derive.mounted
     THEN saving' = derive.key /\ needPassword' = ~derive.key
     ELSE UNCHANGED asked
  /\ UNCHANGED <<server, node, view, editor, keysOff, blobUrl, lost, load, typed>>

\* The store sets mekDerived, which loads the file shown once more.
StoreDerives ==
  /\ mek = "session"
  /\ mek' = "derived"
  /\ IF node = None THEN UNCHANGED <<view, editor, blobUrl, load>>
     ELSE LoadPreview(node, TRUE)
  /\ UNCHANGED <<server, node, asked, keysOff, lost, save, derive, typed>>

Next ==
  \/ \E f \in Files : Open(f) \/ ClickTurn(f) \/ PressTurn(f)
  \/ ClickClose \/ PressClose \/ Refetch
  \/ \E l \in Loads : Fetch(l) \/ Loaded(l) \/ LoadFails(l)
  \/ Edit \/ Cancel \/ \E t \in Texts : Type(t)
  \/ HandleSave \/ \E s \in Saves : Stored(s) \/ Saved(s) \/ SaveFails(s)
  \/ DropPassword \/ Derive \/ Derived \/ StoreDerives

Spec == Init /\ [][Next]_vars

-----------------------------------------------------------------------------
\* Correctness

\* What is on its way to a document was loaded from it, or typed over its own
\* text, provided files were changed only when nothing was going on: the window
\* and its editor outlive the file they show, and loads outlive both.
SavedWhereTyped ==
  Patient => \A s \in Saves : save[s] # None => save[s].of = save[s].file

\* Every object URL is revoked once the window shows something else.
UrlsAreRevoked == Patient => lost = {}

\* What the user has typed stays in the editor of its file until it is saved or
\* given up with a button: "Don't capture keys when editing text"
\* (PreviewModal.tsx:660).
TypedStays == typed # None => node # None /\ editing /\ text = typed /\ of = node.file
=============================================================================
