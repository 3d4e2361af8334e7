------------------------------ MODULE FileEditor ------------------------------
(***************************************************************************)
(* The editor for the files of a device's workspace (WorkspaceFilesCard):  *)
(* one modal, one state variable for the text, and requests that read and  *)
(* save files, none of which is called off.                                *)
(***************************************************************************)
EXTENDS SequencesExt

CONSTANTS
    Files,      \* files of the workspace
    Blank,      \* the text of no file
    MaxReads    \* reads that may be under way at once

ASSUME EditorConstants == Blank \notin Files /\ MaxReads \in Nat \ {0}

VARIABLES
    editOpen, editing,  \* the modal, and the file in its title
    editContent,        \* of which file the text in it is
    editLoading,
    reads,              \* files whose text has been asked for
    saving,             \* the file and the text of the save under way
    astray              \* history: since the modal was opened a read failed,
                        \* or reads overlapped

editorVars == <<editOpen, editing, editContent, editLoading, reads, saving, astray>>

NoSave == [file |-> Blank, content |-> Blank, excused |-> FALSE]

EditorInit ==
    /\ editOpen = FALSE /\ editing = Blank
    /\ editContent = Blank /\ editLoading = FALSE
    /\ reads = <<>> /\ saving = NoSave
    /\ astray = FALSE

\* Mutant: the text of the file before is left until the new one comes.
OpenEditorAsIs(f) ==
    /\ ~editOpen /\ Len(reads) < MaxReads
    /\ editOpen' = TRUE /\ editing' = f
    /\ reads' = Append(reads, f)
    /\ astray' = (reads # <<>>)
    /\ UNCHANGED <<editContent, editLoading, saving>>

\* A file is picked from the list, which the modal covers while it is open.
OpenEditor(f) ==
    /\ ~editOpen /\ Len(reads) < MaxReads
    /\ editOpen' = TRUE /\ editing' = f
    /\ editContent' = Blank /\ editLoading' = TRUE
    /\ reads' = Append(reads, f)
    /\ astray' = (reads # <<>>)
    /\ UNCHANGED saving

\* The text is shown in whatever the modal has been opened for since.
FileRead(i) ==
    /\ editContent' = reads[i]
    /\ editLoading' = FALSE
    /\ reads' = RemoveAt(reads, i)
    /\ UNCHANGED <<editOpen, editing, saving, astray>>

FileNotRead(i) ==
    /\ editLoading' = FALSE
    /\ reads' = RemoveAt(reads, i)
    /\ astray' = TRUE
    /\ UNCHANGED <<editOpen, editing, editContent, saving>>

\* The user's changes to a text do not make it another file's.
Cancel ==
    /\ editOpen
    /\ editOpen' = FALSE
    /\ UNCHANGED <<editing, editContent, editLoading, reads, saving, astray>>

\* handleSaveFile.  The button shows "loading" while saving, and only then.
Save ==
    /\ editOpen /\ saving = NoSave
    /\ saving' = [file |-> editing, content |-> editContent,
                  excused |-> astray \/ editLoading]
    /\ UNCHANGED <<editOpen, editing, editContent, editLoading, reads, astray>>

\* Saved: the modal is closed, whatever it shows by now.
Saved ==
    /\ saving # NoSave
    /\ saving' = NoSave /\ editOpen' = FALSE
    /\ UNCHANGED <<editing, editContent, editLoading, reads, astray>>

NotSaved ==
    /\ saving # NoSave
    /\ saving' = NoSave
    /\ UNCHANGED <<editOpen, editing, editContent, editLoading, reads, astray>>
-----------------------------------------------------------------------------
EditorNext ==
    \/ \E f \in Files : OpenEditor(f)
    \/ \E i \in DOMAIN reads : FileRead(i) \/ FileNotRead(i)
    \/ Cancel \/ Save \/ Saved \/ NotSaved
-----------------------------------------------------------------------------
EditorTypeOK ==
    /\ editOpen \in BOOLEAN /\ editLoading \in BOOLEAN /\ astray \in BOOLEAN
    /\ editing \in Files \cup {Blank} /\ editContent \in Files \cup {Blank}
    /\ reads \in Seq(Files) /\ Len(reads) <= MaxReads
    /\ saving \in [file : Files \cup {Blank}, content : Files \cup {Blank},
                   excused : BOOLEAN]

(***************************************************************************)
(* A file is overwritten only with a text that was read from it, however   *)
(* often the modal is closed, opened for another file and saved meanwhile. *)
(* (handleSaveFile.)  Three cases are excused, as nothing in the card      *)
(* guards against them: the user saves while the modal still says that it  *)
(* loads, its read has failed, or an earlier file's read was under way     *)
(* when it was opened.                                                     *)
(***************************************************************************)
SavesOwnText == saving.excused \/ saving.content = saving.file
=============================================================================
