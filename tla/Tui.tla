--------------------------------- MODULE Tui ---------------------------------
(***************************************************************************)
(* The terminal browser (cmd/tui): a picker, a configuration form, and a   *)
(* browser of the mount made from them.                                    *)
(*                                                                         *)
(* One message at a time updates the model.  What takes time is a command: *)
(* a closure over what the model held when it was issued, run by a         *)
(* goroutine of its own, whose message comes back in its own time.  So     *)
(* commands finish in any order, and so do the two that write an image to  *)
(* the terminal and erase it, past the text that bubbletea renders.        *)
(*                                                                         *)
(* The terminal is a Kitty: its images stay until erased.  A listing shows *)
(* what the directory holds by then (any listing of it in Content), and    *)
(* any call on the driver may fail.  Abstracted: form values, the status   *)
(* line, layout.                                                           *)
(***************************************************************************)
EXTENDS Naturals, Sequences
S == INSTANCE SequencesExt

CONSTANTS
    Fields,       \* the driver types in order: how many fields each asks for
    Content,      \* directory -> the listings it may have
    NoFile,       \* no file
    MaxCommands   \* bound: commands issued in one behaviour

Kinds == {"dir", "text", "image", "binary"}

ASSUME FieldsAssumption == Fields \in Seq(Nat \ {0}) /\ Fields # <<>>
ASSUME ContentAssumption ==
    \A d \in DOMAIN Content : Content[d] \subseteq Seq([name : STRING, kind : Kinds])

VARIABLES
    screen,     \* m.screen, or "quit"
    pickerIdx,  \* m.pickerIdx
    fieldIdx,   \* m.fieldIdx
    cwd,        \* m.cwd: the names on the way from the root
    entries,    \* m.entries
    browseIdx,  \* m.browseIdx
    preview,    \* m.preview: its kind and file
    cmds,       \* the commands that have not finished
    issued,     \* how many were issued
    drawn,      \* history: the file whose image the terminal shows
    lingers,    \* history: an image was left there by what replaced its preview
    listed,     \* history: the directory entries came from
    hasty       \* history: a key was pressed before every command was done

vars == <<screen, pickerIdx, fieldIdx, cwd, entries, browseIdx, preview, cmds,
          issued, drawn, lingers, listed, hasty>>

browser == <<cwd, entries, browseIdx, preview, cmds, issued, drawn, lingers, listed>>

Dirs == DOMAIN Content
NoPreview == [kind |-> "none", file |-> NoFile]

Entry == entries[browseIdx + 1]
Selected == Append(cwd, Entry.name)     \* joinPath(m.cwd, e.Name)

-----------------------------------------------------------------------------
Init ==
    /\ screen = "picker" /\ pickerIdx = 0 /\ fieldIdx = 0
    /\ cwd = <<>> /\ entries = <<>> /\ browseIdx = 0
    /\ preview = NoPreview
    /\ cmds = {} /\ issued = 0
    /\ drawn = NoFile /\ lingers = FALSE /\ listed = <<>> /\ hasty = FALSE

(* The user presses a key, whether or not he has waited.                   *)
Pressed(on) == screen = on /\ hasty' = (hasty \/ cmds # {})

(* Down looks at the last, up only at the first.                           *)
Step(idx, size) == {i \in {idx + 1} : i < size} \cup {i \in {idx - 1} : i >= 0}

PickerMove ==
    /\ Pressed("picker")
    /\ pickerIdx' \in Step(pickerIdx, Len(Fields))
    /\ UNCHANGED <<screen, fieldIdx, browser>>

(* Mutant: the form opens on the field it was left on.                     *)
PickerEnterSameField ==
    /\ Pressed("picker")
    /\ screen' = "config"
    /\ UNCHANGED <<pickerIdx, fieldIdx, browser>>

PickerEnter ==
    /\ Pressed("picker")
    /\ screen' = "config" /\ fieldIdx' = 0
    /\ UNCHANGED <<pickerIdx, browser>>

ConfigMove ==
    /\ Pressed("config")
    /\ fieldIdx' \in Step(fieldIdx, Fields[pickerIdx + 1])
    /\ UNCHANGED <<screen, pickerIdx, browser>>

ConfigEsc ==
    /\ Pressed("config")
    /\ screen' = "picker"
    /\ UNCHANGED <<pickerIdx, fieldIdx, browser>>

(* A command is a closure: it keeps what it was issued with.               *)
Issue(kind, path) ==
    /\ issued < MaxCommands
    /\ issued' = issued + 1
    /\ cmds' = cmds \cup {[n |-> issued + 1, kind |-> kind, path |-> path]}

(* Enter on the last field mounts, before the next message is taken; a     *)
(* mount that fails changes nothing but the status line.                   *)
Mounts ==
    /\ Pressed("config") /\ fieldIdx = Fields[pickerIdx + 1] - 1
    /\ screen' = "browser" /\ cwd' = <<>>
    /\ Issue("list", <<>>)
    /\ UNCHANGED <<pickerIdx, fieldIdx, entries, browseIdx, preview,
                   drawn, lingers, listed>>

(* q or ctrl+c: in the browser q also unmounts.  The commands in progress   *)
(* are not waited for.                                                     *)
Quit ==
    /\ \E on \in {"picker", "config", "browser"} : Pressed(on)
    /\ screen' = "quit"
    /\ UNCHANGED <<pickerIdx, fieldIdx, browser>>

-----------------------------------------------------------------------------
(* Keys of the browser.                                                    *)

(* Mutant: the preview goes and its image stays.                           *)
ClearPreviewOnly == preview' = NoPreview /\ UNCHANGED <<cmds, issued>>

(* Clearing a preview erases its image, if it had one, by a command.       *)
ClearPreview ==
    /\ preview' = NoPreview
    /\ IF preview.kind = "image" THEN Issue("clean", <<>>) ELSE UNCHANGED <<cmds, issued>>

KeepPreview == UNCHANGED <<preview, cmds, issued>>

(* Mutant: the cursor moves off and the preview stays.                     *)
MoveCursorOnly ==
    /\ Pressed("browser")
    /\ browseIdx' \in Step(browseIdx, Len(entries))
    /\ KeepPreview
    /\ UNCHANGED <<screen, pickerIdx, fieldIdx, cwd, entries,
                   drawn, lingers, listed>>

MoveCursor ==
    /\ Pressed("browser")
    /\ browseIdx' \in Step(browseIdx, Len(entries))
    /\ ClearPreview
    /\ UNCHANGED <<screen, pickerIdx, fieldIdx, cwd, entries,
                   drawn, lingers, listed>>

(* Enter joins the name under the cursor to the working directory, which   *)
(* has already moved on if a listing is still to come.                     *)
EnterFile ==
    /\ Pressed("browser") /\ entries # <<>> /\ Entry.kind # "dir"
    /\ Issue(Entry.kind, Selected)
    /\ UNCHANGED <<screen, pickerIdx, fieldIdx, cwd, entries, browseIdx, preview,
                   drawn, lingers, listed>>

Refresh(dir) ==
    /\ cwd' = dir
    /\ Issue("list", dir)
    /\ UNCHANGED <<screen, pickerIdx, fieldIdx, entries, browseIdx, preview,
                   drawn, lingers, listed>>

EnterDir ==
    /\ Pressed("browser") /\ entries # <<>> /\ Entry.kind = "dir"
    /\ Refresh(Selected)

Back == Pressed("browser") /\ cwd # <<>> /\ Refresh(S!Front(cwd))

Reload == Pressed("browser") /\ Refresh(cwd)

-----------------------------------------------------------------------------
(* Messages of finished commands.                                          *)

Finished(c) == screen = "browser" /\ c \in cmds /\ UNCHANGED hasty

(* The message of c is handled; its handler may return another command.    *)
Handled(c) == cmds' = cmds \ {c} /\ UNCHANGED issued

HandledIssuing(c, kind, path) ==
    /\ issued' = issued + 1
    /\ cmds' = (cmds \ {c}) \cup {[n |-> issued + 1, kind |-> kind, path |-> path]}

Cleared(c) ==
    /\ preview' = NoPreview
    /\ IF preview.kind = "image" THEN HandledIssuing(c, "clean", <<>>) ELSE Handled(c)

OnEntriesAt(c, idx) ==
    /\ Finished(c) /\ c.kind = "list" /\ c.path \in Dirs
    /\ entries' \in Content[c.path]
    /\ listed' = c.path
    /\ browseIdx' = idx
    /\ Cleared(c)
    /\ UNCHANGED <<screen, pickerIdx, fieldIdx, cwd, drawn, lingers>>

(* Mutant: the cursor stays where it was.                                  *)
OnEntriesKeepingCursor(c) == OnEntriesAt(c, browseIdx)

OnEntries(c) == OnEntriesAt(c, 0)

OnListError(c) ==
    /\ Finished(c) /\ c.kind = "list"
    /\ entries' = <<>>
    /\ Cleared(c)
    /\ UNCHANGED <<screen, pickerIdx, fieldIdx, cwd, browseIdx,
                   drawn, lingers, listed>>

(* What a preview of a file may turn out to be.                            *)
Results(kind) == IF kind \in Kinds \ {"dir"} THEN {kind, "error"} ELSE {}

Previews(c, kind) ==
    /\ Finished(c) /\ kind \in Results(c.kind)
    /\ preview' = [kind |-> kind, file |-> c.path]
    /\ lingers' = (lingers \/ (preview.kind = "image" /\ kind # "image"))
    /\ UNCHANGED <<screen, pickerIdx, fieldIdx, cwd, entries, browseIdx, drawn, listed>>

(* A preview replaces the one before it, and an image is then drawn.       *)
OnPreview(c) ==
    \E kind \in Results(c.kind) :
        /\ Previews(c, kind)
        /\ IF kind = "image" THEN HandledIssuing(c, "draw", c.path) ELSE Handled(c)

(* Drawing erases the images before it.                                    *)
Emit(c) ==
    /\ Finished(c) /\ c.kind \in {"draw", "clean"}
    /\ drawn' = IF c.kind = "draw" THEN c.path ELSE NoFile
    /\ lingers' = FALSE
    /\ Handled(c)
    /\ UNCHANGED <<screen, pickerIdx, fieldIdx, cwd, entries, browseIdx, preview, listed>>

Next ==
    \/ PickerMove \/ PickerEnter
    \/ ConfigMove \/ ConfigEsc \/ Mounts
    \/ Quit \/ MoveCursor \/ EnterFile \/ EnterDir \/ Back \/ Reload
    \/ \E c \in cmds : OnEntries(c) \/ OnListError(c) \/ OnPreview(c) \/ Emit(c)

Spec == Init /\ [][Next]_vars

-----------------------------------------------------------------------------
(* Properties.                                                             *)

(* Every variable has its type, and the indices of the picker and the form *)
(* stay within what they index.                                            *)
TypeOK ==
    /\ screen \in {"picker", "config", "browser", "quit"}
    /\ pickerIdx \in 0..Len(Fields) - 1
    /\ fieldIdx \in Nat
    /\ cmds \subseteq [n : 1..issued, kind : {"list", "draw", "clean"} \cup Kinds,
                         path : Seq(STRING)]
    /\ cwd \in Seq(STRING)
    /\ entries \in Seq([name : STRING, kind : Kinds])
    /\ screen = "config" => fieldIdx < Fields[pickerIdx + 1]
    /\ browseIdx \in Nat
    /\ entries # <<>> => listed \in Dirs
    /\ preview.kind \in {"none", "error", "text", "image", "binary"}
    /\ issued \in Nat
    /\ hasty \in BOOLEAN

(* The cursor is on an entry whenever there are any, whatever the order in *)
(* which listings of other lengths arrive: Enter indexes entries with it.  *)
CursorOnEntry == entries # <<>> => browseIdx < Len(entries)

(* The rest is said of a user who waits for what he asked for.  One who    *)
(* does not can have an older listing overwrite a newer one, and a preview *)
(* shown beside the entry he moved to: nothing tells late messages apart.  *)

(* A preview is beside the entry it previews, while commands run too; and  *)
(* once every command is done, the entries shown are those of the working  *)
(* directory: Enter joins one's name to the other's path.                  *)
PreviewAndListingAgree ==
    ~hasty =>
        /\ preview.kind # "none" =>
               /\ entries # <<>> /\ listed = S!Front(preview.file)
               /\ Entry.name = S!Last(preview.file)
        /\ cmds = {} /\ entries # <<>> => listed = cwd

(* Once every command is done, the terminal shows the image that is being  *)
(* previewed, and none when there is none: what main.go:420 and 455 promise*)
(* of the erasure.  But an image stays there, whatever the cursor moves to,*)
(* when its file was opened again and that failed: the error replaces the  *)
(* preview, and what has no image is cleared without erasing one.          *)
TerminalShowsPreview ==
    ~hasty /\ cmds = {} =>
        /\ preview.kind = "image" => drawn = preview.file
        /\ preview.kind # "image" => drawn = NoFile \/ lingers
==============================================================================
