----------------------------- MODULE Tui_proofs ------------------------------
(***************************************************************************)
(* For every set of drivers and directories, every user and every order in *)
(* which commands finish: the browser's variables keep their types, and    *)
(* its cursor never points past the entries it shows.  The two are proved  *)
(* together: Enter's path has a type only because the cursor is on an      *)
(* entry.                                                                  *)
(*                                                                         *)
(* For a user who waits besides, what is on the screen belongs together.   *)
(* The argument: at most one command is on its way, and nothing it was     *)
(* issued for has changed when it is handled (Waited).                     *)
(***************************************************************************)
EXTENDS Tui, TLAPS

Inv == TypeOK /\ CursorOnEntry

(* A cursor that is within what it steps in stays within it.               *)
LEMMA StepStaysInside ==
    ASSUME NEW idx \in Nat, NEW size \in Nat, NEW i \in Step(idx, size)
    PROVE  i \in Nat /\ (idx < size => i < size)
  BY DEF Step

(* The parent of a path is a path.                                         *)
LEMMA FrontIsPath ==
    ASSUME NEW p \in Seq(STRING), p # <<>>
    PROVE  S!Front(p) \in Seq(STRING)
  BY DEF S!Front

(* Issuing a command keeps the commands numbered and typed.                *)
LEMMA IssueKeepsCommands ==
    ASSUME TypeOK, NEW kind \in {"list", "draw", "clean"} \cup Kinds,
           NEW path \in Seq(STRING),
           issued' = issued + 1,
           cmds' \subseteq cmds \cup {[n |-> issued + 1, kind |-> kind, path |-> path]}
    PROVE  /\ issued' \in Nat
           /\ cmds' \subseteq [n : 1..issued', kind : {"list", "draw", "clean"} \cup Kinds,
                               path : Seq(STRING)]
  <1>1. issued' \in Nat /\ issued + 1 \in 1..issued' /\ 1..issued \subseteq 1..issued'
    BY DEF TypeOK
  <1>2. ASSUME NEW c \in cmds
        PROVE  c \in [n : 1..issued', kind : {"list", "draw", "clean"} \cup Kinds,
                      path : Seq(STRING)]
    BY <1>1 DEF TypeOK
  <1> QED BY <1>1, <1>2

(* So does clearing a preview, by a key or by a listing's arrival.         *)
LEMMA ClearKeepsCommands ==
    ASSUME TypeOK, ClearPreview \/ \E c \in cmds : Cleared(c)
    PROVE  /\ issued' \in Nat
           /\ cmds' \subseteq [n : 1..issued', kind : {"list", "draw", "clean"} \cup Kinds,
                               path : Seq(STRING)]
           /\ preview'.kind = "none"
  <1>1. preview' = NoPreview
    BY DEF ClearPreview, Cleared
  <1>2. CASE issued' = issued /\ cmds' \subseteq cmds
    BY <1>1, <1>2 DEF TypeOK, NoPreview
  <1>3. CASE /\ issued' = issued + 1
             /\ cmds' \subseteq cmds \cup {[n |-> issued + 1, kind |-> "clean", path |-> <<>>]}
    <2>1. <<>> \in Seq(STRING) /\ "clean" \in {"list", "draw", "clean"} \cup Kinds
      OBVIOUS
    <2> QED BY <1>1, <1>3, <2>1, IssueKeepsCommands DEF NoPreview
  <1> QED
    BY <1>2, <1>3 DEF ClearPreview, Cleared, Issue, Handled,
                      HandledIssuing

LEMMA ElementHasType ==
    ASSUME NEW T, NEW s \in Seq(T), NEW i \in 1..Len(s)
    PROVE  s[i] \in T
  OBVIOUS

(* What Enter joins is a path and a kind of entry.                         *)
LEMMA SelectedIsPath ==
    ASSUME Inv, entries # <<>>
    PROVE  Selected \in Seq(STRING) /\ Entry.kind \in Kinds
  <1>1. browseIdx + 1 \in 1..Len(entries)
    BY DEF Inv, TypeOK, CursorOnEntry
  <1>2. Entry \in [name : STRING, kind : Kinds]
    BY <1>1, ElementHasType DEF Inv, TypeOK, Entry
  <1> QED BY <1>2 DEF Inv, TypeOK, Selected

LEMMA InitInv == Init => Inv
  <1>1. Init => hasty \in BOOLEAN
    BY Zenon DEF Init
  <1> QED
    BY <1>1, FieldsAssumption DEF Init, Inv, TypeOK, CursorOnEntry, NoPreview

(* Every step keeps whether the user has been hasty a truth value.         *)
LEMMA HastyStays == TypeOK /\ [Next]_vars => hasty' \in BOOLEAN
  <1> SUFFICES ASSUME TypeOK, [Next]_vars PROVE hasty' \in BOOLEAN
    OBVIOUS
  <1>1. ASSUME NEW on, Pressed(on) PROVE hasty' \in BOOLEAN
    BY <1>1, Zenon DEF Pressed
  <1>2. ASSUME NEW c, Finished(c) PROVE hasty' \in BOOLEAN
    BY <1>2 DEF Finished, TypeOK
  <1>3. CASE UNCHANGED vars
    BY <1>3 DEF vars, TypeOK
  <1>4. \A on : Pressed(on) => hasty' \in BOOLEAN
    BY <1>1
  <1>5. \A c : Finished(c) => hasty' \in BOOLEAN
    BY <1>2
  <1> QED
    BY <1>3, <1>4, <1>5
       DEF Next, PickerMove, PickerEnter, ConfigMove, ConfigEsc, Mounts, Quit,
           MoveCursor, EnterFile, EnterDir, Back, Reload, OnEntries, OnEntriesAt,
           OnListError, OnPreview, Previews, Emit

LEMMA StepInv == Inv /\ [Next]_vars => Inv'
  <1> SUFFICES ASSUME Inv, [Next]_vars PROVE Inv'
    OBVIOUS
  <1> USE DEF Inv
  <1>0. hasty' \in BOOLEAN
    BY HastyStays
  <1>1. CASE PickerMove
    <2>1. pickerIdx' \in 0..Len(Fields) - 1
      BY <1>1, StepStaysInside, FieldsAssumption DEF PickerMove, TypeOK
    <2> QED BY <1>0, <1>1, <2>1 DEF PickerMove, Pressed, TypeOK, CursorOnEntry, browser
  <1>2. CASE PickerEnter
    <2>1. Fields[pickerIdx + 1] \in Nat \ {0}
      BY FieldsAssumption DEF TypeOK
    <2> QED BY <1>0, <1>2, <2>1 DEF PickerEnter, TypeOK, CursorOnEntry, browser
  <1>3. CASE ConfigMove
    <2>1. Fields[pickerIdx + 1] \in Nat
      BY FieldsAssumption DEF TypeOK
    <2>2. fieldIdx \in Nat /\ fieldIdx < Fields[pickerIdx + 1]
          /\ fieldIdx' \in Step(fieldIdx, Fields[pickerIdx + 1])
      BY <1>3 DEF ConfigMove, Pressed, TypeOK
    <2>3. fieldIdx' \in Nat /\ fieldIdx' < Fields[pickerIdx + 1]
      BY <2>1, <2>2, StepStaysInside
    <2> QED BY <1>0, <1>3, <2>3 DEF ConfigMove, TypeOK, CursorOnEntry, browser
  <1>4. CASE ConfigEsc
    BY <1>0, <1>4 DEF ConfigEsc, TypeOK, CursorOnEntry, browser
  <1>5. CASE Mounts
    <2>1. <<>> \in Seq(STRING) /\ "list" \in {"list", "draw", "clean"} \cup Kinds
      OBVIOUS
    <2>2. /\ issued' \in Nat
          /\ cmds' \subseteq [n : 1..issued', kind : {"list", "draw", "clean"} \cup Kinds,
                              path : Seq(STRING)]
      BY <1>5, <2>1, IssueKeepsCommands DEF Mounts, Issue
    <2> QED BY <1>0, <1>5, <2>1, <2>2 DEF Mounts, TypeOK, CursorOnEntry
  <1>6. CASE Quit
    BY <1>0, <1>6 DEF Quit, TypeOK, CursorOnEntry, browser
  <1>7. CASE MoveCursor
    <2>1. browseIdx' \in Nat /\ (browseIdx < Len(entries) => browseIdx' < Len(entries))
      BY <1>7, StepStaysInside DEF MoveCursor, TypeOK
    <2>2. /\ issued' \in Nat
          /\ cmds' \subseteq [n : 1..issued', kind : {"list", "draw", "clean"} \cup Kinds,
                              path : Seq(STRING)]
          /\ preview'.kind = "none"
      BY <1>7, ClearKeepsCommands DEF MoveCursor
    <2> QED BY <1>0, <1>7, <2>1, <2>2 DEF MoveCursor, TypeOK, CursorOnEntry
  <1>8. CASE EnterFile
    <2>1. Selected \in Seq(STRING) /\ Entry.kind \in {"list", "draw", "clean"} \cup Kinds
      BY <1>8, SelectedIsPath DEF EnterFile
    <2>2. /\ issued' \in Nat
          /\ cmds' \subseteq [n : 1..issued', kind : {"list", "draw", "clean"} \cup Kinds,
                              path : Seq(STRING)]
      BY <1>8, <2>1, IssueKeepsCommands DEF EnterFile, Issue
    <2> QED BY <1>0, <1>8, <2>2 DEF EnterFile, TypeOK, CursorOnEntry
  <1>9. ASSUME NEW dir \in Seq(STRING), Refresh(dir) PROVE Inv'
    <2>1. /\ issued' \in Nat
          /\ cmds' \subseteq [n : 1..issued', kind : {"list", "draw", "clean"} \cup Kinds,
                              path : Seq(STRING)]
      BY <1>9, IssueKeepsCommands DEF Refresh, Issue
    <2> QED BY <1>0, <1>9, <2>1 DEF Refresh, TypeOK, CursorOnEntry
  <1>10. CASE EnterDir
    BY <1>9, <1>10, SelectedIsPath DEF EnterDir
  <1>11. CASE Back
    BY <1>9, <1>11, FrontIsPath DEF Back, TypeOK
  <1>12. CASE Reload
    BY <1>9, <1>12 DEF Reload, TypeOK
  <1>13. ASSUME NEW c \in cmds, OnEntries(c) PROVE Inv'
    <2>1. entries' \in Seq([name : STRING, kind : Kinds]) /\ listed' \in Dirs
      BY <1>13, ContentAssumption DEF OnEntries, OnEntriesAt, Dirs
    <2>2. entries' # <<>> => browseIdx' = 0 /\ 0 < Len(entries')
      BY <1>13, <2>1 DEF OnEntries, OnEntriesAt
    <2>3. /\ issued' \in Nat
          /\ cmds' \subseteq [n : 1..issued', kind : {"list", "draw", "clean"} \cup Kinds,
                              path : Seq(STRING)]
          /\ preview'.kind = "none"
      BY <1>13, ClearKeepsCommands DEF OnEntries, OnEntriesAt
    <2> QED
      BY <1>0, <1>13, <2>1, <2>2, <2>3 DEF OnEntries, OnEntriesAt, TypeOK, CursorOnEntry
  <1>14. ASSUME NEW c \in cmds, OnListError(c) PROVE Inv'
    <2>1. /\ issued' \in Nat
          /\ cmds' \subseteq [n : 1..issued', kind : {"list", "draw", "clean"} \cup Kinds,
                              path : Seq(STRING)]
          /\ preview'.kind = "none"
      BY <1>14, ClearKeepsCommands DEF OnListError
    <2> QED BY <1>0, <1>14, <2>1 DEF OnListError, TypeOK, CursorOnEntry
  <1>15. ASSUME NEW c \in cmds, OnPreview(c) PROVE Inv'
    <2>1. PICK kind \in Results(c.kind) :
              /\ Previews(c, kind)
              /\ IF kind = "image" THEN HandledIssuing(c, "draw", c.path) ELSE Handled(c)
      BY <1>15 DEF OnPreview
    <2>2. kind \in {"error", "text", "image", "binary"}
      BY <2>1 DEF Results, Kinds
    <2>3. preview'.kind \in {"none", "error", "text", "image", "binary"}
      BY <2>1, <2>2 DEF Previews
    <2>4. /\ issued' \in Nat
          /\ cmds' \subseteq [n : 1..issued', kind : {"list", "draw", "clean"} \cup Kinds,
                              path : Seq(STRING)]
      <3>1. CASE kind = "image"
        <4>1. c.path \in Seq(STRING) /\ "draw" \in {"list", "draw", "clean"} \cup Kinds
          BY DEF TypeOK
        <4> QED BY <2>1, <3>1, <4>1, IssueKeepsCommands DEF HandledIssuing
      <3>2. CASE kind # "image"
        BY <2>1, <3>2 DEF Handled, TypeOK
      <3> QED BY <3>1, <3>2
    <2> QED BY <1>0, <2>1, <2>3, <2>4 DEF Previews, TypeOK, CursorOnEntry
  <1>16. ASSUME NEW c \in cmds, Emit(c) PROVE Inv'
    BY <1>0, <1>16 DEF Emit, Handled, TypeOK, CursorOnEntry
  <1>17. CASE UNCHANGED vars
    BY <1>0, <1>17 DEF vars, TypeOK, CursorOnEntry
  <1> QED
    BY <1>1, <1>2, <1>3, <1>4, <1>5, <1>6, <1>7, <1>8, <1>10, <1>11, <1>12, <1>13,
       <1>14, <1>15, <1>16, <1>17 DEF Next

LEMMA Invariance == Spec => []Inv
  BY InitInv, StepInv, PTL DEF Spec

(* The browser's variables keep their types, and the picker's and the      *)
(* form's indices stay in range.                                           *)
THEOREM TypeCorrect == Spec => []TypeOK
  BY Invariance, PTL DEF Inv

(* Whatever listings arrive in whatever order, of whatever lengths, Enter  *)
(* never indexes past the entries: the model cannot panic there.           *)
THEOREM CursorNeverDangles == Spec => []CursorOnEntry
  BY Invariance, PTL DEF Inv

-----------------------------------------------------------------------------
(* A user who waits.  Then at most one command is on its way, and what it  *)
(* was issued with is still so when its message is handled.                *)

(* What a command was issued with has not changed meanwhile.               *)
UpToDate(c) ==
    /\ c.kind = "list" => c.path = cwd
    /\ c.kind \in Kinds => entries # <<>> /\ c.path = Selected
    /\ c.kind = "draw" => preview.kind = "image" /\ preview.file = c.path
    /\ c.kind = "clean" => preview.kind = "none"

PreviewBeside ==
    preview.kind # "none" =>
        /\ entries # <<>> /\ listed = S!Front(preview.file)
        /\ Entry.name = S!Last(preview.file)

ListedIsCwd ==
    entries # <<>> /\ (\A c \in cmds : c.kind # "list") => listed = cwd

ImageIsDrawn ==
    preview.kind = "image" => drawn = preview.file \/ \E c \in cmds : c.kind = "draw"

ImageIsErased ==
    preview.kind # "image" => drawn = NoFile \/ lingers \/ \E c \in cmds : c.kind = "clean"

Orderly ==
    /\ \A c, d \in cmds : c = d
    /\ \A c \in cmds : UpToDate(c)
    /\ PreviewBeside /\ ListedIsCwd /\ ImageIsDrawn /\ ImageIsErased

Waited == ~hasty => Orderly

(* The path Enter joins is the working directory and the entry's name.     *)
LEMMA SelectedParts ==
    ASSUME Inv, entries # <<>>
    PROVE  S!Front(Selected) = cwd /\ S!Last(Selected) = Entry.name
  <1>1. cwd \in Seq(STRING) /\ Entry.name \in STRING
    <2>1. browseIdx + 1 \in 1..Len(entries)
      BY DEF Inv, TypeOK, CursorOnEntry
    <2>2. Entry \in [name : STRING, kind : Kinds]
      BY <2>1, ElementHasType DEF Inv, TypeOK, Entry
    <2> QED BY <2>2 DEF Inv, TypeOK
  <1> QED BY <1>1 DEF Selected, S!Front, S!Last

(* A user who has waited found every command done.                         *)
LEMMA PressedWaiting ==
    ASSUME Waited, NEW on, Pressed(on), ~hasty'
    PROVE  Orderly /\ cmds = {}
  BY Zenon DEF Waited, Pressed

(* A command that is handled was the only one.                             *)
LEMMA OnlyCommand ==
    ASSUME Orderly, NEW c \in cmds
    PROVE  cmds \ {c} = {} /\ cmds = {c}
  BY DEF Orderly

LEMMA WaitedInit == Init => Waited
  BY DEF Init, Waited, Orderly, PreviewBeside, ListedIsCwd, ImageIsDrawn, ImageIsErased,
         NoPreview

(* A preview is cleared, and an image erased by the one command then left. *)
LEMMA ClearedOrderly ==
    ASSUME preview' = NoPreview,
           \/ cmds' = {}
           \/ \E n : cmds' = {[n |-> n, kind |-> "clean", path |-> <<>>]},
           cmds' = {} => drawn' = NoFile \/ lingers',
           entries' # <<>> => listed' = cwd'
    PROVE  Orderly'
  <1>1. preview'.kind = "none"
    BY DEF NoPreview
  <1>2. \A c \in cmds' : c.kind = "clean"
    OBVIOUS
  <1>3. \A c, d \in cmds' : c = d
    OBVIOUS
  <1>4. (\A c \in cmds : UpToDate(c))'
    BY <1>1, <1>2 DEF UpToDate, Kinds
  <1>5. PreviewBeside' /\ ListedIsCwd' /\ ImageIsDrawn'
    BY <1>1 DEF PreviewBeside, ListedIsCwd, ImageIsDrawn
  <1>6. ImageIsErased'
    BY <1>2 DEF ImageIsErased
  <1> QED BY <1>3, <1>4, <1>5, <1>6 DEF Orderly

(* The directory is listed again, or another one is.                       *)
LEMMA ListingOrderly ==
    ASSUME Orderly, cmds = {}, Issue("list", cwd'),
           UNCHANGED <<entries, browseIdx, preview, drawn, lingers, listed>>
    PROVE  Orderly'
  <1>1. cmds' = {[n |-> issued + 1, kind |-> "list", path |-> cwd']}
    BY DEF Issue
  <1>2. \A c \in cmds' : c.kind = "list" /\ c.path = cwd'
    BY <1>1
  <1>3. \A c, d \in cmds' : c = d
    BY <1>1
  <1>4. (\A c \in cmds : UpToDate(c))'
    BY <1>2 DEF UpToDate, Kinds
  <1>5. PreviewBeside'
    BY DEF Orderly, PreviewBeside, Entry
  <1>6. ListedIsCwd'
    BY <1>1, <1>2 DEF ListedIsCwd
  <1>7. ImageIsDrawn' /\ ImageIsErased'
    BY DEF Orderly, ImageIsDrawn, ImageIsErased
  <1> QED BY <1>3, <1>4, <1>5, <1>6, <1>7 DEF Orderly

(* A file's preview is asked for.                                          *)
LEMMA EnterFileOrderly ==
    ASSUME Orderly, cmds = {}, EnterFile, Inv
    PROVE  Orderly'
  <1>1. cmds' = {[n |-> issued + 1, kind |-> Entry.kind, path |-> Selected]}
    BY DEF EnterFile, Issue
  <1>2. Entry.kind \in Kinds /\ entries # <<>>
    BY SelectedIsPath DEF EnterFile
  <1>3. UNCHANGED <<cwd, entries, browseIdx, preview, drawn, lingers, listed>>
    BY DEF EnterFile
  <1>4. \A c \in cmds' : c.kind \in Kinds /\ c.path = Selected
    BY <1>1, <1>2
  <1>5. \A c, d \in cmds' : c = d
    BY <1>1
  <1>6. (\A c \in cmds : UpToDate(c))'
    BY <1>2, <1>3, <1>4 DEF UpToDate, Kinds, Selected, Entry
  <1>7. PreviewBeside'
    BY <1>3 DEF Orderly, PreviewBeside, Entry
  <1>8. ListedIsCwd' /\ ImageIsDrawn' /\ ImageIsErased'
    BY <1>3 DEF Orderly, ListedIsCwd, ImageIsDrawn, ImageIsErased
  <1> QED BY <1>5, <1>6, <1>7, <1>8 DEF Orderly

(* The preview of the entry under the cursor arrives.                      *)
LEMMA PreviewOrderly ==
    ASSUME Orderly, Inv, NEW c \in cmds, OnPreview(c)
    PROVE  Orderly'
  <1>1. PICK kind \in Results(c.kind) :
            /\ Previews(c, kind)
            /\ IF kind = "image" THEN HandledIssuing(c, "draw", c.path) ELSE Handled(c)
    BY DEF OnPreview
  <1>2. c.kind \in Kinds
    BY <1>1 DEF Results
  <1>3. entries # <<>> /\ c.path = Selected
    BY <1>2 DEF Orderly, UpToDate
  <1>4. cmds \ {c} = {} /\ cmds = {c}
    BY OnlyCommand
  <1>5. listed = cwd
    BY <1>2, <1>3, <1>4 DEF Orderly, ListedIsCwd, Kinds
  <1>6. /\ UNCHANGED <<cwd, entries, browseIdx, drawn, listed>>
        /\ preview'.kind = kind /\ preview'.file = c.path
    BY <1>1 DEF Previews
  <1>7. PreviewBeside'
    <2>1. S!Front(c.path) = cwd /\ S!Last(c.path) = Entry.name
      BY <1>3, SelectedParts
    <2> QED BY <1>3, <1>5, <1>6, <2>1 DEF PreviewBeside, Entry
  <1>8. ListedIsCwd'
    BY <1>5, <1>6 DEF ListedIsCwd
  <1>9. CASE kind = "image"
    <2>1. cmds' = {[n |-> issued + 1, kind |-> "draw", path |-> c.path]}
      BY <1>1, <1>4, <1>9 DEF HandledIssuing
    <2>2. \A d \in cmds' : d.kind = "draw" /\ d.path = c.path
      BY <2>1
    <2>3. (\A d \in cmds : UpToDate(d))'
      BY <1>6, <1>9, <2>2 DEF UpToDate, Kinds
    <2>4. ImageIsDrawn' /\ ImageIsErased'
      BY <1>6, <1>9, <2>1 DEF ImageIsDrawn, ImageIsErased
    <2>5. \A d, e \in cmds' : d = e
      BY <2>1
    <2> QED BY <1>7, <1>8, <2>3, <2>4, <2>5 DEF Orderly
  <1>10. CASE kind # "image"
    <2>1. cmds' = {}
      BY <1>1, <1>4, <1>10 DEF Handled
    <2>2. ImageIsErased'
      <3>1. \/ preview.kind = "image"
            \/ drawn = NoFile
            \/ lingers
        BY <1>2, <1>4 DEF Orderly, ImageIsErased, Kinds
      <3>2. preview.kind = "image" \/ lingers => lingers'
        BY <1>1, <1>10, Zenon DEF Previews
      <3> QED BY <1>6, <3>1, <3>2 DEF ImageIsErased
    <2> QED BY <1>6, <1>7, <1>8, <1>10, <2>1, <2>2 DEF Orderly, ImageIsDrawn
  <1> QED BY <1>9, <1>10

(* An image is drawn or erased.                                            *)
LEMMA EmitOrderly ==
    ASSUME Orderly, NEW c \in cmds, Emit(c)
    PROVE  Orderly'
  <1>1. cmds \ {c} = {} /\ cmds = {c}
    BY OnlyCommand
  <1>2. cmds' = {} /\ c.kind \in {"draw", "clean"}
        /\ UNCHANGED <<cwd, entries, browseIdx, preview, listed>>
    BY <1>1 DEF Emit, Handled
  <1>3. PreviewBeside'
    BY <1>2 DEF Orderly, PreviewBeside, Entry
  <1>4. ListedIsCwd'
    BY <1>1, <1>2 DEF Orderly, ListedIsCwd
  <1>5. ImageIsDrawn' /\ ImageIsErased'
    BY <1>2 DEF Emit, Orderly, UpToDate, ImageIsDrawn, ImageIsErased
  <1> QED BY <1>2, <1>3, <1>4, <1>5 DEF Orderly

LEMMA WaitedStep == Inv /\ Waited /\ [Next]_vars => Waited'
  <1> SUFFICES ASSUME Inv, Waited, [Next]_vars, ~hasty' PROVE Orderly'
    BY DEF Waited
  <1>1. \A on : Pressed(on) => Orderly /\ cmds = {}
    BY PressedWaiting
  <1>2. ASSUME UNCHANGED hasty PROVE Orderly
    BY <1>2 DEF Waited
  <1>3. ASSUME UNCHANGED browser, Orderly PROVE Orderly'
    BY <1>3 DEF browser, Orderly, UpToDate, PreviewBeside, ListedIsCwd, ImageIsDrawn,
                ImageIsErased, Selected, Entry
  <1>4. CASE PickerMove \/ PickerEnter \/ ConfigMove \/ ConfigEsc \/ Quit
    <2>1. Orderly /\ UNCHANGED browser
      BY <1>1, <1>4 DEF PickerMove, PickerEnter, ConfigMove, ConfigEsc, Quit
    <2> QED BY <1>3, <2>1
  <1>5. CASE Mounts
    <2>1. Orderly /\ cmds = {} /\ Issue("list", cwd')
          /\ UNCHANGED <<entries, browseIdx, preview, drawn, lingers, listed>>
      BY <1>1, <1>5 DEF Mounts
    <2> QED BY <2>1, ListingOrderly
  <1>6. CASE MoveCursor
    <2>1. Orderly /\ cmds = {}
      BY <1>1, <1>6 DEF MoveCursor
    <2>2. /\ preview' = NoPreview
          /\ cmds' = {} \/ cmds' = {[n |-> issued + 1, kind |-> "clean", path |-> <<>>]}
      BY <1>6, <2>1 DEF MoveCursor, ClearPreview, Issue
    <2>3. entries' # <<>> => listed' = cwd'
      BY <1>6, <2>1 DEF MoveCursor, Orderly, ListedIsCwd
    <2>4. preview.kind = "image" => cmds' # {}
      BY <1>6 DEF MoveCursor, ClearPreview, Issue
    <2>5. preview.kind # "image" => drawn = NoFile \/ lingers
      BY <2>1 DEF Orderly, ImageIsErased
    <2>6. drawn' = drawn /\ lingers' = lingers
      BY <1>6 DEF MoveCursor
    <2> QED BY <2>2, <2>3, <2>4, <2>5, <2>6, ClearedOrderly
  <1>7. CASE EnterFile
    BY <1>1, <1>7, EnterFileOrderly DEF EnterFile
  <1>8. ASSUME NEW dir, NEW on, Pressed(on), Refresh(dir) PROVE Orderly'
    <2>1. Orderly /\ cmds = {} /\ Issue("list", cwd')
          /\ UNCHANGED <<entries, browseIdx, preview, drawn, lingers, listed>>
      BY <1>1, <1>8 DEF Refresh
    <2> QED BY <2>1, ListingOrderly
  <1>9. CASE EnterDir \/ Back \/ Reload
    BY <1>8, <1>9 DEF EnterDir, Back, Reload
  <1>10. ASSUME NEW c \in cmds, c.kind = "list", Orderly, Cleared(c), UNCHANGED <<drawn, lingers>>
         PROVE  /\ preview' = NoPreview
                /\ \/ cmds' = {}
                   \/ \E n : cmds' = {[n |-> n, kind |-> "clean", path |-> <<>>]}
                /\ cmds' = {} => drawn' = NoFile \/ lingers'
    <2>1. cmds \ {c} = {} /\ cmds = {c}
      BY <1>10, OnlyCommand
    <2>2. preview.kind = "image" => cmds' # {}
      BY <1>10 DEF Cleared, HandledIssuing
    <2>3. preview.kind # "image" => drawn = NoFile \/ lingers
      BY <1>10, <2>1 DEF Orderly, ImageIsErased
    <2>4. /\ preview' = NoPreview
          /\ \/ cmds' = {}
             \/ \E n : cmds' = {[n |-> n, kind |-> "clean", path |-> <<>>]}
      BY <1>10, <2>1 DEF Cleared, Handled, HandledIssuing
    <2> QED BY <1>10, <2>2, <2>3, <2>4
  <1>11. ASSUME NEW c \in cmds, OnEntries(c) PROVE Orderly'
    <2>1. Orderly
      BY <1>2, <1>11 DEF OnEntries, OnEntriesAt, Finished
    <2>2. listed' = cwd'
      BY <1>11, <2>1 DEF OnEntries, OnEntriesAt, Orderly, UpToDate
    <2>3. Cleared(c) /\ c.kind = "list" /\ UNCHANGED <<drawn, lingers>>
      BY <1>11 DEF OnEntries, OnEntriesAt
    <2> QED BY <1>10, <2>1, <2>2, <2>3, ClearedOrderly
  <1>12. ASSUME NEW c \in cmds, OnListError(c) PROVE Orderly'
    <2>1. /\ Orderly /\ Cleared(c) /\ entries' = <<>>
          /\ c.kind = "list" /\ UNCHANGED <<drawn, lingers>>
      BY <1>2, <1>12 DEF OnListError, Finished
    <2> QED BY <1>10, <2>1, ClearedOrderly
  <1>13. ASSUME NEW c \in cmds, OnPreview(c) PROVE Orderly'
    BY <1>2, <1>13, PreviewOrderly DEF OnPreview, Previews, Finished
  <1>14. ASSUME NEW c \in cmds, Emit(c) PROVE Orderly'
    BY <1>2, <1>14, EmitOrderly DEF Emit, Finished
  <1>15. CASE UNCHANGED vars
    BY <1>2, <1>3, <1>15 DEF vars, browser
  <1> QED
    BY <1>4, <1>5, <1>6, <1>7, <1>9, <1>11, <1>12, <1>13, <1>14, <1>15 DEF Next

LEMMA WaitedInvariance == Spec => []Waited
  BY WaitedInit, WaitedStep, Invariance, PTL DEF Spec

(* For a user who waits, a preview is beside the entry it previews, and    *)
(* Enter joins a name to the path of the directory it was listed in.       *)
THEOREM ScreenIsConsistent == Spec => []PreviewAndListingAgree
  <1>1. Waited => PreviewAndListingAgree
    BY DEF Waited, Orderly, PreviewBeside, ListedIsCwd, PreviewAndListingAgree
  <1> QED BY <1>1, WaitedInvariance, PTL

(* For a user who waits, drawing and erasing happen in the order of the    *)
(* previews: the terminal shows the image that is being previewed, and     *)
(* none when there is none, but for one that its preview's replacement     *)
(* left there.                                                             *)
THEOREM ImagesFollowPreviews == Spec => []TerminalShowsPreview
  <1>1. Waited => TerminalShowsPreview
    BY DEF Waited, Orderly, ImageIsDrawn, ImageIsErased, TerminalShowsPreview
  <1> QED BY <1>1, WaitedInvariance, PTL
==============================================================================
