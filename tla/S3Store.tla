------------------------------- MODULE S3Store -------------------------------
(***************************************************************************)
(* The S3 driver: a file system over a flat bucket.                        *)
(*                                                                         *)
(* A path is a sequence of names, and so is a key.  The file at p is the   *)
(* object with key p; the directory p exists as long as some key lies      *)
(* below p, and Mkdir gives it a placeholder, the key p + "/", written     *)
(* here as p followed by an empty name.  S3 has no rename: the driver      *)
(* copies, then deletes, one object at a time.                             *)
(*                                                                         *)
(* Every remote call is a step and each may fail, before or after the      *)
(* service has acted.  The driver holds no lock and S3 no transaction, so  *)
(* the calls of several threads interleave.                                *)
(*                                                                         *)
(* Abstracted: object contents (a number per file written), the configured *)
(* prefix (constant), Mount's checks.  A listing is one page (1000 keys),  *)
(* taken at once.                                                          *)
(***************************************************************************)
EXTENDS Naturals, Sequences
S == INSTANCE SequencesExt

CONSTANTS
    Callers,   \* threads calling into the mounted driver
    Paths,     \* the paths in use: non-empty sequences of names
    NoObject,  \* what a key without an object holds
    MaxPuts,   \* bound: files written in one behaviour
    MaxCalls   \* bound: calls made in one behaviour

Contents == 0..MaxPuts  \* 0 is a placeholder's

ASSUME PathsAssumption == Paths \subseteq Seq(STRING \ {""}) \ {<<>>}
ASSUME NoObjectAssumption == NoObject \notin Contents
ASSUME BoundsAssumption == MaxPuts \in Nat /\ MaxCalls \in Nat

VARIABLES
    mounted,  \* d.connected and d.client, set and cleared together
    store,    \* the bucket
    puts,     \* files written so far
    calls,    \* calls made so far
    pc,       \* where each caller is
    req,      \* what it was asked
    todo,     \* keys its loop still has to copy or delete
    listed,   \* toDelete: keys already copied
    answer,   \* what its last call returned
    before,   \* history: the bucket when its call began
    misled,   \* history: its look at an object that is there has failed
    disturbed \* history: a call of another caller's that overlapped it or
              \* followed may have written in its region

vars == <<mounted, store, puts, calls, pc, req, todo, listed, answer, before,
          misled, disturbed>>

Placeholder(p) == Append(p, "")
Keys == Paths \cup {Placeholder(p) : p \in Paths}
Present == {k \in Keys : store[k] # NoObject}
Below(p) == {k \in Keys : S!IsStrictPrefix(p, k)}

(* Only a rename has a second path.                                        *)
Requests ==
    {r \in [op : {"stat", "put", "mkdir", "remove", "rename"},
            path : Paths, to : Paths] : r.op # "rename" => r.to = r.path}

Labels == {"idle", "put", "mkdir", "stat", "list", "copy", "delete", "gone"}
Answers == {"none", "ok", "file", "dir", "notFound", "notEmpty", "error",
            "notConnected"}

(* Where the object with key k goes when r renames.                        *)
Target(r, k) == r.to \o SubSeq(k, Len(r.path) + 1, Len(k))

(* The keys a call is about, and those of them it may write or delete.     *)
(* Everything a rename moves lies below its source or its destination.     *)
Region(r) == {k \in Keys : S!IsPrefix(r.path, k) \/ S!IsPrefix(r.to, k)}
Touched(r) ==
    CASE r.op = "stat" -> {}
      [] r.op = "put" -> {r.path}
      [] r.op = "mkdir" -> {Placeholder(r.path)}
      [] r.op = "remove" -> {r.path, Placeholder(r.path)}
      [] r.op = "rename" -> Region(r)

(* A call to r, made meanwhile, may change what a call to s is about.      *)
Disturbs(r, s) == Touched(r) \cap Region(s) # {}

-----------------------------------------------------------------------------
Init ==
    /\ mounted = FALSE
    /\ store = [k \in Keys |-> NoObject]
    /\ puts = 0 /\ calls = 0
    /\ pc = [c \in Callers |-> "idle"]
    /\ req \in [Callers -> {r \in Requests : r.op = "stat"}]
    /\ \A c, d \in Callers : req[c] = req[d]
    /\ todo = [c \in Callers |-> {}]
    /\ listed = [c \in Callers |-> {}]
    /\ answer = [c \in Callers |-> "none"]
    /\ before = [c \in Callers |-> store]
    /\ misled = [c \in Callers |-> FALSE]
    /\ disturbed = [c \in Callers |-> FALSE]

Goto(c, label) ==
    pc' = [pc EXCEPT ![c] = label] /\ UNCHANGED <<answer, todo, listed>>

Return(c, result) ==
    /\ pc' = [pc EXCEPT ![c] = "idle"]
    /\ answer' = [answer EXCEPT ![c] = result]
    /\ todo' = [todo EXCEPT ![c] = {}]
    /\ listed' = [listed EXCEPT ![c] = {}]

Loop(c, label, keys, copied) ==
    /\ pc' = [pc EXCEPT ![c] = label]
    /\ todo' = [todo EXCEPT ![c] = keys]
    /\ listed' = [listed EXCEPT ![c] = copied]
    /\ UNCHANGED answer

At(c, label) == mounted /\ pc[c] = label

(* A write the service may have carried out before the call failed.        *)
Perhaps(effect) == store' \in {store, effect}

session == <<mounted, calls, req, before, misled, disturbed>>

-----------------------------------------------------------------------------
Mount ==
    /\ ~mounted
    /\ \A c \in Callers : pc[c] = "idle"
    /\ mounted' = TRUE
    /\ UNCHANGED <<store, puts, calls, pc, req, todo, listed, answer, before,
                   misled, disturbed>>

(* Unmount only forgets the client, whoever is using it.                   *)
Unmount ==
    /\ mounted
    /\ mounted' = FALSE
    /\ UNCHANGED <<store, puts, calls, pc, req, todo, listed, answer, before,
                   misled, disturbed>>

(* An operation starts, or CreateFile has handed out its writer.           *)
Begin(c, r) ==
    /\ pc[c] = "idle" /\ calls < MaxCalls
    /\ calls' = calls + 1
    /\ req' = [req EXCEPT ![c] = r]
    /\ before' = [before EXCEPT ![c] = store]
    /\ misled' = [misled EXCEPT ![c] = FALSE]
    /\ disturbed' = [d \in Callers |->
          IF d = c THEN \E e \in Callers \ {c} : pc[e] # "idle" /\ Disturbs(req[e], r)
                   ELSE disturbed[d] \/ Disturbs(r, req[d])]
    /\ todo' = [todo EXCEPT ![c] = {}]
    /\ listed' = [listed EXCEPT ![c] = {}]
    /\ IF mounted
       THEN /\ pc' = [pc EXCEPT ![c] = IF r.op \in {"put", "mkdir"}
                                       THEN r.op ELSE "stat"]
            /\ answer' = [answer EXCEPT ![c] = "none"]
       ELSE /\ answer' = [answer EXCEPT ![c] = "notConnected"]
            /\ UNCHANGED pc
    /\ UNCHANGED <<mounted, store, puts>>

(* The writer's Close uploads the whole buffer in one PutObject.           *)
Put(c) ==
    /\ At(c, "put") /\ puts < MaxPuts
    /\ puts' = puts + 1
    /\ store' = [store EXCEPT ![req[c].path] = puts + 1]
    /\ Return(c, "ok")
    /\ UNCHANGED session

PutFails(c) ==
    /\ At(c, "put") /\ puts < MaxPuts
    /\ puts' = puts + 1
    /\ Perhaps([store EXCEPT ![req[c].path] = puts + 1])
    /\ Return(c, "error")
    /\ UNCHANGED session

(* Close after Unmount.                                                    *)
PutOrphaned(c) ==
    /\ pc[c] = "put" /\ ~mounted
    /\ Return(c, "notConnected")
    /\ UNCHANGED <<session, store, puts>>

Marked(c) == [store EXCEPT ![Placeholder(req[c].path)] = 0]

Mkdir(c) ==
    /\ At(c, "mkdir")
    /\ store' = Marked(c)
    /\ Return(c, "ok")
    /\ UNCHANGED <<session, puts>>

MkdirFails(c) ==
    /\ At(c, "mkdir")
    /\ Perhaps(Marked(c))
    /\ Return(c, "error")
    /\ UNCHANGED <<session, puts>>

(* StatObject finds the object: the path is a file.                        *)
FileFound(c) ==
    /\ At(c, "stat")
    /\ req[c].path \in Present
    /\ CASE req[c].op = "stat"   -> Return(c, "file")
         [] req[c].op = "remove" -> Loop(c, "delete", {req[c].path}, {})
         [] req[c].op = "rename" -> Loop(c, "copy", {req[c].path}, {})
    /\ UNCHANGED <<session, store, puts>>

(* Mutant: the service's own error is handed back.                         *)
NoFileUnmapped(c) ==
    /\ At(c, "stat")
    /\ Return(c, "noSuchKey")
    /\ UNCHANGED <<session, store, puts>>

(* StatObject returns an error.  Absent or unreachable, the driver does    *)
(* not look which: it goes on as for a directory.                          *)
NoFile(c) ==
    /\ At(c, "stat")
    /\ Goto(c, "list")
    /\ misled' = [misled EXCEPT ![c] = req[c].path \in Present]
    /\ UNCHANGED <<mounted, calls, req, before, disturbed, store, puts>>

(* The listing under the path arrives.                                     *)
ListStat(c) ==
    /\ At(c, "list") /\ req[c].op = "stat"
    /\ Return(c, IF Below(req[c].path) \cap Present = {} THEN "notFound" ELSE "dir")
    /\ UNCHANGED <<session, store, puts>>

(* Mutant: having seen no children, delete whatever is below.              *)
ListRemoveAll(c) ==
    /\ At(c, "list") /\ req[c].op = "remove"
    /\ IF Below(req[c].path) \cap Present \subseteq {Placeholder(req[c].path)}
       THEN Loop(c, "delete", Below(req[c].path), {})
       ELSE Return(c, "notEmpty")
    /\ UNCHANGED <<session, store, puts>>

(* Remove: a directory with children is refused, else its placeholder,     *)
(* whether or not there is one, is deleted.                                *)
ListRemove(c) ==
    /\ At(c, "list") /\ req[c].op = "remove"
    /\ LET mark == Placeholder(req[c].path)
       IN  IF Below(req[c].path) \cap Present \subseteq {mark}
           THEN Loop(c, "delete", {mark}, {})
           ELSE Return(c, "notEmpty")
    /\ UNCHANGED <<session, store, puts>>

(* Rename: everything under the source prefix, the placeholder included.   *)
ListRename(c) ==
    /\ At(c, "list") /\ req[c].op = "rename"
    /\ LET found == Below(req[c].path) \cap Present
       IN  IF found = {} THEN Return(c, "notFound")
                         ELSE Loop(c, "copy", found, {})
    /\ UNCHANGED <<session, store, puts>>

ListFails(c) ==
    /\ At(c, "list")
    /\ Return(c, "error")
    /\ UNCHANGED <<session, store, puts>>

(* The service copies if the source is there and is not its own copy; a    *)
(* key outside Keys is one it finds too long.                              *)
CanCopy(c, k) ==
    /\ k \in Present
    /\ Target(req[c], k) \in Keys \ {k}

Copied(c, k) == [store EXCEPT ![Target(req[c], k)] = store[k]]

(* One CopyObject.  After the last one the deletions begin.                *)
Copy(c, k) ==
    /\ At(c, "copy") /\ k \in todo[c]
    /\ CanCopy(c, k)
    /\ store' = Copied(c, k)
    /\ IF todo[c] = {k} THEN Loop(c, "delete", listed[c] \cup {k}, {})
                        ELSE Loop(c, "copy", todo[c] \ {k}, listed[c] \cup {k})
    /\ UNCHANGED <<session, puts>>

(* Mutant: an object that could not be copied is skipped.                  *)
CopyFailsSkipped(c, k) ==
    /\ At(c, "copy") /\ k \in todo[c]
    /\ IF todo[c] = {k} THEN Loop(c, "delete", listed[c] \cup {k}, {})
                        ELSE Loop(c, "copy", todo[c] \ {k}, listed[c] \cup {k})
    /\ UNCHANGED <<session, store, puts>>

(* A CopyObject fails: Rename gives up, having deleted nothing.            *)
CopyFails(c, k) ==
    /\ At(c, "copy") /\ k \in todo[c]
    /\ IF CanCopy(c, k) THEN Perhaps(Copied(c, k)) ELSE UNCHANGED store
    /\ Return(c, "error")
    /\ UNCHANGED <<session, puts>>

Deleted(k) == [store EXCEPT ![k] = NoObject]

(* One RemoveObject; S3 does not mind if there was none.                   *)
Delete(c, k) ==
    /\ At(c, "delete") /\ k \in todo[c]
    /\ store' = Deleted(k)
    /\ IF todo[c] = {k} THEN Return(c, "ok")
                        ELSE Loop(c, "delete", todo[c] \ {k}, {})
    /\ UNCHANGED <<session, puts>>

(* Mutant: the error of a deletion is dropped.                             *)
DeleteFailsUnseen(c, k) ==
    /\ At(c, "delete") /\ k \in todo[c]
    /\ Perhaps(Deleted(k))
    /\ IF todo[c] = {k} THEN Return(c, "ok")
                        ELSE Loop(c, "delete", todo[c] \ {k}, {})
    /\ UNCHANGED <<session, puts>>

DeleteFails(c, k) ==
    /\ At(c, "delete") /\ k \in todo[c]
    /\ Perhaps(Deleted(k))
    /\ Return(c, "error")
    /\ UNCHANGED <<session, puts>>

(* A call on the client that Unmount has taken away: the process panics.   *)
CallOnNil(c) ==
    /\ ~mounted /\ pc[c] \in Labels \ {"idle", "put", "gone"}
    /\ pc' = [d \in Callers |-> "gone"]
    /\ UNCHANGED <<session, store, puts, todo, listed, answer>>

Step(c) ==
    \/ \E r \in Requests : Begin(c, r)
    \/ Put(c) \/ PutFails(c) \/ PutOrphaned(c)
    \/ Mkdir(c) \/ MkdirFails(c)
    \/ FileFound(c) \/ NoFile(c)
    \/ ListStat(c) \/ ListRemove(c) \/ ListRename(c) \/ ListFails(c)
    \/ \E k \in Keys :
          Copy(c, k) \/ CopyFails(c, k) \/ Delete(c, k) \/ DeleteFails(c, k)
    \/ CallOnNil(c)

Next == Mount \/ Unmount \/ \E c \in Callers : Step(c)

Spec == Init /\ [][Next]_vars

-----------------------------------------------------------------------------
TypeOK ==
    /\ mounted \in BOOLEAN
    /\ store \in [Keys -> Contents \cup {NoObject}]
    /\ puts \in 0..MaxPuts /\ calls \in 0..MaxCalls
    /\ pc \in [Callers -> Labels]
    /\ req \in [Callers -> Requests]
    /\ todo \in [Callers -> SUBSET Keys]
    /\ listed \in [Callers -> SUBSET Keys]
    /\ answer \in [Callers -> Answers]
    /\ before \in [Callers -> [Keys -> Contents \cup {NoObject}]]
    /\ misled \in [Callers -> BOOLEAN]
    /\ disturbed \in [Callers -> BOOLEAN]

(* The objects a rename of r.path is about, as they were when it began: a  *)
(* file, or everything below a directory.                                  *)
AsFile(c) == {req[c].path} \cap {k \in Keys : before[c][k] # NoObject}
AsDirectory(c) == Below(req[c].path) \cap {k \in Keys : before[c][k] # NoObject}

Apart(r) == ~S!IsPrefix(r.path, r.to) /\ ~S!IsPrefix(r.to, r.path)

Renaming(c) ==
    /\ req[c].op = "rename" /\ Apart(req[c])
    /\ answer[c] # "notConnected"
    /\ ~disturbed[c]

Kept(c, keys) ==
    \A k \in keys :
        \/ store[k] = before[c][k]
        \/ Target(req[c], k) \in Keys /\ store[Target(req[c], k)] = before[c][k]

(* During and after a Rename, whichever of its calls fails and wherever it *)
(* stops, every object it was to move is where it was or where it goes.    *)
(* Other callers may write, move and delete beside it as they like, only   *)
(* not at or below its source or its destination: nothing stops them from  *)
(* overwriting an object between its copy and its deletion.  And neither   *)
(* of the two paths may hold the other: what is copied below the source is *)
(* deleted with it.                                                        *)
RenameKeepsContents ==
    \A c \in Callers : Renaming(c) => Kept(c, AsFile(c) \cup AsDirectory(c))

(* A Rename that reports success has moved all of what it took the path    *)
(* for: nothing of it is left behind, and all of it has arrived.           *)
Arrived(c, keys) ==
    \A k \in keys : /\ store[k] = NoObject
                    /\ store[Target(req[c], k)] = before[c][k]

RenameIsComplete ==
    \A c \in Callers :
        Renaming(c) /\ answer[c] = "ok" =>
            \E keys \in {AsFile(c), AsDirectory(c)} \ {{}} : Arrived(c, keys)

(* Remove never deletes a file below its path, not even one written by     *)
(* another thread between its look into the directory and its deletion;    *)
(* and when it reports success there is nothing at the path any more,      *)
(* neither the file nor the directory, unless another caller wrote there   *)
(* meanwhile or its look at the file failed: taking any error for absence, *)
(* it reports success then with the file untouched.                        *)
SparesChildren(c) ==
    \A k \in todo[c] :
        pc[c] = "delete" /\ store[k] # NoObject /\ store'[k] = NoObject
            => k = req[c].path \/ store[k] = 0

LeavesNothing(c) ==
    pc[c] = "delete" /\ answer'[c] = "ok" =>
        \/ misled[c] \/ disturbed[c]
        \/ /\ store'[req[c].path] = NoObject
           /\ AsFile(c) = {} => \A k \in Below(req[c].path) : store'[k] = NoObject

RemoveIsExact ==
    [][\A c \in Callers :
          req[c].op = "remove" => SparesChildren(c) /\ LeavesNothing(c)]_vars
==============================================================================
