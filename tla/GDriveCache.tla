----------------------------- MODULE GDriveCache -----------------------------
(***************************************************************************)
(* The Google Drive driver's path cache.                                   *)
(*                                                                         *)
(* Drive addresses files by id and lets two of them have the same parent   *)
(* and name; the driver's callers address them by path.  resolvePath walks *)
(* a path one component per query and remembers every (path, id) it meets, *)
(* for as long as the mount lives.  Rename and Remove correct the entry of *)
(* the path they were given, after Drive has answered.                     *)
(*                                                                         *)
(* Several threads use the mount, nobody else the Drive.  A lock guards    *)
(* each access to the cache and nothing longer: what a thread read before  *)
(* a request, and what Drive answered, may be old when it is used.  A call *)
(* of Drive may fail, and one that fails may have been carried out.        *)
(*                                                                         *)
(* Abstracted: contents, metadata, what a call returns, result pages, and  *)
(* the token (a refreshed 401 looks like one call that took longer).       *)
(***************************************************************************)
EXTENDS Naturals, Sequences
S == INSTANCE SequencesExt

CONSTANTS
    Callers,  \* threads of the host
    Paths,    \* the paths in use, and those above them but the root
    Ids,      \* Drive ids: the bound on files there ever are
    Root,     \* the id "root"
    NoId,     \* no id, or no cache entry
    Keep,     \* an entry an answer says nothing about
    MaxCalls  \* bound: calls made in one behaviour

ASSUME PathsAssumption ==
    /\ Paths \subseteq Seq(STRING) \ {<<>>}
    /\ \A p \in Paths : \A n \in 1..Len(p) : SubSeq(p, 1, n) \in Paths
ASSUME IdsAssumption ==
    Root \notin Ids /\ NoId \notin Ids \cup {Root} /\ Keep \notin Ids \cup {NoId}
ASSUME CallsAssumption == MaxCalls \in Nat

VARIABLES
    drive,      \* id -> its parent, name and kind, or its absence
    connected,  \* d.connected
    cache,      \* d.pathCache, without the root
    pc,         \* where each caller is
    req,        \* the call it is in
    stage,      \* the path being resolved, or "done" when all are
    depth, cur, \* resolvePath: components walked, currentID
    ids,        \* what the walks of this call returned
    news,       \* cache entries an answer has brought, not yet written
    calls,      \* calls made so far
    moved,      \* history: paths renamed or removed since Mount
    crossed,    \* history: of them, those another call was about just then
    astray      \* history: a reply was lost, or a wrong id was used

walk == <<stage, depth, cur, ids>>
history == <<moved, crossed, astray>>
vars == <<drive, connected, cache, pc, req, walk, news, calls, history>>

Names == {S!Last(p) : p \in Paths}
Gone == [parent |-> NoId, name |-> "", kind |-> "gone"]
Unborn == [Gone EXCEPT !.kind = "unborn"]
Nodes == [parent : Ids \cup {Root}, name : Names, kind : {"file", "folder"}]
             \cup {Gone, Unborn}

(* Only a rename has a second path, and only a listing is of the root.     *)
Requests ==
    {r \in [op : {"stat", "list", "put", "mkdir", "remove", "rename"},
            path : Paths \cup {<<>>}, to : Paths \cup {<<>>}] :
        /\ r.op # "rename" => r.to = r.path
        /\ <<>> \in {r.path, r.to} => r.op = "list"}
NoCall == [op |-> "none", path |-> <<>>, to |-> <<>>]

Stages == {"target", "source", "parent"}
NoIds == [s \in Stages |-> NoId]
Empty == [p \in Paths |-> NoId]
NoNews == [p \in Paths |-> Keep]

-----------------------------------------------------------------------------
(* Drive.                                                                  *)

Live(i) == i = Root \/ (i \in Ids /\ drive[i].kind \in {"file", "folder"})
Folder(i) == i = Root \/ (i \in Ids /\ drive[i].kind = "folder")
Children(i, name) == {j \in Ids : Live(j) /\ drive[j].parent = i /\ drive[j].name = name}

(* p is a path of i: it names, in turn, a child of the one before.         *)
At(i, p) ==
    \E line \in [0..Len(p) -> Ids \cup {Root}] :
        /\ line[0] = Root /\ line[Len(p)] = i
        /\ \A k \in 1..Len(p) : line[k] \in Children(line[k - 1], p[k])

(* i and everything in it: the least set of files that holds i, and with a *)
(* file its children.                                                      *)
Closed(T) == \A j \in Ids : Live(j) /\ drive[j].parent \in T => j \in T
Subtree(i) == {j \in Ids : \A T \in SUBSET Ids : i \in T /\ Closed(T) => j \in T}

(* A tree that Drive may hold when it is mounted: `at` says which id is    *)
(* where, the empty path that it is not yet in use.                        *)
Holds(at, kind) ==
    /\ \A i, j \in Ids : at[i] = at[j] /\ at[i] # <<>> => i = j
    /\ \A i \in Ids : Len(at[i]) > 1 =>
          \E j \in Ids : at[j] = S!Front(at[i]) /\ kind[j] = "folder"

ParentAt(at, p) ==
    IF Len(p) = 1 THEN Root ELSE CHOOSE j \in Ids : at[j] = S!Front(p)

-----------------------------------------------------------------------------
Init ==
    /\ \E at \in [Ids -> Paths \cup {<<>>}], kind \in [Ids -> {"file", "folder"}] :
          /\ Holds(at, kind)
          /\ drive = [i \in Ids |-> IF at[i] = <<>> THEN Unborn ELSE
                [parent |-> ParentAt(at, at[i]), name |-> S!Last(at[i]), kind |-> kind[i]]]
    /\ connected = FALSE
    /\ cache = Empty
    /\ pc = [c \in Callers |-> "idle"]
    /\ req = [c \in Callers |-> NoCall]
    /\ stage = [c \in Callers |-> "done"]
    /\ depth = [c \in Callers |-> 0]
    /\ cur = [c \in Callers |-> Root]
    /\ ids = [c \in Callers |-> NoIds]
    /\ news = [c \in Callers |-> NoNews]
    /\ calls = 0
    /\ moved = {} /\ crossed = {} /\ astray = FALSE

Goto(c, label) == pc' = [pc EXCEPT ![c] = label]

(* Calls that may hold an id or an answer.                                 *)
Busy(c) == pc[c] \notin {"idle", "writing"}

(* Mount: a driver is mounted once, before any thread has it.              *)
Mount ==
    /\ ~connected /\ calls = 0
    /\ connected' = TRUE
    /\ cache' = Empty
    /\ UNCHANGED <<drive, pc, req, walk, news, calls, history>>

(* Unmount drops the cache under whoever is using it.                      *)
Unmount(c) ==
    /\ pc[c] = "idle" /\ connected
    /\ connected' = FALSE
    /\ cache' = Empty
    /\ UNCHANGED <<drive, pc, req, walk, news, calls, history>>

(* A walk of the path for stage s begins with a look at the whole path.    *)
Resolving(c, s) ==
    /\ stage' = [stage EXCEPT ![c] = s]
    /\ depth' = [depth EXCEPT ![c] = 0]
    /\ cur' = [cur EXCEPT ![c] = Root]
    /\ Goto(c, IF s = "done" THEN "call" ELSE "whole")

(* A call begins with the first path it has to resolve.  CreateFile hands  *)
(* out a writer.                                                           *)
Begin(c, r) ==
    /\ pc[c] = "idle" /\ connected /\ calls < MaxCalls
    /\ calls' = calls + 1
    /\ req' = [req EXCEPT ![c] = r]
    /\ IF r.op = "put"
       THEN Goto(c, "writing") /\ UNCHANGED <<stage, depth, cur>>
       ELSE Resolving(c, IF r.op = "mkdir" THEN "parent" ELSE "target")
    /\ UNCHANGED <<drive, connected, cache, ids, news, history>>

(* Closing the writer uploads, mounted or not.                             *)
Close(c) ==
    /\ pc[c] = "writing"
    /\ Resolving(c, "target")
    /\ UNCHANGED <<drive, connected, cache, req, ids, news, calls, history>>

-----------------------------------------------------------------------------
(* resolvePath.                                                            *)

PathAt(c, s) ==
    CASE s = "target" -> req[c].path
      [] s = "source" -> S!Front(req[c].path)
      [] s = "parent" -> S!Front(req[c].to)

Wanted(c) == PathAt(c, stage[c])
Built(c) == SubSeq(Wanted(c), 1, depth[c] + 1)
Walked(c) == depth[c] = Len(Wanted(c))

Return(c) ==
    /\ Goto(c, "idle")
    /\ req' = [req EXCEPT ![c] = NoCall]
    /\ stage' = [stage EXCEPT ![c] = "done"]
    /\ depth' = [depth EXCEPT ![c] = 0]
    /\ cur' = [cur EXCEPT ![c] = Root]
    /\ ids' = [ids EXCEPT ![c] = NoIds]

Advance(c, n, id) ==
    /\ depth' = [depth EXCEPT ![c] = n]
    /\ cur' = [cur EXCEPT ![c] = id]
    /\ UNCHANGED <<req, stage, ids>>

(* What a call resolves next, or that it has all it needs.                 *)
Following(c, s) ==
    CASE s = "target" /\ req[c].op = "put" -> "parent"
      [] s = "target" /\ req[c].op = "rename"
                      /\ S!Front(req[c].path) # S!Front(req[c].to) -> "source"
      [] s = "source" -> "parent"
      [] OTHER -> "done"

Resolved(c, id) ==
    /\ ids' = [ids EXCEPT ![c][stage[c]] = id]
    /\ Resolving(c, Following(c, stage[c]))
    /\ UNCHANGED req

(* The walk failed.  uploadFile takes any failure to find the target for   *)
(* its absence; every other caller hands the error on.                     *)
Unresolved(c) ==
    IF stage[c] = "target" /\ req[c].op = "put" THEN Resolved(c, NoId)
                                                ELSE Return(c)

aside == <<drive, connected, cache, calls, history>>

(* The whole path is in the cache, or not; the root needs no look.         *)
LookWhole(c) ==
    /\ pc[c] = "whole"
    /\ IF Wanted(c) # <<>> /\ cache[Wanted(c)] # NoId
       THEN Advance(c, Len(Wanted(c)), cache[Wanted(c)])
       ELSE UNCHANGED <<req, walk>>
    /\ Goto(c, "look")
    /\ UNCHANGED <<aside, news>>

(* The path up to the next component is in the cache, or Drive is asked.   *)
Look(c) ==
    /\ pc[c] = "look" /\ ~Walked(c)
    /\ IF cache[Built(c)] # NoId
       THEN Advance(c, depth[c] + 1, cache[Built(c)]) /\ UNCHANGED pc
       ELSE Goto(c, "ask") /\ UNCHANGED <<req, walk>>
    /\ UNCHANGED <<aside, news>>

(* Drive's first answer is taken, and remembered.                          *)
Query(c, i) ==
    /\ pc[c] = "ask"
    /\ i \in Children(cur[c], S!Last(Built(c)))
    /\ news' = [news EXCEPT ![c][Built(c)] = i]
    /\ Advance(c, depth[c] + 1, i)
    /\ Goto(c, "remember")
    /\ UNCHANGED aside

(* Mutant: an answer without an id is not looked at.                       *)
QueryFailsUnseen(c) ==
    /\ pc[c] = "ask"
    /\ Advance(c, depth[c] + 1, NoId)
    /\ Goto(c, "look")
    /\ UNCHANGED <<aside, news>>

(* There is nothing there, the query fails, or its answer has no id in it. *)
QueryFails(c) ==
    /\ pc[c] = "ask"
    /\ Unresolved(c)
    /\ UNCHANGED <<aside, news>>

WalkEnds(c) ==
    /\ pc[c] = "look" /\ Walked(c)
    /\ Resolved(c, cur[c])
    /\ UNCHANGED <<aside, news>>

-----------------------------------------------------------------------------
(* The call itself.  reply says whether Drive's answer arrives: without it *)
(* Drive has acted and the driver has an error and an unchanged cache.     *)

Calling(c, op) == pc[c] = "call" /\ req[c].op = op

(* An id in use is not that of the path it stands for.                     *)
Misled(c) ==
    \E s \in Stages : ids[c][s] # NoId
        /\ ~At(ids[c][s], PathAt(c, s))

Outcome(c, reply, new) ==
    /\ IF reply THEN /\ news' = [news EXCEPT ![c] = new]
                     /\ Goto(c, "remember")
                     /\ UNCHANGED <<req, walk>>
                ELSE Return(c) /\ UNCHANGED news
    /\ astray' = (astray \/ Misled(c) \/ ~reply)
    /\ UNCHANGED <<connected, cache, calls>>

Bring(p, i) == [NoNews EXCEPT ![p] = i]

Born(c, i, kind) ==
    /\ drive[i] = Unborn
    /\ Folder(ids[c]["parent"])
    /\ drive' = [drive EXCEPT ![i] = [parent |-> ids[c]["parent"],
                                      name |-> S!Last(req[c].path), kind |-> kind]]

(* Another call about p is under way: p is one of its paths, above one of  *)
(* them, or in the folder it lists.                                        *)
About(c, p) ==
    \/ S!IsPrefix(p, req[c].path) \/ S!IsPrefix(p, req[c].to)
    \/ req[c].op = "list" /\ S!Front(p) = req[c].path

Crossed(c) ==
    IF \E d \in Callers \ {c} : Busy(d) /\ About(d, req[c].path)
    THEN crossed \cup {req[c].path} ELSE crossed

(* The calls that only read leave the cache alone, but for ListDir, which  *)
(* remembers every child it is told of: of two with one name, either.      *)
Stat(c) ==
    /\ Calling(c, "stat") /\ Live(ids[c]["target"])
    /\ Outcome(c, TRUE, NoNews)
    /\ UNCHANGED <<drive, moved, crossed>>

List(c) ==
    /\ Calling(c, "list") /\ Live(ids[c]["target"])
    /\ \E new \in [Paths -> Ids \cup {Keep}] :
          /\ \A p \in Paths :
                LET found == Children(ids[c]["target"], S!Last(p))
                IN  IF S!Front(p) = req[c].path /\ found # {}
                    THEN new[p] \in found ELSE new[p] = Keep
          /\ Outcome(c, TRUE, new)
    /\ UNCHANGED <<drive, moved, crossed>>

(* uploadFile, target found: its content is replaced and its name set.     *)
Replace(c, reply) ==
    /\ Calling(c, "put")
    /\ LET i == ids[c]["target"]
       IN  /\ i \in Ids /\ drive[i].kind = "file"
           /\ drive' = [drive EXCEPT ![i].name = S!Last(req[c].path)]
           /\ Outcome(c, reply, Bring(req[c].path, i))
    /\ UNCHANGED <<moved, crossed>>

(* uploadFile, target not found: a new file.                               *)
Create(c, i, reply) ==
    /\ Calling(c, "put") /\ ids[c]["target"] = NoId
    /\ Born(c, i, "file")
    /\ Outcome(c, reply, Bring(req[c].path, i))
    /\ UNCHANGED <<moved, crossed>>

Mkdir(c, i, reply) ==
    /\ Calling(c, "mkdir")
    /\ Born(c, i, "folder")
    /\ Outcome(c, reply, Bring(req[c].path, i))
    /\ UNCHANGED <<moved, crossed>>

(* Drive removes a folder with what is in it.                              *)
Remove(c, reply) ==
    /\ Calling(c, "remove") /\ Live(ids[c]["target"])
    /\ drive' = [i \in Ids |-> IF i \in Subtree(ids[c]["target"]) THEN Gone ELSE drive[i]]
    /\ Outcome(c, reply, Bring(req[c].path, NoId))
    /\ moved' = moved \cup {req[c].path} /\ crossed' = Crossed(c)

(* Drive moves a live file into a live folder outside of it, away from the *)
(* folder it is in.                                                        *)
CanMove(c, i) ==
    /\ i \in Ids /\ Live(i)
    /\ ids[c]["source"] # NoId =>
          /\ ids[c]["source"] = drive[i].parent
          /\ Folder(ids[c]["parent"]) /\ ids[c]["parent"] \notin Subtree(i)

Relocated(c, i) ==
    [drive EXCEPT ![i].name = S!Last(req[c].to),
                  ![i].parent = IF ids[c]["source"] = NoId THEN @ ELSE ids[c]["parent"]]

(* Mutant: the old path stays in the cache.                                *)
RenameKeepsEntry(c, reply) ==
    /\ Calling(c, "rename") /\ CanMove(c, ids[c]["target"])
    /\ drive' = Relocated(c, ids[c]["target"])
    /\ Outcome(c, reply, Bring(req[c].to, ids[c]["target"]))
    /\ moved' = moved \cup {req[c].path} /\ crossed' = Crossed(c)

(* The old path is forgotten, the new one remembered.                      *)
Rename(c, reply) ==
    /\ Calling(c, "rename") /\ CanMove(c, ids[c]["target"])
    /\ drive' = Relocated(c, ids[c]["target"])
    /\ Outcome(c, reply, [NoNews EXCEPT ![req[c].path] = NoId,
                                        ![req[c].to] = ids[c]["target"]])
    /\ moved' = moved \cup {req[c].path} /\ crossed' = Crossed(c)

(* Drive refuses, or is not reached.                                       *)
CallFails(c) ==
    /\ pc[c] = "call"
    /\ Return(c)
    /\ UNCHANGED <<aside, news>>

(* One entry is written to the cache: the one to forget before the others. *)
Remember(c, p) ==
    /\ pc[c] = "remember" /\ news[c][p] # Keep
    /\ (\E q \in Paths : news[c][q] = NoId) => news[c][p] = NoId
    /\ cache' = [cache EXCEPT ![p] = news[c][p]]
    /\ news' = [news EXCEPT ![c][p] = Keep]
    /\ crossed' = IF news[c][p] = NoId THEN Crossed(c) ELSE crossed
    /\ UNCHANGED <<drive, connected, pc, req, walk, calls, moved, astray>>

(* All are: the walk goes on, or the call returns.                         *)
Remembered(c) ==
    /\ pc[c] = "remember" /\ news[c] = NoNews
    /\ IF stage[c] = "done" THEN Return(c) ELSE Goto(c, "look") /\ UNCHANGED <<req, walk>>
    /\ UNCHANGED <<aside, news>>

Step(c) ==
    \/ Unmount(c)
    \/ \E r \in Requests : Begin(c, r)
    \/ Close(c)
    \/ LookWhole(c) \/ Look(c) \/ QueryFails(c) \/ WalkEnds(c)
    \/ \E i \in Ids : Query(c, i)
    \/ Stat(c) \/ List(c)
    \/ \E reply \in BOOLEAN :
          \/ Replace(c, reply) \/ Remove(c, reply) \/ Rename(c, reply)
          \/ \E i \in Ids : Create(c, i, reply) \/ Mkdir(c, i, reply)
    \/ CallFails(c)
    \/ (\E p \in Paths : Remember(c, p)) \/ Remembered(c)

Next == Mount \/ \E c \in Callers : Step(c)

Spec == Init /\ [][Next]_vars

-----------------------------------------------------------------------------
TypeOK ==
    /\ drive \in [Ids -> Nodes]
    /\ connected \in BOOLEAN
    /\ cache \in [Paths -> Ids \cup {NoId}]
    /\ pc \in [Callers -> {"idle", "writing", "whole", "look", "ask", "call",
                           "remember"}]
    /\ req \in [Callers -> Requests \cup {NoCall}]
    /\ stage \in [Callers -> Stages \cup {"done"}]
    /\ depth \in [Callers -> Nat]
    /\ cur \in [Callers -> Ids \cup {Root}]
    /\ ids \in [Callers -> [Stages -> Ids \cup {Root, NoId}]]
    /\ news \in [Callers -> [Paths -> Ids \cup {NoId, Keep}]]
    /\ calls \in 0..MaxCalls
    /\ moved \subseteq Paths /\ crossed \subseteq moved
    /\ astray \in BOOLEAN

Stale(p) == cache[p] # NoId /\ ~At(cache[p], p)

(* What a path has to be for its entry to be wrong: below one that was     *)
(* moved; moved itself and about to be forgotten; or moved under another   *)
(* call, which may bring the old id back for good.                         *)
Unsettled(p) ==
    \/ \E m \in moved : S!IsStrictPrefix(m, p)
    \/ \E c \in Callers : news[c][p] = NoId
    \/ p \in crossed

(* As long as every reply arrived and no wrong id was used, the cache is   *)
(* wrong about no other path: over listings, walks, uploads, renames to    *)
(* and fro, names used again, and the orders in which several threads read *)
(* it, ask Drive and write it.                                             *)
StaleOnlyBelowMoved == ~astray => \A p \in Paths : Stale(p) => Unsettled(p)

(* An upload that Drive answers has replaced the file at its path, or made *)
(* one there, under the same proviso: to an old path below a folder that   *)
(* was renamed, it replaces a file that is elsewhere by now.               *)
Hits(c, i) ==
    /\ drive'[i].kind = "file"
    /\ \/ i = ids[c]["target"] /\ At(i, req[c].path)
       \/ ids[c]["target"] = NoId /\ drive[i] = Unborn /\ At(i, req[c].path)'

UploadHitsItsPath ==
    [][\A c \in Callers :
          ~astray /\ Calling(c, "put") /\ pc'[c] = "remember"
              /\ ~Unsettled(req[c].path) => \E i \in Ids : Hits(c, i)]_vars
==============================================================================
