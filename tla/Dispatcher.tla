------------------------------ MODULE Dispatcher ------------------------------
(***************************************************************************)
(* The unified C library (cmd/networkfs) over api.MountManager: exported   *)
(* functions called by several threads of a host (its file operations and  *)
(* its 1 Hz statistics poller), a map from mount identifiers to driver     *)
(* instances, and no lock.                                                 *)
(*                                                                         *)
(* A driver is reduced to what the dispatcher can see of one: whether it   *)
(* has been mounted and unmounted, one remote file, and writers and        *)
(* readers that may fail at each call.  Chunks stand for the pieces a      *)
(* transfer is made of.                                                    *)
(***************************************************************************)
EXTENDS Integers, FiniteSets

CONSTANTS
    Callers,     \* threads of the host
    MountIDs,    \* identifiers the host uses
    Drivers,     \* driver instances a run may create: a bound
    NoDriver,    \* nothing mounted
    Chunks       \* pieces in a whole file

ASSUME NoDriverAssumption == NoDriver \notin Drivers
ASSUME ChunksAssumption == Chunks \in Nat \ {0}

VARIABLES
    mounts,     \* MountManager.mounts
    created,    \* instances the registry's factories have made
    up,         \* instances whose Mount succeeded
    down,       \* instances whose Unmount was called
    stored,     \* pieces the server holds of each instance's file
    pc,         \* where each caller is
    call,       \* the export each caller is in
    id,         \* the identifier each caller passed
    driver,     \* the instance each caller is using
    moved,      \* pieces the transfer in progress has moved
    rc,         \* what each caller's last call returned; -1 while it runs
    displaced   \* history: instances another instance's mount, or a delete
                \* that came late, has put out of the map

managerVars == <<mounts, created, up, down, displaced>>
vars == <<managerVars, stored, pc, call, id, driver, moved, rc>>

PCs == {"idle", "mounting", "storing", "looking", "deleting", "unmounting",
        "getting", "using", "opening", "reading", "creating", "writing",
        "closing", "gone"}

(* Where a caller is at the map, and where it is there to write it.        *)
MapWrites == {"storing", "deleting"}
MapAccesses == MapWrites \cup {"looking", "getting"}

Calls == {"mount", "unmount", "stats", "use", "openfile", "writefile"}

Init ==
    /\ mounts = [m \in MountIDs |-> NoDriver]
    /\ created = {} /\ up = {} /\ down = {}
    /\ stored \in [Drivers -> {0, Chunks}]
    /\ pc = [c \in Callers |-> "idle"]
    /\ call = [c \in Callers |-> "stats"]
    /\ id \in [Callers -> MountIDs]
    /\ driver = [c \in Callers |-> NoDriver]
    /\ moved = [c \in Callers |-> 0]
    /\ rc = [c \in Callers |-> 0]
    /\ displaced = {}

Goto(c, label) == pc' = [pc EXCEPT ![c] = label]

Return(c, code) ==
    /\ Goto(c, "idle")
    /\ rc' = [rc EXCEPT ![c] = code]

(* A host thread calls an export.                                          *)
Enter(c, m, export, label) ==
    /\ pc[c] = "idle"
    /\ call' = [call EXCEPT ![c] = export]
    /\ id' = [id EXCEPT ![c] = m]
    /\ rc' = [rc EXCEPT ![c] = -1]
    /\ Goto(c, label)

(* A driver answers only while it is mounted; otherwise ErrNotConnected.   *)
Usable(d) == d \in up \ down

-----------------------------------------------------------------------------
(* MountManager.Mount: a new instance, its Mount, and only then the map.   *)
MountCreate(c, m, d) ==
    /\ d \in Drivers \ created
    /\ Enter(c, m, "mount", "mounting")
    /\ created' = created \cup {d}
    /\ driver' = [driver EXCEPT ![c] = d]
    /\ UNCHANGED <<mounts, up, down, displaced, stored, moved>>

MountConnects(c) ==
    /\ pc[c] = "mounting"
    /\ up' = up \cup {driver[c]}
    /\ Goto(c, "storing")
    /\ UNCHANGED <<mounts, created, down, displaced, stored, call, id, driver,
                   moved, rc>>

(* Refused before an instance is made (codes 1 and -1), it does nothing.   *)
MountFails(c) ==
    /\ pc[c] = "mounting"
    /\ Return(c, 2)
    /\ UNCHANGED <<managerVars, stored, call, id, driver, moved>>

(* Whatever the identifier led to is overwritten.                          *)
MountStore(c) ==
    /\ pc[c] = "storing"
    /\ displaced' = displaced \cup ({mounts[id[c]]} \ {NoDriver})
    /\ mounts' = [mounts EXCEPT ![id[c]] = driver[c]]
    /\ Return(c, 0)
    /\ UNCHANGED <<created, up, down, stored, call, id, driver, moved>>

(* MountManager.Unmount: a look at the map, the delete, and only then the  *)
(* driver's Unmount.  Two callers may both have looked before one deletes. *)
UnmountStart(c, m) ==
    /\ Enter(c, m, "unmount", "looking")
    /\ UNCHANGED <<managerVars, stored, driver, moved>>

UnmountUnknown(c) ==
    /\ pc[c] = "looking" /\ mounts[id[c]] = NoDriver
    /\ Return(c, 1)
    /\ UNCHANGED <<managerVars, stored, call, id, driver, moved>>

UnmountLook(c) ==
    /\ pc[c] = "looking" /\ mounts[id[c]] # NoDriver
    /\ driver' = [driver EXCEPT ![c] = mounts[id[c]]]
    /\ Goto(c, "deleting")
    /\ UNCHANGED <<managerVars, stored, call, id, moved, rc>>

(* Mutants: the driver is still in the map when its Unmount runs; the      *)
(* driver's Unmount is never called.                                       *)
UnmountDeleteLate(c) ==
    /\ pc[c] = "deleting"
    /\ Goto(c, "unmounting")
    /\ UNCHANGED <<managerVars, stored, call, id, driver, moved, rc>>

UnmountDelete(c) ==
    /\ pc[c] = "deleting"
    /\ displaced' = displaced \cup ({mounts[id[c]]} \ {driver[c], NoDriver})
    /\ mounts' = [mounts EXCEPT ![id[c]] = NoDriver]
    /\ Goto(c, "unmounting")
    /\ UNCHANGED <<created, up, down, stored, call, id, driver, moved, rc>>

UnmountDriverSkipped(c) ==
    /\ pc[c] = "unmounting"
    /\ Return(c, 0)
    /\ UNCHANGED <<managerVars, stored, call, id, driver, moved>>

(* The driver closes its connection whatever error it reports.             *)
UnmountDriver(c) ==
    /\ pc[c] = "unmounting"
    /\ down' = down \cup {driver[c]}
    /\ \E code \in {0, 1} : Return(c, code)
    /\ UNCHANGED <<mounts, created, up, displaced, stored, call, id, driver,
                   moved>>

-----------------------------------------------------------------------------
(* Every other export: MountManager.Get or Stats, then the driver found.   *)
Start(c, m, export) ==
    /\ Enter(c, m, export, "getting")
    /\ UNCHANGED <<managerVars, stored, driver, moved>>

(* get_stats answers zeros for a mount that does not exist.                *)
GetNothing(c) ==
    /\ pc[c] = "getting" /\ mounts[id[c]] = NoDriver
    /\ Return(c, IF call[c] = "stats" THEN 0 ELSE 1)
    /\ UNCHANGED <<managerVars, stored, call, id, driver, moved>>

Get(c) ==
    /\ pc[c] = "getting" /\ mounts[id[c]] # NoDriver
    /\ driver' = [driver EXCEPT ![c] = mounts[id[c]]]
    /\ moved' = [moved EXCEPT ![c] = 0]
    /\ IF call[c] = "stats"
       THEN Return(c, 0)
       ELSE /\ Goto(c, CASE call[c] = "openfile"  -> "opening"
                         [] call[c] = "writefile" -> "creating"
                         [] OTHER                 -> "using")
            /\ UNCHANGED rc
    /\ UNCHANGED <<managerVars, stored, call, id>>

(* stat, listdir, mkdir, remove, rename, get_thumbnail.                    *)
Use(c) ==
    /\ pc[c] = "using"
    /\ \/ Usable(driver[c]) /\ Return(c, 0)
       \/ Return(c, 1)
    /\ UNCHANGED <<managerVars, stored, call, id, driver, moved>>

(* networkfs_openfile.                                                     *)
OpenFile(c) ==
    /\ pc[c] = "opening"
    /\ \/ Usable(driver[c]) /\ Goto(c, "reading") /\ UNCHANGED rc
       \/ Return(c, 1)
    /\ UNCHANGED <<managerVars, stored, call, id, driver, moved>>

(* Mutant: the whole buffer is appended, not the n bytes read into it.     *)
ReadPieceWhole(c) ==
    /\ pc[c] = "reading" /\ moved[c] < stored[driver[c]]
    /\ moved' = [moved EXCEPT ![c] = @ + Chunks + 1]
    /\ UNCHANGED <<managerVars, stored, pc, call, id, driver, rc>>

ReadPiece(c) ==
    /\ pc[c] = "reading" /\ moved[c] < stored[driver[c]]
    /\ moved' = [moved EXCEPT ![c] = @ + 1]
    /\ UNCHANGED <<managerVars, stored, pc, call, id, driver, rc>>

(* The loop ends on the first error, end of file or any other.             *)
ReadEnds(c) ==
    /\ pc[c] = "reading"
    /\ Return(c, 0)
    /\ UNCHANGED <<managerVars, stored, call, id, driver, moved>>

(* networkfs_writefile.  The writer gathers the file and sends it from     *)
(* Close, or streams it as it is written: either way what the server makes *)
(* of it is known only to Close.                                           *)
CreateFile(c) ==
    /\ pc[c] = "creating"
    /\ \/ Usable(driver[c]) /\ Goto(c, "writing") /\ UNCHANGED rc
       \/ Return(c, 1)
    /\ UNCHANGED <<managerVars, stored, call, id, driver, moved>>

(* The return code is fixed here, before the deferred Close.               *)
Write(c) ==
    /\ pc[c] = "writing"
    /\ \/ /\ moved' = [moved EXCEPT ![c] = Chunks]
          /\ rc' = [rc EXCEPT ![c] = 0]
       \/ /\ rc' = [rc EXCEPT ![c] = 1]
          /\ UNCHANGED moved
    /\ Goto(c, "closing")
    /\ UNCHANGED <<managerVars, stored, call, id, driver>>

CloseStores(c) ==
    /\ pc[c] = "closing" /\ Usable(driver[c])
    /\ stored' = [stored EXCEPT ![driver[c]] = moved[c]]
    /\ Goto(c, "idle")
    /\ UNCHANGED <<managerVars, call, id, driver, moved, rc>>

(* The error of Close goes nowhere.                                        *)
CloseFails(c) ==
    /\ pc[c] = "closing"
    /\ Goto(c, "idle")
    /\ UNCHANGED <<managerVars, stored, call, id, driver, moved, rc>>

(* No lock: a write of the map beside any other access to it is a data     *)
(* race, which Go may notice, and then ends the process, or not.           *)
MapFault ==
    /\ \E c, e \in Callers :
          c # e /\ pc[c] \in MapWrites /\ pc[e] \in MapAccesses
    /\ pc' = [c \in Callers |-> "gone"]
    /\ UNCHANGED <<managerVars, stored, call, id, driver, moved, rc>>

Gone == (\A c \in Callers : pc[c] = "gone") /\ UNCHANGED vars

Next ==
    \/ MapFault \/ Gone
    \/ \E c \in Callers :
           \/ \E m \in MountIDs :
                 \/ \E d \in Drivers : MountCreate(c, m, d)
                 \/ UnmountStart(c, m)
                 \/ \E export \in {"stats", "use", "openfile", "writefile"} :
                       Start(c, m, export)
           \/ MountConnects(c) \/ MountFails(c) \/ MountStore(c)
           \/ UnmountUnknown(c) \/ UnmountLook(c)
           \/ UnmountDelete(c) \/ UnmountDriver(c)
           \/ GetNothing(c) \/ Get(c)
           \/ Use(c)
           \/ OpenFile(c) \/ ReadPiece(c) \/ ReadEnds(c)
           \/ CreateFile(c) \/ Write(c) \/ CloseStores(c) \/ CloseFails(c)

Spec == Init /\ [][Next]_vars

-----------------------------------------------------------------------------
TypeOK ==
    /\ mounts \in [MountIDs -> Drivers \cup {NoDriver}]
    /\ created \subseteq Drivers
    /\ up \subseteq created /\ down \subseteq up
    /\ stored \in [Drivers -> 0..Chunks]
    /\ pc \in [Callers -> PCs]
    /\ call \in [Callers -> Calls]
    /\ id \in [Callers -> MountIDs]
    /\ driver \in [Callers -> Drivers \cup {NoDriver}]
    /\ moved \in [Callers -> 0..Chunks]
    /\ rc \in [Callers -> {-1, 0, 1, 2}]
    /\ displaced \subseteq created

(* An identifier leads to a driver of its own and one that is up: never to *)
(* one that has been unmounted or is being unmounted by another caller,    *)
(* nor to one that another identifier leads to or that is not yet mounted, *)
(* in whatever order mounts, unmounts and calls on it interleave.          *)
MountedMeansUsable ==
    \A m \in MountIDs : mounts[m] # NoDriver =>
        /\ Usable(mounts[m])
        /\ \A n \in MountIDs : mounts[n] = mounts[m] => n = m
        /\ \A c \in Callers :
              driver[c] = mounts[m] => pc[c] \notin {"mounting", "storing", "unmounting"}

(* Every connected driver can still be unmounted: it is in the map, or a   *)
(* caller is about to put it there or is taking it down.  What is lost is  *)
(* only what a second mount under its identifier replaced, or what the     *)
(* delete of an unmount deleted in place of the driver it had looked up.   *)
ActiveIsTracked ==
    \A d \in up \ (down \cup displaced) :
        \/ \E m \in MountIDs : mounts[m] = d
        \/ \E c \in Callers :
              driver[c] = d /\ pc[c] \in {"storing", "deleting", "unmounting", "gone"}

(* networkfs_writefile returns 0 on success: the server has the file.      *)
WriteSuccessMeansStored ==
    [][\A c \in Callers :
          pc[c] = "closing" /\ pc'[c] = "idle" /\ rc'[c] = 0
             => stored'[driver[c]] = Chunks]_vars
===============================================================================
