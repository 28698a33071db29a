----------------------------- MODULE SocketDriver -----------------------------
(***************************************************************************)
(* The three drivers that keep one socket open per mount: ftp, sftp, smb.  *)
(* They share one shape: Mount dials, every operation checks the guard     *)
(* "connected and client not nil" and then runs inside withReconnect,      *)
(* which on a recognised connection error takes the connection down, dials *)
(* once and runs the operation once more; Remove runs two operations one   *)
(* after the other; Unmount takes the connection down.                     *)
(*                                                                         *)
(* A connection is kept in one field by ftp, in two by sftp (client over   *)
(* sshConn), in three by smb (shareFS over session over conn).  Taking it  *)
(* down is one pass over the fields, the top one first: if it is not nil,  *)
(* close what it holds, then set it to nil.  The last holds the socket.    *)
(*                                                                         *)
(* No driver holds a lock, so the steps of several callers (the browser's  *)
(* listing, its preview, the unmount of its q key) interleave between any  *)
(* two network operations, and closing is one.  A step of this module is   *)
(* the code between two of them, or less.                                  *)
(*                                                                         *)
(* The server is the kind of each path; what the server refuses is its own *)
(* choice.  A full directory is one with something inside.                 *)
(***************************************************************************)
EXTENDS Naturals, FiniteSets

CONSTANTS
    Callers,   \* threads of the host that call into one mounted driver
    Paths,     \* remote names
    Handles,   \* connections a run may dial: the bound on reconnects
    NoHandle,  \* the nil field
    Flavours,  \* which of the three drivers are considered
    Host       \* what the host does besides: "remount", "unmount" (a bound)

ASSUME NoHandleAssumption == NoHandle \notin Handles
ASSUME FlavoursAssumption == Flavours \subseteq {"ftp", "sftp", "smb"}

VARIABLES
    flavour,    \* the driver; never changes
    connected,  \* d.connected
    held,       \* the connection in each field, the top one first
    opened,     \* connections ever dialled
    stopped,    \* those of which some part was closed: they serve no more
    closed,     \* those whose socket was closed
    orphaned,   \* history: connections a Mount replaced without closing them
    remote,     \* what the server holds
    pc,         \* where each caller is
    req,        \* the request each caller is serving or served last
    layer,      \* the field a caller that takes a connection down is at
    via,        \* the connection a request was sent on
    tries,      \* runs of op() inside the current withReconnect
    fallback,   \* Remove is in its second withReconnect
    answer,     \* what the last call returned
    acted       \* history: the caller's request has taken effect

driverVars == <<flavour, connected, held, opened, stopped, closed, orphaned>>
callVars == <<req, via, tries, fallback, answer, acted>>
vars == <<driverVars, callVars, remote, pc, layer>>

Kinds == {"none", "file", "empty", "full"}
Answers == {"none", "pending", "ok", "refused", "connErr", "notConnected"}
PCs == {"idle", "attempt", "sent", "closing", "clearing", "dialing",
        "rooting", "refusing", "unmounting", "gone"}

(* The fields of a driver, the last one the socket's.                      *)
Depth == CASE flavour = "ftp"  -> 1
           [] flavour = "sftp" -> 2
           [] flavour = "smb"  -> 3
Layers == 1..Depth

(* The field that operations use: d.client, of smb d.shareFS.              *)
client == held[1]

(* Requests that go through withReconnect.  OpenFile and CreateFile of ftp *)
(* stream through a pipe: its "read" is Stat or ListDir, and it has no     *)
(* "create".                                                               *)
Requests ==
    {r \in [op : {"read", "create", "mkdir", "remove", "rename"},
            path : Paths, to : Paths] :
        /\ r.op = "rename" <=> r.path # r.to
        /\ r.op = "create" => flavour # "ftp"}

-----------------------------------------------------------------------------
(* The server.                                                             *)

(* Mutant: every driver's fallback recurses.                               *)
CommandRecursive(c) ==
    IF req[c].op # "remove" THEN req[c].op
    ELSE IF ~fallback[c] THEN "delete" ELSE "removeAll"

(* The command a caller's current op() sends.                              *)
Command(c) ==
    IF req[c].op # "remove" THEN req[c].op
    ELSE IF ~fallback[c] THEN "delete"
    ELSE IF flavour = "smb" THEN "removeAll" ELSE "rmdir"

(* Whether a willing server can carry out a command in state t.            *)
Possible(cmd, r, t) ==
    CASE cmd = "read"      -> t[r.path] # "none"
      [] cmd = "create"    -> t[r.path] \in {"none", "file"}
      [] cmd = "mkdir"     -> t[r.path] = "none"
      [] cmd = "delete"    -> t[r.path] \in
                                 IF flavour = "ftp" THEN {"file"}
                                                    ELSE {"file", "empty"}
      [] cmd = "rmdir"     -> t[r.path] = "empty"
      [] cmd = "removeAll" -> t[r.path] # "none"
      [] cmd = "rename"    ->
            /\ t[r.path] # "none"
            /\ \/ t[r.to] = "none"
               \/ flavour = "ftp" /\ t[r.path] = "file" /\ t[r.to] = "file"
      [] OTHER             -> FALSE

(* What carrying it out makes of t.                                        *)
Applied(cmd, r, t) ==
    CASE cmd = "create" -> [t EXCEPT ![r.path] = "file"]
      [] cmd = "mkdir"  -> [t EXCEPT ![r.path] = "empty"]
      [] cmd \in {"delete", "rmdir", "removeAll"} ->
                           [t EXCEPT ![r.path] = "none"]
      [] cmd = "rename" -> [t EXCEPT ![r.path] = "none", ![r.to] = t[r.path]]
      [] OTHER          -> t

-----------------------------------------------------------------------------
Init ==
    /\ flavour \in Flavours
    /\ connected = FALSE
    /\ held = [i \in Layers |-> NoHandle]
    /\ opened = {} /\ stopped = {} /\ closed = {} /\ orphaned = {}
    /\ remote \in [Paths -> Kinds]
    /\ pc = [c \in Callers |-> "idle"]
    /\ req \in [Callers -> {r \in Requests : r.op = "read"}]
    /\ layer = [c \in Callers |-> 1]
    /\ via = [c \in Callers |-> NoHandle]
    /\ tries = [c \in Callers |-> 0]
    /\ fallback = [c \in Callers |-> FALSE]
    /\ answer = [c \in Callers |-> "none"]
    /\ acted = [c \in Callers |-> FALSE]

Goto(c, label) == pc' = [pc EXCEPT ![c] = label]

(* Mutant: Remove falls back again after its fallback failed.              *)
SettleAgain(c, result) ==
    IF req[c].op = "remove" /\ result # "ok"
    THEN /\ Goto(c, "attempt")
         /\ fallback' = [fallback EXCEPT ![c] = TRUE]
         /\ tries' = [tries EXCEPT ![c] = 1]
         /\ UNCHANGED answer
    ELSE /\ Goto(c, "idle")
         /\ answer' = [answer EXCEPT ![c] = result]
         /\ UNCHANGED <<fallback, tries>>

(* withReconnect has returned `result` to the operation that called it.    *)
(* Remove answers a failed first withReconnect with a second one, without  *)
(* looking at the guard again; everything else hands the result back.      *)
Settle(c, result) ==
    IF req[c].op = "remove" /\ ~fallback[c] /\ result # "ok"
    THEN /\ Goto(c, "attempt")
         /\ fallback' = [fallback EXCEPT ![c] = TRUE]
         /\ tries' = [tries EXCEPT ![c] = 1]
         /\ UNCHANGED answer
    ELSE /\ Goto(c, "idle")
         /\ answer' = [answer EXCEPT ![c] = result]
         /\ UNCHANGED <<fallback, tries>>

(* connect(): a new connection replaces whatever the fields held.  Its name*)
(* is the next one, to spare TLC the others.                               *)
Dialled(h) ==
    /\ h \in Handles \ opened /\ h = (CHOOSE n \in Handles \ opened : TRUE)
    /\ opened' = opened \cup {h}
    /\ held' = [i \in Layers |-> h]

-----------------------------------------------------------------------------
(* Taking a connection down: by withReconnect, whose call is then pending, *)
(* or by Unmount, of a caller that has no call pending.                    *)

(* Mutant: the last field is forgotten.                                    *)
NextFieldShort(c) ==
    IF layer[c] + 1 < Depth
    THEN /\ layer' = [layer EXCEPT ![c] = @ + 1]
         /\ Goto(c, "closing")
    ELSE /\ Goto(c, IF answer[c] = "pending" THEN "dialing" ELSE "unmounting")
         /\ layer' = [layer EXCEPT ![c] = 1]

(* From the field a caller is at to the next; after the last, withReconnect*)
(* dials and Unmount says that it is not connected.                        *)
NextField(c) ==
    IF layer[c] < Depth
    THEN /\ layer' = [layer EXCEPT ![c] = @ + 1]
         /\ Goto(c, "closing")
    ELSE /\ Goto(c, IF answer[c] = "pending" THEN "dialing" ELSE "unmounting")
         /\ layer' = [layer EXCEPT ![c] = 1]

(* What a field holds is closed; the last one's is the socket.             *)
CloseField(c) ==
    /\ pc[c] = "closing" /\ held[layer[c]] # NoHandle
    /\ stopped' = stopped \cup {held[layer[c]]}
    /\ closed' = IF layer[c] = Depth THEN closed \cup {held[layer[c]]} ELSE closed
    /\ Goto(c, "clearing")
    /\ UNCHANGED <<flavour, connected, held, opened, orphaned, layer, callVars, remote>>

(* Close has returned: the field is cleared, whatever it holds by then.    *)
ClearField(c) ==
    /\ pc[c] = "clearing"
    /\ held' = [held EXCEPT ![layer[c]] = NoHandle]
    /\ NextField(c)
    /\ UNCHANGED <<flavour, connected, opened, stopped, closed, orphaned, callVars, remote>>

(* A field that is nil is passed over; but ftp's withReconnect gives up    *)
(* when somebody else has cleared its only one.                            *)
PassField(c) ==
    /\ pc[c] = "closing" /\ held[layer[c]] = NoHandle
    /\ IF flavour = "ftp" /\ answer[c] = "pending"
       THEN Settle(c, "connErr") /\ UNCHANGED layer
       ELSE NextField(c) /\ UNCHANGED <<fallback, tries, answer>>
    /\ UNCHANGED <<driverVars, req, via, acted, remote>>

-----------------------------------------------------------------------------
(* Mount.  A fresh driver holds no connection; the one a per-driver archive*)
(* keeps may be mounted again, and then loses what it held.  sftp and smb  *)
(* are done when the dial is; ftp lists the root first.  A failed dial     *)
(* leaves everything as it was.                                            *)
Mount(c, h) ==
    /\ pc[c] = "idle" /\ ("remount" \in Host \/ opened = {})
    /\ Dialled(h)
    /\ orphaned' = orphaned \cup ({held[i] : i \in Layers} \ {NoHandle})
    /\ IF flavour = "ftp"
       THEN Goto(c, "rooting") /\ UNCHANGED connected
       ELSE connected' = TRUE /\ UNCHANGED pc
    /\ UNCHANGED <<flavour, stopped, closed, layer, callVars, remote>>

(* ftp's root listing went through.                                        *)
MountRooted(c) ==
    /\ pc[c] = "rooting"
    /\ connected' = TRUE
    /\ Goto(c, "idle")
    /\ UNCHANGED <<flavour, held, opened, stopped, closed, orphaned, layer, callVars, remote>>

(* Mutant: the new client is forgotten without being closed.               *)
MountRefusedOpen(c) ==
    /\ pc[c] = "rooting"
    /\ Goto(c, "refusing")
    /\ UNCHANGED <<driverVars, layer, callVars, remote>>

(* ftp's root listing failed: the client, which another caller may have    *)
(* set to nil meanwhile, is closed...                                      *)
MountRefused(c) ==
    /\ pc[c] = "rooting"
    /\ IF client = NoHandle
       THEN /\ pc' = [d \in Callers |-> "gone"]
            /\ UNCHANGED <<stopped, closed>>
       ELSE /\ stopped' = stopped \cup {client} /\ closed' = closed \cup {client}
            /\ Goto(c, "refusing")
    /\ UNCHANGED <<flavour, connected, held, opened, orphaned, layer, callVars, remote>>

(* ... and forgotten.                                                      *)
MountForgets(c) ==
    /\ pc[c] = "refusing"
    /\ held' = [held EXCEPT ![1] = NoHandle]
    /\ Goto(c, "idle")
    /\ UNCHANGED <<flavour, connected, opened, stopped, closed, orphaned, layer,
                   callVars, remote>>

(* Unmount takes the connection down, if there is any...                   *)
Unmount(c) ==
    /\ pc[c] = "idle" /\ "unmount" \in Host
    /\ connected \/ \E i \in Layers : held[i] # NoHandle
    /\ Goto(c, "closing")
    /\ UNCHANGED <<driverVars, layer, callVars, remote>>

(* ... and then says so.                                                   *)
Unmounted(c) ==
    /\ pc[c] = "unmounting"
    /\ connected' = FALSE
    /\ Goto(c, "idle")
    /\ UNCHANGED <<flavour, held, opened, stopped, closed, orphaned, layer, callVars, remote>>

-----------------------------------------------------------------------------
(* An operation starts: its guard, then op() for the first time.           *)
Begin(c, r) ==
    /\ pc[c] = "idle"
    /\ req' = [req EXCEPT ![c] = r]
    /\ acted' = [acted EXCEPT ![c] = FALSE]
    /\ fallback' = [fallback EXCEPT ![c] = FALSE]
    /\ tries' = [tries EXCEPT ![c] = 1]
    /\ IF ~connected \/ client = NoHandle
       THEN /\ answer' = [answer EXCEPT ![c] = "notConnected"]
            /\ UNCHANGED pc
       ELSE /\ answer' = [answer EXCEPT ![c] = "pending"]
            /\ Goto(c, "attempt")
    /\ UNCHANGED <<driverVars, layer, via, remote>>

(* op() reads the field and sends on what it finds there.                  *)
Attempt(c) ==
    /\ pc[c] = "attempt" /\ client # NoHandle
    /\ via' = [via EXCEPT ![c] = client]
    /\ Goto(c, "sent")
    /\ UNCHANGED <<driverVars, layer, req, tries, fallback, answer, acted, remote>>

(* op() calls a method of the nil client: a panic, which takes every       *)
(* thread of the host with it.                                             *)
AttemptOnNil(c) ==
    /\ pc[c] = "attempt" /\ client = NoHandle
    /\ pc' = [d \in Callers |-> "gone"]
    /\ UNCHANGED <<driverVars, layer, callVars, remote>>

(* The server carries out the command on the wire...                       *)
Executed(c) ==
    /\ Possible(Command(c), req[c], remote)
    /\ remote' = Applied(Command(c), req[c], remote)
    /\ acted' = [acted EXCEPT ![c] = TRUE]

(* ... or does not; smb's RemoveAll, a loop of the client's own over what  *)
(* the directory holds, may then have emptied it.                          *)
NotExecuted(c) ==
    /\ UNCHANGED acted
    /\ \/ UNCHANGED remote
       \/ /\ Command(c) = "removeAll" /\ remote[req[c].path] = "full"
          /\ remote' = [remote EXCEPT ![req[c].path] = "empty"]

(* RemoveAll of nothing is a success.                                      *)
FoundDone(c) ==
    /\ Command(c) = "removeAll" /\ remote[req[c].path] = "none"
    /\ UNCHANGED <<remote, acted>>

(* It is carried out, or need not be, and its answer arrives.              *)
Served(c) ==
    /\ pc[c] = "sent" /\ via[c] \notin stopped
    /\ Executed(c) \/ FoundDone(c)
    /\ Settle(c, "ok")
    /\ UNCHANGED <<driverVars, layer, req, via>>

(* The server refuses: missing, exists, not empty, permission, in use.     *)
Refused(c) ==
    /\ pc[c] = "sent" /\ via[c] \notin stopped
    /\ NotExecuted(c)
    /\ Settle(c, "refused")
    /\ UNCHANGED <<driverVars, layer, req, via>>

(* The connection fails under a request; the server may or may not have    *)
(* carried it out by then.                                                 *)
LostReply(c) == Executed(c) \/ NotExecuted(c)

(* Mutant: no limit to the retries.                                        *)
ReconnectableAlways(c) == TRUE

(* The error is one isConnError knows, and this was the first run of op(): *)
(* withReconnect takes down whatever connection the driver has by now.     *)
Reconnectable(c) == tries[c] = 1

ConnError(c) ==
    /\ pc[c] = "sent"
    /\ LostReply(c)
    /\ IF Reconnectable(c)
       THEN Goto(c, "closing") /\ UNCHANGED <<tries, fallback, answer>>
       ELSE Settle(c, "connErr")
    /\ UNCHANGED <<driverVars, layer, req, via>>

(* The error is one isConnError does not know (a timeout): no reconnect.   *)
OtherError(c) ==
    /\ pc[c] = "sent"
    /\ LostReply(c)
    /\ Settle(c, "connErr")
    /\ UNCHANGED <<driverVars, layer, req, via>>

(* The dial succeeds and op() runs once more.                              *)
Redial(c, h) ==
    /\ pc[c] = "dialing"
    /\ Dialled(h)
    /\ tries' = [tries EXCEPT ![c] = @ + 1]
    /\ Goto(c, "attempt")
    /\ UNCHANGED <<flavour, connected, stopped, closed, orphaned, layer, req, via,
                   fallback, answer, acted, remote>>

(* Mutant: the operation runs again although the dial failed.              *)
RedialFailsUnseen(c) ==
    /\ pc[c] = "dialing"
    /\ tries' = [tries EXCEPT ![c] = 2]
    /\ Goto(c, "attempt")
    /\ UNCHANGED <<driverVars, layer, req, via, fallback, answer, acted, remote>>

(* The dial fails: its error is the result, the fields stay as they are.   *)
RedialFails(c) ==
    /\ pc[c] = "dialing"
    /\ Settle(c, "connErr")
    /\ UNCHANGED <<driverVars, layer, req, via, acted, remote>>

(* The process is gone.                                                    *)
Gone == (\E c \in Callers : pc[c] = "gone") /\ UNCHANGED vars

(* What a caller does once it has called, as opposed to calling.           *)
Continue(c) ==
    \/ MountRooted(c) \/ MountRefused(c) \/ MountForgets(c) \/ Unmounted(c)
    \/ CloseField(c) \/ ClearField(c) \/ PassField(c)
    \/ Attempt(c) \/ AttemptOnNil(c)
    \/ Served(c) \/ Refused(c) \/ ConnError(c) \/ OtherError(c)
    \/ RedialFails(c)
    \/ \E h \in Handles : Redial(c, h)

Call(c) ==
    \/ \E h \in Handles : Mount(c, h)
    \/ Unmount(c)
    \/ \E r \in Requests : Begin(c, r)

Next == Gone \/ \E c \in Callers : Call(c) \/ Continue(c)

Spec == Init /\ [][Next]_vars

(* A call that has started keeps running: goroutines are scheduled, and    *)
(* every dial and read ends, by a timeout (ftp) or by the kernel reporting *)
(* the dead peer (sftp, smb).                                              *)
FairSpec ==
    Spec /\ \A c \in Callers : WF_vars(Continue(c))

-----------------------------------------------------------------------------
TypeOK ==
    /\ flavour \in Flavours
    /\ connected \in BOOLEAN
    /\ held \in [Layers -> Handles \cup {NoHandle}]
    /\ opened \subseteq Handles
    /\ stopped \subseteq opened /\ closed \subseteq stopped /\ orphaned \subseteq opened
    /\ remote \in [Paths -> Kinds]
    /\ pc \in [Callers -> PCs]
    /\ layer \in [Callers -> Layers]
    /\ req \in [Callers -> Requests]
    /\ via \in [Callers -> Handles \cup {NoHandle}]
    /\ tries \in [Callers -> 0..2]
    /\ fallback \in [Callers -> BOOLEAN]
    /\ answer \in [Callers -> Answers]
    /\ acted \in [Callers -> BOOLEAN]

(* A call is open as long as it has not answered: Unmount takes down a     *)
(* connection outside a call.                                              *)
InCall(c) ==
    \/ pc[c] \in {"attempt", "sent", "dialing"}
    \/ pc[c] \in {"closing", "clearing"} /\ answer[c] = "pending"

(* Strengthens TypeOK to an inductive invariant: the fields hold what was  *)
(* dialled, a call is open while its caller is in it, a reconnect only     *)
(* follows a first run of op(), and a connection is taken down from the top.*)
HeldWasDialled == \A i \in Layers : held[i] \in opened \cup {NoHandle}
PendingInCall ==
    \A c \in Callers : /\ InCall(c) => answer[c] = "pending"
                       /\ answer[c] = "pending" => InCall(c) \/ pc[c] = "gone"
OneRetry ==
    \A c \in Callers :
        InCall(c) /\ pc[c] \in {"closing", "clearing", "dialing"} => tries[c] = 1
FromTheTop ==
    \A c \in Callers : pc[c] \notin {"closing", "clearing", "gone"} => layer[c] = 1

TypeInv == TypeOK /\ HeldWasDialled /\ PendingInCall /\ OneRetry /\ FromTheTop

(* At most one connection of a mount is open: every one dialled but that   *)
(* in the socket's field has been closed down to its socket, across every  *)
(* order of failures, reconnects, failed mounts and unmounts; but for      *)
(* those a Mount of a driver already mounted replaced.                     *)
SingleConnection == opened \ closed \subseteq {held[Depth]} \cup orphaned

(* Unmount leaves no connection behind, whatever calls came before it, but *)
(* for those.                                                              *)
UnmountCloses ==
    ~connected /\ (\A c \in Callers : pc[c] = "idle")
        => opened \subseteq closed \cup orphaned

(* The only way a serial host can crash the process is Remove's second     *)
(* withReconnect, entered after the first one failed to dial.              *)
PanicOnlyInFallback ==
    \A c \in Callers : pc[c] = "gone" => req[c].op = "remove" /\ fallback[c]

(* What a caller is told: the two kinds of error are one to it.            *)
Told(a) == IF a \in {"refused", "connErr"} THEN "failed" ELSE a
told == [c \in Callers |-> Told(answer[c])]

Forgiving == IF flavour = "smb" THEN {"remove"} ELSE {}

FS == INSTANCE FileSystem WITH recursive <- flavour = "smb", forgiving <- Forgiving,
                               answer <- told

(* A driver with one caller is a FileSystem: a success is told only of a   *)
(* call that took effect, or of smb's removal of nothing; lost replies,    *)
(* the retry and Remove's fallback take it no more than once, no other     *)
(* path changes, and only smb removes a directory with something in it     *)
(* (docs/DRIVERS.md:71 asks that none does).                               *)
FileSystemSpec == FS!Spec

(* What that rests on: a request carried out has left the server as it     *)
(* asked, so that running its command again changes nothing more.          *)
Done(r) ==
    CASE r.op = "read"   -> TRUE
      [] r.op = "create" -> remote[r.path] = "file"
      [] r.op = "mkdir"  -> remote[r.path] = "empty"
      [] r.op = "remove" -> remote[r.path] = "none"
      [] r.op = "rename" -> remote[r.path] = "none"

RemoteInv ==
    \A c \in Callers : answer[c] = "pending" /\ acted[c] => Done(req[c])

(* What holds the first three together when the host has one thread: the   *)
(* fields hold one connection, or none from the first to the one at which  *)
(* it is being taken down; its socket is closed before the last is         *)
(* cleared; only a connected driver serves operations; and an operation    *)
(* finds its field nil only in Remove's fallback.                          *)
Holds(i, j) == \A k \in i..j : held[k] = held[Depth]
HoldsNone(i, j) == \A k \in i..j : held[k] = NoHandle

FieldsOf(c) ==
    /\ pc[c] \notin {"closing", "clearing"} => Holds(1, Depth)
    /\ pc[c] \in {"closing", "clearing"} =>
          HoldsNone(1, layer[c] - 1) /\ Holds(layer[c], Depth)
    /\ pc[c] = "clearing" /\ layer[c] = Depth => held[Depth] \in closed
    /\ pc[c] \in {"dialing", "unmounting"} => HoldsNone(1, Depth)
    /\ pc[c] = "rooting" => client # NoHandle
    /\ pc[c] = "refusing" => client \in closed
    /\ pc[c] \in {"rooting", "refusing"} => Depth = 1
    /\ InCall(c) => connected
    /\ pc[c] = "attempt" /\ client = NoHandle => req[c].op = "remove" /\ fallback[c]

FieldMatchesPlace ==
    /\ ~connected => \/ HoldsNone(1, Depth)
                     \/ \E c \in Callers : pc[c] \in {"rooting", "refusing"}
    /\ \A c \in Callers : FieldsOf(c)

ConnectionInv == SingleConnection /\ PanicOnlyInFallback /\ FieldMatchesPlace

(* Every call returns, however often the connection fails under it, or the *)
(* process is gone: no caller is kept from being idle again.               *)
CallReturns == \A c \in Callers : []<>(pc[c] \in {"idle", "gone"})
===============================================================================
