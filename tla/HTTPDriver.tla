------------------------------ MODULE HTTPDriver ------------------------------
(***************************************************************************)
(* The two drivers whose every operation is one call of an HTTP library    *)
(* client: dropbox and webdav.  An operation checks "connected and client  *)
(* not nil" and then reads the client field again to call it; Unmount sets *)
(* the field to nil; no lock is held, so an Unmount of another caller may  *)
(* come in between.  webdav recovers from the panic, dropbox does not.     *)
(*                                                                         *)
(* A writer collects in memory what it is given and is one call when it is *)
(* closed, however much later that is.  Any reply may be lost: nothing is  *)
(* repeated, except webdav's Remove, which answers every failure of its    *)
(* DELETE with a second one.                                               *)
(*                                                                         *)
(* Several threads of the host share a mount.  Abstracted: contents,       *)
(* tokens (golang.org/x/oauth2 refreshes them inside a call), thumbnails   *)
(* (a read), the connections of the HTTP transport.                        *)
(***************************************************************************)
EXTENDS Naturals

CONSTANTS
    Callers,   \* threads of the host
    Paths,     \* remote names
    Flavours   \* which of the two drivers are considered

ASSUME FlavoursAssumption == Flavours \subseteq {"dropbox", "webdav"}

VARIABLES
    flavour,    \* the driver; never changes
    connected,  \* d.connected
    client,     \* d.client is not nil
    remote,     \* what the server holds
    pc,         \* where each caller is
    req,        \* the request each caller is serving or served last
    tries,      \* calls the open request has made
    answer,     \* what it returned, or "pending"
    acted,      \* history: it has taken effect
    overtaken   \* history: an Unmount ran since the guard of the open request,
                \* or of the one that panicked

driverVars == <<flavour, connected, client>>
callVars == <<req, tries, answer, acted, overtaken>>
vars == <<driverVars, callVars, remote, pc>>

Kinds == {"none", "file", "empty", "full"}
Answers == {"none", "pending", "ok", "failed", "panicked", "notConnected"}
PCs == {"idle", "mounting", "unmounting", "writing", "call", "sent", "gone"}

Requests ==
    {r \in [op : {"read", "create", "mkdir", "remove", "rename"},
            path : Paths, to : Paths] : r.op = "rename" <=> r.path # r.to}

-----------------------------------------------------------------------------
(* The server: DELETE takes a directory with its contents, MOVE replaces   *)
(* its target on webdav and refuses to on dropbox.                         *)
Possible(r, t) ==
    CASE r.op = "read"   -> t[r.path] # "none"
      [] r.op = "create" -> t[r.path] \in {"none", "file"}
      [] r.op = "mkdir"  -> t[r.path] = "none"
      [] r.op = "remove" -> t[r.path] # "none"
      [] r.op = "rename" -> /\ t[r.path] # "none"
                            /\ flavour = "dropbox" => t[r.to] = "none"

Applied(r, t) ==
    CASE r.op = "read"   -> t
      [] r.op = "create" -> [t EXCEPT ![r.path] = "file"]
      [] r.op = "mkdir"  -> [t EXCEPT ![r.path] = "empty"]
      [] r.op = "remove" -> [t EXCEPT ![r.path] = "none"]
      [] r.op = "rename" -> [t EXCEPT ![r.path] = "none", ![r.to] = t[r.path]]

Executed(c) ==
    /\ Possible(req[c], remote)
    /\ remote' = Applied(req[c], remote)
    /\ acted' = [acted EXCEPT ![c] = TRUE]

(* gowebdav takes two refusals for success: 405 of MKCOL, which is that    *)
(* something is there, and 404 of DELETE, that nothing is.                 *)
FoundDone(c) ==
    /\ flavour = "webdav"
    /\ \/ req[c].op = "mkdir" /\ remote[req[c].path] # "none"
       \/ req[c].op = "remove" /\ remote[req[c].path] = "none"
    /\ UNCHANGED <<remote, acted>>

(* A webdav server that cannot delete one member may have deleted others.  *)
NotExecuted(c) ==
    /\ UNCHANGED acted
    /\ \/ UNCHANGED remote
       \/ /\ flavour = "webdav" /\ req[c].op = "remove"
          /\ remote[req[c].path] = "full"
          /\ remote' = [remote EXCEPT ![req[c].path] = "empty"]

-----------------------------------------------------------------------------
Init ==
    /\ flavour \in Flavours
    /\ connected = FALSE /\ client = FALSE
    /\ remote \in [Paths -> Kinds]
    /\ pc = [c \in Callers |-> "idle"]
    /\ \E p \in Paths :
          req = [c \in Callers |-> [op |-> "read", path |-> p, to |-> p]]
    /\ tries = [c \in Callers |-> 0]
    /\ answer = [c \in Callers |-> "none"]
    /\ acted = [c \in Callers |-> FALSE]
    /\ overtaken = [c \in Callers |-> FALSE]

Goto(c, label) == pc' = [pc EXCEPT ![c] = label]

(* A request returns.                                                      *)
Finish(c, result) ==
    /\ Goto(c, "idle")
    /\ answer' = [answer EXCEPT ![c] = result]
    /\ tries' = [tries EXCEPT ![c] = 0]
    /\ overtaken' = [overtaken EXCEPT ![c] = @ /\ result = "panicked"]

(* Mount.  dropbox only makes a client; webdav makes one and then asks the *)
(* server.  A per-driver archive mounts its one driver as often as told.   *)
Mount(c) ==
    /\ pc[c] = "idle"
    /\ client' = TRUE
    /\ IF flavour = "webdav" THEN Goto(c, "mounting") /\ UNCHANGED connected
                             ELSE connected' = TRUE /\ UNCHANGED pc
    /\ UNCHANGED <<flavour, callVars, remote>>

(* webdav's Connect succeeds, or fails and leaves the new client behind.   *)
MountConnected(c) ==
    /\ pc[c] = "mounting" /\ connected' = TRUE
    /\ Goto(c, "idle")
    /\ UNCHANGED <<flavour, client, callVars, remote>>

MountFails(c) ==
    /\ pc[c] = "mounting"
    /\ Goto(c, "idle")
    /\ UNCHANGED <<driverVars, callVars, remote>>

(* Unmount sets one field and then the other.                              *)
Unmount(c) ==
    /\ pc[c] = "idle"
    /\ client' = FALSE
    /\ overtaken' = [d \in Callers |-> overtaken[d] \/ answer[d] = "pending"]
    /\ Goto(c, "unmounting")
    /\ UNCHANGED <<flavour, connected, req, tries, answer, acted, remote>>

Unmounted(c) ==
    /\ pc[c] = "unmounting" /\ connected' = FALSE
    /\ Goto(c, "idle")
    /\ UNCHANGED <<flavour, client, callVars, remote>>

(* Mutant: the guard looks at connected only.                              *)
ReadyIfConnected == connected

(* The guard every operation begins with.                                  *)
Ready == connected /\ client

(* An operation begins.  CreateFile hands out a writer.                    *)
Begin(c, r) ==
    /\ pc[c] = "idle"
    /\ req' = [req EXCEPT ![c] = r]
    /\ tries' = [tries EXCEPT ![c] = 0]
    /\ acted' = [acted EXCEPT ![c] = FALSE]
    /\ overtaken' = [overtaken EXCEPT ![c] = FALSE]
    /\ IF Ready
       THEN /\ answer' = [answer EXCEPT ![c] = "pending"]
            /\ Goto(c, IF r.op = "create" THEN "writing" ELSE "call")
       ELSE /\ answer' = [answer EXCEPT ![c] = "notConnected"]
            /\ UNCHANGED pc
    /\ UNCHANGED <<driverVars, remote>>

(* The writer is closed: webdav's looks at the client again first.         *)
Close(c) ==
    /\ pc[c] = "writing"
    /\ IF flavour = "webdav" /\ ~client
       THEN Finish(c, "failed")
       ELSE Goto(c, "call") /\ UNCHANGED <<tries, answer, overtaken>>
    /\ UNCHANGED <<driverVars, req, acted, remote>>

(* The call is made on the client the field holds by now...                *)
Send(c) ==
    /\ pc[c] = "call" /\ client
    /\ tries' = [tries EXCEPT ![c] = @ + 1]
    /\ Goto(c, "sent")
    /\ UNCHANGED <<driverVars, req, answer, acted, overtaken, remote>>

(* ... which may be nil: webdav's handler turns the panic into an error,   *)
(* dropbox's takes the process down.                                       *)
SendOnNil(c) ==
    /\ pc[c] = "call" /\ ~client
    /\ IF flavour = "webdav"
       THEN Finish(c, "panicked")
       ELSE /\ pc' = [d \in Callers |-> "gone"]
            /\ UNCHANGED <<tries, answer, overtaken>>
    /\ UNCHANGED <<driverVars, req, acted, remote>>

(* Mutants of FallsBack: every request is sent again; a removal is sent    *)
(* again however often it fails.                                           *)
FallsBackAlways(c) == flavour = "webdav" /\ tries[c] = 1
FallsBackForever(c) == flavour = "webdav" /\ req[c].op = "remove"

(* webdav's Remove, after whatever error of its first call.                *)
FallsBack(c) == flavour = "webdav" /\ req[c].op = "remove" /\ tries[c] = 1

Fail(c) ==
    IF FallsBack(c) THEN Goto(c, "call") /\ UNCHANGED <<tries, answer, overtaken>>
                    ELSE Finish(c, "failed")

Served(c) ==
    /\ pc[c] = "sent"
    /\ Executed(c) \/ FoundDone(c)
    /\ Finish(c, "ok")
    /\ UNCHANGED <<driverVars, req>>

Refused(c) ==
    /\ pc[c] = "sent"
    /\ NotExecuted(c)
    /\ Fail(c)
    /\ UNCHANGED <<driverVars, req>>

(* The request or its reply is lost.                                       *)
Lost(c) ==
    /\ pc[c] = "sent"
    /\ Executed(c) \/ NotExecuted(c)
    /\ Fail(c)
    /\ UNCHANGED <<driverVars, req>>

(* The process is gone.                                                    *)
Gone == (\E c \in Callers : pc[c] = "gone") /\ UNCHANGED vars

Next ==
    \/ Gone
    \/ \E c \in Callers :
          \/ Mount(c) \/ MountConnected(c) \/ MountFails(c)
          \/ Unmount(c) \/ Unmounted(c)
          \/ \E r \in Requests : Begin(c, r)
          \/ Close(c) \/ Send(c) \/ SendOnNil(c)
          \/ Served(c) \/ Refused(c) \/ Lost(c)

Spec == Init /\ [][Next]_vars

-----------------------------------------------------------------------------
TypeOK ==
    /\ flavour \in Flavours
    /\ connected \in BOOLEAN /\ client \in BOOLEAN
    /\ remote \in [Paths -> Kinds]
    /\ pc \in [Callers -> PCs]
    /\ req \in [Callers -> Requests]
    /\ tries \in [Callers -> 0..2]
    /\ answer \in [Callers -> Answers]
    /\ acted \in [Callers -> BOOLEAN]
    /\ overtaken \in [Callers -> BOOLEAN]

(* What a caller is told: every kind of error is one to it.                *)
Told(a) == IF a = "panicked" THEN "failed" ELSE a
told == [c \in Callers |-> Told(answer[c])]

Forgiving == IF flavour = "webdav" THEN {"mkdir", "remove"} ELSE {}

FS == INSTANCE FileSystem WITH recursive <- TRUE, forgiving <- Forgiving, answer <- told

(* A driver is a FileSystem for any number of callers and with Unmount at  *)
(* any time: a success is told only of a call that took effect while it    *)
(* was open, or by webdav of a Mkdir where something was and of a Remove   *)
(* of nothing; and only a removal ever takes effect twice.  Both drivers   *)
(* remove a directory with what is in it, which docs/DRIVERS.md:71 asks    *)
(* them not to.                                                            *)
FileSystemSpec == FS!Spec

(* Nothing but an Unmount under an open call or writer lets a driver use a *)
(* nil client, and only dropbox takes the process down for it.             *)
PanicOnlyWhenOvertaken ==
    /\ \A c \in Callers : answer[c] = "panicked" => overtaken[c]
    /\ (\E c \in Callers : pc[c] = "gone") =>
          flavour = "dropbox" /\ \E c \in Callers : overtaken[c]

(* Strengthens PanicOnlyWhenOvertaken to an inductive invariant.           *)
CallInv ==
    \A c \in Callers :
        /\ pc[c] \in {"writing", "call", "sent"} =>
              answer[c] = "pending" /\ (client \/ overtaken[c])
        /\ pc[c] = "sent" => tries[c] \in 1..2
        /\ pc[c] = "call" => tries[c] \in 0..1
        /\ pc[c] = "writing" => tries[c] = 0
        /\ pc[c] = "call" /\ tries[c] = 1 => req[c].op = "remove"
        /\ tries[c] = 2 => req[c].op = "remove"
        /\ answer[c] = "pending" =>
              /\ pc[c] \in {"writing", "call", "sent", "gone"}
              /\ acted[c] => req[c].op = "remove"
        /\ pc[c] = "gone" => \A d \in Callers : pc[d] = "gone"
===============================================================================
