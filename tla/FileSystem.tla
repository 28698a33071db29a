------------------------------ MODULE FileSystem ------------------------------
(***************************************************************************)
(* What a mounted driver promises its callers, whatever protocol it        *)
(* speaks, however often its connection fails and whoever else calls: a    *)
(* call is answered at once with "not connected", or it takes effect at    *)
(* some moment while it is open, at most once, and says so only if it did; *)
(* but a forgiving driver also takes it for success to be asked for a      *)
(* directory where something is, or for the removal of nothing.            *)
(*                                                                         *)
(* An error says nothing: a call that fails may have taken effect, because *)
(* its answer may have been lost.  Removing is the one thing a driver may  *)
(* do twice for one call, and a recursive driver may stop half-way, having *)
(* emptied a directory it did not remove.                                  *)
(*                                                                         *)
(* The drivers whose operations are one command of the server's each       *)
(* implement it: see SocketDriver and HTTPDriver.                          *)
(***************************************************************************)
CONSTANTS
    Callers,   \* threads of the host
    Paths      \* remote names

VARIABLES
    recursive,  \* whether this driver removes directories with their contents
    forgiving,  \* the operations of which it takes "already so" for success
    remote,     \* what the server holds, by path
    req,        \* the last call of each caller
    acted,      \* whether that call has taken effect
    answer      \* what it returned, or "pending"

vars == <<recursive, forgiving, remote, req, acted, answer>>

Kinds == {"none", "file", "empty", "full"}
Answers == {"none", "pending", "ok", "failed", "notConnected"}

(* Every call names a path, and a rename a second one.                     *)
Requests ==
    {r \in [op : {"read", "create", "mkdir", "remove", "rename"},
            path : Paths, to : Paths] : r.op = "rename" <=> r.path # r.to}

(* When a call may take effect, and what that makes of the server.         *)
Allowed(r, t) ==
    CASE r.op = "read"   -> t[r.path] # "none"
      [] r.op = "create" -> t[r.path] \in {"none", "file"}
      [] r.op = "mkdir"  -> t[r.path] = "none"
      [] r.op = "remove" -> t[r.path] \in {"file", "empty"} \cup
                                           IF recursive THEN {"full"} ELSE {}
      [] r.op = "rename" -> t[r.path] # "none"

Effect(r, t) ==
    CASE r.op = "read"   -> t
      [] r.op = "create" -> [t EXCEPT ![r.path] = "file"]
      [] r.op = "mkdir"  -> [t EXCEPT ![r.path] = "empty"]
      [] r.op = "remove" -> [t EXCEPT ![r.path] = "none"]
      [] r.op = "rename" -> [t EXCEPT ![r.path] = "none", ![r.to] = t[r.path]]

(* When there is nothing to do; for a directory, whatever is there instead.*)
Already(r, t) ==
    \/ r.op = "mkdir" /\ t[r.path] # "none"
    \/ r.op = "remove" /\ t[r.path] = "none"

-----------------------------------------------------------------------------
Init ==
    /\ recursive \in BOOLEAN /\ forgiving \in SUBSET {"mkdir", "remove"}
    /\ remote \in [Paths -> Kinds]
    /\ req \in [Callers -> Requests]
    /\ acted = [c \in Callers |-> FALSE]
    /\ answer = [c \in Callers |-> "none"]

(* A caller calls; a driver that is not connected says so at once.         *)
Call(c, r) ==
    /\ answer[c] # "pending"
    /\ req' = [req EXCEPT ![c] = r]
    /\ acted' = [acted EXCEPT ![c] = FALSE]
    /\ \E a \in {"pending", "notConnected"} : answer' = [answer EXCEPT ![c] = a]
    /\ UNCHANGED <<recursive, forgiving, remote>>

(* The call takes effect, and returns or goes on.                          *)
Act(c) ==
    /\ answer[c] = "pending"
    /\ acted[c] => req[c].op = "remove"
    /\ acted' = [acted EXCEPT ![c] = TRUE]
    /\ Allowed(req[c], remote)
    /\ remote' = Effect(req[c], remote)
    /\ \E a \in {"pending", "ok", "failed"} : answer' = [answer EXCEPT ![c] = a]
    /\ UNCHANGED <<recursive, forgiving, req>>

(* A recursive removal empties a directory and gets no further.            *)
Empty(c) ==
    /\ answer[c] = "pending"
    /\ recursive /\ req[c].op = "remove" /\ remote[req[c].path] = "full"
    /\ remote' = [remote EXCEPT ![req[c].path] = "empty"]
    /\ \E a \in {"pending", "failed"} : answer' = [answer EXCEPT ![c] = a]
    /\ UNCHANGED <<recursive, forgiving, req, acted>>

(* The call succeeds although it has not changed anything.                 *)
Find(c) ==
    /\ answer[c] = "pending"
    /\ req[c].op \in forgiving /\ Already(req[c], remote)
    /\ answer' = [answer EXCEPT ![c] = "ok"]
    /\ UNCHANGED <<recursive, forgiving, remote, req, acted>>

(* The call returns: with success only if it has taken effect.             *)
Return(c) ==
    /\ answer[c] = "pending"
    /\ \E a \in {"ok", "failed"} :
          /\ a = "ok" => acted[c]
          /\ answer' = [answer EXCEPT ![c] = a]
    /\ UNCHANGED <<recursive, forgiving, remote, req, acted>>

(* A caller may make any request: whichever it is in, in the next state.   *)
Next ==
    \E c \in Callers :
        \/ Act(c) \/ Empty(c) \/ Find(c) \/ Return(c)
        \/ req'[c] \in Requests /\ Call(c, req'[c])

Spec == Init /\ [][Next]_vars
===============================================================================
