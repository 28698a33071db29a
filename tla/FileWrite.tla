------------------------------- MODULE FileWrite ------------------------------
(***************************************************************************)
(* What the writer that CreateFile returns promises, whichever way it      *)
(* brings its bytes to the server: a Close that reports success has stored *)
(* everything its Writes took.                                             *)
(*                                                                         *)
(* A driver that commits a file as a whole leaves the one before until the *)
(* new one is complete; one that streams may leave any part of it.         *)
(*                                                                         *)
(* A file's contents are how much of what was written it holds.            *)
(* OneDriveUpload implements this as a whole, FtpStream streaming.         *)
(***************************************************************************)
EXTENDS Naturals

CONSTANT Whole   \* whether a file is committed as a whole

VARIABLES
    accepted,  \* bytes Write took
    spoiled,   \* a Write reported an error
    stored,    \* the server's file: whether it is the new one, and how much of it
    result     \* what Close returned

vars == <<accepted, spoiled, stored, result>>

Complete(file) == file = [new |-> TRUE, size |-> accepted]

Init ==
    /\ accepted = 0 /\ spoiled = FALSE
    /\ stored = [new |-> FALSE, size |-> 0]
    /\ result = "none"

(* A Write takes bytes; an error may follow, or come without any.          *)
Write ==
    /\ result = "none"
    /\ Whole => ~stored.new
    /\ accepted' \in Nat /\ accepted' >= accepted
    /\ spoiled' \in BOOLEAN /\ (spoiled => spoiled')
    /\ UNCHANGED <<stored, result>>

(* The server stores what it got, which for a driver that commits is all.  *)
(* It may still do so when Close has given up.                             *)
Stores ==
    /\ result # "ok"
    /\ stored' \in [new : {TRUE}, size : 0..accepted]
    /\ Whole => Complete(stored')
    /\ UNCHANGED <<accepted, spoiled>>

(* Close answers, perhaps as the file is stored.  After a Write that       *)
(* failed and took nothing there is nothing to store.                      *)
Answers ==
    /\ result = "none"
    /\ result' \in {"ok", "failed"}
    /\ result' = "ok" => Complete(stored') \/ (spoiled /\ accepted = 0)
    /\ UNCHANGED <<accepted, spoiled>>

Store == Stores /\ UNCHANGED result
Close == Answers /\ (UNCHANGED stored \/ Stores)

Next == Write \/ Store \/ Close

Spec == Init /\ [][Next]_vars
===============================================================================
