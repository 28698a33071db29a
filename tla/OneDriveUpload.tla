---------------------------- MODULE OneDriveUpload ---------------------------
(***************************************************************************)
(* Writing one file to OneDrive.                                           *)
(*                                                                         *)
(* The writer keeps MemCap bytes in memory and spills more to a temporary  *)
(* file.  Close sends the memory by one PUT, or the file by an upload      *)
(* session, in chunks each of which is attempted again after a transport   *)
(* error or a 429, 502, 503 or 504.  The server commits a session's file   *)
(* when it has all of it; a chunk it already has it refuses, and a session *)
(* it has finished it no longer knows.                                     *)
(*                                                                         *)
(* A file's contents are how much of it was written: 0 is the file before. *)
(* The PUT and the POST that opens the session go through do(), and fail   *)
(* heard or unheard; OneDriveCalls has their retries.                      *)
(***************************************************************************)
EXTENDS Naturals

CONSTANTS
    MemCap,        \* uploadMemCap
    ChunkSize,     \* chunkSize
    Align,         \* Graph: every chunk but the last is a multiple of this
    ChunkRetries,  \* putChunk: maxRetries
    MaxBytes       \* bound: bytes written in one behaviour

ASSUME SizesAssumption ==
    MemCap \in Nat /\ ChunkSize \in Nat \ {0} /\ MaxBytes \in Nat
ASSUME AlignAssumption == Align \in Nat \ {0} /\ ChunkSize % Align = 0
ASSUME ChunkRetriesAssumption == ChunkRetries \in Nat

VARIABLES
    phase,     \* "open", or where Close is, or "closed"
    buf,       \* bytes in w.buf
    temp,      \* whether there is a temporary file
    tempSz,    \* w.tempSz
    err,       \* whether w.err is set
    sent,      \* uploadSession: bytes sent and acknowledged
    attempt,   \* putChunk: which attempt this is
    result,    \* what Close returned
    session,   \* server: "none", "open" or "gone"
    received,  \* server: bytes of the session it has
    remote,    \* server: the file at the path: "before", "small" or "large", and its size
    accepted,  \* history: bytes that Write took
    short,     \* history: a Write failed, having taken some of its bytes or none
    unheard    \* history: a session's opening or cancelling went unheard

writerVars == <<phase, buf, temp, tempSz, err, sent, attempt, result, session,
                received, remote, accepted, short, unheard>>

writer == <<buf, temp, tempSz, err, accepted, short>>
upload == <<sent, attempt>>
server == <<session, received, remote, unheard>>

Lower(a, b) == IF a < b THEN a ELSE b

-----------------------------------------------------------------------------
WriterInit ==
    /\ phase = "open"
    /\ buf = 0 /\ temp = FALSE /\ tempSz = 0 /\ err = FALSE
    /\ accepted = 0 /\ short = FALSE
    /\ sent = 0 /\ attempt = 0
    /\ result = "none"
    /\ session = "none" /\ received = 0 /\ unheard = FALSE
    /\ remote = [file |-> "before", size |-> 0]

Room(n) == phase = "open" /\ ~err /\ accepted + n <= MaxBytes

WriteToMemory(n) ==
    /\ Room(n) /\ ~temp /\ buf + n <= MemCap
    /\ buf' = buf + n /\ accepted' = accepted + n
    /\ UNCHANGED <<phase, temp, tempSz, err, short, upload, server, result>>

(* A disk may take less than all of it: Write says so and keeps the count. *)
WriteToFile(n, taken) ==
    /\ Room(n) /\ temp /\ taken <= n
    /\ tempSz' = tempSz + taken /\ accepted' = accepted + taken
    /\ short' = (short \/ taken < n)
    /\ UNCHANGED <<phase, buf, temp, err, upload, server, result>>

Spills(n) == Room(n) /\ ~temp /\ buf + n > MemCap

(* Mutant: what was in memory is left out of the count.                    *)
SpillUncounted(n, taken) ==
    /\ Spills(n) /\ taken <= n
    /\ temp' = TRUE /\ tempSz' = taken
    /\ buf' = 0 /\ accepted' = accepted + taken
    /\ short' = (short \/ taken < n)
    /\ UNCHANGED <<phase, err, upload, server, result>>

Spill(n, taken) ==
    /\ Spills(n) /\ taken <= n
    /\ temp' = TRUE /\ tempSz' = buf + taken
    /\ buf' = 0 /\ accepted' = accepted + taken
    /\ short' = (short \/ taken < n)
    /\ UNCHANGED <<phase, err, upload, server, result>>

(* The file cannot be made, or cannot take the memory: w.err.              *)
SpillFails(n) ==
    /\ Spills(n)
    /\ err' = TRUE /\ short' = TRUE
    /\ UNCHANGED <<phase, buf, temp, tempSz, accepted, upload, server, result>>

-----------------------------------------------------------------------------
(* Close.                                                                  *)

(* Its deferred cleanupTemp.                                               *)
Finish(outcome) ==
    /\ phase' = "closed" /\ result' = outcome
    /\ temp' = FALSE
    /\ UNCHANGED <<buf, tempSz, err, accepted, short, upload>>

CloseAfterError ==
    /\ phase = "open" /\ err
    /\ Finish("failed")
    /\ UNCHANGED server

PutSmall(outcome, stored) ==
    /\ phase = "open" /\ ~err /\ ~temp
    /\ outcome = "ok" => stored
    /\ remote' = IF stored THEN [file |-> "small", size |-> buf] ELSE remote
    /\ Finish(outcome)
    /\ UNCHANGED <<session, received, unheard>>

OpenSession ==
    /\ phase = "open" /\ ~err /\ temp
    /\ session' = "open" /\ received' = 0
    /\ phase' = "chunk"
    /\ UNCHANGED <<writer, upload, remote, unheard, result>>

(* A seek, the request or its answer fails: maybe with a session.          *)
OpenSessionFails ==
    /\ phase = "open" /\ ~err /\ temp
    /\ \/ UNCHANGED server
       \/ session' = "open" /\ unheard' = TRUE /\ UNCHANGED <<received, remote>>
    /\ Finish("failed")

Want == Lower(ChunkSize, tempSz - sent)

SentAll == sent >= tempSz

UploadDone ==
    /\ phase = "chunk" /\ SentAll
    /\ Finish("ok")
    /\ UNCHANGED server

(* The next chunk is read from the file, or cannot be.                     *)
ReadChunk ==
    /\ phase = "chunk" /\ ~SentAll
    /\ \/ phase' = "put" /\ attempt' = 0
       \/ phase' = "cancel" /\ UNCHANGED attempt
    /\ UNCHANGED <<writer, sent, server, result>>

(* The server takes the bytes from sent on if those are what comes next    *)
(* and, unless they are the last, if there are enough of them.             *)
Takes ==
    /\ session = "open" /\ sent = received
    /\ sent + Want = tempSz \/ Want % Align = 0

Taken ==
    /\ received' = received + Want
    /\ IF received + Want = tempSz
       THEN /\ session' = "gone"
            /\ remote' = [file |-> "large", size |-> tempSz]
       ELSE UNCHANGED <<session, remote>>
    /\ UNCHANGED unheard

PutChunk ==
    /\ phase = "put" /\ Takes
    /\ Taken
    /\ sent' = sent + Want
    /\ phase' = "chunk"
    /\ UNCHANGED <<writer, attempt, result>>

(* A chunk the server cannot take, and one it could (a 500, a full drive). *)
PutChunkRefused ==
    /\ phase = "put"
    /\ phase' = "cancel"
    /\ UNCHANGED <<writer, upload, server, result>>

(* Mutants: the attempts have no end, counted or not.                      *)
PutChunkUncapped ==
    /\ phase = "put"
    /\ attempt' = attempt + 1
    /\ UNCHANGED <<phase, writer, sent, server, result>>

PutChunkForever ==
    /\ phase = "put"
    /\ attempt' = IF attempt < ChunkRetries THEN attempt + 1 ELSE 0
    /\ UNCHANGED <<phase, writer, sent, server, result>>

(* No answer, or a 429 or 5xx: before or after the server took the chunk.  *)
PutChunkInterrupted ==
    /\ phase = "put"
    /\ IF attempt < ChunkRetries
       THEN attempt' = attempt + 1 /\ UNCHANGED phase
       ELSE phase' = "cancel" /\ UNCHANGED attempt
    /\ \/ UNCHANGED server
       \/ Takes /\ Taken
    /\ UNCHANGED <<writer, sent, result>>

(* Mutant: the session is left to the server.                              *)
CancelNothing ==
    /\ phase = "cancel"
    /\ Finish("failed")
    /\ UNCHANGED server

(* cancelUploadSession, whose failure is not noticed.                      *)
Cancel ==
    /\ phase = "cancel"
    /\ Finish("failed")
    /\ \/ session' = "gone" /\ UNCHANGED unheard
       \/ unheard' = TRUE /\ UNCHANGED session
    /\ UNCHANGED <<received, remote>>

WriterNext ==
    \/ \E n \in 0..MaxBytes :
           \/ WriteToMemory(n) \/ SpillFails(n)
           \/ \E taken \in 0..n : WriteToFile(n, taken) \/ Spill(n, taken)
    \/ CloseAfterError
    \/ \E outcome \in {"ok", "failed"}, stored \in BOOLEAN : PutSmall(outcome, stored)
    \/ OpenSession \/ OpenSessionFails
    \/ ReadChunk \/ PutChunk \/ PutChunkRefused \/ PutChunkInterrupted
    \/ UploadDone \/ Cancel

WriterSpec == WriterInit /\ [][WriterNext]_writerVars

(* A request ends (the client's timeout is 60 s) and Close goes on.        *)
FairWriterSpec ==
    WriterSpec /\ WF_writerVars(ReadChunk \/ PutChunk \/ PutChunkRefused
                                    \/ PutChunkInterrupted \/ UploadDone \/ Cancel)

-----------------------------------------------------------------------------
(* Properties.                                                             *)

(* Every variable has its type, and no chunk has more attempts than        *)
(* maxRetries allows.                                                      *)
WriterTypeOK ==
    /\ phase \in {"open", "chunk", "put", "cancel", "closed"}
    /\ buf \in 0..MemCap /\ temp \in BOOLEAN /\ tempSz \in Nat /\ err \in BOOLEAN
    /\ accepted \in Nat /\ short \in BOOLEAN
    /\ sent \in Nat /\ attempt \in 0..ChunkRetries
    /\ result \in {"none", "ok", "failed"}
    /\ session \in {"none", "open", "gone"} /\ received \in Nat
    /\ remote \in [file : {"before", "small", "large"}, size : Nat]
    /\ unheard \in BOOLEAN

(* When Close reports success the server's file is the one written, all of *)
(* it, however it was split over memory, file and chunks.  (A Write that    *)
(* filled the disk is not remembered: Close stores what it took, if that   *)
(* is anything at all.)                                                    *)
SuccessMeansStored ==
    result = "ok" /\ (short => accepted > 0) => remote.file # "before" /\ remote.size = accepted

(* The server's file is the one before or all that was written, never less *)
(* of it, whatever failed and was repeated.                                *)
NeverPartial ==
    remote.file # "before" => remote.size = accepted

(* OneDriveUpload is a FileWrite that commits a file as a whole: it is     *)
(* both of the two above, and more, that the file before is replaced at    *)
(* one point, whichever way it goes and however its answers are lost.      *)
W == INSTANCE FileWrite WITH
        Whole <- TRUE,
        spoiled <- short,
        stored <- [new |-> remote.file # "before", size |-> remote.size]

UploadSpec == W!Spec

(* However Close ends it leaves no temporary file, and no session open,    *)
(* unless it could not know of it or could not make itself heard, or there *)
(* was nothing to send.                                                    *)
NothingLeftBehind ==
    phase = "closed" =>
        /\ ~temp
        /\ session = "open" => unheard \/ accepted = 0

(* A Close that opened its session returns.                                *)
CloseReturns == phase = "chunk" ~> phase = "closed"

-----------------------------------------------------------------------------
(* The invariant that makes the two about contents inductive.              *)

Sending == phase \in {"chunk", "put", "cancel"}

(* What was accepted is in memory or in the file.                          *)
Kept ==
    /\ phase = "open" /\ ~temp => buf = accepted
    /\ (phase = "open" /\ temp) \/ Sending => tempSz = accepted /\ (tempSz = 0 => short)

(* The session has what was sent, perhaps a chunk more, and the file is    *)
(* the server's exactly when that is everything.                           *)
InStep ==
    Sending =>
        /\ sent <= received /\ received <= tempSz
        /\ session \in {"open", "gone"}
        /\ phase = "put" => sent < tempSz
        /\ session = "open" /\ tempSz > 0 => received < tempSz
        /\ session = "gone" => received = tempSz /\ remote.file = "large"

NothingSent ==
    phase = "open" =>
        /\ sent = 0 /\ session = "none"
        /\ remote = [file |-> "before", size |-> 0]
        /\ result = "none"

WriterInv ==
    /\ WriterTypeOK /\ Kept /\ InStep /\ NothingSent
    /\ NeverPartial
    /\ Sending => result = "none"
    /\ SuccessMeansStored
==============================================================================
