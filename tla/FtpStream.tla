------------------------------- MODULE FtpStream ------------------------------
(***************************************************************************)
(* The ftp driver's streams: a file being written and one being read, on   *)
(* one mount, while another caller reconnects or unmounts it.              *)
(*                                                                         *)
(* CreateFile and OpenFile check the guard, start a goroutine and talk to  *)
(* it over an io.Pipe, which holds nothing: a Write returns when the other *)
(* side has read all of it, or has closed.  The goroutine reads d.client   *)
(* when it gets to run and hands the pipe to the ftp library, whose calls  *)
(* each end within its timeout.  Nothing here goes through withReconnect.  *)
(*                                                                         *)
(* Contents are how many bytes there are of them.  One writer and one      *)
(* reader, each opened once: what they share is the client.                *)
(***************************************************************************)
EXTENDS Naturals

CONSTANTS
    MaxBytes,   \* bound: bytes written, and bytes in the file that is read
    MaxClients  \* bound: clients dialled in one behaviour

ASSUME BoundsAssumption == MaxBytes \in Nat /\ MaxClients \in Nat \ {0}

VARIABLES
    connected,  \* d.connected
    client,     \* d.client: 0 is nil, others count the clients dialled
    live,       \* the client whose connections are open, or 0
    dialled,    \* clients dialled so far
    other,      \* the other caller: "idle", or how far it is with the client
    leaving,    \* it unmounts rather than reconnects
    gone,       \* the process has panicked
    late,       \* history: the field was cleared before a goroutine read it
    \* the writer
    wpc,        \* its caller
    wrun,       \* its goroutine
    wvia,       \* the client the goroutine uses, until it needs it no more
    offer,      \* bytes of the Write in progress not yet read from the pipe
    shut,       \* w.pw is closed
    broken,     \* its read side is closed
    failed,     \* Store has returned an error
    done,       \* what is in w.done
    accepted,   \* bytes Write took
    spoiled,    \* history: a Write returned an error
    stored,     \* server: the file, as in FileWrite
    result,     \* what Close returned
    \* the reader
    size,       \* server: bytes of the file to read
    rpc,        \* its caller
    rrun,       \* its goroutine
    rvia,       \* the client the goroutine uses, until it needs it no more
    fetched,    \* bytes the goroutine has got
    ready,      \* of them, those of its pw.Write not yet read from the pipe
    ending,     \* what the pipe ends with: "none", "eof" or "error"
    dropped,    \* its read side is closed
    first,      \* len(r.first)
    delivered,  \* bytes the caller has got
    told        \* what the caller was told last: "more" when more may follow

driver == <<connected, client, live, dialled>>
others == <<other, leaving>>
writer == <<wpc, wrun, wvia, offer, shut, broken, failed, done, accepted,
            spoiled, stored, result>>
reader == <<size, rpc, rrun, rvia, fetched, ready, ending, dropped, first,
            delivered, told>>
vars == <<driver, others, gone, late, writer, reader>>

-----------------------------------------------------------------------------
Init ==
    /\ connected = TRUE /\ client = 1 /\ live = 1 /\ dialled = 1
    /\ other = "idle" /\ leaving = FALSE
    /\ gone = FALSE /\ late = FALSE
    /\ wpc = "new" /\ wrun = "none" /\ wvia = 0
    /\ offer = 0 /\ shut = FALSE /\ broken = FALSE
    /\ failed = FALSE /\ done = "none"
    /\ accepted = 0 /\ spoiled = FALSE
    /\ stored = [new |-> FALSE, size |-> 0] /\ result = "none"
    /\ size \in 0..MaxBytes
    /\ rpc = "new" /\ rrun = "none" /\ rvia = 0
    /\ fetched = 0 /\ ready = 0 /\ ending = "none" /\ dropped = FALSE
    /\ first = 0 /\ delivered = 0 /\ told = "none"

-----------------------------------------------------------------------------
(* The other caller: Unmount, or an operation whose connection failed.     *)

CloseClient(unmount) ==
    /\ ~gone /\ other = "idle" /\ client # 0
    /\ live' = 0
    /\ other' = "closing" /\ leaving' = unmount
    /\ UNCHANGED <<connected, client, dialled, gone, late, writer, reader>>

ClearClient ==
    /\ ~gone /\ other = "closing"
    /\ client' = 0
    /\ connected' = (connected /\ ~leaving)
    /\ other' = IF leaving THEN "idle" ELSE "dialing"
    /\ leaving' = FALSE
    /\ late' = (late \/ "started" \in {wrun, rrun})
    /\ UNCHANGED <<live, dialled, gone, writer, reader>>

(* connect(), for withReconnect or for a Mount after an Unmount.           *)
Dial ==
    /\ ~gone /\ (other = "dialing" \/ (other = "idle" /\ ~connected))
    /\ dialled < MaxClients
    /\ dialled' = dialled + 1 /\ client' = dialled' /\ live' = dialled'
    /\ connected' = TRUE
    /\ other' = "idle"
    /\ UNCHANGED <<leaving, gone, late, writer, reader>>

DialFails ==
    /\ ~gone /\ other = "dialing"
    /\ other' = "idle"
    /\ UNCHANGED <<driver, leaving, gone, late, writer, reader>>

(* Mutant: the guard looks at connected only.                              *)
MountedOnly == connected

Mounted == connected /\ client # 0

-----------------------------------------------------------------------------
(* The writer's caller.                                                    *)

elsewhere == <<driver, others, gone, late, reader>>
written == <<accepted, spoiled, stored>>

CreateFile ==
    /\ ~gone /\ wpc = "new"
    /\ IF Mounted
       THEN wpc' = "open" /\ wrun' = "started" /\ UNCHANGED result
       ELSE wpc' = "closed" /\ result' = "failed" /\ UNCHANGED wrun
    /\ UNCHANGED <<elsewhere, wvia, offer, shut, broken, failed, done, written>>

(* Write hands its bytes to the pipe and waits.                            *)
Write(n) ==
    /\ ~gone /\ wpc = "open" /\ ~broken
    /\ n > 0 /\ accepted + n <= MaxBytes
    /\ wpc' = "writing" /\ offer' = n
    /\ UNCHANGED <<elsewhere, wrun, wvia, shut, broken, failed, done, written,
                   result>>

(* The upload has ended: Write is told so at once.                         *)
WriteFails ==
    /\ ~gone /\ wpc = "open" /\ broken
    /\ spoiled' = TRUE
    /\ UNCHANGED <<elsewhere, wpc, wrun, wvia, offer, shut, broken, failed,
                   done, accepted, stored, result>>

(* Mutant: Close ends the pipe and does not wait.                          *)
CloseUnwaited ==
    /\ ~gone /\ wpc = "open"
    /\ wpc' = "closed" /\ shut' = TRUE /\ result' = "ok"
    /\ UNCHANGED <<elsewhere, wrun, wvia, offer, broken, failed, done, written>>

Close ==
    /\ ~gone /\ wpc = "open"
    /\ wpc' = "closing" /\ shut' = TRUE
    /\ UNCHANGED <<elsewhere, wrun, wvia, offer, broken, failed, done, written,
                   result>>

CloseReturns ==
    /\ ~gone /\ wpc = "closing" /\ done # "none"
    /\ wpc' = "closed" /\ result' = done
    /\ UNCHANGED <<elsewhere, wrun, wvia, offer, shut, broken, failed, done,
                   written>>

-----------------------------------------------------------------------------
(* The writer's goroutine.                                                 *)

calledWriter == <<shut, result>>

(* d.client is read when the goroutine runs, and STOR is sent first.       *)
StoreOnNil ==
    /\ ~gone /\ wrun = "started" /\ client = 0
    /\ gone' = TRUE
    /\ UNCHANGED <<driver, others, late, writer, reader>>

StoreStarts ==
    /\ ~gone /\ wrun = "started" /\ client # 0
    /\ wvia' = client /\ wrun' = "sending"
    /\ UNCHANGED <<elsewhere, calledWriter, wpc, offer, broken, failed, done,
                   written>>

(* It reads some of what is offered, and Write returns with the last of it *)
(* and sends it on.                                                        *)
Consume(n) ==
    /\ ~gone /\ wrun = "reading" /\ n \in 1..offer
    /\ offer' = offer - n /\ accepted' = accepted + n
    /\ wpc' = IF offer' = 0 THEN "open" ELSE wpc
    /\ wrun' = "sending"
    /\ UNCHANGED <<elsewhere, calledWriter, wvia, broken, failed, done, spoiled,
                   stored>>

(* The server takes STOR, or the connection takes the bytes.               *)
Sent ==
    /\ ~gone /\ wrun = "sending" /\ wvia = live
    /\ wrun' = "reading"
    /\ UNCHANGED <<elsewhere, calledWriter, wpc, wvia, offer, broken, failed,
                   done, written>>

(* The caller has closed and everything is sent.                           *)
ReadsEnd ==
    /\ ~gone /\ wrun = "reading" /\ shut /\ offer = 0
    /\ wrun' = "finishing"
    /\ UNCHANGED <<elsewhere, calledWriter, wpc, wvia, offer, broken, failed,
                   done, written>>

(* The server confirms that it has all of it, and Store returns nil.       *)
StoreConfirmed ==
    /\ ~gone /\ wrun = "finishing" /\ wvia = live
    /\ stored' = [new |-> TRUE, size |-> accepted]
    /\ wrun' = "stored" /\ wvia' = 0
    /\ UNCHANGED <<elsewhere, calledWriter, wpc, offer, broken, failed,
                   done, accepted, spoiled>>

(* Refused, disconnected, timed out, or the client was closed; perhaps     *)
(* before anything was read, but not while it waits for the caller.        *)
StoreFails ==
    /\ ~gone /\ wrun \in {"sending", "finishing"}
    /\ failed' = TRUE /\ wrun' = "stored" /\ wvia' = 0
    /\ UNCHANGED <<elsewhere, calledWriter, wpc, offer, broken, done,
                   written>>

(* Mutant: the error goes to Close only.                                   *)
UnblockNothing ==
    /\ ~gone /\ wrun = "stored"
    /\ wrun' = "reporting"
    /\ UNCHANGED <<elsewhere, calledWriter, wpc, wvia, offer, broken, failed,
                   done, written>>

(* pr.CloseWithError: a Write still waiting is told.                       *)
Unblock ==
    /\ ~gone /\ wrun = "stored"
    /\ broken' = TRUE /\ offer' = 0
    /\ IF wpc = "writing" THEN wpc' = "open" /\ spoiled' = TRUE
                          ELSE UNCHANGED <<wpc, spoiled>>
    /\ wrun' = "reporting"
    /\ UNCHANGED <<elsewhere, calledWriter, wvia, failed, done, accepted, stored>>

Report ==
    /\ ~gone /\ wrun = "reporting"
    /\ done' = IF failed THEN "failed" ELSE "ok"
    /\ wrun' = "ended"
    /\ UNCHANGED <<elsewhere, calledWriter, wpc, wvia, offer, broken, failed,
                   written>>

(* The server keeps what has reached it, until it has confirmed the file.  *)
ServerStores(n) ==
    /\ wrun \notin {"none", "started"} /\ done # "ok" /\ (wrun = "stored" => failed)
    /\ wrun = "reporting" => failed
    /\ n \in stored.size..accepted
    /\ stored' = [new |-> TRUE, size |-> n]
    /\ UNCHANGED <<elsewhere, calledWriter, wpc, wrun, wvia, offer, broken,
                   failed, done, accepted, spoiled>>

-----------------------------------------------------------------------------
(* The reader's caller.                                                    *)

apart == <<driver, others, gone, late, writer, size>>

(* OpenFile waits for the first byte.                                      *)
OpenFile ==
    /\ ~gone /\ rpc = "new"
    /\ IF Mounted
       THEN rpc' = "opening" /\ rrun' = "started" /\ UNCHANGED told
       ELSE rpc' = "closed" /\ told' = "error" /\ UNCHANGED rrun
    /\ UNCHANGED <<apart, rvia, fetched, ready, ending, dropped, first, delivered>>

OpenPrimed ==
    /\ ~gone /\ rpc = "opening" /\ ready > 0
    /\ first' = 1 /\ ready' = ready - 1
    /\ rpc' = "open" /\ told' = "more"
    /\ UNCHANGED <<apart, rrun, rvia, fetched, ending, dropped, delivered>>

(* Nothing comes: an empty file opens, an error is OpenFile's.             *)
OpenEnds ==
    /\ ~gone /\ rpc = "opening" /\ ready = 0 /\ ending # "none"
    /\ IF ending = "eof"
       THEN rpc' = "open" /\ told' = "more" /\ UNCHANGED dropped
       ELSE rpc' = "closed" /\ told' = "error" /\ dropped' = TRUE
    /\ UNCHANGED <<apart, rrun, rvia, fetched, ready, ending, first, delivered>>

(* Mutant: the byte replayed stays.                                        *)
ReadFirstAgain ==
    /\ ~gone /\ rpc = "open" /\ first > 0
    /\ delivered' = delivered + first /\ told' = "more"
    /\ UNCHANGED <<apart, rpc, rrun, rvia, fetched, ready, ending, dropped, first>>

ReadFirst ==
    /\ ~gone /\ rpc = "open" /\ first > 0
    /\ first' = 0 /\ delivered' = delivered + first /\ told' = "more"
    /\ UNCHANGED <<apart, rpc, rrun, rvia, fetched, ready, ending, dropped>>

Read ==
    /\ ~gone /\ rpc = "open" /\ first = 0
    /\ rpc' = "reading"
    /\ UNCHANGED <<apart, rrun, rvia, fetched, ready, ending, dropped, first,
                   delivered, told>>

ReadReturns(n) ==
    /\ ~gone /\ rpc = "reading" /\ n \in 1..ready
    /\ ready' = ready - n /\ delivered' = delivered + n
    /\ rpc' = "open" /\ told' = "more"
    /\ UNCHANGED <<apart, rrun, rvia, fetched, ending, dropped, first>>

ReadEnds ==
    /\ ~gone /\ rpc = "reading" /\ ready = 0 /\ ending # "none"
    /\ rpc' = "open" /\ told' = ending
    /\ UNCHANGED <<apart, rrun, rvia, fetched, ready, ending, dropped, first,
                   delivered>>

(* The caller may stop wherever it is in the file.                         *)
CloseReader ==
    /\ ~gone /\ rpc = "open"
    /\ rpc' = "closed" /\ first' = 0 /\ dropped' = TRUE
    /\ UNCHANGED <<apart, rrun, rvia, fetched, ready, ending, delivered, told>>

-----------------------------------------------------------------------------
(* The reader's goroutine.                                                 *)

calledReader == <<rpc, dropped, first, delivered, told>>

RetrieveOnNil ==
    /\ ~gone /\ rrun = "started" /\ client = 0
    /\ gone' = TRUE
    /\ UNCHANGED <<driver, others, late, writer, reader>>

RetrieveStarts ==
    /\ ~gone /\ rrun = "started" /\ client # 0
    /\ rvia' = client /\ rrun' = "fetching"
    /\ UNCHANGED <<apart, calledReader, fetched, ready, ending>>

(* Some bytes arrive and are written to the pipe.                          *)
Fetch(n) ==
    /\ ~gone /\ rrun = "fetching" /\ ready = 0 /\ ~dropped /\ rvia = live
    /\ n \in 1..(size - fetched)
    /\ fetched' = fetched + n /\ ready' = n
    /\ UNCHANGED <<apart, calledReader, rrun, rvia, ending>>

(* The server has sent all and says so; the pipe ends.                     *)
RetrieveDone ==
    /\ ~gone /\ rrun = "fetching" /\ ready = 0 /\ rvia = live
    /\ fetched = size
    /\ ending' = "eof" /\ rrun' = "ended" /\ rvia' = 0
    /\ UNCHANGED <<apart, calledReader, fetched, ready>>

(* Mutant: the pipe is closed without the error.                           *)
RetrieveFailsQuietly ==
    /\ ~gone /\ rrun = "fetching" /\ (ready = 0 \/ dropped)
    /\ ending' = "eof" /\ ready' = 0 /\ rrun' = "ended" /\ rvia' = 0
    /\ UNCHANGED <<apart, calledReader, fetched>>

(* Missing, disconnected, timed out, the client was closed; or the reader  *)
(* has closed its side, which ends the write that waits there.             *)
RetrieveFails ==
    /\ ~gone /\ rrun = "fetching" /\ (ready = 0 \/ dropped)
    /\ ending' = "error" /\ ready' = 0 /\ rrun' = "ended" /\ rvia' = 0
    /\ UNCHANGED <<apart, calledReader, fetched>>

-----------------------------------------------------------------------------
Gone == gone /\ UNCHANGED vars

(* What goes on by itself once it is begun: the goroutines, and a caller   *)
(* that waits for one.                                                     *)
WriterRuns ==
    \/ StoreOnNil \/ StoreStarts \/ (\E n \in 1..MaxBytes : Consume(n))
    \/ Sent \/ ReadsEnd \/ StoreConfirmed \/ StoreFails
    \/ Unblock \/ Report \/ CloseReturns

ReaderRuns ==
    \/ RetrieveOnNil \/ RetrieveStarts \/ (\E n \in 1..MaxBytes : Fetch(n))
    \/ RetrieveDone \/ RetrieveFails

ReaderWaits ==
    \/ OpenPrimed \/ OpenEnds \/ ReadEnds
    \/ \E n \in 1..MaxBytes : ReadReturns(n)

Next ==
    \/ \E unmount \in BOOLEAN : CloseClient(unmount)
    \/ ClearClient \/ Dial \/ DialFails
    \/ CreateFile \/ (\E n \in 1..MaxBytes : Write(n)) \/ WriteFails \/ Close
    \/ OpenFile \/ ReadFirst \/ Read \/ CloseReader
    \/ WriterRuns \/ ReaderRuns \/ ReaderWaits
    \/ \E n \in 0..MaxBytes : ServerStores(n)
    \/ Gone

Spec == Init /\ [][Next]_vars

(* Goroutines are scheduled, and every call of the ftp library ends, by    *)
(* its 30 s timeout if not before.  Callers need not call again, nor       *)
(* close.                                                                  *)
FairSpec ==
    Spec /\ WF_vars(WriterRuns) /\ WF_vars(ReaderRuns) /\ WF_vars(ReaderWaits)

-----------------------------------------------------------------------------
(* Every variable keeps its type; a reader is given no byte twice and none *)
(* that the file does not have.                                            *)
TypeOK ==
    /\ connected \in BOOLEAN /\ leaving \in BOOLEAN
    /\ gone \in BOOLEAN /\ late \in BOOLEAN
    /\ client \in 0..MaxClients /\ live \in {0, client}
    /\ dialled \in 1..MaxClients
    /\ other \in {"idle", "closing", "dialing"}
    /\ wpc \in {"new", "open", "writing", "closing", "closed"}
    /\ wrun \in {"none", "started", "reading", "sending", "finishing",
                 "stored", "reporting", "ended"}
    /\ wvia \in 0..MaxClients
    /\ offer \in 0..MaxBytes /\ accepted + offer \in 0..MaxBytes
    /\ shut \in BOOLEAN /\ broken \in BOOLEAN /\ failed \in BOOLEAN
    /\ spoiled \in BOOLEAN
    /\ done \in {"none", "ok", "failed"} /\ result \in {"none", "ok", "failed"}
    /\ stored \in [new : BOOLEAN, size : 0..accepted]
    /\ size \in 0..MaxBytes
    /\ rpc \in {"new", "opening", "open", "reading", "closed"}
    /\ rrun \in {"none", "started", "fetching", "ended"}
    /\ rvia \in 0..MaxClients
    /\ fetched \in 0..size /\ ready \in 0..fetched
    /\ ending \in {"none", "eof", "error"} /\ dropped \in BOOLEAN
    /\ first \in 0..1 /\ delivered + first + ready \in 0..fetched
    /\ told \in {"none", "more", "eof", "error"}

W == INSTANCE FileWrite WITH Whole <- FALSE

(* The writer is a FileWrite that streams: Close's success is the server's *)
(* word for all that Write took, whatever happened to the client and       *)
(* whichever of the two ends of the pipe was closed first.                 *)
UploadSpec == W!Spec

(* A reader is told the file ends only when it has all of it: a transfer   *)
(* that fails is an error of OpenFile or of a Read, never a short file.    *)
EndMeansAll ==
    told = "eof" => delivered = size

(* The process goes down only because another caller cleared the client    *)
(* between a stream's guard and its goroutine.                             *)
PanicOnlyWhenLate == gone => late

(* Nobody waits for ever: a Write, a Close, an OpenFile and a Read return, *)
(* and a reader that was closed early leaves no goroutine behind.          *)
NobodyIsStuck ==
    /\ wpc \in {"writing", "closing"} ~> wpc \in {"open", "closed"} \/ gone
    /\ rpc \in {"opening", "reading"} ~> rpc \in {"open", "closed"} \/ gone
    /\ rpc = "closed" ~> rrun \in {"none", "ended"} \/ gone
===============================================================================
