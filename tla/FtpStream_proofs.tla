--------------------------- MODULE FtpStream_proofs ---------------------------
(***************************************************************************)
(* For files of any length and any number of clients: whatever the other   *)
(* caller does to the client, a reader is told that the file ends only     *)
(* when it has all of it, the writer is a FileWrite that streams, and the  *)
(* process goes down only when the client was cleared between a stream's   *)
(* guard and its goroutine.                                                *)
(*                                                                         *)
(* The client, the writer and the reader are described apart, by           *)
(* ClientInv, WriterInv and ReaderInv: a step changes the variables of one *)
(* of them, but for the step that clears the client, which is late for a   *)
(* goroutine that has started and not run.                                 *)
(*                                                                         *)
(* And nobody waits for ever, but for what the scheduler and the timeouts  *)
(* give: whoever waits on a pipe, its other side has a step to take        *)
(* (WriterServed, ReaderServed), and each such step leaves less to do.     *)
(***************************************************************************)
EXTENDS FtpStream, TLAPS

-----------------------------------------------------------------------------
(* The inductive invariant.                                                *)

(* The client, and who was too late for it.                                *)
ClientInv ==
    /\ connected \in BOOLEAN /\ leaving \in BOOLEAN
    /\ gone \in BOOLEAN /\ late \in BOOLEAN
    /\ client \in 0..MaxClients /\ live \in {0, client}
    /\ dialled \in 1..MaxClients
    /\ other \in {"idle", "closing", "dialing"}
    /\ other = "closing" => live = 0
    /\ "started" \in {wrun, rrun} /\ client = 0 => late
    /\ gone => late

(* The goroutine ends with the server's word or with an error, and what    *)
(* the server confirmed is what Write took, for nothing is read after it.  *)
Confirmed == stored = [new |-> TRUE, size |-> accepted]

WriterInv ==
    /\ wpc \in {"new", "open", "writing", "closing", "closed"}
    /\ wrun \in {"none", "started", "reading", "sending", "finishing",
                 "stored", "reporting", "ended"}
    /\ wvia \in 0..MaxClients
    /\ offer \in Nat /\ accepted \in Nat /\ accepted + offer <= MaxBytes
    /\ shut \in BOOLEAN /\ broken \in BOOLEAN /\ failed \in BOOLEAN
    /\ spoiled \in BOOLEAN
    /\ done \in {"none", "ok", "failed"} /\ result \in {"none", "ok", "failed"}
    /\ stored.size \in 0..accepted /\ stored \in [new : BOOLEAN, size : Nat]
    /\ wpc = "new" => wrun = "none"
    /\ wpc # "closed" => result = "none"
    /\ offer > 0 => wpc = "writing"
    /\ result = "ok" => done = "ok"
    /\ done # "none" => wrun = "ended"
    /\ done = "ok" => Confirmed
    /\ wrun \in {"stored", "reporting"} /\ ~failed => Confirmed

(* Every byte fetched is delivered, read ahead, or in the pipe, while the  *)
(* reader has not closed; and the end of the file is the last of them.     *)
ReaderInv ==
    /\ size \in 0..MaxBytes
    /\ rpc \in {"new", "opening", "open", "reading", "closed"}
    /\ rrun \in {"none", "started", "fetching", "ended"}
    /\ rvia \in 0..MaxClients
    /\ fetched \in 0..size /\ ready \in Nat /\ delivered \in Nat
    /\ first \in 0..1
    /\ ending \in {"none", "eof", "error"} /\ dropped \in BOOLEAN
    /\ told \in {"none", "more", "eof", "error"}
    /\ rpc = "new" => rrun = "none"
    /\ delivered + first + ready <= fetched
    /\ ~dropped => delivered + first + ready = fetched
    /\ rpc # "closed" => ~dropped
    /\ rpc \in {"new", "opening", "reading"} => first = 0
    /\ ending # "none" => rrun = "ended"
    /\ ending = "eof" => fetched = size
    /\ EndMeansAll

Inv == ClientInv /\ WriterInv /\ ReaderInv

LEMMA InvIsTyped == Inv => TypeOK
<1> SUFFICES ASSUME Inv PROVE TypeOK
  OBVIOUS
<1>1. MaxBytes \in Nat
  BY BoundsAssumption
<1>2. /\ offer \in 0..MaxBytes /\ accepted + offer \in 0..MaxBytes
      /\ stored \in [new : BOOLEAN, size : 0..accepted]
  BY <1>1 DEF Inv, WriterInv
<1>3. /\ ready \in 0..fetched /\ delivered + first + ready \in 0..fetched
  BY <1>1 DEF Inv, ReaderInv
<1> QED BY <1>2, <1>3 DEF Inv, ClientInv, WriterInv, ReaderInv, TypeOK

LEMMA InitInv == Init => Inv
<1> SUFFICES ASSUME Init PROVE Inv
  OBVIOUS
<1>0. /\ connected \in BOOLEAN /\ leaving \in BOOLEAN /\ late \in BOOLEAN
      /\ gone \in BOOLEAN /\ ~gone
      /\ shut \in BOOLEAN /\ broken \in BOOLEAN /\ failed \in BOOLEAN
      /\ spoiled \in BOOLEAN /\ dropped \in BOOLEAN /\ ~dropped
  BY Zenon DEF Init
<1>1. /\ client = 1 /\ live = 1 /\ dialled = 1 /\ other = "idle"
      /\ wpc = "new" /\ wrun = "none" /\ wvia = 0
      /\ offer = 0 /\ done = "none" /\ accepted = 0
      /\ stored = [new |-> FALSE, size |-> 0] /\ result = "none"
      /\ size \in 0..MaxBytes
      /\ rpc = "new" /\ rrun = "none" /\ rvia = 0
      /\ fetched = 0 /\ ready = 0 /\ ending = "none"
      /\ first = 0 /\ delivered = 0 /\ told = "none"
  BY Zenon DEF Init
<1>2. ClientInv
  BY <1>0, <1>1, BoundsAssumption DEF ClientInv
<1>3. WriterInv
  BY <1>0, <1>1, BoundsAssumption DEF WriterInv, Confirmed
<1>4. ReaderInv
  BY <1>0, <1>1, BoundsAssumption DEF ReaderInv, EndMeansAll
<1> QED BY <1>2, <1>3, <1>4 DEF Inv

-----------------------------------------------------------------------------
(* Whose step a step is.                                                   *)

ClientStep ==
    (\E unmount \in BOOLEAN : CloseClient(unmount)) \/ ClearClient \/ Dial \/ DialFails

WriterStep ==
    \/ CreateFile \/ (\E n \in 1..MaxBytes : Write(n)) \/ WriteFails \/ Close
    \/ StoreStarts \/ (\E n \in 1..MaxBytes : Consume(n))
    \/ Sent \/ ReadsEnd \/ StoreConfirmed \/ StoreFails
    \/ Unblock \/ Report \/ CloseReturns
    \/ \E n \in 0..MaxBytes : ServerStores(n)

ReaderStep ==
    \/ OpenFile \/ ReadFirst \/ Read \/ CloseReader
    \/ RetrieveStarts \/ (\E n \in 1..MaxBytes : Fetch(n))
    \/ RetrieveDone \/ RetrieveFails
    \/ OpenPrimed \/ OpenEnds \/ ReadEnds
    \/ \E n \in 1..MaxBytes : ReadReturns(n)

(* A goroutine that finds no client.                                       *)
PanicStep == StoreOnNil \/ RetrieveOnNil

LEMMA Steps == [Next]_vars <=>
    ClientStep \/ WriterStep \/ ReaderStep \/ PanicStep \/ UNCHANGED vars
BY DEF Next, WriterRuns, ReaderRuns, ReaderWaits, Gone, ClientStep, WriterStep,
       ReaderStep, PanicStep

LEMMA ClientFrame == ClientStep => UNCHANGED <<writer, reader>>
BY DEF ClientStep, CloseClient, ClearClient, Dial, DialFails

LEMMA WriterFrame == WriterStep => UNCHANGED <<driver, others, gone, late, reader>>
BY DEF WriterStep, CreateFile, Write, WriteFails, Close, StoreStarts, Consume,
       Sent, ReadsEnd, StoreConfirmed, StoreFails, Unblock, Report, CloseReturns,
       ServerStores, elsewhere

LEMMA ReaderFrame == ReaderStep => UNCHANGED <<driver, others, gone, late, writer, size>>
BY DEF ReaderStep, OpenFile, ReadFirst, Read, CloseReader, RetrieveStarts, Fetch,
       RetrieveDone, RetrieveFails, OpenPrimed, OpenEnds, ReadEnds, ReadReturns, apart

LEMMA PanicFrame ==
    PanicStep => UNCHANGED <<driver, others, late, writer, reader>> /\ gone' = TRUE
BY DEF PanicStep, StoreOnNil, RetrieveOnNil

-----------------------------------------------------------------------------
(* Each part of the invariant through each kind of step.                   *)

LEMMA ClientInvStep == Inv /\ [Next]_vars => ClientInv'
<1> SUFFICES ASSUME Inv, [Next]_vars PROVE ClientInv'
  OBVIOUS
<1> USE DEF Inv
<1>1. CASE ClientStep
  <2>0. UNCHANGED <<gone, wrun, rrun>>
    BY <1>1, ClientFrame DEF ClientStep, CloseClient, ClearClient, Dial, DialFails,
                             writer, reader
  <2>1. ASSUME NEW unmount \in BOOLEAN, CloseClient(unmount) PROVE ClientInv'
    BY <2>0, <2>1 DEF CloseClient, ClientInv
  <2>2. CASE ClearClient
    <3>1. connected' \in BOOLEAN /\ late' \in BOOLEAN
      BY <2>2, Zenon DEF ClearClient, ClientInv
    <3>2. (late => late') /\ ("started" \in {wrun, rrun} => late')
      BY <2>2, Zenon DEF ClearClient
    <3>3. leaving' \in BOOLEAN
      BY <2>2, Zenon DEF ClearClient
    <3> QED BY <2>0, <2>2, <3>1, <3>2, <3>3, BoundsAssumption DEF ClearClient, ClientInv
  <2>3. CASE Dial
    <3>1. connected' \in BOOLEAN
      BY <2>3, Zenon DEF Dial
    <3> QED BY <2>0, <2>3, <3>1, BoundsAssumption DEF Dial, ClientInv
  <2>4. CASE DialFails
    BY <2>0, <2>4 DEF DialFails, driver, ClientInv
  <2> QED BY <1>1, <2>1, <2>2, <2>3, <2>4 DEF ClientStep
<1>2. ASSUME UNCHANGED <<driver, others, gone, late>>,
             wrun' = "started" => wrun = "started" \/ client # 0,
             rrun' = "started" => rrun = "started" \/ client # 0
      PROVE  ClientInv'
  BY <1>2 DEF ClientInv, driver, others
<1>3. CASE WriterStep
  <2>1. wrun' = "started" => wrun = "started" \/ client # 0
    BY <1>3 DEF WriterStep, CreateFile, Mounted, Write, WriteFails, Close, StoreStarts,
           Consume, Sent, ReadsEnd, StoreConfirmed, StoreFails, Unblock, Report,
           CloseReturns, ServerStores
  <2> QED BY <1>2, <1>3, <2>1, WriterFrame DEF reader
<1>4. CASE ReaderStep
  <2>1. rrun' = "started" => rrun = "started" \/ client # 0
    BY <1>4 DEF ReaderStep, OpenFile, Mounted, ReadFirst, Read, CloseReader,
           RetrieveStarts, Fetch, RetrieveDone, RetrieveFails, OpenPrimed, OpenEnds,
           ReadEnds, ReadReturns
  <2> QED BY <1>2, <1>4, <2>1, ReaderFrame DEF writer
<1>5. CASE PanicStep
  <2>1. late
    BY <1>5 DEF PanicStep, StoreOnNil, RetrieveOnNil, ClientInv
  <2>2. gone' \in BOOLEAN /\ UNCHANGED <<driver, others, late, wrun, rrun>>
    BY <1>5, PanicFrame, Zenon DEF writer, reader
  <2> QED BY <2>1, <2>2 DEF ClientInv, driver, others
<1>6. CASE UNCHANGED vars
  BY <1>2, <1>6 DEF vars, writer, reader
<1> QED BY <1>1, <1>3, <1>4, <1>5, <1>6, Steps

LEMMA WriterInvStep == Inv /\ [Next]_vars => WriterInv'
<1> SUFFICES ASSUME Inv, [Next]_vars PROVE WriterInv'
  OBVIOUS
<1> USE DEF Inv
<1>0. ASSUME UNCHANGED writer PROVE WriterInv'
  BY <1>0 DEF WriterInv, writer, Confirmed
<1>1. CASE WriterStep
  <2> USE DEF WriterInv, Confirmed, written, calledWriter
  <2>1. CASE CreateFile
    BY <2>1 DEF CreateFile
  <2>2. ASSUME NEW n \in 1..MaxBytes, Write(n) PROVE WriterInv'
    BY <2>2, BoundsAssumption DEF Write
  <2>3. CASE WriteFails
    <3>1. spoiled' \in BOOLEAN
      BY <2>3, Zenon DEF WriteFails
    <3> QED BY <2>3, <3>1 DEF WriteFails
  <2>4. CASE Close
    <3>1. shut' \in BOOLEAN
      BY <2>4, Zenon DEF Close
    <3> QED BY <2>4, <3>1 DEF Close
  <2>5. CASE StoreStarts
    BY <2>5 DEF StoreStarts, ClientInv
  <2>6. ASSUME NEW n \in 1..MaxBytes, Consume(n) PROVE WriterInv'
    <3>1. n \in 1..offer /\ wrun = "reading" /\ wpc = "writing"
      BY <2>6 DEF Consume
    <3> QED BY <2>6, <3>1, BoundsAssumption DEF Consume
  <2>7. CASE Sent
    BY <2>7 DEF Sent
  <2>8. CASE ReadsEnd
    BY <2>8 DEF ReadsEnd
  <2>9. CASE StoreConfirmed
    BY <2>9, BoundsAssumption DEF StoreConfirmed
  <2>10. CASE StoreFails
    <3>1. failed' \in BOOLEAN /\ failed'
      BY <2>10, Zenon DEF StoreFails
    <3> QED BY <2>10, <3>1, BoundsAssumption DEF StoreFails
  <2>11. CASE Unblock
    <3>1. /\ broken' \in BOOLEAN /\ spoiled' \in BOOLEAN
          /\ shut' \in BOOLEAN /\ failed' \in BOOLEAN /\ (failed' <=> failed)
      BY <2>11, Zenon DEF Unblock, WriterInv, calledWriter
    <3>2. /\ offer' = 0 /\ wpc' \in {wpc, "open"} /\ wpc' # "writing"
          /\ wrun = "stored" /\ wrun' = "reporting"
          /\ UNCHANGED <<result, wvia, done, accepted, stored>>
      BY <2>11, Zenon DEF Unblock, calledWriter
    <3>3. wpc \in {"new", "closed"} => wpc' = wpc
      BY <2>11, Zenon DEF Unblock
    <3> QED BY <3>1, <3>2, <3>3, BoundsAssumption
  <2>12. CASE Report
    BY <2>12 DEF Report
  <2>13. CASE CloseReturns
    BY <2>13 DEF CloseReturns
  <2>14. ASSUME NEW n \in 0..MaxBytes, ServerStores(n) PROVE WriterInv'
    BY <2>14 DEF ServerStores
  <2> QED BY <1>1, <2>1, <2>2, <2>3, <2>4, <2>5, <2>6, <2>7, <2>8, <2>9, <2>10,
             <2>11, <2>12, <2>13, <2>14 DEF WriterStep
<1> QED BY <1>0, <1>1, Steps, ClientFrame, ReaderFrame, PanicFrame DEF vars

LEMMA ReaderInvStep == Inv /\ [Next]_vars => ReaderInv'
<1> SUFFICES ASSUME Inv, [Next]_vars PROVE ReaderInv'
  OBVIOUS
<1> USE DEF Inv
<1>0. ASSUME UNCHANGED reader PROVE ReaderInv'
  BY <1>0 DEF ReaderInv, reader, EndMeansAll
<1>1. CASE ReaderStep
  <2>0. size' = size /\ MaxBytes \in Nat
    BY <1>1, ReaderFrame, BoundsAssumption
  <2> USE <2>0 DEF ReaderInv, EndMeansAll, calledReader
  <2>1. CASE OpenFile
    BY <2>1 DEF OpenFile
  <2>2. CASE OpenPrimed
    BY <2>2 DEF OpenPrimed
  <2>3. CASE OpenEnds
    <3>1. dropped' \in BOOLEAN /\ (dropped' => dropped \/ rpc' = "closed")
      BY <2>3, Zenon DEF OpenEnds, ReaderInv
    <3>2. dropped => dropped'
      BY <2>3, Zenon DEF OpenEnds
    <3> QED BY <2>3, <3>1, <3>2 DEF OpenEnds
  <2>4. CASE ReadFirst
    BY <2>4 DEF ReadFirst
  <2>5. CASE Read
    BY <2>5 DEF Read
  <2>6. ASSUME NEW n \in 1..MaxBytes, ReadReturns(n) PROVE ReaderInv'
    BY <2>6 DEF ReadReturns
  <2>7. CASE ReadEnds
    BY <2>7 DEF ReadEnds
  <2>8. CASE CloseReader
    <3>1. dropped' \in BOOLEAN /\ dropped'
      BY <2>8, Zenon DEF CloseReader
    <3> QED BY <2>8, <3>1 DEF CloseReader
  <2>9. CASE RetrieveStarts
    BY <2>9 DEF RetrieveStarts, ClientInv
  <2>10. ASSUME NEW n \in 1..MaxBytes, Fetch(n) PROVE ReaderInv'
    BY <2>10 DEF Fetch
  <2>11. CASE RetrieveDone
    BY <2>11, BoundsAssumption DEF RetrieveDone
  <2>12. CASE RetrieveFails
    BY <2>12, BoundsAssumption DEF RetrieveFails
  <2> QED BY <1>1, <2>1, <2>2, <2>3, <2>4, <2>5, <2>6, <2>7, <2>8, <2>9, <2>10,
             <2>11, <2>12 DEF ReaderStep
<1> QED BY <1>0, <1>1, Steps, ClientFrame, WriterFrame, PanicFrame DEF vars

LEMMA Invariance == Spec => []Inv
<1>1. Inv /\ [Next]_vars => Inv'
  BY ClientInvStep, WriterInvStep, ReaderInvStep DEF Inv
<1> QED BY InitInv, <1>1, PTL DEF Spec

(* Files of any length, any number of clients: every variable keeps its    *)
(* type, and no byte is delivered twice.                                   *)
THEOREM TypeCorrect == Spec => []TypeOK
BY Invariance, InvIsTyped, PTL

(* However the transfer ends, whatever became of the client: the reader    *)
(* that is told of the end of the file has the whole file.                 *)
THEOREM EndIsTheWholeFile == Spec => []EndMeansAll
<1>1. Inv => EndMeansAll
  BY DEF Inv, ReaderInv
<1> QED BY <1>1, Invariance, PTL

(* A goroutine finds no client only when it was cleared after the guard.   *)
THEOREM PanicsAreLate == Spec => []PanicOnlyWhenLate
<1>1. Inv => PanicOnlyWhenLate
  BY DEF Inv, ClientInv, PanicOnlyWhenLate
<1> QED BY <1>1, Invariance, PTL

-----------------------------------------------------------------------------
(* The refinement.                                                         *)

LEMMA InitImplements == Init => W!Init
BY Zenon DEF Init, W!Init

(* Each step of the writer is one of FileWrite, or none that it sees: the  *)
(* goroutine takes bytes while a Write waits, so before Close answers; and *)
(* the server stores nothing after a Close that succeeded.                 *)
LEMMA WriterImplements ==
    ASSUME Inv, WriterStep
    PROVE  [W!Next]_(W!vars)
<1> USE DEF Inv, written, calledWriter
<1>0. ASSUME UNCHANGED <<accepted, spoiled, stored, result>> PROVE [W!Next]_(W!vars)
  BY <1>0 DEF W!vars
<1>1. CASE CreateFile
  <2>1. CASE UNCHANGED result
    BY <1>0, <1>1, <2>1 DEF CreateFile
  <2>2. CASE result' = "failed" /\ wpc = "new"
    <3>1. W!Answers /\ UNCHANGED stored
      BY <1>1, <2>2 DEF CreateFile, WriterInv, W!Answers
    <3> QED BY <3>1 DEF W!Close, W!Next
  <2> QED BY <1>1, <2>1, <2>2 DEF CreateFile
<1>2. ASSUME UNCHANGED <<stored, result>>, result = "none", accepted' \in Nat,
             accepted' >= accepted, spoiled' \in BOOLEAN, spoiled => spoiled'
      PROVE  [W!Next]_(W!vars)
  <2>1. W!Write
    BY <1>2 DEF W!Write
  <2> QED BY <2>1 DEF W!Next
<1>3. CASE WriteFails
  <2>1. spoiled' \in BOOLEAN /\ spoiled'
    BY <1>3, Zenon DEF WriteFails
  <2> QED BY <1>2, <1>3, <2>1 DEF WriteFails, WriterInv
<1>4. ASSUME NEW n \in 1..MaxBytes, Consume(n) PROVE [W!Next]_(W!vars)
  <2>1. offer > 0 /\ accepted' = accepted + n /\ UNCHANGED <<spoiled, stored, result>>
    BY <1>4 DEF Consume, WriterInv
  <2> QED BY <1>2, <2>1 DEF WriterInv
<1>5. CASE Unblock
  <2>1. CASE wpc = "writing"
    <3>1. spoiled' \in BOOLEAN /\ spoiled' /\ UNCHANGED <<accepted, stored, result>>
      BY <1>5, <2>1, Zenon DEF Unblock
    <3> QED BY <1>2, <2>1, <3>1 DEF WriterInv
  <2>2. CASE wpc # "writing"
    BY <1>0, <1>5, <2>2 DEF Unblock
  <2> QED BY <2>1, <2>2
<1>6. ASSUME NEW n \in 0..accepted, stored' = [new |-> TRUE, size |-> n],
             result # "ok", UNCHANGED <<accepted, spoiled, result>>
      PROVE  [W!Next]_(W!vars)
  <2>1. stored' \in [new : {TRUE}, size : 0..accepted]
    BY <1>6
  <2>2. W!Store
    BY <1>6, <2>1 DEF W!Store, W!Stores
  <2> QED BY <2>2 DEF W!Next
<1>7. CASE StoreConfirmed
  BY <1>6, <1>7 DEF StoreConfirmed, WriterInv
<1>8. ASSUME NEW n \in 0..MaxBytes, ServerStores(n) PROVE [W!Next]_(W!vars)
  BY <1>6, <1>8 DEF ServerStores, WriterInv
<1>9. CASE CloseReturns
  <2>1. /\ result = "none" /\ result' \in {"ok", "failed"}
        /\ result' = "ok" => Confirmed
        /\ UNCHANGED <<accepted, spoiled, stored>>
    BY <1>9 DEF CloseReturns, WriterInv
  <2>2. W!Answers /\ UNCHANGED stored
    BY <2>1 DEF W!Answers, W!Complete, Confirmed
  <2> QED BY <2>2 DEF W!Close, W!Next
<1>10. ASSUME \/ (\E n \in 1..MaxBytes : Write(n)) \/ Close \/ StoreStarts
              \/ Sent \/ ReadsEnd \/ StoreFails \/ Report
       PROVE  [W!Next]_(W!vars)
  BY <1>0, <1>10 DEF Write, Close, StoreStarts, Sent, ReadsEnd, StoreFails, Report
<1> QED BY <1>1, <1>3, <1>4, <1>5, <1>7, <1>8, <1>9, <1>10 DEF WriterStep

(* Files of any length: ftp's writer is a FileWrite that streams, and what *)
(* Close reports as success is everything Write took, on the server.       *)
THEOREM ImplementsFileWrite == Spec => UploadSpec
<1>1. Inv /\ [Next]_vars => [W!Next]_(W!vars)
  <2> SUFFICES ASSUME Inv, [Next]_vars PROVE [W!Next]_(W!vars)
    OBVIOUS
  <2>1. UNCHANGED writer => [W!Next]_(W!vars)
    BY DEF writer, W!vars
  <2> QED BY <2>1, WriterImplements, Steps, ClientFrame, ReaderFrame, PanicFrame DEF vars
<1> QED BY Invariance, InitImplements, <1>1, PTL DEF Spec, UploadSpec, W!Spec

(* And it stays there: when Close has reported success, nothing that is    *)
(* still on its way, on whichever client, changes the server's file.       *)
THEOREM SuccessStands ==
    Spec => /\ [](result = "ok" => Confirmed)
            /\ [][result = "ok" => UNCHANGED <<accepted, spoiled, stored, result>>]_vars
<1> DEFINE A == result = "ok" => UNCHANGED <<accepted, spoiled, stored, result>>
           B == result = "ok" => Confirmed
<1>1. Inv => B
  BY DEF Inv, WriterInv
<1>2. Inv /\ [Next]_vars => [A]_vars
  <2> SUFFICES ASSUME Inv, [Next]_vars, result = "ok"
               PROVE  UNCHANGED <<accepted, spoiled, stored, result>>
    OBVIOUS
  <2>1. UNCHANGED writer \/ WriterStep
    BY Steps, ClientFrame, ReaderFrame, PanicFrame DEF vars
  <2>2. UNCHANGED writer => UNCHANGED W!vars
    BY DEF writer, W!vars
  <2>3. [W!Next]_(W!vars)
    BY <2>1, <2>2, WriterImplements
  <2> QED BY <2>3 DEF W!Next, W!Write, W!Store, W!Stores, W!Close, W!Answers, W!vars
<1> HIDE DEF A, B
<1>3. Spec => []B /\ [][A]_vars
  BY <1>1, <1>2, Invariance, PTL DEF Spec
<1> QED BY <1>3 DEF A, B

-----------------------------------------------------------------------------
(* That somebody goes on.                                                  *)

(* A Write waits only for bytes that are still to be read and on a pipe    *)
(* that is still open; a Close has ended the pipe; a goroutine that ends   *)
(* has told both.                                                          *)
WriterServed ==
    /\ wpc = "writing" => offer > 0 /\ ~broken
    /\ wpc = "closing" => shut
    /\ wpc \in {"open", "writing", "closing"} => wrun # "none"
    /\ wrun \in {"reporting", "ended"} => broken
    /\ wrun = "ended" => done # "none"

(* A reader that was opened has a goroutine, whose end ends the pipe; one  *)
(* that was closed has closed its side.                                    *)
ReaderServed ==
    /\ rpc \in {"opening", "open", "reading"} => rrun # "none"
    /\ rrun = "ended" => ending # "none"
    /\ rpc = "closed" => dropped \/ rrun = "none"

LEMMA InitServed == Init => WriterServed /\ ReaderServed
<1> SUFFICES ASSUME Init PROVE WriterServed /\ ReaderServed
  OBVIOUS
<1>1. wpc = "new" /\ wrun = "none" /\ rpc = "new" /\ rrun = "none"
  BY Zenon DEF Init
<1> QED BY <1>1 DEF WriterServed, ReaderServed

LEMMA WriterServedStep == Inv /\ WriterServed /\ [Next]_vars => WriterServed'
<1> SUFFICES ASSUME Inv, WriterServed, [Next]_vars PROVE WriterServed'
  OBVIOUS
<1> USE DEF Inv
<1>0. ASSUME UNCHANGED writer PROVE WriterServed'
  BY <1>0 DEF WriterServed, writer
<1>1. CASE WriterStep
  <2> USE DEF WriterServed, WriterInv, written, calledWriter
  <2>1. CASE CreateFile
    BY <2>1 DEF CreateFile
  <2>2. ASSUME NEW n \in 1..MaxBytes, Write(n) PROVE WriterServed'
    BY <2>2 DEF Write
  <2>3. CASE Close
    <3>1. shut'
      BY <2>3, Zenon DEF Close
    <3> QED BY <2>3, <3>1 DEF Close
  <2>4. ASSUME NEW n \in 1..MaxBytes, Consume(n) PROVE WriterServed'
    <3>1. n \in 1..offer /\ wrun = "reading" /\ wpc = "writing" /\ offer' \in Nat
      BY <2>4 DEF Consume
    <3> QED BY <2>4, <3>1 DEF Consume
  <2>5. CASE Unblock
    <3>1. broken' /\ UNCHANGED shut
      BY <2>5, Zenon DEF Unblock, calledWriter
    <3>2. /\ wpc' # "writing" /\ wpc' \in {wpc, "open"}
          /\ wrun = "stored" /\ wrun' = "reporting"
      BY <2>5, Zenon DEF Unblock
    <3> QED BY <3>1, <3>2
  <2>6. CASE \/ WriteFails \/ StoreStarts \/ Sent \/ ReadsEnd \/ StoreConfirmed
             \/ StoreFails \/ Report \/ CloseReturns
             \/ \E n \in 0..MaxBytes : ServerStores(n)
    BY <2>6
    DEF WriteFails, StoreStarts, Sent, ReadsEnd, StoreConfirmed, StoreFails, Report,
           CloseReturns, ServerStores
  <2> QED BY <1>1, <2>1, <2>2, <2>3, <2>4, <2>5, <2>6 DEF WriterStep
<1> QED BY <1>0, <1>1, Steps, ClientFrame, ReaderFrame, PanicFrame DEF vars

LEMMA ReaderServedStep == Inv /\ ReaderServed /\ [Next]_vars => ReaderServed'
<1> SUFFICES ASSUME Inv, ReaderServed, [Next]_vars PROVE ReaderServed'
  OBVIOUS
<1> USE DEF Inv
<1>0. ASSUME UNCHANGED reader PROVE ReaderServed'
  BY <1>0 DEF ReaderServed, reader
<1>1. CASE ReaderStep
  <2> USE DEF ReaderServed, ReaderInv, calledReader
  <2>1. CASE OpenEnds
    <3>1. /\ dropped => dropped'
          /\ rpc' = "closed" => dropped'
          /\ rpc = "opening" /\ rpc' \in {"open", "closed"}
          /\ UNCHANGED <<rrun, ending>>
      BY <2>1, Zenon DEF OpenEnds
    <3> QED BY <3>1
  <2>2. CASE CloseReader
    <3>1. dropped'
      BY <2>2, Zenon DEF CloseReader
    <3> QED BY <2>2, <3>1 DEF CloseReader
  <2>3. CASE \/ OpenFile \/ ReadFirst \/ Read \/ RetrieveStarts
             \/ (\E n \in 1..MaxBytes : Fetch(n))
             \/ RetrieveDone \/ RetrieveFails \/ OpenPrimed \/ ReadEnds
             \/ \E n \in 1..MaxBytes : ReadReturns(n)
    BY <2>3
    DEF OpenFile, ReadFirst, Read, RetrieveStarts, Fetch, RetrieveDone, RetrieveFails,
           OpenPrimed, ReadEnds, ReadReturns
  <2> QED BY <1>1, <2>1, <2>2, <2>3 DEF ReaderStep
<1> QED BY <1>0, <1>1, Steps, ClientFrame, WriterFrame, PanicFrame DEF vars

LEMMA Served == Spec => [](Inv /\ WriterServed /\ ReaderServed)
BY Invariance, InitServed, WriterServedStep, ReaderServedStep, PTL DEF Spec

(* The step that a Write or a Close waits for, and the one that an         *)
(* OpenFile or a Read waits for, or the goroutine of a closed reader has   *)
(* to end with: in each case it waits for nobody (StoreFails and           *)
(* RetrieveFails stand for the library's timeout).                         *)
WriterGoesOn ==
    wpc \in {"writing", "closing"} =>
        \/ wrun \in {"started", "sending", "finishing", "stored", "reporting"}
        \/ wrun = "reading" /\ offer > 0
        \/ wrun = "reading" /\ offer = 0 /\ shut
        \/ wpc = "closing" /\ done # "none"

ReaderGoesOn ==
    /\ rpc \in {"opening", "reading"} =>
           \/ rrun = "started"
           \/ rrun = "fetching" /\ ready = 0
           \/ ready > 0
           \/ ready = 0 /\ ending # "none"
    /\ rpc = "closed" =>
           \/ rrun \in {"none", "started", "ended"}
           \/ rrun = "fetching" /\ dropped

(* A call of either stream and its goroutine never wait for each other:    *)
(* at every moment at which one of them waits, the other has a step to     *)
(* take that needs nobody else's, whichever side of the pipe is closed     *)
(* first and whatever became of the client.                                *)
THEOREM NobodyWaitsInVain == Spec => [](WriterGoesOn /\ ReaderGoesOn)
<1>1. Inv /\ WriterServed => WriterGoesOn
  BY DEF Inv, WriterInv, WriterServed, WriterGoesOn
<1>2. Inv /\ ReaderServed => ReaderGoesOn
  BY DEF Inv, ReaderInv, ReaderServed, ReaderGoesOn
<1> QED BY <1>1, <1>2, Served, PTL

-----------------------------------------------------------------------------
(* How far a waiting call is from its end.                                 *)

WriterRank ==
    CASE wrun = "started" -> 7
      [] wrun = "sending" -> 5
      [] wrun = "reading" -> 4
      [] wrun = "finishing" -> 3
      [] wrun = "stored" -> 2
      [] wrun = "reporting" -> 1
      [] OTHER -> 0

(* Each byte offered may be read and sent by itself.                       *)
WriterWork == 8 * offer + WriterRank + (IF wpc = "closing" THEN 1 ELSE 0)

ReaderRank ==
    CASE rrun = "started" -> 2
      [] rrun = "fetching" -> 1
      [] OTHER -> 0

(* Each byte of the file is fetched, and then delivered.                   *)
ReaderWork ==
    2 * (size - fetched) + ready + ReaderRank
        + (IF rpc \in {"opening", "reading"} THEN 1 ELSE 0)

LEMMA WriterRunsShorten ==
    ASSUME Inv, WriterRuns
    PROVE  gone' = TRUE \/ WriterWork' < WriterWork
<1> USE DEF Inv, WriterInv, written, calledWriter
<1>1. CASE StoreOnNil
  BY <1>1 DEF StoreOnNil
<1>2. ASSUME NEW n \in 1..MaxBytes, Consume(n) PROVE WriterWork' < WriterWork
  <2>1. /\ n \in 1..offer /\ offer' = offer - n /\ offer \in Nat /\ offer > 0
        /\ wrun = "reading" /\ wrun' = "sending" /\ wpc = "writing"
        /\ wpc' \in {"open", "writing"}
    BY <1>2 DEF Consume
  <2>2. WriterRank = 4 /\ WriterRank' = 5
    BY <2>1 DEF WriterRank
  <2> QED BY <2>1, <2>2 DEF WriterWork
<1>3. CASE Unblock
  <2>1. /\ offer' = 0 /\ offer \in Nat /\ wrun = "stored" /\ wrun' = "reporting"
        /\ wpc' \in {wpc, "open"}
    BY <1>3, Zenon DEF Unblock
  <2>2. WriterRank = 2 /\ WriterRank' = 1
    BY <2>1 DEF WriterRank
  <2> QED BY <2>1, <2>2 DEF WriterWork
<1>4. CASE \/ StoreStarts \/ Sent \/ ReadsEnd \/ StoreConfirmed \/ StoreFails \/ Report
  <2>1. offer' = offer /\ wpc' = wpc /\ offer \in Nat
    BY <1>4 DEF StoreStarts, Sent, ReadsEnd, StoreConfirmed, StoreFails, Report
  <2>2. PICK a \in Nat, b \in Nat : WriterRank = a /\ WriterRank' = b /\ b < a
    BY <1>4
    DEF WriterRank, StoreStarts, Sent, ReadsEnd, StoreConfirmed, StoreFails, Report
  <2>3. CASE wpc = "closing"
    BY <2>1, <2>2, <2>3 DEF WriterWork
  <2>4. CASE wpc # "closing"
    BY <2>1, <2>2, <2>4 DEF WriterWork
  <2> QED BY <2>3, <2>4
<1>5. CASE CloseReturns
  <2>1. UNCHANGED <<offer, wrun>> /\ wpc = "closing" /\ wpc' = "closed" /\ offer \in Nat
    BY <1>5 DEF CloseReturns
  <2>2. WriterRank \in Nat /\ WriterRank' = WriterRank
    BY <2>1 DEF WriterRank
  <2> QED BY <2>1, <2>2 DEF WriterWork
<1> QED BY <1>1, <1>2, <1>3, <1>4, <1>5 DEF WriterRuns

LEMMA ReaderRunsShorten ==
    ASSUME Inv, ReaderRuns \/ ReaderWaits
    PROVE  gone' = TRUE \/ ReaderWork' < ReaderWork
<1> USE DEF Inv, ReaderInv, calledReader
<1>0. MaxBytes \in Nat /\ size \in Nat /\ fetched \in Nat /\ ready \in Nat
  BY BoundsAssumption
<1>1. CASE RetrieveOnNil
  BY <1>1 DEF RetrieveOnNil
<1>2. ASSUME size' = size, fetched' = fetched, rpc' = rpc, ready' \in 0..ready,
             rrun # rrun', rrun \in {"started", "fetching"}, rrun' \in {"fetching", "ended"}
      PROVE  ReaderWork' < ReaderWork
  <2>1. PICK a \in Nat, b \in Nat : ReaderRank = a /\ ReaderRank' = b /\ b < a
    BY <1>2 DEF ReaderRank
  <2>2. PICK k \in Nat, m \in Nat : size - fetched = k /\ ready' = m /\ m <= ready
    BY <1>0, <1>2
  <2>3. PICK w \in 0..1 :
            ReaderWork = 2 * k + ready + a + w /\ ReaderWork' = 2 * k + m + b + w
    BY <1>2, <2>1, <2>2 DEF ReaderWork
  <2> QED BY <1>0, <2>1, <2>2, <2>3
<1>3. CASE RetrieveStarts \/ RetrieveDone \/ RetrieveFails
  BY <1>0, <1>2, <1>3 DEF RetrieveStarts, RetrieveDone, RetrieveFails, apart
<1>4. ASSUME NEW n \in 1..MaxBytes, Fetch(n) PROVE ReaderWork' < ReaderWork
  <2>1. /\ size' = size /\ fetched' = fetched + n /\ ready = 0 /\ ready' = n
        /\ rpc' = rpc /\ rrun' = rrun /\ n \in Nat /\ n > 0
    BY <1>0, <1>4 DEF Fetch, apart
  <2>2. ReaderRank' = ReaderRank /\ ReaderRank \in Nat
    BY <2>1 DEF ReaderRank
  <2> QED BY <1>0, <2>1, <2>2 DEF ReaderWork
<1>5. ASSUME size' = size, fetched' = fetched, rrun' = rrun, ready' \in 0..ready,
             rpc \in {"opening", "reading"}, rpc' \in {"open", "closed"}
      PROVE  ReaderWork' < ReaderWork
  <2>1. PICK a \in Nat : ReaderRank = a /\ ReaderRank' = a
    BY <1>5 DEF ReaderRank
  <2>2. PICK k \in Nat, m \in Nat : size - fetched = k /\ ready' = m /\ m <= ready
    BY <1>0, <1>5
  <2>3. ReaderWork = 2 * k + ready + a + 1 /\ ReaderWork' = 2 * k + m + a + 0
    BY <1>5, <2>1, <2>2 DEF ReaderWork
  <2> QED BY <1>0, <2>1, <2>2, <2>3
<1>6. CASE OpenPrimed \/ OpenEnds \/ ReadEnds
  BY <1>0, <1>5, <1>6 DEF OpenPrimed, OpenEnds, ReadEnds, apart
<1>7. ASSUME NEW n \in 1..MaxBytes, ReadReturns(n) PROVE ReaderWork' < ReaderWork
  BY <1>0, <1>5, <1>7 DEF ReadReturns, apart
<1> QED BY <1>1, <1>3, <1>4, <1>6, <1>7 DEF ReaderRuns, ReaderWaits

(* While a call waits, only what it waits for changes what is left to do.  *)
LEMMA WriterUndisturbed ==
    ASSUME Inv, [Next]_vars, ~WriterRuns, wpc \in {"writing", "closing"}
    PROVE  UNCHANGED WriterWork
<1>1. CASE WriterStep
  <2>1. \E n \in 0..MaxBytes : ServerStores(n)
    BY <1>1 DEF WriterStep, WriterRuns, CreateFile, Write, WriteFails, Close
  <2> QED BY <2>1 DEF ServerStores, WriterWork, WriterRank
<1>2. CASE UNCHANGED writer
  BY <1>2 DEF writer, WriterWork, WriterRank
<1> QED BY <1>1, <1>2, Steps, ClientFrame, ReaderFrame, PanicFrame DEF vars

LEMMA ReaderUndisturbed ==
    ASSUME Inv, [Next]_vars, ~(ReaderRuns \/ ReaderWaits),
           rpc \in {"opening", "reading", "closed"}
    PROVE  UNCHANGED ReaderWork
<1>1. CASE ReaderStep
  BY <1>1 DEF ReaderStep, ReaderRuns, ReaderWaits, OpenFile, ReadFirst, Read, CloseReader
<1>2. CASE UNCHANGED reader
  BY <1>2 DEF reader, ReaderWork, ReaderRank
<1> QED BY <1>1, <1>2, Steps, ClientFrame, WriterFrame, PanicFrame DEF vars

(* And such steps come to an end: each lessens what is left to do, unless  *)
(* the process goes down by it, and while a call waits nobody else adds to *)
(* that.  With NobodyWaitsInVain this is all of NobodyIsStuck but that the *)
(* steps are taken.                                                        *)
THEOREM StreamsRunOut ==
    Spec =>
        /\ [](WriterWork \in Nat /\ ReaderWork \in Nat)
        /\ [][/\ WriterRuns => gone' = TRUE \/ WriterWork' < WriterWork
              /\ wpc \in {"writing", "closing"} /\ ~WriterRuns => UNCHANGED WriterWork
              /\ ReaderRuns \/ ReaderWaits => gone' = TRUE \/ ReaderWork' < ReaderWork
              /\ rpc \in {"opening", "reading", "closed"} /\ ~(ReaderRuns \/ ReaderWaits)
                     => UNCHANGED ReaderWork]_vars
<1> DEFINE A ==
      /\ WriterRuns => gone' = TRUE \/ WriterWork' < WriterWork
      /\ wpc \in {"writing", "closing"} /\ ~WriterRuns => UNCHANGED WriterWork
      /\ ReaderRuns \/ ReaderWaits => gone' = TRUE \/ ReaderWork' < ReaderWork
      /\ rpc \in {"opening", "reading", "closed"} /\ ~(ReaderRuns \/ ReaderWaits)
             => UNCHANGED ReaderWork
    B == WriterWork \in Nat /\ ReaderWork \in Nat
<1>1. Inv => B
  <2> SUFFICES ASSUME Inv PROVE B
    OBVIOUS
  <2>1. WriterRank \in Nat /\ ReaderRank \in Nat
    BY DEF WriterRank, ReaderRank
  <2>2. MaxBytes \in Nat /\ offer \in Nat /\ ready \in Nat /\ size - fetched \in Nat
    BY BoundsAssumption DEF Inv, WriterInv, ReaderInv
  <2> QED BY <2>1, <2>2 DEF WriterWork, ReaderWork
<1>2. Inv /\ [Next]_vars => [A]_vars
  <2> SUFFICES ASSUME Inv, [Next]_vars PROVE A
    OBVIOUS
  <2> QED BY WriterRunsShorten, ReaderRunsShorten, WriterUndisturbed, ReaderUndisturbed
<1> HIDE DEF A, B
<1>3. Spec => []B /\ [][A]_vars
  BY <1>1, <1>2, Invariance, PTL DEF Spec
<1> QED BY <1>3 DEF A, B
===============================================================================
