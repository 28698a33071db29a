----------------------------- MODULE Library_proofs -----------------------------
(***************************************************************************)
(* What the library's host may rely on, for any number of its threads: the *)
(* statistics it polls of a mount (TransportStats), and the mounts it      *)
(* reaches by identifier (Dispatcher).                                     *)
(*                                                                         *)
(* A snapshot's parts agree because RoundTrip adds in one order and        *)
(* Snapshot loads in the other.                                            *)
(*                                                                         *)
(* Nothing locks the map of mounts, and Unmount looks, deletes and closes  *)
(* in three steps.  They are safe all the same because a new instance is   *)
(* known to its caller only until it is stored (Fresh), and is stored      *)
(* once: whoever still holds a driver that has left the map, or is about   *)
(* to delete it, finds it at most where it was (DeletesOwn).               *)
(***************************************************************************)
EXTENDS Dispatcher, TransportStats, FiniteSetTheorems, TLAPS

-----------------------------------------------------------------------------
(* The statistics of one mount.                                            *)

(* The type invariant is inductive on its own.                             *)
LEMMA InitType == StatsInit => StatsTypeOK
BY DEF StatsInit, StatsTypeOK, Phases, Zero, Snapshots

LEMMA TypeStep == StatsTypeOK /\ [StatsNext]_statsVars => StatsTypeOK'
<1> SUFFICES ASSUME StatsTypeOK, [StatsNext]_statsVars PROVE StatsTypeOK'
  OBVIOUS
<1> USE DEF StatsTypeOK, Phases, counters, poller
<1>1. CASE Load
  <2>1. loaded' \in 0..4 /\ UNCHANGED <<socket, counters, phase, last>>
    BY <1>1 DEF Load
  <2>2. snap' \in Snapshots
    <3>1. loaded \in {0, 1, 2, 3}
      BY <1>1 DEF Load
    <3> QED BY <1>1, <3>1 DEF Load, Snapshots
  <2> QED BY <2>1, <2>2
<1>2. CASE Publish
  BY <1>2 DEF Publish
<1>3. ASSUME NEW r \in Requests, RoundTrip(r) PROVE StatsTypeOK'
  BY <1>3 DEF RoundTrip, Issue, SendBytes, Fail, Answer, CountAnswer,
              ReadBytes, CloseBody
<1>4. ASSUME NEW r \in Requests, Transfer(r) PROVE StatsTypeOK'
  BY <1>4 DEF Transfer, ConnRead, ConnWrite, CountRead, CountWrite
<1>5. CASE UNCHANGED statsVars
  BY <1>5 DEF statsVars
<1> QED BY <1>1, <1>2, <1>3, <1>4, <1>5 DEF StatsNext

(* The counters and every value a snapshot carries are always natural      *)
(* numbers: no error path takes a count back.                              *)
THEOREM StatsTypeCorrect == StatsSpec => []StatsTypeOK
BY InitType, TypeStep, PTL DEF StatsSpec

-----------------------------------------------------------------------------
(* A request leaves or enters the set in flight on its own.                *)
LEMMA InFlightFinite == IsFiniteSet(InFlight) /\ Cardinality(InFlight) \in Nat
BY FS_Subset, FS_CardinalityType, RequestsAssumption DEF InFlight

LEMMA InFlightAdd ==
    ASSUME NEW r \in Requests, StatsTypeOK, phase[r] = "idle",
           phase' = [phase EXCEPT ![r] = "sent"]
    PROVE  Cardinality(InFlight') = Cardinality(InFlight) + 1
<1>1. InFlight' = InFlight \cup {r} /\ r \notin InFlight
  BY DEF InFlight, StatsTypeOK
<1> QED BY <1>1, InFlightFinite, FS_AddElement

LEMMA InFlightRemove ==
    ASSUME NEW r \in Requests, StatsTypeOK, phase[r] \in {"sent", "answered"},
           NEW p \in {"idle", "body"}, phase' = [phase EXCEPT ![r] = p]
    PROVE  Cardinality(InFlight') = Cardinality(InFlight) - 1
<1>1. InFlight' = InFlight \ {r} /\ r \in InFlight
  BY DEF InFlight, StatsTypeOK
<1> QED BY <1>1, InFlightFinite, FS_RemoveElement

LEMMA InFlightSame ==
    ASSUME NEW r \in Requests, StatsTypeOK, NEW p, phase' = [phase EXCEPT ![r] = p],
           phase[r] \in {"sent", "answered"} <=> p \in {"sent", "answered"}
    PROVE  InFlight' = InFlight
BY DEF InFlight, StatsTypeOK

-----------------------------------------------------------------------------
LEMMA InitInv == StatsInit => StatsInv
<1> SUFFICES ASSUME StatsInit PROVE StatsInv
  OBVIOUS
<1>1. InFlight = {}
  BY DEF InFlight, StatsInit
<1>2. AnswersWithinRequests
  BY <1>1, FS_EmptySet DEF AnswersWithinRequests, StatsInit
<1> QED
  BY <1>2, InitType DEF StatsInit, StatsInv, PhasesApart, BytesAfterOps, LoadsInOrder,
                        LastBehind, LoadsGrow, Zero

(* No call takes anything back.                                            *)
LEMMA CountersGrow ==
    ASSUME StatsTypeOK, NEW r \in Requests, RoundTrip(r) \/ Transfer(r)
    PROVE  /\ bytesRead <= bytesRead' /\ bytesWritten <= bytesWritten'
           /\ opsRead <= opsRead' /\ opsWritten <= opsWritten'
<1> USE DEF StatsTypeOK, counters
<1>1. CASE RoundTrip(r)
  BY <1>1 DEF RoundTrip, Issue, SendBytes, Fail, Answer, CountAnswer, ReadBytes, CloseBody
<1>2. CASE CountRead(r) \/ CountWrite(r)
  BY <1>2 DEF CountRead, CountWrite
<1>3. ASSUME NEW n \in 0..1, ConnRead(r, n)
      PROVE  bytesRead <= bytesRead' /\ UNCHANGED <<bytesWritten, opsRead, opsWritten>>
  BY <1>3 DEF ConnRead
<1>4. ASSUME NEW n \in 0..1, ConnWrite(r, n)
      PROVE  bytesWritten <= bytesWritten' /\ UNCHANGED <<bytesRead, opsRead, opsWritten>>
  BY <1>4 DEF ConnWrite
<1> QED BY <1>1, <1>2, <1>3, <1>4 DEF Transfer

(* The steps of a request: each adds to at most one counter, and never     *)
(* touches the poller.                                                     *)
LEMMA RequestStep ==
    ASSUME StatsInv, ~socket, NEW r \in Requests, RoundTrip(r)
    PROVE  StatsInv'
<1>1. StatsTypeOK /\ StatsTypeOK'
  BY TypeStep DEF StatsInv, StatsNext
<1>2. UNCHANGED <<socket, poller>>
  BY DEF RoundTrip, Issue, SendBytes, Fail, Answer, CountAnswer, ReadBytes,
         CloseBody
<1>3. /\ bytesRead <= bytesRead' /\ bytesWritten <= bytesWritten'
      /\ opsRead <= opsRead' /\ opsWritten <= opsWritten'
  BY <1>1, CountersGrow
<1>4. AnswersWithinRequests'
  <2> DEFINE n == Cardinality(InFlight)
             m == Cardinality(InFlight')
  <2>1. n \in Nat /\ opsRead + n <= opsWritten
    BY InFlightFinite DEF StatsInv, AnswersWithinRequests
  <2>2. SUFFICES opsRead' + m <= opsWritten'
    BY DEF AnswersWithinRequests
  <2>3. CASE Issue(r)
    <3>1. m = n + 1
      BY <2>3, <1>1, InFlightAdd DEF Issue
    <3> QED BY <2>1, <2>3, <3>1, <1>1 DEF Issue, StatsTypeOK
  <2>4. CASE Fail(r)
    <3>1. m = n - 1
      BY <2>4, <1>1, InFlightRemove DEF Fail
    <3> QED BY <2>1, <2>4, <3>1, <1>1 DEF Fail, StatsTypeOK, counters
  <2>5. CASE CountAnswer(r)
    <3>1. m = n - 1
      BY <2>5, <1>1, InFlightRemove DEF CountAnswer
    <3> QED BY <2>1, <2>5, <3>1, <1>1 DEF CountAnswer, StatsTypeOK
  <2>6. CASE Answer(r) \/ CloseBody(r)
    <3>1. m = n
      BY <2>6, <1>1, InFlightSame DEF Answer, CloseBody
    <3> QED BY <2>1, <2>6, <3>1, <1>1 DEF Answer, CloseBody, StatsTypeOK, counters
  <2>7. CASE SendBytes(r) \/ ReadBytes(r)
    <3>1. m = n
      BY <2>7 DEF SendBytes, ReadBytes, InFlight
    <3> QED BY <2>1, <2>7, <3>1, <1>1 DEF SendBytes, ReadBytes, StatsTypeOK
  <2> QED BY <2>3, <2>4, <2>5, <2>6, <2>7 DEF RoundTrip
<1>5. BytesAfterOps'
  <2> USE <1>1 DEF BytesAfterOps, StatsInv, StatsTypeOK, counters
  <2>1. CASE Issue(r)
    BY <2>1 DEF Issue
  <2>2. CASE SendBytes(r)
    BY <2>2 DEF SendBytes
  <2>3. CASE Fail(r) \/ Answer(r) \/ CloseBody(r)
    BY <2>3 DEF Fail, Answer, CloseBody
  <2>4. CASE CountAnswer(r)
    BY <2>4 DEF CountAnswer
  <2>5. CASE ReadBytes(r)
    BY <2>5 DEF ReadBytes
  <2> QED BY <2>1, <2>2, <2>3, <2>4, <2>5 DEF RoundTrip
<1>6. LoadsInOrder' /\ LastBehind' /\ LoadsGrow'
  BY <1>1, <1>2, <1>3 DEF StatsInv, LoadsInOrder, LastBehind, LoadsGrow, StatsTypeOK,
                          poller, Snapshots
<1>7. PhasesApart'
  <2>1. \A q \in Requests : phase[q] \notin {"reading", "writing"}
    BY DEF StatsInv, PhasesApart
  <2> QED
    BY <2>1, <1>1 DEF RoundTrip, Issue, SendBytes, Fail, Answer, CountAnswer, ReadBytes,
                      CloseBody, PhasesApart, StatsTypeOK
<1> QED BY <1>1, <1>4, <1>5, <1>6, <1>7 DEF StatsInv

(* A socket's calls only add: its snapshots are not claimed to agree.      *)
LEMMA TransferStep ==
    ASSUME StatsInv, socket = TRUE, NEW r \in Requests, RoundTrip(r) \/ Transfer(r)
    PROVE  StatsInv'
<1>1. StatsTypeOK /\ StatsTypeOK'
  BY TypeStep DEF StatsInv, StatsNext
<1>2. UNCHANGED <<socket, poller>>
  BY DEF RoundTrip, Issue, SendBytes, Fail, Answer, CountAnswer, ReadBytes, CloseBody,
         Transfer, ConnRead, ConnWrite, CountRead, CountWrite
<1>3. /\ bytesRead <= bytesRead' /\ bytesWritten <= bytesWritten'
      /\ opsRead <= opsRead' /\ opsWritten <= opsWritten'
  BY <1>1, CountersGrow
<1> QED
  BY <1>1, <1>2, <1>3
  DEF StatsInv, PhasesApart, AnswersWithinRequests, BytesAfterOps, LoadsInOrder, LastBehind,
      LoadsGrow, StatsTypeOK, poller, Snapshots

LEMMA SocketStays ==
    ASSUME NEW r \in Requests, Transfer(r), PhasesApart
    PROVE  socket
BY DEF Transfer, ConnRead, ConnWrite, CountRead, CountWrite, PhasesApart

(* A load copies one counter, and the counters stay as they are.           *)
LEMMA LoadStep == StatsInv /\ Load => StatsInv'
<1> SUFFICES ASSUME StatsInv, Load PROVE StatsInv'
  OBVIOUS
<1>1. StatsTypeOK /\ StatsTypeOK'
  BY TypeStep DEF StatsInv, StatsNext
<1>2. /\ PhasesApart' /\ AnswersWithinRequests' /\ BytesAfterOps' /\ LastBehind'
      /\ socket' = socket
  BY DEF Load, StatsInv, PhasesApart, AnswersWithinRequests, InFlight, BytesAfterOps,
         LastBehind, counters
<1>3. ~socket => opsRead <= opsWritten
  BY <1>1, InFlightFinite DEF StatsInv, AnswersWithinRequests, StatsTypeOK
<1>4. LoadsInOrder' /\ LoadsGrow'
  <2> USE <1>1, <1>2, <1>3 DEF StatsInv, LoadsInOrder, LoadsGrow, LastBehind,
                         BytesAfterOps, StatsTypeOK, Snapshots, counters
  <2>1. CASE loaded = 0
    BY <2>1 DEF Load
  <2>2. CASE loaded = 1
    BY <2>2 DEF Load
  <2>3. CASE loaded = 2
    BY <2>3 DEF Load
  <2>4. CASE loaded = 3
    BY <2>4 DEF Load
  <2> QED BY <2>1, <2>2, <2>3, <2>4, SMTT(30) DEF Load
<1> QED BY <1>1, <1>2, <1>4 DEF StatsInv

LEMMA PublishStep == StatsInv /\ Publish => StatsInv'
<1> SUFFICES ASSUME StatsInv, Publish PROVE StatsInv'
  OBVIOUS
<1>1. StatsTypeOK /\ StatsTypeOK'
  BY TypeStep DEF StatsInv, StatsNext
<1> QED
  BY <1>1 DEF Publish, StatsInv, PhasesApart, AnswersWithinRequests, InFlight, BytesAfterOps,
              LoadsInOrder, LastBehind, LoadsGrow, StatsTypeOK, counters

LEMMA InvStep == StatsInv /\ [StatsNext]_statsVars => StatsInv'
<1> SUFFICES ASSUME StatsInv, [StatsNext]_statsVars PROVE StatsInv'
  OBVIOUS
<1>1. CASE UNCHANGED statsVars
  BY <1>1 DEF statsVars, counters, poller, StatsInv, StatsTypeOK, PhasesApart,
              AnswersWithinRequests, InFlight, BytesAfterOps, LoadsInOrder, LastBehind, LoadsGrow
<1>2. ASSUME NEW r \in Requests, RoundTrip(r) \/ Transfer(r) PROVE StatsInv'
  <2>1. CASE socket
    BY <1>2, <2>1, TransferStep DEF StatsInv, StatsTypeOK
  <2>2. CASE ~socket
    BY <1>2, <2>2, RequestStep, SocketStays DEF StatsInv
  <2> QED BY <2>1, <2>2
<1> QED BY <1>1, <1>2, LoadStep, PublishStep DEF StatsNext

LEMMA InvAlways == StatsSpec => []StatsInv
BY InitInv, InvStep, PTL DEF StatsSpec

-----------------------------------------------------------------------------
(* A complete snapshot of an HTTP mount shows no more responses than       *)
(* requests, and no bytes without the operation they belong to.            *)
THEOREM SnapshotsAgree == StatsSpec => []SnapshotAgrees
<1>1. StatsInv => SnapshotAgrees
  BY DEF StatsInv, LoadsInOrder, SnapshotAgrees, StatsTypeOK
<1> QED BY <1>1, InvAlways, PTL

(* Successive snapshots, of either transport, never go backwards.          *)
THEOREM SnapshotsNeverGoBack == StatsSpec => []SnapshotsMonotonic
<1>1. StatsInv => SnapshotsMonotonic
  BY DEF StatsInv, LoadsGrow, SnapshotsMonotonic, StatsTypeOK
<1> QED BY <1>1, InvAlways, PTL

-----------------------------------------------------------------------------
(* The map of mounts: the inductive invariant.                             *)

(* Where a caller uses a driver that the map led it to.                    *)
Holds == {"deleting", "unmounting", "using", "opening", "reading", "creating", "writing",
          "closing"}

(* A caller's driver was made, and is as far as the caller has brought it. *)
DriversKnown ==
    \A c \in Callers :
        /\ driver[c] \in created \cup {NoDriver}
        /\ pc[c] = "mounting" => driver[c] \in created \ up
        /\ pc[c] = "storing" => driver[c] \in up \ down
        /\ pc[c] \in Holds => driver[c] \in up

(* An instance that is being mounted is known to its caller only.          *)
Fresh ==
    \A c \in Callers : pc[c] \in {"mounting", "storing"} =>
        /\ \A e \in Callers \ {c} : driver[e] # driver[c]
        /\ \A m \in MountIDs : mounts[m] # driver[c]

(* A caller about to delete a driver from the map would find it, if at     *)
(* all, under the identifier it looked at.                                 *)
DeletesOwn ==
    \A c \in Callers : pc[c] = "deleting" =>
        \A m \in MountIDs : mounts[m] = driver[c] => m = id[c]

MountsInv ==
    /\ TypeOK /\ DriversKnown /\ Fresh /\ DeletesOwn
    /\ MountedMeansUsable /\ ActiveIsTracked

LEMMA MountsInitInv ==
    ASSUME Init
    PROVE  MountsInv
  <1>1. TypeOK
    BY ChunksAssumption DEF Init, TypeOK, PCs, Calls
  <1> QED
    BY <1>1 DEF Init, MountsInv, DriversKnown, Fresh, DeletesOwn,
                MountedMeansUsable, ActiveIsTracked, Holds

-----------------------------------------------------------------------------
(* What a step of one caller does to where the callers are.                *)
Moves(c, place) ==
    /\ place \in PCs
    /\ pc' = [pc EXCEPT ![c] = place]

LEMMA MovesTyped ==
    ASSUME TypeOK, NEW c \in Callers, NEW place, Moves(c, place)
    PROVE  /\ pc' \in [Callers -> PCs] /\ pc'[c] = place
           /\ \A e \in Callers \ {c} : pc'[e] = pc[e]
  BY DEF Moves, TypeOK

LEMMA ReturnMoves ==
    ASSUME TypeOK, NEW c \in Callers, NEW code \in {-1, 0, 1, 2}, Return(c, code)
    PROVE  Moves(c, "idle") /\ rc' \in [Callers -> {-1, 0, 1, 2}]
  BY DEF Return, Goto, Moves, PCs, TypeOK

LEMMA EnterMoves ==
    ASSUME TypeOK, NEW c \in Callers, NEW m \in MountIDs, NEW export \in Calls,
           NEW label \in PCs, Enter(c, m, export, label)
    PROVE  /\ Moves(c, label) /\ pc[c] = "idle"
           /\ rc' \in [Callers -> {-1, 0, 1, 2}]
           /\ call' \in [Callers -> Calls]
           /\ id' \in [Callers -> MountIDs]
           /\ \A e \in Callers \ {c} : id'[e] = id[e]
  BY DEF Enter, Goto, Moves, TypeOK

(* A step that leaves the manager alone and in which a caller comes to use *)
(* no driver but the one it had, or one the map leads to.                  *)
LEMMA AsideInv ==
    ASSUME MountsInv, TypeOK', NEW c \in Callers, NEW place, Moves(c, place),
           UNCHANGED managerVars,
           \A e \in Callers \ {c} : driver'[e] = driver[e] /\ id'[e] = id[e],
           driver'[c] = driver[c] \/ \E m \in MountIDs : driver'[c] = mounts[m],
           pc[c] \notin {"storing", "deleting", "unmounting", "gone"},
           place \notin {"mounting", "storing", "unmounting", "gone"},
           place = "deleting" => driver'[c] = mounts[id'[c]] /\ mounts[id'[c]] # NoDriver,
           place \in Holds => driver'[c] \in up
    PROVE  MountsInv'
  <1>1. /\ pc' \in [Callers -> PCs] /\ pc'[c] = place
        /\ \A e \in Callers \ {c} : pc'[e] = pc[e]
    BY MovesTyped DEF MountsInv
  <1>2. \A m \in MountIDs : mounts[m] \in created \cup {NoDriver}
    BY DEF MountsInv, MountedMeansUsable, Usable, TypeOK
  <1>3. DriversKnown'
    BY <1>1, <1>2 DEF MountsInv, DriversKnown, managerVars, Holds
  <1>4. Fresh'
    <2>1. ASSUME NEW e \in Callers, pc'[e] \in {"mounting", "storing"}
          PROVE  e # c /\ pc[e] \in {"mounting", "storing"} /\ driver'[e] = driver[e]
      BY <1>1, <2>1
    <2>2. ASSUME NEW e \in Callers, pc'[e] \in {"mounting", "storing"}
          PROVE  driver'[c] # driver'[e]
      BY <2>1, <2>2 DEF MountsInv, Fresh
    <2> QED BY <1>1, <2>1, <2>2 DEF MountsInv, Fresh, managerVars
  <1>5. DeletesOwn'
    <2>1. \A e \in Callers \ {c} : pc'[e] = "deleting" =>
              \A m \in MountIDs : mounts'[m] = driver'[e] => m = id'[e]
      BY <1>1 DEF MountsInv, DeletesOwn, managerVars
    <2>2. place = "deleting" => \A m \in MountIDs : mounts[m] = driver'[c] => m = id'[c]
      BY DEF MountsInv, MountedMeansUsable, TypeOK
    <2> QED BY <1>1, <2>1, <2>2 DEF DeletesOwn, managerVars
  <1>6. MountedMeansUsable'
    <2>1. \A e \in Callers :
              pc'[e] \in {"mounting", "storing", "unmounting"} =>
                  driver'[e] = driver[e] /\ pc[e] = pc'[e]
      BY <1>1
    <2> QED BY <2>1 DEF MountsInv, MountedMeansUsable, Usable, managerVars
  <1>7. ActiveIsTracked'
    <2>1. \A e \in Callers :
              pc[e] \in {"storing", "deleting", "unmounting", "gone"} /\ e # c =>
                  driver'[e] = driver[e] /\ pc'[e] = pc[e]
      BY <1>1
    <2> QED BY <2>1 DEF MountsInv, ActiveIsTracked, managerVars
  <1> QED BY <1>3, <1>4, <1>5, <1>6, <1>7 DEF MountsInv

(* The map entry found is a driver that is up.                             *)
LEMMA FoundIsUp ==
    ASSUME MountsInv, NEW m \in MountIDs, mounts[m] # NoDriver
    PROVE  mounts[m] \in up /\ mounts[m] \in created /\ mounts[m] \in Drivers
  BY DEF MountsInv, MountedMeansUsable, Usable, TypeOK

(* A call that only begins.                                                *)
LEMMA StartInv ==
    ASSUME MountsInv, NEW c \in Callers, NEW m \in MountIDs, NEW export \in Calls,
           NEW label \in {"looking", "getting"}, Enter(c, m, export, label),
           UNCHANGED <<managerVars, stored, driver, moved>>
    PROVE  MountsInv'
  <1>1. /\ Moves(c, label) /\ pc[c] = "idle"
        /\ rc' \in [Callers -> {-1, 0, 1, 2}]
        /\ call' \in [Callers -> Calls] /\ id' \in [Callers -> MountIDs]
        /\ \A e \in Callers \ {c} : id'[e] = id[e]
    BY EnterMoves DEF MountsInv, PCs
  <1>2. TypeOK'
    BY <1>1, MovesTyped DEF MountsInv, TypeOK, managerVars
  <1> QED BY <1>1, <1>2, AsideInv DEF Holds

(* A call that returns, whatever it has moved, from a place where it does  *)
(* not touch the manager.                                                  *)
LEMMA ReturnInv ==
    ASSUME MountsInv, NEW c \in Callers,
           pc[c] \notin {"storing", "deleting", "unmounting", "gone"},
           Goto(c, "idle"), rc' \in [Callers -> {-1, 0, 1, 2}],
           stored' \in [Drivers -> 0..Chunks],
           UNCHANGED <<managerVars, call, id, driver, moved>>
    PROVE  MountsInv'
  <1>1. Moves(c, "idle")
    BY DEF Goto, Moves, PCs
  <1>2. TypeOK'
    BY <1>1, MovesTyped DEF MountsInv, TypeOK, managerVars
  <1> QED BY <1>1, <1>2, AsideInv DEF Holds

(* A call that goes on with the driver it has.                             *)
LEMMA GoOnInv ==
    ASSUME MountsInv, NEW c \in Callers,
           NEW label \in {"reading", "writing", "closing"},
           pc[c] \in {"opening", "reading", "creating", "writing"}, Goto(c, label),
           rc' \in [Callers -> {-1, 0, 1, 2}], moved' \in [Callers -> 0..Chunks],
           UNCHANGED <<managerVars, stored, call, id, driver>>
    PROVE  MountsInv'
  <1>1. Moves(c, label)
    BY DEF Goto, Moves, PCs
  <1>2. TypeOK'
    BY <1>1, MovesTyped DEF MountsInv, TypeOK, managerVars
  <1>3. driver[c] \in up
    BY DEF MountsInv, DriversKnown, Holds
  <1> QED BY <1>1, <1>2, <1>3, AsideInv

(* A caller looks the driver up that it will use or take down.             *)
LEMMA FoundInv ==
    ASSUME MountsInv, NEW c \in Callers, pc[c] \in {"looking", "getting"},
           mounts[id[c]] # NoDriver,
           driver' = [driver EXCEPT ![c] = mounts[id[c]]],
           NEW label \in {"idle", "deleting", "opening", "creating", "using"},
           Goto(c, label), rc' \in [Callers -> {-1, 0, 1, 2}],
           moved' \in [Callers -> 0..Chunks],
           UNCHANGED <<managerVars, stored, call, id>>
    PROVE  MountsInv'
  <1>1. Moves(c, label)
    BY DEF Goto, Moves, PCs
  <1>2. id[c] \in MountIDs /\ mounts[id[c]] \in up /\ mounts[id[c]] \in Drivers
    BY FoundIsUp DEF MountsInv, TypeOK
  <1>3. driver'[c] = mounts[id[c]] /\ \A e \in Callers \ {c} : driver'[e] = driver[e]
    BY DEF MountsInv, TypeOK
  <1>4. TypeOK'
    BY <1>1, <1>2, MovesTyped DEF MountsInv, TypeOK, managerVars
  <1> QED BY <1>1, <1>2, <1>3, <1>4, AsideInv

-----------------------------------------------------------------------------
(* The steps of Mount and Unmount that change the manager.                 *)

(* A new instance is known to nobody.                                      *)
LEMMA MountCreateInv ==
    ASSUME MountsInv, NEW c \in Callers, NEW m \in MountIDs,
           NEW d \in Drivers, MountCreate(c, m, d)
    PROVE  MountsInv'
  <1>1. /\ Moves(c, "mounting") /\ pc[c] = "idle"
        /\ rc' \in [Callers -> {-1, 0, 1, 2}]
        /\ call' \in [Callers -> Calls] /\ id' \in [Callers -> MountIDs]
        /\ \A e \in Callers \ {c} : id'[e] = id[e]
    BY EnterMoves DEF MountsInv, MountCreate, PCs, Calls
  <1>2. /\ pc' \in [Callers -> PCs] /\ pc'[c] = "mounting"
        /\ \A e \in Callers \ {c} : pc'[e] = pc[e]
    BY <1>1, MovesTyped DEF MountsInv
  <1>3. /\ d \notin created /\ created' = created \cup {d}
        /\ driver' \in [Callers -> Drivers \cup {NoDriver}] /\ driver'[c] = d
        /\ \A e \in Callers \ {c} : driver'[e] = driver[e]
        /\ UNCHANGED <<mounts, up, down, displaced, stored, moved>>
    BY DEF MountsInv, TypeOK, MountCreate
  <1>4. TypeOK'
    BY <1>1, <1>2, <1>3 DEF MountsInv, TypeOK
  <1>5. d # NoDriver /\ d \notin up
    BY <1>3, NoDriverAssumption DEF MountsInv, TypeOK
  <1>6. \A e \in Callers \ {c} : driver[e] # d
    BY <1>3, <1>5 DEF MountsInv, DriversKnown
  <1>7. \A n \in MountIDs : mounts[n] # d
    BY <1>3, <1>5, FoundIsUp
  <1>8. DriversKnown'
    BY <1>2, <1>3, <1>5 DEF MountsInv, DriversKnown, Holds
  <1>9. Fresh'
    BY <1>2, <1>3, <1>6, <1>7 DEF MountsInv, Fresh
  <1>10. DeletesOwn'
    BY <1>1, <1>2, <1>3 DEF MountsInv, DeletesOwn
  <1>11. MountedMeansUsable'
    BY <1>2, <1>3, <1>7 DEF MountsInv, MountedMeansUsable, Usable
  <1>12. ActiveIsTracked'
    BY <1>1, <1>2, <1>3 DEF MountsInv, ActiveIsTracked
  <1> QED BY <1>4, <1>8, <1>9, <1>10, <1>11, <1>12 DEF MountsInv

LEMMA MountConnectsInv ==
    ASSUME MountsInv, NEW c \in Callers, MountConnects(c)
    PROVE  MountsInv'
  <1>1. /\ pc' \in [Callers -> PCs] /\ pc'[c] = "storing" /\ pc[c] = "mounting"
        /\ \A e \in Callers \ {c} : pc'[e] = pc[e]
    BY DEF MountsInv, TypeOK, MountConnects, Goto, PCs
  <1>2. /\ up' = up \cup {driver[c]}
        /\ UNCHANGED <<mounts, created, down, displaced, stored, call, id, driver,
                      moved, rc>>
    BY DEF MountConnects
  <1>3. driver[c] \in created \ up
    BY <1>1 DEF MountsInv, DriversKnown
  <1>4. TypeOK'
    BY <1>1, <1>2, <1>3 DEF MountsInv, TypeOK
  <1>5. \A e \in Callers \ {c} : driver[e] # driver[c]
    BY <1>1 DEF MountsInv, Fresh
  <1>6. DriversKnown'
    BY <1>1, <1>2, <1>3, <1>5 DEF MountsInv, DriversKnown, Holds, TypeOK
  <1>7. Fresh' /\ DeletesOwn'
    BY <1>1, <1>2 DEF MountsInv, Fresh, DeletesOwn
  <1>8. MountedMeansUsable'
    BY <1>1, <1>2 DEF MountsInv, MountedMeansUsable, Usable
  <1>9. ActiveIsTracked'
    BY <1>1, <1>2 DEF MountsInv, ActiveIsTracked
  <1> QED BY <1>4, <1>6, <1>7, <1>8, <1>9 DEF MountsInv

(* The instance goes to where nobody else could know it; what it replaces  *)
(* is displaced.                                                           *)
LEMMA MountStoreInv ==
    ASSUME MountsInv, NEW c \in Callers, MountStore(c)
    PROVE  MountsInv'
  <1>1. /\ pc' \in [Callers -> PCs] /\ pc'[c] = "idle" /\ pc[c] = "storing"
        /\ rc' \in [Callers -> {-1, 0, 1, 2}]
        /\ \A e \in Callers \ {c} : pc'[e] = pc[e]
    BY DEF MountsInv, TypeOK, MountStore, Return, Goto, PCs
  <1>2. /\ displaced' = displaced \cup ({mounts[id[c]]} \ {NoDriver})
        /\ UNCHANGED <<created, up, down, stored, call, id, driver, moved>>
    BY DEF MountStore
  <1>3. driver[c] \in up \ down /\ driver[c] \in Drivers /\ id[c] \in MountIDs
    BY <1>1 DEF MountsInv, DriversKnown, TypeOK
  <1>4. /\ mounts' \in [MountIDs -> Drivers \cup {NoDriver}] /\ mounts'[id[c]] = driver[c]
        /\ \A m \in MountIDs \ {id[c]} : mounts'[m] = mounts[m]
    BY <1>3 DEF MountsInv, TypeOK, MountStore
  <1>5. TypeOK'
    <2>1. displaced' \subseteq created
      BY <1>2, <1>3, FoundIsUp DEF MountsInv, TypeOK
    <2> QED BY <1>1, <1>2, <1>4, <2>1 DEF MountsInv, TypeOK
  <1>6. /\ \A e \in Callers \ {c} : driver[e] # driver[c]
        /\ \A m \in MountIDs : mounts[m] # driver[c]
    BY <1>1 DEF MountsInv, Fresh
  <1>7. DriversKnown'
    BY <1>1, <1>2 DEF MountsInv, DriversKnown, Holds
  <1>8. Fresh'
    BY <1>1, <1>2, <1>4, <1>6 DEF MountsInv, Fresh
  <1>9. DeletesOwn'
    BY <1>1, <1>2, <1>4, <1>6 DEF MountsInv, DeletesOwn
  <1>10. MountedMeansUsable'
    <2>1. ASSUME NEW m \in MountIDs, mounts'[m] # NoDriver
          PROVE  /\ mounts'[m] \in up' \ down'
                 /\ \A n \in MountIDs : mounts'[n] = mounts'[m] => n = m
      BY <1>2, <1>3, <1>4, <1>6, <2>1 DEF MountsInv, MountedMeansUsable, Usable
    <2>2. ASSUME NEW m \in MountIDs, mounts'[m] # NoDriver, NEW e \in Callers,
                 driver'[e] = mounts'[m]
          PROVE  pc'[e] \notin {"mounting", "storing", "unmounting"}
      BY <1>1, <1>2, <1>4, <1>6, <2>2 DEF MountsInv, MountedMeansUsable
    <2> QED BY <2>1, <2>2 DEF MountedMeansUsable, Usable
  <1>11. ActiveIsTracked'
    <2> SUFFICES ASSUME NEW d \in up \ (down \cup displaced')
                 PROVE  \/ \E m \in MountIDs : mounts'[m] = d
                        \/ \E e \in Callers : driver'[e] = d
                             /\ pc'[e] \in {"storing", "deleting", "unmounting", "gone"}
      BY <1>2 DEF ActiveIsTracked
    <2>1. d # NoDriver /\ d \in up \ (down \cup displaced)
      BY <1>2, NoDriverAssumption DEF MountsInv, TypeOK
    <2>2. CASE \E m \in MountIDs : mounts[m] = d
      BY <1>2, <1>4, <2>1, <2>2
    <2>3. CASE \E e \in Callers \ {c} : driver[e] = d
                   /\ pc[e] \in {"storing", "deleting", "unmounting", "gone"}
      BY <1>1, <1>2, <2>3
    <2>4. CASE driver[c] = d
      BY <1>3, <1>4, <2>4
    <2> QED BY <2>1, <2>2, <2>3, <2>4 DEF MountsInv, ActiveIsTracked
  <1> QED BY <1>5, <1>7, <1>8, <1>9, <1>10, <1>11 DEF MountsInv

(* What is deleted is the driver that was looked up, or is displaced.      *)
LEMMA UnmountDeleteInv ==
    ASSUME MountsInv, NEW c \in Callers, UnmountDelete(c)
    PROVE  MountsInv'
  <1>1. /\ pc' \in [Callers -> PCs] /\ pc'[c] = "unmounting" /\ pc[c] = "deleting"
        /\ \A e \in Callers \ {c} : pc'[e] = pc[e]
    BY DEF MountsInv, TypeOK, UnmountDelete, Goto, PCs
  <1>2. /\ displaced' = displaced \cup ({mounts[id[c]]} \ {driver[c], NoDriver})
        /\ UNCHANGED <<created, up, down, stored, call, id, driver, moved, rc>>
    BY DEF UnmountDelete
  <1>3. driver[c] \in up /\ driver[c] # NoDriver /\ id[c] \in MountIDs
    BY <1>1, NoDriverAssumption DEF MountsInv, DriversKnown,
                TypeOK, Holds
  <1>4. /\ mounts' \in [MountIDs -> Drivers \cup {NoDriver}] /\ mounts'[id[c]] = NoDriver
        /\ \A m \in MountIDs \ {id[c]} : mounts'[m] = mounts[m]
    BY <1>3 DEF MountsInv, TypeOK, UnmountDelete
  <1>5. TypeOK'
    <2>1. displaced' \subseteq created
      BY <1>2, <1>3, FoundIsUp DEF MountsInv, TypeOK
    <2> QED BY <1>1, <1>2, <1>4, <2>1 DEF MountsInv, TypeOK
  <1>6. DriversKnown'
    BY <1>1, <1>2 DEF MountsInv, DriversKnown, Holds
  <1>7. Fresh'
    <2>1. ASSUME NEW e \in Callers, pc'[e] \in {"mounting", "storing"}
          PROVE  driver[e] # NoDriver
      BY <1>1, <2>1, NoDriverAssumption DEF MountsInv,
                        DriversKnown, TypeOK
    <2> QED BY <1>1, <1>2, <1>4, <2>1 DEF MountsInv, Fresh
  <1>8. DeletesOwn'
    <2>1. ASSUME NEW e \in Callers, pc'[e] = "deleting"
          PROVE  driver[e] # NoDriver /\ pc[e] = "deleting"
      BY <1>1, <2>1, NoDriverAssumption DEF MountsInv,
                        DriversKnown, TypeOK, Holds
    <2> QED BY <1>2, <1>4, <2>1 DEF MountsInv, DeletesOwn
  <1>9. MountedMeansUsable'
    <2>1. \A m \in MountIDs : mounts'[m] # NoDriver => mounts'[m] = mounts[m] /\ m # id[c]
      BY <1>4
    <2>2. \A m \in MountIDs : mounts'[m] # driver[c]
      BY <1>1, <1>3, <1>4, <2>1 DEF MountsInv, DeletesOwn
    <2>3. ASSUME NEW m \in MountIDs, mounts'[m] # NoDriver
          PROVE  /\ mounts'[m] \in up' \ down'
                 /\ \A n \in MountIDs : mounts'[n] = mounts'[m] => n = m
      BY <1>2, <2>1, <2>3 DEF MountsInv, MountedMeansUsable, Usable
    <2>4. ASSUME NEW m \in MountIDs, mounts'[m] # NoDriver, NEW e \in Callers,
                 driver'[e] = mounts'[m]
          PROVE  pc'[e] \notin {"mounting", "storing", "unmounting"}
      BY <1>1, <1>2, <2>1, <2>2, <2>4 DEF MountsInv, MountedMeansUsable
    <2> QED BY <2>3, <2>4 DEF MountedMeansUsable, Usable
  <1>10. ActiveIsTracked'
    <2> SUFFICES ASSUME NEW d \in up \ (down \cup displaced')
                 PROVE  \/ \E m \in MountIDs : mounts'[m] = d
                        \/ \E e \in Callers : driver'[e] = d
                             /\ pc'[e] \in {"storing", "deleting", "unmounting", "gone"}
      BY <1>2 DEF ActiveIsTracked
    <2>1. d # NoDriver /\ d \in up \ (down \cup displaced)
      BY <1>2, NoDriverAssumption DEF MountsInv, TypeOK
    <2>2. CASE d = driver[c]
      BY <1>1, <1>2, <2>2
    <2>3. CASE d # driver[c] /\ \E m \in MountIDs : mounts[m] = d
      BY <1>2, <1>4, <2>1, <2>3
    <2>4. CASE \E e \in Callers \ {c} : driver[e] = d
                   /\ pc[e] \in {"storing", "deleting", "unmounting", "gone"}
      BY <1>1, <1>2, <2>4
    <2> QED BY <2>1, <2>2, <2>3, <2>4 DEF MountsInv, ActiveIsTracked
  <1> QED BY <1>5, <1>6, <1>7, <1>8, <1>9, <1>10 DEF MountsInv

(* A driver that is taken down is not in the map, nor about to be stored.  *)
LEMMA UnmountDriverInv ==
    ASSUME MountsInv, NEW c \in Callers, UnmountDriver(c)
    PROVE  MountsInv'
  <1>1. /\ pc' \in [Callers -> PCs] /\ pc'[c] = "idle" /\ pc[c] = "unmounting"
        /\ rc' \in [Callers -> {-1, 0, 1, 2}]
        /\ \A e \in Callers \ {c} : pc'[e] = pc[e]
    BY DEF MountsInv, TypeOK, UnmountDriver, Return, Goto, PCs
  <1>2. /\ down' = down \cup {driver[c]}
        /\ UNCHANGED <<mounts, created, up, displaced, stored, call, id, driver, moved>>
    BY DEF UnmountDriver
  <1>3. driver[c] \in up /\ driver[c] # NoDriver
    BY <1>1, NoDriverAssumption DEF MountsInv, DriversKnown,
                TypeOK, Holds
  <1>4. TypeOK'
    BY <1>1, <1>2, <1>3 DEF MountsInv, TypeOK
  <1>5. \A e \in Callers \ {c} : pc[e] \in {"mounting",
    "storing"} => driver[e] # driver[c]
    BY DEF MountsInv, Fresh
  <1>6. DriversKnown'
    BY <1>1, <1>2, <1>5 DEF MountsInv, DriversKnown, Holds
  <1>7. Fresh' /\ DeletesOwn'
    BY <1>1, <1>2 DEF MountsInv, Fresh, DeletesOwn
  <1>8. \A m \in MountIDs : mounts[m] # driver[c]
    BY <1>1, <1>3 DEF MountsInv, MountedMeansUsable
  <1>9. MountedMeansUsable'
    BY <1>1, <1>2, <1>8 DEF MountsInv, MountedMeansUsable, Usable
  <1>10. ActiveIsTracked'
    BY <1>1, <1>2 DEF MountsInv, ActiveIsTracked
  <1> QED BY <1>4, <1>6, <1>7, <1>9, <1>10 DEF MountsInv

(* The process has ended: nobody is anywhere any more.                     *)
LEMMA MapFaultInv ==
    ASSUME MountsInv, MapFault
    PROVE  MountsInv'
  <1>1. /\ pc' \in [Callers -> PCs] /\ \A e \in Callers : pc'[e] = "gone"
        /\ UNCHANGED <<managerVars, stored, call, id, driver, moved, rc>>
    BY DEF MapFault, PCs
  <1>2. TypeOK' /\ DriversKnown' /\ Fresh' /\ DeletesOwn'
    BY <1>1 DEF MountsInv, TypeOK, DriversKnown, Fresh, DeletesOwn, Holds,
                managerVars
  <1>3. MountedMeansUsable' /\ ActiveIsTracked'
    BY <1>1 DEF MountsInv, MountedMeansUsable, Usable, ActiveIsTracked,
                managerVars
  <1> QED BY <1>2, <1>3 DEF MountsInv

-----------------------------------------------------------------------------
LEMMA MountsStepInv ==
    ASSUME MountsInv, [Next]_vars
    PROVE  MountsInv'
  <1>1. TypeOK
    BY DEF MountsInv
  <1>2. ASSUME NEW c \in Callers, NEW m \in MountIDs,
               NEW export \in {"stats", "use", "openfile", "writefile"},
               UnmountStart(c, m) \/ Start(c, m, export)
        PROVE  MountsInv'
    BY <1>2, StartInv DEF UnmountStart, Start, Calls
  <1>3. ASSUME NEW c \in Callers, NEW code \in {0, 1, 2},
               pc[c] \in {"mounting", "looking", "getting", "using", "opening",
                          "reading", "creating"},
               Return(c, code),
               UNCHANGED <<managerVars, stored, call, id, driver, moved>>
        PROVE  MountsInv'
    <2>1. rc' \in [Callers -> {-1, 0, 1, 2}] /\ Goto(c, "idle")
      BY <1>1, <1>3, ReturnMoves DEF Return
    <2> QED BY <1>1, <1>3, <2>1, ReturnInv DEF TypeOK
  <1>4. ASSUME NEW c \in Callers,
               MountFails(c) \/ UnmountUnknown(c) \/ GetNothing(c) \/ Use(c)
                   \/ ReadEnds(c)
        PROVE  MountsInv'
    BY <1>3, <1>4 DEF MountFails, UnmountUnknown, GetNothing, Use, ReadEnds
  <1>5. ASSUME NEW c \in Callers, UnmountLook(c) PROVE MountsInv'
    BY <1>1, <1>5, FoundInv DEF UnmountLook, TypeOK
  <1>6. ASSUME NEW c \in Callers, Get(c) PROVE MountsInv'
    <2>1. moved' \in [Callers -> 0..Chunks]
      BY <1>1, <1>6, ChunksAssumption DEF Get, TypeOK
    <2>2. CASE call[c] = "stats"
      <3>1. rc' \in [Callers -> {-1, 0, 1, 2}] /\ Goto(c, "idle")
        BY <1>1, <1>6, <2>2, ReturnMoves DEF Get, Return
      <3> QED BY <1>6, <2>1, <3>1, FoundInv DEF Get
    <2>3. CASE call[c] # "stats"
      <3>1. rc' \in [Callers -> {-1, 0, 1, 2}]
            /\ \E label \in {"opening", "creating", "using"} : Goto(c, label)
        BY <1>1, <1>6, <2>3 DEF Get, TypeOK
      <3> QED BY <1>6, <2>1, <3>1, FoundInv DEF Get
    <2> QED BY <2>2, <2>3
  <1>7. ASSUME NEW c \in Callers, OpenFile(c) \/ CreateFile(c) PROVE MountsInv'
    BY <1>1, <1>3, <1>7, GoOnInv DEF OpenFile, CreateFile, TypeOK
  <1>8. ASSUME NEW c \in Callers, ReadPiece(c) PROVE MountsInv'
    <2>1. driver[c] \in Drivers
      BY <1>8 DEF ReadPiece, MountsInv, DriversKnown, TypeOK, Holds
    <2>2. moved' \in [Callers -> 0..Chunks]
      BY <1>1, <1>8, <2>1, ChunksAssumption DEF ReadPiece,
                              TypeOK
    <2>3. Goto(c, "reading")
      BY <1>1, <1>8 DEF ReadPiece, Goto, TypeOK
    <2> QED BY <1>1, <1>8, <2>2, <2>3, GoOnInv DEF ReadPiece, TypeOK
  <1>9. ASSUME NEW c \in Callers, Write(c) PROVE MountsInv'
    <2>1. moved' \in [Callers -> 0..Chunks] /\ rc' \in [Callers -> {-1, 0, 1, 2}]
      BY <1>1, <1>9, ChunksAssumption DEF Write, TypeOK
    <2> QED BY <1>9, <2>1, GoOnInv DEF Write
  <1>10. ASSUME NEW c \in Callers, CloseStores(c) \/ CloseFails(c) PROVE MountsInv'
    <2>1. stored' \in [Drivers -> 0..Chunks]
      BY <1>1, <1>10 DEF CloseStores, CloseFails, TypeOK
    <2> QED BY <1>1, <1>10, <2>1, ReturnInv DEF CloseStores, CloseFails, TypeOK
  <1>11. ASSUME UNCHANGED vars PROVE MountsInv'
    BY <1>11 DEF vars, managerVars, MountsInv, TypeOK, DriversKnown, Fresh,
                 DeletesOwn, MountedMeansUsable, Usable, ActiveIsTracked, Holds
  <1> QED
    BY <1>2, <1>4, <1>5, <1>6, <1>7, <1>8, <1>9, <1>10, <1>11, MountCreateInv,
       MountConnectsInv, MountStoreInv, UnmountDeleteInv, UnmountDriverInv, MapFaultInv
    DEF Next, Gone

LEMMA MountsInvariance == Spec => []MountsInv
  <1>1. Init => MountsInv
    BY MountsInitInv
  <1>2. MountsInv /\ [Next]_vars => MountsInv'
    BY MountsStepInv
  <1> QED BY <1>1, <1>2, PTL DEF Spec

(* For any number of threads, identifiers, drivers and pieces: every       *)
(* variable keeps its type; no transfer moves more than there is.          *)
THEOREM TypeCorrect == Spec => []TypeOK
  BY MountsInvariance, PTL DEF MountsInv

(* An identifier leads to a driver of its own and one that is up, however  *)
(* the steps of mounts, unmounts and calls interleave without a lock.      *)
THEOREM MapLeadsToUsable == Spec => []MountedMeansUsable
  BY MountsInvariance, PTL DEF MountsInv

(* Every connected driver can still be unmounted, but for those a second   *)
(* mount or a late delete put out of the map.                              *)
THEOREM NoDriverIsLost == Spec => []ActiveIsTracked
  BY MountsInvariance, PTL DEF MountsInv
=================================================================================
