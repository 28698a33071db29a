---------------------------- MODULE TransportStats ----------------------------
(***************************************************************************)
(* The transport counters of one mount: four atomic counters to which as   *)
(* many goroutines as there are requests add, while the host's poller      *)
(* takes a Snapshot through networkfs_get_stats.                           *)
(*                                                                         *)
(* For an HTTP mount it is CountingTransport.RoundTrip and the counting    *)
(* body readers that add, for a socket CountingConn's Read and Write, which*)
(* count in another order: the bytes first, when they have been moved.     *)
(*                                                                         *)
(* There is no lock: each atomic add and each of Snapshot's four loads is  *)
(* a step of its own.                                                      *)
(***************************************************************************)
EXTENDS Integers, FiniteSets

CONSTANTS
    Requests,  \* goroutines that may have a request in progress
    MaxOps,    \* bound: requests issued in a run
    MaxBytes   \* bound: bytes counted in each direction in a run

ASSUME RequestsAssumption == IsFiniteSet(Requests)
ASSUME MaxOpsAssumption == MaxOps \in Nat
ASSUME MaxBytesAssumption == MaxBytes \in Nat

VARIABLES
    socket,  \* whether the mount is a socket's: CountingConn counts
    bytesRead, bytesWritten, opsRead, opsWritten,  \* MountStats
    phase,   \* where each request is
    loaded,  \* loads the Snapshot in progress has done
    snap,    \* what they returned
    last     \* the snapshot the host absorbed last

counters == <<bytesRead, bytesWritten, opsRead, opsWritten>>
poller == <<loaded, snap, last>>
statsVars == <<socket, counters, phase, poller>>

(* idle: not issued or over; sent: inside the base transport; answered:    *)
(* the base transport has returned a response, not counted yet; body: the  *)
(* caller holds the response; reading, writing: a socket's call has moved  *)
(* its bytes and is not counted yet.                                       *)
Phases == {"idle", "sent", "answered", "body", "reading", "writing"}

Snapshots == [bytesRead : Nat, bytesWritten : Nat, opsRead : Nat,
              opsWritten : Nat]

Zero == [bytesRead |-> 0, bytesWritten |-> 0, opsRead |-> 0, opsWritten |-> 0]

StatsInit ==
    /\ socket \in BOOLEAN
    /\ bytesRead = 0 /\ bytesWritten = 0 /\ opsRead = 0 /\ opsWritten = 0
    /\ phase = [r \in Requests |-> "idle"]
    /\ loaded = 0
    /\ snap = Zero
    /\ last = Zero

-----------------------------------------------------------------------------
(* RoundTrip.                                                              *)

(* The request is counted before the base transport sees it.               *)
Issue(r) ==
    /\ ~socket /\ phase[r] = "idle" /\ opsWritten < MaxOps
    /\ opsWritten' = opsWritten + 1
    /\ phase' = [phase EXCEPT ![r] = "sent"]
    /\ UNCHANGED <<socket, bytesRead, bytesWritten, opsRead, poller>>

(* The transport reads a piece of the request body.  It may go on doing so *)
(* after the response's header has arrived.                                *)
SendBytes(r) ==
    /\ ~socket /\ phase[r] # "idle" /\ bytesWritten < MaxBytes
    /\ bytesWritten' = bytesWritten + 1
    /\ UNCHANGED <<socket, bytesRead, opsRead, opsWritten, phase, poller>>

(* Mutants: a failure is counted back, from either side.                   *)
FailUnissued(r) ==
    /\ phase[r] = "sent"
    /\ opsWritten' = opsWritten - 1
    /\ phase' = [phase EXCEPT ![r] = "idle"]
    /\ UNCHANGED <<socket, bytesRead, bytesWritten, opsRead, poller>>

FailUnanswered(r) ==
    /\ phase[r] = "sent"
    /\ opsRead' = opsRead - 1
    /\ phase' = [phase EXCEPT ![r] = "idle"]
    /\ UNCHANGED <<socket, bytesRead, bytesWritten, opsWritten, poller>>

(* The base transport fails: the request stays counted as issued only.     *)
Fail(r) ==
    /\ phase[r] = "sent"
    /\ phase' = [phase EXCEPT ![r] = "idle"]
    /\ UNCHANGED <<socket, counters, poller>>

Answer(r) ==
    /\ phase[r] = "sent"
    /\ phase' = [phase EXCEPT ![r] = "answered"]
    /\ UNCHANGED <<socket, counters, poller>>

(* The response is counted, then its body is wrapped and handed out.       *)
CountAnswer(r) ==
    /\ phase[r] = "answered"
    /\ opsRead' = opsRead + 1
    /\ phase' = [phase EXCEPT ![r] = "body"]
    /\ UNCHANGED <<socket, bytesRead, bytesWritten, opsWritten, poller>>

(* The caller reads a piece of the response body.                          *)
ReadBytes(r) ==
    /\ phase[r] = "body" /\ bytesRead < MaxBytes
    /\ bytesRead' = bytesRead + 1
    /\ UNCHANGED <<socket, bytesWritten, opsRead, opsWritten, phase, poller>>

CloseBody(r) ==
    /\ phase[r] = "body"
    /\ phase' = [phase EXCEPT ![r] = "idle"]
    /\ UNCHANGED <<socket, counters, poller>>

-----------------------------------------------------------------------------
(* A socket's Read and Write, which count a call that moved nothing too,   *)
(* failed or not.                                                          *)
ConnRead(r, n) ==
    /\ socket /\ phase[r] = "idle" /\ opsRead < MaxOps
    /\ bytesRead + n <= MaxBytes
    /\ bytesRead' = bytesRead + n
    /\ phase' = [phase EXCEPT ![r] = "reading"]
    /\ UNCHANGED <<socket, bytesWritten, opsRead, opsWritten, poller>>

CountRead(r) ==
    /\ phase[r] = "reading"
    /\ opsRead' = opsRead + 1
    /\ phase' = [phase EXCEPT ![r] = "idle"]
    /\ UNCHANGED <<socket, bytesRead, bytesWritten, opsWritten, poller>>

ConnWrite(r, n) ==
    /\ socket /\ phase[r] = "idle" /\ opsWritten < MaxOps
    /\ bytesWritten + n <= MaxBytes
    /\ bytesWritten' = bytesWritten + n
    /\ phase' = [phase EXCEPT ![r] = "writing"]
    /\ UNCHANGED <<socket, bytesRead, opsRead, opsWritten, poller>>

CountWrite(r) ==
    /\ phase[r] = "writing"
    /\ opsWritten' = opsWritten + 1
    /\ phase' = [phase EXCEPT ![r] = "idle"]
    /\ UNCHANGED <<socket, bytesRead, bytesWritten, opsRead, poller>>

-----------------------------------------------------------------------------
(* Snapshot.  The order of the loads is that of the return statement.      *)

(* Mutant: the loads in another order.                                     *)
LoadOpsFirst ==
    /\ loaded < 4
    /\ loaded' = loaded + 1
    /\ snap' = CASE loaded = 0 -> [snap EXCEPT !.opsWritten = opsWritten]
                 [] loaded = 1 -> [snap EXCEPT !.opsRead = opsRead]
                 [] loaded = 2 -> [snap EXCEPT !.bytesRead = bytesRead]
                 [] loaded = 3 -> [snap EXCEPT !.bytesWritten = bytesWritten]
    /\ UNCHANGED <<socket, counters, phase, last>>

Load ==
    /\ loaded < 4
    /\ loaded' = loaded + 1
    /\ snap' = CASE loaded = 0 -> [snap EXCEPT !.bytesRead = bytesRead]
                 [] loaded = 1 -> [snap EXCEPT !.bytesWritten = bytesWritten]
                 [] loaded = 2 -> [snap EXCEPT !.opsRead = opsRead]
                 [] loaded = 3 -> [snap EXCEPT !.opsWritten = opsWritten]
    /\ UNCHANGED <<socket, counters, phase, last>>

(* networkfs_get_stats hands the four values to the host.                  *)
Publish ==
    /\ loaded = 4
    /\ last' = snap
    /\ loaded' = 0
    /\ UNCHANGED <<socket, counters, phase, snap>>

RoundTrip(r) ==
    \/ Issue(r) \/ SendBytes(r) \/ Fail(r) \/ Answer(r) \/ CountAnswer(r)
    \/ ReadBytes(r) \/ CloseBody(r)

Transfer(r) ==
    \/ \E n \in 0..1 : ConnRead(r, n) \/ ConnWrite(r, n)
    \/ CountRead(r) \/ CountWrite(r)

StatsNext == Load \/ Publish \/ \E r \in Requests : RoundTrip(r) \/ Transfer(r)

StatsSpec == StatsInit /\ [][StatsNext]_statsVars

-----------------------------------------------------------------------------
StatsTypeOK ==
    /\ socket \in BOOLEAN
    /\ bytesRead \in Nat /\ bytesWritten \in Nat
    /\ opsRead \in Nat /\ opsWritten \in Nat
    /\ phase \in [Requests -> Phases]
    /\ loaded \in 0..4
    /\ snap \in Snapshots
    /\ last \in Snapshots

(* A complete snapshot of an HTTP mount shows no more responses than       *)
(* requests, nor bytes in a direction in which nothing has been counted,   *)
(* although the four counters are loaded at different times.  (One of a    *)
(* socket may show the bytes of a call that has not been counted.)         *)
SnapshotAgrees ==
    ~socket /\ loaded = 4 =>
        /\ snap.opsRead <= snap.opsWritten
        /\ snap.bytesRead > 0 => snap.opsRead > 0
        /\ snap.bytesWritten > 0 => snap.opsWritten > 0

(* Successive snapshots never go backwards, so the throughput the host     *)
(* derives from their difference is never negative.                        *)
SnapshotsMonotonic ==
    loaded = 4 =>
        /\ last.bytesRead <= snap.bytesRead
        /\ last.bytesWritten <= snap.bytesWritten
        /\ last.opsRead <= snap.opsRead
        /\ last.opsWritten <= snap.opsWritten

-----------------------------------------------------------------------------
(* The inductive strengthening.  What makes an HTTP snapshot's parts agree *)
(* is the order of the adds in RoundTrip (a request before its bytes and   *)
(* its response, a response before its bytes) against the order of the     *)
(* loads (bytes before operations, responses before requests).             *)
InFlight == {r \in Requests : phase[r] \in {"sent", "answered"}}

(* Every answered request was issued, and those in flight are on top.      *)
AnswersWithinRequests == ~socket => opsRead + Cardinality(InFlight) <= opsWritten

BytesAfterOps ==
    ~socket =>
        /\ \A r \in Requests : phase[r] = "body" => opsRead > 0
        /\ \A r \in Requests : phase[r] # "idle" => opsWritten > 0
        /\ bytesRead > 0 => opsRead > 0
        /\ bytesWritten > 0 => opsWritten > 0

(* What the loads done so far say about the counters as they are now.      *)
LoadsInOrder ==
    ~socket =>
        /\ loaded >= 1 /\ snap.bytesRead > 0 => opsRead > 0
        /\ loaded >= 2 /\ snap.bytesWritten > 0 => opsWritten > 0
        /\ loaded >= 3 => /\ snap.bytesRead > 0 => snap.opsRead > 0
                          /\ snap.opsRead <= opsWritten
        /\ loaded = 4 => /\ snap.bytesWritten > 0 => snap.opsWritten > 0
                         /\ snap.opsRead <= snap.opsWritten

LastBehind ==
    /\ last.bytesRead <= bytesRead /\ last.bytesWritten <= bytesWritten
    /\ last.opsRead <= opsRead /\ last.opsWritten <= opsWritten

(* A value loaded lies between the previous snapshot's and the counter.    *)
LoadsGrow ==
    /\ loaded >= 1 => last.bytesRead <= snap.bytesRead /\ snap.bytesRead <= bytesRead
    /\ loaded >= 2 => last.bytesWritten <= snap.bytesWritten /\ snap.bytesWritten <= bytesWritten
    /\ loaded >= 3 => last.opsRead <= snap.opsRead /\ snap.opsRead <= opsRead
    /\ loaded = 4 => last.opsWritten <= snap.opsWritten /\ snap.opsWritten <= opsWritten

(* Only a socket's calls are in a socket's phases.                         *)
PhasesApart ==
    \A r \in Requests : phase[r] \in {"reading", "writing"} => socket

StatsInv ==
    /\ StatsTypeOK /\ PhasesApart /\ AnswersWithinRequests /\ BytesAfterOps
    /\ LoadsInOrder /\ LastBehind /\ LoadsGrow
===============================================================================
