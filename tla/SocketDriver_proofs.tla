-------------------------- MODULE SocketDriver_proofs --------------------------
(***************************************************************************)
(* What withReconnect, Mount and Unmount guarantee, for any number of      *)
(* connections and paths: type correctness whatever the host does, and the *)
(* safety of the connection field for a host with one thread.              *)
(***************************************************************************)
EXTENDS SocketDriver, TLAPS

(* The host has one thread at most.                                        *)
Serial == \A c, d \in Callers : c = d

-----------------------------------------------------------------------------
(* A driver stays what it is.                                              *)
LEMMA FlavourStays ==
    ASSUME [Next]_vars
    PROVE  flavour' = flavour /\ Depth' = Depth /\ Layers' = Layers /\ Requests' = Requests
<1>1. flavour' = flavour
  BY DEF Next, Call, Continue, Gone, vars, driverVars, Mount, MountRooted, MountRefused,
         MountForgets, Unmount, Unmounted, Begin, Attempt, AttemptOnNil, Served, Refused,
         ConnError, OtherError, CloseField, ClearField, PassField, Redial, RedialFails
<1> QED BY <1>1 DEF Depth, Layers, Requests

LEMMA DepthType == ASSUME TypeOK PROVE Depth \in 1..3 /\ 1 \in Layers /\ Depth \in Layers
<1>1. flavour \in {"ftp", "sftp", "smb"}
  BY FlavoursAssumption DEF TypeOK
<1>2. Depth \in 1..3
  BY <1>1 DEF Depth
<1> QED BY <1>2 DEF Layers

(* Settle, which ends every withReconnect, keeps the types and ends or     *)
(* restarts at a first run of op().                                        *)
LEMMA SettleType ==
    ASSUME TypeOK, NEW c \in Callers,
           NEW result \in {"ok", "refused", "connErr"}, Settle(c, result)
    PROVE  /\ pc' \in [Callers -> PCs]
           /\ tries' \in [Callers -> 0..2]
           /\ fallback' \in [Callers -> BOOLEAN]
           /\ answer' \in [Callers -> Answers]
           /\ \A d \in Callers \ {c} :
                 pc'[d] = pc[d] /\ tries'[d] = tries[d] /\ answer'[d] = answer[d]
           /\ \/ pc'[c] = "attempt" /\ answer'[c] = answer[c]
              \/ pc'[c] = "idle" /\ answer'[c] = result
<1>1. CASE req[c].op = "remove" /\ ~fallback[c] /\ result # "ok"
  <2>1. pc' = [pc EXCEPT ![c] = "attempt"] /\ tries' = [tries EXCEPT ![c] = 1]
    BY <1>1 DEF Settle, Goto
  <2>2. fallback' = [fallback EXCEPT ![c] = TRUE] /\ answer' = answer
    BY <1>1 DEF Settle
  <2>3. fallback' \in [Callers -> BOOLEAN]
    BY <2>2, Zenon DEF TypeOK
  <2> QED BY <2>1, <2>2, <2>3 DEF TypeOK, PCs
<1>2. CASE ~(req[c].op = "remove" /\ ~fallback[c] /\ result # "ok")
  BY <1>2 DEF Settle, Goto, TypeOK, PCs, Answers
<1> QED BY <1>1, <1>2

(* The server's namespace keeps its type.                                  *)
LEMMA AppliedType ==
    ASSUME NEW t \in [Paths -> Kinds], NEW r \in Requests, NEW cmd
    PROVE  Applied(cmd, r, t) \in [Paths -> Kinds]
BY DEF Applied, Requests, Kinds

LEMMA ExecutedType ==
    ASSUME TypeOK, NEW c \in Callers, Executed(c)
    PROVE  remote' \in [Paths -> Kinds] /\ acted' \in [Callers -> BOOLEAN]
<1>1. remote' \in [Paths -> Kinds]
  BY AppliedType DEF Executed, TypeOK
<1>2. acted' \in [Callers -> BOOLEAN]
  BY Zenon DEF Executed, TypeOK
<1> QED BY <1>1, <1>2

LEMMA NotExecutedType ==
    ASSUME TypeOK, NEW c \in Callers, NotExecuted(c)
    PROVE  remote' \in [Paths -> Kinds] /\ acted' \in [Callers -> BOOLEAN]
BY DEF NotExecuted, TypeOK, Kinds

LEMMA LostReplyType ==
    ASSUME TypeOK, NEW c \in Callers, LostReply(c)
    PROVE  remote' \in [Paths -> Kinds] /\ acted' \in [Callers -> BOOLEAN]
BY ExecutedType, NotExecutedType DEF LostReply

LEMMA InitType == Init => TypeInv
<1> SUFFICES ASSUME Init PROVE TypeInv
  OBVIOUS
<1>1. fallback \in [Callers -> BOOLEAN] /\ connected \in BOOLEAN
  BY Zenon DEF Init
<1>2. acted \in [Callers -> BOOLEAN]
  BY Zenon DEF Init
<1>3. req \in [Callers -> Requests]
  BY DEF Init
<1>4. 1 \in Layers
  <2>1. flavour \in {"ftp", "sftp", "smb"}
    BY FlavoursAssumption DEF Init
  <2>2. Depth \in 1..3
    BY <2>1 DEF Depth
  <2> QED BY <2>2 DEF Layers
<1>5. /\ flavour \in Flavours
      /\ held \in [Layers -> Handles \cup {NoHandle}] /\ \A i \in Layers : held[i] = NoHandle
      /\ remote \in [Paths -> Kinds]
      /\ pc \in [Callers -> PCs] /\ layer \in [Callers -> Layers]
      /\ via \in [Callers -> Handles \cup {NoHandle}]
      /\ tries \in [Callers -> 0..2] /\ answer \in [Callers -> Answers]
  BY <1>4 DEF Init, PCs, Answers
<1>6. opened = {} /\ stopped = {} /\ closed = {} /\ orphaned = {}
  BY DEF Init
<1>7. \A c \in Callers : pc[c] = "idle" /\ answer[c] = "none" /\ layer[c] = 1
  BY DEF Init
<1> QED
  BY <1>1, <1>2, <1>3, <1>5, <1>6, <1>7
     DEF TypeInv, TypeOK, HeldWasDialled, PendingInCall, OneRetry, FromTheTop, InCall

(* The steps that neither dial nor touch the fields.                       *)
SameFields == UNCHANGED <<held, opened, stopped, closed, orphaned>>

(* What a step has to leave of its caller's place.                         *)
Placed(c) ==
    /\ InCall(c) => answer[c] = "pending"
    /\ answer[c] = "pending" => InCall(c) \/ pc[c] = "gone"
    /\ InCall(c) /\ pc[c] \in {"closing", "clearing", "dialing"} => tries[c] = 1
    /\ pc[c] \notin {"closing", "clearing", "gone"} => layer[c] = 1

LEMMA PlacesStep ==
    ASSUME TypeInv, NEW c \in Callers, Placed(c)',
           \A d \in Callers \ {c} :
              /\ pc'[d] = pc[d] /\ answer'[d] = answer[d]
              /\ tries'[d] = tries[d] /\ layer'[d] = layer[d]
    PROVE  (PendingInCall /\ OneRetry /\ FromTheTop)'
BY DEF TypeInv, Placed, PendingInCall, OneRetry, FromTheTop, InCall

(* withReconnect returns, from wherever it was.                            *)
LEMMA SettlePlaced ==
    ASSUME TypeInv, NEW c \in Callers, NEW result \in {"ok", "refused", "connErr"},
           Settle(c, result), InCall(c), layer[c] = 1, layer' = layer
    PROVE  (PendingInCall /\ OneRetry /\ FromTheTop)'
<1>1. answer[c] = "pending"
  BY DEF TypeInv, PendingInCall
<1>2. TypeOK
  BY DEF TypeInv
<1>3. Placed(c)'
  BY <1>1, <1>2, SettleType DEF Placed, InCall
<1> QED BY <1>2, <1>3, SettleType, PlacesStep

(* From one field to the next.                                             *)
LEMMA NextFieldType ==
    ASSUME TypeInv, NEW c \in Callers, NextField(c),
           pc[c] \in {"closing", "clearing"}, UNCHANGED <<flavour, answer, tries>>
    PROVE  /\ pc' \in [Callers -> PCs] /\ layer' \in [Callers -> Layers]
           /\ (PendingInCall /\ OneRetry /\ FromTheTop)'
<1>0. TypeOK /\ Depth \in 1..3 /\ Layers = 1..Depth
  BY DepthType DEF TypeInv, Layers
<1>1. /\ layer[c] \in Layers
      /\ answer[c] = "pending" <=> InCall(c)
      /\ InCall(c) => tries[c] = 1
  BY DEF TypeInv, TypeOK, PendingInCall, OneRetry, InCall
<1>2. CASE layer[c] < Depth
  <2>1. /\ layer' = [layer EXCEPT ![c] = @ + 1] /\ pc' = [pc EXCEPT ![c] = "closing"]
    BY <1>2 DEF NextField, Goto
  <2>2. layer' \in [Callers -> Layers] /\ pc' \in [Callers -> PCs]
    BY <1>0, <1>1, <1>2, <2>1 DEF TypeOK, PCs
  <2>3. Placed(c)'
    BY <1>0, <1>1, <2>1 DEF Placed, InCall, TypeOK
  <2> QED BY <1>0, <2>1, <2>2, <2>3, PlacesStep DEF TypeOK
<1>3. CASE ~(layer[c] < Depth)
  <2>1. /\ layer' = [layer EXCEPT ![c] = 1]
        /\ pc' = [pc EXCEPT ![c] = IF answer[c] = "pending" THEN "dialing" ELSE "unmounting"]
    BY <1>3 DEF NextField, Goto
  <2>2. layer' \in [Callers -> Layers] /\ pc' \in [Callers -> PCs]
    BY <1>0, <2>1 DEF TypeOK, PCs
  <2>3. Placed(c)'
    BY <1>0, <1>1, <2>1 DEF Placed, InCall, TypeOK
  <2> QED BY <1>0, <2>1, <2>2, <2>3, PlacesStep DEF TypeOK
<1> QED BY <1>2, <1>3

(* A caller that goes to a place outside a call, from another.             *)
LEMMA GotoPlaced ==
    ASSUME TypeInv, NEW c \in Callers, NEW place \in PCs, Goto(c, place),
           UNCHANGED <<answer, tries, layer>>,
           \/ /\ pc[c] \in {"idle", "rooting", "refusing", "unmounting"}
              /\ place \in {"idle", "rooting", "refusing", "unmounting", "closing"}
           \/ /\ pc[c] = "attempt" /\ place = "sent"
           \/ pc[c] = "closing" /\ place = "clearing"
           \/ pc[c] = "sent" /\ place = "closing" /\ tries[c] = 1
    PROVE  pc' \in [Callers -> PCs] /\ (PendingInCall /\ OneRetry /\ FromTheTop)'
<1>1. pc'[c] = place /\ pc' \in [Callers -> PCs] /\ \A d \in Callers \ {c} : pc'[d] = pc[d]
  BY DEF Goto, TypeInv, TypeOK
<1>2. Placed(c)'
  BY <1>1 DEF Placed, InCall, TypeInv, PendingInCall, OneRetry, FromTheTop
<1> QED BY <1>1, <1>2, PlacesStep

(* The process goes.                                                       *)
LEMMA GonePlaced ==
    ASSUME TypeInv, pc' = [d \in Callers |-> "gone"], UNCHANGED <<answer, tries, layer>>
    PROVE  pc' \in [Callers -> PCs] /\ (PendingInCall /\ OneRetry /\ FromTheTop)'
BY DEF PCs, PendingInCall, OneRetry, FromTheTop, InCall

(* A new connection in every field.                                        *)
LEMMA DialledType ==
    ASSUME TypeInv, NEW h \in Handles, Dialled(h), Layers' = Layers
    PROVE  /\ held' \in [Layers -> Handles \cup {NoHandle}] /\ opened' \subseteq Handles
           /\ opened \subseteq opened' /\ HeldWasDialled'
BY DEF Dialled, TypeInv, TypeOK, HeldWasDialled

(* Every action of a caller preserves TypeInv.                             *)
LEMMA TypeStep == TypeInv /\ [Next]_vars => TypeInv'
<1> SUFFICES ASSUME TypeInv, [Next]_vars PROVE TypeInv'
  OBVIOUS
<1> USE DEF driverVars, callVars
<1>0. flavour' = flavour /\ Depth' = Depth /\ Layers' = Layers /\ Requests' = Requests
  BY FlavourStays
<1>00. TypeOK /\ HeldWasDialled
  BY DEF TypeInv
<1>01. ASSUME SameFields PROVE HeldWasDialled'
  BY <1>0, <1>00, <1>01 DEF SameFields, HeldWasDialled
<1>1. ASSUME NEW c \in Callers, NEW h \in Handles, Mount(c, h) PROVE TypeInv'
  <2>1. /\ Dialled(h) /\ UNCHANGED <<stopped, closed, layer, callVars, remote>>
        /\ orphaned' = orphaned \cup ({held[i] : i \in Layers} \ {NoHandle})
        /\ pc[c] = "idle"
    BY <1>1 DEF Mount
  <2>2. connected' \in BOOLEAN
    BY <1>1, <1>00, Zenon DEF Mount, TypeOK
  <2>3. Goto(c, "rooting") \/ Goto(c, "idle")
    BY <1>1, <1>00 DEF Mount, Goto, TypeOK
  <2>4. pc' \in [Callers -> PCs] /\ (PendingInCall /\ OneRetry /\ FromTheTop)'
    BY <2>1, <2>3, GotoPlaced DEF PCs
  <2>5. orphaned' \subseteq opened
    BY <1>00, <2>1 DEF TypeOK, HeldWasDialled
  <2> QED BY <1>0, <1>00, <2>1, <2>2, <2>4, <2>5, DialledType DEF TypeInv, TypeOK
<1>2. ASSUME NEW c \in Callers, MountRooted(c) \/ Unmounted(c) PROVE TypeInv'
  <2>1. /\ UNCHANGED <<held, opened, stopped, closed, orphaned, layer, callVars, remote>>
        /\ pc[c] \in {"rooting", "unmounting"} /\ Goto(c, "idle")
    BY <1>2 DEF MountRooted, Unmounted
  <2>2. connected' \in BOOLEAN
    BY <1>2, Zenon DEF MountRooted, Unmounted
  <2>3. pc' \in [Callers -> PCs] /\ (PendingInCall /\ OneRetry /\ FromTheTop)'
    BY <2>1, GotoPlaced DEF PCs
  <2> QED BY <1>0, <1>00, <1>01, <2>1, <2>2, <2>3 DEF TypeInv, TypeOK, SameFields
<1>3. ASSUME NEW c \in Callers, MountRefused(c) PROVE TypeInv'
  <2>1. /\ UNCHANGED <<connected, held, opened, orphaned, layer, callVars, remote>>
        /\ pc[c] = "rooting" /\ client \in opened \cup {NoHandle}
    BY <1>00, <1>3, DepthType DEF MountRefused, HeldWasDialled, client
  <2>2. CASE client = NoHandle
    <3>1. pc' = [d \in Callers |-> "gone"] /\ UNCHANGED <<stopped, closed>>
      BY <1>3, <2>2 DEF MountRefused
    <3>2. pc' \in [Callers -> PCs] /\ (PendingInCall /\ OneRetry /\ FromTheTop)'
      BY <2>1, <3>1, GonePlaced
    <3> QED BY <1>0, <1>00, <1>01, <2>1, <3>1, <3>2 DEF TypeInv, TypeOK, SameFields
  <2>3. CASE client # NoHandle
    <3>1. /\ stopped' = stopped \cup {client} /\ closed' = closed \cup {client}
          /\ Goto(c, "refusing")
      BY <1>3, <2>3 DEF MountRefused
    <3>2. pc' \in [Callers -> PCs] /\ (PendingInCall /\ OneRetry /\ FromTheTop)'
      BY <2>1, <3>1, GotoPlaced DEF PCs
    <3>3. HeldWasDialled'
      BY <1>0, <1>00, <2>1 DEF HeldWasDialled
    <3> QED BY <1>0, <1>00, <2>1, <2>3, <3>1, <3>2, <3>3 DEF TypeInv, TypeOK
  <2> QED BY <2>2, <2>3
<1>4. ASSUME NEW c \in Callers, MountForgets(c) PROVE TypeInv'
  <2>1. /\ UNCHANGED <<connected, opened, stopped, closed, orphaned, layer, callVars, remote>>
        /\ pc[c] = "refusing" /\ Goto(c, "idle") /\ held' = [held EXCEPT ![1] = NoHandle]
    BY <1>4 DEF MountForgets
  <2>2. pc' \in [Callers -> PCs] /\ (PendingInCall /\ OneRetry /\ FromTheTop)'
    BY <2>1, GotoPlaced DEF PCs
  <2>3. held' \in [Layers -> Handles \cup {NoHandle}] /\ HeldWasDialled'
    BY <1>0, <1>00, <2>1 DEF TypeOK, HeldWasDialled
  <2> QED BY <1>0, <1>00, <2>1, <2>2, <2>3 DEF TypeInv, TypeOK
<1>5. ASSUME NEW c \in Callers, Unmount(c) \/ Attempt(c) PROVE TypeInv'
  <2>1. /\ UNCHANGED <<driverVars, layer, req, tries, fallback, answer, acted, remote>>
        /\ \/ pc[c] = "idle" /\ Goto(c, "closing")
           \/ pc[c] = "attempt" /\ Goto(c, "sent")
    BY <1>5 DEF Unmount, Attempt
  <2>2. pc' \in [Callers -> PCs] /\ (PendingInCall /\ OneRetry /\ FromTheTop)'
    BY <2>1, GotoPlaced DEF PCs
  <2>3. via' \in [Callers -> Handles \cup {NoHandle}]
    <3>1. client \in Handles \cup {NoHandle}
      BY <1>00, DepthType DEF TypeOK, client
    <3> QED BY <1>00, <1>5, <3>1 DEF Unmount, Attempt, TypeOK
  <2> QED BY <1>0, <1>00, <1>01, <2>1, <2>2, <2>3 DEF TypeInv, TypeOK, SameFields
<1>6. ASSUME NEW c \in Callers, NEW r \in Requests, Begin(c, r) PROVE TypeInv'
  <2>1. acted' \in [Callers -> BOOLEAN] /\ fallback' \in [Callers -> BOOLEAN]
    BY <1>00, <1>6, Zenon DEF Begin, TypeOK
  <2>2. req' \in [Callers -> Requests'] /\ tries' \in [Callers -> 0..2]
    BY <1>0, <1>00, <1>6 DEF Begin, TypeOK
  <2>3. /\ pc' \in [Callers -> PCs] /\ answer' \in [Callers -> Answers]
        /\ \/ pc'[c] = "idle" /\ answer'[c] = "notConnected"
           \/ pc'[c] = "attempt" /\ answer'[c] = "pending"
        /\ \A d \in Callers \ {c} :
              pc'[d] = pc[d] /\ answer'[d] = answer[d] /\ tries'[d] = tries[d]
    <3>1. CASE ~connected \/ client = NoHandle
      BY <1>00, <1>6, <3>1 DEF Begin, TypeOK, Answers
    <3>2. CASE ~(~connected \/ client = NoHandle)
      BY <1>00, <1>6, <3>2 DEF Begin, Goto, TypeOK, PCs, Answers
    <3> QED BY <3>1, <3>2
  <2>4. UNCHANGED <<driverVars, layer, via, remote>> /\ pc[c] = "idle"
    BY <1>6 DEF Begin
  <2>5. Placed(c)'
    BY <2>3, <2>4 DEF Placed, InCall, TypeInv, FromTheTop
  <2>6. (PendingInCall /\ OneRetry /\ FromTheTop)'
    BY <2>3, <2>4, <2>5, PlacesStep
  <2> QED BY <1>0, <1>00, <1>01, <2>1, <2>2, <2>3, <2>4, <2>6 DEF TypeInv, TypeOK, SameFields
<1>7. ASSUME NEW c \in Callers, AttemptOnNil(c) PROVE TypeInv'
  <2>1. UNCHANGED <<driverVars, layer, callVars, remote>>
        /\ pc' = [d \in Callers |-> "gone"]
    BY <1>7 DEF AttemptOnNil
  <2> QED BY <1>0, <1>00, <1>01, <2>1, GonePlaced DEF TypeInv, TypeOK, SameFields
<1>8. ASSUME NEW c \in Callers, CloseField(c) PROVE TypeInv'
  <2>1. /\ UNCHANGED <<connected, held, opened, orphaned, layer, callVars, remote>>
        /\ pc[c] = "closing" /\ Goto(c, "clearing")
    BY <1>8 DEF CloseField
  <2>2. pc' \in [Callers -> PCs] /\ (PendingInCall /\ OneRetry /\ FromTheTop)'
    BY <2>1, GotoPlaced DEF PCs
  <2>3. held[layer[c]] \in opened
    BY <1>00, <1>8 DEF CloseField, TypeOK, HeldWasDialled
  <2>4. /\ stopped' = stopped \cup {held[layer[c]]}
        /\ closed' = closed \cup {held[layer[c]]} \/ closed' = closed
    BY <1>8 DEF CloseField
  <2>5. HeldWasDialled'
    BY <1>0, <1>00, <2>1 DEF HeldWasDialled
  <2> QED BY <1>0, <1>00, <2>1, <2>2, <2>3, <2>4, <2>5 DEF TypeInv, TypeOK
<1>9. ASSUME NEW c \in Callers, ClearField(c) PROVE TypeInv'
  <2>1. /\ UNCHANGED <<connected, opened, stopped, closed, orphaned, callVars, remote>>
        /\ held' = [held EXCEPT ![layer[c]] = NoHandle]
    BY <1>9 DEF ClearField
  <2>2. /\ pc' \in [Callers -> PCs] /\ layer' \in [Callers -> Layers]
        /\ (PendingInCall /\ OneRetry /\ FromTheTop)'
    BY <1>0, <1>9, NextFieldType DEF ClearField
  <2>3. held' \in [Layers -> Handles \cup {NoHandle}] /\ HeldWasDialled'
    BY <1>0, <1>00, <2>1 DEF TypeOK, HeldWasDialled
  <2> QED BY <1>0, <1>00, <2>1, <2>2, <2>3 DEF TypeInv, TypeOK
<1>10. ASSUME NEW c \in Callers, NEW result \in {"ok", "refused", "connErr"},
              Settle(c, result), InCall(c), layer[c] = 1,
              UNCHANGED <<driverVars, req, via, layer>>,
              remote' \in [Paths -> Kinds], acted' \in [Callers -> BOOLEAN]
       PROVE  TypeInv'
  <2>1. (PendingInCall /\ OneRetry /\ FromTheTop)'
    BY <1>10, SettlePlaced
  <2> QED BY <1>0, <1>00, <1>01, <1>10, <2>1, SettleType DEF TypeInv, TypeOK, SameFields
<1>11. ASSUME NEW c \in Callers, PassField(c) PROVE TypeInv'
  <2>1. UNCHANGED <<driverVars, req, via, acted, remote>> /\ pc[c] = "closing"
    BY <1>11 DEF PassField
  <2>2. CASE flavour = "ftp" /\ answer[c] = "pending"
    <3>1. Settle(c, "connErr") /\ layer' = layer
      BY <1>11, <2>2 DEF PassField
    <3>2. layer[c] = 1
      BY <1>00, <2>2 DEF TypeOK, Layers, Depth
    <3> QED BY <1>00, <1>10, <2>1, <2>2, <3>1, <3>2 DEF InCall, TypeOK
  <2>3. CASE ~(flavour = "ftp" /\ answer[c] = "pending")
    <3>1. NextField(c) /\ UNCHANGED <<fallback, tries, answer>>
      BY <1>11, <2>3 DEF PassField
    <3>2. /\ pc' \in [Callers -> PCs] /\ layer' \in [Callers -> Layers]
          /\ (PendingInCall /\ OneRetry /\ FromTheTop)'
      BY <1>0, <2>1, <3>1, NextFieldType
    <3> QED BY <1>0, <1>00, <1>01, <2>1, <3>1, <3>2 DEF TypeInv, TypeOK, SameFields
  <2> QED BY <2>2, <2>3
<1>12. ASSUME NEW c \in Callers, Served(c) \/ Refused(c) \/ OtherError(c) \/ RedialFails(c)
       PROVE  TypeInv'
  <2>1. remote' \in [Paths -> Kinds] /\ acted' \in [Callers -> BOOLEAN]
    BY <1>00, <1>12, ExecutedType, NotExecutedType, LostReplyType
       DEF Served, Refused, OtherError, RedialFails, FoundDone, TypeOK
  <2>2. /\ UNCHANGED <<driverVars, layer, req, via>> /\ pc[c] \in {"sent", "dialing"}
        /\ \E result \in {"ok", "refused", "connErr"} : Settle(c, result)
    BY <1>12 DEF Served, Refused, OtherError, RedialFails
  <2>3. InCall(c) /\ layer[c] = 1
    BY <2>2 DEF InCall, TypeInv, FromTheTop
  <2> QED BY <1>10, <2>1, <2>2, <2>3
<1>13. ASSUME NEW c \in Callers, ConnError(c) PROVE TypeInv'
  <2>1. /\ remote' \in [Paths -> Kinds] /\ acted' \in [Callers -> BOOLEAN]
        /\ UNCHANGED <<driverVars, layer, req, via>> /\ pc[c] = "sent"
    BY <1>00, <1>13, LostReplyType DEF ConnError
  <2>2. CASE Reconnectable(c)
    <3>1. Goto(c, "closing") /\ UNCHANGED <<tries, fallback, answer>> /\ tries[c] = 1
      BY <1>13, <2>2 DEF ConnError, Reconnectable
    <3>2. pc' \in [Callers -> PCs] /\ (PendingInCall /\ OneRetry /\ FromTheTop)'
      BY <2>1, <3>1, GotoPlaced DEF PCs
    <3> QED BY <1>0, <1>00, <1>01, <2>1, <3>1, <3>2 DEF TypeInv, TypeOK, SameFields
  <2>3. CASE ~Reconnectable(c)
    <3>1. Settle(c, "connErr")
      BY <1>13, <2>3 DEF ConnError
    <3>2. InCall(c) /\ layer[c] = 1
      BY <2>1 DEF InCall, TypeInv, FromTheTop
    <3> QED BY <1>10, <2>1, <3>1, <3>2
  <2> QED BY <2>2, <2>3
<1>14. ASSUME NEW c \in Callers, NEW h \in Handles, Redial(c, h) PROVE TypeInv'
  <2>1. /\ UNCHANGED <<connected, stopped, closed, orphaned, layer, req, via, fallback,
                       answer, acted, remote>>
        /\ Dialled(h) /\ pc[c] = "dialing" /\ pc' = [pc EXCEPT ![c] = "attempt"]
        /\ tries' = [tries EXCEPT ![c] = @ + 1]
    BY <1>14 DEF Redial, Goto
  <2>2. tries[c] = 1 /\ answer[c] = "pending" /\ layer[c] = 1
    BY <2>1 DEF TypeInv, OneRetry, PendingInCall, FromTheTop, InCall
  <2>3. pc' \in [Callers -> PCs] /\ tries' \in [Callers -> 0..2]
    BY <1>00, <2>1, <2>2 DEF TypeOK, PCs
  <2>4. Placed(c)'
    BY <1>00, <2>1, <2>2 DEF Placed, InCall, TypeOK
  <2>5. (PendingInCall /\ OneRetry /\ FromTheTop)'
    BY <1>00, <2>1, <2>4, PlacesStep DEF TypeOK
  <2> QED BY <1>0, <1>00, <2>1, <2>3, <2>5, DialledType DEF TypeInv, TypeOK
<1>15. CASE UNCHANGED vars
  BY <1>0, <1>15 DEF vars, TypeInv, TypeOK, HeldWasDialled, PendingInCall, OneRetry,
                     FromTheTop, InCall
<1> QED
  BY <1>1, <1>2, <1>3, <1>4, <1>5, <1>6, <1>7, <1>8, <1>9, <1>11, <1>12, <1>13, <1>14, <1>15
     DEF Next, Call, Continue, Gone

(* With any number of threads: every variable keeps its type, a handle is  *)
(* closed only if it was dialled, the field holds only dialled handles,    *)
(* and withReconnect runs an operation at most twice.                      *)
THEOREM TypeCorrect == Spec => []TypeOK
<1>1. TypeInv => TypeOK
  BY DEF TypeInv
<1> QED BY InitType, TypeStep, <1>1, PTL DEF Spec

-----------------------------------------------------------------------------
(* One thread: the connection field.                                       *)

LEMMA InitConnection == Init => ConnectionInv
<1> SUFFICES ASSUME Init PROVE ConnectionInv
  OBVIOUS
<1>1. \A i \in 1..Depth : held[i] = NoHandle
  BY DEF Init, Layers
<1>2. flavour \in {"ftp", "sftp", "smb"}
  BY FlavoursAssumption DEF Init
<1>3. Depth \in 1..3
  BY <1>2 DEF Depth
<1>4. opened = {} /\ ~connected /\ \A c \in Callers : pc[c] = "idle"
  BY DEF Init
<1> QED BY <1>1, <1>3, <1>4
           DEF ConnectionInv, SingleConnection, PanicOnlyInFallback, FieldMatchesPlace,
               FieldsOf, Holds, HoldsNone, InCall

(* Without a connection in the last field, every one is closed.            *)
LEMMA NoneIsOpen ==
    ASSUME TypeInv, ConnectionInv, HoldsNone(1, Depth)
    PROVE  opened \subseteq closed \cup orphaned
<1>1. held[Depth] = NoHandle
  BY DepthType DEF TypeInv, HoldsNone
<1> QED BY <1>1, NoHandleAssumption DEF TypeInv, TypeOK, ConnectionInv, SingleConnection

(* What one caller's step has to show.                                     *)
LEMMA OneCaller ==
    ASSUME Serial, NEW c \in Callers, SingleConnection', FieldsOf(c)',
           (pc[c] = "gone" => req[c].op = "remove" /\ fallback[c])',
           (connected \/ HoldsNone(1, Depth) \/ pc[c] \in {"rooting", "refusing"})'
    PROVE  ConnectionInv'
BY DEF Serial, ConnectionInv, PanicOnlyInFallback, FieldMatchesPlace

(* Settle restarts at "attempt" only for Remove's fallback, and otherwise  *)
(* leaves the caller idle.                                                 *)
LEMMA SettleConnection ==
    ASSUME Serial, TypeInv, ConnectionInv, NEW c \in Callers,
           NEW result \in {"ok", "refused", "connErr"}, Settle(c, result),
           InCall(c), Holds(1, Depth), UNCHANGED <<driverVars, req>>
    PROVE  ConnectionInv'
<1>1. connected /\ UNCHANGED <<connected, held, opened, closed, orphaned, req, Depth>>
  BY DEF ConnectionInv, FieldMatchesPlace, FieldsOf, driverVars, Depth
<1>2. \/ pc'[c] = "attempt" /\ fallback'[c] /\ req[c].op = "remove"
      \/ pc'[c] = "idle"
  <2>1. CASE req[c].op = "remove" /\ ~fallback[c] /\ result # "ok"
    BY <2>1 DEF Settle, Goto, TypeInv, TypeOK
  <2>2. CASE ~(req[c].op = "remove" /\ ~fallback[c] /\ result # "ok")
    BY <2>2 DEF Settle, Goto, TypeInv, TypeOK
  <2> QED BY <2>1, <2>2
<1>3. SingleConnection'
  BY <1>1 DEF ConnectionInv, SingleConnection
<1>4. FieldsOf(c)'
  BY <1>1, <1>2 DEF FieldsOf, Holds, InCall, client
<1> QED BY <1>1, <1>2, <1>3, <1>4, OneCaller

(* A step between two places that leaves the fields alone.                 *)
LEMMA GotoConnection ==
    ASSUME Serial, TypeInv, ConnectionInv, NEW c \in Callers, NEW place, Goto(c, place),
           UNCHANGED <<held, opened, closed, orphaned, req, fallback, Depth>>,
           FieldsOf(c)', place # "gone",
           (connected \/ HoldsNone(1, Depth) \/ pc[c] \in {"rooting", "refusing"})'
    PROVE  ConnectionInv'
<1>1. pc'[c] = place
  BY DEF Goto, TypeInv, TypeOK
<1>2. SingleConnection'
  BY DEF ConnectionInv, SingleConnection
<1> QED BY <1>1, <1>2, OneCaller

(* From one field, which is nil by now, to the next.                       *)
LEMMA NextFieldConnection ==
    ASSUME Serial, TypeInv, ConnectionInv, NEW c \in Callers, NextField(c),
           pc[c] \in {"closing", "clearing"}, SingleConnection',
           UNCHANGED <<flavour, connected, closed, answer>>,
           held' = [held EXCEPT ![layer[c]] = NoHandle],
           connected \/ HoldsNone(1, Depth)
    PROVE  ConnectionInv'
<1>0. Depth' = Depth /\ Depth \in 1..3 /\ layer[c] \in 1..Depth
  BY DepthType DEF TypeInv, TypeOK, Layers, Depth
<1>1. /\ HoldsNone(1, layer[c] - 1) /\ Holds(layer[c], Depth)
      /\ InCall(c) => connected
      /\ answer[c] = "pending" => connected
  BY DEF ConnectionInv, FieldMatchesPlace, FieldsOf, InCall
<1>2. /\ \A k \in 1..Depth : held'[k] = IF k = layer[c] THEN NoHandle ELSE held[k]
      /\ \A k \in 1..layer[c] : held'[k] = NoHandle
  BY <1>0, <1>1 DEF TypeInv, TypeOK, Layers, HoldsNone
<1>3. HoldsNone(1, Depth) => HoldsNone(1, Depth)'
  BY <1>0, <1>2 DEF HoldsNone
<1>4. CASE layer[c] < Depth
  <2>1. layer'[c] = layer[c] + 1 /\ pc'[c] = "closing"
    BY <1>4 DEF NextField, Goto, TypeInv, TypeOK
  <2>2. HoldsNone(1, layer[c] - 1)' /\ Holds(layer[c], Depth)'
    BY <1>0, <1>1, <1>2, <1>4, <2>1 DEF HoldsNone, Holds
  <2>3. FieldsOf(c)'
    BY <1>1, <2>1, <2>2 DEF FieldsOf, InCall
  <2> QED BY <1>3, <2>1, <2>3, OneCaller
<1>5. CASE ~(layer[c] < Depth)
  <2>1. pc'[c] = IF answer[c] = "pending" THEN "dialing" ELSE "unmounting"
    BY <1>5 DEF NextField, Goto, TypeInv, TypeOK
  <2>2. HoldsNone(1, Depth)' /\ Holds(1, Depth)'
    BY <1>0, <1>2, <1>5 DEF HoldsNone, Holds
  <2>3. FieldsOf(c)'
    BY <1>1, <2>1, <2>2 DEF FieldsOf, InCall
  <2> QED BY <2>1, <2>2, <2>3, OneCaller
<1> QED BY <1>4, <1>5

LEMMA ConnectionStep ==
    ASSUME Serial
    PROVE  TypeInv /\ ConnectionInv /\ [Next]_vars => ConnectionInv'
<1> SUFFICES ASSUME TypeInv, ConnectionInv, [Next]_vars PROVE ConnectionInv'
  OBVIOUS
<1> USE DEF driverVars, callVars
<1>0. flavour' = flavour /\ Depth' = Depth /\ Layers' = Layers /\ Layers = 1..Depth
  BY FlavourStays DEF Layers
<1>00. TypeOK /\ Depth \in 1..3 /\ SingleConnection
  BY DepthType DEF TypeInv, ConnectionInv
<1>01. ASSUME NEW c \in Callers
       PROVE  /\ FieldsOf(c)
              /\ pc[c] = "gone" => req[c].op = "remove" /\ fallback[c]
              /\ connected \/ HoldsNone(1, Depth) \/ pc[c] \in {"rooting", "refusing"}
  BY <1>01 DEF Serial, ConnectionInv, FieldMatchesPlace, PanicOnlyInFallback
<1>02. UNCHANGED held => (HoldsNone(1, Depth) => HoldsNone(1, Depth)')
                         /\ (Holds(1, Depth) => Holds(1, Depth)')
  BY <1>0 DEF HoldsNone, Holds
<1>1. ASSUME NEW c \in Callers, NEW h \in Handles, Mount(c, h) PROVE ConnectionInv'
  <2>1. /\ held' = [i \in Layers |-> h] /\ opened' = opened \cup {h}
        /\ orphaned' = orphaned \cup ({held[i] : i \in Layers} \ {NoHandle})
        /\ UNCHANGED <<closed, answer, req, fallback>> /\ pc[c] = "idle"
    BY <1>1 DEF Mount, Dialled
  <2>2. \A k \in 1..Depth : held'[k] = h
    BY <1>0, <2>1
  <2>3. SingleConnection'
    BY <1>0, <1>00, <2>1, <2>2, NoHandleAssumption DEF SingleConnection, TypeOK
  <2>4. \/ pc'[c] = "rooting" /\ flavour = "ftp"
        \/ pc'[c] = "idle" /\ connected'
    BY <1>00, <1>1 DEF Mount, Goto, TypeOK
  <2>5. answer[c] # "pending"
    BY <2>1 DEF TypeInv, PendingInCall, InCall
  <2>6. pc'[c] = "rooting" => Depth' = 1
    BY <1>0, <2>4 DEF Depth
  <2>7. Holds(1, Depth)' /\ client' # NoHandle
    BY <1>0, <1>00, <2>2, NoHandleAssumption DEF Holds, client
  <2>8. FieldsOf(c)'
    BY <2>1, <2>4, <2>5, <2>6, <2>7 DEF FieldsOf, InCall
  <2> QED BY <2>3, <2>4, <2>8, OneCaller
<1>2. ASSUME NEW c \in Callers, MountRooted(c) \/ Unmounted(c) PROVE ConnectionInv'
  <2>1. /\ Goto(c, "idle")
        /\ UNCHANGED <<held, opened, closed, orphaned, req, fallback>>
        /\ \/ pc[c] = "rooting" /\ connected'
           \/ pc[c] = "unmounting"
    BY <1>2 DEF MountRooted, Unmounted
  <2>2. pc'[c] = "idle"
    BY <1>00, <2>1 DEF Goto, TypeOK
  <2>3. Holds(1, Depth)' /\ (pc[c] = "unmounting" => HoldsNone(1, Depth)')
    BY <1>01, <1>02, <2>1 DEF FieldsOf
  <2>4. FieldsOf(c)'
    BY <2>2, <2>3 DEF FieldsOf, InCall
  <2> QED BY <1>0, <2>1, <2>3, <2>4, GotoConnection
<1>3. ASSUME NEW c \in Callers, MountRefused(c) PROVE ConnectionInv'
  <2>1. client # NoHandle /\ pc[c] = "rooting" /\ Depth = 1 /\ Holds(1, Depth)
    BY <1>01, <1>3 DEF MountRefused, FieldsOf
  <2>2. /\ closed' = closed \cup {client} /\ pc'[c] = "refusing"
        /\ UNCHANGED <<connected, held, opened, orphaned, req, fallback, answer>>
    BY <1>00, <1>3, <2>1 DEF MountRefused, Goto, TypeOK
  <2>3. SingleConnection'
    BY <1>0, <1>00, <2>2 DEF SingleConnection
  <2>4. FieldsOf(c)'
    BY <1>0, <1>02, <2>1, <2>2 DEF FieldsOf, InCall, client
  <2> QED BY <2>2, <2>3, <2>4, OneCaller
<1>4. ASSUME NEW c \in Callers, MountForgets(c) PROVE ConnectionInv'
  <2>1. /\ client \in closed /\ pc[c] = "refusing" /\ Depth = 1
        /\ held' = [held EXCEPT ![1] = NoHandle] /\ pc'[c] = "idle"
        /\ UNCHANGED <<connected, opened, closed, orphaned, req, fallback, answer>>
    BY <1>00, <1>01, <1>4 DEF MountForgets, FieldsOf, Goto, TypeOK
  <2>2. held'[1] = NoHandle
    BY <1>0, <1>00, <2>1 DEF TypeOK
  <2>3. SingleConnection' /\ HoldsNone(1, Depth)' /\ Holds(1, Depth)'
    BY <1>0, <1>00, <2>1, <2>2 DEF SingleConnection, HoldsNone, Holds, client
  <2>4. FieldsOf(c)'
    BY <2>1, <2>3 DEF FieldsOf, InCall
  <2> QED BY <2>1, <2>3, <2>4, OneCaller
<1>5. ASSUME NEW c \in Callers, Unmount(c) PROVE ConnectionInv'
  <2>1. /\ Goto(c, "closing") /\ pc[c] = "idle"
        /\ UNCHANGED <<driverVars, layer, req, fallback, answer>>
    BY <1>5 DEF Unmount
  <2>2. pc'[c] = "closing" /\ layer[c] = 1 /\ answer[c] # "pending"
    BY <1>00, <2>1 DEF Goto, TypeOK, TypeInv, PendingInCall, FromTheTop, InCall
  <2>3. Holds(1, Depth)' /\ (connected \/ HoldsNone(1, Depth))'
    BY <1>01, <1>02, <2>1 DEF FieldsOf
  <2>4. FieldsOf(c)'
    BY <1>0, <1>00, <2>1, <2>2, <2>3 DEF FieldsOf, InCall, HoldsNone
  <2> QED BY <1>0, <2>1, <2>3, <2>4, GotoConnection
<1>6. ASSUME NEW c \in Callers, NEW r \in Requests, Begin(c, r) PROVE ConnectionInv'
  <2>1. /\ UNCHANGED driverVars /\ pc[c] = "idle"
        /\ \/ pc'[c] = "idle" /\ answer'[c] = "notConnected"
           \/ pc'[c] = "attempt" /\ connected /\ client # NoHandle
    BY <1>00, <1>6 DEF Begin, Goto, TypeOK
  <2>2. SingleConnection' /\ Holds(1, Depth)' /\ (connected \/ HoldsNone(1, Depth))'
    BY <1>0, <1>00, <1>01, <1>02, <2>1 DEF SingleConnection, FieldsOf
  <2>3. FieldsOf(c)'
    BY <2>1, <2>2 DEF FieldsOf, InCall, client
  <2> QED BY <2>1, <2>2, <2>3, OneCaller
<1>7. ASSUME NEW c \in Callers, Attempt(c) PROVE ConnectionInv'
  <2>1. /\ Goto(c, "sent") /\ pc[c] = "attempt" /\ UNCHANGED <<driverVars, req, fallback>>
    BY <1>7 DEF Attempt
  <2>2. pc'[c] = "sent" /\ connected /\ Holds(1, Depth)'
    BY <1>00, <1>01, <1>02, <2>1 DEF Goto, TypeOK, FieldsOf, InCall
  <2>3. FieldsOf(c)'
    BY <2>1, <2>2 DEF FieldsOf, InCall
  <2> QED BY <1>0, <2>1, <2>2, <2>3, GotoConnection
<1>8. ASSUME NEW c \in Callers, AttemptOnNil(c) PROVE ConnectionInv'
  <2>1. /\ pc[c] = "attempt" /\ client = NoHandle /\ pc'[c] = "gone"
        /\ UNCHANGED <<driverVars, req, fallback, answer>>
    BY <1>8 DEF AttemptOnNil
  <2>2. connected /\ Holds(1, Depth)' /\ req[c].op = "remove" /\ fallback[c]
    BY <1>01, <1>02, <2>1 DEF FieldsOf, InCall
  <2>3. FieldsOf(c)' /\ SingleConnection'
    BY <1>0, <1>00, <2>1, <2>2 DEF FieldsOf, InCall, SingleConnection
  <2> QED BY <2>1, <2>2, <2>3, OneCaller
<1>9. ASSUME NEW c \in Callers, CloseField(c) PROVE ConnectionInv'
  <2>1. /\ pc[c] = "closing" /\ pc'[c] = "clearing"
        /\ closed' = IF layer[c] = Depth THEN closed \cup {held[layer[c]]} ELSE closed
        /\ UNCHANGED <<connected, held, opened, orphaned, layer, answer, req, fallback>>
    BY <1>00, <1>9 DEF CloseField, Goto, TypeOK
  <2>2. SingleConnection'
    BY <1>0, <1>00, <2>1 DEF SingleConnection
  <2>3. HoldsNone(1, layer[c] - 1)' /\ Holds(layer[c], Depth)'
    BY <1>0, <1>01, <2>1 DEF FieldsOf, HoldsNone, Holds
  <2>4. layer'[c] = Depth' => held'[Depth'] \in closed'
    BY <1>0, <2>1
  <2>5. FieldsOf(c)'
    BY <1>0, <1>01, <2>1, <2>3, <2>4 DEF FieldsOf, InCall
  <2> QED BY <1>01, <1>02, <2>1, <2>2, <2>5, OneCaller
<1>10. ASSUME NEW c \in Callers, ClearField(c) PROVE ConnectionInv'
  <2>1. /\ pc[c] = "clearing" /\ NextField(c) /\ held' = [held EXCEPT ![layer[c]] = NoHandle]
        /\ UNCHANGED <<flavour, connected, opened, closed, orphaned, answer>>
    BY <1>10 DEF ClearField
  <2>2. /\ layer[c] \in 1..Depth /\ (layer[c] = Depth => held[Depth] \in closed)
        /\ connected \/ HoldsNone(1, Depth)
    BY <1>0, <1>00, <1>01, <2>1 DEF TypeOK, FieldsOf
  <2>3. held'[Depth] = IF layer[c] = Depth THEN NoHandle ELSE held[Depth]
    BY <1>0, <1>00, <2>1, <2>2 DEF TypeOK
  <2>4. SingleConnection'
    BY <1>0, <1>00, <2>1, <2>2, <2>3 DEF SingleConnection
  <2> QED BY <2>1, <2>2, <2>4, NextFieldConnection
<1>11. ASSUME NEW c \in Callers, PassField(c) PROVE ConnectionInv'
  <2>1. /\ pc[c] = "closing" /\ held[layer[c]] = NoHandle
        /\ UNCHANGED <<driverVars, req>>
    BY <1>11 DEF PassField
  <2>2. CASE flavour = "ftp" /\ answer[c] = "pending"
    <3>1. Settle(c, "connErr") /\ InCall(c)
      BY <1>11, <2>1, <2>2 DEF PassField, InCall
    <3>2. Depth = 1 /\ layer[c] \in 1..Depth
      BY <1>0, <1>00, <2>2 DEF Depth, TypeOK
    <3>3. Holds(1, Depth)
      BY <1>01, <2>1, <3>2 DEF FieldsOf
    <3> QED BY <2>1, <3>1, <3>3, SettleConnection
  <2>3. CASE ~(flavour = "ftp" /\ answer[c] = "pending")
    <3>1. NextField(c) /\ UNCHANGED answer
      BY <1>11, <2>3 DEF PassField
    <3>2. held' = [held EXCEPT ![layer[c]] = NoHandle]
      BY <1>00, <2>1 DEF TypeOK
    <3>3. SingleConnection' /\ (connected \/ HoldsNone(1, Depth))
      BY <1>0, <1>00, <1>01, <2>1 DEF SingleConnection
    <3> QED BY <2>1, <3>1, <3>2, <3>3, NextFieldConnection
  <2> QED BY <2>2, <2>3
<1>12. ASSUME NEW c \in Callers, Served(c) \/ Refused(c) \/ OtherError(c) \/ RedialFails(c)
       PROVE  ConnectionInv'
  <2>1. /\ UNCHANGED <<driverVars, req>> /\ pc[c] \in {"sent", "dialing"}
        /\ \E result \in {"ok", "refused", "connErr"} : Settle(c, result)
    BY <1>12 DEF Served, Refused, OtherError, RedialFails
  <2>2. InCall(c) /\ Holds(1, Depth)
    BY <1>01, <2>1 DEF InCall, FieldsOf
  <2> QED BY <2>1, <2>2, SettleConnection
<1>13. ASSUME NEW c \in Callers, ConnError(c) PROVE ConnectionInv'
  <2>1. UNCHANGED <<driverVars, req, layer>> /\ pc[c] = "sent"
    BY <1>13 DEF ConnError
  <2>2. InCall(c) /\ Holds(1, Depth) /\ connected /\ layer[c] = 1
    BY <1>01, <2>1 DEF InCall, FieldsOf, TypeInv, FromTheTop
  <2>3. CASE Reconnectable(c)
    <3>1. Goto(c, "closing") /\ UNCHANGED <<fallback, answer>>
      BY <1>13, <2>3 DEF ConnError
    <3>2. pc'[c] = "closing"
      BY <1>00, <3>1 DEF Goto, TypeOK
    <3>3. FieldsOf(c)'
      BY <1>0, <1>00, <1>02, <2>1, <2>2, <3>2 DEF FieldsOf, InCall, HoldsNone
    <3> QED BY <1>0, <2>1, <2>2, <3>1, <3>3, GotoConnection
  <2>4. CASE ~Reconnectable(c)
    BY <1>13, <2>1, <2>2, <2>4, SettleConnection DEF ConnError
  <2> QED BY <2>3, <2>4
<1>14. ASSUME NEW c \in Callers, NEW h \in Handles, Redial(c, h) PROVE ConnectionInv'
  <2>1. /\ held' = [i \in Layers |-> h] /\ opened' = opened \cup {h}
        /\ UNCHANGED <<connected, closed, orphaned, req, fallback>>
        /\ pc[c] = "dialing" /\ pc'[c] = "attempt"
    BY <1>00, <1>14 DEF Redial, Dialled, Goto, TypeOK
  <2>2. HoldsNone(1, Depth) /\ connected
    BY <1>01, <2>1 DEF FieldsOf, InCall
  <2>3. \A k \in 1..Depth : held'[k] = h
    BY <1>0, <2>1
  <2>4. SingleConnection'
    BY <1>0, <1>00, <2>1, <2>2, <2>3, NoneIsOpen DEF SingleConnection
  <2>5. FieldsOf(c)'
    BY <1>0, <1>00, <2>1, <2>2, <2>3, NoHandleAssumption DEF FieldsOf, Holds, InCall, client
  <2> QED BY <2>1, <2>2, <2>4, <2>5, OneCaller
<1>15. CASE UNCHANGED vars
  <2>1. UNCHANGED <<connected, held, opened, closed, orphaned, pc, layer, req, fallback, answer>>
    BY <1>15 DEF vars
  <2>2. PanicOnlyInFallback' /\ SingleConnection'
    BY <1>0, <2>1 DEF ConnectionInv, PanicOnlyInFallback, SingleConnection
  <2>3. FieldMatchesPlace'
    BY <1>0, <2>1 DEF ConnectionInv, FieldMatchesPlace, FieldsOf, Holds, HoldsNone, InCall, client
  <2> QED BY <2>2, <2>3 DEF ConnectionInv
<1> QED
  BY <1>1, <1>2, <1>3, <1>4, <1>5, <1>6, <1>7, <1>8, <1>9, <1>10, <1>11, <1>12, <1>13,
     <1>14, <1>15
     DEF Next, Call, Continue, Gone

LEMMA ConnectionAlways == ASSUME Serial PROVE Spec => [](TypeInv /\ ConnectionInv)
BY InitType, TypeStep, InitConnection, ConnectionStep, PTL DEF Spec

(* One thread: at most one connection of a mount is open, whatever fails.  *)
THEOREM OneConnection == ASSUME Serial PROVE Spec => []SingleConnection
<1>1. ConnectionInv => SingleConnection
  BY DEF ConnectionInv
<1> QED BY ConnectionAlways, <1>1, PTL

(* One thread: an unmounted driver at rest has closed all it dialled, but  *)
(* for what a second Mount replaced.                                       *)
THEOREM UnmountLeavesNothing == ASSUME Serial PROVE Spec => []UnmountCloses
<1>1. ASSUME TypeInv, ConnectionInv, ~connected, \A c \in Callers : pc[c] = "idle"
      PROVE  opened \subseteq closed \cup orphaned
  <2>1. HoldsNone(1, Depth)
    BY <1>1 DEF ConnectionInv, FieldMatchesPlace
  <2> QED BY <1>1, <2>1, NoneIsOpen
<1>2. TypeInv /\ ConnectionInv => UnmountCloses
  BY <1>1 DEF UnmountCloses
<1> QED BY ConnectionAlways, <1>2, PTL

(* One thread: only Remove's second withReconnect can find a nil client.   *)
THEOREM PanicsAreTheFallbacks == ASSUME Serial PROVE Spec => []PanicOnlyInFallback
<1>1. ConnectionInv => PanicOnlyInFallback
  BY DEF ConnectionInv
<1> QED BY ConnectionAlways, <1>1, PTL

-----------------------------------------------------------------------------
(* One thread: what its calls do to the server.                            *)

(* A command of a request is a way to carry the request out.               *)
LEMMA CommandIsAllowed ==
    ASSUME TypeOK, NEW c \in Callers, Possible(Command(c), req[c], remote)
    PROVE  /\ FS!Allowed(req[c], remote)
           /\ Applied(Command(c), req[c], remote) = FS!Effect(req[c], remote)
<1> DEFINE r == req[c]
<1>0. r \in Requests /\ remote \in [Paths -> Kinds]
  BY DEF TypeOK
<1>1. CASE r.op = "remove"
  <2>1. /\ Command(c) \in {"delete", "rmdir", "removeAll"}
        /\ Command(c) = "removeAll" => flavour = "smb"
    BY <1>1 DEF Command
  <2>2. r.path \in Paths /\ remote[r.path] \in {"none", "file", "empty", "full"}
    BY <1>0 DEF Requests, Kinds
  <2> QED BY <1>1, <2>1, <2>2 DEF Possible, Applied, FS!Allowed, FS!Effect
<1>2. CASE r.op = "read"
  BY <1>2 DEF Command, Possible, Applied, FS!Allowed, FS!Effect
<1>3. CASE r.op = "create"
  BY <1>3 DEF Command, Possible, Applied, FS!Allowed, FS!Effect
<1>4. CASE r.op = "mkdir"
  BY <1>4 DEF Command, Possible, Applied, FS!Allowed, FS!Effect
<1>5. CASE r.op = "rename"
  BY <1>5 DEF Command, Possible, Applied, FS!Allowed, FS!Effect
<1> QED BY <1>0, <1>1, <1>2, <1>3, <1>4, <1>5 DEF Requests

(* Carrying a request out leaves it done.                                  *)
LEMMA ExecutedDone ==
    ASSUME TypeOK, NEW c \in Callers, Executed(c), req' = req
    PROVE  Done(req[c])'
<1> DEFINE r == req[c]
<1>0. /\ r \in Requests /\ remote \in [Paths -> Kinds]
      /\ remote' = FS!Effect(r, remote)
  BY CommandIsAllowed DEF TypeOK, Executed
<1>1. r.path \in Paths /\ r.to \in Paths /\ (r.op = "rename" => r.path # r.to)
  BY <1>0 DEF Requests
<1>2. r.op \in {"read", "create", "mkdir", "remove", "rename"}
  BY <1>0 DEF Requests
<1> QED BY <1>0, <1>1, <1>2 DEF Done, FS!Effect

(* A request that is done, and is no removal, is not done a second time.   *)
LEMMA DoneOnce ==
    ASSUME TypeOK, NEW c \in Callers, Done(req[c]), Executed(c),
           req[c].op # "remove"
    PROVE  remote' = remote
<1> DEFINE r == req[c]
<1>0. /\ r \in Requests /\ remote \in [Paths -> Kinds]
      /\ remote' = FS!Effect(r, remote)
      /\ Possible(Command(c), r, remote)
  BY CommandIsAllowed DEF TypeOK, Executed
<1>1. CASE r.op = "read"
  BY <1>0, <1>1 DEF FS!Effect
<1>2. CASE r.op = "create"
  BY <1>0, <1>2 DEF Done, FS!Effect
<1>3. CASE r.op = "mkdir"
  BY <1>0, <1>3 DEF Command, Possible, Done
<1>4. CASE r.op = "rename"
  BY <1>0, <1>4 DEF Command, Possible, Done
<1> QED BY <1>0, <1>1, <1>2, <1>3, <1>4 DEF Requests

(* RemoveAll of nothing is what smb forgives.                              *)
LEMMA FoundIsForgiven ==
    ASSUME TypeOK, NEW c \in Callers, FoundDone(c)
    PROVE  /\ UNCHANGED <<remote, acted>> /\ req[c].op \in Forgiving
           /\ FS!Already(req[c], remote)
<1>1. req[c].op = "remove" /\ flavour = "smb" /\ remote[req[c].path] = "none"
  BY DEF FoundDone, Command, TypeOK, Requests
<1> QED BY <1>1 DEF FoundDone, Forgiving, FS!Already

(* What a call does to the server and to its answer, between two of its    *)
(* steps, is a step of the abstract file system or none.                   *)
LEMMA CallImplements ==
    ASSUME TypeInv, RemoteInv, NEW c \in Callers, InCall(c),
           UNCHANGED <<flavour, req>>, Executed(c) \/ FoundDone(c) \/ NotExecuted(c),
           \/ answer' = answer
           \/ \E x \in {"ok", "refused", "connErr"} :
                 /\ x = "ok" => Executed(c) \/ FoundDone(c)
                 /\ answer' = [answer EXCEPT ![c] = x]
    PROVE  FS!Next \/ UNCHANGED FS!vars
<1> DEFINE Success == Executed(c) \/ FoundDone(c)
<1>0. TypeOK /\ Forgiving' = Forgiving /\ UNCHANGED (flavour = "smb")
  BY DEF TypeInv, Forgiving
<1>1. /\ answer[c] = "pending" /\ told[c] = "pending"
      /\ acted[c] => Done(req[c])
  BY DEF TypeInv, PendingInCall, RemoteInv, told, Told
<1>2. \/ told' = told
      \/ \E a \in {"ok", "failed"} :
            (a = "ok" => Success) /\ told' = [told EXCEPT ![c] = a]
  <2>1. ASSUME NEW x \in {"ok", "refused", "connErr"},
               answer' = [answer EXCEPT ![c] = x]
        PROVE  told' = [told EXCEPT ![c] = Told(x)]
    BY <1>0, <2>1 DEF told, Told, TypeOK
  <2> QED BY <2>1 DEF told, Told
<1>3. \E a \in {"pending", "ok", "failed"} :
          (a = "ok" => Success) /\ told' = [told EXCEPT ![c] = a]
  <2>1. told = [told EXCEPT ![c] = "pending"]
    BY <1>1 DEF told
  <2> QED BY <1>2, <2>1
<1>4. CASE Executed(c) /\ (acted[c] => req[c].op = "remove")
  <2>1. FS!Act(c)
    BY <1>0, <1>1, <1>3, <1>4, CommandIsAllowed DEF FS!Act, Executed
  <2> QED BY <2>1 DEF FS!Next
<1>5. CASE Executed(c) /\ acted[c] /\ req[c].op # "remove"
  <2>1. remote' = remote
    BY <1>0, <1>1, <1>5, DoneOnce
  <2>2. acted' = acted
    BY <1>0, <1>5, Zenon DEF Executed, TypeOK
  <2>3. (\E a \in {"ok", "failed"} : told' = [told EXCEPT ![c] = a]) => FS!Return(c)
    BY <1>0, <1>1, <1>5, <2>1, <2>2 DEF FS!Return
  <2> QED BY <1>0, <1>2, <2>1, <2>2, <2>3 DEF FS!Next, FS!vars
<1>6. CASE NotExecuted(c) /\ ~Success /\ remote' = remote
  <2>1. told' = [told EXCEPT ![c] = "failed"] => FS!Return(c)
    BY <1>0, <1>1, <1>6 DEF FS!Return, NotExecuted
  <2>2. told' = told \/ told' = [told EXCEPT ![c] = "failed"]
    BY <1>2, <1>6
  <2> QED BY <1>0, <1>6, <2>1, <2>2 DEF FS!Next, FS!vars, NotExecuted
<1>7. CASE NotExecuted(c) /\ ~Success /\ remote' # remote
  <2>1. \E a \in {"pending", "failed"} : told' = [told EXCEPT ![c] = a]
    BY <1>3, <1>7
  <2>2. Command(c) = "removeAll" => flavour = "smb" /\ req[c].op = "remove"
    BY <1>0 DEF Command, TypeOK, Requests
  <2>3. FS!Empty(c)
    BY <1>0, <1>1, <1>7, <2>1, <2>2 DEF FS!Empty, NotExecuted
  <2> QED BY <2>3 DEF FS!Next
<1>8. CASE FoundDone(c) /\ ~Executed(c)
  <2>1. UNCHANGED <<remote, acted>> /\ req[c].op \in Forgiving /\ FS!Already(req[c], remote)
    BY <1>0, <1>8, FoundIsForgiven
  <2>2. told' = [told EXCEPT ![c] = "ok"] => FS!Find(c)
    BY <1>0, <1>1, <2>1 DEF FS!Find
  <2>3. told' = [told EXCEPT ![c] = "failed"] => FS!Return(c)
    BY <1>0, <1>1, <2>1 DEF FS!Return
  <2> QED BY <1>0, <1>2, <2>1, <2>2, <2>3 DEF FS!Next, FS!vars
<1> QED BY <1>4, <1>5, <1>6, <1>7, <1>8

-----------------------------------------------------------------------------
(* Settle answers a call or leaves its answer open.                        *)
LEMMA SettleAnswers ==
    ASSUME NEW c \in Callers, NEW result, Settle(c, result)
    PROVE  answer' = answer \/ answer' = [answer EXCEPT ![c] = result]
BY DEF Settle

(* What a step of a call leaves true of the call.                          *)
LEMMA RemoteCall ==
    ASSUME Serial, TypeInv, RemoteInv, NEW c \in Callers, InCall(c),
           UNCHANGED req, Executed(c) \/ FoundDone(c) \/ NotExecuted(c)
    PROVE  RemoteInv'
<1> USE DEF TypeInv
<1>1. answer[c] = "pending" /\ (acted[c] => Done(req[c]))
  BY DEF PendingInCall, RemoteInv
<1>2. acted'[c] => Done(req[c])'
  <2>1. CASE Executed(c)
    BY <2>1, ExecutedDone
  <2>2. CASE NotExecuted(c) \/ FoundDone(c)
    <3>0. acted' = acted
      BY <2>2 DEF NotExecuted, FoundDone
    <3>1. CASE remote' = remote
      BY <1>1, <3>0, <3>1 DEF Done
    <3>2. CASE remote' # remote
      <4>1. req[c].op = "remove" /\ remote[req[c].path] = "full"
        BY <2>2, <3>2 DEF NotExecuted, FoundDone, Command, TypeOK, Requests
      <4>2. ~acted[c]
        BY <1>1, <4>1 DEF Done
      <4> QED BY <3>0, <4>2
    <3> QED BY <3>1, <3>2
  <2> QED BY <2>1, <2>2
<1> QED BY <1>2 DEF RemoteInv, Serial

LEMMA InitRemote == Init => RemoteInv
BY DEF Init, RemoteInv

(* Every step keeps RemoteInv and is a step of FileSystem, or no step.     *)
LEMMA RemoteStep ==
    ASSUME Serial
    PROVE  TypeInv /\ RemoteInv /\ [Next]_vars
               => RemoteInv' /\ (FS!Next \/ UNCHANGED FS!vars)
<1> SUFFICES ASSUME TypeInv, RemoteInv, [Next]_vars
             PROVE  RemoteInv' /\ (FS!Next \/ UNCHANGED FS!vars)
  OBVIOUS
<1> DEFINE Goal == RemoteInv' /\ (FS!Next \/ UNCHANGED FS!vars)
<1> USE DEF driverVars, callVars
<1>0. ASSUME UNCHANGED <<flavour, answer, req, acted, remote>> PROVE Goal
  <2>1. RemoteInv'
    BY <1>0 DEF RemoteInv, Done
  <2>2. UNCHANGED FS!vars
    BY <1>0 DEF FS!vars, told, Forgiving
  <2> QED BY <2>1, <2>2
<1>1. ASSUME NEW c \in Callers,
             \/ \E h \in Handles : Mount(c, h) \/ Redial(c, h)
             \/ MountRooted(c) \/ MountRefused(c) \/ MountForgets(c)
             \/ Unmount(c) \/ Unmounted(c) \/ CloseField(c) \/ ClearField(c)
             \/ Attempt(c) \/ AttemptOnNil(c)
      PROVE  Goal
  <2>1. UNCHANGED <<flavour, answer, req, acted, remote>>
    BY <1>1 DEF Mount, Redial, Dialled, MountRooted, MountRefused, MountForgets, Unmount,
                Unmounted, CloseField, ClearField, Attempt, AttemptOnNil
  <2> QED BY <1>0, <2>1
<1>2. ASSUME NEW c \in Callers, NEW r \in Requests, Begin(c, r) PROVE Goal
  <2>1. /\ answer[c] # "pending"
        /\ req' = [req EXCEPT ![c] = r] /\ acted' = [acted EXCEPT ![c] = FALSE]
        /\ UNCHANGED <<flavour, remote>>
    BY <1>2 DEF Begin, TypeInv, PendingInCall, InCall
  <2>2. \E x \in {"pending", "notConnected"} : answer' = [answer EXCEPT ![c] = x]
    BY <1>2 DEF Begin
  <2>3. \E a \in {"pending", "notConnected"} : told' = [told EXCEPT ![c] = a]
    BY <2>2 DEF told, Told, TypeInv, TypeOK
  <2>4. told[c] # "pending"
    BY <2>1 DEF told, Told
  <2>5. r \in FS!Requests /\ req'[c] = r
    BY <2>1 DEF Requests, FS!Requests, TypeInv, TypeOK
  <2>6. FS!Call(c, r)
    BY <2>1, <2>3, <2>4 DEF FS!Call, Forgiving
  <2>7. ~acted'[c]
    BY <2>1, Zenon DEF TypeInv, TypeOK
  <2>8. RemoteInv'
    BY <2>7 DEF RemoteInv, Serial
  <2> QED BY <2>5, <2>6, <2>8 DEF FS!Next
<1>3. ASSUME NEW c \in Callers, NEW result \in {"ok", "refused", "connErr"},
             InCall(c), UNCHANGED <<flavour, req>>, Settle(c, result),
             Executed(c) \/ FoundDone(c) \/ NotExecuted(c),
             result = "ok" => Executed(c) \/ FoundDone(c)
      PROVE  Goal
  BY <1>3, SettleAnswers, RemoteCall, CallImplements
<1>4. ASSUME NEW c \in Callers, Served(c) \/ Refused(c) \/ OtherError(c) \/ RedialFails(c)
      PROVE  Goal
  BY <1>3, <1>4 DEF Served, Refused, OtherError, RedialFails, LostReply, NotExecuted, InCall
<1>5. ASSUME NEW c \in Callers, PassField(c) PROVE Goal
  <2>1. NotExecuted(c) /\ UNCHANGED <<flavour, req, acted, remote>>
    BY <1>5 DEF PassField, NotExecuted
  <2>2. CASE UNCHANGED answer
    BY <1>0, <2>1, <2>2
  <2>3. CASE Settle(c, "connErr") /\ answer[c] = "pending"
    <3>1. InCall(c)
      BY <1>5, <2>3 DEF PassField, InCall
    <3> QED BY <1>3, <2>1, <2>3, <3>1
  <2> QED BY <1>5, <2>2, <2>3 DEF PassField
<1>6. ASSUME NEW c \in Callers, ConnError(c) PROVE Goal
  <2>1. /\ InCall(c) /\ UNCHANGED <<flavour, req>>
        /\ Executed(c) \/ FoundDone(c) \/ NotExecuted(c)
    BY <1>6 DEF ConnError, LostReply, InCall
  <2>2. CASE UNCHANGED answer
    BY <2>1, <2>2, RemoteCall, CallImplements
  <2>3. CASE Settle(c, "connErr")
    BY <1>3, <2>1, <2>3
  <2> QED BY <1>6, <2>2, <2>3 DEF ConnError
<1>7. CASE UNCHANGED vars
  BY <1>0, <1>7 DEF vars
<1> QED
  BY <1>1, <1>2, <1>4, <1>5, <1>6, <1>7 DEF Next, Call, Continue, Gone

LEMMA InitImplements == Init => FS!Init
<1> SUFFICES ASSUME Init PROVE FS!Init
  OBVIOUS
<1>1. (flavour = "smb") \in BOOLEAN
  OBVIOUS
<1>2. told = [c \in Callers |-> "none"]
  BY DEF Init, told, Told
<1>3. req \in [Callers -> FS!Requests]
  BY DEF Init, Requests, FS!Requests
<1>4. Forgiving \in SUBSET {"mkdir", "remove"}
  BY DEF Forgiving
<1> QED BY <1>1, <1>2, <1>3, <1>4 DEF Init, FS!Init, Kinds, FS!Kinds

(* One thread: a driver is a FileSystem, whatever fails and however often, *)
(* for any number of paths and reconnects.                                 *)
THEOREM ImplementsFileSystem == ASSUME Serial PROVE Spec => FileSystemSpec
<1>1. TypeInv /\ RemoteInv /\ [Next]_vars => RemoteInv' /\ [FS!Next]_(FS!vars)
  BY RemoteStep
<1> QED
  BY InitType, TypeStep, InitRemote, InitImplements, <1>1,
     PTL DEF Spec, FileSystemSpec, FS!Spec

-----------------------------------------------------------------------------
(* What a caller may conclude from an answer.                              *)

(* A call that was told that the driver is not connected has changed       *)
(* nothing, and one that was told of success has, but for smb's Remove.    *)
AnswersAreTrue ==
    \A c \in Callers :
        /\ told[c] = "ok" => acted[c] \/ req[c].op \in Forgiving
        /\ told[c] = "notConnected" => ~acted[c]

(* As that is told of it, it has, or there is nothing to remove.           *)
SuccessIsTrue ==
    \A c \in Callers :
        told[c] = "pending" /\ told'[c] = "ok"
            => \/ acted'[c]
               \/ req[c].op \in Forgiving /\ FS!Already(req[c], remote)

(* A call that may change a path now: it names the path, has not answered, *)
(* and has not changed anything yet, unless it removes.                    *)
OpenOn(c, p) ==
    /\ told[c] = "pending"
    /\ p \in {req[c].path, req[c].to}
    /\ acted[c] => req[c].op = "remove"

LEMMA FileSystemTyped ==
    ASSUME TypeInv
    PROVE  /\ req \in [Callers -> FS!Requests]
           /\ remote \in [Paths -> Kinds] /\ acted \in [Callers -> BOOLEAN]
           /\ \A c \in Callers : told[c] = Told(answer[c])
BY DEF TypeInv, TypeOK, Requests, FS!Requests, told

(* What a call does it does to the paths it names.                         *)
LEMMA EffectIsLocal ==
    ASSUME NEW t \in [Paths -> Kinds], NEW r \in FS!Requests,
           NEW p \in Paths, p \notin {r.path, r.to}
    PROVE  FS!Effect(r, t)[p] = t[p]
BY DEF FS!Effect, FS!Requests

LEMMA AnswersStayTrue ==
    ASSUME TypeInv, AnswersAreTrue, FS!Next
    PROVE  AnswersAreTrue' /\ SuccessIsTrue
<1> DEFINE G == AnswersAreTrue' /\ SuccessIsTrue
<1>1. told \in [Callers -> {told[c] : c \in Callers}] /\ acted \in [Callers -> BOOLEAN]
  BY FileSystemTyped DEF told
<1> USE DEF AnswersAreTrue, SuccessIsTrue
<1>2. ASSUME NEW c \in Callers, FS!Act(c) PROVE G
  BY <1>1, <1>2 DEF FS!Act
<1>3. ASSUME NEW c \in Callers, FS!Empty(c) PROVE G
  BY <1>1, <1>3 DEF FS!Empty
<1>4. ASSUME NEW c \in Callers, FS!Return(c) PROVE G
  BY <1>1, <1>4 DEF FS!Return
<1>5. ASSUME NEW c \in Callers, FS!Find(c) PROVE G
  BY <1>1, <1>5 DEF FS!Find
<1>6. ASSUME NEW c \in Callers, NEW r \in FS!Requests, FS!Call(c, r) PROVE G
  BY <1>1, <1>6, FileSystemTyped DEF FS!Call
<1> QED BY <1>2, <1>3, <1>4, <1>5, <1>6 DEF FS!Next

LEMMA ChangesAreAskedFor ==
    ASSUME TypeInv, FS!Next, NEW p \in Paths, remote'[p] # remote[p]
    PROVE  \E c \in Callers : OpenOn(c, p)
<1>1. ASSUME NEW c \in Callers, FS!Act(c) PROVE OpenOn(c, p)
  <2>1. remote' = FS!Effect(req[c], remote) /\ req[c] \in FS!Requests
    BY <1>1, FileSystemTyped DEF FS!Act
  <2>2. p \in {req[c].path, req[c].to}
    BY <2>1, EffectIsLocal, FileSystemTyped
  <2> QED BY <1>1, <2>2 DEF FS!Act, OpenOn
<1>2. ASSUME NEW c \in Callers, FS!Empty(c) PROVE OpenOn(c, p)
  <2>1. p = req[c].path
    BY <1>2, FileSystemTyped DEF FS!Empty
  <2> QED BY <1>2, <2>1 DEF FS!Empty, OpenOn
<1>3. remote' # remote
  OBVIOUS
<1> QED BY <1>1, <1>2, <1>3 DEF FS!Next, FS!Return, FS!Find, FS!Call

(* One thread: an answer is true of the server when it is given, and it is *)
(* the last of its call: no path changes but by a call that names it and   *)
(* has not answered, and once for each call unless it removes.  So neither *)
(* the reconnect, which runs an operation again whose reply was lost, nor  *)
(* Remove's second command does what the caller has not asked for.         *)
THEOREM AnswersAreFinal ==
    ASSUME Serial
    PROVE  Spec => /\ []AnswersAreTrue
                   /\ [][/\ SuccessIsTrue
                         /\ \A p \in Paths :
                               remote'[p] # remote[p] => \E c \in Callers : OpenOn(c, p)]_vars
<1> DEFINE A == /\ SuccessIsTrue
                /\ \A p \in Paths :
                      remote'[p] # remote[p] => \E c \in Callers : OpenOn(c, p)
<1>1. Init => AnswersAreTrue
  <2> SUFFICES ASSUME Init PROVE AnswersAreTrue
    OBVIOUS
  <2>1. \A c \in Callers : answer[c] = "none"
    BY DEF Init
  <2> QED BY <2>1 DEF AnswersAreTrue, told, Told
<1>2. /\ TypeInv /\ [Next]_vars => TypeInv'
      /\ TypeInv /\ RemoteInv /\ [Next]_vars => RemoteInv' /\ [FS!Next]_(FS!vars)
  BY TypeStep, RemoteStep
<1>3. TypeInv /\ RemoteInv /\ AnswersAreTrue /\ [Next]_vars => AnswersAreTrue' /\ [A]_vars
  <2> SUFFICES ASSUME TypeInv, RemoteInv, AnswersAreTrue, [Next]_vars
               PROVE  AnswersAreTrue' /\ A
    OBVIOUS
  <2>1. CASE UNCHANGED FS!vars
    <3>1. AnswersAreTrue'
      BY <2>1 DEF FS!vars, AnswersAreTrue
    <3>2. A
      BY <2>1 DEF FS!vars, SuccessIsTrue
    <3> QED BY <3>1, <3>2
  <2>2. CASE FS!Next
    <3>1. A
      BY <2>2, AnswersStayTrue, ChangesAreAskedFor
    <3> QED BY <2>2, <3>1, AnswersStayTrue
  <2> QED BY <1>2, <2>1, <2>2
<1> HIDE DEF A
<1>4. Spec => []AnswersAreTrue /\ [][A]_vars
  BY <1>1, <1>2, <1>3, InitType, InitRemote, PTL DEF Spec
<1> QED BY <1>4 DEF A

-----------------------------------------------------------------------------
(* How much a call may still do.  Taking the connection down is two steps  *)
(* for each field, and dialling, running op() again and its end three; a   *)
(* first run of op() may have all of that after it, and the first          *)
(* withReconnect of a Remove a second one.                                 *)
Fallback(c) == IF req[c].op = "remove" /\ ~fallback[c] THEN 5 + 2 * Depth ELSE 0

Left(c) ==
    CASE pc[c] = "attempt"  -> Fallback(c) + (IF tries[c] = 1 THEN 5 + 2 * Depth ELSE 2)
      [] pc[c] = "sent"     -> Fallback(c) + (IF tries[c] = 1 THEN 4 + 2 * Depth ELSE 1)
      [] pc[c] = "closing"  -> Fallback(c) + 5 + 2 * (Depth - layer[c])
      [] pc[c] = "clearing" -> Fallback(c) + 4 + 2 * (Depth - layer[c])
      [] pc[c] = "dialing"  -> Fallback(c) + 3
      [] pc[c] = "rooting"  -> 2
      [] pc[c] \in {"refusing", "unmounting"} -> 1
      [] pc[c] \in {"idle", "gone"} -> 0

LEMMA LeftIsBounded == TypeOK => \A c \in Callers : Left(c) \in 0..(10 + 4 * Depth)
<1> SUFFICES ASSUME TypeOK, NEW c \in Callers PROVE Left(c) \in 0..(10 + 4 * Depth)
  OBVIOUS
<1>1. Depth \in 1..3 /\ layer[c] \in 1..Depth /\ pc[c] \in PCs
  BY DepthType DEF TypeOK, Layers
<1>2. Fallback(c) \in 0..(5 + 2 * Depth)
  BY <1>1 DEF Fallback
<1> QED BY <1>1, <1>2 DEF PCs, Left

(* What a caller that does nothing has left stays the same.                *)
LEMMA SameLeft ==
    ASSUME NEW d \in Callers, Depth' = Depth,
           pc'[d] = pc[d], req'[d] = req[d], tries'[d] = tries[d],
           fallback'[d] = fallback[d], layer'[d] = layer[d]
    PROVE  Left(d)' = Left(d)
BY DEF Left, Fallback

(* withReconnect returns: nothing is left, or only the second one is.      *)
LEMMA SettleShortens ==
    ASSUME TypeInv, NEW c \in Callers, Depth' = Depth,
           NEW result \in {"ok", "refused", "connErr"}, Settle(c, result),
           InCall(c), req' = req, layer' = layer
    PROVE  Left(c)' < Left(c) /\ \A d \in Callers \ {c} : Left(d)' = Left(d)
<1>0. TypeOK /\ Depth \in 1..3 /\ layer[c] \in 1..Depth
  BY DepthType DEF TypeInv, TypeOK, Layers
<1>1. CASE req[c].op = "remove" /\ ~fallback[c] /\ result # "ok"
  <2>1. pc' = [pc EXCEPT ![c] = "attempt"] /\ tries' = [tries EXCEPT ![c] = 1]
    BY <1>1 DEF Settle, Goto
  <2>2. fallback' = [fallback EXCEPT ![c] = TRUE]
    BY <1>1 DEF Settle
  <2>3. /\ pc'[c] = "attempt" /\ tries'[c] = 1 /\ fallback'[c] = TRUE
        /\ \A d \in Callers \ {c} :
              pc'[d] = pc[d] /\ tries'[d] = tries[d] /\ fallback'[d] = fallback[d]
    BY <1>0, <2>1, <2>2 DEF TypeOK
  <2>4. Left(c)' = 5 + 2 * Depth
    <3>1. Fallback(c)' = 0
      BY <2>3 DEF Fallback
    <3> QED BY <1>0, <2>3, <3>1 DEF Left
  <2>5. Fallback(c) = 5 + 2 * Depth
    BY <1>1 DEF Fallback
  <2>6. Left(c) > 5 + 2 * Depth
    BY <1>0, <2>5 DEF Left, InCall
  <2> QED BY <1>0, <2>3, <2>4, <2>6, SameLeft
<1>2. CASE ~(req[c].op = "remove" /\ ~fallback[c] /\ result # "ok")
  <2>1. /\ pc'[c] = "idle" /\ tries' = tries /\ fallback' = fallback
        /\ \A d \in Callers \ {c} : pc'[d] = pc[d]
    BY <1>0, <1>2 DEF Settle, Goto, TypeOK
  <2>2. Fallback(c) \in Nat /\ tries[c] \in 0..2
    BY <1>0 DEF Fallback, TypeOK
  <2>3. Left(c) > 0
    BY <1>0, <2>2 DEF Left, InCall
  <2>4. Left(c)' = 0
    BY <2>1 DEF Left
  <2> QED BY <2>1, <2>3, <2>4, SameLeft
<1> QED BY <1>1, <1>2

(* A caller that goes elsewhere changes nothing of what others have left.  *)
LEMMA GotoShortens ==
    ASSUME TypeInv, NEW c \in Callers, Depth' = Depth, NEW place, Goto(c, place),
           UNCHANGED <<req, fallback, tries, layer>>,
           \/ pc[c] = "rooting" /\ place \in {"idle", "refusing"}
           \/ pc[c] \in {"refusing", "unmounting"} /\ place = "idle"
           \/ pc[c] = "attempt" /\ place = "sent"
           \/ pc[c] = "sent" /\ place = "closing" /\ tries[c] = 1
           \/ pc[c] = "closing" /\ place = "clearing"
    PROVE  Left(c)' < Left(c) /\ \A d \in Callers \ {c} : Left(d)' = Left(d)
<1>0. TypeOK /\ Depth \in 1..3 /\ layer[c] \in 1..Depth
  BY DepthType DEF TypeInv, TypeOK, Layers
<1>1. pc'[c] = place /\ \A d \in Callers \ {c} : pc'[d] = pc[d]
  BY <1>0 DEF Goto, TypeOK
<1>2. Fallback(c)' = Fallback(c) /\ Fallback(c) \in Nat
  BY <1>0 DEF Fallback
<1>3. pc[c] = "sent" => layer[c] = 1
  BY DEF TypeInv, FromTheTop
<1>4. Left(c)' < Left(c)
  BY <1>0, <1>1, <1>2, <1>3 DEF Left
<1> QED BY <1>1, <1>4, SameLeft

LEMMA NextFieldShortens ==
    ASSUME TypeInv, NEW c \in Callers, Depth' = Depth, NextField(c),
           pc[c] \in {"closing", "clearing"}, UNCHANGED <<req, fallback, tries>>
    PROVE  Left(c)' < Left(c) /\ \A d \in Callers \ {c} : Left(d)' = Left(d)
<1>0. TypeOK /\ Depth \in 1..3 /\ layer[c] \in 1..Depth
  BY DepthType DEF TypeInv, TypeOK, Layers
<1>1. \A d \in Callers \ {c} : pc'[d] = pc[d] /\ layer'[d] = layer[d]
  BY <1>0 DEF NextField, Goto, TypeOK
<1>2. Fallback(c)' = Fallback(c) /\ Fallback(c) \in Nat
  BY <1>0 DEF Fallback
<1>3. \/ pc'[c] = "closing" /\ layer'[c] = layer[c] + 1
      \/ pc'[c] \in {"dialing", "unmounting"}
  BY <1>0 DEF NextField, Goto, TypeOK
<1>4. Left(c)' < Left(c)
  BY <1>0, <1>2, <1>3 DEF Left
<1> QED BY <1>1, <1>4, SameLeft

LEMMA ContinueShortens ==
    ASSUME TypeInv, [Next]_vars, NEW c \in Callers, Continue(c)
    PROVE  /\ Left(c)' < Left(c)
           /\ \A d \in Callers \ {c} : Left(d)' \in {0, Left(d)}
<1> USE DEF driverVars, callVars
<1>0. TypeOK /\ Depth' = Depth
  BY FlavourStays DEF TypeInv
<1>1. CASE \/ MountRooted(c) \/ MountForgets(c) \/ Unmounted(c) \/ CloseField(c) \/ Attempt(c)
  <2>1. /\ UNCHANGED <<req, tries, fallback, layer>>
        /\ \/ pc[c] \in {"rooting", "refusing", "unmounting"} /\ Goto(c, "idle")
           \/ pc[c] = "attempt" /\ Goto(c, "sent")
           \/ pc[c] = "closing" /\ Goto(c, "clearing")
    BY <1>1 DEF MountRooted, MountForgets, Unmounted, CloseField, Attempt
  <2> QED BY <1>0, <2>1, GotoShortens
<1>2. ASSUME pc[c] \in {"attempt", "rooting"}, pc' = [d \in Callers |-> "gone"]
      PROVE  /\ Left(c)' < Left(c)
             /\ \A d \in Callers \ {c} : Left(d)' \in {0, Left(d)}
  <2>1. \A d \in Callers : Left(d)' = 0
    BY <1>2 DEF Left
  <2>2. Left(c) > 0
    BY <1>0, <1>2, DepthType DEF Left, Fallback
  <2> QED BY <2>1, <2>2
<1>3. CASE MountRefused(c)
  <2>1. UNCHANGED <<req, tries, fallback, layer>> /\ pc[c] = "rooting"
    BY <1>3 DEF MountRefused
  <2>2. Goto(c, "refusing") \/ pc' = [d \in Callers |-> "gone"]
    BY <1>3 DEF MountRefused
  <2> QED BY <1>0, <1>2, <2>1, <2>2, GotoShortens
<1>4. CASE AttemptOnNil(c)
  BY <1>2, <1>4 DEF AttemptOnNil
<1>5. CASE ClearField(c)
  BY <1>0, <1>5, NextFieldShortens DEF ClearField
<1>6. CASE PassField(c)
  <2>1. req' = req /\ pc[c] = "closing"
    BY <1>6 DEF PassField
  <2>2. CASE Settle(c, "connErr") /\ layer' = layer /\ answer[c] = "pending"
    <3>1. InCall(c)
      BY <2>1, <2>2 DEF InCall
    <3> QED BY <1>0, <2>1, <2>2, <3>1, SettleShortens
  <2>3. CASE NextField(c) /\ UNCHANGED <<fallback, tries, answer>>
    BY <1>0, <2>1, <2>3, NextFieldShortens
  <2> QED BY <1>6, <2>2, <2>3 DEF PassField
<1>7. CASE Served(c) \/ Refused(c) \/ OtherError(c) \/ RedialFails(c)
  <2>1. /\ InCall(c) /\ UNCHANGED <<req, layer>>
        /\ \E result \in {"ok", "refused", "connErr"} : Settle(c, result)
    BY <1>7 DEF Served, Refused, OtherError, RedialFails, InCall
  <2> QED BY <1>0, <2>1, SettleShortens
<1>8. CASE ConnError(c)
  <2>1. InCall(c) /\ UNCHANGED <<req, layer>> /\ pc[c] = "sent"
    BY <1>8 DEF ConnError, InCall
  <2>2. CASE Goto(c, "closing") /\ UNCHANGED <<tries, fallback>> /\ tries[c] = 1
    BY <1>0, <2>1, <2>2, GotoShortens
  <2>3. CASE Settle(c, "connErr")
    BY <1>0, <2>1, <2>3, SettleShortens
  <2> QED BY <1>8, <2>2, <2>3 DEF ConnError, Reconnectable
<1>9. ASSUME NEW h \in Handles, Redial(c, h)
      PROVE  /\ Left(c)' < Left(c)
             /\ \A d \in Callers \ {c} : Left(d)' \in {0, Left(d)}
  <2>1. /\ pc' = [pc EXCEPT ![c] = "attempt"] /\ UNCHANGED <<req, fallback, layer>>
        /\ pc[c] = "dialing" /\ tries' = [tries EXCEPT ![c] = @ + 1]
    BY <1>9 DEF Redial, Goto
  <2>2. tries[c] = 1
    BY <2>1 DEF TypeInv, OneRetry, InCall
  <2>3. /\ pc'[c] = "attempt" /\ tries'[c] = 2
        /\ \A d \in Callers \ {c} : pc'[d] = pc[d] /\ tries'[d] = tries[d]
    BY <1>0, <2>1, <2>2 DEF TypeOK
  <2>4. Fallback(c)' = Fallback(c) /\ Fallback(c) \in Nat
    BY <1>0, <2>1, DepthType DEF Fallback
  <2>5. Left(c)' < Left(c)
    BY <2>1, <2>3, <2>4 DEF Left
  <2> QED BY <1>0, <2>1, <2>3, <2>5, SameLeft
<1> QED BY <1>1, <1>3, <1>4, <1>5, <1>6, <1>7, <1>8, <1>9 DEF Continue

LEMMA CallSpares ==
    ASSUME TypeInv, [Next]_vars, NEW c \in Callers, Call(c)
    PROVE  \A d \in Callers \ {c} : Left(d)' = Left(d)
<1> USE DEF driverVars, callVars
<1>0. TypeOK /\ Depth' = Depth
  BY FlavourStays DEF TypeInv
<1>1. \A d \in Callers \ {c} :
         /\ pc'[d] = pc[d] /\ req'[d] = req[d] /\ layer'[d] = layer[d]
         /\ tries'[d] = tries[d] /\ fallback'[d] = fallback[d]
  BY <1>0 DEF Call, Mount, Unmount, Begin, Goto, TypeOK
<1> QED BY <1>0, <1>1, SameLeft

(* However its requests fail and whatever the other callers do meanwhile,  *)
(* a call, a Mount or an Unmount is at most ten of its own steps from its  *)
(* end, and four more for each field that the driver keeps its connection  *)
(* in: each step brings it nearer, and none of another caller takes it     *)
(* away from it.  Every place that a call can be in has a step that waits  *)
(* for nobody, so that CallReturns needs no more than that they are taken. *)
THEOREM CallsAreShort ==
    Spec => /\ [](\A c \in Callers : Left(c) \in 0..(10 + 4 * Depth))
            /\ [][\A c, d \in Callers :
                     /\ Continue(c) => Left(c)' < Left(c)
                     /\ c # d /\ (Call(d) \/ Continue(d)) => Left(c)' \in {0, Left(c)}]_vars
<1> DEFINE A == \A c, d \in Callers :
                   /\ Continue(c) => Left(c)' < Left(c)
                   /\ c # d /\ (Call(d) \/ Continue(d)) => Left(c)' \in {0, Left(c)}
           B == \A c \in Callers : Left(c) \in 0..(10 + 4 * Depth)
<1>1. TypeInv => B
  BY LeftIsBounded DEF TypeInv
<1>2. TypeInv /\ [Next]_vars => [A]_vars
  <2> SUFFICES ASSUME TypeInv, [Next]_vars, NEW c \in Callers, NEW d \in Callers
               PROVE  /\ Continue(c) => Left(c)' < Left(c)
                      /\ c # d /\ (Call(d) \/ Continue(d)) => Left(c)' \in {0, Left(c)}
    OBVIOUS
  <2>1. Continue(c) => Left(c)' < Left(c)
    BY ContinueShortens
  <2>2. c # d /\ (Call(d) \/ Continue(d)) => Left(c)' \in {0, Left(c)}
    BY ContinueShortens, CallSpares
  <2> QED BY <2>1, <2>2
<1> HIDE DEF A, B
<1>3. Spec => []B /\ [][A]_vars
  BY <1>1, <1>2, InitType, TypeStep, PTL DEF Spec
<1> QED BY <1>3 DEF A, B
===============================================================================
