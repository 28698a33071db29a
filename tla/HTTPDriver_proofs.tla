--------------------------- MODULE HTTPDriver_proofs ---------------------------
(***************************************************************************)
(* What dropbox and webdav guarantee their callers, for any number of      *)
(* them and of paths, whatever is lost and whenever one of them unmounts.  *)
(***************************************************************************)
EXTENDS HTTPDriver, TLAPS

Inv == TypeOK /\ CallInv /\ PanicOnlyWhenOvertaken

-----------------------------------------------------------------------------
LEMMA InitInv == Init => Inv
<1> SUFFICES ASSUME Init PROVE Inv
  OBVIOUS
<1>1. acted \in [Callers -> BOOLEAN] /\ overtaken \in [Callers -> BOOLEAN]
  BY Zenon DEF Init
<1>2. connected \in BOOLEAN /\ client \in BOOLEAN
  BY Zenon DEF Init
<1>3. req \in [Callers -> Requests]
  BY DEF Init, Requests
<1>4. TypeOK
  BY <1>1, <1>2, <1>3 DEF Init, TypeOK, PCs, Answers
<1>5. CallInv /\ PanicOnlyWhenOvertaken
  BY DEF Init, CallInv, PanicOnlyWhenOvertaken
<1> QED BY <1>4, <1>5 DEF Inv

LEMMA ExecutedType ==
    ASSUME TypeOK, NEW c \in Callers, Executed(c)
    PROVE  /\ remote' \in [Paths -> Kinds]
           /\ acted' \in [Callers -> BOOLEAN]
           /\ acted'[c]
           /\ \A d \in Callers \ {c} : acted'[d] = acted[d]
<1>1. req[c] \in Requests /\ remote \in [Paths -> Kinds]
  BY DEF TypeOK
<1>2. remote' \in [Paths -> Kinds]
  BY <1>1 DEF Executed, Applied, Requests, Kinds
<1>3. /\ acted' \in [Callers -> BOOLEAN]
      /\ acted'[c]
      /\ \A d \in Callers \ {c} : acted'[d] = acted[d]
  BY Zenon DEF Executed, TypeOK
<1> QED BY <1>2, <1>3

LEMMA NotExecutedType ==
    ASSUME TypeOK, NEW c \in Callers, NotExecuted(c)
    PROVE  remote' \in [Paths -> Kinds] /\ acted' = acted
BY DEF NotExecuted, TypeOK, Kinds

(* A request returns.                                                      *)
LEMMA FinishEnds ==
    ASSUME Inv, NEW c \in Callers, NEW result \in Answers, Finish(c, result)
    PROVE  /\ pc' \in [Callers -> PCs] /\ answer' \in [Callers -> Answers]
           /\ pc'[c] = "idle" /\ answer'[c] = result
           /\ tries' \in [Callers -> 0..2] /\ tries'[c] = 0
           /\ overtaken' \in [Callers -> BOOLEAN]
           /\ result = "panicked" => overtaken'[c] = overtaken[c]
           /\ \A d \in Callers \ {c} :
                 /\ pc'[d] = pc[d] /\ answer'[d] = answer[d]
                 /\ tries'[d] = tries[d] /\ overtaken'[d] = overtaken[d]
<1>1. overtaken' \in [Callers -> BOOLEAN]
  BY Zenon DEF Inv, TypeOK, Finish
<1>2. result = "panicked" => overtaken'[c] = overtaken[c]
  BY Zenon DEF Inv, TypeOK, Finish
<1>3. \A d \in Callers \ {c} : overtaken'[d] = overtaken[d]
  BY Zenon DEF Inv, TypeOK, Finish
<1>4. /\ pc' \in [Callers -> PCs] /\ answer' \in [Callers -> Answers]
      /\ pc'[c] = "idle" /\ answer'[c] = result
      /\ tries' \in [Callers -> 0..2] /\ tries'[c] = 0
      /\ \A d \in Callers \ {c} :
            pc'[d] = pc[d] /\ answer'[d] = answer[d] /\ tries'[d] = tries[d]
  BY DEF Inv, TypeOK, Finish, Goto, PCs
<1> QED BY <1>1, <1>2, <1>3, <1>4

(* The end of a call, or its second try.                                   *)
LEMMA FailEnds ==
    ASSUME Inv, NEW c \in Callers, Fail(c)
    PROVE  \/ Finish(c, "failed")
           \/ /\ pc' = [pc EXCEPT ![c] = "call"] /\ UNCHANGED <<answer, tries, overtaken>>
              /\ req[c].op = "remove" /\ tries[c] = 1
BY DEF Fail, FallsBack, Goto

LEMMA InvStep == Inv /\ [Next]_vars => Inv'
<1> SUFFICES ASSUME Inv, [Next]_vars PROVE Inv'
  OBVIOUS
<1> USE DEF driverVars, callVars
<1>1. ASSUME NEW c \in Callers, Mount(c) PROVE Inv'
  <2>1. pc' \in [Callers -> PCs] /\ pc'[c] \in {"idle", "mounting"}
    BY <1>1 DEF Mount, Goto, Inv, TypeOK, PCs
  <2>2. connected' \in BOOLEAN /\ client' = TRUE
    BY <1>1, Zenon DEF Mount, Inv, TypeOK
  <2>3. \A d \in Callers \ {c} : pc'[d] = pc[d]
    BY <1>1 DEF Mount, Goto, Inv, TypeOK
  <2>4. UNCHANGED <<flavour, callVars, remote>> /\ pc[c] = "idle"
    BY <1>1 DEF Mount
  <2>5. TypeOK'
    BY <2>1, <2>2, <2>4 DEF Inv, TypeOK, Requests
  <2>6. CallInv'
    BY <2>1, <2>2, <2>3, <2>4 DEF Inv, CallInv
  <2>7. PanicOnlyWhenOvertaken'
    BY <2>1, <2>3, <2>4 DEF Inv, PanicOnlyWhenOvertaken
  <2> QED BY <2>5, <2>6, <2>7 DEF Inv
<1>2. ASSUME NEW c \in Callers, MountConnected(c) \/ MountFails(c) PROVE Inv'
  <2>1. /\ pc' = [pc EXCEPT ![c] = "idle"] /\ pc[c] = "mounting"
        /\ UNCHANGED <<flavour, client, callVars, remote>>
    BY <1>2 DEF MountConnected, MountFails, Goto
  <2>2. connected' \in BOOLEAN
    BY <1>2, Zenon DEF MountConnected, MountFails, Inv, TypeOK
  <2>3. TypeOK'
    BY <2>1, <2>2 DEF Inv, TypeOK, Requests, PCs
  <2>4. CallInv' /\ PanicOnlyWhenOvertaken'
    BY <2>1 DEF Inv, TypeOK, CallInv, PanicOnlyWhenOvertaken
  <2> QED BY <2>3, <2>4 DEF Inv
<1>3. ASSUME NEW c \in Callers, Unmount(c) PROVE Inv'
  <2>1. /\ UNCHANGED <<flavour, connected, req, tries, answer, acted, remote>>
        /\ pc[c] = "idle" /\ pc' = [pc EXCEPT ![c] = "unmounting"]
    BY <1>3 DEF Unmount, Goto
  <2>2. overtaken' = [d \in Callers |-> overtaken[d] \/ answer[d] = "pending"]
    BY <1>3 DEF Unmount
  <2>3. overtaken' \in [Callers -> BOOLEAN] /\ client' \in BOOLEAN
    BY <1>3, <2>2, Zenon DEF Inv, TypeOK, Unmount
  <2>4. \A d \in Callers :
            (overtaken[d] => overtaken'[d]) /\ (answer[d] = "pending" => overtaken'[d])
    BY <2>2, Zenon
  <2>5. TypeOK'
    BY <2>1, <2>3 DEF Inv, TypeOK, Requests, PCs
  <2>6. CallInv' /\ PanicOnlyWhenOvertaken'
    BY <2>1, <2>4 DEF Inv, TypeOK, CallInv, PanicOnlyWhenOvertaken
  <2> QED BY <2>5, <2>6 DEF Inv
<1>11. ASSUME NEW c \in Callers, Unmounted(c) PROVE Inv'
  <2>1. /\ UNCHANGED <<flavour, client, callVars, remote>>
        /\ pc[c] = "unmounting" /\ pc' = [pc EXCEPT ![c] = "idle"]
    BY <1>11 DEF Unmounted, Goto
  <2>2. connected' \in BOOLEAN
    BY <1>11, Zenon DEF Unmounted
  <2>3. TypeOK'
    BY <2>1, <2>2 DEF Inv, TypeOK, Requests, PCs
  <2>4. CallInv' /\ PanicOnlyWhenOvertaken'
    BY <2>1 DEF Inv, TypeOK, CallInv, PanicOnlyWhenOvertaken
  <2> QED BY <2>3, <2>4 DEF Inv
<1>4. ASSUME NEW c \in Callers, NEW r \in Requests, Begin(c, r) PROVE Inv'
  <2>1. /\ UNCHANGED <<driverVars, remote>> /\ pc[c] = "idle"
        /\ req' = [req EXCEPT ![c] = r] /\ tries' = [tries EXCEPT ![c] = 0]
    BY <1>4 DEF Begin
  <2>2. /\ acted' \in [Callers -> BOOLEAN] /\ ~acted'[c]
        /\ overtaken' \in [Callers -> BOOLEAN] /\ ~overtaken'[c]
        /\ \A d \in Callers \ {c} : acted'[d] = acted[d] /\ overtaken'[d] = overtaken[d]
    BY <1>4, Zenon DEF Begin, Inv, TypeOK
  <2>3. /\ pc' \in [Callers -> PCs] /\ answer' \in [Callers -> Answers]
        /\ \A d \in Callers \ {c} : pc'[d] = pc[d] /\ answer'[d] = answer[d]
        /\ \/ pc'[c] = "idle" /\ answer'[c] = "notConnected"
           \/ pc'[c] \in {"writing", "call"} /\ answer'[c] = "pending" /\ client
    BY <1>4 DEF Begin, Ready, Goto, Inv, TypeOK, PCs, Answers
  <2>4. TypeOK'
    <3>1. req' \in [Callers -> Requests'] /\ tries' \in [Callers -> 0..2]
      BY <2>1 DEF Inv, TypeOK, Requests
    <3> QED BY <2>1, <2>2, <2>3, <3>1 DEF Inv, TypeOK
  <2>5. /\ tries'[c] = 0
        /\ \A d \in Callers \ {c} : tries'[d] = tries[d] /\ req'[d] = req[d]
    BY <2>1 DEF Inv, TypeOK
  <2>6. CallInv'
    BY <2>1, <2>2, <2>3, <2>5 DEF Inv, CallInv
  <2>7. PanicOnlyWhenOvertaken'
    BY <2>1, <2>2, <2>3 DEF Inv, CallInv, PanicOnlyWhenOvertaken
  <2> QED BY <2>4, <2>6, <2>7 DEF Inv
<1>12. ASSUME NEW c \in Callers, NEW result \in {"ok", "failed", "panicked"},
              Finish(c, result), pc[c] \in {"writing", "call", "sent"},
              result = "panicked" => overtaken[c],
              UNCHANGED <<driverVars, req>>,
              remote' \in [Paths -> Kinds], acted' \in [Callers -> BOOLEAN],
              \A d \in Callers \ {c} : acted'[d] = acted[d]
       PROVE  Inv'
  <2>1. result \in Answers
    BY <1>12 DEF Answers
  <2>2. TypeOK'
    BY <1>12, <2>1, FinishEnds DEF Inv, TypeOK, Requests
  <2>3. CallInv'
    BY <1>12, <2>1, FinishEnds DEF Inv, CallInv
  <2>4. PanicOnlyWhenOvertaken'
    <3>1. ASSUME NEW d \in Callers, answer'[d] = "panicked" PROVE overtaken'[d]
      BY <1>12, <2>1, <3>1, FinishEnds DEF Inv, PanicOnlyWhenOvertaken
    <3>2. ~\E d \in Callers : pc'[d] = "gone"
      BY <1>12, <2>1, FinishEnds DEF Inv, CallInv
    <3> QED BY <3>1, <3>2 DEF PanicOnlyWhenOvertaken
  <2> QED BY <2>2, <2>3, <2>4 DEF Inv
<1>5. ASSUME NEW c \in Callers, Close(c) PROVE Inv'
  <2>1. /\ UNCHANGED <<driverVars, req, acted, remote>> /\ pc[c] = "writing"
    BY <1>5 DEF Close
  <2>2. CASE Finish(c, "failed")
    BY <1>12, <2>1, <2>2 DEF Inv, TypeOK
  <2>3. CASE Goto(c, "call") /\ UNCHANGED <<tries, answer, overtaken>>
    <3>1. TypeOK'
      BY <2>1, <2>3 DEF Inv, TypeOK, Requests, Goto, PCs
    <3>2. CallInv' /\ PanicOnlyWhenOvertaken'
      BY <2>1, <2>3 DEF Inv, TypeOK, CallInv, PanicOnlyWhenOvertaken, Goto
    <3> QED BY <3>1, <3>2 DEF Inv
  <2> QED BY <1>5, <2>2, <2>3 DEF Close
<1>6. ASSUME NEW c \in Callers, Send(c) PROVE Inv'
  <2>1. /\ UNCHANGED <<driverVars, req, answer, acted, overtaken, remote>>
        /\ pc[c] = "call" /\ client
        /\ tries' = [tries EXCEPT ![c] = @ + 1] /\ pc' = [pc EXCEPT ![c] = "sent"]
    BY <1>6 DEF Send, Goto
  <2>2. tries[c] \in 0..1 /\ tries'[c] = tries[c] + 1
    BY <2>1 DEF Inv, CallInv, TypeOK
  <2>3. TypeOK'
    BY <2>1, <2>2 DEF Inv, TypeOK, Requests, PCs
  <2>4. CallInv' /\ PanicOnlyWhenOvertaken'
    BY <2>1, <2>2 DEF Inv, CallInv, PanicOnlyWhenOvertaken, TypeOK
  <2> QED BY <2>3, <2>4 DEF Inv
<1>7. ASSUME NEW c \in Callers, SendOnNil(c) PROVE Inv'
  <2>1. /\ UNCHANGED <<driverVars, req, acted, remote>>
        /\ pc[c] = "call" /\ overtaken[c]
    BY <1>7 DEF SendOnNil, Inv, CallInv
  <2>2. CASE flavour = "webdav"
    <3>1. Finish(c, "panicked")
      BY <1>7, <2>2 DEF SendOnNil
    <3> QED BY <1>12, <2>1, <3>1 DEF Inv, TypeOK
  <2>3. CASE flavour # "webdav"
    <3>1. /\ pc' = [d \in Callers |-> "gone"]
          /\ UNCHANGED <<answer, tries, overtaken>>
      BY <1>7, <2>3 DEF SendOnNil
    <3>2. TypeOK'
      BY <2>1, <3>1 DEF Inv, TypeOK, Requests, PCs
    <3>3. flavour = "dropbox"
      BY <2>3, FlavoursAssumption DEF Inv, TypeOK
    <3>4. CallInv' /\ PanicOnlyWhenOvertaken'
      BY <2>1, <3>1, <3>3 DEF Inv, CallInv, PanicOnlyWhenOvertaken
    <3> QED BY <3>2, <3>4 DEF Inv
  <2> QED BY <2>2, <2>3
<1>8. ASSUME NEW c \in Callers, Executed(c) \/ FoundDone(c) \/ NotExecuted(c)
      PROVE  /\ remote' \in [Paths -> Kinds] /\ acted' \in [Callers -> BOOLEAN]
             /\ \A d \in Callers \ {c} : acted'[d] = acted[d]
  <2>1. CASE Executed(c)
    BY <2>1, ExecutedType DEF Inv
  <2>2. CASE NotExecuted(c)
    BY <2>2, NotExecutedType DEF Inv, TypeOK
  <2>3. CASE FoundDone(c)
    BY <2>3 DEF FoundDone, Inv, TypeOK
  <2> QED BY <1>8, <2>1, <2>2, <2>3
<1>9. ASSUME NEW c \in Callers, Served(c) \/ Refused(c) \/ Lost(c) PROVE Inv'
  <2>1. /\ UNCHANGED <<driverVars, req>> /\ pc[c] = "sent"
        /\ Executed(c) \/ FoundDone(c) \/ NotExecuted(c)
        /\ Finish(c, "ok") \/ Fail(c)
    BY <1>9 DEF Served, Refused, Lost
  <2>2. /\ remote' \in [Paths -> Kinds] /\ acted' \in [Callers -> BOOLEAN]
        /\ \A d \in Callers \ {c} : acted'[d] = acted[d]
    BY <1>8, <2>1
  <2>3. CASE Finish(c, "ok") \/ Finish(c, "failed")
    BY <1>12, <2>1, <2>2, <2>3
  <2>4. CASE /\ pc' = [pc EXCEPT ![c] = "call"] /\ UNCHANGED <<answer, tries, overtaken>>
             /\ req[c].op = "remove" /\ tries[c] = 1
    <3>1. TypeOK'
      BY <2>1, <2>2, <2>4 DEF Inv, TypeOK, Requests, PCs
    <3>2. CallInv' /\ PanicOnlyWhenOvertaken'
      BY <2>1, <2>2, <2>4 DEF Inv, TypeOK, CallInv, PanicOnlyWhenOvertaken
    <3> QED BY <3>1, <3>2 DEF Inv
  <2> QED BY <2>1, <2>3, <2>4, FailEnds
<1>10. CASE UNCHANGED vars
  BY <1>10 DEF vars, Inv, TypeOK, CallInv, PanicOnlyWhenOvertaken, Requests
<1> QED
  BY <1>1, <1>2, <1>3, <1>4, <1>5, <1>6, <1>7, <1>9, <1>10, <1>11 DEF Next, Gone

(* Any number of callers: every variable keeps its type, and no request is *)
(* sent more than twice.                                                   *)
THEOREM TypeCorrect == Spec => []TypeOK
<1>1. Inv => TypeOK
  BY DEF Inv
<1> QED BY InitInv, InvStep, <1>1, PTL DEF Spec

(* Any number of callers: a nil client is used only by a call an Unmount   *)
(* overtook, and only dropbox's process goes down with it.                 *)
THEOREM PanicsAreOvertaken == Spec => []PanicOnlyWhenOvertaken
<1>1. Inv => PanicOnlyWhenOvertaken
  BY DEF Inv
<1> QED BY InitInv, InvStep, <1>1, PTL DEF Spec

-----------------------------------------------------------------------------
(* The refinement.                                                         *)

LEMMA InitImplements == Init => FS!Init
<1> SUFFICES ASSUME Init PROVE FS!Init
  OBVIOUS
<1>1. told = [c \in Callers |-> "none"]
  BY DEF Init, told, Told
<1>2. req \in [Callers -> FS!Requests]
  BY DEF Init, FS!Requests
<1>3. Forgiving \in SUBSET {"mkdir", "remove"}
  BY DEF Forgiving
<1> QED BY <1>1, <1>2, <1>3 DEF Init, FS!Init, Kinds, FS!Kinds

(* A call that is carried out takes the effect it asked for.               *)
LEMMA PossibleIsAllowed ==
    ASSUME TypeOK, NEW c \in Callers, Possible(req[c], remote)
    PROVE  /\ FS!Allowed(req[c], remote)
           /\ Applied(req[c], remote) = FS!Effect(req[c], remote)
<1>1. /\ req[c].op \in {"read", "create", "mkdir", "remove", "rename"}
      /\ remote[req[c].path] \in {"none", "file", "empty", "full"}
  BY DEF TypeOK, Requests, Kinds
<1> QED BY <1>1 DEF Possible, Applied, FS!Allowed, FS!Effect

(* A change of one caller's answer is one of what it is told.              *)
LEMMA ToldStep ==
    ASSUME TypeOK, NEW c \in Callers, NEW x, answer' = [answer EXCEPT ![c] = x]
    PROVE  told' = [told EXCEPT ![c] = Told(x)]
BY DEF TypeOK, told, Told

LEMMA StepImplements == Inv /\ [Next]_vars => FS!Next \/ UNCHANGED FS!vars
<1> SUFFICES ASSUME Inv, [Next]_vars PROVE FS!Next \/ UNCHANGED FS!vars
  OBVIOUS
<1> USE DEF driverVars, callVars
<1>00. UNCHANGED <<flavour, Forgiving>>
  BY DEF Next, Gone, vars, Mount, MountConnected, MountFails, Unmount, Unmounted, Begin,
         Close, Send, SendOnNil, Served, Refused, Lost, Forgiving
<1>0. ASSUME UNCHANGED <<answer, req, acted, remote>> PROVE UNCHANGED FS!vars
  BY <1>00, <1>0 DEF FS!vars, told
<1>1. ASSUME NEW c \in Callers, NEW r \in Requests, Begin(c, r) PROVE FS!Next
  <2>1. \E x \in {"pending", "notConnected"} : answer' = [answer EXCEPT ![c] = x]
    BY <1>1 DEF Begin
  <2>2. \E a \in {"pending", "notConnected"} : told' = [told EXCEPT ![c] = a]
    BY <2>1, ToldStep DEF Inv, Told
  <2>3. told[c] # "pending"
    BY <1>1 DEF Begin, Inv, CallInv, told, Told
  <2>4. FS!Call(c, r)
    BY <1>00, <1>1, <2>2, <2>3 DEF Begin, FS!Call
  <2>5. r \in FS!Requests /\ req'[c] = r
    BY <1>1 DEF Requests, FS!Requests, Begin, Inv, TypeOK
  <2> QED BY <2>4, <2>5 DEF FS!Next
<1>2. ASSUME NEW c \in Callers, NEW x \in {"failed", "panicked"},
             answer[c] = "pending", answer' = [answer EXCEPT ![c] = x],
             UNCHANGED <<req, acted, remote>>
      PROVE  FS!Next
  <2>1. told' = [told EXCEPT ![c] = "failed"]
    BY <1>2, ToldStep DEF Inv, Told
  <2>2. told[c] = "pending"
    BY <1>2 DEF told, Told
  <2>3. FS!Return(c)
    BY <1>00, <1>2, <2>1, <2>2 DEF FS!Return
  <2> QED BY <2>3 DEF FS!Next
<1>3. ASSUME NEW c \in Callers, Close(c) PROVE FS!Next \/ UNCHANGED FS!vars
  <2>1. answer[c] = "pending"
    BY <1>3 DEF Close, Inv, CallInv
  <2> QED BY <1>0, <1>2, <1>3, <2>1 DEF Close, Finish
<1>4. ASSUME NEW c \in Callers, SendOnNil(c) PROVE FS!Next \/ UNCHANGED FS!vars
  <2>1. answer[c] = "pending"
    BY <1>4 DEF SendOnNil, Inv, CallInv
  <2> QED BY <1>0, <1>2, <1>4, <2>1 DEF SendOnNil, Finish
<1>5. ASSUME NEW c \in Callers, Served(c) \/ Refused(c) \/ Lost(c)
      PROVE  FS!Next \/ UNCHANGED FS!vars
  <2>1. /\ told[c] = "pending" /\ (acted[c] => req[c].op = "remove")
        /\ UNCHANGED req
    BY <1>5 DEF Served, Refused, Lost, Inv, CallInv, told, Told
  <2>2. \/ answer' = answer
        \/ \E x \in {"ok", "failed"} :
              /\ x = "ok" => Executed(c) \/ FoundDone(c)
              /\ answer' = [answer EXCEPT ![c] = x]
    BY <1>5 DEF Served, Refused, Lost, Fail, Finish
  <2>3. \/ told' = told
        \/ \E a \in {"ok", "failed"} :
              /\ a = "ok" => Executed(c) \/ FoundDone(c)
              /\ told' = [told EXCEPT ![c] = a]
    BY <2>2, ToldStep DEF Inv, Told, told
  <2>4. told = [told EXCEPT ![c] = "pending"]
    BY <2>1 DEF told
  <2>5. \E a \in {"pending", "ok", "failed"} :
            /\ a = "ok" => Executed(c) \/ FoundDone(c)
            /\ told' = [told EXCEPT ![c] = a]
    BY <2>3, <2>4
  <2>6. CASE Executed(c)
    <3>1. FS!Act(c)
      BY <1>00, <2>1, <2>5, <2>6, PossibleIsAllowed DEF Inv, Executed, FS!Act
    <3> QED BY <3>1 DEF FS!Next
  <2>7. CASE NotExecuted(c) /\ ~Executed(c) /\ ~FoundDone(c) /\ remote' = remote
    <3>1. told' = [told EXCEPT ![c] = "failed"] => FS!Return(c)
      BY <1>00, <2>1, <2>7 DEF NotExecuted, FS!Return
    <3>2. told' = told \/ told' = [told EXCEPT ![c] = "failed"]
      BY <2>3, <2>7
    <3> QED BY <1>00, <2>1, <2>7, <3>1, <3>2 DEF NotExecuted, FS!Next, FS!vars
  <2>8. CASE NotExecuted(c) /\ ~Executed(c) /\ ~FoundDone(c) /\ remote' # remote
    <3>1. \E a \in {"pending", "failed"} : told' = [told EXCEPT ![c] = a]
      BY <2>5, <2>8
    <3>2. FS!Empty(c)
      BY <1>00, <2>1, <2>8, <3>1 DEF NotExecuted, FS!Empty
    <3> QED BY <3>2 DEF FS!Next
  <2>9. CASE FoundDone(c) /\ ~Executed(c)
    <3>1. UNCHANGED <<remote, acted>> /\ req[c].op \in Forgiving /\ FS!Already(req[c], remote)
      BY <2>9 DEF FoundDone, Forgiving, FS!Already
    <3>2. told' = [told EXCEPT ![c] = "ok"] => FS!Find(c)
      BY <1>00, <2>1, <3>1 DEF FS!Find
    <3>3. told' = [told EXCEPT ![c] = "failed"] => FS!Return(c)
      BY <1>00, <2>1, <3>1 DEF FS!Return
    <3> QED BY <1>00, <2>1, <2>3, <3>1, <3>2, <3>3 DEF FS!Next, FS!vars
  <2>10. Executed(c) \/ FoundDone(c) \/ NotExecuted(c)
    BY <1>5 DEF Served, Refused, Lost
  <2> QED BY <2>6, <2>7, <2>8, <2>9, <2>10
<1>6. ASSUME NEW c \in Callers,
             \/ Mount(c) \/ MountConnected(c) \/ MountFails(c)
             \/ Unmount(c) \/ Unmounted(c) \/ Send(c)
      PROVE  UNCHANGED FS!vars
  BY <1>0, <1>6 DEF Mount, MountConnected, MountFails, Unmount, Unmounted, Send
<1>7. CASE UNCHANGED vars
  BY <1>0, <1>7 DEF vars
<1> QED BY <1>1, <1>3, <1>4, <1>5, <1>6, <1>7 DEF Next, Gone

(* Any number of callers: whatever fails, and whenever one of them         *)
(* unmounts, a driver is a FileSystem.                                     *)
THEOREM ImplementsFileSystem == Spec => FileSystemSpec
<1>1. Inv /\ [Next]_vars => [FS!Next]_(FS!vars)
  BY StepImplements
<1> QED
  BY InitInv, InvStep, InitImplements, <1>1, PTL DEF Spec, FileSystemSpec, FS!Spec
-----------------------------------------------------------------------------
(* What a caller may conclude from an answer.                              *)

(* A call that was told that the driver is not connected has changed       *)
(* nothing, and one that was told of success has, but for webdav's Mkdir   *)
(* and Remove.                                                             *)
AnswersAreTrue ==
    \A c \in Callers :
        /\ told[c] = "ok" => acted[c] \/ req[c].op \in Forgiving
        /\ told[c] = "notConnected" => ~acted[c]

(* As those are told of it, they have, or there is something where the     *)
(* directory should be, or nothing where there should be nothing.          *)
SuccessIsTrue ==
    \A c \in Callers :
        told[c] = "pending" /\ told'[c] = "ok"
            => \/ acted'[c]
               \/ req[c].op \in Forgiving /\ FS!Already(req[c], remote)

(* A call that may change a path now: it names the path, has not answered, *)
(* and has not changed anything yet, unless it removes.                    *)
OpenOn(c, p) ==
    /\ told[c] = "pending"
    /\ p \in {req[c].path, req[c].to}
    /\ acted[c] => req[c].op = "remove"

LEMMA FileSystemTyped ==
    ASSUME Inv
    PROVE  /\ req \in [Callers -> FS!Requests]
           /\ remote \in [Paths -> Kinds] /\ acted \in [Callers -> BOOLEAN]
           /\ \A c \in Callers : told[c] = Told(answer[c])
BY DEF Inv, TypeOK, Requests, FS!Requests, told

(* What a call does it does to the paths it names.                         *)
LEMMA EffectIsLocal ==
    ASSUME NEW t \in [Paths -> Kinds], NEW r \in FS!Requests,
           NEW p \in Paths, p \notin {r.path, r.to}
    PROVE  FS!Effect(r, t)[p] = t[p]
BY DEF FS!Effect, FS!Requests

LEMMA AnswersStayTrue ==
    ASSUME Inv, AnswersAreTrue, FS!Next
    PROVE  AnswersAreTrue' /\ SuccessIsTrue
<1> DEFINE G == AnswersAreTrue' /\ SuccessIsTrue
<1>1. told \in [Callers -> {told[c] : c \in Callers}] /\ acted \in [Callers -> BOOLEAN]
  BY FileSystemTyped DEF told
<1> USE DEF AnswersAreTrue, SuccessIsTrue
<1>2. ASSUME NEW c \in Callers, FS!Act(c) PROVE G
  BY <1>1, <1>2 DEF FS!Act
<1>3. ASSUME NEW c \in Callers, FS!Empty(c) PROVE G
  BY <1>1, <1>3 DEF FS!Empty
<1>4. ASSUME NEW c \in Callers, FS!Return(c) PROVE G
  BY <1>1, <1>4 DEF FS!Return
<1>5. ASSUME NEW c \in Callers, FS!Find(c) PROVE G
  BY <1>1, <1>5 DEF FS!Find
<1>6. ASSUME NEW c \in Callers, NEW r \in FS!Requests, FS!Call(c, r) PROVE G
  BY <1>1, <1>6, FileSystemTyped DEF FS!Call
<1> QED BY <1>2, <1>3, <1>4, <1>5, <1>6 DEF FS!Next

LEMMA ChangesAreAskedFor ==
    ASSUME Inv, FS!Next, NEW p \in Paths, remote'[p] # remote[p]
    PROVE  \E c \in Callers : OpenOn(c, p)
<1>1. ASSUME NEW c \in Callers, FS!Act(c) PROVE OpenOn(c, p)
  <2>1. remote' = FS!Effect(req[c], remote) /\ req[c] \in FS!Requests
    BY <1>1, FileSystemTyped DEF FS!Act
  <2>2. p \in {req[c].path, req[c].to}
    BY <2>1, EffectIsLocal, FileSystemTyped
  <2> QED BY <1>1, <2>2 DEF FS!Act, OpenOn
<1>2. ASSUME NEW c \in Callers, FS!Empty(c) PROVE OpenOn(c, p)
  <2>1. p = req[c].path
    BY <1>2, FileSystemTyped DEF FS!Empty
  <2> QED BY <1>2, <2>1 DEF FS!Empty, OpenOn
<1>3. remote' # remote
  OBVIOUS
<1> QED BY <1>1, <1>2, <1>3 DEF FS!Next, FS!Return, FS!Find, FS!Call

(* Any number of callers: an answer is true of the server when it is       *)
(* given, and it is the last of its call: no path changes but by a call    *)
(* that names it and has not answered, and once for each call unless it    *)
(* removes.  So nothing that was lost, repeated or cut short by an Unmount *)
(* changes the server after its caller has been told.                      *)
THEOREM AnswersAreFinal ==
    Spec => /\ []AnswersAreTrue
            /\ [][/\ SuccessIsTrue
                  /\ \A p \in Paths :
                        remote'[p] # remote[p] => \E c \in Callers : OpenOn(c, p)]_vars
<1> DEFINE A == /\ SuccessIsTrue
                /\ \A p \in Paths :
                      remote'[p] # remote[p] => \E c \in Callers : OpenOn(c, p)
<1>1. Init => AnswersAreTrue
  <2> SUFFICES ASSUME Init PROVE AnswersAreTrue
    OBVIOUS
  <2>1. \A c \in Callers : answer[c] = "none"
    BY DEF Init
  <2> QED BY <2>1 DEF AnswersAreTrue, told, Told
<1>2. Inv /\ AnswersAreTrue /\ [Next]_vars => AnswersAreTrue' /\ [A]_vars
  <2> SUFFICES ASSUME Inv, AnswersAreTrue, [Next]_vars PROVE AnswersAreTrue' /\ A
    OBVIOUS
  <2>1. CASE UNCHANGED FS!vars
    <3>1. AnswersAreTrue'
      BY <2>1 DEF FS!vars, AnswersAreTrue
    <3>2. A
      BY <2>1 DEF FS!vars, SuccessIsTrue
    <3> QED BY <3>1, <3>2
  <2>2. CASE FS!Next
    <3>1. A
      BY <2>2, AnswersStayTrue, ChangesAreAskedFor
    <3> QED BY <2>2, <3>1, AnswersStayTrue
  <2> QED BY <2>1, <2>2, StepImplements
<1> HIDE DEF A
<1>4. Spec => []AnswersAreTrue /\ [][A]_vars
  BY <1>1, <1>2, InitInv, InvStep, PTL DEF Spec
<1> QED BY <1>4 DEF A
===============================================================================
