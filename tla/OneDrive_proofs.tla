--------------------------- MODULE OneDrive_proofs ---------------------------
(***************************************************************************)
(* The OneDrive driver: its calls, and the writing of a file.              *)
(*                                                                         *)
(* For any number of callers and of retries: every variable keeps its      *)
(* type, so no call makes more attempts than it may, and the mount keeps   *)
(* the grant it refreshes with.                                            *)
(*                                                                         *)
(* The argument: a token on its way to the driver was minted for one       *)
(* caller, so nobody else can spend it (OnItsWay); when a rotating token   *)
(* is spent its successor is on its way, and stored without a condition,   *)
(* so the grant is with the driver or coming (Held).                       *)
(*                                                                         *)
(* And a call that fails has done nothing, unless an answer went unheard;  *)
(* an unmounted driver has no token, unless a refresh was on its way.      *)
(* And no refresh, 401 or retry keeps a call from its end: what is left of *)
(* it is bounded, and less after each of its steps (Left).                 *)
(*                                                                         *)
(* For files, memory, chunks and retries of every size: the server's file  *)
(* is the one before or everything the writer took, and a Close that       *)
(* reports success stored it.                                              *)
(*                                                                         *)
(* The argument: what was taken is all in one place (Kept); the server is  *)
(* never behind what was acknowledged, and finishes the session exactly    *)
(* when it has the last byte (InStep); so sent can reach the file's size   *)
(* only when the server has the file.                                      *)
(*                                                                         *)
(* Nor does a chunk, however often it is repeated, keep Close going: what  *)
(* is unsent shrinks, or the attempts at a chunk run out (Standing).       *)
(***************************************************************************)
EXTENDS OneDriveCalls, OneDriveUpload, TLAPS

Places ==
    {"idle", "ensure", "misread", "refreshing", "storing", "send", "sent", "unmounting"}

-----------------------------------------------------------------------------
(* Records of calls.                                                       *)

LEMMA NewCallTyped ==
    ASSUME NEW op \in {"get", "put", "once", "mount", "unmount"}, NEW t \in 0..MaxTokens
    PROVE  /\ NewCall(op, t) \in Calls
           /\ NewCall(op, t).op = op /\ NewCall(op, t).token = t
           /\ NewCall(op, t).attempt = 0 /\ NewCall(op, t).reason = "stale"
  BY RetriesAssumption DEF NewCall, Calls

LEMMA CarryingTyped ==
    ASSUME NEW r \in Calls, NEW t \in 0..MaxTokens
    PROVE  /\ Carrying(r, t) \in Calls
           /\ Carrying(r, t).op = r.op /\ Carrying(r, t).token = t
           /\ Carrying(r, t).attempt = r.attempt /\ Carrying(r, t).reason = r.reason
  BY DEF Carrying, Calls

LEMMA EndedTyped ==
    ASSUME NEW r \in Calls
    PROVE  /\ Ended(r) \in Calls
           /\ Ended(r).op = r.op /\ Ended(r).attempt = r.attempt /\ Ended(r).reason = "stale"
           /\ Over(r) \in Calls
           /\ Over(r).op = r.op /\ Over(r).reason = "stale"
  <1>1. /\ 0 \in 0..MaxTokens /\ "stale" \in {"stale", "401"}
        /\ 0 \in 0..MaxRetries
    BY TokensAssumption, RetriesAssumption
  <1> QED BY <1>1 DEF Ended, Over, Calls

LEMMA AskingTyped ==
    ASSUME NEW r \in Calls, NEW because \in {"stale", "401"}, refreshToken \in 0..MaxTokens
    PROVE  /\ Asking(r, because) \in Calls
           /\ Asking(r, because).op = r.op /\ Asking(r, because).token = refreshToken
           /\ Asking(r, because).attempt = r.attempt
           /\ Asking(r, because).reason = because
  BY DEF Asking, Calls

LEMMA RenewedTyped ==
    ASSUME NEW r \in Calls, r.attempt = 0
    PROVE  /\ Renewed(r) \in Calls
           /\ Renewed(r).op = r.op /\ Renewed(r).reason = "stale"
           /\ Renewed(r).attempt = 1
  <1>1. 0 \in 0..MaxTokens /\ r.attempt + 1 \in 0..MaxRetries /\ r.attempt + 1 = 1
    BY RetriesAssumption, TokensAssumption
  <1>2. Renewed(r).attempt = r.attempt + 1
    BY DEF Renewed, Calls
  <1> QED BY <1>1, <1>2 DEF Renewed, Calls

LEMMA AttemptTyped ==
    ASSUME NEW r \in Calls, NEW n \in 0..MaxRetries
    PROVE  /\ [r EXCEPT !.attempt = n] \in Calls
           /\ [r EXCEPT !.attempt = n].op = r.op
           /\ [r EXCEPT !.attempt = n].attempt = n
  BY DEF Calls

LEMMA EffectTyped ==
    ASSUME NEW c \in Callers, call[c] \in Calls
    PROVE  /\ Effect(c) \in Calls /\ Unheard(Effect(c)) \in Calls
           /\ Effect(c).op = call[c].op /\ Unheard(Effect(c)).op = call[c].op
  BY DEF Effect, Unheard, Calls

-----------------------------------------------------------------------------
(* What a step does to the callers.                                        *)

(* Caller c goes to a place with a record, and the others stay.            *)
Moves(c, place, r) ==
    /\ place \in Places /\ r \in Calls
    /\ pc' = [pc EXCEPT ![c] = place]
    /\ call' = [call EXCEPT ![c] = r]
    /\ answer' \in [Callers -> Answers]

LEMMA MovesTyped ==
    ASSUME TypeOK, NEW c \in Callers, NEW place, NEW r, Moves(c, place, r)
    PROVE  /\ call' \in [Callers -> Calls]
           /\ pc' \in [Callers -> Places]
           /\ call'[c] = r /\ pc'[c] = place
           /\ \A d \in Callers \ {c} : call'[d] = call[d] /\ pc'[d] = pc[d]
  BY DEF Moves, TypeOK, Places

LEMMA ReturnMoves ==
    ASSUME TypeOK, NEW c \in Callers, NEW r \in Calls, NEW given \in Answers,
           Return(c, r, given)
    PROVE  Moves(c, "idle", Over(r))
  BY EndedTyped DEF Return, Goto, Becomes, Moves, TypeOK, Places

(* A retry leaves the loop or begins its next attempt.                     *)
LEMMA RetryMoves ==
    ASSUME TypeOK, NEW c \in Callers, NEW heard \in Calls, heard.op = call[c].op,
           Retry(c, heard)
    PROVE  \E place \in {"idle", "ensure"}, r \in Calls :
               /\ Moves(c, place, r) /\ r.op = call[c].op /\ r.reason = "stale"
               /\ place = "ensure" => r.attempt = call[c].attempt + 1
  <1>1. CASE call[c].attempt < MaxRetries
    <2> DEFINE next == [heard EXCEPT !.attempt = call[c].attempt + 1]
               r == Ended(next)
    <2>1. call[c].attempt + 1 \in 0..MaxRetries
      BY <1>1, RetriesAssumption DEF TypeOK, Calls
    <2>2. next \in Calls /\ next.op = call[c].op /\ next.attempt = call[c].attempt + 1
      BY <2>1, AttemptTyped
    <2> HIDE DEF next
    <2>3. /\ r \in Calls /\ r.op = call[c].op /\ r.reason = "stale"
          /\ r.attempt = call[c].attempt + 1
      BY <2>2, EndedTyped
    <2>4. Moves(c, "ensure", r)
      BY <1>1, <2>3 DEF next, Retry, Repeat, Goto, Becomes, Moves, TypeOK, Places
    <2> QED BY <2>3, <2>4
  <1>2. CASE ~(call[c].attempt < MaxRetries)
    <2>1. "failed" \in Answers
      BY DEF Answers
    <2>2. Moves(c, "idle", Over(heard))
      BY <1>2, <2>1, ReturnMoves DEF Retry
    <2> QED BY <2>2, EndedTyped
  <1> QED BY <1>1, <1>2

-----------------------------------------------------------------------------
(* The invariant.                                                          *)

LEMMA InitInv == Init => Inv
  <1> SUFFICES ASSUME Init PROVE Inv
    OBVIOUS
  <1>1. 0 \in 0..MaxTokens
    BY TokensAssumption
  <1>2. NewCall("get", 0) \in Calls /\ NewCall("get", 0).reason = "stale"
    <2>1. "get" \in {"get", "put", "once", "mount", "unmount"}
      OBVIOUS
    <2> QED BY ONLY <1>1, <2>1, NewCallTyped
  <1>3. TypeOK
    <2>1. connected \in BOOLEAN /\ fresh \in BOOLEAN
          /\ orphaned \in BOOLEAN /\ stray \in BOOLEAN
      BY Zenon DEF Init
    <2>2. /\ accessToken \in 0..MaxTokens /\ refreshToken \in 0..MaxTokens
          /\ configured \in 0..MaxTokens /\ minted \in 0..MaxTokens
          /\ live \subseteq 1..minted /\ grants \subseteq 0..minted
      BY <1>1 DEF Init
    <2>3. /\ pc \in [Callers -> Places]
          /\ call \in [Callers -> Calls]
          /\ answer \in [Callers -> Answers]
      BY <1>2 DEF Init, Places, Answers
    <2>4. rotation \in {"none", "grace", "single"}
      BY DEF Init
    <2> QED BY <2>1, <2>2, <2>3, <2>4 DEF TypeOK, Places
  <1>4. \A c \in Callers : pc[c] = "idle" /\ call[c].reason = "stale"
    BY <1>2 DEF Init
  <1> QED
    BY <1>3, <1>4 DEF Init, Inv, FirstAttempt, MountAlone, OnItsWay, Held, Mounting,
                      Refreshing, Storing

(* A caller that is not given new tokens and does not start to refresh     *)
(* leaves the invariant alone, even if it forgets the access token or      *)
(* disconnects.                                                            *)
LEMMA QuietMove ==
    ASSUME Inv, NEW c \in Callers, NEW place, NEW r, Moves(c, place, r),
           UNCHANGED <<fresh, refreshToken, microsoft>>,
           accessToken' \in 0..MaxTokens, stray' \in BOOLEAN,
           connected' \in BOOLEAN, connected' => connected,
           pc[c] # "storing", place \notin {"refreshing", "storing"}, r.reason = "stale",
           place = "idle" \/ (r.op # "mount" /\ (pc[c] # "idle" \/ connected))
    PROVE  Inv'
  <1>1. /\ call' \in [Callers -> Calls] /\ pc' \in [Callers -> Places]
        /\ call'[c] = r /\ pc'[c] = place
        /\ \A d \in Callers \ {c} : call'[d] = call[d] /\ pc'[d] = pc[d]
    BY MovesTyped DEF Inv
  <1>2. TypeOK'
    BY <1>1 DEF Inv, TypeOK, Moves, Places, microsoft
  <1>3. FirstAttempt'
    BY <1>1 DEF Inv, FirstAttempt
  <1>4. MountAlone'
    BY <1>1 DEF Inv, MountAlone, Mounting, Refreshing, Storing
  <1>5. OnItsWay'
    BY <1>1 DEF Inv, OnItsWay, Rotating, Refreshing, Storing, microsoft
  <1>6. Held'
    BY <1>1 DEF Inv, Held, Rotating, Mounting, Storing, microsoft
  <1> QED BY <1>2, <1>3, <1>4, <1>5, <1>6 DEF Inv

(* Nor does a caller that only moves.                                      *)
LEMMA PlainMove ==
    ASSUME Inv, NEW c \in Callers, NEW place, NEW r, Moves(c, place, r),
           UNCHANGED <<connected, tokens, microsoft>>,
           pc[c] # "storing", place \notin {"refreshing", "storing"}, r.reason = "stale",
           place = "idle" \/ (r.op # "mount" /\ (pc[c] # "idle" \/ connected))
    PROVE  Inv'
  <1>1. accessToken' \in 0..MaxTokens /\ UNCHANGED <<fresh, refreshToken>>
    BY DEF Inv, TypeOK, tokens
  <1>2. /\ stray' \in BOOLEAN /\ connected' \in BOOLEAN
        /\ connected' => connected
    BY Zenon DEF Inv, TypeOK, tokens
  <1> QED BY <1>1, <1>2, QuietMove

(* A caller that starts to refresh takes the driver's refresh token, which *)
(* is not one that is still on its way.                                    *)
LEMMA RefreshMove ==
    ASSUME Inv, NEW c \in Callers, NEW because \in {"stale", "401"},
           pc[c] \in {"ensure", "sent"}, because = "401" => call[c].attempt = 0,
           StartRefresh(c, because), UNCHANGED <<connected, tokens, microsoft, answer>>
    PROVE  Inv'
  <1> DEFINE r == Asking(call[c], because)
  <1>1. /\ r \in Calls /\ r.op = call[c].op /\ r.token = refreshToken
        /\ r.attempt = call[c].attempt /\ r.reason = because
    BY AskingTyped DEF Inv, TypeOK
  <1>2. Moves(c, "refreshing", r)
    BY <1>1 DEF StartRefresh, Goto, Becomes, Moves, Places, Inv, TypeOK
  <1> HIDE DEF r
  <1>3. /\ call' \in [Callers -> Calls] /\ pc' \in [Callers -> Places]
        /\ call'[c] = r /\ pc'[c] = "refreshing"
        /\ \A d \in Callers \ {c} : call'[d] = call[d] /\ pc'[d] = pc[d]
    BY <1>2, MovesTyped DEF Inv
  <1>4. TypeOK'
    BY <1>2, <1>3 DEF Inv, TypeOK, Moves, Places, tokens, microsoft
  <1>5. FirstAttempt'
    BY <1>1, <1>3 DEF Inv, FirstAttempt
  <1>6. call[c].op # "mount"
    BY DEF Inv, MountAlone, Mounting, Refreshing, Storing
  <1>7. MountAlone'
    BY <1>1, <1>3, <1>6 DEF Inv, MountAlone, Mounting, Refreshing, Storing, tokens
  <1>8. OnItsWay'
    BY <1>1, <1>3 DEF Inv, OnItsWay, Rotating, Refreshing, Storing, tokens, microsoft
  <1>9. Held'
    BY <1>3 DEF Inv, Held, Rotating, Mounting, Storing, tokens, microsoft
  <1> QED BY <1>4, <1>5, <1>7, <1>8, <1>9 DEF Inv

(* What minting does to Microsoft's books.                                 *)
LEMMA Minted ==
    ASSUME TypeOK, NEW c \in Callers, Mint(c)
    PROVE  /\ minted' \in 0..MaxTokens /\ minted' = minted + 1
           /\ live' \subseteq 1..minted' /\ grants' \subseteq 0..minted'
           /\ call[c].token \in grants
           /\ Rotating => minted' \in grants'
           /\ \A t \in grants : t # call[c].token \/ rotation # "single" => t \in grants'
  <1>1. minted' \in 0..MaxTokens /\ minted' = minted + 1 /\ minted \in Nat
    BY TokensAssumption DEF Mint, TypeOK
  <1>2. live' \subseteq 1..minted'
    BY <1>1 DEF Mint, TypeOK
  <1>3. grants' \subseteq 0..minted'
    BY <1>1 DEF Mint, TypeOK
  <1>4. /\ Rotating => minted' \in grants'
        /\ \A t \in grants : t # call[c].token \/ rotation # "single" => t \in grants'
    BY <1>1 DEF Mint, Rotating, TypeOK
  <1> QED BY <1>1, <1>2, <1>3, <1>4 DEF Mint

(* A spent token has a successor on its way, which nobody else can know.   *)
LEMMA RefreshedInv ==
    ASSUME Inv, NEW c \in Callers, Refreshed(c)
    PROVE  Inv'
  <1> DEFINE r == Carrying(call[c], minted + 1)
  <1>1. /\ minted' \in 0..MaxTokens /\ minted' = minted + 1
        /\ live' \subseteq 1..minted' /\ grants' \subseteq 0..minted'
        /\ call[c].token \in grants
        /\ Rotating => minted' \in grants'
        /\ \A t \in grants : t # call[c].token \/ rotation # "single" => t \in grants'
    BY Minted DEF Refreshed, Inv
  <1>2. /\ r \in Calls /\ r.op = call[c].op /\ r.token = minted'
        /\ r.attempt = call[c].attempt /\ r.reason = call[c].reason
    BY <1>1, CarryingTyped DEF Inv, TypeOK
  <1>3. Moves(c, "storing", r)
    BY <1>2 DEF Refreshed, Goto, Becomes, Moves, Places, Inv, TypeOK
  <1> HIDE DEF r
  <1>4. /\ call' \in [Callers -> Calls] /\ pc' \in [Callers -> Places]
        /\ call'[c] = r /\ pc'[c] = "storing" /\ pc[c] = "refreshing"
        /\ \A d \in Callers \ {c} : call'[d] = call[d] /\ pc'[d] = pc[d]
    BY <1>3, MovesTyped DEF Inv, Refreshed, Mint, At
  <1>5. TypeOK'
    BY <1>1, <1>3, <1>4 DEF Inv, TypeOK, Moves, Places, Refreshed, tokens
  <1>6. FirstAttempt'
    BY <1>2, <1>4 DEF Inv, FirstAttempt
  <1>7. MountAlone'
    BY <1>2, <1>4 DEF Inv, MountAlone, Mounting, Refreshing, Storing, Refreshed, tokens
  <1>8. OnItsWay'
    <2>1. minted \in Nat /\ refreshToken \in Nat /\ configured \in Nat
          /\ \A d \in Callers : call[d].token \in Nat
      BY DEF Inv, TypeOK, Calls
    <2>2. refreshToken' <= minted' /\ configured' <= minted'
      BY <1>1, <2>1 DEF Inv, OnItsWay, Refreshed, tokens
    <2>3. \A d \in Callers : Refreshing(d)' \/ Storing(d)' => call'[d].token <= minted'
      BY <1>1, <1>2, <1>4, <2>1 DEF Inv, OnItsWay, Refreshing, Storing
    <2>4. ASSUME Rotating, NEW d \in Callers, Storing(d)'
          PROVE  /\ call'[d].token # refreshToken' /\ call'[d].token # configured'
                 /\ \A e \in Callers \ {d} :
                        Refreshing(e)' \/ Storing(e)' => call'[e].token # call'[d].token
                 /\ ~orphaned => call'[d].token \in grants'
      <3>1. CASE d = c
        BY <1>1, <1>2, <1>4, <2>1, <2>4, <3>1
        DEF Inv, OnItsWay, Refreshing, Storing, Refreshed, tokens
      <3>2. CASE d # c
        <4>1. Storing(d) /\ call'[d] = call[d]
          BY <1>4, <2>4, <3>2 DEF Storing
        <4>2. /\ call[d].token # refreshToken /\ call[d].token # configured
              /\ call[d].token # call[c].token
              /\ ~orphaned => call[d].token \in grants
          BY <1>4, <2>4, <3>2, <4>1 DEF Inv, OnItsWay, Refreshing
        <4>3. call[d].token <= minted
          BY <4>1 DEF Inv, OnItsWay
        <4>4. \A e \in Callers \ {d} :
                  Refreshing(e)' \/ Storing(e)' => call'[e].token # call[d].token
          BY <1>1, <1>2, <1>4, <2>1, <2>4, <4>1, <4>3
          DEF Inv, OnItsWay, Refreshing, Storing
        <4> QED BY <1>1, <4>1, <4>2, <4>4 DEF Refreshed, tokens
      <3> QED BY <3>1, <3>2
    <2> QED
      BY <2>2, <2>3, <2>4 DEF OnItsWay, Rotating, Refreshed
  <1>9. Held'
    <2>1. CASE Rotating
      BY <1>4, <2>1 DEF Held, Rotating, Storing, Refreshed
    <2>2. ASSUME ~Rotating, ~orphaned, connected \/ call[c].op = "mount"
          PROVE  refreshToken \in grants'
      <3>1. refreshToken \in grants
        BY <1>1, <1>4, <2>2 DEF Inv, Held, MountAlone, Mounting, Refreshing, Storing
      <3> QED BY <1>1, <2>2, <3>1 DEF Rotating
    <2>3. (connected \/ \E d \in Callers : Mounting(d) /\ Storing(d))'
              => connected \/ call[c].op = "mount"
              \/ \E d \in Callers : Mounting(d) /\ Storing(d)
      BY <1>2, <1>4 DEF Mounting, Storing, Refreshed
    <2>4. ~ \E d \in Callers : Mounting(d) /\ Storing(d)
      BY <1>4 DEF Inv, MountAlone, Mounting, Storing
    <2> QED
      BY <2>1, <2>2, <2>3, <2>4 DEF Held, Rotating, Refreshed, tokens
  <1> QED BY <1>5, <1>6, <1>7, <1>8, <1>9 DEF Inv

(* A reply lost on its way leaves the mount without a grant to keep.       *)
LEMMA UnheardInv ==
    ASSUME Inv, NEW c \in Callers, RefreshUnheard(c)
    PROVE  Inv'
  <1>1. /\ minted' \in 0..MaxTokens /\ minted' = minted + 1
        /\ live' \subseteq 1..minted' /\ grants' \subseteq 0..minted'
    BY Minted DEF RefreshUnheard, Inv
  <1>2. Moves(c, "idle", Over(call[c]))
    BY ReturnMoves DEF RefreshUnheard, Inv, TypeOK, Answers
  <1>3. /\ call' \in [Callers -> Calls] /\ pc' \in [Callers -> Places]
        /\ call'[c] = Over(call[c]) /\ pc'[c] = "idle"
        /\ \A d \in Callers \ {c} : call'[d] = call[d] /\ pc'[d] = pc[d]
    BY <1>2, MovesTyped DEF Inv
  <1>4. Over(call[c]).reason = "stale"
    BY EndedTyped DEF Inv, TypeOK
  <1>5. orphaned'
    BY DEF RefreshUnheard
  <1>6. orphaned' \in BOOLEAN
    BY Zenon DEF RefreshUnheard
  <1>7. TypeOK'
    BY <1>1, <1>2, <1>3, <1>6 DEF Inv, TypeOK, Moves, Places, RefreshUnheard, tokens
  <1>8. FirstAttempt'
    BY <1>3, <1>4 DEF Inv, FirstAttempt
  <1>9. MountAlone'
    BY <1>3 DEF Inv, MountAlone, Mounting, Refreshing, Storing, RefreshUnheard, tokens
  <1>10. OnItsWay'
    <2>1. minted \in Nat /\ refreshToken \in Nat /\ configured \in Nat
          /\ \A d \in Callers : call[d].token \in Nat
      BY DEF Inv, TypeOK, Calls
    <2> QED
      BY <1>1, <1>3, <1>5, <2>1
      DEF Inv, OnItsWay, Rotating, Refreshing, Storing, RefreshUnheard, tokens
  <1> QED BY <1>5, <1>7, <1>8, <1>9, <1>10 DEF Inv, Held

(* The stored token is one Microsoft accepts, and no other on its way.     *)
LEMMA StoreInv ==
    ASSUME Inv, NEW c \in Callers, Store(c)
    PROVE  Inv'
  <1>1. pc[c] = "storing" /\ call[c] \in Calls
    BY DEF Store, At, Inv, TypeOK
  <1>2. \E place \in {"idle", "ensure", "send"}, r \in Calls :
            Moves(c, place, r) /\ r.op = call[c].op /\ r.reason = "stale"
            /\ (place # "idle" => r.op # "mount")
    <2>1. CASE call[c].op = "mount"
      <3>1. Moves(c, "idle", Over(call[c]))
        BY <2>1, ReturnMoves DEF Store, GoOn, Inv, TypeOK, Answers
      <3> QED BY <1>1, <3>1, EndedTyped
    <2>2. CASE call[c].op # "mount" /\ call[c].reason = "401"
      <3>1. Renewed(call[c]) \in Calls /\ Renewed(call[c]).op = call[c].op
            /\ Renewed(call[c]).reason = "stale"
        BY <1>1, <2>2, RenewedTyped DEF Inv, FirstAttempt
      <3>2. Moves(c, "ensure", Renewed(call[c]))
        BY <2>2, <3>1 DEF Store, GoOn, Goto, Becomes, Moves, Places, Inv, TypeOK
      <3> QED BY <2>2, <3>1, <3>2
    <2>3. CASE call[c].op # "mount" /\ call[c].reason # "401"
      <3>1. Moves(c, "send", Ended(call[c]))
        BY <1>1, <2>3, EndedTyped DEF Store, GoOn, Goto, Becomes, Moves, Places, Inv, TypeOK
      <3> QED BY <1>1, <2>3, <3>1, EndedTyped
    <2> QED BY <2>1, <2>2, <2>3
  <1>3. PICK place \in {"idle", "ensure", "send"}, r \in Calls :
            Moves(c, place, r) /\ r.op = call[c].op /\ r.reason = "stale"
            /\ (place # "idle" => r.op # "mount")
    BY <1>2
  <1>4. /\ call' \in [Callers -> Calls] /\ pc' \in [Callers -> Places]
        /\ call'[c] = r /\ pc'[c] = place
        /\ \A d \in Callers \ {c} : call'[d] = call[d] /\ pc'[d] = pc[d]
    BY <1>3, MovesTyped DEF Inv
  <1>5. call[c].token \in 0..MaxTokens /\ call[c].token <= minted
    BY <1>1 DEF Inv, OnItsWay, Storing, Calls
  <1>6. /\ connected' \in BOOLEAN
        /\ connected' # connected => call[c].op = "mount" /\ pc'[c] = "idle"
    <2>1. CASE call[c].op = "mount"
      BY <2>1, <1>4, Zenon DEF Store, GoOn, Return, Goto, Inv, TypeOK
    <2>2. CASE call[c].op # "mount"
      BY <2>2 DEF Store, GoOn, Inv, TypeOK
    <2> QED BY <2>1, <2>2
  <1>7. refreshToken' = IF Rotating THEN call[c].token ELSE refreshToken
    BY DEF Store, Rotating
  <1>8. TypeOK'
    <2>1. fresh' \in BOOLEAN /\ stray' \in BOOLEAN
      BY Zenon DEF Store, Astray
    <2>2. accessToken' \in 0..MaxTokens /\ refreshToken' \in 0..MaxTokens
      BY <1>5, <1>7 DEF Store, Inv, TypeOK
    <2> QED
      BY <1>3, <1>4, <1>6, <2>1, <2>2 DEF Inv, TypeOK, Moves, Places, Store, microsoft
  <1>9. FirstAttempt'
    BY <1>3, <1>4 DEF Inv, FirstAttempt
  <1>10. MountAlone'
    BY <1>1, <1>3, <1>4, <1>6 DEF Inv, MountAlone, Mounting, Refreshing, Storing
  <1>11. OnItsWay'
    <2>1. refreshToken' <= minted'
      BY <1>5, <1>7 DEF Inv, OnItsWay, Store, microsoft
    <2>2. ASSUME Rotating, NEW d \in Callers \ {c}, Storing(d)
          PROVE  call[d].token # call[c].token
      BY <1>1, <2>2 DEF Inv, OnItsWay, Storing
    <2> QED
      BY <1>3, <1>4, <1>7, <2>1, <2>2
      DEF Inv, OnItsWay, Rotating, Refreshing, Storing, Store, microsoft
  <1>12. Held'
    <2>1. CASE Rotating
      <3>1. ~orphaned => refreshToken' \in grants'
        BY <1>1, <1>7, <2>1 DEF Inv, OnItsWay, Storing, Store, microsoft
      <3> QED BY <3>1 DEF Held, Store, microsoft
    <2>2. CASE ~Rotating
      <3>1. connected' => connected \/ (Mounting(c) /\ Storing(c))
        BY <1>1, <1>6 DEF Mounting, Storing
      <3>2. \A d \in Callers : (Mounting(d) /\ Storing(d))' => Mounting(d) /\ Storing(d)
        BY <1>3, <1>4 DEF Mounting, Storing
      <3> QED
        BY <1>7, <2>2, <3>1, <3>2 DEF Inv, Held, Rotating, Store, microsoft
    <2> QED BY <2>1, <2>2
  <1> QED BY <1>8, <1>9, <1>10, <1>11, <1>12 DEF Inv

(* A mount starts alone, with the token the host configured.               *)
LEMMA MountInv ==
    ASSUME Inv, NEW c \in Callers, Mount(c)
    PROVE  Inv'
  <1> DEFINE r == NewCall("mount", configured)
  <1>1. r \in Calls /\ r.op = "mount" /\ r.token = configured /\ r.reason = "stale"
    <2>1. "mount" \in {"get", "put", "once", "mount", "unmount"} /\ configured \in 0..MaxTokens
      BY DEF Inv, TypeOK
    <2> QED BY ONLY <2>1, NewCallTyped
  <1>2. Moves(c, "refreshing", r)
    BY <1>1 DEF Mount, Goto, Becomes, Moves, Places, Inv, TypeOK
  <1> HIDE DEF r
  <1>3. /\ call' \in [Callers -> Calls] /\ pc' \in [Callers -> Places]
        /\ call'[c] = r /\ pc'[c] = "refreshing"
        /\ \A d \in Callers \ {c} : call'[d] = call[d] /\ pc'[d] = "idle"
    BY <1>2, MovesTyped DEF Inv, Mount, At
  <1>4. TypeOK'
    <2>1. fresh' \in BOOLEAN /\ orphaned' \in BOOLEAN /\ stray' \in BOOLEAN
      BY Zenon DEF Mount
    <2>2. accessToken' \in 0..MaxTokens
      BY TokensAssumption DEF Mount
    <2> QED BY <1>2, <1>3, <2>1, <2>2 DEF Inv, TypeOK, Moves, Places, Mount
  <1>5. FirstAttempt'
    BY <1>1, <1>3 DEF Inv, FirstAttempt
  <1>6. MountAlone'
    BY <1>1, <1>3 DEF MountAlone, Mounting, Refreshing, Storing, Mount
  <1>7. OnItsWay'
    BY <1>1, <1>3 DEF Inv, OnItsWay, Rotating, Refreshing, Storing, Mount
  <1>8. Held'
    BY <1>3 DEF Held, Mounting, Storing, Mount
  <1> QED BY <1>4, <1>5, <1>6, <1>7, <1>8 DEF Inv

(* Unmount begins with a mounted driver, and ends with none.               *)
LEMMA UnmountInv ==
    ASSUME Inv, NEW c \in Callers, Unmount(c) \/ Unmounted(c)
    PROVE  Inv'
  <1>1. stray \in BOOLEAN /\ accessToken \in 0..MaxTokens /\ 0 \in 0..MaxTokens
    BY TokensAssumption DEF Inv, TypeOK
  <1>2. CASE Unmount(c)
    <2> DEFINE r == NewCall("unmount", 0)
    <2>1. r \in Calls /\ r.op # "mount" /\ r.reason = "stale"
      <3>1. "unmount" \in {"get", "put", "once", "mount", "unmount"} /\ "unmount" # "mount"
        OBVIOUS
      <3> QED BY ONLY <1>1, <3>1, NewCallTyped
    <2>2. Moves(c, "unmounting", r)
      BY <1>2, <2>1
      DEF Unmount, Unmounting, Goto, Becomes, Moves, Places, Inv, TypeOK, Answers
    <2> HIDE DEF r
    <2>3. connected /\ pc[c] = "idle" /\ accessToken' = 0
          /\ UNCHANGED <<fresh, refreshToken, microsoft>>
      BY <1>2 DEF Unmount, Unmounting, At
    <2>4. /\ stray' \in BOOLEAN /\ connected' \in BOOLEAN
          /\ connected' => connected
      BY <1>2, Zenon DEF Unmount, Unmounting, Inv, TypeOK
    <2> QED BY <1>1, <2>1, <2>2, <2>3, <2>4, QuietMove
  <1>3. CASE Unmounted(c)
    <2>1. Moves(c, "idle", Over(call[c])) /\ Over(call[c]).reason = "stale"
      BY <1>3, ReturnMoves, EndedTyped DEF Unmounted, Inv, TypeOK, Answers
    <2>2. stray' \in BOOLEAN /\ connected' \in BOOLEAN /\ (connected' => connected)
      BY <1>3, Zenon DEF Unmounted
    <2>3. pc[c] # "storing" /\ UNCHANGED <<accessToken, fresh, refreshToken, microsoft>>
      BY <1>3 DEF Unmounted, At
    <2> QED BY <1>1, <2>1, <2>2, <2>3, QuietMove
  <1> QED BY <1>2, <1>3

(* What does not move a caller.                                            *)
LEMMA ElsewhereInv ==
    ASSUME Inv, Stale \/ Expire \/ Revoke \/ Reauthorise \/ UNCHANGED vars
    PROVE  Inv'
  <1>1. CASE Stale
    <2>1. fresh' \in BOOLEAN
      BY <1>1, Zenon DEF Stale
    <2> QED
      BY <1>1, <2>1
      DEF Stale, Inv, TypeOK, FirstAttempt, MountAlone, OnItsWay, Held, Rotating,
          Mounting, Refreshing, Storing, microsoft
  <1>2. CASE Expire
    BY <1>2
    DEF Expire, Inv, TypeOK, FirstAttempt, MountAlone, OnItsWay, Held, Rotating,
        Mounting, Refreshing, Storing, tokens
  <1>3. CASE Revoke
    <2>1. orphaned' /\ orphaned' \in BOOLEAN
      BY <1>3, Zenon DEF Revoke
    <2> QED
      BY <1>3, <2>1
      DEF Revoke, Inv, TypeOK, FirstAttempt, MountAlone, OnItsWay, Held, Rotating,
          Mounting, Refreshing, Storing, tokens
  <1>4. CASE Reauthorise
    <2>1. minted \in Nat /\ minted' = minted + 1 /\ minted' \in 0..MaxTokens
          /\ configured' = minted'
      BY <1>4, TokensAssumption DEF Reauthorise, Inv, TypeOK
    <2>2. live' \subseteq 1..minted' /\ grants' \subseteq 0..minted' /\ grants \subseteq grants'
      BY <1>4, <2>1 DEF Reauthorise, Inv, TypeOK
    <2>3. TypeOK'
      BY <1>4, <2>1, <2>2 DEF Reauthorise, Inv, TypeOK, tokens
    <2>4. FirstAttempt' /\ MountAlone' /\ Held'
      BY <1>4, <2>2
      DEF Reauthorise, Inv, FirstAttempt, MountAlone, Held, Rotating, Mounting,
          Refreshing, Storing, tokens
    <2>5. OnItsWay'
      <3>1. refreshToken \in Nat /\ \A c \in Callers : call[c].token \in Nat
        BY DEF Inv, TypeOK, Calls
      <3> QED
        BY <1>4, <2>1, <2>2, <3>1
        DEF Reauthorise, Inv, OnItsWay, Rotating, Refreshing, Storing, tokens
    <2> QED BY <2>3, <2>4, <2>5 DEF Inv
  <1>5. CASE UNCHANGED vars
    BY <1>5
    DEF vars, Inv, TypeOK, FirstAttempt, MountAlone, OnItsWay, Held, Rotating,
        Mounting, Refreshing, Storing
  <1> QED BY <1>1, <1>2, <1>3, <1>4, <1>5

LEMMA StepInv == Inv /\ [Next]_vars => Inv'
  <1> SUFFICES ASSUME Inv, [Next]_vars PROVE Inv'
    OBVIOUS
  <1>1. TypeOK /\ \A c \in Callers : call[c] \in Calls
    BY DEF Inv, TypeOK
  <1>2. ASSUME NEW c \in Callers, pc[c] \notin {"idle", "refreshing", "storing"}
        PROVE  call[c].op # "mount"
    BY <1>2 DEF Inv, MountAlone, Mounting, Refreshing, Storing
  <1>3. ASSUME NEW c \in Callers, NEW given \in Answers, NEW r \in Calls,
               Return(c, r, given), UNCHANGED <<connected, tokens, microsoft>>,
               pc[c] # "storing"
        PROVE  Inv'
    <2>1. Moves(c, "idle", Over(r)) /\ Over(r).reason = "stale"
      BY <1>1, <1>3, ReturnMoves, EndedTyped
    <2> QED BY <1>3, <2>1, PlainMove
  <1>4. ASSUME NEW c \in Callers, pc[c] = "sent", NEW heard \in Calls,
               heard.op = call[c].op, Retry(c, heard),
               UNCHANGED <<connected, tokens, microsoft>>
        PROVE  Inv'
    <2>1. PICK place \in {"idle", "ensure"}, r \in Calls :
              Moves(c, place, r) /\ r.op = call[c].op /\ r.reason = "stale"
      BY <1>1, <1>4, RetryMoves
    <2> QED BY <1>2, <1>4, <2>1, PlainMove
  <1>5. ASSUME NEW c \in Callers, NEW op \in Ops, Begin(c, op) PROVE Inv'
    <2> DEFINE r == NewCall(op, 0)
    <2>1. r \in Calls /\ r.op # "mount" /\ r.reason = "stale"
      <3>1. op \in {"get", "put", "once", "mount", "unmount"} /\ op # "mount" /\ 0 \in 0..MaxTokens
        BY OpsAssumption, TokensAssumption
      <3> QED BY ONLY <3>1, NewCallTyped
    <2> HIDE DEF r
    <2>2. CASE connected
      <3>1. Moves(c, "ensure", r)
        BY <1>1, <1>5, <2>1, <2>2
        DEF Begin, Goto, Becomes, Moves, Places, TypeOK, Answers, r
      <3> QED BY <1>5, <2>1, <2>2, <3>1, PlainMove DEF Begin, At
    <2>3. CASE ~connected
      <3>1. Moves(c, "idle", r)
        BY <1>1, <1>5, <2>1, <2>3 DEF Begin, At, Becomes, Moves, Places, TypeOK, Answers, r
      <3> QED BY <1>5, <2>1, <2>3, <3>1, PlainMove DEF Begin, At
    <2> QED BY <2>2, <2>3
  <1>6. ASSUME NEW c \in Callers, Ensure(c) PROVE Inv'
    <2>1. CASE accessToken = 0 \/ ~fresh
      BY <1>6, <2>1, RefreshMove DEF Ensure, Needed, At
    <2>2. CASE ~(accessToken = 0 \/ ~fresh)
      <3>1. pc' = [pc EXCEPT ![c] = "send"] /\ UNCHANGED <<call, answer>>
        BY <1>6, <2>2 DEF Ensure, Needed, Goto
      <3>2. UNCHANGED <<connected, tokens, microsoft>> /\ pc[c] = "ensure"
        BY <1>6 DEF Ensure, At
      <3>3. pc' \in [Callers -> Places] /\ \A d \in Callers \ {c} : pc'[d] = pc[d]
        BY <1>1, <3>1 DEF TypeOK, Places
      <3>4. call[c].op # "mount"
        BY <1>2, <3>2
      <3>5. pc'[c] = "send"
        BY <1>1, <3>1 DEF TypeOK
      <3>6. TypeOK' /\ FirstAttempt' /\ MountAlone'
        BY <3>1, <3>2, <3>3, <3>4, <3>5
        DEF Inv, TypeOK, FirstAttempt, MountAlone, Mounting, Refreshing, Storing, Places,
            tokens, microsoft
      <3>7. OnItsWay' /\ Held'
        BY <3>1, <3>2, <3>3, <3>5
        DEF Inv, OnItsWay, Held, Rotating, Mounting, Refreshing, Storing, tokens, microsoft
      <3> QED BY <3>6, <3>7 DEF Inv
    <2> QED BY <2>1, <2>2
  <1>7. ASSUME NEW c \in Callers, Rejected(c) \/ RefreshFails(c) PROVE Inv'
    BY <1>1, <1>3, <1>7 DEF Rejected, RefreshFails, At, Answers
  <1>8. ASSUME NEW c \in Callers, Send(c) PROVE Inv'
    <2> DEFINE r == Carrying(call[c], accessToken)
    <2>1. r \in Calls /\ r.op = call[c].op /\ r.reason = call[c].reason
          /\ r.attempt = call[c].attempt
      BY <1>1, CarryingTyped DEF TypeOK
    <2>2. Moves(c, "sent", r) /\ pc[c] = "send"
      BY <1>1, <1>8, <2>1 DEF Send, At, Goto, Becomes, Moves, Places, TypeOK
    <2> HIDE DEF r
    <2>3. /\ call' \in [Callers -> Calls] /\ pc' \in [Callers -> Places]
          /\ call'[c] = r /\ pc'[c] = "sent"
          /\ \A d \in Callers \ {c} : call'[d] = call[d] /\ pc'[d] = pc[d]
      BY <1>1, <2>2, MovesTyped
    <2>4. call[c].op # "mount"
      BY <1>2, <2>2
    <2>5. TypeOK' /\ FirstAttempt' /\ MountAlone'
      BY <1>8, <2>1, <2>2, <2>3, <2>4
      DEF Send, Inv, TypeOK, FirstAttempt, MountAlone, Mounting, Refreshing, Storing,
          Places, Moves, tokens, microsoft
    <2>6. OnItsWay' /\ Held'
      BY <1>8, <2>2, <2>3
      DEF Send, Inv, OnItsWay, Held, Rotating, Mounting, Refreshing, Storing, tokens,
          microsoft
    <2> QED BY <2>5, <2>6 DEF Inv
  <1>9. ASSUME NEW c \in Callers, Succeeds(c) PROVE Inv'
    <2>1. Effect(c) \in Calls /\ "ok" \in Answers
      BY <1>1, EffectTyped DEF Answers
    <2> QED BY <1>3, <1>9, <2>1 DEF Succeeds, Acts, Authorized, At
  <1>10. ASSUME NEW c \in Callers, Refused(c) PROVE Inv'
    BY <1>1, <1>3, <1>10 DEF Refused, Authorized, At, Answers
  <1>11. ASSUME NEW c \in Callers, Interrupted(c) PROVE Inv'
    <2>1. /\ Unheard(Effect(c)) \in Calls
          /\ Unheard(Effect(c)).op = call[c].op
      BY <1>1, EffectTyped
    <2> QED BY <1>1, <1>4, <1>11, <2>1 DEF Interrupted, At
  <1>12. ASSUME NEW c \in Callers, Unauthorized(c) PROVE Inv'
    <2>1. CASE call[c].attempt = 0
      BY <1>12, <2>1, RefreshMove DEF Unauthorized, Disputed, At
    <2>2. CASE call[c].attempt # 0
      BY <1>1, <1>3, <1>12, <2>2 DEF Unauthorized, Disputed, At, Answers
    <2> QED BY <2>1, <2>2
  <1>13. ASSUME NEW c \in Callers, Misread(c) PROVE Inv'
    <2>1. /\ Ended(call[c]) \in Calls /\ Ended(call[c]).op = call[c].op
          /\ Ended(call[c]).reason = "stale"
      BY <1>1, EndedTyped
    <2>2. pc[c] \in {"ensure", "sent"}
      BY <1>13 DEF Misread, Needed, Disputed, At
    <2>3. Moves(c, "misread", Ended(call[c]))
      BY <1>1, <1>13, <2>1 DEF Misread, Goto, Becomes, Moves, Places, TypeOK
    <2> QED BY <1>2, <1>13, <2>1, <2>2, <2>3, PlainMove DEF Misread
  <1>14. ASSUME NEW c \in Callers, Step(c) PROVE Inv'
    BY <1>6, <1>7, <1>8, <1>9, <1>10, <1>11, <1>12, <1>13, <1>14, RefreshedInv, UnheardInv,
       StoreInv, UnmountInv DEF Step
  <1> QED
    BY <1>5, <1>14, MountInv, UnmountInv, ElsewhereInv DEF Next

LEMMA Invariance == Spec => []Inv
  BY InitInv, StepInv, PTL DEF Spec

(* However many callers and retries, every call stays within its attempts. *)
THEOREM TypeCorrect == Spec => []TypeOK
  BY Invariance, PTL DEF Inv

(* However the callers' refreshes interleave and whatever Microsoft does   *)
(* to a refresh token that was used, the mount keeps its grant.            *)
THEOREM GrantNeverLost == Spec => []GrantKept
  <1>1. Inv => GrantKept
    BY DEF Inv, Held, GrantKept, Mounting, Storing
  <1> QED BY <1>1, Invariance, PTL

-----------------------------------------------------------------------------
(* What a call that does not succeed has done, and what Unmount leaves.    *)

(* What the server carried out, an answer left unsaid; the call whose      *)
(* answer said it has returned.                                            *)
Accounted(r) == "acted" \in r.history => "unheard" \in r.history
History ==
    \A c \in Callers : Accounted(call[c]) \/ (pc[c] = "idle" /\ answer[c] = "ok")

(* From the moment Unmount clears it, the token stays away, unless a call  *)
(* stores one astray.                                                      *)
Forgotten ==
    ~stray /\ (~connected \/ \E c \in Callers : At(c, "unmounting")) => accessToken = 0

(* In a driver that is not mounted nothing is under way but a mount, or    *)
(* what Unmount left there.                                                *)
Deserted == ~stray /\ ~connected => \A c \in Callers : UnderWay(c) => call[c].op = "mount"

LEMMA HistoryInit == Init => History /\ Forgotten /\ Deserted
  BY DEF Init, History, Forgotten, Deserted, UnderWay, Accounted, NewCall

LEMMA HistoryKept ==
    ASSUME NEW r \in Calls, NEW t, NEW n, NEW because
    PROVE  /\ Carrying(r, t).history = r.history
           /\ Ended(r).history = r.history /\ Over(r).history = r.history
           /\ Asking(r, because).history = r.history
           /\ Renewed(r).history = r.history
           /\ [r EXCEPT !.attempt = n].history = r.history
  BY DEF Carrying, Ended, Over, Asking, Renewed, Calls

LEMMA Outcome ==
    ASSUME NEW c \in Callers, call[c] \in Calls
    PROVE  Accounted(Unheard(Effect(c)))
  BY DEF Accounted, Unheard, Effect, Calls

(* One caller moves, with a record that is accounted for or a success.     *)
LEMMA AccountedMove ==
    ASSUME TypeOK, History, NEW c \in Callers, NEW place, NEW r,
           Goto(c, place), Becomes(c, r),
           \A d \in Callers \ {c} : answer'[d] = answer[d],
           Accounted(r) \/ (place = "idle" /\ answer'[c] = "ok")
    PROVE  History'
  <1>1. call'[c] = r /\ pc'[c] = place
    BY DEF Goto, Becomes, TypeOK
  <1>2. \A d \in Callers \ {c} : call'[d] = call[d] /\ pc'[d] = pc[d]
    BY DEF Goto, Becomes, TypeOK
  <1>3. Accounted(call'[c]) \/ (pc'[c] = "idle" /\ answer'[c] = "ok")
    BY <1>1
  <1>4. ASSUME NEW d \in Callers \ {c}
        PROVE  Accounted(call'[d]) \/ (pc'[d] = "idle" /\ answer'[d] = "ok")
    BY <1>2 DEF History
  <1> QED BY <1>3, <1>4 DEF History, Accounted

LEMMA AccountedReturn ==
    ASSUME TypeOK, History, NEW c \in Callers, NEW r \in Calls, NEW given,
           Return(c, r, given), Accounted(r) \/ given = "ok"
    PROVE  History'
  <1>1. Accounted(Over(r)) \/ given = "ok"
    BY HistoryKept DEF Accounted
  <1>2. answer'[c] = given /\ \A d \in Callers \ {c} : answer'[d] = answer[d]
    BY DEF Return, TypeOK
  <1> QED BY <1>1, <1>2, AccountedMove DEF Return

LEMMA AccountedRetry ==
    ASSUME TypeOK, History, NEW c \in Callers, NEW heard \in Calls, Retry(c, heard),
           Accounted(heard)
    PROVE  History'
  <1>1. CASE call[c].attempt < MaxRetries
    <2> DEFINE next == [heard EXCEPT !.attempt = call[c].attempt + 1]
    <2>1. next \in Calls /\ next.history = heard.history
      <3>1. call[c].attempt + 1 \in 0..MaxRetries
        BY <1>1, RetriesAssumption DEF TypeOK, Calls
      <3> QED BY <3>1, AttemptTyped, HistoryKept
    <2> HIDE DEF next
    <2>2. Accounted(Ended(next))
      BY <2>1, HistoryKept DEF Accounted
    <2>3. Goto(c, "ensure") /\ Becomes(c, Ended(next)) /\ UNCHANGED answer
      BY <1>1 DEF Retry, Repeat, next
    <2> QED BY <2>2, <2>3, AccountedMove
  <1>2. CASE ~(call[c].attempt < MaxRetries)
    BY <1>2, AccountedReturn DEF Retry
  <1> QED BY <1>1, <1>2

(* What a caller did is written down at every step of it.                  *)
LEMMA HistoryStep == TypeOK /\ History /\ [Next]_vars => History'
  <1> SUFFICES ASSUME TypeOK, History, [Next]_vars PROVE History'
    OBVIOUS
  <1>1. \A c \in Callers : call[c] \in Calls
    BY DEF TypeOK
  <1>2. ASSUME NEW c \in Callers, pc[c] # "idle" PROVE Accounted(call[c])
    BY <1>2 DEF History
  <1>3. ASSUME NEW op, NEW t PROVE Accounted(NewCall(op, t))
    BY DEF NewCall, Accounted
  <1>4. ASSUME NEW c \in Callers, Mount(c) \/ Unmount(c) PROVE History'
    <2>1. \A d \in Callers \ {c} : answer'[d] = answer[d]
      BY <1>4 DEF Mount, Unmount, Unmounting, TypeOK
    <2> QED BY <1>3, <1>4, <2>1, AccountedMove DEF Mount, Unmount, Unmounting
  <1>5. ASSUME NEW c \in Callers, NEW op \in Ops, Begin(c, op) PROVE History'
    <2>1. Becomes(c, NewCall(op, 0)) /\ Accounted(NewCall(op, 0))
          /\ \A d \in Callers \ {c} : answer'[d] = answer[d]
      BY <1>3, <1>5 DEF Begin, TypeOK
    <2>2. Goto(c, "ensure") \/ Goto(c, "idle")
      BY <1>5 DEF Begin, At, Goto, TypeOK
    <2> QED BY <2>1, <2>2, AccountedMove
  <1>6. ASSUME NEW c \in Callers, Misread(c) PROVE History'
    <2>1. Accounted(Ended(call[c]))
      BY <1>1, <1>2, <1>6, HistoryKept DEF Misread, Needed, Disputed, At, Accounted
    <2> QED BY <1>6, <2>1, AccountedMove DEF Misread
  <1>7. ASSUME NEW c \in Callers, NEW because, pc[c] # "idle", StartRefresh(c, because),
               UNCHANGED answer
        PROVE  History'
    <2>1. Accounted(Asking(call[c], because))
      BY <1>1, <1>2, <1>7, HistoryKept DEF Accounted
    <2> QED BY <1>7, <2>1, AccountedMove DEF StartRefresh
  <1>8. ASSUME NEW c \in Callers, Ensure(c) PROVE History'
    <2>1. CASE Needed(c)
      BY <1>7, <1>8, <2>1 DEF Ensure, At
    <2>2. CASE ~Needed(c)
      <3>1. Accounted(call[c]) /\ Goto(c, "send") /\ UNCHANGED <<call, answer>>
        BY <1>2, <1>8, <2>2 DEF Ensure, At
      <3>2. Becomes(c, call[c])
        BY <3>1 DEF Becomes, TypeOK
      <3> QED BY <3>1, <3>2, AccountedMove
    <2> QED BY <2>1, <2>2
  <1>9. ASSUME NEW c \in Callers, Refreshed(c) PROVE History'
    <2>1. Accounted(Carrying(call[c], minted + 1))
      BY <1>1, <1>2, <1>9, HistoryKept DEF Refreshed, Mint, At, Accounted
    <2> QED BY <1>9, <2>1, AccountedMove DEF Refreshed
  <1>10. ASSUME NEW c \in Callers, NEW given, pc[c] # "idle",
                Return(c, call[c], given)
         PROVE  History'
    BY <1>1, <1>2, <1>10, AccountedReturn
  <1>11. ASSUME NEW c \in Callers, Store(c) PROVE History'
    <2>1. pc[c] # "idle" /\ GoOn(c)
      BY <1>11 DEF Store, At
    <2>2. Accounted(Renewed(call[c])) /\ Accounted(Ended(call[c]))
      BY <1>1, <1>2, <2>1, HistoryKept DEF Accounted
    <2> QED BY <1>10, <2>1, <2>2, AccountedMove DEF GoOn
  <1>12. ASSUME NEW c \in Callers,
                \/ Rejected(c) \/ RefreshFails(c) \/ RefreshUnheard(c) \/ Refused(c)
                \/ Unmounted(c)
         PROVE  History'
    BY <1>10, <1>12
    DEF Rejected, RefreshFails, RefreshUnheard, Mint, Refused, Authorized, Unmounted, At
  <1>13. ASSUME NEW c \in Callers, Send(c) PROVE History'
    <2>1. Accounted(Carrying(call[c], accessToken))
      BY <1>1, <1>2, <1>13, HistoryKept DEF Send, At, Accounted
    <2> QED BY <1>13, <2>1, AccountedMove DEF Send
  <1>14. ASSUME NEW c \in Callers, Succeeds(c) PROVE History'
    BY <1>1, <1>14, EffectTyped, AccountedReturn DEF Succeeds
  <1>15. ASSUME NEW c \in Callers, Interrupted(c) PROVE History'
    <2>1. Accounted(call[c]) /\ (Retry(c, call[c]) \/ Retry(c, Unheard(Effect(c))))
      BY <1>2, <1>15 DEF Interrupted, At
    <2>2. Unheard(Effect(c)) \in Calls /\ Accounted(Unheard(Effect(c)))
      BY <1>1, EffectTyped, Outcome
    <2> QED BY <1>1, <2>1, <2>2, AccountedRetry
  <1>16. ASSUME NEW c \in Callers, Unauthorized(c) PROVE History'
    <2>1. pc[c] # "idle"
      BY <1>16 DEF Unauthorized, At
    <2> QED BY <1>7, <1>10, <1>16, <2>1 DEF Unauthorized
  <1>17. ASSUME NEW c \in Callers, Step(c) PROVE History'
    BY <1>6, <1>8, <1>9, <1>11, <1>12, <1>13, <1>14, <1>15, <1>16, <1>17 DEF Step
  <1>18. ASSUME UNCHANGED <<pc, call, answer>> PROVE History'
    BY <1>18 DEF History, Accounted
  <1>19. CASE Stale \/ Expire \/ Revoke \/ Reauthorise \/ UNCHANGED vars
    BY <1>18, <1>19 DEF Stale, Expire, Revoke, Reauthorise, vars
  <1> QED BY <1>4, <1>5, <1>17, <1>19 DEF Next

(* A call keeps its kind while it is under way, and comes to be under way  *)
(* by passing the guard.                                                   *)
LEMMA KindKept ==
    ASSUME TypeOK, NEW c \in Callers, Step(c)
    PROVE  /\ \A d \in Callers \ {c} : call'[d] = call[d] /\ pc'[d] = pc[d]
           /\ pc'[c] # "unmounting"
           /\ UnderWay(c)' => UnderWay(c) /\ call'[c].op = call[c].op
  <1>1. call[c] \in Calls /\ pc[c] \in Places
    BY DEF TypeOK, Places
  <1>2. ASSUME NEW place, NEW r, Goto(c, place), Becomes(c, r), place # "unmounting",
               pc[c] \notin {"idle", "unmounting"} \/ place = "idle",
               place = "idle" \/ r.op = call[c].op
        PROVE  /\ \A d \in Callers \ {c} : call'[d] = call[d] /\ pc'[d] = pc[d]
               /\ pc'[c] # "unmounting"
               /\ UnderWay(c)' => UnderWay(c) /\ call'[c].op = call[c].op
    <2>1. call'[c] = r /\ pc'[c] = place
          /\ \A d \in Callers \ {c} : call'[d] = call[d] /\ pc'[d] = pc[d]
      BY <1>2 DEF Goto, Becomes, TypeOK
    <2> QED BY <1>2, <2>1 DEF UnderWay
  <1>3. ASSUME NEW r, NEW given, Return(c, r, given)
        PROVE  \E q : Goto(c, "idle") /\ Becomes(c, q)
    BY <1>3 DEF Return
  <1>4. ASSUME NEW heard \in Calls, heard.op = call[c].op, Retry(c, heard), pc[c] = "sent"
        PROVE  \/ \E q : Goto(c, "idle") /\ Becomes(c, q)
               \/ \E q : Goto(c, "ensure") /\ Becomes(c, q) /\ q.op = call[c].op
    <2>1. CASE call[c].attempt < MaxRetries
      <3> DEFINE next == [heard EXCEPT !.attempt = call[c].attempt + 1]
      <3>1. call[c].attempt + 1 \in 0..MaxRetries
        BY <1>1, <2>1, RetriesAssumption DEF Calls
      <3>2. next \in Calls /\ next.op = call[c].op
        BY <1>4, <3>1, AttemptTyped
      <3>3. Goto(c, "ensure") /\ Becomes(c, Ended(next))
        BY <1>4, <2>1 DEF Retry, Repeat
      <3> HIDE DEF next
      <3>4. Ended(next).op = call[c].op
        BY <3>2, EndedTyped
      <3> QED BY <3>3, <3>4
    <2>2. CASE ~(call[c].attempt < MaxRetries)
      BY <1>3, <1>4, <2>2 DEF Retry
    <2> QED BY <2>1, <2>2
  <1>5. CASE \/ Rejected(c) \/ RefreshFails(c) \/ RefreshUnheard(c) \/ Succeeds(c)
             \/ Refused(c) \/ Unmounted(c)
    <2>1. \E r, given : Return(c, r, given)
      BY <1>5 DEF Rejected, RefreshFails, RefreshUnheard, Succeeds, Refused, Unmounted
    <2> QED BY <1>2, <1>3, <2>1
  <1>6. CASE Interrupted(c)
    <2>1. Unheard(Effect(c)) \in Calls /\ Unheard(Effect(c)).op = call[c].op
      BY <1>1, EffectTyped
    <2> QED BY <1>1, <1>2, <1>4, <1>6, <2>1 DEF Interrupted, At
  <1>7. ASSUME NEW because \in {"stale", "401"}, StartRefresh(c, because),
               pc[c] \in {"ensure", "sent"}
        PROVE  \E q : Goto(c, "refreshing") /\ Becomes(c, q) /\ q.op = call[c].op
    BY <1>1, <1>7, AskingTyped DEF StartRefresh, TypeOK
  <1>8. CASE Unauthorized(c)
    <2>1. CASE Disputed(c)
      BY <1>2, <1>7, <1>8, <2>1 DEF Unauthorized, At
    <2>2. CASE ~Disputed(c)
      BY <1>2, <1>3, <1>8, <2>2 DEF Unauthorized
    <2> QED BY <2>1, <2>2
  <1>9. CASE Ensure(c)
    <2>1. CASE Needed(c)
      BY <1>2, <1>7, <1>9, <2>1 DEF Ensure, At
    <2>2. CASE ~Needed(c)
      <3>1. Goto(c, "send") /\ Becomes(c, call[c]) /\ pc[c] = "ensure"
        BY <1>9, <2>2 DEF Ensure, At, Becomes, TypeOK
      <3> QED BY <1>2, <3>1
    <2> QED BY <2>1, <2>2
  <1>10. CASE Misread(c)
    <2>1. Ended(call[c]).op = call[c].op
      BY <1>1, EndedTyped
    <2> QED BY <1>2, <1>10, <2>1 DEF Misread, Needed, Disputed, At
  <1>11. CASE Refreshed(c) \/ Send(c)
    <2>1. Carrying(call[c], minted + 1).op = call[c].op
          /\ Carrying(call[c], accessToken).op = call[c].op
      BY <1>1 DEF Carrying, Calls
    <2>2. CASE Refreshed(c)
      BY <1>2, <2>1, <2>2 DEF Refreshed, Mint, At
    <2>3. CASE Send(c)
      BY <1>2, <2>1, <2>3 DEF Send, At
    <2> QED BY <1>11, <2>2, <2>3
  <1>12. CASE Store(c)
    <2>1. pc[c] = "storing" /\ GoOn(c)
      BY <1>12 DEF Store, At
    <2>2. Renewed(call[c]).op = call[c].op /\ Ended(call[c]).op = call[c].op
      BY <1>1, EndedTyped DEF Renewed, Calls
    <2> QED BY <1>2, <1>3, <2>1, <2>2 DEF GoOn
  <1> QED BY <1>5, <1>6, <1>8, <1>9, <1>10, <1>11, <1>12 DEF Step

(* A token is stored in a mounted driver, by the mount itself, or astray.  *)
LEMMA ForgottenStep == Inv /\ Forgotten /\ Deserted /\ [Next]_vars => (Forgotten /\ Deserted)'
  <1> SUFFICES ASSUME Inv, Forgotten, Deserted, [Next]_vars PROVE Forgotten' /\ Deserted'
    OBVIOUS
  <1>1. TypeOK
    BY DEF Inv
  <1>2. ASSUME NEW c \in Callers, Mount(c) PROVE Forgotten' /\ Deserted'
    BY <1>1, <1>2 DEF Mount, At, Goto, Becomes, NewCall, Forgotten, Deserted, UnderWay, TypeOK
  <1>3. ASSUME NEW c \in Callers, Unmount(c) PROVE Forgotten' /\ Deserted'
    BY <1>3 DEF Unmount, Unmounting, Forgotten, Deserted
  <1>4. ASSUME NEW c \in Callers, Unmounted(c) PROVE Forgotten' /\ Deserted'
    <2>1. At(c, "unmounting") /\ accessToken' = accessToken
      BY <1>4 DEF Unmounted
    <2>2. ASSUME ~stray' PROVE ~stray /\ \A d \in Callers : ~UnderWay(d)
      BY <1>4, <2>2 DEF Unmounted
    <2>3. ASSUME NEW d \in Callers, ~UnderWay(d) PROVE ~UnderWay(d)'
      BY <1>1, <1>4, <2>3 DEF Unmounted, Return, Goto, UnderWay, TypeOK
    <2> QED BY <2>1, <2>2, <2>3 DEF Forgotten, Deserted
  <1>5. ASSUME NEW c \in Callers, NEW op \in Ops, Begin(c, op) PROVE Forgotten' /\ Deserted'
    <2>1. UNCHANGED <<connected, accessToken, stray>>
      BY <1>5 DEF Begin, tokens
    <2>2. ASSUME NEW d \in Callers, At(d, "unmounting")' PROVE At(d, "unmounting")
      BY <1>1, <1>5, <2>2 DEF Begin, At, Goto, TypeOK
    <2>3. ASSUME ~connected, NEW d \in Callers, UnderWay(d)'
          PROVE  UnderWay(d) /\ call'[d] = call[d]
      BY <1>1, <1>5, <2>3 DEF Begin, At, Becomes, UnderWay, TypeOK
    <2> QED BY <2>1, <2>2, <2>3 DEF Forgotten, Deserted
  <1>6. ASSUME NEW c \in Callers, Store(c) PROVE Forgotten' /\ Deserted'
    <2>1. /\ \A d \in Callers \ {c} : call'[d] = call[d] /\ pc'[d] = pc[d]
          /\ pc'[c] # "unmounting"
      BY <1>1, <1>6, KindKept DEF Step
    <2>2. pc[c] = "storing"
      BY <1>6 DEF Store, At
    <2>3. CASE stray'
      BY <2>3 DEF Forgotten, Deserted
    <2>4. CASE ~stray'
      <3>1. ~stray /\ \A d \in Callers : ~At(d, "unmounting")
        BY <1>6, <2>4 DEF Store, Astray
      <3>2. connected'
        <4>1. connected \/ call[c].op = "mount"
          BY <2>2, <3>1 DEF Deserted, UnderWay
        <4> QED BY <1>6, <4>1, Zenon DEF Store, GoOn
      <3>3. \A d \in Callers : ~At(d, "unmounting")'
        BY <2>1, <3>1 DEF At
      <3> QED BY <3>2, <3>3 DEF Forgotten, Deserted
    <2> QED BY <2>3, <2>4
  <1>7. ASSUME NEW c \in Callers, Step(c), ~Store(c), ~Unmounted(c)
        PROVE  Forgotten' /\ Deserted'
    <2>1. UNCHANGED <<connected, tokens>>
      BY <1>7 DEF Step, Misread, Ensure, Refreshed, Rejected, RefreshFails, RefreshUnheard,
                  Send, Succeeds, Refused, Interrupted, Unauthorized
    <2>2. /\ \A d \in Callers \ {c} : call'[d] = call[d] /\ pc'[d] = pc[d]
          /\ pc'[c] # "unmounting"
          /\ UnderWay(c)' => UnderWay(c) /\ call'[c].op = call[c].op
      BY <1>1, <1>7, KindKept
    <2> QED BY <2>1, <2>2 DEF Forgotten, Deserted, UnderWay, At, tokens
  <1>8. CASE Stale \/ Expire \/ Revoke \/ Reauthorise \/ UNCHANGED vars
    <2>1. UNCHANGED <<connected, accessToken, stray, pc, call>>
      BY <1>8 DEF Stale, Expire, Revoke, Reauthorise, vars, tokens
    <2> QED BY <2>1 DEF Forgotten, Deserted, UnderWay, At
  <1> QED BY <1>2, <1>3, <1>4, <1>5, <1>6, <1>7, <1>8 DEF Next

(* A call that does not succeed has changed nothing on the server, unless  *)
(* an attempt was carried out and its answer was lost or a 429 or 5xx:     *)
(* do()'s retries hide no other success.                                   *)
THEOREM FailuresChangeNothing == Spec => []FailureMeansUndone
  <1>1. History => FailureMeansUndone
    BY DEF History, FailureMeansUndone, Accounted
  <1>2. Init => History
    BY HistoryInit
  <1> QED BY <1>1, <1>2, HistoryStep, TypeCorrect, PTL DEF Spec

(* Unmount leaves no access token, though it clears it and disconnects in  *)
(* two steps: only a call that was under way as it finished, or that       *)
(* stored a token meanwhile, can bring one back, until the next mount.     *)
THEOREM UnmountedHoldsNoToken == Spec => []UnmountForgets
  <1>1. Forgotten /\ Deserted => UnmountForgets
    BY DEF Forgotten, UnmountForgets
  <1>2. Init => Forgotten /\ Deserted
    BY HistoryInit
  <1> QED BY <1>1, <1>2, ForgottenStep, Invariance, PTL DEF Spec

-----------------------------------------------------------------------------
(* How far a call is from its end.                                         *)

(* The steps an attempt may take from a place on; a refresh because of a   *)
(* 401 comes after those of the request.                                   *)
Rank(place, r) ==
    CASE place = "ensure" -> 8
      [] place = "refreshing" -> IF r.reason = "401" THEN 3 ELSE 7
      [] place = "storing" -> IF r.reason = "401" THEN 2 ELSE 6
      [] place = "send" -> 5
      [] place = "sent" -> 4
      [] place \in {"misread", "unmounting"} -> 1

Steps(place, r) ==
    IF place = "idle" THEN 0 ELSE 8 * (MaxRetries - r.attempt) + Rank(place, r)

Left(c) == Steps(pc[c], call[c])

LEMMA StepsBounded ==
    ASSUME NEW place \in Places, NEW r \in Calls
    PROVE  /\ Steps(place, r) \in 0..(8 * MaxRetries + 8)
           /\ place # "idle" => Rank(place, r) \in 1..8 /\ Steps(place, r) > 0
  <1>1. place # "idle" => Rank(place, r) \in 1..8
    BY DEF Places, Rank
  <1>2. r.attempt \in 0..MaxRetries
    BY DEF Calls
  <1> QED BY <1>1, <1>2, RetriesAssumption DEF Steps

(* A caller comes nearer by ending, by beginning its next attempt, and by  *)
(* going on in the one it is at; the others stay where they are.           *)
LEMMA MoveShortens ==
    ASSUME TypeOK, NEW c \in Callers, NEW place, NEW r, Moves(c, place, r), pc[c] # "idle",
           \/ place = "idle"
           \/ r.attempt = call[c].attempt + 1
           \/ r.attempt = call[c].attempt /\ Rank(place, r) < Rank(pc[c], call[c])
    PROVE  Left(c)' < Left(c)
  <1>1. call'[c] = r /\ pc'[c] = place
    BY MovesTyped
  <1>2. Left(c)' = Steps(place, r)
    BY <1>1 DEF Left
  <1>3. pc[c] \in Places /\ call[c] \in Calls /\ place \in Places /\ r \in Calls
    BY DEF TypeOK, Places, Moves
  <1>4. /\ Rank(pc[c], call[c]) \in 1..8 /\ Left(c) > 0
        /\ place # "idle" => Rank(place, r) \in 1..8
    BY <1>3, StepsBounded DEF Left
  <1>5. call[c].attempt \in 0..MaxRetries /\ r.attempt \in 0..MaxRetries
    BY <1>3 DEF Calls
  <1>6. CASE place = "idle"
    BY <1>2, <1>4, <1>6 DEF Steps
  <1>7. CASE place # "idle"
    <2>1. /\ Left(c)' = 8 * (MaxRetries - r.attempt) + Rank(place, r)
          /\ Left(c) = 8 * (MaxRetries - call[c].attempt) + Rank(pc[c], call[c])
      BY <1>2, <1>7 DEF Left, Steps
    <2> QED BY <1>4, <1>5, <1>7, <2>1, RetriesAssumption
  <1> QED BY <1>6, <1>7

LEMMA StepShortens ==
    ASSUME Inv, NEW c \in Callers, Step(c)
    PROVE  Left(c)' < Left(c)
  <1>1. TypeOK /\ call[c] \in Calls /\ pc \in [Callers -> Places]
    BY DEF Inv, TypeOK, Places
  <1>2. ASSUME NEW given \in Answers, NEW r \in Calls, Return(c, r, given), pc[c] # "idle"
        PROVE  Left(c)' < Left(c)
    BY <1>1, <1>2, ReturnMoves, MoveShortens
  <1>3. ASSUME NEW heard \in Calls, heard.op = call[c].op, Retry(c, heard), pc[c] # "idle"
        PROVE  Left(c)' < Left(c)
    <2>1. PICK place \in {"idle", "ensure"}, r \in Calls :
              /\ Moves(c, place, r)
              /\ place = "ensure" => r.attempt = call[c].attempt + 1
      BY <1>1, <1>3, RetryMoves
    <2> QED BY <1>1, <1>3, <2>1, MoveShortens
  <1>4. ASSUME NEW because \in {"stale", "401"}, StartRefresh(c, because),
               UNCHANGED answer,
               pc[c] = "ensure" \/ (pc[c] = "sent" /\ because = "401")
        PROVE  Left(c)' < Left(c)
    <2> DEFINE r == Asking(call[c], because)
    <2>1. r \in Calls /\ r.attempt = call[c].attempt /\ r.reason = because
      BY <1>1, AskingTyped DEF TypeOK
    <2>2. Moves(c, "refreshing", r)
      BY <1>1, <1>4, <2>1 DEF StartRefresh, Goto, Becomes, Moves, Places, TypeOK
    <2> HIDE DEF r
    <2>3. Rank("refreshing", r) < Rank(pc[c], call[c])
      BY <1>4, <2>1 DEF Rank
    <2> QED BY <1>1, <1>4, <2>1, <2>2, <2>3, MoveShortens
  <1>5. CASE Misread(c)
    <2>1. pc[c] \in {"ensure", "sent"}
      BY <1>5 DEF Misread, Needed, Disputed, At
    <2>2. Ended(call[c]) \in Calls /\ Ended(call[c]).attempt = call[c].attempt
      BY <1>1, EndedTyped
    <2>3. Moves(c, "misread", Ended(call[c]))
      BY <1>1, <1>5, <2>2 DEF Misread, Goto, Becomes, Moves, Places, TypeOK
    <2>4. Rank("misread", Ended(call[c])) < Rank(pc[c], call[c])
      BY <2>1 DEF Rank
    <2> QED BY <1>1, <2>1, <2>2, <2>3, <2>4, MoveShortens
  <1>6. CASE Ensure(c)
    <2>1. CASE Needed(c)
      BY <1>4, <1>6, <2>1 DEF Ensure, At
    <2>2. CASE ~Needed(c)
      <3>1. Moves(c, "send", call[c])
        BY <1>1, <1>6, <2>2 DEF Ensure, Goto, Moves, Places, TypeOK
      <3>2. pc[c] = "ensure"
        BY <1>6 DEF Ensure, At
      <3>3. Rank("send", call[c]) < Rank(pc[c], call[c])
        BY <3>2 DEF Rank
      <3> QED BY <1>1, <3>1, <3>2, <3>3, MoveShortens
    <2> QED BY <2>1, <2>2
  <1>7. CASE Refreshed(c)
    <2> DEFINE r == Carrying(call[c], minted + 1)
    <2>1. pc[c] = "refreshing" /\ minted + 1 \in 0..MaxTokens
      BY <1>1, <1>7, Minted DEF Refreshed, Mint, At
    <2>2. r \in Calls /\ r.attempt = call[c].attempt /\ r.reason = call[c].reason
      BY <1>1, <2>1, CarryingTyped
    <2>3. Moves(c, "storing", r)
      BY <1>1, <1>7, <2>2 DEF Refreshed, Goto, Becomes, Moves, Places, TypeOK
    <2> HIDE DEF r
    <2>4. Rank("storing", r) < Rank(pc[c], call[c])
      BY <2>1, <2>2 DEF Rank
    <2> QED BY <1>1, <2>1, <2>2, <2>3, <2>4, MoveShortens
  <1>8. CASE Store(c)
    <2>1. pc[c] = "storing"
      BY <1>8 DEF Store, At
    <2>2. CASE call[c].op = "mount"
      BY <1>1, <1>2, <1>8, <2>1, <2>2 DEF Store, GoOn, Answers
    <2>3. CASE call[c].op # "mount" /\ call[c].reason = "401"
      <3>1. /\ Renewed(call[c]) \in Calls
            /\ Renewed(call[c]).attempt = call[c].attempt + 1
        BY <1>1, <2>3, RenewedTyped DEF Inv, FirstAttempt
      <3>2. Moves(c, "ensure", Renewed(call[c]))
        BY <1>1, <1>8, <2>3, <3>1 DEF Store, GoOn, Goto, Becomes, Moves, Places, TypeOK
      <3> QED BY <1>1, <2>1, <3>1, <3>2, MoveShortens
    <2>4. CASE call[c].op # "mount" /\ call[c].reason # "401"
      <3>1. Ended(call[c]) \in Calls /\ Ended(call[c]).attempt = call[c].attempt
        BY <1>1, EndedTyped
      <3>2. Moves(c, "send", Ended(call[c]))
        BY <1>1, <1>8, <2>4, <3>1 DEF Store, GoOn, Goto, Becomes, Moves, Places, TypeOK
      <3>3. Rank("send", Ended(call[c])) < Rank(pc[c], call[c])
        BY <2>1, <2>4 DEF Rank
      <3> QED BY <1>1, <2>1, <3>1, <3>2, <3>3, MoveShortens
    <2> QED BY <2>2, <2>3, <2>4
  <1>9. CASE Rejected(c) \/ RefreshFails(c) \/ RefreshUnheard(c)
    BY <1>1, <1>2, <1>9 DEF Rejected, RefreshFails, RefreshUnheard, Mint, At, Answers
  <1>10. CASE Send(c)
    <2> DEFINE r == Carrying(call[c], accessToken)
    <2>1. pc[c] = "send" /\ accessToken \in 0..MaxTokens
      BY <1>1, <1>10 DEF Send, At, TypeOK
    <2>2. r \in Calls /\ r.attempt = call[c].attempt
      BY <1>1, <2>1, CarryingTyped
    <2>3. Moves(c, "sent", r)
      BY <1>1, <1>10, <2>2 DEF Send, Goto, Becomes, Moves, Places, TypeOK
    <2> HIDE DEF r
    <2>4. Rank("sent", r) < Rank(pc[c], call[c])
      BY <2>1 DEF Rank
    <2> QED BY <1>1, <2>1, <2>2, <2>3, <2>4, MoveShortens
  <1>11. CASE Succeeds(c)
    BY <1>1, <1>2, <1>11, EffectTyped DEF Succeeds, Acts, Authorized, At, Answers
  <1>12. CASE Refused(c)
    BY <1>1, <1>2, <1>12 DEF Refused, Authorized, At, Answers
  <1>13. CASE Interrupted(c)
    BY <1>1, <1>3, <1>13, EffectTyped DEF Interrupted, At
  <1>14. CASE Unauthorized(c)
    <2>1. pc[c] = "sent"
      BY <1>14 DEF Unauthorized, At
    <2> QED BY <1>1, <1>2, <1>4, <1>14, <2>1 DEF Unauthorized, Answers
  <1>15. CASE Unmounted(c)
    BY <1>1, <1>2, <1>15 DEF Unmounted, At, Answers
  <1> QED
    BY <1>5, <1>6, <1>7, <1>8, <1>9, <1>10, <1>11, <1>12, <1>13, <1>14, <1>15 DEF Step

(* What another caller does, short of a mount.                             *)
LEMMA OthersStay ==
    ASSUME TypeOK, NEW c \in Callers, NEW d \in Callers \ {c},
           Step(d) \/ Unmount(d) \/ \E op \in Ops : Begin(d, op)
    PROVE  Left(c)' = Left(c)
  <1>1. pc'[c] = pc[c]
    BY DEF Step, Unmount, Unmounting, Unmounted, Begin, Misread, Ensure, StartRefresh, Refreshed, Store, GoOn,
           Rejected, RefreshFails, RefreshUnheard, Send, Succeeds, Refused, Interrupted,
           Retry, Repeat, Unauthorized, Return, Goto, TypeOK
  <1>2. call'[c] = call[c]
    BY DEF Step, Unmount, Unmounting, Unmounted, Begin, Misread, Ensure, StartRefresh, Refreshed, Store, GoOn,
           Rejected, RefreshFails, RefreshUnheard, Send, Succeeds, Refused, Interrupted,
           Retry, Repeat, Unauthorized, Return, Becomes, TypeOK
  <1> QED BY <1>1, <1>2 DEF Left

(* A call is at most 8 * MaxRetries + 8 of its own steps from its end:     *)
(* each of them brings it nearer, whatever fails, whoever refreshes beside *)
(* it and whatever becomes of its tokens, and no step of another caller    *)
(* takes it away from it.  So refreshes and retries never keep a call      *)
(* going round between ensureToken, a 401 and the loop of do.              *)
THEOREM RefreshesAndRetriesEnd ==
    Spec => /\ [](\A c \in Callers : Left(c) \in 0..(8 * MaxRetries + 8))
            /\ [][\A c, d \in Callers :
                     /\ Step(c) => Left(c)' < Left(c)
                     /\ c # d /\ (Step(d) \/ Unmount(d) \/ \E op \in Ops : Begin(d, op))
                            => Left(c)' = Left(c)]_vars
  <1> DEFINE A == \A c, d \in Callers :
                     /\ Step(c) => Left(c)' < Left(c)
                     /\ c # d /\ (Step(d) \/ Unmount(d) \/ \E op \in Ops : Begin(d, op))
                            => Left(c)' = Left(c)
             B == \A c \in Callers : Left(c) \in 0..(8 * MaxRetries + 8)
  <1>1. Inv => B
    BY StepsBounded DEF Inv, TypeOK, Places, Left
  <1>2. Inv /\ [Next]_vars => [A]_vars
    <2> SUFFICES ASSUME Inv PROVE A
      OBVIOUS
    <2>1. TypeOK
      BY DEF Inv
    <2>2. ASSUME NEW c \in Callers, Step(c) PROVE Left(c)' < Left(c)
      BY <2>2, StepShortens
    <2>3. ASSUME NEW c \in Callers, NEW d \in Callers, c # d,
                 Step(d) \/ Unmount(d) \/ \E op \in Ops : Begin(d, op)
          PROVE  Left(c)' = Left(c)
      BY <2>1, <2>3, OthersStay
    <2> QED BY <2>2, <2>3
  <1> HIDE DEF A, B
  <1>3. Spec => []B /\ [][A]_vars
    BY <1>1, <1>2, Invariance, PTL DEF Spec
  <1> QED BY <1>3 DEF A, B
-----------------------------------------------------------------------------
(* Writing a file: the writer's invariant.                                 *)

LEMMA WriterInitInv == WriterInit => WriterInv
  <1> SUFFICES ASSUME WriterInit PROVE WriterInv
    OBVIOUS
  <1>1. temp \in BOOLEAN /\ err \in BOOLEAN /\ short \in BOOLEAN /\ unheard \in BOOLEAN
    BY Zenon DEF WriterInit
  <1>2. WriterTypeOK
    BY <1>1, SizesAssumption, ChunkRetriesAssumption DEF WriterInit, WriterTypeOK
  <1> QED
    BY <1>2 DEF WriterInit, WriterInv, Kept, InStep, NothingSent, NeverPartial, Sending,
                SuccessMeansStored

(* A chunk is not empty and does not pass the end of the file.             *)
LEMMA WantBounds ==
    ASSUME WriterTypeOK, sent < tempSz
    PROVE  Want \in Nat \ {0} /\ sent + Want <= tempSz
  BY SizesAssumption DEF WriterTypeOK, Want, Lower

(* What the server does with a chunk it takes.                             *)
LEMMA TakenInStep ==
    ASSUME WriterInv, phase = "put", Takes, Taken
    PROVE  /\ received' \in Nat /\ received = sent /\ received' = sent + Want
           /\ received' <= tempSz
           /\ session' \in {"open", "gone"}
           /\ session' = "open" => received' < tempSz /\ remote' = remote
           /\ session' = "gone" =>
                  received' = tempSz /\ remote' = [file |-> "large", size |-> tempSz]
  <1>1. sent < tempSz
    BY DEF WriterInv, InStep, Sending
  <1>2. Want \in Nat \ {0} /\ sent + Want <= tempSz
    BY <1>1, WantBounds DEF WriterInv
  <1>3. received = sent /\ session = "open"
    BY DEF Takes
  <1> QED BY <1>2, <1>3 DEF Taken, WriterInv, WriterTypeOK

LEMMA WriteInv ==
    ASSUME WriterInv, NEW n \in 0..MaxBytes, NEW taken \in 0..n,
           \/ WriteToMemory(n) \/ SpillFails(n)
           \/ WriteToFile(n, taken) \/ Spill(n, taken)
    PROVE  WriterInv'
  <1>1. n \in Nat /\ taken \in Nat /\ taken <= n
    BY SizesAssumption
  <1>2. phase = "open" /\ phase' = "open" /\ UNCHANGED <<upload, server, result>>
    BY DEF WriteToMemory, SpillFails, WriteToFile, Spill, Spills, Room
  <1>3. /\ temp' \in BOOLEAN /\ err' \in BOOLEAN /\ short' \in BOOLEAN
    <2>1. temp \in BOOLEAN /\ err \in BOOLEAN /\ short \in BOOLEAN
      BY DEF WriterInv, WriterTypeOK
    <2> QED BY <2>1, Zenon DEF WriteToMemory, SpillFails, WriteToFile, Spill
  <1>4. /\ buf' \in 0..MemCap /\ tempSz' \in Nat /\ accepted' \in Nat
    BY <1>1, SizesAssumption
    DEF WriteToMemory, SpillFails, WriteToFile, Spill, WriterInv, WriterTypeOK
  <1>5. WriterTypeOK'
    BY <1>2, <1>3, <1>4 DEF WriterInv, WriterTypeOK, upload, server
  <1>6. Kept'
    <2>1. CASE WriteToMemory(n)
      BY <1>1, <1>2, <2>1 DEF WriteToMemory, WriterInv, WriterTypeOK, Kept, Sending
    <2>2. CASE SpillFails(n)
      BY <1>2, <2>2 DEF SpillFails, WriterInv, Kept, Sending
    <2>3. CASE WriteToFile(n, taken)
      <3>1. short => short'
        BY <2>3, Zenon DEF WriteToFile
      <3>2. temp /\ temp' /\ tempSz' = tempSz + taken /\ accepted' = accepted + taken
        BY <2>3 DEF WriteToFile
      <3> QED BY <1>1, <1>2, <3>1, <3>2 DEF WriterInv, WriterTypeOK, Kept, Sending
    <2>4. CASE Spill(n, taken)
      <3>1. taken < n => short'
        BY <2>4, Zenon DEF Spill
      <3>2. /\ ~temp /\ temp' /\ buf + n > MemCap
            /\ tempSz' = buf + taken /\ accepted' = accepted + taken
        BY <2>4 DEF Spill, Spills
      <3> QED BY <1>1, <1>2, <3>1, <3>2, SizesAssumption
              DEF WriterInv, WriterTypeOK, Kept, Sending
    <2> QED BY <2>1, <2>2, <2>3, <2>4
  <1> QED
    BY <1>2, <1>5, <1>6
    DEF WriterInv, InStep, NothingSent, NeverPartial, Sending, SuccessMeansStored, upload,
        server

(* Whatever ends Close with an error keeps the server's file.              *)
LEMMA FailedInv ==
    ASSUME WriterInv, Finish("failed"), UNCHANGED <<received, remote>>,
           session' \in {"none", "open", "gone"}, unheard' \in BOOLEAN
    PROVE  WriterInv'
  <1>1. temp' \in BOOLEAN
    BY Zenon DEF Finish
  <1>2. WriterTypeOK'
    BY <1>1 DEF WriterInv, WriterTypeOK, Finish, upload
  <1> QED
    BY <1>2 DEF Finish, WriterInv, Kept, InStep, NothingSent, NeverPartial, Sending,
                SuccessMeansStored

LEMMA CloseInv ==
    ASSUME WriterInv,
           \/ CloseAfterError \/ OpenSession \/ OpenSessionFails \/ Cancel
           \/ \E outcome \in {"ok", "failed"}, stored \in BOOLEAN : PutSmall(outcome, stored)
    PROVE  WriterInv'
  <1>1. session \in {"none", "open", "gone"} /\ unheard \in BOOLEAN
    BY DEF WriterInv, WriterTypeOK
  <1>2. CASE CloseAfterError
    BY <1>1, <1>2, FailedInv DEF CloseAfterError, server
  <1>3. CASE OpenSessionFails \/ Cancel
    <2>1. unheard' \in BOOLEAN
      BY <1>1, <1>3, Zenon DEF OpenSessionFails, Cancel, server
    <2> QED BY <1>1, <1>3, <2>1, FailedInv DEF OpenSessionFails, Cancel, server
  <1>4. CASE OpenSession
    <2>1. WriterTypeOK'
      BY <1>4 DEF OpenSession, WriterInv, WriterTypeOK, writer, upload
    <2>2. Kept'
      BY <1>4 DEF OpenSession, WriterInv, Kept, Sending, writer
    <2>3. InStep'
      BY <1>4, <2>1
      DEF OpenSession, WriterInv, NothingSent, InStep, Sending, WriterTypeOK, writer,
          upload
    <2> QED
      BY <1>4, <2>1, <2>2, <2>3
      DEF OpenSession, WriterInv, NothingSent, NeverPartial, SuccessMeansStored, Sending,
          writer
  <1>5. ASSUME NEW outcome \in {"ok", "failed"}, NEW stored \in BOOLEAN,
               PutSmall(outcome, stored)
        PROVE  WriterInv'
    <2>1. buf = accepted /\ accepted \in Nat
      BY <1>5 DEF PutSmall, WriterInv, Kept, WriterTypeOK
    <2>2. temp' \in BOOLEAN
      BY <1>5, Zenon DEF PutSmall, Finish
    <2>3. CASE stored
      BY <1>5, <2>1, <2>2, <2>3, SizesAssumption
      DEF PutSmall, Finish, WriterInv, WriterTypeOK, Kept, InStep, NothingSent,
          NeverPartial, Sending,
          SuccessMeansStored, upload
    <2>4. CASE ~stored
      BY <1>5, <2>2, <2>4
      DEF PutSmall, Finish, WriterInv, WriterTypeOK, Kept, InStep, NothingSent,
          NeverPartial, Sending,
          SuccessMeansStored, upload
    <2> QED BY <2>3, <2>4
  <1> QED BY <1>2, <1>3, <1>4, <1>5

LEMMA SendInv ==
    ASSUME WriterInv,
           ReadChunk \/ PutChunk \/ PutChunkRefused \/ PutChunkInterrupted
               \/ UploadDone
    PROVE  WriterInv'
  <1> USE DEF WriterInv
  <1>1. CASE ReadChunk
    BY <1>1, ChunkRetriesAssumption
    DEF ReadChunk, SentAll, WriterTypeOK, Kept, InStep, NothingSent, NeverPartial, Sending,
        SuccessMeansStored, writer, server
  <1>2. CASE PutChunkRefused
    BY <1>2
    DEF PutChunkRefused, WriterTypeOK, Kept, InStep, NothingSent, NeverPartial, Sending,
        SuccessMeansStored, writer, upload, server
  <1>3. CASE PutChunk
    <2>1. /\ received' \in Nat /\ received = sent /\ received' = sent + Want
          /\ received' <= tempSz
          /\ session' \in {"open", "gone"}
          /\ session' = "open" => received' < tempSz /\ remote' = remote
          /\ session' = "gone" =>
                 received' = tempSz /\ remote' = [file |-> "large", size |-> tempSz]
      BY <1>3, TakenInStep DEF PutChunk
    <2>2. WriterTypeOK'
      BY <1>3, <2>1 DEF PutChunk, Taken, WriterTypeOK, writer
    <2> QED
      BY <1>3, <2>1, <2>2
      DEF PutChunk, Kept, InStep, NothingSent, NeverPartial, Sending, SuccessMeansStored,
          WriterTypeOK, writer
  <1>4. CASE PutChunkInterrupted
    <2>1. phase' \in {"put", "cancel"} /\ attempt' \in 0..ChunkRetries
      BY <1>4, ChunkRetriesAssumption DEF PutChunkInterrupted, WriterTypeOK
    <2>2. CASE UNCHANGED server
      BY <1>4, <2>1, <2>2
      DEF PutChunkInterrupted, WriterTypeOK, Kept, InStep, NothingSent, NeverPartial,
          Sending,
          SuccessMeansStored, writer, server
    <2>3. CASE Takes /\ Taken
      <3>1. /\ received' \in Nat /\ received = sent /\ received' = sent + Want
            /\ received' <= tempSz
            /\ session' \in {"open", "gone"}
            /\ session' = "open" => received' < tempSz /\ remote' = remote
            /\ session' = "gone" =>
                   received' = tempSz /\ remote' = [file |-> "large", size |-> tempSz]
        BY <1>4, <2>3, TakenInStep DEF PutChunkInterrupted
      <3>2. sent < tempSz /\ Want \in Nat
        BY <1>4, WantBounds DEF PutChunkInterrupted, InStep, Sending
      <3>3. WriterTypeOK'
        BY <1>4, <2>1, <2>3, <3>1 DEF PutChunkInterrupted, Taken, WriterTypeOK, writer
      <3> QED
        BY <1>4, <2>1, <3>1, <3>2, <3>3
        DEF PutChunkInterrupted, Kept, InStep, NothingSent, NeverPartial, Sending,
            SuccessMeansStored, WriterTypeOK, writer
    <2> QED BY <1>4, <2>2, <2>3 DEF PutChunkInterrupted
  <1>5. CASE UploadDone
    <2>1. temp' \in BOOLEAN
      BY <1>5, Zenon DEF UploadDone, Finish
    <2>2. WriterTypeOK'
      BY <1>5, <2>1 DEF UploadDone, Finish, WriterTypeOK, upload, server
    <2>3. tempSz = accepted /\ (tempSz > 0 => remote.file = "large")
      BY <1>5 DEF UploadDone, SentAll, Kept, InStep, Sending, WriterTypeOK
    <2>4. SuccessMeansStored'
      BY <1>5, <2>3
      DEF UploadDone, Finish, Kept, Sending, WriterTypeOK, NeverPartial,
          SuccessMeansStored, server
    <2> QED
      BY <1>5, <2>2, <2>4
      DEF UploadDone, Finish, Kept, InStep, NothingSent, NeverPartial, Sending, server
  <1> QED BY <1>1, <1>2, <1>3, <1>4, <1>5

LEMMA WriterStepInv == WriterInv /\ [WriterNext]_writerVars => WriterInv'
  <1> SUFFICES ASSUME WriterInv, [WriterNext]_writerVars PROVE WriterInv'
    OBVIOUS
  <1>1. CASE UNCHANGED writerVars
    BY <1>1
    DEF writerVars, WriterInv, WriterTypeOK, Kept, InStep, NothingSent, NeverPartial,
        Sending,
                SuccessMeansStored
  <1>2. ASSUME NEW n \in 0..MaxBytes, WriteToMemory(n) \/ SpillFails(n) PROVE WriterInv'
    <2>1. 0 \in 0..n
      BY SizesAssumption
    <2> QED BY <1>2, <2>1, WriteInv
  <1>3. ASSUME NEW n \in 0..MaxBytes, NEW taken \in 0..n,
               WriteToFile(n, taken) \/ Spill(n, taken)
        PROVE  WriterInv'
    BY <1>3, WriteInv
  <1> QED
    BY <1>1, <1>2, <1>3, CloseInv, SendInv DEF WriterNext

LEMMA WriterInvariance == WriterSpec => []WriterInv
  BY WriterInitInv, WriterStepInv, PTL DEF WriterSpec

-----------------------------------------------------------------------------
(* The refinement.                                                         *)

(* A writer that is not closed has not answered, and what the server has   *)
(* of its file, if anything, is all of it.                                 *)
LEMMA Pending ==
    ASSUME WriterInv
    PROVE  /\ phase # "closed" => result = "none"
           /\ remote.file # "before" => remote.size = accepted
           /\ accepted \in Nat /\ remote.size \in Nat /\ short \in BOOLEAN
  BY DEF WriterInv, WriterTypeOK, NothingSent, Sending, NeverPartial

LEMMA WriteImplements ==
    ASSUME WriterInv, NEW n \in 0..MaxBytes, NEW taken \in 0..n,
           \/ WriteToMemory(n) \/ SpillFails(n)
           \/ WriteToFile(n, taken) \/ Spill(n, taken)
    PROVE  W!Write
  <1>1. n \in Nat /\ taken \in Nat
    BY SizesAssumption
  <1>2. /\ result = "none" /\ remote.file = "before"
        /\ result' = result /\ remote' = remote
    BY
    DEF WriteToMemory, SpillFails, WriteToFile, Spill, Spills, Room, WriterInv,
        NothingSent,
           server
  <1>3. accepted' \in Nat /\ accepted' >= accepted
    BY <1>1 DEF WriteToMemory, SpillFails, WriteToFile, Spill, WriterInv, WriterTypeOK
  <1>4. short' \in BOOLEAN /\ (short => short')
    <2>1. short \in BOOLEAN
      BY Pending
    <2>2. short' = short \/ short' = TRUE \/ short' = (short \/ taken < n)
      BY Zenon DEF WriteToMemory, SpillFails, WriteToFile, Spill
    <2> QED BY <2>1, <2>2, Zenon
  <1> QED BY <1>2, <1>3, <1>4 DEF W!Write

(* What a chunk the server takes does to the file: nothing, or all at once.*)
LEMMA TakenImplements ==
    ASSUME WriterInv, phase = "put", Takes, Taken, UNCHANGED <<writer, result>>
    PROVE  W!Store \/ UNCHANGED W!vars
  <1>1. /\ result = "none" /\ result' = result
        /\ accepted' = accepted /\ short' = short
    BY Pending DEF writer
  <1>2. CASE remote' = remote
    BY <1>1, <1>2 DEF W!vars
  <1>3. CASE remote' # remote
    <2>1. remote' = [file |-> "large", size |-> tempSz]
      BY <1>3, TakenInStep
    <2>2. tempSz = accepted /\ accepted \in Nat
      BY DEF WriterInv, WriterTypeOK, Kept, Sending
    <2>3. (remote'.file # "before") = TRUE /\ remote'.size = accepted
      BY <2>1, <2>2
    <2>4. W!Complete([new |-> remote'.file # "before", size |-> remote'.size])
      BY <2>3, Zenon DEF W!Complete
    <2>5. [new |-> TRUE, size |-> accepted] \in [new : {TRUE}, size : 0..accepted]
      BY <2>2
    <2> QED
      BY <1>1, <2>4, <2>5 DEF W!Store, W!Stores, W!Complete
  <1> QED BY <1>2, <1>3

LEMMA EndImplements ==
    ASSUME WriterInv, NEW outcome \in {"ok", "failed"}, Finish(outcome), phase # "closed",
           remote' = remote,
           outcome = "ok" =>
               \/ remote.file # "before"
               \/ short /\ accepted = 0
    PROVE  W!Close
  <1>1. result = "none" /\ result' = outcome
    BY Pending DEF Finish
  <1>2. accepted' = accepted /\ short' = short
    BY DEF Finish
  <1>3. outcome = "ok" =>
            \/ remote.file # "before" /\ remote.size = accepted
            \/ short /\ accepted = 0
    BY Pending
  <1> QED BY <1>1, <1>2, <1>3 DEF W!Close, W!Answers, W!Complete

LEMMA PutImplements ==
    ASSUME WriterInv, NEW outcome \in {"ok", "failed"}, NEW stored \in BOOLEAN,
           PutSmall(outcome, stored)
    PROVE  W!Close
  <1>1. /\ result = "none" /\ result' = outcome
        /\ accepted' = accepted /\ short' = short
    BY Pending DEF PutSmall, Finish
  <1>2. CASE stored
    <2>1. remote' = [file |-> "small", size |-> accepted] /\ accepted \in Nat
      BY <1>2 DEF PutSmall, WriterInv, WriterTypeOK, Kept
    <2>2. (remote'.file # "before") = TRUE /\ remote'.size = accepted
      BY <2>1
    <2>3. /\ [new |-> remote'.file # "before", size |-> remote'.size]
                 = [new |-> TRUE, size |-> accepted]
          /\ accepted' = accepted
      BY <1>1, <2>2, Zenon
    <2>4. [new |-> TRUE, size |-> accepted] \in [new : {TRUE}, size : 0..accepted]
      BY <2>1
    <2> QED
      BY <1>1, <2>3, <2>4 DEF W!Close, W!Answers, W!Stores, W!Complete
  <1>3. CASE ~stored
    BY <1>3, EndImplements DEF PutSmall
  <1> QED BY <1>2, <1>3

LEMMA StepImplements == WriterInv /\ [WriterNext]_writerVars => [W!Next]_(W!vars)
  <1> SUFFICES ASSUME WriterInv, [WriterNext]_writerVars PROVE W!Next \/ UNCHANGED W!vars
    OBVIOUS
  <1>1. ASSUME NEW n \in 0..MaxBytes, WriteToMemory(n) \/ SpillFails(n)
        PROVE  W!Next
    <2>1. 0 \in 0..n
      BY SizesAssumption
    <2> QED BY <1>1, <2>1, WriteImplements DEF W!Next
  <1>2. ASSUME NEW n \in 0..MaxBytes, NEW taken \in 0..n,
               WriteToFile(n, taken) \/ Spill(n, taken)
        PROVE  W!Next
    BY <1>2, WriteImplements DEF W!Next
  <1>3. CASE CloseAfterError \/ OpenSessionFails \/ Cancel
    BY <1>3, EndImplements DEF CloseAfterError, OpenSessionFails, Cancel, server, W!Next
  <1>4. ASSUME NEW outcome \in {"ok", "failed"}, NEW stored \in BOOLEAN,
               PutSmall(outcome, stored)
        PROVE  W!Next
    BY <1>4, PutImplements DEF W!Next
  <1>5. CASE PutChunk
    BY <1>5, TakenImplements DEF PutChunk, W!Next
  <1>6. CASE PutChunkInterrupted
    <2>1. CASE UNCHANGED server
      BY <1>6, <2>1 DEF PutChunkInterrupted, writer, server, W!vars
    <2>2. CASE Takes /\ Taken
      BY <1>6, <2>2, TakenImplements DEF PutChunkInterrupted, W!Next
    <2> QED BY <1>6, <2>1, <2>2 DEF PutChunkInterrupted
  <1>7. CASE UploadDone
    <2>1. remote.file # "before" \/ (short /\ accepted = 0)
      BY <1>7 DEF UploadDone, SentAll, WriterInv, WriterTypeOK, Kept, InStep, Sending
    <2> QED
      BY <1>7, <2>1, EndImplements DEF UploadDone, server, W!Next
  <1>8. CASE OpenSession \/ ReadChunk \/ PutChunkRefused
    BY <1>8 DEF OpenSession, ReadChunk, PutChunkRefused, writer, server, W!vars
  <1>9. CASE UNCHANGED writerVars
    BY <1>9 DEF writerVars, W!vars
  <1> QED BY <1>1, <1>2, <1>3, <1>4, <1>5, <1>6, <1>7, <1>8, <1>9 DEF WriterNext

LEMMA InitImplements == WriterInit => W!Init
  <1> SUFFICES ASSUME WriterInit PROVE W!Init
    OBVIOUS
  <1>1. short = FALSE
    BY Zenon DEF WriterInit
  <1>2. (remote.file # "before") = FALSE /\ remote.size = 0
    BY DEF WriterInit
  <1>3. accepted = 0 /\ result = "none"
    BY DEF WriterInit
  <1> QED BY <1>1, <1>2, <1>3, Zenon DEF W!Init

(* Nothing stays behind: neither the file, which every way out removes,    *)
(* nor a session that the driver knows of and can cancel.                  *)
LEMMA LeavesNothing ==
    ASSUME WriterInv, NothingLeftBehind, [WriterNext]_writerVars
    PROVE  NothingLeftBehind'
  <1> SUFFICES ASSUME phase' = "closed"
               PROVE  ~temp' /\ (session' = "open" => unheard' \/ accepted' = 0)
    BY DEF NothingLeftBehind
  <1>1. CASE UNCHANGED writerVars
    BY <1>1 DEF writerVars, NothingLeftBehind
  <1>2. CASE \E outcome \in {"ok", "failed"}, stored \in BOOLEAN : PutSmall(outcome, stored)
    BY <1>2 DEF PutSmall, Finish, WriterInv, NothingSent
  <1>3. CASE CloseAfterError \/ OpenSessionFails \/ Cancel
    BY <1>3
    DEF CloseAfterError, OpenSessionFails, Cancel, Finish, WriterInv, NothingSent, server
  <1>4. CASE UploadDone
    BY <1>4
    DEF UploadDone, SentAll, Finish, WriterInv, WriterTypeOK, Kept, InStep, Sending, server
  <1>5. CASE \/ OpenSession \/ ReadChunk \/ PutChunk \/ PutChunkRefused \/ PutChunkInterrupted
             \/ \E n \in 0..MaxBytes :
                  \/ WriteToMemory(n) \/ SpillFails(n)
                  \/ \E taken \in 0..n : WriteToFile(n, taken) \/ Spill(n, taken)
    BY <1>5
    DEF OpenSession, ReadChunk, PutChunk, PutChunkRefused, PutChunkInterrupted,
        WriteToMemory, SpillFails, WriteToFile, Spill, Spills, Room
  <1> QED BY <1>1, <1>2, <1>3, <1>4, <1>5 DEF WriterNext

(* No chunk is attempted more often than maxRetries allows, and no         *)
(* variable leaves its type.                                               *)
THEOREM WriterTypeCorrect == WriterSpec => []WriterTypeOK
  BY WriterInvariance, PTL DEF WriterInv

(* A Close that reports success stored everything that was written.        *)
THEOREM SuccessStores == WriterSpec => []SuccessMeansStored
  BY WriterInvariance, PTL DEF WriterInv

(* Whatever fails, the server never has part of a file.                    *)
THEOREM NoPartialFile == WriterSpec => []NeverPartial
  BY WriterInvariance, PTL DEF WriterInv

(* Whatever fails, a Close leaves neither a temporary file nor a session   *)
(* it could have cancelled.                                                *)
THEOREM LeavesNothingBehind == WriterSpec => []NothingLeftBehind
  <1>1. WriterInit => NothingLeftBehind
    BY DEF WriterInit, NothingLeftBehind
  <1>2. WriterInv /\ NothingLeftBehind /\ [WriterNext]_writerVars => NothingLeftBehind'
    BY LeavesNothing
  <1> QED BY <1>1, <1>2, WriterInvariance, PTL DEF WriterSpec

(* However a file is split over memory, chunks and attempts, the writer is *)
(* a FileWrite: the server's file is replaced as a whole, at one point.    *)
THEOREM ImplementsFileWrite == WriterSpec => UploadSpec
  <1>1. WriterInv /\ [WriterNext]_writerVars => [W!Next]_(W!vars)
    BY StepImplements
  <1> QED
    BY InitImplements, <1>1, WriterInvariance, PTL DEF WriterSpec, UploadSpec, W!Spec

-----------------------------------------------------------------------------
(* How far an upload session is from its end.                              *)

(* What Close does once it has its session.                                *)
Sends ==
    \/ ReadChunk \/ PutChunk \/ PutChunkRefused \/ PutChunkInterrupted \/ UploadDone
    \/ Cancel

(* What is not acknowledged, and the steps that may be spent on it.        *)
Unsent == tempSz - sent

Standing ==
    CASE phase = "chunk" -> ChunkRetries + 3
      [] phase = "put" -> ChunkRetries + 2 - attempt
      [] phase = "cancel" -> 1
      [] OTHER -> 0

LEMMA SendsShorten ==
    ASSUME WriterInv, Sends
    PROVE  Unsent' < Unsent \/ (Unsent' = Unsent /\ Standing' < Standing)
  <1> USE ChunkRetriesAssumption
  <1>1. /\ sent \in Nat /\ tempSz \in Nat /\ attempt \in 0..ChunkRetries
        /\ phase = "put" => sent < tempSz
    BY DEF WriterInv, WriterTypeOK, InStep, Sending
  <1>2. CASE ReadChunk
    BY <1>1, <1>2 DEF ReadChunk, Unsent, Standing, writer
  <1>3. CASE PutChunk
    <2>1. Want \in Nat \ {0}
      BY <1>1, <1>3, WantBounds DEF PutChunk, WriterInv
    <2>2. sent' = sent + Want /\ tempSz' = tempSz
      BY <1>3 DEF PutChunk, writer
    <2> QED BY <1>1, <2>1, <2>2 DEF Unsent
  <1>4. CASE PutChunkRefused
    BY <1>1, <1>4 DEF PutChunkRefused, Unsent, Standing, writer, upload
  <1>5. CASE PutChunkInterrupted
    BY <1>1, <1>5 DEF PutChunkInterrupted, Unsent, Standing, writer
  <1>6. CASE UploadDone \/ Cancel
    BY <1>1, <1>6 DEF UploadDone, Cancel, Finish, Unsent, Standing, upload
  <1> QED BY <1>2, <1>3, <1>4, <1>5, <1>6 DEF Sends

(* For files, chunks and retries of every size: each step of a Close that  *)
(* has its session has a chunk acknowledged, or leaves fewer steps to      *)
(* spend on the chunk at hand.  Both can only fall so often, and are above *)
(* nothing until Close has returned: a chunk that is repeated, or that the *)
(* server has already, never has the loop go round for ever.               *)
THEOREM UploadsEnd ==
    WriterSpec =>
        /\ [](Sending => Unsent \in Nat /\ Standing \in 1..(ChunkRetries + 3))
        /\ [][Sends => Unsent' < Unsent \/ (Unsent' = Unsent /\ Standing' < Standing)]_writerVars
  <1> DEFINE A == Sends => Unsent' < Unsent \/ (Unsent' = Unsent /\ Standing' < Standing)
             B == Sending => Unsent \in Nat /\ Standing \in 1..(ChunkRetries + 3)
  <1>1. WriterInv => B
    BY ChunkRetriesAssumption
    DEF WriterInv, WriterTypeOK, InStep, Sending, Unsent, Standing
  <1>2. WriterInv /\ [WriterNext]_writerVars => [A]_writerVars
    BY SendsShorten
  <1> HIDE DEF A, B
  <1>3. WriterSpec => []B /\ [][A]_writerVars
    BY <1>1, <1>2, WriterInvariance, PTL DEF WriterSpec
  <1> QED BY <1>3 DEF A, B
==============================================================================
