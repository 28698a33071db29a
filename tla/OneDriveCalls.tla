---------------------------- MODULE OneDriveCalls ----------------------------
(***************************************************************************)
(* The OneDrive driver's authenticated calls.                              *)
(*                                                                         *)
(* Every operation is one request given to do(), which refreshes the       *)
(* access token ahead of its expiry, refreshes it again if the first       *)
(* answer is a 401, and repeats the request after a transport error or a   *)
(* 429, 502, 503 or 504.  No call holds tokenMu across a request, so callers *)
(* refresh side by side, each with the refresh token it read; and it reads *)
(* that one without tokenMu.                                               *)
(*                                                                         *)
(* Microsoft mints tokens 1, 2, ...; a rotating refresh token may stay     *)
(* accepted beside its successor ("grace") or not ("single").  Times are   *)
(* abstracted: the access token may become stale, or be refused, whenever. *)
(* The driver is mounted by one caller while the others are idle, as a new *)
(* instance each time; it is unmounted while they go on, in two steps, of  *)
(* which only the first is under tokenMu.  ListDir is a "get" per page.    *)
(***************************************************************************)
EXTENDS Naturals, FiniteSets

CONSTANTS
    Callers,      \* the goroutines that use the mount
    Ops,          \* the kinds of request they make
    MaxRetries,   \* maxRetries
    MaxTokens     \* bound: tokens minted in one behaviour

ASSUME OpsAssumption == Ops \subseteq {"get", "put", "once"}
ASSUME RetriesAssumption == MaxRetries \in Nat \ {0}
ASSUME TokensAssumption == MaxTokens \in Nat

VARIABLES
    connected,    \* d.connected
    accessToken,  \* d.accessToken, 0 when empty
    fresh,        \* whether d.expiresAt is a minute away or more
    refreshToken, \* d.refreshToken
    configured,   \* the refresh token the host mounts with
    rotation,     \* Microsoft: what a refresh does to the refresh token
    minted,       \* Microsoft: tokens minted
    live,         \* Microsoft: access tokens it accepts
    grants,       \* Microsoft: refresh tokens it accepts
    pc,           \* where each caller is
    call,         \* what it keeps meanwhile
    answer,       \* what its last call returned
    orphaned,     \* history: Microsoft revoked the grants, or its reply was lost
    stray         \* history: Unmount found a call under way, or was overtaken by one

vars == <<connected, accessToken, fresh, refreshToken, configured, rotation, minted,
          live, grants, pc, call, answer, orphaned, stray>>

tokens == <<accessToken, fresh, refreshToken, stray>>
microsoft == <<configured, rotation, minted, live, grants, orphaned>>

Answers == {"none", "ok", "refused", "failed", "unauthorized", "reauth", "notConnected"}
(* "put" may be repeated; "once" (POST, PATCH, DELETE) finds its own work. *)
Calls ==
    [op : {"get", "put", "once", "mount", "unmount"},
     attempt : 0..MaxRetries,    \* the attempt of do's loop
     reason : {"stale", "401"},  \* why it refreshes
     token : 0..MaxTokens,       \* what its refresh or its request carries or got
     history : SUBSET {"acted",       \* the server has carried it out,
                       "unheard"}]    \* and an answer said nothing of that

NewCall(op, token) ==
    [op |-> op, attempt |-> 0, reason |-> "stale", token |-> token, history |-> {}]

-----------------------------------------------------------------------------
Init ==
    /\ connected = FALSE
    /\ accessToken = 0 /\ fresh = FALSE /\ refreshToken = 0
    /\ configured = 0
    /\ rotation \in {"none", "grace", "single"}
    /\ minted = 0 /\ live = {} /\ grants = {0}
    /\ pc = [c \in Callers |-> "idle"]
    /\ call = [c \in Callers |-> NewCall("get", 0)]
    /\ answer = [c \in Callers |-> "none"]
    /\ orphaned = FALSE /\ stray = FALSE

At(c, place) == pc[c] = place

Goto(c, place) == pc' = [pc EXCEPT ![c] = place]

Becomes(c, r) == call' = [call EXCEPT ![c] = r]

(* A record whose refresh or request is over.                              *)
Ended(r) == [r EXCEPT !.token = 0, !.reason = "stale"]

(* The record of a call that is over.                                      *)
Over(r) == [Ended(r) EXCEPT !.attempt = 0]

Return(c, r, result) ==
    /\ Goto(c, "idle")
    /\ Becomes(c, Over(r))
    /\ answer' = [answer EXCEPT ![c] = result]

(* Mount refreshes once, with the token it was configured with.            *)
Mount(c) ==
    /\ ~connected /\ \A d \in Callers : At(d, "idle")
    /\ accessToken' = 0 /\ fresh' = FALSE /\ refreshToken' = configured
    /\ orphaned' = FALSE /\ stray' = FALSE
    /\ Becomes(c, NewCall("mount", configured))
    /\ Goto(c, "refreshing")
    /\ UNCHANGED <<connected, configured, rotation, minted, live, grants, answer>>

(* The host unmounts what it has mounted: first the token is cleared.      *)
Unmounting(c) ==
    /\ At(c, "idle") /\ connected
    /\ Becomes(c, NewCall("unmount", 0))
    /\ Goto(c, "unmounting")
    /\ answer' = [answer EXCEPT ![c] = "none"]
    /\ UNCHANGED <<connected, fresh, refreshToken, stray, microsoft>>

(* Mutant: the access token stays.                                         *)
UnmountKeepingToken(c) == Unmounting(c) /\ UNCHANGED accessToken

Unmount(c) == Unmounting(c) /\ accessToken' = 0

(* A call that has passed the guard, and has not returned.                 *)
UnderWay(c) == pc[c] \notin {"idle", "unmounting"}

(* connected is cleared next, with no lock: until then calls begin, and    *)
(* may have refreshed.                                                     *)
Unmounted(c) ==
    /\ At(c, "unmounting")
    /\ connected' = FALSE
    /\ stray' = (stray \/ \E d \in Callers : UnderWay(d))
    /\ Return(c, call[c], "ok")
    /\ UNCHANGED <<accessToken, fresh, refreshToken, microsoft>>

Begin(c, op) ==
    /\ At(c, "idle")
    /\ Becomes(c, NewCall(op, 0))
    /\ IF connected
       THEN Goto(c, "ensure") /\ answer' = [answer EXCEPT ![c] = "none"]
       ELSE UNCHANGED pc /\ answer' = [answer EXCEPT ![c] = "notConnected"]
    /\ UNCHANGED <<connected, tokens, microsoft>>

-----------------------------------------------------------------------------
(* The token.                                                              *)

Needed(c) == At(c, "ensure") /\ (accessToken = 0 \/ ~fresh)

(* A 401 is answered by a refresh on the first attempt only.               *)
Disputed(c) == At(c, "sent") /\ call[c].token \notin live /\ call[c].attempt = 0

(* refresh() reads the refresh token it will send.                         *)
Asking(r, because) == [r EXCEPT !.token = refreshToken, !.reason = because]

StartRefresh(c, because) ==
    /\ Goto(c, "refreshing")
    /\ Becomes(c, Asking(call[c], because))

(* The read is a data race: beside another caller's store it may yield a   *)
(* string that is neither token.                                           *)
Misread(c) ==
    /\ Needed(c) \/ Disputed(c)
    /\ rotation # "none" /\ \E d \in Callers \ {c} : At(d, "storing")
    /\ Goto(c, "misread")
    /\ Becomes(c, Ended(call[c]))
    /\ UNCHANGED <<connected, tokens, microsoft, answer>>

(* ensureToken.                                                            *)
Ensure(c) ==
    /\ At(c, "ensure")
    /\ IF Needed(c)
       THEN StartRefresh(c, "stale")
       ELSE Goto(c, "send") /\ UNCHANGED call
    /\ UNCHANGED <<connected, tokens, microsoft, answer>>

(* Microsoft accepts a grant: the new tokens are on their way.             *)
Mint(c) ==
    /\ At(c, "refreshing") /\ call[c].token \in grants /\ minted < MaxTokens
    /\ minted' = minted + 1
    /\ live' = live \cup {minted + 1}
    /\ grants' = CASE rotation = "none" -> grants
                   [] rotation = "grace" -> grants \cup {minted + 1}
                   [] rotation = "single" -> (grants \ {call[c].token}) \cup {minted + 1}

Carrying(r, token) == [r EXCEPT !.token = token]

Refreshed(c) ==
    /\ Mint(c)
    /\ Becomes(c, Carrying(call[c], minted + 1))
    /\ Goto(c, "storing")
    /\ UNCHANGED <<connected, tokens, configured, rotation, answer, orphaned>>

(* The tokens are stored, and do goes on: with the request, or with the    *)
(* next attempt if a 401 was the reason; Mount is done.                    *)
Renewed(r) ==
    [r EXCEPT !.attempt = @ + 1, !.reason = "stale", !.token = 0]

GoOn(c) ==
    IF call[c].op = "mount"
    THEN connected' = TRUE /\ Return(c, call[c], "ok")
    ELSE /\ UNCHANGED <<connected, answer>>
         /\ IF call[c].reason = "401"
            THEN Goto(c, "ensure") /\ Becomes(c, Renewed(call[c]))
            ELSE Goto(c, "send") /\ Becomes(c, Ended(call[c]))

(* refresh does not look whether the driver is being unmounted.            *)
Astray == stray' = (stray \/ \E d \in Callers : At(d, "unmounting"))

(* Mutant: a rotated refresh token is not taken over.                      *)
StoreAccessOnly(c) ==
    /\ At(c, "storing")
    /\ accessToken' = call[c].token /\ fresh' = TRUE
    /\ Astray
    /\ GoOn(c)
    /\ UNCHANGED <<refreshToken, microsoft>>

Store(c) ==
    /\ At(c, "storing")
    /\ accessToken' = call[c].token /\ fresh' = TRUE
    /\ refreshToken' = IF rotation = "none" THEN refreshToken ELSE call[c].token
    /\ Astray
    /\ GoOn(c)
    /\ UNCHANGED microsoft

(* invalid_grant: the error that makes the host ask its user again.        *)
Rejected(c) ==
    /\ At(c, "misread") \/ (At(c, "refreshing") /\ call[c].token \notin grants)
    /\ Return(c, call[c], "reauth")
    /\ UNCHANGED <<connected, tokens, microsoft>>

(* A refresh that fails otherwise is not repeated, heard or not.           *)
RefreshFails(c) ==
    /\ At(c, "refreshing") \/ At(c, "misread")
    /\ Return(c, call[c], "failed")
    /\ UNCHANGED <<connected, tokens, microsoft>>

RefreshUnheard(c) ==
    /\ Mint(c)
    /\ orphaned' = TRUE
    /\ Return(c, call[c], "failed")
    /\ UNCHANGED <<connected, tokens, configured, rotation>>

-----------------------------------------------------------------------------
(* The request.                                                            *)

Send(c) ==
    /\ At(c, "send")
    /\ Becomes(c, Carrying(call[c], accessToken))
    /\ Goto(c, "sent")
    /\ UNCHANGED <<connected, tokens, microsoft, answer>>

Authorized(c) == At(c, "sent") /\ call[c].token \in live

Repeat(c, heard, n) ==
    /\ Goto(c, "ensure")
    /\ Becomes(c, Ended([heard EXCEPT !.attempt = n]))
    /\ UNCHANGED answer

(* Mutants: a retry is not counted; one more is made.                      *)
RetryUncounted(c, heard) == Repeat(c, heard, call[c].attempt)

RetryOnceMore(c, heard) ==
    IF call[c].attempt <= MaxRetries
    THEN Repeat(c, heard, call[c].attempt + 1)
    ELSE Return(c, heard, "failed")

(* The loop's continue, or its last error.                                 *)
Retry(c, heard) ==
    IF call[c].attempt < MaxRetries
    THEN Repeat(c, heard, call[c].attempt + 1)
    ELSE Return(c, heard, "failed")

(* A success status.  Only what may be repeated succeeds again.            *)
Acts(c) == Authorized(c) /\ ~(call[c].op = "once" /\ "acted" \in call[c].history)

Effect(c) ==
    [call[c] EXCEPT !.history = IF call[c].op = "get" THEN @ ELSE @ \cup {"acted"}]

Unheard(r) == [r EXCEPT !.history = @ \cup {"unheard"}]

(* Mutant: a success status is taken for a failure.                        *)
SucceedsUnrecognised(c) ==
    /\ Acts(c)
    /\ Retry(c, Effect(c))
    /\ UNCHANGED <<connected, tokens, microsoft>>

Succeeds(c) ==
    /\ Acts(c)
    /\ Return(c, Effect(c), "ok")
    /\ UNCHANGED <<connected, tokens, microsoft>>

(* A 404, 409, ...: what was done by an earlier attempt is in the way too. *)
Refused(c) ==
    /\ Authorized(c)
    /\ Return(c, call[c], "refused")
    /\ UNCHANGED <<connected, tokens, microsoft>>

(* A transport error, or a 429 or 5xx, before or after the server acted.   *)
Interrupted(c) ==
    /\ At(c, "sent")
    /\ \/ Retry(c, call[c])
       \/ Acts(c) /\ Retry(c, Unheard(Effect(c)))
    /\ UNCHANGED <<connected, tokens, microsoft>>

Unauthorized(c) ==
    /\ At(c, "sent") /\ call[c].token \notin live
    /\ IF Disputed(c)
       THEN StartRefresh(c, "401") /\ UNCHANGED answer
       ELSE Return(c, call[c], "unauthorized")
    /\ UNCHANGED <<connected, tokens, microsoft>>

-----------------------------------------------------------------------------
(* Microsoft and the host.                                                 *)

(* Time passes: a minute before the access token expires, and its end.     *)
Stale ==
    /\ fresh /\ fresh' = FALSE
    /\ UNCHANGED <<connected, accessToken, refreshToken, stray, microsoft, pc, call,
                   answer>>

Expire ==
    /\ \E t \in live : live' = live \ {t}
    /\ UNCHANGED <<connected, tokens, configured, rotation, minted, grants, pc, call,
                   answer, orphaned>>

(* The user withdraws what he granted.                                     *)
Revoke ==
    /\ grants # {} /\ grants' = {} /\ live' = {}
    /\ orphaned' = TRUE
    /\ UNCHANGED <<connected, tokens, configured, rotation, minted, pc, call, answer>>

(* The user authorises the host again, which will mount with the result.   *)
Reauthorise ==
    /\ ~connected /\ minted < MaxTokens
    /\ minted' = minted + 1
    /\ grants' = grants \cup {minted + 1}
    /\ configured' = minted + 1
    /\ UNCHANGED <<connected, tokens, rotation, live, pc, call, answer, orphaned>>

Step(c) ==
    \/ Misread(c) \/ Ensure(c) \/ Refreshed(c) \/ Store(c) \/ Rejected(c) \/ RefreshFails(c)
    \/ RefreshUnheard(c) \/ Send(c) \/ Succeeds(c) \/ Refused(c) \/ Interrupted(c)
    \/ Unauthorized(c) \/ Unmounted(c)

Next ==
    \/ \E c \in Callers : Mount(c) \/ Unmount(c) \/ Step(c)
    \/ \E c \in Callers, op \in Ops : Begin(c, op)
    \/ Stale \/ Expire \/ Revoke \/ Reauthorise

Spec == Init /\ [][Next]_vars

(* A call goes on, and a request ends: the client's timeout is 60 s.       *)
FairSpec == Spec /\ \A c \in Callers : WF_vars(Step(c))

-----------------------------------------------------------------------------
(* Properties.                                                             *)

(* Every variable has its type; in particular no call makes more attempts  *)
(* than maxRetries allows.                                                 *)
TypeOK ==
    /\ connected \in BOOLEAN
    /\ accessToken \in 0..MaxTokens /\ fresh \in BOOLEAN
    /\ refreshToken \in 0..MaxTokens /\ configured \in 0..MaxTokens
    /\ rotation \in {"none", "grace", "single"}
    /\ minted \in 0..MaxTokens
    /\ live \subseteq 1..minted /\ grants \subseteq 0..minted
    /\ pc \in [Callers -> {"idle", "ensure", "misread", "refreshing", "storing",
                       "send", "sent", "unmounting"}]
    /\ call \in [Callers -> Calls]
    /\ answer \in [Callers -> Answers]
    /\ orphaned \in BOOLEAN /\ stray \in BOOLEAN

(* When nobody is refreshing, the driver holds a refresh token Microsoft   *)
(* accepts, whatever it does to a token that was used and however the      *)
(* callers' refreshes interleaved: the mount never loses its grant, unless *)
(* it was revoked or its successor lost on the way.                        *)
GrantKept ==
    connected /\ ~orphaned /\ (\A c \in Callers : pc[c] \notin {"refreshing", "storing"})
        => refreshToken \in grants

(* A call that does not succeed has changed nothing, unless an attempt was *)
(* carried out and its answer did not say so.                              *)
FailureMeansUndone ==
    \A c \in Callers :
        pc[c] = "idle" /\ answer[c] # "ok" /\ "acted" \in call[c].history
            => "unheard" \in call[c].history

(* A driver at rest that is not mounted has no access token, unless a call *)
(* was under way as Unmount finished, or stored one while it ran: no call  *)
(* that begins later, and no mount that fails, brings one back.            *)
UnmountForgets ==
    ~connected /\ ~stray /\ (\A c \in Callers : pc[c] = "idle") => accessToken = 0

(* Every call returns, however many 401s, lost answers and refreshes are   *)
(* in its way: no caller is kept from being idle again.                    *)
CallReturns == \A c \in Callers : []<>(pc[c] = "idle")

-----------------------------------------------------------------------------
(* The invariant that makes GrantKept inductive.                           *)

Refreshing(c) == pc[c] = "refreshing"
Storing(c) == pc[c] = "storing"
Mounting(c) == pc[c] # "idle" /\ call[c].op = "mount"

(* Only the first attempt refreshes because of a 401.                      *)
FirstAttempt == \A c \in Callers : call[c].reason = "401" => call[c].attempt = 0

(* A mount has the driver to itself, and refreshes with the token it set.  *)
MountAlone ==
    \A c \in Callers : Mounting(c) =>
        /\ ~connected
        /\ Refreshing(c) \/ Storing(c)
        /\ Refreshing(c) => call[c].token = refreshToken
        /\ \A d \in Callers \ {c} : pc[d] = "idle"

Rotating == rotation # "none"

(* Tokens in use were minted, and a token on its way to the driver is      *)
(* known to nobody else.                                                   *)
OnItsWay ==
    /\ refreshToken <= minted /\ configured <= minted
    /\ \A c \in Callers : Refreshing(c) \/ Storing(c) => call[c].token <= minted
    /\ Rotating => \A c \in Callers : Storing(c) =>
           /\ call[c].token # refreshToken /\ call[c].token # configured
           /\ \A d \in Callers \ {c} :
                  Refreshing(d) \/ Storing(d) => call[d].token # call[c].token
           /\ ~orphaned => call[c].token \in grants

(* The grant is with the driver, or on its way to it.                      *)
Held ==
    ~orphaned /\ (connected \/ \E c \in Callers : Mounting(c) /\ Storing(c)) =>
        refreshToken \in grants \/ (Rotating /\ \E c \in Callers : Storing(c))

Inv == TypeOK /\ FirstAttempt /\ MountAlone /\ OnItsWay /\ Held
==============================================================================
