------------------------------ MODULE Accounts ------------------------------
(* The sessions of one account: refresh tokens that are exchanged, revoked by *)
(* a logout or by a password reset, the reset tokens, and the limiter that    *)
(* counts the attempts of one key. Each step is one statement or transaction: *)
(* what a request read may be old when it writes.                            *)
EXTENDS Naturals

CONSTANTS
    RefreshToken,  \* identifiers of refresh_tokens rows
    ResetToken,    \* identifiers of password_reset_tokens rows
    Request,       \* HTTP requests in flight
    NoToken,       \* a request without a token
    AttemptLimit   \* attempts a key has in one window

ASSUME AccountsAssumption ==
    NoToken \notin RefreshToken \union ResetToken /\ AttemptLimit \in Nat \ {0}

VARIABLES
    refreshToken,  \* the rows: state, the row it was exchanged from, the password in force
    resetToken,    \* the rows: state and how often each has set a password
    password,      \* how often the password was set
    request,       \* per request: its place, the token it read, the tokens it will void
    window         \* the limiter: the two counters, redis, attempts let through

accountVars == <<refreshToken, resetToken, password, request, window>>

Idle == [pc |-> "idle", token |-> NoToken, void |-> {}]
FreshWindow == [shared |-> 0, local |-> 0, redis |-> TRUE, admitted |-> 0]

AccountsInit ==
    /\ refreshToken = [t \in RefreshToken |-> [state |-> "unissued", from |-> NoToken, since |-> 0]]
    /\ resetToken = [t \in ResetToken |-> [state |-> "unissued", used |-> 0]]
    /\ password = 0 /\ window = FreshWindow
    /\ request = [r \in Request |-> Idle]

(* AuthRateLimiter.check: the counter of redis, or after its first failure the
   one of the process. *)
Count == IF window.redis THEN window.shared ELSE window.local
CheckLimit ==
    /\ window' = [window EXCEPT
           !.shared = IF window.redis THEN @ + 1 ELSE @,
           !.local = IF window.redis THEN @ ELSE @ + 1,
           !.admitted = IF Count < AttemptLimit THEN @ + 1 ELSE @]
    /\ Count <= AttemptLimit   \* bound: beyond it only refusals are counted
    /\ UNCHANGED <<refreshToken, resetToken, password, request>>
RedisFails ==
    /\ window.redis /\ window' = [window EXCEPT !.redis = FALSE]
    /\ UNCHANGED <<refreshToken, resetToken, password, request>>
(* A login that succeeds clears its key; a later window has another one. *)
ClearLimit ==
    /\ window' = [FreshWindow EXCEPT !.redis = window.redis]
    /\ UNCHANGED <<refreshToken, resetToken, password, request>>

(* issue_session, for a login or after an exchange. *)
Issue(t, from) ==
    /\ refreshToken[t].state = "unissued"
    /\ refreshToken' = [refreshToken EXCEPT ![t] =
           [state |-> "live", from |-> from, since |-> password]]
LoginSession(t) ==
    Issue(t, NoToken) /\ UNCHANGED <<resetToken, password, request, window>>

(* rotate_refresh_token: the row is read, revoked if it still is not, and the
   new session is a transaction of its own. A row that has expired is one that
   no request reads any more. *)
ReadRefresh(r, t) ==
    /\ request[r] = Idle /\ refreshToken[t].state = "live"
    /\ request' = [request EXCEPT ![r].pc = "rotate", ![r].token = t]
    /\ UNCHANGED <<refreshToken, resetToken, password, window>>
\* Mutant: the update does not compare revoked_at.
AnyRow(t) == TRUE
NotRevoked(t) == refreshToken[t].state # "revoked"
Revoke(r) ==
    LET t == request[r].token
    IN  /\ request[r].pc = "rotate"
        /\ refreshToken' = [refreshToken EXCEPT ![t].state = "revoked"]
        /\ request' = [request EXCEPT ![r] = IF NotRevoked(t) THEN [@ EXCEPT !.pc = "issue"]
                                             ELSE Idle]
        /\ UNCHANGED <<resetToken, password, window>>
IssueRotated(r, t) ==
    /\ request[r].pc = "issue" /\ Issue(t, request[r].token)
    /\ request' = [request EXCEPT ![r] = Idle]
    /\ UNCHANGED <<resetToken, password, window>>

(* revoke_refresh_token, for a logout, compares what it read. *)
ReadLogout(r, t) ==
    /\ request[r] = Idle /\ refreshToken[t].state = "live"
    /\ request' = [request EXCEPT ![r].pc = "logout", ![r].token = t]
    /\ UNCHANGED <<refreshToken, resetToken, password, window>>
Logout(r) ==
    /\ request[r].pc = "logout"
    /\ refreshToken' = [refreshToken EXCEPT ![request[r].token].state = "revoked"]
    /\ request' = [request EXCEPT ![r] = Idle]
    /\ UNCHANGED <<resetToken, password, window>>

(* create_password_reset voids the open tokens its update saw; another request
   may insert one before this one commits. *)
BeginReset(r) ==
    /\ request[r] = Idle
    /\ request' = [request EXCEPT ![r].pc = "forgot",
           ![r].void = {t \in ResetToken : resetToken[t].state = "open"}]
    /\ UNCHANGED <<refreshToken, resetToken, password, window>>
CreateReset(r, t) ==
    /\ request[r].pc = "forgot" /\ resetToken[t].state = "unissued"
    /\ resetToken' = [u \in ResetToken |->
           IF u = t THEN [resetToken[u] EXCEPT !.state = "open"]
           ELSE IF u \in request[r].void THEN [resetToken[u] EXCEPT !.state = "closed"]
           ELSE resetToken[u]]
    /\ request' = [request EXCEPT ![r] = Idle]
    /\ UNCHANGED <<refreshToken, password, window>>

(* consume_password_reset: read, then one transaction. *)
ReadReset(r, t) ==
    /\ request[r] = Idle /\ resetToken[t].state = "open"
    /\ request' = [request EXCEPT ![r].pc = "reset", ![r].token = t]
    /\ UNCHANGED <<refreshToken, resetToken, password, window>>
RevokeAll == [t \in RefreshToken |->
    IF refreshToken[t].state = "live"
    THEN [refreshToken[t] EXCEPT !.state = "revoked"] ELSE refreshToken[t]]
ConsumeReset(r) ==
    LET t == request[r].token
        free == resetToken[t].state = "open"
    IN  /\ request[r].pc = "reset"
        /\ resetToken' = IF free THEN [resetToken EXCEPT ![t].state = "closed", ![t].used = @ + 1]
                         ELSE resetToken
        /\ password' = IF free THEN password + 1 ELSE password
        /\ refreshToken' = IF free THEN RevokeAll ELSE refreshToken
        /\ request' = [request EXCEPT ![r] = Idle]
        /\ UNCHANGED window

(* The process ends: an exchange may have revoked its token and issued none. *)
RequestsLost ==
    /\ request' = [r \in Request |-> Idle]
    /\ UNCHANGED <<refreshToken, resetToken, password, window>>

LimiterNext == CheckLimit \/ RedisFails \/ ClearLimit
SessionsNext ==
    \/ RequestsLost
    \/ \E t \in RefreshToken : LoginSession(t)
    \/ \E r \in Request :
          \/ Revoke(r) \/ Logout(r) \/ BeginReset(r) \/ ConsumeReset(r)
          \/ \E t \in RefreshToken : ReadRefresh(r, t) \/ IssueRotated(r, t) \/ ReadLogout(r, t)
          \/ \E t \in ResetToken : CreateReset(r, t) \/ ReadReset(r, t)
AccountsNext == LimiterNext \/ SessionsNext
AccountsSpec == AccountsInit /\ [][AccountsNext]_accountVars
----------------------------------------------------------------------------
AccountsTypeOK ==
    /\ refreshToken \in [RefreshToken -> [state: {"unissued", "live", "revoked"},
                                          from: RefreshToken \union {NoToken}, since: Nat]]
    /\ resetToken \in [ResetToken -> [state: {"unissued", "open", "closed"}, used: Nat]]
    /\ password \in Nat
    /\ request \in [Request -> [pc: {"idle", "rotate", "issue", "logout", "forgot", "reset"},
                                token: RefreshToken \union ResetToken \union {NoToken},
                                void: SUBSET ResetToken]]
    /\ window \in [shared: Nat, local: Nat, redis: BOOLEAN, admitted: Nat]

(* However requests interleave, a refresh token is exchanged for at most one
   other and is revoked when it is; a reset token sets at most one password; a
   session issued before a reset is not live after it; and a key that loses
   redis gets at most its limit once more (auth.py, services/auth.py). *)
ExchangedOnce ==
    \A t, u \in RefreshToken :
        refreshToken[t].from \in RefreshToken =>
            /\ refreshToken[refreshToken[t].from].state = "revoked"
            /\ refreshToken[u].from = refreshToken[t].from => u = t
ResetOnce == \A t \in ResetToken : resetToken[t].used <= 1
ResetEndsSessions ==
    \A t \in RefreshToken : refreshToken[t].state = "live" => refreshToken[t].since = password
AttemptsLimited == window.admitted <= 2 * AttemptLimit
SessionsSound == ExchangedOnce /\ ResetOnce /\ ResetEndsSessions /\ AttemptsLimited
=============================================================================
