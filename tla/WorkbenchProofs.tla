--------------------------- MODULE WorkbenchProofs ---------------------------
(* What stands behind the conversations, part by part, for any number of     *)
(* requests, files, sockets, callers, writers, extensions and runs, and then *)
(* their composition.                                                        *)
EXTENDS MCWorkbench, FiniteSetTheorems, TLAPS

(***************************************************************************)
(* Accounts: refresh tokens, resets and the limiter.                       *)
(***************************************************************************)

(* What a request holds: an exchange or a logout a refresh token that has been
   issued, a reset a reset token; an exchange that will issue a session has
   revoked its token, whose successor is nobody else's to issue. *)
TokenRequestInv == \A r \in Request :
    /\ request[r].pc \in {"rotate", "issue", "logout"} => request[r].token \in RefreshToken
    /\ request[r].pc = "reset" => request[r].token \in ResetToken
    /\ request[r].pc = "issue" =>
           /\ refreshToken[request[r].token].state = "revoked"
           /\ \A t \in RefreshToken : refreshToken[t].from # request[r].token
           /\ \A q \in Request : request[q].pc = "issue" /\ request[q].token = request[r].token
                                 => q = r

(* A reset token that may still be used has set no password. *)
UnusedInv == \A t \in ResetToken : resetToken[t].state # "closed" => resetToken[t].used = 0

(* The attempts let through are those some counter has counted. *)
WindowInv ==
    /\ window.redis => /\ window.local = 0 /\ window.admitted <= window.shared
                       /\ window.admitted <= AttemptLimit
    /\ ~window.redis => window.admitted <= AttemptLimit + window.local

AccountsInv == AccountsTypeOK /\ SessionsSound /\ TokenRequestInv /\ UnusedInv /\ WindowInv

SessionParts == ExchangedOnce /\ ResetOnce /\ ResetEndsSessions /\ TokenRequestInv /\ UnusedInv

(* Nothing is issued and nobody has asked. *)
LEMMA AccountsInitHolds == AccountsInit => AccountsInv
<1> SUFFICES ASSUME AccountsInit PROVE AccountsInv
  OBVIOUS
<1> USE AccountsAssumption DEF AccountsInit, Idle, FreshWindow
<1>1. AccountsTypeOK
  BY DEF AccountsTypeOK
<1>2. SessionParts
  BY DEF SessionParts, ExchangedOnce, ResetOnce, ResetEndsSessions, TokenRequestInv, UnusedInv
<1>3. AttemptsLimited /\ WindowInv
  BY DEF AttemptsLimited, WindowInv
<1> QED BY <1>1, <1>2, <1>3 DEF AccountsInv, SessionsSound, SessionParts

(* The limiter keeps its part: a counter lets through what it counts up to the
   limit, and there are two of them. *)
LEMMA LimiterKeeps == ASSUME AccountsInv, LimiterNext PROVE AccountsInv'
<1> USE AccountsAssumption
<1>1. UNCHANGED <<refreshToken, resetToken, password, request>>
  BY DEF LimiterNext, CheckLimit, RedisFails, ClearLimit
<1>2. window \in [shared: Nat, local: Nat, redis: BOOLEAN, admitted: Nat]
      /\ AttemptsLimited /\ WindowInv
  BY DEF AccountsInv, AccountsTypeOK, SessionsSound
<1>3. window' \in [shared: Nat, local: Nat, redis: BOOLEAN, admitted: Nat]
      /\ AttemptsLimited' /\ WindowInv'
  <2> DEFINE s == window.shared
             l == window.local
             a == window.admitted
             more == IF Count < AttemptLimit THEN a + 1 ELSE a
  <2>1. s \in Nat /\ l \in Nat /\ a \in Nat /\ AttemptLimit \in Nat /\ more \in Nat
    BY <1>2
  <2>2. CASE CheckLimit /\ window.redis
    <3>1. window' = [shared |-> s + 1, local |-> l, redis |-> window.redis, admitted |-> more]
      BY <1>2, <2>2 DEF CheckLimit
    <3>2. l = 0 /\ more <= s + 1 /\ more <= AttemptLimit
      BY <1>2, <2>1, <2>2 DEF WindowInv, Count
    <3> HIDE DEF s, l, more
    <3> QED BY <1>2, <2>1, <2>2, <3>1, <3>2 DEF AttemptsLimited, WindowInv
  <2>3. CASE CheckLimit /\ ~window.redis
    <3>1. window' = [shared |-> s, local |-> l + 1, redis |-> window.redis, admitted |-> more]
      BY <1>2, <2>3 DEF CheckLimit
    <3>2. more <= AttemptLimit + (l + 1) /\ more <= 2 * AttemptLimit
      BY <1>2, <2>1, <2>3 DEF WindowInv, AttemptsLimited, Count
    <3> HIDE DEF s, l, more
    <3> QED BY <1>2, <2>1, <2>3, <3>1, <3>2 DEF AttemptsLimited, WindowInv
  <2>4. CASE RedisFails
    <3>1. window' = [shared |-> s, local |-> l, redis |-> FALSE, admitted |-> a]
      BY <1>2, <2>4 DEF RedisFails
    <3>2. a <= AttemptLimit
      BY <1>2, <2>4 DEF RedisFails, WindowInv
    <3>3. a <= AttemptLimit + l /\ a <= 2 * AttemptLimit
      BY <2>1, <3>2
    <3> HIDE DEF s, l, a
    <3> QED BY <2>1, <3>1, <3>3 DEF AttemptsLimited, WindowInv
  <2>5. CASE ClearLimit
    <3>1. window' = [shared |-> 0, local |-> 0, redis |-> window.redis, admitted |-> 0]
      BY <1>2, <2>5 DEF ClearLimit, FreshWindow
    <3> QED BY <1>2, <2>1, <3>1 DEF AttemptsLimited, WindowInv
  <2> QED BY <2>2, <2>3, <2>4, <2>5 DEF LimiterNext
<1>4. AccountsTypeOK'
  BY <1>1, <1>3 DEF AccountsInv, AccountsTypeOK
<1>5. SessionParts'
  BY <1>1 DEF AccountsInv, SessionsSound, SessionParts, ExchangedOnce, ResetOnce, ResetEndsSessions,
              TokenRequestInv, UnusedInv
<1> QED BY <1>3, <1>4, <1>5 DEF AccountsInv, SessionsSound, SessionParts

(* A request that only reads or is lost changes nothing but its own place, and
   never becomes one that issues. *)
LEMMA TokenReadKeeps ==
    ASSUME AccountsTypeOK, SessionParts, UNCHANGED <<refreshToken, resetToken, password>>,
           NEW r \in Request, request'[r].pc # "issue",
           request'[r].pc \in {"rotate", "logout"} => request'[r].token \in RefreshToken,
           request'[r].pc = "reset" => request'[r].token \in ResetToken,
           \A q \in Request : q # r => request'[q] = request[q]
    PROVE  SessionParts'
<1>1. TokenRequestInv'
  BY DEF SessionParts, TokenRequestInv
<1> QED BY <1>1 DEF SessionParts, ExchangedOnce, ResetOnce, ResetEndsSessions, UnusedInv

(* Revoking issued tokens and giving up requests disturbs nothing: a revoked
   token stays revoked, and no session becomes live. *)
LEMMA TokenRevokeKeeps ==
    ASSUME AccountsTypeOK, SessionParts, UNCHANGED <<resetToken, password>>,
           \A t \in RefreshToken :
               /\ refreshToken'[t].from = refreshToken[t].from
               /\ refreshToken'[t].since = refreshToken[t].since
               /\ refreshToken'[t].state \in {refreshToken[t].state, "revoked"},
           \A q \in Request : request'[q] \in {request[q], Idle}
    PROVE  SessionParts'
<1>1. ExchangedOnce' /\ ResetEndsSessions'
  BY DEF SessionParts, ExchangedOnce, ResetEndsSessions, AccountsTypeOK
<1>2. TokenRequestInv'
  BY DEF SessionParts, TokenRequestInv, Idle
<1>3. ResetOnce' /\ UnusedInv'
  BY DEF SessionParts, ResetOnce, UnusedInv
<1> QED BY <1>1, <1>2, <1>3 DEF SessionParts

(* A new session: its token was unissued, so nothing came from it; if it comes
   from an exchange, that is the only one of the token it was exchanged for. *)
LEMMA TokenIssueKeeps ==
    ASSUME AccountsTypeOK, SessionParts, UNCHANGED <<resetToken, password>>,
           NEW t \in RefreshToken, NEW from \in RefreshToken \union {NoToken}, Issue(t, from),
           \/ from = NoToken /\ request' = request
           \/ \E r \in Request : /\ request[r].pc = "issue" /\ request[r].token = from
                                 /\ request' = [request EXCEPT ![r] = Idle]
    PROVE  SessionParts'
<1> USE DEF AccountsTypeOK
<1>1. \A u \in RefreshToken : refreshToken'[u] =
          IF u = t THEN [state |-> "live", from |-> from, since |-> password]
          ELSE refreshToken[u]
  BY DEF Issue
<1>2. refreshToken[t].state = "unissued" /\ NoToken \notin RefreshToken
  BY AccountsAssumption DEF Issue
<1>3. \A u \in RefreshToken : refreshToken[u].from # t
  BY <1>2 DEF SessionParts, ExchangedOnce
<1>4. from \in RefreshToken => /\ refreshToken[from].state = "revoked"
                               /\ \A u \in RefreshToken : refreshToken[u].from # from
  BY <1>2 DEF SessionParts, TokenRequestInv
<1>5. ExchangedOnce' /\ ResetEndsSessions'
  BY <1>1, <1>2, <1>3, <1>4 DEF SessionParts, ExchangedOnce, ResetEndsSessions
<1>6. /\ \A q \in Request : request'[q] \in {request[q], Idle}
      /\ \A q \in Request : request'[q].pc = "issue" => request'[q].token # from
  <2>1. CASE from = NoToken /\ request' = request
    BY <1>2, <2>1 DEF SessionParts, TokenRequestInv
  <2>2. ASSUME NEW r \in Request, request[r].pc = "issue", request[r].token = from,
               request' = [request EXCEPT ![r] = Idle]
        PROVE  /\ \A q \in Request : request'[q] \in {request[q], Idle}
               /\ \A q \in Request : request'[q].pc = "issue" => request'[q].token # from
    BY <2>2 DEF Idle, SessionParts, TokenRequestInv
  <2> QED BY <2>1, <2>2
<1>7. TokenRequestInv'
  <2> SUFFICES ASSUME NEW q \in Request, request'[q] = request[q]
               PROVE  TokenRequestInv!(q)'
    BY <1>6 DEF TokenRequestInv, Idle
  <2>1. CASE request[q].pc # "issue"
    BY <2>1 DEF SessionParts, TokenRequestInv
  <2>2. CASE request[q].pc = "issue"
    <3>1. request[q].token # from /\ request[q].token # t /\ request[q].token \in RefreshToken
          /\ refreshToken[request[q].token].state = "revoked"
      BY <1>2, <1>6, <2>2 DEF SessionParts, TokenRequestInv
    <3>2. \A p \in Request : request'[p].pc = "issue" => request'[p] = request[p]
      BY <1>6 DEF Idle
    <3>3. \A p \in Request : request'[p].pc = "issue" /\ request'[p].token = request[q].token
                             => p = q
      BY <2>2, <3>2 DEF SessionParts, TokenRequestInv
    <3>4. \A u \in RefreshToken : refreshToken'[u].from # request[q].token
      BY <1>1, <2>2, <3>1 DEF SessionParts, TokenRequestInv
    <3>5. refreshToken'[request[q].token].state = "revoked"
      BY <1>1, <3>1
    <3> QED BY <2>2, <3>1, <3>3, <3>4, <3>5
  <2> QED BY <2>1, <2>2
<1>8. ResetOnce' /\ UnusedInv'
  BY DEF SessionParts, ResetOnce, UnusedInv
<1> QED BY <1>5, <1>7, <1>8 DEF SessionParts

(* The revocation of an exchange: the token it read is revoked now, and it is
   this request's to exchange only if nobody had revoked it before. *)
LEMMA TokenExchangeKeeps == ASSUME AccountsTypeOK, SessionParts, NEW r \in Request, Revoke(r)
                       PROVE  SessionParts'
<1> USE DEF AccountsTypeOK
<1> DEFINE t == request[r].token
<1>1. t \in RefreshToken /\ request[r].pc = "rotate" /\ UNCHANGED <<resetToken, password>>
  BY DEF Revoke, SessionParts, TokenRequestInv
<1>2. \A u \in RefreshToken : /\ refreshToken'[u].from = refreshToken[u].from
                              /\ refreshToken'[u].since = refreshToken[u].since
                              /\ refreshToken'[u].state = IF u = t THEN "revoked"
                                                          ELSE refreshToken[u].state
  BY <1>1 DEF Revoke
<1>3. CASE refreshToken[t].state = "revoked"
  <2>1. \A q \in Request : request'[q] \in {request[q], Idle}
    BY <1>3 DEF Revoke, NotRevoked
  <2> QED BY <1>1, <1>2, <2>1, TokenRevokeKeeps
<1>4. CASE refreshToken[t].state # "revoked"
  <2>1. \A q \in Request : /\ request'[q].token = request[q].token
                           /\ request'[q].pc = IF q = r THEN "issue" ELSE request[q].pc
    BY <1>4 DEF Revoke, NotRevoked
  <2>2. \A u \in RefreshToken : refreshToken[u].from # t
    BY <1>1, <1>4 DEF SessionParts, ExchangedOnce
  <2>3. \A q \in Request : request[q].pc = "issue" => request[q].token # t
    BY <1>1, <1>4 DEF SessionParts, TokenRequestInv
  <2>4. TokenRequestInv'
    BY <1>1, <1>2, <2>1, <2>2, <2>3 DEF SessionParts, TokenRequestInv
  <2>5. ExchangedOnce' /\ ResetEndsSessions'
    BY <1>1, <1>2 DEF SessionParts, ExchangedOnce, ResetEndsSessions
  <2>6. ResetOnce' /\ UnusedInv'
    BY <1>1 DEF SessionParts, ResetOnce, UnusedInv
  <2> QED BY <2>4, <2>5, <2>6 DEF SessionParts
<1> QED BY <1>3, <1>4

(* Making and using reset tokens: only an unissued one is opened, only an open
   one sets a password, and that revokes what was live. *)
LEMMA PasswordResetKeeps ==
    ASSUME AccountsTypeOK, SessionParts, NEW r \in Request,
           ConsumeReset(r) \/ \E t \in ResetToken : CreateReset(r, t)
    PROVE  SessionParts'
<1> USE DEF AccountsTypeOK
<1>1. ASSUME NEW t \in ResetToken, CreateReset(r, t) PROVE SessionParts'
  <2>1. \A u \in ResetToken :
            /\ resetToken'[u].used = resetToken[u].used
            /\ resetToken'[u].state # "closed" => resetToken[u].state # "closed"
    BY <1>1 DEF CreateReset
  <2>2. UNCHANGED <<refreshToken, password>> /\ \A q \in Request : request'[q] \in {request[q], Idle}
    BY <1>1 DEF CreateReset
  <2>3. TokenRequestInv'
    BY <2>2 DEF SessionParts, TokenRequestInv, Idle
  <2>4. ExchangedOnce' /\ ResetEndsSessions'
    BY <2>2 DEF SessionParts, ExchangedOnce, ResetEndsSessions
  <2>5. ResetOnce' /\ UnusedInv'
    BY <2>1 DEF SessionParts, ResetOnce, UnusedInv
  <2> QED BY <2>3, <2>4, <2>5 DEF SessionParts
<1>2. CASE ConsumeReset(r)
  <2> DEFINE t == request[r].token
  <2>1. t \in ResetToken /\ \A q \in Request : request'[q] \in {request[q], Idle}
    BY <1>2 DEF ConsumeReset, SessionParts, TokenRequestInv
  <2>2. CASE resetToken[t].state # "open"
    <3>1. UNCHANGED <<refreshToken, resetToken, password>>
      BY <1>2, <2>2 DEF ConsumeReset
    <3> QED BY <2>1, <3>1, TokenRevokeKeeps
  <2>3. CASE resetToken[t].state = "open"
    <3>1. \A u \in RefreshToken :
              /\ refreshToken'[u].from = refreshToken[u].from
              /\ refreshToken'[u].state = IF refreshToken[u].state = "live" THEN "revoked"
                                          ELSE refreshToken[u].state
      BY <1>2, <2>3 DEF ConsumeReset, RevokeAll
    <3>2. \A u \in ResetToken :
              IF u = t THEN resetToken'[u].state = "closed" /\ resetToken'[u].used = 1
              ELSE resetToken'[u] = resetToken[u]
      BY <1>2, <2>1, <2>3 DEF ConsumeReset, SessionParts, UnusedInv
    <3>3. ExchangedOnce' /\ ResetEndsSessions'
      BY <3>1 DEF SessionParts, ExchangedOnce, ResetEndsSessions
    <3>4. ResetOnce' /\ UnusedInv'
      BY <3>2 DEF SessionParts, ResetOnce, UnusedInv
    <3>5. TokenRequestInv'
      BY <2>1, <3>1 DEF SessionParts, TokenRequestInv, Idle
    <3> QED BY <3>3, <3>4, <3>5 DEF SessionParts
  <2> QED BY <2>2, <2>3
<1> QED BY <1>1, <1>2

(* The types of the rows and of the requests. *)
RefreshRow == [state: {"unissued", "live", "revoked"}, from: RefreshToken \union {NoToken},
               since: Nat]
ResetRow == [state: {"unissued", "open", "closed"}, used: Nat]
RequestPlace == [pc: {"idle", "rotate", "issue", "logout", "forgot", "reset"},
          token: RefreshToken \union ResetToken \union {NoToken}, void: SUBSET ResetToken]

(* No step of a request leaves the types. *)
LEMMA AccountsTypeKeeps ==
    ASSUME AccountsInv, SessionsNext
    PROVE  /\ refreshToken' \in [RefreshToken -> RefreshRow]
           /\ resetToken' \in [ResetToken -> ResetRow]
           /\ password' \in Nat /\ request' \in [Request -> RequestPlace]
<1> DEFINE Types == /\ refreshToken \in [RefreshToken -> RefreshRow]
                    /\ resetToken \in [ResetToken -> ResetRow]
                    /\ password \in Nat /\ request \in [Request -> RequestPlace]
<1>1. Types /\ TokenRequestInv
  BY DEF AccountsInv, AccountsTypeOK, RefreshRow, ResetRow, RequestPlace
<1>2. Idle \in RequestPlace
  BY DEF Idle, RequestPlace
<1>3. CASE RequestsLost
  BY <1>1, <1>2, <1>3 DEF RequestsLost
<1>4. ASSUME NEW t \in RefreshToken, LoginSession(t) PROVE Types'
  <2>1. [state |-> "live", from |-> NoToken, since |-> password] \in RefreshRow
    BY <1>1 DEF RefreshRow
  <2> QED BY <1>1, <1>4, <2>1 DEF LoginSession, Issue
<1>5. ASSUME NEW r \in Request, Revoke(r) PROVE Types'
  <2> DEFINE t == request[r].token
  <2>1. t \in RefreshToken
    BY <1>1, <1>5 DEF Revoke, TokenRequestInv
  <2>2. [refreshToken[t] EXCEPT !.state = "revoked"] \in RefreshRow
    BY <1>1, <2>1 DEF RefreshRow
  <2>3. [request[r] EXCEPT !.pc = "issue"] \in RequestPlace
    BY <1>1 DEF RequestPlace
  <2>4. /\ refreshToken' = [refreshToken EXCEPT ![t] = [refreshToken[t] EXCEPT !.state = "revoked"]]
        /\ \/ request' = [request EXCEPT ![r] = [request[r] EXCEPT !.pc = "issue"]]
           \/ request' = [request EXCEPT ![r] = Idle]
    BY <1>5 DEF Revoke
  <2> HIDE DEF t
  <2> QED BY <1>1, <1>2, <1>5, <2>1, <2>2, <2>3, <2>4 DEF Revoke
<1>6. ASSUME NEW r \in Request, Logout(r) PROVE Types'
  <2> DEFINE t == request[r].token
  <2>1. t \in RefreshToken
    BY <1>1, <1>6 DEF Logout, TokenRequestInv
  <2>2. [refreshToken[t] EXCEPT !.state = "revoked"] \in RefreshRow
    BY <1>1, <2>1 DEF RefreshRow
  <2>3. refreshToken' = [refreshToken EXCEPT ![t] = [refreshToken[t] EXCEPT !.state = "revoked"]]
    BY <1>6 DEF Logout
  <2> HIDE DEF t
  <2> QED BY <1>1, <1>2, <1>6, <2>1, <2>2, <2>3 DEF Logout
<1>7. ASSUME NEW r \in Request, BeginReset(r) PROVE Types'
  BY <1>1, <1>7 DEF BeginReset, RequestPlace
<1>8. ASSUME NEW r \in Request, ConsumeReset(r) PROVE Types'
  <2> DEFINE t == request[r].token
             used == [state |-> "closed", used |-> resetToken[t].used + 1]
  <2>1. t \in ResetToken
    BY <1>1, <1>8 DEF ConsumeReset, TokenRequestInv
  <2>2. used \in ResetRow
    BY <1>1, <2>1 DEF ResetRow
  <2>3. RevokeAll \in [RefreshToken -> RefreshRow]
    BY <1>1 DEF RevokeAll, RefreshRow
  <2>4. resetToken' \in {resetToken, [resetToken EXCEPT ![t] = used]}
    BY <1>1, <1>8, <2>1 DEF ConsumeReset, ResetRow
  <2>5. refreshToken' \in {refreshToken, RevokeAll} /\ password' \in {password, password + 1}
        /\ request' = [request EXCEPT ![r] = Idle]
    BY <1>8 DEF ConsumeReset
  <2> HIDE DEF t, used
  <2> QED BY <1>1, <1>2, <2>1, <2>2, <2>3, <2>4, <2>5
<1>9. ASSUME NEW r \in Request, NEW t \in RefreshToken,
             ReadRefresh(r, t) \/ ReadLogout(r, t)
      PROVE  Types'
  BY <1>1, <1>9 DEF ReadRefresh, ReadLogout, RequestPlace
<1>10. ASSUME NEW r \in Request, NEW t \in RefreshToken, IssueRotated(r, t) PROVE Types'
  <2>1. request[r].token \in RefreshToken
    BY <1>1, <1>10 DEF IssueRotated, TokenRequestInv
  <2>2. [state |-> "live", from |-> request[r].token, since |-> password] \in RefreshRow
    BY <1>1, <2>1 DEF RefreshRow
  <2> QED BY <1>1, <1>2, <1>10, <2>2 DEF IssueRotated, Issue
<1>11. ASSUME NEW r \in Request, NEW t \in ResetToken, ReadReset(r, t) PROVE Types'
  BY <1>1, <1>11 DEF ReadReset, RequestPlace
<1>12. ASSUME NEW r \in Request, NEW t \in ResetToken, CreateReset(r, t) PROVE Types'
  <2>1. \A u \in ResetToken : /\ [resetToken[u] EXCEPT !.state = "open"] \in ResetRow
                              /\ [resetToken[u] EXCEPT !.state = "closed"] \in ResetRow
    BY <1>1 DEF ResetRow
  <2>2. resetToken' \in [ResetToken -> ResetRow]
    BY <1>1, <1>12, <2>1 DEF CreateReset
  <2> QED BY <1>1, <1>2, <1>12, <2>2 DEF CreateReset
<1> QED BY <1>3, <1>4, <1>5, <1>6, <1>7, <1>8, <1>9, <1>10, <1>11, <1>12 DEF SessionsNext

(* No step of a request disturbs the sessions. *)
LEMMA SessionsKeep == ASSUME AccountsInv, SessionsNext PROVE SessionParts'
<1>1. AccountsTypeOK /\ SessionParts
  BY DEF AccountsInv, SessionsSound, SessionParts
<1>2. CASE RequestsLost
  <2>1. \A q \in Request : request'[q] \in {request[q], Idle}
    BY <1>2 DEF RequestsLost
  <2> QED BY <1>1, <1>2, <2>1, TokenRevokeKeeps DEF RequestsLost
<1>3. ASSUME NEW t \in RefreshToken, LoginSession(t) PROVE SessionParts'
  BY <1>1, <1>3, TokenIssueKeeps DEF LoginSession
<1>4. ASSUME NEW r \in Request, Logout(r) PROVE SessionParts'
  <2>1. /\ UNCHANGED <<resetToken, password>>
        /\ \A q \in Request : request'[q] \in {request[q], Idle}
        /\ \A t \in RefreshToken :
               /\ refreshToken'[t].from = refreshToken[t].from
               /\ refreshToken'[t].since = refreshToken[t].since
               /\ refreshToken'[t].state \in {refreshToken[t].state, "revoked"}
    BY <1>1, <1>4 DEF Logout, AccountsTypeOK
  <2> QED BY <1>1, <2>1, TokenRevokeKeeps
<1>5. ASSUME NEW r \in Request, BeginReset(r) PROVE SessionParts'
  <2>1. /\ request'[r].pc = "forgot" /\ \A q \in Request : q # r => request'[q] = request[q]
        /\ UNCHANGED <<refreshToken, resetToken, password>>
    BY <1>1, <1>5 DEF BeginReset, AccountsTypeOK
  <2> QED BY <1>1, <2>1, TokenReadKeeps
<1>6. ASSUME NEW r \in Request, NEW t \in RefreshToken, ReadRefresh(r, t) \/ ReadLogout(r, t)
      PROVE  SessionParts'
  <2>1. /\ request'[r].pc \in {"rotate", "logout"} /\ request'[r].token = t
        /\ \A q \in Request : q # r => request'[q] = request[q]
    BY <1>1, <1>6 DEF ReadRefresh, ReadLogout, AccountsTypeOK
  <2>2. UNCHANGED <<refreshToken, resetToken, password>>
    BY <1>6 DEF ReadRefresh, ReadLogout
  <2> QED BY <1>1, <2>1, <2>2, TokenReadKeeps
<1>7. ASSUME NEW r \in Request, NEW t \in ResetToken, ReadReset(r, t) PROVE SessionParts'
  <2>1. /\ request'[r].pc = "reset" /\ request'[r].token = t
        /\ \A q \in Request : q # r => request'[q] = request[q]
        /\ UNCHANGED <<refreshToken, resetToken, password>>
    BY <1>1, <1>7 DEF ReadReset, AccountsTypeOK
  <2> QED BY <1>1, <2>1, TokenReadKeeps
<1>8. ASSUME NEW r \in Request, NEW t \in RefreshToken, IssueRotated(r, t) PROVE SessionParts'
  <2>1. request[r].pc = "issue" /\ request[r].token \in RefreshToken
        /\ Issue(t, request[r].token) /\ request' = [request EXCEPT ![r] = Idle]
        /\ UNCHANGED <<resetToken, password>>
    BY <1>8 DEF IssueRotated, AccountsInv, TokenRequestInv
  <2> QED BY <1>1, <2>1, TokenIssueKeeps
<1>9. ASSUME NEW r \in Request, Revoke(r) PROVE SessionParts'
  BY <1>1, <1>9, TokenExchangeKeeps
<1>10. ASSUME NEW r \in Request,
              ConsumeReset(r) \/ \E t \in ResetToken : CreateReset(r, t)
       PROVE  SessionParts'
  BY <1>1, <1>10, PasswordResetKeeps
<1> QED BY <1>2, <1>3, <1>4, <1>5, <1>6, <1>7, <1>8, <1>9, <1>10 DEF SessionsNext

(* Every step keeps the invariant. *)
LEMMA AccountsStepHolds == AccountsInv /\ [AccountsNext]_accountVars => AccountsInv'
<1> SUFFICES ASSUME AccountsInv, [AccountsNext]_accountVars PROVE AccountsInv'
  OBVIOUS
<1>1. CASE LimiterNext
  BY <1>1, LimiterKeeps
<1>2. CASE SessionsNext
  <2>1. SessionParts'
    BY <1>2, SessionsKeep
  <2>2. window' = window
    BY <1>2 DEF SessionsNext, RequestsLost, LoginSession, Revoke, Logout, BeginReset,
                ConsumeReset, ReadRefresh, IssueRotated, ReadLogout, CreateReset, ReadReset
  <2>3. AttemptsLimited' /\ WindowInv'
    BY <2>2 DEF AccountsInv, SessionsSound, AttemptsLimited, WindowInv
  <2>4. AccountsTypeOK'
    BY <1>2, <2>2, AccountsTypeKeeps DEF AccountsInv, AccountsTypeOK, RefreshRow, ResetRow, RequestPlace
  <2> QED BY <2>1, <2>3, <2>4 DEF AccountsInv, SessionsSound, SessionParts
<1>3. CASE UNCHANGED accountVars
  BY <1>3 DEF accountVars, AccountsInv, AccountsTypeOK, SessionsSound, ExchangedOnce, ResetOnce,
              ResetEndsSessions, AttemptsLimited, TokenRequestInv, UnusedInv, WindowInv
<1> QED BY <1>1, <1>2, <1>3 DEF AccountsNext

(* The invariant holds in every reachable state. *)
THEOREM AccountsInvariance == AccountsSpec => []AccountsInv
BY AccountsInitHolds, AccountsStepHolds, PTL DEF AccountsSpec

(* Refresh tokens are exchanged once, reset tokens used once, no session
   survives a reset that came after it, and a key gets at most twice its limit
   (services/auth.py:120-200, routes/auth.py). *)
THEOREM SessionsAreSound == AccountsSpec => []SessionsSound
<1>1. AccountsInv => SessionsSound
  BY DEF AccountsInv
<1> QED BY AccountsInvariance, <1>1, PTL

(***************************************************************************)
(* The files of a workspace.                                               *)
(***************************************************************************)
EditorRow == [pc: {"idle", "write", "patch", "manifest", "back", "rmtree", "move"},
              path: Path \union {NoPath}, to: Path \union {NoPath}, seen: 0..MaxVersions + 1,
              id: TrashId \union {NoPath}, raced: BOOLEAN]

(* What a request found is still there, or another wrote to its path. *)
FreshInv(d) ==
    /\ editor[d].pc \in {"write", "patch", "back", "move"} => editor[d].path \in Path
    /\ editor[d].pc = "move" => editor[d].to \in Path
    /\ editor[d].raced
       \/ /\ editor[d].pc \in {"write", "patch"} =>
                 file[editor[d].path] \in {0, editor[d].seen}
          /\ editor[d].pc = "back" => file[editor[d].path] = 0
          /\ editor[d].pc = "move" => file[editor[d].to] = 0

(* A request that deletes or restores works with a deletion that took place,
   and removes its folder only after it has moved everything back. *)
DeletionInv(d) ==
    editor[d].pc \in {"manifest", "back", "rmtree"} =>
        /\ editor[d].id \in TrashId /\ trash[editor[d].id].path # NoPath
        /\ editor[d].pc = "rmtree" =>
               trash[editor[d].id].path = ManifestPath \/ trash[editor[d].id].back = 1

FilesInv ==
    /\ FilesTypeOK /\ FilesSafe /\ editor \in [Editor -> EditorRow]
    /\ \A i \in TrashId : trash[i].listed => trash[i].path # NoPath
    /\ \A d \in Editor : FreshInv(d) /\ DeletionInv(d)

(* Nothing is open and nothing was deleted. *)
LEMMA FilesInitHolds == FilesInit => FilesInv
<1> SUFFICES ASSUME FilesInit PROVE FilesInv
  OBVIOUS
<1> USE FilesAssumption DEF FilesInit
<1>1. Rest \in EditorRow /\ Rest.pc = "idle"
  BY DEF Rest, EditorRow
<1>2. /\ Unused.path = NoPath /\ ~Unused.listed
      /\ Unused \in [path: Path \union {NoPath}, was: 0..MaxVersions + 1,
                     holds: 0..MaxVersions + 1, listed: BOOLEAN, back: Nat]
  BY DEF Unused
<1>3. /\ \A i \in TrashId : trash[i] = Unused
      /\ \A e \in Editor : editor[e] = Rest
  OBVIOUS
<1>4. FilesTypeOK /\ editor \in [Editor -> EditorRow]
  BY <1>1, <1>2 DEF FilesTypeOK
<1>5. FilesSafe /\ \A i \in TrashId : trash[i].listed => trash[i].path # NoPath
  BY <1>2, <1>3 DEF FilesSafe, TrashKeeps, OnlyRacesClobber
<1>6. \A d \in Editor : FreshInv(d) /\ DeletionInv(d)
  BY <1>1, <1>3 DEF FreshInv, DeletionInv
<1> QED BY <1>4, <1>5, <1>6 DEF FilesInv

TrashRow == [path: Path \union {NoPath}, was: 0..MaxVersions + 1,
             holds: 0..MaxVersions + 1, listed: BOOLEAN, back: Nat]

(* What the invariant says of the deletions. *)
TrashInv ==
    /\ trash \in [TrashId -> TrashRow] /\ TrashKeeps
    /\ \A i \in TrashId : trash[i].listed => trash[i].path # NoPath

(* A request whose paths another writes to has raced; its paths are untouched
   otherwise, and its deletion does not vanish. *)
LEMMA OthersStand ==
    ASSUME FilesInv, NEW e \in Editor, NEW P \in SUBSET Path, NEW d \in Editor,
           editor'[d] = editor[d] \/ editor'[d] = Raced(e, P)[d], d # e,
           P = {} \/ editor'[d] = Raced(e, P)[d],
           \A p \in Path \ P : file'[p] = file[p],
           \A i \in TrashId : trash[i].path # NoPath =>
               /\ trash'[i].path = trash[i].path
               /\ trash[i].back = 1 => trash'[i].back = 1 \/ trash[i].path = ManifestPath
    PROVE  editor'[d] \in EditorRow /\ FreshInv(d)' /\ DeletionInv(d)'
<1> DEFINE r == [editor[d] EXCEPT !.raced = TRUE]
<1>1. editor[d] \in EditorRow /\ FreshInv(d) /\ DeletionInv(d)
  BY DEF FilesInv
<1>2. /\ r \in EditorRow /\ r.raced /\ r.pc = editor[d].pc /\ r.path = editor[d].path
      /\ r.to = editor[d].to /\ r.id = editor[d].id /\ r.seen = editor[d].seen
  BY <1>1 DEF EditorRow
<1>3. editor'[d] = r \/ (/\ editor'[d] = editor[d]
                         /\ P = {} \/ editor[d].pc = "idle"
                            \/ {editor[d].path, editor[d].to} \intersect P = {})
  BY DEF Raced
<1> HIDE DEF r
<1>4. CASE editor'[d] = r
  BY <1>1, <1>2, <1>4 DEF FreshInv, DeletionInv
<1>5. CASE editor'[d] = editor[d] /\ (P = {} \/ editor[d].pc = "idle"
                                      \/ {editor[d].path, editor[d].to} \intersect P = {})
  BY <1>1, <1>5 DEF FreshInv, DeletionInv
<1> QED BY <1>3, <1>4, <1>5

(* A step of a request whose parts are each kept. *)
LEMMA RequestKeeps ==
    ASSUME FilesInv, NEW e \in Editor, NEW P \in SUBSET Path, NEW row \in EditorRow,
           \/ editor' = [editor EXCEPT ![e] = row] /\ P = {}
           \/ editor' = [Raced(e, P) EXCEPT ![e] = row],
           \A p \in Path \ P : file'[p] = file[p],
           \A i \in TrashId : trash[i].path # NoPath =>
               /\ trash'[i].path = trash[i].path
               /\ trash[i].back = 1 => trash'[i].back = 1 \/ trash[i].path = ManifestPath,
           file' \in [Path -> 0..MaxVersions + 1], head' = head,
           versions' \in 0..MaxVersions, clobbered' = {}, TrashInv',
           editor'[e] = row => FreshInv(e)' /\ DeletionInv(e)'
    PROVE  FilesInv'
<1>1. /\ editor'[e] = row /\ DOMAIN editor' = Editor
      /\ editor' = [d \in Editor |-> editor'[d]]
      /\ \A d \in Editor \ {e} : editor'[d] = Raced(e, P)[d] \/ (editor'[d] = editor[d] /\ P = {})
  BY DEF FilesInv, Raced
<1>2. \A d \in Editor \ {e} : editor'[d] \in EditorRow /\ FreshInv(d)' /\ DeletionInv(d)'
  BY <1>1, OthersStand
<1>3. editor' \in [Editor -> EditorRow]
  <2>1. \A d \in Editor : editor'[d] \in EditorRow
    BY <1>1, <1>2
  <2> QED BY <1>1, <2>1
<1>4. \A d \in Editor : editor'[d].pc \in
          {"idle", "write", "patch", "manifest", "back", "rmtree", "move"}
  BY <1>3 DEF EditorRow
<1>5. FilesTypeOK'
  BY <1>4 DEF FilesTypeOK, FilesInv, TrashInv, TrashRow
<1>6. FilesSafe' /\ \A i \in TrashId : trash'[i].listed => trash'[i].path # NoPath
  BY DEF FilesSafe, OnlyRacesClobber, TrashInv
<1> QED BY <1>1, <1>2, <1>3, <1>5, <1>6 DEF FilesInv

(* A request that has checked stands on what it saw. *)
LEMMA BeginKeeps ==
    ASSUME FilesInv, NEW e \in Editor, NEW work \in EditorRow, Begin(e, work),
           work.pc \notin {"manifest", "rmtree"},
           work.pc \in {"write", "patch", "back", "move"} => work.path \in Path,
           work.pc = "move" => work.to \in Path /\ file[work.to] = 0,
           work.pc \in {"write", "patch"} => file[work.path] \in {0, work.seen},
           work.pc = "back" => /\ file[work.path] = 0 /\ work.id \in TrashId
                               /\ trash[work.id].path # NoPath
    PROVE  FilesInv'
<1>1. editor' = [editor EXCEPT ![e] = work] /\ UNCHANGED <<file, head, versions, trash, clobbered>>
  BY DEF Begin
<1>2. TrashInv'
  BY <1>1 DEF FilesInv, FilesTypeOK, FilesSafe, TrashInv, TrashRow, TrashKeeps
<1>3. /\ file' \in [Path -> 0..MaxVersions + 1] /\ versions' \in 0..MaxVersions /\ clobbered' = {}
  BY <1>1 DEF FilesInv, FilesTypeOK, FilesSafe, OnlyRacesClobber
<1>4. editor'[e] = work => FreshInv(e)' /\ DeletionInv(e)'
  BY <1>1 DEF FreshInv, DeletionInv
<1> QED BY <1>1, <1>2, <1>3, <1>4, RequestKeeps, {} \in SUBSET Path

(* Every check of a request. *)
LEMMA ChecksKeep ==
    ASSUME FilesInv, NEW e \in Editor,
           \/ \E p \in Path, n \in 1..versions : CheckSave(e, p, n)
           \/ \E p \in Path : CheckNew(e, p) \/ ReadText(e, p) \/ CheckPatch(e, p)
           \/ \E i \in TrashId : CheckRestore(e, i)
           \/ \E p \in Path, q \in Path : CheckMove(e, p, q)
    PROVE  FilesInv'
<1> USE FilesAssumption
<1>1. /\ Rest \in EditorRow /\ Rest.pc = "idle" /\ ~Rest.raced /\ Rest.seen = 0
      /\ file \in [Path -> 0..MaxVersions + 1] /\ versions \in 0..MaxVersions
      /\ trash \in [TrashId -> TrashRow]
      /\ \A i \in TrashId : trash[i].listed => trash[i].path # NoPath
  BY DEF FilesInv, FilesTypeOK, TrashRow, Rest, EditorRow
<1>2. ASSUME NEW p \in Path, NEW n \in 0..MaxVersions + 1, NEW pc \in {"write", "patch"},
             file[p] \in {0, n}, Begin(e, [Rest EXCEPT !.pc = pc, !.path = p, !.seen = n])
      PROVE  FilesInv'
  <2> DEFINE work == [Rest EXCEPT !.pc = pc, !.path = p, !.seen = n]
  <2>1. work \in EditorRow /\ work.pc = pc /\ work.path = p /\ work.seen = n
    BY <1>1 DEF EditorRow
  <2>2. Begin(e, work)
    BY <1>2
  <2> HIDE DEF work
  <2> QED BY <1>2, <2>1, <2>2, BeginKeeps
<1>3. ASSUME NEW p \in Path, NEW n \in 1..versions, CheckSave(e, p, n) PROVE FilesInv'
  <2>1. n \in 0..MaxVersions + 1
    BY <1>1
  <2>2. file[p] \in {0, n} /\ Begin(e, [Rest EXCEPT !.pc = "write", !.path = p, !.seen = n])
    BY <1>3 DEF CheckSave, Expected
  <2> QED BY <1>2, <2>1, <2>2
<1>4. ASSUME NEW p \in Path, CheckNew(e, p) PROVE FilesInv'
  <2> DEFINE work == [Rest EXCEPT !.pc = "write", !.path = p]
  <2>1. work \in EditorRow /\ work.pc = "write" /\ work.path = p
    BY <1>1 DEF EditorRow
  <2>2. Begin(e, work) /\ file[p] = 0
    BY <1>4 DEF CheckNew
  <2> HIDE DEF work
  <2> QED BY <2>1, <2>2, BeginKeeps
<1>5. ASSUME NEW p \in Path, ReadText(e, p) \/ CheckPatch(e, p) PROVE FilesInv'
  BY <1>1, <1>2, <1>5 DEF ReadText, CheckPatch
<1>6. ASSUME NEW i \in TrashId, CheckRestore(e, i) PROVE FilesInv'
  <2> DEFINE work == [Rest EXCEPT !.pc = "back", !.path = trash[i].path, !.id = i]
  <2>0. trash[i].path \in Path
    BY <1>1, <1>6 DEF CheckRestore, TrashRow
  <2>1. work \in EditorRow /\ work.pc = "back" /\ work.path = trash[i].path /\ work.id = i
    BY <1>1, <2>0 DEF EditorRow
  <2>2. Begin(e, work) /\ file[trash[i].path] = 0
    BY <1>6 DEF CheckRestore
  <2> HIDE DEF work
  <2> QED BY <2>0, <2>1, <2>2, BeginKeeps
<1>7. ASSUME NEW p \in Path, NEW q \in Path, CheckMove(e, p, q) PROVE FilesInv'
  <2> DEFINE work == [Rest EXCEPT !.pc = "move", !.path = p, !.to = q]
  <2>1. work \in EditorRow /\ work.pc = "move" /\ work.path = p /\ work.to = q
    BY <1>1 DEF EditorRow
  <2>2. Begin(e, work) /\ file[q] = 0
    BY <1>7 DEF CheckMove
  <2> HIDE DEF work
  <2> QED BY <2>1, <2>2, BeginKeeps
<1> QED BY <1>3, <1>4, <1>5, <1>6, <1>7

(* A request that is back at rest has promised nothing. *)
LEMMA AtRest ==
    /\ FilesAssumption => Rest \in EditorRow
    /\ \A e \in Editor : editor'[e] = Rest => FreshInv(e)' /\ DeletionInv(e)'
BY DEF FilesAssumption, Rest, EditorRow, FreshInv, DeletionInv

(* The unchanged trash. *)
LEMMA TrashStands == FilesInv /\ (trash' = trash) => TrashInv'
BY DEF FilesInv, FilesTypeOK, FilesSafe, TrashInv, TrashRow, TrashKeeps

(* A write finds what its request saw, unless another request raced with it. *)
LEMMA WritesKeep ==
    ASSUME FilesInv, NEW e \in Editor,
           \/ WriteFile(e) \/ MovePath(e)
           \/ \E p \in Path : ForceWrite(e, p) \/ GitRestore(e, p)
    PROVE  FilesInv'
<1> USE FilesAssumption
<1>1. /\ file \in [Path -> 0..MaxVersions + 1] /\ head \in [Path -> 0..MaxVersions + 1]
      /\ versions \in 0..MaxVersions /\ clobbered = {} /\ FreshInv(e)
      /\ Rest \in EditorRow /\ editor \in [Editor -> EditorRow] /\ MaxVersions \in Nat
  BY AtRest DEF FilesInv, FilesTypeOK, FilesSafe, OnlyRacesClobber
<1>2. CASE WriteFile(e)
  <2> DEFINE p == editor[e].path
  <2>1. p \in Path /\ (editor[e].raced \/ file[p] \in {0, editor[e].seen})
    BY <1>1, <1>2 DEF WriteFile, FreshInv
  <2>2. versions + 1 \in 0..MaxVersions /\ versions + 1 \in 0..MaxVersions + 1
    BY <1>1, <1>2 DEF WriteFile
  <2>3. /\ file' = [file EXCEPT ![p] = versions + 1] /\ versions' = versions + 1
        /\ editor' = [Raced(e, {p}) EXCEPT ![e] = Rest] /\ head' = head /\ trash' = trash
        /\ clobbered' = {}
    BY <1>1, <1>2, <2>1 DEF WriteFile, Overwrites
  <2> HIDE DEF p
  <2>4. file' \in [Path -> 0..MaxVersions + 1] /\ \A q \in Path \ {p} : file'[q] = file[q]
    BY <1>1, <2>1, <2>2, <2>3
  <2> QED BY <1>1, <2>1, <2>2, <2>3, <2>4, RequestKeeps, AtRest, TrashStands, {p} \in SUBSET Path
<1>3. CASE MovePath(e)
  <2> DEFINE p == editor[e].path
             q == editor[e].to
  <2>1. p \in Path /\ q \in Path /\ (editor[e].raced \/ file[q] = 0)
    BY <1>1, <1>3 DEF MovePath, FreshInv
  <2>2. CASE file[p] = 0
    <3>1. editor' = [editor EXCEPT ![e] = Rest]
          /\ UNCHANGED <<file, clobbered, head, versions, trash>>
      BY <1>3, <2>2 DEF MovePath
    <3> QED BY <1>1, <3>1, RequestKeeps, AtRest, TrashStands, {} \in SUBSET Path
  <2>3. CASE file[p] # 0
    <3>1. /\ file' = [file EXCEPT ![q] = file[p], ![p] = 0] /\ clobbered' = {}
          /\ editor' = [Raced(e, {p, q}) EXCEPT ![e] = Rest]
          /\ UNCHANGED <<head, versions, trash>>
      BY <1>1, <1>3, <2>1, <2>3 DEF MovePath, Overwrites
    <3>2. 0 \in 0..MaxVersions + 1
      BY <1>1
    <3> HIDE DEF p, q
    <3>3. file' \in [Path -> 0..MaxVersions + 1] /\ \A s \in Path \ {p, q} : file'[s] = file[s]
      BY <1>1, <2>1, <3>1, <3>2
    <3> QED BY <1>1, <2>1, <3>1, <3>3, RequestKeeps, AtRest, TrashStands, {p, q} \in SUBSET Path
  <2> QED BY <2>2, <2>3
<1>4. ASSUME NEW p \in Path, ForceWrite(e, p) \/ GitRestore(e, p) PROVE FilesInv'
  <2>1. versions < MaxVersions => versions + 1 \in 0..MaxVersions /\ versions + 1 \in 0..MaxVersions + 1
    BY <1>1
  <2>2. /\ file' \in [Path -> 0..MaxVersions + 1] /\ \A q \in Path \ {p} : file'[q] = file[q]
        /\ versions' \in 0..MaxVersions
    BY <1>1, <1>4, <2>1 DEF ForceWrite, GitRestore
  <2>3. /\ editor' = Raced(e, {p}) /\ editor[e] = Rest /\ UNCHANGED <<head, trash, clobbered>>
    BY <1>4 DEF ForceWrite, GitRestore
  <2>4. editor' = [Raced(e, {p}) EXCEPT ![e] = Rest]
    BY <2>3 DEF Raced
  <2> QED BY <1>1, <2>2, <2>3, <2>4, RequestKeeps, AtRest, TrashStands, {p} \in SUBSET Path
<1> QED BY <1>2, <1>3, <1>4

(* The record of a new deletion. *)
LEMMA NewDeletion ==
    ASSUME NEW old \in TrashRow, old = Unused, NEW p \in Path, NEW n \in 0..MaxVersions + 1
    PROVE  LET one == [old EXCEPT !.path = p, !.was = n, !.holds = n]
           IN  /\ one \in TrashRow /\ one.path = p /\ one.was = one.holds /\ one.back = 0
               /\ old.path = NoPath
<1>1. old.back = 0 /\ old.path = NoPath
  BY DEF Unused
<1> DEFINE one == [old EXCEPT !.path = p, !.was = n, !.holds = n]
<1>2. one \in TrashRow /\ one.path = p /\ one.was = one.holds /\ one.back = old.back
  BY DEF TrashRow
<1> QED BY <1>1, <1>2

(* A deletion keeps what it took until it is moved back, once. *)
LEMMA DeletionsKeep ==
    ASSUME FilesInv, NEW e \in Editor,
           \/ WriteManifest(e) \/ MoveBack(e) \/ RemoveFolder(e)
           \/ \E i \in TrashId, p \in Path : MoveToTrash(e, p, i)
    PROVE  FilesInv'
<1> USE FilesAssumption
<1>1. /\ file \in [Path -> 0..MaxVersions + 1] /\ versions \in 0..MaxVersions /\ clobbered = {}
      /\ FreshInv(e) /\ DeletionInv(e) /\ Rest \in EditorRow /\ editor[e] \in EditorRow
      /\ MaxVersions \in Nat /\ TrashInv /\ trash \in [TrashId -> TrashRow]
  BY AtRest, TrashStands DEF FilesInv, FilesTypeOK, FilesSafe, OnlyRacesClobber, TrashInv, TrashRow
<1>0. 0 \in 0..MaxVersions + 1 /\ MaxVersions + 1 \in 0..MaxVersions + 1
  BY <1>1
<1>2. CASE WriteManifest(e)
  <2> DEFINE i == editor[e].id
             one == [trash[i] EXCEPT !.listed = TRUE,
                         !.holds = IF trash[i].path = ManifestPath THEN ManifestText ELSE @]
  <2>1. i \in TrashId /\ trash[i].path # NoPath
    BY <1>1, <1>2 DEF WriteManifest, DeletionInv
  <2>2. /\ trash' = [trash EXCEPT ![i] = one] /\ editor' = [editor EXCEPT ![e] = Rest]
        /\ UNCHANGED <<file, head, versions, clobbered>>
    BY <1>2 DEF WriteManifest
  <2>3. /\ one \in TrashRow /\ one.path = trash[i].path /\ one.back = trash[i].back
        /\ one.was = trash[i].was /\ (one.path # ManifestPath => one.holds = trash[i].holds)
    BY <1>0, <1>1, <2>1 DEF TrashRow, ManifestText
  <2> HIDE DEF one, i
  <2>4. TrashInv'
    BY <1>1, <2>1, <2>2, <2>3 DEF TrashInv, TrashKeeps
  <2> QED BY <1>1, <2>1, <2>2, <2>3, <2>4, RequestKeeps, AtRest, {} \in SUBSET Path
<1>3. CASE RemoveFolder(e)
  <2> DEFINE i == editor[e].id
             one == [trash[i] EXCEPT !.listed = FALSE, !.holds = 0]
  <2>1. /\ i \in TrashId /\ trash[i].path # NoPath
        /\ trash[i].path = ManifestPath \/ trash[i].back = 1
    BY <1>1, <1>3 DEF RemoveFolder, DeletionInv
  <2>2. /\ trash' = [trash EXCEPT ![i] = one] /\ editor' = [editor EXCEPT ![e] = Rest]
        /\ UNCHANGED <<file, head, versions, clobbered>>
    BY <1>3 DEF RemoveFolder
  <2>3. /\ one \in TrashRow /\ one.path = trash[i].path /\ one.back = trash[i].back
        /\ one.was = trash[i].was /\ one.holds = 0
    BY <1>0, <1>1, <2>1 DEF TrashRow
  <2> HIDE DEF one, i
  <2>4. TrashInv'
    BY <1>1, <2>1, <2>2, <2>3 DEF TrashInv, TrashKeeps
  <2> QED BY <1>1, <2>1, <2>2, <2>3, <2>4, RequestKeeps, AtRest, {} \in SUBSET Path
<1>4. CASE MoveBack(e)
  <2> DEFINE i == editor[e].id
             p == editor[e].path
  <2>1. /\ i \in TrashId /\ trash[i].path # NoPath /\ p \in Path
        /\ editor[e].raced \/ file[p] = 0
    BY <1>1, <1>4 DEF MoveBack, DeletionInv, FreshInv
  <2>2. CASE trash[i].holds = 0
    <3>1. editor' = [editor EXCEPT ![e] = Rest]
          /\ UNCHANGED <<file, trash, clobbered, head, versions>>
      BY <1>4, <2>2 DEF MoveBack
    <3> QED BY <1>1, <3>1, RequestKeeps, AtRest, TrashStands, {} \in SUBSET Path
  <2>3. CASE trash[i].holds # 0
    <3> DEFINE one == [trash[i] EXCEPT !.holds = 0, !.back = @ + 1]
               row == [editor[e] EXCEPT !.pc = "rmtree"]
    <3>1. /\ file' = [file EXCEPT ![p] = trash[i].holds] /\ trash' = [trash EXCEPT ![i] = one]
          /\ clobbered' = {} /\ editor' = [Raced(e, {p}) EXCEPT ![e] = [@ EXCEPT !.pc = "rmtree"]]
          /\ UNCHANGED <<head, versions>>
      BY <1>1, <1>4, <2>1, <2>3 DEF MoveBack, Overwrites
    <3>2. editor' = [Raced(e, {p}) EXCEPT ![e] = row]
      BY <3>1 DEF Raced
    <3>3. /\ one \in TrashRow /\ one.path = trash[i].path /\ one.back = trash[i].back + 1
          /\ one.was = trash[i].was /\ one.holds = 0
      <4> DEFINE moved == [trash[i] EXCEPT !.holds = 0]
      <4>1. trash[i] \in TrashRow /\ trash[i].back + 1 \in Nat
        BY <1>1, <2>1 DEF TrashRow
      <4>2. /\ moved \in TrashRow /\ moved.path = trash[i].path /\ moved.back = trash[i].back
            /\ moved.was = trash[i].was /\ moved.holds = 0
        BY <1>0, <4>1 DEF TrashRow
      <4>3. one = [moved EXCEPT !.back = trash[i].back + 1]
        BY <4>1 DEF TrashRow
      <4> HIDE DEF moved, one
      <4> QED BY <4>1, <4>2, <4>3 DEF TrashRow
    <3>4. row \in EditorRow /\ row.pc = "rmtree" /\ row.id = i
      BY <1>1 DEF EditorRow
    <3>5. file' \in [Path -> 0..MaxVersions + 1] /\ \A q \in Path \ {p} : file'[q] = file[q]
      BY <1>1, <2>1, <3>1 DEF TrashRow
    <3>6. trash[i].path # ManifestPath => trash[i].back = 0
      BY <1>1, <2>1, <2>3 DEF TrashInv, TrashKeeps
    <3>7. {p} \in SUBSET Path
      BY <2>1
    <3> HIDE DEF one, row, i, p
    <3>8. TrashInv'
      BY <1>1, <2>1, <3>1, <3>3, <3>6 DEF TrashInv, TrashKeeps
    <3>9. editor'[e] = row => FreshInv(e)' /\ DeletionInv(e)'
      <4>1. trash'[i] = one /\ one.path # NoPath /\ (one.path = ManifestPath \/ one.back = 1)
        BY <1>1, <2>1, <3>1, <3>3, <3>6
      <4> QED BY <2>1, <3>4, <4>1 DEF FreshInv, DeletionInv
    <3>10. \A j \in TrashId : trash[j].path # NoPath =>
               /\ trash'[j].path = trash[j].path
               /\ trash[j].back = 1 => trash'[j].back = 1 \/ trash[j].path = ManifestPath
      <4>1. trash[i].back = 1 => trash[i].path = ManifestPath
        BY <3>6
      <4> QED BY <1>1, <2>1, <3>1, <3>3, <4>1
    <3>11. head' = head /\ versions' \in 0..MaxVersions /\ clobbered' = {}
      BY <1>1, <3>1
    <3> QED BY <3>2, <3>4, <3>5, <3>7, <3>8, <3>9, <3>10, <3>11, RequestKeeps
  <2> QED BY <2>2, <2>3
<1>5. ASSUME NEW i \in TrashId, NEW p \in Path, MoveToTrash(e, p, i) PROVE FilesInv'
  <2> DEFINE one == [trash[i] EXCEPT !.path = p, !.was = file[p], !.holds = file[p]]
             row == [Rest EXCEPT !.pc = "manifest", !.id = i]
  <2>1. /\ trash[i] = Unused /\ file' = [file EXCEPT ![p] = 0] /\ trash' = [trash EXCEPT ![i] = one]
        /\ editor' = [Raced(e, {p}) EXCEPT ![e] = row] /\ UNCHANGED <<head, versions, clobbered>>
    BY <1>1, <1>5 DEF MoveToTrash
  <2>2. one \in TrashRow /\ one.path = p /\ one.was = one.holds /\ one.back = 0
        /\ trash[i].path = NoPath
    <3>1. trash[i] \in TrashRow
      BY <1>1
    <3> QED BY <1>1, <2>1, <3>1, NewDeletion
  <2>3. row \in EditorRow /\ row.pc = "manifest" /\ row.id = i
    BY <1>1 DEF EditorRow
  <2>4. file' \in [Path -> 0..MaxVersions + 1] /\ \A q \in Path \ {p} : file'[q] = file[q]
    BY <1>0, <1>1, <2>1
  <2> HIDE DEF one, row
  <2>5. TrashInv'
    BY <1>1, <2>1, <2>2 DEF TrashInv, TrashKeeps
  <2>6. editor'[e] = row => FreshInv(e)' /\ DeletionInv(e)'
    BY <1>1, <2>1, <2>2, <2>3 DEF FreshInv, DeletionInv
  <2> QED BY <1>1, <2>1, <2>2, <2>3, <2>4, <2>5, <2>6, RequestKeeps, {p} \in SUBSET Path
<1> QED BY <1>2, <1>3, <1>4, <1>5

(* Every step keeps the invariant. *)
LEMMA FilesStepHolds == FilesInv /\ [FilesNext]_fileVars => FilesInv'
<1> SUFFICES ASSUME FilesInv, [FilesNext]_fileVars PROVE FilesInv'
  OBVIOUS
<1>1. CASE GitCheckpoint \/ UNCHANGED fileVars
  <2>1. UNCHANGED <<file, versions, trash, editor, clobbered>>
        /\ (head' = file \/ head' = head)
    BY <1>1 DEF GitCheckpoint, fileVars
  <2> QED BY <2>1 DEF FilesInv, FilesTypeOK, FilesSafe, TrashKeeps, OnlyRacesClobber, FreshInv,
                      DeletionInv
<1>2. ASSUME NEW e \in Editor, RequestEnds(e) PROVE FilesInv'
  <2>1. editor' = [editor EXCEPT ![e] = Rest] /\ UNCHANGED <<file, head, versions, trash, clobbered>>
    BY <1>2 DEF RequestEnds
  <2>2. /\ file' \in [Path -> 0..MaxVersions + 1] /\ versions' \in 0..MaxVersions /\ clobbered' = {}
        /\ Rest \in EditorRow
    BY <2>1, AtRest, FilesAssumption DEF FilesInv, FilesTypeOK, FilesSafe, OnlyRacesClobber
  <2> QED BY <2>1, <2>2, RequestKeeps, AtRest, TrashStands, {} \in SUBSET Path
<1> QED BY <1>1, <1>2, ChecksKeep, WritesKeep, DeletionsKeep DEF FilesNext

(* No request destroys a version that its checks have not seen, unless another
   one wrote to the path meanwhile (editor.py, write_workspace_file). *)
THEOREM FilesInvariance == FilesSpec => []FilesInv
BY FilesInitHolds, FilesStepHolds, PTL DEF FilesSpec

(* What is deleted stays in the trash until it is restored, once, and nothing is
   overwritten unseen (editor.py delete_path, restore_trash, write_file,
   move_path, replace_in_file, apply_patch). *)
THEOREM FilesAreSafe == FilesSpec => []FilesSafe
BY FilesInvariance, PTL DEF FilesInv

(***************************************************************************)
(* The memories of a user.                                                 *)
(***************************************************************************)
MemoryRow == [key: Key, value: Value, history: Seq(Value)]
WriterRow == [pc: {"idle", "upsert", "update", "insert", "mirror", "unmirror", "recall", "recalled"},
              id: Memory \union {NoMemory}, key: Key \union {NoMemory},
              value: Value \union {NoMemory}, tries: 0..1, ids: SUBSET Memory,
              before: SUBSET (Memory \union MemoryRow)]

(* A request that has read its row for update holds it alone, and what it will
   write still follows from the row; a recall returns nothing that was
   forgotten when it began. *)
WriterInv(w) ==
    /\ writer[w].pc \in {"upsert", "update", "insert"} =>
           writer[w].key \in Key /\ writer[w].value \in Value
    /\ writer[w].pc = "mirror" => writer[w].id \in Memory
    /\ writer[w].pc = "update" => \E m \in Ids :
           /\ writer[w].ids = {m} /\ Unlocked(w, m)
           /\ writer[w].before = {Replaced(memory[m], writer[w].key, writer[w].value)}
    /\ writer[w].pc \in {"recall", "recalled"} => writer[w].ids \intersect writer[w].before = {}

(* Identifiers are not used again. *)
IdentityInv ==
    /\ Ids \intersect forgotten = {}
    /\ \A s \in stored : s[2] \in Ids \union forgotten

(* Only requests that have looked at the limit may exceed it. *)
Inserting == {w \in Writer : writer[w].pc = "insert"}
SpaceInv ==
    /\ IsFiniteSet(Ids)
    /\ Cardinality(Ids) + Cardinality(Inserting) <= MaxRecords + Cardinality(Writer) - 1

MemoryInv ==
    /\ MemoryTypeOK /\ NoValueLost /\ IdentityInv /\ SpaceInv
    /\ writer \in [Writer -> WriterRow] /\ \A w \in Writer : WriterInv(w)

(* No memory yet, no request. *)
LEMMA MemoryInitHolds == MemoryInit => MemoryInv
<1> SUFFICES ASSUME MemoryInit PROVE MemoryInv
  OBVIOUS
<1> USE MemoryStoreAssumption DEF MemoryInit
<1>1. /\ NoWork \in WriterRow /\ NoWork.pc = "idle"
      /\ \A w \in Writer : writer[w] = NoWork
  BY DEF NoWork, WriterRow
<1>2. Ids = {}
  BY DEF Ids
<1>3. MemoryTypeOK /\ NoValueLost /\ IdentityInv
  BY <1>1, <1>2 DEF MemoryTypeOK, NoValueLost, IdentityInv
<1>4. SpaceInv
  <2>1. Inserting = {}
    BY <1>1 DEF Inserting
  <2>2. Cardinality(Writer) \in Nat /\ Cardinality(Writer) # 0
    BY FS_CardinalityType, FS_EmptySet
  <2>3. IsFiniteSet(Ids) /\ Cardinality(Ids) = 0 /\ Cardinality(Inserting) = 0
    BY <1>2, <2>1, FS_EmptySet
  <2> QED BY <2>2, <2>3 DEF SpaceInv
<1>5. writer \in [Writer -> WriterRow] /\ \A w \in Writer : WriterInv(w)
  BY <1>1 DEF WriterInv
<1> QED BY <1>3, <1>4, <1>5 DEF MemoryInv

(* The set of requests that may insert changes by one request at most. *)
LEMMA InsertingMoves ==
    ASSUME MemoryInv, NEW w \in Writer, NEW row, writer' = [writer EXCEPT ![w] = row]
    PROVE  /\ IsFiniteSet(Inserting) /\ Cardinality(Inserting) \in Nat
           /\ Cardinality(Writer) \in Nat /\ Cardinality(Inserting') <= Cardinality(Writer)
           /\ row.pc # "insert" => Cardinality(Inserting') <= Cardinality(Inserting)
           /\ row.pc # "insert" /\ writer[w].pc = "insert" =>
                  Cardinality(Inserting') = Cardinality(Inserting) - 1
           /\ writer[w].pc = "insert" => Cardinality(Inserting') <= Cardinality(Inserting)
           /\ Cardinality(Inserting') \in Nat
<1> USE MemoryStoreAssumption
<1>1. /\ Inserting' = {u \in Writer : (IF u = w THEN row.pc ELSE writer[u].pc) = "insert"}
      /\ Inserting \in SUBSET Writer
  BY DEF Inserting, MemoryInv
<1>2. Inserting' = IF row.pc = "insert" THEN Inserting \union {w} ELSE Inserting \ {w}
  BY <1>1 DEF Inserting
<1>3. Inserting' \in SUBSET Writer
  BY <1>1
<1>4. /\ IsFiniteSet(Inserting) /\ Cardinality(Inserting) \in Nat
      /\ IsFiniteSet(Inserting') /\ Cardinality(Inserting') \in Nat
      /\ Cardinality(Writer) \in Nat /\ Cardinality(Inserting') <= Cardinality(Writer)
  BY <1>1, <1>3, FS_Subset, FS_CardinalityType
<1>5. w \in Inserting <=> writer[w].pc = "insert"
  BY DEF Inserting
<1>6. CASE row.pc = "insert"
  <2>1. writer[w].pc = "insert" => Inserting' = Inserting
    BY <1>2, <1>5, <1>6
  <2> QED BY <1>4, <1>6, <2>1
<1>7. CASE row.pc # "insert"
  <2>1. Cardinality(Inserting \ {w}) = IF w \in Inserting THEN Cardinality(Inserting) - 1
                                       ELSE Cardinality(Inserting)
    BY <1>4, FS_RemoveElement
  <2> QED BY <1>2, <1>4, <1>5, <1>7, <2>1
<1> QED BY <1>6, <1>7

(* What another request holds stays as it is. *)
LEMMA OthersHold ==
    ASSUME MemoryInv, NEW w \in Writer, NEW row \in WriterRow,
           writer' = [writer EXCEPT ![w] = row],
           row.pc = "update" => \E m \in Ids : row.ids = {m} /\ Unlocked(w, m),
           NEW u \in Writer \ {w},
           \A m \in Ids : writer[u].pc = "update" /\ writer[u].ids = {m} =>
               m \in Ids' /\ memory'[m] = memory[m]
    PROVE  WriterInv(u)'
<1>1. WriterInv(u) /\ writer'[u] = writer[u] /\ writer'[w] = row
      /\ \A x \in Writer \ {w} : writer'[x] = writer[x]
  BY DEF MemoryInv
<1>2. CASE writer[u].pc = "update"
  <2>1. PICK m \in Ids : /\ writer[u].ids = {m} /\ Unlocked(u, m)
                         /\ writer[u].before = {Replaced(memory[m], writer[u].key, writer[u].value)}
    BY <1>1, <1>2 DEF WriterInv
  <2>2. m \in Ids' /\ memory'[m] = memory[m]
    BY <1>2, <2>1
  <2>3. ~(row.pc = "update" /\ row.ids = {m})
    BY <1>2, <2>1 DEF Unlocked
  <2>4. Unlocked(u, m)'
    BY <1>1, <2>1, <2>3 DEF Unlocked
  <2> QED BY <1>1, <1>2, <2>1, <2>2, <2>4 DEF WriterInv
<1>3. CASE writer[u].pc # "update"
  BY <1>1, <1>3 DEF WriterInv
<1> QED BY <1>2, <1>3

(* A request that only moves on. *)
LEMMA WriterMoves ==
    ASSUME MemoryInv, NEW w \in Writer, NEW row \in WriterRow,
           writer' = [writer EXCEPT ![w] = row], UNCHANGED <<memory, forgotten, stored>>,
           index' \in SUBSET Memory, WriterInv(w)',
           row.pc = "insert" => Cardinality(Ids) < MaxRecords
    PROVE  MemoryInv'
<1> USE MemoryStoreAssumption
<1>1. Ids' = Ids /\ writer'[w] = row
  BY DEF Ids, MemoryInv
<1>2. \A u \in Writer \ {w} : WriterInv(u)'
  <2>1. row.pc = "update" => \E m \in Ids : row.ids = {m} /\ Unlocked(w, m)
    <3> SUFFICES ASSUME row.pc = "update" PROVE \E m \in Ids : row.ids = {m} /\ Unlocked(w, m)
      OBVIOUS
    <3>1. PICK m \in Ids : row.ids = {m} /\ Unlocked(w, m)'
      BY <1>1 DEF WriterInv
    <3>2. Unlocked(w, m)
      BY <3>1 DEF Unlocked, MemoryInv
    <3> QED BY <3>1, <3>2
  <2> QED BY <1>1, <2>1, OthersHold
<1>3. writer' \in [Writer -> WriterRow]
  BY DEF MemoryInv
<1>4. MemoryTypeOK'
  <2>1. \A u \in Writer : writer'[u].pc \in
            {"idle", "upsert", "update", "insert", "mirror", "unmirror", "recall", "recalled"}
    BY <1>3 DEF WriterRow
  <2> QED BY <1>1, <2>1 DEF MemoryTypeOK, MemoryInv
<1>5. NoValueLost' /\ IdentityInv'
  BY <1>1 DEF NoValueLost, IdentityInv, MemoryInv
<1>6. SpaceInv'
  <2>1. Cardinality(Ids) \in Nat /\ IsFiniteSet(Ids)
    BY FS_CardinalityType DEF MemoryInv, SpaceInv
  <2> DEFINE n == Cardinality(Ids)
             before == Cardinality(Inserting)
             after == Cardinality(Inserting')
             all == Cardinality(Writer)
  <2>2. /\ before \in Nat /\ after \in Nat /\ all \in Nat /\ after <= all
        /\ row.pc # "insert" => after <= before
    BY InsertingMoves
  <2>3. n + before <= MaxRecords + all - 1 /\ n \in Nat /\ MaxRecords \in Nat
    BY <2>1 DEF MemoryInv, SpaceInv
  <2>4. row.pc = "insert" => n < MaxRecords
    OBVIOUS
  <2> HIDE DEF n, before, after, all
  <2>5. n + after <= MaxRecords + all - 1
    BY <2>2, <2>3, <2>4
  <2>6. Cardinality(Ids') + Cardinality(Inserting') <= MaxRecords + Cardinality(Writer) - 1
    BY <1>1, <2>5 DEF n, after, all
  <2> QED BY <1>1, <2>1, <2>6 DEF SpaceInv
<1> QED BY <1>2, <1>3, <1>4, <1>5, <1>6 DEF MemoryInv

(* The values of a row. *)
Remembers(row, x) == row.value = x \/ \E i \in DOMAIN row.history : row.history[i] = x

(* The new contents of a row keep what the row had. *)
LEMMA ReplacedRow ==
    ASSUME NEW row \in MemoryRow, NEW k \in Key, NEW v \in Value
    PROVE  /\ Replaced(row, k, v) \in MemoryRow /\ Replaced(row, k, v).value = v
           /\ \A x : Remembers(row, x) => Remembers(Replaced(row, k, v), x)
<1> DEFINE new == Replaced(row, k, v)
<1>1. row.value \in Value /\ row.history \in Seq(Value)
  BY DEF MemoryRow
<1>2. CASE row.value = v
  <2>1. new = [key |-> k, value |-> v, history |-> row.history]
    BY <1>2 DEF Replaced
  <2>2. new \in MemoryRow /\ new.value = v /\ new.history = row.history
    BY <1>1, <2>1 DEF MemoryRow
  <2> QED BY <1>2, <2>2 DEF Remembers
<1>3. CASE row.value # v
  <2> DEFINE longer == Append(row.history, row.value)
  <2>1. new = [key |-> k, value |-> v, history |-> longer]
    BY <1>3 DEF Replaced
  <2>2. /\ longer \in Seq(Value) /\ Len(longer) = Len(row.history) + 1
        /\ longer[Len(row.history) + 1] = row.value
        /\ \A i \in DOMAIN row.history : i \in DOMAIN longer /\ longer[i] = row.history[i]
    BY <1>1
  <2>3. Len(row.history) + 1 \in DOMAIN longer
    BY <1>1, <2>2
  <2> HIDE DEF longer
  <2>4. new \in MemoryRow /\ new.value = v /\ new.history = longer
    BY <1>1, <2>1, <2>2 DEF MemoryRow
  <2> QED BY <2>2, <2>3, <2>4 DEF Remembers
<1> QED BY <1>2, <1>3

(* The steps of a request that change neither rows nor limits. *)
LEMMA RequestsKeep ==
    ASSUME MemoryInv, NEW w \in Writer,
           \/ ReadRow(w) \/ MirrorUpsert(w) \/ MirrorDelete(w) \/ BeginRecall(w) \/ Recall(w)
           \/ EndWork(w)
           \/ \E k \in Key, v \in Value : BeginCreate(w, k, v) \/ \E m \in Memory : BeginEdit(w, m, k, v)
           \/ \E m \in Memory, v \in Value : BeginMerge(w, m, v)
    PROVE  MemoryInv'
<1> USE MemoryStoreAssumption
<1>1. /\ NoWork \in WriterRow /\ NoWork.pc = "idle" /\ NoWork.ids = {}
      /\ writer[w] \in WriterRow /\ writer \in [Writer -> WriterRow] /\ WriterInv(w)
      /\ index \in SUBSET Memory /\ forgotten \in SUBSET Memory /\ Ids \in SUBSET Memory
      /\ Ids \intersect forgotten = {} /\ \A m \in Ids : memory[m] \in MemoryRow
  BY DEF NoWork, WriterRow, MemoryInv, MemoryTypeOK, MemoryRow, IdentityInv
<1>2. ASSUME NEW row \in WriterRow, row.pc \notin {"insert", "update"},
             row.pc = "upsert" => row.key \in Key /\ row.value \in Value,
             row.pc = "mirror" => row.id \in Memory,
             row.pc \in {"recall", "recalled"} => row.ids \intersect row.before = {},
             writer' = [writer EXCEPT ![w] = row], UNCHANGED <<memory, forgotten, stored>>,
             index' \in SUBSET Memory
      PROVE  MemoryInv'
  <2>1. WriterInv(w)'
    BY <1>1, <1>2 DEF WriterInv
  <2> QED BY <1>2, <2>1, WriterMoves
<1>3. CASE EndWork(w) \/ MirrorUpsert(w)
  <2>1. /\ writer' = [writer EXCEPT ![w] = NoWork] /\ UNCHANGED <<memory, forgotten, stored>>
        /\ index' = index \/ (writer[w].pc = "mirror" /\ index' \in {index, index \union {writer[w].id}})
    BY <1>3 DEF EndWork, MirrorUpsert
  <2>2. index' \in SUBSET Memory
    BY <1>1, <2>1 DEF WriterInv
  <2> QED BY <1>1, <1>2, <2>1, <2>2
<1>4. CASE MirrorDelete(w)
  <2>1. PICK m \in writer[w].ids :
            /\ index' \in {index, index \ {m}} /\ UNCHANGED <<memory, forgotten, stored>>
            /\ writer' = [writer EXCEPT ![w] = IF @.ids = {m} THEN NoWork
                                               ELSE [@ EXCEPT !.ids = writer[w].ids \ {m}]]
    BY <1>4 DEF MirrorDelete
  <2>2. index' \in SUBSET Memory /\ writer[w].pc = "unmirror"
    BY <1>1, <1>4, <2>1 DEF MirrorDelete
  <2>3. CASE writer[w].ids = {m}
    <3>1. writer' = [writer EXCEPT ![w] = NoWork]
      BY <2>1, <2>3
    <3> QED BY <1>1, <1>2, <2>1, <2>2, <3>1
  <2>4. CASE writer[w].ids # {m}
    <3> DEFINE row == [writer[w] EXCEPT !.ids = @ \ {m}]
    <3>1. writer' = [writer EXCEPT ![w] = row]
      BY <2>1, <2>4
    <3>2. row \in WriterRow /\ row.pc = "unmirror"
      BY <1>1, <2>2 DEF WriterRow
    <3> HIDE DEF row
    <3> QED BY <1>2, <2>1, <2>2, <3>1, <3>2
  <2> QED BY <2>3, <2>4
<1>5. CASE BeginRecall(w)
  <2> DEFINE row == [NoWork EXCEPT !.pc = "recall", !.ids = Ids, !.before = forgotten]
  <2>1. row \in WriterRow /\ row.pc = "recall" /\ row.ids = Ids /\ row.before = forgotten
    BY <1>1 DEF WriterRow
  <2>2. /\ writer' = [writer EXCEPT ![w] = row] /\ UNCHANGED <<memory, forgotten, stored>>
        /\ index' = index
    BY <1>5 DEF BeginRecall
  <2> HIDE DEF row
  <2> QED BY <1>1, <1>2, <2>1, <2>2
<1>6. CASE Recall(w)
  <2>1. PICK named \in SUBSET writer[w].ids :
            writer' = [writer EXCEPT ![w].pc = "recalled", ![w].ids = named \union (@ \intersect index)]
    BY <1>6 DEF Recall
  <2> DEFINE found == named \union (writer[w].ids \intersect index)
             row == [writer[w] EXCEPT !.pc = "recalled", !.ids = found]
  <2>2. found \in SUBSET Memory /\ found \subseteq writer[w].ids
    BY <1>1 DEF WriterRow
  <2>3. writer' = [writer EXCEPT ![w] = row]
    BY <1>1, <2>1 DEF WriterRow
  <2> HIDE DEF found
  <2>4. row \in WriterRow /\ row.pc = "recalled" /\ row.ids = found /\ row.before = writer[w].before
    BY <1>1, <2>2 DEF WriterRow
  <2>5. writer[w].ids \intersect writer[w].before = {} /\ UNCHANGED <<memory, index, forgotten, stored>>
    BY <1>1, <1>6 DEF Recall, WriterInv
  <2> HIDE DEF row
  <2> QED BY <1>1, <1>2, <2>2, <2>3, <2>4, <2>5
<1>7. ASSUME NEW k \in Key, NEW v \in Value, BeginCreate(w, k, v) PROVE MemoryInv'
  <2> DEFINE row == [NoWork EXCEPT !.pc = "upsert", !.key = k, !.value = v]
  <2>1. row \in WriterRow /\ row.pc = "upsert" /\ row.key = k /\ row.value = v
    BY <1>1 DEF WriterRow
  <2>2. writer' = [writer EXCEPT ![w] = row] /\ UNCHANGED <<memory, index, forgotten, stored>>
    BY <1>7 DEF BeginCreate
  <2> HIDE DEF row
  <2> QED BY <1>1, <1>2, <2>1, <2>2
<1>8. ASSUME NEW m \in Memory, NEW k \in Key, NEW v \in Value, BeginEdit(w, m, k, v) PROVE MemoryInv'
  <2> DEFINE part1 == [NoWork EXCEPT !.pc = "upsert", !.id = m]
             row == [NoWork EXCEPT !.pc = "upsert", !.id = m, !.key = k, !.value = v]
  <2>1. part1 \in WriterRow /\ part1.pc = "upsert"
    BY <1>1 DEF WriterRow
  <2>2. row = [part1 EXCEPT !.key = k, !.value = v]
    OBVIOUS
  <2>3. writer' = [writer EXCEPT ![w] = row] /\ UNCHANGED <<memory, index, forgotten, stored>>
    BY <1>8 DEF BeginEdit
  <2> HIDE DEF part1, row
  <2>4. row \in WriterRow /\ row.pc = "upsert" /\ row.key = k /\ row.value = v
    BY <2>1, <2>2 DEF WriterRow
  <2> QED BY <1>1, <1>2, <2>3, <2>4
<1>9. ASSUME NEW m \in Memory, NEW v \in Value, BeginMerge(w, m, v) PROVE MemoryInv'
  <2>1. m \in Ids /\ memory[m].key \in Key
    BY <1>1, <1>9 DEF BeginMerge, MemoryRow
  <2> QED BY <1>8, <1>9, <2>1 DEF BeginMerge
<1>10. CASE ReadRow(w)
  <2>1. /\ writer[w].pc = "upsert" /\ UNCHANGED <<memory, index, forgotten, stored>>
        /\ writer[w].key \in Key /\ writer[w].value \in Value
    BY <1>1, <1>10 DEF ReadRow, WriterInv
  <2>2. ASSUME NEW m \in Target(w), Unlocked(w, m),
               writer' = [writer EXCEPT ![w].pc = "update", ![w].ids = {m}, ![w].before =
                    {Replaced(memory[m], writer[w].key, writer[w].value)}]
        PROVE  MemoryInv'
    <3> DEFINE new == Replaced(memory[m], writer[w].key, writer[w].value)
               row == [writer[w] EXCEPT !.pc = "update", !.ids = {m}, !.before = {new}]
    <3>1. m \in Ids /\ m \in Memory
      BY <1>1 DEF Target, WithKey
    <3>2. new \in MemoryRow
      BY <1>1, <2>1, <3>1, ReplacedRow
    <3>3. writer' = [writer EXCEPT ![w] = row]
      BY <1>1, <2>2 DEF WriterRow
    <3> HIDE DEF new
    <3>4. /\ row \in WriterRow /\ row.pc = "update" /\ row.ids = {m} /\ row.before = {new}
          /\ row.key = writer[w].key /\ row.value = writer[w].value
      BY <1>1, <3>1, <3>2 DEF WriterRow
    <3> HIDE DEF row
    <3>5. writer'[w] = row /\ Unlocked(w, m)' /\ Ids' = Ids
      BY <1>1, <2>1, <2>2, <3>3 DEF Unlocked, Ids
    <3>6. WriterInv(w)'
      BY <2>1, <3>1, <3>4, <3>5 DEF WriterInv, new
    <3> QED BY <1>1, <2>1, <3>3, <3>4, <3>6, WriterMoves
  <2>3. ASSUME writer' = [writer EXCEPT ![w] = IF Cardinality(Ids) < MaxRecords
                                               THEN [@ EXCEPT !.pc = "insert"] ELSE NoWork]
        PROVE  MemoryInv'
    <3> DEFINE goes == [writer[w] EXCEPT !.pc = "insert"]
               row == IF Cardinality(Ids) < MaxRecords THEN goes ELSE NoWork
    <3>1. /\ goes \in WriterRow /\ goes.pc = "insert" /\ goes.key = writer[w].key
          /\ goes.value = writer[w].value
      BY <1>1 DEF WriterRow
    <3>2. writer' = [writer EXCEPT ![w] = row]
      BY <2>3
    <3> HIDE DEF goes
    <3>3. /\ row \in WriterRow /\ row.pc \in {"insert", "idle"}
          /\ row.pc = "insert" => /\ Cardinality(Ids) < MaxRecords
                                  /\ row.key \in Key /\ row.value \in Value
      BY <1>1, <2>1, <3>1
    <3> HIDE DEF row
    <3>4. WriterInv(w)'
      BY <1>1, <3>2, <3>3 DEF WriterInv
    <3> QED BY <1>1, <2>1, <3>2, <3>3, <3>4, WriterMoves
  <2> QED BY <1>10, <2>2, <2>3 DEF ReadRow
<1> QED BY <1>3, <1>4, <1>5, <1>6, <1>7, <1>8, <1>9, <1>10

(* A commit that is refused starts once more, or gives up. *)
LEMMA ClashKeeps ==
    ASSUME MemoryInv, NEW w \in Writer, writer[w].pc \in {"update", "insert"},
           writer' = [writer EXCEPT ![w] = TryAgain(w)],
           UNCHANGED <<memory, index, forgotten, stored>>
    PROVE  MemoryInv'
<1> USE MemoryStoreAssumption
<1>1. /\ NoWork \in WriterRow /\ NoWork.pc = "idle" /\ writer[w] \in WriterRow
      /\ writer[w].key \in Key /\ writer[w].value \in Value
      /\ index \in SUBSET Memory /\ writer \in [Writer -> WriterRow]
  BY DEF NoWork, WriterRow, MemoryInv, MemoryTypeOK, WriterInv
<1> DEFINE first == [writer[w] EXCEPT !.pc = "upsert", !.tries = 1]
           again == [writer[w] EXCEPT !.pc = "upsert", !.tries = 1, !.ids = {}, !.before = {}]
           row == TryAgain(w)
<1>0. 1 \in 0..1
  OBVIOUS
<1>2. /\ first \in WriterRow /\ first.pc = "upsert" /\ first.key = writer[w].key
      /\ first.value = writer[w].value
  BY <1>0, <1>1 DEF WriterRow
<1>3. again = [first EXCEPT !.ids = {}, !.before = {}]
  OBVIOUS
<1>4. row \in {again, NoWork}
  BY DEF TryAgain
<1> HIDE DEF first, again
<1>5. /\ again \in WriterRow /\ again.pc = "upsert" /\ again.key = writer[w].key
      /\ again.value = writer[w].value
  BY <1>2, <1>3 DEF WriterRow
<1>6. writer' = [writer EXCEPT ![w] = row]
  OBVIOUS
<1> HIDE DEF row
<1>7. WriterInv(w)' /\ row \in WriterRow /\ row.pc # "insert"
  BY <1>1, <1>4, <1>5, <1>6 DEF WriterInv
<1> QED BY <1>1, <1>6, <1>7, WriterMoves

(* Turning to the index. *)
LEMMA NoWorkRow == NoWork \in WriterRow /\ NoWork.pc = "idle"
BY DEF NoWork, WriterRow

LEMMA MirrorRow ==
    ASSUME NEW w, NEW m \in Memory
    PROVE  Mirror(w, m) \in WriterRow /\ Mirror(w, m).pc = "mirror" /\ Mirror(w, m).id = m
<1> DEFINE row == [NoWork EXCEPT !.pc = "mirror", !.id = m]
<1>1. row \in WriterRow /\ row.pc = "mirror" /\ row.id = m
  BY NoWorkRow DEF WriterRow
<1> QED BY <1>1 DEF Mirror

(* A request that has changed the rows and turns to the index. *)
LEMMA RowsChange ==
    ASSUME MemoryInv, NEW w \in Writer, NEW row \in WriterRow,
           writer' = [writer EXCEPT ![w] = row], row.pc \in {"mirror", "unmirror"},
           row.pc = "mirror" => row.id \in Memory, index' = index,
           Ids' \subseteq Memory, forgotten' \subseteq Memory,
           \A m \in Ids' : memory'[m] \in MemoryRow,
           \A u \in Writer \ {w}, m \in Ids : writer[u].pc = "update" /\ writer[u].ids = {m} =>
               m \in Ids' /\ memory'[m] = memory[m],
           NoValueLost', IdentityInv', IsFiniteSet(Ids'),
           \/ Cardinality(Ids') <= Cardinality(Ids)
           \/ (writer[w].pc = "insert" /\ Cardinality(Ids') <= Cardinality(Ids) + 1)
    PROVE  MemoryInv'
<1> USE MemoryStoreAssumption
<1>1. writer' \in [Writer -> WriterRow] /\ writer'[w] = row
  BY DEF MemoryInv
<1>2. WriterInv(w)'
  BY <1>1 DEF WriterInv
<1>3. \A u \in Writer \ {w} : WriterInv(u)'
  BY OthersHold
<1>4. MemoryTypeOK'
  <2>1. \A u \in Writer : writer'[u].pc \in
            {"idle", "upsert", "update", "insert", "mirror", "unmirror", "recall", "recalled"}
    BY <1>1 DEF WriterRow
  <2> QED BY <2>1 DEF MemoryTypeOK, MemoryInv, MemoryRow
<1>5. SpaceInv'
  <2> DEFINE n == Cardinality(Ids)
             m == Cardinality(Ids')
             before == Cardinality(Inserting)
             after == Cardinality(Inserting')
             all == Cardinality(Writer)
  <2>1. n \in Nat /\ m \in Nat
    BY FS_CardinalityType DEF MemoryInv, SpaceInv
  <2>2. /\ before \in Nat /\ after \in Nat /\ all \in Nat
        /\ after <= before /\ (writer[w].pc = "insert" => after = before - 1)
    BY InsertingMoves
  <2>3. n + before <= MaxRecords + all - 1 /\ MaxRecords \in Nat
    BY DEF MemoryInv, SpaceInv
  <2>4. m <= n \/ (writer[w].pc = "insert" /\ m <= n + 1)
    OBVIOUS
  <2> HIDE DEF n, m, before, after, all
  <2>5. m + after <= MaxRecords + all - 1
    BY <2>1, <2>2, <2>3, <2>4
  <2> QED BY <2>5 DEF m, after, all, SpaceInv
<1> QED BY <1>1, <1>2, <1>3, <1>4, <1>5 DEF MemoryInv

(* A committed edit keeps the value it replaces. *)
LEMMA UpdateKeeps == ASSUME MemoryInv, NEW w \in Writer, CommitUpdate(w) PROVE MemoryInv'
<1> USE MemoryStoreAssumption
<1>1. /\ writer[w] \in WriterRow /\ writer[w].pc = "update" /\ UNCHANGED <<index, forgotten>>
      /\ writer \in [Writer -> WriterRow] /\ \A n \in Ids : memory[n] \in MemoryRow
      /\ Ids \subseteq Memory /\ forgotten \subseteq Memory
      /\ writer[w].key \in Key /\ writer[w].value \in Value
  BY DEF MemoryInv, MemoryTypeOK, MemoryRow, CommitUpdate, WriterInv
<1>2. PICK m \in Ids : /\ writer[w].ids = {m} /\ Unlocked(w, m)
                       /\ writer[w].before = {Replaced(memory[m], writer[w].key, writer[w].value)}
  BY <1>1 DEF MemoryInv, WriterInv
<1> DEFINE new == Replaced(memory[m], writer[w].key, writer[w].value)
<1>3. CASE Clash(w, m)
  <2>1. writer' = [writer EXCEPT ![w] = TryAgain(w)] /\ UNCHANGED <<memory, stored>>
    BY <1>2, <1>3 DEF CommitUpdate
  <2> QED BY <1>1, <2>1, ClashKeeps
<1>4. CASE ~Clash(w, m)
  <2>1. /\ memory' = [memory EXCEPT ![m] = new]
        /\ stored' = stored \union {<<Cardinality(stored), m, new.value>>}
        /\ writer' = [writer EXCEPT ![w] = Mirror(w, m)]
    BY <1>2, <1>4 DEF CommitUpdate
  <2>2. /\ new \in MemoryRow
        /\ \A x : Remembers(memory[m], x) => Remembers(new, x)
    <3>1. memory[m] \in MemoryRow /\ writer[w].key \in Key /\ writer[w].value \in Value
      BY <1>1
    <3> QED BY <3>1, ReplacedRow
  <2>3. /\ Mirror(w, m) \in WriterRow /\ Mirror(w, m).pc = "mirror" /\ Mirror(w, m).id = m
    BY <1>1, MirrorRow
  <2> HIDE DEF new
  <2>4. Ids' = Ids /\ \A n \in Ids : memory'[n] = IF n = m THEN new ELSE memory[n]
    BY <2>1 DEF Ids
  <2>5. NoValueLost'
    <3> SUFFICES ASSUME NEW s \in stored', s[2] \in Ids
                 PROVE  \/ memory'[s[2]].value = s[3]
                        \/ \E i \in DOMAIN memory'[s[2]].history : memory'[s[2]].history[i] = s[3]
      BY <2>4 DEF NoValueLost
    <3>1. CASE s \in stored
      <4>1. \/ memory[s[2]].value = s[3]
            \/ \E i \in DOMAIN memory[s[2]].history : memory[s[2]].history[i] = s[3]
        BY <3>1 DEF MemoryInv, NoValueLost
      <4> QED BY <2>2, <2>4, <4>1 DEF Remembers
    <3>2. CASE s = <<Cardinality(stored), m, new.value>>
      BY <2>4, <3>2
    <3> QED BY <2>1, <3>1, <3>2
  <2>6. IdentityInv'
    BY <1>1, <2>1, <2>4 DEF IdentityInv, MemoryInv
  <2>7. \A u \in Writer \ {w}, n \in Ids : writer[u].pc = "update" /\ writer[u].ids = {n} =>
            n \in Ids' /\ memory'[n] = memory[n]
    BY <1>2, <2>4 DEF Unlocked
  <2>8. IsFiniteSet(Ids') /\ Cardinality(Ids') <= Cardinality(Ids)
    BY <2>4, FS_CardinalityType DEF MemoryInv, SpaceInv
  <2>9. \A n \in Ids' : memory'[n] \in MemoryRow
    BY <1>1, <2>2, <2>4
  <2> QED BY <1>1, <2>1, <2>3, <2>4, <2>5, <2>6, <2>7, <2>8, <2>9, RowsChange
<1> QED BY <1>3, <1>4

(* A committed new row takes an identifier nobody had. *)
LEMMA InsertKeeps ==
    ASSUME MemoryInv, NEW w \in Writer, NEW m \in Memory, CommitInsert(w, m) PROVE MemoryInv'
<1> USE MemoryStoreAssumption
<1>1. /\ writer[w].pc = "insert" /\ UNCHANGED <<index, forgotten>> /\ m \notin Ids \union forgotten
      /\ \A n \in Ids : memory[n] \in MemoryRow
      /\ Ids \subseteq Memory /\ forgotten \subseteq Memory
      /\ writer[w].key \in Key /\ writer[w].value \in Value
  BY DEF MemoryInv, MemoryTypeOK, MemoryRow, CommitInsert, WriterInv
<1>2. CASE Clash(w, m)
  <2>1. writer' = [writer EXCEPT ![w] = TryAgain(w)] /\ UNCHANGED <<memory, stored>>
    BY <1>2 DEF CommitInsert
  <2> QED BY <1>1, <2>1, ClashKeeps
<1>3. CASE ~Clash(w, m)
  <2> DEFINE new == [key |-> writer[w].key, value |-> writer[w].value, history |-> << >>]
  <2>1. /\ memory' = [n \in Ids \union {m} |-> IF n # m THEN memory[n] ELSE new]
        /\ stored' = stored \union {<<Cardinality(stored), m, writer[w].value>>}
        /\ writer' = [writer EXCEPT ![w] = Mirror(w, m)]
    BY <1>3 DEF CommitInsert
  <2>2. new \in MemoryRow /\ new.value = writer[w].value
    BY <1>1 DEF MemoryRow
  <2>3. /\ Mirror(w, m) \in WriterRow /\ Mirror(w, m).pc = "mirror" /\ Mirror(w, m).id = m
    BY MirrorRow
  <2> HIDE DEF new
  <2>4. /\ Ids' = Ids \union {m} /\ memory'[m] = new
        /\ \A n \in Ids : memory'[n] = memory[n]
    BY <1>1, <2>1 DEF Ids
  <2>5. NoValueLost'
    <3> SUFFICES ASSUME NEW s \in stored', s[2] \in Ids'
                 PROVE  \/ memory'[s[2]].value = s[3]
                        \/ \E i \in DOMAIN memory'[s[2]].history : memory'[s[2]].history[i] = s[3]
      BY DEF NoValueLost
    <3>1. CASE s \in stored
      <4>1. s[2] \in Ids
        BY <1>1, <2>4, <3>1 DEF MemoryInv, IdentityInv
      <4>2. \/ memory[s[2]].value = s[3]
            \/ \E i \in DOMAIN memory[s[2]].history : memory[s[2]].history[i] = s[3]
        BY <3>1, <4>1 DEF MemoryInv, NoValueLost
      <4> QED BY <2>4, <4>1, <4>2
    <3>2. CASE s = <<Cardinality(stored), m, writer[w].value>>
      BY <2>2, <2>4, <3>2
    <3> QED BY <2>1, <3>1, <3>2
  <2>6. IdentityInv'
    BY <1>1, <2>1, <2>4 DEF IdentityInv, MemoryInv
  <2>7. \A u \in Writer \ {w}, n \in Ids : writer[u].pc = "update" /\ writer[u].ids = {n} =>
            n \in Ids' /\ memory'[n] = memory[n]
    BY <2>4
  <2>8. IsFiniteSet(Ids') /\ Cardinality(Ids') <= Cardinality(Ids) + 1
    <3>1. IsFiniteSet(Ids) /\ Cardinality(Ids) \in Nat
      BY FS_CardinalityType DEF MemoryInv, SpaceInv
    <3>2. IsFiniteSet(Ids \union {m}) /\ Cardinality(Ids \union {m}) = Cardinality(Ids) + 1
      BY <1>1, <3>1, FS_AddElement
    <3> QED BY <2>4, <3>1, <3>2
  <2>9. \A n \in Ids' : memory'[n] \in MemoryRow
    BY <1>1, <2>2, <2>4
  <2> QED BY <1>1, <2>1, <2>3, <2>4, <2>5, <2>6, <2>7, <2>8, <2>9, RowsChange
<1> QED BY <1>2, <1>3

(* Deleted rows are not held by anybody. *)
LEMMA DeleteKeeps ==
    ASSUME MemoryInv, NEW w \in Writer, NEW gone \in SUBSET Memory, NEW ids \in SUBSET Memory,
           DeleteRows(w, gone, ids)
    PROVE  MemoryInv'
<1> USE MemoryStoreAssumption
<1>1. /\ \A n \in Ids : memory[n] \in MemoryRow
      /\ Ids \subseteq Memory /\ forgotten \subseteq Memory /\ gone \subseteq Ids
      /\ \A m \in gone : Unlocked(w, m)
      /\ memory' = [m \in Ids \ gone |-> memory[m]]
      /\ forgotten' = forgotten \union gone /\ UNCHANGED <<index, stored>>
  BY DEF MemoryInv, MemoryTypeOK, MemoryRow, DeleteRows
<1> DEFINE row == [NoWork EXCEPT !.pc = "unmirror", !.ids = ids]
<1>2. writer' = [writer EXCEPT ![w] = row]
  BY DEF DeleteRows
<1>3. row \in WriterRow /\ row.pc = "unmirror"
  BY NoWorkRow DEF WriterRow
<1> HIDE DEF row
<1>4. Ids' = Ids \ gone /\ \A n \in Ids' : memory'[n] = memory[n]
  BY <1>1 DEF Ids
<1>5. NoValueLost' /\ IdentityInv'
  BY <1>1, <1>4 DEF NoValueLost, IdentityInv, MemoryInv
<1>6. \A u \in Writer \ {w}, n \in Ids : writer[u].pc = "update" /\ writer[u].ids = {n} =>
          n \in Ids' /\ memory'[n] = memory[n]
  BY <1>1, <1>4 DEF Unlocked
<1>7. IsFiniteSet(Ids') /\ Cardinality(Ids') <= Cardinality(Ids)
  <2>1. Ids' \in SUBSET Ids
    BY <1>4
  <2> QED BY <2>1, FS_Subset DEF MemoryInv, SpaceInv
<1> QED BY <1>1, <1>2, <1>3, <1>4, <1>5, <1>6, <1>7, RowsChange

(* Every step keeps the invariant. *)
LEMMA MemoryStepHolds == MemoryInv /\ [MemoryNext]_memoryVars => MemoryInv'
<1> SUFFICES ASSUME MemoryInv, [MemoryNext]_memoryVars PROVE MemoryInv'
  OBVIOUS
<1>1. CASE UNCHANGED memoryVars
  <2>1. /\ UNCHANGED <<memory, index, writer, forgotten, stored>> /\ Ids' = Ids
        /\ Inserting' = Inserting
    BY <1>1 DEF memoryVars, Ids, Inserting
  <2>2. MemoryTypeOK' /\ NoValueLost' /\ IdentityInv'
    BY <2>1 DEF MemoryInv, MemoryTypeOK, NoValueLost, IdentityInv
  <2>3. SpaceInv'
    BY <2>1 DEF MemoryInv, SpaceInv
  <2>4. \A w \in Writer : WriterInv(w)'
    BY <2>1 DEF MemoryInv, WriterInv, Unlocked
  <2> QED BY <2>1, <2>2, <2>3, <2>4 DEF MemoryInv
<1>2. CASE MemoryNext
  BY <1>2, RequestsKeep, UpdateKeeps, InsertKeeps, DeleteKeeps DEF MemoryNext
<1> QED BY <1>1, <1>2

(* The invariant of the memory store holds however requests interleave. *)
THEOREM MemoryInvariance == MemorySpec => []MemoryInv
BY MemoryInitHolds, MemoryStepHolds, PTL DEF MemorySpec

(* What the invariant of the memories says. *)
LEMMA MemoryImplies == MemoryInv => MemoriesKept
<1> SUFFICES ASSUME MemoryInv PROVE MemoriesKept
  OBVIOUS
<1>1. ForgottenStaysForgotten
  BY DEF MemoryInv, WriterInv, ForgottenStaysForgotten
<1>2. LimitOverrun
  <2> DEFINE n == Cardinality(Ids)
             k == Cardinality(Inserting)
             all == Cardinality(Writer)
  <2>1. Inserting \in SUBSET Writer
    BY DEF Inserting
  <2>2. n \in Nat /\ k \in Nat /\ all \in Nat /\ MaxRecords \in Nat
    BY <2>1, FS_CardinalityType, FS_Subset, MemoryStoreAssumption DEF MemoryInv, SpaceInv
  <2>3. n + k <= MaxRecords + all - 1
    BY DEF MemoryInv, SpaceInv
  <2> HIDE DEF n, k, all
  <2>4. n <= MaxRecords + all - 1
    BY <2>2, <2>3
  <2> QED BY <2>4 DEF n, all, LimitOverrun
<1> QED BY <1>1, <1>2 DEF MemoryInv, MemoriesKept

(* No committed value is lost, nothing forgotten is recalled, and the limit is
   exceeded only by requests that looked at it at once (service.py upsert,
   recall, delete). *)
THEOREM MemoriesAreKept == MemorySpec => []MemoriesKept
BY MemoryImplies, MemoryInvariance, PTL

(***************************************************************************)
(* A language server and its callers.                                      *)
(***************************************************************************)
LspRow == [number: Nat, alive: BOOLEAN, version: Nat, text: Text \union {NoText},
           pending: SUBSET Caller, sent: Nat, overtaken: BOOLEAN]
CallerRow == [pc: {"idle", "notify", "ask", "send", "wait", "done"}, text: Text \union {NoText},
              version: Nat, session: Nat, answer: Text \union {NoText}, overlapped: BOOLEAN]
Frame == [kind: {"document", "request"}, what: Text \union Caller]
Reply == [to: Caller, text: Text \union {NoText}]

IsDocument(frame) == frame.kind = "document"

LspTyped ==
    /\ lsp \in LspRow /\ lsp.number \in 1..MaxSessions
    /\ caller \in [Caller -> CallerRow] /\ pipe \in Seq(Frame)
    /\ \A i \in DOMAIN pipe : IF IsDocument(pipe[i]) THEN pipe[i].what \in Text
                              ELSE pipe[i].what \in Caller
    /\ server \in Text \union {NoText} /\ replies \subseteq Reply

(* A version is taken once, by the caller whose text the session remembers. *)
VersionInv ==
    /\ lsp.sent <= lsp.version
    /\ \A q \in Caller :
           /\ caller[q].session <= lsp.number
           /\ caller[q].pc # "idle" => caller[q].text \in Text
           /\ caller[q].pc = "notify" /\ caller[q].session = lsp.number =>
                  /\ caller[q].version <= lsp.version
                  /\ caller[q].version = lsp.version => caller[q].text = lsp.text

(* The last document on its way to the server, or the one it has. *)
Latest(text) ==
    \/ server = text /\ \A i \in DOMAIN pipe : ~IsDocument(pipe[i])
    \/ \E i \in DOMAIN pipe : /\ IsDocument(pipe[i]) /\ pipe[i].what = text
                              /\ \A j \in DOMAIN pipe : j > i => ~IsDocument(pipe[j])

(* The version that was taken last is yet to be sent, or was sent last. *)
LatestInv ==
    lsp.alive /\ ~lsp.overtaken =>
        \/ \E q \in Caller : /\ caller[q].pc = "notify" /\ caller[q].session = lsp.number
                             /\ caller[q].version = lsp.version
        \/ lsp.sent = lsp.version /\ Latest(lsp.text)

(* A caller that nobody overlaps is alone with its document: nothing follows its
   question in the pipe, and what the server answered is about its text. *)
Alone(q) == q \in Busy /\ ~caller[q].overlapped
AloneInv(q) ==
    /\ Alone(q) => \A p \in Busy : p = q
    /\ Alone(q) /\ caller[q].session = lsp.number => lsp.text = caller[q].text
    /\ caller[q].pc \in {"idle", "notify", "ask", "send"} =>
           /\ \A i \in DOMAIN pipe : ~IsDocument(pipe[i]) => pipe[i].what # q
           /\ \A m \in replies : m.to # q
    /\ Alone(q) /\ caller[q].session = lsp.number /\ lsp.alive /\ ~lsp.overtaken
       /\ caller[q].pc = "wait" =>
           /\ \A i, j \in DOMAIN pipe : ~IsDocument(pipe[i]) /\ pipe[i].what = q /\ j > i =>
                  ~IsDocument(pipe[j])
           /\ \A m \in replies : m.to = q => m.text = caller[q].text

LspInv ==
    /\ LspTyped /\ VersionInv /\ LatestInv /\ AnswerIsAboutText
    /\ \A q \in Caller : AloneInv(q)

(* A fresh session and no question. *)
LEMMA StartedRow ==
    ASSUME NEW n \in Nat
    PROVE  /\ Started(n) \in LspRow /\ Started(n).number = n /\ Started(n).version = 0
           /\ Started(n).text = NoText /\ Started(n).sent = 0
BY DEF Started, LspRow

LEMMA LspInitHolds == LspInit => LspInv
<1> SUFFICES ASSUME LspInit PROVE LspInv
  OBVIOUS
<1> USE LanguageAssumption DEF LspInit
<1>1. /\ NoQuestion \in CallerRow /\ NoQuestion.pc = "idle" /\ NoQuestion.answer = NoText
      /\ NoQuestion.session = 0
  BY DEF NoQuestion, CallerRow
<1>2. \A q \in Caller : caller[q] = NoQuestion
  OBVIOUS
<1>3. /\ lsp \in LspRow /\ lsp.number = 1 /\ lsp.version = 0 /\ lsp.text = NoText /\ lsp.sent = 0
  BY StartedRow
<1>4. LspTyped
  <2>1. pipe \in Seq(Frame) /\ DOMAIN pipe = {}
    OBVIOUS
  <2>2. caller \in [Caller -> CallerRow]
    BY <1>1
  <2>3. 1 \in 1..MaxSessions
    OBVIOUS
  <2> QED BY <1>3, <2>1, <2>2, <2>3 DEF LspTyped
<1>5. VersionInv
  BY <1>1, <1>2, <1>3 DEF VersionInv
<1>6. LatestInv
  BY <1>3 DEF LatestInv, Latest
<1>7. AnswerIsAboutText /\ \A q \in Caller : AloneInv(q)
  BY <1>1, <1>2 DEF AnswerIsAboutText, AloneInv, Alone, Busy
<1> QED BY <1>4, <1>5, <1>6, <1>7 DEF LspInv

(* A step that leaves the document as it is and takes one caller on. *)
LEMMA CallerMoves ==
    ASSUME LspInv, LspTyped', AnswerIsAboutText', NEW q,
           /\ lsp'.number = lsp.number /\ lsp'.version = lsp.version /\ lsp'.text = lsp.text
           /\ lsp'.sent = lsp.sent /\ lsp'.overtaken = lsp.overtaken /\ (lsp'.alive => lsp.alive),
           UNCHANGED <<pipe, server>>, replies' \subseteq replies,
           \A p \in Caller \ {q} : caller'[p] = caller[p],
           q \in Caller =>
               /\ caller'[q].text = caller[q].text /\ caller'[q].version = caller[q].version
               /\ caller'[q].session = caller[q].session
               /\ caller'[q].overlapped = caller[q].overlapped,
           q \in Caller =>
               \/ caller'[q].pc = caller[q].pc
               \/ /\ caller'[q].pc = "done" /\ caller[q].pc # "idle"
                  /\ caller[q].pc = "notify" => ~Mine(q)
               \/ caller[q].pc = "ask" /\ caller'[q].pc = "send"
    PROVE  LspInv'
<1>1. Busy' \subseteq Busy /\ \A p \in Caller : Alone(p)' => Alone(p)
  BY DEF Busy, Alone
<1>2. VersionInv'
  <2>1. ASSUME NEW p \in Caller
        PROVE  /\ caller'[p].session = caller[p].session
               /\ caller'[p].version = caller[p].version
               /\ caller'[p].text = caller[p].text
               /\ caller'[p].pc # "idle" => caller[p].pc # "idle"
               /\ caller'[p].pc = "notify" => caller[p].pc = "notify"
    OBVIOUS
  <2>2. VersionInv
    BY DEF LspInv
  <2>3. lsp'.number = lsp.number /\ lsp'.version = lsp.version /\ lsp'.text = lsp.text
        /\ lsp'.sent = lsp.sent
    OBVIOUS
  <2>4. ASSUME NEW p \in Caller
        PROVE  /\ caller'[p].session <= lsp'.number
               /\ caller'[p].pc # "idle" => caller'[p].text \in Text
               /\ caller'[p].pc = "notify" /\ caller'[p].session = lsp'.number =>
                      /\ caller'[p].version <= lsp'.version
                      /\ caller'[p].version = lsp'.version => caller'[p].text = lsp'.text
    BY <2>1, <2>2, <2>3 DEF VersionInv
  <2> QED BY <2>2, <2>3, <2>4 DEF VersionInv
<1>3. LatestInv'
  <2> SUFFICES ASSUME lsp'.alive, ~lsp'.overtaken
               PROVE  \/ \E p \in Caller : /\ caller'[p].pc = "notify"
                                           /\ caller'[p].session = lsp'.number
                                           /\ caller'[p].version = lsp'.version
                      \/ lsp'.sent = lsp'.version /\ Latest(lsp.text)'
    BY DEF LatestInv
  <2>1. \/ \E p \in Caller : /\ caller[p].pc = "notify" /\ caller[p].session = lsp.number
                             /\ caller[p].version = lsp.version
        \/ lsp.sent = lsp.version /\ Latest(lsp.text)
    BY DEF LspInv, LatestInv
  <2>2. Latest(lsp.text) => Latest(lsp.text)'
    BY DEF Latest
  <2> QED BY <2>1, <2>2 DEF Mine
<1>4. ASSUME NEW p \in Caller PROVE AloneInv(p)'
  <2>1. AloneInv(p)
    BY DEF LspInv
  <2>2. /\ caller'[p].text = caller[p].text /\ caller'[p].session = caller[p].session
        /\ caller'[p].pc \in {"idle", "notify", "ask", "send"} =>
               caller[p].pc \in {"idle", "notify", "ask", "send"}
        /\ caller'[p].pc = "wait" => caller[p].pc = "wait"
    OBVIOUS
  <2>3. /\ Alone(p)' => \A r \in Busy' : r = p
        /\ Alone(p)' /\ caller'[p].session = lsp'.number => lsp'.text = caller'[p].text
    BY <1>1, <2>1, <2>2 DEF AloneInv
  <2>4. caller'[p].pc \in {"idle", "notify", "ask", "send"} =>
           /\ \A i \in DOMAIN pipe' : ~IsDocument(pipe'[i]) => pipe'[i].what # p
           /\ \A m \in replies' : m.to # p
    BY <2>1, <2>2 DEF AloneInv
  <2>5. Alone(p)' /\ caller'[p].session = lsp'.number /\ lsp'.alive /\ ~lsp'.overtaken
        /\ caller'[p].pc = "wait" =>
           /\ \A i, j \in DOMAIN pipe' : ~IsDocument(pipe'[i]) /\ pipe'[i].what = p /\ j > i =>
                  ~IsDocument(pipe'[j])
           /\ \A m \in replies' : m.to = p => m.text = caller'[p].text
    BY <1>1, <2>1, <2>2 DEF AloneInv
  <2> QED BY <2>3, <2>4, <2>5 DEF AloneInv, IsDocument
<1> QED BY <1>2, <1>3, <1>4 DEF LspInv

(* The steps that only take a caller on, or end the process. *)
LEMMA CallersKeep ==
    ASSUME LspInv,
           \/ ServerExits \/ Publish \/ \E m \in replies : ReadReply(m)
           \/ \E q \in Caller : \/ Notify(q) /\ ~Mine(q)
                                \/ Register(q) \/ SendFails(q) \/ EndRequest(q) \/ ReadDiagnostics(q)
    PROVE  LspInv'
<1> USE LanguageAssumption
<1>1. /\ LspTyped /\ lsp \in LspRow /\ caller \in [Caller -> CallerRow] /\ replies \subseteq Reply
      /\ AnswerIsAboutText
  BY DEF LspInv, LspTyped
<1>2. ASSUME NEW row \in LspRow, lsp' = row, row.number = lsp.number, row.version = lsp.version,
             row.text = lsp.text, row.sent = lsp.sent, row.overtaken = lsp.overtaken,
             row.alive => lsp.alive, UNCHANGED <<pipe, server>>, replies' \subseteq replies,
             caller' = caller
      PROVE  LspInv'
  <2>1. LspTyped'
    BY <1>1, <1>2 DEF LspTyped, IsDocument
  <2>2. AnswerIsAboutText'
    BY <1>1, <1>2 DEF AnswerIsAboutText
  <2> QED BY <1>2, <2>1, <2>2, CallerMoves
<1>3. CASE ServerExits
  <2> DEFINE row == [lsp EXCEPT !.alive = FALSE]
  <2>1. /\ row \in LspRow /\ row.number = lsp.number /\ row.version = lsp.version
        /\ row.text = lsp.text /\ row.sent = lsp.sent /\ row.overtaken = lsp.overtaken
        /\ ~row.alive
    BY <1>1 DEF LspRow
  <2>2. lsp' = row /\ UNCHANGED <<pipe, server, replies, published, caller>>
    BY <1>3 DEF ServerExits
  <2> HIDE DEF row
  <2> QED BY <1>2, <2>1, <2>2
<1>4. CASE Publish
  BY <1>1, <1>2, <1>4 DEF Publish
<1>5. ASSUME NEW q \in Caller, NEW row \in CallerRow, caller' = [caller EXCEPT ![q] = row],
             row.text = caller[q].text, row.version = caller[q].version,
             row.session = caller[q].session, row.overlapped = caller[q].overlapped,
             \/ row.pc = caller[q].pc
             \/ /\ row.pc = "done" /\ caller[q].pc # "idle"
                /\ caller[q].pc = "notify" => ~Mine(q)
             \/ caller[q].pc = "ask" /\ row.pc = "send",
             row.answer # NoText /\ ~row.overlapped /\ ~lsp.overtaken => row.answer = row.text,
             UNCHANGED <<pipe, server>>, replies' \subseteq replies,
             lsp' = lsp \/ \E ids \in SUBSET Caller : lsp' = [lsp EXCEPT !.pending = ids]
      PROVE  LspInv'
  <2>1. /\ lsp' \in LspRow /\ lsp'.number = lsp.number /\ lsp'.version = lsp.version
        /\ lsp'.text = lsp.text /\ lsp'.sent = lsp.sent /\ lsp'.overtaken = lsp.overtaken
        /\ lsp'.alive = lsp.alive
    <3>1. ASSUME NEW ids \in SUBSET Caller, lsp' = [lsp EXCEPT !.pending = ids]
          PROVE  /\ lsp' \in LspRow /\ lsp'.number = lsp.number /\ lsp'.version = lsp.version
                 /\ lsp'.text = lsp.text /\ lsp'.sent = lsp.sent /\ lsp'.overtaken = lsp.overtaken
                 /\ lsp'.alive = lsp.alive
      BY <1>1, <3>1 DEF LspRow
    <3> QED BY <1>1, <1>5, <3>1
  <2>2. caller'[q] = row /\ \A p \in Caller \ {q} : caller'[p] = caller[p]
    BY <1>1, <1>5
  <2>3. LspTyped'
    <3>1. caller' \in [Caller -> CallerRow]
      BY <1>1, <1>5
    <3> QED BY <1>1, <1>5, <2>1, <3>1 DEF LspTyped, IsDocument
  <2>4. AnswerIsAboutText'
    BY <1>1, <1>5, <2>1, <2>2 DEF AnswerIsAboutText
  <2> QED BY <1>5, <2>1, <2>2, <2>3, <2>4, CallerMoves
<1>6. ASSUME NEW q \in Caller, NEW pc \in {"send", "done"}, caller' = [caller EXCEPT ![q].pc = pc],
             pc = "done" => caller[q].pc # "idle" /\ (caller[q].pc = "notify" => ~Mine(q)),
             pc = "send" => caller[q].pc = "ask",
             UNCHANGED <<pipe, server, replies>>,
             lsp' = lsp \/ \E ids \in SUBSET Caller : lsp' = [lsp EXCEPT !.pending = ids]
      PROVE  LspInv'
  <2> DEFINE row == [caller[q] EXCEPT !.pc = pc]
  <2>1. /\ row \in CallerRow /\ row.pc = pc /\ row.text = caller[q].text
        /\ row.version = caller[q].version /\ row.session = caller[q].session
        /\ row.overlapped = caller[q].overlapped /\ row.answer = caller[q].answer
    BY <1>1 DEF CallerRow
  <2>2. caller' = [caller EXCEPT ![q] = row]
    BY <1>1, <1>6 DEF CallerRow
  <2> HIDE DEF row
  <2>3. row.answer # NoText /\ ~row.overlapped /\ ~lsp.overtaken => row.answer = row.text
    BY <1>1, <2>1 DEF AnswerIsAboutText
  <2> QED BY <1>5, <1>6, <2>1, <2>2, <2>3
<1>7. ASSUME NEW q \in Caller, Notify(q), ~Mine(q) PROVE LspInv'
  BY <1>1, <1>6, <1>7 DEF Notify
<1>8. ASSUME NEW q \in Caller, SendFails(q) \/ ReadDiagnostics(q) PROVE LspInv'
  BY <1>1, <1>6, <1>8 DEF SendFails, ReadDiagnostics
<1>9. ASSUME NEW q \in Caller, Register(q) PROVE LspInv'
  <2>1. lsp.pending \union {q} \in SUBSET Caller
    BY <1>1 DEF LspRow
  <2>2. /\ caller[q].pc = "ask" /\ lsp' = [lsp EXCEPT !.pending = lsp.pending \union {q}]
        /\ caller' = [caller EXCEPT ![q].pc = "send"] /\ UNCHANGED <<pipe, server, replies>>
    BY <1>9 DEF Register
  <2> QED BY <1>6, <2>1, <2>2
<1>10. ASSUME NEW q \in Caller, EndRequest(q) PROVE LspInv'
  <2>1. lsp.pending \ {q} \in SUBSET Caller
    BY <1>1 DEF LspRow
  <2>2. /\ caller[q].pc = "wait"
        /\ lsp' = lsp \/ lsp' = [lsp EXCEPT !.pending = lsp.pending \ {q}]
        /\ caller' = [caller EXCEPT ![q].pc = "done"] /\ UNCHANGED <<pipe, server, replies>>
    BY <1>10 DEF EndRequest
  <2> QED BY <1>6, <2>1, <2>2
<1>11. ASSUME NEW m \in replies, ReadReply(m) PROVE LspInv'
  <2>1. /\ UNCHANGED <<lsp, pipe, server>> /\ replies' \subseteq replies
    BY <1>11 DEF ReadReply
  <2>2. CASE m.to \in lsp.pending /\ caller[m.to].pc = "wait" /\ Mine(m.to)
    <3> DEFINE q == m.to
               row == [caller[q] EXCEPT !.answer = m.text]
    <3>1. q \in Caller /\ m.text \in Text \union {NoText}
      BY <1>1 DEF Reply
    <3>2. /\ row \in CallerRow /\ row.pc = caller[q].pc /\ row.text = caller[q].text
          /\ row.version = caller[q].version /\ row.session = caller[q].session
          /\ row.overlapped = caller[q].overlapped /\ row.answer = m.text
      BY <1>1, <3>1 DEF CallerRow
    <3>3. caller' = [caller EXCEPT ![q].answer = m.text]
      BY <1>11, <2>2 DEF ReadReply
    <3>4. caller' = [caller EXCEPT ![q] = row]
      BY <1>1, <3>1, <3>3 DEF CallerRow
    <3>5. ~caller[q].overlapped /\ ~lsp.overtaken => m.text = caller[q].text
      <4>1. AloneInv(q)
        BY <3>1 DEF LspInv
      <4>2. q \in Busy /\ caller[q].session = lsp.number /\ lsp.alive
        BY <2>2, <3>1 DEF Busy, Mine
      <4> QED BY <2>2, <4>1, <4>2 DEF AloneInv, Alone
    <3> HIDE DEF row, q
    <3> QED BY <1>5, <2>1, <3>1, <3>2, <3>4, <3>5
  <2>3. CASE ~(m.to \in lsp.pending /\ caller[m.to].pc = "wait" /\ Mine(m.to))
    <3>1. caller' = caller
      BY <1>11, <2>3 DEF ReadReply
    <3> QED BY <1>1, <1>2, <2>1, <3>1
  <2> QED BY <2>2, <2>3
<1> QED BY <1>3, <1>4, <1>7, <1>8, <1>9, <1>10, <1>11

(* A new session knows no document, and no caller is its own yet. *)
LEMMA NewSessionKeeps == ASSUME LspInv, NewSession PROVE LspInv'
<1> USE LanguageAssumption
<1> DEFINE fresh == Started(lsp.number + 1)
           row == [fresh EXCEPT !.overtaken = lsp.overtaken]
<1>1. /\ lsp \in LspRow /\ lsp.number \in Nat /\ lsp.overtaken \in BOOLEAN
      /\ caller \in [Caller -> CallerRow] /\ lsp.number + 1 \in 1..MaxSessions
      /\ lsp.number + 1 \in Nat /\ \A q \in Caller : caller[q].session <= lsp.number
  BY DEF LspInv, LspTyped, LspRow, NewSession, VersionInv
<1>2. /\ lsp' = row /\ pipe' = <<>> /\ server' = NoText /\ replies' = {} /\ caller' = caller
  BY DEF NewSession
<1>3. /\ fresh \in LspRow /\ fresh.number = lsp.number + 1 /\ fresh.version = 0
      /\ fresh.text = NoText /\ fresh.sent = 0
  BY <1>1, StartedRow
<1> HIDE DEF fresh
<1>4. /\ row \in LspRow /\ row.number = lsp.number + 1 /\ row.version = 0 /\ row.text = NoText
      /\ row.sent = 0 /\ row.overtaken = lsp.overtaken
  BY <1>1, <1>3 DEF LspRow
<1> HIDE DEF row
<1>5. pipe' \in Seq(Frame) /\ DOMAIN pipe' = {}
  BY <1>2
<1>6. LspTyped'
  BY <1>1, <1>2, <1>4, <1>5 DEF LspTyped
<1>7. \A q \in Caller : caller'[q].session # lsp'.number /\ caller'[q].session <= lsp'.number
  BY <1>1, <1>2, <1>4 DEF CallerRow
<1>8. VersionInv'
  <2>1. \A q \in Caller : caller'[q].pc # "idle" => caller'[q].text \in Text
    BY <1>2 DEF LspInv, VersionInv
  <2> QED BY <1>2, <1>4, <1>7, <2>1 DEF VersionInv
<1>9. LatestInv'
  BY <1>2, <1>4, <1>5 DEF LatestInv, Latest
<1>10. AnswerIsAboutText'
  BY <1>2, <1>4 DEF LspInv, AnswerIsAboutText
<1>11. \A q \in Caller : AloneInv(q)'
  BY <1>2, <1>5, <1>7 DEF LspInv, AloneInv, Alone, Busy
<1> QED BY <1>6, <1>8, <1>9, <1>10, <1>11 DEF LspInv

(* A caller that synchronises its text overlaps the others, and is alone if
   there are none. *)
LEMMA SyncKeeps ==
    ASSUME LspInv, NEW q \in Caller, NEW text \in Text, Sync(q, text) PROVE LspInv'
<1> USE LanguageAssumption
<1> DEFINE row == [pc |-> IF Same(text) THEN "ask" ELSE "notify", text |-> text,
                   version |-> IF Same(text) THEN lsp.version ELSE lsp.version + 1,
                   session |-> lsp.number, answer |-> NoText, overlapped |-> Busy # {}]
           over(p) == [caller[p] EXCEPT !.overlapped = TRUE]
           next == [lsp EXCEPT !.version = @ + 1, !.text = text]
<1>1. /\ lsp \in LspRow /\ lsp.number \in 1..MaxSessions /\ lsp.number \in Nat
      /\ lsp.version \in Nat /\ lsp.sent \in Nat /\ lsp.version + 1 \in Nat
      /\ caller \in [Caller -> CallerRow] /\ caller[q].pc = "idle" /\ lsp.alive
  BY DEF LspInv, LspTyped, LspRow, Sync
<1>2. /\ caller' = [p \in Caller |-> IF p = q THEN row ELSE IF p \in Busy THEN over(p) ELSE caller[p]]
      /\ Same(text) => lsp' = lsp
      /\ ~Same(text) => lsp' = next
      /\ UNCHANGED <<pipe, server, replies>>
  BY DEF Sync
<1>3. /\ row \in CallerRow /\ row.pc \in {"ask", "notify"} /\ row.text = text
      /\ row.session = lsp.number /\ row.answer = NoText /\ (Busy # {} => row.overlapped)
      /\ Same(text) => row.pc = "ask"
      /\ ~Same(text) => row.pc = "notify" /\ row.version = lsp.version + 1
  BY <1>1 DEF CallerRow
<1>4. \A p \in Caller : /\ over(p) \in CallerRow /\ over(p).pc = caller[p].pc
                        /\ over(p).text = caller[p].text /\ over(p).version = caller[p].version
                        /\ over(p).session = caller[p].session /\ over(p).overlapped
                        /\ over(p).answer = caller[p].answer
  BY <1>1 DEF CallerRow
<1>5. /\ next \in LspRow /\ next.version = lsp.version + 1 /\ next.text = text
      /\ next.number = lsp.number /\ next.sent = lsp.sent /\ next.overtaken = lsp.overtaken
      /\ next.alive = lsp.alive
  BY <1>1 DEF LspRow
<1> HIDE DEF row, over, next
<1>6. /\ caller'[q] = row
      /\ \A p \in Caller \ {q} :
             /\ caller'[p].pc = caller[p].pc /\ caller'[p].text = caller[p].text
             /\ caller'[p].version = caller[p].version /\ caller'[p].session = caller[p].session
             /\ caller'[p].answer = caller[p].answer
             /\ caller'[p].overlapped = caller[p].overlapped \/ caller'[p].overlapped
             /\ p \in Busy => caller'[p].overlapped
  BY <1>2, <1>4
<1>7. /\ lsp' \in LspRow /\ lsp'.number = lsp.number /\ lsp'.sent = lsp.sent
      /\ lsp'.overtaken = lsp.overtaken /\ lsp'.alive /\ lsp'.text = text
      /\ IF Same(text) THEN lsp'.version = lsp.version /\ lsp.text = text
                       ELSE lsp'.version = lsp.version + 1
  BY <1>1, <1>2, <1>5 DEF Same
<1>8. LspTyped'
  <2>1. caller' \in [Caller -> CallerRow]
    BY <1>1, <1>2, <1>3, <1>4
  <2> QED BY <1>1, <1>2, <1>7, <2>1 DEF LspInv, LspTyped, IsDocument
<1>9. VersionInv'
  <2>1. lsp.sent <= lsp.version /\ lsp'.sent <= lsp'.version
    BY <1>1, <1>7 DEF LspInv, VersionInv
  <2>2. ASSUME NEW p \in Caller
        PROVE  /\ caller'[p].session <= lsp'.number
               /\ caller'[p].pc # "idle" => caller'[p].text \in Text
               /\ caller'[p].pc = "notify" /\ caller'[p].session = lsp'.number =>
                      /\ caller'[p].version <= lsp'.version
                      /\ caller'[p].version = lsp'.version => caller'[p].text = lsp'.text
    <3>1. CASE p = q
      BY <1>1, <1>3, <1>6, <1>7, <3>1
    <3>2. CASE p # q
      <4>1. caller[p].version \in Nat /\ caller[p].session <= lsp.number
        BY <1>1 DEF CallerRow, LspInv, VersionInv
      <4>3. caller[p].pc # "idle" => caller[p].text \in Text
        BY DEF LspInv, VersionInv
      <4>2. caller[p].pc = "notify" /\ caller[p].session = lsp.number =>
                      /\ caller[p].version <= lsp.version
                      /\ caller[p].version = lsp.version => caller[p].text = lsp.text
        BY DEF LspInv, VersionInv
      <4> QED BY <1>1, <1>6, <1>7, <3>2, <4>1, <4>2, <4>3
    <3> QED BY <3>1, <3>2
  <2> QED BY <2>1, <2>2 DEF VersionInv
<1>10. LatestInv'
  <2>1. CASE Same(text)
    <3>1. ~lsp.overtaken =>
              \/ \E p \in Caller : /\ caller[p].pc = "notify" /\ caller[p].session = lsp.number
                                   /\ caller[p].version = lsp.version
              \/ lsp.sent = lsp.version /\ Latest(lsp.text)
      BY <1>1 DEF LspInv, LatestInv
    <3>2. Latest(text) => Latest(text)'
      BY <1>2 DEF Latest
    <3>3. \A p \in Caller : caller[p].pc = "notify" => p # q
      BY <1>1
    <3> QED BY <1>6, <1>7, <2>1, <3>1, <3>2, <3>3 DEF LatestInv, Latest
  <2>2. CASE ~Same(text)
    BY <1>3, <1>6, <1>7, <2>2 DEF LatestInv
  <2> QED BY <2>1, <2>2
<1>11. AnswerIsAboutText'
  BY <1>3, <1>6, <1>7 DEF LspInv, AnswerIsAboutText
<1>12. ASSUME NEW p \in Caller PROVE AloneInv(p)'
  <2>1. Busy' = Busy \union {q} /\ q \notin Busy
    BY <1>1, <1>3, <1>6 DEF Busy
  <2>2. Alone(p)' => p = q /\ Busy = {}
    BY <1>3, <1>6, <2>1 DEF Alone
  <2>3. caller'[p].pc \in {"idle", "notify", "ask", "send"} =>
            caller[p].pc \in {"idle", "notify", "ask", "send"}
    BY <1>1, <1>6
  <2>4. caller'[p].pc \in {"idle", "notify", "ask", "send"} =>
           /\ \A i \in DOMAIN pipe' : ~IsDocument(pipe'[i]) => pipe'[i].what # p
           /\ \A m \in replies' : m.to # p
    BY <1>2, <2>3 DEF LspInv, AloneInv
  <2>5. /\ Alone(p)' => \A r \in Busy' : r = p
        /\ Alone(p)' => lsp'.text = caller'[p].text /\ caller'[p].pc # "wait"
    BY <1>3, <1>6, <1>7, <2>1, <2>2
  <2> QED BY <2>4, <2>5 DEF AloneInv, IsDocument
<1> QED BY <1>8, <1>9, <1>10, <1>11, <1>12 DEF LspInv

(* A frame more, and a frame less. *)
LEMMA FrameAppended ==
    ASSUME NEW s \in Seq(Frame), NEW f \in Frame
    PROVE  /\ Append(s, f) \in Seq(Frame) /\ Append(s, f)[Len(s) + 1] = f
           /\ Len(s) + 1 \in DOMAIN Append(s, f) /\ Len(s) + 1 \in Nat
           /\ \A i \in DOMAIN Append(s, f) : i \in Nat /\ i <= Len(s) + 1
           /\ \A i \in DOMAIN Append(s, f) : i = Len(s) + 1 \/ (i \in DOMAIN s /\ i < Len(s) + 1)
           /\ \A i \in DOMAIN s : i \in DOMAIN Append(s, f) /\ Append(s, f)[i] = s[i]
                                  /\ i < Len(s) + 1
OBVIOUS

LEMMA FrameTaken ==
    ASSUME NEW s \in Seq(Frame), s # <<>>
    PROVE  /\ Tail(s) \in Seq(Frame) /\ Head(s) = s[1] /\ 1 \in DOMAIN s
           /\ \A i \in DOMAIN Tail(s) : i \in Nat /\ i + 1 \in DOMAIN s /\ Tail(s)[i] = s[i + 1]
           /\ \A i \in DOMAIN s : i \in Nat /\ (i = 1 \/ (i > 1 /\ i - 1 \in DOMAIN Tail(s)
                                                   /\ Tail(s)[i - 1] = s[i]))
OBVIOUS

(* A notification in order brings the newest document last. *)
LEMMA NotifyKeeps == ASSUME LspInv, NEW q \in Caller, Notify(q), Mine(q) PROVE LspInv'
<1> USE LanguageAssumption
<1> DEFINE row == [caller[q] EXCEPT !.pc = "ask"]
           frame == [kind |-> "document", what |-> caller[q].text]
           next == [lsp EXCEPT !.sent = caller[q].version,
                               !.overtaken = @ \/ caller[q].version < lsp.sent]
           n == Len(pipe) + 1
<1>1. /\ lsp \in LspRow /\ lsp.number \in 1..MaxSessions /\ lsp.version \in Nat /\ lsp.sent \in Nat
      /\ caller \in [Caller -> CallerRow] /\ caller[q].pc = "notify"
      /\ caller[q].session = lsp.number /\ caller[q].text \in Text /\ caller[q].version \in Nat
      /\ caller[q].version <= lsp.version /\ pipe \in Seq(Frame)
      /\ caller[q].version = lsp.version => caller[q].text = lsp.text
  BY DEF LspInv, LspTyped, LspRow, CallerRow, VersionInv, Notify, Mine
<1>2. /\ caller' = [caller EXCEPT ![q].pc = "ask"] /\ pipe' = Append(pipe, frame) /\ lsp' = next
      /\ UNCHANGED <<server, replies>>
  BY DEF Notify
<1>3. caller' = [caller EXCEPT ![q] = row]
  BY <1>1, <1>2 DEF CallerRow
<1>4. /\ row \in CallerRow /\ row.pc = "ask" /\ row.text = caller[q].text
      /\ row.version = caller[q].version /\ row.session = caller[q].session
      /\ row.overlapped = caller[q].overlapped /\ row.answer = caller[q].answer
  BY <1>1 DEF CallerRow
<1>5. /\ next \in LspRow /\ next.version = lsp.version /\ next.text = lsp.text
      /\ next.number = lsp.number /\ next.sent = caller[q].version /\ next.alive = lsp.alive
      /\ ~next.overtaken => ~lsp.overtaken /\ ~(caller[q].version < lsp.sent)
  BY <1>1 DEF LspRow
<1>6. frame \in Frame /\ IsDocument(frame) /\ frame.what = caller[q].text
  BY <1>1 DEF Frame, IsDocument
<1> HIDE DEF row, next, frame
<1>7. /\ caller'[q] = row /\ \A p \in Caller \ {q} : caller'[p] = caller[p]
  BY <1>1, <1>3
<1>8. /\ pipe' \in Seq(Frame) /\ n \in DOMAIN pipe' /\ pipe'[n] = frame /\ n \in Nat
      /\ \A i \in DOMAIN pipe' : i \in Nat /\ i <= n /\ (i = n \/ (i \in DOMAIN pipe /\ pipe'[i] = pipe[i]))
  BY <1>1, <1>2, <1>6, FrameAppended
<1> HIDE DEF n
<1>9. LspTyped'
  <2>1. caller' \in [Caller -> CallerRow]
    BY <1>1, <1>3, <1>4
  <2>2. \A i \in DOMAIN pipe' : IF IsDocument(pipe'[i]) THEN pipe'[i].what \in Text
                                ELSE pipe'[i].what \in Caller
    BY <1>1, <1>6, <1>8 DEF LspInv, LspTyped
  <2> QED BY <1>1, <1>2, <1>5, <1>8, <2>1, <2>2 DEF LspInv, LspTyped, IsDocument
<1>10. VersionInv'
  BY <1>1, <1>2, <1>4, <1>5, <1>7 DEF LspInv, VersionInv
<1>11. LatestInv'
  <2> SUFFICES ASSUME lsp'.alive, ~lsp'.overtaken
               PROVE  \/ \E p \in Caller : /\ caller'[p].pc = "notify"
                                           /\ caller'[p].session = lsp'.number
                                           /\ caller'[p].version = lsp'.version
                      \/ lsp'.sent = lsp'.version /\ Latest(lsp.text)'
    BY <1>2, <1>5 DEF LatestInv, Latest
  <2>1. \/ \E p \in Caller : /\ caller[p].pc = "notify" /\ caller[p].session = lsp.number
                             /\ caller[p].version = lsp.version
        \/ lsp.sent = lsp.version
    BY <1>2, <1>5 DEF LspInv, LatestInv
  <2>2. \/ \E p \in Caller \ {q} : /\ caller[p].pc = "notify" /\ caller[p].session = lsp.number
                                   /\ caller[p].version = lsp.version
        \/ caller[q].version = lsp.version
    BY <1>1, <1>2, <1>5, <2>1
  <2>3. \A j \in DOMAIN pipe' : ~(j > n)
    BY <1>8
  <2>4. caller[q].version = lsp.version => Latest(lsp.text)'
    BY <1>1, <1>2, <1>5, <1>6, <1>8, <2>3 DEF Latest
  <2> QED BY <1>2, <1>5, <1>7, <2>2, <2>4
<1>12. AnswerIsAboutText'
  BY <1>2, <1>4, <1>5, <1>7 DEF LspInv, AnswerIsAboutText
<1>13. ASSUME NEW p \in Caller PROVE AloneInv(p)'
  <2>1. Busy' = Busy /\ q \in Busy
    BY <1>1, <1>4, <1>7 DEF Busy
  <2>2. /\ Alone(p)' => Alone(p) /\ p = q
        /\ Alone(p)' => \A r \in Busy' : r = p
    BY <1>4, <1>7, <2>1 DEF Alone, LspInv, AloneInv
  <2>3. Alone(p)' /\ caller'[p].session = lsp'.number => lsp'.text = caller'[p].text
    BY <1>2, <1>4, <1>5, <1>7, <2>2 DEF LspInv, AloneInv
  <2>4. caller'[p].pc \in {"idle", "notify", "ask", "send"} =>
            caller[p].pc \in {"idle", "notify", "ask", "send"}
    BY <1>1, <1>7
  <2>5. caller'[p].pc \in {"idle", "notify", "ask", "send"} =>
           /\ \A i \in DOMAIN pipe' : ~IsDocument(pipe'[i]) => pipe'[i].what # p
           /\ \A m \in replies' : m.to # p
    BY <1>2, <1>6, <1>8, <2>4 DEF LspInv, AloneInv
  <2>6. Alone(p)' => caller'[p].pc # "wait"
    BY <1>4, <1>7, <2>2
  <2> QED BY <2>2, <2>3, <2>5, <2>6 DEF AloneInv, IsDocument
<1> QED BY <1>9, <1>10, <1>11, <1>12, <1>13 DEF LspInv

(* A question is the last frame of its caller, who waits. *)
LEMMA SendKeeps == ASSUME LspInv, NEW q \in Caller, SendRequest(q) PROVE LspInv'
<1> USE LanguageAssumption
<1> DEFINE row == [caller[q] EXCEPT !.pc = "wait"]
           frame == [kind |-> "request", what |-> q]
           n == Len(pipe) + 1
<1>1. /\ lsp \in LspRow /\ caller \in [Caller -> CallerRow] /\ caller[q].pc = "send"
      /\ pipe \in Seq(Frame)
  BY DEF LspInv, LspTyped, SendRequest
<1>2. /\ caller' = [caller EXCEPT ![q].pc = "wait"] /\ pipe' = Append(pipe, frame)
      /\ UNCHANGED <<lsp, server, replies>>
  BY DEF SendRequest
<1>3. caller' = [caller EXCEPT ![q] = row]
  BY <1>1, <1>2 DEF CallerRow
<1>4. /\ row \in CallerRow /\ row.pc = "wait" /\ row.text = caller[q].text
      /\ row.version = caller[q].version /\ row.session = caller[q].session
      /\ row.overlapped = caller[q].overlapped /\ row.answer = caller[q].answer
  BY <1>1 DEF CallerRow
<1>6. frame \in Frame /\ ~IsDocument(frame) /\ frame.what = q
  BY DEF Frame, IsDocument
<1> HIDE DEF row, frame
<1>7. /\ caller'[q] = row /\ \A p \in Caller \ {q} : caller'[p] = caller[p]
  BY <1>1, <1>3
<1>8. /\ pipe' \in Seq(Frame) /\ n \in DOMAIN pipe' /\ pipe'[n] = frame /\ n \in Nat
      /\ \A i \in DOMAIN pipe' : i \in Nat /\ i <= n /\ (i = n \/ (i \in DOMAIN pipe /\ pipe'[i] = pipe[i]))
      /\ \A i \in DOMAIN pipe : i \in DOMAIN pipe' /\ pipe'[i] = pipe[i] /\ i < n
  BY <1>1, <1>2, <1>6, FrameAppended
<1> HIDE DEF n
<1>9. LspTyped'
  <2>1. caller' \in [Caller -> CallerRow]
    BY <1>1, <1>3, <1>4
  <2>2. \A i \in DOMAIN pipe' : IF IsDocument(pipe'[i]) THEN pipe'[i].what \in Text
                                ELSE pipe'[i].what \in Caller
    BY <1>1, <1>6, <1>8 DEF LspInv, LspTyped
  <2> QED BY <1>1, <1>2, <1>8, <2>1, <2>2 DEF LspInv, LspTyped, IsDocument
<1>10. VersionInv'
  BY <1>1, <1>2, <1>4, <1>7 DEF LspInv, VersionInv
<1>11. LatestInv'
  <2>1. Latest(lsp.text) => Latest(lsp.text)'
    BY <1>2, <1>6, <1>8 DEF Latest, IsDocument
  <2>2. \A p \in Caller : caller[p].pc = "notify" => caller'[p] = caller[p]
    BY <1>1, <1>7
  <2> QED BY <1>2, <2>1, <2>2 DEF LspInv, LatestInv, Latest
<1>12. AnswerIsAboutText'
  BY <1>2, <1>4, <1>7 DEF LspInv, AnswerIsAboutText
<1>13. ASSUME NEW p \in Caller PROVE AloneInv(p)'
  <2>1. Busy' = Busy /\ q \in Busy
    BY <1>1, <1>4, <1>7 DEF Busy
  <2>2. /\ Alone(p)' => Alone(p) /\ p = q
        /\ Alone(p)' => \A r \in Busy' : r = p
    BY <1>4, <1>7, <2>1 DEF Alone, LspInv, AloneInv
  <2>3. Alone(p)' /\ caller'[p].session = lsp'.number => lsp'.text = caller'[p].text
    BY <1>2, <1>4, <1>7, <2>2 DEF LspInv, AloneInv
  <2>4. caller'[p].pc \in {"idle", "notify", "ask", "send"} =>
            p # q /\ caller[p].pc \in {"idle", "notify", "ask", "send"}
    BY <1>1, <1>4, <1>7
  <2>5. caller'[p].pc \in {"idle", "notify", "ask", "send"} =>
           /\ \A i \in DOMAIN pipe' : ~IsDocument(pipe'[i]) => pipe'[i].what # p
           /\ \A m \in replies' : m.to # p
    BY <1>2, <1>6, <1>8, <2>4 DEF LspInv, AloneInv
  <2>6. /\ \A i \in DOMAIN pipe : ~IsDocument(pipe[i]) => pipe[i].what # q
        /\ \A m \in replies : m.to # q
    BY <1>1 DEF LspInv, AloneInv
  <2>7. p = q =>
           /\ \A i, j \in DOMAIN pipe' : ~IsDocument(pipe'[i]) /\ pipe'[i].what = p /\ j > i =>
                  ~IsDocument(pipe'[j])
           /\ \A m \in replies' : m.to = p => m.text = caller'[p].text
    BY <1>2, <1>8, <2>6
  <2> QED BY <2>2, <2>3, <2>5, <2>7 DEF AloneInv, IsDocument
<1> QED BY <1>9, <1>10, <1>11, <1>12, <1>13 DEF LspInv

(* The server answers about the document it has, which for a caller that is
   alone is its own. *)
LEMMA ServerKeeps == ASSUME LspInv, ServerReads PROVE LspInv'
<1> USE LanguageAssumption
<1>1. /\ lsp \in LspRow /\ caller \in [Caller -> CallerRow] /\ pipe \in Seq(Frame) /\ lsp.alive
      /\ pipe # <<>> /\ pipe' = Tail(pipe) /\ UNCHANGED <<lsp, published, caller>>
      /\ server \in Text \union {NoText} /\ replies \subseteq Reply
  BY DEF LspInv, LspTyped, ServerReads
<1>2. /\ pipe' \in Seq(Frame) /\ Head(pipe) = pipe[1] /\ 1 \in DOMAIN pipe
      /\ \A i \in DOMAIN pipe' : i \in Nat /\ i + 1 \in DOMAIN pipe /\ pipe'[i] = pipe[i + 1]
      /\ \A i \in DOMAIN pipe : i \in Nat /\ (i = 1 \/ (i > 1 /\ i - 1 \in DOMAIN pipe'
                                                 /\ pipe'[i - 1] = pipe[i]))
  BY <1>1, FrameTaken
<1>3. IF IsDocument(pipe[1]) THEN pipe[1].what \in Text ELSE pipe[1].what \in Caller
  BY <1>2 DEF LspInv, LspTyped
<1>4. IF IsDocument(pipe[1])
      THEN server' = pipe[1].what /\ replies' = replies
      ELSE replies' = replies \union {[to |-> pipe[1].what, text |-> server]} /\ server' = server
  BY <1>2 DEF ServerReads, IsDocument
<1> DEFINE answer == [to |-> pipe[1].what, text |-> server]
<1>5. /\ ~IsDocument(pipe[1]) => answer \in Reply
      /\ answer.to = pipe[1].what /\ answer.text = server
  BY <1>1, <1>3 DEF Reply
<1>6. \A m \in replies' : m \in replies \/ (~IsDocument(pipe[1]) /\ m = answer)
  BY <1>4
<1> HIDE DEF answer
<1>7. LspTyped'
  <2>1. server' \in Text \union {NoText} /\ replies' \subseteq Reply
    BY <1>1, <1>3, <1>4, <1>5, <1>6
  <2>2. \A i \in DOMAIN pipe' : IF IsDocument(pipe'[i]) THEN pipe'[i].what \in Text
                                ELSE pipe'[i].what \in Caller
    BY <1>2 DEF LspInv, LspTyped
  <2> QED BY <1>1, <1>2, <2>1, <2>2 DEF LspInv, LspTyped, IsDocument
<1>8. VersionInv' /\ AnswerIsAboutText'
  BY <1>1 DEF LspInv, VersionInv, AnswerIsAboutText
<1>9. Latest(lsp.text) => Latest(lsp.text)'
  <2>1. CASE server = lsp.text /\ \A i \in DOMAIN pipe : ~IsDocument(pipe[i])
    BY <1>1, <1>2, <1>4, <2>1 DEF Latest
  <2>2. ASSUME NEW i \in DOMAIN pipe, IsDocument(pipe[i]), pipe[i].what = lsp.text,
               \A j \in DOMAIN pipe : j > i => ~IsDocument(pipe[j])
        PROVE  Latest(lsp.text)'
    <3>1. \A j \in DOMAIN pipe' : j + 1 > i => ~IsDocument(pipe'[j])
      BY <1>2, <2>2
    <3>2. CASE i = 1
      <4>1. \A j \in DOMAIN pipe' : j >= 1 /\ j + 1 > 1
        BY <1>2
      <4> QED BY <1>1, <1>4, <2>2, <3>1, <3>2, <4>1 DEF Latest
    <3>3. CASE i # 1
      <4>1. i - 1 \in DOMAIN pipe' /\ pipe'[i - 1] = pipe[i] /\ i \in Nat
        BY <1>2, <2>2, <3>3
      <4>2. \A j \in DOMAIN pipe' : j > i - 1 => ~IsDocument(pipe'[j])
        BY <1>2, <3>1, <4>1
      <4> QED BY <1>1, <2>2, <4>1, <4>2 DEF Latest
    <3> QED BY <3>2, <3>3
  <2> QED BY <2>1, <2>2 DEF Latest
<1>10. LatestInv'
  BY <1>1, <1>9 DEF LspInv, LatestInv, Latest
<1>11. ASSUME NEW p \in Caller PROVE AloneInv(p)'
  <2>1. Alone(p)' <=> Alone(p)
    BY <1>1 DEF Alone, Busy
  <2>2. AloneInv(p)
    BY DEF LspInv
  <2>3. /\ Alone(p)' => \A r \in Busy' : r = p
        /\ Alone(p)' /\ caller'[p].session = lsp'.number => lsp'.text = caller'[p].text
    BY <1>1, <2>1, <2>2 DEF AloneInv, Busy
  <2>4. caller'[p].pc \in {"idle", "notify", "ask", "send"} =>
           /\ \A i \in DOMAIN pipe' : ~IsDocument(pipe'[i]) => pipe'[i].what # p
           /\ \A m \in replies' : m.to # p
    <3> SUFFICES ASSUME caller'[p].pc \in {"idle", "notify", "ask", "send"}
                 PROVE  /\ \A i \in DOMAIN pipe' : ~IsDocument(pipe'[i]) => pipe'[i].what # p
                        /\ \A m \in replies' : m.to # p
      OBVIOUS
    <3>1. /\ \A i \in DOMAIN pipe : ~IsDocument(pipe[i]) => pipe[i].what # p
          /\ \A m \in replies : m.to # p
      BY <1>1, <2>2 DEF AloneInv
    <3> QED BY <1>2, <1>5, <1>6, <3>1
  <2>5. Alone(p)' /\ caller'[p].session = lsp'.number /\ lsp'.alive /\ ~lsp'.overtaken
        /\ caller'[p].pc = "wait" =>
           /\ \A i, j \in DOMAIN pipe' : ~IsDocument(pipe'[i]) /\ pipe'[i].what = p /\ j > i =>
                  ~IsDocument(pipe'[j])
           /\ \A m \in replies' : m.to = p => m.text = caller'[p].text
    <3> SUFFICES ASSUME Alone(p), caller[p].session = lsp.number, lsp.alive, ~lsp.overtaken,
                        caller[p].pc = "wait"
                 PROVE  /\ \A i, j \in DOMAIN pipe' : ~IsDocument(pipe'[i]) /\ pipe'[i].what = p /\ j > i =>
                            ~IsDocument(pipe'[j])
                        /\ \A m \in replies' : m.to = p => m.text = caller[p].text
      BY <1>1, <2>1
    <3>1. /\ \A i, j \in DOMAIN pipe : ~IsDocument(pipe[i]) /\ pipe[i].what = p /\ j > i =>
                 ~IsDocument(pipe[j])
          /\ \A m \in replies : m.to = p => m.text = caller[p].text
          /\ lsp.text = caller[p].text /\ \A q \in Busy : q = p
      BY <2>2 DEF AloneInv
    <3>2. ASSUME NEW i \in DOMAIN pipe', NEW j \in DOMAIN pipe', ~IsDocument(pipe'[i]),
                 pipe'[i].what = p, j > i
          PROVE  ~IsDocument(pipe'[j])
      <4>1. i + 1 \in DOMAIN pipe /\ j + 1 \in DOMAIN pipe /\ j + 1 > i + 1
            /\ pipe'[i] = pipe[i + 1] /\ pipe'[j] = pipe[j + 1]
        BY <1>2, <3>2
      <4> QED BY <3>1, <3>2, <4>1
    <3>3. ASSUME ~IsDocument(pipe[1]), pipe[1].what = p PROVE server = caller[p].text
      <4>1. \A i \in DOMAIN pipe : ~IsDocument(pipe[i])
        BY <1>2, <3>1, <3>3
      <4>2. \A q \in Caller : caller[q].pc # "notify"
        BY <3>1 DEF Busy
      <4>3. Latest(lsp.text)
        BY <4>2 DEF LspInv, LatestInv
      <4> QED BY <3>1, <4>1, <4>3 DEF Latest
    <3>4. \A m \in replies' : m.to = p => m.text = caller[p].text
      BY <1>5, <1>6, <3>1, <3>3
    <3> QED BY <3>2, <3>4
  <2> QED BY <2>3, <2>4, <2>5 DEF AloneInv, IsDocument
<1> QED BY <1>7, <1>8, <1>10, <1>11 DEF LspInv

(* Every step keeps the invariant. *)
LEMMA LspStepHolds == LspInv /\ [LspNext]_lspVars => LspInv'
<1> SUFFICES ASSUME LspInv, [LspNext]_lspVars PROVE LspInv'
  OBVIOUS
<1>1. CASE UNCHANGED lspVars
  <2>1. UNCHANGED <<lsp, pipe, server, replies, published, caller>>
    BY <1>1 DEF lspVars
  <2>2. LspTyped' /\ VersionInv' /\ LatestInv' /\ AnswerIsAboutText'
    BY <2>1 DEF LspInv, LspTyped, VersionInv, LatestInv, Latest, AnswerIsAboutText, IsDocument
  <2>3. \A q \in Caller : AloneInv(q)'
    BY <2>1 DEF LspInv, AloneInv, Alone, Busy, IsDocument
  <2> QED BY <2>2, <2>3 DEF LspInv
<1>2. CASE LspNext
  BY <1>2, CallersKeep, NewSessionKeeps, SyncKeeps, NotifyKeeps, SendKeeps, ServerKeeps DEF LspNext
<1> QED BY <1>1, <1>2

(* The invariant of a language server's session. *)
THEOREM LspInvariance == LspSpec => []LspInv
BY LspInitHolds, LspStepHolds, PTL DEF LspSpec

(* What the invariant of a language server says. *)
LEMMA LspImplies == LspInv => DocumentsAgree
BY DEF LspInv, LatestInv, Latest, DocumentsAgree, ServerCatchesUp, InFlight, LspTyped

(* A request that no other overlaps is answered about its own text, and the
   server catches up with the document the session remembers, unless
   notifications overtook each other (lsp.py sync, notify, request). *)
THEOREM DocumentsDoAgree == LspSpec => []DocumentsAgree
BY LspImplies, LspInvariance, PTL

(***************************************************************************)
(* A terminal's buffer, its sockets and its streamed commands.             *)
(***************************************************************************)

(* The buffer holds the newest items, and some were trimmed only if it is full. *)
BufferInv ==
    /\ Len(output) <= MaxOutput /\ base + Len(output) = written
    /\ \A i \in 1..Len(output) : output[i] = base + i
    /\ base > 0 => Len(output) = MaxOutput

(* The rows of the two tables. *)
SocketRow == [pc: {"closed", "open", "read", "exit"}, from: Nat, cursor: Nat,
              announced: Nat, alive: BOOLEAN, sent: Seq(Nat)]
CommandRow == [pc: {"new", "started", "running", "done", "error"},
               start: Nat, marker: Nat, offset: Nat, streamed: Seq(Nat)]

(* A socket has sent what it was shown first and all that followed, but for
   what was trimmed before it read. *)
SocketOk(r, trimmed, end) ==
    /\ r.pc = "closed" => r.sent = <<>>
    /\ r.pc # "closed" =>
           /\ r.from <= r.cursor /\ r.cursor <= end
           /\ Increasing(r.sent) /\ \A n \in Items(r.sent) : n <= r.cursor
           /\ \A n \in r.from + 1 .. r.cursor : n \in Items(r.sent) \/ n <= trimmed

(* While the window is not full its length is the number of the item shown last:
   nothing was trimmed when it was shown. A full window streams nothing more. *)
StreamOk(r) ==
    /\ r.pc = "new" => r.streamed = <<>>
    /\ Increasing(r.streamed) /\ \A n \in Items(r.streamed) : n > r.start
    /\ r.pc # "new" /\ r.offset < Window =>
           /\ r.start <= r.offset
           /\ \A n \in Items(r.streamed) : n <= r.offset

TerminalInv ==
    /\ TerminalTypeOK /\ BufferInv
    /\ \A s \in Socket : SocketOk(socket[s], base, written)
    /\ \A c \in Command : StreamOk(command[c])

(* The end of a sequence. *)
LEMMA PieceOf ==
    ASSUME NEW s \in Seq(Nat), NEW m \in 1..Len(s) + 1
    PROVE  LET t == SubSeq(s, m, Len(s))
           IN  /\ t \in Seq(Nat) /\ Len(t) = Len(s) - m + 1 /\ DOMAIN t = 1..Len(t)
               /\ \A i \in 1..Len(t) : t[i] = s[m + i - 1]
<1> DEFINE n == Len(s)
           t == SubSeq(s, m, n)
<1>1. n \in Nat /\ m \in Int /\ n \in Int /\ n - m + 1 \in Nat
  OBVIOUS
<1>2. \A i \in m..n : s[i] \in Nat
  OBVIOUS
<1>3. /\ t \in Seq(Nat) /\ Len(t) = n - m + 1 /\ \A i \in 1..n - m + 1 : t[i] = s[m + i - 1]
  BY <1>1, <1>2
<1> QED BY <1>1, <1>3

(* One increasing sequence after another. *)
LEMMA IncreasingJoined ==
    ASSUME NEW s \in Seq(Nat), NEW t \in Seq(Nat), NEW c \in Nat, Increasing(s), Increasing(t),
           \A n \in Items(s) : n <= c, \A n \in Items(t) : n > c
    PROVE  /\ s \o t \in Seq(Nat) /\ Increasing(s \o t) /\ Items(s \o t) = Items(s) \union Items(t)
<1> DEFINE k == Len(s)
           l == Len(t)
           u == s \o t
<1>1. /\ k \in Nat /\ l \in Nat /\ DOMAIN s = 1..k /\ DOMAIN t = 1..l
      /\ u \in Seq(Nat) /\ Len(u) = k + l /\ DOMAIN u = 1..k + l
      /\ \A i \in 1..k + l : u[i] = IF i <= k THEN s[i] ELSE t[i - k]
  OBVIOUS
<1>2. /\ \A i \in 1..k : s[i] \in Items(s) /\ s[i] \in Nat
      /\ \A i \in 1..l : t[i] \in Items(t) /\ t[i] \in Nat
  <2>1. \A i \in DOMAIN s : s[i] \in Items(s)
    BY DEF Items
  <2>2. \A i \in DOMAIN t : t[i] \in Items(t)
    BY DEF Items
  <2>3. (\A i \in 1..k : s[i] \in Nat) /\ \A i \in 1..l : t[i] \in Nat
    OBVIOUS
  <2> HIDE DEF k, l
  <2> QED BY <1>1, <2>1, <2>2, <2>3
<1> HIDE DEF u, k, l
<1>3. ASSUME NEW i \in DOMAIN u, NEW j \in DOMAIN u, i < j PROVE u[i] < u[j]
  <2>1. i \in 1..k + l /\ j \in 1..k + l
    BY <1>1
  <2>2. CASE j <= k
    <3>1. i \in 1..k /\ j \in 1..k /\ u[i] = s[i] /\ u[j] = s[j]
      BY <1>1, <1>3, <2>1, <2>2
    <3> QED BY <1>1, <1>3, <3>1 DEF Increasing
  <2>3. CASE i > k
    <3>1. i - k \in 1..l /\ j - k \in 1..l /\ i - k < j - k /\ u[i] = t[i - k] /\ u[j] = t[j - k]
      BY <1>1, <1>3, <2>1, <2>3
    <3> QED BY <1>1, <3>1 DEF Increasing
  <2>4. CASE i <= k /\ j > k
    <3>1. i \in 1..k /\ j - k \in 1..l /\ u[i] = s[i] /\ u[j] = t[j - k]
      BY <1>1, <1>3, <2>1, <2>4
    <3> QED BY <1>2, <3>1
  <2> QED BY <1>1, <2>1, <2>2, <2>3, <2>4
<1>4. Items(u) = Items(s) \union Items(t)
  <2>1. ASSUME NEW i \in DOMAIN u PROVE u[i] \in Items(s) \union Items(t)
    <3>1. CASE i <= k
      BY <1>1, <1>2, <2>1, <3>1
    <3>2. CASE i > k
      <4>1. i - k \in 1..l /\ u[i] = t[i - k]
        BY <1>1, <2>1, <3>2
      <4> QED BY <1>2, <4>1
    <3> QED BY <1>1, <2>1, <3>1, <3>2
  <2>2. ASSUME NEW i \in DOMAIN s PROVE s[i] \in Items(u)
    <3>1. i \in DOMAIN u /\ u[i] = s[i]
      BY <1>1, <2>2
    <3> QED BY <3>1 DEF Items
  <2>3. ASSUME NEW i \in DOMAIN t PROVE t[i] \in Items(u)
    <3>1. i + k \in DOMAIN u /\ u[i + k] = t[i]
      BY <1>1, <2>3
    <3> QED BY <3>1 DEF Items
  <2> QED BY <2>1, <2>2, <2>3 DEF Items
<1> QED BY <1>1, <1>3, <1>4 DEF Increasing, u

(* A run of successive numbers. *)
LEMMA RunOf ==
    ASSUME NEW s \in Seq(Nat), NEW b \in Nat, \A i \in 1..Len(s) : s[i] = b + i
    PROVE  Increasing(s) /\ Items(s) = b + 1 .. b + Len(s)
<1>1. DOMAIN s = 1..Len(s) /\ Len(s) \in Nat
  OBVIOUS
<1>2. Increasing(s)
  BY <1>1 DEF Increasing
<1>3. \A n \in b + 1 .. b + Len(s) : n - b \in DOMAIN s /\ s[n - b] = n
  BY <1>1
<1>4. \A i \in DOMAIN s : s[i] \in b + 1 .. b + Len(s)
  BY <1>1
<1>5. Items(s) = b + 1 .. b + Len(s)
  BY <1>3, <1>4 DEF Items
<1> QED BY <1>2, <1>5

(* What the buffer shows from an item on: a run up to its end. *)
LEMMA BufferRun ==
    ASSUME TerminalTypeOK, BufferInv, NEW m \in 1..Len(output) + 1
    PROVE  LET t == SubSeq(output, m, Len(output))
           IN  /\ t \in Seq(Nat) /\ Len(t) = Len(output) - m + 1 /\ Increasing(t)
               /\ Items(t) = base + m .. EndOffset
<1> DEFINE t == SubSeq(output, m, Len(output))
           b == base + m - 1
<1>1. output \in Seq(Nat) /\ base \in Nat /\ Len(output) \in Nat /\ b \in Nat
  BY DEF TerminalTypeOK
<1>2. /\ t \in Seq(Nat) /\ Len(t) = Len(output) - m + 1
      /\ \A i \in 1..Len(t) : t[i] = output[m + i - 1]
  BY <1>1, PieceOf
<1>3. \A i \in 1..Len(t) : t[i] = b + i
  BY <1>1, <1>2 DEF BufferInv
<1>4. b + 1 = base + m /\ b + Len(t) = EndOffset
  BY <1>1, <1>2 DEF EndOffset
<1> HIDE DEF t, b
<1>5. Increasing(t) /\ Items(t) = b + 1 .. b + Len(t)
  BY <1>1, <1>2, <1>3, RunOf
<1> QED BY <1>2, <1>4, <1>5 DEF t

(* The tail that is shown. *)
LEMMA TailRun ==
    ASSUME TerminalTypeOK, BufferInv
    PROVE  /\ Tail50k \in Seq(Nat) /\ Len(Tail50k) \in Nat /\ Len(Tail50k) <= Len(output)
           /\ Len(Tail50k) <= Window /\ Increasing(Tail50k) /\ EndOffset = written
           /\ Items(Tail50k) = EndOffset - Len(Tail50k) + 1 .. EndOffset
           /\ Len(Tail50k) < Window => EndOffset = Len(Tail50k)
           /\ Len(Tail50k) <= EndOffset
           /\ \A i \in 1..Len(Tail50k) : Tail50k[i] = (EndOffset - Len(Tail50k)) + i
<1> USE TerminalAssumption
<1> DEFINE m == (IF Len(output) > Window THEN Len(output) - Window ELSE 0) + 1
           k == Len(Tail50k)
<1>1. /\ Len(output) \in Nat /\ base \in Nat /\ Window \in Nat /\ MaxOutput \in Nat
      /\ Window <= MaxOutput /\ Len(output) <= MaxOutput
  BY DEF TerminalTypeOK, BufferInv
<1>2. m \in 1..Len(output) + 1
  BY <1>1
<1>3. Tail50k = SubSeq(output, m, Len(output))
  BY DEF Tail50k
<1>4. /\ Tail50k \in Seq(Nat) /\ k = Len(output) - m + 1 /\ Increasing(Tail50k)
      /\ Items(Tail50k) = base + m .. EndOffset
  BY <1>2, <1>3, BufferRun
<1>7. /\ Len(output) > Window => k = Window /\ m = Len(output) - Window + 1
      /\ ~(Len(output) > Window) => k = Len(output) /\ m = 1
  BY <1>1, <1>4
<1> HIDE DEF k, m
<1>5. k \in Nat /\ k <= Len(output) /\ k <= Window /\ base + m = EndOffset - k + 1
  BY <1>1, <1>7 DEF EndOffset
<1>6. k < Window => EndOffset = k
  <2>1. k < Window => Len(output) = k /\ base = 0
    BY <1>1, <1>7 DEF BufferInv
  <2> QED BY <1>1, <2>1 DEF EndOffset
<1>8. \A i \in 1..k : Tail50k[i] = (EndOffset - k) + i
  <2> SUFFICES ASSUME NEW i \in 1..k PROVE Tail50k[i] = (EndOffset - k) + i
    OBVIOUS
  <2>1. m \in 1..Len(output) + 1 /\ k = Len(output) - m + 1
    BY <1>2, <1>4
  <2>2. output \in Seq(Nat)
    BY DEF TerminalTypeOK
  <2>3. Tail50k[i] = output[m + i - 1]
    BY <1>3, <2>1, <2>2, PieceOf DEF k
  <2>4. m + i - 1 \in 1..Len(output)
    BY <1>1, <1>5, <2>1
  <2>5. output[m + i - 1] = base + (m + i - 1)
    BY <2>4 DEF BufferInv
  <2>6. EndOffset \in Nat /\ i \in Nat /\ m \in Nat
    BY <1>1, <2>1 DEF EndOffset
  <2>7. base + (m + i - 1) = (EndOffset - k) + i
    BY <1>1, <1>5, <2>6
  <2> QED BY <2>3, <2>5, <2>7
<1>9. k <= EndOffset
  BY <1>1, <1>5 DEF EndOffset
<1> QED BY <1>4, <1>5, <1>6, <1>8, <1>9 DEF BufferInv, EndOffset, k

(* A new item is the last one, and the oldest goes only from a full buffer. *)
LEMMA AppendKeeps ==
    ASSUME TerminalTypeOK, BufferInv, AppendOutput
    PROVE  /\ output' \in Seq(Nat) /\ base' \in Nat /\ written' \in Nat /\ BufferInv'
           /\ base' >= base /\ written' = written + 1
<1> USE TerminalAssumption
<1> DEFINE long == Append(output, written + 1)
           n == Len(output)
           m == IF n < MaxOutput THEN 1 ELSE 2
<1>1. /\ output \in Seq(Nat) /\ n \in Nat /\ base \in Nat /\ written \in Nat /\ MaxOutput \in Nat
      /\ MaxOutput > 0 /\ n <= MaxOutput /\ base + n = written /\ (base > 0 => n = MaxOutput)
      /\ \A i \in 1..n : output[i] = base + i
  BY DEF TerminalTypeOK, BufferInv
<1>2. /\ long \in Seq(Nat) /\ Len(long) = n + 1 /\ long[n + 1] = written + 1
      /\ \A i \in 1..n : long[i] = output[i]
  BY <1>1
<1>3. \A i \in 1..n + 1 : long[i] = base + i
  <2> SUFFICES ASSUME NEW i \in 1..n + 1 PROVE long[i] = base + i
    OBVIOUS
  <2>1. CASE i = n + 1
    <3>1. base \in Nat /\ n \in Nat /\ base + n = written
      BY <1>1
    <3> HIDE DEF long, n
    <3>2. base + (n + 1) = written + 1
      BY <3>1
    <3> QED BY <1>2, <2>1, <3>2
  <2>2. CASE i # n + 1
    <3>1. i \in 1..n
      BY <1>1, <2>2
    <3> QED BY <1>1, <1>2, <3>1
  <2> QED BY <2>1, <2>2
<1>4. /\ n < MaxOutput => m = 1
      /\ n = MaxOutput => m = 2
  OBVIOUS
<1>5. Len(long) \in Nat /\ n + 1 \in Nat
  BY <1>1, <1>2
<1> HIDE DEF long, m
<1>6. /\ output' = SubSeq(long, m, Len(long)) /\ base' = base + (m - 1) /\ written' = written + 1
      /\ m \in 1..Len(long) + 1
  <2>1. /\ written' = written + 1 /\ base' = base + Excess(long)
        /\ output' = SubSeq(long, Len(long) - (IF Len(long) > MaxOutput THEN MaxOutput
                                               ELSE Len(long)) + 1, Len(long))
    BY DEF AppendOutput, long
  <2>2. CASE n < MaxOutput
    <3>1. ~(Len(long) > MaxOutput) /\ Len(long) - Len(long) + 1 = 1 /\ Excess(long) = 0
      BY <1>1, <1>2, <1>5, <2>2 DEF Excess
    <3>2. m = 1 /\ m - 1 = 0 /\ m \in 1..Len(long) + 1
      BY <1>4, <1>5, <2>2
    <3> QED BY <2>1, <3>1, <3>2
  <2>3. CASE n = MaxOutput
    <3>1. Len(long) > MaxOutput /\ Len(long) - MaxOutput + 1 = 2 /\ Excess(long) = 1
      BY <1>1, <1>2, <1>5, <2>3 DEF Excess
    <3>2. m = 2 /\ m - 1 = 1 /\ m \in 1..Len(long) + 1
      BY <1>1, <1>2, <1>4, <1>5, <2>3
    <3> QED BY <2>1, <3>1, <3>2
  <2> QED BY <1>1, <2>2, <2>3
<1>7. /\ output' \in Seq(Nat) /\ Len(output') = Len(long) - m + 1
      /\ \A i \in 1..Len(output') : output'[i] = long[m + i - 1]
  BY <1>2, <1>6, PieceOf
<1> HIDE DEF n
<1>8. /\ m \in Nat /\ ((n < MaxOutput /\ m = 1) \/ (n = MaxOutput /\ m = 2))
      /\ Len(output') = n + 2 - m /\ base' = base + (m - 1)
  BY <1>1, <1>2, <1>4, <1>6, <1>7
<1>9. \A i \in 1..Len(output') : output'[i] = base' + i
  <2> SUFFICES ASSUME NEW i \in 1..Len(output') PROVE output'[i] = base' + i
    OBVIOUS
  <2>1. m + i - 1 \in 1..n + 1 /\ base + (m + i - 1) = base' + i
    BY <1>1, <1>8
  <2> QED BY <1>3, <1>7, <2>1
<1>10. /\ Len(output') <= MaxOutput /\ base' + Len(output') = written + 1
       /\ base' \in Nat /\ base' >= base /\ (base' > 0 => Len(output') = MaxOutput)
  BY <1>1, <1>8
<1>11. BufferInv'
  BY <1>6, <1>9, <1>10 DEF BufferInv
<1>12. written' \in Nat
  BY <1>1, <1>6
<1> QED BY <1>6, <1>7, <1>10, <1>11, <1>12

(* At the start. *)
LEMMA TerminalInitHolds == TerminalInit => TerminalInv
<1> SUFFICES ASSUME TerminalInit PROVE TerminalInv
  OBVIOUS
<1> USE TerminalAssumption
<1>1. <<>> \in Seq(Nat) /\ Len(<<>>) = 0 /\ DOMAIN <<>> = {}
  OBVIOUS
<1>2. Increasing(<<>>) /\ Items(<<>>) = {}
  BY <1>1 DEF Increasing, Items
<1>3. TerminalTypeOK
  BY <1>1 DEF TerminalInit, TerminalTypeOK
<1>4. BufferInv
  BY <1>1 DEF TerminalInit, BufferInv
<1>5. \A s \in Socket : SocketOk(socket[s], base, written)
  BY DEF TerminalInit, SocketOk
<1>6. \A c \in Command : StreamOk(command[c])
  BY <1>2 DEF TerminalInit, StreamOk
<1> QED BY <1>3, <1>4, <1>5, <1>6 DEF TerminalInv

(* A row of a table. *)
LEMMA TerminalRows ==
    ASSUME TerminalInv
    PROVE  /\ socket \in [Socket -> SocketRow] /\ command \in [Command -> CommandRow]
           /\ base \in Nat /\ written \in Nat /\ restarts \in Nat /\ EndOffset \in Nat
           /\ output \in Seq(Nat) /\ Len(output) \in Nat /\ EndOffset = written
           /\ EndOffset = base + Len(output) /\ Window \in Nat
<1>1. Len(output) \in Nat
  BY DEF TerminalInv, TerminalTypeOK
<1> QED BY <1>1, TerminalAssumption DEF TerminalInv, TerminalTypeOK, SocketRow, CommandRow, EndOffset, BufferInv

(* A step of a socket changes its row alone. *)
LEMMA SocketMoves ==
    ASSUME TerminalInv, NEW s \in Socket, NEW r \in SocketRow, SocketOk(r, base, written),
           socket' = [socket EXCEPT ![s] = r],
           UNCHANGED <<shell, bufferVars, mayRestart, restarts, command, holder>>
    PROVE  TerminalInv'
<1>1. UNCHANGED <<shell, output, base, written, mayRestart, restarts, command, holder>>
  BY DEF bufferVars
<1>2. socket' \in [Socket -> SocketRow] /\ \A q \in Socket : socket'[q] = IF q = s THEN r ELSE socket[q]
  BY TerminalRows
<1>3. TerminalTypeOK'
  BY <1>1, <1>2 DEF TerminalInv, TerminalTypeOK, SocketRow
<1>4. BufferInv'
  BY <1>1 DEF TerminalInv, BufferInv
<1>5. \A q \in Socket : SocketOk(socket[q], base, written)'
  <2> SUFFICES ASSUME NEW q \in Socket PROVE SocketOk(socket'[q], base', written')
    OBVIOUS
  <2>1. SocketOk(socket[q], base, written)
    BY DEF TerminalInv
  <2>2. socket'[q] = IF q = s THEN r ELSE socket[q]
    BY <1>2
  <2> QED BY <1>1, <2>1, <2>2
<1>6. \A c \in Command : StreamOk(command[c])'
  BY <1>1 DEF TerminalInv
<1> QED BY <1>3, <1>4, <1>5, <1>6 DEF TerminalInv

(* More output disturbs no socket. *)
LEMMA SocketStands ==
    ASSUME NEW r \in SocketRow, NEW b \in Nat, NEW w \in Nat, NEW bb \in Nat, NEW ww \in Nat,
           SocketOk(r, b, w), b <= bb, w <= ww
    PROVE  SocketOk(r, bb, ww)
<1>1. r.from \in Nat /\ r.cursor \in Nat
  BY DEF SocketRow
<1>2. r.pc # "closed" => r.cursor <= ww
  BY <1>1 DEF SocketOk
<1>3. r.pc # "closed" => \A n \in r.from + 1 .. r.cursor : n \in Items(r.sent) \/ n <= bb
  BY <1>1 DEF SocketOk
<1> QED BY <1>2, <1>3 DEF SocketOk

(* A step of a command changes its row alone, whether the buffer grows or not. *)
LEMMA CommandMoves ==
    ASSUME TerminalInv, NEW c \in Command, NEW r \in CommandRow, StreamOk(r),
           command' = [command EXCEPT ![c] = r], UNCHANGED <<shell, restarts, socket>>,
           AppendOutput \/ UNCHANGED bufferVars, mayRestart' \in BOOLEAN,
           holder' \in Command \union {NoCommand}
    PROVE  TerminalInv'
<1>1. command' \in [Command -> CommandRow] /\ \A d \in Command : command'[d] = IF d = c THEN r ELSE command[d]
  BY TerminalRows
<1>2. /\ output' \in Seq(Nat) /\ base' \in Nat /\ written' \in Nat /\ BufferInv'
      /\ base <= base' /\ written <= written'
  <2>1. CASE AppendOutput
    <3>1. output' \in Seq(Nat) /\ base' \in Nat /\ written' \in Nat /\ BufferInv' /\ base' >= base
          /\ written' = written + 1
      BY <2>1, AppendKeeps DEF TerminalInv
    <3> QED BY <3>1, TerminalRows
  <2>2. CASE UNCHANGED bufferVars
    <3>1. UNCHANGED <<output, base, written>>
      BY <2>2 DEF bufferVars
    <3> QED BY <3>1, TerminalRows DEF TerminalInv, BufferInv
  <2> QED BY <2>1, <2>2
<1>3. TerminalTypeOK'
  BY <1>1, <1>2 DEF TerminalInv, TerminalTypeOK, CommandRow
<1>4. \A q \in Socket : SocketOk(socket[q], base, written)'
  <2> SUFFICES ASSUME NEW q \in Socket PROVE SocketOk(socket[q], base', written')
    OBVIOUS
  <2>1. SocketOk(socket[q], base, written) /\ socket[q] \in SocketRow
    BY TerminalRows DEF TerminalInv
  <2> QED BY <1>2, <2>1, TerminalRows, SocketStands
<1>5. \A d \in Command : StreamOk(command[d])'
  <2> SUFFICES ASSUME NEW d \in Command PROVE StreamOk(command'[d])
    OBVIOUS
  <2>1. StreamOk(command[d]) /\ (command'[d] = IF d = c THEN r ELSE command[d])
    BY <1>1 DEF TerminalInv
  <2> QED BY <2>1
<1> QED BY <1>2, <1>3, <1>4, <1>5 DEF TerminalInv

(* The first payload of a socket. *)
LEMMA OpenKeeps == ASSUME TerminalInv, NEW s \in Socket, OpenSocket(s) PROVE TerminalInv'
<1> DEFINE l == Len(Tail50k)
           e == EndOffset
           r == [pc |-> "open", from |-> e - l, cursor |-> e,
                 announced |-> restarts, alive |-> TRUE, sent |-> Tail50k]
<1>1. TerminalTypeOK /\ BufferInv
  BY DEF TerminalInv
<1>2. /\ Tail50k \in Seq(Nat) /\ l \in Nat /\ l <= e /\ Increasing(Tail50k) /\ e = written
      /\ Items(Tail50k) = e - l + 1 .. e
  BY <1>1, TailRun
<1>3. e \in Nat /\ restarts \in Nat
  BY TerminalRows
<1>4. socket' = [socket EXCEPT ![s] = r]
      /\ UNCHANGED <<shell, bufferVars, mayRestart, restarts, command, holder>>
  BY DEF OpenSocket
<1> HIDE DEF l, e
<1>5. e - l \in Nat /\ e - l <= e
  BY <1>2, <1>3
<1>6. r \in SocketRow
  BY <1>2, <1>3, <1>5 DEF SocketRow
<1>7. /\ r.pc = "open" /\ r.from = e - l /\ r.cursor = e /\ r.sent = Tail50k
  OBVIOUS
<1> HIDE DEF r
<1>8. SocketOk(r, base, written)
  BY <1>2, <1>3, <1>5, <1>7 DEF SocketOk
<1> QED BY <1>4, <1>6, <1>8, SocketMoves

(* What a socket reads follows all it has sent. *)
LEMMA ReadKeeps == ASSUME TerminalInv, NEW s \in Socket, ReadSocket(s) PROVE TerminalInv'
<1> DEFINE o == socket[s]
           m == (IF o.cursor > base THEN o.cursor - base ELSE 0) + 1
           t == Since(o.cursor)
           h == [o EXCEPT !.sent = @ \o t, !.cursor = EndOffset]
           r == [h EXCEPT !.alive = (shell = "up"), !.pc = "read"]
<1>1. /\ o \in SocketRow /\ o.pc = "open" /\ SocketOk(o, base, written)
      /\ TerminalTypeOK /\ BufferInv
  BY TerminalRows DEF TerminalInv, ReadSocket
<1>2. /\ o.cursor \in Nat /\ o.from \in Nat /\ o.sent \in Seq(Nat) /\ o.cursor <= written
      /\ o.from <= o.cursor /\ Increasing(o.sent) /\ (\A n \in Items(o.sent) : n <= o.cursor)
      /\ \A n \in o.from + 1 .. o.cursor : n \in Items(o.sent) \/ n <= base
  BY <1>1 DEF SocketOk, SocketRow
<1>3. /\ base \in Nat /\ written \in Nat /\ EndOffset = written /\ Len(output) \in Nat
      /\ EndOffset = base + Len(output)
  BY TerminalRows
<1>4. /\ m \in 1..Len(output) + 1
      /\ o.cursor > base => base + m = o.cursor + 1
      /\ ~(o.cursor > base) => base + m = base + 1
  <2>1. CASE o.cursor > base
    <3> DEFINE u == o.cursor
               len == Len(output)
    <3>1. m = (u - base) + 1
      BY <2>1
    <3>2. u \in Nat /\ u > base /\ base \in Nat /\ len \in Nat /\ u <= base + len
      BY <1>2, <1>3, <2>1
    <3> HIDE DEF m, u, len
    <3>3. m \in 1..len + 1 /\ base + m = u + 1
      BY <3>1, <3>2
    <3> QED BY <2>1, <3>3 DEF u, len
  <2>2. CASE ~(o.cursor > base)
    <3>1. m = 1
      BY <2>2
    <3> HIDE DEF m, o
    <3> QED BY <1>2, <1>3, <2>2, <3>1
  <2> QED BY <2>1, <2>2
<1>5. t = SubSeq(output, m, Len(output))
  BY DEF Since
<1>6. r \in SocketRow /\ r.pc = "read" /\ r.from = o.from /\ r.cursor = EndOffset
      /\ r.sent = o.sent \o t
  <2>1. t \in Seq(Nat)
    BY <1>1, <1>4, <1>5, BufferRun
  <2> HIDE DEF t
  <2>2. o.sent \o t \in Seq(Nat)
    BY <1>2, <2>1
  <2>3. h \in SocketRow /\ h.from = o.from /\ h.cursor = EndOffset /\ h.sent = o.sent \o t
    BY <1>1, <1>3, <2>2 DEF SocketRow
  <2> HIDE DEF h
  <2> QED BY <2>3 DEF SocketRow
<1>7. socket' = [socket EXCEPT ![s] = r]
      /\ UNCHANGED <<shell, bufferVars, mayRestart, restarts, command, holder>>
  BY TerminalRows DEF ReadSocket, SocketRow
<1> HIDE DEF m
<1>8. t \in Seq(Nat) /\ Increasing(t) /\ Items(t) = base + m .. EndOffset
  BY <1>1, <1>4, <1>5, BufferRun
<1> HIDE DEF t, r, o
<1>9. (\A n \in Items(t) : n > o.cursor) /\ \A n \in o.cursor + 1 .. EndOffset : n \in Items(t) \/ n <= base
  <2>1. m \in Nat
    BY <1>3, <1>4
  <2>2. CASE o.cursor > base
    BY <1>2, <1>3, <1>4, <1>8, <2>1, <2>2
  <2>3. CASE ~(o.cursor > base)
    BY <1>2, <1>3, <1>4, <1>8, <2>1, <2>3
  <2> QED BY <2>2, <2>3
<1>10. Increasing(r.sent) /\ Items(r.sent) = Items(o.sent) \union Items(t)
  BY <1>2, <1>6, <1>8, <1>9, IncreasingJoined
<1>11. \A n \in Items(r.sent) : n <= EndOffset
  <2>1. ASSUME NEW n \in Items(o.sent) PROVE n <= EndOffset
    <3>1. n \in Nat /\ n <= o.cursor
      BY <1>2 DEF Items
    <3> QED BY <1>2, <1>3, <3>1
  <2>2. ASSUME NEW n \in Items(t) PROVE n <= EndOffset
    BY <1>3, <1>4, <1>8
  <2> QED BY <1>10, <2>1, <2>2
<1>12. \A n \in o.from + 1 .. EndOffset : n \in Items(r.sent) \/ n <= base
  <2> SUFFICES ASSUME NEW n \in o.from + 1 .. EndOffset PROVE n \in Items(r.sent) \/ n <= base
    OBVIOUS
  <2>1. n \in o.from + 1 .. o.cursor \/ n \in o.cursor + 1 .. EndOffset
    BY <1>2, <1>3
  <2> QED BY <1>2, <1>9, <1>10, <2>1
<1>13. SocketOk(r, base, written)
  BY <1>2, <1>3, <1>6, <1>10, <1>11, <1>12 DEF SocketOk
<1> QED BY <1>6, <1>7, <1>13, SocketMoves

(* A socket looks at the session again. *)
LEMMA CheckKeeps == ASSUME TerminalInv, NEW s \in Socket, CheckSocket(s) PROVE TerminalInv'
<1> DEFINE o == socket[s]
           r == [o EXCEPT !.announced = restarts,
                          !.pc = IF ~o.alive /\ shell # "up" THEN "exit" ELSE "open"]
<1>1. o \in SocketRow /\ o.pc = "read" /\ SocketOk(o, base, written) /\ restarts \in Nat
  BY TerminalRows DEF TerminalInv, CheckSocket
<1>2. /\ r \in SocketRow /\ r.pc \in {"exit", "open"}
      /\ r.from = o.from /\ r.cursor = o.cursor /\ r.sent = o.sent
  BY <1>1 DEF SocketRow
<1>3. socket' = [socket EXCEPT ![s] = r]
      /\ UNCHANGED <<shell, bufferVars, mayRestart, restarts, command, holder>>
  BY TerminalRows DEF CheckSocket, SocketRow
<1> HIDE DEF r, o
<1>4. SocketOk(r, base, written)
  BY <1>1, <1>2 DEF SocketOk
<1> QED BY <1>2, <1>3, <1>4, SocketMoves

(* A command starts with the length of the window it was shown. *)
LEMMA StartKeeps == ASSUME TerminalInv, NEW c \in Command, StartCommand(c) PROVE TerminalInv'
<1> DEFINE o == command[c]
           r == [o EXCEPT !.pc = "started", !.start = EndOffset, !.offset = Len(Tail50k)]
<1>1. o \in CommandRow /\ o.pc = "new" /\ StreamOk(o) /\ TerminalTypeOK /\ BufferInv
  BY TerminalRows DEF TerminalInv, StartCommand
<1>2. Len(Tail50k) \in Nat /\ (Len(Tail50k) < Window => EndOffset = Len(Tail50k)) /\ EndOffset \in Nat
  BY <1>1, TailRun, TerminalRows
<1>3. /\ r \in CommandRow /\ r.pc = "started" /\ r.start = EndOffset
      /\ r.offset = Len(Tail50k) /\ r.streamed = o.streamed
  BY <1>1, <1>2 DEF CommandRow
<1>4. command' = [command EXCEPT ![c] = r]
      /\ UNCHANGED <<shell, bufferVars, mayRestart, restarts, socket, holder>>
  BY DEF StartCommand
<1> HIDE DEF r, o
<1>5. o.streamed = <<>> /\ Items(<<>>) = {}
  BY <1>1 DEF StreamOk, Items
<1>6. StreamOk(r)
  BY <1>1, <1>2, <1>3, <1>5 DEF StreamOk
<1>7. mayRestart' \in BOOLEAN /\ holder' \in Command \union {NoCommand}
  BY <1>4 DEF TerminalInv, TerminalTypeOK
<1> QED BY <1>3, <1>4, <1>6, <1>7, CommandMoves

(* A command moves on with the stream it has. *)
LEMMA CommandGoesOn ==
    ASSUME TerminalInv, NEW c \in Command, command[c].pc # "new",
           NEW r \in CommandRow, r.pc # "new", r.start = command[c].start,
           r.offset = command[c].offset, r.streamed = command[c].streamed
    PROVE  StreamOk(r)
BY DEF TerminalInv, StreamOk

(* The lock, the marker and the end of a command. *)
LEMMA LockKeeps == ASSUME TerminalInv, NEW c \in Command, LockCommand(c) PROVE TerminalInv'
<1> DEFINE o == command[c]
           r(p) == [o EXCEPT !.pc = p]
<1>1. o \in CommandRow /\ o.pc = "started" /\ mayRestart \in BOOLEAN /\ holder \in Command \union {NoCommand}
  BY TerminalRows DEF TerminalInv, TerminalTypeOK, LockCommand
<1>2. PICK p \in {"running", "error"} : command' = [command EXCEPT ![c] = r(p)]
  <2>1. CASE shell = "up"
    BY <2>1, TerminalRows DEF LockCommand, CommandRow
  <2>2. CASE shell # "up"
    BY <2>2, TerminalRows DEF LockCommand, CommandRow
  <2> QED BY <2>1, <2>2
<1>3. /\ r(p) \in CommandRow /\ r(p).pc = p /\ r(p).start = o.start
      /\ r(p).offset = o.offset /\ r(p).streamed = o.streamed
  BY <1>1, <1>2 DEF CommandRow
<1>4. UNCHANGED <<shell, bufferVars, mayRestart, restarts, socket>> /\ holder' \in Command \union {NoCommand}
  BY <1>1 DEF LockCommand
<1> DEFINE x == r(p)
<1>5. x \in CommandRow /\ command' = [command EXCEPT ![c] = x] /\ StreamOk(x)
  <2>1. x.pc # "new" /\ o.pc # "new"
    BY <1>1, <1>2, <1>3
  <2> HIDE DEF x
  <2>2. x \in CommandRow /\ x.start = o.start /\ x.offset = o.offset /\ x.streamed = o.streamed
    BY <1>3 DEF x
  <2>3. StreamOk(x)
    BY <2>1, <2>2, CommandGoesOn
  <2> QED BY <1>2, <2>2, <2>3 DEF x
<1> HIDE DEF x
<1> QED BY <1>1, <1>4, <1>5, CommandMoves

LEMMA MarkerKeeps == ASSUME TerminalInv, NEW c \in Command, MarkerWritten(c) PROVE TerminalInv'
<1> DEFINE o == command[c]
           r == [o EXCEPT !.marker = written + 1]
<1>1. /\ o \in CommandRow /\ o.pc = "running" /\ written + 1 \in Nat
      /\ mayRestart \in BOOLEAN /\ holder \in Command \union {NoCommand}
  BY TerminalRows DEF TerminalInv, TerminalTypeOK, MarkerWritten
<1>2. /\ r \in CommandRow /\ r.pc = "running" /\ r.start = o.start
      /\ r.offset = o.offset /\ r.streamed = o.streamed
  BY <1>1 DEF CommandRow
<1>3. /\ command' = [command EXCEPT ![c] = r] /\ AppendOutput
      /\ UNCHANGED <<shell, mayRestart, restarts, socket, holder>>
  BY TerminalRows DEF MarkerWritten, CommandRow
<1> HIDE DEF r
<1>4. StreamOk(r)
  BY <1>1, <1>2, CommandGoesOn
<1> QED BY <1>1, <1>2, <1>3, <1>4, CommandMoves

LEMMA EndKeeps == ASSUME TerminalInv, NEW c \in Command, EndCommand(c) PROVE TerminalInv'
<1> DEFINE o == command[c]
           r == [o EXCEPT !.pc = "done"]
<1>1. o \in CommandRow /\ o.pc = "running" /\ mayRestart \in BOOLEAN
  BY TerminalRows DEF TerminalInv, TerminalTypeOK, EndCommand
<1>2. /\ r \in CommandRow /\ r.pc = "done" /\ r.start = o.start
      /\ r.offset = o.offset /\ r.streamed = o.streamed
  BY <1>1 DEF CommandRow
<1>3. /\ command' = [command EXCEPT ![c] = r] /\ holder' \in Command \union {NoCommand}
      /\ UNCHANGED <<shell, bufferVars, restarts, socket>> /\ mayRestart' \in BOOLEAN
  BY <1>1, TerminalRows DEF EndCommand, CommandRow
<1> HIDE DEF r
<1>4. StreamOk(r)
  BY <1>1, <1>2, CommandGoesOn
<1> QED BY <1>2, <1>3, <1>4, CommandMoves

(* What a command streams follows all it streamed, while its window fills. *)
LEMMA StreamKeeps == ASSUME TerminalInv, NEW c \in Command, StreamCommand(c) PROVE TerminalInv'
<1> DEFINE o == command[c]
           l == Len(Tail50k)
           e == EndOffset
           t == SubSeq(Tail50k, o.offset + 1, l)
           r == [o EXCEPT !.streamed = @ \o t, !.offset = l]
           b == (e - l) + o.offset
<1>1. /\ o \in CommandRow /\ o.pc # "new" /\ StreamOk(o) /\ TerminalTypeOK /\ BufferInv
      /\ l > o.offset /\ mayRestart \in BOOLEAN /\ holder \in Command \union {NoCommand}
  BY TerminalRows DEF TerminalInv, TerminalTypeOK, StreamCommand
<1>2. /\ o.offset \in Nat /\ o.start \in Nat /\ o.streamed \in Seq(Nat) /\ e \in Nat /\ Window \in Nat
  BY <1>1, TerminalRows DEF CommandRow
<1>3. /\ Tail50k \in Seq(Nat) /\ l \in Nat /\ l <= Window /\ (l < Window => e = l) /\ l <= e
      /\ \A i \in 1..l : Tail50k[i] = (e - l) + i
  BY <1>1, TailRun
<1>4. o.offset + 1 \in 1..l + 1 /\ b \in Nat /\ o.offset <= b /\ o.offset < Window
  <2> HIDE DEF l, e, o
  <2> QED BY <1>1, <1>2, <1>3
<1>5. /\ t \in Seq(Nat) /\ Len(t) = l - (o.offset + 1) + 1
      /\ \A i \in 1..Len(t) : t[i] = Tail50k[(o.offset + 1) + i - 1]
  BY <1>3, <1>4, PieceOf
<1>6. command' = [command EXCEPT ![c] = r]
      /\ UNCHANGED <<shell, bufferVars, mayRestart, restarts, socket, holder>>
  BY TerminalRows DEF StreamCommand, Beyond, CommandRow
<1>7. /\ r \in CommandRow /\ r.pc = o.pc /\ r.start = o.start
      /\ r.offset = l /\ r.streamed = o.streamed \o t
  <2> HIDE DEF t, l, o
  <2>1. o.streamed \o t \in Seq(Nat)
    BY <1>2, <1>5
  <2> QED BY <1>1, <1>3, <2>1 DEF CommandRow
<1> HIDE DEF r, t, l, e, o
<1>8. Len(t) \in Nat /\ b + Len(t) = e /\ \A i \in 1..Len(t) : t[i] = b + i
  <2>1. Len(t) \in Nat /\ Len(t) = l - o.offset
    BY <1>1, <1>2, <1>3, <1>5
  <2>2. b + Len(t) = e
    BY <1>2, <1>3, <2>1
  <2>3. ASSUME NEW i \in 1..Len(t) PROVE t[i] = b + i
    <3>3. i \in Nat /\ i >= 1 /\ i <= l - o.offset
      BY <2>1
    <3> DEFINE u == o.offset
    <3>4. u \in Nat /\ l \in Nat /\ i <= l - u
      BY <1>2, <1>3, <3>3
    <3> HIDE DEF u
    <3>5. (u + 1) + i - 1 = u + i /\ u + i \in 1..l
      BY <3>3, <3>4
    <3>1. (o.offset + 1) + i - 1 = o.offset + i /\ o.offset + i \in 1..l
      BY <3>5 DEF u
    <3>2. t[i] = (e - l) + (o.offset + i)
      BY <1>3, <1>5, <3>1
    <3> QED BY <1>2, <1>3, <3>2
  <2> QED BY <2>1, <2>2, <2>3
<1> HIDE DEF b
<1>9. Increasing(t) /\ Items(t) = b + 1 .. e
  BY <1>4, <1>5, <1>8, RunOf
<1>10. /\ Increasing(o.streamed) /\ (\A n \in Items(o.streamed) : n > o.start /\ n <= o.offset)
       /\ o.start <= o.offset
  BY <1>1, <1>4 DEF StreamOk
<1>11. \A n \in Items(t) : n > o.offset /\ n > o.start /\ n <= e
  BY <1>2, <1>4, <1>9, <1>10
<1>12. Increasing(r.streamed) /\ Items(r.streamed) = Items(o.streamed) \union Items(t)
  BY <1>2, <1>5, <1>7, <1>9, <1>10, <1>11, IncreasingJoined
<1>13. \A n \in Items(r.streamed) : n > r.start
  BY <1>7, <1>10, <1>11, <1>12
<1>14. l < Window => r.start <= l /\ \A n \in Items(r.streamed) : n <= l
  <2> SUFFICES ASSUME l < Window PROVE r.start <= l /\ \A n \in Items(r.streamed) : n <= l
    OBVIOUS
  <2>1. e = l
    BY <1>3
  <2>2. r.start <= l
    BY <1>1, <1>2, <1>3, <1>7, <1>10
  <2>3. ASSUME NEW n \in Items(o.streamed) PROVE n <= l
    <3>1. n \in Nat /\ n <= o.offset
      BY <1>2, <1>10 DEF Items
    <3> QED BY <1>1, <1>2, <1>3, <3>1
  <2> QED BY <1>11, <1>12, <2>1, <2>2, <2>3
<1>15. StreamOk(r)
  BY <1>1, <1>7, <1>12, <1>13, <1>14 DEF StreamOk
<1>16. mayRestart' \in BOOLEAN /\ holder' \in Command \union {NoCommand}
  BY <1>1, <1>6
<1> QED BY <1>6, <1>7, <1>15, <1>16, CommandMoves

(* The shell writes, ends and comes back; nothing else of it shows here. *)
LEMMA ShellKeeps ==
    ASSUME TerminalInv, shell' \in {"up", "down", "gone"}, mayRestart' \in BOOLEAN, restarts' \in Nat,
           AppendOutput \/ UNCHANGED bufferVars, UNCHANGED <<socket, command, holder>>
    PROVE  TerminalInv'
<1>2. /\ output' \in Seq(Nat) /\ base' \in Nat /\ written' \in Nat /\ BufferInv'
      /\ base <= base' /\ written <= written'
  <2>1. CASE AppendOutput
    <3>1. output' \in Seq(Nat) /\ base' \in Nat /\ written' \in Nat /\ BufferInv' /\ base' >= base
          /\ written' = written + 1
      BY <2>1, AppendKeeps DEF TerminalInv
    <3> QED BY <3>1, TerminalRows
  <2>2. CASE UNCHANGED bufferVars
    <3>1. UNCHANGED <<output, base, written>>
      BY <2>2 DEF bufferVars
    <3> QED BY <3>1, TerminalRows DEF TerminalInv, BufferInv
  <2> QED BY <2>1, <2>2
<1>3. TerminalTypeOK'
  BY <1>2 DEF TerminalInv, TerminalTypeOK
<1>4. \A q \in Socket : SocketOk(socket[q], base, written)'
  <2> SUFFICES ASSUME NEW q \in Socket PROVE SocketOk(socket[q], base', written')
    OBVIOUS
  <2>1. SocketOk(socket[q], base, written) /\ socket[q] \in SocketRow
    BY TerminalRows DEF TerminalInv
  <2> QED BY <1>2, <2>1, TerminalRows, SocketStands
<1>5. \A d \in Command : StreamOk(command[d])'
  BY DEF TerminalInv
<1> QED BY <1>2, <1>3, <1>4, <1>5 DEF TerminalInv

(* Every step keeps the invariant. *)
LEMMA TerminalStepHolds == TerminalInv /\ [TerminalNext]_terminalVars => TerminalInv'
<1> SUFFICES ASSUME TerminalInv, [TerminalNext]_terminalVars PROVE TerminalInv'
  OBVIOUS
<1>1. mayRestart \in BOOLEAN /\ shell \in {"up", "down", "gone"} /\ restarts \in Nat /\ restarts + 1 \in Nat
  BY DEF TerminalInv, TerminalTypeOK
<1>2. CASE UNCHANGED terminalVars
  BY <1>1, <1>2, ShellKeeps DEF terminalVars, bufferVars
<1>3. CASE ShellWrites
  BY <1>1, <1>3, ShellKeeps DEF ShellWrites
<1>4. CASE CtrlC
  BY <1>1, <1>4, ShellKeeps DEF CtrlC
<1>5. CASE WindowCloses
  BY <1>1, <1>5, ShellKeeps DEF WindowCloses
<1>6. CASE ShellExits
  BY <1>1, <1>6, ShellKeeps DEF ShellExits
<1>7. CASE ShellRecovers
  BY <1>1, <1>7, ShellKeeps DEF ShellRecovers
<1>8. CASE ShellStaysDown
  BY <1>1, <1>8, ShellKeeps DEF ShellStaysDown
<1>9. CASE CloseTerminal
  BY <1>1, <1>9, ShellKeeps DEF CloseTerminal
<1>10. CASE \E s \in Socket : OpenSocket(s) \/ ReadSocket(s) \/ CheckSocket(s)
  BY <1>10, OpenKeeps, ReadKeeps, CheckKeeps
<1>11. CASE \E c \in Command : \/ StartCommand(c) \/ LockCommand(c) \/ MarkerWritten(c)
                                \/ EndCommand(c) \/ StreamCommand(c)
  BY <1>11, StartKeeps, LockKeeps, MarkerKeeps, EndKeeps, StreamKeeps
<1> QED BY <1>2, <1>3, <1>4, <1>5, <1>6, <1>7, <1>8, <1>9, <1>10, <1>11 DEF TerminalNext

(* The invariant of a terminal session. *)
THEOREM TerminalInvariance == TerminalSpec => []TerminalInv
BY TerminalInitHolds, TerminalStepHolds, PTL DEF TerminalSpec

(* What the invariant of a terminal says. *)
LEMMA TerminalImplies == TerminalInv => TerminalStreams
BY DEF TerminalInv, SocketOk, StreamOk, TerminalStreams, SocketIsGapless, StreamRepeatsNothing

(* A websocket sends every item from its first on, once and in order, except
   items trimmed before it read them, and a streamed command repeats nothing
   and shows nothing older than itself (session.py read_since, _append). *)
THEOREM StreamsAreGapless == TerminalSpec => []TerminalStreams
BY TerminalImplies, TerminalInvariance, PTL

(***************************************************************************)
(* The extensions of a run.                                                *)
(***************************************************************************)

(* The path of the visit: each extension on it is needed by the one before,
   the first by the profile, and none of them is finished. *)
PathInv ==
    /\ \A i, j \in DOMAIN path : path[i] = path[j] => i = j
    /\ \A i \in DOMAIN path : i > 1 => path[i] \in requires[path[i - 1]]
    /\ path # <<>> => path[1] \in profile
    /\ Members(path) \intersect Members(ordered) = {}

(* An extension comes once, after all it requires, and only if it is needed. *)
OrderInv ==
    /\ \A i, j \in DOMAIN ordered : ordered[i] = ordered[j] => i = j
    /\ \A i \in DOMAIN ordered : \A e \in requires[ordered[i]] :
           \E j \in DOMAIN ordered : j < i /\ ordered[j] = e
    /\ \A set \in SUBSET Extension : profile \subseteq set /\ Closed(set) =>
           Members(ordered) \union Members(path) \subseteq set
    /\ stage \in {"activate", "running"} => profile \subseteq Members(ordered)

(* The active extensions are the first ones of the order. *)
ActiveInv ==
    /\ Len(active) <= Len(ordered) /\ \A i \in DOMAIN active : active[i] = ordered[i]
    /\ CyclesOnly /\ FailureCloses

ExtensionsInv == ExtensionsTypeOK /\ PathInv /\ OrderInv /\ ActiveInv

(* A sequence with one more member. *)
LEMMA OneMore ==
    ASSUME NEW S, NEW s \in Seq(S), NEW x \in S
    PROVE  LET t == Append(s, x)
           IN  /\ t \in Seq(S) /\ Len(t) = Len(s) + 1 /\ DOMAIN t = 1..Len(s) + 1
               /\ t[Len(s) + 1] = x /\ (\A i \in DOMAIN s : t[i] = s[i])
               /\ Members(t) = Members(s) \union {x} /\ DOMAIN s = 1..Len(s) /\ Len(s) \in Nat
<1> DEFINE t == Append(s, x)
           n == Len(s)
<1>1. /\ t \in Seq(S) /\ Len(t) = n + 1 /\ DOMAIN t = 1..n + 1 /\ n \in Nat
      /\ t[n + 1] = x /\ (\A i \in 1..n : t[i] = s[i]) /\ DOMAIN s = 1..n
  OBVIOUS
<1> HIDE DEF t, n
<1>2. \A i \in 1..n + 1 : i \in 1..n \/ i = n + 1
  BY <1>1
<1>3. (\A i \in 1..n : i \in 1..n + 1) /\ n + 1 \in 1..n + 1
  BY <1>1
<1>4. Members(t) = Members(s) \union {x}
  BY <1>1, <1>2, <1>3 DEF Members
<1> QED BY <1>1, <1>4 DEF t, n

(* A sequence without its last member. *)
LEMMA OneLess ==
    ASSUME NEW S, NEW s \in Seq(S), s # <<>>
    PROVE  LET t == SubSeq(s, 1, Len(s) - 1)
           IN  /\ t \in Seq(S) /\ Len(t) = Len(s) - 1 /\ DOMAIN t = 1..Len(s) - 1
               /\ (\A i \in DOMAIN t : i \in DOMAIN s /\ t[i] = s[i])
               /\ Members(s) = Members(t) \union {s[Len(s)]} /\ s[Len(s)] \in S
               /\ DOMAIN s = 1..Len(s) /\ Len(s) \in Nat /\ Len(s) > 0 /\ Len(s) \in DOMAIN s
<1> DEFINE n == Len(s)
           t == SubSeq(s, 1, n - 1)
<1>1. n \in Nat /\ n > 0 /\ DOMAIN s = 1..n /\ n \in 1..n /\ (\A i \in 1..n : s[i] \in S)
  OBVIOUS
<1>2. \A i \in 1..n - 1 : i \in 1..n /\ s[i] \in S
  <2> HIDE DEF n
  <2> QED BY <1>1
<1>3. /\ t \in Seq(S) /\ Len(t) = n - 1 /\ DOMAIN t = 1..n - 1
      /\ \A i \in 1..n - 1 : t[i] = s[i]
  BY <1>1, <1>2
<1> HIDE DEF n, t
<1>4. \A i \in 1..n : i \in 1..n - 1 \/ i = n
  BY <1>1
<1>5. Members(s) = Members(t) \union {s[n]}
  BY <1>1, <1>2, <1>3, <1>4 DEF Members
<1> QED BY <1>1, <1>2, <1>3, <1>5 DEF n, t

(* At the start. *)
LEMMA ExtensionsInitHolds == ExtensionsInit => ExtensionsInv
<1> SUFFICES ASSUME ExtensionsInit PROVE ExtensionsInv
  OBVIOUS
<1>1. <<>> \in Seq(Extension) /\ Len(<<>>) = 0 /\ DOMAIN <<>> = {} /\ Members(<<>>) = {}
  BY DEF Members
<1>2. ExtensionsTypeOK
  BY <1>1 DEF ExtensionsInit, ExtensionsTypeOK
<1>3. PathInv
  BY <1>1 DEF ExtensionsInit, PathInv
<1>4. OrderInv
  BY <1>1 DEF ExtensionsInit, OrderInv
<1>5. ActiveInv
  <2>1. active = <<>> /\ ordered = <<>> /\ cause = "" /\ stage = "resolve"
    BY DEF ExtensionsInit
  <2>2. CyclesOnly /\ FailureCloses
    BY <2>1 DEF CyclesOnly, FailureCloses
  <2>4. DOMAIN active = {} /\ Len(active) = 0 /\ Len(ordered) = 0
    BY <1>1, <2>1, Zenon
  <2>3. DOMAIN active = {} /\ Len(active) <= Len(ordered)
    BY <2>4
  <2> QED BY <2>2, <2>3 DEF ActiveInv
<1> QED BY <1>2, <1>3, <1>4, <1>5 DEF ExtensionsInv

(* What is pending is needed. *)
LEMMA PendingIsNeeded ==
    ASSUME ExtensionsInv
    PROVE  /\ Pending \subseteq Extension
           /\ \A set \in SUBSET Extension : profile \subseteq set /\ Closed(set) => Pending \subseteq set
<1>1. path = <<>> => Pending = profile
  BY DEF Pending
<1>2. path # <<>> => Pending = requires[path[Len(path)]] /\ path[Len(path)] \in Members(path)
                     /\ path[Len(path)] \in Extension
  <2>1. path # <<>> => Len(path) \in DOMAIN path /\ path[Len(path)] \in Extension
    BY OneLess DEF ExtensionsInv, ExtensionsTypeOK
  <2> QED BY <2>1 DEF Pending, Members
<1>3. Pending \subseteq Extension
  BY <1>1, <1>2 DEF ExtensionsInv, ExtensionsTypeOK
<1>4. ASSUME NEW set \in SUBSET Extension, profile \subseteq set, Closed(set)
      PROVE  Pending \subseteq set
  <2>1. Members(path) \subseteq set
    BY <1>4 DEF ExtensionsInv, OrderInv
  <2> QED BY <1>1, <1>2, <1>4, <2>1 DEF Closed
<1> QED BY <1>3, <1>4

(* A dependency that is being visited closes a cycle of manifests. *)
LEMMA BackOnPath ==
    ASSUME ExtensionsInv, NEW e \in Pending, e \in Members(path)
    PROVE  HasCycle
<1>1. path \in Seq(Extension) /\ requires \in [Extension -> SUBSET Extension]
  BY DEF ExtensionsInv, ExtensionsTypeOK
<1>2. PICK k \in DOMAIN path : path[k] = e
  BY DEF Members
<1>3. path # <<>>
  BY <1>2
<1> DEFINE n == Len(path)
           set == {path[i] : i \in k..n}
<1>4. n \in Nat /\ n > 0 /\ DOMAIN path = 1..n /\ k \in 1..n /\ \A i \in 1..n : path[i] \in Extension
  BY <1>1, <1>2, <1>3
<1> HIDE DEF n
<1>5. e \in requires[path[n]]
  BY <1>3 DEF Pending, n
<1>6. \A i \in k..n : i \in 1..n
  BY <1>4
<1>7. set \in SUBSET Extension /\ e \in set
  <2>1. k \in k..n
    BY <1>4
  <2> QED BY <1>2, <1>4, <1>6, <2>1
<1>8. \A x \in set : requires[x] \intersect set # {}
  <2> SUFFICES ASSUME NEW i \in k..n PROVE requires[path[i]] \intersect set # {}
    OBVIOUS
  <2>1. CASE i = n
    BY <1>5, <1>7, <2>1
  <2>2. CASE i # n
    <3>1. i + 1 \in k..n /\ i + 1 \in 1..n /\ i + 1 > 1 /\ (i + 1) - 1 = i
      BY <1>4, <2>2
    <3>2. path[i + 1] \in requires[path[(i + 1) - 1]]
      BY <1>4, <3>1 DEF ExtensionsInv, PathInv
    <3>3. path[i + 1] \in set
      BY <3>1
    <3> QED BY <3>1, <3>2, <3>3
  <2> QED BY <2>1, <2>2
<1> HIDE DEF set
<1>9. set \in (SUBSET Extension) \ {{}}
  BY <1>7
<1> QED BY <1>8, <1>9 DEF HasCycle

(* The steps of the visit. *)
LEMMA VisitKeeps == ASSUME ExtensionsInv, NEW e \in Extension, VisitExtension(e) PROVE ExtensionsInv'
<1>1. /\ stage = "resolve" /\ e \in Pending /\ e \notin Members(ordered)
      /\ UNCHANGED <<requires, profile, ordered, active, owner>>
  BY DEF VisitExtension, manifests
<1>2. CASE e \in Members(path)
  <2>1. stage' = "failed" /\ cause' = "cycle" /\ UNCHANGED path
    BY <1>2 DEF VisitExtension
  <2>2. HasCycle'
    BY <1>1, <1>2, BackOnPath DEF HasCycle
  <2>3. ExtensionsTypeOK' /\ PathInv' /\ OrderInv'
    BY <1>1, <2>1 DEF ExtensionsInv, ExtensionsTypeOK, PathInv, OrderInv, Closed
  <2>4. ActiveInv'
    BY <1>1, <2>1, <2>2 DEF ExtensionsInv, ActiveInv, CyclesOnly, FailureCloses
  <2> QED BY <2>3, <2>4 DEF ExtensionsInv
<1>3. CASE e \notin Members(path)
  <2>1. path' = Append(path, e) /\ UNCHANGED <<stage, cause>>
    BY <1>3 DEF VisitExtension
  <2> DEFINE n == Len(path)
  <2>2. /\ path' \in Seq(Extension) /\ DOMAIN path' = 1..n + 1 /\ n \in Nat /\ DOMAIN path = 1..n
        /\ path'[n + 1] = e /\ (\A i \in 1..n : path'[i] = path[i])
        /\ Members(path') = Members(path) \union {e} /\ path' # <<>>
    <3>1. path \in Seq(Extension)
      BY DEF ExtensionsInv, ExtensionsTypeOK
    <3>2. /\ path' \in Seq(Extension) /\ DOMAIN path' = 1..n + 1 /\ n \in Nat /\ DOMAIN path = 1..n
          /\ path'[n + 1] = e /\ (\A i \in DOMAIN path : path'[i] = path[i])
          /\ Members(path') = Members(path) \union {e} /\ Len(path') = n + 1
      BY <2>1, <3>1, OneMore
    <3>3. path' # <<>>
      BY <3>2
    <3> QED BY <3>2, <3>3
  <2>3. n = 0 => path = <<>>
    BY DEF ExtensionsInv, ExtensionsTypeOK
  <2>9. n > 0 => path # <<>> /\ e \in requires[path[n]]
    BY <1>1 DEF Pending
  <2>10. path = <<>> => n = 0
    OBVIOUS
  <2> HIDE DEF n
  <2>4. ExtensionsTypeOK'
    BY <1>1, <2>1, <2>2 DEF ExtensionsInv, ExtensionsTypeOK
  <2>5. PathInv'
    <3>1. \A i, j \in 1..n + 1 : path'[i] = path'[j] => i = j
      <4> SUFFICES ASSUME NEW i \in 1..n + 1, NEW j \in 1..n + 1, path'[i] = path'[j] PROVE i = j
        OBVIOUS
      <4>1. \A m \in 1..n : path[m] \in Members(path)
        BY <2>2 DEF Members
      <4>2. \A m \in 1..n : path'[m] # e
        BY <1>3, <2>2, <4>1
      <4>3. (i \in 1..n \/ i = n + 1) /\ (j \in 1..n \/ j = n + 1)
        BY <2>2
      <4>4. CASE i \in 1..n /\ j \in 1..n
        BY <2>2, <4>4 DEF ExtensionsInv, PathInv
      <4> QED BY <2>2, <4>2, <4>3, <4>4
    <3>2. ASSUME NEW i \in 1..n + 1, i > 1 PROVE path'[i] \in requires[path'[i - 1]]
      <4>1. i - 1 \in 1..n
        BY <2>2, <3>2
      <4>2. CASE i = n + 1
        <5>1. i - 1 = n /\ n > 0
          BY <2>2, <3>2, <4>2
        <5> QED BY <2>2, <2>9, <4>1, <4>2, <5>1
      <4>3. CASE i # n + 1
        <5>1. i \in 1..n
          BY <2>2, <4>3
        <5> QED BY <2>2, <3>2, <4>1, <5>1 DEF ExtensionsInv, PathInv
      <4> QED BY <4>2, <4>3
    <3>3. path'[1] \in profile
      <4>1. CASE n = 0
        <5>1. path'[1] = e /\ Pending = profile
          BY <2>2, <2>3, <4>1 DEF Pending
        <5> QED BY <1>1, <5>1
      <4>2. CASE n # 0
        <5>1. 1 \in 1..n /\ path # <<>>
          BY <2>2, <2>9, <4>2
        <5> QED BY <2>2, <5>1 DEF ExtensionsInv, PathInv
      <4> QED BY <4>1, <4>2
    <3>4. Members(path') \intersect Members(ordered) = {}
      BY <1>1, <2>2 DEF ExtensionsInv, PathInv
    <3>5. Members(ordered)' = Members(ordered) /\ Members(path)' = Members(path')
      BY <1>1 DEF Members
    <3> QED BY <1>1, <2>2, <3>1, <3>2, <3>3, <3>4, <3>5 DEF PathInv
  <2>6. OrderInv'
    <3>1. \A set \in SUBSET Extension : profile \subseteq set /\ Closed(set) => e \in set
      BY <1>1, PendingIsNeeded
    <3>2. Members(ordered)' = Members(ordered) /\ Members(path)' = Members(path) \union {e}
      BY <1>1, <2>2 DEF Members
    <3> QED BY <1>1, <2>1, <3>1, <3>2 DEF ExtensionsInv, OrderInv, Closed
  <2>7. ActiveInv'
    BY <1>1, <2>1 DEF ExtensionsInv, ActiveInv, CyclesOnly, HasCycle, FailureCloses
  <2> QED BY <2>4, <2>5, <2>6, <2>7 DEF ExtensionsInv
<1> QED BY <1>2, <1>3

(* An extension whose dependencies are all finished is finished. *)
LEMMA VisitedKeeps == ASSUME ExtensionsInv, Visited PROVE ExtensionsInv'
<1> DEFINE n == Len(path)
           k == Len(ordered)
           x == path[n]
<1>1. /\ stage = "resolve" /\ path # <<>> /\ Pending \subseteq Members(ordered)
      /\ ordered' = Append(ordered, x) /\ path' = SubSeq(path, 1, n - 1)
      /\ UNCHANGED <<requires, profile, stage, active, owner, cause>>
  BY DEF Visited, manifests
<1>2. path \in Seq(Extension) /\ ordered \in Seq(Extension)
  BY DEF ExtensionsInv, ExtensionsTypeOK
<1>3. /\ path' \in Seq(Extension) /\ DOMAIN path' = 1..n - 1 /\ DOMAIN path = 1..n
      /\ (\A i \in 1..n - 1 : i \in 1..n /\ path'[i] = path[i]) /\ n \in Nat /\ n > 0 /\ n \in 1..n
      /\ Members(path) = Members(path') \union {x} /\ x \in Extension
  BY <1>1, <1>2, OneLess
<1>4. /\ ordered' \in Seq(Extension) /\ DOMAIN ordered' = 1..k + 1 /\ k \in Nat /\ DOMAIN ordered = 1..k
      /\ ordered'[k + 1] = x /\ (\A i \in 1..k : ordered'[i] = ordered[i])
      /\ Members(ordered') = Members(ordered) \union {x} /\ Len(ordered') = k + 1
  BY <1>1, <1>2, <1>3, OneMore
<1>5. requires[x] = Pending
  BY <1>1 DEF Pending
<1>6. x \in Members(path) /\ x \notin Members(ordered)
  BY <1>3 DEF ExtensionsInv, PathInv
<1> HIDE DEF n, k, x
<1>7. ExtensionsTypeOK'
  BY <1>1, <1>3, <1>4 DEF ExtensionsInv, ExtensionsTypeOK
<1>8. x \notin Members(path')
  <2> SUFFICES ASSUME NEW i \in 1..n - 1 PROVE path'[i] # x
    BY <1>3 DEF Members
  <2>1. i \in 1..n /\ i # n /\ path'[i] = path[i]
    BY <1>3
  <2> QED BY <1>3, <2>1 DEF ExtensionsInv, PathInv, x
<1>9. PathInv'
  <2>1. \A i, j \in 1..n - 1 : path'[i] = path'[j] => i = j
    BY <1>3 DEF ExtensionsInv, PathInv
  <2>2. ASSUME NEW i \in 1..n - 1, i > 1 PROVE path'[i] \in requires[path'[i - 1]]
    <3>1. i - 1 \in 1..n - 1
      BY <1>3, <2>2
    <3>2. path[i] \in requires[path[i - 1]]
      BY <1>3, <2>2 DEF ExtensionsInv, PathInv
    <3> QED BY <1>3, <3>1, <3>2
  <2>3. ASSUME path' # <<>> PROVE path'[1] \in profile
    <3>1. 1 \in 1..n - 1
      BY <1>3, <2>3
    <3> QED BY <1>1, <1>3, <3>1 DEF ExtensionsInv, PathInv
  <2>4. Members(path') \intersect Members(ordered') = {}
    BY <1>3, <1>4, <1>8 DEF ExtensionsInv, PathInv
  <2>5. Members(ordered)' = Members(ordered') /\ Members(path)' = Members(path')
    BY DEF Members
  <2> QED BY <1>1, <1>3, <2>1, <2>2, <2>3, <2>4, <2>5 DEF PathInv
<1>10. OrderInv'
  <2>1. ASSUME NEW i \in 1..k + 1, NEW j \in 1..k + 1, ordered'[i] = ordered'[j] PROVE i = j
    <3>1. \A m \in 1..k : ordered[m] \in Members(ordered)
      BY <1>4 DEF Members
    <3>2. (i \in 1..k \/ i = k + 1) /\ (j \in 1..k \/ j = k + 1)
      BY <1>4
    <3>3. CASE i \in 1..k /\ j \in 1..k
      BY <1>4, <2>1, <3>3 DEF ExtensionsInv, OrderInv
    <3> QED BY <1>4, <1>6, <2>1, <3>1, <3>2, <3>3
  <2>2. ASSUME NEW i \in 1..k + 1, NEW e \in requires[ordered'[i]]
        PROVE  \E j \in 1..k + 1 : j < i /\ ordered'[j] = e
    <3>1. CASE i = k + 1
      <4>1. e \in Members(ordered)
        BY <1>1, <1>4, <1>5, <2>2, <3>1
      <4>2. PICK j \in 1..k : ordered[j] = e
        BY <1>4, <4>1 DEF Members
      <4>3. j \in 1..k + 1 /\ j < i
        BY <1>4, <3>1
      <4> QED BY <1>4, <4>2, <4>3
    <3>2. CASE i # k + 1
      <4>1. i \in 1..k
        BY <1>4, <3>2
      <4>2. e \in requires[ordered[i]]
        BY <1>4, <2>2, <4>1
      <4>3. PICK j \in 1..k : j < i /\ ordered[j] = e
        BY <1>4, <4>1, <4>2 DEF ExtensionsInv, OrderInv
      <4>4. j \in 1..k + 1
        BY <1>4
      <4> QED BY <1>4, <4>3, <4>4
    <3> QED BY <3>1, <3>2
  <2>3. Members(ordered)' = Members(ordered') /\ Members(path)' = Members(path')
    BY DEF Members
  <2>4. Members(ordered') \union Members(path') = Members(ordered) \union Members(path)
    BY <1>3, <1>4
  <2>5. \A set \in SUBSET Extension : profile \subseteq set /\ Closed(set) =>
            Members(ordered') \union Members(path') \subseteq set
    BY <2>4 DEF ExtensionsInv, OrderInv
  <2>6. \A set \in SUBSET Extension : profile' \subseteq set /\ Closed(set)' =>
            Members(ordered)' \union Members(path)' \subseteq set
    BY <1>1, <2>3, <2>5 DEF Closed
  <2>7. \A i, j \in DOMAIN ordered' : ordered'[i] = ordered'[j] => i = j
    BY <1>4, <2>1
  <2>8. \A i \in DOMAIN ordered' : \A e \in requires'[ordered'[i]] :
            \E j \in DOMAIN ordered' : j < i /\ ordered'[j] = e
    <3> SUFFICES ASSUME NEW i \in DOMAIN ordered', NEW e \in requires'[ordered'[i]]
                 PROVE  \E j \in DOMAIN ordered' : j < i /\ ordered'[j] = e
      OBVIOUS
    <3>1. i \in 1..k + 1 /\ e \in requires[ordered'[i]]
      BY <1>1, <1>4
    <3>2. \E j \in 1..k + 1 : j < i /\ ordered'[j] = e
      BY <2>2, <3>1
    <3> QED BY <1>4, <3>2
  <2>9. stage' \notin {"activate", "running"}
    BY <1>1
  <2> QED BY <2>6, <2>7, <2>8, <2>9 DEF OrderInv
<1>11. ActiveInv'
  <2>1. active \in Seq(Extension) /\ Len(active) <= k /\ \A i \in DOMAIN active : active[i] = ordered[i]
    BY DEF ExtensionsInv, ActiveInv, ExtensionsTypeOK, k
  <2>2. Len(active) \in Nat /\ DOMAIN active = 1..Len(active)
    BY <2>1
  <2>3. Len(active) <= k + 1 /\ \A i \in DOMAIN active : i \in 1..k
    BY <1>4, <2>1, <2>2
  <2>4. Len(active') <= Len(ordered') /\ \A i \in DOMAIN active' : active'[i] = ordered'[i]
    BY <1>1, <1>4, <2>1, <2>3
  <2> QED BY <1>1, <2>4 DEF ExtensionsInv, ActiveInv, CyclesOnly, HasCycle, FailureCloses
<1> QED BY <1>7, <1>9, <1>10, <1>11 DEF ExtensionsInv

(* The steps that change neither the visit nor the order. *)
LEMMA ActivationKeeps ==
    ASSUME ExtensionsInv, UNCHANGED <<requires, profile, path, ordered>>,
           stage' \in {"resolve", "activate", "running", "closing", "failed"},
           stage' \in {"activate", "running"} =>
               stage \in {"activate", "running"} \/ (path = <<>> /\ Pending \subseteq Members(ordered)),
           active' \in Seq(Extension), Len(active') <= Len(ordered),
           \A i \in DOMAIN active' : active'[i] = ordered[i],
           DOMAIN owner' \subseteq Tools, \A t \in DOMAIN owner' : owner'[t] \in Extension,
           cause' # "cycle" \/ cause' = cause,
           stage' = "failed" /\ cause' \in {"raised", "permission"} => active' = <<>>
    PROVE  ExtensionsInv'
<1>1. ExtensionsTypeOK'
  BY DEF ExtensionsInv, ExtensionsTypeOK
<1>2. PathInv'
  BY DEF ExtensionsInv, PathInv, Members
<1>3. OrderInv'
  <2>1. stage' \in {"activate", "running"} => profile \subseteq Members(ordered)
    BY DEF ExtensionsInv, OrderInv, Pending
  <2>2. Members(ordered)' = Members(ordered) /\ Members(path)' = Members(path)
    BY DEF Members
  <2> QED BY <2>1, <2>2 DEF ExtensionsInv, OrderInv, Closed
<1>4. ActiveInv'
  <2>1. HasCycle' <=> HasCycle
    BY DEF HasCycle
  <2> QED BY <2>1 DEF ExtensionsInv, ActiveInv, CyclesOnly, FailureCloses
<1> QED BY <1>1, <1>2, <1>3, <1>4 DEF ExtensionsInv

(* Every step keeps the invariant. *)
LEMMA ExtensionsStepHolds == ExtensionsInv /\ [ExtensionsNext]_extensionVars => ExtensionsInv'
<1> SUFFICES ASSUME ExtensionsInv, [ExtensionsNext]_extensionVars PROVE ExtensionsInv'
  OBVIOUS
<1>1. /\ active \in Seq(Extension) /\ Len(active) <= Len(ordered) /\ ordered \in Seq(Extension)
      /\ (\A i \in DOMAIN active : active[i] = ordered[i])
      /\ DOMAIN owner \subseteq Tools /\ (\A t \in DOMAIN owner : owner[t] \in Extension)
      /\ stage \in {"resolve", "activate", "running", "closing", "failed"}
      /\ (stage = "failed" /\ cause \in {"raised", "permission"} => active = <<>>)
  BY DEF ExtensionsInv, ExtensionsTypeOK, ActiveInv, FailureCloses
<1>2. ASSUME stage = "activate", Len(active) < Len(ordered)
      PROVE  LET more == Append(active, NextUp)
             IN  /\ more \in Seq(Extension) /\ Len(more) <= Len(ordered) /\ NextUp \in Extension
                 /\ \A i \in DOMAIN more : more[i] = ordered[i]
  <2> DEFINE n == Len(active)
             more == Append(active, NextUp)
  <2>1. n \in Nat /\ Len(ordered) \in Nat /\ DOMAIN ordered = 1..Len(ordered)
    BY <1>1
  <2>2. n + 1 \in DOMAIN ordered
    BY <1>2, <2>1
  <2>3. NextUp = ordered[n + 1] /\ NextUp \in Extension
    BY <1>1, <2>2 DEF NextUp
  <2>4. /\ more \in Seq(Extension) /\ Len(more) = n + 1 /\ DOMAIN more = 1..n + 1
        /\ more[n + 1] = NextUp /\ (\A i \in 1..n : more[i] = active[i]) /\ DOMAIN active = 1..n
    BY <1>1, <2>3, OneMore
  <2> HIDE DEF more, n
  <2>5. \A i \in DOMAIN more : i \in 1..n \/ i = n + 1
    BY <2>1, <2>4
  <2>6. \A i \in DOMAIN more : more[i] = ordered[i]
    BY <1>1, <2>3, <2>4, <2>5
  <2>7. Len(more) <= Len(ordered)
    BY <1>2, <2>1, <2>4 DEF n
  <2> QED BY <2>3, <2>4, <2>6, <2>7 DEF more
<1>3. CASE UNCHANGED extensionVars
  BY <1>1, <1>3, ActivationKeeps DEF extensionVars
<1>4. CASE RefuseManifest
  BY <1>1, <1>4, ActivationKeeps DEF RefuseManifest, manifests
<1>5. CASE Visited
  BY <1>5, VisitedKeeps
<1>6. CASE Resolved
  BY <1>1, <1>6, ActivationKeeps DEF Resolved, manifests
<1>7. CASE Ready
  BY <1>1, <1>7, ActivationKeeps DEF Ready, manifests
<1>8. CASE Close
  BY <1>1, <1>8, ActivationKeeps DEF Close, manifests
<1>9. CASE \E e \in Extension : VisitExtension(e)
  BY <1>9, VisitKeeps
<1>10. ASSUME NEW brought \in SUBSET Tools, Activate(brought) PROVE ExtensionsInv'
  <2>1. /\ stage = "activate" /\ Len(active) < Len(ordered) /\ active' = Append(active, NextUp)
        /\ UNCHANGED <<requires, profile, path, ordered, stage, cause>>
        /\ owner' = [t \in brought \union DOMAIN owner |->
                        IF t \in DOMAIN owner THEN owner[t] ELSE NextUp]
    BY <1>10 DEF Activate, manifests
  <2>2. DOMAIN owner' \subseteq Tools /\ \A t \in DOMAIN owner' : owner'[t] \in Extension
    BY <1>1, <1>2, <2>1
  <2> QED BY <1>1, <1>2, <2>1, <2>2, ActivationKeeps
<1>11. ASSUME NEW why \in {"raised", "permission", "config", "cancelled"}, ActivateFails(why)
       PROVE  ExtensionsInv'
  <2>1. /\ stage = "activate" /\ Len(active) < Len(ordered) /\ cause' = why
        /\ active' = IF why = "permission" THEN Append(active, NextUp) ELSE active
        /\ stage' = IF why \in {"raised", "permission"} THEN "closing" ELSE "failed"
        /\ UNCHANGED <<requires, profile, path, ordered, owner>>
    BY <1>11 DEF ActivateFails, manifests
  <2> QED BY <1>1, <1>2, <2>1, ActivationKeeps
<1>12. ASSUME NEW ok \in BOOLEAN, Deactivate(ok) PROVE ExtensionsInv'
  <2>1. stage = "closing" /\ UNCHANGED <<requires, profile, path, ordered, owner>>
    BY <1>12 DEF Deactivate, manifests
  <2>2. CASE active = <<>>
    <3>1. stage' = "failed" /\ UNCHANGED <<active, cause>>
      BY <1>12, <2>2 DEF Deactivate
    <3> QED BY <1>1, <2>1, <2>2, <3>1, ActivationKeeps
  <2>3. CASE active # <<>>
    <3>1. /\ active' = SubSeq(active, 1, Len(active) - 1) /\ stage' = (IF ok THEN stage ELSE "failed")
          /\ cause' = IF ok THEN cause ELSE "deactivate"
      BY <1>12, <2>3 DEF Deactivate, LastOff
    <3>2. /\ active' \in Seq(Extension) /\ Len(active') = Len(active) - 1
          /\ \A i \in DOMAIN active' : i \in DOMAIN active /\ active'[i] = active[i]
      BY <1>1, <2>3, <3>1, OneLess
    <3>3. Len(active') <= Len(ordered)
      BY <1>1, <3>2
    <3>4. \A i \in DOMAIN active' : active'[i] = ordered[i]
      BY <1>1, <3>2
    <3> QED BY <1>1, <2>1, <3>1, <3>2, <3>3, <3>4, ActivationKeeps
  <2> QED BY <2>2, <2>3
<1> QED BY <1>3, <1>4, <1>5, <1>6, <1>7, <1>8, <1>9, <1>10, <1>11, <1>12 DEF ExtensionsNext

(* The invariant of the activation of extensions. *)
THEOREM ExtensionsInvariance == ExtensionsSpec => []ExtensionsInv
BY ExtensionsInitHolds, ExtensionsStepHolds, PTL DEF ExtensionsSpec

(* An order without repetitions has as many members as places. *)
LEMMA EachOnce ==
    ASSUME NEW S, NEW s \in Seq(S), \A i, j \in DOMAIN s : s[i] = s[j] => i = j
    PROVE  Cardinality(Members(s)) = Len(s)
<1>1. Len(s) \in Nat /\ DOMAIN s = 1..Len(s)
  OBVIOUS
<1> DEFINE f == [i \in 1..Len(s) |-> s[i]]
<1>2. f \in Bijection(1..Len(s), Members(s))
  BY <1>1 DEF Members, Bijection, Injection, Surjection, IsInjective
<1>3. ExistsBijection(1..Len(s), Members(s))
  BY <1>2 DEF ExistsBijection
<1> QED BY <1>1, <1>3, FS_CountingElements

(* What the invariant of the extensions says. *)
LEMMA ExtensionsImply == ExtensionsInv => ActivationSound
<1> SUFFICES ASSUME ExtensionsInv PROVE ActivationSound
  OBVIOUS
<1>1. /\ active \in Seq(Extension) /\ ordered \in Seq(Extension) /\ Len(active) <= Len(ordered)
      /\ requires \in [Extension -> SUBSET Extension]
  BY DEF ExtensionsInv, ExtensionsTypeOK, ActiveInv
<1>2. Len(active) \in Nat /\ DOMAIN active = 1..Len(active) /\ Len(ordered) \in Nat
      /\ DOMAIN ordered = 1..Len(ordered)
  BY <1>1
<1>3. NeedsAreActive
  <2> SUFFICES ASSUME NEW i \in DOMAIN active, NEW e \in requires[active[i]]
               PROVE  e \in Members(active)
    BY DEF NeedsAreActive, Members
  <2>1. i \in DOMAIN ordered /\ active[i] = ordered[i]
    BY <1>1, <1>2 DEF ExtensionsInv, ActiveInv
  <2>2. PICK j \in DOMAIN ordered : j < i /\ ordered[j] = e
    BY <2>1 DEF ExtensionsInv, OrderInv
  <2>3. j \in DOMAIN active
    BY <1>2, <2>2
  <2>4. active[j] = e
    BY <2>2, <2>3 DEF ExtensionsInv, ActiveInv
  <2> QED BY <2>3, <2>4 DEF Members
<1>4. ExactlyNeeded
  <2> SUFFICES ASSUME stage = "running" PROVE ExactlyNeeded
    BY DEF ExactlyNeeded
  <2>1. Cardinality(Members(ordered)) = Len(ordered)
    BY <1>1, EachOnce DEF ExtensionsInv, OrderInv
  <2>2. profile \subseteq Members(ordered)
    BY DEF ExtensionsInv, OrderInv
  <2>3. Closed(Members(ordered))
    <3> SUFFICES ASSUME NEW i \in DOMAIN ordered, NEW e \in requires[ordered[i]]
                 PROVE  e \in Members(ordered)
      BY DEF Closed, Members
    <3>1. \E j \in DOMAIN ordered : ordered[j] = e
      BY DEF ExtensionsInv, OrderInv
    <3> QED BY <3>1 DEF Members
  <2> QED BY <2>1, <2>2, <2>3 DEF ExactlyNeeded, ExtensionsInv, OrderInv
<1> QED BY <1>3, <1>4 DEF ActivationSound, ExtensionsInv, ActiveInv

(* An extension is only active together with all it requires, a run has
   exactly the extensions its profile needs, only a cycle is refused as one,
   and a failed activation leaves none active (extensions.py resolve,
   activate, close). *)
THEOREM ActivationIsSound == ExtensionsSpec => []ActivationSound
BY ExtensionsImply, ExtensionsInvariance, PTL

(***************************************************************************)
(* The conversations, their workspaces and their branch tree.              *)
(***************************************************************************)

(* The children of some conversations, and all that descends from them. *)
Children(set) == {c \in Conversation : Parent(c) \in set}
Below(top) == {c \in Conversation :
                  \A set \in SUBSET Conversation :
                      top \subseteq set /\ Children(set) \subseteq set => c \in set}

(* What descends from a conversation and its children descends from it. *)
LEMMA BelowGrows ==
    ASSUME NEW top \in SUBSET Conversation
    PROVE  /\ Below(top \union (Children(top) \ top)) = Below(top)
           /\ Children(top) \ top = {} => Below(top) = top
           /\ top \subseteq Below(top) /\ Children(Below(top)) \subseteq Below(top)
           /\ top \union (Children(top) \ top) \in SUBSET Conversation
<1>1. ASSUME NEW set \in SUBSET Conversation, top \subseteq set, Children(set) \subseteq set
      PROVE  top \union (Children(top) \ top) \subseteq set
  BY <1>1 DEF Children
<1>2. Below(top \union (Children(top) \ top)) = Below(top)
  BY <1>1 DEF Below
<1>3. Children(top) \ top = {} => Below(top) = top
  BY DEF Below
<1>4. Children(Below(top)) \subseteq Below(top)
  BY DEF Below, Children
<1>5. top \subseteq Below(top)
  BY DEF Below
<1>6. top \union (Children(top) \ top) \in SUBSET Conversation
  BY DEF Children
<1> QED BY <1>2, <1>3, <1>4, <1>5, <1>6

(* The definition of Descend has a solution, and every solution is Below. *)
LEMMA DescendEquation ==
    Descend = [included \in SUBSET Conversation |->
                  LET more == {c \in Conversation : Parent(c) \in included} \ included
                  IN  IF more = {} THEN included ELSE Descend[included \union more]]
<1> DEFINE g == [included \in SUBSET Conversation |-> Below(included)]
<1>1. g = [included \in SUBSET Conversation |->
              LET more == {c \in Conversation : Parent(c) \in included} \ included
              IN  IF more = {} THEN included ELSE g[included \union more]]
  <2> SUFFICES ASSUME NEW included \in SUBSET Conversation
               PROVE  Below(included) = LET more == {c \in Conversation : Parent(c) \in included} \ included
                                        IN  IF more = {} THEN included ELSE g[included \union more]
    OBVIOUS
  <2>1. {c \in Conversation : Parent(c) \in included} = Children(included)
    BY DEF Children
  <2>2. CASE Children(included) \ included = {}
    BY <2>1, <2>2, BelowGrows
  <2>3. CASE Children(included) \ included # {}
    <3>1. g[included \union (Children(included) \ included)] = Below(included)
      BY BelowGrows
    <3> QED BY <2>1, <2>3, <3>1
  <2> QED BY <2>2, <2>3
<1>2. \E h : h = [included \in SUBSET Conversation |->
              LET more == {c \in Conversation : Parent(c) \in included} \ included
              IN  IF more = {} THEN included ELSE h[included \union more]]
  BY <1>1
<1> QED BY <1>2 DEF Descend

LEMMA DescendIsBelow == \A top \in SUBSET Conversation : Descend[top] = Below(top)
<1> DEFINE bad == {rest \in SUBSET Conversation :
                       Descend[Conversation \ rest] # Below(Conversation \ rest)}
<1>1. SUFFICES ASSUME bad # {} PROVE FALSE
  <2> SUFFICES ASSUME bad = {}, NEW top \in SUBSET Conversation PROVE Descend[top] = Below(top)
    BY <1>1
  <2>1. Conversation \ (Conversation \ top) = top /\ Conversation \ top \in SUBSET Conversation
    OBVIOUS
  <2> QED BY <2>1
<1>2. IsWellFoundedOn(StrictSubsetOrdering(Conversation), SUBSET Conversation)
  BY FS_StrictSubsetOrderingWellFounded, FS_FiniteSubsetsOfFinite, ConversationsAssumption
<1>3. PICK rest \in bad : \A y \in bad : ~ (<<y, rest>> \in StrictSubsetOrdering(Conversation))
  <2> HIDE DEF bad
  <2>1. bad \subseteq SUBSET Conversation
    BY DEF bad
  <2> QED BY <1>1, <1>2, <2>1, WFMin
<1> DEFINE top == Conversation \ rest
           more == Children(top) \ top
           wide == top \union more
<1>4. top \in SUBSET Conversation /\ rest \in SUBSET Conversation /\ Descend[top] # Below(top)
  BY <1>3
<1>5. Descend[top] = IF more = {} THEN top ELSE Descend[wide]
  BY <1>4, DescendEquation DEF Children
<1>6. CASE more = {}
  BY <1>4, <1>5, <1>6, BelowGrows
<1>7. CASE more # {}
  <2>1. Descend[wide] # Below(wide)
    BY <1>4, <1>5, <1>7, BelowGrows
  <2>2. wide \in SUBSET Conversation /\ Conversation \ (rest \ more) = wide
        /\ rest \ more \in SUBSET Conversation /\ rest \ more # rest /\ rest \ more \subseteq rest
    BY <1>4, <1>7 DEF Children
  <2>3. rest \ more \in bad
    BY <2>1, <2>2
  <2>4. <<rest \ more, rest>> \in StrictSubsetOrdering(Conversation)
    BY <1>4, <2>2 DEF StrictSubsetOrdering
  <2> QED BY <1>3, <2>3, <2>4
<1> QED BY <1>6, <1>7

(* What a conversation descends from, itself included. *)
Above(c) == {d \in Conversation :
                \A set \in SUBSET Conversation :
                    c \in set /\ (\A x \in set : Parent(x) # NoConversation => Parent(x) \in set)
                    => d \in set}

(* Every set of conversations has a topmost one: the parents have no cycle. *)
Forest ==
    /\ \A c \in Conversation : Parent(c) \in Conversation \union {NoConversation}
    /\ \A set \in (SUBSET Conversation) \ {{}} : \E c \in set : Parent(c) \notin set

(* What a conversation descends from is itself and what its parent descends from. *)
LEMMA AboveParent ==
    ASSUME NEW c \in Conversation, Forest
    PROVE  /\ c \in Above(c)
           /\ \A d \in Above(c) : Parent(d) # NoConversation => Parent(d) \in Above(c)
           /\ Parent(c) = NoConversation => Above(c) = {c}
           /\ Parent(c) # NoConversation => Above(c) = {c} \union Above(Parent(c))
<1>1. c \in Above(c)
  BY DEF Above
<1>2. \A d \in Above(c) : Parent(d) # NoConversation => Parent(d) \in Above(c)
  <2> SUFFICES ASSUME NEW d \in Above(c), Parent(d) # NoConversation PROVE Parent(d) \in Above(c)
    OBVIOUS
  <2>1. Parent(d) \in Conversation /\ d \in Conversation
    BY DEF Forest, Above
  <2> QED BY <2>1 DEF Above
<1>3. ASSUME Parent(c) = NoConversation PROVE Above(c) = {c}
  <2>1. Above(c) \subseteq {c}
    BY <1>3 DEF Above
  <2> QED BY <1>1, <2>1
<1>4. ASSUME Parent(c) # NoConversation PROVE Above(c) = {c} \union Above(Parent(c))
  <2> DEFINE p == Parent(c)
             both == {c} \union Above(p)
  <2>1. p \in Conversation /\ both \in SUBSET Conversation
    BY <1>4 DEF Forest, Above
  <2>2. p \in Above(p) /\ \A x \in Above(p) : Parent(x) # NoConversation => Parent(x) \in Above(p)
    <3>1. p \in Above(p)
      BY <2>1 DEF Above
    <3>2. ASSUME NEW x \in Above(p), Parent(x) # NoConversation PROVE Parent(x) \in Above(p)
      <4>1. Parent(x) \in Conversation /\ x \in Conversation
        BY <3>2 DEF Forest, Above
      <4>2. ASSUME NEW set \in SUBSET Conversation, p \in set,
                   \A y \in set : Parent(y) # NoConversation => Parent(y) \in set
            PROVE  Parent(x) \in set
        <5>1. x \in set
          BY <3>2, <4>2 DEF Above
        <5> QED BY <3>2, <4>2, <5>1
      <4> QED BY <4>1, <4>2 DEF Above
    <3> QED BY <3>1, <3>2
  <2>3. Above(c) \subseteq both
    <3>1. \A x \in both : Parent(x) # NoConversation => Parent(x) \in both
      BY <2>2
    <3> HIDE DEF both
    <3>2. c \in both
      BY DEF both
    <3> QED BY <2>1, <3>1, <3>2 DEF Above
  <2>4. Above(p) \subseteq Above(c)
    <3> SUFFICES ASSUME NEW d \in Above(p) PROVE d \in Above(c)
      OBVIOUS
    <3> SUFFICES ASSUME NEW set \in SUBSET Conversation, c \in set,
                        \A x \in set : Parent(x) # NoConversation => Parent(x) \in set
                 PROVE  d \in set
      BY DEF Above
    <3>1. p \in set
      BY <1>4
    <3> QED BY <3>1 DEF Above
  <2> QED BY <1>1, <2>3, <2>4
<1> QED BY <1>1, <1>2, <1>3, <1>4

(* Nothing descends from what descends from it. *)
LEMMA AboveOneWay ==
    ASSUME Forest, NEW c \in Conversation, NEW d \in Above(c), c \in Above(d)
    PROVE  d = c
<1> SUFFICES ASSUME d # c PROVE FALSE
  OBVIOUS
<1> DEFINE loop == {x \in Above(c) : c \in Above(x)}
<1>1. loop \in (SUBSET Conversation) \ {{}}
  BY DEF Above
<1>2. PICK x \in loop : Parent(x) \notin loop
  <2> HIDE DEF loop
  <2> QED BY <1>1 DEF Forest
<1>3. x \in Above(c) /\ c \in Above(x) /\ x \in Conversation
  BY <1>2 DEF Above
<1>4. CASE Parent(x) = NoConversation
  <2>1. x = c
    BY <1>3, <1>4, AboveParent
  <2> QED BY <1>4, <2>1, AboveParent
<1>5. CASE Parent(x) # NoConversation
  <2>1. Parent(x) \in Above(c)
    BY <1>3, <1>5, AboveParent
  <2>2. CASE c \in Above(Parent(x))
    BY <1>2, <2>1, <2>2
  <2>3. CASE c \notin Above(Parent(x))
    <3>1. x = c
      BY <1>3, <1>5, <2>3, AboveParent
    <3>2. d \in Above(Parent(c)) /\ Parent(c) \in Conversation
      BY <1>5, <3>1, AboveParent DEF Forest
    <3>3. \A y \in Above(Parent(c)) : y \in Conversation
      BY DEF Above
    <3>4. Above(d) \subseteq Above(Parent(c))
      <4>1. \A y \in Above(Parent(c)) : Parent(y) # NoConversation => Parent(y) \in Above(Parent(c))
        BY <3>2, AboveParent
      <4>2. Above(Parent(c)) \in SUBSET Conversation
        BY <3>3
      <4> QED BY <3>2, <4>1, <4>2 DEF Above
    <3> QED BY <2>3, <3>1, <3>4
  <2> QED BY <2>2, <2>3
<1> QED BY <1>4, <1>5

LEMMA ParentOutside ==
    ASSUME Forest, NEW c \in Conversation, Parent(c) # NoConversation
    PROVE  Parent(c) \in Conversation /\ c \notin Above(Parent(c))
<1>1. Parent(c) \in Conversation /\ Parent(c) \in Above(c)
  BY AboveParent DEF Forest
<1>2. Parent(c) # c
  <2>1. {c} \in (SUBSET Conversation) \ {{}}
    OBVIOUS
  <2>2. \E x \in {c} : Parent(x) \notin {c}
    BY <2>1 DEF Forest
  <2> QED BY <2>2
<1> QED BY <1>1, <1>2, AboveOneWay

(* Where the climb may stop, and where it stops first. *)
Stops(c, seen) == Parent(c) = NoConversation \/ c \in seen
FirstStops(c, seen) == {d \in Above(c) : Stops(d, seen) /\ \A x \in Above(c) : Stops(x, seen) => x \in Above(d)}

LEMMA FirstStopIs ==
    ASSUME Forest, NEW c \in Conversation, NEW seen \in SUBSET Conversation
    PROVE  /\ Stops(c, seen) => FirstStops(c, seen) = {c}
           /\ ~Stops(c, seen) => FirstStops(c, seen) = FirstStops(Parent(c), seen \union {c})
<1>1. ASSUME Stops(c, seen) PROVE FirstStops(c, seen) = {c}
  <2>1. c \in FirstStops(c, seen)
    BY <1>1, AboveParent DEF FirstStops
  <2>2. ASSUME NEW d \in FirstStops(c, seen) PROVE d = c
    <3>1. d \in Above(c) /\ c \in Above(d)
      BY <1>1, AboveParent DEF FirstStops
    <3> QED BY <3>1, AboveOneWay
  <2> QED BY <2>1, <2>2
<1>2. ASSUME ~Stops(c, seen) PROVE FirstStops(c, seen) = FirstStops(Parent(c), seen \union {c})
  <2>1. Parent(c) # NoConversation
    BY <1>2 DEF Stops
  <2>2. c \notin Above(Parent(c)) /\ Above(c) = {c} \union Above(Parent(c))
    BY <2>1, ParentOutside, AboveParent
  <2>3. \A d \in Above(Parent(c)) : Stops(d, seen) <=> Stops(d, seen \union {c})
    BY <2>2 DEF Stops
  <2> QED BY <1>2, <2>2, <2>3 DEF FirstStops
<1> QED BY <1>1, <1>2

(* The definition of Climb has a solution. *)
LEMMA ClimbEquation ==
    ASSUME Forest
    PROVE  \A c \in Conversation, seen \in SUBSET Conversation :
               Climb[<<c, seen>>] = IF Parent(c) = NoConversation \/ c \in seen THEN c
                                    ELSE Climb[<<Parent(c), seen \union {c}>>]
<1> DEFINE FirstStop(at) == CHOOSE d : d \in FirstStops(at[1], at[2])
           g == [at \in Conversation \X SUBSET Conversation |-> FirstStop(at)]
<1>1. g = [at \in Conversation \X SUBSET Conversation |->
              IF Parent(at[1]) = NoConversation \/ at[1] \in at[2] THEN at[1]
              ELSE g[<<Parent(at[1]), at[2] \union {at[1]}>>]]
  <2> SUFFICES ASSUME NEW at \in Conversation \X SUBSET Conversation
               PROVE  FirstStop(at) = IF Parent(at[1]) = NoConversation \/ at[1] \in at[2] THEN at[1]
                                   ELSE g[<<Parent(at[1]), at[2] \union {at[1]}>>]
    <3> HIDE DEF FirstStop
    <3> QED OBVIOUS
  <2>3. at[1] \in Conversation /\ at[2] \in SUBSET Conversation
    OBVIOUS
  <2>1. CASE Stops(at[1], at[2])
    <3>1. FirstStops(at[1], at[2]) = {at[1]}
      BY <2>1, <2>3, FirstStopIs
    <3>2. FirstStop(at) = at[1]
      BY <3>1
    <3> HIDE DEF FirstStop, g
    <3> QED BY <2>1, <3>2 DEF Stops
  <2>2. CASE ~Stops(at[1], at[2])
    <3> DEFINE up == <<Parent(at[1]), at[2] \union {at[1]}>>
    <3>1. FirstStops(at[1], at[2]) = FirstStops(Parent(at[1]), at[2] \union {at[1]})
      BY <2>2, <2>3, FirstStopIs
    <3>2. up \in Conversation \X SUBSET Conversation
      BY <2>2, <2>3 DEF Stops, Forest
    <3>4. up[1] = Parent(at[1]) /\ up[2] = at[2] \union {at[1]}
      OBVIOUS
    <3> HIDE DEF up
    <3>5. FirstStop(up) = FirstStop(at)
      BY <3>1, <3>4
    <3> HIDE DEF FirstStop
    <3>3. g[up] = FirstStop(at)
      BY <3>2, <3>5
    <3> HIDE DEF g
    <3> QED BY <2>2, <3>3 DEF Stops, up
  <2> QED BY <2>1, <2>2
<1> HIDE DEF g
<1>2. \E h : h = [at \in Conversation \X SUBSET Conversation |->
              IF Parent(at[1]) = NoConversation \/ at[1] \in at[2] THEN at[1]
              ELSE h[<<Parent(at[1]), at[2] \union {at[1]}>>]]
  BY <1>1
<1>3. Climb = [at \in Conversation \X SUBSET Conversation |->
              IF Parent(at[1]) = NoConversation \/ at[1] \in at[2] THEN at[1]
              ELSE Climb[<<Parent(at[1]), at[2] \union {at[1]}>>]]
  BY <1>2 DEF Climb
<1> SUFFICES ASSUME NEW c \in Conversation, NEW seen \in SUBSET Conversation
             PROVE  Climb[<<c, seen>>] = IF Parent(c) = NoConversation \/ c \in seen THEN c
                                         ELSE Climb[<<Parent(c), seen \union {c}>>]
  OBVIOUS
<1> DEFINE at == <<c, seen>>
<1>4. at \in Conversation \X SUBSET Conversation /\ at[1] = c /\ at[2] = seen
  OBVIOUS
<1> HIDE DEF at
<1>5. Climb[at] = IF Parent(at[1]) = NoConversation \/ at[1] \in at[2] THEN at[1]
                  ELSE Climb[<<Parent(at[1]), at[2] \union {at[1]}>>]
  BY <1>3, <1>4
<1> QED BY <1>4, <1>5 DEF at

(* The climb ends at the root. *)
LEMMA ClimbFindsRoot ==
    ASSUME Forest, NEW c \in Conversation
    PROVE  Climb[<<c, {}>>] \in Above(c) /\ Parent(Climb[<<c, {}>>]) = NoConversation
<1> DEFINE Found(x, seen) == Climb[<<x, seen>>] \in Above(x) /\ Parent(Climb[<<x, seen>>]) = NoConversation
           bad == {x \in Conversation :
                      \E seen \in SUBSET Conversation : seen \intersect Above(x) = {} /\ ~Found(x, seen)}
<1>1. bad = {}
  <2> SUFFICES ASSUME bad # {} PROVE FALSE
    OBVIOUS
  <2>1. PICK x \in bad : Parent(x) \notin bad
    <3>1. bad \in (SUBSET Conversation) \ {{}}
      OBVIOUS
    <3> HIDE DEF bad
    <3> QED BY <3>1 DEF Forest
  <2>2. PICK seen \in SUBSET Conversation : seen \intersect Above(x) = {} /\ ~Found(x, seen)
    BY <2>1
  <2>3. x \in Conversation /\ x \in Above(x) /\ x \notin seen
    BY <2>1, <2>2, AboveParent
  <2>4. Climb[<<x, seen>>] = IF Parent(x) = NoConversation \/ x \in seen THEN x
                         ELSE Climb[<<Parent(x), seen \union {x}>>]
    BY <2>3, ClimbEquation
  <2>5. CASE Parent(x) = NoConversation
    BY <2>2, <2>3, <2>4, <2>5
  <2>6. CASE Parent(x) # NoConversation
    <3>1. Parent(x) \in Conversation /\ x \notin Above(Parent(x))
          /\ Above(x) = {x} \union Above(Parent(x))
      BY <2>3, <2>6, ParentOutside, AboveParent
    <3>2. (seen \union {x}) \intersect Above(Parent(x)) = {} /\ seen \union {x} \in SUBSET Conversation
      BY <2>2, <2>3, <3>1
    <3>3. Found(Parent(x), seen \union {x})
      BY <2>1, <3>1, <3>2
    <3> QED BY <2>2, <2>3, <2>4, <2>6, <3>1, <3>3
  <2> QED BY <2>5, <2>6
<1>2. Found(c, {})
  BY <1>1
<1> QED BY <1>2

(* The branch tree is the family of a conversation. *)
LEMMA BranchTreeIsFamily == ASSUME Forest PROVE BranchesAreFamily
<1> SUFFICES ASSUME NEW c \in Conversation
             PROVE  /\ c \in Branches(c) /\ IsFamily(Branches(c))
                    /\ \A set \in SUBSET Conversation : c \in set /\ IsFamily(set) => Branches(c) \subseteq set
  BY DEF BranchesAreFamily
<1> DEFINE r == Climb[<<c, {}>>]
           b == Below({r})
<1>1. r \in Above(c) /\ Parent(r) = NoConversation /\ r \in Conversation
  BY ClimbFindsRoot DEF Above
<1>2. Branches(c) = b
  BY <1>1, DescendIsBelow DEF Branches
<1> HIDE DEF r
<1>3. b \subseteq Conversation /\ r \in b /\ Children(b) \subseteq b
  BY <1>1, BelowGrows DEF Below
<1>4. c \in b
  <2> SUFFICES ASSUME NEW set \in SUBSET Conversation, r \in set, Children(set) \subseteq set, c \notin set
               PROVE  FALSE
    BY DEF Below
  <2> DEFINE others == Conversation \ set
  <2>1. \A x \in others : Parent(x) # NoConversation => Parent(x) \in others
    BY DEF Forest, Children
  <2>2. others \in SUBSET Conversation /\ c \in others
    OBVIOUS
  <2> HIDE DEF others
  <2>3. r \in others
    BY <1>1, <2>1, <2>2 DEF Above
  <2> QED BY <2>3 DEF others
<1>5. IsFamily(b)
  <2> SUFFICES ASSUME NEW d \in Conversation, Parent(d) # NoConversation PROVE d \in b <=> Parent(d) \in b
    BY DEF IsFamily
  <2>1. Parent(d) \in b => d \in b
    BY <1>3 DEF Children
  <2>2. ASSUME d \in b, Parent(d) \notin b PROVE FALSE
    <3> DEFINE rest == b \ {d}
    <3> HIDE DEF b
    <3>1. rest \in SUBSET Conversation /\ {r} \subseteq rest
      BY <1>1, <1>3
    <3>2. Children(rest) \subseteq rest
      BY <1>3, <2>2 DEF Children
    <3> HIDE DEF rest
    <3>3. b \subseteq rest
      BY <3>1, <3>2 DEF b, Below
    <3> QED BY <2>2, <3>3 DEF rest
  <2> QED BY <2>1, <2>2
<1>6. ASSUME NEW set \in SUBSET Conversation, c \in set, IsFamily(set) PROVE b \subseteq set
  <2>1. r \in set
    BY <1>1, <1>6 DEF Above, IsFamily
  <2>2. Children(set) \subseteq set
    BY <1>6, ConversationsAssumption DEF Children, IsFamily
  <2> QED BY <2>1, <2>2 DEF Below
<1> QED BY <1>2, <1>4, <1>5, <1>6

(* A conversation's row. *)
ConversationRow == [mode: {"absent", "chatbot", "coding-agent"}, workspace: Workspace \union {NoWorkspace},
                    parent: Conversation \union {NoConversation}, copied: Nat, messages: Seq(Nat)]
VisitRow == [pc: {"idle", "terminal", "stored", "fork", "import", "close", "delete"},
             c: Conversation \union {NoConversation},
             workspace: Workspace \union {NoWorkspace}, read: Seq(Nat)]

(* Two histories agree up to a boundary that both reach; one continues another. *)
AgreeTo(s, t, n) == n <= Len(s) /\ n <= Len(t) /\ \A i \in 1..n : s[i] = t[i]
Continues(t, s) == AgreeTo(s, t, Len(s))

(* The rows: workspaces that were made, each in one row; parents that are
   present, form a forest, and share the history a branch copied. *)
RowsInv ==
    /\ conversation \in [Conversation -> ConversationRow] /\ made \subseteq Workspace
    /\ \A c \in Conversation : conversation[c].workspace # NoWorkspace => conversation[c].workspace \in made
    /\ OwnWorkspace
    /\ \A c \in Conversation : Parent(c) # NoConversation =>
           /\ Present(Parent(c))
           /\ AgreeTo(conversation[c].messages, conversation[Parent(c)].messages, conversation[c].copied)
    /\ Forest

(* A request is about a conversation that exists, and a fork has read the
   beginning of its history. *)
VisitOk(rows, r) ==
    r.pc # "idle" =>
        /\ r.c \in Conversation /\ rows[r.c].mode # "absent"
        /\ r.pc = "fork" => Continues(rows[r.c].messages, r.read)

ConversationsInv ==
    /\ RowsInv
    /\ terminals \in [Workspace -> Nat] /\ TerminalsLimited
    /\ visit \in [Visit -> VisitRow] /\ \A v \in Visit : VisitOk(conversation, visit[v])

(* Histories. *)
LEMMA HistoriesGrow ==
    ASSUME NEW s \in Seq(Nat), NEW t \in Seq(Nat), NEW u \in Seq(Nat), NEW n \in Nat
    PROVE  /\ Continues(s, s)
           /\ Continues(t, s) /\ Continues(u, t) => Continues(u, s)
           /\ AgreeTo(s, t, n) /\ Continues(u, s) => AgreeTo(u, t, n)
           /\ AgreeTo(s, t, n) /\ Continues(u, t) => AgreeTo(s, u, n)
<1>1. Len(s) \in Nat /\ Len(t) \in Nat /\ Len(u) \in Nat
  OBVIOUS
<1>2. Continues(s, s)
  BY <1>1 DEF Continues, AgreeTo
<1>3. ASSUME Continues(t, s), Continues(u, t) PROVE Continues(u, s)
  <2>1. \A i \in 1..Len(s) : i \in 1..Len(t)
    BY <1>1, <1>3 DEF Continues, AgreeTo
  <2> QED BY <1>1, <1>3, <2>1 DEF Continues, AgreeTo
<1>4. ASSUME AgreeTo(s, t, n), Continues(u, s) PROVE AgreeTo(u, t, n)
  <2>1. \A i \in 1..n : i \in 1..Len(s)
    BY <1>1, <1>4 DEF AgreeTo
  <2> QED BY <1>1, <1>4, <2>1 DEF Continues, AgreeTo
<1>5. ASSUME AgreeTo(s, t, n), Continues(u, t) PROVE AgreeTo(s, u, n)
  <2>1. \A i \in 1..n : i \in 1..Len(t)
    BY <1>1, <1>5 DEF AgreeTo
  <2> QED BY <1>1, <1>5, <2>1 DEF Continues, AgreeTo
<1> QED BY <1>2, <1>3, <1>4, <1>5

(* The beginning of a history. *)
LEMMA Beginning ==
    ASSUME NEW s \in Seq(Nat), NEW n \in 0..Len(s)
    PROVE  /\ SubSeq(s, 1, n) \in Seq(Nat) /\ Len(SubSeq(s, 1, n)) = n
           /\ SubSeq(s, 1, n) = [i \in 1..n |-> s[i]]
           /\ AgreeTo(SubSeq(s, 1, n), s, n)
<1> DEFINE t == SubSeq(s, 1, n)
           l == Len(s)
<1>1. l \in Nat /\ n \in Nat /\ n <= l /\ \A i \in 1..n : i \in 1..l /\ s[i] \in Nat
  <2>1. l \in Nat /\ n \in Nat /\ n <= l /\ \A i \in 1..l : s[i] \in Nat
    OBVIOUS
  <2> HIDE DEF l
  <2>2. \A i \in 1..n : i \in 1..l
    BY <2>1
  <2> QED BY <2>1, <2>2
<1>2. t \in Seq(Nat) /\ Len(t) = n /\ DOMAIN t = 1..n /\ \A i \in 1..n : t[i] = s[i]
  BY <1>1
<1>3. t = [i \in 1..n |-> t[i]]
  <2> HIDE DEF t
  <2> QED BY <1>2
<1> HIDE DEF t, l
<1>4. t = [i \in 1..n |-> s[i]]
  BY <1>2, <1>3
<1>5. AgreeTo(t, s, n)
  BY <1>1, <1>2 DEF AgreeTo, l
<1> QED BY <1>2, <1>4, <1>5 DEF t

(* A row that was absent is made, as a leaf; or one that is present gets more
   history and perhaps a workspace that nobody had. *)
LEMMA RowChanges ==
    ASSUME RowsInv, NEW c \in Conversation, NEW r \in ConversationRow,
           conversation' = [conversation EXCEPT ![c] = r], r.mode # "absent",
           made \subseteq made', made' \subseteq Workspace,
           \/ r.workspace \in {NoWorkspace, conversation[c].workspace}
           \/ r.workspace \in made' \ made,
           \/ /\ Present(c) /\ r.parent = Parent(c) /\ r.copied = conversation[c].copied
              /\ Continues(r.messages, conversation[c].messages)
           \/ /\ ~Present(c)
              /\ \/ r.parent = NoConversation
                 \/ /\ r.parent \in Conversation /\ Present(r.parent)
                    /\ AgreeTo(r.messages, conversation[r.parent].messages, r.copied)
    PROVE  /\ RowsInv'
           /\ \A d \in Conversation : Present(d) =>
                  Present(d)' /\ Continues(conversation'[d].messages, conversation[d].messages)
<1>1. conversation \in [Conversation -> ConversationRow]
  BY DEF RowsInv
<1>2. /\ conversation' \in [Conversation -> ConversationRow]
      /\ \A d \in Conversation : conversation'[d] = IF d = c THEN r ELSE conversation[d]
  BY <1>1
<1>3. \A d \in Conversation : /\ conversation[d].messages \in Seq(Nat) /\ conversation[d].copied \in Nat
                              /\ Parent(d) \in Conversation \union {NoConversation}
                              /\ conversation'[d].messages \in Seq(Nat)
  BY <1>1, <1>2 DEF ConversationRow, Parent
<1>4. r.messages \in Seq(Nat) /\ r.copied \in Nat /\ r.parent \in Conversation \union {NoConversation}
  BY DEF ConversationRow
<1>5. \A d \in Conversation : Present(d)' = (IF d = c THEN TRUE ELSE Present(d))
  BY <1>2 DEF Present
<1>6. \A d \in Conversation : Parent(d)' = (IF d = c THEN r.parent ELSE Parent(d))
  BY <1>2 DEF Parent
<1>7. ASSUME NEW d \in Conversation, Present(d)
      PROVE  Present(d)' /\ Continues(conversation'[d].messages, conversation[d].messages)
  <2>1. CASE d = c
    BY <1>2, <1>5, <1>7, <2>1
  <2>2. CASE d # c
    BY <1>2, <1>3, <1>5, <1>7, <2>2, HistoriesGrow
  <2> QED BY <2>1, <2>2
<1>8. ~Present(c) => \A d \in Conversation : Parent(d) # c
  BY ConversationsAssumption DEF RowsInv
<1>9. ASSUME NEW d \in Conversation, conversation'[d].workspace # NoWorkspace
      PROVE  conversation'[d].workspace \in made'
  BY <1>2, <1>9 DEF RowsInv
<1>10. OwnWorkspace'
  <2> SUFFICES ASSUME NEW d \in Conversation, NEW x \in Conversation, d # x,
                      conversation'[d].workspace # NoWorkspace,
                      conversation'[d].workspace = conversation'[x].workspace
               PROVE  FALSE
    BY DEF OwnWorkspace
  <2>1. \A y \in Conversation : conversation[y].workspace # NoWorkspace => conversation[y].workspace \in made
    BY DEF RowsInv
  <2>2. \A y, z \in Conversation : y # z /\ conversation[y].workspace # NoWorkspace
            => conversation[y].workspace # conversation[z].workspace
    BY DEF RowsInv, OwnWorkspace
  <2>3. r.workspace \in {NoWorkspace, conversation[c].workspace} \/ r.workspace \notin made
    OBVIOUS
  <2>4. CASE d = c
    <3>1. conversation'[d].workspace = r.workspace /\ conversation'[x] = conversation[x] /\ x # c
      BY <1>2, <2>4
    <3> QED BY <2>1, <2>2, <2>3, <2>4, <3>1
  <2>5. CASE x = c
    <3>1. conversation'[x].workspace = r.workspace /\ conversation'[d] = conversation[d] /\ d # c
      BY <1>2, <2>5
    <3> QED BY <2>1, <2>2, <2>3, <2>5, <3>1
  <2>6. CASE d # c /\ x # c
    BY <1>2, <2>2, <2>6
  <2> QED BY <2>4, <2>5, <2>6
<1>11. ASSUME NEW d \in Conversation, NEW p \in Conversation, conversation'[d].parent = p
       PROVE  /\ conversation'[p].mode # "absent"
              /\ AgreeTo(conversation'[d].messages, conversation'[p].messages, conversation'[d].copied)
  <2> DEFINE m == conversation[p].messages
  <2>1. CASE d = c /\ ~Present(c)
    <3>1. p = r.parent /\ Present(p) /\ p # c /\ AgreeTo(r.messages, m, r.copied)
      BY <1>2, <1>11, <2>1, ConversationsAssumption
    <3>2. conversation'[d] = r /\ conversation'[p] = conversation[p]
      BY <1>2, <2>1, <3>1
    <3> QED BY <3>1, <3>2 DEF Present
  <2>2. CASE ~(d = c /\ ~Present(c))
    <3>1. p = Parent(d) /\ p # NoConversation
      BY <1>2, <1>11, <2>2, ConversationsAssumption DEF Parent
    <3>2. Present(p) /\ AgreeTo(conversation[d].messages, m, conversation[d].copied)
      BY <3>1 DEF RowsInv
    <3>3. conversation'[p].mode # "absent" /\ Continues(conversation'[p].messages, m)
      BY <1>7, <3>2 DEF Present
    <3>4. Continues(conversation'[d].messages, conversation[d].messages)
          /\ conversation'[d].copied = conversation[d].copied
      BY <1>2, <1>3, <2>2, HistoriesGrow
    <3>5. AgreeTo(conversation'[d].messages, m, conversation[d].copied)
      BY <1>3, <3>2, <3>4, HistoriesGrow
    <3>6. AgreeTo(conversation'[d].messages, conversation'[p].messages, conversation[d].copied)
      BY <1>3, <3>3, <3>5, HistoriesGrow
    <3> QED BY <3>3, <3>4, <3>6
  <2> QED BY <2>1, <2>2
<1>12. Forest'
  <2>1. \A d \in Conversation : Parent(d)' \in Conversation \union {NoConversation}
    BY <1>3, <1>4, <1>6
  <2>2. ASSUME NEW set \in (SUBSET Conversation) \ {{}} PROVE \E d \in set : Parent(d)' \notin set
    <3>1. CASE c \in set /\ ~Present(c)
      <4>1. CASE set = {c}
        <5>1. r.parent # c
          BY <3>1, ConversationsAssumption
        <5>2. Parent(c)' = r.parent
          BY <1>6
        <5> QED BY <4>1, <5>1, <5>2
      <4>2. CASE set # {c}
        <5>1. set \ {c} \in (SUBSET Conversation) \ {{}}
          BY <2>2, <4>2
        <5>2. PICK d \in set \ {c} : Parent(d) \notin set \ {c}
          BY <5>1 DEF RowsInv, Forest
        <5>3. d \in Conversation /\ d # c /\ Parent(d) # c /\ Parent(d)' = Parent(d)
          BY <1>6, <1>8, <2>2, <3>1, <5>2
        <5> QED BY <5>2, <5>3
      <4> QED BY <4>1, <4>2
    <3>2. CASE ~(c \in set /\ ~Present(c))
      <4>1. PICK d \in set : Parent(d) \notin set
        BY <2>2 DEF RowsInv, Forest
      <4>2. Parent(d)' = Parent(d)
        BY <1>6, <2>2, <3>2
      <4> QED BY <4>1, <4>2
    <3> QED BY <3>1, <3>2
  <2> QED BY <2>1, <2>2 DEF Forest
<1>13. RowsInv'
  <2>1. \A d \in Conversation : Parent(d)' # NoConversation =>
           /\ Present(Parent(d))'
           /\ AgreeTo(conversation[d].messages, conversation[Parent(d)].messages, conversation[d].copied)'
    <3> SUFFICES ASSUME NEW d \in Conversation, conversation'[d].parent # NoConversation
                 PROVE  /\ conversation'[conversation'[d].parent].mode # "absent"
                        /\ AgreeTo(conversation'[d].messages,
                                   conversation'[conversation'[d].parent].messages, conversation'[d].copied)
      BY DEF Parent, Present
    <3>1. conversation'[d].parent \in Conversation
      BY <1>2 DEF ConversationRow
    <3> QED BY <1>11, <3>1
  <2> QED BY <1>2, <1>9, <1>10, <1>12, <2>1 DEF RowsInv
<1> QED BY <1>7, <1>13

(* A request that stays is still right when the rows changed so. *)
LEMMA VisitStands ==
    ASSUME RowsInv, RowsInv', NEW x \in VisitRow, VisitOk(conversation, x),
           \A d \in Conversation : Present(d) =>
               Present(d)' /\ Continues(conversation'[d].messages, conversation[d].messages)
    PROVE  VisitOk(conversation', x)
<1>1. x.read \in Seq(Nat)
  BY DEF VisitRow
<1>2. \A d \in Conversation : conversation[d].messages \in Seq(Nat) /\ conversation'[d].messages \in Seq(Nat)
  BY DEF RowsInv, ConversationRow
<1>3. ASSUME x.pc # "idle" PROVE x.c \in Conversation /\ Present(x.c)
  BY <1>3 DEF VisitOk, Present
<1>4. ASSUME x.pc = "fork" PROVE Continues(conversation'[x.c].messages, x.read)
  <2>1. x.c \in Conversation /\ Present(x.c) /\ Continues(conversation[x.c].messages, x.read)
    BY <1>4 DEF VisitOk, Present
  <2>2. Continues(conversation'[x.c].messages, conversation[x.c].messages)
    BY <2>1
  <2> QED BY <1>1, <1>2, <2>1, <2>2, HistoriesGrow
<1> QED BY <1>3, <1>4 DEF VisitOk, Present

(* The rows nobody has, and a request at rest. *)
LEMMA AbsentRows ==
    /\ Absent \in ConversationRow /\ Absent.mode = "absent" /\ Absent.workspace = NoWorkspace
    /\ Absent.parent = NoConversation /\ Absent.copied = 0 /\ Absent.messages = <<>>
    /\ Nowhere \in VisitRow /\ Nowhere.pc = "idle"
BY DEF Absent, Nowhere, ConversationRow, VisitRow

(* At the start. *)
LEMMA ConversationsInitHolds == ConversationsInit => ConversationsInv
<1> SUFFICES ASSUME ConversationsInit PROVE ConversationsInv
  OBVIOUS
<1>1. PICK old \in SUBSET Conversation :
          conversation = [c \in Conversation |->
              IF c \in old THEN [Absent EXCEPT !.mode = "coding-agent"] ELSE Absent]
  BY DEF ConversationsInit
<1> DEFINE o == [Absent EXCEPT !.mode = "coding-agent"]
<1>2. o \in ConversationRow /\ o.workspace = NoWorkspace /\ o.parent = NoConversation
  BY AbsentRows DEF ConversationRow
<1> HIDE DEF o
<1>3. \A c \in Conversation : conversation[c] \in {o, Absent}
  BY <1>1 DEF o
<1>4. conversation \in [Conversation -> ConversationRow]
  BY <1>1, <1>2, AbsentRows DEF o
<1>5. \A c \in Conversation : conversation[c].workspace = NoWorkspace /\ Parent(c) = NoConversation
  BY <1>2, <1>3, AbsentRows DEF Parent
<1>6. Forest
  <2>1. NoConversation \notin Conversation
    BY ConversationsAssumption
  <2> QED BY <1>5, <2>1 DEF Forest
<1>7. RowsInv
  BY <1>4, <1>5, <1>6 DEF RowsInv, OwnWorkspace, ConversationsInit
<1>8. terminals \in [Workspace -> Nat] /\ TerminalsLimited
  BY ConversationsAssumption DEF ConversationsInit, TerminalsLimited
<1>9. visit \in [Visit -> VisitRow] /\ \A v \in Visit : VisitOk(conversation, visit[v])
  BY AbsentRows DEF ConversationsInit, VisitOk, Present
<1> QED BY <1>7, <1>8, <1>9 DEF ConversationsInv

(* Rows change, and the requests stay; or one request changes, and the rows
   stay; or both. *)
LEMMA RequestMoves ==
    ASSUME ConversationsInv, RowsInv',
           \A d \in Conversation : Present(d) =>
               Present(d)' /\ Continues(conversation'[d].messages, conversation[d].messages),
           \/ UNCHANGED visit
           \/ \E v \in Visit : \E x \in VisitRow : visit' = [visit EXCEPT ![v] = x] /\ VisitOk(conversation', x)
    PROVE  visit' \in [Visit -> VisitRow] /\ \A v \in Visit : VisitOk(conversation', visit'[v])
<1>1. visit \in [Visit -> VisitRow] /\ RowsInv
  BY DEF ConversationsInv
<1>2. \A v \in Visit : visit[v] \in VisitRow /\ VisitOk(conversation, visit[v])
  BY DEF ConversationsInv
<1>3. \A x \in VisitRow : VisitOk(conversation, x) => VisitOk(conversation', x)
  BY <1>1, VisitStands
<1>4. CASE UNCHANGED visit
  BY <1>1, <1>2, <1>3, <1>4 DEF VisitOk, Present
<1>5. CASE \E v \in Visit : \E x \in VisitRow : visit' = [visit EXCEPT ![v] = x] /\ VisitOk(conversation', x)
  <2>1. PICK v \in Visit, x \in VisitRow : visit' = [visit EXCEPT ![v] = x] /\ VisitOk(conversation', x)
    BY <1>5
  <2>2. visit' \in [Visit -> VisitRow] /\ \A q \in Visit : visit'[q] = IF q = v THEN x ELSE visit[q]
    BY <1>1, <2>1
  <2>3. ASSUME NEW q \in Visit PROVE VisitOk(conversation', visit'[q])
    <3>1. CASE q = v
      BY <2>1, <2>2, <3>1 DEF VisitOk, Present
    <3>2. CASE q # v
      <4>1. VisitOk(conversation, visit[q]) /\ visit[q] \in VisitRow /\ visit'[q] = visit[q]
        BY <1>2, <2>2, <3>2
      <4> QED BY <1>3, <4>1 DEF VisitOk, Present
    <3> QED BY <3>1, <3>2
  <2> QED BY <2>2, <2>3
<1> QED BY <1>4, <1>5

(* The rows do not change. *)
LEMMA RowsStay ==
    ASSUME ConversationsInv, UNCHANGED <<conversation, made>>
    PROVE  /\ RowsInv'
           /\ \A d \in Conversation : Present(d) =>
                  Present(d)' /\ Continues(conversation'[d].messages, conversation[d].messages)
<1>1. RowsInv'
  BY DEF ConversationsInv, RowsInv, OwnWorkspace, Present, Parent, Forest
<1>2. \A d \in Conversation : conversation[d].messages \in Seq(Nat)
  BY DEF ConversationsInv, RowsInv, ConversationRow
<1> QED BY <1>1, <1>2, HistoriesGrow DEF Present

(* The steps of the terminals and of a request that ends. *)
LEMMA TerminalsChange ==
    ASSUME ConversationsInv, UNCHANGED <<conversation, made>>,
           terminals' \in [Workspace -> Nat], \A w \in Workspace : terminals'[w] <= MaxTerminals,
           \/ UNCHANGED visit
           \/ \E v \in Visit : \E x \in VisitRow : visit' = [visit EXCEPT ![v] = x] /\ VisitOk(conversation', x)
    PROVE  ConversationsInv'
BY RowsStay, RequestMoves DEF ConversationsInv, TerminalsLimited

(* The steps that store a row. *)
LEMMA RowStored ==
    ASSUME ConversationsInv, UNCHANGED terminals, RowsInv',
           \A d \in Conversation : Present(d) =>
               Present(d)' /\ Continues(conversation'[d].messages, conversation[d].messages),
           \/ UNCHANGED visit
           \/ \E v \in Visit : \E x \in VisitRow : visit' = [visit EXCEPT ![v] = x] /\ VisitOk(conversation', x)
    PROVE  ConversationsInv'
BY RequestMoves DEF ConversationsInv, TerminalsLimited

LEMMA CreateKeeps ==
    ASSUME ConversationsInv, NEW c \in Conversation, NEW mode \in {"chatbot", "coding-agent"},
           NEW w \in Workspace \union {NoWorkspace}, CreateConversation(c, mode, w)
    PROVE  ConversationsInv'
<1> DEFINE r == [Absent EXCEPT !.mode = mode, !.workspace = w]
<1>1. r \in ConversationRow /\ r.mode = mode /\ r.workspace = w /\ r.parent = NoConversation
  BY AbsentRows DEF ConversationRow
<1>2. ~Present(c) /\ conversation' = [conversation EXCEPT ![c] = r] /\ UNCHANGED <<terminals, visit>>
  BY DEF CreateConversation
<1> HIDE DEF r
<1>3. made \subseteq made' /\ made' \subseteq Workspace /\ (w = NoWorkspace \/ w \in made' \ made)
  BY DEF CreateConversation, NewWorkspace, ConversationsInv, RowsInv
<1>4. RowsInv' /\ \A d \in Conversation : Present(d) =>
          Present(d)' /\ Continues(conversation'[d].messages, conversation[d].messages)
  BY <1>1, <1>2, <1>3, RowChanges DEF ConversationsInv
<1> QED BY <1>2, <1>4, RowStored

LEMMA WriteKeeps == ASSUME ConversationsInv, NEW c \in Conversation, WriteMessage(c) PROVE ConversationsInv'
<1> DEFINE n == Cardinality(Written)
           o == conversation[c]
           r == [o EXCEPT !.messages = Append(@, n + 1)]
<1>1. o \in ConversationRow /\ o.messages \in Seq(Nat) /\ o.mode # "absent" /\ Present(c)
  BY DEF ConversationsInv, RowsInv, ConversationRow, WriteMessage, Present
<1>2. n \in Nat
  <2>1. \A d \in Conversation : IsFiniteSet({conversation[d].messages[i] : i \in DOMAIN conversation[d].messages})
    <3> SUFFICES ASSUME NEW d \in Conversation
                 PROVE  IsFiniteSet({conversation[d].messages[i] : i \in DOMAIN conversation[d].messages})
      OBVIOUS
    <3> DEFINE ms == conversation[d].messages
               f == [i \in DOMAIN ms |-> ms[i]]
    <3>1. ms \in Seq(Nat)
      BY DEF ConversationsInv, RowsInv, ConversationRow
    <3>2. DOMAIN ms = 1..Len(ms) /\ Len(ms) \in Nat
      BY <3>1
    <3>3. IsFiniteSet(DOMAIN ms)
      BY <3>2, FS_Interval
    <3> HIDE DEF ms
    <3>4. f \in Surjection(DOMAIN ms, {ms[i] : i \in DOMAIN ms})
      BY DEF Surjection
    <3>5. IsFiniteSet({ms[i] : i \in DOMAIN ms})
      BY <3>3, <3>4, FS_Surjection
    <3> QED BY <3>5 DEF ms
  <2> DEFINE parts == {{conversation[d].messages[i] : i \in DOMAIN conversation[d].messages} : d \in Conversation}
             g == [d \in Conversation |-> {conversation[d].messages[i] : i \in DOMAIN conversation[d].messages}]
  <2>2. g \in Surjection(Conversation, parts)
    BY DEF Surjection
  <2>3. IsFiniteSet(parts)
    BY <2>2, FS_Surjection, ConversationsAssumption
  <2>4. \A part1 \in parts : IsFiniteSet(part1)
    BY <2>1
  <2> HIDE DEF parts
  <2>5. IsFiniteSet(UNION parts)
    BY <2>3, <2>4, FS_UNION
  <2> QED BY <2>5, FS_CardinalityType DEF Written, parts
<1>3. /\ conversation' = [conversation EXCEPT ![c] = r] /\ UNCHANGED <<made, terminals, visit>>
  BY DEF WriteMessage, ConversationsInv, RowsInv, ConversationRow
<1> HIDE DEF n
<1>4. n + 1 \in Nat
  BY <1>2
<1> DEFINE long == Append(o.messages, n + 1)
<1>5. long \in Seq(Nat) /\ Continues(long, o.messages)
  <2>1. /\ long \in Seq(Nat) /\ Len(long) = Len(o.messages) + 1 /\ Len(o.messages) \in Nat
        /\ \A i \in 1..Len(o.messages) : long[i] = o.messages[i]
    BY <1>1, <1>4
  <2> QED BY <2>1 DEF Continues, AgreeTo
<1> HIDE DEF long
<1>6. /\ r \in ConversationRow /\ r.mode = o.mode /\ r.workspace = o.workspace
      /\ r.parent = o.parent /\ r.copied = o.copied /\ r.messages = long
  BY <1>1, <1>5 DEF ConversationRow, long
<1> HIDE DEF r
<1>7. RowsInv' /\ \A d \in Conversation : Present(d) =>
          Present(d)' /\ Continues(conversation'[d].messages, conversation[d].messages)
  <2>1. r.parent = Parent(c) /\ r.mode # "absent" /\ r.copied = conversation[c].copied
        /\ Continues(r.messages, conversation[c].messages)
        /\ r.workspace \in {NoWorkspace, conversation[c].workspace}
        /\ made \subseteq made' /\ made' \subseteq Workspace /\ RowsInv
    BY <1>1, <1>3, <1>5, <1>6 DEF Parent, ConversationsInv, RowsInv
  <2> QED BY <1>1, <1>3, <1>6, <2>1, RowChanges
<1> QED BY <1>3, <1>7, RowStored

LEMMA ReadRowKeeps ==
    ASSUME ConversationsInv, NEW v \in Visit, NEW c \in Conversation,
           NEW pc \in {"terminal", "fork", "import", "delete"}, ReadConversation(v, c, pc)
    PROVE  ConversationsInv'
<1> DEFINE x == [pc |-> pc, c |-> c, workspace |-> conversation[c].workspace,
                 read |-> IF pc = "fork" THEN conversation[c].messages ELSE <<>>]
<1>1. /\ Present(c) /\ visit' = [visit EXCEPT ![v] = x] /\ UNCHANGED <<conversation, made, terminals>>
  BY DEF ReadConversation
<1>2. conversation[c].messages \in Seq(Nat) /\ conversation[c].workspace \in Workspace \union {NoWorkspace}
  BY DEF ConversationsInv, RowsInv, ConversationRow
<1>3. x \in VisitRow /\ x.pc = pc /\ x.c = c /\ (pc = "fork" => x.read = conversation[c].messages)
  BY <1>2 DEF VisitRow
<1> HIDE DEF x
<1>4. VisitOk(conversation', x)
  BY <1>1, <1>2, <1>3, HistoriesGrow DEF VisitOk, Present
<1>5. terminals' \in [Workspace -> Nat] /\ \A w \in Workspace : terminals'[w] <= MaxTerminals
  BY <1>1 DEF ConversationsInv, TerminalsLimited
<1> QED BY <1>1, <1>3, <1>4, <1>5, TerminalsChange

(* A row gets a workspace that was just made. *)
LEMMA WorkspaceStored ==
    ASSUME ConversationsInv, NEW c \in Conversation, Present(c), NEW w \in Workspace, NewWorkspace(w),
           conversation' = [conversation EXCEPT ![c].workspace = w]
    PROVE  /\ RowsInv'
           /\ \A d \in Conversation : Present(d) =>
                  Present(d)' /\ Continues(conversation'[d].messages, conversation[d].messages)
<1> DEFINE o == conversation[c]
           r == [o EXCEPT !.workspace = w]
<1>1. o \in ConversationRow /\ o.mode # "absent" /\ RowsInv /\ o.messages \in Seq(Nat)
  BY DEF ConversationsInv, RowsInv, Present, ConversationRow
<1>2. /\ r \in ConversationRow /\ r.mode = o.mode /\ r.workspace = w
      /\ r.parent = o.parent /\ r.copied = o.copied /\ r.messages = o.messages
  BY <1>1 DEF ConversationRow
<1>3. conversation' = [conversation EXCEPT ![c] = r]
  BY DEF ConversationsInv, RowsInv, ConversationRow
<1>4. made \subseteq made' /\ made' \subseteq Workspace /\ w \in made' \ made
  BY DEF NewWorkspace, ConversationsInv, RowsInv
<1> HIDE DEF r
<1>5. r.parent = Parent(c) /\ r.copied = conversation[c].copied
      /\ Continues(r.messages, conversation[c].messages)
  BY <1>1, <1>2, HistoriesGrow DEF Parent
<1> QED BY <1>1, <1>2, <1>3, <1>4, <1>5, RowChanges

LEMMA EnsureKeeps ==
    ASSUME ConversationsInv, NEW v \in Visit, NEW w \in Workspace, EnsureWorkspace(v, w)
    PROVE  ConversationsInv'
<1> DEFINE o == visit[v]
           x == [o EXCEPT !.pc = "stored"]
<1>1. /\ o.pc = "terminal" /\ NewWorkspace(w) /\ conversation' = [conversation EXCEPT ![o.c].workspace = w]
      /\ visit' = [visit EXCEPT ![v].pc = "stored"] /\ UNCHANGED terminals
  BY DEF EnsureWorkspace
<1>2. o \in VisitRow /\ o.c \in Conversation /\ Present(o.c)
  BY <1>1 DEF ConversationsInv, VisitOk, Present
<1>3. x \in VisitRow /\ x.pc = "stored" /\ x.c = o.c /\ visit' = [visit EXCEPT ![v] = x]
  BY <1>1, <1>2 DEF VisitRow, ConversationsInv
<1> HIDE DEF x
<1>4. RowsInv' /\ \A d \in Conversation : Present(d) =>
          Present(d)' /\ Continues(conversation'[d].messages, conversation[d].messages)
  BY <1>1, <1>2, WorkspaceStored
<1>5. VisitOk(conversation', x)
  BY <1>2, <1>3, <1>4 DEF VisitOk, Present
<1> QED BY <1>1, <1>3, <1>4, <1>5, RowStored

LEMMA ImportKeeps ==
    ASSUME ConversationsInv, NEW v \in Visit, NEW w \in Workspace, ImportWorkspace(v, w)
    PROVE  ConversationsInv'
<1> DEFINE o == visit[v]
           x == [o EXCEPT !.pc = "close"]
<1>1. /\ o.pc = "import" /\ NewWorkspace(w) /\ conversation' = [conversation EXCEPT ![o.c].workspace = w]
      /\ visit' = [visit EXCEPT ![v].pc = "close"] /\ UNCHANGED terminals
  BY DEF ImportWorkspace
<1>2. o \in VisitRow /\ o.c \in Conversation /\ Present(o.c)
  BY <1>1 DEF ConversationsInv, VisitOk, Present
<1>3. x \in VisitRow /\ x.pc = "close" /\ x.c = o.c /\ visit' = [visit EXCEPT ![v] = x]
  BY <1>1, <1>2 DEF VisitRow, ConversationsInv
<1> HIDE DEF x
<1>4. RowsInv' /\ \A d \in Conversation : Present(d) =>
          Present(d)' /\ Continues(conversation'[d].messages, conversation[d].messages)
  BY <1>1, <1>2, WorkspaceStored
<1>5. VisitOk(conversation', x)
  BY <1>2, <1>3, <1>4 DEF VisitOk, Present
<1> QED BY <1>1, <1>3, <1>4, <1>5, RowStored

LEMMA RereadKeeps == ASSUME ConversationsInv, NEW v \in Visit, RereadWorkspace(v) PROVE ConversationsInv'
<1> DEFINE o == visit[v]
           x == [o EXCEPT !.pc = "terminal", !.workspace = conversation[o.c].workspace]
<1>1. o.pc = "stored" /\ UNCHANGED <<conversation, made, terminals>>
  BY DEF RereadWorkspace
<1>2. o \in VisitRow /\ o.c \in Conversation /\ Present(o.c)
  BY <1>1 DEF ConversationsInv, VisitOk, Present
<1>3. conversation[o.c].workspace \in Workspace \union {NoWorkspace}
  BY <1>2 DEF ConversationsInv, RowsInv, ConversationRow
<1>4. x \in VisitRow /\ x.pc = "terminal" /\ x.c = o.c
  BY <1>2, <1>3 DEF VisitRow
<1>5. visit' = [visit EXCEPT ![v] = x]
  BY <1>2 DEF RereadWorkspace, VisitRow, ConversationsInv
<1> HIDE DEF x
<1>6. VisitOk(conversation', x)
  BY <1>1, <1>2, <1>4 DEF VisitOk, Present
<1>7. terminals' \in [Workspace -> Nat] /\ \A w \in Workspace : terminals'[w] <= MaxTerminals
  BY <1>1 DEF ConversationsInv, TerminalsLimited
<1> QED BY <1>1, <1>4, <1>5, <1>6, <1>7, TerminalsChange

(* A branch: its history is the beginning of what was read. *)
LEMMA ForkKeeps ==
    ASSUME ConversationsInv, NEW v \in Visit, NEW c \in Conversation,
           NEW w \in Workspace \union {NoWorkspace}, NEW boundary \in 0..MaxMessages,
           ForkConversation(v, c, w, boundary)
    PROVE  ConversationsInv'
<1> DEFINE o == visit[v]
           p == o.c
           t == SubSeq(o.read, 1, boundary)
           r == [mode |-> conversation[p].mode, workspace |-> w, parent |-> p, copied |-> boundary, messages |-> t]
<1>1. /\ o.pc = "fork" /\ ~Present(c) /\ boundary \in 0..Len(o.read) /\ CopyWorkspace(v, w)
      /\ conversation' = [conversation EXCEPT ![c] = r] /\ visit' = [visit EXCEPT ![v] = Nowhere]
      /\ UNCHANGED terminals
  BY DEF ForkConversation
<1>2. /\ o \in VisitRow /\ p \in Conversation /\ Present(p) /\ Continues(conversation[p].messages, o.read)
      /\ o.read \in Seq(Nat)
  BY <1>1 DEF ConversationsInv, VisitOk, Present, VisitRow
<1>3. t \in Seq(Nat) /\ AgreeTo(t, o.read, boundary) /\ boundary \in Nat
  BY <1>1, <1>2, Beginning
<1> HIDE DEF t
<1>4. conversation[p] \in ConversationRow /\ conversation[p].mode # "absent"
      /\ conversation[p].messages \in Seq(Nat)
      /\ conversation[p].mode \in {"absent", "chatbot", "coding-agent"}
  BY <1>2 DEF ConversationsInv, RowsInv, ConversationRow, Present
<1>5. /\ r \in ConversationRow /\ r.mode # "absent" /\ r.workspace = w
      /\ r.parent = p /\ r.copied = boundary /\ r.messages = t
  BY <1>2, <1>3, <1>4 DEF ConversationRow
<1> HIDE DEF r
<1>6. AgreeTo(t, conversation[p].messages, boundary)
  BY <1>2, <1>3, <1>4, HistoriesGrow
<1>7. made \subseteq made' /\ made' \subseteq Workspace /\ (w = NoWorkspace \/ w \in made' \ made)
  BY <1>1 DEF CopyWorkspace, NewWorkspace, ConversationsInv, RowsInv
<1>8. RowsInv' /\ \A d \in Conversation : Present(d) =>
          Present(d)' /\ Continues(conversation'[d].messages, conversation[d].messages)
  BY <1>1, <1>2, <1>5, <1>6, <1>7, RowChanges DEF ConversationsInv
<1>9. Nowhere \in VisitRow /\ VisitOk(conversation', Nowhere)
  BY AbsentRows DEF VisitOk, Present
<1> QED BY <1>1, <1>8, <1>9, RowStored

(* Every step keeps the invariant. *)
LEMMA ConversationsStepHolds == ConversationsInv /\ [ConversationsNext]_conversationVars => ConversationsInv'
<1> SUFFICES ASSUME ConversationsInv, [ConversationsNext]_conversationVars PROVE ConversationsInv'
  OBVIOUS
<1>1. terminals \in [Workspace -> Nat] /\ (\A w \in Workspace : terminals[w] <= MaxTerminals)
      /\ MaxTerminals \in Nat \ {0} /\ visit \in [Visit -> VisitRow]
  BY ConversationsAssumption DEF ConversationsInv, TerminalsLimited
<1>2. Nowhere \in VisitRow /\ VisitOk(conversation', Nowhere)
  BY AbsentRows DEF VisitOk, Present
<1>3. CASE UNCHANGED conversationVars
  BY <1>1, <1>3, TerminalsChange DEF conversationVars
<1>4. ASSUME NEW w \in Workspace, CloseOneTerminal(w) PROVE ConversationsInv'
  <2>1. terminals' = [terminals EXCEPT ![w] = terminals[w] - 1] /\ terminals[w] > 0
        /\ UNCHANGED <<conversation, made, visit>>
    BY <1>4 DEF CloseOneTerminal
  <2>2. terminals[w] - 1 \in Nat /\ terminals[w] - 1 <= MaxTerminals
    BY <1>1, <2>1
  <2>3. terminals' \in [Workspace -> Nat] /\ \A q \in Workspace : terminals'[q] <= MaxTerminals
    BY <1>1, <2>1, <2>2
  <2> QED BY <2>1, <2>3, TerminalsChange
<1>5. ASSUME NEW v \in Visit, CreateTerminal(v) PROVE ConversationsInv'
  <2> DEFINE w == visit[v].workspace
  <2>1. /\ w # NoWorkspace /\ visit' = [visit EXCEPT ![v] = Nowhere] /\ UNCHANGED <<conversation, made>>
        /\ terminals' = IF terminals[w] < MaxTerminals THEN [terminals EXCEPT ![w] = terminals[w] + 1]
                        ELSE terminals
    BY <1>5 DEF CreateTerminal
  <2>2. w \in Workspace
    BY <1>1, <2>1 DEF VisitRow
  <2> HIDE DEF w
  <2>3. terminals' \in [Workspace -> Nat] /\ \A q \in Workspace : terminals'[q] <= MaxTerminals
    <3>1. CASE terminals[w] < MaxTerminals
      <4>1. terminals[w] + 1 \in Nat /\ terminals[w] + 1 <= MaxTerminals
        BY <1>1, <2>2, <3>1
      <4> QED BY <1>1, <2>1, <2>2, <3>1, <4>1
    <3>2. CASE ~(terminals[w] < MaxTerminals)
      BY <1>1, <2>1, <3>2
    <3> QED BY <3>1, <3>2
  <2> QED BY <1>2, <2>1, <2>3, TerminalsChange
<1>6. ASSUME NEW v \in Visit, CloseWorkspace(v) PROVE ConversationsInv'
  <2> DEFINE w == visit[v].workspace
  <2>1. /\ visit' = [visit EXCEPT ![v] = Nowhere] /\ UNCHANGED <<conversation, made>>
        /\ terminals' = IF w = NoWorkspace THEN terminals ELSE [terminals EXCEPT ![w] = 0]
    BY <1>6 DEF CloseWorkspace
  <2> HIDE DEF w
  <2>2. terminals' \in [Workspace -> Nat] /\ \A q \in Workspace : terminals'[q] <= MaxTerminals
    <3>1. CASE w = NoWorkspace
      BY <1>1, <2>1, <3>1
    <3>2. CASE w # NoWorkspace
      <4>1. 0 \in Nat /\ 0 <= MaxTerminals /\ terminals' = [terminals EXCEPT ![w] = 0]
        BY <1>1, <2>1, <3>2
      <4>2. \A q \in Workspace : terminals'[q] = IF q = w THEN 0 ELSE terminals[q]
        BY <1>1, <4>1
      <4> QED BY <1>1, <4>1, <4>2
    <3> QED BY <3>1, <3>2
  <2> QED BY <1>2, <2>1, <2>2, TerminalsChange
<1>7. ASSUME NEW v \in Visit, RequestFails(v) PROVE ConversationsInv'
  <2>1. visit' = [visit EXCEPT ![v] = Nowhere] /\ UNCHANGED <<conversation, made, terminals>>
    BY <1>7 DEF RequestFails
  <2> QED BY <1>1, <1>2, <2>1, TerminalsChange
<1>8. CASE ConversationsNext
  BY <1>4, <1>5, <1>6, <1>7, <1>8, WriteKeeps, CreateKeeps, ReadRowKeeps, EnsureKeeps, ImportKeeps,
     RereadKeeps, ForkKeeps DEF ConversationsNext
<1> QED BY <1>3, <1>8

(* The invariant of the conversations. *)
THEOREM ConversationsInvariance == ConversationsSpec => []ConversationsInv
BY ConversationsInitHolds, ConversationsStepHolds, PTL DEF ConversationsSpec

(* What the invariant of the conversations says. *)
LEMMA ConversationsImply == ConversationsInv => ConversationsSound
<1> SUFFICES ASSUME ConversationsInv PROVE ConversationsSound
  OBVIOUS
<1>1. BranchesAreFamily
  BY BranchTreeIsFamily DEF ConversationsInv, RowsInv
<1>2. BranchKeepsHistory
  <2> SUFFICES ASSUME NEW c \in Conversation, Parent(c) # NoConversation
               PROVE  First(c, conversation[c].copied) = First(Parent(c), conversation[c].copied)
    BY DEF BranchKeepsHistory
  <2> DEFINE p == Parent(c)
             n == conversation[c].copied
             s == conversation[c].messages
             t == conversation[p].messages
  <2>1. p \in Conversation /\ n \in Nat /\ s \in Seq(Nat) /\ AgreeTo(s, t, n)
    BY DEF ConversationsInv, RowsInv, Forest, ConversationRow
  <2>2. t \in Seq(Nat)
    BY <2>1 DEF ConversationsInv, RowsInv, ConversationRow
  <2>3. Len(s) \in Nat /\ Len(t) \in Nat /\ n <= Len(s) /\ n <= Len(t) /\ \A i \in 1..n : s[i] = t[i]
    BY <2>1, <2>2 DEF AgreeTo
  <2> HIDE DEF p, n, s, t
  <2>4. SubSeq(s, 1, n) = [i \in 1..n |-> s[i]] /\ SubSeq(t, 1, n) = [i \in 1..n |-> t[i]]
    BY <2>1, <2>2, <2>3, Beginning
  <2>5. SubSeq(s, 1, n) = SubSeq(t, 1, n)
    BY <2>3, <2>4
  <2> QED BY <2>5 DEF First, p, n, s, t
<1> QED BY <1>1, <1>2 DEF ConversationsSound, ConversationsInv, RowsInv

(* No two conversations work in one workspace, its terminals stay within the
   limit, a branch keeps the history of its source up to the boundary, and the
   branch tree is the whole family of a conversation (conversations.py fork,
   branches, import; manager.py fork). *)
THEOREM ConversationsAreSound == ConversationsSpec => []ConversationsSound
BY ConversationsImply, ConversationsInvariance, PTL

(***************************************************************************)
(* What a model is given, and the summary of a conversation.               *)
(***************************************************************************)

(* The fold that Cost is: the sums over the sets of places of a sequence. *)
Chosen(places) == CHOOSE x \in places : TRUE
CostsOf(ms) == CHOOSE iter : iter =
    [s \in SUBSET DOMAIN ms |->
        IF s = {} THEN 0 ELSE LET x == CHOOSE x \in s : TRUE IN ms[x].cost + iter[s \ {x}]]

LEMMA CostIs == ASSUME NEW ms PROVE Cost(ms) = CostsOf(ms)[DOMAIN ms]
BY DEF Cost, FoldSeq, FoldFunction, FoldFunctionOnSet, MapThenFoldSet, CostsOf

(* Messages, whose costs are natural numbers. *)
ChatMessage == [role: {"system", "user", "assistant", "tool"}, cost: Nat]

(* The places of a sequence are finitely many, and so are those of each set. *)
LEMMA PlacesFinite ==
    ASSUME NEW S, NEW ms \in Seq(S)
    PROVE  IsWellFoundedOn(StrictSubsetOrdering(DOMAIN ms), SUBSET DOMAIN ms)
<1>1. DOMAIN ms = 1..Len(ms) /\ Len(ms) \in Nat
  OBVIOUS
<1>2. IsFiniteSet(DOMAIN ms)
  BY <1>1, FS_Interval
<1> QED BY <1>2, FS_StrictSubsetOrderingWellFounded, FS_FiniteSubsetsOfFinite

(* A property of all sets of places, by a smallest counterexample: "bad" are
   the sets without it. *)
LEMMA SmallestPlaces ==
    ASSUME NEW S, NEW ms \in Seq(S), NEW bad \in SUBSET SUBSET DOMAIN ms, bad # {}
    PROVE  \E s \in bad : \A t \in SUBSET s : t # s => t \notin bad
<1>1. PICK s \in bad : \A t \in bad : ~(<<t, s>> \in StrictSubsetOrdering(DOMAIN ms))
  BY PlacesFinite, WFMin
<1> SUFFICES ASSUME NEW t \in SUBSET s, t # s, t \in bad PROVE FALSE
  BY <1>1
<1>2. <<t, s>> \in StrictSubsetOrdering(DOMAIN ms)
  BY DEF StrictSubsetOrdering
<1> QED BY <1>1, <1>2

(* The sums exist: they are the least relation that the fold describes. *)
SumsClosed(ms, rel) ==
    /\ <<{}, 0>> \in rel
    /\ \A s \in SUBSET DOMAIN ms : \A n \in Nat :
           s # {} /\ <<s \ {Chosen(s)}, n>> \in rel => <<s, ms[Chosen(s)].cost + n>> \in rel
SumsOf(ms) == {p \in (SUBSET DOMAIN ms) \X Nat :
                  \A rel \in SUBSET ((SUBSET DOMAIN ms) \X Nat) : SumsClosed(ms, rel) => p \in rel}

LEMMA OneSum ==
    ASSUME NEW ms \in Seq(ChatMessage), NEW s \in SUBSET DOMAIN ms
    PROVE  /\ \E n \in Nat : \A m : <<s, m>> \in SumsOf(ms) <=> m = n
           /\ SumsClosed(ms, SumsOf(ms))
<1> DEFINE all == (SUBSET DOMAIN ms) \X Nat
           bad == {t \in SUBSET DOMAIN ms : ~ \E n \in Nat : \A m : <<t, m>> \in SumsOf(ms) <=> m = n}
<1>1. \A t \in SUBSET DOMAIN ms : t # {} => Chosen(t) \in t /\ ms[Chosen(t)].cost \in Nat
  <2> SUFFICES ASSUME NEW t \in SUBSET DOMAIN ms, t # {} PROVE Chosen(t) \in t /\ ms[Chosen(t)].cost \in Nat
    OBVIOUS
  <2>1. Chosen(t) \in t
    BY DEF Chosen
  <2>2. ms[Chosen(t)] \in ChatMessage
    BY <2>1
  <2> QED BY <2>1, <2>2 DEF ChatMessage
<1>2. SumsClosed(ms, SumsOf(ms))
  <2>1. <<{}, 0>> \in SumsOf(ms)
    BY DEF SumsOf, SumsClosed
  <2>2. ASSUME NEW t \in SUBSET DOMAIN ms, NEW n \in Nat, t # {}, <<t \ {Chosen(t)}, n>> \in SumsOf(ms)
        PROVE  <<t, ms[Chosen(t)].cost + n>> \in SumsOf(ms)
    <3>1. <<t, ms[Chosen(t)].cost + n>> \in all
      BY <1>1, <2>2
    <3>2. \A rel \in SUBSET all : SumsClosed(ms, rel) => <<t, ms[Chosen(t)].cost + n>> \in rel
      BY <2>2 DEF SumsOf, SumsClosed
    <3> QED BY <3>1, <3>2 DEF SumsOf
  <2> QED BY <2>1, <2>2 DEF SumsClosed
<1>3. SumsOf(ms) \subseteq all
  BY DEF SumsOf
<1>4. \A p \in SumsOf(ms) : SumsClosed(ms, SumsOf(ms) \ {p}) => FALSE
  <2> SUFFICES ASSUME NEW p \in SumsOf(ms), SumsClosed(ms, SumsOf(ms) \ {p}) PROVE FALSE
    OBVIOUS
  <2>1. SumsOf(ms) \ {p} \in SUBSET all
    BY <1>3
  <2>2. p \in SumsOf(ms) \ {p}
    BY <2>1 DEF SumsOf
  <2> QED BY <2>2
<1>5. bad = {}
  <2> SUFFICES ASSUME bad # {} PROVE FALSE
    OBVIOUS
  <2>1. PICK t \in bad : \A u \in SUBSET t : u # t => u \notin bad
    <3>1. bad \in SUBSET SUBSET DOMAIN ms
      OBVIOUS
    <3> HIDE DEF bad
    <3> QED BY <3>1, SmallestPlaces
  <2>2. t \in SUBSET DOMAIN ms
    BY <2>1
  <2>3. CASE t = {}
    <3>1. ASSUME NEW m, <<t, m>> \in SumsOf(ms), m # 0 PROVE FALSE
      <4>1. SumsClosed(ms, SumsOf(ms) \ {<<t, m>>})
        BY <1>1, <1>2, <2>3, <3>1 DEF SumsClosed
      <4> QED BY <1>4, <3>1, <4>1
    <3>2. <<t, 0>> \in SumsOf(ms)
      BY <1>2, <2>3 DEF SumsClosed
    <3>3. \A m : <<t, m>> \in SumsOf(ms) <=> m = 0
      BY <3>1, <3>2
    <3> QED BY <2>1, <3>3
  <2>4. CASE t # {}
    <3> DEFINE c == Chosen(t)
               u == t \ {c}
    <3>1. u \in SUBSET t /\ u # t /\ u \in SUBSET DOMAIN ms /\ ms[c].cost \in Nat
      BY <1>1, <2>2, <2>4
    <3>2. PICK n \in Nat : \A m : <<u, m>> \in SumsOf(ms) <=> m = n
      BY <2>1, <3>1
    <3> DEFINE k == ms[c].cost + n
    <3>3. k \in Nat /\ <<t, k>> \in SumsOf(ms)
      <4>1. k \in Nat
        BY <3>1, <3>2
      <4>2. <<t \ {Chosen(t)}, n>> \in SumsOf(ms)
        BY <3>2
      <4>3. <<t, ms[Chosen(t)].cost + n>> \in SumsOf(ms)
        BY <1>2, <2>2, <2>4, <4>2 DEF SumsClosed
      <4> QED BY <4>1, <4>3
    <3>4. ASSUME NEW m, <<t, m>> \in SumsOf(ms), m # k PROVE FALSE
      <4> DEFINE rel == SumsOf(ms) \ {<<t, m>>}
      <4>1. <<{}, 0>> \in rel
        BY <1>2, <2>4 DEF SumsClosed
      <4>2. ASSUME NEW v \in SUBSET DOMAIN ms, NEW l \in Nat, v # {}, <<v \ {Chosen(v)}, l>> \in rel
            PROVE  <<v, ms[Chosen(v)].cost + l>> \in rel
        <5>1. <<v, ms[Chosen(v)].cost + l>> \in SumsOf(ms)
          BY <1>2, <4>2 DEF SumsClosed
        <5>2. CASE v = t
          <6>1. l = n
            BY <3>2, <4>2, <5>2
          <6>2. ms[Chosen(v)].cost + l = k
            BY <5>2, <6>1
          <6> HIDE DEF k
          <6> QED BY <3>4, <5>1, <6>2
        <5>3. CASE v # t
          BY <5>1, <5>3
        <5> QED BY <5>2, <5>3
      <4>3. SumsClosed(ms, rel)
        BY <4>1, <4>2 DEF SumsClosed
      <4> QED BY <1>4, <3>4, <4>3
    <3> HIDE DEF k
    <3>5. \A m : <<t, m>> \in SumsOf(ms) <=> m = k
      BY <3>3, <3>4
    <3> QED BY <2>1, <3>3, <3>5
  <2> QED BY <2>3, <2>4
<1> QED BY <1>2, <1>5

LEMMA CostsExist ==
    ASSUME NEW ms \in Seq(ChatMessage)
    PROVE  \A s \in SUBSET DOMAIN ms :
               /\ CostsOf(ms)[s] \in Nat
               /\ s = {} => CostsOf(ms)[s] = 0
               /\ s # {} => CostsOf(ms)[s] = ms[Chosen(s)].cost + CostsOf(ms)[s \ {Chosen(s)}]
<1> DEFINE Sum(s) == CHOOSE n \in Nat : <<s, n>> \in SumsOf(ms)
           g == [s \in SUBSET DOMAIN ms |-> Sum(s)]
<1>1. \A s \in SUBSET DOMAIN ms : /\ Sum(s) \in Nat /\ <<s, Sum(s)>> \in SumsOf(ms)
                                  /\ \A n : <<s, n>> \in SumsOf(ms) => n = Sum(s)
  <2> SUFFICES ASSUME NEW s \in SUBSET DOMAIN ms
               PROVE  /\ Sum(s) \in Nat /\ <<s, Sum(s)>> \in SumsOf(ms)
                      /\ \A n : <<s, n>> \in SumsOf(ms) => n = Sum(s)
    OBVIOUS
  <2>1. PICK n \in Nat : \A m : <<s, m>> \in SumsOf(ms) <=> m = n
    BY OneSum
  <2>2. \E m \in Nat : <<s, m>> \in SumsOf(ms)
    BY <2>1
  <2>3. Sum(s) \in Nat /\ <<s, Sum(s)>> \in SumsOf(ms)
    BY <2>2
  <2> HIDE DEF Sum
  <2> QED BY <2>1, <2>3
<1> HIDE DEF Sum
<1>2. \A s \in SUBSET DOMAIN ms : s # {} =>
          Chosen(s) \in s /\ Sum(s) = ms[Chosen(s)].cost + Sum(s \ {Chosen(s)})
  <2> SUFFICES ASSUME NEW s \in SUBSET DOMAIN ms, s # {}
               PROVE  Chosen(s) \in s /\ Sum(s) = ms[Chosen(s)].cost + Sum(s \ {Chosen(s)})
    OBVIOUS
  <2>1. Chosen(s) \in s
    BY DEF Chosen
  <2>2. s \ {Chosen(s)} \in SUBSET DOMAIN ms
    OBVIOUS
  <2>3. SumsClosed(ms, SumsOf(ms))
    BY OneSum
  <2>4. <<s, ms[Chosen(s)].cost + Sum(s \ {Chosen(s)})>> \in SumsOf(ms)
    BY <1>1, <2>2, <2>3 DEF SumsClosed
  <2> QED BY <1>1, <2>1, <2>4
<1>3. Sum({}) = 0
  <2>1. <<{}, 0>> \in SumsOf(ms)
    BY OneSum DEF SumsClosed
  <2> QED BY <1>1, <2>1
<1>4. g = [s \in SUBSET DOMAIN ms |->
              IF s = {} THEN 0 ELSE LET x == CHOOSE x \in s : TRUE IN ms[x].cost + g[s \ {x}]]
  <2> SUFFICES ASSUME NEW s \in SUBSET DOMAIN ms
               PROVE  Sum(s) = IF s = {} THEN 0 ELSE ms[Chosen(s)].cost + g[s \ {Chosen(s)}]
    BY DEF Chosen
  <2>1. g[s \ {Chosen(s)}] = Sum(s \ {Chosen(s)})
    OBVIOUS
  <2> HIDE DEF g
  <2> QED BY <1>2, <1>3, <2>1
<1>5. \E h : h = [s \in SUBSET DOMAIN ms |->
              IF s = {} THEN 0 ELSE LET x == CHOOSE x \in s : TRUE IN ms[x].cost + h[s \ {x}]]
  <2> HIDE DEF g
  <2> QED BY <1>4
<1>6. CostsOf(ms) = [s \in SUBSET DOMAIN ms |->
              IF s = {} THEN 0 ELSE LET x == CHOOSE x \in s : TRUE IN ms[x].cost + CostsOf(ms)[s \ {x}]]
  BY <1>5 DEF CostsOf
<1> DEFINE f == CostsOf(ms)
<1>7. f = [s \in SUBSET DOMAIN ms |-> IF s = {} THEN 0 ELSE ms[Chosen(s)].cost + f[s \ {Chosen(s)}]]
  BY <1>6 DEF Chosen
<1> HIDE DEF f
<1>8. \A s \in SUBSET DOMAIN ms : f[s] = IF s = {} THEN 0 ELSE ms[Chosen(s)].cost + f[s \ {Chosen(s)}]
  BY <1>7
<1>9. \A s \in SUBSET DOMAIN ms : f[s] \in Nat
  <2> DEFINE bad == {s \in SUBSET DOMAIN ms : f[s] \notin Nat}
  <2> SUFFICES ASSUME bad # {} PROVE FALSE
    OBVIOUS
  <2>1. PICK s \in bad : \A t \in SUBSET s : t # s => t \notin bad
    <3>1. bad \in SUBSET SUBSET DOMAIN ms
      OBVIOUS
    <3> HIDE DEF bad
    <3> QED BY <3>1, SmallestPlaces
  <2>4. s \in SUBSET DOMAIN ms /\ f[s] \notin Nat
    BY <2>1
  <2>5. f[s] = IF s = {} THEN 0 ELSE ms[Chosen(s)].cost + f[s \ {Chosen(s)}]
    BY <1>8, <2>4
  <2>2. CASE s = {}
    BY <2>2, <2>4, <2>5
  <2>3. CASE s # {}
    <3>1. Chosen(s) \in s /\ s \in SUBSET DOMAIN ms
      BY <1>2, <2>1, <2>3
    <3>2. ms[Chosen(s)].cost \in Nat
      <4>1. ms[Chosen(s)] \in ChatMessage
        BY <3>1
      <4> QED BY <4>1 DEF ChatMessage
    <3>3. f[s \ {Chosen(s)}] \in Nat
      BY <2>1, <3>1
    <3>4. ms[Chosen(s)].cost + f[s \ {Chosen(s)}] \in Nat
      BY <3>2, <3>3
    <3> QED BY <2>3, <2>4, <2>5, <3>4
  <2> QED BY <2>2, <2>3
<1> QED BY <1>8, <1>9 DEF f

(* The order of the places does not matter. *)
LEMMA CostsAny ==
    ASSUME NEW ms \in Seq(ChatMessage)
    PROVE  \A s \in SUBSET DOMAIN ms : \A x \in s :
               CostsOf(ms)[s] = ms[x].cost + CostsOf(ms)[s \ {x}]
<1> DEFINE f == CostsOf(ms)
           Good(s) == \A x \in s : f[s] = ms[x].cost + f[s \ {x}]
           bad == {s \in SUBSET DOMAIN ms : ~Good(s)}
<1>1. \A s \in SUBSET DOMAIN ms : /\ f[s] \in Nat
                                  /\ s # {} => f[s] = ms[Chosen(s)].cost + f[s \ {Chosen(s)}]
  BY CostsExist
<1>2. \A s \in SUBSET DOMAIN ms : \A x \in s : ms[x].cost \in Nat
  <2>1. \A x \in DOMAIN ms : ms[x] \in ChatMessage
    OBVIOUS
  <2> QED BY <2>1 DEF ChatMessage
<1> HIDE DEF f
<1>3. bad = {}
  <2> SUFFICES ASSUME bad # {} PROVE FALSE
    OBVIOUS
  <2>1. PICK s \in bad : \A t \in SUBSET s : t # s => t \notin bad
    <3>1. bad \in SUBSET SUBSET DOMAIN ms
      OBVIOUS
    <3> HIDE DEF bad
    <3> QED BY <3>1, SmallestPlaces
  <2>2. s \in SUBSET DOMAIN ms
    BY <2>1
  <2>3. PICK x \in s : f[s] # ms[x].cost + f[s \ {x}]
    BY <2>1
  <2> DEFINE c == Chosen(s)
             u == s \ {c}
             v == s \ {x}
             w == (s \ {c}) \ {x}
  <2>4. c \in s
    BY <2>3 DEF Chosen
  <2>5. f[s] = ms[c].cost + f[u]
    BY <1>1, <2>2, <2>3
  <2>6. c # x
    BY <2>3, <2>5
  <2>7. f[u] = ms[x].cost + f[w]
    <3>1. u \in SUBSET s /\ u # s /\ x \in u /\ u \in SUBSET DOMAIN ms
      BY <2>2, <2>3, <2>4, <2>6
    <3>2. Good(u)
      BY <2>1, <3>1
    <3> QED BY <3>1, <3>2
  <2>8. f[v] = ms[c].cost + f[w]
    <3>1. v \in SUBSET s /\ v # s /\ c \in v /\ v \in SUBSET DOMAIN ms /\ v \ {c} = w
      BY <2>2, <2>3, <2>4, <2>6
    <3>2. Good(v)
      BY <2>1, <3>1
    <3> QED BY <3>1, <3>2
  <2>9. f[w] \in Nat /\ ms[c].cost \in Nat /\ ms[x].cost \in Nat
    BY <1>1, <1>2, <2>2, <2>3, <2>4
  <2> HIDE DEF u, v, w
  <2>10. f[s] = ms[x].cost + f[v]
    BY <2>5, <2>7, <2>8, <2>9
  <2> QED BY <2>3, <2>10 DEF v
<1>4. \A s \in SUBSET DOMAIN ms : Good(s)
  BY <1>3
<1> QED BY <1>4 DEF f

(* Nor does where the messages stand. *)
LEMMA CostsShift ==
    ASSUME NEW ms \in Seq(ChatMessage), NEW ns \in Seq(ChatMessage), NEW d \in Nat,
           \A i \in DOMAIN ms : i + d \in DOMAIN ns /\ ns[i + d].cost = ms[i].cost
    PROVE  \A s \in SUBSET DOMAIN ms : CostsOf(ns)[{i + d : i \in s}] = CostsOf(ms)[s]
<1> DEFINE f == CostsOf(ms)
           g == CostsOf(ns)
           Moved(s) == {i + d : i \in s}
           bad == {s \in SUBSET DOMAIN ms : g[Moved(s)] # f[s]}
<1>1. \A s \in SUBSET DOMAIN ms : /\ s = {} => f[s] = 0
                                  /\ s # {} => f[s] = ms[Chosen(s)].cost + f[s \ {Chosen(s)}]
  BY CostsExist
<1>2. g[{}] = 0 /\ \A s \in SUBSET DOMAIN ns : \A x \in s : g[s] = ns[x].cost + g[s \ {x}]
  BY CostsExist, CostsAny
<1>3. DOMAIN ms = 1..Len(ms) /\ Len(ms) \in Nat
  OBVIOUS
<1> HIDE DEF f, g
<1>4. bad = {}
  <2> SUFFICES ASSUME bad # {} PROVE FALSE
    OBVIOUS
  <2>1. PICK s \in bad : \A t \in SUBSET s : t # s => t \notin bad
    <3>1. bad \in SUBSET SUBSET DOMAIN ms
      OBVIOUS
    <3> HIDE DEF bad
    <3> QED BY <3>1, SmallestPlaces
  <2>2. s \in SUBSET DOMAIN ms /\ g[Moved(s)] # f[s]
    BY <2>1
  <2>3. CASE s = {}
    <3>1. Moved(s) = {}
      BY <2>3
    <3> QED BY <1>1, <1>2, <2>2, <2>3, <3>1
  <2>4. CASE s # {}
    <3> DEFINE c == Chosen(s)
               t == s \ {c}
    <3>1. c \in s
      BY <2>4 DEF Chosen
    <3>2. t \in SUBSET s /\ t # s /\ t \in SUBSET DOMAIN ms
      BY <2>2, <3>1
    <3>3. g[Moved(t)] = f[t]
      BY <2>1, <3>2
    <3>4. f[s] = ms[c].cost + f[t]
      BY <1>1, <2>2, <2>4
    <3> HIDE DEF c
    <3>5. Moved(s) \ {c + d} = Moved(t)
      <4>1. \A i \in s : i \in Nat
        BY <1>3, <2>2
      <4>2. \A i \in s : i + d = c + d => i = c
        BY <3>1, <4>1
      <4> QED BY <3>1, <4>2
    <3>6. c + d \in Moved(s) /\ Moved(s) \in SUBSET DOMAIN ns
      BY <2>2, <3>1
    <3>7. g[Moved(s)] = ns[c + d].cost + g[Moved(s) \ {c + d}]
      <4> HIDE DEF Moved
      <4> QED BY <1>2, <3>6
    <3>8. ns[c + d].cost = ms[c].cost
      BY <2>2, <3>1
    <3> HIDE DEF Moved, t
    <3> QED BY <2>2, <3>3, <3>4, <3>5, <3>7, <3>8
  <2> QED BY <2>3, <2>4
<1>5. \A s \in SUBSET DOMAIN ms : g[Moved(s)] = f[s]
  BY <1>4
<1> QED BY <1>5 DEF f, g

(* What Cost computes. *)
LEMMA CostIsNat == \A ms \in Seq(ChatMessage) : Cost(ms) \in Nat
BY CostIs, CostsExist

LEMMA CostOfNone == Cost(<<>>) = 0
<1>1. <<>> \in Seq(ChatMessage) /\ DOMAIN <<>> = {}
  OBVIOUS
<1> QED BY <1>1, CostIs, CostsExist

LEMMA CostOfFirst ==
    ASSUME NEW m \in ChatMessage, NEW ms \in Seq(ChatMessage)
    PROVE  /\ <<m>> \o ms \in Seq(ChatMessage) /\ Cost(<<m>> \o ms) = m.cost + Cost(ms)
           /\ Cost(<<m>>) = m.cost /\ <<m>> \in Seq(ChatMessage)
<1>1. ASSUME NEW xs \in Seq(ChatMessage)
      PROVE  <<m>> \o xs \in Seq(ChatMessage) /\ Cost(<<m>> \o xs) = m.cost + Cost(xs)
  <2> DEFINE ns == <<m>> \o xs
             n == Len(xs)
  <2>1. /\ ns \in Seq(ChatMessage) /\ n \in Nat /\ DOMAIN xs = 1..n /\ DOMAIN ns = 1..n + 1
        /\ ns[1] = m /\ \A i \in 1..n : ns[i + 1] = xs[i]
    OBVIOUS
  <2> HIDE DEF ns, n
  <2>2. \A i \in DOMAIN xs : i + 1 \in DOMAIN ns /\ ns[i + 1].cost = xs[i].cost
    BY <2>1
  <2>3. CostsOf(ns)[{i + 1 : i \in DOMAIN xs}] = CostsOf(xs)[DOMAIN xs]
    <3>1. ns \in Seq(ChatMessage) /\ 1 \in Nat
      BY <2>1
    <3>2. \A s \in SUBSET DOMAIN xs : CostsOf(ns)[{i + 1 : i \in s}] = CostsOf(xs)[s]
      BY <2>2, <3>1, CostsShift
    <3>3. DOMAIN xs \in SUBSET DOMAIN xs
      OBVIOUS
    <3> QED BY <3>2, <3>3
  <2>4. {i + 1 : i \in DOMAIN xs} = (DOMAIN ns) \ {1}
    <3>1. ASSUME NEW j \in (DOMAIN ns) \ {1} PROVE j \in {i + 1 : i \in DOMAIN xs}
      <4>1. j - 1 \in 1..n /\ (j - 1) + 1 = j
        BY <2>1, <3>1
      <4> QED BY <2>1, <4>1
    <3>2. ASSUME NEW j \in {i + 1 : i \in DOMAIN xs} PROVE j \in (DOMAIN ns) \ {1}
      <4>1. PICK i \in 1..n : j = i + 1
        BY <2>1, <3>2
      <4>2. j \in 1..n + 1 /\ j # 1
        BY <2>1, <4>1
      <4> QED BY <2>1, <4>2
    <3> QED BY <3>1, <3>2
  <2>5. 1 \in DOMAIN ns
    BY <2>1
  <2>6. CostsOf(ns)[DOMAIN ns] = ns[1].cost + CostsOf(ns)[(DOMAIN ns) \ {1}]
    <3>1. \A s \in SUBSET DOMAIN ns : \A x \in s : CostsOf(ns)[s] = ns[x].cost + CostsOf(ns)[s \ {x}]
      BY <2>1, CostsAny
    <3>2. DOMAIN ns \in SUBSET DOMAIN ns
      OBVIOUS
    <3> QED BY <2>5, <3>1, <3>2
  <2>7. Cost(ns) = m.cost + Cost(xs)
    BY <2>1, <2>3, <2>4, <2>6, CostIs
  <2> QED BY <2>1, <2>7 DEF ns
<1>2. <<m>> \o <<>> = <<m>> /\ <<>> \in Seq(ChatMessage) /\ <<m>> \in Seq(ChatMessage)
  OBVIOUS
<1>3. m.cost \in Nat
  BY DEF ChatMessage
<1>4. Cost(<<m>>) = m.cost + 0
  BY <1>1, <1>2, CostOfNone
<1> QED BY <1>1, <1>2, <1>3, <1>4

(* The end of a sequence of messages. *)
LEMMA SuffixIs ==
    ASSUME NEW ms \in Seq(ChatMessage), NEW m \in 1..Len(ms) + 1
    PROVE  LET t == Suffix(ms, m)
           IN  /\ t \in Seq(ChatMessage) /\ Len(t) = Len(ms) - m + 1 /\ DOMAIN t = 1..Len(t)
               /\ \A i \in 1..Len(t) : t[i] = ms[m + i - 1]
               /\ m <= Len(ms) => t # <<>> /\ ms # <<>> /\ Last(t) = Last(ms)
<1> DEFINE n == Len(ms)
           t == SubSeq(ms, m, n)
<1>1. n \in Nat /\ m \in Int /\ n \in Int /\ n - m + 1 \in Nat
  OBVIOUS
<1>2. \A i \in m..n : ms[i] \in ChatMessage
  OBVIOUS
<1>3. /\ t \in Seq(ChatMessage) /\ Len(t) = n - m + 1
      /\ \A i \in 1..n - m + 1 : t[i] = ms[m + i - 1]
  BY <1>1, <1>2
<1>4. ASSUME m <= n PROVE t # <<>> /\ ms # <<>> /\ Last(t) = Last(ms)
  <2> HIDE DEF t, n
  <2> DEFINE k == n - m + 1
  <2>1. k \in 1..k /\ m + k - 1 = n /\ k # 0 /\ n # 0
    BY <1>1, <1>4
  <2>2. t[k] = ms[n]
    BY <1>3, <2>1
  <2> HIDE DEF k
  <2>3. Len(t) = k /\ Len(ms) = n
    BY <1>3 DEF n, k
  <2> QED BY <2>1, <2>2, <2>3 DEF Last
<1> QED BY <1>1, <1>3, <1>4 DEF Suffix

(* A non-empty set of places has a least and a greatest member. *)
LEMMA LeastIs ==
    ASSUME NEW n \in Nat, NEW set \in SUBSET (1..n), set # {}
    PROVE  Least(set) \in set /\ \A j \in set : Least(set) <= j
<1> DEFINE bad == {s \in SUBSET (1..n) : s # {} /\ ~ \E i \in s : \A j \in s : i <= j}
<1>1. bad = {}
  <2> SUFFICES ASSUME bad # {} PROVE FALSE
    OBVIOUS
  <2>1. IsWellFoundedOn(StrictSubsetOrdering(1..n), SUBSET (1..n))
    <3>1. IsFiniteSet(1..n)
      BY FS_Interval
    <3> QED BY <3>1, FS_StrictSubsetOrderingWellFounded, FS_FiniteSubsetsOfFinite
  <2>2. PICK s \in bad : \A t \in bad : ~(<<t, s>> \in StrictSubsetOrdering(1..n))
    <3>1. bad \subseteq SUBSET (1..n)
      OBVIOUS
    <3> HIDE DEF bad
    <3> QED BY <2>1, <3>1, WFMin
  <2>3. PICK x \in s : TRUE
    BY <2>2
  <2>4. s \in SUBSET (1..n) /\ s \ {x} \in SUBSET (1..n) /\ x \in 1..n
    BY <2>2, <2>3
  <2>5. s \ {x} \notin bad
    <3>1. <<s \ {x}, s>> \in StrictSubsetOrdering(1..n)
      BY <2>3, <2>4 DEF StrictSubsetOrdering
    <3> QED BY <2>2, <3>1
  <2>6. CASE s \ {x} = {}
    <3>1. \A j \in s : j = x
      BY <2>6
    <3>2. \A j \in s : x <= j
      BY <2>4, <3>1
    <3> QED BY <2>2, <2>3, <3>2
  <2>7. CASE s \ {x} # {}
    <3>1. PICK y \in s \ {x} : \A j \in s \ {x} : y <= j
      BY <2>4, <2>5, <2>7
    <3>2. y \in 1..n /\ \A j \in s : j \in 1..n
      BY <2>4, <3>1
    <3>3. CASE x <= y
      <4>1. \A j \in s : x <= j
        BY <2>4, <3>1, <3>2, <3>3
      <4> QED BY <2>2, <2>3, <4>1
    <3>4. CASE ~(x <= y)
      <4>1. \A j \in s : y <= j
        BY <2>4, <3>1, <3>2, <3>4
      <4> QED BY <2>2, <3>1, <4>1
    <3> QED BY <3>3, <3>4
  <2> QED BY <2>6, <2>7
<1>2. \E i \in set : \A j \in set : i <= j
  BY <1>1
<1> QED BY <1>2 DEF Least

LEMMA GreatestIs ==
    ASSUME NEW n \in Nat, NEW set \in SUBSET (1..n), set # {}
    PROVE  Greatest(set) \in set /\ \A j \in set : j <= Greatest(set)
<1> DEFINE other == {n + 1 - i : i \in set}
           least == Least(other)
<1>1. \A i \in set : i \in 1..n /\ n + 1 - i \in 1..n /\ n + 1 - i \in other
  OBVIOUS
<1>2. other \in SUBSET (1..n) /\ other # {}
  BY <1>1
<1>3. least \in other /\ \A j \in other : least <= j
  <2> HIDE DEF other
  <2> QED BY <1>2, LeastIs
<1>4. PICK i \in set : least = n + 1 - i
  BY <1>3
<1>5. ASSUME NEW j \in set PROVE j <= i
  <2>1. n + 1 - i <= n + 1 - j
    BY <1>1, <1>3, <1>4
  <2> QED BY <1>1, <2>1
<1>6. \E k \in set : \A j \in set : j <= k
  BY <1>5
<1> QED BY <1>6 DEF Greatest

(* The newest messages fit into the room there is. *)
LEMMA NewestFits ==
    ASSUME NEW ms \in Seq(ChatMessage), NEW room \in Nat
    PROVE  LET t == Newest(ms, room)
           IN  /\ t \in Seq(ChatMessage) /\ Cost(t) <= room /\ (ms = <<>> => t = <<>>)
               /\ ms # <<>> => t # <<>> /\ Last(t).role = Last(ms).role
<1> DEFINE n == Len(ms)
<1>1. n \in Nat
  OBVIOUS
<1>2. CASE ms = <<>>
  <2>1. Newest(ms, room) = <<>> /\ <<>> \in Seq(ChatMessage)
    BY <1>2 DEF Newest
  <2>2. Cost(Newest(ms, room)) <= room
    BY <2>1, CostOfNone
  <2> QED BY <1>2, <2>1, <2>2
<1>3. CASE ms # <<>> /\ Last(ms).cost > room
  <2> DEFINE m == [Last(ms) EXCEPT !.cost = room]
  <2>1. Last(ms) \in ChatMessage
    BY <1>3 DEF Last
  <2>2. m \in ChatMessage /\ m.cost = room /\ m.role = Last(ms).role
    BY <2>1 DEF ChatMessage
  <2>3. Newest(ms, room) = <<m>>
    BY <1>3 DEF Newest
  <2> HIDE DEF m
  <2>4. Cost(<<m>>) = room /\ <<m>> \in Seq(ChatMessage)
    BY <2>2, CostOfFirst, <<>> \in Seq(ChatMessage)
  <2>5. <<m>> # <<>> /\ Last(<<m>>) = m
    BY DEF Last
  <2> QED BY <1>3, <2>2, <2>3, <2>4, <2>5
<1>4. CASE ms # <<>> /\ ~(Last(ms).cost > room)
  <2> DEFINE set == {i \in 1..n : Cost(Suffix(ms, i)) <= room}
  <2>1. n \in 1..n /\ n \in 1..n + 1
    BY <1>1, <1>4
  <2>2. Suffix(ms, n) = <<Last(ms)>> /\ Last(ms) \in ChatMessage
    <3> DEFINE t == Suffix(ms, n)
    <3>1. t \in Seq(ChatMessage) /\ Len(t) = n - n + 1 /\ t # <<>> /\ Last(t) = Last(ms)
      <4>1. n <= Len(ms)
        BY <1>1
      <4>2. n \in 1..Len(ms) + 1 /\ n - n + 1 = Len(ms) - n + 1
        BY <2>1
      <4> HIDE DEF n
      <4> QED BY <4>1, <4>2, SuffixIs
    <3> HIDE DEF t
    <3>2. Len(t) = 1
      BY <1>1, <3>1
    <3>3. t = <<t[1]>> /\ t[1] \in ChatMessage
      BY <3>1, <3>2
    <3>4. t[1] = Last(ms)
      BY <3>1, <3>2 DEF Last
    <3> QED BY <3>3, <3>4 DEF t
  <2>3. Cost(Suffix(ms, n)) <= room
    <3>1. Cost(<<Last(ms)>>) = Last(ms).cost
      BY <2>2, CostOfFirst, <<>> \in Seq(ChatMessage)
    <3>2. Last(ms).cost \in Nat
      BY <2>2 DEF ChatMessage
    <3> QED BY <1>4, <2>2, <3>1, <3>2
  <2>4. set \in SUBSET (1..n) /\ set # {}
    BY <2>1, <2>3
  <2>5. Least(set) \in set
    <3> HIDE DEF set
    <3> QED BY <1>1, <2>4, LeastIs
  <2> DEFINE i == Least(set)
  <2>6. i \in 1..n /\ Cost(Suffix(ms, i)) <= room
    BY <2>5
  <2>7. Newest(ms, room) = Suffix(ms, i)
    BY <1>4 DEF Newest
  <2> HIDE DEF i
  <2>8. i \in 1..n + 1 /\ i <= n
    BY <1>1, <2>6
  <2>9. /\ Suffix(ms, i) \in Seq(ChatMessage) /\ Suffix(ms, i) # <<>>
        /\ Last(Suffix(ms, i)) = Last(ms)
    BY <2>8, SuffixIs
  <2> QED BY <1>4, <2>6, <2>7, <2>9
<1> QED BY <1>2, <1>3, <1>4

(* The message in front, cut to its share, fits by itself. *)
LEMMA HeadFits ==
    ASSUME NEW ms \in Seq(ChatMessage), ms # <<>>
    PROVE  \/ HeadOf(ms) = <<>>
           \/ \E m \in ChatMessage : /\ HeadOf(ms) = <<m>> /\ m.role = ms[1].role
                                     /\ m.cost <= MaxTokens
<1> USE ContextAssumption
<1>1. ms[1] \in ChatMessage
  OBVIOUS
<1>2. ms[1].cost \in Nat
  BY <1>1 DEF ChatMessage
<1>3. /\ MaxTokens \in Nat /\ Overhead \in Nat /\ Share \in Nat
      /\ Share + Overhead \in Nat /\ Share + Overhead <= MaxTokens
      /\ Share <= MaxTokens
  BY DEF Share
<1>4. CASE ms[1].role # "system"
  BY <1>4 DEF HeadOf
<1>5. CASE ms[1].role = "system" /\ ms[1].cost > Share
  <2> DEFINE m == [ms[1] EXCEPT !.cost = Share + Overhead]
  <2>1. m \in ChatMessage /\ m.role = ms[1].role /\ m.cost = Share + Overhead
    BY <1>1, <1>3 DEF ChatMessage
  <2>2. HeadOf(ms) = <<m>>
    BY <1>5 DEF HeadOf
  <2> HIDE DEF m
  <2> QED BY <1>3, <2>1, <2>2
<1>6. CASE ms[1].role = "system" /\ ~(ms[1].cost > Share)
  <2>1. HeadOf(ms) = <<ms[1]>>
    BY <1>6 DEF HeadOf
  <2>2. ms[1].cost <= MaxTokens
    BY <1>2, <1>3, <1>6
  <2> QED BY <1>1, <2>1, <2>2
<1> QED BY <1>4, <1>5, <1>6

(* What is fitted stays within the budget, and keeps the newest message. *)
LEMMA FitIs ==
    ASSUME NEW ms \in Seq(ChatMessage), ms # <<>>
    PROVE  /\ Fit(ms) \in Seq(ChatMessage) /\ Fit(ms) # <<>> /\ Cost(Fit(ms)) <= MaxTokens
           /\ Last(Fit(ms)).role = Last(ms).role
           /\ Cost(ms) <= MaxTokens => Fit(ms) = ms
<1> DEFINE n == Len(ms)
<1>0. MaxTokens \in Nat /\ n \in Nat /\ n # 0
  BY ContextAssumption
<1>1. CASE Cost(ms) <= MaxTokens
  <2>1. Fit(ms) = ms
    BY <1>1 DEF Fit
  <2> QED BY <1>1, <2>1
<1>2. CASE ~(Cost(ms) <= MaxTokens) /\ HeadOf(ms) = <<>>
  <2> DEFINE t == Newest(ms, MaxTokens)
  <2>1. Suffix(ms, 1) = ms
    BY DEF Suffix
  <2>2. Remaining(ms) = MaxTokens
    BY <1>0, <1>2, CostOfNone DEF Remaining
  <2>3. Len(HeadOf(ms)) + 1 = 1
    BY <1>2
  <2>4. Fit(ms) = <<>> \o t
    BY <1>2, <2>1, <2>2, <2>3 DEF Fit
  <2>5. /\ t \in Seq(ChatMessage) /\ t # <<>> /\ Cost(t) <= MaxTokens
        /\ Last(t).role = Last(ms).role
    BY <1>0, NewestFits
  <2> HIDE DEF t
  <2>6. <<>> \o t = t
    BY <2>5
  <2> QED BY <1>2, <2>4, <2>5, <2>6
<1>3. CASE ~(Cost(ms) <= MaxTokens) /\ HeadOf(ms) # <<>>
  <2>1. PICK m \in ChatMessage : /\ HeadOf(ms) = <<m>> /\ m.role = ms[1].role
                                 /\ m.cost <= MaxTokens
    BY <1>3, HeadFits
  <2> DEFINE rest == Suffix(ms, 2)
             room == MaxTokens - m.cost
             t == Newest(rest, room)
  <2>2. m.cost \in Nat
    BY DEF ChatMessage
  <2>3. room \in Nat /\ m.cost + room = MaxTokens
    BY <1>0, <2>1, <2>2
  <2>4. Remaining(ms) = room
    BY <2>1, CostOfFirst, <<>> \in Seq(ChatMessage) DEF Remaining
  <2>5. Len(HeadOf(ms)) + 1 = 2
    BY <2>1
  <2>6. Fit(ms) = <<m>> \o t
    BY <1>3, <2>1, <2>4, <2>5 DEF Fit
  <2>7. 2 \in 1..n + 1
    BY <1>0
  <2>8. rest \in Seq(ChatMessage) /\ Len(rest) = n - 2 + 1
    BY <2>7, SuffixIs
  <2>9. /\ t \in Seq(ChatMessage) /\ Cost(t) <= room /\ (rest = <<>> => t = <<>>)
        /\ rest # <<>> => t # <<>> /\ Last(t).role = Last(rest).role
    <3> HIDE DEF rest, room
    <3> QED BY <2>3, <2>8, NewestFits
  <2>10. <<m>> \o t \in Seq(ChatMessage) /\ Cost(<<m>> \o t) = m.cost + Cost(t)
    <3> HIDE DEF t
    <3> QED BY <2>9, CostOfFirst
  <2>11. Cost(t) \in Nat
    <3> HIDE DEF t
    <3> QED BY <2>9, CostIsNat
  <2>12. m.cost + Cost(t) <= MaxTokens
    <3> HIDE DEF t, room
    <3> QED BY <1>0, <2>2, <2>3, <2>9, <2>11
  <2>13. <<m>> \o t # <<>>
    <3> HIDE DEF t
    <3> QED BY <2>9
  <2>14. Last(<<m>> \o t).role = Last(ms).role
    <3>1. CASE n = 1
      <4>1. rest = <<>>
        <5> HIDE DEF rest
        <5> QED BY <2>8, <3>1
      <4>2. t = <<>>
        <5> HIDE DEF t
        <5> QED BY <2>9, <4>1
      <4> HIDE DEF t
      <4>3. <<m>> \o t = <<m>> /\ Last(<<m>>) = m
        BY <4>2 DEF Last
      <4>4. Last(ms) = ms[1]
        BY <3>1 DEF Last
      <4> QED BY <2>1, <4>3, <4>4
    <3>2. CASE n # 1
      <4>1. rest # <<>> /\ Last(rest) = Last(ms)
        <5>1. 2 <= Len(ms) /\ 2 \in 1..Len(ms) + 1
          <6> HIDE DEF n
          <6>1. 2 <= n /\ 2 \in 1..n + 1
            BY <1>0, <3>2
          <6> QED BY <6>1 DEF n
        <5> HIDE DEF t, room, n
        <5>2. \A i \in 1..Len(ms) + 1 : i <= Len(ms) => Suffix(ms, i) # <<>> /\ Last(Suffix(ms, i)) = Last(ms)
          BY SuffixIs
        <5> QED BY <5>1, <5>2
      <4>2. t # <<>> /\ Last(t).role = Last(ms).role /\ t \in Seq(ChatMessage)
        <5> HIDE DEF t, rest
        <5> QED BY <2>9, <4>1
      <4> HIDE DEF t
      <4>3. Len(<<m>> \o t) = 1 + Len(t) /\ Len(t) \in Nat /\ Len(t) # 0
        BY <4>2
      <4>4. (<<m>> \o t)[1 + Len(t)] = t[Len(t)]
        BY <4>2, <4>3
      <4> QED BY <4>2, <4>3, <4>4 DEF Last
    <3> QED BY <3>1, <3>2
  <2> HIDE DEF t
  <2> QED BY <1>3, <2>6, <2>10, <2>12, <2>13, <2>14
<1> QED BY <1>1, <1>2, <1>3

(* Where the newest messages begin: no earlier than the first one, and never
   with a tool result, when every result follows its call. *)
LEMMA KeepFromIs ==
    ASSUME NEW ms \in Seq(ChatMessage), ms # <<>>
    PROVE  KeepFrom(ms) \in 1..Len(ms)
<1> DEFINE n == Len(ms)
           set == {i \in 1..n : i = n \/ Cost(Suffix(ms, i)) <= MaxTokens \div 2}
<1>1. n \in Nat /\ n \in 1..n
  OBVIOUS
<1>2. set \in SUBSET (1..n) /\ set # {}
  BY <1>1
<1>3. Least(set) \in set
  <2> HIDE DEF set
  <2> QED BY <1>1, <1>2, LeastIs
<1> QED BY <1>3 DEF KeepFrom

LEMMA BackIs ==
    ASSUME NEW ms \in Seq(ChatMessage), Paired(ms), NEW start \in 1..Len(ms)
    PROVE  BackToCall(ms, start) \in 1..start /\ ms[BackToCall(ms, start)].role # "tool"
<1> DEFINE calls == {i \in 1..start : ms[i].role # "tool"}
<1>1. start \in Nat /\ 1 \in 1..start /\ 1 \in DOMAIN ms
  OBVIOUS
<1>2. ms[1].role # "tool"
  BY <1>1 DEF Paired
<1>3. calls \in SUBSET (1..start) /\ calls # {}
  BY <1>1, <1>2
<1>4. Greatest(calls) \in calls
  <2> HIDE DEF calls
  <2> QED BY <1>1, <1>3, GreatestIs
<1>5. BackToCall(ms, start) = Greatest(calls)
  BY <1>3 DEF BackToCall
<1> QED BY <1>4, <1>5

(* The summary with the newest messages behind it. *)
LEMMA CompactedIs ==
    ASSUME NEW ms \in Seq(ChatMessage), ms # <<>>, Paired(ms), NEW cost \in Nat
    PROVE  LET t == Compacted(ms, cost)
           IN  t \in Seq(ChatMessage) /\ t # <<>> /\ Last(t) = Last(ms) /\ Paired(t)
<1> DEFINE b == BackToCall(ms, KeepFrom(ms))
           m == Message("system", cost)
           s == Suffix(ms, b)
           t == <<m>> \o s
           n == Len(ms)
           k == Len(s)
<1>1. n \in Nat /\ b \in 1..n /\ ms[b].role # "tool" /\ DOMAIN ms = 1..n
  <2>1. KeepFrom(ms) \in 1..n
    BY KeepFromIs
  <2>2. b \in 1..KeepFrom(ms) /\ ms[b].role # "tool"
    BY <2>1, BackIs
  <2>3. n \in Nat /\ DOMAIN ms = 1..n
    OBVIOUS
  <2> HIDE DEF b, n
  <2> QED BY <2>1, <2>2, <2>3
<1>2. m \in ChatMessage /\ m.role = "system"
  BY DEF Message, ChatMessage
<1> HIDE DEF b, m
<1>3. /\ s \in Seq(ChatMessage) /\ k = n - b + 1 /\ \A i \in 1..k : s[i] = ms[b + i - 1]
      /\ s # <<>> /\ Last(s) = Last(ms)
  <2>1. b \in 1..Len(ms) + 1 /\ b <= Len(ms)
    BY <1>1
  <2> QED BY <2>1, SuffixIs
<1>4. k \in Nat /\ k >= 1
  <2> HIDE DEF s, n
  <2> QED BY <1>1, <1>3
<1> HIDE DEF s
<1>5. /\ t \in Seq(ChatMessage) /\ Len(t) = k + 1 /\ DOMAIN t = 1..k + 1
      /\ t[1] = m /\ \A i \in 1..k : t[i + 1] = s[i]
  BY <1>2, <1>3
<1> HIDE DEF t, k, n
<1>6. t # <<>> /\ Last(t) = Last(ms)
  <2>1. t[k + 1] = s[k] /\ t # <<>>
    BY <1>4, <1>5
  <2>2. Last(t) = t[k + 1] /\ Last(s) = s[k]
    BY <1>5 DEF Last, k
  <2> QED BY <1>3, <2>1, <2>2
<1>7. Paired(t)
  <2> SUFFICES ASSUME NEW i \in 1..k + 1, t[i].role = "tool"
               PROVE  i > 1 /\ t[i - 1].role \in {"assistant", "tool"}
    BY <1>5 DEF Paired
  <2>1. i # 1
    BY <1>2, <1>5
  <2> DEFINE j == b + (i - 1) - 1
  <2>2. i - 1 \in 1..k /\ (i - 1) + 1 = i
    BY <1>4, <2>1
  <2>3. t[i] = ms[j]
    BY <1>3, <1>5, <2>2
  <2>4. i - 1 # 1
    BY <1>1, <1>3, <2>3
  <2>5. i - 2 \in 1..k /\ (i - 2) + 1 = i - 1
    BY <1>4, <2>2, <2>4
  <2>6. t[i - 1] = ms[b + (i - 2) - 1]
    BY <1>3, <1>5, <2>5
  <2>7. b + (i - 2) - 1 = j - 1 /\ j \in 1..n
    BY <1>1, <1>3, <1>4, <2>2
  <2>8. ms[j].role = "tool"
    BY <2>3
  <2>9. ms[j - 1].role \in {"assistant", "tool"}
    <3> HIDE DEF j
    <3> QED BY <1>1, <2>7, <2>8 DEF Paired
  <2> QED BY <1>4, <2>1, <2>6, <2>7, <2>9
<1> QED BY <1>5, <1>6, <1>7 DEF Compacted, t, s, b, m

(* The messages of the loop, and what the model was given of them. *)
LoopInv ==
    /\ messages \in Seq(ChatMessage) /\ messages # <<>> /\ Paired(messages)
    /\ given \in [how: {"nothing", "whole", "summary", "cut"}, messages: Seq(ChatMessage)]
    /\ WithinBudget /\ NewestGiven /\ SummaryKeepsCalls

(* A summary covers a beginning of the conversation, and whoever prepares a
   history has a beginning of it: summarised up to u, and read from there. *)
StoreInv ==
    /\ history \in 0..MaxLength
    /\ summary \in [covers: SUBSET (1..MaxLength), until: 0..MaxLength]
    /\ summary.covers = 1..summary.until /\ summary.until <= history
    /\ preparer \in [Preparer -> [pc: {Nobody, "read", "done"}, rows: SUBSET (1..MaxLength),
                                  base: SUBSET (1..MaxLength), gives: SUBSET (1..MaxLength)]]
    /\ \A p \in Preparer :
           /\ preparer[p].pc = "read" => \E u \in 0..history, h \in 0..history :
                  u <= h /\ preparer[p].rows = u + 1 .. h /\ preparer[p].base = 1..u
           /\ preparer[p].pc = "done" => \E n \in 0..history : preparer[p].gives = 1..n

ContextInv == LoopInv /\ StoreInv

(* At the beginning. *)
LEMMA ContextStarts == ContextInit => ContextInv
<1> SUFFICES ASSUME ContextInit PROVE ContextInv
  OBVIOUS
<1> USE ContextAssumption
<1>1. PICK cost \in Costs : messages \in {<<Message("user", cost)>>} \union
          {<<Message("system", c), Message("user", cost)>> : c \in Costs}
  BY DEF ContextInit
<1>2. \A c \in Costs : \A role \in {"system", "user", "assistant", "tool"} :
          Message(role, c) \in ChatMessage /\ Message(role, c).role = role
  BY DEF Message, ChatMessage
<1>3. messages \in Seq(ChatMessage) /\ messages # <<>> /\ Paired(messages)
  <2>1. CASE messages = <<Message("user", cost)>>
    <3> DEFINE m == Message("user", cost)
    <3>1. m \in ChatMessage /\ m.role = "user"
      BY <1>2
    <3> HIDE DEF m
    <3>2. messages = <<m>>
      BY <2>1 DEF m
    <3>3. messages \in Seq(ChatMessage) /\ DOMAIN messages = {1} /\ messages[1] = m
      BY <3>1, <3>2
    <3>4. messages # <<>> /\ \A i \in DOMAIN messages : messages[i].role # "tool"
      BY <3>1, <3>2, <3>3
    <3> QED BY <3>3, <3>4 DEF Paired
  <2>2. CASE \E c \in Costs : messages = <<Message("system", c), Message("user", cost)>>
    <3>1. PICK c \in Costs : messages = <<Message("system", c), Message("user", cost)>>
      BY <2>2
    <3> DEFINE m == Message("system", c)
               l == Message("user", cost)
    <3>2. m \in ChatMessage /\ m.role = "system" /\ l \in ChatMessage /\ l.role = "user"
      BY <1>2
    <3>3. messages = <<m, l>>
      BY <3>1
    <3> HIDE DEF m, l
    <3>4. /\ messages \in Seq(ChatMessage) /\ DOMAIN messages = {1, 2}
          /\ messages[1] = m /\ messages[2] = l
      BY <3>2, <3>3
    <3>5. messages # <<>> /\ \A i \in DOMAIN messages : messages[i].role # "tool"
      BY <3>2, <3>3, <3>4
    <3> QED BY <3>4, <3>5 DEF Paired
  <2> QED BY <1>1, <2>1, <2>2
<1>4. /\ given = Nothing /\ given.messages = <<>> /\ given.how = "nothing"
      /\ given \in [how: {"nothing", "whole", "summary", "cut"}, messages: Seq(ChatMessage)]
  BY DEF ContextInit, Nothing
<1>5. LoopInv
  <2>1. WithinBudget
    BY <1>4, CostOfNone DEF WithinBudget
  <2> QED BY <1>3, <1>4, <2>1 DEF LoopInv, NewestGiven, SummaryKeepsCalls
<1>6. StoreInv
  <2>1. history = 0 /\ summary = [covers |-> {}, until |-> 0]
    BY DEF ContextInit
  <2>2. /\ history \in 0..MaxLength /\ summary \in [covers: SUBSET (1..MaxLength), until: 0..MaxLength]
        /\ summary.covers = 1..summary.until /\ summary.until <= history
    BY <2>1
  <2>3. preparer = [p \in Preparer |-> [pc |-> Nobody, rows |-> {}, base |-> {}, gives |-> {}]]
    BY DEF ContextInit
  <2>4. preparer \in [Preparer -> [pc: {Nobody, "read", "done"}, rows: SUBSET (1..MaxLength),
                                   base: SUBSET (1..MaxLength), gives: SUBSET (1..MaxLength)]]
    BY <2>3
  <2>5. ASSUME NEW p \in Preparer
        PROVE  /\ \E u \in 0..history, h \in 0..history :
                      u <= h /\ preparer[p].rows = u + 1 .. h /\ preparer[p].base = 1..u
               /\ \E n \in 0..history : preparer[p].gives = 1..n
    <3>1. preparer[p].rows = {} /\ preparer[p].base = {} /\ preparer[p].gives = {}
      BY <2>3
    <3>2. 0 \in 0..history /\ 0 + 1 .. 0 = {} /\ 1..0 = {} /\ 0 <= 0
      BY <2>1
    <3> QED BY <3>1, <3>2
  <2> QED BY <2>2, <2>4, <2>5 DEF StoreInv
<1> QED BY <1>5, <1>6 DEF ContextInv

(* The end of a turn: results follow the message that calls for them. *)
LEMMA TurnKeeps ==
    ASSUME LoopInv, NEW assistant \in Costs, NEW n \in 0..2, NEW more \in [1..n -> Costs],
           NEW role \in {"tool", "user"}, role = "user" => n = 1, Turn(assistant, role, more)
    PROVE  LoopInv'
<1> USE ContextAssumption
<1> DEFINE l == Len(messages)
           a == Message("assistant", assistant)
           s == Append(messages, a)
           r == [i \in 1..n |-> Message(role, more[i])]
           t == s \o r
<1>1. /\ l \in Nat /\ DOMAIN messages = 1..l /\ messages \in Seq(ChatMessage)
      /\ messages # <<>> /\ Paired(messages) /\ n \in Nat
  BY DEF LoopInv
<1>2. a \in ChatMessage /\ a.role = "assistant"
  BY DEF Message, ChatMessage
<1>3. \A i \in 1..n : Message(role, more[i]) \in ChatMessage /\ Message(role, more[i]).role = role
  <2>1. \A i \in 1..n : more[i] \in Nat
    OBVIOUS
  <2> QED BY <2>1 DEF Message, ChatMessage
<1>4. messages' = t
  BY DEF Turn
<1> HIDE DEF a
<1>5. /\ r \in Seq(ChatMessage) /\ Len(r) = n /\ \A i \in 1..n : r[i].role = role
  <2>1. r \in [1..n -> ChatMessage]
    BY <1>3
  <2>2. \A i \in 1..n : r[i].role = role
    BY <1>3
  <2> HIDE DEF r
  <2> QED BY <1>1, <2>1, <2>2
<1> HIDE DEF r
<1>6. /\ s \in Seq(ChatMessage) /\ Len(s) = l + 1 /\ s[l + 1] = a
      /\ \A i \in 1..l : s[i] = messages[i]
  BY <1>1, <1>2
<1> HIDE DEF s, l
<1>7. /\ t \in Seq(ChatMessage) /\ Len(t) = (l + 1) + n /\ DOMAIN t = 1..(l + 1) + n
      /\ \A i \in 1..(l + 1) + n : t[i] = IF i <= l + 1 THEN s[i] ELSE r[i - (l + 1)]
  BY <1>1, <1>5, <1>6
<1> HIDE DEF t
<1>8. /\ \A i \in 1..l : t[i] = messages[i]
      /\ t[l + 1].role = "assistant"
      /\ \A i \in 1..(l + 1) + n : i > l + 1 => t[i].role = role
  <2>1. ASSUME NEW i \in 1..l PROVE t[i] = messages[i]
    <3>1. i \in 1..(l + 1) + n /\ i <= l + 1
      BY <1>1
    <3> QED BY <1>6, <1>7, <3>1
  <2>2. t[l + 1].role = "assistant"
    <3>1. l + 1 \in 1..(l + 1) + n /\ l + 1 <= l + 1
      BY <1>1
    <3> QED BY <1>2, <1>6, <1>7, <3>1
  <2>3. ASSUME NEW i \in 1..(l + 1) + n, i > l + 1 PROVE t[i].role = role
    <3>1. i - (l + 1) \in 1..n /\ ~(i <= l + 1)
      BY <1>1, <2>3
    <3> QED BY <1>5, <1>7, <3>1
  <2> QED BY <2>1, <2>2, <2>3
<1>9. Paired(t)
  <2> SUFFICES ASSUME NEW i \in 1..(l + 1) + n, t[i].role = "tool"
               PROVE  i > 1 /\ t[i - 1].role \in {"assistant", "tool"}
    BY <1>7 DEF Paired
  <2>1. CASE i \in 1..l
    <3>1. i > 1 /\ messages[i - 1].role \in {"assistant", "tool"}
      BY <1>1, <1>8, <2>1 DEF Paired
    <3>2. i - 1 \in 1..l
      BY <1>1, <2>1, <3>1
    <3> QED BY <1>8, <3>1, <3>2
  <2>2. CASE i = l + 1
    BY <1>8, <2>2
  <2>3. CASE i = l + 2
    <3>1. i - 1 = l + 1 /\ i > 1
      BY <1>1, <2>3
    <3> QED BY <1>8, <3>1
  <2>4. CASE i > l + 2
    <3>1. i - 1 \in 1..(l + 1) + n /\ i - 1 > l + 1 /\ i > 1 /\ i > l + 1
      BY <1>1, <2>4
    <3>2. t[i - 1].role = role /\ t[i].role = role
      BY <1>8, <3>1
    <3> QED BY <3>1, <3>2
  <2> QED BY <1>1, <2>1, <2>2, <2>3, <2>4
<1>10. t # <<>>
  <2>1. (l + 1) + n # 0
    BY <1>1
  <2> QED BY <1>7, <2>1
<1>11. /\ given' = Nothing /\ given'.messages = <<>> /\ given'.how = "nothing"
       /\ given' \in [how: {"nothing", "whole", "summary", "cut"}, messages: Seq(ChatMessage)]
  BY DEF Turn, Nothing
<1>12. WithinBudget'
  BY <1>11, CostOfNone DEF WithinBudget
<1>13. NewestGiven' /\ SummaryKeepsCalls'
  BY <1>11 DEF NewestGiven, SummaryKeepsCalls, Nothing
<1> QED BY <1>4, <1>7, <1>9, <1>10, <1>11, <1>12, <1>13 DEF LoopInv, Paired

(* What the model is given. *)
LEMMA CompactKeeps ==
    ASSUME LoopInv, NEW ok \in BOOLEAN, NEW cost \in Costs, Compact(ok, cost)
    PROVE  LoopInv'
<1> USE ContextAssumption
<1> DEFINE summed == Compacted(messages, cost)
           recent == BackToCall(messages, KeepFrom(messages))
<1>1. /\ messages \in Seq(ChatMessage) /\ messages # <<>> /\ Paired(messages)
      /\ messages' = messages /\ Cost(messages) \in Nat
      /\ MaxTokens \in Nat /\ Trigger \in Nat /\ Trigger <= MaxTokens /\ cost \in Nat
  BY CostIsNat DEF LoopInv, Compact
<1>2. summed \in Seq(ChatMessage) /\ summed # <<>> /\ Last(summed) = Last(messages) /\ Paired(summed)
  BY <1>1, CompactedIs
<1>3. /\ Fit(messages) \in Seq(ChatMessage) /\ Fit(messages) # <<>>
      /\ Cost(Fit(messages)) <= MaxTokens /\ Last(Fit(messages)).role = Last(messages).role
  BY <1>1, FitIs
<1> HIDE DEF summed, recent
<1>4. /\ Fit(summed) \in Seq(ChatMessage) /\ Fit(summed) # <<>>
      /\ Cost(Fit(summed)) <= MaxTokens /\ Last(Fit(summed)).role = Last(summed).role
      /\ Cost(summed) <= MaxTokens => Fit(summed) = summed
  BY <1>2, FitIs
<1>5. Cost(summed) \in Nat
  BY <1>2, CostIsNat
<1>6. given' = IF Cost(messages) <= Trigger THEN [how |-> "whole", messages |-> messages]
               ELSE IF recent = 1 \/ ~ok THEN [how |-> "cut", messages |-> Fit(messages)]
               ELSE [how |-> IF Cost(summed) > MaxTokens THEN "cut" ELSE "summary",
                     messages |-> Fit(summed)]
  BY DEF Compact, summed, recent
<1>7. /\ given' \in [how: {"nothing", "whole", "summary", "cut"}, messages: Seq(ChatMessage)]
      /\ Cost(given'.messages) <= MaxTokens /\ given'.messages # <<>>
      /\ Last(given'.messages).role = Last(messages).role
      /\ given'.how = "summary" => Paired(given'.messages)
  <2>1. CASE Cost(messages) <= Trigger
    <3>1. given' = [how |-> "whole", messages |-> messages]
      BY <1>6, <2>1
    <3>2. Cost(messages) <= MaxTokens
      BY <1>1, <2>1
    <3> QED BY <1>1, <3>1, <3>2
  <2>2. CASE ~(Cost(messages) <= Trigger) /\ (recent = 1 \/ ~ok)
    <3>1. given' = [how |-> "cut", messages |-> Fit(messages)]
      BY <1>6, <2>2
    <3> QED BY <1>3, <3>1
  <2>3. CASE ~(Cost(messages) <= Trigger) /\ ~(recent = 1 \/ ~ok) /\ Cost(summed) > MaxTokens
    <3>1. given' = [how |-> "cut", messages |-> Fit(summed)]
      BY <1>6, <2>3
    <3> QED BY <1>2, <1>4, <3>1
  <2>4. CASE ~(Cost(messages) <= Trigger) /\ ~(recent = 1 \/ ~ok) /\ ~(Cost(summed) > MaxTokens)
    <3>1. Cost(summed) <= MaxTokens
      BY <1>1, <1>5, <2>4
    <3>2. given' = [how |-> "summary", messages |-> summed]
      BY <1>4, <1>6, <2>4, <3>1
    <3> QED BY <1>2, <3>1, <3>2
  <2> QED BY <2>1, <2>2, <2>3, <2>4
<1>8. WithinBudget' /\ NewestGiven' /\ SummaryKeepsCalls'
  BY <1>1, <1>7 DEF WithinBudget, NewestGiven, SummaryKeepsCalls, Paired
<1> QED BY <1>1, <1>7, <1>8 DEF LoopInv, Paired

(* A new message, and a run that reads. *)
LEMMA StoreMessageKeeps == ASSUME StoreInv, StoreMessage PROVE StoreInv'
<1>1. /\ MaxLength \in Nat /\ history \in 0..MaxLength /\ history < MaxLength
      /\ history' = history + 1 /\ summary' = summary /\ preparer' = preparer
  BY ContextAssumption DEF StoreInv, StoreMessage
<1>2. history' \in 0..MaxLength /\ \A n \in 0..history : n \in 0..history'
  BY <1>1
<1>3. summary'.until <= history'
  <2>1. summary.until \in Nat /\ summary.until <= history
    BY <1>1 DEF StoreInv
  <2> QED BY <1>1, <2>1
<1>4. ASSUME NEW p \in Preparer
      PROVE  /\ preparer[p].pc = "read" => \E u \in 0..history', h \in 0..history' :
                    u <= h /\ preparer[p].rows = u + 1 .. h /\ preparer[p].base = 1..u
             /\ preparer[p].pc = "done" => \E n \in 0..history' : preparer[p].gives = 1..n
  BY <1>2 DEF StoreInv
<1> QED BY <1>1, <1>2, <1>3, <1>4 DEF StoreInv

LEMMA ReadHistoryKeeps == ASSUME StoreInv, NEW p \in Preparer, ReadHistory(p) PROVE StoreInv'
<1> DEFINE u == summary.until
           row == [pc |-> "read", rows |-> u + 1 .. history, base |-> summary.covers, gives |-> {}]
<1>1. /\ MaxLength \in Nat /\ history \in 0..MaxLength /\ u \in 0..MaxLength /\ u <= history
      /\ summary.covers = 1..u /\ summary.covers \in SUBSET (1..MaxLength)
      /\ history' = history /\ summary' = summary
      /\ preparer' = [preparer EXCEPT ![p] = row]
  BY ContextAssumption DEF StoreInv, ReadHistory
<1>2. row \in [pc: {Nobody, "read", "done"}, rows: SUBSET (1..MaxLength),
               base: SUBSET (1..MaxLength), gives: SUBSET (1..MaxLength)]
  <2> HIDE DEF u
  <2>1. u + 1 .. history \in SUBSET (1..MaxLength)
    BY <1>1
  <2> QED BY <1>1, <2>1
<1>3. row.pc = "read" /\ row.rows = u + 1 .. history /\ row.base = 1..u
  BY <1>1
<1> HIDE DEF row, u
<1>4. \A q \in Preparer : preparer'[q] = IF q = p THEN row ELSE preparer[q]
  BY <1>1 DEF StoreInv
<1>5. preparer' \in [Preparer -> [pc: {Nobody, "read", "done"}, rows: SUBSET (1..MaxLength),
                                  base: SUBSET (1..MaxLength), gives: SUBSET (1..MaxLength)]]
  BY <1>1, <1>2 DEF StoreInv
<1>6. ASSUME NEW q \in Preparer
      PROVE  /\ preparer'[q].pc = "read" => \E v \in 0..history, h \in 0..history :
                    v <= h /\ preparer'[q].rows = v + 1 .. h /\ preparer'[q].base = 1..v
             /\ preparer'[q].pc = "done" => \E n \in 0..history : preparer'[q].gives = 1..n
  <2>1. CASE q = p
    <3>1. u \in 0..history /\ history \in 0..history
      BY <1>1
    <3> QED BY <1>1, <1>3, <1>4, <2>1, <3>1
  <2>2. CASE q # p
    BY <1>4, <2>2 DEF StoreInv
  <2> QED BY <2>1, <2>2
<1> QED BY <1>1, <1>5, <1>6 DEF StoreInv

(* The messages that a run folds, which read those from u + 1 to h. *)
LEMMA OlderIs ==
    ASSUME NEW u \in Nat, NEW h \in Nat, u <= h
    PROVE  LET rows == u + 1 .. h
           IN  /\ rows \union (1..u) = 1..h
               /\ Older(rows) # {} => \E n \in 0..h :
                      Greatest(Older(rows)) = n /\ (1..u) \union Older(rows) = 1..n
<1> DEFINE rows == u + 1 .. h
           older == Older(rows)
           n == h - Recent
<1>0. Recent \in Nat /\ Recent > 0
  BY ContextAssumption
<1>1. rows \union (1..u) = 1..h
  OBVIOUS
<1>2. ASSUME older # {}
      PROVE  n \in 0..h /\ Greatest(older) = n /\ (1..u) \union older = 1..n
  <2>1. PICK x \in rows : x + Recent <= Greatest(rows)
    BY <1>2 DEF Older
  <2>2. rows \in SUBSET (1..h) /\ h \in rows /\ \A i \in rows : i <= h /\ i \in Nat
    BY <2>1
  <2>3. Greatest(rows) = h
    <3> HIDE DEF rows
    <3>1. Greatest(rows) \in rows /\ h <= Greatest(rows)
      BY <2>2, GreatestIs
    <3> DEFINE g == Greatest(rows)
    <3>2. g \in Nat /\ g <= h /\ h <= g
      BY <2>2, <3>1
    <3> HIDE DEF g
    <3>3. g = h
      BY <3>2
    <3> QED BY <3>3 DEF g
  <2>4. \A i : i \in older <=> i \in u + 1 .. n
    <3>1. \A i : i \in older <=> i \in rows /\ i + Recent <= h
      BY <2>3 DEF Older
    <3> HIDE DEF older
    <3> QED BY <1>0, <3>1
  <2> HIDE DEF older
  <2>5. x \in older /\ x \in rows
    BY <2>1, <2>3 DEF older, Older
  <2>6. u + 1 <= n /\ n \in 0..h /\ n \in Nat
    <3>1. x \in u + 1 .. n
      BY <2>4, <2>5
    <3> QED BY <1>0, <3>1
  <2> HIDE DEF rows, n
  <2>7. n \in older /\ older \in SUBSET (1..n) /\ \A i \in older : i <= n /\ i \in Nat
    BY <2>4, <2>6
  <2>8. Greatest(older) = n
    <3>1. Greatest(older) \in older /\ n <= Greatest(older)
      BY <2>6, <2>7, GreatestIs
    <3> DEFINE g == Greatest(older)
    <3>2. g \in Nat /\ g <= n /\ n <= g
      BY <2>7, <3>1
    <3> HIDE DEF g
    <3>3. g = n
      BY <2>6, <3>2
    <3> QED BY <3>3 DEF g
  <2>9. (1..u) \union older = 1..n
    BY <2>4, <2>6
  <2> QED BY <2>6, <2>8, <2>9
<1> QED BY <1>1, <1>2

(* A run folds what it read, and returns its history. *)
LEMMA FoldHistoryKeeps ==
    ASSUME StoreInv, NEW p \in Preparer, NEW long \in BOOLEAN, FoldHistory(p, long)
    PROVE  StoreInv'
<1> DEFINE rows == preparer[p].rows
           covered == preparer[p].base
           folds == (long \/ Cardinality(rows) > TriggerCount) /\ Older(rows) # {}
           row == [preparer[p] EXCEPT !.pc = "done", !.gives = rows \union covered]
<1>1. /\ MaxLength \in Nat /\ history \in 0..MaxLength /\ history \in Nat /\ history' = history
      /\ summary \in [covers: SUBSET (1..MaxLength), until: 0..MaxLength]
      /\ summary.covers = 1..summary.until /\ summary.until <= history
      /\ preparer[p].pc = "read"
      /\ preparer \in [Preparer -> [pc: {Nobody, "read", "done"}, rows: SUBSET (1..MaxLength),
                                    base: SUBSET (1..MaxLength), gives: SUBSET (1..MaxLength)]]
  BY ContextAssumption DEF StoreInv, FoldHistory
<1>2. /\ preparer' = [preparer EXCEPT ![p].pc = "done", ![p].gives = rows \union covered]
      /\ summary' = IF folds THEN [covers |-> covered \union Older(rows), until |-> Greatest(Older(rows))]
                    ELSE summary
  BY DEF FoldHistory
<1>3. PICK u \in 0..history, h \in 0..history : u <= h /\ rows = u + 1 .. h /\ covered = 1..u
  BY <1>1 DEF StoreInv
<1>4. /\ row \in [pc: {Nobody, "read", "done"}, rows: SUBSET (1..MaxLength),
                  base: SUBSET (1..MaxLength), gives: SUBSET (1..MaxLength)]
      /\ row.pc = "done" /\ row.gives = rows \union covered
  BY <1>1
<1>5. preparer' = [preparer EXCEPT ![p] = row]
  BY <1>1, <1>2
<1> HIDE DEF row, rows, covered, folds
<1>6. \A q \in Preparer : preparer'[q] = IF q = p THEN row ELSE preparer[q]
  BY <1>1, <1>5
<1>7. preparer' \in [Preparer -> [pc: {Nobody, "read", "done"}, rows: SUBSET (1..MaxLength),
                                  base: SUBSET (1..MaxLength), gives: SUBSET (1..MaxLength)]]
  BY <1>1, <1>4, <1>5
<1>8. /\ rows \union covered = 1..h
      /\ Older(rows) # {} => \E n \in 0..h :
             Greatest(Older(rows)) = n /\ covered \union Older(rows) = 1..n
  <2>1. u \in Nat /\ h \in Nat
    BY <1>1
  <2> QED BY <1>3, <2>1, OlderIs
<1>9. ASSUME NEW q \in Preparer
      PROVE  /\ preparer'[q].pc = "read" => \E v \in 0..history, g \in 0..history :
                    v <= g /\ preparer'[q].rows = v + 1 .. g /\ preparer'[q].base = 1..v
             /\ preparer'[q].pc = "done" => \E n \in 0..history : preparer'[q].gives = 1..n
  <2>1. CASE q = p
    BY <1>4, <1>6, <1>8, <2>1
  <2>2. CASE q # p
    BY <1>6, <2>2 DEF StoreInv
  <2> QED BY <2>1, <2>2
<1>10. /\ summary' \in [covers: SUBSET (1..MaxLength), until: 0..MaxLength]
       /\ summary'.covers = 1..summary'.until /\ summary'.until <= history
  <2>1. CASE folds
    <3>1. PICK n \in 0..h : Greatest(Older(rows)) = n /\ covered \union Older(rows) = 1..n
      BY <1>8, <2>1 DEF folds
    <3>2. summary' = [covers |-> 1..n, until |-> n]
      BY <1>2, <2>1, <3>1
    <3>3. n \in 0..MaxLength /\ n <= history /\ 1..n \in SUBSET (1..MaxLength)
      BY <1>1
    <3> QED BY <3>2, <3>3
  <2>2. CASE ~folds
    BY <1>1, <1>2, <2>2
  <2> QED BY <2>1, <2>2
<1> QED BY <1>1, <1>7, <1>9, <1>10 DEF StoreInv

(* Every step of the loop and of the store. *)
LEMMA ContextSteps == ASSUME ContextInv, [ContextNext]_contextVars PROVE ContextInv'
<1>1. LoopInv /\ StoreInv
  BY DEF ContextInv
<1>2. ASSUME LoopNext PROVE LoopInv' /\ UNCHANGED storeVars
  <2>1. ASSUME NEW assistant \in Costs, NEW n \in 0..2, NEW more \in [1..n -> Costs],
               Turn(assistant, "tool", more)
        PROVE  LoopInv' /\ UNCHANGED storeVars
    <3>1. LoopInv'
      BY <1>1, <2>1, TurnKeeps
    <3> QED BY <2>1, <3>1 DEF Turn
  <2>2. ASSUME NEW assistant \in Costs, NEW n \in 0..2, NEW more \in [1..n -> Costs], n = 1,
               Turn(assistant, "user", more)
        PROVE  LoopInv' /\ UNCHANGED storeVars
    <3>1. LoopInv'
      BY <1>1, <2>2, TurnKeeps
    <3> QED BY <2>2, <3>1 DEF Turn
  <2>3. ASSUME NEW ok \in BOOLEAN, NEW cost \in Costs, Compact(ok, cost)
        PROVE  LoopInv' /\ UNCHANGED storeVars
    <3>1. LoopInv'
      BY <1>1, <2>3, CompactKeeps
    <3> QED BY <2>3, <3>1 DEF Compact
  <2> QED BY <1>2, <2>1, <2>2, <2>3 DEF LoopNext
<1>3. ASSUME StoreNext PROVE StoreInv' /\ UNCHANGED loopVars
  <2>1. ASSUME StoreMessage PROVE StoreInv' /\ UNCHANGED loopVars
    <3>1. StoreInv'
      BY <1>1, <2>1, StoreMessageKeeps
    <3> QED BY <2>1, <3>1 DEF StoreMessage
  <2>2. ASSUME NEW p \in Preparer, ReadHistory(p) PROVE StoreInv' /\ UNCHANGED loopVars
    <3>1. StoreInv'
      BY <1>1, <2>2, ReadHistoryKeeps
    <3> QED BY <2>2, <3>1 DEF ReadHistory
  <2>3. ASSUME NEW p \in Preparer, NEW long \in BOOLEAN, FoldHistory(p, long)
        PROVE  StoreInv' /\ UNCHANGED loopVars
    <3>1. StoreInv'
      BY <1>1, <2>3, FoldHistoryKeeps
    <3> QED BY <2>3, <3>1 DEF FoldHistory
  <2> QED BY <1>3, <2>1, <2>2, <2>3 DEF StoreNext
<1>4. UNCHANGED storeVars => StoreInv'
  BY <1>1 DEF storeVars, StoreInv
<1>5. UNCHANGED loopVars => LoopInv'
  BY <1>1 DEF loopVars, LoopInv, WithinBudget, NewestGiven, SummaryKeepsCalls, Paired, Nothing
<1>6. UNCHANGED contextVars => UNCHANGED loopVars /\ UNCHANGED storeVars
  BY DEF contextVars, loopVars, storeVars
<1> QED BY <1>2, <1>3, <1>4, <1>5, <1>6 DEF ContextNext, ContextInv

(* What the model is given fits into its budget, ends with the newest message
   and keeps its calls together; and a summary covers exactly a beginning of
   the conversation, whatever runs fold it meanwhile. *)
THEOREM ContextInvariance == ContextSpec => []ContextInv
<1>1. ContextInv /\ [ContextNext]_contextVars => ContextInv'
  BY ContextSteps
<1> QED BY <1>1, ContextStarts, PTL DEF ContextSpec

(* What the inductive invariant says. *)
LEMMA ContextSays == ContextInv => ContextTypeOK /\ ContextFits
<1> SUFFICES ASSUME ContextInv PROVE ContextTypeOK /\ ContextFits
  OBVIOUS
<1>1. LoopInv /\ StoreInv
  BY DEF ContextInv
<1>2. ContextTypeOK
  <2>1. /\ messages \in Seq(ChatMessage) /\ given.messages \in Seq(ChatMessage)
        /\ given.how \in {"nothing", "whole", "summary", "cut"}
    BY <1>1 DEF LoopInv
  <2> QED BY <1>1, <2>1 DEF StoreInv, ContextTypeOK, ChatMessage
<1>3. HistoryIsWhole
  BY <1>1 DEF StoreInv, HistoryIsWhole
<1> QED BY <1>1, <1>2, <1>3 DEF LoopInv, ContextFits

(* A model is never given more than its budget, always the newest message, and
   never a result without its call; and no message of a prepared history is
   lost (context.py fit_llm_messages and compact_llm_messages; the prepare of
   services/context.py). *)
THEOREM ContextIsWhole == ContextSpec => []ContextFits
<1>1. ContextInv => ContextFits
  BY ContextSays
<1> QED BY <1>1, ContextInvariance, PTL

(***************************************************************************)
(* All of it together.                                                     *)
(***************************************************************************)

(* Whichever part moves, every part keeps its own invariant. *)
WorkbenchInv ==
    /\ part \in Parts /\ AccountsInv /\ ConversationsInv /\ FilesInv /\ TerminalInv
    /\ LspInv /\ MemoryInv /\ ExtensionsInv /\ ContextInv

(* The step of one part is a step of its own, and a stutter of the others. *)
LEMMA WorkbenchStep == WorkbenchInv /\ [WorkbenchNext]_workbenchVars => WorkbenchInv'
<1> SUFFICES ASSUME WorkbenchInv, [WorkbenchNext]_workbenchVars PROVE WorkbenchInv'
  OBVIOUS
<1>1. /\ [AccountsNext]_accountVars /\ [ConversationsNext]_conversationVars
      /\ [FilesNext]_fileVars /\ [TerminalNext]_terminalVars /\ [LspNext]_lspVars
      /\ [MemoryNext]_memoryVars /\ [ExtensionsNext]_extensionVars
      /\ [ContextNext]_contextVars /\ part' = part
  BY DEF WorkbenchNext, workbenchVars, AccountsNext, ContextNext
<1> QED BY <1>1, AccountsStepHolds, ConversationsStepHolds, FilesStepHolds, TerminalStepHolds,
           LspStepHolds, MemoryStepHolds, ExtensionsStepHolds, ContextSteps DEF WorkbenchInv

(* The types of a language server, in the form the runs check. *)
LEMMA LspTypes == LspInv => LspTypeOK
<1> SUFFICES ASSUME LspInv PROVE LspTypeOK
  OBVIOUS
<1>1. LspTyped
  BY DEF LspInv
<1>2. \A m \in replies : m.to \in Caller
  BY <1>1 DEF LspTyped, Reply
<1>3. \A q \in Caller : caller[q].pc \in {"idle", "notify", "ask", "send", "wait", "done"}
  BY <1>1 DEF LspTyped, CallerRow
<1> QED BY <1>1, <1>2, <1>3 DEF LspTypeOK, LspTyped, LspRow

(* All parts keep their types and their promises side by side. *)
THEOREM WorkbenchIsSound ==
    WorkbenchSpec => [](WorkbenchTypeOK /\ SessionsSound /\ ConversationsSound /\ FilesSafe
                        /\ TerminalStreams /\ DocumentsAgree /\ MemoriesKept
                        /\ ActivationSound /\ ContextFits)
<1>1. WorkbenchInit => WorkbenchInv
  BY AccountsInitHolds, ConversationsInitHolds, FilesInitHolds, TerminalInitHolds, LspInitHolds,
     MemoryInitHolds, ExtensionsInitHolds, ContextStarts DEF WorkbenchInit, WorkbenchInv
<1>2. WorkbenchInv => WorkbenchTypeOK
  <2>1. ConversationsInv => ConversationsTypeOK
    BY DEF ConversationsInv, RowsInv, ConversationRow, VisitRow, ConversationsTypeOK
  <2>2. /\ AccountsInv => AccountsTypeOK
        /\ FilesInv => FilesTypeOK
        /\ TerminalInv => TerminalTypeOK
        /\ MemoryInv => MemoryTypeOK
        /\ ExtensionsInv => ExtensionsTypeOK
    BY DEF AccountsInv, FilesInv, TerminalInv, MemoryInv, ExtensionsInv
  <2> QED BY <2>1, <2>2, LspTypes, ContextSays DEF WorkbenchInv, WorkbenchTypeOK
<1>3. WorkbenchInv => /\ SessionsSound /\ ConversationsSound /\ FilesSafe /\ TerminalStreams
                      /\ DocumentsAgree /\ MemoriesKept /\ ActivationSound /\ ContextFits
  <2>1. AccountsInv => SessionsSound
    BY DEF AccountsInv
  <2>2. FilesInv => FilesSafe
    BY DEF FilesInv
  <2> QED BY <2>1, <2>2, ConversationsImply, TerminalImplies, LspImplies, MemoryImplies,
             ExtensionsImply, ContextSays DEF WorkbenchInv
<1> QED BY <1>1, <1>2, <1>3, WorkbenchStep, PTL DEF WorkbenchSpec
=============================================================================
