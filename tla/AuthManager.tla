----------------------------- MODULE AuthManager -----------------------------
(***************************************************************************)
(* The OpenBao session of one process: the token manager                   *)
(* (internal/auth/manager.go, recovery.go), the requests that use its      *)
(* tokens and retry once (internal/openbao/client.go, do), and the server  *)
(* that issues, renews, revokes and refuses tokens (external).             *)
(*                                                                         *)
(* A step is what the code does under Manager.mu, or one exchange with     *)
(* OpenBao.  Tokens are numbered in the order the server issues them: two  *)
(* logins never return the same value, and 0 is the empty string.          *)
(***************************************************************************)
EXTENDS Clock, Sequences, FiniteSets

CONSTANTS Callers,                   \* goroutines that call OpenBao
          LoginBeforeTokenExpiry,    \* auth.loginBeforeTokenExpiry, in ticks
          RenewalEnabled,            \* ManagerOptions.RenewalEnabled
          baseRetryBackoff, maxRetryBackoff,
          tokenRecoveryInterval, maxTokenRecoveryInterval,
          Leases,                    \* lease durations that OpenBao grants
          WallOffsets,               \* how far the wall clock may be ahead
          MaxFailures,               \* bound: failures in a row that are counted
          MaxTokens,                 \* bound: tokens that OpenBao issues
          Events                     \* which of AllEvents may happen

AllEvents == {"wall",      \* the wall clock is corrected
              "refuse",    \* OpenBao refuses a token: revoked, or policy
              "fault",     \* a login, renewal, request or reply fails
              "cancel",    \* a caller's context ends
              "refresh",   \* Manager.Refresh is called
              "stop"}      \* the provider's lifecycle context ends

ASSUME AuthAssumption ==
  /\ {LoginBeforeTokenExpiry, baseRetryBackoff, maxRetryBackoff,
      tokenRecoveryInterval, maxTokenRecoveryInterval} \subseteq Nat \ {0}
  /\ baseRetryBackoff <= maxRetryBackoff
  /\ tokenRecoveryInterval <= maxTokenRecoveryInterval
  /\ RenewalEnabled \in BOOLEAN
  /\ Leases \subseteq Nat /\ WallOffsets \subseteq Int
  /\ MaxFailures \in Nat /\ MaxTokens \in Nat
  /\ MaxFailures > 0
  /\ baseRetryBackoff * 2^(MaxFailures - 1) >= maxRetryBackoff
  /\ tokenRecoveryInterval * 2^(MaxFailures - 1) >= maxTokenRecoveryInterval
  /\ Events \subseteq AllEvents

\* Doubling never shrinks a backoff.
ASSUME DoublingAssumption ==
  /\ tokenRecoveryInterval * 2^0 = tokenRecoveryInterval
  /\ \A n \in 0..MaxFailures : tokenRecoveryInterval * 2^n >= tokenRecoveryInterval

VARIABLES wall,      \* how far the wall clock is ahead of the elapsed one
          mgr,       \* Manager: the fields its methods change
          flight,    \* Manager.flight with its goroutine, an option
          caller,    \* the progress of each caller
          stopped,   \* the lifecycle context is done
          issued,    \* external: the number of tokens OpenBao has issued
          rejected,  \* history: tokens that rejectTokenLocked has discarded
          recoveries \* history: ticks since the last two recovery logins
                     \* started, counted up to tokenRecoveryInterval

authVars == <<wall, mgr, flight, caller, stopped, issued, rejected, recoveries>>

tokenRecoveryQuietPeriod == 2 * maxTokenRecoveryInterval

NoToken == {}
IdleCaller == [pc |-> "idle", force |-> FALSE, request |-> FALSE, token |-> 0,
         retry |-> FALSE, reply |-> "none", executed |-> 0]

\* NewManagerWithSource: no session yet.
AuthInit ==
  /\ wall = 0
  /\ mgr = [current |-> NoToken, nextRetryAt |-> 0, consecutiveFailures |-> 0,
            nextRecoveryAt |-> 0, recoveryQuietUntil |-> 0,
            recoveryFailures |-> 0]
  /\ flight = {}
  /\ caller = [c \in Callers |-> IdleCaller]
  /\ stopped = FALSE
  /\ issued = 0
  /\ rejected = {}
  /\ recoveries = <<tokenRecoveryInterval, tokenRecoveryInterval>>

-----------------------------------------------------------------------------
(* What the manager's methods compute under the mutex.                     *)

\* exponentialBackoff: base, doubled for every further failure, at most max.
exponentialBackoff(base, max, failures) ==
  LET backoff == base * 2^(failures - 1)
  IN IF failures <= 1 THEN base ELSE IF backoff > max THEN max ELSE backoff

\* nextRetryBackoffLocked with jitterRetryBackoff: within a quarter of the
\* backoff, at most max.
nextRetryBackoff(failures) ==
  LET backoff == exponentialBackoff(baseRetryBackoff, maxRetryBackoff, failures)
      quarter == backoff \div 4
  IN {IF d > maxRetryBackoff THEN maxRetryBackoff ELSE d :
        d \in (backoff - quarter)..(backoff + quarter)}

\* loginBlockedLocked.
loginBlocked(m) ==
  \/ Pending(m.nextRetryAt)
  \/ m.current = NoToken /\ Pending(m.nextRecoveryAt)

Value(m) == IF m.current = NoToken THEN 0 ELSE (CHOOSE t \in m.current : TRUE).value

Usable(m) == \E t \in m.current : Remaining(t.lifetime, wall) > 0

\* Reading Remaining ages the current token.
Aged(m) == [m EXCEPT !.current =
              {[t EXCEPT !.lifetime = Observed(@, wall)] : t \in @}]

\* refreshActionLocked.
refreshKind(m, force) ==
  IF /\ ~force /\ RenewalEnabled
     /\ \E t \in m.current : t.renewable /\ Remaining(t.lifetime, wall) > 0
  THEN "renew" ELSE "login"

\* startRefreshLocked: a login that replaces a rejected token sets the time
\* before which the next one may not start.
startRefresh(m, force) ==
  LET kind == refreshKind(m, force)
      backoff == exponentialBackoff(tokenRecoveryInterval,
                   maxTokenRecoveryInterval, m.recoveryFailures)
      recovery == kind = "login" /\ m.current = NoToken /\ m.recoveryFailures > 0
  IN /\ flight' = {[pc |-> kind, kind |-> kind, current |-> Value(m), token |-> NoToken]}
     /\ mgr' = IF recovery
               THEN [m EXCEPT !.nextRecoveryAt = After(backoff),
                              !.recoveryFailures =
                                IF backoff < maxTokenRecoveryInterval THEN @ + 1 ELSE @]
               ELSE m
     /\ recoveries' =
          IF recovery THEN <<recoveries[2], 0>> ELSE recoveries

\* Mutant: a late rejection of an old token discards its replacement.
rejectTokenAny(m, token) ==
  IF token = 0 THEN m
  ELSE [m EXCEPT !.current = NoToken,
          !.recoveryFailures =
             IF Pending(m.recoveryQuietUntil) THEN @ ELSE 1,
          !.nextRecoveryAt =
             IF Pending(m.recoveryQuietUntil) THEN @ ELSE 0,
          !.recoveryQuietUntil = After(tokenRecoveryQuietPeriod)]

\* Mutant: every rejection counts as a new incident.
rejectTokenAfresh(m, token) ==
  IF token = 0 \/ token # Value(m) THEN m
  ELSE [m EXCEPT !.current = NoToken, !.recoveryFailures = 1,
                 !.nextRecoveryAt = 0,
                 !.recoveryQuietUntil = After(tokenRecoveryQuietPeriod)]

\* rejectTokenLocked.
rejectToken(m, token) ==
  IF token = 0 \/ token # Value(m) THEN m
  ELSE [m EXCEPT !.current = NoToken,
          !.recoveryFailures =
             IF Pending(m.recoveryQuietUntil) THEN @ ELSE 1,
          !.nextRecoveryAt =
             IF Pending(m.recoveryQuietUntil) THEN @ ELSE 0,
          !.recoveryQuietUntil = After(tokenRecoveryQuietPeriod)]

\* currentTokenFromAuth: a lease that does not outlast the early-login window
\* is refused.
currentTokenFromAuth(value, lease, renewable) ==
  IF lease <= LoginBeforeTokenExpiry THEN NoToken
  ELSE {[value |-> value, lifetime |-> NewLifetime(wall, lease),
         renewable |-> renewable]}

\* applyRefreshResultLocked.
applyRefreshResult(token) ==
  IF token = NoToken
  THEN LET failures == Smaller(mgr.consecutiveFailures + 1, MaxFailures)
       IN \E d \in nextRetryBackoff(failures) :
         mgr' = [mgr EXCEPT !.consecutiveFailures = failures,
                            !.nextRetryAt = After(d)]
  ELSE mgr' = [mgr EXCEPT !.current = token,
                          !.nextRetryAt = 0, !.consecutiveFailures = 0]

-----------------------------------------------------------------------------
(* Callers: Token and Refresh (ensureToken), and Client.do around Token.   *)

\* Client.do, or Manager.Refresh, is called.
Call(c) ==
  /\ caller[c].pc = "idle"
  /\ \E request \in IF "refresh" \in Events THEN BOOLEAN ELSE {TRUE} :
       caller' = [caller EXCEPT ![c] =
         [IdleCaller EXCEPT !.pc = "ensure", !.force = ~request, !.request = request]]
  /\ UNCHANGED <<wall, mgr, flight, stopped, issued, rejected, recoveries>>

\* What a caller does with the token ensureToken returns: Refresh drops it; do
\* sends a first request, or a retry if the token is another one.
Obtained(c, value) ==
  IF caller[c].request /\ value # caller[c].token
  THEN [caller[c] EXCEPT !.pc = "send", !.token = value]
  ELSE IdleCaller

\* ensureToken: the token is usable, and may be refreshed early
\* (startEarlyRefreshLocked).
EnsureUsable(c) ==
  LET m == Aged(mgr)
      early == /\ \E t \in m.current :
                    Remaining(t.lifetime, wall) <= LoginBeforeTokenExpiry
               /\ ~Pending(m.nextRetryAt)
               /\ flight = {}
  IN /\ caller[c].pc = "ensure" /\ ~stopped
     /\ ~caller[c].force /\ Usable(mgr)
     /\ caller' = [caller EXCEPT ![c] = Obtained(c, Value(m))]
     /\ IF early THEN startRefresh(m, FALSE)
        ELSE mgr' = m /\ UNCHANGED <<flight, recoveries>>
     /\ UNCHANGED <<wall, stopped, issued, rejected>>

\* ensureToken: a login is blocked, or the lifecycle is over, and the caller
\* gets an error.
EnsureFails(c) ==
  LET m == IF caller[c].force THEN mgr ELSE Aged(mgr)
  IN /\ caller[c].pc = "ensure"
     /\ \/ stopped /\ mgr' = mgr
        \/ /\ ~stopped
           /\ caller[c].force \/ ~Usable(mgr)
           /\ flight = {} /\ loginBlocked(mgr)
           /\ mgr' = m
     /\ caller' = [caller EXCEPT ![c] = IdleCaller]
     /\ UNCHANGED <<wall, flight, stopped, issued, rejected, recoveries>>

\* ensureToken: start the shared refresh, or join the one in flight, and wait.
EnsureStarts(c) ==
  LET m == IF caller[c].force THEN mgr ELSE Aged(mgr)
  IN /\ caller[c].pc = "ensure" /\ ~stopped
     /\ caller[c].force \/ ~Usable(mgr)
     /\ flight = {} /\ ~loginBlocked(mgr)
     /\ startRefresh(m, caller[c].force)
     /\ caller' = [caller EXCEPT ![c].pc = "wait"]
     /\ UNCHANGED <<wall, stopped, issued, rejected>>

EnsureJoins(c) ==
  /\ caller[c].pc = "ensure" /\ ~stopped
  /\ caller[c].force \/ ~Usable(mgr)
  /\ flight # {}
  /\ mgr' = IF caller[c].force THEN mgr ELSE Aged(mgr)
  /\ caller' = [caller EXCEPT ![c].pc = "wait"]
  /\ UNCHANGED <<wall, flight, stopped, issued, rejected, recoveries>>

\* tokenRejected: 401 and 403.
tokenRejected(reply) == reply = "rejected"

\* Mutant: a lost reply is retried too.
RetriesLost(c, throttled) ==
  caller[c].reply \in {"rejected", "failed"} /\ ~caller[c].retry /\ ~throttled

\* do retries once, and only what authentication refused.
Retries(c, throttled) ==
  tokenRejected(caller[c].reply) /\ ~caller[c].retry /\ ~throttled

\* do handles the reply.  After a rejection: RecoverToken, then Token and one
\* retry unless throttled; after a rejected retry: RejectToken.
HandleReply(c) ==
  LET token == caller[c].token
      m == rejectToken(mgr, token)
      throttled == m # mgr /\ Pending(m.nextRecoveryAt)
  IN /\ caller[c].pc = "reply"
     /\ IF tokenRejected(caller[c].reply)
        THEN /\ mgr' = m
             /\ rejected' = IF m # mgr THEN rejected \union {token} ELSE rejected
        ELSE UNCHANGED <<mgr, rejected>>
     /\ caller' = [caller EXCEPT ![c] =
          IF Retries(c, throttled)
          THEN [@ EXCEPT !.pc = "ensure", !.retry = TRUE, !.reply = "none"]
          ELSE IdleCaller]
     /\ UNCHANGED <<wall, flight, stopped, issued, recoveries>>

\* The caller's context ends, or the lifecycle does while it waits.
Cancel(c) ==
  /\ \/ "cancel" \in Events /\ caller[c].pc # "idle"
     \/ stopped /\ caller[c].pc = "wait"
  /\ caller' = [caller EXCEPT ![c] = IdleCaller]
  /\ UNCHANGED <<wall, mgr, flight, stopped, issued, rejected, recoveries>>

-----------------------------------------------------------------------------
(* The refresh goroutine (runRefresh, performRefresh) and OpenBao.         *)

\* renew: a failure, or an unusable lease, falls back to a login.
Renew ==
  \E f \in flight :
    /\ f.pc = "renew"
    /\ \/ /\ "fault" \in Events
          /\ flight' = {[f EXCEPT !.pc = "login", !.kind = "login"]}
       \/ \E lease \in Leases, renewable \in BOOLEAN :
            LET token == currentTokenFromAuth(f.current, lease, renewable)
            IN flight' = {IF token = NoToken
                          THEN [f EXCEPT !.pc = "login", !.kind = "login"]
                          ELSE [f EXCEPT !.pc = "done", !.token = token]}
    /\ UNCHANGED <<wall, mgr, caller, stopped, issued, rejected, recoveries>>

\* login: LoginSource.Login and the token it returns.  Past MaxTokens every
\* login fails.
Login ==
  \E f \in flight :
    /\ f.pc = "login"
    /\ \/ /\ "fault" \in Events \/ issued = MaxTokens
          /\ flight' = {[f EXCEPT !.pc = "done"]}
          /\ UNCHANGED issued
       \/ /\ issued < MaxTokens
          /\ issued' = issued + 1
          /\ \E lease \in Leases, renewable \in BOOLEAN :
               flight' = {[f EXCEPT !.pc = "done",
                 !.token = currentTokenFromAuth(issued + 1, lease, renewable)]}
    /\ UNCHANGED <<wall, mgr, caller, stopped, rejected, recoveries>>

\* Mutant: the result of a renewal is applied whatever happened meanwhile.
supersededNever(f) == FALSE

\* A renewed token was rejected while the renewal was in flight.
superseded(f) == f.kind = "renew" /\ f.current # Value(mgr)

\* Mutant: closing flight.done wakes nobody.
WokenNever(c, failed, satisfies) == caller[c]

\* waitForRefresh returns: a failure is the caller's error, anything else sends
\* it round again; a login satisfies a forced refresh, a renewal does not.
Woken(c, failed, satisfies) ==
  IF caller[c].pc # "wait" THEN caller[c]
  ELSE IF failed THEN IdleCaller
  ELSE [caller[c] EXCEPT !.pc = "ensure", !.force = @ /\ ~satisfies]

\* runRefresh, once performRefresh returned; the refresh timeout may have
\* passed by then.
FinishRefresh ==
  \E f \in flight, timeout \in IF "fault" \in Events THEN BOOLEAN ELSE {FALSE} :
    LET token == IF timeout THEN NoToken ELSE f.token
        failed == stopped \/ (~superseded(f) /\ token = NoToken)
        satisfies == ~stopped /\ ~superseded(f) /\ f.kind = "login"
    IN /\ f.pc = "done"
       /\ flight' = {}
       /\ IF stopped \/ superseded(f) THEN mgr' = mgr ELSE applyRefreshResult(token)
       /\ caller' = [c \in Callers |-> Woken(c, failed, satisfies)]
       /\ UNCHANGED <<wall, stopped, issued, rejected, recoveries>>

\* External: OpenBao answers a request.  A revoked token or a denying policy
\* refuses it before Transit runs; otherwise it executes, and its reply may be
\* lost.
Serve(c) ==
  /\ caller[c].pc = "send"
  /\ \/ /\ "refuse" \in Events
        /\ caller' = [caller EXCEPT ![c].pc = "reply", ![c].reply = "rejected"]
     \/ \E reply \in IF "fault" \in Events THEN {"ok", "failed"} ELSE {"ok"} :
          caller' = [caller EXCEPT ![c].pc = "reply", ![c].reply = reply,
                                   ![c].executed = @ + 1]
     \/ /\ "fault" \in Events
        /\ caller' = [caller EXCEPT ![c].pc = "reply", ![c].reply = "failed"]
  /\ UNCHANGED <<wall, mgr, flight, stopped, issued, rejected, recoveries>>

-----------------------------------------------------------------------------
(* The environment.                                                        *)

TokenTick(current) == {[t EXCEPT !.lifetime = LifetimeTick(@)] : t \in current}

Tick ==
  /\ mgr' = [mgr EXCEPT !.current = TokenTick(@),
                        !.nextRetryAt = DeadlineTick(@),
                        !.nextRecoveryAt = DeadlineTick(@),
                        !.recoveryQuietUntil = DeadlineTick(@)]
  /\ flight' = {[f EXCEPT !.token = TokenTick(@)] : f \in flight}
  /\ recoveries' = [i \in 1..2 |-> Smaller(recoveries[i] + 1, tokenRecoveryInterval)]
  /\ UNCHANGED <<wall, caller, stopped, issued, rejected>>

CorrectWall ==
  /\ "wall" \in Events
  /\ wall' \in WallOffsets
  /\ UNCHANGED <<mgr, flight, caller, stopped, issued, rejected, recoveries>>

\* State, read by metrics: it ages the current token.
State ==
  /\ mgr' = Aged(mgr)
  /\ UNCHANGED <<wall, flight, caller, stopped, issued, rejected, recoveries>>

Stop ==
  /\ "stop" \in Events /\ ~stopped
  /\ stopped' = TRUE
  /\ UNCHANGED <<wall, mgr, flight, caller, issued, rejected, recoveries>>

CallerStep(c) ==
  \/ EnsureUsable(c) \/ EnsureFails(c) \/ EnsureStarts(c) \/ EnsureJoins(c)
  \/ HandleReply(c) \/ Serve(c)

AuthNext ==
  \/ \E c \in Callers : Call(c) \/ CallerStep(c) \/ Cancel(c)
  \/ Renew \/ Login \/ FinishRefresh
  \/ Tick \/ CorrectWall \/ State \/ Stop

AuthSpec == AuthInit /\ [][AuthNext]_authVars

\* Goroutines run, every HTTP exchange ends by its timeout, and a refresh by
\* refreshTimeout.  No caller's own context is assumed to end.  A woken caller
\* gets the mutex long before a lease runs out, so it cannot miss every usable
\* token, nor every moment without a refresh: strong fairness.
AuthFairSpec ==
  /\ AuthSpec
  /\ \A c \in Callers : /\ WF_authVars(CallerStep(c)) /\ WF_authVars(stopped /\ Cancel(c))
                         /\ SF_authVars(EnsureUsable(c)) /\ SF_authVars(EnsureStarts(c))
  /\ WF_authVars(Renew) /\ WF_authVars(Login) /\ WF_authVars(FinishRefresh)

-----------------------------------------------------------------------------
\* A token that a request was refused with, and that the manager discarded, is
\* never the current token again, whatever refresh was in flight.
RejectedNeverRestored == Value(mgr) \notin rejected

\* do retries only what authentication refused, so OpenBao executes one call
\* at most once, lost replies included.
ExecutedAtMostOnce == \A c \in Callers : caller[c].executed <= 1

RecoveryStarts ==
  /\ flight = {} /\ flight' # {}
  /\ mgr.current = NoToken /\ mgr.recoveryFailures > 0

\* Even if every login succeeds and every request is denied, no three logins
\* that replace a rejected token start within tokenRecoveryInterval.
RecoveryLoginsSpaced ==
  [][RecoveryStarts => recoveries[1] = tokenRecoveryInterval]_authVars

\* The current token is discarded only because that very token was refused: a
\* late refusal of an older one leaves its replacement alone.
OnlyRefusedIsDiscarded ==
  [][mgr.current # NoToken /\ mgr'.current = NoToken =>
       \E c \in Callers : /\ caller[c].pc = "reply" /\ caller[c].reply = "rejected"
                          /\ caller[c].token = Value(mgr)]_authVars

\* Once a reading of either clock has shown an age, no later correction of
\* the wall clock makes the lease younger; only a finished refresh replaces it.
LeaseNeverYounger ==
  [][\A t \in mgr.current, u \in mgr'.current :
       flight' # {} \/ flight = {} => u.lifetime.age >= t.lifetime.age]_authVars

\* Every call returns, although callers wait for a shared refresh, are sent
\* round again when it is superseded, and may have no deadline of their own.
CallersReturn ==
  \A c \in Callers : caller[c].pc # "idle" ~> caller[c].pc = "idle"
=============================================================================
