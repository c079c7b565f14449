--------------------------------- MODULE Auth ---------------------------------
(***************************************************************************)
(* Sign-in of one account: AuthService with its challenge, its counter of  *)
(* failed attempts and its refresh tokens (internal/server), and the       *)
(* devices whose transport repeats requests that got no answer             *)
(* (internal/client).                                                      *)
(*                                                                         *)
(* A worker is the goroutine that serves one copy of a request; its steps  *)
(* are the calls that touch shared state.  A device waits for the copy it  *)
(* sent last: when it sends another, or gives up, nobody waits for the     *)
(* earlier one, which the server may serve all the same.                   *)
(*                                                                         *)
(* Time passes as an event per deadline.  Nonces and refresh tokens are    *)
(* random and so always new: numbers in the order they are drawn.          *)
(***************************************************************************)
EXTENDS Integers, FiniteSets

CONSTANTS
    Devices,
    Workers,
    NoDevice,
    MaxAttempts,    \* cfg.LoginMaxAttempts
    MaxSends,       \* copies of one request: one and its retries (MaxRetries)
    MaxCalls,       \* bound: sign-ins, registrations and refreshes begun
    MaxRepeats      \* bound: copies sent after the first, of all requests

ASSUME AuthAssumption ==
    /\ IsFiniteSet(Workers)
    /\ NoDevice \notin Devices
    /\ MaxAttempts \in Nat \ {0}
    /\ MaxSends \in Nat \ {0}
    /\ MaxCalls \in Nat
    /\ MaxRepeats \in Nat

VARIABLES
    registered, \* the account exists
    challenge,  \* the nonce in ChallengeStore that has not expired, 0 if none
    nonces,     \* nonces drawn
    attempts,   \* failed attempts counted in the current window
    tokens,     \* refresh tokens drawn
    revoked,    \* those marked revoked
    expired,    \* tokens past expires_at, the oldest first: all live equally long
    workers,    \* workers[w]: the request copy w serves
    devices,    \* devices[d]: where d is, and what it holds
    calls,      \* calls begun
    repeats,    \* copies sent after the first
    opened,     \* history: <<nonce, token>> of each sign-in
    presented,  \* history: tokens looked up for a refresh
    again,      \* history: look-ups of a token that was looked up before
    alarmed     \* history: a token was taken for reused

accountVars == <<registered, challenge, nonces, attempts>>
tokenVars == <<tokens, revoked, expired>>
bounds == <<calls, repeats>>
history == <<opened, presented, again, alarmed>>
vars == <<accountVars, tokenVars, workers, devices, bounds, history>>

-------------------------------------------------------------------------------
Nonces == Nat \ {0}
Tokens == Nat \ {0}

Device ==
    [at: {"out", "register", "challenge", "login", "in", "refresh"},
     right: BOOLEAN,             \* the master password was typed correctly
     nonce: {0} \union Nonces,   \* the challenge received
     token: {0} \union Tokens,   \* the refresh token held
     sends: 0..MaxSends]         \* copies sent of the current request

SignedOut == [at |-> "out", right |-> FALSE, nonce |-> 0, token |-> 0,
              sends |-> 0]

\* What a worker serves, and for whom; at is the call it makes next.
Worker ==
    [at: {"idle", "register", "challenge", "login", "allowed", "consume", "fail",
          "pass", "issue", "refresh", "alarm", "rotate"},
     device: Devices \union {NoDevice},
     right: BOOLEAN, nonce: {0} \union Nonces, token: {0} \union Tokens]

Idle == [at |-> "idle", device |-> NoDevice, right |-> FALSE, nonce |-> 0, token |-> 0]

Init ==
    /\ registered = FALSE
    /\ challenge = 0
    /\ nonces = 0
    /\ attempts = 0
    /\ tokens = 0
    /\ revoked = {}
    /\ expired = 0
    /\ workers = [w \in Workers |-> Idle]
    /\ devices = [d \in Devices |-> SignedOut]
    /\ calls = 0
    /\ repeats = 0
    /\ opened = {}
    /\ presented = {}
    /\ again = 0
    /\ alarmed = FALSE

-------------------------------------------------------------------------------
(* The devices.                                                            *)

Waiting(d) == devices[d].at \in {"register", "challenge", "login", "refresh"}

Begin(d, device) ==
    /\ calls < MaxCalls
    /\ calls' = calls + 1
    /\ devices' = [devices EXCEPT ![d] = device]
    /\ UNCHANGED <<accountVars, tokenVars, workers, repeats, history>>

\* openNewSession and openSession: AuthFlow.Register or Login.
StartRegister(d) ==
    /\ devices[d].at = "out"
    /\ Begin(d, [SignedOut EXCEPT !.at = "register", !.right = TRUE])

StartLogin(d) ==
    /\ devices[d].at = "out"
    /\ \E right \in BOOLEAN :
           Begin(d, [SignedOut EXCEPT !.at = "challenge", !.right = right])

\* doAuthenticatedJSON: the access token has expired, which may be at any time,
\* the request is refused and Refresh called.  With a valid access token a request
\* changes nothing here.
StartRefresh(d) ==
    /\ devices[d].at = "in"
    /\ Begin(d, [devices[d] EXCEPT !.at = "refresh", !.sends = 0])

\* Nobody waits any more for the copies the device has sent.
Orphaned(d) ==
    [w \in Workers |-> IF workers[w].device = d
                       THEN [workers[w] EXCEPT !.device = NoDevice]
                       ELSE workers[w]]

\* A copy of the current request reaches the server.
Deliver(d, w) ==
    /\ Waiting(d)
    /\ devices[d].sends < MaxSends
    /\ workers[w].at = "idle"
    /\ IF devices[d].sends = 0
       THEN UNCHANGED repeats
       ELSE repeats < MaxRepeats /\ repeats' = repeats + 1
    /\ devices' = [devices EXCEPT ![d].sends = @ + 1]
    /\ workers' = [Orphaned(d) EXCEPT ![w] =
                      [at |-> devices[d].at, device |-> d, right |-> devices[d].right,
                       nonce |-> devices[d].nonce, token |-> devices[d].token]]
    /\ UNCHANGED <<accountVars, tokenVars, calls, history>>

\* Mutant of Refuse: a failed refresh takes the tokens away.
RefuseForgets(device) ==
    IF device.at = "refresh" THEN [SignedOut EXCEPT !.at = "in"] ELSE SignedOut

\* A failed sign-in leaves the device where it was, a failed refresh leaves it
\* with the tokens it had.
Refuse(device) ==
    IF device.at = "refresh" THEN [device EXCEPT !.at = "in", !.sends = 0] ELSE SignedOut

\* The last copy failed, or the user interrupts.
GiveUp(d) ==
    /\ Waiting(d)
    /\ devices' = [devices EXCEPT ![d] = Refuse(@)]
    /\ workers' = Orphaned(d)
    /\ UNCHANGED <<accountVars, tokenVars, bounds, history>>

\* The end of a session, logout included, tells the server nothing.
Quit(d) ==
    /\ devices[d].at = "in"
    /\ devices' = [devices EXCEPT ![d] = SignedOut]
    /\ UNCHANGED <<accountVars, tokenVars, workers, bounds, history>>

-------------------------------------------------------------------------------
(* The server.  A reply reaches the device if it still waits for it.       *)

Reply(w, device) ==
    /\ workers' = [workers EXCEPT ![w] = Idle]
    /\ devices' = [d \in Devices |-> IF d = workers[w].device THEN device ELSE devices[d]]

Answered(w) == devices[workers[w].device]

ReplyRefused(w) ==
    Reply(w, IF workers[w].device = NoDevice THEN SignedOut ELSE Refuse(Answered(w)))

ReplyNext(w, at, nonce) ==
    Reply(w, IF workers[w].device = NoDevice THEN SignedOut
             ELSE [Answered(w) EXCEPT !.at = at, !.nonce = nonce, !.sends = 0])

\* SetTokens with the new pair.
ReplyTokens(w, token) ==
    Reply(w, [SignedOut EXCEPT !.at = "in", !.token = token])

\* No answer, or one after which the client repeats the request (429, 5xx).
NoAnswer(w) ==
    /\ workers' = [workers EXCEPT ![w] = Idle]
    /\ UNCHANGED devices

Advance(w, at) ==
    /\ workers' = [workers EXCEPT ![w].at = at]
    /\ UNCHANGED devices

\* AuthService.Register: the login is unique.  AuthFlow signs in next.
Register(w) ==
    /\ workers[w].at = "register"
    /\ registered' = TRUE
    /\ IF registered THEN ReplyRefused(w) ELSE ReplyNext(w, "challenge", 0)
    /\ UNCHANGED <<challenge, nonces, attempts, tokenVars, bounds, history>>

\* AuthService.Challenge: a new nonce replaces the one before.
Challenge(w) ==
    /\ workers[w].at = "challenge"
    /\ IF registered
       THEN /\ nonces' = nonces + 1
            /\ challenge' = nonces + 1
            /\ ReplyNext(w, "login", nonces + 1)
       ELSE /\ UNCHANGED <<nonces, challenge>>
            /\ ReplyRefused(w)
    /\ UNCHANGED <<registered, attempts, tokenVars, bounds, history>>

\* Mutant of Allowed: one attempt too many.
AllowedInclusive == attempts <= MaxAttempts

\* LoginAttemptTracker.Allowed.
Allowed == attempts < MaxAttempts

\* The limit is read by the middleware and again by AuthService.Login; a 429 is
\* repeated by the client.
CheckLimit(w) ==
    /\ workers[w].at \in {"login", "allowed"}
    /\ IF Allowed
       THEN Advance(w, IF workers[w].at = "login" THEN "allowed" ELSE "consume")
       ELSE NoAnswer(w)
    /\ UNCHANGED <<accountVars, tokenVars, bounds, history>>

\* The message is HMAC(authKey, nonce) for the nonce the device received.
Genuine(w) == workers[w].right /\ workers[w].nonce = challenge /\ challenge # 0

\* Whether the nonce is gone, the message is wrong or the account cannot be read,
\* the attempt failed.
Judge(w) ==
    /\ \E pass \in {FALSE, Genuine(w)} :
           workers' = [workers EXCEPT ![w] =
                          [Idle EXCEPT !.device = workers[w].device,
                                       !.at = IF pass THEN "pass" ELSE "fail",
                                       !.nonce = IF pass THEN challenge ELSE 0]]
    /\ UNCHANGED devices

\* Mutant of Consume: the nonce stays in the store.
ConsumeKeeps(w) ==
    /\ workers[w].at = "consume"
    /\ Judge(w)
    /\ UNCHANGED <<accountVars, tokenVars, bounds, history>>

\* ChallengeStore.Consume, GetByLogin and verifyAuthMessage, which depend on
\* nothing that could change in between.
Consume(w) ==
    /\ workers[w].at = "consume"
    /\ challenge' = 0
    /\ Judge(w)
    /\ UNCHANGED <<registered, nonces, attempts, tokenVars, bounds, history>>

\* attempts.Inc, 401.
Fail(w) ==
    /\ workers[w].at = "fail"
    /\ attempts' = attempts + 1
    /\ ReplyRefused(w)
    /\ UNCHANGED <<registered, challenge, nonces, tokenVars, bounds, history>>

\* attempts.Reset.
Pass(w) ==
    /\ workers[w].at = "pass"
    /\ attempts' = 0
    /\ Advance(w, "issue")
    /\ UNCHANGED <<registered, challenge, nonces, tokenVars, bounds, history>>

\* RefreshTokenService.Issue, and the answer with the first pair of tokens.
Issue(w) ==
    /\ workers[w].at = "issue"
    /\ tokens' = tokens + 1
    /\ opened' = opened \union {<<workers[w].nonce, tokens + 1>>}
    /\ ReplyTokens(w, tokens + 1)
    /\ UNCHANGED <<accountVars, revoked, expired, bounds, presented, again, alarmed>>

\* RefreshTokenService.Rotate, first statement: the token is looked up.
LookUp(w) ==
    /\ workers[w].at = "refresh"
    /\ LET token == workers[w].token
       IN  /\ presented' = presented \union {token}
           /\ again' = IF token \in presented THEN again + 1 ELSE again
           /\ IF token \in revoked THEN Advance(w, "alarm")
              ELSE IF token <= expired THEN ReplyRefused(w)
              ELSE Advance(w, "rotate")
    /\ UNCHANGED <<accountVars, tokenVars, bounds, opened, alarmed>>

\* RevokeAll: the token was used before, every token of the user is revoked.
\* Should that fail, the refresh is refused all the same.
Alarm(w) ==
    /\ workers[w].at = "alarm"
    /\ revoked' \in {1..tokens, revoked}
    /\ alarmed' = TRUE
    /\ ReplyRefused(w)
    /\ UNCHANGED <<accountVars, tokens, expired, bounds, opened, presented, again>>

\* Mutants of Rotate: the old token stays valid; the update is not limited to it.
RotateKeepsOld(w) ==
    /\ workers[w].at = "rotate"
    /\ tokens' = tokens + 1
    /\ ReplyTokens(w, tokens + 1)
    /\ UNCHANGED <<accountVars, revoked, expired, bounds, history>>

RotateRevokesAll(w) ==
    /\ workers[w].at = "rotate"
    /\ revoked' = 1..tokens
    /\ tokens' = tokens + 1
    /\ ReplyTokens(w, tokens + 1)
    /\ UNCHANGED <<accountVars, expired, bounds, history>>

\* RefreshTokenStore.Rotate, one transaction; it does not look again whether the
\* old token has been revoked meanwhile.
Rotate(w) ==
    /\ workers[w].at = "rotate"
    /\ revoked' = revoked \union {workers[w].token}
    /\ tokens' = tokens + 1
    /\ ReplyTokens(w, tokens + 1)
    /\ UNCHANGED <<accountVars, expired, bounds, history>>

\* The request ends early: its context is cancelled, the database fails, the
\* connection breaks.
Abort(w) ==
    /\ workers[w].at # "idle"
    /\ NoAnswer(w)
    /\ UNCHANGED <<accountVars, tokenVars, bounds, history>>

\* Challenges and attempts live in memory.
Restart ==
    /\ challenge' = 0
    /\ attempts' = 0
    /\ workers' = [w \in Workers |-> Idle]
    /\ UNCHANGED <<registered, nonces, tokenVars, devices, bounds, history>>

-------------------------------------------------------------------------------
(* Deadlines.                                                              *)

ChallengeExpires ==
    /\ challenge # 0
    /\ challenge' = 0
    /\ UNCHANGED <<registered, nonces, attempts, tokenVars, workers, devices,
                   bounds, history>>

\* After windowEnd an entry counts for nothing: Allowed and Inc start afresh.
WindowEnds ==
    /\ attempts # 0
    /\ attempts' = 0
    /\ UNCHANGED <<registered, challenge, nonces, tokenVars, workers, devices,
                   bounds, history>>

RefreshExpires ==
    /\ expired < tokens
    /\ expired' = expired + 1
    /\ UNCHANGED <<accountVars, tokens, revoked, workers, devices, bounds, history>>

-------------------------------------------------------------------------------
Serve(w) ==
    \/ Register(w) \/ Challenge(w)
    \/ CheckLimit(w) \/ Consume(w) \/ Fail(w) \/ Pass(w) \/ Issue(w)
    \/ LookUp(w) \/ Alarm(w) \/ Rotate(w)

DeviceStep(d) ==
    \/ StartRegister(d) \/ StartLogin(d) \/ StartRefresh(d)
    \/ \E w \in Workers : Deliver(d, w)
    \/ GiveUp(d) \/ Quit(d)

TimePasses == ChallengeExpires \/ WindowEnds \/ RefreshExpires

Next ==
    \/ \E w \in Workers : Serve(w) \/ Abort(w)
    \/ \E d \in Devices : DeviceStep(d)
    \/ TimePasses
    \/ Restart

Spec == Init /\ [][Next]_vars

-------------------------------------------------------------------------------
(* What is true of every execution.                                        *)

\* Every variable holds a value of its type.
TypeOK ==
    /\ registered \in BOOLEAN
    /\ nonces \in {0} \union Nonces
    /\ challenge \in 0..nonces
    /\ attempts \in Nat
    /\ tokens \in {0} \union Tokens
    /\ revoked \subseteq 1..tokens
    /\ expired \in 0..tokens
    /\ workers \in [Workers -> Worker]
    /\ devices \in [Devices -> Device]
    /\ calls \in 0..MaxCalls
    /\ repeats \in 0..MaxRepeats
    /\ opened \subseteq Nonces \X Tokens
    /\ presented \subseteq 1..tokens
    /\ again \in Nat
    /\ alarmed \in BOOLEAN
    /\ \A d \in Devices : devices[d].at \in {"in", "refresh"} => devices[d].token \in 1..tokens

\* A challenge opens at most one session, whatever is repeated, replaced or
\* restarted while it is answered ("one-time serverNonce", auth_handlers.go:96-97;
\* challenge.go:18-19).
ChallengeOpensOnce ==
    \A a, b \in opened : a[1] = b[1] => a = b

\* The limit on failed attempts is exceeded by no more than the requests in
\* service when it was reached: it is read before and counted after the check of
\* the answer (service/auth.go:104-126).
FailuresBounded == attempts < MaxAttempts + Cardinality(Workers)

\* Reuse is detected only when some token was really looked up twice: devices
\* that send each refresh once never sign each other out (refresh.go:57-61).
AlarmIsGenuine == alarmed => again > 0

\* Every refresh token that still works stands for a sign-in: a refresh replaces
\* one token by one, except that a copy of it in service at the same time can add
\* another (refresh.go:49-78).
SessionsAccounted ==
    Cardinality(1..tokens \ revoked) <= Cardinality(opened) + again
===============================================================================
