--------------------------------- MODULE Calls ---------------------------------
(***************************************************************************)
(* Authenticated calls of one client to the server: doJSON and              *)
(* doAuthenticatedJSON with their retries and the refresh of an expired     *)
(* access token (client/transport/client.go, auth.go), AuthMiddleware and   *)
(* JWTManager on the other side (server/rest/middleware.go, auth/jwt.go).   *)
(*                                                                         *)
(* The client is shared by its callers: the sync the terminal UI runs in a  *)
(* goroutine and the one of Session.Close.  The pairs of tokens the server  *)
(* issues are numbered; refresh tokens are rotated in one step (Auth has     *)
(* the steps) and do not expire here.                                      *)
(***************************************************************************)
EXTENDS App

CONSTANTS
    Callers,        \* goroutines that use the client
    NoRequest,      \* the slot of a caller with no request under way
    MaxRetries,     \* RetryMax of retryablehttp
    MaxCalls,       \* bound: calls begun
    MaxFaults       \* bound: broken connections

ASSUME CallsAssumption ==
    /\ NoRequest \notin Requests
    /\ MaxRetries \in Nat
    /\ MaxCalls \in Nat
    /\ MaxFaults \in Nat

VARIABLES
    call,       \* call[c]: where caller c is in doAuthenticatedJSON
    request,    \* request[r]: what is in service under r, and its answer
    access,     \* Client.accessToken
    refresh,    \* Client.refreshToken
    pairs,      \* pairs of tokens issued
    expired,    \* access tokens up to this one have expired
    revoked,    \* refresh tokens that are revoked
    begun,      \* calls begun so far
    faults,     \* faults so far
    signedOut,  \* history: the server refused a token the client had to trust
    excuses     \* history: why it may have

tokenVars == <<access, refresh, pairs, expired, revoked>>
boundVars == <<begun, faults>>
historyVars == <<signedOut, excuses>>
vars == <<appVars, call, request, tokenVars, boundVars, historyVars>>

-------------------------------------------------------------------------------
Pairs == 1..pairs

\* at: idle; ask, refresh and again: a doJSON that has to be sent or answered;
\* store and storing: SetTokens.
Call == [at: {"idle", "ask", "refresh", "store", "storing", "again"},
         slot: Requests \union {NoRequest}, token: Nat, tries: 0..MaxRetries, pair: Nat]

Request == [kind: {"none", "call", "refresh"}, token: Nat,
            answer: {"none", "ok", "denied", "failed"}, pair: Nat]

Done == [at |-> "idle", slot |-> NoRequest, token |-> 0, tries |-> 0, pair |-> 0]

\* A doJSON that is about to be sent with token.
Asking(at, token) ==
    [at |-> at, slot |-> NoRequest, token |-> token, tries |-> 0, pair |-> 0]

Empty == [kind |-> "none", token |-> 0, answer |-> "none", pair |-> 0]

Init ==
    /\ AppInit
    /\ call = [c \in Callers |-> Done]
    /\ request = [r \in Requests |-> Empty]
    /\ access = 1 /\ refresh = 1 /\ pairs = 1       \* the pair of the login
    /\ expired = 0
    /\ revoked = {}
    /\ begun = 0 /\ faults = 0
    /\ signedOut = FALSE
    /\ excuses = {}

-------------------------------------------------------------------------------
(* The client.                                                             *)

Waiting(c) == call[c].slot # NoRequest

ToSend(c) == call[c].at \in {"ask", "refresh", "again"} /\ ~Waiting(c)

\* Callers between the answer 401 and the end of SetTokens.
Refreshing == {c \in Callers : call[c].at \in {"refresh", "store", "storing"}}

Begin(c) ==
    /\ call[c].at = "idle"
    /\ begun < MaxCalls
    /\ begun' = begun + 1
    /\ call' = [call EXCEPT ![c] = Asking("ask", access)]
    /\ UNCHANGED <<appVars, request, tokenVars, faults, historyVars>>

\* Slots are interchangeable.
FreeSlot == CHOOSE r \in Requests \ serving : TRUE

\* The request is built once: a retry carries the same token.
Send(c) ==
    /\ ToSend(c)
    /\ serving # Requests /\ Accept(FreeSlot)
    /\ request' = [request EXCEPT ![FreeSlot] =
           [kind |-> IF call[c].at = "refresh" THEN "refresh" ELSE "call",
            token |-> call[c].token, answer |-> "none", pair |-> 0]]
    /\ call' = [call EXCEPT ![c].slot = FreeSlot]
    /\ UNCHANGED <<tokenVars, boundVars, historyVars>>

\* Mutant of Retried: attempts are not counted.
RetriedForEver(c) == [call[c] EXCEPT !.slot = NoRequest]

\* What retryablehttp does about no answer, 429 and 5xx.
Retried(c) ==
    IF call[c].tries < MaxRetries
    THEN [call[c] EXCEPT !.slot = NoRequest, !.tries = @ + 1]
    ELSE Done

\* Nobody listens.
Refused(c) ==
    /\ ToSend(c)
    /\ phase # "serving"
    /\ call' = [call EXCEPT ![c] = Retried(c)]
    /\ UNCHANGED <<appVars, request, tokenVars, boundVars, historyVars>>

\* An answer to a refresh that does not arrive.
LossOf(callers) == IF \E c \in callers : call[c].at = "refresh" THEN {"lost"} ELSE {}

\* The connection breaks; the handler may still run.
Break(c) ==
    /\ Waiting(c)
    /\ faults < MaxFaults
    /\ faults' = faults + 1
    /\ call' = [call EXCEPT ![c] = Retried(c)]
    /\ excuses' = excuses \union LossOf({c})
    /\ UNCHANGED <<appVars, request, tokenVars, begun, signedOut>>

\* SetTokens: two assignments, with no lock.  Tokens of a kind have equal lengths, so
\* who reads a field at the same time finds the old or the new one.
SetAccessToken(c) ==
    /\ call[c].at = "store"
    /\ access' = call[c].pair
    /\ call' = [call EXCEPT ![c].at = "storing"]
    /\ UNCHANGED <<appVars, request, refresh, pairs, expired, revoked, boundVars, historyVars>>

\* Mutant of SetRefreshToken: the refresh token is not replaced.
SetNoRefreshToken(c) ==
    /\ call[c].at = "storing"
    /\ call' = [call EXCEPT ![c] = Asking("again", access)]
    /\ UNCHANGED <<appVars, request, tokenVars, boundVars, historyVars>>

\* Then the call is repeated with the token the client has now.
SetRefreshToken(c) ==
    /\ call[c].at = "storing"
    /\ refresh' = call[c].pair
    /\ call' = [call EXCEPT ![c] = Asking("again", access)]
    /\ UNCHANGED <<appVars, request, access, pairs, expired, revoked, boundVars, historyVars>>

-------------------------------------------------------------------------------
(* The server.                                                             *)

Answer(r, answer, pair) ==
    request' = [request EXCEPT ![r].answer = answer, ![r].pair = pair]

InService(r, kind) ==
    r \in serving /\ request[r].kind = kind /\ request[r].answer = "none"

\* AuthMiddleware: Parse looks at nothing but the token and the time.
Authenticate(r) ==
    /\ InService(r, "call")
    /\ Answer(r, IF request[r].token > expired THEN "ok" ELSE "denied", 0)
    /\ UNCHANGED <<appVars, call, tokenVars, boundVars, historyVars>>

\* A new pair takes the place of the token.
Rotated(token) == pairs' = pairs + 1 /\ revoked' = revoked \union {token}

\* AuthService.Refresh: a used token revokes them all, unless that fails, which nobody
\* looks at; another is rotated.
Rotate(r) ==
    /\ InService(r, "refresh")
    /\ \/ /\ request[r].token \in revoked
          /\ revoked' \in {Pairs, revoked}
          /\ Answer(r, "denied", 0)
          /\ UNCHANGED pairs
       \/ /\ request[r].token \notin revoked
          /\ Rotated(request[r].token)
          /\ Answer(r, "ok", pairs')
    /\ UNCHANGED <<appVars, call, access, refresh, expired, boundVars, historyVars>>

\* tx.Commit takes effect and returns an error all the same: the connection to the
\* database broke before it was acknowledged.
UnreportedCommit(r) ==
    /\ InService(r, "refresh")
    /\ request[r].token \notin revoked
    /\ Rotated(request[r].token)
    /\ Answer(r, "failed", 0)
    /\ excuses' = excuses \union {"unreported"}
    /\ UNCHANGED <<appVars, call, access, refresh, expired, boundVars, signedOut>>

\* A statement fails and nothing was written.
ServerError(r) ==
    /\ InService(r, "call") \/ InService(r, "refresh")
    /\ Answer(r, "failed", 0)
    /\ UNCHANGED <<appVars, call, tokenVars, boundVars, historyVars>>

\* What c does with the answer it waits for.
Receive(c, answer, pair) ==
    LET at == call[c].at
    IN  /\ call' = [call EXCEPT ![c] =
               CASE answer = "failed" -> Retried(c)
                 [] answer = "denied" /\ at = "ask" -> Asking("refresh", refresh)
                 [] answer = "ok" /\ at = "refresh" -> [Done EXCEPT !.at = "store", !.pair = pair]
                 [] OTHER -> Done]
        /\ signedOut' = (signedOut \/ (answer = "denied" /\ at # "ask"))
        /\ excuses' = IF answer = "denied" /\ at = "ask" /\ Refreshing # {}
                      THEN excuses \union {"overlap"}
                      ELSE excuses

\* The answer reaches who waits for it; nobody does when the connection broke.
Reply(r) ==
    /\ request[r].answer # "none"
    /\ Finish(r)
    /\ request' = [request EXCEPT ![r] = Empty]
    /\ \/ \E c \in Callers : call[c].slot = r /\ Receive(c, request[r].answer, request[r].pair)
       \/ /\ \A c \in Callers : call[c].slot # r
          /\ UNCHANGED <<call, historyVars>>
    /\ UNCHANGED <<tokenVars, boundVars>>

\* AccessTokenTTL passes.  All live equally long.
Expire ==
    /\ expired < pairs
    /\ expired' = expired + 1
    /\ excuses' = IF \E c \in Callers : call[c].at \notin {"idle", "ask"}
                  THEN excuses \union {"lapse"}
                  ELSE excuses
    /\ UNCHANGED <<appVars, call, request, access, refresh, pairs, revoked, boundVars, signedOut>>

\* The process ends under its requests.
CutOff ==
    /\ Fatal
    /\ request' = [r \in Requests |-> Empty]
    /\ call' = [c \in Callers |-> IF Waiting(c) THEN Retried(c) ELSE call[c]]
    /\ excuses' = excuses \union LossOf({c \in Callers : Waiting(c)})
    /\ UNCHANGED <<tokenVars, boundVars, signedOut>>

-------------------------------------------------------------------------------
ServerStep ==
    /\ Background
    /\ UNCHANGED <<call, request, tokenVars, boundVars, historyVars>>

Proceed(c) == Send(c) \/ Refused(c) \/ SetAccessToken(c) \/ SetRefreshToken(c)

Handle(r) ==
    Authenticate(r) \/ Rotate(r) \/ UnreportedCommit(r) \/ ServerError(r) \/ Reply(r)

Next ==
    \/ \E c \in Callers : Begin(c) \/ Proceed(c) \/ Break(c)
    \/ \E r \in Requests : Handle(r)
    \/ Expire
    \/ ServerStep
    \/ CutOff

Spec == Init /\ [][Next]_vars

\* A caller that can go on does, and so does a handler.
FairSpec ==
    /\ Spec
    /\ \A c \in Callers : WF_vars(Proceed(c))
    /\ \A r \in Requests : WF_vars(Handle(r))

-------------------------------------------------------------------------------
(* What is true of every execution.                                        *)

\* Every variable holds a value of its type, and callers wait for requests of their
\* own that are in service.
TypeOK ==
    /\ AppTypeOK
    /\ call \in [Callers -> Call]
    /\ request \in [Requests -> Request]
    /\ pairs \in Nat /\ access \in Pairs /\ refresh \in Pairs
    /\ expired \in 0..pairs
    /\ revoked \subseteq Pairs
    /\ begun \in 0..MaxCalls /\ faults \in 0..MaxFaults
    /\ signedOut \in BOOLEAN
    /\ excuses \subseteq {"lost", "unreported", "overlap", "lapse"}
    /\ \A r \in Requests : request[r].kind # "none" <=> r \in serving
    /\ \A c \in Callers : Waiting(c) => call[c].slot \in serving
    /\ \A c, d \in Callers : Waiting(c) /\ call[c].slot = call[d].slot => c = d

\* The server refuses a token the client has just been given, or must still have,
\* only if the answer of a refresh was lost, a refresh was committed and reported as
\* failed, two refreshes overlapped, or a token expired while a call refreshed
\* ("transparently", client.go:172-174).
SignedOutForAReason == signedOut => excuses # {}

\* Every call comes to an end, whatever the server answers, if it answers: attempts are
\* counted and a call refreshes once (client.go:175-189).  That a handler ends is assumed
\* (WF(Handle)); nothing in the client limits how long it waits.
CallsEnd == \A c \in Callers : (call[c].at # "idle") ~> (call[c].at = "idle")
===============================================================================
