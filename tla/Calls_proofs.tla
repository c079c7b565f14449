------------------------------ MODULE Calls_proofs ------------------------------
(***************************************************************************)
(* Theorems about Calls for every number of callers, requests in service,   *)
(* starts, retries, calls and broken connections.                          *)
(***************************************************************************)
EXTENDS Calls, TLAPS

-------------------------------------------------------------------------------
(* The inductive invariant.                                                *)

\* Tokens that are held or carried have been issued.
CallerOK(c) ==
    /\ call[c].at \in {"ask", "refresh", "again"} => call[c].token \in Pairs
    /\ call[c].at \in {"store", "storing"} => call[c].pair \in Pairs

RequestOK(r) ==
    r \in serving =>
        /\ request[r].token \in Pairs
        /\ request[r].kind = "refresh" /\ request[r].answer = "ok" => request[r].pair \in Pairs

\* A caller waits for the request it sent.
SlotOK(c) ==
    Waiting(c) =>
        /\ call[c].at \in {"ask", "refresh", "again"}
        /\ request[call[c].slot].kind = IF call[c].at = "refresh" THEN "refresh" ELSE "call"
        /\ request[call[c].slot].token = call[c].token

TypeInv ==
    /\ TypeOK
    /\ \A c \in Callers : CallerOK(c) /\ SlotOK(c)
    /\ \A r \in Requests : RequestOK(r)

\* As long as nothing went wrong, there is one refresh at a time, its caller waits
\* for it, and what it sends or has received is good.
Alone ==
    /\ \A c, d \in Refreshing : c = d
    /\ \A r \in serving : request[r].kind = "refresh" =>
           \E c \in Callers : call[c].slot = r

Answered(c, answer) == Waiting(c) /\ request[call[c].slot].answer = answer

RefreshOK(c) ==
    call[c].at = "refresh" =>
        /\ call[c].token = refresh
        /\ ~Answered(c, "denied")
        /\ ~Answered(c, "ok") => refresh \notin revoked
        /\ Answered(c, "ok") =>
               request[call[c].slot].pair \notin revoked /\ request[call[c].slot].pair > expired

StoreOK(c) ==
    /\ call[c].at \in {"store", "storing"} => call[c].pair \notin revoked
    /\ call[c].at = "store" => call[c].pair > expired
    /\ call[c].at = "storing" => access > expired

AgainOK(c) == call[c].at = "again" => call[c].token > expired /\ ~Answered(c, "denied")

Undisturbed ==
    /\ ~signedOut
    /\ Alone
    /\ Refreshing = {} => refresh \notin revoked
    /\ \A c \in Callers : RefreshOK(c) /\ StoreOK(c) /\ AgainOK(c)

AppInv ==
    /\ phase \in {"serving", "draining"} => pool = "open"
    /\ phase \in {"closing", "down"} => serving = {}
    /\ PoolOutlivesUsers

IInv ==
    /\ TypeInv
    /\ AppInv
    /\ excuses = {} => Undisturbed

-------------------------------------------------------------------------------
(* What the records of the callers become.                                 *)

LEMMA DoneType == Done \in Call /\ Done.at = "idle" /\ Done.slot = NoRequest
  BY CallsAssumption DEF Done, Call

LEMMA AskingType ==
  ASSUME NEW at \in {"ask", "refresh", "again"}, NEW token \in Nat
  PROVE  /\ Asking(at, token) \in Call
         /\ Asking(at, token).at = at
         /\ Asking(at, token).slot = NoRequest
         /\ Asking(at, token).token = token
  BY CallsAssumption DEF Asking, Call

LEMMA RetriedType ==
  ASSUME TypeOK, NEW c \in Callers
  PROVE  /\ Retried(c) \in Call
         /\ Retried(c).slot = NoRequest
         /\ \/ Retried(c) = Done
            \/ /\ Retried(c).at = call[c].at
               /\ Retried(c).token = call[c].token
               /\ Retried(c).pair = call[c].pair
<1>1. call[c] \in Call
  BY DEF TypeOK
<1>2. CASE call[c].tries < MaxRetries
  <2>1. Retried(c) = [call[c] EXCEPT !.slot = NoRequest, !.tries = call[c].tries + 1]
    BY <1>2 DEF Retried
  <2>2. call[c].tries + 1 \in 0..MaxRetries
    BY <1>1, <1>2, CallsAssumption DEF Call
  <2> QED
    BY <1>1, <2>1, <2>2 DEF Call
<1>3. CASE ~(call[c].tries < MaxRetries)
  BY <1>3, DoneType DEF Retried
<1> QED
  BY <1>2, <1>3

LEMMA EmptyType == Empty \in Request /\ Empty.kind = "none" /\ Empty.answer = "none"
  BY DEF Empty, Request

-------------------------------------------------------------------------------
(* The types.                                                              *)

LEMMA InitInv == Init => IInv
<1> SUFFICES ASSUME Init PROVE IInv
  OBVIOUS
<1>1. TypeOK
  <2>1. AppTypeOK
    BY AppAssumption DEF Init, AppInit, AppTypeOK
  <2>2. /\ call \in [Callers -> Call] /\ request \in [Requests -> Request]
        /\ \A c \in Callers : ~Waiting(c)
        /\ \A r \in Requests : request[r].kind = "none" /\ r \notin serving
    BY DoneType, EmptyType DEF Init, AppInit, Waiting
  <2>3. /\ pairs \in Nat /\ access \in Pairs /\ refresh \in Pairs
        /\ expired \in 0..pairs /\ revoked \subseteq Pairs
        /\ begun \in 0..MaxCalls /\ faults \in 0..MaxFaults
        /\ signedOut \in BOOLEAN /\ excuses \subseteq {"lost", "unreported", "overlap", "lapse"}
    <3>1. pairs = 1 /\ Pairs = 1..1
      BY DEF Init, Pairs
    <3>2. signedOut \in BOOLEAN /\ excuses \subseteq {"lost", "unreported", "overlap", "lapse"}
      BY DEF Init
    <3>3. begun \in 0..MaxCalls /\ faults \in 0..MaxFaults
      BY CallsAssumption DEF Init
    <3>4. access \in Pairs /\ refresh \in Pairs /\ revoked \subseteq Pairs
      BY <3>1 DEF Init
    <3>5. pairs \in Nat /\ expired \in 0..pairs
      BY DEF Init
    <3> QED
      BY <3>2, <3>3, <3>4, <3>5
  <2> QED
    BY <2>1, <2>2, <2>3 DEF TypeOK, Waiting
<1>2. TypeInv
  BY <1>1, DoneType DEF Init, AppInit, TypeInv, CallerOK, SlotOK, RequestOK, Waiting
<1>3. Undisturbed
  BY DoneType DEF Init, AppInit, Undisturbed, Alone, Refreshing, RefreshOK, StoreOK, AgainOK
<1> QED
  BY <1>2, <1>3 DEF Init, AppInit, IInv, AppInv, PoolOutlivesUsers

\* One caller gets a new record without a slot; nothing else that TypeInv speaks of
\* changes.
LEMMA CallerType ==
  ASSUME TypeInv, NEW c \in Callers, NEW new \in Call,
         call' = [call EXCEPT ![c] = new], new.slot = NoRequest,
         new.at \in {"ask", "refresh", "again"} => new.token \in Pairs,
         new.at \in {"store", "storing"} => new.pair \in Pairs,
         UNCHANGED <<appVars, request, pairs, expired, revoked>>,
         access' \in Pairs, refresh' \in Pairs,
         begun' \in 0..MaxCalls, faults' \in 0..MaxFaults,
         signedOut' \in BOOLEAN, excuses' \subseteq {"lost", "unreported", "overlap", "lapse"}
  PROVE  TypeInv'
<1> USE DEF appVars
<1>1. AppTypeOK' /\ Pairs' = Pairs
  BY DEF TypeInv, TypeOK, AppTypeOK, Pairs
<1>2. \A d \in Callers : call'[d] = IF d = c THEN new ELSE call[d]
  BY DEF TypeInv, TypeOK
<1>3. TypeOK'
  BY <1>1, <1>2 DEF TypeInv, TypeOK, Waiting
<1>4. \A d \in Callers : CallerOK(d)' /\ SlotOK(d)'
  BY <1>1, <1>2 DEF TypeInv, CallerOK, SlotOK, Waiting
<1>5. \A r \in Requests : RequestOK(r)'
  BY <1>1 DEF TypeInv, RequestOK
<1> QED
  BY <1>3, <1>4, <1>5 DEF TypeInv

LEMMA BeginType ==
  ASSUME TypeInv, NEW c \in Callers, Begin(c)
  PROVE  TypeInv'
<1>1. access \in Nat /\ access \in Pairs
  BY DEF TypeInv, TypeOK, Pairs
<1>2. begun' \in 0..MaxCalls
  BY CallsAssumption DEF TypeInv, TypeOK, Begin
<1>3. /\ Asking("ask", access) \in Call
      /\ Asking("ask", access).at = "ask"
      /\ Asking("ask", access).slot = NoRequest
      /\ Asking("ask", access).token = access
  BY <1>1, AskingType
<1> QED
  BY <1>1, <1>2, <1>3, CallerType DEF TypeInv, TypeOK, Begin, tokenVars, historyVars

LEMMA RefusedType ==
  ASSUME TypeInv, NEW c \in Callers, Refused(c)
  PROVE  TypeInv'
<1>1. /\ Retried(c).at \in {"ask", "refresh", "again"} => Retried(c).token \in Pairs
      /\ Retried(c).at \in {"store", "storing"} => Retried(c).pair \in Pairs
  BY RetriedType, DoneType DEF TypeInv, CallerOK
<1> QED
  BY <1>1, RetriedType, CallerType
  DEF TypeInv, TypeOK, Refused, tokenVars, boundVars, historyVars

LEMMA BreakType ==
  ASSUME TypeInv, NEW c \in Callers, Break(c)
  PROVE  TypeInv'
<1>1. /\ Retried(c).at \in {"ask", "refresh", "again"} => Retried(c).token \in Pairs
      /\ Retried(c).at \in {"store", "storing"} => Retried(c).pair \in Pairs
  BY RetriedType, DoneType DEF TypeInv, CallerOK
<1>2. faults' \in 0..MaxFaults
  BY CallsAssumption DEF TypeInv, TypeOK, Break
<1>3. excuses' \subseteq {"lost", "unreported", "overlap", "lapse"}
  BY DEF TypeInv, TypeOK, Break, LossOf
<1> QED
  BY <1>1, <1>2, <1>3, RetriedType, CallerType
  DEF TypeInv, TypeOK, Break, tokenVars, boundVars, historyVars

LEMMA SetAccessTokenType ==
  ASSUME TypeInv, NEW c \in Callers, SetAccessToken(c)
  PROVE  TypeInv'
<1> DEFINE new == [call[c] EXCEPT !.at = "storing"]
<1>1. call[c] \in Call /\ call[c].pair \in Pairs /\ ~Waiting(c)
  BY DEF TypeInv, TypeOK, CallerOK, SlotOK, SetAccessToken
<1>2. new \in Call /\ new.at = "storing" /\ new.slot = NoRequest /\ new.pair = call[c].pair
  BY <1>1 DEF Call, Waiting
<1>3. call' = [call EXCEPT ![c] = new] /\ access' \in Pairs
  BY <1>1 DEF SetAccessToken
<1> HIDE DEF new
<1> QED
  BY <1>1, <1>2, <1>3, CallerType
  DEF TypeInv, TypeOK, SetAccessToken, boundVars, historyVars

LEMMA SetRefreshTokenType ==
  ASSUME TypeInv, NEW c \in Callers, SetRefreshToken(c)
  PROVE  TypeInv'
<1>1. access \in Nat /\ access \in Pairs /\ refresh' \in Pairs
  BY DEF TypeInv, TypeOK, CallerOK, Pairs, SetRefreshToken
<1>2. /\ Asking("again", access) \in Call
      /\ Asking("again", access).at = "again"
      /\ Asking("again", access).slot = NoRequest
      /\ Asking("again", access).token = access
  BY <1>1, AskingType
<1> QED
  BY <1>1, <1>2, CallerType DEF TypeInv, TypeOK, SetRefreshToken, boundVars, historyVars

LEMMA SendType ==
  ASSUME TypeInv, NEW c \in Callers, Send(c)
  PROVE  TypeInv'
<1> DEFINE r == FreeSlot
           new == [kind |-> IF call[c].at = "refresh" THEN "refresh" ELSE "call",
                   token |-> call[c].token, answer |-> "none", pair |-> 0]
           asked == [call[c] EXCEPT !.slot = r]
<1>1. /\ r \in Requests \ serving /\ serving' = serving \union {r}
      /\ UNCHANGED <<phase, pool, cleanup, starts, tokenVars, boundVars, historyVars>>
      /\ request' = [request EXCEPT ![r] = new]
      /\ call' = [call EXCEPT ![c] = asked]
      /\ call[c] \in Call /\ ToSend(c)
  BY DEF Send, Accept, TypeInv, TypeOK
<1>2. /\ asked \in Call /\ asked.slot = r /\ asked.slot # NoRequest
      /\ asked.at = call[c].at /\ asked.token = call[c].token
      /\ asked.at \in {"ask", "refresh", "again"}
  BY <1>1, CallsAssumption DEF Call, ToSend
<1>3. /\ new \in Request /\ new.token = call[c].token /\ new.answer = "none"
      /\ new.kind = IF call[c].at = "refresh" THEN "refresh" ELSE "call"
      /\ new.token \in Pairs
  BY <1>1, <1>2 DEF Request, Call, TypeInv, CallerOK
<1> HIDE DEF r, new, asked
<1>4. /\ \A d \in Callers : call'[d] = IF d = c THEN asked ELSE call[d]
      /\ \A q \in Requests : request'[q] = IF q = r THEN new ELSE request[q]
  BY <1>1 DEF TypeInv, TypeOK
<1>5. /\ UNCHANGED <<access, refresh, pairs, expired, revoked, begun, faults, signedOut,
                     excuses>>
      /\ Pairs' = Pairs
  BY <1>1 DEF tokenVars, boundVars, historyVars, Pairs
<1>6. TypeOK'
  <2>1. AppTypeOK'
    BY <1>1 DEF TypeInv, TypeOK, AppTypeOK
  <2>2. call' \in [Callers -> Call] /\ request' \in [Requests -> Request]
    BY <1>1, <1>2, <1>3 DEF TypeInv, TypeOK
  <2>3. \A q \in Requests : request'[q].kind # "none" <=> q \in serving'
    BY <1>1, <1>3, <1>4 DEF TypeInv, TypeOK
  <2>4. /\ \A d \in Callers : Waiting(d)' => call'[d].slot \in serving'
        /\ \A d, e \in Callers : Waiting(d)' /\ call'[d].slot = call'[e].slot => d = e
    BY <1>1, <1>2, <1>4 DEF TypeInv, TypeOK, Waiting
  <2> QED
    BY <1>5, <2>1, <2>2, <2>3, <2>4 DEF TypeInv, TypeOK
<1>7. \A d \in Callers : CallerOK(d)' /\ SlotOK(d)'
  <2>1. CallerOK(c)' /\ SlotOK(c)'
    BY <1>1, <1>2, <1>3, <1>4, <1>5 DEF TypeInv, CallerOK, SlotOK
  <2>2. \A d \in Callers \ {c} : CallerOK(d)' /\ SlotOK(d)'
    BY <1>1, <1>4, <1>5 DEF TypeInv, TypeOK, CallerOK, SlotOK, Waiting
  <2> QED
    BY <2>1, <2>2
<1>8. \A q \in Requests : RequestOK(q)'
  BY <1>1, <1>3, <1>4, <1>5 DEF TypeInv, RequestOK
<1> QED
  BY <1>6, <1>7, <1>8 DEF TypeInv

\* A request in service gets its answer.
LEMMA AnswerType ==
  ASSUME TypeInv, NEW r \in serving, NEW answer \in {"ok", "denied", "failed"},
         NEW pair \in Nat, Answer(r, answer, pair),
         UNCHANGED <<appVars, call, access, refresh, expired, begun, faults, signedOut>>,
         excuses' \subseteq {"lost", "unreported", "overlap", "lapse"},
         pairs' \in Nat, pairs <= pairs', revoked' \subseteq Pairs',
         request[r].kind = "refresh" /\ answer = "ok" => pair \in Pairs'
  PROVE  /\ TypeInv'
         /\ \A q \in Requests \ {r} : request'[q] = request[q]
         /\ request'[r].answer = answer /\ request'[r].pair = pair
         /\ request'[r].kind = request[r].kind /\ request'[r].token = request[r].token
<1> DEFINE new == [request[r] EXCEPT !.answer = answer, !.pair = pair]
<1>1. request[r] \in Request /\ r \in Requests /\ serving' = serving
  BY DEF TypeInv, TypeOK, AppTypeOK, appVars
<1>2. /\ new \in Request /\ new.answer = answer /\ new.pair = pair
      /\ new.kind = request[r].kind /\ new.token = request[r].token
  BY <1>1 DEF Request
<1>3. request' = [request EXCEPT ![r] = new]
  BY <1>1 DEF Answer, TypeInv, TypeOK
<1> HIDE DEF new
<1>4. \A q \in Requests : request'[q] = IF q = r THEN new ELSE request[q]
  BY <1>3 DEF TypeInv, TypeOK
<1>5. Pairs \subseteq Pairs'
  BY DEF TypeInv, TypeOK, Pairs
<1>6. TypeOK'
  <2>1. AppTypeOK'
    BY DEF TypeInv, TypeOK, AppTypeOK, appVars
  <2>2. request' \in [Requests -> Request]
    BY <1>2, <1>3 DEF TypeInv, TypeOK
  <2>3. \A q \in Requests : request'[q].kind # "none" <=> q \in serving'
    BY <1>1, <1>2, <1>4 DEF TypeInv, TypeOK
  <2>4. expired' \in 0..pairs'
    BY DEF TypeInv, TypeOK
  <2> QED
    BY <1>1, <1>5, <2>1, <2>2, <2>3, <2>4 DEF TypeInv, TypeOK, Waiting
<1>7. \A c \in Callers : CallerOK(c)' /\ SlotOK(c)'
  <2>1. \A c \in Callers : Waiting(c) => call[c].slot \in Requests
    BY DEF TypeInv, TypeOK, AppTypeOK
  <2> QED
    BY <1>2, <1>4, <1>5, <2>1 DEF TypeInv, CallerOK, SlotOK, Waiting
<1>8. \A q \in Requests : RequestOK(q)'
  BY <1>1, <1>2, <1>4, <1>5 DEF TypeInv, RequestOK
<1> QED
  BY <1>2, <1>4, <1>6, <1>7, <1>8, <1>1 DEF TypeInv

LEMMA AuthenticateType ==
  ASSUME TypeInv, NEW r \in Requests, Authenticate(r)
  PROVE  TypeInv'
<1>1. r \in serving /\ request[r].kind # "refresh"
  BY DEF Authenticate, InService
<1>2. PICK answer \in {"ok", "denied", "failed"} : Answer(r, answer, 0)
  BY DEF Authenticate
<1>3. UNCHANGED <<appVars, call, access, refresh, pairs, expired, revoked, begun, faults,
                  signedOut, excuses>>
  BY DEF Authenticate, tokenVars, boundVars, historyVars
<1>4. /\ pairs' \in Nat /\ pairs <= pairs' /\ revoked' \subseteq Pairs'
      /\ excuses' \subseteq {"lost", "unreported", "overlap", "lapse"}
  BY <1>3 DEF TypeInv, TypeOK, Pairs
<1> QED
  BY <1>1, <1>2, <1>3, <1>4, AnswerType

LEMMA RotateType ==
  ASSUME TypeInv, NEW r \in Requests, Rotate(r)
  PROVE  TypeInv'
<1> USE DEF boundVars, historyVars
<1>1. /\ r \in serving /\ request[r].token \in Pairs
      /\ UNCHANGED <<appVars, call, access, refresh, expired, begun, faults, signedOut>>
      /\ excuses' \subseteq {"lost", "unreported", "overlap", "lapse"}
  BY DEF Rotate, InService, TypeInv, TypeOK, RequestOK
<1>2. CASE /\ revoked' \in {Pairs, revoked}
           /\ Answer(r, "denied", 0)
           /\ UNCHANGED pairs
  <2>1. pairs' \in Nat /\ pairs <= pairs' /\ revoked' \subseteq Pairs'
    BY <1>2 DEF TypeInv, TypeOK, Pairs
  <2> QED
    BY <1>1, <1>2, <2>1, AnswerType
<1>3. CASE /\ pairs' = pairs + 1
           /\ revoked' = revoked \union {request[r].token}
           /\ Answer(r, "ok", pairs')
  <2>1. pairs \in Nat /\ revoked \subseteq Pairs
    BY DEF TypeInv, TypeOK
  <2>2. pairs' \in Nat /\ pairs <= pairs' /\ pairs' \in Pairs' /\ Pairs \subseteq Pairs'
    BY <1>3, <2>1 DEF Pairs
  <2>3. revoked' \subseteq Pairs'
    BY <1>1, <1>3, <2>1, <2>2
  <2> QED
    BY <1>1, <1>3, <2>2, <2>3, AnswerType
<1> QED
  BY <1>2, <1>3 DEF Rotate, Rotated

LEMMA UnreportedCommitType ==
  ASSUME TypeInv, NEW r \in Requests, UnreportedCommit(r)
  PROVE  TypeInv'
<1>1. /\ r \in serving /\ request[r].token \in Pairs /\ Answer(r, "failed", 0)
      /\ pairs' = pairs + 1 /\ revoked' = revoked \union {request[r].token}
      /\ UNCHANGED <<appVars, call, access, refresh, expired, begun, faults, signedOut>>
  BY DEF UnreportedCommit, Rotated, InService, TypeInv, RequestOK, boundVars
<1>2. pairs \in Nat /\ revoked \subseteq Pairs
  BY DEF TypeInv, TypeOK
<1>3. pairs' \in Nat /\ pairs <= pairs' /\ revoked' \subseteq Pairs'
  <2>1. pairs' \in Nat /\ pairs <= pairs' /\ Pairs \subseteq Pairs'
    BY <1>1, <1>2 DEF Pairs
  <2> QED
    BY <1>1, <1>2, <2>1
<1>4. excuses' \subseteq {"lost", "unreported", "overlap", "lapse"}
  BY DEF UnreportedCommit, TypeInv, TypeOK
<1> QED
  BY <1>1, <1>3, <1>4, AnswerType

LEMMA ServerErrorType ==
  ASSUME TypeInv, NEW r \in Requests, ServerError(r)
  PROVE  TypeInv'
<1>1. r \in serving /\ Answer(r, "failed", 0)
  BY DEF ServerError, InService
<1>2. UNCHANGED <<appVars, call, access, refresh, pairs, expired, revoked, begun, faults,
                  signedOut, excuses>>
  BY DEF ServerError, tokenVars, boundVars, historyVars
<1>3. /\ pairs' \in Nat /\ pairs <= pairs' /\ revoked' \subseteq Pairs'
      /\ excuses' \subseteq {"lost", "unreported", "overlap", "lapse"}
  BY <1>2 DEF TypeInv, TypeOK, Pairs
<1> QED
  BY <1>1, <1>2, <1>3, AnswerType

\* What a caller makes of an answer.
Received(c, answer, pair) ==
    CASE answer = "failed" -> Retried(c)
      [] answer = "denied" /\ call[c].at = "ask" -> Asking("refresh", refresh)
      [] answer = "ok" /\ call[c].at = "refresh" -> [Done EXCEPT !.at = "store", !.pair = pair]
      [] OTHER -> Done

LEMMA ReceivedType ==
  ASSUME TypeInv, NEW c \in Callers, Waiting(c),
         NEW answer \in {"ok", "denied", "failed"}, NEW pair \in Nat,
         call[c].at = "refresh" /\ answer = "ok" => pair \in Pairs
  PROVE  /\ Received(c, answer, pair) \in Call
         /\ Received(c, answer, pair).slot = NoRequest
         /\ Received(c, answer, pair).at \in {"ask", "refresh", "again"} =>
                Received(c, answer, pair).token \in Pairs
         /\ Received(c, answer, pair).at \in {"store", "storing"} =>
                Received(c, answer, pair).pair \in Pairs
         /\ Received(c, answer, pair).at = "refresh" =>
                \/ /\ answer = "failed" /\ call[c].at = "refresh"
                   /\ Received(c, answer, pair).token = call[c].token
                \/ /\ answer = "denied" /\ call[c].at = "ask"
                   /\ Received(c, answer, pair).token = refresh
         /\ Received(c, answer, pair).at = "store" =>
                /\ answer = "ok" /\ call[c].at = "refresh"
                /\ Received(c, answer, pair).pair = pair
         /\ Received(c, answer, pair).at = "again" =>
                /\ answer = "failed" /\ call[c].at = "again"
                /\ Received(c, answer, pair).token = call[c].token
         /\ Received(c, answer, pair).at # "storing"
<1>1. CASE answer = "failed"
  <2>1. Received(c, answer, pair) = Retried(c)
    BY <1>1 DEF Received
  <2>2. call[c].at \in {"ask", "refresh", "again"}
    BY DEF TypeInv, SlotOK
  <2> QED
    BY <1>1, <2>1, <2>2, RetriedType, DoneType DEF TypeInv, CallerOK
<1>2. CASE answer = "denied" /\ call[c].at = "ask"
  <2>1. Received(c, answer, pair) = Asking("refresh", refresh)
    BY <1>2 DEF Received
  <2>2. refresh \in Nat /\ refresh \in Pairs
    BY DEF TypeInv, TypeOK, Pairs
  <2> QED
    BY <1>2, <2>1, <2>2, AskingType
<1>3. CASE answer = "ok" /\ call[c].at = "refresh"
  <2>1. Received(c, answer, pair) = [Done EXCEPT !.at = "store", !.pair = pair]
    BY <1>3 DEF Received
  <2>2. Received(c, answer, pair) =
            [at |-> "store", slot |-> NoRequest, token |-> 0, tries |-> 0, pair |-> pair]
    BY <2>1 DEF Done
  <2>3. /\ Received(c, answer, pair) \in Call
        /\ Received(c, answer, pair).slot = NoRequest
        /\ Received(c, answer, pair).at = "store"
        /\ Received(c, answer, pair).pair = pair
    BY <2>2, CallsAssumption DEF Call
  <2> QED
    BY <1>3, <2>3
<1>4. CASE /\ answer # "failed"
           /\ ~(answer = "denied" /\ call[c].at = "ask")
           /\ ~(answer = "ok" /\ call[c].at = "refresh")
  <2>1. Received(c, answer, pair) = Done
    BY <1>4 DEF Received
  <2> QED
    BY <2>1, DoneType
<1> QED
  BY <1>1, <1>2, <1>3, <1>4

\* Reply: the request leaves, and the caller that waits for it, if any, goes on.
LEMMA ReplyStep ==
  ASSUME TypeInv, NEW r \in Requests, Reply(r)
  PROVE  /\ TypeInv'
         /\ serving' = serving \ {r} /\ r \in serving
         /\ request' = [request EXCEPT ![r] = Empty]
         /\ \/ \E c \in Callers :
                   /\ call[c].slot = r /\ Waiting(c)
                   /\ call' = [call EXCEPT ![c] =
                                   Received(c, request[r].answer, request[r].pair)]
                   /\ Receive(c, request[r].answer, request[r].pair)
            \/ UNCHANGED <<call, historyVars>> /\ \A c \in Callers : call[c].slot # r
<1> USE DEF tokenVars, boundVars
<1>1. /\ r \in serving /\ serving' = serving \ {r}
      /\ UNCHANGED <<phase, pool, cleanup, starts, access, refresh, pairs, expired, revoked,
                     begun, faults>>
      /\ request' = [request EXCEPT ![r] = Empty]
      /\ request[r].answer \in {"ok", "denied", "failed"} /\ request[r].pair \in Nat
  BY DEF Reply, Finish, TypeInv, TypeOK, Request
<1>2. AppTypeOK' /\ Pairs' = Pairs
  BY <1>1 DEF TypeInv, TypeOK, AppTypeOK, Pairs
<1>3. /\ request' \in [Requests -> Request]
      /\ \A q \in Requests : request'[q] = IF q = r THEN Empty ELSE request[q]
      /\ \A q \in Requests : request'[q].kind # "none" <=> q \in serving'
      /\ \A q \in Requests : RequestOK(q)'
  BY <1>1, <1>2, EmptyType DEF TypeInv, TypeOK, RequestOK
<1>4. CASE \E c \in Callers :
              call[c].slot = r /\ Receive(c, request[r].answer, request[r].pair)
  <2>1. PICK c \in Callers :
              call[c].slot = r /\ Receive(c, request[r].answer, request[r].pair)
    BY <1>4
  <2> DEFINE new == Received(c, request[r].answer, request[r].pair)
  <2>2. call' = [call EXCEPT ![c] = new] /\ Waiting(c)
    BY <2>1, CallsAssumption DEF Receive, Received, Waiting
  <2>3. call[c].at = "refresh" /\ request[r].answer = "ok" => request[r].pair \in Pairs
    BY <1>1, <2>1, <2>2 DEF TypeInv, SlotOK, RequestOK
  <2>4. /\ new \in Call /\ new.slot = NoRequest
        /\ new.at \in {"ask", "refresh", "again"} => new.token \in Pairs
        /\ new.at \in {"store", "storing"} => new.pair \in Pairs
    BY <1>1, <2>2, <2>3, ReceivedType
  <2> HIDE DEF new
  <2>5. \A d \in Callers : call'[d] = IF d = c THEN new ELSE call[d]
    BY <2>2 DEF TypeInv, TypeOK
  <2>6. \A d \in Callers \ {c} : Waiting(d) => call[d].slot # r
    BY <2>1, <2>2 DEF TypeInv, TypeOK
  <2>7. signedOut' \in BOOLEAN /\ excuses' \subseteq {"lost", "unreported", "overlap", "lapse"}
    BY <2>1 DEF Receive, TypeInv, TypeOK
  <2>8. TypeOK'
    <3>1. call' \in [Callers -> Call]
      BY <2>2, <2>4 DEF TypeInv, TypeOK
    <3>2. /\ \A d \in Callers : Waiting(d)' => call'[d].slot \in serving'
          /\ \A d, e \in Callers : Waiting(d)' /\ call'[d].slot = call'[e].slot => d = e
      BY <1>1, <2>4, <2>5, <2>6 DEF TypeInv, TypeOK, Waiting
    <3> QED
      BY <1>1, <1>2, <1>3, <2>7, <3>1, <3>2 DEF TypeInv, TypeOK
  <2>9. \A d \in Callers : CallerOK(d)' /\ SlotOK(d)'
    <3>1. CallerOK(c)' /\ SlotOK(c)'
      BY <1>2, <2>4, <2>5 DEF CallerOK, SlotOK, Waiting
    <3>2. \A d \in Callers \ {c} : CallerOK(d)' /\ SlotOK(d)'
      BY <1>2, <1>3, <2>5, <2>6 DEF TypeInv, TypeOK, AppTypeOK, CallerOK, SlotOK, Waiting
    <3> QED
      BY <3>1, <3>2
  <2> QED
    BY <1>1, <1>3, <2>1, <2>2, <2>8, <2>9 DEF TypeInv, new
<1>5. CASE UNCHANGED <<call, historyVars>> /\ \A c \in Callers : call[c].slot # r
  <2>1. UNCHANGED <<signedOut, excuses>>
    BY <1>5 DEF historyVars
  <2>2. TypeOK'
    BY <1>1, <1>2, <1>3, <1>5, <2>1 DEF TypeInv, TypeOK, Waiting
  <2>3. \A d \in Callers : CallerOK(d)' /\ SlotOK(d)'
    BY <1>2, <1>3, <1>5 DEF TypeInv, TypeOK, AppTypeOK, CallerOK, SlotOK, Waiting
  <2> QED
    BY <1>1, <1>3, <1>5, <2>2, <2>3 DEF TypeInv
<1> QED
  BY <1>4, <1>5 DEF Reply

LEMMA ExpireType ==
  ASSUME TypeInv, Expire
  PROVE  TypeInv'
<1> USE DEF boundVars
<1>1. AppTypeOK' /\ Pairs' = Pairs
  BY DEF Expire, appVars, TypeInv, TypeOK, AppTypeOK, Pairs
<1>2. expired' \in 0..pairs' /\ pairs' \in Nat
  BY DEF Expire, TypeInv, TypeOK
<1>3. excuses' \subseteq {"lost", "unreported", "overlap", "lapse"}
  BY DEF Expire, TypeInv, TypeOK
<1>4. /\ UNCHANGED <<serving, call, request, access, refresh, revoked, begun, faults>>
      /\ signedOut' = signedOut
  BY DEF Expire, appVars
<1>5. TypeOK'
  BY <1>1, <1>2, <1>3, <1>4 DEF TypeInv, TypeOK, Waiting
<1> QED
  BY <1>1, <1>4, <1>5 DEF TypeInv, CallerOK, SlotOK, RequestOK, Waiting

LEMMA CutOffType ==
  ASSUME TypeInv, CutOff
  PROVE  /\ TypeInv'
         /\ serving' = {}
         /\ \A c \in Callers :
                call'[c] = IF Waiting(c) THEN Retried(c) ELSE call[c]
<1> USE DEF tokenVars, boundVars
<1>1. AppTypeOK' /\ Pairs' = Pairs /\ serving' = {}
  BY DEF CutOff, Fatal, TypeInv, TypeOK, AppTypeOK, Pairs
<1>2. /\ request' \in [Requests -> Request]
      /\ \A r \in Requests : request'[r].kind = "none"
  BY EmptyType DEF CutOff
<1>3. \A c \in Callers : /\ call'[c] = IF Waiting(c) THEN Retried(c) ELSE call[c]
                         /\ call'[c] \in Call
                         /\ call'[c].slot = NoRequest
  BY RetriedType DEF CutOff, TypeInv, TypeOK, Waiting
<1>4. call' \in [Callers -> Call]
  BY <1>3 DEF CutOff
<1>5. excuses' \subseteq {"lost", "unreported", "overlap", "lapse"}
  BY DEF CutOff, LossOf, TypeInv, TypeOK
<1>6. TypeOK'
  <2>1. UNCHANGED <<access, refresh, pairs, expired, revoked, begun, faults, signedOut>>
    BY DEF CutOff
  <2>2. \A c \in Callers : ~Waiting(c)'
    BY <1>3 DEF Waiting
  <2> QED
    BY <1>1, <1>2, <1>4, <1>5, <2>1, <2>2 DEF TypeInv, TypeOK
<1>7. \A c \in Callers : CallerOK(c)' /\ SlotOK(c)'
  <2> SUFFICES ASSUME NEW c \in Callers PROVE CallerOK(c)' /\ SlotOK(c)'
    OBVIOUS
  <2>1. SlotOK(c)'
    BY <1>3 DEF SlotOK, Waiting
  <2>2. CASE Waiting(c)
    <3>1. call'[c] = Retried(c)
      BY <2>2, <1>3
    <3>2. /\ Retried(c).at \in {"ask", "refresh", "again"} => Retried(c).token \in Pairs
          /\ Retried(c).at \in {"store", "storing"} => Retried(c).pair \in Pairs
      BY RetriedType, DoneType DEF TypeInv, CallerOK
    <3> QED
      BY <1>1, <2>1, <3>1, <3>2 DEF CallerOK
  <2>3. CASE ~Waiting(c)
    <3>1. call'[c] = call[c] /\ CallerOK(c)
      BY <2>3, <1>3 DEF TypeInv
    <3> QED
      BY <1>1, <2>1, <3>1 DEF CallerOK
  <2> QED
    BY <2>1, <2>2, <2>3
<1> QED
  BY <1>1, <1>3, <1>6, <1>7 DEF TypeInv, RequestOK

LEMMA ServerStepType ==
  ASSUME TypeInv, ServerStep
  PROVE  TypeInv' /\ serving' = serving
<1> USE DEF tokenVars, boundVars, historyVars
<1>1. AppTypeOK' /\ serving' = serving
  <2>1. CASE Start
    BY <2>1, AppAssumption DEF Start, TypeInv, TypeOK, AppTypeOK
  <2>2. CASE ~Start
    BY <2>2 DEF ServerStep, Background, Tick, DeleteExpired, CleanupStops, Signal, Drained,
                ClosePool, Return, TypeInv, TypeOK, AppTypeOK
  <2> QED
    BY <2>1, <2>2
<1>2. /\ UNCHANGED <<call, request, access, refresh, pairs, expired, revoked, begun, faults>>
      /\ UNCHANGED <<signedOut, excuses>>
      /\ Pairs' = Pairs
  BY DEF ServerStep, Pairs
<1> QED
  BY <1>1, <1>2 DEF TypeInv, TypeOK, CallerOK, SlotOK, RequestOK, Waiting

-------------------------------------------------------------------------------
(* The process.                                                            *)

LEMMA AppStep ==
  ASSUME TypeInv, AppInv, [Next]_vars
  PROVE  AppInv'
<1> USE DEF AppInv, PoolOutlivesUsers, appVars
<1>1. CASE UNCHANGED appVars
  BY <1>1
<1>2. ASSUME NEW r \in Requests, Accept(r) PROVE AppInv'
  BY <1>2 DEF Accept
<1>3. ASSUME NEW r \in Requests, Finish(r) PROVE AppInv'
  BY <1>3 DEF Finish
<1>4. CASE Background
  BY <1>4 DEF Background, Start, Tick, DeleteExpired, CleanupStops, Signal, Drained,
              ClosePool, Return, TypeInv, TypeOK, AppTypeOK
<1>5. CASE Fatal
  BY <1>5 DEF Fatal
<1>6. \/ UNCHANGED appVars
      \/ \E r \in Requests : Accept(r) \/ Finish(r)
      \/ Background
      \/ Fatal
  <2>1. CASE UNCHANGED vars
    BY <2>1 DEF vars
  <2>2. ASSUME NEW c \in Callers, Begin(c) \/ Proceed(c) \/ Break(c)
        PROVE  UNCHANGED appVars \/ \E r \in Requests : Accept(r)
    BY <2>2 DEF Begin, Proceed, Send, Accept, Refused, SetAccessToken, SetRefreshToken, Break
  <2>3. ASSUME NEW r \in Requests, Handle(r)
        PROVE  UNCHANGED appVars \/ Finish(r)
    BY <2>3 DEF Handle, Authenticate, Rotate, UnreportedCommit, ServerError, Reply
  <2> QED
    BY <2>1, <2>2, <2>3 DEF Next, Expire, ServerStep, CutOff
<1> QED
  BY <1>1, <1>2, <1>3, <1>4, <1>5, <1>6

-------------------------------------------------------------------------------
(* Nothing goes wrong as long as nothing is excused.                        *)

\* A caller begins, ends or repeats a call, without a request under way.
LEMMA CallerCalm ==
  ASSUME TypeInv, Undisturbed, NEW c \in Callers, NEW new,
         \/ ~Waiting(c) /\ call[c].at \in {"idle", "ask", "refresh", "again"}
         \/ call[c].at \in {"ask", "again"},
         call' = [call EXCEPT ![c] = new], new.slot = NoRequest,
         \/ new.at \in {"idle", "ask"}
         \/ new.at = call[c].at /\ new.token = call[c].token,
         UNCHANGED <<serving, request, access, refresh, pairs, expired, revoked, signedOut>>
  PROVE  Undisturbed'
<1>1. \A d \in Callers : call'[d] = IF d = c THEN new ELSE call[d]
  BY DEF TypeInv, TypeOK
<1>2. ~signedOut'
  BY Zenon DEF Undisturbed
<1>3. call[c].at = "refresh" => refresh \notin revoked
  BY DEF Undisturbed, RefreshOK, Answered
<1>4. /\ \A d \in Refreshing' : d \in Refreshing
      /\ \A d \in Refreshing : d # c => d \in Refreshing'
      /\ c \in Refreshing => call[c].at = "refresh"
  BY <1>1 DEF Refreshing
<1>5. Refreshing' = {} => refresh' \notin revoked'
  BY <1>3, <1>4 DEF Undisturbed, Refreshing
<1>6. Alone'
  <2>1. \A r \in serving : request[r].kind = "refresh" =>
            \E d \in Callers \ {c} : call[d].slot = r
    BY CallsAssumption DEF Undisturbed, Alone, TypeInv, TypeOK, AppTypeOK, SlotOK, Waiting
  <2> QED
    BY <1>1, <1>4, <2>1 DEF Undisturbed, Alone
<1>7. \A d \in Callers : RefreshOK(d)' /\ StoreOK(d)' /\ AgainOK(d)'
  <2>1. RefreshOK(c)' /\ StoreOK(c)' /\ AgainOK(c)'
    BY <1>1, <1>3 DEF Undisturbed, RefreshOK, StoreOK, AgainOK, Answered, Waiting
  <2>2. \A d \in Callers \ {c} : RefreshOK(d)' /\ StoreOK(d)' /\ AgainOK(d)'
    BY <1>1 DEF Undisturbed, RefreshOK, StoreOK, AgainOK, Answered, Waiting
  <2> QED
    BY <2>1, <2>2
<1> QED
  BY <1>2, <1>5, <1>6, <1>7 DEF Undisturbed

LEMMA BeginCalm ==
  ASSUME TypeInv, Undisturbed, NEW c \in Callers, Begin(c)
  PROVE  Undisturbed'
<1>1. ~Waiting(c) /\ call[c].at = "idle"
  BY DEF Begin, TypeInv, SlotOK
<1>2. Asking("ask", access).at = "ask" /\ Asking("ask", access).slot = NoRequest
  BY DEF Asking
<1>3. UNCHANGED <<serving, request, access, refresh, pairs, expired, revoked, signedOut>>
  BY DEF Begin, appVars, tokenVars, historyVars
<1>4. call' = [call EXCEPT ![c] = Asking("ask", access)]
  BY DEF Begin
<1> QED
  BY <1>1, <1>2, <1>3, <1>4, CallerCalm

LEMMA RefusedCalm ==
  ASSUME TypeInv, Undisturbed, NEW c \in Callers, Refused(c)
  PROVE  Undisturbed'
<1>1. ~Waiting(c) /\ call[c].at \in {"idle", "ask", "refresh", "again"}
  BY DEF Refused, ToSend
<1>2. /\ Retried(c).slot = NoRequest
      /\ \/ Retried(c).at \in {"idle", "ask"}
         \/ Retried(c).at = call[c].at /\ Retried(c).token = call[c].token
  BY RetriedType, DoneType DEF TypeInv
<1>3. UNCHANGED <<serving, request, access, refresh, pairs, expired, revoked, signedOut>>
  BY DEF Refused, appVars, tokenVars, historyVars
<1>4. call' = [call EXCEPT ![c] = Retried(c)]
  BY DEF Refused
<1> QED
  BY <1>1, <1>2, <1>3, <1>4, CallerCalm

LEMMA BreakCalm ==
  ASSUME TypeInv, Undisturbed, NEW c \in Callers, Break(c), excuses' = {}
  PROVE  Undisturbed'
<1>1. call[c].at \in {"ask", "again"}
  BY DEF Break, LossOf, TypeInv, SlotOK
<1>2. /\ Retried(c).slot = NoRequest
      /\ \/ Retried(c).at \in {"idle", "ask"}
         \/ Retried(c).at = call[c].at /\ Retried(c).token = call[c].token
  BY RetriedType, DoneType DEF TypeInv
<1>3. UNCHANGED <<serving, request, access, refresh, pairs, expired, revoked, signedOut>>
  BY DEF Break, appVars, tokenVars
<1>4. call' = [call EXCEPT ![c] = Retried(c)]
  BY DEF Break
<1> QED
  BY <1>1, <1>2, <1>3, <1>4, CallerCalm

LEMMA SetAccessTokenCalm ==
  ASSUME TypeInv, Undisturbed, NEW c \in Callers, SetAccessToken(c)
  PROVE  Undisturbed'
<1>1. /\ UNCHANGED <<serving, request, refresh, pairs, expired, revoked>>
      /\ signedOut' = signedOut
      /\ call[c].at = "store" /\ access' = call[c].pair
      /\ call' = [call EXCEPT ![c].at = "storing"]
  BY DEF SetAccessToken, appVars, historyVars
<1>2. /\ \A d \in Callers \ {c} : call'[d] = call[d]
      /\ \A d \in Callers : call'[d].slot = call[d].slot
      /\ call'[c].at = "storing" /\ call'[c].pair = call[c].pair
  BY <1>1 DEF TypeInv, TypeOK, Call
<1>3. ~signedOut'
  BY <1>1, Zenon DEF Undisturbed
<1>4. Refreshing' = Refreshing /\ c \in Refreshing
  BY <1>1, <1>2 DEF Refreshing
<1>5. Alone'
  BY <1>1, <1>2, <1>4 DEF Undisturbed, Alone
<1>6. \A d \in Callers : RefreshOK(d)' /\ StoreOK(d)' /\ AgainOK(d)'
  <2>1. RefreshOK(c)' /\ StoreOK(c)' /\ AgainOK(c)'
    BY <1>1, <1>2 DEF Undisturbed, RefreshOK, StoreOK, AgainOK
  <2>2. ASSUME NEW d \in Callers \ {c}
        PROVE  RefreshOK(d)' /\ StoreOK(d)' /\ AgainOK(d)'
    <3>1. d \notin Refreshing
      BY <1>4 DEF Undisturbed, Alone
    <3> QED
      BY <1>1, <1>2, <3>1
      DEF Undisturbed, Refreshing, RefreshOK, StoreOK, AgainOK, Answered, Waiting
  <2> QED
    BY <2>1, <2>2
<1> QED
  BY <1>1, <1>3, <1>4, <1>5, <1>6 DEF Undisturbed

LEMMA SetRefreshTokenCalm ==
  ASSUME TypeInv, Undisturbed, NEW c \in Callers, SetRefreshToken(c)
  PROVE  Undisturbed'
<1> DEFINE new == Asking("again", access)
<1>1. /\ UNCHANGED <<serving, request, access, pairs, expired, revoked>>
      /\ signedOut' = signedOut
      /\ call[c].at = "storing" /\ refresh' = call[c].pair
      /\ call' = [call EXCEPT ![c] = new]
  BY DEF SetRefreshToken, appVars, historyVars
<1>2. new.at = "again" /\ new.slot = NoRequest /\ new.token = access
  BY DEF Asking
<1> HIDE DEF new
<1>3. \A d \in Callers : call'[d] = IF d = c THEN new ELSE call[d]
  BY <1>1 DEF TypeInv, TypeOK
<1>4. ~signedOut'
  BY <1>1, Zenon DEF Undisturbed
<1>5. Refreshing = {c} /\ Refreshing' = {} /\ ~Waiting(c)
  BY <1>1, <1>2, <1>3 DEF Refreshing, Undisturbed, Alone, TypeInv, SlotOK
<1>6. refresh' \notin revoked' /\ access > expired
  BY <1>1 DEF Undisturbed, StoreOK
<1>7. Alone'
  <2>1. \A r \in serving : request[r].kind = "refresh" =>
            \E d \in Callers \ {c} : call[d].slot = r
    BY <1>5, CallsAssumption DEF Undisturbed, Alone, TypeInv, TypeOK, AppTypeOK, Waiting
  <2> QED
    BY <1>1, <1>3, <1>5, <2>1 DEF Alone
<1>8. \A d \in Callers : RefreshOK(d)' /\ StoreOK(d)' /\ AgainOK(d)'
  <2>1. RefreshOK(c)' /\ StoreOK(c)' /\ AgainOK(c)'
    BY <1>1, <1>2, <1>3, <1>6 DEF RefreshOK, StoreOK, AgainOK, Answered, Waiting
  <2>2. ASSUME NEW d \in Callers \ {c}
        PROVE  RefreshOK(d)' /\ StoreOK(d)' /\ AgainOK(d)'
    BY <1>1, <1>3, <1>5
    DEF Undisturbed, Refreshing, RefreshOK, StoreOK, AgainOK, Answered, Waiting
  <2> QED
    BY <2>1, <2>2
<1> QED
  BY <1>4, <1>6, <1>7, <1>8 DEF Undisturbed

LEMMA SendCalm ==
  ASSUME TypeInv, Undisturbed, NEW c \in Callers, Send(c)
  PROVE  Undisturbed'
<1> DEFINE r == FreeSlot
<1>1. /\ r \in Requests \ serving /\ serving' = serving \union {r}
      /\ UNCHANGED <<access, refresh, pairs, expired, revoked>>
      /\ signedOut' = signedOut
      /\ ToSend(c)
  BY DEF Send, Accept, tokenVars, historyVars
<1>2. /\ \A d \in Callers \ {c} : call'[d] = call[d]
      /\ call'[c].at = call[c].at /\ call'[c].token = call[c].token
      /\ call'[c].pair = call[c].pair /\ call'[c].slot = r
  BY DEF Send, TypeInv, TypeOK, Call
<1>3. /\ \A q \in Requests \ {r} : request'[q] = request[q]
      /\ request'[r].answer = "none"
  BY <1>1 DEF Send, TypeInv, TypeOK
<1>4. request'[r].kind = "refresh" => call[c].at = "refresh"
  BY <1>1 DEF Send, TypeInv, TypeOK
<1> HIDE DEF r
<1>5. ~signedOut'
  BY <1>1, Zenon DEF Undisturbed
<1>6. Refreshing' = Refreshing
  BY <1>2 DEF Refreshing
<1>7. \A d \in Callers : Waiting(d) => call[d].slot \in serving /\ d # c
  BY <1>1 DEF TypeInv, TypeOK, ToSend
<1>8. serving \subseteq Requests
  BY DEF TypeInv, TypeOK, AppTypeOK
<1>9. Alone'
  <2>1. \A q \in serving : request[q].kind = "refresh" =>
            \E d \in Callers \ {c} : call[d].slot = q
    BY <1>7, <1>8, CallsAssumption DEF Undisturbed, Alone, Waiting
  <2>2. \A q \in serving : request'[q].kind = "refresh" =>
            \E d \in Callers : call'[d].slot = q
    BY <1>1, <1>2, <1>3, <1>8, <2>1
  <2> QED
    BY <1>1, <1>2, <1>6, <2>2 DEF Undisturbed, Alone
<1>10. \A d \in Callers : RefreshOK(d)' /\ StoreOK(d)' /\ AgainOK(d)'
  <2>1. RefreshOK(c)' /\ StoreOK(c)' /\ AgainOK(c)'
    BY <1>1, <1>2, <1>3, <1>7
    DEF Undisturbed, RefreshOK, StoreOK, AgainOK, Answered, ToSend
  <2>2. ASSUME NEW d \in Callers \ {c}
        PROVE  RefreshOK(d)' /\ StoreOK(d)' /\ AgainOK(d)'
    <3>1. Waiting(d) => call[d].slot \in Requests \ {r}
      BY <1>1, <1>7, <1>8
    <3> QED
      BY <1>1, <1>2, <1>3, <3>1 DEF Undisturbed, RefreshOK, StoreOK, AgainOK, Answered, Waiting
  <2> QED
    BY <2>1, <2>2
<1> QED
  BY <1>1, <1>5, <1>6, <1>9, <1>10 DEF Undisturbed

\* The fields of an answered request.
LEMMA AnswerFields ==
  ASSUME TypeInv, NEW r \in Requests, NEW answer, NEW pair, Answer(r, answer, pair)
  PROVE  /\ \A q \in Requests \ {r} : request'[q] = request[q]
         /\ request'[r].answer = answer /\ request'[r].pair = pair
         /\ request'[r].kind = request[r].kind
BY DEF Answer, TypeInv, TypeOK, Request

\* An answer leaves the callers where they are; those that do not wait for it do not
\* notice.
LEMMA AnswerCalm ==
  ASSUME TypeInv, Undisturbed, NEW r \in Requests, NEW answer, NEW pair,
         Answer(r, answer, pair),
         UNCHANGED <<serving, call, access, refresh, expired>>, signedOut' = signedOut,
         Refreshing = {} => revoked' = revoked,
         \A c \in Callers : call[c].at \in {"store", "storing"} => revoked' = revoked,
         \A c \in Callers : call[c].slot = r => RefreshOK(c)' /\ AgainOK(c)',
         \A c \in Callers : call[c].at = "refresh" /\ call[c].slot # r => revoked' = revoked
  PROVE  Undisturbed'
<1>1. /\ \A q \in Requests \ {r} : request'[q] = request[q]
      /\ request'[r].kind = request[r].kind
  BY AnswerFields
<1>2. ~signedOut'
  BY Zenon DEF Undisturbed
<1>3. serving \subseteq Requests /\ \A c \in Callers : Waiting(c) => call[c].slot \in Requests
  BY DEF TypeInv, TypeOK, AppTypeOK
<1>4. Refreshing' = Refreshing
  BY DEF Refreshing
<1>5. Alone'
  BY <1>1, <1>3, <1>4 DEF Undisturbed, Alone
<1>6. ASSUME NEW c \in Callers PROVE RefreshOK(c)' /\ StoreOK(c)' /\ AgainOK(c)'
  <2>1. StoreOK(c)'
    BY DEF Undisturbed, StoreOK
  <2>2. CASE call[c].slot = r
    BY <2>1, <2>2
  <2>3. CASE call[c].slot # r
    <3>1. Waiting(c) => request'[call[c].slot] = request[call[c].slot]
      BY <1>1, <1>3, <2>3
    <3> QED
      BY <2>1, <2>3, <3>1 DEF Undisturbed, RefreshOK, AgainOK, Answered, Waiting
  <2> QED
    BY <2>2, <2>3
<1> QED
  BY <1>2, <1>4, <1>5, <1>6 DEF Undisturbed

LEMMA AuthenticateCalm ==
  ASSUME TypeInv, Undisturbed, NEW r \in Requests, Authenticate(r)
  PROVE  Undisturbed'
<1> DEFINE answer == IF request[r].token > expired THEN "ok" ELSE "denied"
<1>1. /\ Answer(r, answer, 0) /\ request[r].kind = "call"
      /\ UNCHANGED <<serving, call, access, refresh, expired, revoked>>
      /\ signedOut' = signedOut
  BY DEF Authenticate, InService, appVars, tokenVars, historyVars
<1>2. request'[r].answer = answer
  BY <1>1, AnswerFields
<1>3. ASSUME NEW c \in Callers, call[c].slot = r PROVE RefreshOK(c)' /\ AgainOK(c)'
  <2>1. call[c].at # "refresh" /\ request[r].token = call[c].token
    BY <1>1, <1>3, CallsAssumption DEF TypeInv, SlotOK, Waiting
  <2> QED
    BY <1>1, <1>2, <1>3, <2>1 DEF Undisturbed, RefreshOK, AgainOK, Answered
<1> HIDE DEF answer
<1> QED
  BY <1>1, <1>3, AnswerCalm

LEMMA ServerErrorCalm ==
  ASSUME TypeInv, Undisturbed, NEW r \in Requests, ServerError(r)
  PROVE  Undisturbed'
<1>1. /\ Answer(r, "failed", 0) /\ request[r].answer = "none"
      /\ UNCHANGED <<serving, call, access, refresh, expired, revoked>>
      /\ signedOut' = signedOut
  BY DEF ServerError, InService, appVars, tokenVars, historyVars
<1>2. request'[r].answer = "failed"
  BY <1>1, AnswerFields
<1>3. ASSUME NEW c \in Callers, call[c].slot = r PROVE RefreshOK(c)' /\ AgainOK(c)'
  BY <1>1, <1>2, <1>3 DEF Undisturbed, RefreshOK, AgainOK, Answered, Waiting
<1> QED
  BY <1>1, <1>3, AnswerCalm

\* The token is the client's, which is not revoked: it is rotated.
LEMMA RotateCalm ==
  ASSUME TypeInv, Undisturbed, NEW r \in Requests, Rotate(r)
  PROVE  Undisturbed'
<1>1. /\ r \in serving /\ request[r].kind = "refresh" /\ request[r].answer = "none"
      /\ UNCHANGED <<serving, call, access, refresh, expired>>
      /\ signedOut' = signedOut
  BY DEF Rotate, InService, appVars, historyVars
<1>2. PICK c \in Callers : call[c].slot = r
  BY <1>1 DEF Undisturbed, Alone
<1>3. /\ Waiting(c) /\ call[c].at = "refresh"
      /\ request[r].token = refresh /\ refresh \notin revoked
      /\ \A d \in Refreshing : d = c
      /\ c \in Refreshing
  BY <1>1, <1>2, CallsAssumption
  DEF TypeInv, SlotOK, Waiting, Undisturbed, Alone, RefreshOK, Answered, Refreshing
<1>4. /\ pairs' = pairs + 1 /\ revoked' = revoked \union {refresh}
      /\ Answer(r, "ok", pairs + 1)
  BY <1>3 DEF Rotate, Rotated
<1>5. request'[r].answer = "ok" /\ request'[r].pair = pairs + 1
  BY <1>4, AnswerFields
<1>6. /\ \A d \in Callers : call[d].at \in {"refresh", "store", "storing"} => d = c
      /\ \A d \in Callers : call[d].slot = r => d = c
  BY <1>2, <1>3 DEF Refreshing, TypeInv, TypeOK
<1>7. pairs + 1 \notin revoked' /\ pairs + 1 > expired
  BY <1>4 DEF TypeInv, TypeOK, Pairs
<1>8. RefreshOK(c)' /\ AgainOK(c)'
  <2>1. call' = call /\ refresh' = refresh /\ expired' = expired
    BY <1>1
  <2>2. call[c].token = refresh
    BY <1>3 DEF Undisturbed, RefreshOK
  <2>3. ~Answered(c, "denied")' /\ Answered(c, "ok")'
    BY <1>2, <1>3, <1>5, <2>1 DEF Answered, Waiting
  <2> QED
    BY <1>2, <1>3, <1>5, <1>7, <2>1, <2>2, <2>3 DEF RefreshOK, AgainOK
<1>9. /\ Refreshing # {}
      /\ \A d \in Callers : call[d].at \notin {"store", "storing"}
      /\ \A d \in Callers : call[d].at = "refresh" => call[d].slot = r
  BY <1>2, <1>3, <1>6
<1>10. \A d \in Callers : call[d].slot = r => RefreshOK(d)' /\ AgainOK(d)'
  BY <1>6, <1>8
<1> QED
  BY <1>1, <1>4, <1>9, <1>10, AnswerCalm

\* The caller that waits for the request goes on with its answer.
LEMMA ReceiveCalm ==
  ASSUME TypeInv, Undisturbed, TypeInv', NEW r \in Requests, r \in serving,
         serving' = serving \ {r}, request' = [request EXCEPT ![r] = Empty],
         UNCHANGED <<access, refresh, pairs, expired, revoked>>,
         NEW c \in Callers, call[c].slot = r, Waiting(c),
         call' = [call EXCEPT ![c] = Received(c, request[r].answer, request[r].pair)],
         Receive(c, request[r].answer, request[r].pair),
         request[r].answer \in {"ok", "denied", "failed"}, request[r].pair \in Nat,
         excuses' = {}
  PROVE  Undisturbed'
<1> DEFINE answer == request[r].answer
           pair == request[r].pair
           new == Received(c, answer, pair)
<1>1. /\ answer = "denied" => call[c].at = "ask" /\ Refreshing = {}
      /\ Answered(c, answer)
  BY DEF Undisturbed, RefreshOK, AgainOK, Answered, Receive, TypeInv, SlotOK, Waiting
<1>2. ~signedOut'
  <2>1. signedOut' = (signedOut \/ (answer = "denied" /\ call[c].at # "ask"))
    BY DEF Receive
  <2> QED
    BY <1>1, <2>1, Zenon DEF Undisturbed
<1>3. call[c].at = "refresh" /\ answer = "ok" => pair \in Pairs
  BY DEF TypeInv, SlotOK, RequestOK
<1>4. /\ new.slot = NoRequest
      /\ new.at = "refresh" =>
             \/ answer = "failed" /\ call[c].at = "refresh" /\ new.token = call[c].token
             \/ answer = "denied" /\ call[c].at = "ask" /\ new.token = refresh
      /\ new.at = "store" =>
             answer = "ok" /\ call[c].at = "refresh" /\ new.pair = pair
      /\ new.at = "again" =>
             answer = "failed" /\ call[c].at = "again" /\ new.token = call[c].token
      /\ new.at # "storing"
  BY <1>3, ReceivedType
<1> HIDE DEF new, Received
<1>5. /\ \A d \in Callers : call'[d] = IF d = c THEN new ELSE call[d]
      /\ \A q \in Requests \ {r} : request'[q] = request[q]
  BY DEF new, TypeInv, TypeOK
<1>6. \A d \in Callers \ {c} : Waiting(d) => call[d].slot \in Requests \ {r}
  BY DEF TypeInv, TypeOK, AppTypeOK, Waiting
<1>7. call[c].at \in {"ask", "refresh", "again"}
  BY DEF TypeInv, SlotOK
<1>8. \A d \in Refreshing' : d \in Refreshing \/ (d = c /\ Refreshing = {})
  BY <1>1, <1>4, <1>5 DEF Refreshing
<1>9. Refreshing' = {} => refresh' \notin revoked'
  <2>1. CASE c \in Refreshing
    <3> SUFFICES ASSUME Refreshing' = {} PROVE answer = "failed" \/ new.at = "store"
      <4>1. c \notin Refreshing' => new.at # "store"
        BY <1>5 DEF Refreshing
      <4> QED
        BY <1>1, <1>7, <2>1, <4>1 DEF Undisturbed, RefreshOK, Answered, Refreshing
    <3> QED
      BY <1>1, <1>7, <2>1 DEF Refreshing, new, Received, Done
  <2>2. CASE c \notin Refreshing
    <3>1. \A d \in Refreshing : d \in Refreshing'
      BY <1>5, <2>2 DEF Refreshing
    <3> QED
      BY <3>1 DEF Undisturbed
  <2> QED
    BY <2>1, <2>2
<1>10. Alone'
  <2>1. \A d, e \in Refreshing' : d = e
    BY <1>8 DEF Undisturbed, Alone
  <2>2. \A q \in serving' : request'[q].kind = "refresh" =>
            \E d \in Callers : call'[d].slot = q
    BY <1>5 DEF Undisturbed, Alone, TypeInv, TypeOK, AppTypeOK
  <2> QED
    BY <2>1, <2>2 DEF Alone
<1>11. RefreshOK(c)' /\ StoreOK(c)' /\ AgainOK(c)'
  <2>1. ~Answered(c, "denied")' /\ ~Answered(c, "ok")'
    BY <1>4, <1>5 DEF Answered, Waiting
  <2>2. RefreshOK(c)'
    <3>1. new.at = "refresh" => new.token = refresh /\ refresh \notin revoked
      BY <1>1, <1>4 DEF Undisturbed, RefreshOK, Answered
    <3> QED
      BY <1>5, <2>1, <3>1 DEF RefreshOK
  <2>3. StoreOK(c)'
    BY <1>1, <1>4, <1>5 DEF Undisturbed, RefreshOK, StoreOK
  <2>4. AgainOK(c)'
    BY <1>4, <1>5, <2>1 DEF Undisturbed, AgainOK
  <2> QED
    BY <2>2, <2>3, <2>4
<1>12. ASSUME NEW d \in Callers \ {c} PROVE RefreshOK(d)' /\ StoreOK(d)' /\ AgainOK(d)'
  BY <1>5, <1>6 DEF Undisturbed, RefreshOK, StoreOK, AgainOK, Answered, Waiting
<1> QED
  BY <1>2, <1>9, <1>10, <1>11, <1>12 DEF Undisturbed

LEMMA ReplyCalm ==
  ASSUME TypeInv, Undisturbed, NEW r \in Requests, Reply(r), excuses' = {}
  PROVE  Undisturbed'
<1>1. /\ TypeInv' /\ r \in serving /\ serving' = serving \ {r}
      /\ request' = [request EXCEPT ![r] = Empty]
      /\ UNCHANGED <<access, refresh, pairs, expired, revoked>>
      /\ request[r].answer \in {"ok", "denied", "failed"} /\ request[r].pair \in Nat
  BY ReplyStep DEF Reply, tokenVars, TypeInv, TypeOK, Request
<1>2. CASE \E c \in Callers :
              /\ call[c].slot = r /\ Waiting(c)
              /\ call' = [call EXCEPT ![c] =
                              Received(c, request[r].answer, request[r].pair)]
              /\ Receive(c, request[r].answer, request[r].pair)
  BY <1>1, <1>2, ReceiveCalm
<1>3. CASE UNCHANGED <<call, historyVars>> /\ \A c \in Callers : call[c].slot # r
  <2>1. call' = call /\ signedOut' = signedOut
    BY <1>3 DEF historyVars
  <2>2. \A q \in Requests \ {r} : request'[q] = request[q]
    BY <1>1 DEF TypeInv, TypeOK
  <2>3. ~signedOut'
    BY <2>1, Zenon DEF Undisturbed
  <2>4. serving \subseteq Requests /\ \A c \in Callers : Waiting(c) => call[c].slot \in Requests
    BY DEF TypeInv, TypeOK, AppTypeOK
  <2>5. Refreshing' = Refreshing
    BY <2>1 DEF Refreshing
  <2>6. Alone'
    BY <1>1, <2>1, <2>2, <2>4, <2>5 DEF Undisturbed, Alone
  <2>7. \A c \in Callers : RefreshOK(c)' /\ StoreOK(c)' /\ AgainOK(c)'
    BY <1>1, <1>3, <2>1, <2>2, <2>4
    DEF Undisturbed, RefreshOK, StoreOK, AgainOK, Answered, Waiting
  <2> QED
    BY <1>1, <2>3, <2>5, <2>6, <2>7 DEF Undisturbed
<1> QED
  BY <1>2, <1>3, ReplyStep

LEMMA ExpireCalm ==
  ASSUME TypeInv, Undisturbed, Expire, excuses' = {}
  PROVE  Undisturbed'
<1>1. \A c \in Callers : call[c].at \in {"idle", "ask"}
  BY DEF Expire
<1>2. UNCHANGED <<serving, call, request, refresh, revoked>> /\ signedOut' = signedOut
  BY DEF Expire, appVars
<1>3. ~signedOut'
  BY <1>2, Zenon DEF Undisturbed
<1>4. Refreshing' = Refreshing
  BY <1>2 DEF Refreshing
<1>5. Alone'
  BY <1>2, <1>4 DEF Undisturbed, Alone
<1>6. \A c \in Callers : RefreshOK(c)' /\ StoreOK(c)' /\ AgainOK(c)'
  BY <1>1, <1>2 DEF RefreshOK, StoreOK, AgainOK
<1> QED
  BY <1>2, <1>3, <1>4, <1>5, <1>6 DEF Undisturbed

LEMMA CutOffCalm ==
  ASSUME TypeInv, Undisturbed, CutOff, excuses' = {}
  PROVE  Undisturbed'
<1>1. /\ serving' = {} /\ UNCHANGED <<access, refresh, expired, revoked>>
      /\ signedOut' = signedOut
      /\ \A c \in Callers : call'[c] = IF Waiting(c) THEN Retried(c) ELSE call[c]
  BY CutOffType DEF CutOff, tokenVars
<1>2. \A c \in Callers : Waiting(c) => call[c].at \in {"ask", "again"}
  BY DEF CutOff, LossOf, TypeInv, SlotOK
<1>3. ~signedOut'
  BY <1>1, Zenon DEF Undisturbed
<1>4. ASSUME NEW c \in Callers
      PROVE  \/ call'[c] = call[c] /\ ~Waiting(c)
             \/ /\ call'[c].at \in {"idle", "ask", "again"}
                /\ call'[c].at = "again" =>
                       call[c].at = "again" /\ call'[c].token = call[c].token
                /\ Waiting(c)
  BY <1>1, <1>2, RetriedType, DoneType DEF TypeInv
<1>5. Refreshing' = Refreshing
  BY <1>2, <1>4 DEF Refreshing
<1>6. Alone'
  BY <1>1, <1>5 DEF Undisturbed, Alone
<1>7. ASSUME NEW c \in Callers PROVE RefreshOK(c)' /\ StoreOK(c)' /\ AgainOK(c)'
  <2>1. ~Waiting(c)'
    BY <1>1, RetriedType DEF Waiting, TypeInv
  <2> QED
    BY <1>1, <1>4, <2>1 DEF Undisturbed, RefreshOK, StoreOK, AgainOK, Answered
<1> QED
  BY <1>1, <1>3, <1>5, <1>6, <1>7 DEF Undisturbed

LEMMA SameCalm ==
  ASSUME Undisturbed, UNCHANGED <<serving, call, request, access, refresh, expired, revoked>>,
         signedOut' = signedOut
  PROVE  Undisturbed'
<1>1. ~signedOut'
  BY Zenon DEF Undisturbed
<1>2. Refreshing' = Refreshing
  BY DEF Refreshing
<1> QED
  BY <1>1, <1>2 DEF Undisturbed, Alone, RefreshOK, StoreOK, AgainOK, Answered, Waiting

-------------------------------------------------------------------------------
(* The invariant and the theorems.                                         *)

LEMMA NextType ==
  ASSUME TypeInv, [Next]_vars
  PROVE  TypeInv' /\ (excuses' = {} => excuses = {})
<1>1. TypeInv'
  <2>1. CASE UNCHANGED vars
    BY <2>1
    DEF vars, appVars, tokenVars, boundVars, historyVars, TypeInv, TypeOK, AppTypeOK, Pairs,
        CallerOK, SlotOK, RequestOK, Waiting
  <2>2. ASSUME NEW c \in Callers, Begin(c) \/ Proceed(c) \/ Break(c) PROVE TypeInv'
    BY <2>2, BeginType, SendType, RefusedType, SetAccessTokenType, SetRefreshTokenType,
       BreakType DEF Proceed
  <2>3. ASSUME NEW r \in Requests, Handle(r) PROVE TypeInv'
    BY <2>3, AuthenticateType, RotateType, UnreportedCommitType, ServerErrorType,
       ReplyStep DEF Handle
  <2> QED
    BY <2>1, <2>2, <2>3, ExpireType, ServerStepType, CutOffType DEF Next
<1>2. excuses \subseteq excuses'
  <2>1. CASE UNCHANGED vars
    BY <2>1 DEF vars, historyVars
  <2>2. ASSUME NEW c \in Callers, Begin(c) \/ Proceed(c) \/ Break(c)
        PROVE  excuses \subseteq excuses'
    BY <2>2 DEF Begin, Proceed, Send, Refused, SetAccessToken, SetRefreshToken, Break,
                historyVars
  <2>3. ASSUME NEW r \in Requests, Handle(r) PROVE excuses \subseteq excuses'
    BY <2>3 DEF Handle, Authenticate, Rotate, UnreportedCommit, ServerError, Reply, Receive,
                historyVars
  <2> QED
    BY <2>1, <2>2, <2>3 DEF Next, Expire, ServerStep, CutOff, historyVars
<1> QED
  BY <1>1, <1>2

LEMMA NextCalm ==
  ASSUME TypeInv, Undisturbed, [Next]_vars, excuses' = {}
  PROVE  Undisturbed'
<1>1. CASE UNCHANGED vars
  BY <1>1, SameCalm DEF vars, appVars, tokenVars, historyVars
<1>2. ASSUME NEW c \in Callers, Begin(c) \/ Proceed(c) \/ Break(c) PROVE Undisturbed'
  BY <1>2, BeginCalm, SendCalm, RefusedCalm, SetAccessTokenCalm, SetRefreshTokenCalm,
     BreakCalm DEF Proceed
<1>3. ASSUME NEW r \in Requests, Handle(r) PROVE Undisturbed'
  BY <1>3, AuthenticateCalm, RotateCalm, ServerErrorCalm, ReplyCalm DEF Handle, UnreportedCommit
<1>4. CASE ServerStep
  BY <1>4, ServerStepType, SameCalm DEF ServerStep, tokenVars, historyVars
<1> QED
  BY <1>1, <1>2, <1>3, <1>4, ExpireCalm, CutOffCalm DEF Next

\* The inductive invariant holds of every execution.
THEOREM InvHolds == Spec => []IInv
<1>1. IInv /\ [Next]_vars => IInv'
  BY NextType, NextCalm, AppStep DEF IInv
<1> QED
  BY <1>1, InitInv, PTL DEF Spec

\* Every variable has its type, and every caller that waits does so for a request of
\* its own that is in service (doAuthenticatedJSON, AuthMiddleware, App.Run).
THEOREM TypeIsOK == Spec => []TypeOK
<1>1. IInv => TypeOK
  BY DEF IInv, TypeInv
<1> QED
  BY <1>1, InvHolds, PTL

\* App.Run closes the pool under nobody: neither under a handler nor under the
\* cleanup of idempotency keys, at however many starts.
THEOREM PoolIsOpen == Spec => []PoolOutlivesUsers
<1>1. IInv => PoolOutlivesUsers
  BY DEF IInv, AppInv
<1> QED
  BY <1>1, InvHolds, PTL

\* However many callers share the client, and however often tokens expire, the server
\* refuses a token the client has to trust only after a lost answer, a commit reported as
\* failed, two refreshes at once, or a token that expired during a refresh
\* (doAuthenticatedJSON, Rotate).
THEOREM SignOutsHaveReasons == Spec => []SignedOutForAReason
<1>1. IInv => SignedOutForAReason
  BY DEF IInv, Undisturbed, SignedOutForAReason
<1> QED
  BY <1>1, InvHolds, PTL
===============================================================================
