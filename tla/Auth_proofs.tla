------------------------------ MODULE Auth_proofs ------------------------------
(***************************************************************************)
(* Theorems about Auth for every number of devices, requests in service,   *)
(* calls and repetitions.                                                  *)
(***************************************************************************)
EXTENDS Auth, FiniteSetTheorems, TLAPS

-------------------------------------------------------------------------------
(* The inductive invariant.                                                *)

\* Workers whose next call is one of steps.
At(steps) == {w \in Workers : workers[w].at \in steps}

\* A refresh is for a token that was issued, a login that passed for a nonce.
WorkerOK(worker) ==
    /\ worker.at \in {"refresh", "rotate", "alarm"} => worker.token \in 1..tokens
    /\ worker.at \in {"pass", "issue"} => worker.nonce \in Nonces

TypeInv == TypeOK /\ \A w \in Workers : WorkerOK(workers[w])

\* A nonce is in one place: in the store, with one worker that consumed it, or
\* behind one session.
NoncesOK ==
    /\ \A w \in At({"pass", "issue"}) :
           workers[w].nonce \in 1..nonces /\ workers[w].nonce # challenge
    /\ \A v, w \in At({"pass", "issue"}) : workers[v].nonce = workers[w].nonce => v = w
    /\ \A o \in opened : o[1] \in 1..nonces /\ o[2] \in 1..tokens /\ o[1] # challenge
    /\ \A o \in opened : \A w \in At({"pass", "issue"}) : workers[w].nonce # o[1]
    /\ ChallengeOpensOnce

\* Each request that is past the check of the limit may still add one failure.
FailuresOK ==
    attempts + Cardinality(At({"consume", "fail"})) < MaxAttempts + Cardinality(Workers)

\* Until an alarm only tokens that were looked up are revoked, so an alarm needs a
\* second look-up.
AlarmsOK ==
    /\ ~alarmed => revoked \subseteq presented
    /\ \A w \in At({"rotate", "alarm"}) : workers[w].token \in presented
    /\ \A w \in At({"alarm"}) : again > 0
    /\ AlarmIsGenuine

Live == 1..tokens \ revoked

Rotating == At({"rotate"})

Held == {workers[w].token : w \in Rotating}

\* A worker about to rotate a token stands for the token it will issue.
SessionsOK ==
    /\ IsFiniteSet(opened)
    /\ Cardinality(Live \ Held) + Cardinality(Rotating) <= Cardinality(opened) + again

IInv == TypeInv /\ NoncesOK /\ FailuresOK /\ AlarmsOK /\ SessionsOK

-------------------------------------------------------------------------------
(* Types.                                                                  *)

LEMMA IdleType == Idle \in Worker /\ WorkerOK(Idle) /\ Idle.at = "idle"
  BY DEF Idle, Worker, WorkerOK

LEMMA SignedOutType == SignedOut \in Device /\ SignedOut.at = "out"
  BY AuthAssumption DEF SignedOut, Device

\* What TypeInv says of the devices and the workers.
DeviceOK(device) == device.at \in {"in", "refresh"} => device.token \in 1..tokens

PartiesOK ==
    /\ workers \in [Workers -> Worker] /\ \A w \in Workers : WorkerOK(workers[w])
    /\ devices \in [Devices -> Device] /\ \A d \in Devices : DeviceOK(devices[d])

LEMMA PartiesAreOK == TypeInv => PartiesOK
  BY DEF TypeInv, TypeOK, PartiesOK, DeviceOK

\* What became of the variables other than workers and devices.
RestOK ==
    /\ registered \in BOOLEAN
    /\ nonces \in {0} \union Nonces
    /\ challenge \in 0..nonces
    /\ attempts \in Nat
    /\ tokens \in {0} \union Tokens
    /\ revoked \subseteq 1..tokens
    /\ expired \in 0..tokens
    /\ calls \in 0..MaxCalls
    /\ repeats \in 0..MaxRepeats
    /\ opened \subseteq Nonces \X Tokens
    /\ presented \subseteq 1..tokens
    /\ again \in Nat
    /\ alarmed \in BOOLEAN

LEMMA TypeParts == TypeInv <=> PartiesOK /\ RestOK
  BY DEF TypeInv, TypeOK, PartiesOK, RestOK, DeviceOK

\* One device moves, or one worker; tokens are never taken back.
LEMMA DeviceMoves ==
    ASSUME PartiesOK, NEW d \in Devices, NEW device \in Device, DeviceOK(device),
           devices' = [devices EXCEPT ![d] = device], UNCHANGED <<workers, tokens>>
    PROVE  PartiesOK'
  BY DEF PartiesOK, DeviceOK, WorkerOK

LEMMA WorkerMoves ==
    ASSUME PartiesOK, NEW w \in Workers, NEW worker \in Worker, WorkerOK(worker),
           workers' = [workers EXCEPT ![w] = worker], UNCHANGED <<devices, tokens>>
    PROVE  PartiesOK'
  BY DEF PartiesOK, DeviceOK, WorkerOK

LEMMA ReplyMoves ==
    ASSUME PartiesOK, RestOK, NEW w \in Workers, NEW device \in Device, Reply(w, device),
           tokens' \in {tokens, tokens + 1},
           device.at \in {"in", "refresh"} => device.token \in 1..tokens'
    PROVE  PartiesOK'
<1>1. tokens \in Nat
  BY DEF RestOK, Tokens
<1>2. 1..tokens \subseteq 1..tokens'
  BY <1>1
<1>3. \A v \in Workers : workers'[v] \in {Idle, workers[v]}
  BY DEF Reply, PartiesOK
<1>4. \A d \in Devices : devices'[d] \in {device, devices[d]}
  BY DEF Reply, PartiesOK
<1>5. workers' \in [Workers -> Worker] /\ devices' \in [Devices -> Device]
  BY IdleType DEF Reply, PartiesOK
<1>6. \A v \in Workers : WorkerOK(workers[v])'
  BY <1>2, <1>3, IdleType DEF PartiesOK, WorkerOK
<1>7. \A d \in Devices : DeviceOK(devices[d])'
  BY <1>2, <1>4 DEF PartiesOK, DeviceOK
<1> QED
  BY <1>5, <1>6, <1>7 DEF PartiesOK

LEMMA RefuseType ==
    ASSUME PartiesOK, NEW d \in Devices
    PROVE  Refuse(devices[d]) \in Device /\ DeviceOK(Refuse(devices[d]))
<1> DEFINE device == devices[d]
<1>1. device \in Device /\ DeviceOK(device)
  BY DEF PartiesOK
<1>2. 0 \in 0..MaxSends
  BY AuthAssumption
<1> HIDE DEF device
<1>3. CASE device.at = "refresh"
  <2>1. [device EXCEPT !.at = "in", !.sends = 0] \in Device
    BY <1>1, <1>2 DEF Device
  <2>2. [device EXCEPT !.at = "in", !.sends = 0].token = device.token
    BY <1>1 DEF Device
  <2> QED
    BY <1>1, <1>3, <2>1, <2>2 DEF Refuse, DeviceOK, device
<1>4. CASE device.at # "refresh"
  BY <1>4, SignedOutType DEF Refuse, DeviceOK, device
<1> QED
  BY <1>3, <1>4

LEMMA ReplyRefusedMoves ==
    ASSUME PartiesOK, RestOK, NEW w \in Workers, ReplyRefused(w), tokens' = tokens
    PROVE  PartiesOK'
<1> DEFINE device == IF workers[w].device = NoDevice THEN SignedOut ELSE Refuse(Answered(w))
<1>1. workers[w].device \in Devices \union {NoDevice}
  BY DEF PartiesOK, Worker
<1>2. device \in Device /\ DeviceOK(device)
  BY <1>1, SignedOutType, RefuseType DEF Answered, DeviceOK
<1>3. Reply(w, device)
  BY DEF ReplyRefused
<1> HIDE DEF device
<1> QED
  BY <1>2, <1>3, ReplyMoves DEF DeviceOK

LEMMA ReplyNextMoves ==
    ASSUME PartiesOK, RestOK, NEW w \in Workers, NEW at \in {"challenge", "login"},
           NEW nonce \in Nat, ReplyNext(w, at, nonce), tokens' = tokens
    PROVE  PartiesOK'
<1> DEFINE device == IF workers[w].device = NoDevice THEN SignedOut
                     ELSE [Answered(w) EXCEPT !.at = at, !.nonce = nonce, !.sends = 0]
<1>1. workers[w].device \in Devices \union {NoDevice}
  BY DEF PartiesOK, Worker
<1>2. device \in Device /\ device.at \notin {"in", "refresh"}
  <2>1. 0 \in 0..MaxSends /\ nonce \in {0} \union Nonces
    BY AuthAssumption DEF Nonces
  <2>2. ASSUME NEW old \in Device
        PROVE  /\ [old EXCEPT !.at = at, !.nonce = nonce, !.sends = 0] \in Device
               /\ [old EXCEPT !.at = at, !.nonce = nonce, !.sends = 0].at = at
    BY <2>1 DEF Device
  <2>3. CASE workers[w].device = NoDevice
    BY <2>3, SignedOutType
  <2>4. CASE workers[w].device # NoDevice
    BY <1>1, <2>2, <2>4 DEF Answered, PartiesOK
  <2> QED
    BY <2>3, <2>4
<1>3. Reply(w, device)
  BY DEF ReplyNext
<1> HIDE DEF device
<1> QED
  BY <1>2, <1>3, ReplyMoves

LEMMA ReplyTokensMoves ==
    ASSUME PartiesOK, RestOK, NEW w \in Workers, ReplyTokens(w, tokens + 1),
           tokens' = tokens + 1
    PROVE  PartiesOK'
<1> DEFINE device == [SignedOut EXCEPT !.at = "in", !.token = tokens + 1]
<1>1. tokens \in Nat
  BY DEF RestOK, Tokens
<1>2. tokens + 1 \in Tokens /\ tokens + 1 \in 1..(tokens + 1)
  BY <1>1 DEF Tokens
<1>3. ASSUME NEW old \in Device
      PROVE  /\ [old EXCEPT !.at = "in", !.token = tokens + 1] \in Device
             /\ [old EXCEPT !.at = "in", !.token = tokens + 1].token = tokens + 1
  BY <1>2 DEF Device
<1>4. device \in Device /\ device.token \in 1..(tokens + 1)
  BY <1>2, <1>3, SignedOutType
<1>5. Reply(w, device)
  BY DEF ReplyTokens
<1> HIDE DEF device
<1> QED
  BY <1>4, <1>5, ReplyMoves

LEMMA NoAnswerMoves ==
    ASSUME PartiesOK, NEW w \in Workers, NoAnswer(w), tokens' = tokens
    PROVE  PartiesOK'
  BY IdleType, WorkerMoves DEF NoAnswer

LEMMA AdvanceMoves ==
    ASSUME PartiesOK, NEW w \in Workers,
           NEW at \in {"allowed", "consume", "issue", "alarm", "rotate"}, Advance(w, at),
           at \in {"alarm", "rotate"} => workers[w].at = "refresh",
           at = "issue" => workers[w].at = "pass", tokens' = tokens
    PROVE  PartiesOK'
<1>1. [workers[w] EXCEPT !.at = at] \in Worker /\ WorkerOK([workers[w] EXCEPT !.at = at])
  BY DEF PartiesOK, Worker, WorkerOK
<1> QED
  BY <1>1, WorkerMoves DEF Advance

LEMMA OrphanedMoves ==
    ASSUME PartiesOK, NEW d \in Devices
    PROVE  /\ Orphaned(d) \in [Workers -> Worker]
           /\ \A w \in Workers : /\ WorkerOK(Orphaned(d)[w])
                                 /\ Orphaned(d)[w].at = workers[w].at
                                 /\ Orphaned(d)[w].nonce = workers[w].nonce
                                 /\ Orphaned(d)[w].token = workers[w].token
  BY DEF PartiesOK, Orphaned, Worker, WorkerOK

LEMMA TypeInit == Init => TypeInv
<1> SUFFICES ASSUME Init PROVE PartiesOK /\ RestOK
  BY TypeParts
<1>1. PartiesOK
  BY IdleType, SignedOutType DEF Init, PartiesOK, DeviceOK, WorkerOK
<1>2. 0 \in 0..MaxCalls /\ 0 \in 0..MaxRepeats
  BY AuthAssumption
<1>3. registered \in BOOLEAN /\ alarmed \in BOOLEAN
  BY DEF Init
<1>4. RestOK
  BY <1>2, <1>3 DEF Init, RestOK
<1> QED
  BY <1>1, <1>4

\* A step that touches nothing but devices, workers and the calls begun.
LEMMA RestQuiet ==
    ASSUME RestOK, UNCHANGED <<accountVars, tokenVars, history>>,
           calls' \in 0..MaxCalls, repeats' \in 0..MaxRepeats
    PROVE  RestOK'
  BY DEF RestOK, accountVars, tokenVars, history

LEMMA BeginType ==
    ASSUME PartiesOK, RestOK, NEW d \in Devices, NEW device \in Device, DeviceOK(device),
           Begin(d, device)
    PROVE  PartiesOK' /\ RestOK'
<1>1. PartiesOK'
  BY DeviceMoves DEF Begin, tokenVars
<1>2. calls' \in 0..MaxCalls /\ repeats' \in 0..MaxRepeats
  BY AuthAssumption DEF Begin, RestOK
<1> QED
  BY <1>1, <1>2, RestQuiet DEF Begin

LEMMA DeviceStepType ==
    ASSUME PartiesOK, RestOK, NEW d \in Devices, DeviceStep(d)
    PROVE  PartiesOK' /\ RestOK'
<1> DEFINE old == devices[d]
<1>1. old \in Device /\ DeviceOK(old)
  BY DEF PartiesOK
<1>2. 0 \in 0..MaxSends
  BY AuthAssumption
<1>3. CASE StartRegister(d)
  <2>1. ASSUME NEW out \in Device
        PROVE  /\ [out EXCEPT !.at = "register", !.right = TRUE] \in Device
               /\ [out EXCEPT !.at = "register", !.right = TRUE].at = "register"
    BY DEF Device
  <2> QED
    BY <1>3, <2>1, SignedOutType, BeginType DEF StartRegister, DeviceOK
<1>4. CASE StartLogin(d)
  <2>1. PICK right \in BOOLEAN :
            Begin(d, [SignedOut EXCEPT !.at = "challenge", !.right = right])
    BY <1>4 DEF StartLogin
  <2>2. ASSUME NEW out \in Device
        PROVE  /\ [out EXCEPT !.at = "challenge", !.right = right] \in Device
               /\ [out EXCEPT !.at = "challenge", !.right = right].at = "challenge"
    BY DEF Device
  <2> QED
    BY <2>1, <2>2, SignedOutType, BeginType DEF DeviceOK
<1>5. CASE StartRefresh(d)
  <2> DEFINE new == [old EXCEPT !.at = "refresh", !.sends = 0]
  <2>1. new \in Device /\ new.token = old.token /\ old.at = "in"
    BY <1>1, <1>2, <1>5 DEF StartRefresh, Device
  <2>2. Begin(d, new)
    BY <1>5 DEF StartRefresh
  <2> HIDE DEF new
  <2> QED
    BY <1>1, <2>1, <2>2, BeginType DEF DeviceOK
<1>6. CASE \E w \in Workers : Deliver(d, w)
  <2>1. PICK w \in Workers : Deliver(d, w)
    BY <1>6
  <2> DEFINE copy == [at |-> old.at, device |-> d, right |-> old.right,
                      nonce |-> old.nonce, token |-> old.token]
             new == [old EXCEPT !.sends = @ + 1]
  <2>2. new \in Device /\ new.at = old.at /\ new.token = old.token
    BY <1>1, <2>1, AuthAssumption DEF Deliver, Device
  <2>3. copy \in Worker /\ copy.at = old.at /\ copy.token = old.token
        /\ copy.at \in {"register", "challenge", "login", "refresh"}
    BY <1>1, <2>1 DEF Deliver, Waiting, Device, Worker
  <2>4. WorkerOK(copy) /\ DeviceOK(new)
    BY <1>1, <2>2, <2>3 DEF WorkerOK, DeviceOK
  <2>5. /\ devices' = [devices EXCEPT ![d] = new]
        /\ workers' = [Orphaned(d) EXCEPT ![w] = copy]
        /\ tokens' = tokens
    BY <2>1 DEF Deliver, tokenVars
  <2> HIDE DEF copy, new
  <2>6. workers' \in [Workers -> Worker] /\ devices' \in [Devices -> Device]
    BY <2>2, <2>3, <2>5, OrphanedMoves DEF PartiesOK
  <2>7. \A v \in Workers : WorkerOK(workers'[v])
    BY <2>4, <2>5, OrphanedMoves
  <2>8. \A e \in Devices : DeviceOK(devices'[e])
    BY <2>4, <2>5 DEF PartiesOK
  <2>9. PartiesOK'
    BY <2>5, <2>6, <2>7, <2>8 DEF PartiesOK, WorkerOK, DeviceOK
  <2>10. calls' \in 0..MaxCalls /\ repeats' \in 0..MaxRepeats
    BY <2>1, AuthAssumption DEF Deliver, RestOK
  <2> QED
    BY <2>1, <2>9, <2>10, RestQuiet DEF Deliver
<1>7. CASE GiveUp(d)
  <2>1. Refuse(old) \in Device /\ DeviceOK(Refuse(old))
    BY RefuseType
  <2>2. /\ devices' = [devices EXCEPT ![d] = Refuse(old)]
        /\ workers' = Orphaned(d)
        /\ tokens' = tokens
    BY <1>7 DEF GiveUp, tokenVars
  <2>3. workers' \in [Workers -> Worker] /\ devices' \in [Devices -> Device]
    BY <2>1, <2>2, OrphanedMoves DEF PartiesOK
  <2>4. /\ \A v \in Workers : WorkerOK(workers'[v])
        /\ \A e \in Devices : DeviceOK(devices'[e])
    BY <2>1, <2>2, OrphanedMoves DEF PartiesOK
  <2>5. PartiesOK'
    BY <2>2, <2>3, <2>4 DEF PartiesOK, WorkerOK, DeviceOK
  <2> QED
    BY <1>7, <2>5, RestQuiet DEF GiveUp, bounds, RestOK
<1>8. CASE Quit(d)
  <2>1. PartiesOK'
    BY <1>8, SignedOutType, DeviceMoves DEF Quit, DeviceOK, tokenVars
  <2> QED
    BY <1>8, <2>1, RestQuiet DEF Quit, bounds, RestOK
<1> QED
  BY <1>3, <1>4, <1>5, <1>6, <1>7, <1>8 DEF DeviceStep

LEMMA ServeType ==
    ASSUME PartiesOK, RestOK, NEW w \in Workers, Serve(w)
    PROVE  PartiesOK' /\ RestOK'
<1>1. /\ workers[w] \in Worker /\ WorkerOK(workers[w])
      /\ nonces \in Nat /\ tokens \in Nat /\ challenge \in 0..nonces
  BY DEF PartiesOK, RestOK, Nonces, Tokens
<1>2. CASE Register(w)
  <2>1. PartiesOK'
    BY <1>2, ReplyRefusedMoves, ReplyNextMoves DEF Register, tokenVars
  <2>2. RestOK'
    BY <1>2 DEF Register, RestOK, tokenVars, bounds, history
  <2> QED
    BY <2>1, <2>2
<1>3. CASE Challenge(w)
  <2>1. PartiesOK'
    BY <1>1, <1>3, ReplyRefusedMoves, ReplyNextMoves DEF Challenge, tokenVars
  <2>2. nonces' \in {0} \union Nonces /\ challenge' \in 0..nonces'
    BY <1>1, <1>3 DEF Challenge, Nonces
  <2>3. RestOK'
    BY <1>3, <2>2 DEF Challenge, RestOK, tokenVars, bounds, history
  <2> QED
    BY <2>1, <2>3
<1>4. CASE CheckLimit(w)
  <2>1. PartiesOK'
    BY <1>4, AdvanceMoves, NoAnswerMoves DEF CheckLimit, tokenVars
  <2> QED
    BY <1>4, <2>1, RestQuiet DEF CheckLimit, bounds, RestOK
<1>5. CASE Consume(w)
  <2>1. PICK pass \in {FALSE, Genuine(w)} :
            workers' = [workers EXCEPT ![w] =
                           [Idle EXCEPT !.device = workers[w].device,
                                        !.at = IF pass THEN "pass" ELSE "fail",
                                        !.nonce = IF pass THEN challenge ELSE 0]]
    BY <1>5 DEF Consume, Judge
  <2> DEFINE new == [Idle EXCEPT !.device = workers[w].device,
                                 !.at = IF pass THEN "pass" ELSE "fail",
                                 !.nonce = IF pass THEN challenge ELSE 0]
  <2>2. challenge \in {0} \union Nonces /\ workers[w].device \in Devices \union {NoDevice}
    BY <1>1 DEF Nonces, Worker
  <2> DEFINE judged(at, nonce) == [Idle EXCEPT !.device = workers[w].device, !.at = at,
                                               !.nonce = nonce]
  <2>3. ASSUME NEW at \in {"pass", "fail"}, NEW nonce \in {0} \union Nonces
        PROVE  /\ judged(at, nonce) \in Worker
               /\ judged(at, nonce).at = at
               /\ judged(at, nonce).nonce = nonce
    BY <2>2, IdleType DEF Worker
  <2>4. new \in Worker /\ WorkerOK(new)
    <3>1. CASE pass
      <4>1. challenge \in Nonces
        BY <2>1, <2>2, <3>1 DEF Genuine
      <4>2. new = judged("pass", challenge)
        BY <3>1
      <4> HIDE DEF new, judged
      <4> QED
        BY <2>3, <4>1, <4>2 DEF WorkerOK
    <3>2. CASE ~pass
      <4>1. new = judged("fail", 0)
        BY <3>2
      <4> HIDE DEF new, judged
      <4> QED
        BY <2>3, <4>1 DEF WorkerOK
    <3> QED
      BY <3>1, <3>2
  <2> HIDE DEF new
  <2>5. PartiesOK'
    BY <1>5, <2>1, <2>4, WorkerMoves DEF Consume, Judge, tokenVars, new
  <2>6. RestOK'
    BY <1>1, <1>5 DEF Consume, RestOK, tokenVars, bounds, history
  <2> QED
    BY <2>5, <2>6
<1>6. CASE Fail(w)
  <2>1. PartiesOK'
    BY <1>6, ReplyRefusedMoves DEF Fail, tokenVars
  <2>2. RestOK'
    BY <1>6 DEF Fail, RestOK, tokenVars, bounds, history
  <2> QED
    BY <2>1, <2>2
<1>7. CASE Pass(w)
  <2>1. PartiesOK'
    BY <1>7, AdvanceMoves DEF Pass, tokenVars
  <2>2. RestOK'
    BY <1>7 DEF Pass, RestOK, tokenVars, bounds, history
  <2> QED
    BY <2>1, <2>2
<1>8. CASE Issue(w)
  <2>1. PartiesOK'
    BY <1>8, ReplyTokensMoves DEF Issue
  <2>2. opened' \subseteq Nonces \X Tokens
    BY <1>1, <1>8 DEF Issue, RestOK, WorkerOK, Tokens
  <2>3. RestOK'
    BY <1>1, <1>8, <2>2 DEF Issue, RestOK, accountVars, bounds, Tokens
  <2> QED
    BY <2>1, <2>3
<1>9. CASE LookUp(w)
  <2>1. workers[w].token \in 1..tokens
    BY <1>1, <1>9 DEF LookUp, WorkerOK
  <2>2. PartiesOK'
    BY <1>9, AdvanceMoves, ReplyRefusedMoves DEF LookUp, tokenVars
  <2>3. presented' \subseteq 1..tokens /\ again' \in Nat
    <3>1. presented' = presented \union {workers[w].token} /\ again' \in {again, again + 1}
      BY <1>9 DEF LookUp
    <3>2. presented \subseteq 1..tokens /\ again \in Nat
      BY DEF RestOK
    <3>3. presented' \subseteq 1..tokens
      BY <2>1, <3>1, <3>2
    <3>4. again' \in Nat
      BY <3>1, <3>2
    <3> QED
      BY <3>3, <3>4
  <2>4. UNCHANGED <<accountVars, tokenVars, bounds, opened, alarmed>>
    BY <1>9 DEF LookUp
  <2>5. RestOK'
    BY <2>3, <2>4 DEF RestOK, accountVars, tokenVars, bounds
  <2> QED
    BY <2>2, <2>5
<1>10. CASE Alarm(w)
  <2>1. PartiesOK'
    BY <1>10, ReplyRefusedMoves DEF Alarm
  <2>2. RestOK'
    BY <1>10 DEF Alarm, RestOK, accountVars, bounds
  <2> QED
    BY <2>1, <2>2
<1>11. CASE Rotate(w)
  <2>1. PartiesOK'
    BY <1>11, ReplyTokensMoves DEF Rotate
  <2>2. workers[w].token \in 1..tokens
    BY <1>1, <1>11 DEF Rotate, WorkerOK
  <2>3. /\ tokens' \in {0} \union Tokens /\ revoked' \subseteq 1..tokens'
        /\ expired \in 0..tokens' /\ presented \subseteq 1..tokens'
    <3>1. revoked' = revoked \union {workers[w].token} /\ tokens' = tokens + 1
      BY <1>11 DEF Rotate
    <3>2. /\ revoked \subseteq 1..tokens /\ expired \in 0..tokens
          /\ presented \subseteq 1..tokens
      BY DEF RestOK
    <3>3. 1..tokens \subseteq 1..tokens' /\ 0..tokens \subseteq 0..tokens'
      BY <1>1, <3>1
    <3>4. tokens' \in {0} \union Tokens
      BY <1>1, <3>1 DEF Tokens
    <3>5. revoked' \subseteq 1..tokens'
      BY <2>2, <3>1, <3>2, <3>3
    <3> QED
      BY <3>2, <3>3, <3>4, <3>5
  <2>4. UNCHANGED <<accountVars, expired, bounds, history>>
    BY <1>11 DEF Rotate
  <2>5. RestOK'
    BY <2>3, <2>4 DEF RestOK, accountVars, bounds, history
  <2> QED
    BY <2>1, <2>5
<1> QED
  BY <1>2, <1>3, <1>4, <1>5, <1>6, <1>7, <1>8, <1>9, <1>10, <1>11 DEF Serve

LEMMA TypeNext == TypeInv /\ [Next]_vars => TypeInv'
<1> SUFFICES ASSUME PartiesOK, RestOK, [Next]_vars PROVE PartiesOK' /\ RestOK'
  BY TypeParts, PTL
<1>1. ASSUME NEW w \in Workers, Serve(w) PROVE PartiesOK' /\ RestOK'
  BY <1>1, ServeType
<1>2. ASSUME NEW w \in Workers, Abort(w) PROVE PartiesOK' /\ RestOK'
  <2>1. PartiesOK'
    BY <1>2, NoAnswerMoves DEF Abort, tokenVars
  <2> QED
    BY <1>2, <2>1, RestQuiet DEF Abort, bounds, RestOK
<1>3. ASSUME NEW d \in Devices, DeviceStep(d) PROVE PartiesOK' /\ RestOK'
  BY <1>3, DeviceStepType
<1>4. CASE TimePasses
  <2>1. PartiesOK'
    BY <1>4 DEF TimePasses, ChallengeExpires, WindowEnds, RefreshExpires, tokenVars,
                PartiesOK, DeviceOK, WorkerOK
  <2>2. RestOK'
    <3>1. CASE ChallengeExpires
      BY <3>1 DEF ChallengeExpires, RestOK, tokenVars, bounds, history, Nonces
    <3>2. CASE WindowEnds
      BY <3>2 DEF WindowEnds, RestOK, tokenVars, bounds, history
    <3>3. CASE RefreshExpires
      BY <3>3 DEF RefreshExpires, RestOK, accountVars, bounds, history, Tokens
    <3> QED
      BY <1>4, <3>1, <3>2, <3>3 DEF TimePasses
  <2> QED
    BY <2>1, <2>2
<1>5. CASE Restart
  <2>1. PartiesOK'
    BY <1>5, IdleType DEF Restart, tokenVars, PartiesOK, DeviceOK, WorkerOK
  <2>2. RestOK'
    BY <1>5 DEF Restart, RestOK, tokenVars, bounds, history, Nonces
  <2> QED
    BY <2>1, <2>2
<1>6. CASE UNCHANGED vars
  <2>1. PartiesOK'
    BY <1>6 DEF vars, tokenVars, PartiesOK, DeviceOK, WorkerOK
  <2> QED
    BY <1>6, <2>1, RestQuiet DEF vars, bounds, RestOK
<1> QED
  BY <1>1, <1>2, <1>3, <1>4, <1>5, <1>6 DEF Next

-------------------------------------------------------------------------------
(* Steps that concern a part of the invariant only by ending requests.     *)

\* A worker that is at one of steps was there already, with the same request.
Stays(steps) ==
    \A v \in Workers :
        workers'[v].at \in steps =>
            /\ workers[v].at \in steps
            /\ workers'[v].nonce = workers[v].nonce
            /\ workers'[v].token = workers[v].token

LEMMA NoncesStep ==
    ASSUME TypeInv, NoncesOK, Stays({"pass", "issue"}), challenge' \in {0, challenge},
           UNCHANGED <<nonces, opened>>, tokens' \in {tokens, tokens + 1}
    PROVE  NoncesOK'
<1>1. nonces \in Nat /\ tokens \in Nat
  BY DEF TypeInv, TypeOK, Nonces, Tokens
<1>2. \A v \in At({"pass", "issue"})' : /\ v \in At({"pass", "issue"})
                                      /\ workers'[v].nonce = workers[v].nonce
  BY DEF At, Stays
<1>3. \A v \in At({"pass", "issue"})' :
         workers'[v].nonce \in 1..nonces' /\ workers'[v].nonce # challenge'
  BY <1>1, <1>2 DEF NoncesOK
<1>4. \A o \in opened' : o[1] \in 1..nonces' /\ o[2] \in 1..tokens' /\ o[1] # challenge'
  BY <1>1 DEF NoncesOK
<1>5. ChallengeOpensOnce'
  BY DEF NoncesOK, ChallengeOpensOnce
<1> QED
  BY <1>2, <1>3, <1>4, <1>5 DEF NoncesOK

LEMMA AtFinite ==
    ASSUME NEW steps
    PROVE  IsFiniteSet(At(steps)) /\ Cardinality(At(steps)) \in Nat
  BY AuthAssumption, FS_Subset, FS_CardinalityType DEF At

LEMMA FailuresStep ==
    ASSUME TypeInv, FailuresOK, At({"consume", "fail"})' \subseteq At({"consume", "fail"}),
           attempts' \in {0, attempts}
    PROVE  FailuresOK'
<1> DEFINE trying == At({"consume", "fail"})
<1>1. attempts \in Nat
  BY DEF TypeInv, TypeOK
<1>2. IsFiniteSet(trying) /\ Cardinality(trying) \in Nat
  BY AtFinite
<1>3. IsFiniteSet(trying') /\ Cardinality(trying') <= Cardinality(trying)
  BY <1>2, FS_Subset
<1>4. Cardinality(trying') \in Nat /\ Cardinality(Workers) \in Nat
  BY <1>3, AuthAssumption, FS_CardinalityType
<1>5. attempts + Cardinality(trying) < MaxAttempts + Cardinality(Workers)
  BY DEF FailuresOK
<1> HIDE DEF trying
<1>6. attempts' + Cardinality(trying') < MaxAttempts + Cardinality(Workers)
  BY <1>1, <1>2, <1>3, <1>4, <1>5, AuthAssumption
<1> QED
  BY <1>6 DEF FailuresOK, trying

LEMMA AlarmsStep ==
    ASSUME TypeInv, AlarmsOK, Stays({"rotate", "alarm"}), Stays({"alarm"}),
           revoked' \subseteq revoked \union presented, presented \subseteq presented',
           again' \in {again, again + 1}, alarmed' = alarmed
    PROVE  AlarmsOK'
<1>1. again \in Nat
  BY DEF TypeInv, TypeOK
<1>2. again > 0 => again' > 0
  BY <1>1
<1>3. ~alarmed' => revoked' \subseteq presented'
  BY DEF AlarmsOK
<1>4. \A w \in At({"rotate", "alarm"})' : workers'[w].token \in presented'
  BY DEF AlarmsOK, At, Stays
<1>5. \A w \in At({"alarm"})' : again' > 0
  BY <1>2 DEF AlarmsOK, At, Stays
<1>6. AlarmIsGenuine'
  BY <1>2 DEF AlarmsOK, AlarmIsGenuine
<1> QED
  BY <1>3, <1>4, <1>5, <1>6 DEF AlarmsOK

\* Of the finite set R, each of whose members holds something, some members R \ Q
\* let go: what is not held grows by no more than their number.
LEMMA Release ==
    ASSUME NEW R, IsFiniteSet(R), NEW Q \in SUBSET R, NEW f,
           NEW L, IsFiniteSet(L), NEW M \in SUBSET L
    PROVE  Cardinality(M \ {f[w] : w \in Q}) + Cardinality(Q)
               <= Cardinality(L \ {f[w] : w \in R}) + Cardinality(R)
<1> DEFINE G == R \ Q
           T == {f[w] : w \in G}
           free == L \ {f[w] : w \in R}
           left == M \ {f[w] : w \in Q}
<1>1. IsFiniteSet(G) /\ IsFiniteSet(Q) /\ IsFiniteSet(free)
  BY FS_Subset
<1>2. [w \in G |-> f[w]] \in Surjection(G, T)
  BY DEF Surjection
<1>3. IsFiniteSet(T) /\ Cardinality(T) <= Cardinality(G)
  BY <1>1, <1>2, FS_Surjection
<1>4. left \subseteq free \union T
  OBVIOUS
<1>5. /\ Cardinality(free \union T) = Cardinality(free) + Cardinality(T) - Cardinality(free \cap T)
      /\ IsFiniteSet(free \union T)
  BY <1>1, <1>3, FS_Union
<1>6. IsFiniteSet(left) /\ Cardinality(left) <= Cardinality(free \union T)
  BY <1>4, <1>5, FS_Subset
<1>7. Cardinality(G) = Cardinality(R) - Cardinality(Q)
  <2>1. Cardinality(R \ Q) = Cardinality(R) - Cardinality(R \cap Q)
    BY FS_Difference
  <2>2. R \cap Q = Q
    OBVIOUS
  <2> QED
    BY <2>1, <2>2
<1>8. /\ Cardinality(free) \in Nat /\ Cardinality(T) \in Nat /\ Cardinality(R) \in Nat
      /\ Cardinality(Q) \in Nat /\ Cardinality(left) \in Nat
      /\ Cardinality(free \cap T) \in Nat
  BY <1>1, <1>3, <1>6, FS_CardinalityType, FS_Intersection
<1> HIDE DEF G, T, free, left
<1>9. Cardinality(left) + Cardinality(Q) <= Cardinality(free) + Cardinality(R)
  BY <1>3, <1>5, <1>6, <1>7, <1>8
<1> QED
  BY <1>9 DEF free, left

LEMMA FreeFinite ==
    ASSUME NEW n \in Nat, NEW S, NEW T
    PROVE  /\ IsFiniteSet(1..n \ S)
           /\ IsFiniteSet((1..n \ S) \ T)
           /\ Cardinality((1..n \ S) \ T) \in Nat
<1>1. IsFiniteSet(1..n)
  BY FS_Interval
<1>2. IsFiniteSet(1..n \ S)
  BY <1>1, FS_Difference
<1>3. IsFiniteSet((1..n \ S) \ T)
  BY <1>2, FS_Difference
<1> QED
  BY <1>2, <1>3, FS_CardinalityType

LEMMA SessionsStep ==
    ASSUME TypeInv, SessionsOK, Stays({"rotate"}), Live' \subseteq Live,
           opened' = opened, again' \in {again, again + 1}
    PROVE  SessionsOK'
<1> DEFINE f == [w \in Workers |-> workers[w].token]
<1>1. tokens \in Nat /\ again \in Nat
  BY DEF TypeInv, TypeOK, Tokens
<1>2. Rotating \subseteq Workers /\ Rotating' \subseteq Rotating
  BY DEF Rotating, At, Stays
<1>3. Held = {f[w] : w \in Rotating} /\ Held' = {f[w] : w \in Rotating'}
  BY <1>2 DEF Held, Rotating, At, Stays
<1>4. IsFiniteSet(Live) /\ Cardinality(Live \ Held) \in Nat
  BY <1>1, FreeFinite DEF Live
<1>5. IsFiniteSet(Rotating)
  BY AtFinite DEF Rotating
<1> HIDE DEF f
<1>6. Cardinality(Live' \ Held') + Cardinality(Rotating')
          <= Cardinality(Live \ Held) + Cardinality(Rotating)
  BY <1>2, <1>3, <1>4, <1>5, Release
<1>7. /\ Cardinality(Rotating) \in Nat /\ Cardinality(Rotating') \in Nat
      /\ Cardinality(Live' \ Held') \in Nat /\ Cardinality(opened) \in Nat
  BY <1>2, <1>4, <1>5, FS_Subset, FS_CardinalityType DEF SessionsOK
<1>8. Cardinality(Live \ Held) + Cardinality(Rotating) <= Cardinality(opened) + again
  BY DEF SessionsOK
<1>9. Cardinality(Live' \ Held') + Cardinality(Rotating') <= Cardinality(opened) + again'
  BY <1>1, <1>4, <1>6, <1>7, <1>8
<1> QED
  BY <1>9 DEF SessionsOK

\* Of what is free, held or not, no more is left than the invariant counts.
LEMMA SessionsFollow == TypeInv /\ SessionsOK => SessionsAccounted
<1> SUFFICES ASSUME TypeInv, SessionsOK PROVE SessionsAccounted
  OBVIOUS
<1> DEFINE f == [w \in Workers |-> workers[w].token]
           none == {f[w] : w \in {}}
<1>1. tokens \in Nat /\ again \in Nat
  BY DEF TypeInv, TypeOK, Tokens
<1>2. Held = {f[w] : w \in Rotating}
  BY DEF Held, Rotating, At
<1>3. IsFiniteSet(Live) /\ IsFiniteSet(Rotating)
  BY <1>1, FreeFinite, AtFinite DEF Live, Rotating
<1> HIDE DEF f
<1>4. Cardinality(Live \ none) + Cardinality({})
          <= Cardinality(Live \ Held) + Cardinality(Rotating)
  BY <1>2, <1>3, Release
<1>5. Live \ none = Live /\ Cardinality({}) = 0
  BY FS_EmptySet
<1> HIDE DEF none
<1>6. Cardinality(Live) <= Cardinality(Live \ Held) + Cardinality(Rotating)
  <2>1. Cardinality(Live) \in Nat
    BY <1>3, FS_CardinalityType
  <2> QED
    BY <1>4, <1>5, <2>1
<1>7. /\ Cardinality(Live) \in Nat /\ Cardinality(Live \ Held) \in Nat
      /\ Cardinality(Rotating) \in Nat /\ Cardinality(opened) \in Nat
  BY <1>1, <1>3, FreeFinite, FS_CardinalityType DEF SessionsOK, Live
<1>8. Cardinality(Live \ Held) + Cardinality(Rotating) <= Cardinality(opened) + again
  BY DEF SessionsOK
<1>9. Cardinality(Live) <= Cardinality(opened) + again
  BY <1>1, <1>7, <1>8, <1>6
<1> QED
  BY <1>9 DEF SessionsAccounted, Live

-------------------------------------------------------------------------------
(* Steps that matter to one part of the invariant.                         *)

LEMMA SessionsIssue ==
    ASSUME TypeInv, NoncesOK, SessionsOK, NEW w \in Workers, Issue(w)
    PROVE  SessionsOK'
<1> DEFINE new == tokens + 1
           pair == <<workers[w].nonce, new>>
<1>1. tokens \in Nat /\ again \in Nat
  BY DEF TypeInv, TypeOK, Tokens
<1>2. \A v \in Workers : workers'[v] = IF v = w THEN Idle ELSE workers[v]
  BY DEF Issue, ReplyTokens, Reply, TypeInv, TypeOK
<1>3. Rotating' = Rotating /\ Held' = Held
  BY <1>2, IdleType DEF Rotating, Held, At, Issue
<1>4. Live' \subseteq Live \union {new}
  BY <1>1 DEF Live, Issue
<1>5. pair \notin opened
  <2>1. \A o \in opened : o[2] \in 1..tokens
    BY DEF NoncesOK
  <2>2. pair[2] = tokens + 1 /\ tokens + 1 \notin 1..tokens
    BY <1>1
  <2> QED
    BY <2>1, <2>2
<1>6. /\ IsFiniteSet(opened) /\ IsFiniteSet(opened')
      /\ Cardinality(opened') = Cardinality(opened) + 1
  BY <1>5, FS_AddElement DEF SessionsOK, Issue
<1>7. IsFiniteSet(Live \ Held) /\ Cardinality(Live \ Held) \in Nat
  BY <1>1, FreeFinite DEF Live
<1>8. /\ IsFiniteSet((Live \ Held) \union {new})
      /\ Cardinality((Live \ Held) \union {new}) <= Cardinality(Live \ Held) + 1
  BY <1>7, FS_AddElement
<1>9. /\ IsFiniteSet(Live' \ Held')
      /\ Cardinality(Live' \ Held') <= Cardinality((Live \ Held) \union {new})
  BY <1>3, <1>4, <1>8, FS_Subset
<1>10. /\ Cardinality(Rotating) \in Nat /\ Cardinality(opened) \in Nat
       /\ Cardinality(Live' \ Held') \in Nat
       /\ Cardinality((Live \ Held) \union {new}) \in Nat
  BY <1>6, <1>8, <1>9, AtFinite, FS_CardinalityType DEF Rotating
<1>11. Cardinality(Live \ Held) + Cardinality(Rotating) <= Cardinality(opened) + again
  BY DEF SessionsOK
<1>12. again' = again
  BY DEF Issue
<1>13. Cardinality(Live' \ Held') + Cardinality(Rotating') <= Cardinality(opened') + again'
  BY <1>1, <1>3, <1>6, <1>7, <1>8, <1>9, <1>10, <1>11, <1>12
<1> QED
  BY <1>6, <1>13 DEF SessionsOK

LEMMA SessionsRotate ==
    ASSUME TypeInv, SessionsOK, NEW w \in Workers, Rotate(w)
    PROVE  SessionsOK'
<1> DEFINE token == workers[w].token
           new == tokens + 1
<1>1. tokens \in Nat /\ again \in Nat
  BY DEF TypeInv, TypeOK, Tokens
<1>2. \A v \in Workers : workers'[v] = IF v = w THEN Idle ELSE workers[v]
  BY DEF Rotate, ReplyTokens, Reply, TypeInv, TypeOK
<1>3. w \in Rotating /\ Rotating' = Rotating \ {w}
  BY <1>2, IdleType DEF Rotating, At, Rotate
<1>4. Live' \subseteq (Live \ {token}) \union {new}
  BY <1>1 DEF Live, Rotate
<1>5. \A x \in Held : x = token \/ x \in Held'
  BY <1>2, <1>3 DEF Held, Rotating, At
<1>6. Live' \ Held' \subseteq (Live \ Held) \union {new}
  BY <1>4, <1>5
<1>7. IsFiniteSet(Live \ Held) /\ Cardinality(Live \ Held) \in Nat
  BY <1>1, FreeFinite DEF Live
<1>8. /\ IsFiniteSet((Live \ Held) \union {new})
      /\ Cardinality((Live \ Held) \union {new}) <= Cardinality(Live \ Held) + 1
  BY <1>7, FS_AddElement
<1>9. /\ IsFiniteSet(Live' \ Held')
      /\ Cardinality(Live' \ Held') <= Cardinality((Live \ Held) \union {new})
  BY <1>6, <1>8, FS_Subset
<1>10. IsFiniteSet(Rotating) /\ Cardinality(Rotating') = Cardinality(Rotating) - 1
  BY <1>3, AtFinite, FS_RemoveElement DEF Rotating
<1>11. /\ Cardinality(Rotating) \in Nat /\ Cardinality(opened) \in Nat
       /\ Cardinality(Live' \ Held') \in Nat
       /\ Cardinality((Live \ Held) \union {new}) \in Nat
  BY <1>8, <1>9, <1>10, FS_CardinalityType DEF SessionsOK
<1>12. Cardinality(Live \ Held) + Cardinality(Rotating) <= Cardinality(opened) + again
  BY DEF SessionsOK
<1>13. again' = again /\ opened' = opened
  BY DEF Rotate, history
<1>14. Cardinality(Live' \ Held') + Cardinality(Rotating') <= Cardinality(opened) + again
  BY <1>1, <1>7, <1>8, <1>9, <1>10, <1>11, <1>12
<1> QED
  BY <1>13, <1>14 DEF SessionsOK

\* A token about to be rotated was free before, unless it was looked up before.
LEMMA SessionsLookUp ==
    ASSUME TypeInv, AlarmsOK, SessionsOK, NEW w \in Workers, LookUp(w)
    PROVE  SessionsOK'
<1> DEFINE token == workers[w].token
<1>1. tokens \in Nat /\ again \in Nat /\ token \in 1..tokens
  BY DEF TypeInv, TypeOK, WorkerOK, Tokens, LookUp
<1>2. /\ UNCHANGED <<opened, Live>>
      /\ again' = IF token \in presented THEN again + 1 ELSE again
  BY DEF LookUp, Live, tokenVars
<1>3. workers[w].at = "refresh" /\ w \notin Rotating
  BY DEF LookUp, Rotating, At
<1>4. CASE token \in revoked \/ token <= expired
  <2>1. /\ \A v \in Workers \ {w} : workers'[v] = workers[v]
        /\ workers'[w].at \in {"alarm", "idle"}
    BY <1>4, IdleType DEF LookUp, Advance, ReplyRefused, Reply, TypeInv, TypeOK, Worker
  <2>2. Stays({"rotate"})
    BY <2>1 DEF Stays
  <2> QED
    BY <1>1, <1>2, <2>2, SessionsStep
<1>5. CASE ~(token \in revoked \/ token <= expired)
  <2>1. /\ \A v \in Workers \ {w} : workers'[v] = workers[v]
        /\ workers'[w].at = "rotate" /\ workers'[w].token = token
    BY <1>5 DEF LookUp, Advance, TypeInv, TypeOK, Worker
  <2>2. Rotating' = Rotating \union {w}
    BY <2>1 DEF Rotating, At
  <2>3. Held' = Held \union {token}
    BY <1>3, <2>1, <2>2 DEF Held, Rotating, At
  <2>4. Live' \ Held' = (Live \ Held) \ {token}
    BY <1>2, <2>3
  <2>5. IsFiniteSet(Live \ Held) /\ Cardinality(Live \ Held) \in Nat
    BY <1>1, FreeFinite DEF Live
  <2> DEFINE free == Live \ Held
  <2>6. Cardinality(Live' \ Held') = IF token \in free THEN Cardinality(free) - 1
                                                       ELSE Cardinality(free)
    <3>1. Cardinality(free \ {token}) = IF token \in free THEN Cardinality(free) - 1
                                                          ELSE Cardinality(free)
      BY <2>5, FS_RemoveElement
    <3> HIDE DEF free
    <3>2. Live' \ Held' = free \ {token}
      BY <2>4 DEF free
    <3> QED
      BY <3>1, <3>2
  <2>7. token \notin presented => token \in Live \ Held
    <3>1. token \in Live
      BY <1>1, <1>5 DEF Live
    <3>2. Held \subseteq presented
      BY DEF Held, Rotating, At, AlarmsOK
    <3> QED
      BY <3>1, <3>2
  <2>8. /\ Cardinality(Rotating) \in Nat /\ Cardinality(opened) \in Nat
        /\ Cardinality(Rotating') = Cardinality(Rotating) + 1
    BY <1>3, <2>2, AtFinite, FS_AddElement, FS_CardinalityType DEF Rotating, SessionsOK
  <2>9. Cardinality(Live \ Held) + Cardinality(Rotating) <= Cardinality(opened) + again
    BY DEF SessionsOK
  <2>10. Cardinality(Live' \ Held') + Cardinality(Rotating') <= Cardinality(opened) + again'
    <3>1. CASE token \in presented
      BY <1>1, <1>2, <2>5, <2>6, <2>8, <2>9, <3>1
    <3>2. CASE token \notin presented
      BY <1>1, <1>2, <2>5, <2>6, <2>7, <2>8, <2>9, <3>2
    <3> QED
      BY <3>1, <3>2
  <2> QED
    BY <1>2, <2>10 DEF SessionsOK
<1> QED
  BY <1>4, <1>5

LEMMA NoncesChallenge ==
    ASSUME TypeInv, NoncesOK, NEW w \in Workers, Challenge(w)
    PROVE  NoncesOK'
<1>1. nonces \in Nat /\ tokens' = tokens /\ opened' = opened
  BY DEF TypeInv, TypeOK, Nonces, Challenge, tokenVars, history
<1>2. \A v \in Workers : workers'[v] = IF v = w THEN Idle ELSE workers[v]
  BY DEF Challenge, ReplyNext, ReplyRefused, Reply, TypeInv, TypeOK
<1>3. CASE registered
  <2>1. challenge' = nonces + 1 /\ nonces' = nonces + 1
    BY <1>3 DEF Challenge
  <2>2. \A v \in At({"pass", "issue"})' : /\ v \in At({"pass", "issue"})
                                        /\ workers'[v] = workers[v]
    BY <1>2, IdleType DEF At
  <2>3. \A v \in At({"pass", "issue"})' :
           workers'[v].nonce \in 1..nonces' /\ workers'[v].nonce # challenge'
    BY <1>1, <2>1, <2>2 DEF NoncesOK
  <2>4. \A o \in opened' : o[1] \in 1..nonces' /\ o[2] \in 1..tokens' /\ o[1] # challenge'
    BY <1>1, <2>1 DEF NoncesOK
  <2>5. ChallengeOpensOnce'
    BY <1>1 DEF NoncesOK, ChallengeOpensOnce
  <2> QED
    BY <1>1, <2>2, <2>3, <2>4, <2>5 DEF NoncesOK
<1>4. CASE ~registered
  <2>1. Stays({"pass", "issue"})
    BY <1>2, IdleType DEF Stays
  <2> QED
    BY <1>1, <1>4, <2>1, NoncesStep DEF Challenge
<1> QED
  BY <1>3, <1>4

\* The nonce a worker goes on with was in the store, and is there no more.
LEMMA NoncesConsume ==
    ASSUME TypeInv, NoncesOK, NEW w \in Workers, Consume(w)
    PROVE  NoncesOK'
<1>1. /\ nonces \in Nat /\ challenge \in 0..nonces
      /\ UNCHANGED <<nonces, tokens, opened>> /\ challenge' = 0
  BY DEF TypeInv, TypeOK, Nonces, Consume, tokenVars, history
<1>2. PICK pass \in {FALSE, Genuine(w)} :
          workers' = [workers EXCEPT ![w] =
                         [Idle EXCEPT !.device = workers[w].device,
                                      !.at = IF pass THEN "pass" ELSE "fail",
                                      !.nonce = IF pass THEN challenge ELSE 0]]
  BY DEF Consume, Judge
<1>3. /\ \A v \in Workers \ {w} : workers'[v] = workers[v]
      /\ workers'[w].at = IF pass THEN "pass" ELSE "fail"
      /\ workers'[w].nonce = IF pass THEN challenge ELSE 0
  BY <1>2 DEF TypeInv, TypeOK, Idle
<1>4. CASE pass
  <2>1. challenge \in 1..nonces
    <3>1. Genuine(w)
      BY <1>2, <1>4, Zenon
    <3>2. challenge # 0
      BY <3>1 DEF Genuine
    <3> QED
      BY <1>1, <3>2
  <2>2. w \notin At({"pass", "issue"})
    BY DEF At, Consume
  <2>3. /\ At({"pass", "issue"})' = At({"pass", "issue"}) \union {w}
        /\ workers'[w].nonce = challenge
        /\ \A v \in At({"pass", "issue"}) : workers'[v] = workers[v]
    BY <1>3, <1>4, <2>2 DEF At
  <2>4. \A v \in At({"pass", "issue"})' :
           workers'[v].nonce \in 1..nonces' /\ workers'[v].nonce # challenge'
    BY <1>1, <2>1, <2>3 DEF NoncesOK
  <2>5. \A u, v \in At({"pass", "issue"})' : workers'[u].nonce = workers'[v].nonce => u = v
    BY <2>3 DEF NoncesOK
  <2>6. \A o \in opened' : o[1] \in 1..nonces' /\ o[2] \in 1..tokens' /\ o[1] # challenge'
    BY <1>1 DEF NoncesOK
  <2>7. \A o \in opened' : \A v \in At({"pass", "issue"})' : workers'[v].nonce # o[1]
    BY <1>1, <2>3 DEF NoncesOK
  <2>8. ChallengeOpensOnce'
    BY <1>1 DEF NoncesOK, ChallengeOpensOnce
  <2> QED
    BY <2>4, <2>5, <2>6, <2>7, <2>8 DEF NoncesOK
<1>5. CASE ~pass
  <2>1. Stays({"pass", "issue"})
    BY <1>3, <1>5 DEF Stays
  <2> QED
    BY <1>1, <2>1, NoncesStep
<1> QED
  BY <1>4, <1>5

LEMMA NoncesIssue ==
    ASSUME TypeInv, NoncesOK, NEW w \in Workers, Issue(w)
    PROVE  NoncesOK'
<1> DEFINE new == <<workers[w].nonce, tokens + 1>>
<1>1. /\ tokens \in Nat /\ tokens' = tokens + 1 /\ w \in At({"pass", "issue"})
      /\ UNCHANGED <<nonces, challenge>> /\ opened' = opened \union {new}
  BY DEF TypeInv, TypeOK, Tokens, Issue, accountVars, At
<1>2. \A v \in Workers : workers'[v] = IF v = w THEN Idle ELSE workers[v]
  BY DEF Issue, ReplyTokens, Reply, TypeInv, TypeOK
<1>3. \A v \in At({"pass", "issue"})' : /\ v \in At({"pass", "issue"}) /\ v # w
                                      /\ workers'[v] = workers[v]
  BY <1>2, IdleType DEF At
<1>4. \A o \in opened' : o \in opened \/ o = new
  BY <1>1
<1>5. new[1] = workers[w].nonce /\ new[2] = tokens + 1
  OBVIOUS
<1> HIDE DEF new
<1>6. \A v \in At({"pass", "issue"})' :
         workers'[v].nonce \in 1..nonces' /\ workers'[v].nonce # challenge'
  BY <1>1, <1>3 DEF NoncesOK
<1>7. \A u, v \in At({"pass", "issue"})' : workers'[u].nonce = workers'[v].nonce => u = v
  BY <1>3 DEF NoncesOK
<1>8. \A o \in opened' : o[1] \in 1..nonces' /\ o[2] \in 1..tokens' /\ o[1] # challenge'
  BY <1>1, <1>4, <1>5 DEF NoncesOK
<1>9. \A o \in opened' : \A v \in At({"pass", "issue"})' : workers'[v].nonce # o[1]
  BY <1>1, <1>3, <1>4, <1>5 DEF NoncesOK
<1>10. ChallengeOpensOnce'
  BY <1>1, <1>4, <1>5 DEF NoncesOK, ChallengeOpensOnce
<1> QED
  BY <1>6, <1>7, <1>8, <1>9, <1>10 DEF NoncesOK

\* Whoever passes the check of the limit finds room for one more failure.
LEMMA FailuresLimit ==
    ASSUME TypeInv, FailuresOK, NEW w \in Workers, CheckLimit(w)
    PROVE  FailuresOK'
<1> DEFINE trying == At({"consume", "fail"})
<1>1. attempts \in Nat /\ attempts' = attempts
  BY DEF TypeInv, TypeOK, CheckLimit, accountVars
<1>2. CASE attempts < MaxAttempts
  <2>1. trying' \subseteq Workers
    BY DEF At
  <2>2. Cardinality(trying') <= Cardinality(Workers) /\ Cardinality(trying') \in Nat
    BY <2>1, AuthAssumption, FS_Subset, FS_CardinalityType
  <2>3. Cardinality(Workers) \in Nat
    BY AuthAssumption, FS_CardinalityType
  <2> HIDE DEF trying
  <2>4. attempts' + Cardinality(trying') < MaxAttempts + Cardinality(Workers)
    BY <1>1, <1>2, <2>2, <2>3, AuthAssumption
  <2> QED
    BY <2>4 DEF FailuresOK, trying
<1>3. CASE ~(attempts < MaxAttempts)
  <2>1. \A v \in Workers : workers'[v] = IF v = w THEN Idle ELSE workers[v]
    BY <1>3 DEF CheckLimit, Allowed, NoAnswer, TypeInv, TypeOK
  <2>2. trying' \subseteq trying
    BY <2>1, IdleType DEF At
  <2> QED
    BY <1>1, <2>2, FailuresStep
<1> QED
  BY <1>2, <1>3

LEMMA FailuresFail ==
    ASSUME TypeInv, FailuresOK, NEW w \in Workers, Fail(w)
    PROVE  FailuresOK'
<1> DEFINE trying == At({"consume", "fail"})
<1>1. attempts \in Nat /\ attempts' = attempts + 1
  BY DEF TypeInv, TypeOK, Fail
<1>2. \A v \in Workers : workers'[v] = IF v = w THEN Idle ELSE workers[v]
  BY DEF Fail, ReplyRefused, Reply, TypeInv, TypeOK
<1>3. w \in trying /\ trying' = trying \ {w}
  BY <1>2, IdleType DEF At, Fail
<1>4. IsFiniteSet(trying) /\ Cardinality(trying) \in Nat
  BY AtFinite
<1>5. Cardinality(trying') = Cardinality(trying) - 1
  BY <1>3, <1>4, FS_RemoveElement
<1>6. attempts + Cardinality(trying) < MaxAttempts + Cardinality(Workers)
  BY DEF FailuresOK
<1>7. Cardinality(Workers) \in Nat
  BY AuthAssumption, FS_CardinalityType
<1> HIDE DEF trying
<1>8. attempts' + Cardinality(trying') < MaxAttempts + Cardinality(Workers)
  BY <1>1, <1>4, <1>5, <1>6, <1>7, AuthAssumption
<1> QED
  BY <1>8 DEF FailuresOK, trying

LEMMA AlarmsLookUp ==
    ASSUME TypeInv, AlarmsOK, NEW w \in Workers, LookUp(w)
    PROVE  AlarmsOK'
<1> DEFINE token == workers[w].token
<1>1. /\ again \in Nat /\ presented' = presented \union {token}
      /\ again' = IF token \in presented THEN again + 1 ELSE again
      /\ UNCHANGED <<revoked, alarmed>>
  BY DEF TypeInv, TypeOK, LookUp, tokenVars
<1>2. /\ \A v \in Workers \ {w} : workers'[v] = workers[v]
      /\ \/ workers'[w].at = "idle"
         \/ workers'[w].token = token
      /\ workers'[w].at = "alarm" => token \in revoked
  BY IdleType DEF LookUp, Advance, ReplyRefused, Reply, TypeInv, TypeOK, Worker
<1> HIDE DEF token
<1>3. again > 0 => again' > 0
  BY <1>1
<1>4. token \in revoked => again' > 0
  <2>1. CASE alarmed
    BY <1>3, <2>1 DEF AlarmsOK, AlarmIsGenuine
  <2>2. CASE ~alarmed
    BY <1>1, <2>2 DEF AlarmsOK
  <2> QED
    BY <2>1, <2>2
<1>5. ~alarmed' => revoked' \subseteq presented'
  BY <1>1 DEF AlarmsOK
<1>6. \A v \in At({"rotate", "alarm"})' : workers'[v].token \in presented'
  BY <1>1, <1>2 DEF AlarmsOK, At
<1>7. \A v \in At({"alarm"})' : again' > 0
  BY <1>2, <1>3, <1>4 DEF AlarmsOK, At
<1>8. AlarmIsGenuine'
  BY <1>1, <1>3 DEF AlarmsOK, AlarmIsGenuine
<1> QED
  BY <1>5, <1>6, <1>7, <1>8 DEF AlarmsOK

LEMMA AlarmsAlarm ==
    ASSUME TypeInv, AlarmsOK, NEW w \in Workers, Alarm(w)
    PROVE  AlarmsOK'
<1>1. again > 0 /\ again' = again /\ presented' = presented /\ alarmed' = TRUE
  BY DEF AlarmsOK, At, Alarm
<1>2. \A v \in Workers : workers'[v] = IF v = w THEN Idle ELSE workers[v]
  BY DEF Alarm, ReplyRefused, Reply, TypeInv, TypeOK
<1>3. \A v \in At({"rotate", "alarm"})' : workers'[v].token \in presented'
  BY <1>1, <1>2, IdleType DEF AlarmsOK, At
<1> QED
  BY <1>1, <1>3 DEF AlarmsOK, AlarmIsGenuine

-------------------------------------------------------------------------------
(* All steps.                                                              *)

\* Every worker goes on with what it did, or is at none of the steps that touch
\* what the invariant relates.
Calm ==
    \A v \in Workers :
        \/ /\ workers'[v].at = workers[v].at
           /\ workers'[v].nonce = workers[v].nonce
           /\ workers'[v].token = workers[v].token
        \/ workers'[v].at \in {"idle", "register", "challenge", "login", "allowed", "refresh"}

LEMMA CalmStays ==
    ASSUME Calm
    PROVE  /\ Stays({"pass", "issue"}) /\ Stays({"rotate", "alarm"})
           /\ Stays({"alarm"}) /\ Stays({"rotate"})
           /\ At({"consume", "fail"})' \subseteq At({"consume", "fail"})
  BY DEF Calm, Stays, At

Parts == NoncesOK /\ FailuresOK /\ AlarmsOK /\ SessionsOK

LEMMA QuietStep ==
    ASSUME TypeInv, Parts, Calm, challenge' \in {0, challenge}, attempts' \in {0, attempts},
           UNCHANGED <<nonces, tokens, revoked, history>>
    PROVE  Parts'
<1>1. again \in Nat /\ again' = again /\ presented' = presented /\ alarmed' = alarmed
      /\ opened' = opened /\ Live' = Live
  BY DEF TypeInv, TypeOK, history, Live
<1>2. NoncesOK'
  BY <1>1, CalmStays, NoncesStep DEF Parts
<1>3. FailuresOK'
  BY CalmStays, FailuresStep DEF Parts
<1>4. AlarmsOK'
  BY <1>1, CalmStays, AlarmsStep DEF Parts
<1>5. SessionsOK'
  BY <1>1, CalmStays, SessionsStep DEF Parts
<1> QED
  BY <1>2, <1>3, <1>4, <1>5 DEF Parts

LEMMA DeviceStepQuiet ==
    ASSUME TypeInv, Parts, NEW d \in Devices, DeviceStep(d)
    PROVE  Parts'
<1>1. \/ workers' = workers
      \/ workers' = Orphaned(d)
      \/ \E w \in Workers : Deliver(d, w)
  BY DEF DeviceStep, StartRegister, StartLogin, StartRefresh, Begin, GiveUp, Quit
<1>2. PartiesOK
  BY PartiesAreOK
<1>3. Calm
  <2>1. CASE workers' = workers
    BY <2>1 DEF Calm
  <2>2. CASE workers' = Orphaned(d)
    BY <1>2, <2>2, OrphanedMoves DEF Calm
  <2>3. ASSUME NEW w \in Workers, Deliver(d, w) PROVE Calm
    <3>1. /\ \A v \in Workers \ {w} : workers'[v] = Orphaned(d)[v]
          /\ workers'[w].at \in {"register", "challenge", "login", "refresh"}
      BY <1>2, <2>3, OrphanedMoves DEF Deliver, Waiting
    <3> QED
      BY <1>2, <3>1, OrphanedMoves DEF Calm
  <2> QED
    BY <1>1, <2>1, <2>2, <2>3
<1>4. UNCHANGED <<accountVars, tokenVars, history>>
  BY DEF DeviceStep, StartRegister, StartLogin, StartRefresh, Begin, Deliver, GiveUp, Quit
<1> QED
  BY <1>3, <1>4, QuietStep DEF accountVars, tokenVars

\* One worker moves on, keeping what it serves.
LEMMA AdvanceEffect ==
    ASSUME TypeInv, NEW w \in Workers, NEW at, Advance(w, at)
    PROVE  /\ \A v \in Workers \ {w} : workers'[v] = workers[v]
           /\ workers'[w].at = at
           /\ workers'[w].nonce = workers[w].nonce
           /\ workers'[w].token = workers[w].token
  BY DEF Advance, TypeInv, TypeOK, Worker

\* One worker is done.
LEMMA DoneEffect ==
    ASSUME TypeInv, NEW w \in Workers, workers' = [workers EXCEPT ![w] = Idle]
    PROVE  /\ \A v \in Workers \ {w} : workers'[v] = workers[v]
           /\ workers'[w].at = "idle"
           /\ Calm
  BY IdleType DEF TypeInv, TypeOK, Calm

LEMMA ServeParts ==
    ASSUME TypeInv, Parts, NEW w \in Workers, Serve(w)
    PROVE  Parts'
<1>1. tokens \in Nat /\ again \in Nat
  BY DEF TypeInv, TypeOK, Tokens
<1>2. CASE Register(w)
  <2>1. Calm
    BY <1>2, DoneEffect DEF Register, ReplyRefused, ReplyNext, Reply
  <2> QED
    BY <1>2, <2>1, QuietStep DEF Register, tokenVars
<1>3. CASE Challenge(w)
  <2>1. Calm
    BY <1>3, DoneEffect DEF Challenge, ReplyRefused, ReplyNext, Reply
  <2>2. UNCHANGED <<attempts, tokens, revoked, opened, presented, again, alarmed, Live>>
    BY <1>3 DEF Challenge, tokenVars, history, Live
  <2>3. NoncesOK'
    BY <1>3, NoncesChallenge DEF Parts
  <2>4. FailuresOK'
    BY <2>1, <2>2, CalmStays, FailuresStep DEF Parts
  <2>5. AlarmsOK'
    BY <2>1, <2>2, CalmStays, AlarmsStep DEF Parts
  <2>6. SessionsOK'
    BY <2>1, <2>2, CalmStays, SessionsStep DEF Parts
  <2> QED
    BY <2>3, <2>4, <2>5, <2>6 DEF Parts
<1>4. CASE CheckLimit(w)
  <2>1. /\ \A v \in Workers \ {w} : workers'[v] = workers[v]
        /\ workers'[w].at \in {"idle", "allowed", "consume"}
    BY <1>4, AdvanceEffect, DoneEffect DEF CheckLimit, NoAnswer
  <2>2. /\ Stays({"pass", "issue"}) /\ Stays({"rotate", "alarm"})
        /\ Stays({"alarm"}) /\ Stays({"rotate"})
    BY <2>1 DEF Stays
  <2>3. UNCHANGED <<nonces, challenge, tokens, revoked, opened, presented, again, alarmed, Live>>
    BY <1>4 DEF CheckLimit, accountVars, tokenVars, history, Live
  <2>4. NoncesOK'
    BY <2>2, <2>3, NoncesStep DEF Parts
  <2>5. FailuresOK'
    BY <1>4, FailuresLimit DEF Parts
  <2>6. AlarmsOK'
    BY <2>2, <2>3, AlarmsStep DEF Parts
  <2>7. SessionsOK'
    BY <2>2, <2>3, SessionsStep DEF Parts
  <2> QED
    BY <2>4, <2>5, <2>6, <2>7 DEF Parts
<1>5. CASE Consume(w)
  <2>1. /\ \A v \in Workers \ {w} : workers'[v] = workers[v]
        /\ workers'[w].at \in {"pass", "fail"}
        /\ workers[w].at = "consume"
    BY <1>5 DEF Consume, Judge, TypeInv, TypeOK, Idle
  <2>2. /\ Stays({"rotate", "alarm"}) /\ Stays({"alarm"}) /\ Stays({"rotate"})
        /\ At({"consume", "fail"})' \subseteq At({"consume", "fail"})
    BY <2>1 DEF Stays, At
  <2>3. UNCHANGED <<attempts, revoked, opened, presented, again, alarmed, Live>>
    BY <1>5 DEF Consume, tokenVars, history, Live
  <2>4. NoncesOK'
    BY <1>5, NoncesConsume DEF Parts
  <2>5. FailuresOK'
    BY <2>2, <2>3, FailuresStep DEF Parts
  <2>6. AlarmsOK'
    BY <2>2, <2>3, AlarmsStep DEF Parts
  <2>7. SessionsOK'
    BY <2>2, <2>3, SessionsStep DEF Parts
  <2> QED
    BY <2>4, <2>5, <2>6, <2>7 DEF Parts
<1>6. CASE Fail(w)
  <2>1. Calm
    BY <1>6, DoneEffect DEF Fail, ReplyRefused, Reply
  <2>2. UNCHANGED <<nonces, challenge, tokens, revoked, opened, presented, again, alarmed, Live>>
    BY <1>6 DEF Fail, tokenVars, history, Live
  <2>3. NoncesOK'
    BY <2>1, <2>2, CalmStays, NoncesStep DEF Parts
  <2>4. FailuresOK'
    BY <1>6, FailuresFail DEF Parts
  <2>5. AlarmsOK'
    BY <2>1, <2>2, CalmStays, AlarmsStep DEF Parts
  <2>6. SessionsOK'
    BY <2>1, <2>2, CalmStays, SessionsStep DEF Parts
  <2> QED
    BY <2>3, <2>4, <2>5, <2>6 DEF Parts
<1>7. CASE Pass(w)
  <2>1. /\ \A v \in Workers \ {w} : workers'[v] = workers[v]
        /\ workers'[w].at = "issue" /\ workers[w].at = "pass"
        /\ workers'[w].nonce = workers[w].nonce /\ workers'[w].token = workers[w].token
    BY <1>7, AdvanceEffect DEF Pass
  <2>2. /\ Stays({"pass", "issue"}) /\ Stays({"rotate", "alarm"})
        /\ Stays({"alarm"}) /\ Stays({"rotate"})
        /\ At({"consume", "fail"})' \subseteq At({"consume", "fail"})
    BY <2>1 DEF Stays, At
  <2>3. /\ UNCHANGED <<nonces, challenge, tokens, revoked, opened, presented, again, alarmed, Live>>
        /\ attempts' = 0
    BY <1>7 DEF Pass, tokenVars, history, Live
  <2>4. NoncesOK'
    BY <2>2, <2>3, NoncesStep DEF Parts
  <2>5. FailuresOK'
    BY <2>2, <2>3, FailuresStep DEF Parts
  <2>6. AlarmsOK'
    BY <2>2, <2>3, AlarmsStep DEF Parts
  <2>7. SessionsOK'
    BY <2>2, <2>3, SessionsStep DEF Parts
  <2> QED
    BY <2>4, <2>5, <2>6, <2>7 DEF Parts
<1>8. CASE Issue(w)
  <2>1. Calm
    BY <1>8, DoneEffect DEF Issue, ReplyTokens, Reply
  <2>2. UNCHANGED <<attempts, revoked, presented, again, alarmed>>
    BY <1>8 DEF Issue, accountVars
  <2>3. NoncesOK'
    BY <1>8, NoncesIssue DEF Parts
  <2>4. FailuresOK'
    BY <2>1, <2>2, CalmStays, FailuresStep DEF Parts
  <2>5. AlarmsOK'
    BY <2>1, <2>2, CalmStays, AlarmsStep DEF Parts
  <2>6. SessionsOK'
    BY <1>8, SessionsIssue DEF Parts
  <2> QED
    BY <2>3, <2>4, <2>5, <2>6 DEF Parts
<1>9. CASE LookUp(w)
  <2>1. /\ \A v \in Workers \ {w} : workers'[v] = workers[v]
        /\ workers'[w].at \in {"idle", "alarm", "rotate"}
    BY <1>9, AdvanceEffect, DoneEffect DEF LookUp, ReplyRefused, Reply
  <2>2. /\ Stays({"pass", "issue"})
        /\ At({"consume", "fail"})' \subseteq At({"consume", "fail"})
    BY <2>1 DEF Stays, At
  <2>3. UNCHANGED <<nonces, challenge, attempts, tokens, opened>>
    BY <1>9 DEF LookUp, accountVars, tokenVars
  <2>4. NoncesOK'
    BY <2>2, <2>3, NoncesStep DEF Parts
  <2>5. FailuresOK'
    BY <2>2, <2>3, FailuresStep DEF Parts
  <2>6. AlarmsOK' /\ SessionsOK'
    BY <1>9, AlarmsLookUp, SessionsLookUp DEF Parts
  <2> QED
    BY <2>4, <2>5, <2>6 DEF Parts
<1>10. CASE Alarm(w)
  <2>1. Calm
    BY <1>10, DoneEffect DEF Alarm, ReplyRefused, Reply
  <2>2. UNCHANGED <<nonces, challenge, attempts, tokens, opened, presented, again>>
    BY <1>10 DEF Alarm, accountVars
  <2>3. Live' \subseteq Live
    BY <1>10 DEF Alarm, Live
  <2>4. NoncesOK'
    BY <2>1, <2>2, CalmStays, NoncesStep DEF Parts
  <2>5. FailuresOK'
    BY <2>1, <2>2, CalmStays, FailuresStep DEF Parts
  <2>6. AlarmsOK'
    BY <1>10, AlarmsAlarm DEF Parts
  <2>7. SessionsOK'
    BY <2>1, <2>2, <2>3, CalmStays, SessionsStep DEF Parts
  <2> QED
    BY <2>4, <2>5, <2>6, <2>7 DEF Parts
<1>11. CASE Rotate(w)
  <2>1. Calm
    BY <1>11, DoneEffect DEF Rotate, ReplyTokens, Reply
  <2>2. /\ UNCHANGED <<nonces, challenge, attempts, opened, presented, again, alarmed>>
        /\ tokens' = tokens + 1
    BY <1>11 DEF Rotate, accountVars, history
  <2>3. revoked' \subseteq revoked \union presented
    BY <1>11 DEF Rotate, Parts, AlarmsOK, At
  <2>4. NoncesOK'
    BY <2>1, <2>2, CalmStays, NoncesStep DEF Parts
  <2>5. FailuresOK'
    BY <2>1, <2>2, CalmStays, FailuresStep DEF Parts
  <2>6. AlarmsOK'
    BY <2>1, <2>2, <2>3, CalmStays, AlarmsStep DEF Parts
  <2>7. SessionsOK'
    BY <1>11, SessionsRotate DEF Parts
  <2> QED
    BY <2>4, <2>5, <2>6, <2>7 DEF Parts
<1> QED
  BY <1>2, <1>3, <1>4, <1>5, <1>6, <1>7, <1>8, <1>9, <1>10, <1>11 DEF Serve

LEMMA InvInit == Init => IInv
<1> SUFFICES ASSUME Init PROVE IInv
  OBVIOUS
<1>1. TypeInv
  BY TypeInit
<1>2. At({"pass", "issue"}) = {} /\ At({"consume", "fail"}) = {} /\ Rotating = {}
      /\ At({"rotate", "alarm"}) = {} /\ At({"alarm"}) = {}
  BY IdleType DEF Init, At, Rotating
<1>3. NoncesOK
  BY <1>2 DEF Init, NoncesOK, ChallengeOpensOnce
<1>4. FailuresOK
  <2>1. attempts = 0 /\ Cardinality(At({"consume", "fail"})) = 0
    BY <1>2, FS_EmptySet DEF Init
  <2>2. Cardinality(Workers) \in Nat
    BY AuthAssumption, FS_CardinalityType
  <2> QED
    BY <2>1, <2>2, AuthAssumption DEF FailuresOK
<1>5. AlarmsOK
  BY <1>2 DEF Init, AlarmsOK, AlarmIsGenuine
<1>6. SessionsOK
  <2>1. Live \ Held = {}
    BY DEF Init, Live
  <2> QED
    BY <1>2, <2>1, FS_EmptySet DEF Init, SessionsOK
<1> QED
  BY <1>1, <1>3, <1>4, <1>5, <1>6 DEF IInv

LEMMA InvNext == IInv /\ [Next]_vars => IInv'
<1> SUFFICES ASSUME TypeInv, Parts, [Next]_vars PROVE Parts'
  BY TypeNext DEF IInv, Parts
<1>1. ASSUME NEW w \in Workers, Serve(w) PROVE Parts'
  BY <1>1, ServeParts
<1>2. ASSUME NEW w \in Workers, Abort(w) PROVE Parts'
  BY <1>2, DoneEffect, QuietStep DEF Abort, NoAnswer, accountVars, tokenVars
<1>3. ASSUME NEW d \in Devices, DeviceStep(d) PROVE Parts'
  BY <1>3, DeviceStepQuiet
<1>4. CASE TimePasses
  <2>1. Calm /\ challenge' \in {0, challenge} /\ attempts' \in {0, attempts}
        /\ UNCHANGED <<nonces, tokens, revoked, history>>
    BY <1>4 DEF TimePasses, ChallengeExpires, WindowEnds, RefreshExpires, Calm,
                accountVars, tokenVars
  <2> QED
    BY <2>1, QuietStep
<1>5. CASE Restart
  <2>1. Calm
    BY <1>5, IdleType DEF Restart, Calm
  <2> QED
    BY <1>5, <2>1, QuietStep DEF Restart, tokenVars
<1>6. CASE UNCHANGED vars
  <2>1. Calm
    BY <1>6 DEF vars, Calm
  <2> QED
    BY <1>6, <2>1, QuietStep DEF vars, accountVars, tokenVars
<1> QED
  BY <1>1, <1>2, <1>3, <1>4, <1>5, <1>6 DEF Next

-------------------------------------------------------------------------------
(* Theorems.                                                               *)

\* The inductive invariant holds in every reachable state.
THEOREM InvHolds == Spec => []IInv
  BY InvInit, InvNext, PTL DEF Spec

\* Every variable of Auth keeps its type.
THEOREM TypeIsOK == Spec => []TypeOK
<1>1. IInv => TypeOK
  BY DEF IInv, TypeInv
<1> QED
  BY <1>1, InvHolds, PTL

\* However many requests are in service, repeated or interrupted, a challenge
\* opens at most one session.
THEOREM ChallengesOpenOnce == Spec => []ChallengeOpensOnce
<1>1. IInv => ChallengeOpensOnce
  BY DEF IInv, NoncesOK
<1> QED
  BY <1>1, InvHolds, PTL

\* The limit on failed attempts is exceeded by less than the number of requests
\* the server serves at once.
THEOREM FailuresAreBounded == Spec => []FailuresBounded
<1>1. IInv => FailuresBounded
  <2> SUFFICES ASSUME IInv PROVE FailuresBounded
    OBVIOUS
  <2>1. attempts + Cardinality(At({"consume", "fail"})) < MaxAttempts + Cardinality(Workers)
    BY DEF IInv, FailuresOK
  <2>2. attempts \in Nat /\ Cardinality(At({"consume", "fail"})) \in Nat
        /\ Cardinality(Workers) \in Nat
    BY AtFinite, AuthAssumption, FS_CardinalityType DEF IInv, TypeInv, TypeOK
  <2> QED
    BY <2>1, <2>2, AuthAssumption DEF FailuresBounded
<1> QED
  BY <1>1, InvHolds, PTL

\* Only a second look-up of a token makes the server revoke all tokens.
THEOREM AlarmsAreGenuine == Spec => []AlarmIsGenuine
<1>1. IInv => AlarmIsGenuine
  BY DEF IInv, AlarmsOK
<1> QED
  BY <1>1, InvHolds, PTL

\* Every refresh token that works is accounted for by a sign-in or a second
\* look-up.
THEOREM SessionsAreAccounted == Spec => []SessionsAccounted
<1>1. IInv => SessionsAccounted
  BY SessionsFollow DEF IInv
<1> QED
  BY <1>1, InvHolds, PTL
===============================================================================
