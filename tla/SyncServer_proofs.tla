--------------------------- MODULE SyncServer_proofs ---------------------------
(***************************************************************************)
(* Theorems about SyncServer for every number of records, pushes, retries, *)
(* requests in service and clients.                                        *)
(***************************************************************************)
EXTENDS SyncServer, TLAPS

-------------------------------------------------------------------------------
(* Types.                                                                  *)

\* A worker that handles a record has one left to handle; only a push looks its
\* key up, saves a result and is answered.
WorkerOK(s) ==
    /\ s.pc \in {"owner", "upsert", "commit", "reread"} => Len(s.results) < Len(s.items)
    /\ s.pc = "check" => s.results = <<>> /\ s.items # <<>>
    /\ s.pc \in {"check", "save", "reply"} => s.key # NoKey

TypeInv == TypeOK /\ \A w \in Workers : WorkerOK(workers[w])

\* The record a busy worker is at is one of its items.
LEMMA CurrentIsItem ==
    ASSUME TypeInv, NEW w \in Workers,
           workers[w].pc \in {"owner", "upsert", "commit", "reread"}
    PROVE  /\ Current(w) \in Item
           /\ Len(workers[w].results) + 1 \in DOMAIN workers[w].items
  BY DEF TypeInv, TypeOK, WorkerOK, WorkerState, Current

\* A worker at rest is well formed.
LEMMA IdleType ==
    /\ Idle \in WorkerState
    /\ WorkerOK(Idle)
    /\ Idle.pc = "idle" /\ Idle.key = NoKey /\ Idle.results = <<>>
  BY BoundsAssumption DEF Idle, WorkerState, WorkerOK, Versions

\* What a worker does after a record leaves it well formed.
LEMMA AdvanceType ==
    ASSUME TypeInv, NEW w \in Workers, NEW result \in Result,
           workers[w].pc \in {"commit", "reread"}
    PROVE  /\ Advance(w, result) \in WorkerState
           /\ WorkerOK(Advance(w, result))
           /\ Advance(w, result).pc \in {"idle", "save", "upsert"}
<1>1. workers[w] \in WorkerState
  BY DEF TypeInv, TypeOK
<1>2. Len(workers[w].results) < Len(workers[w].items)
  BY DEF TypeInv, WorkerOK
<1>3. 0 \in Versions
  BY BoundsAssumption DEF Versions
<1>4. CASE workers[w].key = NoKey
  BY <1>4, IdleType DEF Advance
<1>5. CASE workers[w].key # NoKey
  <2> DEFINE old == workers[w]
             next == IF Len(old.results) + 1 = Len(old.items) THEN "save" ELSE "upsert"
             new == [old EXCEPT !.pc = next, !.newVersion = 0,
                                !.results = Append(@, result)]
  <2>1. Advance(w, result) = new
    BY <1>5 DEF Advance
  <2>2. /\ Append(old.results, result) \in Seq(Result)
        /\ Len(Append(old.results, result)) = Len(old.results) + 1
    BY <1>1 DEF WorkerState
  <2>3. /\ new.pc = next
        /\ new.key = old.key
        /\ new.items = old.items
        /\ new.results = Append(old.results, result)
    BY <1>1 DEF WorkerState
  <2>4. new \in WorkerState
    BY <1>1, <1>3, <2>2 DEF WorkerState
  <2>5. next = "upsert" => Len(old.results) + 1 < Len(old.items)
    BY <1>1, <1>2 DEF WorkerState
  <2>6. WorkerOK(new)
    BY <1>5, <2>2, <2>3, <2>5 DEF WorkerOK
  <2> QED BY <2>1, <2>3, <2>4, <2>6
<1> QED BY <1>4, <1>5

\* A step of one worker that leaves it well formed leaves all of them so.
LEMMA WorkerStep ==
    ASSUME TypeInv, NEW w \in Workers, NEW new \in WorkerState, WorkerOK(new),
           workers' = [workers EXCEPT ![w] = new]
    PROVE  /\ workers' \in [Workers -> WorkerState]
           /\ \A x \in Workers : WorkerOK(workers'[x])
  BY DEF TypeInv, TypeOK

\* The first state is well typed.
LEMMA TypeInit == Init => TypeInv
<1> SUFFICES ASSUME Init PROVE TypeInv
  OBVIOUS
<1>1. 0 \in Versions /\ 0 \in 0..MaxSends /\ 0 \in 0..MaxRestWrites
  BY BoundsAssumption DEF Versions
<1>2. <<>> \in Seq(Result) /\ <<>> \in Seq(Item)
  OBVIOUS
<1>3. workers \in [Workers -> WorkerState] /\ \A w \in Workers : WorkerOK(workers[w])
  BY IdleType DEF Init
<1> QED BY <1>1, <1>2, <1>3 DEF Init, TypeInv, TypeOK

\* A dirty record is one whose versions its client can know.
LEMMA DirtyIsKnown ==
    ASSUME NEW id \in Ids, NEW item \in Dirty(id)
    PROVE  /\ item \in Item
           /\ item.id = id /\ item.op = "upsert"
           /\ Seen(id, item.base) /\ Seen(id, item.held)
           /\ \/ item.held <= item.base
              \/ item.base = 0 /\ \A c \in commits : c.version = item.held => c.id # id
  BY DEF Dirty, Item

\* Every step keeps every variable well typed.
LEMMA TypeNext == TypeInv /\ [Next]_vars => TypeInv'
<1> SUFFICES ASSUME TypeInv, [Next]_vars PROVE TypeInv'
  OBVIOUS
<1> USE DEF TypeInv
<1>0. /\ workers \in [Workers -> WorkerState]
      /\ \A w \in Workers : WorkerOK(workers[w])
      /\ 0 \in Versions
  BY BoundsAssumption DEF TypeOK, Versions
<1>1. ASSUME NEW k \in Keys, Submit(k) PROVE TypeInv'
  <2>1. PICK batch \in Batches : requests' = [requests EXCEPT ![k] = batch]
    BY <1>1 DEF Submit
  <2>2. batch \in Seq(Item)
    <3>1. PICK n \in 1..MaxBatch : batch \in [1..n -> UNION {Dirty(id) : id \in Ids}]
      BY DEF Batches
    <3>2. UNION {Dirty(id) : id \in Ids} \subseteq Item
      BY DirtyIsKnown
    <3>3. n \in Nat /\ batch \in [1..n -> Item]
      BY <3>1, <3>2, BoundsAssumption
    <3> QED BY <3>3
  <2> QED BY <1>0, <1>1, <2>1, <2>2 DEF Submit, TypeOK, storeVars, pullVars, savedVars
<1>2. ASSUME NEW w \in Workers, NEW k \in Keys, Deliver(w, k) PROVE TypeInv'
  <2> DEFINE new == [Idle EXCEPT !.pc = "check", !.key = k, !.items = requests[k]]
  <2>1. requests[k] \in Seq(Item) /\ requests[k] # <<>>
    BY <1>2 DEF Deliver, TypeOK
  <2>2. /\ new.pc = "check" /\ new.key = k /\ new.items = requests[k]
        /\ new.results = <<>>
        /\ new \in WorkerState
    BY <2>1, IdleType DEF WorkerState
  <2>3. WorkerOK(new)
    BY <2>1, <2>2, NoKeyAssumption DEF WorkerOK
  <2>4. workers' = [workers EXCEPT ![w] = new]
    BY <1>2 DEF Deliver
  <2>5. sends' \in 0..MaxSends
    BY <1>2, BoundsAssumption DEF Deliver, TypeOK
  <2> HIDE DEF new
  <2> QED BY <1>2, <2>2, <2>3, <2>4, <2>5, WorkerStep
          DEF Deliver, TypeOK, storeVars, pullVars, savedVars
<1>3. ASSUME NEW w \in Workers, CheckIdempotency(w) PROVE TypeInv'
  <2> DEFINE new == IF idem[workers[w].key] # <<>>
                    THEN [workers[w] EXCEPT !.pc = "reply", !.results = idem[workers[w].key]]
                    ELSE [workers[w] EXCEPT !.pc = "upsert"]
  <2>1. workers' = [workers EXCEPT ![w] = new]
    BY <1>3 DEF CheckIdempotency
  <2>2. workers[w].key \in Keys /\ workers[w].results = <<>> /\ workers[w].items # <<>>
    BY <1>3, <1>0 DEF CheckIdempotency, WorkerOK, WorkerState
  <2>3. idem[workers[w].key] \in Seq(Result)
    BY <2>2 DEF TypeOK
  <2>4. Len(workers[w].items) > 0
    BY <2>2, <1>0 DEF WorkerState
  <2>5. new \in WorkerState /\ WorkerOK(new)
    <3>1. CASE idem[workers[w].key] # <<>>
      BY <1>0, <2>2, <2>3, <3>1, NoKeyAssumption DEF WorkerState, WorkerOK
    <3>2. CASE idem[workers[w].key] = <<>>
      BY <1>0, <2>2, <2>4, <3>2 DEF WorkerState, WorkerOK
    <3> QED BY <3>1, <3>2
  <2> HIDE DEF new
  <2> QED BY <1>3, <2>1, <2>5, WorkerStep
          DEF CheckIdempotency, TypeOK, storeVars, clientVars, pullVars, savedVars
<1>4. ASSUME NEW w \in Workers, Upsert(w) PROVE TypeInv'
  <2> DEFINE new == IF Matches(Current(w))
                    THEN [workers[w] EXCEPT !.pc = "commit",
                                            !.newVersion = seq + Draws(Current(w))]
                    ELSE [workers[w] EXCEPT !.pc = "reread"]
  <2>1. workers' = [workers EXCEPT ![w] = new]
    BY <1>4 DEF Upsert
  <2>2. Draws(Current(w)) \in {1, 2}
    BY DEF Draws
  <2>3. seq + Draws(Current(w)) \in Versions
    BY <1>4, <2>2, BoundsAssumption DEF Upsert, TypeOK, Versions
  <2>4. Len(workers[w].results) < Len(workers[w].items)
    BY <1>4, <1>0 DEF Upsert, WorkerOK
  <2>5. new \in WorkerState /\ WorkerOK(new)
    <3>1. CASE Matches(Current(w))
      BY <1>0, <2>3, <2>4, <3>1 DEF WorkerState, WorkerOK
    <3>2. CASE ~Matches(Current(w))
      BY <1>0, <2>4, <3>2 DEF WorkerState, WorkerOK
    <3> QED BY <3>1, <3>2
  <2> HIDE DEF new
  <2> QED BY <1>4, <2>1, <2>3, <2>5, WorkerStep
          DEF Upsert, TypeOK, clientVars, pullVars, savedVars
<1>5. ASSUME NEW w \in Workers, Commit(w) PROVE TypeInv'
  <2> DEFINE result == [id |-> Current(w).id, status |-> "applied",
                        version |-> workers[w].newVersion]
             c == [key |-> workers[w].key, id |-> Current(w).id, op |-> Current(w).op,
                   base |-> Current(w).base, prev |-> records[Current(w).id],
                   version |-> workers[w].newVersion]
  <2>1. /\ Current(w) \in Item
        /\ workers[w].newVersion \in Versions
        /\ workers[w].key \in Keys \union {NoKey}
    BY <1>0, <1>5, CurrentIsItem DEF Commit, WorkerState
  <2>2. result \in Result
    BY <2>1 DEF Result, Item
  <2>3. /\ workers' = [workers EXCEPT ![w] = Advance(w, result)]
        /\ records' = [records EXCEPT ![Current(w).id] = workers[w].newVersion]
        /\ commits' = commits \union {c}
    BY <1>5 DEF Commit
  <2>4. Advance(w, result) \in WorkerState /\ WorkerOK(Advance(w, result))
    BY <1>5, <2>2, AdvanceType DEF Commit
  <2>5. /\ workers' \in [Workers -> WorkerState]
        /\ \A x \in Workers : WorkerOK(workers'[x])
    BY <2>3, <2>4, WorkerStep
  <2>6. records' \in [Ids -> Versions]
    BY <2>1, <2>3 DEF TypeOK, Item
  <2>7. commits' \subseteq [key: Keys \union {NoKey}, id: Ids, op: {"upsert", "delete"},
                            base: Versions, prev: Versions, version: Versions]
    BY <2>1, <2>3 DEF TypeOK, Item
  <2> QED BY <1>5, <2>5, <2>6, <2>7 DEF Commit, TypeOK, clientVars, pullVars, savedVars
<1>6. ASSUME NEW w \in Workers, Reread(w) PROVE TypeInv'
  <2> DEFINE result == [id |-> Current(w).id, status |-> "conflict",
                        version |-> records[Current(w).id]]
  <2>1. Current(w) \in Item
    BY <1>6, CurrentIsItem DEF Reread
  <2>2. result \in Result
    BY <2>1 DEF Result, Item, TypeOK
  <2>3. workers' = [workers EXCEPT ![w] = Advance(w, result)]
    BY <1>6 DEF Reread
  <2>4. Advance(w, result) \in WorkerState /\ WorkerOK(Advance(w, result))
    BY <1>6, <2>2, AdvanceType DEF Reread
  <2>5. /\ workers' \in [Workers -> WorkerState]
        /\ \A x \in Workers : WorkerOK(workers'[x])
    BY <2>3, <2>4, WorkerStep
  <2> QED BY <1>6, <2>5 DEF Reread, TypeOK, storeVars, clientVars, pullVars, savedVars
<1>7. ASSUME NEW w \in Workers, SaveResult(w) PROVE TypeInv'
  <2> DEFINE new == [workers[w] EXCEPT !.pc = "reply"]
  <2>1. workers' = [workers EXCEPT ![w] = new]
    BY <1>7, <1>0 DEF SaveResult
  <2>2. new \in WorkerState /\ WorkerOK(new)
    BY <1>0, <1>7 DEF SaveResult, WorkerState, WorkerOK
  <2>3. idem' \in [Keys -> Seq(Result)]
    BY <1>0, <1>7 DEF SaveResult, TypeOK, WorkerState
  <2> HIDE DEF new
  <2> QED BY <1>7, <2>1, <2>2, <2>3, WorkerStep
          DEF SaveResult, TypeOK, storeVars, clientVars, pullVars, savedVars
<1>8. ASSUME NEW w \in Workers, Reply(w) PROVE TypeInv'
  <2>1. workers[w].key \in Keys /\ workers[w].results \in Seq(Result)
    BY <1>0, <1>8 DEF Reply, WorkerOK, WorkerState
  <2>2. answers' \subseteq [key: Keys, results: Seq(Result)]
    BY <1>8, <2>1 DEF Reply, TypeOK
  <2> QED BY <1>8, <2>2, IdleType, WorkerStep
          DEF Reply, TypeOK, storeVars, clientVars, pullVars, savedVars
<1>9. ASSUME NEW w \in Workers, Abort(w) PROVE TypeInv'
  BY <1>9, IdleType, WorkerStep DEF Abort, TypeOK, storeVars, clientVars, pullVars, savedVars
<1>10. ASSUME NEW w \in Workers, NEW pc \in {"owner", "upsert"}, NEW item \in Item,
              StartRest(w, pc, item)
       PROVE  TypeInv'
  <2> DEFINE items == <<item>>
             new == [Idle EXCEPT !.pc = pc, !.items = items]
  <2>1. workers' = [workers EXCEPT ![w] = new]
    BY <1>10 DEF StartRest
  <2>5. items \in Seq(Item) /\ Len(items) = 1
    OBVIOUS
  <2> HIDE DEF items
  <2>2. /\ new.pc = pc /\ new.items = items /\ new.results = <<>>
        /\ new \in WorkerState
    BY <2>5, IdleType DEF WorkerState
  <2>3. WorkerOK(new)
    BY <2>5, <2>2 DEF WorkerOK
  <2>4. restWrites' \in 0..MaxRestWrites
    BY <1>10, BoundsAssumption DEF StartRest, TypeOK
  <2> HIDE DEF new
  <2> QED BY <1>10, <2>1, <2>2, <2>3, <2>4, WorkerStep
          DEF StartRest, TypeOK, storeVars, pullVars, savedVars
<1>11. ASSUME NEW w \in Workers, CheckOwner(w) PROVE TypeInv'
  <2> DEFINE new == IF records[Current(w).id] = 0 THEN Idle
                    ELSE [workers[w] EXCEPT !.pc = "upsert"]
  <2>1. workers' = [workers EXCEPT ![w] = new]
    BY <1>11 DEF CheckOwner
  <2>2. [workers[w] EXCEPT !.pc = "upsert"] \in WorkerState
    BY <1>0 DEF WorkerState
  <2>3. WorkerOK([workers[w] EXCEPT !.pc = "upsert"])
    BY <1>0, <1>11 DEF CheckOwner, WorkerOK, WorkerState
  <2>4. new \in WorkerState /\ WorkerOK(new)
    BY <2>2, <2>3, IdleType
  <2> HIDE DEF new
  <2> QED BY <1>11, <2>1, <2>4, WorkerStep
          DEF CheckOwner, TypeOK, storeVars, clientVars, pullVars, savedVars
<1>12. ASSUME NEW p \in Pullers, Pull(p) PROVE TypeInv'
  <2>1. \A id \in Ids : records[id] \in Versions
    BY DEF TypeOK
  <2>2. known' \in [Pullers -> [Ids -> Versions]]
    BY <1>12, <2>1 DEF Pull, TypeOK
  <2>3. cursor' \in [Pullers -> Versions]
    BY <1>12, <2>1 DEF Pull, ListSince, TypeOK
  <2> QED BY <1>0, <1>12, <2>2, <2>3 DEF Pull, TypeOK, storeVars, clientVars, savedVars
<1>13. CASE DeleteExpired
  <2>1. idem' \in [Keys -> Seq(Result)]
    BY <1>13 DEF DeleteExpired, TypeOK
  <2> QED BY <1>0, <1>13, <2>1 DEF DeleteExpired, TypeOK, storeVars, clientVars, pullVars, savedVars
<1>14. CASE UNCHANGED vars
  BY <1>0, <1>14 DEF vars, TypeOK, storeVars, clientVars, pullVars, savedVars
<1>15. ASSUME NEW w \in Workers, VaultCreate(w) \/ VaultUpdate(w) \/ VaultDelete(w)
       PROVE  TypeInv'
  <2>1. \A id \in Ids, op \in {"upsert", "delete"}, base \in Versions :
            [id |-> id, op |-> op, base |-> base, held |-> base] \in Item
    BY DEF Item
  <2> QED BY <1>0, <1>10, <1>15, <2>1 DEF VaultCreate, VaultUpdate, VaultDelete
<1>16. ASSUME NEW k \in Keys, NEW i \in DOMAIN requests[k], EditPending(k, i)
       PROVE  TypeInv'
  <2>1. requests[k] \in Seq(Item) /\ requests[k][i] \in Item
    BY DEF TypeOK
  <2> DEFINE new == [requests[k] EXCEPT ![i].base = requests[k][i].held]
  <2>2. new \in Seq(Item)
    <3>1. [requests[k][i] EXCEPT !.base = requests[k][i].held] \in Item
      BY <2>1 DEF Item
    <3> QED BY <2>1, <3>1
  <2>3. requests' = [requests EXCEPT ![k] = new]
    BY <1>16 DEF EditPending
  <2> HIDE DEF new
  <2> QED BY <1>0, <1>16, <2>2, <2>3
          DEF EditPending, TypeOK, storeVars, pullVars, savedVars
<1> QED
  BY <1>1, <1>2, <1>3, <1>4, <1>5, <1>6, <1>7, <1>8, <1>9, <1>11, <1>12, <1>13, <1>14,
     <1>15, <1>16
  DEF Next, Serve

\* In every behaviour every variable keeps its type, and no request runs past its
\* last record.
THEOREM TypeCorrect == Spec => []TypeInv
<1> QED BY TypeInit, TypeNext, PTL DEF Spec

\* The type invariant that the runs check.
THEOREM TypeIsOK == Spec => []TypeOK
<1>1. TypeInv => TypeOK
  BY DEF TypeInv
<1> QED BY <1>1, TypeCorrect, PTL

-------------------------------------------------------------------------------
(* The inductive invariant.                                                *)

\* Version v is not newer than the row of record id, nor than a write of it that is
\* waiting for its commit.
KnownOK(id, v) ==
    /\ v <= seq
    /\ records[id] # 0 => v <= records[id]
    /\ \A w \in Workers :
           workers[w].pc = "commit" /\ Current(w).id = id => v < workers[w].newVersion

\* An entry of push k is an upsert built on what its client has seen: the version it
\* holds is not newer than the base, or was never one of this record.  Once the push
\* has written the record, nothing it is built on is as new.
EntryOK(k, item) ==
    /\ item.op = "upsert"
    /\ KnownOK(item.id, item.base)
    /\ KnownOK(item.id, item.held)
    /\ \/ item.held <= item.base
       \/ item.base = 0 /\ \A c \in commits : c.id = item.id => c.version # item.held
    /\ \A c \in commits :
           c.key = k /\ c.id = item.id => item.base < c.version /\ item.held < c.version

\* An entry of a push that is in service is the entry its client has now, or as it
\* was before the client edited the record.
SameEntry(item, now) ==
    /\ item.id = now.id
    /\ item.held = now.held
    /\ item.base = now.base \/ now.base = now.held

\* The records of a push in service.
PushOK(k, items) ==
    /\ items # <<>>
    /\ Len(items) = Len(requests[k])
    /\ \A i \in DOMAIN items : EntryOK(k, items[i]) /\ SameEntry(items[i], requests[k][i])

\* A batch names a record once; a worker serves a batch that was made under its key.
RequestsOK ==
    /\ \A k \in Keys : \A i, j \in DOMAIN requests[k] :
           requests[k][i].id = requests[k][j].id => i = j
    /\ \A k \in Keys : \A i \in DOMAIN requests[k] : EntryOK(k, requests[k][i])
    /\ \A w \in Workers :
           workers[w].key # NoKey => PushOK(workers[w].key, workers[w].items)

\* Versions only grow, along each record and in the sequence.
VersionsGrow ==
    /\ \A id \in Ids : records[id] <= seq
    /\ \A c \in commits : c.prev < c.version /\ c.version <= records[c.id]

\* A row write was asked for, and compared with the version it replaced.
CommitsOK ==
    \A c \in commits :
        /\ c.op = "upsert" => c.prev \in {0, c.base}
        /\ c.key # NoKey => requests[c.key] # <<>>

\* While an upsert of worker w waits for its commit it owns its row: nobody else
\* writes it, its version is newer than the row's, and no other write carries it.
LockOK(w) ==
    /\ records[Current(w).id] < workers[w].newVersion
    /\ workers[w].newVersion <= seq
    /\ Matches(Current(w))
    /\ \A c \in commits : c.version # workers[w].newVersion
    /\ \A x \in Workers : workers[x].pc = "commit" /\ x # w =>
           /\ Current(x).id # Current(w).id
           /\ workers[x].newVersion # workers[w].newVersion

LocksOK == \A w \in Workers : workers[w].pc = "commit" => LockOK(w)

\* A row that has refused a push is newer than the base it was sent.
RefusalsOK ==
    \A w \in Workers :
        workers[w].pc = "reread" /\ workers[w].key # NoKey =>
            records[Current(w).id] > Current(w).base

\* Result r of entry i of push k is backed: an applied one by a row write of k, a
\* conflict by a version newer than the base and than what the client holds.
ResultOK(k, i, r) ==
    /\ r.status = "applied" =>
           \E c \in commits : c.key = k /\ c.id = r.id /\ c.version = r.version
    /\ r.status = "conflict" =>
           r.version > requests[k][i].base /\ r.version > requests[k][i].held

ResultsOK(k, results) ==
    /\ Len(results) <= Len(requests[k])
    /\ \A i \in DOMAIN results : ResultOK(k, i, results[i])

AnswersOK ==
    /\ \A w \in Workers :
           workers[w].key # NoKey => ResultsOK(workers[w].key, workers[w].results)
    /\ \A k \in Keys : idem[k] # <<>> => ResultsOK(k, idem[k])
    /\ \A a \in answers : requests[a.key] # <<>> /\ ResultsOK(a.key, a.results)

\* A row is the last write of its record, and a row that is to be deleted exists.
RowsOK ==
    /\ \A id \in Ids :
           records[id] # 0 => \E c \in commits : c.id = id /\ c.version = records[id]
    /\ \A w \in Workers :
           /\ workers[w].pc \in {"upsert", "commit"}
           /\ Current(w).op = "delete"
           => records[Current(w).id] # 0

IInv ==
    /\ TypeInv
    /\ RequestsOK
    /\ VersionsGrow
    /\ CommitsOK
    /\ LocksOK
    /\ RefusalsOK
    /\ AnswersOK
    /\ RowsOK
    /\ OneLineOfWrites
    /\ VersionsAreUnique
    /\ AppliedAtMostOnce

\* With nothing stored and nothing submitted the invariant holds.
LEMMA InvInit == Init => IInv
<1> SUFFICES ASSUME Init PROVE IInv
  OBVIOUS
<1>1. TypeInv
  BY TypeInit
<1>2. \A w \in Workers : workers[w] = Idle
  BY DEF Init
<1>3. \A w \in Workers : workers[w].pc = "idle" /\ workers[w].key = NoKey
  BY <1>2, IdleType
<1>4. RequestsOK /\ VersionsGrow /\ CommitsOK /\ LocksOK /\ RefusalsOK /\ AnswersOK /\ RowsOK
  BY <1>3 DEF Init, RequestsOK, VersionsGrow, CommitsOK, LocksOK, RefusalsOK, AnswersOK, RowsOK
<1>5. OneLineOfWrites /\ VersionsAreUnique /\ AppliedAtMostOnce
  BY DEF Init, OneLineOfWrites, VersionsAreUnique, AppliedAtMostOnce
<1> QED BY <1>1, <1>4, <1>5 DEF IInv

\* Versions are numbers, and the entries of a batch are items.
LEMMA Numbers ==
    ASSUME TypeInv
    PROVE  /\ seq \in Nat
           /\ \A id \in Ids : records[id] \in Nat
           /\ \A w \in Workers : workers[w].newVersion \in Nat
           /\ \A k \in Keys : \A i \in DOMAIN requests[k] :
                  /\ requests[k][i] \in Item /\ requests[k][i].id \in Ids
                  /\ requests[k][i].base \in Nat /\ requests[k][i].held \in Nat
           /\ \A w \in Workers : \A i \in DOMAIN workers[w].items :
                  /\ workers[w].items[i] \in Item /\ workers[w].items[i].id \in Ids
                  /\ workers[w].items[i].base \in Nat /\ workers[w].items[i].held \in Nat
           /\ \A c \in commits :
                  /\ c.id \in Ids /\ c.key \in Keys \union {NoKey}
                  /\ c.base \in Nat /\ c.prev \in Nat /\ c.version \in Nat
<1>1. /\ seq \in Nat
      /\ \A id \in Ids : records[id] \in Nat
      /\ \A w \in Workers : workers[w].newVersion \in Nat
  BY BoundsAssumption DEF TypeInv, TypeOK, WorkerState, Versions
<1>2. ASSUME NEW k \in Keys, NEW i \in DOMAIN requests[k]
      PROVE  /\ requests[k][i] \in Item /\ requests[k][i].id \in Ids
             /\ requests[k][i].base \in Nat /\ requests[k][i].held \in Nat
  <2>1. requests[k] \in Seq(Item)
    BY DEF TypeInv, TypeOK
  <2>2. requests[k][i] \in Item
    BY <2>1
  <2> QED BY <2>2, BoundsAssumption DEF Item, Versions
<1>4. ASSUME NEW w \in Workers, NEW i \in DOMAIN workers[w].items
      PROVE  /\ workers[w].items[i] \in Item /\ workers[w].items[i].id \in Ids
             /\ workers[w].items[i].base \in Nat /\ workers[w].items[i].held \in Nat
  <2>1. workers[w].items \in Seq(Item)
    BY DEF TypeInv, TypeOK, WorkerState
  <2>2. workers[w].items[i] \in Item
    BY <2>1
  <2> QED BY <2>2, BoundsAssumption DEF Item, Versions
<1>3. ASSUME NEW c \in commits
      PROVE  /\ c.id \in Ids /\ c.key \in Keys \union {NoKey}
             /\ c.base \in Nat /\ c.prev \in Nat /\ c.version \in Nat
  <2>1. c \in [key: Keys \union {NoKey}, id: Ids, op: {"upsert", "delete"},
               base: Versions, prev: Versions, version: Versions]
    BY DEF TypeInv, TypeOK
  <2> QED BY <2>1, BoundsAssumption DEF Versions
<1> QED BY <1>1, <1>2, <1>3, <1>4

\* What a step that writes no row leaves true of an entry: every lock it takes, it
\* takes with a version drawn afresh.
LEMMA EntryStays ==
    ASSUME IInv, TypeInv', UNCHANGED <<records, commits>>, seq' >= seq,
           \A w \in Workers : workers'[w].pc = "commit" =>
               \/ workers'[w].newVersion > seq
               \/ workers'[w] = workers[w],
           NEW k, NEW item \in Item, EntryOK(k, item)
    PROVE  EntryOK(k, item)'
<1>1. /\ item.id \in Ids /\ item.base \in Nat /\ item.held \in Nat
      /\ seq \in Nat /\ seq' \in Nat
      /\ \A w \in Workers : workers'[w].newVersion \in Nat
  BY Numbers, BoundsAssumption DEF Item, IInv, TypeInv, TypeOK, WorkerState, Versions
<1>2. \A w \in Workers : workers'[w] = workers[w] => Current(w)' = Current(w)
  BY DEF Current
<1>3. ASSUME NEW v \in Nat, KnownOK(item.id, v) PROVE KnownOK(item.id, v)'
  BY <1>1, <1>2, <1>3 DEF KnownOK
<1> QED BY <1>1, <1>3 DEF EntryOK

\* A step that changes no request and keeps every entry sound keeps the requests
\* sound, if the pushes in service are.
LEMMA RequestsStay ==
    ASSUME IInv, TypeInv', UNCHANGED requests,
           \A k : \A item \in Item : EntryOK(k, item) => EntryOK(k, item)',
           \A x \in Workers :
               workers'[x].key # NoKey => PushOK(workers'[x].key, workers'[x].items)
    PROVE  RequestsOK'
<1>1. ASSUME NEW k \in Keys, NEW i \in DOMAIN requests[k]
      PROVE  EntryOK(k, requests[k][i])'
  <2>1. PICK item \in Item : item = requests[k][i] /\ EntryOK(k, item)
    BY Numbers DEF IInv, RequestsOK
  <2>2. EntryOK(k, item)'
    BY <2>1
  <2> QED BY <2>1, <2>2 DEF EntryOK, KnownOK
<1>2. ASSUME NEW x \in Workers, workers'[x].key # NoKey
      PROVE  PushOK(workers[x].key, workers[x].items)'
  <2>1. PICK k, items : k = workers'[x].key /\ items = workers'[x].items
    OBVIOUS
  <2>2. PushOK(k, items) /\ \A i \in DOMAIN items : items[i] \in Item
    BY <1>2, <2>1 DEF TypeInv, TypeOK, WorkerState
  <2>3. \A i \in DOMAIN items : EntryOK(k, items[i])'
    <3>1. ASSUME NEW i \in DOMAIN items PROVE EntryOK(k, items[i])'
      <4>1. PICK item \in Item : item = items[i] /\ EntryOK(k, item)
        BY <2>2 DEF PushOK
      <4>2. EntryOK(k, item)'
        BY <4>1
      <4> QED BY <4>1, <4>2
    <3> QED BY <3>1
  <2>4. PushOK(k, items)'
    BY <2>2, <2>3 DEF PushOK
  <2> QED BY <2>1, <2>4 DEF PushOK, EntryOK, KnownOK
<1> QED BY <1>1, <1>2 DEF IInv, RequestsOK

\* The record a worker in state s is at.
At(s) == s.items[Len(s.results) + 1]

\* A worker's step that writes no row and takes no row lock: it is enough to look
\* at the state it goes to and at the results it records or hands out.
LEMMA QuietStep ==
    ASSUME IInv, TypeInv', NEW w \in Workers, NEW new,
           workers' = [workers EXCEPT ![w] = new],
           UNCHANGED <<records, commits, requests>>,
           seq' >= seq,
           new.pc # "commit",
           new.key # NoKey =>
               PushOK(new.key, new.items) /\ ResultsOK(new.key, new.results),
           new.pc = "reread" /\ new.key # NoKey => records[At(new).id] > At(new).base,
           new.pc = "upsert" /\ At(new).op = "delete" => records[At(new).id] # 0,
           \A k \in Keys : idem'[k] # <<>> => ResultsOK(k, idem'[k]),
           \A a \in answers' : requests[a.key] # <<>> /\ ResultsOK(a.key, a.results)
    PROVE  IInv'
<1>1. /\ workers'[w] = new
      /\ \A x \in Workers : x # w => workers'[x] = workers[x]
  BY DEF IInv, TypeInv, TypeOK
<1>2. /\ Current(w)' = At(new)
      /\ \A x \in Workers : x # w => Current(x)' = Current(x)
  BY <1>1 DEF Current, At
<1>3. seq \in Nat /\ seq' \in Nat /\ \A id \in Ids : records[id] \in Nat
  BY BoundsAssumption DEF IInv, TypeInv, TypeOK, Versions
<1>4. ASSUME NEW k, NEW item \in Item, EntryOK(k, item) PROVE EntryOK(k, item)'
  BY <1>1, <1>4, EntryStays
<1>5. RequestsOK'
  <2>1. \A x \in Workers :
            workers'[x].key # NoKey => PushOK(workers'[x].key, workers'[x].items)
    BY <1>1 DEF IInv, RequestsOK
  <2> QED BY <1>4, <2>1, RequestsStay
<1>6. VersionsGrow'
  BY <1>3 DEF IInv, VersionsGrow
<1>7. CommitsOK'
  BY DEF IInv, CommitsOK
<1>8. LocksOK'
  <2>1. \A x \in Workers : workers'[x].pc = "commit" =>
            /\ x # w
            /\ workers[x].pc = "commit"
            /\ workers'[x] = workers[x]
            /\ Current(x)' = Current(x)
    BY <1>1, <1>2
  <2>2. ASSUME NEW x \in Workers, workers'[x].pc = "commit" PROVE LockOK(x)'
    <3>1. LockOK(x)
      BY <2>1, <2>2 DEF IInv, LocksOK
    <3>2. workers[x].newVersion \in Nat
      BY BoundsAssumption DEF IInv, TypeInv, TypeOK, WorkerState, Versions
    <3>3. Matches(Current(x))'
      BY <2>1, <2>2, <3>1 DEF LockOK, Matches
    <3>4. \A y \in Workers : workers'[y].pc = "commit" /\ y # x =>
               /\ Current(y)'.id # Current(x)'.id
               /\ workers'[y].newVersion # workers'[x].newVersion
      BY <2>1, <2>2, <3>1 DEF LockOK
    <3>5. workers'[x].newVersion <= seq'
      BY <1>3, <2>1, <2>2, <3>1, <3>2 DEF LockOK
    <3>6. /\ records'[Current(x)'.id] < workers'[x].newVersion
          /\ \A c \in commits' : c.version # workers'[x].newVersion
      BY <2>1, <2>2, <3>1 DEF LockOK
    <3> QED BY <3>3, <3>4, <3>5, <3>6 DEF LockOK
  <2> QED BY <2>2 DEF LocksOK
<1>9. RefusalsOK'
  BY <1>1, <1>2 DEF IInv, RefusalsOK
<1>10. AnswersOK'
  BY <1>1 DEF IInv, AnswersOK, ResultsOK, ResultOK
<1>11. RowsOK'
  BY <1>1, <1>2 DEF IInv, RowsOK
<1>12. OneLineOfWrites' /\ VersionsAreUnique' /\ AppliedAtMostOnce'
  BY DEF IInv, OneLineOfWrites, VersionsAreUnique, AppliedAtMostOnce
<1> QED BY <1>5, <1>6, <1>7, <1>8, <1>9, <1>10, <1>11, <1>12 DEF IInv

\* The record a push is at is an entry of its batch, an upsert.
LEMMA PushEntry ==
    ASSUME IInv, NEW w \in Workers, workers[w].key # NoKey,
           NEW n \in Nat, n < Len(workers[w].items)
    PROVE  /\ workers[w].key \in Keys
           /\ n + 1 \in DOMAIN requests[workers[w].key]
           /\ n + 1 \in DOMAIN workers[w].items
           /\ SameEntry(workers[w].items[n + 1], requests[workers[w].key][n + 1])
           /\ EntryOK(workers[w].key, workers[w].items[n + 1])
           /\ workers[w].items[n + 1].op = "upsert"
<1>1. /\ workers[w].key \in Keys /\ workers[w].items \in Seq(Item)
      /\ requests[workers[w].key] \in Seq(Item)
  BY DEF IInv, TypeInv, TypeOK, WorkerState
<1>2. PushOK(workers[w].key, workers[w].items)
  BY DEF IInv, RequestsOK
<1>3. n + 1 \in DOMAIN workers[w].items /\ n + 1 \in DOMAIN requests[workers[w].key]
  BY <1>1, <1>2 DEF PushOK
<1> QED BY <1>1, <1>2, <1>3 DEF PushOK, EntryOK

\* After a record a push has one result more; if it goes on, it is at an upsert.
LEMMA PushAdvance ==
    ASSUME IInv, NEW w \in Workers, NEW result \in Result,
           workers[w].pc \in {"commit", "reread"}, workers[w].key # NoKey,
           NEW new, new = Advance(w, result)
    PROVE  /\ new.key = workers[w].key
           /\ PushOK(new.key, new.items)
           /\ Len(new.results) <= Len(requests[new.key])
           /\ \A i \in DOMAIN new.results :
                  \/ i \in DOMAIN workers[w].results /\ new.results[i] = workers[w].results[i]
                  \/ i = Len(workers[w].results) + 1 /\ new.results[i] = result
           /\ new.pc = "upsert" => At(new).op = "upsert"
<1>1. /\ workers[w] \in WorkerState
      /\ workers[w].results \in Seq(Result)
      /\ workers[w].items \in Seq(Item)
      /\ Len(workers[w].results) \in Nat
      /\ Len(workers[w].items) \in Nat
      /\ Len(workers[w].results) < Len(workers[w].items)
  BY DEF IInv, TypeInv, TypeOK, WorkerOK, WorkerState
<1>2. /\ new.key = workers[w].key
      /\ new.items = workers[w].items
      /\ new.results = Append(workers[w].results, result)
      /\ new.pc = "upsert" => Len(workers[w].results) + 1 # Len(workers[w].items)
  BY <1>1 DEF Advance, WorkerState
<1>3. /\ PushOK(workers[w].key, workers[w].items)
      /\ Len(workers[w].items) = Len(requests[workers[w].key])
  BY DEF IInv, RequestsOK, PushOK
<1>4. /\ Len(new.results) = Len(workers[w].results) + 1
      /\ \A i \in DOMAIN new.results :
             \/ i \in DOMAIN workers[w].results /\ new.results[i] = workers[w].results[i]
             \/ i = Len(workers[w].results) + 1 /\ new.results[i] = result
  BY <1>1, <1>2
<1>5. ASSUME new.pc = "upsert" PROVE At(new).op = "upsert"
  <2>1. Len(new.results) \in Nat /\ Len(new.results) < Len(workers[w].items)
    BY <1>1, <1>2, <1>4, <1>5
  <2> QED BY <1>2, <2>1, PushEntry DEF At
<1> QED BY <1>1, <1>2, <1>3, <1>4, <1>5

-------------------------------------------------------------------------------
(* Every action preserves the invariant: first those that write no row.    *)

\* Neither a pull nor the cleanup nor a stuttering step touches what it is about.
LEMMA InvOther ==
    ASSUME IInv, TypeInv', UNCHANGED <<records, seq, commits, requests, workers, answers>>,
           \A k \in Keys : idem'[k] \in {<<>>, idem[k]}
    PROVE  IInv'
<1>1. VersionsGrow' /\ CommitsOK'
  BY DEF IInv, VersionsGrow, CommitsOK
<1>2. \A w \in Workers : Current(w)' = Current(w)
  BY DEF Current
<1>6. RequestsOK'
  BY <1>2 DEF IInv, RequestsOK, PushOK, EntryOK, KnownOK
<1>3. LocksOK' /\ RefusalsOK' /\ RowsOK'
  BY <1>2 DEF IInv, LocksOK, LockOK, Matches, RefusalsOK, RowsOK
<1>4. AnswersOK'
  BY DEF IInv, AnswersOK, ResultsOK, ResultOK
<1>5. OneLineOfWrites' /\ VersionsAreUnique' /\ AppliedAtMostOnce'
  BY DEF IInv, OneLineOfWrites, VersionsAreUnique, AppliedAtMostOnce
<1> QED BY <1>1, <1>3, <1>4, <1>5, <1>6 DEF IInv

\* A request reaches the server with the batch made under its key.
LEMMA InvDeliver ==
    ASSUME IInv, TypeInv', NEW w \in Workers, NEW k \in Keys, Deliver(w, k)
    PROVE  IInv'
<1> DEFINE new == [Idle EXCEPT !.pc = "check", !.key = k, !.items = requests[k]]
<1>1. /\ requests[k] # <<>> /\ requests[k] \in Seq(Item)
      /\ workers' = [workers EXCEPT ![w] = new]
  BY DEF Deliver, IInv, TypeInv, TypeOK
<1>2. new.pc = "check" /\ new.key = k /\ new.items = requests[k] /\ new.results = <<>>
  BY IdleType DEF WorkerState
<1> HIDE DEF new
<1>3. ResultsOK(k, <<>>)
  BY <1>1 DEF ResultsOK
<1>4. UNCHANGED <<records, commits, requests>> /\ seq' >= seq
  <2>1. TypeInv
    BY DEF IInv
  <2> QED BY <2>1, Numbers DEF Deliver, storeVars
<1>5. /\ \A j \in Keys : idem'[j] # <<>> => ResultsOK(j, idem'[j])
      /\ \A a \in answers' : requests[a.key] # <<>> /\ ResultsOK(a.key, a.results)
  BY DEF Deliver, IInv, AnswersOK, savedVars
<1>6. PushOK(k, requests[k])
  BY <1>1 DEF IInv, RequestsOK, PushOK, SameEntry
<1> QED BY <1>1, <1>2, <1>3, <1>4, <1>5, <1>6, QuietStep

\* A saved result is answered as it is; without one the push starts.
LEMMA InvCheckIdempotency ==
    ASSUME IInv, TypeInv', NEW w \in Workers, CheckIdempotency(w)
    PROVE  IInv'
<1> DEFINE new == IF idem[workers[w].key] # <<>>
                  THEN [workers[w] EXCEPT !.pc = "reply", !.results = idem[workers[w].key]]
                  ELSE [workers[w] EXCEPT !.pc = "upsert"]
<1>1. workers' = [workers EXCEPT ![w] = new]
  BY DEF CheckIdempotency
<1>2. /\ workers[w] \in WorkerState
      /\ workers[w].key # NoKey
      /\ workers[w].key \in Keys
      /\ workers[w].results = <<>>
      /\ workers[w].items # <<>>
      /\ workers[w].items \in Seq(Item)
  BY DEF CheckIdempotency, IInv, TypeInv, TypeOK, WorkerOK, WorkerState
<1>3. /\ new.key = workers[w].key
      /\ new.items = workers[w].items
      /\ \/ new.pc = "reply" /\ new.results = idem[workers[w].key] /\ idem[workers[w].key] # <<>>
         \/ new.pc = "upsert" /\ new.results = <<>>
  BY <1>2 DEF WorkerState
<1> HIDE DEF new
<1>4. AnswersOK /\ PushOK(workers[w].key, workers[w].items)
  BY <1>2 DEF IInv, RequestsOK
<1>5. PushOK(new.key, new.items) /\ ResultsOK(new.key, new.results)
  BY <1>2, <1>3, <1>4 DEF AnswersOK
<1>6. new.pc = "upsert" => At(new).op = "upsert"
  <2>1. 0 < Len(workers[w].items)
    BY <1>2
  <2> QED BY <1>2, <1>3, <2>1, PushEntry DEF At
<1>7. UNCHANGED <<records, commits, requests>> /\ seq' >= seq
  <2>1. TypeInv
    BY DEF IInv
  <2> QED BY <2>1, Numbers DEF CheckIdempotency, storeVars, clientVars
<1>8. /\ \A j \in Keys : idem'[j] # <<>> => ResultsOK(j, idem'[j])
      /\ \A a \in answers' : requests[a.key] # <<>> /\ ResultsOK(a.key, a.results)
  BY <1>4 DEF CheckIdempotency, AnswersOK, savedVars
<1> QED BY <1>1, <1>2, <1>3, <1>4, <1>5, <1>6, <1>7, <1>8, QuietStep

\* The conflict shows the row as it is now, which can only be newer.
LEMMA InvReread ==
    ASSUME IInv, TypeInv', NEW w \in Workers, Reread(w)
    PROVE  IInv'
<1> DEFINE result == [id |-> Current(w).id, status |-> "conflict",
                      version |-> records[Current(w).id]]
           new == Advance(w, result)
<1>1. /\ workers' = [workers EXCEPT ![w] = new]
      /\ workers[w].pc = "reread"
  BY DEF Reread
<1>2. result \in Result
  BY <1>1, CurrentIsItem DEF IInv, TypeInv, TypeOK, Result, Item
<1>3. new.pc \in {"idle", "save", "upsert"}
  BY <1>1, <1>2, AdvanceType DEF IInv
<1>4. UNCHANGED <<records, commits, requests>> /\ seq' >= seq
  <2>1. TypeInv
    BY DEF IInv
  <2> QED BY <2>1, Numbers DEF Reread, storeVars, clientVars
<1>5. /\ \A j \in Keys : idem'[j] # <<>> => ResultsOK(j, idem'[j])
      /\ \A a \in answers' : requests[a.key] # <<>> /\ ResultsOK(a.key, a.results)
  BY DEF Reread, IInv, AnswersOK, savedVars
<1>6. CASE workers[w].key = NoKey
  <2>1. new = Idle
    BY <1>6 DEF Advance
  <2> HIDE DEF new
  <2>2. new.key = NoKey /\ new.pc = "idle"
    BY <2>1, IdleType
  <2> QED BY <1>1, <1>4, <1>5, <2>2, QuietStep
<1>7. CASE workers[w].key # NoKey
  <2>1. result.status = "conflict" /\ result.version = records[Current(w).id]
    OBVIOUS
  <2>2. records[Current(w).id] > Current(w).base
    BY <1>1, <1>7 DEF IInv, RefusalsOK
  <2>3. ResultOK(workers[w].key, Len(workers[w].results) + 1, result)
    <3>1. Len(workers[w].results) \in Nat /\ Len(workers[w].results) < Len(workers[w].items)
      BY <1>1 DEF IInv, TypeInv, TypeOK, WorkerOK, WorkerState
    <3> DEFINE n == Len(workers[w].results)
               now == requests[workers[w].key][n + 1]
               item == Current(w)
    <3>2. /\ workers[w].key \in Keys /\ n + 1 \in DOMAIN requests[workers[w].key]
          /\ item = workers[w].items[n + 1]
          /\ SameEntry(item, now)
          /\ EntryOK(workers[w].key, item)
      BY <1>7, <3>1, PushEntry DEF Current
    <3>3. /\ item.id \in Ids /\ item.base \in Nat /\ item.held \in Nat
          /\ now.base \in Nat /\ now.held \in Nat
          /\ records[item.id] \in Nat
      BY <1>1, <3>2, CurrentIsItem, Numbers, BoundsAssumption DEF IInv, Item, Versions
    <3>4. records[item.id] # item.held \/ item.held <= item.base
      <4>1. records[item.id] # 0
        BY <2>2, <3>3
      <4>2. PICK c \in commits : c.id = item.id /\ c.version = records[item.id]
        BY <3>3, <4>1 DEF IInv, RowsOK
      <4> QED BY <3>2, <4>2 DEF EntryOK
    <3>5. records[item.id] > item.held
      <4>1. records[item.id] # 0 => item.held <= records[item.id]
        BY <3>2 DEF EntryOK, KnownOK
      <4> QED BY <2>2, <3>3, <3>4, <4>1
    <3> HIDE DEF now, item
    <3>6. records[item.id] > now.base /\ records[item.id] > now.held
      BY <2>2, <3>2, <3>3, <3>5 DEF SameEntry, item
    <3> QED BY <2>1, <3>6 DEF ResultOK, item, now
  <2> HIDE DEF new, result
  <2>5. ResultsOK(workers[w].key, workers[w].results)
    BY <1>7 DEF IInv, AnswersOK
  <2>6. /\ new.key = workers[w].key
        /\ PushOK(new.key, new.items)
        /\ Len(new.results) <= Len(requests[new.key])
        /\ \A i \in DOMAIN new.results :
               \/ i \in DOMAIN workers[w].results /\ new.results[i] = workers[w].results[i]
               \/ i = Len(workers[w].results) + 1 /\ new.results[i] = result
        /\ new.pc = "upsert" => At(new).op = "upsert"
    BY <1>1, <1>2, <1>7, PushAdvance DEF new
  <2>7. ResultsOK(new.key, new.results)
    BY <2>3, <2>5, <2>6 DEF ResultsOK
  <2> QED BY <1>1, <1>3, <1>4, <1>5, <2>6, <2>7, QuietStep
<1> QED BY <1>6, <1>7

\* An upsert that finds another version only consumes a value of the sequence.
LEMMA InvRefused ==
    ASSUME IInv, TypeInv', NEW w \in Workers, Upsert(w), ~Matches(Current(w))
    PROVE  IInv'
<1> DEFINE new == [workers[w] EXCEPT !.pc = "reread"]
<1>1. workers' = [workers EXCEPT ![w] = new] /\ workers[w].pc = "upsert"
  BY DEF Upsert
<1>2. workers[w] \in WorkerState
  BY DEF IInv, TypeInv, TypeOK
<1>3. /\ new.pc = "reread" /\ new.key = workers[w].key
      /\ new.items = workers[w].items /\ new.results = workers[w].results
  BY <1>2 DEF WorkerState
<1> HIDE DEF new
<1>4. UNCHANGED <<records, commits, requests>> /\ seq' >= seq
  <2>1. TypeInv
    BY DEF IInv
  <2>2. Draws(Current(w)) \in Nat
    BY DEF Draws
  <2> QED BY <2>1, <2>2, Numbers DEF Upsert, clientVars
<1>5. /\ \A j \in Keys : idem'[j] # <<>> => ResultsOK(j, idem'[j])
      /\ \A a \in answers' : requests[a.key] # <<>> /\ ResultsOK(a.key, a.results)
  BY DEF Upsert, IInv, AnswersOK, savedVars
<1>6. new.key # NoKey => PushOK(new.key, new.items) /\ ResultsOK(new.key, new.results)
  BY <1>3 DEF IInv, RequestsOK, AnswersOK
<1>7. ASSUME new.key # NoKey PROVE records[At(new).id] > At(new).base
  <2>1. /\ Len(workers[w].results) \in Nat
        /\ Len(workers[w].results) < Len(workers[w].items)
    BY <1>1 DEF IInv, TypeInv, TypeOK, WorkerOK, WorkerState
  <2> DEFINE item == Current(w)
  <2>2. At(new) = item /\ item.op = "upsert" /\ EntryOK(workers[w].key, item)
    BY <1>3, <1>7, <2>1, PushEntry DEF At, Current
  <2>3. item.id \in Ids /\ item.base \in Nat /\ records[item.id] \in Nat
    BY <1>1, CurrentIsItem, Numbers, BoundsAssumption DEF IInv, Item, Versions
  <2>4. records[item.id] \notin {0, item.base}
    BY <2>2 DEF Matches
  <2>5. records[item.id] # 0 => item.base <= records[item.id]
    BY <2>2 DEF EntryOK, KnownOK
  <2> HIDE DEF item
  <2> QED BY <2>2, <2>3, <2>4, <2>5
<1> QED BY <1>1, <1>3, <1>4, <1>5, <1>6, <1>7, QuietStep

\* What is saved is what the worker computed.
LEMMA InvSaveResult ==
    ASSUME IInv, TypeInv', NEW w \in Workers, SaveResult(w)
    PROVE  IInv'
<1> DEFINE new == [workers[w] EXCEPT !.pc = "reply"]
<1>1. /\ workers[w] \in WorkerState
      /\ workers[w].key # NoKey /\ workers[w].key \in Keys
  BY DEF SaveResult, IInv, TypeInv, TypeOK, WorkerOK, WorkerState
<1>2. workers' = [workers EXCEPT ![w] = new]
  BY DEF SaveResult
<1>3. /\ new.pc = "reply" /\ new.key = workers[w].key
      /\ new.items = workers[w].items /\ new.results = workers[w].results
  BY <1>1 DEF WorkerState
<1> HIDE DEF new
<1>4. UNCHANGED <<records, commits, requests>> /\ seq' >= seq
  <2>1. TypeInv
    BY DEF IInv
  <2> QED BY <2>1, Numbers DEF SaveResult, storeVars, clientVars
<1>5. new.key # NoKey => PushOK(new.key, new.items) /\ ResultsOK(new.key, new.results)
  BY <1>3 DEF IInv, RequestsOK, AnswersOK
<1>6. /\ \A j \in Keys : idem'[j] # <<>> => ResultsOK(j, idem'[j])
      /\ \A a \in answers' : requests[a.key] # <<>> /\ ResultsOK(a.key, a.results)
  BY <1>1, <1>3, <1>5 DEF SaveResult, IInv, TypeInv, TypeOK, AnswersOK
<1> QED BY <1>2, <1>3, <1>4, <1>5, <1>6, QuietStep

\* A request that ends, answered or not.
LEMMA InvReply ==
    ASSUME IInv, TypeInv', NEW w \in Workers, Reply(w) \/ Abort(w)
    PROVE  IInv'
<1> DEFINE new == Idle
<1>1. workers' = [workers EXCEPT ![w] = new]
  BY DEF Reply, Abort
<1>2. new.pc = "idle" /\ new.key = NoKey
  BY IdleType
<1> HIDE DEF new
<1>3. UNCHANGED <<records, commits, requests>> /\ seq' >= seq
  <2>1. TypeInv
    BY DEF IInv
  <2> QED BY <2>1, Numbers DEF Reply, Abort, storeVars, clientVars
<1>4. AnswersOK /\ RequestsOK
  BY DEF IInv
<1>5. \A j \in Keys : idem'[j] # <<>> => ResultsOK(j, idem'[j])
  BY <1>4 DEF Reply, Abort, AnswersOK, savedVars
<1>6. \A a \in answers' : requests[a.key] # <<>> /\ ResultsOK(a.key, a.results)
  <2>1. CASE Abort(w)
    BY <1>4, <2>1 DEF Abort, AnswersOK
  <2>2. CASE Reply(w)
    <3>1. workers[w].key # NoKey
      BY <2>2 DEF Reply, IInv, TypeInv, WorkerOK
    <3>2. /\ PushOK(workers[w].key, workers[w].items)
          /\ ResultsOK(workers[w].key, workers[w].results)
          /\ workers[w].key \in Keys
      BY <1>4, <3>1 DEF RequestsOK, AnswersOK, IInv, TypeInv, TypeOK, WorkerState
    <3>3. requests[workers[w].key] # <<>>
      BY <3>2, Numbers DEF PushOK, IInv, TypeInv, TypeOK, WorkerState
    <3> QED BY <1>4, <2>2, <3>2, <3>3 DEF Reply, AnswersOK
  <2> QED BY <2>1, <2>2
<1> QED BY <1>1, <1>2, <1>3, <1>5, <1>6, QuietStep

\* A REST write starts; only a create goes straight to the upsert.
LEMMA InvStartRest ==
    ASSUME IInv, TypeInv', NEW w \in Workers,
           VaultCreate(w) \/ VaultUpdate(w) \/ VaultDelete(w)
    PROVE  IInv'
<1>1. PICK item \in Item, pc \in {"owner", "upsert"} :
          /\ pc = "upsert" => item.op = "upsert"
          /\ StartRest(w, pc, item)
  <2>1. \A id \in Ids, op \in {"upsert", "delete"}, base \in Versions :
            [id |-> id, op |-> op, base |-> base, held |-> base] \in Item
    BY DEF Item
  <2>2. 0 \in Versions
    BY BoundsAssumption DEF Versions
  <2> QED BY <2>1, <2>2 DEF VaultCreate, VaultUpdate, VaultDelete
<1> DEFINE items == <<item>>
           new == [Idle EXCEPT !.pc = pc, !.items = items]
<1>2. workers' = [workers EXCEPT ![w] = new]
  BY <1>1 DEF StartRest
<1>3. items \in Seq(Item) /\ items[1] = item
  OBVIOUS
<1> HIDE DEF items
<1>4. new.pc = pc /\ new.key = NoKey /\ new.items = items /\ new.results = <<>>
  BY <1>3, IdleType DEF WorkerState
<1> HIDE DEF new
<1>5. new.pc = "upsert" => At(new).op = "upsert"
  BY <1>1, <1>3, <1>4 DEF At
<1>6. UNCHANGED <<records, commits, requests>> /\ seq' >= seq
  <2>1. TypeInv
    BY DEF IInv
  <2> QED BY <1>1, <2>1, Numbers DEF StartRest, storeVars
<1>7. /\ \A j \in Keys : idem'[j] # <<>> => ResultsOK(j, idem'[j])
      /\ \A a \in answers' : requests[a.key] # <<>> /\ ResultsOK(a.key, a.results)
  BY <1>1 DEF StartRest, IInv, AnswersOK, savedVars
<1> QED BY <1>2, <1>4, <1>5, <1>6, <1>7, QuietStep

\* Only a row that exists is written by a REST update or delete.
LEMMA InvCheckOwner ==
    ASSUME IInv, TypeInv', NEW w \in Workers, CheckOwner(w)
    PROVE  IInv'
<1> DEFINE new == IF records[Current(w).id] = 0 THEN Idle
                  ELSE [workers[w] EXCEPT !.pc = "upsert"]
<1>1. workers' = [workers EXCEPT ![w] = new]
  BY DEF CheckOwner
<1>2. workers[w] \in WorkerState
  BY DEF IInv, TypeInv, TypeOK
<1>3. \/ new = Idle
      \/ /\ new.pc = "upsert" /\ new.key = workers[w].key
         /\ new.items = workers[w].items /\ new.results = workers[w].results
         /\ records[Current(w).id] # 0
  BY <1>2 DEF WorkerState
<1> HIDE DEF new
<1>4. UNCHANGED <<records, commits, requests>> /\ seq' >= seq
  <2>1. TypeInv
    BY DEF IInv
  <2> QED BY <2>1, Numbers DEF CheckOwner, storeVars, clientVars
<1>5. new.key # NoKey => PushOK(new.key, new.items) /\ ResultsOK(new.key, new.results)
  BY <1>3, IdleType DEF IInv, RequestsOK, AnswersOK
<1>6. new.pc \in {"idle", "upsert"}
  BY <1>3, IdleType
<1>7. new.pc = "upsert" => records[At(new).id] # 0
  BY <1>3, IdleType DEF At, Current
<1>8. /\ \A j \in Keys : idem'[j] # <<>> => ResultsOK(j, idem'[j])
      /\ \A a \in answers' : requests[a.key] # <<>> /\ ResultsOK(a.key, a.results)
  BY DEF CheckOwner, IInv, AnswersOK, savedVars
<1> QED BY <1>1, <1>4, <1>5, <1>6, <1>7, <1>8, QuietStep

-------------------------------------------------------------------------------
(* The steps the invariant is about: a batch is made, a row is locked, a   *)
(* row is written.                                                         *)

\* What a client can hold of a record is not newer than the record.
LEMMA SeenIsKnown ==
    ASSUME IInv, NEW id \in Ids, NEW v \in Versions, Seen(id, v)
    PROVE  KnownOK(id, v)
<1>1. v \in Nat /\ records[id] \in Nat /\ seq \in Nat
  BY Numbers, BoundsAssumption DEF IInv, Versions
<1>2. \A w \in Workers : workers[w].pc = "commit" /\ Current(w).id = id =>
          /\ workers[w].newVersion \in Nat
          /\ records[id] < workers[w].newVersion
  BY Numbers DEF IInv, LocksOK, LockOK
<1>3. CASE v = 0
  BY <1>1, <1>2, <1>3 DEF KnownOK
<1>4. ASSUME NEW c \in commits, c.version = v, c.id = id \/ Unused(id)
      PROVE  KnownOK(id, v)
  <2>1. c.version <= records[c.id] /\ records[c.id] <= seq /\ records[c.id] \in Nat
    BY Numbers DEF IInv, VersionsGrow
  <2>2. v <= seq
    BY <1>1, <1>4, <2>1
  <2>3. CASE c.id = id
    BY <1>1, <1>2, <1>4, <2>1, <2>2, <2>3 DEF KnownOK
  <2>4. CASE Unused(id)
    <3>1. records[id] = 0
      BY <2>4 DEF Unused
    <3>2. \A w \in Workers : workers[w].pc = "commit" => Current(w).id # id
      BY <2>4, CurrentIsItem DEF IInv, Unused, Current
    <3> QED BY <2>2, <3>1, <3>2 DEF KnownOK
  <2> QED BY <1>4, <2>3, <2>4
<1>5. ASSUME NEW k \in Keys, NEW i \in DOMAIN requests[k], requests[k][i].id = id,
             v \in {requests[k][i].base, requests[k][i].held}
      PROVE  KnownOK(id, v)
  BY <1>5 DEF IInv, RequestsOK, EntryOK
<1> QED BY <1>3, <1>4, <1>5 DEF Seen

\* A change of a request that leaves every entry sound, and the push in service as
\* its client knows it, keeps the invariant.
LEMMA InvRequests ==
    ASSUME IInv, TypeInv', NEW k \in Keys,
           UNCHANGED <<records, seq, commits, idem, workers, answers>>,
           \A j \in Keys : j # k => requests'[j] = requests[j],
           \A i, j \in DOMAIN requests'[k] : requests'[k][i].id = requests'[k][j].id => i = j,
           \A i \in DOMAIN requests'[k] : EntryOK(k, requests'[k][i]),
           \A w \in Workers : workers[w].key = k => PushOK(k, workers[w].items)',
           \A c \in commits : c.key = k => requests'[k] # <<>>,
           requests[k] # <<>> =>
               /\ requests'[k] # <<>>
               /\ \A results : ResultsOK(k, results) => ResultsOK(k, results)'
    PROVE  IInv'
<1>1. \A w \in Workers : Current(w)' = Current(w)
  BY DEF Current
<1>2. \A id, v : KnownOK(id, v)' <=> KnownOK(id, v)
  BY <1>1 DEF KnownOK
<1>3. \A j, item : EntryOK(j, item)' <=> EntryOK(j, item)
  BY <1>2 DEF EntryOK
<1>4. RequestsOK'
  <2>1. ASSUME NEW w \in Workers, workers[w].key # NoKey
        PROVE  PushOK(workers[w].key, workers[w].items)'
    <3>1. CASE workers[w].key = k
      BY <3>1 DEF PushOK, EntryOK, KnownOK
    <3>2. CASE workers[w].key # k
      <4>1. workers[w].key \in Keys /\ PushOK(workers[w].key, workers[w].items)
        BY <2>1 DEF IInv, TypeInv, TypeOK, WorkerState, RequestsOK
      <4> QED BY <1>3, <3>2, <4>1 DEF PushOK
    <3> QED BY <3>1, <3>2
  <2>2. \A j \in Keys : \A i \in DOMAIN requests'[j] : EntryOK(j, requests'[j][i])
    BY DEF IInv, RequestsOK
  <2>3. \A j \in Keys : \A i \in DOMAIN requests'[j] : EntryOK(j, requests[j][i])'
    BY <2>2, <1>1 DEF EntryOK, KnownOK
  <2> QED BY <2>1, <2>3 DEF IInv, RequestsOK
<1>5. VersionsGrow' /\ CommitsOK'
  BY Numbers DEF IInv, VersionsGrow, CommitsOK
<1>6. LocksOK' /\ RefusalsOK' /\ RowsOK'
  BY <1>1 DEF IInv, LocksOK, LockOK, Matches, RefusalsOK, RowsOK
<1>7. AnswersOK'
  <2>1. \A j \in Keys : requests[j] # <<>> =>
            /\ requests'[j] # <<>>
            /\ \A results : ResultsOK(j, results) => ResultsOK(j, results)'
    <3>1. ASSUME NEW j \in Keys, j # k, NEW results, ResultsOK(j, results)
          PROVE  ResultsOK(j, results)'
      BY <3>1 DEF ResultsOK, ResultOK
    <3> QED BY <3>1
  <2>2. ASSUME NEW w \in Workers, workers[w].key # NoKey
        PROVE  ResultsOK(workers[w].key, workers[w].results)'
    <3>1. PICK j, results : j = workers[w].key /\ results = workers[w].results
      OBVIOUS
    <3>2. j \in Keys /\ ResultsOK(j, results) /\ PushOK(j, workers[w].items)
      BY <2>2, <3>1 DEF IInv, TypeInv, TypeOK, WorkerState, AnswersOK, RequestsOK
    <3>3. requests[j] # <<>>
      BY <3>2 DEF PushOK, IInv, TypeInv, TypeOK, WorkerState
    <3>4. ResultsOK(j, results)'
      BY <2>1, <3>2, <3>3
    <3> QED BY <3>1, <3>4 DEF ResultsOK, ResultOK
  <2>3. ASSUME NEW j \in Keys, idem[j] # <<>> PROVE ResultsOK(j, idem[j])'
    <3>1. PICK results : results = idem[j]
      OBVIOUS
    <3>2. ResultsOK(j, results) /\ results \in Seq(Result) /\ requests[j] \in Seq(Item)
      BY <2>3, <3>1 DEF IInv, TypeInv, TypeOK, AnswersOK
    <3>3. requests[j] # <<>>
      BY <2>3, <3>1, <3>2 DEF ResultsOK
    <3>4. ResultsOK(j, results)'
      BY <2>1, <3>2, <3>3
    <3> QED BY <3>1, <3>4 DEF ResultsOK, ResultOK
  <2>4. ASSUME NEW a \in answers
        PROVE  requests'[a.key] # <<>> /\ ResultsOK(a.key, a.results)'
    <3>1. a.key \in Keys /\ requests[a.key] # <<>> /\ ResultsOK(a.key, a.results)
      BY DEF IInv, TypeInv, TypeOK, AnswersOK
    <3> QED BY <2>1, <3>1
  <2> QED BY <2>2, <2>3, <2>4 DEF AnswersOK
<1>8. OneLineOfWrites' /\ VersionsAreUnique' /\ AppliedAtMostOnce'
  BY DEF IInv, OneLineOfWrites, VersionsAreUnique, AppliedAtMostOnce
<1> QED BY <1>4, <1>5, <1>6, <1>7, <1>8 DEF IInv

\* A new batch is built on versions its client can know, under a key nobody used.
LEMMA InvSubmit ==
    ASSUME IInv, TypeInv', NEW k \in Keys, Submit(k)
    PROVE  IInv'
<1>1. PICK batch \in Batches : requests' = [requests EXCEPT ![k] = batch]
  BY DEF Submit
<1>2. /\ requests[k] = <<>>
      /\ UNCHANGED <<records, seq, commits, idem, workers, answers>>
  BY DEF Submit, storeVars, savedVars
<1>3. /\ requests'[k] = batch
      /\ \A j \in Keys : j # k => requests'[j] = requests[j]
  BY <1>1 DEF IInv, TypeInv, TypeOK
<1>4. /\ \A i, j \in DOMAIN batch : batch[i].id = batch[j].id => i = j
      /\ \A i \in DOMAIN batch : \E id \in Ids : batch[i] \in Dirty(id)
  BY DEF Batches
<1>5. \A c \in commits : c.key # k
  BY <1>2, NoKeyAssumption DEF IInv, CommitsOK
<1>6. \A i \in DOMAIN batch : EntryOK(k, batch[i])
  <2>1. ASSUME NEW i \in DOMAIN batch PROVE EntryOK(k, batch[i])
    <3>1. PICK id \in Ids : batch[i] \in Dirty(id)
      BY <1>4
    <3> DEFINE item == batch[i]
    <3>2. /\ item \in Item /\ item.id = id /\ item.op = "upsert"
          /\ Seen(id, item.base) /\ Seen(id, item.held)
          /\ \/ item.held <= item.base
             \/ item.base = 0 /\ \A c \in commits : c.version = item.held => c.id # id
      BY <3>1, DirtyIsKnown
    <3>3. item.base \in Versions /\ item.held \in Versions
      BY <3>2 DEF Item
    <3> HIDE DEF item
    <3>4. KnownOK(id, item.base) /\ KnownOK(id, item.held)
      BY <3>2, <3>3, SeenIsKnown
    <3>5. EntryOK(k, item)
      BY <1>5, <3>2, <3>4 DEF EntryOK
    <3> QED BY <3>5 DEF item
  <2> QED BY <2>1
<1>7. \A w \in Workers : workers[w].key # k
  <2>1. ASSUME NEW w \in Workers, workers[w].key = k PROVE FALSE
    <3>1. PushOK(k, workers[w].items) /\ workers[w].items \in Seq(Item)
      BY <2>1, NoKeyAssumption DEF IInv, RequestsOK, TypeInv, TypeOK, WorkerState
    <3> QED BY <1>2, <3>1 DEF PushOK
  <2> QED BY <2>1
<1> QED BY <1>2, <1>3, <1>4, <1>5, <1>6, <1>7, InvRequests

\* An edited record is built on the version that its client holds.
LEMMA InvEditPending ==
    ASSUME IInv, TypeInv', NEW k \in Keys, NEW n \in DOMAIN requests[k], EditPending(k, n)
    PROVE  IInv'
<1> DEFINE old == requests[k]
           new == requests'[k]
<1>1. /\ UNCHANGED <<records, seq, commits, idem, workers, answers>>
      /\ requests' = [requests EXCEPT ![k] = [old EXCEPT ![n].base = old[n].held]]
  BY DEF EditPending, storeVars, savedVars
<1>2. \A j \in Keys : j # k => requests'[j] = requests[j]
  BY <1>1 DEF IInv, TypeInv, TypeOK
<1>3. old \in Seq(Item) /\ new = [old EXCEPT ![n].base = old[n].held]
  BY <1>1 DEF IInv, TypeInv, TypeOK
<1>4. /\ DOMAIN new = DOMAIN old /\ Len(new) = Len(old) /\ old # <<>> /\ new # <<>>
      /\ \A i \in DOMAIN old : i # n => new[i] = old[i]
      /\ new[n] = [old[n] EXCEPT !.base = old[n].held]
  BY <1>3
<1>5. old[n] \in Item /\ old[n].held \in Nat
  BY Numbers DEF IInv
<1>6. /\ new[n].id = old[n].id /\ new[n].op = old[n].op
      /\ new[n].base = old[n].held /\ new[n].held = old[n].held
  BY <1>4, <1>5 DEF Item
<1> HIDE DEF new
<1>7. \A i \in DOMAIN old : EntryOK(k, old[i])
  BY DEF IInv, RequestsOK
<1> HIDE DEF old
<1>8. EntryOK(k, new[n])
  <2>1. EntryOK(k, old[n])
    BY <1>7 DEF old
  <2> QED BY <1>5, <1>6, <2>1 DEF EntryOK, old
<1>9. \A i \in DOMAIN new : EntryOK(k, new[i])
  BY <1>4, <1>7, <1>8
<1>10. \A i, j \in DOMAIN new : new[i].id = new[j].id => i = j
  <2>1. \A i, j \in DOMAIN old : old[i].id = old[j].id => i = j
    BY DEF IInv, RequestsOK, old
  <2> QED BY <1>4, <1>6, <2>1
<1>11. ASSUME NEW w \in Workers, workers[w].key = k PROVE PushOK(k, workers[w].items)'
  <2>1. PushOK(k, workers[w].items) /\ workers[w].items \in Seq(Item)
    BY <1>11, NoKeyAssumption DEF IInv, RequestsOK, TypeInv, TypeOK, WorkerState
  <2>2. DOMAIN workers[w].items = DOMAIN old
    BY <1>3, <2>1 DEF PushOK, old
  <2>3. \A i \in DOMAIN old : SameEntry(workers[w].items[i], new[i])
    BY <1>4, <1>6, <2>1, <2>2 DEF PushOK, SameEntry, old
  <2>4. \A i \in DOMAIN old : EntryOK(k, workers[w].items[i])'
    BY <1>1, <2>1, <2>2 DEF PushOK, EntryOK, KnownOK, Current
  <2> QED BY <1>1, <1>4, <2>1, <2>2, <2>3, <2>4 DEF PushOK, new, old
<1>12. ASSUME NEW results, ResultsOK(k, results) PROVE ResultsOK(k, results)'
  <2>1. \A i, r : ResultOK(k, i, r) => ResultOK(k, i, r)'
    BY <1>1, <1>4, <1>6 DEF ResultOK, new, old
  <2> QED BY <1>4, <1>12, <2>1 DEF ResultsOK, new, old
<1> QED BY <1>1, <1>2, <1>4, <1>9, <1>10, <1>11, <1>12, InvRequests DEF new, old

\* An upsert that finds the version it expects takes the row.
LEMMA InvLock ==
    ASSUME IInv, TypeInv', NEW w \in Workers, Upsert(w), Matches(Current(w))
    PROVE  IInv'
<1> DEFINE v == seq + Draws(Current(w))
           new == [workers[w] EXCEPT !.pc = "commit", !.newVersion = v]
<1>1. /\ workers[w].pc = "upsert"
      /\ ~Locked(Current(w).id)
      /\ workers' = [workers EXCEPT ![w] = new]
      /\ seq' = v
      /\ UNCHANGED <<records, commits, requests, idem, answers>>
  BY DEF Upsert, clientVars, savedVars
<1>2. /\ workers'[w] = new
      /\ \A x \in Workers : x # w => workers'[x] = workers[x]
  BY <1>1 DEF IInv, TypeInv, TypeOK
<1>3. /\ new.pc = "commit" /\ new.key = workers[w].key
      /\ new.items = workers[w].items /\ new.results = workers[w].results
      /\ new.newVersion = v
  BY DEF IInv, TypeInv, TypeOK, WorkerState
<1>4. v \in Nat /\ seq \in Nat /\ seq < v
  BY Numbers DEF IInv, Draws
<1> HIDE DEF new, v
<1>5. /\ workers'[w].pc = "commit" /\ workers'[w].key = workers[w].key
      /\ workers'[w].items = workers[w].items /\ workers'[w].results = workers[w].results
      /\ workers'[w].newVersion = v
  BY <1>2, <1>3
<1>6. \A x \in Workers : Current(x)' = Current(x)
  BY <1>2, <1>5 DEF Current
<1>7. RequestsOK'
  <2>1. ASSUME NEW k, NEW item \in Item, EntryOK(k, item) PROVE EntryOK(k, item)'
    BY <1>1, <1>2, <1>4, <1>5, <2>1, EntryStays
  <2>2. \A x \in Workers :
            workers'[x].key # NoKey => PushOK(workers'[x].key, workers'[x].items)
    BY <1>2, <1>5 DEF IInv, RequestsOK
  <2> QED BY <1>1, <2>1, <2>2, RequestsStay
<1>8. VersionsGrow'
  BY <1>1, <1>4, Numbers DEF IInv, VersionsGrow
<1>9. CommitsOK'
  BY <1>1 DEF IInv, CommitsOK
<1>10. LocksOK'
  <2>1. /\ \A id \in Ids : records[id] < v
        /\ \A c \in commits : c.version < v
    BY <1>4, Numbers DEF IInv, VersionsGrow
  <2>3. \A x \in Workers : workers[x].pc = "commit" =>
            /\ LockOK(x)
            /\ x # w
            /\ Current(x).id # Current(w).id
            /\ workers[x].newVersion < v
    BY <1>1, <1>4, Numbers DEF IInv, LocksOK, LockOK, Locked
  <2>4. Current(w).id \in Ids
    BY <1>1, CurrentIsItem DEF IInv, Item
  <2>5. LockOK(w)'
    <3>1. Matches(Current(w))'
      BY <1>1, <1>6 DEF Matches
    <3>2. \A x \in Workers : workers'[x].pc = "commit" /\ x # w =>
              /\ Current(x)'.id # Current(w)'.id
              /\ workers'[x].newVersion # v
      BY <1>2, <1>4, <1>6, <2>3, Numbers DEF IInv
    <3>3. \A c \in commits : c.version # v
      BY <1>4, <2>1, Numbers DEF IInv
    <3> QED BY <1>1, <1>4, <1>5, <1>6, <2>1, <2>4, <3>1, <3>2, <3>3 DEF LockOK
  <2>6. ASSUME NEW x \in Workers, x # w, workers'[x].pc = "commit" PROVE LockOK(x)'
    <3>1. workers'[x] = workers[x] /\ workers[x].pc = "commit" /\ LockOK(x)
      BY <1>2, <2>3, <2>6
    <3>2. Matches(Current(x))'
      BY <1>1, <1>6, <3>1 DEF LockOK, Matches
    <3>3. workers'[x].newVersion <= seq'
      BY <1>1, <1>4, <2>3, <3>1, Numbers DEF IInv
    <3>4. \A y \in Workers : workers'[y].pc = "commit" /\ y # x =>
              /\ Current(y)'.id # Current(x)'.id
              /\ workers'[y].newVersion # workers'[x].newVersion
      <4>1. Current(w)'.id # Current(x)'.id /\ workers'[w].newVersion # workers'[x].newVersion
        BY <1>4, <1>5, <1>6, <2>3, <3>1, Numbers DEF IInv
      <4>2. ASSUME NEW y \in Workers, y # x, y # w, workers'[y].pc = "commit"
            PROVE  /\ Current(y)'.id # Current(x)'.id
                   /\ workers'[y].newVersion # workers'[x].newVersion
        BY <1>2, <1>6, <3>1, <4>2 DEF LockOK
      <4> QED BY <4>1, <4>2
    <3> QED BY <1>1, <1>6, <3>1, <3>2, <3>3, <3>4 DEF LockOK
  <2> QED BY <2>5, <2>6 DEF LocksOK
<1>11. RefusalsOK'
  BY <1>1, <1>2, <1>5, <1>6 DEF IInv, RefusalsOK
<1>12. AnswersOK'
  BY <1>1, <1>2, <1>5 DEF IInv, AnswersOK, ResultsOK, ResultOK
<1>13. RowsOK'
  BY <1>1, <1>2, <1>5, <1>6 DEF IInv, RowsOK
<1>14. OneLineOfWrites' /\ VersionsAreUnique' /\ AppliedAtMostOnce'
  BY <1>1 DEF IInv, OneLineOfWrites, VersionsAreUnique, AppliedAtMostOnce
<1> QED BY <1>7, <1>8, <1>9, <1>10, <1>11, <1>12, <1>13, <1>14 DEF IInv

\* The row is written: the version it had is the one the writer compared, and no
\* earlier write of the same push can have left it there.
LEMMA InvCommit ==
    ASSUME IInv, TypeInv', NEW w \in Workers, Commit(w)
    PROVE  IInv'
<1> DEFINE item == Current(w)
           id == item.id
           key == workers[w].key
           v == workers[w].newVersion
           result == [id |-> id, status |-> "applied", version |-> v]
           new == Advance(w, result)
           c == [key |-> key, id |-> id, op |-> item.op, base |-> item.base,
                 prev |-> records[id], version |-> v]
<1>1. /\ workers[w].pc = "commit"
      /\ records' = [records EXCEPT ![id] = v]
      /\ commits' = commits \union {c}
      /\ workers' = [workers EXCEPT ![w] = new]
      /\ UNCHANGED <<seq, requests, idem, answers>>
  BY DEF Commit, clientVars, savedVars
<1>2. item \in Item /\ id \in Ids /\ item.base \in Nat /\ records[id] \in Nat
      /\ v \in Nat /\ v \in Versions /\ key \in Keys \union {NoKey}
  <2>1. item \in Item
    BY <1>1, CurrentIsItem DEF IInv
  <2>2. id \in Ids /\ item.base \in Nat
    BY <2>1, BoundsAssumption DEF Item, Versions
  <2>3. v \in Versions /\ key \in Keys \union {NoKey}
    BY DEF IInv, TypeInv, TypeOK, WorkerState
  <2> QED BY <2>1, <2>2, <2>3, Numbers DEF IInv
<1>3. /\ LockOK(w)
      /\ records[id] < v /\ v <= seq
  BY <1>1 DEF IInv, LocksOK, LockOK
<1>4. /\ c.key = key /\ c.id = id /\ c.op = item.op /\ c.base = item.base
      /\ c.prev = records[id] /\ c.version = v
      /\ result \in Result
      /\ result.status = "applied" /\ result.id = id /\ result.version = v
  BY <1>2 DEF Result
<1>5. /\ new.pc \in {"idle", "save", "upsert"}
      /\ key = NoKey => new.pc = "idle" /\ new.key = NoKey
  BY <1>1, <1>4, AdvanceType, IdleType DEF IInv, Advance
<1>6. key # NoKey =>
          /\ new.key = key
          /\ PushOK(key, new.items)
          /\ Len(new.results) <= Len(requests[key])
          /\ \A i \in DOMAIN new.results :
                 \/ i \in DOMAIN workers[w].results /\ new.results[i] = workers[w].results[i]
                 \/ i = Len(workers[w].results) + 1 /\ new.results[i] = result
          /\ new.pc = "upsert" => At(new).op = "upsert"
  BY <1>1, <1>4, PushAdvance
<1>7. /\ records'[id] = v
      /\ \A x \in Ids : x # id => records'[x] = records[x]
      /\ workers'[w] = new
      /\ \A x \in Workers : x # w => workers'[x] = workers[x]
  BY <1>1, <1>2 DEF IInv, TypeInv, TypeOK
<1>8. /\ Current(w)' = At(new)
      /\ \A x \in Workers : x # w => Current(x)' = Current(x)
  BY <1>7 DEF Current, At
<1>9. key # NoKey => key \in Keys /\ item.op = "upsert" /\ EntryOK(key, item)
  <2>1. Len(workers[w].results) \in Nat /\ Len(workers[w].results) < Len(workers[w].items)
    BY <1>1 DEF IInv, TypeInv, TypeOK, WorkerOK, WorkerState
  <2> QED BY <2>1, PushEntry DEF Current
<1>10. item.op = "upsert" => records[id] \in {0, item.base}
  BY <1>3 DEF LockOK, Matches
<1> HIDE DEF item, id, key, v, result, new, c
<1>11. \A d \in commits :
           /\ d.version \in Nat /\ d.prev \in Nat /\ d.base \in Nat
           /\ d.id \in Ids
           /\ d.prev < d.version
           /\ d.version <= records[d.id]
           /\ records[d.id] \in Nat
  BY Numbers DEF IInv, VersionsGrow
<1>12. RequestsOK'
  <2>1. ASSUME NEW k, NEW e \in Item, EntryOK(k, e) PROVE EntryOK(k, e)'
    <3>1. e.id \in Ids /\ e.base \in Nat /\ e.held \in Nat
      BY BoundsAssumption DEF Item, Versions
    <3>2. e.id = id => e.base < v /\ e.held < v
      BY <1>1, <2>1 DEF EntryOK, KnownOK, id, item, v
    <3>3. KnownOK(e.id, e.base)' /\ KnownOK(e.id, e.held)'
      <4>1. \A x \in Workers : workers'[x].pc = "commit" =>
                /\ workers'[x] = workers[x] /\ Current(x)' = Current(x)
        BY <1>5, <1>7, <1>8
      <4>2. ASSUME NEW b \in Nat, KnownOK(e.id, b), e.id = id => b < v
            PROVE  KnownOK(e.id, b)'
        BY <1>1, <1>2, <1>7, <3>1, <4>1, <4>2 DEF KnownOK
      <4> QED BY <2>1, <3>1, <3>2, <4>2 DEF EntryOK
    <3>4. /\ \A d \in commits' : d.id = e.id /\ d \notin commits =>
                 e.base < d.version /\ e.held < d.version /\ d.version # e.held
      BY <1>1, <1>2, <1>4, <3>1, <3>2
    <3> QED BY <2>1, <3>3, <3>4 DEF EntryOK
  <2>2. \A x \in Workers :
            workers'[x].key # NoKey => PushOK(workers'[x].key, workers'[x].items)
    BY <1>5, <1>6, <1>7 DEF IInv, RequestsOK
  <2> QED BY <1>1, <2>1, <2>2, RequestsStay
<1>13. VersionsGrow'
  <2>1. \A x \in Ids : records'[x] <= seq'
    BY <1>1, <1>3, <1>7 DEF IInv, VersionsGrow
  <2>2. \A d \in commits' : d.prev < d.version /\ d.version <= records'[d.id]
    BY <1>1, <1>2, <1>3, <1>4, <1>7, <1>11
  <2> QED BY <2>1, <2>2 DEF VersionsGrow
<1>14. CommitsOK'
  <2>1. key # NoKey => requests[key] # <<>>
    <3>1. key # NoKey => PushOK(key, workers[w].items)
      BY DEF IInv, RequestsOK, key
    <3> QED BY <1>9, <3>1 DEF PushOK, IInv, TypeInv, TypeOK, WorkerState
  <2> QED BY <1>1, <1>4, <1>10, <2>1 DEF IInv, CommitsOK
<1>15. LocksOK'
  <2>1. ASSUME NEW x \in Workers, workers'[x].pc = "commit" PROVE LockOK(x)'
    <3>1. /\ x # w /\ workers'[x] = workers[x] /\ workers[x].pc = "commit"
          /\ LockOK(x)
      BY <1>5, <1>7, <2>1 DEF IInv, LocksOK
    <3>2. /\ Current(x)' = Current(x)
          /\ Current(x).id # id /\ Current(x).id \in Ids
          /\ workers[x].newVersion # v
      BY <1>1, <1>8, <3>1, CurrentIsItem DEF IInv, LockOK, Item, id, item, v
    <3>3. records'[Current(x).id] = records[Current(x).id]
      BY <1>7, <3>2
    <3>4. Matches(Current(x))'
      BY <3>1, <3>2, <3>3 DEF LockOK, Matches
    <3>5. \A d \in commits' : d.version # workers[x].newVersion
      BY <1>1, <1>4, <3>1, <3>2 DEF LockOK
    <3>6. \A y \in Workers : workers'[y].pc = "commit" /\ y # x =>
              /\ Current(y)'.id # Current(x)'.id
              /\ workers'[y].newVersion # workers'[x].newVersion
      BY <1>5, <1>7, <1>8, <3>1, <3>2 DEF LockOK
    <3> QED BY <1>1, <3>1, <3>2, <3>3, <3>4, <3>5, <3>6 DEF LockOK
  <2> QED BY <2>1 DEF LocksOK
<1>16. RefusalsOK'
  <2>2. ASSUME NEW x \in Workers, workers'[x].pc = "reread", workers'[x].key # NoKey
        PROVE  records'[Current(x)'.id] > Current(x)'.base
    <3>1. x # w /\ workers[x].pc = "reread" /\ workers[x].key # NoKey
          /\ Current(x)' = Current(x)
      BY <1>5, <1>7, <1>8, <2>2
    <3>2. Current(x) \in Item /\ Current(x).base \in Nat /\ Current(x).id \in Ids
          /\ records[Current(x).id] \in Nat
      BY <3>1, CurrentIsItem, Numbers, BoundsAssumption DEF IInv, Item, Versions
    <3>3. records[Current(x).id] > Current(x).base
      BY <3>1 DEF IInv, RefusalsOK
    <3>4. records'[Current(x).id] >= records[Current(x).id]
          /\ records'[Current(x).id] \in Nat
      BY <1>2, <1>3, <1>7, <3>2
    <3> QED BY <3>1, <3>2, <3>3, <3>4
  <2> QED BY <2>2 DEF RefusalsOK
<1>17. AnswersOK'
  <2>1. \A k, results : ResultsOK(k, results) => ResultsOK(k, results)'
    BY <1>1 DEF ResultsOK, ResultOK
  <2>2. \A k, results : k = key /\ k # NoKey /\ results = new.results => ResultsOK(k, results)'
    <3> SUFFICES ASSUME NEW k, NEW results, k = key, k # NoKey, results = new.results
                 PROVE  ResultsOK(k, results)'
      BY Zenon
    <3>1. PICK old : old = workers[w].results
      OBVIOUS
    <3>2. ResultsOK(k, old)
      BY <3>1 DEF IInv, AnswersOK, key
    <3>3. \A i \in DOMAIN old : ResultOK(k, i, old[i])'
      BY <2>1, <3>2 DEF ResultsOK
    <3>4. \A r, i : r = result => ResultOK(k, i, r)'
      BY <1>1, <1>4 DEF ResultOK
    <3>5. ASSUME NEW i \in DOMAIN results
          PROVE  ResultOK(k, i, results[i])'
      <4>1. CASE i \in DOMAIN old /\ results[i] = old[i]
        <5>1. ResultOK(k, i, old[i])'
          BY <3>3, <4>1
        <5> QED BY <4>1, <5>1 DEF ResultOK
      <4>2. CASE results[i] = result
        <5>1. PICK r : r = result
          OBVIOUS
        <5> QED BY <3>4, <4>2, <5>1 DEF ResultOK
      <4> QED BY <1>6, <3>1, <4>1, <4>2
    <3>6. Len(results) <= Len(requests'[k])
      BY <1>1, <1>6
    <3>7. \A i \in DOMAIN results : ResultOK(k, i, results[i])'
      BY <3>5
    <3> QED BY <3>6, <3>7 DEF ResultsOK
  <2>3. \A x \in Workers : workers'[x].key # NoKey =>
            ResultsOK(workers[x].key, workers[x].results)'
    <3>1. workers'[w].key # NoKey => ResultsOK(workers[w].key, workers[w].results)'
      BY <1>5, <1>6, <1>7, <2>2 DEF ResultsOK, ResultOK
    <3>2. ASSUME NEW x \in Workers, x # w, workers'[x].key # NoKey
          PROVE  ResultsOK(workers[x].key, workers[x].results)'
      <4>1. workers'[x] = workers[x] /\ ResultsOK(workers[x].key, workers[x].results)
        BY <1>7, <3>2 DEF IInv, AnswersOK
      <4> QED BY <1>1, <4>1 DEF ResultsOK, ResultOK
    <3> QED BY <3>1, <3>2
  <2>4. \A k \in Keys : idem'[k] # <<>> => ResultsOK(k, idem[k])'
    BY <1>1 DEF IInv, AnswersOK, ResultsOK, ResultOK
  <2>5. \A a \in answers' : requests'[a.key] # <<>> /\ ResultsOK(a.key, a.results)'
    BY <1>1, <2>1 DEF IInv, AnswersOK
  <2> QED BY <2>3, <2>4, <2>5 DEF AnswersOK
<1>18. RowsOK'
  <2>1. \A x \in Ids : records'[x] # 0 =>
            \E d \in commits' : d.id = x /\ d.version = records'[x]
    BY <1>1, <1>4, <1>7 DEF IInv, RowsOK
  <2>2. ASSUME NEW x \in Workers, workers'[x].pc \in {"upsert", "commit"},
               Current(x)'.op = "delete"
        PROVE  records'[Current(x)'.id] # 0
    <3>1. x # w
      BY <1>5, <1>6, <1>7, <1>8, <2>2
    <3>2. /\ workers[x].pc \in {"upsert", "commit"} /\ Current(x)' = Current(x)
          /\ Current(x).id \in Ids
      BY <1>7, <1>8, <2>2, <3>1, CurrentIsItem DEF IInv, Item
    <3>3. records[Current(x).id] # 0
      BY <2>2, <3>2 DEF IInv, RowsOK
    <3> QED BY <1>2, <1>3, <1>7, <3>2, <3>3
  <2> QED BY <2>1, <2>2 DEF RowsOK
<1>19. OneLineOfWrites'
  <2>1. \A d \in commits : d.id = id => d.prev # c.prev
    BY <1>2, <1>4, <1>11
  <2> QED BY <1>1, <1>4, <1>10, <2>1 DEF IInv, OneLineOfWrites
<1>20. VersionsAreUnique'
  <2>1. \A d \in commits : d.version # c.version
    BY <1>3, <1>4 DEF LockOK, v
  <2> QED BY <1>1, <2>1 DEF IInv, VersionsAreUnique
<1>21. AppliedAtMostOnce'
  <2>1. ASSUME NEW d \in commits, d.key = key, key # NoKey, d.id = id
        PROVE  FALSE
    <3>1. item.base < d.version
      BY <1>9, <2>1 DEF EntryOK, id
    <3>2. records[id] = item.base
      BY <1>9, <1>10, <1>11, <2>1
    <3> QED BY <1>2, <1>11, <2>1, <3>1, <3>2
  <2> QED BY <1>1, <1>4, <2>1 DEF IInv, AppliedAtMostOnce
<1> QED BY <1>12, <1>13, <1>14, <1>15, <1>16, <1>17, <1>18, <1>19, <1>20, <1>21 DEF IInv

\* The invariant is inductive.
LEMMA InvNext == IInv /\ [Next]_vars => IInv'
<1> SUFFICES ASSUME IInv, [Next]_vars PROVE IInv'
  OBVIOUS
<1>1. TypeInv'
  BY TypeNext DEF IInv
<1>2. ASSUME NEW w \in Workers, Upsert(w) PROVE IInv'
  BY <1>1, <1>2, InvRefused, InvLock
<1>3. ASSUME NEW p \in Pullers, Pull(p) PROVE IInv'
  BY <1>1, <1>3, InvOther DEF Pull, storeVars, clientVars, savedVars
<1>4. CASE DeleteExpired
  <2>1. \A k \in Keys : idem'[k] \in {<<>>, idem[k]}
    BY <1>4 DEF DeleteExpired
  <2>2. UNCHANGED <<records, seq, commits, requests, workers, answers>>
    BY <1>4 DEF DeleteExpired, storeVars, clientVars
  <2> QED BY <1>1, <2>1, <2>2, InvOther
<1>5. CASE UNCHANGED vars
  BY <1>1, <1>5, InvOther DEF vars, storeVars, clientVars, savedVars
<1> QED
  BY <1>1, <1>2, <1>3, <1>4, <1>5, InvSubmit, InvDeliver, InvCheckIdempotency,
     InvCheckOwner, InvCommit, InvReread, InvSaveResult, InvReply, InvStartRest,
     InvEditPending
  DEF Next, Serve

-------------------------------------------------------------------------------
(* The safety properties.                                                  *)

\* The inductive invariant holds in every reachable state.
THEOREM InvHolds == Spec => []IInv
<1> QED BY InvInit, InvNext, PTL DEF Spec

\* However often a push is sent, interleaved and interrupted, each of its records
\* is written at most once (SyncService.Push, sync.go:43-88).
THEOREM PushAppliedAtMostOnce == Spec => []AppliedAtMostOnce
<1>1. IInv => AppliedAtMostOnce
  BY DEF IInv
<1> QED BY <1>1, InvHolds, PTL

\* The writes of a record form one line, each replacing the version its writer
\* had seen (RecordRepository.Upsert, record.go:34-46).
THEOREM WritesFormOneLine == Spec => []OneLineOfWrites
<1>1. IInv => OneLineOfWrites
  BY DEF IInv
<1> QED BY <1>1, InvHolds, PTL

\* No two writes carry the same version (migration 000002, nextval in record.go).
THEOREM VersionsNeverRepeat == Spec => []VersionsAreUnique
<1>1. IInv => VersionsAreUnique
  BY DEF IInv
<1> QED BY <1>1, InvHolds, PTL

\* What a client is told was applied, by a first answer or by a saved one, is a
\* committed write of its own push (sync.go:43-88).
THEOREM AppliedAnswersAreBacked == Spec => []AppliedIsCommitted
<1>1. IInv => AppliedIsCommitted
  <2> SUFFICES ASSUME IInv,
                      NEW a \in answers \union {[key |-> k, results |-> idem[k]] : k \in Keys},
                      NEW i \in DOMAIN a.results, a.results[i].status = "applied"
               PROVE  \E c \in commits : /\ c.key = a.key
                                         /\ c.id = a.results[i].id
                                         /\ c.version = a.results[i].version
    BY DEF AppliedIsCommitted
  <2>1. CASE a \in answers
    BY <2>1 DEF IInv, AnswersOK, ResultsOK, ResultOK
  <2>2. ASSUME NEW k \in Keys, a = [key |-> k, results |-> idem[k]]
        PROVE  \E c \in commits : /\ c.key = a.key
                                  /\ c.id = a.results[i].id
                                  /\ c.version = a.results[i].version
    <3>1. a.key = k /\ a.results = idem[k] /\ i \in DOMAIN idem[k]
      BY <2>2
    <3>2. idem[k] # <<>>
      BY <3>1
    <3> QED BY <3>1, <3>2 DEF IInv, AnswersOK, ResultsOK, ResultOK
  <2> QED BY <2>1, <2>2
<1> QED BY <1>1, InvHolds, PTL

\* A client that is told "conflict" is shown a version newer than the one its edit
\* was based on, although the row is read after the comparison (record.go:56-63).
THEOREM ConflictsAreGenuine == Spec => []ConflictIsGenuine
<1>1. IInv => ConflictIsGenuine
  BY DEF IInv, AnswersOK, ResultsOK, ResultOK, ConflictIsGenuine
<1> QED BY <1>1, InvHolds, PTL

-------------------------------------------------------------------------------
(* The server implements VersionedStore.                                   *)

\* The commit of a row is one step of the store.
LEMMA CommitIsStoreStep ==
    ASSUME IInv, IInv', NEW w \in Workers, Commit(w)
    PROVE  Store!Next
<1> DEFINE item == Current(w)
           v == workers[w].newVersion
           key == workers[w].key
           c == [key |-> key, id |-> item.id, op |-> item.op, base |-> item.base,
                 prev |-> records[item.id], version |-> v]
           pairs == {<<d.key, d.id>> : d \in {x \in commits : x.key # NoKey}}
           pairsNext == {<<d.key, d.id>> : d \in {x \in commits' : x.key # NoKey}}
<1>1. /\ workers[w].pc = "commit"
      /\ records' = [records EXCEPT ![item.id] = v]
      /\ commits' = commits \union {c}
  BY DEF Commit
<1>2. /\ item \in Item /\ item.id \in Ids /\ item.base \in Versions
      /\ item.op \in {"upsert", "delete"}
      /\ v \in Versions /\ v \in Nat /\ key \in Keys \union {NoKey}
  <2>1. item \in Item
    BY <1>1, CurrentIsItem DEF IInv
  <2>2. v \in Versions /\ v \in Nat /\ key \in Keys \union {NoKey}
    BY Numbers DEF IInv, TypeInv, TypeOK, WorkerState
  <2> QED BY <2>1, <2>2 DEF Item
<1>3. LockOK(w) /\ RowsOK /\ c.key = key /\ c.id = item.id /\ c.version = v
  BY <1>1 DEF IInv, LocksOK
<1>4. item.op = "upsert" => records[item.id] \in {0, item.base}
  BY <1>3 DEF LockOK, Matches
<1>5. item.op = "delete" => records[item.id] # 0
  BY <1>1, <1>3 DEF RowsOK
<1>6. Store!Replace(item.id, v)
  <2>1. v > records[item.id] /\ records[item.id] \in Nat
    BY <1>2, <1>3, Numbers DEF IInv, LockOK
  <2>2. ASSUME NEW other \in Ids PROVE records[other] # v
    <3>1. CASE records[other] = 0
      BY <1>2, <2>1, <3>1
    <3>2. CASE records[other] # 0
      BY <1>3, <3>2 DEF RowsOK, LockOK
    <3> QED BY <3>1, <3>2
  <2> QED BY <1>1, <2>1, <2>2 DEF Store!Replace
<1>7. c \notin commits
  BY <1>3 DEF LockOK
<1>8. CASE key = NoKey
  <2>1. pairsNext = pairs
    BY <1>1, <1>3, <1>8
  <2> QED BY <1>2, <1>4, <1>5, <1>6, <2>1
          DEF Store!Next, Store!Write, Store!Erase
<1>9. CASE key # NoKey
  <2>1. item.op = "upsert"
    <3>1. Len(workers[w].results) \in Nat /\ Len(workers[w].results) < Len(workers[w].items)
      BY <1>1 DEF IInv, TypeInv, TypeOK, WorkerOK, WorkerState
    <3> QED BY <1>9, <3>1, PushEntry DEF Current
  <2>2. <<key, item.id>> \notin pairs
    <3>1. ASSUME NEW d \in commits, d.key = key, d.id = item.id PROVE FALSE
      <4>1. d = c
        BY <1>1, <1>3, <1>9, <3>1 DEF IInv, AppliedAtMostOnce
      <4> QED BY <1>7, <4>1
    <3> QED BY <3>1
  <2>3. pairsNext = pairs \union {<<key, item.id>>}
    BY <1>1, <1>3, <1>9
  <2>4. Store!Push(key, item.id, item.base)
    BY <1>4, <2>1, <2>2, <2>3 DEF Store!Push
  <2>5. key \in Keys
    BY <1>2, <1>9
  <2> HIDE DEF item, key, v, c, pairs, pairsNext
  <2> QED BY <1>2, <1>6, <2>4, <2>5 DEF Store!Next, Store!Push, item, v
<1> QED BY <1>8, <1>9

\* Every other step leaves the store as it is.
LEMMA StoreStep ==
    ASSUME IInv, IInv', [Next]_vars
    PROVE  [Store!Next]_(Store!vars)
<1>1. ASSUME NEW w \in Workers, Commit(w) PROVE Store!Next
  BY <1>1, CommitIsStoreStep
<1>2. ASSUME UNCHANGED <<records, commits>> PROVE UNCHANGED Store!vars
  BY <1>2 DEF Store!vars
<1>3. (\E w \in Workers : Commit(w)) \/ UNCHANGED <<records, commits>>
  BY DEF Next, Serve, Submit, EditPending, Deliver, Abort, VaultCreate, VaultUpdate, VaultDelete,
         StartRest, Pull, DeleteExpired, CheckIdempotency, CheckOwner, Upsert, Reread,
         SaveResult, Reply, vars, storeVars, clientVars
<1> QED BY <1>1, <1>2, <1>3

\* For its clients the server is a store that changes in single steps, whatever is
\* interleaved, repeated, interrupted or expired (service/sync.go, service/vault.go).
THEOREM ServerImplementsStore == Spec => ImplementsStore
<1>1. Init => Store!Init
  BY DEF Init, Store!Init
<1>2. IInv /\ IInv' /\ [Next]_vars => [Store!Next]_(Store!vars)
  BY StoreStep
<1> QED BY <1>1, <1>2, InvHolds, PTL DEF Spec, ImplementsStore, Store!Spec
-------------------------------------------------------------------------------
(* What requests one after the other would guarantee.                      *)

\* A version that is drawn but not yet visible is newer than every visible one and
\* every cursor: a row that becomes visible is one every client still has to pull.
CursorInv ==
    /\ CursorIsComplete
    /\ \A p \in Pullers : cursor[p] <= seq
    /\ \A w \in Workers : workers[w].pc = "commit" =>
           /\ \A p \in Pullers : cursor[p] < workers[w].newVersion
           /\ \A id \in Ids : records[id] < workers[w].newVersion

\* A request's step that starts no upsert leaves the cursors' invariant.
LEMMA CursorQuiet ==
    ASSUME TypeInv, TypeInv', CursorInv,
           UNCHANGED <<records, cursor, known>>, seq' >= seq,
           \A w \in Workers : workers'[w].pc = "commit" => workers'[w] = workers[w]
    PROVE  CursorInv'
<1>1. /\ seq \in Nat /\ seq' \in Nat
      /\ \A p \in Pullers : cursor[p] \in Nat
  BY BoundsAssumption DEF TypeInv, TypeOK, Versions
<1> QED BY <1>1 DEF CursorInv, CursorIsComplete

\* An upsert draws a version above everything, if no other is pending.
LEMMA CursorUpsert ==
    ASSUME IInv, TypeInv', CursorInv, OneUpsertAtATime', NEW w \in Workers, Upsert(w)
    PROVE  CursorInv'
<1>1. /\ workers[w] \in WorkerState
      /\ UNCHANGED <<records, cursor, known>>
      /\ seq' = seq + Draws(Current(w))
      /\ Draws(Current(w)) \in {1, 2}
  BY DEF Upsert, Draws, IInv, TypeInv, TypeOK, pullVars
<1>2. /\ seq \in Nat
      /\ \A p \in Pullers : cursor[p] \in Nat /\ cursor[p] <= seq
      /\ \A id \in Ids : records[id] \in Nat /\ records[id] <= seq
  BY BoundsAssumption DEF IInv, TypeInv, TypeOK, Versions, CursorInv, VersionsGrow
<1>3. \A x \in Workers : x # w => workers'[x] = workers[x]
  BY DEF Upsert, IInv, TypeInv, TypeOK
<1>4. CASE Matches(Current(w))
  <2>1. workers'[w].pc = "commit" /\ workers'[w].newVersion = seq + Draws(Current(w))
    BY <1>1, <1>4 DEF Upsert, IInv, TypeInv, TypeOK, WorkerState
  <2>2. \A x \in Workers : workers'[x].pc = "commit" => x = w
    BY <2>1 DEF OneUpsertAtATime
  <2> QED BY <1>1, <1>2, <2>1, <2>2 DEF CursorInv, CursorIsComplete
<1>5. CASE ~Matches(Current(w))
  <2>1. workers'[w].pc = "reread"
    BY <1>1, <1>5 DEF Upsert, IInv, TypeInv, TypeOK, WorkerState
  <2> QED BY <1>1, <1>2, <1>3, <2>1, CursorQuiet DEF IInv
<1> QED BY <1>4, <1>5

\* A row that becomes visible is above every cursor.
LEMMA CursorCommit ==
    ASSUME IInv, TypeInv', CursorInv, OneUpsertAtATime, NEW w \in Workers, Commit(w)
    PROVE  CursorInv'
<1> DEFINE v == workers[w].newVersion
           new == Advance(w, [id |-> Current(w).id, status |-> "applied", version |-> v])
<1>1. /\ workers[w].pc = "commit"
      /\ UNCHANGED <<seq, cursor, known>>
      /\ records' = [records EXCEPT ![Current(w).id] = v]
      /\ workers' = [workers EXCEPT ![w] = new]
  BY DEF Commit, pullVars
<1>2. Current(w) \in Item /\ Current(w).id \in Ids /\ v \in Versions
  BY <1>1, CurrentIsItem DEF IInv, TypeInv, TypeOK, WorkerState, Item
<1>3. new.pc # "commit"
  BY <1>1, <1>2, AdvanceType DEF IInv, Result
<1>4. \A x \in Workers : workers'[x].pc # "commit"
  BY <1>1, <1>3 DEF OneUpsertAtATime, IInv, TypeInv, TypeOK
<1>5. \A p \in Pullers : cursor[p] \in Nat /\ cursor[p] < v
  BY <1>1, BoundsAssumption DEF CursorInv, IInv, TypeInv, TypeOK, Versions
<1>6. \A id \in Ids : records'[id] = IF id = Current(w).id THEN v ELSE records[id]
  BY <1>1, <1>2 DEF IInv, TypeInv, TypeOK
<1>7. v \in Nat
  BY <1>2, BoundsAssumption DEF Versions
<1> HIDE DEF v, new
<1>8. CursorIsComplete'
  BY <1>1, <1>5, <1>6, <1>7 DEF CursorInv, CursorIsComplete
<1> QED BY <1>1, <1>4, <1>8 DEF CursorInv

\* A pull that takes every visible row above the cursor leaves nothing behind.
LEMMA CursorPull ==
    ASSUME IInv, TypeInv', CursorInv, NEW p \in Pullers, Pull(p)
    PROVE  CursorInv'
<1>1. PICK last \in ListSince(cursor[p]) : cursor' = [cursor EXCEPT ![p] = records[last]]
  BY DEF Pull
<1>2. /\ UNCHANGED <<records, seq, workers>>
      /\ known' = [known EXCEPT ![p] =
             [id \in Ids |-> IF id \in ListSince(cursor[p]) THEN records[id] ELSE @[id]]]
  BY DEF Pull, storeVars
<1>3. last \in Ids /\ records[last] <= seq
  BY <1>1 DEF ListSince, IInv, VersionsGrow
<1>4. /\ \A q \in Pullers : cursor'[q] = IF q = p THEN records[last] ELSE cursor[q]
      /\ \A q \in Pullers : q # p => known'[q] = known[q]
      /\ \A id \in Ids : known'[p][id] =
             IF id \in ListSince(cursor[p]) THEN records[id] ELSE known[p][id]
  BY <1>1, <1>2 DEF IInv, TypeInv, TypeOK
<1>5. /\ \A id \in Ids : records[id] \in Nat
      /\ \A q \in Pullers : cursor[q] \in Nat
  BY BoundsAssumption DEF IInv, TypeInv, TypeOK, Versions
<1>6. \A id \in Ids : id \notin ListSince(cursor[p]) => records[id] <= cursor[p]
  BY <1>5 DEF ListSince
<1>7. CursorIsComplete'
  BY <1>2, <1>4, <1>6 DEF CursorInv, CursorIsComplete
<1> QED BY <1>2, <1>3, <1>4, <1>7 DEF CursorInv

\* Every step keeps the cursors' invariant.
LEMMA CursorNext ==
    IInv /\ TypeInv' /\ CursorInv /\ OneUpsertAtATime /\ OneUpsertAtATime' /\ [Next]_vars
        => CursorInv'
<1> SUFFICES ASSUME IInv, TypeInv', CursorInv, OneUpsertAtATime, OneUpsertAtATime',
                    [Next]_vars
             PROVE  CursorInv'
  OBVIOUS
<1>1. ASSUME NEW w \in Workers, Commit(w) PROVE CursorInv'
  BY <1>1, CursorCommit
<1>2. ASSUME NEW w \in Workers, Upsert(w) PROVE CursorInv'
  BY <1>2, CursorUpsert
<1>3. ASSUME NEW p \in Pullers, Pull(p) PROVE CursorInv'
  BY <1>3, CursorPull
<1>4. ASSUME UNCHANGED <<records, seq, cursor, known, workers>> PROVE CursorInv'
  BY <1>4 DEF CursorInv, CursorIsComplete
<1>5. ASSUME NEW w \in Workers, NEW new, new.pc # "commit",
             workers' = [workers EXCEPT ![w] = new],
             UNCHANGED <<records, seq, cursor, known>>
      PROVE  CursorInv'
  <2>1. \A x \in Workers : workers'[x].pc = "commit" => workers'[x] = workers[x]
    BY <1>5 DEF IInv, TypeInv, TypeOK
  <2>2. seq' >= seq
    BY <1>5, BoundsAssumption DEF IInv, TypeInv, TypeOK, Versions
  <2> QED BY <1>5, <2>1, <2>2, CursorQuiet DEF IInv
<1>6. ASSUME NEW w \in Workers, Reread(w) PROVE CursorInv'
  <2> DEFINE result == [id |-> Current(w).id, status |-> "conflict",
                        version |-> records[Current(w).id]]
  <2>1. Current(w) \in Item
    BY <1>6, CurrentIsItem DEF Reread, IInv
  <2>2. result \in Result
    BY <2>1 DEF Result, Item, IInv, TypeInv, TypeOK
  <2>3. Advance(w, result).pc # "commit"
    BY <1>6, <2>2, AdvanceType DEF Reread, IInv
  <2> QED BY <1>5, <1>6, <2>3 DEF Reread, storeVars, pullVars
<1>7. ASSUME NEW w \in Workers, NEW k \in Keys, Deliver(w, k) PROVE CursorInv'
  BY <1>5, <1>7 DEF Deliver, storeVars, pullVars, Idle
<1>8. ASSUME NEW w \in Workers, CheckIdempotency(w) PROVE CursorInv'
  <2>1. workers[w] \in WorkerState
    BY DEF IInv, TypeInv, TypeOK
  <2>2. workers'[w].pc # "commit" /\ \A x \in Workers : x # w => workers'[x] = workers[x]
    BY <1>8, <2>1 DEF CheckIdempotency, WorkerState, IInv, TypeInv, TypeOK
  <2>3. seq' = seq /\ seq \in Nat /\ UNCHANGED <<records, cursor, known>>
    BY <1>8, BoundsAssumption
    DEF CheckIdempotency, storeVars, pullVars, IInv, TypeInv, TypeOK, Versions
  <2> QED BY <2>2, <2>3, CursorQuiet DEF IInv
<1>9. ASSUME NEW w \in Workers, CheckOwner(w) \/ SaveResult(w) PROVE CursorInv'
  <2>1. workers[w] \in WorkerState
    BY DEF IInv, TypeInv, TypeOK
  <2>2. workers'[w].pc # "commit" /\ \A x \in Workers : x # w => workers'[x] = workers[x]
    BY <1>9, <2>1, IdleType DEF CheckOwner, SaveResult, WorkerState, IInv, TypeInv, TypeOK
  <2>3. seq' = seq /\ seq \in Nat /\ UNCHANGED <<records, cursor, known>>
    BY <1>9, BoundsAssumption
    DEF CheckOwner, SaveResult, storeVars, pullVars, IInv, TypeInv, TypeOK, Versions
  <2> QED BY <2>2, <2>3, CursorQuiet DEF IInv
<1>10. ASSUME NEW w \in Workers, Reply(w) \/ Abort(w) PROVE CursorInv'
  BY <1>5, <1>10, IdleType DEF Reply, Abort, storeVars, pullVars
<1>11. ASSUME NEW w \in Workers, NEW pc \in {"owner", "upsert"}, NEW item,
              StartRest(w, pc, item)
       PROVE  CursorInv'
  BY <1>5, <1>11 DEF StartRest, storeVars, pullVars, Idle
<1>12. ASSUME NEW w \in Workers, VaultCreate(w) \/ VaultUpdate(w) \/ VaultDelete(w)
       PROVE  CursorInv'
  BY <1>11, <1>12 DEF VaultCreate, VaultUpdate, VaultDelete
<1>13. ASSUME \/ DeleteExpired
              \/ \E k \in Keys : Submit(k) \/ \E i \in DOMAIN requests[k] : EditPending(k, i)
              \/ UNCHANGED vars
       PROVE  CursorInv'
  BY <1>4, <1>13 DEF DeleteExpired, Submit, EditPending, vars, storeVars, pullVars
<1> QED
  BY <1>1, <1>2, <1>3, <1>6, <1>7, <1>8, <1>9, <1>10, <1>12, <1>13 DEF Next, Serve

\* As long as no two upserts overlap, a client never has a cursor beyond a row it
\* does not hold (ListSince, record.go; migration 000002).  The run SyncServer_cursor
\* shows what overlapping ones do.
THEOREM CursorCompleteIfSerial == Spec => SerialCursorIsComplete
<1>1. Init => CursorInv
  <2>1. ASSUME Init PROVE \A w \in Workers : workers[w].pc = "idle"
    BY <2>1, IdleType DEF Init
  <2>2. ASSUME Init PROVE CursorInv
    <3>1. /\ \A id \in Ids : records[id] = 0
          /\ \A p \in Pullers : cursor[p] = 0 /\ known[p] = [id \in Ids |-> 0]
          /\ seq = 0
      BY <2>2 DEF Init
    <3> QED BY <2>1, <2>2, <3>1 DEF CursorInv, CursorIsComplete
  <2> QED BY <2>2
<1>2. IInv => TypeInv
  BY DEF IInv
<1>3. CursorInv => CursorIsComplete
  BY DEF CursorInv
<1> QED BY <1>1, <1>2, <1>3, CursorNext, InvHolds, PTL DEF Spec, SerialCursorIsComplete

-------------------------------------------------------------------------------
(* A push is answered the same way every time.                             *)

\* What was answered is what is saved; a push that computes a result has none saved.
AgreeInv ==
    /\ \A a \in answers : a.results # <<>> /\ idem[a.key] = a.results
    /\ \A w \in Workers :
           workers[w].key # NoKey =>
               /\ workers[w].pc \in {"owner", "upsert", "commit", "reread", "save"} =>
                      idem[workers[w].key] = <<>>
               /\ workers[w].pc = "save" => workers[w].results # <<>>
               /\ workers[w].pc = "reply" =>
                      /\ workers[w].results # <<>>
                      /\ idem[workers[w].key] = workers[w].results

\* What AgreeInv asks of one worker in state s.
AgreeOK(s) ==
    s.key # NoKey =>
        /\ s.pc \in {"owner", "upsert", "commit", "reread", "save"} => idem[s.key] = <<>>
        /\ s.pc = "save" => s.results # <<>>
        /\ s.pc = "reply" => s.results # <<>> /\ idem[s.key] = s.results

\* A step of one worker that saves nothing.
LEMMA AgreeStep ==
    ASSUME TypeInv, AgreeInv, NEW w \in Workers, NEW new, AgreeOK(new),
           workers' = [workers EXCEPT ![w] = new],
           UNCHANGED <<idem, answers>>
    PROVE  AgreeInv'
<1>1. \A x \in Workers : workers'[x] = IF x = w THEN new ELSE workers[x]
  BY DEF TypeInv, TypeOK
<1>2. \A x \in Workers : AgreeOK(workers'[x])
  BY <1>1 DEF AgreeInv, AgreeOK
<1> HIDE DEF AgreeOK
<1>3. \A s : AgreeOK(s)' <=> AgreeOK(s)
  BY DEF AgreeOK
<1> QED BY <1>2 DEF AgreeInv, AgreeOK

\* A worker that has got through a record has a result.
LEMMA AgreeAdvance ==
    ASSUME IInv, AgreeInv, NEW w \in Workers, NEW result \in Result,
           workers[w].pc \in {"commit", "reread"}
    PROVE  AgreeOK(Advance(w, result))
<1>1. workers[w] \in WorkerState
  BY DEF IInv, TypeInv, TypeOK
<1>2. CASE workers[w].key = NoKey
  BY <1>2, IdleType DEF Advance, AgreeOK
<1>3. CASE workers[w].key # NoKey
  <2> DEFINE new == Advance(w, result)
  <2>1. /\ new.key = workers[w].key
        /\ new.results = Append(workers[w].results, result)
        /\ new.pc \in {"save", "upsert"}
    BY <1>1, <1>3 DEF Advance, WorkerState
  <2>2. Append(workers[w].results, result) # <<>>
    BY <1>1 DEF WorkerState
  <2>3. idem[workers[w].key] = <<>>
    BY <1>3 DEF AgreeInv
  <2> HIDE DEF new
  <2>4. AgreeOK(new)
    BY <2>1, <2>2, <2>3 DEF AgreeOK
  <2> QED BY <2>4 DEF new
<1> QED BY <1>2, <1>3

\* Every step keeps the answers in agreement.
LEMMA AgreeNext ==
    ~expired' /\ IInv /\ AgreeInv /\ OneRequestPerKey /\ [Next]_vars => AgreeInv'
<1> SUFFICES ASSUME ~expired', IInv, AgreeInv, OneRequestPerKey, [Next]_vars
             PROVE  AgreeInv'
  OBVIOUS
<1>0. /\ workers \in [Workers -> WorkerState]
      /\ TypeInv
      /\ \A w \in Workers : WorkerOK(workers[w])
  BY DEF IInv, TypeInv, TypeOK
<1>1. ASSUME NEW w \in Workers, Commit(w) PROVE AgreeInv'
  <2> DEFINE result == [id |-> Current(w).id, status |-> "applied",
                        version |-> workers[w].newVersion]
  <2>1. result \in Result
    BY <1>0, <1>1, CurrentIsItem DEF Commit, IInv, WorkerState, Result, Item
  <2> HIDE DEF result
  <2>2. AgreeOK(Advance(w, result))
    BY <1>1, <2>1, AgreeAdvance DEF Commit
  <2>3. workers' = [workers EXCEPT ![w] = Advance(w, result)]
    BY <1>1 DEF Commit, result
  <2> QED BY <1>0, <1>1, <2>2, <2>3, AgreeStep DEF Commit, savedVars
<1>2. ASSUME NEW w \in Workers, Reread(w) PROVE AgreeInv'
  <2> DEFINE result == [id |-> Current(w).id, status |-> "conflict",
                        version |-> records[Current(w).id]]
  <2>1. Current(w) \in Item
    BY <1>2, CurrentIsItem DEF Reread, IInv
  <2>2. result \in Result
    BY <2>1 DEF Result, Item, IInv, TypeInv, TypeOK
  <2> HIDE DEF result
  <2>3. AgreeOK(Advance(w, result))
    BY <1>2, <2>2, AgreeAdvance DEF Reread
  <2>4. workers' = [workers EXCEPT ![w] = Advance(w, result)]
    BY <1>2 DEF Reread, result
  <2> QED BY <1>0, <1>2, <2>3, <2>4, AgreeStep DEF Reread, savedVars
<1>3. ASSUME NEW w \in Workers, Upsert(w) PROVE AgreeInv'
  <2> DEFINE new == IF Matches(Current(w))
                    THEN [workers[w] EXCEPT !.pc = "commit",
                                            !.newVersion = seq + Draws(Current(w))]
                    ELSE [workers[w] EXCEPT !.pc = "reread"]
  <2>1. new.key = workers[w].key /\ new.pc \in {"commit", "reread"}
    BY <1>0 DEF WorkerState
  <2>2. workers[w].key # NoKey => idem[workers[w].key] = <<>>
    BY <1>3 DEF AgreeInv, Upsert
  <2>3. workers' = [workers EXCEPT ![w] = new]
    BY <1>3 DEF Upsert
  <2> HIDE DEF new
  <2>4. AgreeOK(new)
    BY <2>1, <2>2 DEF AgreeOK
  <2> QED BY <1>0, <1>3, <2>3, <2>4, AgreeStep DEF Upsert, savedVars
<1>4. ASSUME NEW w \in Workers, CheckIdempotency(w) PROVE AgreeInv'
  <2> DEFINE new == IF idem[workers[w].key] # <<>>
                    THEN [workers[w] EXCEPT !.pc = "reply", !.results = idem[workers[w].key]]
                    ELSE [workers[w] EXCEPT !.pc = "upsert"]
  <2>1. /\ new.key = workers[w].key
        /\ \/ idem[new.key] # <<>> /\ new.pc = "reply" /\ new.results = idem[new.key]
           \/ idem[new.key] = <<>> /\ new.pc = "upsert"
    BY <1>0 DEF WorkerState
  <2>2. workers' = [workers EXCEPT ![w] = new]
    BY <1>4 DEF CheckIdempotency
  <2> HIDE DEF new
  <2>3. AgreeOK(new)
    BY <2>1 DEF AgreeOK
  <2> QED BY <1>0, <1>4, <2>2, <2>3, AgreeStep DEF CheckIdempotency, savedVars
<1>5. ASSUME NEW w \in Workers, SaveResult(w) PROVE AgreeInv'
  <2>1. /\ workers[w].key \in Keys /\ workers[w].key # NoKey
        /\ workers[w].results # <<>>
        /\ idem[workers[w].key] = <<>>
    BY <1>0, <1>5 DEF SaveResult, WorkerOK, WorkerState, AgreeInv
  <2>2. \A k \in Keys : idem'[k] = IF k = workers[w].key THEN workers[w].results ELSE idem[k]
    BY <1>5, <2>1 DEF SaveResult, IInv, TypeInv, TypeOK
  <2>3. \A a \in answers : a.key \in Keys /\ a.key # workers[w].key
    BY <2>1 DEF AgreeInv, IInv, TypeInv, TypeOK
  <2>4. /\ workers'[w].pc = "reply"
        /\ workers'[w].key = workers[w].key
        /\ workers'[w].results = workers[w].results
    BY <1>0, <1>5 DEF SaveResult, WorkerState
  <2>5. \A x \in Workers : x # w =>
            /\ workers'[x] = workers[x]
            /\ workers[x].key # NoKey =>
                   workers[x].key \in Keys /\ workers[x].key # workers[w].key
    BY <1>0, <1>5, <2>1 DEF SaveResult, OneRequestPerKey, WorkerState
  <2> QED BY <1>5, <2>1, <2>2, <2>3, <2>4, <2>5 DEF AgreeInv, SaveResult
<1>6. ASSUME NEW w \in Workers, Reply(w) PROVE AgreeInv'
  <2>1. /\ workers[w].key # NoKey /\ workers[w].results # <<>>
        /\ idem[workers[w].key] = workers[w].results
    BY <1>0, <1>6 DEF Reply, WorkerOK, AgreeInv
  <2>2. \A a \in answers' : a.results # <<>> /\ idem'[a.key] = a.results
    BY <1>6, <2>1 DEF Reply, AgreeInv, savedVars
  <2>3. \A x \in Workers : workers'[x] = IF x = w THEN Idle ELSE workers[x]
    BY <1>0, <1>6 DEF Reply
  <2> QED BY <1>6, <2>2, <2>3, IdleType DEF Reply, AgreeInv, savedVars
<1>7. ASSUME NEW w \in Workers, Abort(w) PROVE AgreeInv'
  BY <1>0, <1>7, IdleType, AgreeStep DEF Abort, AgreeOK, savedVars
<1>8. ASSUME NEW w \in Workers, CheckOwner(w) PROVE AgreeInv'
  <2> DEFINE new == IF records[Current(w).id] = 0 THEN Idle
                    ELSE [workers[w] EXCEPT !.pc = "upsert"]
  <2>1. workers[w].key # NoKey => idem[workers[w].key] = <<>>
    BY <1>8 DEF CheckOwner, AgreeInv
  <2>2. \/ new.key = NoKey
        \/ new.key = workers[w].key /\ new.pc = "upsert"
    BY <1>0, IdleType DEF WorkerState
  <2>3. workers' = [workers EXCEPT ![w] = new]
    BY <1>8 DEF CheckOwner
  <2> HIDE DEF new
  <2>4. AgreeOK(new)
    BY <2>1, <2>2 DEF AgreeOK
  <2> QED BY <1>0, <1>8, <2>3, <2>4, AgreeStep DEF CheckOwner, savedVars
<1>9. ASSUME NEW w \in Workers, NEW k \in Keys, Deliver(w, k) PROVE AgreeInv'
  <2> DEFINE new == [Idle EXCEPT !.pc = "check", !.key = k, !.items = requests[k]]
  <2>1. new.pc = "check"
    BY DEF Idle
  <2>2. AgreeOK(new)
    BY <2>1 DEF AgreeOK
  <2> HIDE DEF new
  <2> QED BY <1>0, <1>9, <2>2, AgreeStep DEF Deliver, new, savedVars
<1>10. ASSUME NEW w \in Workers, NEW pc \in {"owner", "upsert"}, NEW item,
              StartRest(w, pc, item)
       PROVE  AgreeInv'
  <2> DEFINE new == [Idle EXCEPT !.pc = pc, !.items = <<item>>]
  <2>1. new.key = NoKey
    BY DEF Idle
  <2>2. AgreeOK(new)
    BY <2>1 DEF AgreeOK
  <2> HIDE DEF new
  <2> QED BY <1>0, <1>10, <2>2, AgreeStep DEF StartRest, new, savedVars
<1>11. ASSUME NEW w \in Workers, VaultCreate(w) \/ VaultUpdate(w) \/ VaultDelete(w)
       PROVE  AgreeInv'
  BY <1>10, <1>11 DEF VaultCreate, VaultUpdate, VaultDelete
<1>12. ASSUME UNCHANGED <<idem, answers, workers>> PROVE AgreeInv'
  BY <1>12 DEF AgreeInv
<1>13. ASSUME \/ \E k \in Keys : Submit(k) \/ \E i \in DOMAIN requests[k] : EditPending(k, i)
              \/ \E p \in Pullers : Pull(p)
              \/ DeleteExpired
              \/ UNCHANGED vars
       PROVE  AgreeInv'
  BY <1>12, <1>13 DEF Submit, EditPending, Pull, DeleteExpired, vars, savedVars
<1> QED
  BY <1>1, <1>2, <1>3, <1>4, <1>5, <1>6, <1>7, <1>8, <1>9, <1>11, <1>13 DEF Next, Serve

\* As long as no push is in service twice at once and no saved result has expired,
\* every answer to a push is the same (SyncService.Push, sync.go:41-42), whatever
\* requests of other pushes interleave, wherever one was cut short and whatever its
\* client edits before it sends it again.
THEOREM SamePushSameAnswer == Spec => SerialAnswersAgree
<1>1. Init => AgreeInv
  <2>1. ASSUME Init PROVE AgreeInv
    <3>1. \A w \in Workers : workers[w].key = NoKey
      BY <2>1, IdleType DEF Init
    <3> QED BY <2>1, <3>1 DEF Init, AgreeInv
  <2> QED BY <2>1
<1>2. AgreeInv => AnswersAgree
  BY DEF AgreeInv, AnswersAgree
<1>3. ~expired' /\ IInv /\ AgreeInv /\ OneRequestPerKey /\ [Next]_vars => AgreeInv'
  BY AgreeNext
<1> QED BY <1>1, <1>2, <1>3, InvHolds, PTL DEF Spec, SerialAnswersAgree
===============================================================================
