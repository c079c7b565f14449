------------------------------- MODULE Tui_proofs -------------------------------
(***************************************************************************)
(* Theorems about the terminal UI for every number of records, edits and    *)
(* faults, every chunk size and every error of the clock: what the screen    *)
(* shows and what the user's keys do to the store, while a sync in its      *)
(* goroutine works on the same store.                                      *)
(*                                                                         *)
(* Tui's edits fall between the steps of a sync, which Syncer's do not, so  *)
(* Syncer's invariant is shown again for the steps of the UI.               *)
(***************************************************************************)
EXTENDS Tui, Syncer_proofs

-------------------------------------------------------------------------------
(* Sequences.                                                              *)

\* What refreshRecords puts on the screen: every element once.
LEMMA Listing ==
  ASSUME NEW S \in SUBSET Ids, NEW order \in SetToSeqs(S)
  PROVE  /\ order \in Seq(S) /\ order \in Seq(Ids)
         /\ Len(order) = Cardinality(S)
         /\ {order[i] : i \in DOMAIN order} = S
<1>1. IsFiniteSet(S) /\ Cardinality(S) \in Nat
  BY IdsFinite
<1>2. /\ order \in [1..Cardinality(S) -> S]
      /\ \A i, j \in 1..Cardinality(S) : i # j => order[i] # order[j]
  BY DEF SetToSeqs
<1>3. order \in Seq(S) /\ order \in Seq(Ids) /\ Len(order) = Cardinality(S)
  BY <1>1, <1>2
<1>4. order \in Injection(1..Cardinality(S), S)
  BY <1>2 DEF Injection, IsInjective
<1>5. Cardinality(1..Cardinality(S)) = Cardinality(S)
  BY <1>1, FS_Interval
<1>6. order \in Surjection(1..Cardinality(S), S)
  BY <1>1, <1>4, <1>5, FS_Injection
<1>7. {order[i] : i \in 1..Cardinality(S)} = S
  BY <1>2, <1>6 DEF Surjection
<1> QED BY <1>2, <1>3, <1>7

\* The keys of the batches in pending.
KeysOf(pending) == {pending[i].key : i \in DOMAIN pending}

LEMMA TailKeys ==
  ASSUME NEW pending \in Seq(Pending), pending # <<>>
  PROVE  /\ Head(pending).key \in KeysOf(pending)
         /\ KeysOf(Tail(pending)) \subseteq KeysOf(pending)
         /\ KeysOf(pending) \subseteq KeysOf(Tail(pending)) \union {Head(pending).key}
<1>1. /\ Len(pending) \in Nat /\ Len(pending) >= 1 /\ DOMAIN pending = 1..Len(pending)
      /\ Head(pending) = pending[1]
      /\ DOMAIN Tail(pending) = 1..(Len(pending) - 1)
      /\ \A i \in 1..(Len(pending) - 1) : Tail(pending)[i] = pending[i + 1]
  OBVIOUS
<1>2. \A i \in DOMAIN Tail(pending) :
          i + 1 \in DOMAIN pending /\ Tail(pending)[i].key = pending[i + 1].key
  BY <1>1
<1>3. \A i \in DOMAIN pending :
          i = 1 \/ (i - 1 \in DOMAIN Tail(pending) /\ Tail(pending)[i - 1].key = pending[i].key)
  BY <1>1
<1>4. 1 \in DOMAIN pending
  BY <1>1
<1> QED
  BY <1>1, <1>2, <1>3, <1>4 DEF KeysOf

LEMMA AppendedKeys ==
  ASSUME NEW pending \in Seq(Pending), NEW entry \in Pending
  PROVE  KeysOf(Append(pending, entry)) \subseteq KeysOf(pending) \union {entry.key}
<1>1. \A i \in DOMAIN Append(pending, entry) :
          \/ i \in DOMAIN pending /\ Append(pending, entry)[i] = pending[i]
          \/ Append(pending, entry)[i] = entry
  OBVIOUS
<1> QED
  BY <1>1 DEF KeysOf

-------------------------------------------------------------------------------
(* The invariant.                                                          *)

\* m.running, in bubbletea: the process has not ended by a panic.
Awake == screen # "gone"

Recs == myStore.recs
Todo == proc[Me].todo
PendingKeys == KeysOf(myStore.pending)

\* TuiTypeOK for the variables of the UI.  A record is asked about and listed only
\* once it is in the store.
ScreenOK ==
    /\ screen \in {"list", "confirm", "detail", "type", "form", "gone"}
    /\ list \in Seq(Ids)
    /\ cursor \in Nat
    /\ subject \in 0..MaxIds
    /\ subject < nextId
    /\ seen \in Bodies
    /\ syncing \in {"no", "running", "done", "failed"}
    /\ calm \in Bodies
    /\ Awake => \A i \in DOMAIN list : list[i] \in DOMAIN Recs

\* m.syncing tells whether the goroutine is in Sync.  It has records in hand only
\* between reading and sending them, and a pull finds nothing pending.
SyncShape ==
    /\ proc[Me].at # "ready" <=> syncing = "running"
    /\ syncing = "failed" => faults > 0
    /\ proc[Me].at \in {"ready", "pull"} => Todo = NoRecords
    /\ Awake /\ proc[Me].at \in {"pull", "push"} => myStore.pending = <<>>
    /\ ~Awake => proc[Me].at = "ready"

\* The screen shows the records of the set, each once.
Shows(S) ==
    /\ Len(list) = Cardinality(S)
    /\ {list[i] : i \in DOMAIN list} = S

\* ListIsCurrent; the cursor of an empty list is at its top, where
\* the next record will be.
ListOK ==
    syncing = "no" /\ faults = 0 /\ Awake =>
        /\ Shows(Visible(myStore))
        /\ IF list = <<>> THEN cursor = 0 ELSE OnRecord

\* Record h keeps edit: it has the edit, a clean one because the server has it,
\* and neither the batch in hand nor a recorded answer nor the form leaves it out.
Home(edit, h) ==
    /\ h \in DOMAIN Recs
    /\ edit \in Recs[h].body
    /\ Recs[h].dirty \/ edit \in rows[h].body
    /\ h \in DOMAIN Todo => edit \in Todo[h].body
    /\ \A k \in PendingKeys :
           h \in AppliedIn(idem[k]) => edit \in idem[k][h].row.body /\ edit \in rows[h].body
    /\ screen = "form" /\ subject = h => edit \in seen

CalmOK == Awake => \A edit \in calm : \E h \in Ids : Home(edit, h)

TuiInv == IInv /\ ScreenOK /\ SyncShape /\ ListOK /\ CalmOK

-------------------------------------------------------------------------------
(* What the invariant says of this device.                                 *)

LEMMA MyFacts ==
  ASSUME IInv
  PROVE  /\ Me \in Devices /\ IsStore(myStore)
         /\ StoreOK(commits, seq, nextId, myStore)
         /\ AllGood(commits, seq, nextId, Recs)
         /\ AllGood(commits, seq, nextId, Todo)
         /\ DOMAIN Recs \subseteq Ids /\ DOMAIN Todo \subseteq Ids
         /\ DOMAIN proc[Me] = {"at", "iter", "todo", "conflicts"}
         /\ myStore.pending \in Seq(Pending) /\ PendingKeys \subseteq Keys
         /\ nextId \in Nat /\ nextId \notin DOMAIN Recs
         /\ edits \in 0..MaxEdits /\ faults \in Nat
<1>1. Me \in Devices
  BY TuiAssumption
<1>2. DeviceOK(Me) /\ nextId \in 1..(MaxIds + 1) /\ MaxIds \in Nat
  BY <1>1, SyncerAssumption DEF IInv, ServerOK
<1>3. /\ StoreOK(commits, seq, nextId, myStore) /\ IsStore(myStore)
      /\ AllGood(commits, seq, nextId, Recs) /\ AllGood(commits, seq, nextId, Todo)
      /\ DOMAIN proc[Me] = {"at", "iter", "todo", "conflicts"}
      /\ myStore.pending \in Seq(Pending)
  BY <1>2 DEF DeviceOK, StoreOK, IsStore, ProcOK, Pending, myStore, Recs, Todo
<1>4. DOMAIN Recs \subseteq Ids /\ DOMAIN Todo \subseteq Ids
  BY <1>3 DEF AllGood, IsMap
<1>5. nextId \notin DOMAIN Recs
  BY <1>2, <1>3 DEF AllGood, Good
<1>6. PendingKeys \subseteq Keys
  <2>1. \A i \in DOMAIN myStore.pending : myStore.pending[i] \in Pending
    BY <1>3
  <2> QED
    BY <2>1 DEF PendingKeys, KeysOf, Pending
<1>7. edits \in 0..MaxEdits /\ faults \in Nat
  BY SyncerAssumption DEF IInv, UserOK
<1> QED
  BY <1>1, <1>2, <1>3, <1>4, <1>5, <1>6, <1>7

-------------------------------------------------------------------------------
(* What an edit does to the store.                                         *)

LEMMA EditEffect ==
  ASSUME IInv, NEW id \in Ids, NEW rec, Edit(Me, id, rec)
  PROVE  /\ DOMAIN Recs' = DOMAIN Recs \union {id}
         /\ Recs'[id] = rec
         /\ \A x \in DOMAIN Recs \ {id} : Recs'[x] = Recs[x]
         /\ myStore'.pending = myStore.pending /\ myStore'.cursor = myStore.cursor
         /\ edits' = edits + 1 /\ edits + 1 \in 1..MaxEdits
         /\ UNCHANGED <<serverVars, saved, proc, faults>>
<1>1. store' = [store EXCEPT ![Me].recs = PutRecord(@, id, rec)]
  BY DEF Edit
<1>2. Me \in DOMAIN store /\ DOMAIN myStore = {"recs", "cursor", "pending"}
  BY MyFacts DEF IInv, IsStore
<1>3. /\ Recs' = PutRecord(Recs, id, rec)
      /\ myStore'.pending = myStore.pending /\ myStore'.cursor = myStore.cursor
  BY <1>1, <1>2 DEF myStore, Recs
<1>4. edits' = edits + 1 /\ edits + 1 \in 1..MaxEdits
  BY MyFacts, SyncerAssumption DEF Edit
<1> QED
  BY <1>3, <1>4 DEF PutRecord, Edit

LEMMA CreateEffect ==
  ASSUME IInv, Create(Me)
  PROVE  /\ nextId \in Ids /\ nextId' = nextId + 1
         /\ \E rec : /\ Edit(Me, nextId, rec)
                     /\ rec.body = {edits + 1} /\ rec.dirty /\ ~rec.deleted
  BY DEF Create

LEMMA UpdateEffect ==
  ASSUME IInv, NEW id, Update(Me, id, seen)
  PROVE  /\ id \in DOMAIN Recs /\ id \in Ids /\ nextId' = nextId
         /\ \E rec : /\ Edit(Me, id, rec) /\ rec.body = seen \union {edits + 1}
                     /\ rec.dirty /\ rec.deleted = Recs[id].deleted
<1>1. id \in DOMAIN Recs /\ id \in Ids /\ Recs[id] \in Stored
  BY MyFacts DEF Update, AllGood, IsMap, Recs, myStore
<1>2. \E r : /\ Edit(Me, id, r)
             /\ r = [Recs[id] EXCEPT !.body = seen \union {edits + 1},
                                     !.base = Recs[id].version,
                                     !.dirty = TRUE, !.dirtyAt = Now(Me)]
  BY DEF Update, Recs, myStore
<1>3. PICK r : /\ Edit(Me, id, r)
               /\ r = [Recs[id] EXCEPT !.body = seen \union {edits + 1},
                                       !.base = Recs[id].version,
                                       !.dirty = TRUE, !.dirtyAt = Now(Me)]
  BY <1>2
<1>4. r.body = seen \union {edits + 1} /\ r.dirty /\ r.deleted = Recs[id].deleted
  <2>1. ASSUME NEW old \in Stored, NEW b, NEW v, NEW t
        PROVE  LET new == [old EXCEPT !.body = b, !.base = v, !.dirty = TRUE, !.dirtyAt = t]
               IN  new.body = b /\ new.dirty /\ new.deleted = old.deleted
    BY DEF Stored
  <2> QED
    BY <1>1, <1>3, <2>1
<1>5. nextId' = nextId
  BY DEF Update
<1> QED
  BY <1>1, <1>3, <1>4, <1>5

LEMMA DeleteEffect ==
  ASSUME IInv, NEW id, Delete(Me, id)
  PROVE  /\ id \in DOMAIN Recs /\ id \in Ids /\ nextId' = nextId
         /\ \E rec : Edit(Me, id, rec) /\ rec.body = Recs[id].body /\ rec.dirty
<1>1. id \in DOMAIN Recs /\ id \in Ids /\ Recs[id] \in Stored
  BY MyFacts DEF Delete, AllGood, IsMap, Recs, myStore
<1>2. PICK r : /\ Edit(Me, id, r)
               /\ r = [Recs[id] EXCEPT !.deleted = TRUE, !.base = Recs[id].version,
                                       !.dirty = TRUE, !.dirtyAt = Now(Me)]
  BY DEF Delete, Recs, myStore
<1>3. r.body = Recs[id].body /\ r.dirty
  <2>1. ASSUME NEW old \in Stored, NEW v, NEW t
        PROVE  LET new == [old EXCEPT !.deleted = TRUE, !.base = v, !.dirty = TRUE, !.dirtyAt = t]
               IN  new.body = old.body /\ new.dirty
    BY DEF Stored
  <2> QED
    BY <1>1, <1>2, <2>1
<1>4. nextId' = nextId
  BY DEF Delete
<1> QED
  BY <1>1, <1>2, <1>3, <1>4

-------------------------------------------------------------------------------
(* What a step of the sync does to the server and to the store.            *)

\* The rows and commits after a batch, and the answer.
LEMMA ServeEffect ==
  ASSUME IInv, NEW batch, AllGood(commits, seq, nextId, batch), Serve(batch)
  PROVE  /\ Applicable(batch) \subseteq DOMAIN batch /\ DOMAIN batch \subseteq Ids
         /\ \A id \in Ids \ Applicable(batch) : rows'[id] = rows[id]
         /\ \A id \in Applicable(batch) : rows'[id].body = batch[id].body
         /\ AppliedIn(Results(batch)) = Applicable(batch)
         /\ \A id \in Applicable(batch) : Results(batch)[id].row = rows'[id]
         /\ \A c \in commits' \ commits : \E x \in DOMAIN batch : c.row.body = batch[x].body
<1>1. Applicable(batch) \subseteq DOMAIN batch /\ DOMAIN batch \subseteq Ids
  BY DEF Applicable, AllGood, IsMap
<1>2. /\ \A id \in Ids \ Applicable(batch) : rows'[id] = rows[id]
      /\ \A id \in Applicable(batch) : rows'[id].body = batch[id].body
  BY <1>1 DEF Serve, RowsAfter
<1>3. /\ DOMAIN Results(batch) = DOMAIN batch
      /\ \A id \in DOMAIN batch : /\ Results(batch)[id].applied = (id \in Applicable(batch))
                                  /\ Results(batch)[id].row = rows'[id]
  BY DEF Results, Serve
<1>4. AppliedIn(Results(batch)) = Applicable(batch)
  BY <1>1, <1>3 DEF AppliedIn
<1>5. \A c \in commits' \ commits : \E x \in Applicable(batch) : c.row = rows'[x]
  BY DEF Serve
<1> QED
  BY <1>1, <1>2, <1>3, <1>4, <1>5

\* A step without a push is one with an empty batch.
LEMMA NothingServed ==
  ASSUME IInv, UNCHANGED <<rows, seq, commits>>
  PROVE  /\ Serve(NoRecords) /\ AllGood(commits, seq, nextId, NoRecords)
         /\ DOMAIN NoRecords = {} /\ Applicable(NoRecords) = {}
<1>1. DOMAIN NoRecords = {} /\ Applicable(NoRecords) = {}
  BY Empty DEF Applicable
<1>2. RowsAfter(NoRecords) = rows
  BY <1>1 DEF RowsAfter, IInv, ServerOK, RowsOK
<1>3. Cardinality(Applicable(NoRecords)) = 0 /\ seq \in Nat
  BY <1>1, FS_EmptySet DEF IInv, ServerOK
<1> QED
  BY <1>1, <1>2, <1>3, EmptyGood DEF Serve

\* Some of the records in hand.
InHand(batch) ==
    AllGood(commits, seq, nextId, batch)
    /\ \A x \in DOMAIN batch : x \in DOMAIN Todo /\ batch[x] = Todo[x]

\* What every step of the sync but a pull does: the server serves a batch of what is
\* in hand, the store takes over the results of that or of an earlier push, and what
\* stays in hand was there or is read from the store.  A recorded answer is applied
\* or stays, and one that is new is about the batch.
Exchange(batch, results) ==
    /\ InHand(batch) /\ Serve(batch)
    /\ \/ results = Results(batch)
       \/ \E k \in PendingKeys : results = idem[k]
       \/ AppliedIn(results) = {}
    /\ DOMAIN Recs' = DOMAIN Recs \union AppliedIn(results)
    /\ \A x \in AppliedIn(results) :
           /\ Recs'[x] = FromServer(results[x].row)
           /\ results[x].row.version <= myStore'.cursor
    /\ \A x \in DOMAIN Recs \ AppliedIn(results) : Recs'[x] = Recs[x]
    /\ myStore.cursor <= myStore'.cursor
    /\ \A k \in PendingKeys' :
           \/ k \in PendingKeys /\ idem'[k] = idem[k]
           \/ idem'[k] = Results(batch)
           \/ AppliedIn(idem'[k]) = {}
    /\ \A k \in PendingKeys :
           \/ AppliedIn(idem[k]) = {}
           \/ k \in PendingKeys' /\ idem'[k] = idem[k]
           \/ results = idem[k]
    /\ \A x \in DOMAIN Todo' :
           \/ x \in DOMAIN Todo /\ Todo'[x] = Todo[x]
           \/ x \in DOMAIN Recs' /\ Todo'[x] = Recs'[x]
    /\ \/ results = Results(batch)
       \/ Applicable(batch) = {}
       \/ \E k \in PendingKeys' : idem'[k] = Results(batch)
       \/ "unrecorded" \in Faults

\* What stays as it is, and the device's part of SyncShape.
Frame ==
    /\ nextId' = nextId /\ UNCHANGED userVars
    /\ proc'[Me].at \in {"ready", "pull"} => Todo' = NoRecords
    /\ proc'[Me].at \in {"pull", "push"} => myStore'.pending = <<>>

\* The store after the results of a push.
LEMMA ApplyEffect ==
  ASSUME IInv, NEW results, ResultsOK(commits', results), ServerOK', GrowsNow,
         Recs' = ApplyResults(myStore, results).recs,
         myStore'.cursor = ApplyResults(myStore, results).cursor
  PROVE  /\ DOMAIN Recs' = DOMAIN Recs \union AppliedIn(results)
         /\ \A x \in AppliedIn(results) :
                /\ Recs'[x] = FromServer(results[x].row)
                /\ results[x].row.version <= myStore'.cursor
         /\ \A x \in DOMAIN Recs \ AppliedIn(results) : Recs'[x] = Recs[x]
         /\ myStore.cursor <= myStore'.cursor
<1>1. StoreOK(commits', seq', nextId', myStore) /\ IsStore(myStore)
  BY MyFacts, StoreStays DEF GrowsNow
<1>2. /\ myStore.cursor <= myStore'.cursor
      /\ \A x \in AppliedIn(results) : results[x].row.version <= myStore'.cursor
  BY <1>1, AppliedCursor DEF ServerOK
<1>3. Recs' = [x \in DOMAIN Recs \union AppliedIn(results) |->
                  IF x \in AppliedIn(results) THEN FromServer(results[x].row) ELSE Recs[x]]
  BY <1>1 DEF ApplyResults, IsStore, Recs
<1> QED
  BY <1>2, <1>3

\* The first step of a sync, and the one after each replay.
LEMMA NextBatch ==
  ASSUME IInv, proc' = [proc EXCEPT ![Me] = ReplayOrPull(myStore')]
  PROVE  /\ proc'[Me].at \in {"pull", "replay"}
         /\ proc'[Me].at = "pull" => Todo' = NoRecords /\ myStore'.pending = <<>>
         /\ \A x \in DOMAIN Todo' : x \in DOMAIN Recs' /\ Todo'[x] = Recs'[x]
<1>1. proc'[Me] = ReplayOrPull(myStore')
  BY MyFacts DEF IInv
<1>2. ASSUME NEW s
      PROVE  \/ /\ s.pending = <<>>
                /\ ReplayOrPull(s).at = "pull" /\ ReplayOrPull(s).todo = NoRecords
             \/ /\ ReplayOrPull(s).at = "replay"
                /\ ReplayOrPull(s).todo
                       = Restrict(s.recs, Head(s.pending).ids \intersect DOMAIN s.recs)
  <2>1. CASE s.pending = <<>>
    BY <2>1 DEF ReplayOrPull, Ready
  <2>2. CASE s.pending # <<>>
    BY <2>2 DEF ReplayOrPull, Ready
  <2> QED
    BY <2>1, <2>2
<1>3. \/ /\ myStore'.pending = <<>>
         /\ proc'[Me].at = "pull" /\ Todo' = NoRecords
      \/ /\ proc'[Me].at = "replay"
         /\ Todo' = Restrict(Recs', Head(myStore'.pending).ids \intersect DOMAIN Recs')
  BY <1>1, <1>2 DEF Todo, Recs
<1> QED
  BY <1>3, Empty DEF Restrict

LEMMA ReplayEffect ==
  ASSUME IInv, IInv', Replay(Me)
  PROVE  Frame /\ proc'[Me].at # "ready" /\ faults' = faults
         /\ \E batch, results : Exchange(batch, results)
<1> DEFINE key == Head(myStore.pending).key
           results == IF Recorded(key) THEN idem[key] ELSE Results(Todo)
           after == [ApplyResults(myStore, results) EXCEPT !.pending = Tail(@)]
<1>1. /\ proc[Me].at = "replay" /\ UNCHANGED <<saved, userVars, faults, nextId>>
      /\ store' = [store EXCEPT ![Me] = after]
      /\ proc' = [proc EXCEPT ![Me] = ReplayOrPull(after)]
      /\ IF Recorded(key)
         THEN UNCHANGED serverVars
         ELSE Serve(Todo) /\ idem' = [idem EXCEPT ![key] = results]
  BY DEF Replay, myStore, Todo
<1>2. /\ myStore.pending # <<>> /\ myStore.pending \in Seq(Pending)
      /\ IsStore(myStore) /\ Me \in DOMAIN store
  BY <1>1, MyFacts DEF IInv, DeviceOK, ProcOK, myStore
<1>3. /\ key \in PendingKeys /\ key \in Keys
      /\ KeysOf(Tail(myStore.pending)) \subseteq PendingKeys
      /\ PendingKeys \subseteq KeysOf(Tail(myStore.pending)) \union {key}
  BY <1>2, TailKeys, MyFacts DEF PendingKeys
<1>4. myStore' = after
  BY <1>1, <1>2 DEF myStore
<1>5. /\ Recs' = ApplyResults(myStore, results).recs
      /\ myStore'.cursor = ApplyResults(myStore, results).cursor
      /\ myStore'.pending = Tail(myStore.pending)
  <2>1. /\ DOMAIN ApplyResults(myStore, results) = {"recs", "cursor", "pending"}
        /\ ApplyResults(myStore, results).pending = myStore.pending
    BY <1>2 DEF ApplyResults, IsStore
  <2> HIDE DEF results
  <2> QED
    BY <1>4, <2>1 DEF Recs
<1>6. PendingKeys' \subseteq PendingKeys /\ PendingKeys \subseteq PendingKeys' \union {key}
  BY <1>3, <1>5 DEF PendingKeys
<1>7. proc' = [proc EXCEPT ![Me] = ReplayOrPull(myStore')]
  BY <1>1, <1>4
<1>8. Frame /\ proc'[Me].at # "ready" /\ faults' = faults
  BY <1>1, <1>7, NextBatch DEF Frame
<1> DEFINE batch == IF Recorded(key) THEN NoRecords ELSE Todo
<1>9. InHand(batch) /\ Serve(batch) /\ ServerOK'
  <2>1. CASE Recorded(key)
    <3>1. InHand(NoRecords) /\ Serve(NoRecords)
      BY <1>1, <2>1, NothingServed DEF InHand, serverVars
    <3> QED
      BY <2>1, <3>1 DEF IInv
  <2>2. CASE ~Recorded(key)
    BY <1>1, <2>2, MyFacts DEF InHand, IInv
  <2> QED
    BY <2>1, <2>2
<1>10. GrowsNow
  BY <1>1, <1>9, ServeOK DEF InHand, IInv
<1>11. ResultsOK(commits', results)
  <2>1. CASE Recorded(key)
    BY <1>1, <1>3, <2>1 DEF serverVars, IInv, ServerOK
  <2>2. CASE ~Recorded(key)
    BY <1>1, <1>9, <2>2, ServeOK DEF InHand, IInv
  <2> QED
    BY <2>1, <2>2
<1>12. \A k \in PendingKeys \ {key} : idem'[k] = idem[k]
  <2> HIDE DEF key, results
  <2> QED
    BY <1>1, MyFacts DEF serverVars, IInv, ServerOK
<1>13. CASE Recorded(key)
  <2>1. results = idem[key] /\ batch = NoRecords /\ idem' = idem
    BY <1>1, <1>13 DEF serverVars
  <2>2. Applicable(batch) = {}
    BY <2>1, Empty DEF Applicable
  <2> HIDE DEF key, results, batch
  <2>3. Exchange(batch, results)
    BY <1>3, <1>5, <1>6, <1>7, <1>9, <1>10, <1>11, <2>1, <2>2, ApplyEffect, NextBatch
       DEF Exchange
  <2> QED
    BY <1>8, <2>3
<1>14. CASE ~Recorded(key)
  <2>1. results = Results(batch) /\ AppliedIn(idem[key]) = {}
    BY <1>14 DEF Recorded, AppliedIn
  <2>2. idem'[key] = results
    BY <1>1, <1>3, <1>14 DEF IInv, ServerOK
  <2> HIDE DEF key, results, batch
  <2>3. Exchange(batch, results)
    BY <1>3, <1>5, <1>6, <1>7, <1>9, <1>10, <1>11, <1>12, <2>1, <2>2, ApplyEffect, NextBatch
       DEF Exchange
  <2> QED
    BY <1>8, <2>3
<1> QED
  BY <1>13, <1>14

LEMMA FinishEffect ==
  ASSUME IInv, Finish(Me)
  PROVE  proc'[Me].at = "ready" /\ Todo' = NoRecords
  BY MyFacts, ReadyOK DEF Finish, IInv, Todo

LEMMA FaultEffect ==
  ASSUME IInv, NEW kind, Fault(kind)
  PROVE  faults' = faults + 1 /\ faults' # faults /\ kind \in Faults
  BY MyFacts DEF Fault

\* Nothing is sent.
LEMMA RefusedEffect ==
  ASSUME IInv, Refused(Me)
  PROVE  Frame /\ faults' = faults + 1 /\ \E batch, results : Exchange(batch, results)
<1>1. /\ Finish(Me) /\ faults' = faults + 1
      /\ UNCHANGED <<rows, seq, idem, commits, store, saved, userVars, nextId>>
  BY FaultEffect DEF Refused, serverVars
<1>2. proc'[Me].at = "ready" /\ Todo' = NoRecords
  BY <1>1, FinishEffect
<1>3. InHand(NoRecords) /\ Serve(NoRecords) /\ Applicable(NoRecords) = {}
  BY <1>1, NothingServed DEF InHand
<1>4. myStore' = myStore /\ Recs' = Recs /\ PendingKeys' = PendingKeys /\ AppliedIn(NoResult) = {}
  BY <1>1, Empty DEF myStore, Recs, PendingKeys
<1>5. myStore.cursor <= myStore.cursor
  BY MyFacts DEF IsStore
<1>6. Exchange(NoRecords, NoResult)
  BY <1>1, <1>2, <1>3, <1>4, <1>5, Empty DEF Exchange
<1> QED
  BY <1>1, <1>2, <1>6 DEF Frame

LEMMA ChunkInHand ==
  ASSUME IInv, NEW chunk \in Chunks(Me)
  PROVE  InHand(chunk)
<1>1. PICK S \in SUBSET DOMAIN Todo : chunk = Restrict(Todo, S)
  BY DEF Chunks, kSubset, Todo
<1>2. \A x \in DOMAIN chunk : x \in DOMAIN Todo /\ chunk[x] = Todo[x]
  BY <1>1 DEF Restrict
<1> QED
  BY <1>2, ChunkOK, MyFacts DEF InHand

LEMMA PushEffect ==
  ASSUME IInv, IInv', SyncShape, Push(Me)
  PROVE  Frame /\ faults' = faults /\ \E batch, results : Exchange(batch, results)
<1>1. PICK chunk \in Chunks(Me) :
          LET results == Results(chunk)
              todo == Without(proc[Me].todo, chunk)
              conflicts == proc[Me].conflicts \/ HadConflicts(results)
          IN  /\ Serve(chunk)
              /\ store' = [store EXCEPT ![Me] = ApplyResults(@, results)]
              /\ IF todo # NoRecords
                 THEN proc' = [proc EXCEPT ![Me].todo = todo, ![Me].conflicts = conflicts]
                 ELSE IF conflicts /\ proc[Me].iter < MaxIterations
                 THEN proc' = [proc EXCEPT ![Me] =
                                  [Ready EXCEPT !.at = "pull", !.iter = proc[Me].iter + 1]]
                 ELSE Finish(Me)
  BY DEF Push
<1> DEFINE results == Results(chunk)
           todo == Without(Todo, chunk)
<1>2. /\ proc[Me].at = "push" /\ UNCHANGED <<idem, saved, userVars, faults, nextId>>
      /\ Serve(chunk) /\ store' = [store EXCEPT ![Me] = ApplyResults(@, results)]
  BY <1>1 DEF Push
<1>3. InHand(chunk) /\ ResultsOK(commits', results) /\ GrowsNow
  BY <1>2, ChunkInHand, ServeOK DEF InHand, IInv
<1>4. myStore' = ApplyResults(myStore, results) /\ IsStore(myStore) /\ myStore.pending = <<>>
  BY <1>2, MyFacts DEF myStore, IInv, SyncShape, Awake
<1>5. myStore'.pending = <<>>
  BY <1>4 DEF ApplyResults, IsStore
<1>6. PendingKeys' = {} /\ PendingKeys = {}
  BY <1>4, <1>5 DEF PendingKeys, KeysOf
<1>7. /\ proc'[Me].at \in {"ready", "pull"} => Todo' = NoRecords
      /\ \A x \in DOMAIN Todo' : x \in DOMAIN Todo /\ Todo'[x] = Todo[x]
  <2>1. \A x \in DOMAIN todo : x \in DOMAIN Todo /\ todo[x] = Todo[x]
    BY DEF Without, Restrict
  <2>2. CASE proc' = [proc EXCEPT ![Me].todo = todo,
                                  ![Me].conflicts = proc[Me].conflicts \/ HadConflicts(results)]
    <3>1. Todo' = todo /\ proc'[Me].at = "push"
      BY <1>2, <2>2, MyFacts DEF IInv, Todo
    <3> QED
      BY <2>1, <3>1
  <2>3. CASE proc' = [proc EXCEPT ![Me] = [Ready EXCEPT !.at = "pull", !.iter = proc[Me].iter + 1]]
    <3>1. Todo' = NoRecords
      BY <2>3, MyFacts DEF IInv, Todo, Ready
    <3> QED
      BY <3>1, Empty
  <2>4. CASE Finish(Me)
    BY <2>4, FinishEffect, Empty
  <2> QED
    BY <1>1, <2>2, <2>3, <2>4 DEF Todo
<1> HIDE DEF results, todo
<1>8. Recs' = ApplyResults(myStore, results).recs
      /\ myStore'.cursor = ApplyResults(myStore, results).cursor
  BY <1>4 DEF Recs
<1>9. Exchange(chunk, results)
  BY <1>2, <1>3, <1>6, <1>7, <1>8, ApplyEffect DEF Exchange, results, IInv
<1> QED
  BY <1>2, <1>5, <1>7, <1>9 DEF Frame

\* The device's side of a push without an answer.
LEMMA UnacknowledgedEffect ==
  ASSUME IInv, SyncShape, proc[Me].at = "push", NEW chunk \in Chunks(Me), Unacknowledged(Me, chunk)
  PROVE  /\ Frame /\ Todo' = NoRecords /\ NewKey \in Keys
         /\ Recs' = Recs /\ myStore'.cursor = myStore.cursor
         /\ PendingKeys = {} /\ PendingKeys' \subseteq {NewKey}
<1> DEFINE entry == [key |-> NewKey, ids |-> DOMAIN chunk]
<1>1. /\ store' = [store EXCEPT ![Me].pending = Append(@, entry)]
      /\ Finish(Me) /\ UNCHANGED <<saved, userVars, nextId>> /\ NewKey \in Keys
  BY NewKeyIsKey DEF Unacknowledged
<1>2. myStore.pending = <<>> /\ IsStore(myStore)
  BY MyFacts DEF SyncShape
<1>3. /\ Recs' = Recs /\ myStore'.cursor = myStore.cursor
      /\ myStore'.pending = Append(myStore.pending, entry)
  BY <1>1, <1>2, MyFacts DEF Recs, myStore, IInv, IsStore
<1>4. entry \in Pending /\ entry.key = NewKey
  <2>1. DOMAIN chunk \in SUBSET Ids
    BY ChunkOK, MyFacts DEF AllGood, IsMap
  <2> QED
    BY <1>1, <2>1 DEF Pending
<1> HIDE DEF entry
<1>5. PendingKeys = {} /\ PendingKeys' \subseteq PendingKeys \union {NewKey}
  BY <1>2, <1>3, <1>4, AppendedKeys, MyFacts DEF PendingKeys, KeysOf
<1>6. proc'[Me].at = "ready" /\ Todo' = NoRecords
  BY <1>1, FinishEffect
<1> QED
  BY <1>1, <1>3, <1>5, <1>6 DEF Frame

LEMMA PushRefusedEffect ==
  ASSUME IInv, SyncShape, PushRefused(Me)
  PROVE  Frame /\ faults' = faults + 1 /\ \E batch, results : Exchange(batch, results)
<1>1. PICK chunk \in Chunks(Me) : Unacknowledged(Me, chunk)
  BY DEF PushRefused
<1>2. /\ proc[Me].at = "push" /\ faults' = faults + 1 /\ UNCHANGED <<rows, seq, commits>>
      /\ idem' = [idem EXCEPT ![NewKey] = NoResult]
  BY FaultEffect DEF PushRefused
<1>3. /\ Frame /\ Todo' = NoRecords /\ NewKey \in Keys
      /\ Recs' = Recs /\ myStore'.cursor = myStore.cursor
      /\ PendingKeys = {} /\ PendingKeys' \subseteq {NewKey}
  BY <1>1, <1>2, UnacknowledgedEffect
<1>4. idem'[NewKey] = NoResult /\ AppliedIn(NoResult) = {}
  BY <1>2, <1>3, Empty DEF IInv, ServerOK
<1>5. InHand(NoRecords) /\ Serve(NoRecords) /\ Applicable(NoRecords) = {}
  BY <1>2, NothingServed DEF InHand
<1>6. myStore.cursor <= myStore.cursor
  BY MyFacts DEF IsStore
<1>7. Exchange(NoRecords, NoResult)
  BY <1>3, <1>4, <1>5, <1>6, Empty DEF Exchange
<1> QED
  BY <1>2, <1>3, <1>7

\* What the server did of a batch that was not answered.
LEMMA UnansweredEffect ==
  ASSUME IInv, NEW batch, InHand(batch), NEW key \in Keys, Unanswered(batch, key)
  PROVE  /\ faults' = faults + 1
         /\ \A k \in Keys \ {key} : idem'[k] = idem[k]
         /\ \E part :
                /\ InHand(part) /\ Serve(part)
                /\ \/ idem'[key] = Results(part)
                   \/ AppliedIn(idem'[key]) = {} /\ "unrecorded" \in Faults
<1>1. CASE /\ Fault("lost") /\ Serve(batch)
           /\ idem' = [idem EXCEPT ![key] = Results(batch)]
  BY <1>1, FaultEffect DEF IInv, ServerOK
<1>2. CASE /\ Fault("unrecorded")
           /\ \E part \in SUBSET DOMAIN batch : Serve(Restrict(batch, part))
           /\ idem' = [idem EXCEPT ![key] = NoResult]
  <2>1. PICK S \in SUBSET DOMAIN batch : Serve(Restrict(batch, S))
    BY <1>2
  <2>2. /\ AllGood(commits, seq, nextId, Restrict(batch, S))
        /\ \A x \in DOMAIN Restrict(batch, S) :
               x \in DOMAIN batch /\ Restrict(batch, S)[x] = batch[x]
    BY RestrictGood DEF InHand, Restrict
  <2>3. InHand(Restrict(batch, S))
    BY <2>2 DEF InHand
  <2>4. AppliedIn(idem'[key]) = {} /\ \A k \in Keys \ {key} : idem'[k] = idem[k]
    BY <1>2, Empty DEF IInv, ServerOK
  <2> QED
    BY <1>2, <2>1, <2>3, <2>4, FaultEffect
<1> QED
  BY <1>1, <1>2 DEF Unanswered

LEMMA PushLostEffect ==
  ASSUME IInv, SyncShape, PushLost(Me)
  PROVE  Frame /\ faults' = faults + 1 /\ \E batch, results : Exchange(batch, results)
<1>1. PICK chunk \in Chunks(Me) : Unacknowledged(Me, chunk) /\ Unanswered(chunk, NewKey)
  BY DEF PushLost
<1>2. /\ Frame /\ Todo' = NoRecords /\ NewKey \in Keys
      /\ Recs' = Recs /\ myStore'.cursor = myStore.cursor
      /\ PendingKeys = {} /\ PendingKeys' \subseteq {NewKey}
  BY <1>1, UnacknowledgedEffect DEF PushLost
<1>3. /\ faults' = faults + 1
      /\ \E part : /\ InHand(part) /\ Serve(part)
                   /\ \/ idem'[NewKey] = Results(part)
                      \/ AppliedIn(idem'[NewKey]) = {} /\ "unrecorded" \in Faults
  BY <1>1, <1>2, ChunkInHand, UnansweredEffect
<1>4. PICK part : /\ InHand(part) /\ Serve(part)
                  /\ \/ idem'[NewKey] = Results(part)
                     \/ AppliedIn(idem'[NewKey]) = {} /\ "unrecorded" \in Faults
  BY <1>3
<1>5. NewKey \in PendingKeys'
  <2>1. myStore'.pending = Append(myStore.pending, [key |-> NewKey, ids |-> DOMAIN chunk])
    BY <1>1, MyFacts DEF Unacknowledged, myStore, IInv, IsStore
  <2>2. /\ Len(myStore.pending) + 1 \in DOMAIN myStore'.pending
        /\ myStore'.pending[Len(myStore.pending) + 1].key = NewKey
    BY <2>1, MyFacts
  <2> QED
    BY <2>2 DEF PendingKeys, KeysOf
<1>6. myStore.cursor <= myStore.cursor /\ AppliedIn(NoResult) = {}
  BY MyFacts, Empty DEF IsStore
<1>7. Exchange(part, NoResult)
  BY <1>2, <1>4, <1>5, <1>6, Empty DEF Exchange
<1> QED
  BY <1>2, <1>3, <1>7

LEMMA ReplayLostEffect ==
  ASSUME IInv, ReplayLost(Me)
  PROVE  Frame /\ faults' = faults + 1 /\ \E batch, results : Exchange(batch, results)
<1> DEFINE key == Head(myStore.pending).key
<1>1. /\ proc[Me].at = "replay" /\ ~Recorded(key) /\ Unanswered(Todo, key) /\ Finish(Me)
      /\ UNCHANGED <<store, saved, userVars, nextId>>
  BY DEF ReplayLost, Todo, myStore
<1>2. myStore.pending # <<>> /\ myStore.pending \in Seq(Pending) /\ InHand(Todo)
  BY <1>1, MyFacts DEF IInv, DeviceOK, ProcOK, myStore, InHand
<1>3. key \in PendingKeys /\ key \in Keys
  BY <1>2, TailKeys, MyFacts DEF PendingKeys
<1>4. AppliedIn(idem[key]) = {}
  BY <1>1 DEF Recorded, AppliedIn
<1> HIDE DEF key
<1>5. /\ faults' = faults + 1
      /\ \A k \in Keys \ {key} : idem'[k] = idem[k]
      /\ \E part : /\ InHand(part) /\ Serve(part)
                   /\ \/ idem'[key] = Results(part)
                      \/ AppliedIn(idem'[key]) = {} /\ "unrecorded" \in Faults
  BY <1>1, <1>2, <1>3, UnansweredEffect
<1>6. PICK part : /\ InHand(part) /\ Serve(part)
                  /\ \/ idem'[key] = Results(part)
                     \/ AppliedIn(idem'[key]) = {} /\ "unrecorded" \in Faults
  BY <1>5
<1>7. myStore' = myStore /\ Recs' = Recs /\ PendingKeys' = PendingKeys
  BY <1>1 DEF myStore, Recs, PendingKeys
<1>8. proc'[Me].at = "ready" /\ Todo' = NoRecords
  BY <1>1, FinishEffect
<1>9. myStore.cursor <= myStore.cursor /\ AppliedIn(NoResult) = {} /\ PendingKeys \subseteq Keys
  BY MyFacts, Empty DEF IsStore
<1>10. Exchange(part, NoResult)
  BY <1>3, <1>4, <1>5, <1>6, <1>7, <1>8, <1>9, Empty DEF Exchange
<1> QED
  BY <1>1, <1>5, <1>8, <1>10 DEF Frame

\* A pull leaves the server alone.  A record stays in its place unless the server has
\* another version, and then the local one stays, moves to a copy or was clean.
LEMMA PullEffect ==
  ASSUME IInv, SyncShape, Pull(Me)
  PROVE  /\ UNCHANGED <<rows, idem, commits, userVars, faults>> /\ nextId <= nextId'
         /\ myStore'.pending = <<>> /\ myStore.pending = <<>>
         /\ myStore.cursor <= myStore'.cursor
         /\ \A id \in Ids : rows[id].version <= myStore'.cursor
         /\ DOMAIN Recs \subseteq DOMAIN Recs'
         /\ \A h \in DOMAIN Recs :
                \/ Recs'[h] = Recs[h]
                \/ Recs'[h] = FromServer(rows[h]) /\ ~Recs[h].dirty
                \/ Recs'[h].body = Recs[h].body /\ Recs'[h].dirty
                \/ \E new \in DOMAIN Recs' : /\ Recs'[new].body = Recs[h].body
                                             /\ Recs'[new].dirty /\ new >= nextId
         /\ \A x \in DOMAIN Recs' : \/ \E h \in DOMAIN Recs : Recs'[x].body = Recs[h].body
                                    \/ \E id \in Ids : /\ Recs'[x].body = rows[id].body
                                                       /\ Committed(commits, id, rows[id])
         /\ \A x \in DOMAIN Todo' : x \in DOMAIN Recs' /\ Todo'[x] = Recs'[x]
         /\ proc'[Me].at \in {"ready", "pull"} => Todo' = NoRecords
<1>1. /\ UNCHANGED <<rows, idem, commits, userVars, faults>> /\ proc[Me].at = "pull"
      /\ nextId' = nextId + Cardinality(Copied(Me)) /\ CopyIds(Me) \subseteq Ids
      /\ myStore' = AfterPull(Me)
  BY MyFacts DEF Pull, serverVars, IInv, myStore
<1>2. nextId \in Nat /\ nextId <= nextId' /\ \A x \in Copied(Me) : CopyId(Me, x) >= nextId
  BY <1>1, MyFacts, CopyIdsNew
<1>3. /\ IsStore(myStore) /\ DOMAIN Recs \subseteq Ids
      /\ \A h \in DOMAIN Recs : h \in Int /\ h < nextId /\ Recs[h] \in Stored
  BY MyFacts DEF AllGood, Good, IsMap, Ids
<1>4. /\ Recs' = [x \in DOMAIN Recs \union Incoming(Me) \union CopyIds(Me) |->
                     IF x \in CopyIds(Me) THEN CopyAt(Me, x)
                     ELSE IF x \in Incoming(Me) THEN Merged(Me, x)
                     ELSE Recs[x]]
      /\ myStore'.pending = myStore.pending
  BY <1>1, <1>3 DEF AfterPull, IsStore, Recs, myStore
<1>5. myStore.pending = <<>>
  BY <1>1 DEF SyncShape
<1>6. /\ myStore.cursor <= myStore'.cursor
      /\ \A id \in Ids : rows[id].version <= myStore'.cursor
  <2>1. /\ myStore'.cursor \in Nat /\ myStore.cursor <= myStore'.cursor
        /\ \A id \in Incoming(Me) : rows[id].version <= myStore'.cursor
    BY <1>1, MyFacts, PulledCursor DEF myStore
  <2>2. ASSUME NEW id \in Ids, id \notin Incoming(Me)
        PROVE  rows[id].version <= myStore'.cursor
    <3>1. ~(rows[id].version > myStore.cursor)
      BY <2>2 DEF Incoming, myStore
    <3>2. rows[id].version \in Nat /\ myStore.cursor \in Nat
      BY <2>2, <1>3 DEF IInv, ServerOK, RowsOK, Row, IsStore
    <3> QED
      BY <2>1, <3>1, <3>2
  <2> QED
    BY <2>1, <2>2
<1>7. \A x \in CopyIds(Me) :
          \E from \in Copied(Me) : CopyId(Me, from) = x /\ Recs'[x] = ConflictCopy(Me, from)
  <2> SUFFICES ASSUME NEW x \in CopyIds(Me)
               PROVE  \E from \in Copied(Me) :
                          CopyId(Me, from) = x /\ Recs'[x] = ConflictCopy(Me, from)
    OBVIOUS
  <2> DEFINE from == CHOOSE id \in Copied(Me) : CopyId(Me, id) = x
  <2>1. from \in Copied(Me) /\ CopyId(Me, from) = x
    BY DEF CopyIds
  <2>2. Recs'[x] = ConflictCopy(Me, from)
    BY <1>4 DEF CopyAt
  <2> QED
    BY <2>1, <2>2
<1>8. \A from \in Copied(Me) :
          /\ from \in DOMAIN Recs /\ from \in Incoming(Me) /\ Recs[from].dirty
          /\ CopyId(Me, from) \in CopyIds(Me)
  BY DEF Copied, InConflict, CopyIds, Recs, myStore
<1>9. \A h \in DOMAIN Recs : h \notin CopyIds(Me)
  BY <1>2, <1>3, <1>7
<1>10. ASSUME NEW from \in Copied(Me)
       PROVE  /\ ~LocalDeleteWins(Recs[from], rows[from]) =>
                     /\ ConflictCopy(Me, from).body = Recs[from].body
                     /\ ConflictCopy(Me, from).dirty
              /\ LocalDeleteWins(Recs[from], rows[from]) =>
                     ConflictCopy(Me, from).body = rows[from].body
  <2>1. from \in DOMAIN Recs /\ Recs[from] \in Stored /\ Recs[from].dirty
    BY <1>3, <1>8
  <2>2. ASSUME NEW old \in Stored, old.dirty
        PROVE  [old EXCEPT !.base = 0].body = old.body /\ [old EXCEPT !.base = 0].dirty
    BY <2>2 DEF Stored
  <2>3. ASSUME NEW row, NEW t
        PROVE  [FromServer(row) EXCEPT !.dirty = TRUE, !.dirtyAt = t].body = row.body
    BY DEF FromServer
  <2> QED
    BY <2>1, <2>2, <2>3 DEF ConflictCopy, Recs, myStore
<1>11. ASSUME NEW h \in Incoming(Me)
       PROVE  \/ /\ h \in DOMAIN Recs /\ ~Recs[h].dirty
                 /\ Merged(Me, h) = FromServer(rows[h])
              \/ h \notin DOMAIN Recs /\ Merged(Me, h) = FromServer(rows[h])
              \/ /\ h \in DOMAIN Recs /\ Recs[h].dirty
                 /\ Merged(Me, h).body = Recs[h].body /\ Merged(Me, h).dirty
              \/ /\ h \in DOMAIN Recs /\ Merged(Me, h) = FromServer(rows[h])
                 /\ h \in Copied(Me) /\ ~LocalDeleteWins(Recs[h], rows[h])
  <2>1. CASE ~InConflict(Me, h)
    BY <2>1 DEF InConflict, Merged, Recs, myStore
  <2>2. CASE InConflict(Me, h) /\ ServerWins(Recs[h], rows[h])
    <3>1. h \in DOMAIN Recs /\ Merged(Me, h) = FromServer(rows[h]) /\ h \in Copied(Me)
      BY <2>2 DEF InConflict, Merged, Copied, Recs, myStore
    <3>2. ~LocalDeleteWins(Recs[h], rows[h])
      BY <2>2 DEF ServerWins, LocalDeleteWins
    <3> QED
      BY <3>1, <3>2
  <2>3. CASE InConflict(Me, h) /\ ~ServerWins(Recs[h], rows[h])
    <3>1. h \in DOMAIN Recs /\ Recs[h].dirty /\ Recs[h] \in Stored
      BY <1>3, <2>3 DEF InConflict, Recs, myStore
    <3>2. Merged(Me, h) = [Recs[h] EXCEPT !.base = rows[h].version]
      BY <2>3 DEF Merged, Recs, myStore
    <3>3. Merged(Me, h).body = Recs[h].body /\ Merged(Me, h).dirty
      <4>1. ASSUME NEW old \in Stored, old.dirty, NEW v
            PROVE  [old EXCEPT !.base = v].body = old.body /\ [old EXCEPT !.base = v].dirty
        BY <4>1 DEF Stored
      <4> QED
        BY <3>1, <3>2, <4>1
    <3> QED
      BY <3>1, <3>3
  <2> QED
    BY <2>1, <2>2, <2>3
<1>12. ASSUME NEW h \in DOMAIN Recs
       PROVE  \/ Recs'[h] = Recs[h]
              \/ Recs'[h] = FromServer(rows[h]) /\ ~Recs[h].dirty
              \/ Recs'[h].body = Recs[h].body /\ Recs'[h].dirty
              \/ \E new \in DOMAIN Recs' : /\ Recs'[new].body = Recs[h].body
                                           /\ Recs'[new].dirty /\ new >= nextId
  <2>1. CASE h \notin Incoming(Me)
    BY <1>4, <1>9, <2>1
  <2>2. CASE h \in Incoming(Me)
    <3>1. Recs'[h] = Merged(Me, h)
      BY <1>4, <1>9, <2>2
    <3>2. CASE h \in Copied(Me) /\ ~LocalDeleteWins(Recs[h], rows[h])
      <4> DEFINE new == CopyId(Me, h)
      <4>1. new \in CopyIds(Me) /\ new \in DOMAIN Recs' /\ new >= nextId
        BY <1>2, <1>4, <1>8, <3>2
      <4>2. PICK from \in Copied(Me) : CopyId(Me, from) = new /\ Recs'[new] = ConflictCopy(Me, from)
        BY <1>7, <4>1
      <4>3. from = h
        BY <1>2, <3>2, <4>2, MyFacts, CopyIdsDiffer
      <4> HIDE DEF new
      <4> QED
        BY <1>10, <3>2, <4>1, <4>2, <4>3
    <3> QED
      BY <1>11, <2>2, <3>1, <3>2
  <2> QED
    BY <2>1, <2>2
<1>13. ASSUME NEW x \in DOMAIN Recs'
       PROVE  \/ \E h \in DOMAIN Recs : Recs'[x].body = Recs[h].body
              \/ \E id \in Ids : /\ Recs'[x].body = rows[id].body
                                 /\ Committed(commits, id, rows[id])
  <2>1. \A id \in Incoming(Me) : /\ id \in Ids /\ Committed(commits, id, rows[id])
                                 /\ FromServer(rows[id]).body = rows[id].body
    BY MyFacts, IncomingFacts DEF FromServer
  <2>2. CASE x \in CopyIds(Me)
    <3>1. PICK from \in Copied(Me) : Recs'[x] = ConflictCopy(Me, from)
      BY <1>7, <2>2
    <3> QED
      BY <1>8, <1>10, <2>1, <3>1
  <2>3. CASE x \notin CopyIds(Me) /\ x \in Incoming(Me)
    BY <1>4, <1>11, <2>1, <2>3
  <2>4. CASE x \notin CopyIds(Me) /\ x \notin Incoming(Me)
    BY <1>4, <1>13, <2>4
  <2> QED
    BY <2>2, <2>3, <2>4
<1>14. /\ \A x \in DOMAIN Todo' : x \in DOMAIN Recs' /\ Todo'[x] = Recs'[x]
       /\ proc'[Me].at \in {"ready", "pull"} => Todo' = NoRecords
  <2> DEFINE dirty == DirtyIds(Me)'
  <2>1. CASE Finish(Me)
    BY <2>1, FinishEffect, Empty
  <2>2. CASE proc' = [proc EXCEPT ![Me].at = "push",
                                  ![Me].todo = Restrict(store'[Me].recs, dirty),
                                  ![Me].conflicts = FALSE]
    <3>1. Todo' = Restrict(Recs', dirty) /\ proc'[Me].at = "push"
      BY <2>2, MyFacts DEF IInv, Todo, Recs, myStore
    <3>2. dirty \subseteq DOMAIN Recs'
      BY DEF DirtyIds, Recs, myStore
    <3> QED
      BY <3>1, <3>2 DEF Restrict
  <2> QED
    BY <2>1, <2>2, MyFacts, PulledNext
<1> QED
  BY <1>1, <1>2, <1>4, <1>5, <1>6, <1>12, <1>13, <1>14

\* A step of the sync is a pull or an exchange; one that fails is counted.
LEMMA SyncEffect ==
  ASSUME IInv, IInv', SyncShape, SyncStep(Me)
  PROVE  /\ proc[Me].at # "ready" /\ Awake /\ nextId <= nextId'
         /\ UNCHANGED userVars
         /\ faults' = faults \/ faults' > 0
         /\ proc'[Me].at \in {"ready", "pull"} => Todo' = NoRecords
         /\ proc'[Me].at \in {"pull", "push"} => myStore'.pending = <<>>
         /\ DOMAIN Recs \subseteq DOMAIN Recs'
         /\ \/ Pull(Me)
            \/ nextId' = nextId /\ \E batch, results : Exchange(batch, results)
<1>1. proc[Me].at # "ready"
  BY DEF SyncStep, Replay, Pull, Push, Refused, PushRefused, PushLost, ReplayLost
<1>2. Awake
  BY <1>1 DEF SyncShape
<1>3. CASE Pull(Me)
  BY <1>1, <1>2, <1>3, PullEffect
<1>4. CASE ~Pull(Me)
  <2>1. /\ Frame /\ (faults' = faults \/ faults' = faults + 1)
        /\ \E batch, results : Exchange(batch, results)
    BY <1>4, ReplayEffect, PushEffect, RefusedEffect, PushRefusedEffect, PushLostEffect,
       ReplayLostEffect DEF SyncStep
  <2>2. DOMAIN Recs \subseteq DOMAIN Recs'
    BY <2>1 DEF Exchange
  <2>3. nextId <= nextId' /\ (faults' = faults \/ faults' > 0)
    BY <2>1, MyFacts DEF Frame
  <2> QED
    BY <1>1, <1>2, <2>1, <2>2, <2>3 DEF Frame
<1> QED
  BY <1>3, <1>4

-------------------------------------------------------------------------------
(* What another device does.                                               *)

\* It has the row: a deletion or an edit that the server applies.
LEMMA RemoteEffect ==
  ASSUME IInv, NEW id \in Ids, Remote(id)
  PROVE  /\ Awake /\ edits' = edits + 1 /\ edits + 1 \in 1..MaxEdits
         /\ UNCHANGED <<idem, store, saved, proc, bundle, imports, faults, nextId, tuiVars>>
         /\ Committed(commits, id, rows[id])
         /\ \E batch :
                /\ AllGood(commits, seq, nextId, batch) /\ Serve(batch) /\ DOMAIN batch = {id}
                /\ rows[id].body \subseteq batch[id].body
                /\ batch[id].body \subseteq rows[id].body \union {edits + 1}
                /\ rows'[id].deleted \/ edits + 1 \in rows'[id].body
<1>1. /\ Awake /\ rows[id].version # 0 /\ ~rows[id].deleted
      /\ edits' = edits + 1 /\ edits < MaxEdits
      /\ UNCHANGED <<idem, store, saved, proc, bundle, imports, faults, nextId, tuiVars>>
  BY DEF Remote, Awake
<1>2. edits + 1 \in 1..MaxEdits
  BY <1>1, MyFacts, SyncerAssumption
<1>3. PICK deleted \in BOOLEAN :
          Serve([x \in {id} |->
              [base |-> rows[id].version, deleted |-> deleted,
               body |-> IF deleted THEN rows[id].body ELSE rows[id].body \union {edits'}]])
  BY DEF Remote
<1> DEFINE body == IF deleted THEN rows[id].body ELSE rows[id].body \union {edits + 1}
           sent == [x \in {id} |->
                       [base |-> rows[id].version, deleted |-> deleted, body |-> body]]
           rec == [version |-> rows[id].version, base |-> rows[id].version,
                   deleted |-> deleted, body |-> body, dirty |-> TRUE, dirtyAt |-> 0]
           batch == [x \in {id} |-> rec]
<1>4. rows[id] # NoRow /\ rows[id] \in Row /\ Committed(commits, id, rows[id])
  BY <1>1, Empty DEF IInv, ServerOK, RowsOK
<1>5. PICK c \in commits : c.id = id /\ c.row = rows[id]
  BY <1>4 DEF Committed
<1>6. id < nextId /\ rows[id].version \in 1..seq /\ seq \in Nat
  BY <1>5 DEF IInv, ServerOK, LogOK
<1>7. Live(commits, id, rows[id].version)
  BY <1>1, <1>5 DEF Live, IInv, ServerOK, LogOK
<1>8. body \in Bodies
  BY <1>2, <1>4 DEF Row, Bodies
<1> HIDE DEF body
<1>9. /\ rec \in Stored /\ rec.version = rows[id].version /\ rec.base = rows[id].version
      /\ rec.body = body /\ rec.deleted = deleted
  <2>1. ASSUME NEW v \in Nat, NEW f \in BOOLEAN, NEW b \in Bodies
        PROVE  [version |-> v, base |-> v, deleted |-> f, body |-> b,
                dirty |-> TRUE, dirtyAt |-> 0] \in Stored
    BY DEF Stored
  <2> QED
    BY <1>6, <1>8, <2>1
<1>10. DOMAIN batch = {id} /\ batch[id] = rec /\ DOMAIN sent = {id}
       /\ sent[id] = [base |-> rows[id].version, deleted |-> deleted, body |-> body]
  OBVIOUS
<1>11. Good(commits, seq, nextId, id, rec)
  BY <1>6, <1>7, <1>9 DEF Good
<1> HIDE DEF rec
<1>12. AllGood(commits, seq, nextId, batch)
  BY <1>9, <1>10, <1>11 DEF AllGood, IsMap
<1>13. Serve(sent)
  BY <1>1, <1>3 DEF body
<1> HIDE DEF sent, batch
<1>14. Applicable(sent) = {id} /\ Applicable(batch) = {id}
  BY <1>9, <1>10 DEF Applicable
<1>15. Serve(batch)
  <2>1. RowsAfter(batch) = RowsAfter(sent)
    BY <1>9, <1>10, <1>14 DEF RowsAfter
  <2>2. {[id |-> x, base |-> batch[x].base, row |-> rows'[x]] : x \in Applicable(batch)}
            = {[id |-> x, base |-> sent[x].base, row |-> rows'[x]] : x \in Applicable(sent)}
    BY <1>9, <1>10, <1>14
  <2> QED
    BY <1>13, <1>14, <2>1, <2>2 DEF Serve
<1>16. rows'[id].body = body /\ rows'[id].deleted = deleted
  BY <1>9, <1>10, <1>14, <1>15 DEF Serve, RowsAfter
<1> QED
  BY <1>1, <1>2, <1>4, <1>9, <1>10, <1>12, <1>15, <1>16 DEF body

LEMMA RemoteInv ==
  ASSUME IInv, NEW id \in Ids, Remote(id)
  PROVE  IInv'
<1>1. /\ edits' = edits + 1 /\ edits + 1 \in 1..MaxEdits
      /\ UNCHANGED <<idem, store, saved, proc, bundle, imports, faults, nextId>>
  BY RemoteEffect
<1>2. PICK batch : AllGood(commits, seq, nextId, batch) /\ Serve(batch)
  BY RemoteEffect
<1>3. ServerOK' /\ GrowsNow
  BY <1>1, <1>2, Served DEF IInv, ServerOK
<1>4. \A d \in Devices : DeviceOK(d)'
  BY <1>1, <1>3, OtherDevice DEF IInv
<1>5. AllGood(commits', seq', nextId', bundle)
  BY <1>3, AllGoodStays DEF IInv, UserOK, GrowsNow
<1>6. UserOK'
  BY <1>1, <1>5, SyncerAssumption DEF IInv, UserOK
<1> QED
  BY <1>1, <1>3, <1>4, <1>6 DEF IInv

-------------------------------------------------------------------------------
(* Syncer's invariant, with edits in the middle of a sync.                  *)

LEMMA PanicInv ==
  ASSUME IInv, Panic
  PROVE  IInv'
<1>1. /\ UNCHANGED <<serverVars, nextId, saved, userVars, faults>>
      /\ store' = saved /\ Finish(Me)
  BY DEF Panic, Finish
<1>2. ServerOK' /\ GrowsNow
  BY <1>1, ServerIdle DEF IInv
<1>3. UserOK'
  BY <1>1, <1>2, UserIdle DEF IInv, UserOK
<1>4. StoreOK(commits, seq, nextId, saved[Me])'
  BY <1>1, <1>2, MyFacts, StoreStays DEF IInv, DeviceOK, GrowsNow
<1>5. DOMAIN proc' = Devices /\ ProcOK(Me)'
  BY <1>1, MyFacts, Finished
<1>6. DeviceOK(Me)'
  BY <1>1, <1>4, <1>5 DEF DeviceOK
<1> QED
  BY <1>1, <1>2, <1>3, <1>5, <1>6, TuiAssumption DEF IInv

LEMMA SyncInv ==
  ASSUME IInv, SyncStep(Me)
  PROVE  IInv'
  BY MyFacts, ReplayInv, PullInv, PushInv, RefusedInv, PushRefusedInv, PushLostInv,
     ReplayLostInv DEF SyncStep

LEMMA IdleInv == IInv /\ UNCHANGED vars => IInv'
  BY DEF vars, serverVars, userVars, IInv, ServerOK, RowsOK, DeviceOK, ProcOK, UserOK

LEMMA TuiNextInv ==
  ASSUME IInv, ScreenOK, [TuiNext]_allVars
  PROVE  IInv'
<1>1. CASE UNCHANGED vars
  BY <1>1, IdleInv
<1>2. CASE ConfirmDelete
  BY <1>2, MyFacts, DeleteInv DEF ConfirmDelete, Delete
<1>3. CASE Submit
  <2>1. CASE Create(Me)
    BY <2>1, MyFacts, CreateInv
  <2>2. CASE Update(Me, subject, seen)
    BY <2>2, MyFacts, UpdateInv DEF ScreenOK, Update
  <2> QED
    BY <1>3, <2>1, <2>2 DEF Submit
<1>4. CASE StartSync
  BY <1>4, MyFacts, SyncStartInv DEF StartSync
<1>5. CASE Panic
  BY <1>5, PanicInv
<1>6. CASE Sync
  BY <1>6, SyncInv DEF Sync
<1>7. ASSUME NEW id \in Ids, Remote(id)
      PROVE  IInv'
  BY <1>7, RemoteInv
<1>8. CASE \/ MoveUp \/ MoveDown \/ OpenDetail \/ AskDelete \/ NewRecord \/ ChooseType
           \/ StartEdit \/ Back \/ SyncResult
  <2>1. UNCHANGED vars
    BY <1>8 DEF MoveUp, MoveDown, MoveCursor, OpenDetail, AskDelete, NewRecord, ChooseType,
                StartEdit, Back, Show, SyncResult
  <2> QED
    BY <2>1, IdleInv
<1> QED
  BY <1>1, <1>2, <1>3, <1>4, <1>5, <1>6, <1>7, <1>8 DEF TuiNext, EventLoop, allVars

-------------------------------------------------------------------------------
(* What the keys and messages do to the screen.                            *)

\* The keys that change what is shown and nothing else.
Key ==
    \/ MoveUp \/ MoveDown
    \/ OpenDetail \/ AskDelete \/ NewRecord \/ ChooseType \/ StartEdit \/ Back

\* Where the cursor should be.
CursorOK == IF list = <<>> THEN cursor = 0 ELSE OnRecord

LEMMA KeyEffect ==
  ASSUME IInv, ScreenOK, Key
  PROVE  /\ UNCHANGED <<vars, list, syncing, calm>>
         /\ Awake /\ Awake'
         /\ cursor' \in Nat /\ (CursorOK => CursorOK')
         /\ screen' \in {"list", "confirm", "detail", "type", "form"}
         /\ \/ UNCHANGED <<screen, subject, seen>>
            \/ subject' = 0 /\ seen' = {}
            \/ screen' = "confirm" /\ subject' \in DOMAIN Recs /\ seen' = {}
            \/ screen' = "form" /\ subject' \in DOMAIN Recs /\ seen' = Recs[subject'].body
<1>1. /\ Len(list) \in Nat /\ cursor \in Nat /\ DOMAIN list = 1..Len(list)
      /\ list = <<>> <=> Len(list) = 0
  BY DEF ScreenOK
<1>2. ASSUME OnRecord, Awake
      PROVE  Selected \in DOMAIN Recs
  BY <1>1, <1>2 DEF OnRecord, Selected, ScreenOK
<1>3. CASE MoveUp
  BY <1>1, <1>3 DEF MoveUp, MoveCursor, Awake, CursorOK, OnRecord
<1>4. CASE MoveDown
  BY <1>1, <1>4 DEF MoveDown, MoveCursor, Awake, CursorOK, OnRecord
<1>5. CASE OpenDetail
  BY <1>1, <1>5 DEF OpenDetail, Show, Awake, CursorOK, OnRecord
<1>6. CASE AskDelete
  BY <1>1, <1>2, <1>6 DEF AskDelete, Show, Awake, CursorOK, OnRecord
<1>7. CASE NewRecord \/ ChooseType \/ Back
  BY <1>1, <1>7 DEF NewRecord, ChooseType, Back, Show, Awake, CursorOK, OnRecord
<1>8. CASE StartEdit
  <2>1. screen = "detail" /\ OnRecord /\ Show("form", Selected, Recs[Selected].body)
    BY <1>8 DEF StartEdit, Recs
  <2> QED
    BY <1>1, <1>2, <2>1 DEF Show, Awake, CursorOK, OnRecord
<1> QED
  BY <1>3, <1>4, <1>5, <1>6, <1>7, <1>8 DEF Key

\* The list, when it has been read again.
LEMMA RefreshEffect ==
  ASSUME IInv', Refresh
  PROVE  /\ list' \in Seq(Ids)
         /\ Shows(Visible(myStore))'
         /\ \A i \in DOMAIN list' : list'[i] \in DOMAIN Recs'
<1>1. IsStore(myStore)'
  BY TuiAssumption DEF IInv, DeviceOK, StoreOK, myStore
<1>2. Visible(myStore') \in SUBSET Ids /\ Visible(myStore') \subseteq DOMAIN Recs'
  BY <1>1 DEF Visible, IsStore, IsMap, Recs
<1>3. /\ list' \in Seq(Ids) /\ Len(list') = Cardinality(Visible(myStore'))
      /\ {list'[i] : i \in DOMAIN list'} = Visible(myStore')
  BY <1>2, Listing DEF Refresh
<1> QED
  BY <1>2, <1>3 DEF Shows

LEMMA ClampEffect ==
  ASSUME cursor \in Nat, list' \in Seq(Ids), Clamp
  PROVE  cursor' \in Nat /\ CursorOK'
<1>1. Len(list') \in Nat /\ (list' = <<>> <=> Len(list') = 0)
  OBVIOUS
<1> QED
  BY <1>1 DEF Clamp, CursorOK, OnRecord

\* A confirmed delete or a saved form is an edit of one record: a new one or the one
\* it was opened for.
LEMMA EditStep ==
  ASSUME IInv, ScreenOK, ConfirmDelete \/ Submit
  PROVE  /\ Refresh /\ screen \in {"confirm", "form"} /\ screen' = "list"
         /\ subject' = 0 /\ seen' = {} /\ syncing' = syncing
         /\ \E id, rec :
                /\ id \in Ids /\ Edit(Me, id, rec) /\ rec.dirty
                /\ \/ /\ Submit /\ id = nextId /\ nextId' = nextId + 1
                      /\ rec.body = {edits + 1} /\ ~rec.deleted
                   \/ /\ Submit /\ id = subject /\ id \in DOMAIN Recs /\ nextId' = nextId
                      /\ rec.body = seen \union {edits + 1} /\ rec.deleted = Recs[id].deleted
                   \/ /\ ConfirmDelete /\ id = subject /\ id \in DOMAIN Recs
                      /\ nextId' = nextId /\ rec.body = Recs[id].body
<1>1. CASE ConfirmDelete
  <2>1. Delete(Me, subject)
    BY <1>1 DEF ConfirmDelete
  <2>2. /\ subject \in DOMAIN Recs /\ subject \in Ids /\ nextId' = nextId
        /\ \E rec : Edit(Me, subject, rec) /\ rec.body = Recs[subject].body /\ rec.dirty
    BY <2>1, DeleteEffect
  <2> QED
    BY <1>1, <2>2 DEF ConfirmDelete, ToList
<1>2. CASE Submit
  <2>1. CASE subject = 0
    <3>1. Create(Me)
      BY <1>2, <2>1 DEF Submit
    <3>2. /\ nextId \in Ids /\ nextId' = nextId + 1
          /\ \E rec : /\ Edit(Me, nextId, rec)
                      /\ rec.body = {edits + 1} /\ rec.dirty /\ ~rec.deleted
      BY <3>1, CreateEffect
    <3> QED
      BY <1>2, <3>2 DEF Submit, ToList
  <2>2. CASE subject # 0
    <3>1. Update(Me, subject, seen)
      BY <1>2, <2>2 DEF Submit
    <3>2. /\ subject \in DOMAIN Recs /\ subject \in Ids /\ nextId' = nextId
          /\ \E rec : /\ Edit(Me, subject, rec) /\ rec.body = seen \union {edits + 1}
                      /\ rec.dirty /\ rec.deleted = Recs[subject].deleted
      BY <3>1, UpdateEffect
    <3> QED
      BY <1>2, <3>2 DEF Submit, ToList
  <2> QED
    BY <2>1, <2>2
<1> QED
  BY <1>1, <1>2

\* Every step is one of these.
LEMMA TuiCases ==
  [TuiNext]_allVars => \/ UNCHANGED allVars \/ Key \/ ConfirmDelete \/ Submit
                       \/ StartSync \/ SyncResult \/ Panic \/ Sync
                       \/ \E id \in Ids : Remote(id)
  BY DEF TuiNext, EventLoop, Key

-------------------------------------------------------------------------------
(* The types of what is on the screen.                                     *)

LEMMA ScreenStep ==
  ASSUME IInv, IInv', ScreenOK, SyncShape, [TuiNext]_allVars
  PROVE  ScreenOK'
<1>1. CASE UNCHANGED allVars
  BY <1>1 DEF allVars, tuiVars, screenVars, vars, ScreenOK, Awake, Recs, myStore
<1>2. CASE Key
  <2>1. /\ UNCHANGED <<vars, list, syncing, calm>> /\ Awake
        /\ cursor' \in Nat
        /\ screen' \in {"list", "confirm", "detail", "type", "form"}
        /\ \/ UNCHANGED <<screen, subject, seen>>
           \/ subject' = 0 /\ seen' = {}
           \/ screen' = "confirm" /\ subject' \in DOMAIN Recs /\ seen' = {}
           \/ screen' = "form" /\ subject' \in DOMAIN Recs /\ seen' = Recs[subject'].body
    BY <1>2, KeyEffect
  <2>2. nextId \in 1..(MaxIds + 1) /\ MaxIds \in Nat
    BY SyncerAssumption DEF IInv, ServerOK
  <2>3. \A x \in DOMAIN Recs : x \in 0..MaxIds /\ x < nextId /\ Recs[x].body \in Bodies
    <3> TAKE x \in DOMAIN Recs
    <3>1. /\ AllGood(commits, seq, nextId, Recs)
          /\ x \in Ids /\ Good(commits, seq, nextId, x, Recs[x]) /\ Recs[x].body \in Bodies
      BY MyFacts, RecordFacts
    <3> QED
      BY <2>2, <3>1 DEF Good, Ids
  <2>4. nextId' = nextId /\ 0 \in 0..MaxIds /\ 0 < nextId /\ {} \in Bodies
    BY <2>1, <2>2 DEF vars, Bodies
  <2>5. subject' \in 0..MaxIds /\ subject' < nextId' /\ seen' \in Bodies
    BY <2>1, <2>3, <2>4 DEF ScreenOK
  <2> QED
    BY <2>1, <2>5 DEF ScreenOK, vars, Recs, myStore
<1>3. CASE ConfirmDelete \/ Submit
  <2>1. Refresh /\ screen' = "list" /\ subject' = 0 /\ seen' = {} /\ syncing' = syncing
    BY <1>3, EditStep
  <2>2. cursor' \in Nat
    BY <1>3, <2>1, RefreshEffect, ClampEffect DEF ScreenOK, ConfirmDelete, Submit
  <2>3. calm' \in Bodies
    <3>1. PICK id, rec : id \in Ids /\ Edit(Me, id, rec)
      BY <1>3, EditStep
    <3>2. edits' \in 1..MaxEdits
      BY <3>1, EditEffect
    <3> QED
      BY <1>3, <3>2 DEF ConfirmDelete, Submit, ScreenOK, Bodies
  <2>4. nextId' \in Nat /\ 0 < nextId' /\ 0 \in 0..MaxIds
    BY SyncerAssumption DEF IInv, ServerOK
  <2> QED
    BY <2>1, <2>2, <2>3, <2>4, RefreshEffect DEF ScreenOK, Bodies
<1>4. CASE StartSync
  BY <1>4 DEF StartSync, SyncStart, screenVars, ScreenOK, Awake, Recs, myStore
<1>5. CASE SyncResult
  <2>1. UNCHANGED <<vars, screen, subject, seen, calm>> /\ syncing' = "no"
    BY <1>5 DEF SyncResult
  <2>2. CASE syncing = "done"
    BY <1>5, <2>1, <2>2, RefreshEffect, ClampEffect DEF SyncResult, ScreenOK, vars
  <2>3. CASE syncing # "done"
    BY <1>5, <2>1, <2>3 DEF SyncResult, ScreenOK, vars, Awake, Recs, myStore
  <2> QED
    BY <2>2, <2>3
<1>6. CASE Panic
  BY <1>6 DEF Panic, ScreenOK, Awake
<1>7. CASE Sync
  <2>1. /\ UNCHANGED <<screenVars, calm>> /\ syncing' \in {"running", "done", "failed"}
    BY <1>7 DEF Sync
  <2>2. nextId <= nextId' /\ DOMAIN Recs \subseteq DOMAIN Recs'
    BY <1>7, SyncEffect DEF Sync
  <2>3. subject' < nextId'
    BY <2>1, <2>2, MyFacts DEF screenVars, ScreenOK, IInv, ServerOK
  <2> QED
    BY <2>1, <2>2, <2>3 DEF ScreenOK, screenVars, Awake
<1>8. ASSUME NEW id \in Ids, Remote(id)
      PROVE  ScreenOK'
  <2>1. UNCHANGED <<store, nextId, tuiVars>>
    BY <1>8, RemoteEffect
  <2> QED
    BY <2>1 DEF ScreenOK, tuiVars, screenVars, Awake, Recs, myStore
<1> QED
  BY <1>1, <1>2, <1>3, <1>4, <1>5, <1>6, <1>7, <1>8, TuiCases

-------------------------------------------------------------------------------
(* Where the sync is.                                                      *)

LEMMA ShapeStep ==
  ASSUME IInv, IInv', ScreenOK, SyncShape, [TuiNext]_allVars
  PROVE  SyncShape'
<1>1. CASE UNCHANGED allVars
  BY <1>1 DEF allVars, tuiVars, screenVars, vars, SyncShape, Awake, Todo, myStore
<1>2. CASE Key
  BY <1>2, KeyEffect DEF vars, SyncShape, Awake, Todo, myStore
<1>3. CASE ConfirmDelete \/ Submit
  <2>1. PICK id, rec : id \in Ids /\ Edit(Me, id, rec)
    BY <1>3, EditStep
  <2>2. UNCHANGED <<proc, faults>> /\ myStore'.pending = myStore.pending
    BY <2>1, EditEffect
  <2>3. syncing' = syncing /\ Awake /\ Awake'
    BY <1>3, EditStep DEF Awake
  <2> QED
    BY <2>2, <2>3 DEF SyncShape, Todo
<1>4. CASE StartSync
  <2>1. /\ proc' = [proc EXCEPT ![Me] = ReplayOrPull(myStore')]
        /\ syncing' = "running" /\ Awake'
    BY <1>4 DEF StartSync, SyncStart, screenVars, myStore, Awake
  <2>2. /\ proc'[Me].at \in {"pull", "replay"}
        /\ proc'[Me].at = "pull" => Todo' = NoRecords /\ myStore'.pending = <<>>
    BY <2>1, NextBatch
  <2> QED
    BY <2>1, <2>2 DEF SyncShape
<1>5. CASE SyncResult
  BY <1>5 DEF SyncResult, vars, SyncShape, Awake, Todo, myStore
<1>6. CASE Panic
  <2>1. Finish(Me) /\ syncing' = "no" /\ ~Awake'
    BY <1>6 DEF Panic, Finish, Awake
  <2> QED
    BY <2>1, FinishEffect DEF SyncShape
<1>7. CASE Sync
  <2>1. /\ Awake' /\ syncing' = IF proc'[Me].at # "ready" THEN "running"
                                ELSE IF faults' = faults THEN "done" ELSE "failed"
    BY <1>7, SyncEffect DEF Sync, screenVars, Awake
  <2>2. /\ faults' = faults \/ faults' > 0
        /\ proc'[Me].at \in {"ready", "pull"} => Todo' = NoRecords
        /\ proc'[Me].at \in {"pull", "push"} => myStore'.pending = <<>>
    BY <1>7, SyncEffect DEF Sync
  <2> QED
    BY <2>1, <2>2 DEF SyncShape
<1>8. ASSUME NEW id \in Ids, Remote(id)
      PROVE  SyncShape'
  <2>1. UNCHANGED <<store, proc, faults, tuiVars>>
    BY <1>8, RemoteEffect
  <2> QED
    BY <2>1 DEF SyncShape, tuiVars, screenVars, Awake, Todo, myStore
<1> QED
  BY <1>1, <1>2, <1>3, <1>4, <1>5, <1>6, <1>7, <1>8, TuiCases

-------------------------------------------------------------------------------
(* What the screen shows.                                                  *)

LEMMA ListStep ==
  ASSUME IInv, IInv', ScreenOK, SyncShape, ListOK, [TuiNext]_allVars
  PROVE  ListOK'
<1> SUFFICES ASSUME syncing' = "no", faults' = 0, Awake'
             PROVE  Shows(Visible(myStore))' /\ CursorOK'
  BY DEF ListOK, CursorOK
<1>1. CASE UNCHANGED allVars
  BY <1>1 DEF allVars, tuiVars, screenVars, vars, ListOK, CursorOK, OnRecord, Awake, Shows, myStore
<1>2. CASE Key
  <2>1. UNCHANGED <<vars, list, syncing>> /\ Awake /\ (CursorOK => CursorOK')
    BY <1>2, KeyEffect
  <2>2. Shows(Visible(myStore)) /\ CursorOK
    BY <2>1 DEF ListOK, CursorOK, vars
  <2> QED
    BY <2>1, <2>2 DEF Shows, vars, myStore
<1>3. CASE ConfirmDelete
  <2>1. Refresh
    BY <1>3, EditStep
  <2> QED
    BY <1>3, <2>1, RefreshEffect, ClampEffect DEF ConfirmDelete, ScreenOK
<1>4. CASE Submit
  <2>1. Refresh /\ Awake /\ syncing' = syncing
    BY <1>4, EditStep DEF Awake
  <2>2. Shows(Visible(myStore))' /\ list' \in Seq(Ids) /\ cursor' = cursor
    BY <1>4, <2>1, RefreshEffect DEF Submit
  <2>3. PICK id, rec :
            /\ id \in Ids /\ Edit(Me, id, rec)
            /\ \/ id = nextId /\ ~rec.deleted
               \/ id \in DOMAIN Recs /\ rec.deleted = Recs[id].deleted
    <3>1. CASE subject = 0
      BY <1>4, <3>1, CreateEffect DEF Submit
    <3>2. CASE subject # 0
      BY <1>4, <3>2, UpdateEffect DEF Submit
    <3> QED
      BY <3>1, <3>2
  <2>4. /\ DOMAIN Recs' = DOMAIN Recs \union {id} /\ Recs'[id] = rec
        /\ \A x \in DOMAIN Recs \ {id} : Recs'[x] = Recs[x]
        /\ faults' = faults
    BY <2>3, EditEffect
  <2>5. Visible(myStore) \subseteq Visible(myStore') /\ Visible(myStore') \in SUBSET Ids
    <3>1. DOMAIN Recs \subseteq Ids
      BY MyFacts
    <3> QED
      BY <2>3, <2>4, <3>1 DEF Visible, Recs
  <2>6. Shows(Visible(myStore)) /\ CursorOK
    BY <2>1, <2>4 DEF ListOK, CursorOK
  <2>7. Len(list) \in Nat /\ Len(list') \in Nat /\ Len(list) <= Len(list')
    <3>1. Cardinality(Visible(myStore)) <= Cardinality(Visible(myStore'))
      BY <2>5, IdsFinite, FS_Subset
    <3> QED
      BY <2>2, <2>6, <3>1 DEF Shows, ScreenOK
  <2>8. CursorOK'
    <3>1. /\ list = <<>> <=> Len(list) = 0
          /\ list' = <<>> <=> Len(list') = 0
          /\ cursor \in Nat
      BY <2>2 DEF ScreenOK
    <3> QED
      BY <2>2, <2>6, <2>7, <3>1 DEF CursorOK, OnRecord
  <2> QED
    BY <2>2, <2>8
<1>5. CASE SyncResult
  <2>1. syncing # "failed"
    BY <1>5 DEF SyncResult, SyncShape, vars
  <2>2. Refresh /\ Clamp
    BY <1>5, <2>1 DEF SyncResult
  <2> QED
    BY <2>2, RefreshEffect, ClampEffect DEF ScreenOK
<1>6. CASE Panic \/ StartSync \/ Sync
  BY <1>6 DEF Panic, Awake, StartSync, Sync
<1>7. ASSUME NEW id \in Ids, Remote(id)
      PROVE  Shows(Visible(myStore))' /\ CursorOK'
  <2>1. UNCHANGED <<store, faults, tuiVars>>
    BY <1>7, RemoteEffect
  <2>2. Shows(Visible(myStore)) /\ CursorOK
    BY <2>1 DEF ListOK, CursorOK, tuiVars, screenVars, Awake
  <2> QED
    BY <2>1, <2>2 DEF Shows, CursorOK, OnRecord, tuiVars, screenVars, myStore
<1> QED
  BY <1>1, <1>2, <1>3, <1>4, <1>5, <1>6, <1>7, TuiCases

-------------------------------------------------------------------------------
(* What the user saved stays.                                              *)

\* A push or a replay, answered or not, leaves an edit where it is.
LEMMA ExchangeKeepsHome ==
  ASSUME IInv, NEW batch, NEW results, Exchange(batch, results),
         UNCHANGED screenVars, NEW edit, NEW h \in Ids, Home(edit, h)
  PROVE  Home(edit, h)'
<1>1. InHand(batch) /\ AllGood(commits, seq, nextId, batch) /\ Serve(batch)
  BY DEF Exchange, InHand
<1>2. /\ \A id \in Ids \ Applicable(batch) : rows'[id] = rows[id]
      /\ \A id \in Applicable(batch) : rows'[id].body = batch[id].body
      /\ AppliedIn(Results(batch)) = Applicable(batch)
      /\ \A id \in Applicable(batch) : Results(batch)[id].row = rows'[id]
      /\ Applicable(batch) \subseteq DOMAIN batch
  BY <1>1, ServeEffect
<1>3. /\ edit \in rows[h].body => edit \in rows'[h].body
      /\ h \in Applicable(batch) => edit \in rows'[h].body
  BY <1>1, <1>2 DEF InHand, Home
<1>4. h \in AppliedIn(results) => edit \in results[h].row.body /\ edit \in rows'[h].body
  <2>1. CASE results = Results(batch)
    BY <1>2, <1>3, <2>1
  <2>2. ASSUME NEW k \in PendingKeys, results = idem[k]
        PROVE  h \in AppliedIn(results) => edit \in results[h].row.body /\ edit \in rows'[h].body
    BY <1>3, <2>2 DEF Home
  <2>3. CASE AppliedIn(results) = {}
    BY <2>3
  <2> QED
    BY <2>1, <2>2, <2>3 DEF Exchange
<1>5. /\ h \in DOMAIN Recs' /\ edit \in Recs'[h].body
      /\ Recs'[h].dirty \/ edit \in rows'[h].body
  <2>1. CASE h \in AppliedIn(results)
    <3>1. Recs'[h] = FromServer(results[h].row) /\ h \in DOMAIN Recs'
      BY <2>1 DEF Exchange
    <3>2. FromServer(results[h].row).body = results[h].row.body
      BY DEF FromServer
    <3> QED
      BY <1>4, <2>1, <3>1, <3>2
  <2>2. CASE h \notin AppliedIn(results)
    <3>1. Recs'[h] = Recs[h] /\ h \in DOMAIN Recs'
      BY <2>2 DEF Exchange, Home
    <3> QED
      BY <1>3, <3>1 DEF Home
  <2> QED
    BY <2>1, <2>2
<1>6. h \in DOMAIN Todo' => edit \in Todo'[h].body
  BY <1>5 DEF Exchange, Home
<1>7. \A k \in PendingKeys' :
          h \in AppliedIn(idem'[k]) => edit \in idem'[k][h].row.body /\ edit \in rows'[h].body
  <2> TAKE k \in PendingKeys'
  <2>1. CASE k \in PendingKeys /\ idem'[k] = idem[k]
    BY <1>3, <2>1 DEF Home
  <2>2. CASE idem'[k] = Results(batch)
    BY <1>2, <1>3, <2>2
  <2>3. CASE AppliedIn(idem'[k]) = {}
    BY <2>3
  <2> QED
    BY <2>1, <2>2, <2>3 DEF Exchange
<1>8. screen' = "form" /\ subject' = h => edit \in seen'
  BY DEF Home, screenVars
<1> QED
  BY <1>5, <1>6, <1>7, <1>8 DEF Home

\* A pull moves it to the conflict copy, if the server's version takes its place.
LEMMA PullKeepsHome ==
  ASSUME IInv, IInv', ScreenOK, SyncShape, Pull(Me), UNCHANGED screenVars,
         NEW edit, NEW h \in Ids, Home(edit, h)
  PROVE  \E x \in Ids : Home(edit, x)'
<1>1. /\ UNCHANGED <<rows, idem, commits>> /\ myStore'.pending = <<>>
      /\ \A x \in DOMAIN Todo' : x \in DOMAIN Recs' /\ Todo'[x] = Recs'[x]
  BY PullEffect
<1>2. PendingKeys' = {} /\ DOMAIN Recs' \subseteq Ids
  <2>1. IsStore(myStore)'
    BY TuiAssumption DEF IInv, DeviceOK, StoreOK, myStore
  <2> QED
    BY <1>1, <2>1 DEF PendingKeys, KeysOf, IsStore, IsMap, Recs
<1>3. ASSUME NEW x \in DOMAIN Recs', edit \in Recs'[x].body,
             Recs'[x].dirty \/ edit \in rows'[x].body,
             screen' = "form" /\ subject' = x => edit \in seen'
      PROVE  Home(edit, x)'
  BY <1>1, <1>2, <1>3 DEF Home
<1>4. h \in DOMAIN Recs /\ h \in DOMAIN Recs'
  BY PullEffect DEF Home
<1>5. screen' = "form" /\ subject' = h => edit \in seen'
  BY DEF Home, screenVars
<1>6. CASE Recs'[h] = Recs[h]
  BY <1>1, <1>3, <1>4, <1>5, <1>6 DEF Home
<1>7. CASE Recs'[h] = FromServer(rows[h]) /\ ~Recs[h].dirty
  <2>1. FromServer(rows[h]).body = rows[h].body /\ edit \in rows[h].body
    BY <1>7 DEF FromServer, Home
  <2> QED
    BY <1>1, <1>3, <1>4, <1>5, <1>7, <2>1
<1>8. CASE Recs'[h].body = Recs[h].body /\ Recs'[h].dirty
  BY <1>3, <1>4, <1>5, <1>8 DEF Home
<1>9. ASSUME NEW new \in DOMAIN Recs', Recs'[new].body = Recs[h].body, Recs'[new].dirty,
             new >= nextId
      PROVE  Home(edit, new)'
  <2>1. subject' # new
    <3>1. subject' = subject /\ subject < nextId /\ subject \in Int /\ nextId \in Int
      BY MyFacts DEF ScreenOK, screenVars
    <3> QED
      BY <1>2, <1>9, <3>1 DEF Ids
  <2> QED
    BY <1>3, <1>9, <2>1 DEF Home
<1> QED
  BY <1>2, <1>4, <1>6, <1>7, <1>8, <1>9, PullEffect

LEMMA CalmStep ==
  ASSUME IInv, IInv', ScreenOK, SyncShape, CalmOK, [TuiNext]_allVars
  PROVE  CalmOK'
<1> SUFFICES ASSUME Awake', NEW edit \in calm'
             PROVE  \E h \in Ids : Home(edit, h)'
  BY DEF CalmOK
<1>0. ASSUME Awake, edit \in calm
      PROVE  \E h \in Ids : Home(edit, h)
  BY <1>0 DEF CalmOK
<1>1. CASE UNCHANGED allVars
  <2>1. PICK h \in Ids : Home(edit, h)
    BY <1>0, <1>1 DEF allVars, tuiVars, screenVars, Awake
  <2>2. Home(edit, h)'
    BY <1>1, <2>1 DEF allVars, tuiVars, screenVars, vars, serverVars,
                     Home, Recs, Todo, PendingKeys, myStore
  <2> QED
    BY <2>2
<1>2. CASE Key
  <2>1. /\ UNCHANGED <<vars, list, syncing, calm>> /\ Awake
        /\ \/ UNCHANGED <<screen, subject, seen>>
           \/ subject' = 0 /\ seen' = {}
           \/ screen' = "confirm" /\ subject' \in DOMAIN Recs /\ seen' = {}
           \/ screen' = "form" /\ subject' \in DOMAIN Recs /\ seen' = Recs[subject'].body
    BY <1>2, KeyEffect
  <2>2. PICK h \in Ids : Home(edit, h)
    BY <1>0, <2>1
  <2>3. screen' = "form" /\ subject' = h => edit \in seen'
    BY <2>1, <2>2 DEF Home, Ids
  <2>4. Home(edit, h)'
    BY <2>1, <2>2, <2>3 DEF vars, serverVars, Home, Recs, Todo, PendingKeys, myStore
  <2> QED
    BY <2>4
<1>3. CASE ConfirmDelete \/ Submit
  <2>1. screen \in {"confirm", "form"} /\ screen' = "list" /\ Awake
    BY <1>3, EditStep DEF Awake
  <2>2. PICK id, rec :
            /\ id \in Ids /\ Edit(Me, id, rec) /\ rec.dirty
            /\ \/ /\ Submit /\ id = nextId /\ nextId' = nextId + 1
                  /\ rec.body = {edits + 1} /\ ~rec.deleted
               \/ /\ Submit /\ id = subject /\ id \in DOMAIN Recs /\ nextId' = nextId
                  /\ rec.body = seen \union {edits + 1} /\ rec.deleted = Recs[id].deleted
               \/ /\ ConfirmDelete /\ id = subject /\ id \in DOMAIN Recs
                  /\ nextId' = nextId /\ rec.body = Recs[id].body
    BY <1>3, EditStep
  <2>3. /\ DOMAIN Recs' = DOMAIN Recs \union {id} /\ Recs'[id] = rec
        /\ \A x \in DOMAIN Recs \ {id} : Recs'[x] = Recs[x]
        /\ Todo' = Todo /\ PendingKeys' = PendingKeys /\ edits' = edits + 1
        /\ UNCHANGED <<rows, idem>>
    BY <2>2, EditEffect DEF serverVars, Todo, PendingKeys
  <2>4. CASE edit \in calm
    <3>1. PICK h \in Ids : Home(edit, h)
      BY <1>0, <2>1, <2>4
    <3>2. edit \in Recs'[h].body /\ (Recs'[h].dirty \/ edit \in rows[h].body)
      <4>1. CASE h # id
        BY <2>3, <3>1, <4>1 DEF Home
      <4>2. CASE h = id
        <5>1. h \in DOMAIN Recs /\ h # nextId
          BY <3>1, MyFacts DEF Home
        <5>2. Submit => screen = "form"
          BY DEF Submit
        <5>3. edit \in rec.body
          BY <2>2, <3>1, <4>2, <5>1, <5>2 DEF Home
        <5> QED
          BY <2>2, <2>3, <4>2, <5>3
      <4> QED
        BY <4>1, <4>2
    <3>3. Home(edit, h)'
      BY <2>1, <2>3, <3>1, <3>2 DEF Home
    <3> QED
      BY <3>3
  <2>5. CASE edit \notin calm
    <3>1. Submit /\ Calm /\ edit = edits + 1
      BY <1>3, <2>3, <2>5 DEF ConfirmDelete, Submit
    <3>2. DOMAIN Todo = {} /\ PendingKeys = {}
      BY <3>1, Empty DEF Calm, SyncShape, PendingKeys, KeysOf
    <3>3. edit \in rec.body
      <4>1. screen = "form"
        BY <3>1 DEF Submit
      <4>2. ~ConfirmDelete
        BY <4>1 DEF ConfirmDelete
      <4> QED
        BY <2>2, <3>1, <4>2
    <3>4. Home(edit, id)'
      BY <2>1, <2>2, <2>3, <3>2, <3>3 DEF Home
    <3> QED
      BY <2>2, <3>4
  <2> QED
    BY <2>4, <2>5
<1>4. CASE StartSync
  <2>1. /\ proc' = [proc EXCEPT ![Me] = ReplayOrPull(myStore')]
        /\ UNCHANGED <<rows, idem, store, screenVars, calm>>
    BY <1>4 DEF StartSync, SyncStart, myStore, serverVars
  <2>2. PICK h \in Ids : Home(edit, h)
    BY <1>0, <2>1 DEF screenVars, Awake
  <2>3. \A x \in DOMAIN Todo' : x \in DOMAIN Recs' /\ Todo'[x] = Recs'[x]
    BY <2>1, NextBatch
  <2>4. Recs' = Recs /\ PendingKeys' = PendingKeys
    BY <2>1 DEF Recs, PendingKeys, myStore
  <2>5. Home(edit, h)'
    BY <2>1, <2>2, <2>3, <2>4 DEF Home, screenVars
  <2> QED
    BY <2>5
<1>5. CASE SyncResult
  <2>1. UNCHANGED <<vars, screen, subject, seen, calm>>
    BY <1>5 DEF SyncResult
  <2>2. PICK h \in Ids : Home(edit, h)
    BY <1>0, <2>1 DEF Awake
  <2>3. Home(edit, h)'
    BY <2>1, <2>2 DEF vars, serverVars, Home, Recs, Todo, PendingKeys, myStore
  <2> QED
    BY <2>3
<1>6. CASE Panic
  BY <1>6 DEF Panic, Awake
<1>7. CASE Sync
  <2>1. SyncStep(Me) /\ UNCHANGED <<screenVars, calm>>
    BY <1>7 DEF Sync
  <2>2. PICK h \in Ids : Home(edit, h)
    BY <1>0, <2>1 DEF screenVars, Awake
  <2> QED
    BY <2>1, <2>2, SyncEffect, PullKeepsHome, ExchangeKeepsHome
<1>8. ASSUME NEW id \in Ids, Remote(id)
      PROVE  \E h \in Ids : Home(edit, h)'
  <2>1. UNCHANGED <<idem, store, proc, tuiVars>>
    BY <1>8, RemoteEffect
  <2>2. PICK h \in Ids : Home(edit, h)
    BY <1>0, <2>1 DEF tuiVars, screenVars, Awake
  <2>3. PICK batch : /\ AllGood(commits, seq, nextId, batch) /\ Serve(batch)
                     /\ DOMAIN batch = {id} /\ rows[id].body \subseteq batch[id].body
    BY <1>8, RemoteEffect
  <2>4. edit \in rows[h].body => edit \in rows'[h].body
    BY <2>3, ServeEffect
  <2>5. Recs' = Recs /\ Todo' = Todo /\ PendingKeys' = PendingKeys
    BY <2>1 DEF Recs, Todo, PendingKeys, myStore
  <2>6. Home(edit, h)'
    BY <2>1, <2>2, <2>4, <2>5 DEF Home, tuiVars, screenVars
  <2> QED
    BY <2>6
<1> QED
  BY <1>1, <1>2, <1>3, <1>4, <1>5, <1>6, <1>7, <1>8, TuiCases

-------------------------------------------------------------------------------
(* The initial state.                                                      *)

LEMMA TuiInitInv == TuiInit => TuiInv
<1> SUFFICES ASSUME TuiInit
             PROVE  TuiInv
  OBVIOUS
<1>1. MaxIds \in Nat /\ MaxIds >= 2 /\ {1, 2} \subseteq Ids /\ Me \in Devices
  BY SyncerAssumption, TuiAssumption DEF Ids
<1> DEFINE first(id) == [NoRow EXCEPT !.version = id]
<1>2. /\ \A id \in {1, 2} : rows[id] = first(id)
      /\ \A id \in Ids \ {1, 2} : rows[id] = NoRow
      /\ \A id \in {1, 2} :
             /\ first(id) \in Row /\ first(id).version = id
             /\ first(id).body = {} /\ ~first(id).deleted
      /\ DOMAIN rows = Ids
  <2>1. rows = [id \in Ids |-> IF id <= 2 THEN [NoRow EXCEPT !.version = id] ELSE NoRow]
    BY DEF TuiInit
  <2>2. \A id \in Ids : id \in {1, 2} <=> id <= 2
    BY <1>1 DEF Ids
  <2>3. \A id \in {1, 2} :
            /\ first(id) \in Row /\ first(id).version = id
            /\ first(id).body = {} /\ ~first(id).deleted
    <3>1. ASSUME NEW v \in Nat
          PROVE  /\ [NoRow EXCEPT !.version = v] \in Row
                 /\ [NoRow EXCEPT !.version = v].version = v
                 /\ [NoRow EXCEPT !.version = v].body = {}
                 /\ ~[NoRow EXCEPT !.version = v].deleted
      BY DEF NoRow, Row, Bodies
    <3> QED
      BY <3>1
  <2> HIDE DEF first
  <2> QED
    BY <1>1, <2>1, <2>2, <2>3 DEF first
<1>3. commits = {[id |-> id, base |-> 0, row |-> first(id)] : id \in {1, 2}}
  BY <1>2 DEF TuiInit
<1>4. seq = 2 /\ nextId = 3
  BY DEF TuiInit
<1> HIDE DEF first
<1>5. LogOK(commits, seq, nextId)
  <2>1. commits \subseteq [id: Ids, base: Nat, row: Row]
    BY <1>1, <1>2, <1>3
  <2>2. \A c \in commits : c.row.version = c.id /\ c.row = first(c.id) /\ c.id \in {1, 2}
    BY <1>2, <1>3
  <2> QED
    BY <1>4, <2>1, <2>2 DEF LogOK
<1>6. \A id \in {1, 2} : Committed(commits, id, first(id))
  <2> TAKE id \in {1, 2}
  <2> DEFINE c == [id |-> id, base |-> 0, row |-> first(id)]
  <2>1. c \in commits /\ c.id = id /\ c.row = first(id)
    BY <1>3
  <2> QED
    BY <2>1 DEF Committed
<1>7. RowsOK(commits)
  <2>1. \A id \in Ids : rows[id] \in Row /\ (rows[id] = NoRow \/ Committed(commits, id, rows[id]))
    BY <1>2, <1>6, Empty
  <2>2. rows = [id \in Ids |-> rows[id]]
    BY DEF TuiInit
  <2> QED
    BY <2>1, <2>2 DEF RowsOK
<1>8. ServerOK
  <2>1. \A k \in Keys : ResultsOK(commits, NoResult)
    BY Empty DEF ResultsOK
  <2> QED
    BY <1>1, <1>4, <1>5, <1>7, <2>1 DEF ServerOK, TuiInit
<1> DEFINE s == [recs |-> [id \in {1, 2} |-> FromServer(rows[id])], cursor |-> 2,
                 pending |-> <<>>]
<1>9. \A id \in {1, 2} :
          /\ rows[id] \in Row /\ Committed(commits, id, rows[id]) /\ rows[id].version = id
          /\ rows[id].body = {} /\ ~rows[id].deleted
  BY <1>2, <1>6
<1>10. StoreOK(commits, seq, nextId, s)
  <2>1. /\ DOMAIN s = {"recs", "cursor", "pending"} /\ DOMAIN s.recs = {1, 2}
        /\ s.cursor = 2 /\ s.pending = <<>>
        /\ s.recs = [id \in {1, 2} |-> FromServer(rows[id])]
    OBVIOUS
  <2> HIDE DEF s
  <2>2. \A id \in {1, 2} :
            /\ FromServer(rows[id]) \in Stored /\ FromServer(rows[id]).version = id
            /\ Good(commits, seq, nextId, id, FromServer(rows[id]))
    BY <1>1, <1>4, <1>5, <1>9, FromServerGood
  <2>3. IsMap(s.recs, Stored) /\ IsStore(s)
    BY <1>1, <2>1, <2>2 DEF IsMap, IsStore
  <2> QED
    BY <1>9, <2>1, <2>2, <2>3 DEF StoreOK, AllGood, Clean
<1>11. store = [d \in Devices |-> s] /\ saved = store /\ proc = [d \in Devices |-> Ready]
  BY DEF TuiInit
<1>12. myStore = s /\ Todo = NoRecords /\ proc[Me].at = "ready"
  BY <1>1, <1>11, ReadyOK DEF myStore, Todo
<1>13. DOMAIN Recs = {1, 2} /\ Visible(myStore) = {1, 2} /\ myStore.pending = <<>>
  BY <1>9, <1>12 DEF Recs, Visible, FromServer
<1> HIDE DEF s
<1>14. \A d \in Devices : DeviceOK(d)
  BY <1>10, <1>11, ReadyOK, EmptyGood DEF DeviceOK, ProcOK
<1>15. UserOK
  BY EmptyGood, SyncerAssumption DEF TuiInit, UserOK
<1>16. IInv
  BY <1>8, <1>11, <1>14, <1>15 DEF IInv
<1>17. list \in Seq(Ids) /\ Shows({1, 2}) /\ \A i \in DOMAIN list : list[i] \in {1, 2}
  <2>1. list \in SetToSeqs({1, 2})
    BY DEF TuiInit
  <2>2. /\ list \in Seq(Ids) /\ Len(list) = Cardinality({1, 2})
        /\ {list[i] : i \in DOMAIN list} = {1, 2}
    BY <1>1, <2>1, Listing
  <2> QED
    BY <2>2 DEF Shows
<1>18. cursor = 0 /\ CursorOK
  <2>1. cursor = 0
    BY DEF TuiInit
  <2>2. list # <<>> => Len(list) > 0
    BY <1>17
  <2> QED
    BY <2>1, <2>2 DEF CursorOK, OnRecord
<1>19. ScreenOK
  BY <1>1, <1>4, <1>13, <1>17, <1>18 DEF TuiInit, ScreenOK, Bodies
<1>20. SyncShape
  BY <1>12, <1>13 DEF TuiInit, SyncShape
<1>21. ListOK
  BY <1>13, <1>17, <1>18 DEF ListOK, CursorOK
<1>22. CalmOK
  BY DEF TuiInit, CalmOK
<1> QED
  BY <1>16, <1>19, <1>20, <1>21, <1>22 DEF TuiInv

LEMMA TuiStep == TuiInv /\ [TuiNext]_allVars => TuiInv'
  BY TuiNextInv, ScreenStep, ShapeStep, ListStep, CalmStep DEF TuiInv

\* The invariant holds whatever the user, the other devices and the network do
\* (model.go:250-560).
THEOREM TuiInvHolds == TuiSpec => []TuiInv
<1> QED
  BY TuiInitInv, TuiStep, PTL DEF TuiSpec

-------------------------------------------------------------------------------
(* What the invariant says of a state and of a step.                       *)

\* A confirmed delete or a saved form leaves the other records as they are.
LEMMA SubjectStep ==
  ASSUME IInv, ScreenOK, [TuiNext]_allVars, screen \in {"confirm", "form"}, screen' = "list",
         NEW id \in DOMAIN Recs \ {subject}
  PROVE  Recs'[id] = Recs[id]
<1>1. CASE UNCHANGED allVars \/ Key \/ SyncResult
  <2>1. UNCHANGED vars
    BY <1>1, KeyEffect DEF allVars, SyncResult
  <2> QED
    BY <2>1 DEF vars, Recs, myStore
<1>2. CASE ConfirmDelete \/ Submit
  <2>1. PICK x, rec :
            /\ x \in Ids /\ Edit(Me, x, rec)
            /\ x = nextId \/ x = subject
    BY <1>2, EditStep
  <2> QED
    BY <2>1, EditEffect, MyFacts
<1>3. CASE StartSync \/ Panic \/ Sync
  BY <1>3 DEF StartSync, Panic, Sync, screenVars
<1>4. ASSUME NEW x \in Ids, Remote(x)
      PROVE  Recs'[id] = Recs[id]
  BY <1>4, RemoteEffect DEF Recs, myStore
<1> QED
  BY <1>1, <1>2, <1>3, <1>4, TuiCases

\* The steps of the UI take no tombstone back either.
LEMMA TuiStepKeepsTombstones ==
  ASSUME IInv, [TuiNext]_allVars
  PROVE  Final
<1>1. CASE UNCHANGED rows
  BY <1>1 DEF Final
<1>2. CASE Sync
  <2>1. SyncStep(Me)
    BY <1>2 DEF Sync
  <2> QED
    BY <2>1, MyFacts, StepKeepsTombstones DEF Next
<1>3. ASSUME NEW id \in Ids, Remote(id)
      PROVE  Final
  <2>1. PICK batch : AllGood(commits, seq, nextId, batch) /\ Serve(batch) /\ nextId' = nextId
    BY <1>3, RemoteEffect
  <2> QED
    BY <2>1, ServeOK DEF IInv, Final
<1>4. CASE Key \/ SyncResult \/ StartSync \/ Panic
  <2>1. UNCHANGED rows
    BY <1>4 DEF Key, MoveUp, MoveDown, MoveCursor, OpenDetail, AskDelete, NewRecord,
                ChooseType, StartEdit, Back, Show, SyncResult, StartSync, SyncStart, Panic,
                vars, serverVars
  <2> QED
    BY <1>1, <2>1
<1>5. CASE ConfirmDelete \/ Submit
  <2>1. UNCHANGED rows
    BY <1>5 DEF ConfirmDelete, Submit, Create, Update, Delete, Edit, serverVars
  <2> QED
    BY <1>1, <2>1
<1> QED
  BY <1>1, <1>2, <1>3, <1>4, <1>5, TuiCases DEF allVars, vars, serverVars

-------------------------------------------------------------------------------
(* The theorems.                                                           *)

\* The types are kept when keys, messages, the sync and the other devices' changes
\* come in any order (model.go:60-130, 250-560).
THEOREM TuiTypeIsOK == TuiSpec => []TuiTypeOK
<1>1. TuiInv => TuiTypeOK
  BY InvTypeOK DEF TuiInv, ScreenOK, TuiTypeOK, Bodies
<1> QED
  BY <1>1, TuiInvHolds, PTL

\* With no sync under way, unless one failed, the list shows the records of the store,
\* those the sync brought too, and the cursor is on one of them (model.go:280-287, 430-433).
THEOREM ListShowsStore == TuiSpec => []ListIsCurrent
<1>1. TuiInv => ListIsCurrent
  BY DEF TuiInv, ListOK, Shows, Awake, ListIsCurrent
<1> QED
  BY <1>1, TuiInvHolds, PTL

\* A confirmed delete or a saved form changes the record it was opened for and no
\* other, though the sync reorders the list in between (model.go:421, 510).
THEOREM DialogsKeepTheirSubject == TuiSpec => ActsOnItsSubject
<1>1. TuiInv /\ [TuiNext]_allVars
      => [/\ screen \in {"confirm", "form"}
          /\ screen' = "list"
          => \A id \in DOMAIN myStore.recs \ {subject} :
                 myStore'.recs[id] = myStore.recs[id]]_allVars
  BY SubjectStep DEF TuiInv, Recs
<1> QED
  BY <1>1, TuiInvHolds, PTL DEF TuiSpec, ActsOnItsSubject

\* What the user saved when nothing was being sent stays on the device, whatever is
\* edited, deleted, sent, lost and merged later (syncer.go:125-159).
THEOREM CalmEditsStay == TuiSpec => []CalmEditsSurvive
<1>1. TuiInv => CalmEditsSurvive
  BY DEF TuiInv, CalmOK, Home, Recs, Awake, Kept, CalmEditsSurvive
<1> QED
  BY <1>1, TuiInvHolds, PTL

\* Edits in the middle of a sync make no record look synchronised that is not, and
\* take no tombstone of the server back (syncer.go:118-159, 215).
THEOREM TuiSyncIsHonest == TuiSpec => []CleanIsCommitted /\ DeletedStaysDeleted
<1>1. TuiInv => CleanIsCommitted
  BY InvClean DEF TuiInv
<1>2. TuiInv /\ [TuiNext]_allVars
      => [\A id \in Ids : rows[id].deleted => rows'[id].deleted]_vars
  BY TuiStepKeepsTombstones DEF TuiInv, Final
<1> QED
  BY <1>1, <1>2, TuiInvHolds, PTL DEF TuiSpec, DeletedStaysDeleted

-------------------------------------------------------------------------------
(* A second invariant: what the device has not pulled yet is not its own.   *)
(* It is about the faults after which a push is recorded or did not happen: *)
(* one cut short leaves rows of the device's own that no answer tells of.   *)

\* Only the edits made so far are in any body.
OlderOK ==
    Awake =>
        /\ \A c \in commits : c.row.body \subseteq 1..edits
        /\ \A x \in DOMAIN Recs : Recs[x].body \subseteq 1..edits
        /\ \A x \in DOMAIN Todo : Todo[x].body \subseteq 1..edits
        /\ seen \subseteq 1..edits

\* Nothing on this device, in its batches or in the answers to them has the edit.
Foreign(edit) ==
    /\ \A x \in DOMAIN Recs : edit \notin Recs[x].body
    /\ \A x \in DOMAIN Todo : edit \notin Todo[x].body
    /\ \A k \in PendingKeys : \A x \in AppliedIn(idem[k]) : edit \notin idem[k][x].row.body
    /\ edit \notin seen

Unpulled(id) == rows[id].version > myStore.cursor /\ ~rows[id].deleted

\* The answer to batch k tells of the row.
ToldBy(k, id) == id \in AppliedIn(idem[k]) /\ idem[k][id].row.version = rows[id].version

\* A live row the cursor has not reached has an edit of another device, or a recorded
\* answer will take the cursor over it.
ForeignOK ==
    Awake => \A id \in Ids :
        Unpulled(id) => \/ \E edit \in rows[id].body : Foreign(edit)
                        \/ \E k \in PendingKeys : ToldBy(k, id)

LEMMA RowIsOlder ==
  ASSUME IInv, OlderOK, Awake, NEW id \in Ids, rows[id].version > myStore.cursor
  PROVE  rows[id].body \subseteq 1..edits
<1>1. myStore.cursor \in Nat /\ rows[id] # NoRow
  BY MyFacts, Empty DEF IsStore
<1>2. Committed(commits, id, rows[id])
  BY <1>1 DEF IInv, ServerOK, RowsOK
<1> QED
  BY <1>2 DEF Committed, OlderOK

LEMMA AnswersAreOlder ==
  ASSUME IInv, OlderOK, Awake, NEW k \in Keys, NEW x \in AppliedIn(idem[k])
  PROVE  idem[k][x].row.body \subseteq 1..edits
  BY DEF IInv, ServerOK, ResultsOK, Committed, OlderOK

\* What an exchange puts in the store was in a batch or an answer.
LEMMA ExchangedBody ==
  ASSUME IInv, NEW batch, NEW results, Exchange(batch, results), NEW x \in DOMAIN Recs'
  PROVE  \/ x \in DOMAIN Recs /\ Recs'[x].body = Recs[x].body
         \/ x \in DOMAIN Todo /\ Recs'[x].body = Todo[x].body
         \/ \E k \in PendingKeys : x \in AppliedIn(idem[k]) /\ Recs'[x].body = idem[k][x].row.body
<1>1. CASE x \notin AppliedIn(results)
  BY <1>1 DEF Exchange
<1>2. CASE x \in AppliedIn(results)
  <2>1. Recs'[x].body = results[x].row.body
    BY <1>2 DEF Exchange, FromServer
  <2>2. CASE results = Results(batch)
    <3>1. /\ InHand(batch) /\ x \in DOMAIN batch
          /\ results[x].row.body = batch[x].body
      BY <1>2, <2>2, ServeEffect DEF Exchange, InHand
    <3> QED
      BY <2>1, <3>1 DEF InHand
  <2> QED
    BY <1>2, <2>1, <2>2 DEF Exchange
<1> QED
  BY <1>1, <1>2

\* What a recorded answer holds after an exchange was in a batch or in an answer.
LEMMA ExchangedAnswer ==
  ASSUME IInv, NEW batch, NEW results, Exchange(batch, results),
         NEW k \in PendingKeys', NEW x \in AppliedIn(idem'[k])
  PROVE  \/ x \in DOMAIN Todo /\ idem'[k][x].row.body = Todo[x].body
         \/ k \in PendingKeys /\ idem'[k] = idem[k]
<1>1. CASE idem'[k] = Results(batch)
  <2>1. /\ InHand(batch) /\ x \in DOMAIN batch
        /\ idem'[k][x].row.body = batch[x].body
    BY <1>1, ServeEffect DEF Exchange, InHand
  <2> QED
    BY <2>1 DEF InHand
<1> QED
  BY <1>1 DEF Exchange

LEMMA OlderStep ==
  ASSUME IInv, IInv', ScreenOK, SyncShape, OlderOK, [TuiNext]_allVars
  PROVE  OlderOK'
<1> SUFFICES ASSUME Awake'
             PROVE  /\ \A c \in commits' : c.row.body \subseteq 1..edits'
                    /\ \A x \in DOMAIN Recs' : Recs'[x].body \subseteq 1..edits'
                    /\ \A x \in DOMAIN Todo' : Todo'[x].body \subseteq 1..edits'
                    /\ seen' \subseteq 1..edits'
  BY DEF OlderOK
<1>1. CASE UNCHANGED allVars
  BY <1>1 DEF allVars, tuiVars, screenVars, vars, serverVars, userVars,
              OlderOK, Awake, Recs, Todo, myStore
<1>2. CASE Key
  <2>1. /\ UNCHANGED vars /\ Awake
        /\ seen' = seen \/ seen' = {} \/ \E x \in DOMAIN Recs : seen' = Recs[x].body
    BY <1>2, KeyEffect
  <2> QED
    BY <2>1 DEF OlderOK, vars, serverVars, userVars, Recs, Todo, myStore
<1>3. CASE ConfirmDelete \/ Submit
  <2>1. Awake /\ seen' = {}
    BY <1>3, EditStep DEF Awake
  <2>2. PICK id, rec :
            /\ id \in Ids /\ Edit(Me, id, rec)
            /\ \/ rec.body = {edits + 1}
               \/ rec.body = seen \union {edits + 1}
               \/ id \in DOMAIN Recs /\ rec.body = Recs[id].body
    BY <1>3, EditStep
  <2>3. /\ DOMAIN Recs' = DOMAIN Recs \union {id} /\ Recs'[id] = rec
        /\ \A x \in DOMAIN Recs \ {id} : Recs'[x] = Recs[x]
        /\ Todo' = Todo /\ commits' = commits /\ edits' = edits + 1
    BY <2>2, EditEffect DEF serverVars, Todo
  <2>4. 1..edits \subseteq 1..edits' /\ edits + 1 \in 1..edits'
    BY <2>3, MyFacts
  <2>5. rec.body \subseteq 1..edits'
    BY <2>1, <2>2, <2>4 DEF OlderOK
  <2> QED
    BY <2>1, <2>3, <2>4, <2>5 DEF OlderOK
<1>4. CASE StartSync
  <2>1. /\ proc' = [proc EXCEPT ![Me] = ReplayOrPull(myStore')] /\ Awake
        /\ UNCHANGED <<commits, edits, store, seen>>
    BY <1>4 DEF StartSync, SyncStart, myStore, serverVars, userVars, screenVars, Awake
  <2>2. \A x \in DOMAIN Todo' : x \in DOMAIN Recs' /\ Todo'[x] = Recs'[x]
    BY <2>1, NextBatch
  <2>3. Recs' = Recs
    BY <2>1 DEF Recs, myStore
  <2> QED
    BY <2>1, <2>2, <2>3 DEF OlderOK
<1>5. CASE SyncResult
  BY <1>5 DEF SyncResult, vars, serverVars, userVars, OlderOK, Awake, Recs, Todo, myStore
<1>6. CASE Panic
  BY <1>6 DEF Panic, Awake
<1>7. CASE Sync
  <2>1. /\ SyncStep(Me) /\ Awake /\ seen' = seen /\ edits' = edits
    BY <1>7, SyncEffect DEF Sync, screenVars, userVars
  <2>2. CASE Pull(Me)
    <3>1. /\ commits' = commits
          /\ \A x \in DOMAIN Todo' : x \in DOMAIN Recs' /\ Todo'[x] = Recs'[x]
      BY <2>2, PullEffect
    <3>2. ASSUME NEW x \in DOMAIN Recs'
          PROVE  Recs'[x].body \subseteq 1..edits
      <4>1. CASE \E h \in DOMAIN Recs : Recs'[x].body = Recs[h].body
        BY <2>1, <4>1 DEF OlderOK
      <4>2. ASSUME NEW id \in Ids, Recs'[x].body = rows[id].body,
                   Committed(commits, id, rows[id])
            PROVE  Recs'[x].body \subseteq 1..edits
        BY <2>1, <4>2 DEF OlderOK, Committed
      <4> QED
        BY <2>2, <4>1, <4>2, PullEffect
    <3> QED
      BY <2>1, <3>1, <3>2 DEF OlderOK
  <2>3. ASSUME NEW batch, NEW results, Exchange(batch, results)
        PROVE  /\ \A c \in commits' : c.row.body \subseteq 1..edits
               /\ \A x \in DOMAIN Recs' : Recs'[x].body \subseteq 1..edits
               /\ \A x \in DOMAIN Todo' : Todo'[x].body \subseteq 1..edits
    <3>1. InHand(batch) /\ \A c \in commits' \ commits :
                               \E x \in DOMAIN batch : c.row.body = batch[x].body
      BY <2>3, ServeEffect DEF Exchange, InHand
    <3>2. \A c \in commits' : c.row.body \subseteq 1..edits
      BY <2>1, <3>1 DEF InHand, OlderOK
    <3>3. \A x \in DOMAIN Recs' : Recs'[x].body \subseteq 1..edits
      BY <2>1, <2>3, MyFacts, ExchangedBody, AnswersAreOlder DEF OlderOK
    <3>4. \A x \in DOMAIN Todo' : Todo'[x].body \subseteq 1..edits
      BY <2>1, <2>3, <3>3 DEF OlderOK, Exchange
    <3> QED
      BY <3>2, <3>3, <3>4
  <2> QED
    BY <2>1, <2>2, <2>3, SyncEffect DEF OlderOK
<1>8. ASSUME NEW id \in Ids, Remote(id)
      PROVE  /\ \A c \in commits' : c.row.body \subseteq 1..edits'
             /\ \A x \in DOMAIN Recs' : Recs'[x].body \subseteq 1..edits'
             /\ \A x \in DOMAIN Todo' : Todo'[x].body \subseteq 1..edits'
             /\ seen' \subseteq 1..edits'
  <2>1. /\ UNCHANGED <<store, proc, tuiVars>> /\ Awake /\ edits' = edits + 1
        /\ Committed(commits, id, rows[id])
    BY <1>8, RemoteEffect
  <2>2. PICK batch : /\ AllGood(commits, seq, nextId, batch) /\ Serve(batch)
                     /\ DOMAIN batch = {id}
                     /\ batch[id].body \subseteq rows[id].body \union {edits + 1}
    BY <1>8, RemoteEffect
  <2>3. 1..edits \subseteq 1..edits' /\ edits + 1 \in 1..edits'
    BY <2>1, MyFacts
  <2>4. batch[id].body \subseteq 1..edits'
    BY <2>1, <2>2, <2>3 DEF Committed, OlderOK
  <2>5. \A c \in commits' : c.row.body \subseteq 1..edits'
    BY <2>1, <2>2, <2>3, <2>4, ServeEffect DEF OlderOK
  <2>6. Recs' = Recs /\ Todo' = Todo /\ seen' = seen
    BY <2>1 DEF Recs, Todo, myStore, tuiVars, screenVars
  <2> QED
    BY <2>1, <2>3, <2>5, <2>6 DEF OlderOK
<1> QED
  BY <1>1, <1>2, <1>3, <1>4, <1>5, <1>6, <1>7, <1>8, TuiCases

\* After an exchange the device has read every row it wrote, or an answer is recorded.
LEMMA ExchangeKeepsForeign ==
  ASSUME IInv, ForeignOK, Awake, "unrecorded" \notin Faults, UNCHANGED screenVars,
         NEW batch, NEW results, Exchange(batch, results), IInv',
         NEW id \in Ids, Unpulled(id)'
  PROVE  \/ \E edit \in rows'[id].body : Foreign(edit)'
         \/ \E k \in PendingKeys' : ToldBy(k, id)'
<1>1. AllGood(commits, seq, nextId, batch) /\ Serve(batch)
  BY DEF Exchange, InHand
<1>2. /\ rows[id].version \in Nat /\ rows'[id].version \in Nat
      /\ myStore.cursor \in Nat /\ myStore'.cursor \in Nat
      /\ myStore.cursor <= myStore'.cursor
      /\ rows'[id].version > myStore'.cursor /\ ~rows'[id].deleted
  <2>1. IsStore(myStore)'
    BY TuiAssumption DEF IInv, DeviceOK, StoreOK, myStore
  <2> QED
    BY <2>1, MyFacts DEF IInv, ServerOK, RowsOK, Row, IsStore, Exchange, Unpulled
<1>3. CASE id \in Applicable(batch)
  <2>1. id \in AppliedIn(Results(batch)) /\ Results(batch)[id].row = rows'[id]
    BY <1>1, <1>3, ServeEffect
  <2>2. results # Results(batch)
    <3>1. results = Results(batch) => rows'[id].version <= myStore'.cursor
      BY <2>1 DEF Exchange
    <3> QED
      BY <1>2, <3>1
  <2>3. PICK k \in PendingKeys' : idem'[k] = Results(batch)
    BY <1>3, <2>2 DEF Exchange
  <2>4. ToldBy(k, id)'
    BY <2>1, <2>3 DEF ToldBy
  <2> QED
    BY <2>4
<1>4. CASE id \notin Applicable(batch)
  <2>1. rows'[id] = rows[id] /\ Unpulled(id)
    <3>1. rows'[id] = rows[id]
      BY <1>1, <1>4, ServeEffect
    <3> QED
      BY <1>2, <3>1 DEF Unpulled
  <2>2. ASSUME NEW edit \in rows[id].body, Foreign(edit)
        PROVE  Foreign(edit)'
    <3>1. \A x \in DOMAIN Recs' : edit \notin Recs'[x].body
      BY <2>2, ExchangedBody DEF Foreign
    <3>2. \A x \in DOMAIN Todo' : edit \notin Todo'[x].body
      BY <2>2, <3>1 DEF Foreign, Exchange
    <3>3. \A k \in PendingKeys' : \A x \in AppliedIn(idem'[k]) : edit \notin idem'[k][x].row.body
      <4> TAKE k \in PendingKeys'
      <4> TAKE x \in AppliedIn(idem'[k])
      <4> QED
        BY <2>2, ExchangedAnswer DEF Foreign
    <3>4. edit \notin seen'
      BY <2>2 DEF Foreign, screenVars
    <3> QED
      BY <3>1, <3>2, <3>3, <3>4 DEF Foreign
  <2>3. ASSUME NEW k \in PendingKeys, ToldBy(k, id)
        PROVE  k \in PendingKeys' /\ ToldBy(k, id)'
    <3>1. results # idem[k]
      <4>1. results = idem[k] => rows[id].version <= myStore'.cursor
        BY <2>3 DEF ToldBy, Exchange
      <4> QED
        BY <1>2, <2>1, <4>1
    <3>2. k \in PendingKeys' /\ idem'[k] = idem[k]
      BY <2>3, <3>1 DEF ToldBy, Exchange
    <3> QED
      BY <2>1, <2>3, <3>2 DEF ToldBy
  <2> QED
    BY <2>1, <2>2, <2>3 DEF ForeignOK
<1> QED
  BY <1>3, <1>4

LEMMA ForeignStep ==
  ASSUME IInv, IInv', ScreenOK, SyncShape, OlderOK, ForeignOK, "unrecorded" \notin Faults,
         [TuiNext]_allVars
  PROVE  ForeignOK'
<1> SUFFICES ASSUME Awake', NEW id \in Ids, Unpulled(id)'
             PROVE  \/ \E edit \in rows'[id].body : Foreign(edit)'
                    \/ \E k \in PendingKeys' : ToldBy(k, id)'
  BY DEF ForeignOK
\* A step that keeps the server and the cursor, and puts no edit the device did not
\* have before in a record, the batch or the form.
<1>0. ASSUME Awake, UNCHANGED <<rows, idem>>, PendingKeys' = PendingKeys,
             myStore'.cursor = myStore.cursor,
             ASSUME NEW edit \in 1..edits, Foreign(edit)
             PROVE  /\ \A x \in DOMAIN Recs' : edit \notin Recs'[x].body
                    /\ \A x \in DOMAIN Todo' : edit \notin Todo'[x].body
                    /\ edit \notin seen'
      PROVE  \/ \E edit \in rows'[id].body : Foreign(edit)'
             \/ \E k \in PendingKeys' : ToldBy(k, id)'
  <2>1. Unpulled(id)
    BY <1>0 DEF Unpulled
  <2>2. rows[id].body \subseteq 1..edits
    BY <1>0, <2>1, RowIsOlder DEF Unpulled
  <2>3. ASSUME NEW edit \in rows[id].body, Foreign(edit)
        PROVE  Foreign(edit)'
    <3>1. /\ \A x \in DOMAIN Recs' : edit \notin Recs'[x].body
          /\ \A x \in DOMAIN Todo' : edit \notin Todo'[x].body
          /\ edit \notin seen'
      BY <1>0, <2>2, <2>3
    <3> QED
      BY <1>0, <2>3, <3>1 DEF Foreign
  <2>4. ASSUME NEW k \in PendingKeys, ToldBy(k, id)
        PROVE  k \in PendingKeys' /\ ToldBy(k, id)'
    BY <1>0, <2>4 DEF ToldBy
  <2> QED
    BY <1>0, <2>1, <2>3, <2>4 DEF ForeignOK
<1>1. CASE UNCHANGED allVars \/ SyncResult
  <2>1. UNCHANGED <<vars, screen, seen>>
    BY <1>1 DEF allVars, tuiVars, screenVars, SyncResult
  <2>2. /\ UNCHANGED <<rows, idem, seen>> /\ Awake /\ PendingKeys' = PendingKeys
        /\ myStore'.cursor = myStore.cursor /\ Recs' = Recs /\ Todo' = Todo
    BY <2>1 DEF vars, serverVars, Recs, Todo, PendingKeys, myStore, Awake
  <2> QED
    BY <1>0, <2>2 DEF Foreign
<1>2. CASE Key
  <2>1. /\ UNCHANGED vars /\ Awake
        /\ seen' = seen \/ seen' = {} \/ \E x \in DOMAIN Recs : seen' = Recs[x].body
    BY <1>2, KeyEffect
  <2>2. /\ UNCHANGED <<rows, idem>> /\ PendingKeys' = PendingKeys
        /\ myStore'.cursor = myStore.cursor /\ Recs' = Recs /\ Todo' = Todo
    BY <2>1 DEF vars, serverVars, Recs, Todo, PendingKeys, myStore
  <2> QED
    BY <1>0, <2>1, <2>2 DEF Foreign
<1>3. CASE ConfirmDelete \/ Submit
  <2>1. Awake /\ seen' = {}
    BY <1>3, EditStep DEF Awake
  <2>2. PICK x, rec :
            /\ x \in Ids /\ Edit(Me, x, rec)
            /\ \/ rec.body = {edits + 1}
               \/ rec.body = seen \union {edits + 1}
               \/ x \in DOMAIN Recs /\ rec.body = Recs[x].body
    BY <1>3, EditStep
  <2>3. /\ DOMAIN Recs' = DOMAIN Recs \union {x} /\ Recs'[x] = rec
        /\ \A y \in DOMAIN Recs \ {x} : Recs'[y] = Recs[y]
        /\ Todo' = Todo /\ PendingKeys' = PendingKeys /\ myStore'.cursor = myStore.cursor
        /\ UNCHANGED <<rows, idem>>
    BY <2>2, EditEffect DEF serverVars, Todo, PendingKeys
  <2>4. \A edit \in 1..edits : edit # edits + 1
    BY MyFacts
  <2>5. ASSUME NEW edit \in 1..edits, Foreign(edit)
        PROVE  \A y \in DOMAIN Recs' : edit \notin Recs'[y].body
    BY <2>2, <2>3, <2>4, <2>5 DEF Foreign
  <2> QED
    BY <1>0, <2>1, <2>3, <2>5 DEF Foreign
<1>4. CASE StartSync
  <2>1. /\ proc' = [proc EXCEPT ![Me] = ReplayOrPull(myStore')] /\ Awake
        /\ UNCHANGED <<rows, idem, store, seen>>
    BY <1>4 DEF StartSync, SyncStart, myStore, serverVars, screenVars, Awake
  <2>2. \A x \in DOMAIN Todo' : x \in DOMAIN Recs' /\ Todo'[x] = Recs'[x]
    BY <2>1, NextBatch
  <2>3. /\ Recs' = Recs /\ PendingKeys' = PendingKeys
        /\ myStore'.cursor = myStore.cursor
    BY <2>1 DEF Recs, myStore, PendingKeys
  <2> QED
    BY <1>0, <2>1, <2>2, <2>3 DEF Foreign
<1>5. CASE Panic
  BY <1>5 DEF Panic, Awake
<1>6. CASE Sync
  <2>1. SyncStep(Me) /\ Awake /\ UNCHANGED screenVars
    BY <1>6, SyncEffect DEF Sync
  <2>2. CASE Pull(Me)
    <3>1. rows'[id].version <= myStore'.cursor /\ rows' = rows
      BY <2>2, PullEffect
    <3>2. rows'[id].version \in Nat /\ myStore'.cursor \in Nat
      <4>1. IsStore(myStore)'
        BY TuiAssumption DEF IInv, DeviceOK, StoreOK, myStore
      <4> QED
        BY <4>1 DEF IInv, ServerOK, RowsOK, Row, IsStore
    <3> QED
      BY <3>1, <3>2 DEF Unpulled
  <2> QED
    BY <2>1, <2>2, SyncEffect, ExchangeKeepsForeign
<1>7. ASSUME NEW x \in Ids, Remote(x)
      PROVE  \/ \E edit \in rows'[id].body : Foreign(edit)'
             \/ \E k \in PendingKeys' : ToldBy(k, id)'
  <2>1. UNCHANGED <<idem, store, proc, tuiVars>> /\ Awake
    BY <1>7, RemoteEffect
  <2>2. /\ Recs' = Recs /\ Todo' = Todo /\ PendingKeys' = PendingKeys
        /\ seen' = seen /\ myStore' = myStore
    BY <2>1 DEF Recs, Todo, myStore, PendingKeys, tuiVars, screenVars
  <2>3. PICK batch : /\ AllGood(commits, seq, nextId, batch) /\ Serve(batch)
                     /\ DOMAIN batch = {x}
                     /\ rows'[x].deleted \/ edits + 1 \in rows'[x].body
    BY <1>7, RemoteEffect
  <2>4. CASE id = x
    <3>1. edits + 1 \in rows'[id].body
      BY <2>3, <2>4 DEF Unpulled
    <3>2. edits + 1 \notin 1..edits
      BY MyFacts
    <3>3. \A k \in PendingKeys : \A y \in AppliedIn(idem[k]) : edits + 1 \notin idem[k][y].row.body
      BY <2>1, <3>2, MyFacts, AnswersAreOlder
    <3>4. Foreign(edits + 1)
      BY <2>1, <3>2, <3>3 DEF Foreign, OlderOK
    <3>5. \E edit \in rows'[id].body : Foreign(edit)'
      <4>1. PICK edit \in rows'[id].body : Foreign(edit)
        BY <3>1, <3>4
      <4>2. Foreign(edit)'
        BY <2>1, <2>2, <4>1 DEF Foreign
      <4> QED
        BY <4>2
    <3> QED
      BY <3>5
  <2>5. CASE id # x
    <3>1. rows'[id] = rows[id]
      BY <2>3, <2>5, ServeEffect
    <3>2. Unpulled(id)
      BY <2>2, <3>1 DEF Unpulled
    <3>3. ASSUME NEW edit \in rows[id].body, Foreign(edit)
          PROVE  Foreign(edit)'
      BY <2>1, <2>2, <3>3 DEF Foreign
    <3>4. ASSUME NEW k \in PendingKeys, ToldBy(k, id)
          PROVE  ToldBy(k, id)'
      BY <2>1, <3>1, <3>4 DEF ToldBy
    <3> QED
      BY <2>1, <2>2, <3>1, <3>2, <3>3, <3>4 DEF ForeignOK
  <2> QED
    BY <2>4, <2>5
<1> QED
  BY <1>1, <1>2, <1>3, <1>4, <1>5, <1>6, <1>7, TuiCases

LEMMA ForeignInit == TuiInit => OlderOK /\ ForeignOK
<1> SUFFICES ASSUME TuiInit
             PROVE  OlderOK /\ ForeignOK
  OBVIOUS
<1>1. TuiInv /\ IInv
  BY TuiInitInv DEF TuiInv
<1>2. rows = [id \in Ids |-> IF id <= 2 THEN [NoRow EXCEPT !.version = id] ELSE NoRow]
  BY DEF TuiInit
<1>3. \A id \in Ids : rows[id].body = {} /\ rows[id].version <= 2
  <2>1. ASSUME NEW v
        PROVE  [NoRow EXCEPT !.version = v].body = {} /\ [NoRow EXCEPT !.version = v].version = v
    BY DEF NoRow
  <2> QED
    BY <1>2, <2>1, Empty DEF NoRow
<1>4. \A c \in commits : c.row.body = {}
  <2>1. commits = {[id |-> id, base |-> 0, row |-> rows[id]] : id \in {1, 2}}
    BY DEF TuiInit
  <2>2. {1, 2} \subseteq Ids
    BY TuiAssumption, SyncerAssumption DEF Ids
  <2> QED
    BY <1>3, <2>1, <2>2
<1>5. /\ Recs = [id \in {1, 2} |-> FromServer(rows[id])] /\ myStore.cursor = 2
      /\ DOMAIN Todo = {} /\ seen = {}
  BY <1>1, MyFacts, ReadyOK, Empty DEF TuiInit, Recs, myStore, Todo
<1>6. \A x \in DOMAIN Recs : Recs[x].body = {}
  <2>1. {1, 2} \subseteq Ids
    BY TuiAssumption, SyncerAssumption DEF Ids
  <2> QED
    BY <1>3, <1>5, <2>1 DEF FromServer
<1>7. OlderOK
  BY <1>4, <1>5, <1>6 DEF OlderOK
<1>8. \A id \in Ids : ~(rows[id].version > myStore.cursor)
  BY <1>1, <1>3, <1>5 DEF IInv, ServerOK, RowsOK, Row
<1> QED
  BY <1>7, <1>8 DEF ForeignOK, Unpulled

\* The device never takes its own push for an edit of another device: a pull copies no
\* record that the server has with the very same body, unless a push was cut short
\* (syncer.go:206-209, sync.go:60-110).
THEOREM NoCopyOfOwnPush ==
  ASSUME "unrecorded" \notin Faults
  PROVE  TuiSpec => []NoSelfConflict
<1> DEFINE Inv == TuiInv /\ OlderOK /\ ForeignOK
<1>1. TuiInit => Inv
  BY TuiInitInv, ForeignInit
<1>2. Inv /\ [TuiNext]_allVars => Inv'
  BY TuiStep, OlderStep, ForeignStep DEF TuiInv
<1>3. Inv => NoSelfConflict
  <2> SUFFICES ASSUME Inv, NEW d \in Devices, proc[d].at = "pull", NEW id \in Copied(d),
                      ~rows[id].deleted
               PROVE  rows[id].body # store[d].recs[id].body
    BY DEF NoSelfConflict
  <2>1. d = Me /\ id \in Ids /\ id \in DOMAIN Recs /\ rows[id].version > myStore.cursor
    BY TuiAssumption DEF Copied, Incoming, InConflict, Recs, myStore
  <2>2. Awake /\ PendingKeys = {}
    BY <2>1 DEF TuiInv, SyncShape, PendingKeys, KeysOf
  <2>3. \E edit \in rows[id].body : Foreign(edit)
    BY <2>1, <2>2 DEF ForeignOK, Unpulled
  <2> QED
    BY <2>1, <2>3 DEF Foreign, Recs, myStore
<1> QED
  BY <1>1, <1>2, <1>3, PTL DEF TuiSpec
===============================================================================
