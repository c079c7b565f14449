----------------------------- MODULE Syncer_proofs -----------------------------
(***************************************************************************)
(* Theorems about Syncer for every number of devices, records, edits,       *)
(* imports and faults, every chunk size and every error of the clocks.      *)
(***************************************************************************)
EXTENDS Syncer, FiniteSetTheorems, TLAPS

-------------------------------------------------------------------------------
(* Numbers and finite sets.                                                *)

\* A bounded set of numbers has a largest one.
LEMMA Largest ==
  ASSUME NEW S \in SUBSET Nat, S # {}, NEW n \in Nat, \A v \in S : v <= n
  PROVE  \E v \in S : \A w \in S : w <= v
<1> DEFINE distances == {m \in Nat : n - m \in S}
<1>1. PICK v \in S : TRUE
  OBVIOUS
<1>2. n - v \in distances
  OBVIOUS
<1>3. PICK m \in distances : \A k \in distances : ~(<<k, m>> \in OpToRel(<, Nat))
  <2>1. distances \subseteq Nat /\ distances # {}
    BY <1>2
  <2> HIDE DEF distances
  <2> QED
    BY <2>1, NatLessThanWellFounded, WFMin, Zenon
<1>4. \A k \in distances : m <= k
  <2> TAKE k \in distances
  <2>1. k < m => <<k, m>> \in OpToRel(<, Nat)
    BY DEF OpToRel
  <2>2. ~(k < m)
    BY <1>3, <2>1, Zenon
  <2> QED
    BY <2>2
<1>5. \A w \in S : w <= n - m
  <2> TAKE w \in S
  <2>1. n - w \in distances
    OBVIOUS
  <2>2. m <= n - w
    BY <1>4, <2>1
  <2> QED
    BY <2>2
<1> QED
  BY <1>5

LEMMA IdsFinite == ASSUME NEW S \in SUBSET Ids PROVE IsFiniteSet(S) /\ Cardinality(S) \in Nat
<1>1. IsFiniteSet(Ids)
  BY FS_Interval, SyncerAssumption DEF Ids
<1> QED
  BY <1>1, FS_Subset, FS_CardinalityType

\* The rank of an id in a set, which VersionFor and CopyId count with.
Rank(S, id) == Cardinality({x \in S : x <= id})

\* Ranks are positive, bounded, and different for different elements.
LEMMA Ranks ==
  ASSUME NEW S \in SUBSET Ids
  PROVE  /\ \A id \in S : Rank(S, id) \in 1..Cardinality(S)
         /\ \A a, b \in S : Rank(S, a) = Rank(S, b) => a = b
<1> DEFINE upto(id) == {x \in S : x <= id}
<1>1. ASSUME NEW id \in S
      PROVE  Rank(S, id) \in 1..Cardinality(S)
  <2>1. id \in upto(id) /\ upto(id) \subseteq S
    BY DEF Ids
  <2>2. Cardinality(upto(id)) \in Nat /\ Cardinality(upto(id)) <= Cardinality(S)
    BY <2>1, IdsFinite, FS_Subset, Zenon
  <2>3. Cardinality(upto(id)) # 0
    BY <2>1, IdsFinite, FS_EmptySet
  <2> QED
    BY <2>2, <2>3, IdsFinite DEF Rank
<1>2. ASSUME NEW a \in S, NEW b \in S, a < b
      PROVE  Rank(S, a) # Rank(S, b)
  <2>1. S \subseteq Nat
    BY SyncerAssumption DEF Ids
  <2>2. upto(a) \subseteq upto(b) /\ b \in upto(b) /\ b \notin upto(a)
    <3>1. \A x \in S : x <= a => x <= b
      BY <1>2, <2>1
    <3>2. b <= b /\ ~(b <= a)
      BY <1>2, <2>1
    <3> QED
      BY <3>1, <3>2, Zenon
  <2>3. IsFiniteSet(upto(b))
    BY IdsFinite
  <2>4. upto(a) \in SUBSET upto(b) /\ upto(a) # upto(b)
    BY <2>2
  <2>5. Cardinality(upto(a)) # Cardinality(upto(b))
    <3> HIDE DEF upto
    <3> QED
      BY <2>3, <2>4, FS_Subset
  <2> QED
    BY <2>5 DEF Rank
<1>3. \A a, b \in S : a < b \/ b < a \/ a = b
  BY DEF Ids
<1> QED
  BY <1>1, <1>2, <1>3

-------------------------------------------------------------------------------
(* The inductive invariant.  log, top and free stand for commits, seq and   *)
(* nextId, now or in the next state.                                       *)

Committed(log, id, row) == \E c \in log : c.id = id /\ c.row = row

\* Version v of id, if there was one, was not a tombstone.
Live(log, id, v) == \A c \in log : c.id = id /\ c.row.version = v => ~c.row.deleted

\* A live record has only ever seen live versions.
Good(log, top, free, id, rec) ==
    /\ id < free
    /\ rec.version <= top /\ rec.base <= top
    /\ ~rec.deleted => Live(log, id, rec.version) /\ Live(log, id, rec.base)

AllGood(log, top, free, recs) ==
    IsMap(recs, Stored) /\ \A id \in DOMAIN recs : Good(log, top, free, id, recs[id])

\* CleanIsCommitted for one store.
Clean(log, s) ==
    \A id \in DOMAIN s.recs :
        ~s.recs[id].dirty =>
            /\ s.recs[id].version <= s.cursor
            /\ \E row \in Row : Committed(log, id, row) /\ FromServer(row) = s.recs[id]

StoreOK(log, top, free, s) ==
    IsStore(s) /\ AllGood(log, top, free, s.recs) /\ Clean(log, s)

\* Versions are drawn once, and each belongs to one row.
LogOK(log, top, free) ==
    /\ log \subseteq [id: Ids, base: Nat, row: Row]
    /\ \A c \in log : c.row.version \in 1..top /\ c.id < free
    /\ \A c1, c2 \in log :
           c1.row.version = c2.row.version => c1.id = c2.id /\ c1.row = c2.row

\* What an answer of the server reports as applied was committed.
ResultsOK(log, results) ==
    /\ IsMap(results, [applied: BOOLEAN, row: Row])
    /\ \A id \in AppliedIn(results) : Committed(log, id, results[id].row)

RowsOK(log) ==
    /\ rows \in [Ids -> Row]
    /\ \A id \in Ids : rows[id] = NoRow \/ Committed(log, id, rows[id])

ServerOK ==
    /\ seq \in Nat
    /\ nextId \in 1..(MaxIds + 1)
    /\ LogOK(commits, seq, nextId)
    /\ RowsOK(commits)
    /\ DOMAIN idem = Keys
    /\ \A k \in Keys : ResultsOK(commits, idem[k])

\* A replay has a batch to replay.
ProcOK(d) ==
    /\ DOMAIN proc[d] = {"at", "iter", "todo", "conflicts"}
    /\ proc[d].at \in {"ready", "replay", "pull", "push"}
    /\ proc[d].iter \in 0..MaxIterations
    /\ proc[d].conflicts \in BOOLEAN
    /\ AllGood(commits, seq, nextId, proc[d].todo)
    /\ proc[d].at = "replay" => store[d].pending # <<>>

DeviceOK(d) ==
    /\ StoreOK(commits, seq, nextId, store[d])
    /\ StoreOK(commits, seq, nextId, saved[d])
    /\ ProcOK(d)

UserOK ==
    /\ AllGood(commits, seq, nextId, bundle)
    /\ edits \in 0..MaxEdits
    /\ imports \in 0..MaxImports
    /\ faults \in 0..MaxFaults

IInv ==
    /\ ServerOK
    /\ DOMAIN store = Devices /\ DOMAIN saved = Devices /\ DOMAIN proc = Devices
    /\ \A d \in Devices : DeviceOK(d)
    /\ UserOK

-------------------------------------------------------------------------------
(* What stays true while the server goes on.                               *)

\* Commits are never taken back, and new ones have new versions.
Grows(log, top, free, log2, top2, free2) ==
    /\ log \subseteq log2 /\ log2 \subseteq [id: Ids, base: Nat, row: Row]
    /\ top \in Nat /\ top2 \in Nat /\ top <= top2
    /\ free \in Nat /\ free2 \in Nat /\ free <= free2
    /\ \A c \in log2 \ log : c.row.version > top

LEMMA AllGoodStays ==
  ASSUME NEW log, NEW top, NEW free, NEW log2, NEW top2, NEW free2, NEW recs,
         Grows(log, top, free, log2, top2, free2), AllGood(log, top, free, recs)
  PROVE  AllGood(log2, top2, free2, recs)
<1> SUFFICES ASSUME NEW id \in DOMAIN recs
             PROVE  Good(log2, top2, free2, id, recs[id])
  BY DEF AllGood
<1> DEFINE rec == recs[id]
<1>1. rec \in Stored /\ id \in Ids /\ Good(log, top, free, id, rec)
  BY DEF AllGood, IsMap
<1>2. id \in Int /\ rec.version \in Nat /\ rec.base \in Nat
  BY <1>1 DEF Ids, Stored
<1>3. ASSUME NEW v \in Nat, v <= top, Live(log, id, v)
      PROVE  Live(log2, id, v)
  BY <1>3 DEF Live, Grows, Row
<1> QED
  BY <1>1, <1>2, <1>3 DEF Good, Grows

LEMMA StoreStays ==
  ASSUME NEW log, NEW top, NEW free, NEW log2, NEW top2, NEW free2, NEW s,
         Grows(log, top, free, log2, top2, free2), StoreOK(log, top, free, s)
  PROVE  StoreOK(log2, top2, free2, s)
<1>1. AllGood(log2, top2, free2, s.recs)
  BY AllGoodStays DEF StoreOK
<1>2. Clean(log2, s)
  BY DEF StoreOK, Clean, Committed, Grows
<1> QED
  BY <1>1, <1>2 DEF StoreOK

LEMMA ResultsStay ==
  ASSUME NEW log, NEW top, NEW free, NEW log2, NEW top2, NEW free2, NEW results,
         Grows(log, top, free, log2, top2, free2), ResultsOK(log, results)
  PROVE  ResultsOK(log2, results)
  BY DEF ResultsOK, Committed, Grows

GrowsNow == Grows(commits, seq, nextId, commits', seq', nextId')

\* A device that takes no part keeps its invariant.
LEMMA OtherDevice ==
  ASSUME NEW d \in Devices, DeviceOK(d), UNCHANGED <<store[d], saved[d], proc[d]>>, GrowsNow
  PROVE  DeviceOK(d)'
<1>1. StoreOK(commits, seq, nextId, store[d])' /\ StoreOK(commits, seq, nextId, saved[d])'
  BY StoreStays DEF DeviceOK, GrowsNow
<1>2. AllGood(commits, seq, nextId, proc[d].todo)'
  BY AllGoodStays DEF DeviceOK, ProcOK, GrowsNow
<1> QED
  BY <1>1, <1>2 DEF DeviceOK, ProcOK

-------------------------------------------------------------------------------
(* The server serves a batch.                                              *)

LEMMA FromServerGood ==
  ASSUME NEW log, NEW top \in Nat, NEW free, LogOK(log, top, free),
         NEW id \in Ids, NEW row \in Row, Committed(log, id, row)
  PROVE  /\ FromServer(row) \in Stored
         /\ ~FromServer(row).dirty
         /\ FromServer(row).version = row.version
         /\ Good(log, top, free, id, FromServer(row))
<1>1. /\ FromServer(row) \in Stored /\ ~FromServer(row).dirty
      /\ FromServer(row).version = row.version /\ FromServer(row).base = 0
      /\ FromServer(row).deleted = row.deleted
  BY DEF FromServer, Row, Stored
<1>2. PICK c \in log : c.id = id /\ c.row = row
  BY DEF Committed
<1>3. row.version \in 1..top /\ id < free
  BY <1>2 DEF LogOK
<1>4. Live(log, id, 0)
  BY DEF Live, LogOK
<1>5. ~row.deleted => Live(log, id, row.version)
  BY <1>2 DEF Live, LogOK
<1> QED
  BY <1>1, <1>3, <1>4, <1>5 DEF Good

LEMMA ServeOK ==
  ASSUME ServerOK, NEW batch, AllGood(commits, seq, nextId, batch), Serve(batch),
         nextId' = nextId
  PROVE  /\ seq' \in Nat /\ GrowsNow
         /\ LogOK(commits', seq', nextId')
         /\ RowsOK(commits)'
         /\ ResultsOK(commits', Results(batch))
         /\ AppliedIn(Results(batch)) = Applicable(batch)
         /\ \A id \in Ids : rows[id].deleted => rows'[id].deleted
<1> DEFINE app == Applicable(batch)
           commit(id) == [id |-> id, base |-> batch[id].base, row |-> rows'[id]]
<1>1. /\ app \in SUBSET Ids /\ app \subseteq DOMAIN batch /\ DOMAIN batch \subseteq Ids
      /\ \A id \in app : batch[id] \in Stored
      /\ \A id \in app : Good(commits, seq, nextId, id, batch[id])
  BY DEF Applicable, AllGood, IsMap
<1>2. /\ seq \in Nat /\ seq' = seq + Cardinality(app) /\ Cardinality(app) \in Nat
  BY <1>1, IdsFinite DEF ServerOK, Serve
<1>3. \A id \in app : seq + Rank(app, id) \in (seq + 1)..seq'
  BY <1>1, <1>2, Ranks
<1>4. \A id \in Ids \ app : rows'[id] = rows[id]
  BY DEF Serve, RowsAfter
<1>5. \A id \in app : rows'[id] = [version |-> seq + Rank(app, id),
                                   deleted |-> batch[id].deleted, body |-> batch[id].body]
  BY <1>1 DEF Serve, RowsAfter, VersionFor, Rank
<1>6. commits' = commits \union {commit(id) : id \in app}
  BY DEF Serve
<1> HIDE DEF app
<1>7. rows' \in [Ids -> Row]
  <2>1. rows' = [id \in Ids |-> rows'[id]]
    BY DEF Serve, RowsAfter
  <2>2. ASSUME NEW id \in Ids
        PROVE  rows'[id] \in Row
    <3>1. CASE id \notin app
      BY <1>4, <3>1 DEF ServerOK, RowsOK
    <3>2. CASE id \in app
      <4>1. seq + Rank(app, id) \in Nat
        BY <1>2, <1>3, <3>2
      <4>2. batch[id].deleted \in BOOLEAN /\ batch[id].body \in Bodies
        BY <1>1, <3>2 DEF Stored
      <4>3. rows'[id] = [version |-> seq + Rank(app, id),
                         deleted |-> batch[id].deleted, body |-> batch[id].body]
        BY <1>5, <3>2
      <4>4. ASSUME NEW v \in Nat, NEW w \in BOOLEAN, NEW x \in Bodies
            PROVE [version |-> v, deleted |-> w, body |-> x] \in Row
        BY DEF Row
      <4> QED
        BY <4>1, <4>2, <4>3, <4>4
    <3> QED
      BY <3>1, <3>2
  <2> QED
    BY <2>1, <2>2
<1>15. \A id \in app : /\ rows'[id].version = seq + Rank(app, id)
                       /\ rows'[id].deleted = batch[id].deleted
  <2> TAKE id \in app
  <2>1. rows'[id] = [version |-> seq + Rank(app, id),
                     deleted |-> batch[id].deleted, body |-> batch[id].body]
    BY <1>5
  <2> QED
    BY <2>1
<1>8. \A id \in app : /\ commit(id) \in [id: Ids, base: Nat, row: Row]
                      /\ commit(id).row.version \in (seq + 1)..seq'
  <2> TAKE id \in app
  <2>1. id \in Ids /\ batch[id].base \in Nat /\ rows'[id] \in Row
    BY <1>1, <1>7 DEF Stored
  <2>2. rows'[id].version \in (seq + 1)..seq'
    BY <1>3, <1>15
  <2> QED
    BY <2>1, <2>2
<1>9. GrowsNow
  BY <1>2, <1>6, <1>8 DEF GrowsNow, Grows, ServerOK, LogOK
<1>10. LogOK(commits', seq', nextId')
  <2>1. \A c \in commits' : c.row.version \in 1..seq' /\ c.id < nextId'
    BY <1>1, <1>2, <1>6, <1>8 DEF ServerOK, LogOK, Good
  <2>2. ASSUME NEW c1 \in commits', NEW c2 \in commits', c1.row.version = c2.row.version
        PROVE  c1.id = c2.id /\ c1.row = c2.row
    <3>1. \A c \in commits : c.row.version \in 1..seq
      BY DEF ServerOK, LogOK
    <3>2. CASE c1 \in commits \/ c2 \in commits
      <4>1. c1 \in commits /\ c2 \in commits
        BY <1>2, <1>6, <1>8, <2>2, <3>1, <3>2
      <4> QED
        BY <2>2, <4>1 DEF ServerOK, LogOK
    <3>3. CASE c1 \notin commits /\ c2 \notin commits
      <4>1. PICK a \in app : c1 = commit(a)
        BY <1>6, <3>3
      <4>2. PICK b \in app : c2 = commit(b)
        BY <1>6, <3>3
      <4>3. seq + Rank(app, a) = seq + Rank(app, b)
        BY <1>15, <2>2, <4>1, <4>2
      <4>4. Rank(app, a) = Rank(app, b)
        <5>1. Rank(app, a) \in 1..Cardinality(app) /\ Rank(app, b) \in 1..Cardinality(app)
          BY <1>1, Ranks
        <5> QED
          BY <1>2, <4>3, <5>1
      <4> QED
        BY <1>1, <4>1, <4>2, <4>4, Ranks
    <3> QED
      BY <3>2, <3>3
  <2> QED
    BY <1>9, <2>1, <2>2 DEF GrowsNow, Grows, LogOK
<1>11. \A id \in app : Committed(commits', id, rows'[id])
  <2> TAKE id \in app
  <2>1. commit(id) \in commits'
    BY <1>6
  <2> QED
    BY <2>1 DEF Committed
<1>12. RowsOK(commits)'
  BY <1>4, <1>6, <1>7, <1>11 DEF ServerOK, RowsOK, Committed
<1>13. /\ ResultsOK(commits', Results(batch))
       /\ AppliedIn(Results(batch)) = app
  <2>1. Results(batch) = [id \in DOMAIN batch |-> [applied |-> id \in app, row |-> rows'[id]]]
    BY DEF Results, Serve, app
  <2> QED
    <3>1. \A id \in DOMAIN batch :
              /\ Results(batch)[id] \in [applied: BOOLEAN, row: Row]
              /\ Results(batch)[id].applied <=> id \in app
              /\ Results(batch)[id].row = rows'[id]
      <4> TAKE id \in DOMAIN batch
      <4>1. Results(batch)[id] = [applied |-> id \in app, row |-> rows'[id]]
        BY <2>1, Zenon
      <4>2. rows'[id] \in Row
        BY <1>1, <1>7
      <4>3. CASE id \in app
        <5>1. Results(batch)[id] = [applied |-> TRUE, row |-> rows'[id]]
          BY <4>1, <4>3
        <5> QED
          BY <4>2, <4>3, <5>1
      <4>4. CASE id \notin app
        <5>1. (id \in app) = FALSE
          BY <4>4
        <5>2. Results(batch)[id] = [applied |-> FALSE, row |-> rows'[id]]
          BY <4>1, <5>1, Zenon
        <5> QED
          BY <4>2, <4>4, <5>2
      <4> QED
        BY <4>3, <4>4
    <3>2. DOMAIN Results(batch) = DOMAIN batch
      BY <2>1
    <3>3. AppliedIn(Results(batch)) = app
      BY <1>1, <3>1, <3>2 DEF AppliedIn
    <3>4. IsMap(Results(batch), [applied: BOOLEAN, row: Row])
      BY <1>1, <2>1, <3>1, <3>2 DEF IsMap
    <3>5. \A id \in app : Committed(commits', id, Results(batch)[id].row)
      BY <1>1, <1>11, <3>1
    <3> QED
      BY <3>3, <3>4, <3>5 DEF ResultsOK
<1>14. ASSUME NEW id \in Ids, rows[id].deleted
       PROVE  rows'[id].deleted
  <2>1. CASE id \notin app
    BY <1>4, <1>14, <2>1
  <2>2. CASE id \in app
    <3>1. PICK c \in commits : c.id = id /\ c.row = rows[id]
      BY <1>14 DEF ServerOK, RowsOK, Committed, NoRow
    <3>2. rows[id].version = batch[id].base
      BY <2>2, <3>1 DEF app, Applicable, ServerOK, LogOK
    <3>3. ~Live(commits, id, batch[id].base)
      BY <1>14, <3>1, <3>2 DEF Live
    <3>4. batch[id].deleted
      BY <1>1, <2>2, <3>3 DEF Good
    <3> QED
      BY <1>15, <2>2, <3>4
  <2> QED
    BY <2>1, <2>2
<1> QED
  BY <1>2, <1>9, <1>10, <1>12, <1>13, <1>14 DEF app

-------------------------------------------------------------------------------
(* A device applies an answer.                                             *)

\* The cursor moves to the largest of the versions, or stays.
LEMMA CursorCovers ==
  ASSUME NEW top \in Nat, NEW I, NEW f \in [I -> Nat], \A i \in I : f[i] <= top, I # {}
  PROVE  \E v \in {f[i] : i \in I} : \A i \in I : f[i] <= v
<1> DEFINE values == {f[i] : i \in I}
<1>1. values \in SUBSET Nat /\ values # {} /\ \A v \in values : v <= top
  OBVIOUS
<1>2. PICK v \in values : \A w \in values : w <= v
  <2> HIDE DEF values
  <2> QED
    BY <1>1, Largest
<1> QED
  BY <1>2

\* What was applied is clean, the rest is as it was.
LEMMA ApplyCleans ==
  ASSUME NEW s, IsStore(s), NEW results, NEW after, after = ApplyResults(s, results)
  PROVE  \A id \in DOMAIN after.recs :
             after.recs[id].dirty =>
                 /\ id \in DOMAIN s.recs \ AppliedIn(results)
                 /\ after.recs[id] = s.recs[id]
<1>1. after.recs = [id \in DOMAIN s.recs \union AppliedIn(results) |->
                       IF id \in AppliedIn(results) THEN FromServer(results[id].row)
                       ELSE s.recs[id]]
  BY DEF ApplyResults, IsStore
<1>2. \A row : ~FromServer(row).dirty
  BY DEF FromServer
<1> QED
  BY <1>1, <1>2

\* The cursor moves to the largest version among what was applied, never back.
LEMMA AppliedCursor ==
  ASSUME NEW log, NEW top \in Nat, NEW free, NEW s, NEW results,
         LogOK(log, top, free), StoreOK(log, top, free, s), ResultsOK(log, results)
  PROVE  /\ ApplyResults(s, results).cursor \in Nat
         /\ s.cursor <= ApplyResults(s, results).cursor
         /\ \A id \in AppliedIn(results) :
                results[id].row.version <= ApplyResults(s, results).cursor
         /\ s.cursor <= top => ApplyResults(s, results).cursor <= top
<1> DEFINE applied == AppliedIn(results)
           after == ApplyResults(s, results)
           version == [id \in applied |-> results[id].row.version]
<1>1. /\ after = [s EXCEPT !.recs = after.recs, !.cursor = after.cursor]
      /\ DOMAIN after = DOMAIN s
      /\ after.pending = s.pending
      /\ after.recs = [id \in DOMAIN s.recs \union applied |->
                         IF id \in applied THEN FromServer(results[id].row) ELSE s.recs[id]]
      /\ after.cursor = IF \A id \in applied : results[id].row.version <= s.cursor
                        THEN s.cursor
                        ELSE CHOOSE v \in {results[id].row.version : id \in applied} :
                                 \A id \in applied : results[id].row.version <= v
  BY DEF ApplyResults, StoreOK, IsStore
<1>2. /\ applied \subseteq Ids
      /\ \A id \in applied : results[id].row \in Row
      /\ \A id \in applied : Committed(log, id, results[id].row)
  BY DEF ResultsOK, IsMap, AppliedIn
<1>3. \A id \in applied : results[id].row.version \in 1..top
  BY <1>2 DEF Committed, LogOK
<1> HIDE DEF after, applied
<1>4. /\ after.cursor \in Nat
      /\ s.cursor <= after.cursor
      /\ \A id \in applied : results[id].row.version <= after.cursor
      /\ s.cursor <= top => after.cursor <= top
  <2>1. s.cursor \in Nat
    BY DEF StoreOK, IsStore
  <2>2. CASE \A id \in applied : results[id].row.version <= s.cursor
    BY <1>1, <2>1, <2>2
  <2>3. CASE \E id \in applied : ~(results[id].row.version <= s.cursor)
    <3>1. /\ version \in [applied -> Nat] /\ applied # {}
          /\ \A id \in applied : version[id] <= top
      BY <1>3, <2>3
    <3>2. \E v \in {version[id] : id \in applied} : \A id \in applied : version[id] <= v
      <4> HIDE DEF version
      <4> QED
        BY <3>1, CursorCovers
    <3>3. \E v \in {results[id].row.version : id \in applied} :
              \A id \in applied : results[id].row.version <= v
      BY <3>2
    <3>4. /\ after.cursor \in {results[id].row.version : id \in applied}
          /\ \A id \in applied : results[id].row.version <= after.cursor
      BY <1>1, <2>3, <3>3
    <3>5. after.cursor \in Nat /\ after.cursor <= top
      BY <1>3, <3>4
    <3> QED
      BY <1>3, <2>1, <2>3, <3>4, <3>5
  <2> QED
    BY <2>2, <2>3
<1> QED
  BY <1>4 DEF after, applied

LEMMA ApplyOK ==
  ASSUME NEW log, NEW top \in Nat, NEW free, NEW s, NEW results,
         LogOK(log, top, free), StoreOK(log, top, free, s), ResultsOK(log, results)
  PROVE  /\ StoreOK(log, top, free, ApplyResults(s, results))
         /\ ApplyResults(s, results).pending = s.pending
<1> DEFINE applied == AppliedIn(results)
           after == ApplyResults(s, results)
<1>1. /\ after = [s EXCEPT !.recs = after.recs, !.cursor = after.cursor]
      /\ DOMAIN after = DOMAIN s
      /\ after.pending = s.pending
      /\ after.recs = [id \in DOMAIN s.recs \union applied |->
                         IF id \in applied THEN FromServer(results[id].row) ELSE s.recs[id]]
      /\ after.cursor = IF \A id \in applied : results[id].row.version <= s.cursor
                        THEN s.cursor
                        ELSE CHOOSE v \in {results[id].row.version : id \in applied} :
                                 \A id \in applied : results[id].row.version <= v
  BY DEF ApplyResults, StoreOK, IsStore
<1>2. /\ applied \subseteq Ids
      /\ \A id \in applied : results[id].row \in Row
      /\ \A id \in applied : Committed(log, id, results[id].row)
  BY DEF ResultsOK, IsMap, AppliedIn
<1>3. \A id \in applied : results[id].row.version \in 1..top
  BY <1>2 DEF Committed, LogOK
<1> HIDE DEF after, applied
<1>4. /\ after.cursor \in Nat
      /\ s.cursor <= after.cursor
      /\ \A id \in applied : results[id].row.version <= after.cursor
  BY AppliedCursor DEF after, applied
<1>5. ASSUME NEW id \in DOMAIN after.recs
      PROVE  /\ id \in Ids /\ after.recs[id] \in Stored
             /\ Good(log, top, free, id, after.recs[id])
             /\ ~after.recs[id].dirty =>
                    /\ after.recs[id].version <= after.cursor
                    /\ \E row \in Row : Committed(log, id, row) /\ FromServer(row) = after.recs[id]
  <2>1. CASE id \in applied
    <3>1. after.recs[id] = FromServer(results[id].row)
      BY <1>1, <2>1
    <3> QED
      BY <1>2, <1>4, <2>1, <3>1, FromServerGood
  <2>2. CASE id \notin applied
    <3>1. id \in DOMAIN s.recs /\ after.recs[id] = s.recs[id]
      BY <1>1, <1>5, <2>2
    <3>2. /\ id \in Ids /\ s.recs[id] \in Stored /\ Good(log, top, free, id, s.recs[id])
      BY <3>1 DEF StoreOK, AllGood, IsMap
    <3>3. s.recs[id].version \in Nat /\ s.cursor \in Nat
      BY <3>2 DEF Stored, StoreOK, IsStore
    <3>4. ~s.recs[id].dirty =>
             /\ s.recs[id].version <= s.cursor
             /\ \E row \in Row : Committed(log, id, row) /\ FromServer(row) = s.recs[id]
      BY <3>1 DEF StoreOK, Clean
    <3>5. s.recs[id].version <= s.cursor => s.recs[id].version <= after.cursor
      BY <1>4, <3>3
    <3> QED
      BY <3>1, <3>2, <3>4, <3>5
  <2> QED
    BY <2>1, <2>2
<1>6. IsMap(after.recs, Stored)
  BY <1>1, <1>5 DEF IsMap
<1>7. StoreOK(log, top, free, after)
  <2>1. IsStore(after)
    BY <1>1, <1>4, <1>6 DEF StoreOK, IsStore
  <2> QED
    BY <1>5, <1>6, <2>1 DEF StoreOK, AllGood, Clean
<1> QED
  BY <1>1, <1>7 DEF after, applied

-------------------------------------------------------------------------------
(* The initial state, and what most steps have in common.                  *)

LEMMA Empty ==
  /\ NoRow \in Row /\ NoRow.version = 0 /\ ~NoRow.deleted
  /\ IsMap(NoResult, [applied: BOOLEAN, row: Row]) /\ AppliedIn(NoResult) = {}
  /\ DOMAIN NoRecords = {} /\ IsMap(NoRecords, Stored)
  /\ IsStore(EmptyStore) /\ EmptyStore.recs = NoRecords
<1>1. NoRow \in Row /\ NoRow.version = 0 /\ ~NoRow.deleted
  BY DEF NoRow, Row, Bodies
<1>2. IsMap(NoResult, [applied: BOOLEAN, row: Row]) /\ AppliedIn(NoResult) = {}
  BY DEF NoResult, IsMap, AppliedIn
<1>3. DOMAIN NoRecords = {} /\ IsMap(NoRecords, Stored)
  BY DEF NoRecords, IsMap
<1>4. IsStore(EmptyStore) /\ EmptyStore.recs = NoRecords
  BY <1>3 DEF EmptyStore, IsStore
<1> QED
  BY <1>1, <1>2, <1>3, <1>4

LEMMA ReadyOK ==
  /\ DOMAIN Ready = {"at", "iter", "todo", "conflicts"}
  /\ Ready.at = "ready" /\ Ready.iter \in 0..MaxIterations
  /\ Ready.conflicts \in BOOLEAN /\ Ready.todo = NoRecords
  BY SyncerAssumption DEF Ready

LEMMA EmptyGood ==
  ASSUME NEW log, NEW top, NEW free, NEW recs, recs = NoRecords
  PROVE  AllGood(log, top, free, recs)
  BY Empty DEF AllGood

LEMMA InitInv == Init => IInv
<1> SUFFICES ASSUME Init PROVE IInv
  OBVIOUS
<1>1. ServerOK
  <2>1. LogOK(commits, seq, nextId)
    BY DEF Init, LogOK
  <2>2. RowsOK(commits)
    BY Empty DEF Init, RowsOK
  <2>3. \A k \in Keys : ResultsOK(commits, idem[k])
    BY Empty DEF Init, ResultsOK
  <2> QED
    BY <2>1, <2>2, <2>3, SyncerAssumption DEF Init, ServerOK
<1>2. ASSUME NEW d \in Devices
      PROVE  DeviceOK(d)
  <2>1. StoreOK(commits, seq, nextId, EmptyStore)
    BY Empty, EmptyGood DEF StoreOK, Clean
  <2>2. ProcOK(d)
    BY ReadyOK, EmptyGood DEF Init, ProcOK
  <2> QED
    BY <2>1, <2>2 DEF Init, DeviceOK
<1>3. UserOK
  BY EmptyGood, SyncerAssumption DEF Init, UserOK
<1> QED
  BY <1>1, <1>2, <1>3 DEF Init, IInv

\* Nothing happens at the server.
LEMMA ServerIdle ==
  ASSUME ServerOK, UNCHANGED <<serverVars, nextId>>
  PROVE  ServerOK' /\ GrowsNow
<1>1. UNCHANGED <<rows, seq, idem, commits, nextId>>
  BY DEF serverVars
<1>2. ServerOK'
  BY <1>1 DEF ServerOK, RowsOK
<1>3. GrowsNow
  BY <1>1 DEF ServerOK, LogOK, GrowsNow, Grows
<1> QED
  BY <1>2, <1>3

\* The user does nothing.
LEMMA UserIdle ==
  ASSUME UserOK, GrowsNow, UNCHANGED userVars, faults' \in 0..MaxFaults
  PROVE  UserOK'
<1>1. UNCHANGED <<bundle, edits, imports>>
  BY DEF userVars
<1>2. AllGood(commits, seq, nextId, bundle)'
  BY <1>1, AllGoodStays DEF UserOK, GrowsNow
<1> QED
  BY <1>1, <1>2 DEF UserOK

\* A step of one device.
LEMMA DeviceStep ==
  ASSUME IInv, NEW d \in Devices, GrowsNow, ServerOK', UserOK',
         DOMAIN store' = Devices, DOMAIN saved' = Devices, DOMAIN proc' = Devices,
         \A e \in Devices \ {d} : UNCHANGED <<store[e], saved[e], proc[e]>>,
         DeviceOK(d)'
  PROVE  IInv'
<1>1. \A e \in Devices : DeviceOK(e)'
  BY OtherDevice DEF IInv
<1> QED
  BY <1>1 DEF IInv

\* A device that does not go on with its sync.
LEMMA AtRest ==
  ASSUME NEW d \in Devices, ProcOK(d), GrowsNow, UNCHANGED proc[d],
         proc[d].at = "replay" => store'[d].pending = store[d].pending
  PROVE  ProcOK(d)'
<1>1. AllGood(commits, seq, nextId, proc[d].todo)'
  BY AllGoodStays DEF ProcOK, GrowsNow
<1> QED
  BY <1>1 DEF ProcOK

\* A sync that ends.
LEMMA Finished ==
  ASSUME IInv, NEW d \in Devices, Finish(d)
  PROVE  /\ DOMAIN proc' = Devices /\ ProcOK(d)'
         /\ \A e \in Devices \ {d} : proc'[e] = proc[e]
<1>1. /\ DOMAIN proc' = Devices /\ proc'[d] = Ready
      /\ \A e \in Devices \ {d} : proc'[e] = proc[e]
  BY DEF IInv, Finish
<1>2. AllGood(commits', seq', nextId', proc'[d].todo)
  BY <1>1, ReadyOK, EmptyGood
<1> QED
  BY <1>1, <1>2, ReadyOK DEF ProcOK

-------------------------------------------------------------------------------
(* What the user does.                                                     *)

LEMMA VersionZero ==
  ASSUME NEW log, NEW top, NEW free, LogOK(log, top, free), NEW id
  PROVE  Live(log, id, 0)
  BY DEF LogOK, Live

\* A dirty record takes the place of another, or is new.
LEMMA EditGood ==
  ASSUME NEW log, NEW top, NEW free, NEW s, StoreOK(log, top, free, s),
         NEW id \in Ids, NEW rec \in Stored, rec.dirty, Good(log, top, free, id, rec)
  PROVE  StoreOK(log, top, free, [s EXCEPT !.recs = PutRecord(@, id, rec)])
<1> DEFINE after == [s EXCEPT !.recs = PutRecord(@, id, rec)]
<1>1. /\ DOMAIN after = DOMAIN s /\ after.cursor = s.cursor /\ after.pending = s.pending
      /\ after.recs = [x \in DOMAIN s.recs \union {id} |-> IF x = id THEN rec ELSE s.recs[x]]
  BY DEF StoreOK, IsStore, PutRecord
<1> HIDE DEF after
<1>2. IsMap(after.recs, Stored)
  BY <1>1 DEF StoreOK, AllGood, IsMap
<1>3. AllGood(log, top, free, after.recs)
  BY <1>1, <1>2 DEF StoreOK, AllGood
<1>4. Clean(log, after)
  BY <1>1 DEF StoreOK, Clean
<1>5. IsStore(after)
  BY <1>1, <1>2 DEF StoreOK, IsStore
<1> QED
  BY <1>3, <1>4, <1>5 DEF StoreOK, after

LEMMA NowIsTime == ASSUME ServerOK, NEW d \in Devices PROVE Now(d) \in Int
  BY SyncerAssumption DEF ServerOK, Now

\* Edit, once what it puts in is known to be good.  It may come while a sync is
\* under way.
LEMMA EditInv ==
  ASSUME IInv, NEW d \in Devices, NEW id \in Ids, NEW rec \in Stored,
         Edit(d, id, rec), rec.dirty,
         nextId <= nextId', nextId' \in 1..(MaxIds + 1),
         Good(commits, seq, nextId', id, rec)
  PROVE  IInv'
<1>1. /\ UNCHANGED <<rows, seq, idem, commits, saved, proc, bundle, imports, faults>>
      /\ edits' = edits + 1 /\ edits < MaxEdits
      /\ store' = [store EXCEPT ![d].recs = PutRecord(@, id, rec)]
  BY DEF Edit, serverVars
<1>2. GrowsNow
  BY <1>1, SyncerAssumption DEF IInv, ServerOK, LogOK, GrowsNow, Grows
<1>3. ServerOK'
  <2>1. LogOK(commits, seq, nextId)'
    BY <1>1, SyncerAssumption DEF IInv, ServerOK, LogOK, Ids
  <2> QED
    BY <1>1, <2>1 DEF IInv, ServerOK, RowsOK
<1>4. UserOK'
  <2>1. AllGood(commits, seq, nextId, bundle)'
    BY <1>1, <1>2, AllGoodStays DEF IInv, UserOK, GrowsNow
  <2>2. edits' \in 0..MaxEdits
    BY <1>1, SyncerAssumption DEF IInv, UserOK
  <2> QED
    BY <1>1, <2>1, <2>2 DEF IInv, UserOK
<1>5. /\ DOMAIN store' = Devices
      /\ store'[d] = [store[d] EXCEPT !.recs = PutRecord(@, id, rec)]
      /\ store'[d].pending = store[d].pending
      /\ \A e \in Devices \ {d} : store'[e] = store[e]
  BY <1>1 DEF IInv, DeviceOK, StoreOK, IsStore
<1>6. DeviceOK(d)'
  <2>1. StoreOK(commits', seq', nextId', store[d]) /\ StoreOK(commits, seq, nextId, saved[d])'
    BY <1>1, <1>2, StoreStays DEF IInv, DeviceOK, GrowsNow
  <2>2. Good(commits', seq', nextId', id, rec)
    BY <1>1
  <2>3. StoreOK(commits, seq, nextId, store[d])'
    BY <1>5, <2>1, <2>2, EditGood
  <2>4. ProcOK(d)'
    BY <1>1, <1>2, <1>5, AtRest DEF IInv, DeviceOK
  <2> QED
    BY <2>1, <2>3, <2>4 DEF DeviceOK
<1> QED
  BY <1>1, <1>2, <1>3, <1>4, <1>5, <1>6, DeviceStep DEF IInv

LEMMA CreateInv ==
  ASSUME IInv, NEW d \in Devices, Create(d)
  PROVE  IInv'
<1> DEFINE rec == [version |-> 0, base |-> 0, deleted |-> FALSE, body |-> {edits + 1},
                   dirty |-> TRUE, dirtyAt |-> Now(d)]
<1>1. nextId \in Ids /\ nextId' = nextId + 1 /\ Edit(d, nextId, rec)
  BY DEF Create
<1>2. edits + 1 \in 1..MaxEdits
  BY <1>1, SyncerAssumption DEF IInv, UserOK, Edit
<1>3. rec \in Stored /\ rec.dirty
  BY <1>2, NowIsTime DEF IInv, Stored, Bodies
<1>4. nextId \in Nat /\ nextId < nextId' /\ nextId' \in 1..(MaxIds + 1)
  BY <1>1, SyncerAssumption DEF Ids
<1>5. Good(commits, seq, nextId', nextId, rec)
  BY <1>4, VersionZero DEF IInv, ServerOK, Good
<1> QED
  BY <1>1, <1>3, <1>4, <1>5, EditInv

\* What a device holds is typed and good.
LEMMA RecordFacts ==
  ASSUME NEW log, NEW top, NEW free, NEW recs, AllGood(log, top, free, recs),
         NEW id \in DOMAIN recs
  PROVE  /\ id \in Ids /\ recs[id] \in Stored /\ Good(log, top, free, id, recs[id])
         /\ recs[id].version \in Nat /\ recs[id].base \in Nat
         /\ recs[id].deleted \in BOOLEAN /\ recs[id].dirty \in BOOLEAN
         /\ recs[id].body \in Bodies
  BY DEF AllGood, IsMap, Stored

\* A record that is edited keeps its version, which becomes its base.
LEMMA EditedGood ==
  ASSUME NEW log, NEW top, NEW free, NEW id, NEW old \in Stored, NEW new,
         Good(log, top, free, id, old),
         new.version = old.version, new.base = old.version, old.deleted => new.deleted
  PROVE  Good(log, top, free, id, new)
  BY DEF Good

LEMMA UpdateInv ==
  ASSUME IInv, NEW d \in Devices, NEW id \in DOMAIN store[d].recs, NEW seen \in Bodies,
         Update(d, id, seen)
  PROVE  IInv'
<1> DEFINE old == store[d].recs[id]
           rec == [old EXCEPT !.body = seen \union {edits + 1}, !.base = old.version,
                              !.dirty = TRUE, !.dirtyAt = Now(d)]
<1>1. Edit(d, id, rec) /\ nextId' = nextId
  BY DEF Update
<1>2. AllGood(commits, seq, nextId, store[d].recs)
  BY DEF IInv, DeviceOK, StoreOK
<1>3. id \in Ids /\ old \in Stored /\ Good(commits, seq, nextId, id, old)
  BY <1>2, RecordFacts
<1>4. edits + 1 \in 1..MaxEdits
  BY <1>1, SyncerAssumption DEF IInv, UserOK, Edit
<1> HIDE DEF old
<1>5. /\ rec \in Stored /\ rec.dirty
      /\ rec.version = old.version /\ rec.base = old.version /\ rec.deleted = old.deleted
  BY <1>3, <1>4, NowIsTime DEF IInv, Stored, Bodies
<1> HIDE DEF rec
<1>6. Good(commits, seq, nextId, id, rec)
  BY <1>3, <1>5, EditedGood
<1>7. nextId' \in 1..(MaxIds + 1) /\ nextId <= nextId'
  BY <1>1 DEF IInv, ServerOK
<1> QED
  BY <1>1, <1>3, <1>5, <1>6, <1>7, EditInv

LEMMA DeleteInv ==
  ASSUME IInv, NEW d \in Devices, NEW id \in DOMAIN store[d].recs, Delete(d, id)
  PROVE  IInv'
<1> DEFINE old == store[d].recs[id]
           rec == [old EXCEPT !.deleted = TRUE, !.base = old.version,
                              !.dirty = TRUE, !.dirtyAt = Now(d)]
<1>1. Edit(d, id, rec) /\ nextId' = nextId
  BY DEF Delete
<1>2. AllGood(commits, seq, nextId, store[d].recs)
  BY DEF IInv, DeviceOK, StoreOK
<1>3. id \in Ids /\ old \in Stored /\ Good(commits, seq, nextId, id, old)
  BY <1>2, RecordFacts
<1> HIDE DEF old
<1>4. /\ rec \in Stored /\ rec.dirty
      /\ rec.version = old.version /\ rec.base = old.version /\ rec.deleted
  BY <1>3, NowIsTime DEF IInv, Stored
<1> HIDE DEF rec
<1>5. Good(commits, seq, nextId, id, rec)
  BY <1>3, <1>4, EditedGood
<1>6. nextId' \in 1..(MaxIds + 1) /\ nextId <= nextId'
  BY <1>1 DEF IInv, ServerOK
<1> QED
  BY <1>1, <1>3, <1>4, <1>5, <1>6, EditInv

LEMMA ExportInv ==
  ASSUME IInv, NEW d \in Devices, Export(d)
  PROVE  IInv'
<1>1. /\ UNCHANGED <<serverVars, nextId, store, saved, proc, edits, imports, faults>>
      /\ bundle' = [id \in {x \in DOMAIN store[d].recs : ~store[d].recs[x].deleted} |->
                       store[d].recs[id]]
  BY DEF Export
<1>2. ServerOK' /\ GrowsNow
  BY <1>1, ServerIdle DEF IInv
<1>3. AllGood(commits, seq, nextId, bundle')
  BY <1>1 DEF IInv, DeviceOK, StoreOK, AllGood, IsMap
<1>4. UserOK'
  BY <1>1, <1>3 DEF IInv, UserOK, serverVars
<1>5. \A e \in Devices : DeviceOK(e)'
  BY <1>1, <1>2, OtherDevice DEF IInv
<1> QED
  BY <1>1, <1>2, <1>4, <1>5 DEF IInv

LEMMA ImportInv ==
  ASSUME IInv, NEW d \in Devices, Import(d)
  PROVE  IInv'
<1> DEFINE recs == store[d].recs
           edited(id) == [bundle[id] EXCEPT !.base = bundle[id].version,
                                            !.dirty = TRUE, !.dirtyAt = Now(d)]
<1>1. /\ UNCHANGED <<serverVars, nextId, saved, proc, bundle, edits, faults>>
      /\ imports < MaxImports /\ imports' = imports + 1
  BY DEF Import
<1>2. ServerOK' /\ GrowsNow
  BY <1>1, ServerIdle DEF IInv
<1>3. UserOK'
  <2>1. imports' \in 0..MaxImports
    BY <1>1, SyncerAssumption DEF IInv, UserOK
  <2> QED
    BY <1>1, <2>1 DEF IInv, UserOK, serverVars
<1>4. /\ DOMAIN store' = Devices
      /\ \A e \in Devices \ {d} : store'[e] = store[e]
      /\ DOMAIN store'[d] = DOMAIN store[d]
      /\ store'[d].cursor = store[d].cursor /\ store'[d].pending = store[d].pending
      /\ store'[d].recs = [id \in DOMAIN recs \union DOMAIN bundle |->
                             IF id \in DOMAIN bundle THEN edited(id) ELSE recs[id]]
  BY DEF Import, IInv, DeviceOK, StoreOK, IsStore
<1>5. AllGood(commits, seq, nextId, recs) /\ AllGood(commits, seq, nextId, bundle)
  BY DEF IInv, DeviceOK, StoreOK, UserOK
<1>6. ASSUME NEW id \in DOMAIN bundle
      PROVE  /\ edited(id) \in Stored /\ edited(id).dirty
             /\ Good(commits, seq, nextId, id, edited(id))
  <2>1. bundle[id] \in Stored /\ Good(commits, seq, nextId, id, bundle[id])
    BY <1>5, RecordFacts
  <2>2. /\ edited(id) \in Stored /\ edited(id).dirty
        /\ edited(id).version = bundle[id].version /\ edited(id).base = bundle[id].version
        /\ edited(id).deleted = bundle[id].deleted
    BY <2>1, NowIsTime DEF IInv, Stored
  <2> HIDE DEF edited
  <2> QED
    BY <2>1, <2>2, EditedGood
<1> HIDE DEF edited
<1>7. /\ DOMAIN store'[d].recs = DOMAIN recs \union DOMAIN bundle
      /\ \A id \in DOMAIN bundle : store'[d].recs[id] = edited(id)
      /\ \A id \in DOMAIN recs \ DOMAIN bundle : store'[d].recs[id] = recs[id]
  BY <1>4
<1>8. \A id \in DOMAIN store'[d].recs :
          /\ id \in Ids /\ store'[d].recs[id] \in Stored
          /\ Good(commits, seq, nextId, id, store'[d].recs[id])
  BY <1>5, <1>6, <1>7, RecordFacts
<1>9. AllGood(commits, seq, nextId, store'[d].recs)
  BY <1>4, <1>8 DEF AllGood, IsMap
<1>10. Clean(commits, store'[d])
  BY <1>4, <1>6, <1>7 DEF IInv, DeviceOK, StoreOK, Clean
<1>11. IsStore(store'[d])
  BY <1>4, <1>9 DEF IInv, DeviceOK, StoreOK, IsStore, AllGood
<1>12. StoreOK(commits, seq, nextId, store[d])'
  BY <1>1, <1>9, <1>10, <1>11 DEF StoreOK, serverVars
<1>13. DeviceOK(d)'
  <2>1. StoreOK(commits, seq, nextId, saved[d])'
    BY <1>1, <1>2, StoreStays DEF IInv, DeviceOK, GrowsNow
  <2>2. ProcOK(d)'
    BY <1>1, <1>2, <1>4, AtRest DEF IInv, DeviceOK
  <2> QED
    BY <1>12, <2>1, <2>2 DEF DeviceOK
<1> QED
  BY <1>1, <1>2, <1>3, <1>4, <1>13, DeviceStep DEF IInv

-------------------------------------------------------------------------------
(* Sync begins; the file; crashes.                                         *)

LEMMA RestrictGood ==
  ASSUME NEW log, NEW top, NEW free, NEW recs, AllGood(log, top, free, recs),
         NEW S \in SUBSET DOMAIN recs
  PROVE  /\ AllGood(log, top, free, Restrict(recs, S))
         /\ DOMAIN Restrict(recs, S) = S
  BY DEF AllGood, IsMap, Restrict

LEMMA ReplayOrPullOK ==
  ASSUME NEW log, NEW top, NEW free, NEW s, StoreOK(log, top, free, s)
  PROVE  /\ DOMAIN ReplayOrPull(s) = {"at", "iter", "todo", "conflicts"}
         /\ ReplayOrPull(s).at \in {"replay", "pull"}
         /\ ReplayOrPull(s).iter \in 0..MaxIterations
         /\ ReplayOrPull(s).conflicts \in BOOLEAN
         /\ AllGood(log, top, free, ReplayOrPull(s).todo)
         /\ ReplayOrPull(s).at = "replay" => s.pending # <<>>
<1>1. 1 \in 0..MaxIterations
  BY SyncerAssumption
<1>2. CASE s.pending = <<>>
  <2>1. /\ DOMAIN ReplayOrPull(s) = DOMAIN Ready
        /\ ReplayOrPull(s).at = "pull" /\ ReplayOrPull(s).iter = 1
        /\ ReplayOrPull(s).conflicts = FALSE /\ ReplayOrPull(s).todo = NoRecords
    BY <1>2 DEF ReplayOrPull, Ready
  <2> QED
    BY <1>1, <2>1, ReadyOK, EmptyGood
<1>3. CASE s.pending # <<>>
  <2> DEFINE batch == Restrict(s.recs, Head(s.pending).ids \intersect DOMAIN s.recs)
  <2>1. /\ DOMAIN ReplayOrPull(s) = DOMAIN Ready
        /\ ReplayOrPull(s).at = "replay" /\ ReplayOrPull(s).iter = 1
        /\ ReplayOrPull(s).conflicts = FALSE /\ ReplayOrPull(s).todo = batch
    BY <1>3 DEF ReplayOrPull, Ready
  <2>2. AllGood(log, top, free, batch)
    BY RestrictGood DEF StoreOK
  <2> QED
    BY <1>1, <1>3, <2>1, <2>2, ReadyOK
<1> QED
  BY <1>2, <1>3

LEMMA SyncStartInv ==
  ASSUME IInv, NEW d \in Devices, SyncStart(d)
  PROVE  IInv'
<1>1. /\ UNCHANGED <<serverVars, nextId, store, saved, userVars, faults>>
      /\ proc' = [proc EXCEPT ![d] = ReplayOrPull(store[d])]
  BY DEF SyncStart
<1>2. ServerOK' /\ GrowsNow
  BY <1>1, ServerIdle DEF IInv
<1>3. UserOK'
  BY <1>1, <1>2, UserIdle DEF IInv, UserOK
<1>4. StoreOK(commits, seq, nextId, store[d])' /\ StoreOK(commits, seq, nextId, saved[d])'
  BY <1>1, <1>2, StoreStays DEF IInv, DeviceOK, GrowsNow
<1>5. /\ DOMAIN proc' = Devices /\ proc'[d] = ReplayOrPull(store'[d])
      /\ \A e \in Devices \ {d} : proc'[e] = proc[e]
  BY <1>1 DEF IInv
<1>6. ProcOK(d)'
  BY <1>4, <1>5, ReplayOrPullOK DEF ProcOK
<1>7. DeviceOK(d)'
  BY <1>4, <1>6 DEF DeviceOK
<1> QED
  BY <1>1, <1>2, <1>3, <1>5, <1>7, DeviceStep DEF IInv

LEMMA SaveInv ==
  ASSUME IInv, NEW d \in Devices, Save(d)
  PROVE  IInv'
<1>1. /\ UNCHANGED <<serverVars, nextId, store, proc, userVars, faults>>
      /\ saved' = [saved EXCEPT ![d] = store[d]] /\ proc[d].at = "ready"
  BY DEF Save
<1>2. ServerOK' /\ GrowsNow
  BY <1>1, ServerIdle DEF IInv
<1>3. UserOK'
  BY <1>1, <1>2, UserIdle DEF IInv, UserOK
<1>4. /\ DOMAIN saved' = Devices /\ saved'[d] = store'[d]
      /\ \A e \in Devices \ {d} : saved'[e] = saved[e]
  BY <1>1 DEF IInv
<1>5. StoreOK(commits, seq, nextId, store[d])'
  BY <1>1, <1>2, StoreStays DEF IInv, DeviceOK, GrowsNow
<1>6. ProcOK(d)'
  BY <1>1, <1>2, AtRest DEF IInv, DeviceOK
<1>7. DeviceOK(d)'
  BY <1>4, <1>5, <1>6 DEF DeviceOK
<1> QED
  BY <1>1, <1>2, <1>3, <1>4, <1>7, DeviceStep DEF IInv

LEMMA FaultCounted ==
  ASSUME IInv, NEW kind, Fault(kind)
  PROVE  faults' \in 0..MaxFaults
  BY SyncerAssumption DEF IInv, UserOK, Fault

LEMMA CrashInv ==
  ASSUME IInv, NEW d \in Devices, Crash(d)
  PROVE  IInv'
<1>1. /\ UNCHANGED <<serverVars, nextId, saved, userVars>>
      /\ store' = [store EXCEPT ![d] = saved[d]] /\ Finish(d) /\ Fault("crash")
  BY DEF Crash, Finish
<1>2. ServerOK' /\ GrowsNow
  BY <1>1, ServerIdle DEF IInv
<1>3. UserOK'
  BY <1>1, <1>2, FaultCounted, UserIdle DEF IInv
<1>4. /\ DOMAIN store' = Devices /\ store'[d] = saved'[d]
      /\ \A e \in Devices \ {d} : store'[e] = store[e]
  BY <1>1 DEF IInv
<1>5. StoreOK(commits, seq, nextId, saved[d])'
  BY <1>1, <1>2, StoreStays DEF IInv, DeviceOK, GrowsNow
<1>6. DeviceOK(d)'
  BY <1>1, <1>4, <1>5, Finished DEF DeviceOK
<1> QED
  BY <1>1, <1>2, <1>3, <1>4, <1>6, Finished, DeviceStep DEF IInv

LEMMA RefusedInv ==
  ASSUME IInv, NEW d \in Devices, Refused(d)
  PROVE  IInv'
<1>1. /\ UNCHANGED <<serverVars, nextId, store, saved, userVars>>
      /\ Finish(d) /\ Fault("refused")
  BY DEF Refused
<1>2. ServerOK' /\ GrowsNow
  BY <1>1, ServerIdle DEF IInv
<1>3. UserOK'
  BY <1>1, <1>2, FaultCounted, UserIdle DEF IInv
<1>4. StoreOK(commits, seq, nextId, store[d])' /\ StoreOK(commits, seq, nextId, saved[d])'
  BY <1>1, <1>2, StoreStays DEF IInv, DeviceOK, GrowsNow
<1>5. DeviceOK(d)'
  BY <1>1, <1>4, Finished DEF DeviceOK
<1> QED
  BY <1>1, <1>2, <1>3, <1>5, Finished, DeviceStep DEF IInv

LEMMA DeleteExpiredInv == IInv /\ DeleteExpired => IInv'
<1> SUFFICES ASSUME IInv, DeleteExpired PROVE IInv'
  OBVIOUS
<1>1. /\ UNCHANGED <<rows, seq, commits, store, saved, proc, userVars, nextId>>
      /\ Fault("expired")
      /\ DOMAIN idem' = Keys
      /\ \A k \in Keys : idem'[k] \in {NoResult, idem[k]}
  BY DEF DeleteExpired
<1>2. GrowsNow
  BY <1>1 DEF IInv, ServerOK, LogOK, GrowsNow, Grows
<1>3. ServerOK'
  <2>1. ResultsOK(commits, NoResult)
    BY Empty DEF ResultsOK
  <2>2. \A k \in Keys : ResultsOK(commits', idem'[k])
    BY <1>1, <2>1 DEF IInv, ServerOK
  <2> QED
    BY <1>1, <2>2 DEF IInv, ServerOK, RowsOK
<1>4. UserOK'
  BY <1>1, <1>2, FaultCounted, UserIdle DEF IInv
<1>5. \A e \in Devices : DeviceOK(e)'
  BY <1>1, <1>2, OtherDevice DEF IInv
<1> QED
  BY <1>1, <1>3, <1>4, <1>5 DEF IInv

-------------------------------------------------------------------------------
(* Pushes and replays.                                                     *)

LEMMA Served ==
  ASSUME ServerOK, NEW batch, AllGood(commits, seq, nextId, batch), Serve(batch),
         nextId' = nextId, DOMAIN idem' = Keys,
         \A k \in Keys : idem'[k] = idem[k] \/ ResultsOK(commits', idem'[k])
  PROVE  ServerOK' /\ GrowsNow
<1>1. /\ seq' \in Nat /\ GrowsNow /\ LogOK(commits', seq', nextId') /\ RowsOK(commits)'
  BY ServeOK
<1>2. \A k \in Keys : ResultsOK(commits', idem'[k])
  BY <1>1, ResultsStay DEF ServerOK, GrowsNow
<1> QED
  BY <1>1, <1>2 DEF ServerOK

Pending == [key: Keys, ids: SUBSET Ids]

LEMMA FirstPending ==
  ASSUME NEW pending \in Seq(Pending), pending # <<>>
  PROVE  Head(pending).key \in Keys /\ Tail(pending) \in Seq(Pending)
<1>1. Head(pending) \in Pending /\ Tail(pending) \in Seq(Pending)
  OBVIOUS
<1> QED
  BY <1>1 DEF Pending

LEMMA PendingOK ==
  ASSUME NEW log, NEW top, NEW free, NEW s, StoreOK(log, top, free, s),
         NEW pending \in Seq(Pending)
  PROVE  /\ StoreOK(log, top, free, [s EXCEPT !.pending = pending])
         /\ [s EXCEPT !.pending = pending].recs = s.recs
<1> DEFINE after == [s EXCEPT !.pending = pending]
<1>1. /\ DOMAIN after = DOMAIN s /\ after.recs = s.recs /\ after.cursor = s.cursor
      /\ after.pending = pending
  BY DEF StoreOK, IsStore
<1> HIDE DEF after
<1>2. StoreOK(log, top, free, after)
  BY <1>1 DEF StoreOK, IsStore, Clean, Pending
<1> QED
  BY <1>1, <1>2 DEF after

LEMMA ReplayInv ==
  ASSUME IInv, NEW d \in Devices, Replay(d)
  PROVE  IInv'
<1> DEFINE key == Head(store[d].pending).key
           batch == proc[d].todo
           results == IF Recorded(key) THEN idem[key] ELSE Results(batch)
           applied == ApplyResults(store[d], results)
           after == [applied EXCEPT !.pending = Tail(@)]
<1>1. /\ proc[d].at = "replay" /\ UNCHANGED <<saved, userVars, faults, nextId>>
      /\ store' = [store EXCEPT ![d] = after]
      /\ proc' = [proc EXCEPT ![d] = ReplayOrPull(after)]
      /\ IF Recorded(key)
         THEN UNCHANGED serverVars
         ELSE Serve(batch) /\ idem' = [idem EXCEPT ![key] = results]
  BY DEF Replay
<1>2. /\ store[d].pending \in Seq(Pending) /\ store[d].pending # <<>>
      /\ AllGood(commits, seq, nextId, batch)
  BY <1>1 DEF IInv, DeviceOK, ProcOK, StoreOK, IsStore, Pending
<1>3. key \in Keys /\ Tail(store[d].pending) \in Seq(Pending)
  BY <1>2, FirstPending
<1> HIDE DEF key, batch
<1>4. ServerOK' /\ GrowsNow /\ ResultsOK(commits', results)
  <2>1. CASE Recorded(key)
    <3>1. ServerOK' /\ GrowsNow /\ commits' = commits
      BY <1>1, <2>1, ServerIdle DEF IInv, serverVars
    <3> QED
      BY <1>3, <2>1, <3>1 DEF IInv, ServerOK
  <2>2. CASE ~Recorded(key)
    <3>1. /\ Serve(batch) /\ results = Results(batch) /\ nextId' = nextId
          /\ idem' = [idem EXCEPT ![key] = results]
      BY <1>1, <2>2
    <3>2. ResultsOK(commits', results)
      BY <1>2, <3>1, ServeOK DEF IInv
    <3>3. /\ DOMAIN idem' = Keys
          /\ \A k \in Keys : idem'[k] = idem[k] \/ ResultsOK(commits', idem'[k])
      BY <3>1, <3>2 DEF IInv, ServerOK
    <3> QED
      BY <1>2, <3>1, <3>2, <3>3, Served DEF IInv
  <2> QED
    BY <2>1, <2>2
<1> HIDE DEF results
<1>5. UserOK'
  BY <1>1, <1>4, UserIdle DEF IInv, UserOK
<1>6. StoreOK(commits', seq', nextId', store[d]) /\ StoreOK(commits, seq, nextId, saved[d])'
  BY <1>1, <1>4, StoreStays DEF IInv, DeviceOK, GrowsNow
<1>7. /\ StoreOK(commits', seq', nextId', applied)
      /\ applied.pending = store[d].pending
  <2>1. seq' \in Nat /\ LogOK(commits', seq', nextId')
    BY <1>4 DEF ServerOK
  <2>2. StoreOK(commits', seq', nextId', store[d]) /\ ResultsOK(commits', results)
    BY <1>4, <1>6
  <2> QED
    BY <2>1, <2>2, ApplyOK
<1>8. StoreOK(commits', seq', nextId', after)
  <2>1. after = [applied EXCEPT !.pending = Tail(store[d].pending)]
    BY <1>7
  <2> HIDE DEF applied, after
  <2> QED
    BY <1>3, <1>7, <2>1, PendingOK
<1> HIDE DEF applied, after
<1>9. /\ DOMAIN store' = Devices /\ DOMAIN proc' = Devices
      /\ store'[d] = after /\ proc'[d] = ReplayOrPull(after)
      /\ \A e \in Devices \ {d} : store'[e] = store[e] /\ proc'[e] = proc[e]
  BY <1>1 DEF IInv
<1>10. ProcOK(d)'
  BY <1>8, <1>9, ReplayOrPullOK DEF ProcOK
<1>11. DeviceOK(d)'
  BY <1>6, <1>8, <1>9, <1>10 DEF DeviceOK
<1> QED
  BY <1>1, <1>4, <1>5, <1>9, <1>11, DeviceStep DEF IInv

LEMMA ChunkOK ==
  ASSUME IInv, NEW d \in Devices, NEW chunk \in Chunks(d)
  PROVE  /\ AllGood(commits, seq, nextId, chunk)
         /\ DOMAIN chunk \subseteq DOMAIN proc[d].todo
<1>1. PICK S \in SUBSET DOMAIN proc[d].todo : chunk = Restrict(proc[d].todo, S)
  BY DEF Chunks, kSubset
<1>2. AllGood(commits, seq, nextId, proc[d].todo)
  BY DEF IInv, DeviceOK, ProcOK
<1> QED
  BY <1>1, <1>2, RestrictGood

LEMMA NewKeyIsKey ==
  ASSUME \E key \in Keys : FreshKey(key)
  PROVE  NewKey \in Keys
  BY DEF NewKey

\* What a push leaves on the device when its answer does not come.
LEMMA UnacknowledgedOK ==
  ASSUME IInv, NEW d \in Devices, NEW chunk \in Chunks(d), Unacknowledged(d, chunk), GrowsNow
  PROVE  /\ DOMAIN store' = Devices /\ DOMAIN proc' = Devices
         /\ \A e \in Devices \ {d} : UNCHANGED <<store[e], saved[e], proc[e]>>
         /\ DeviceOK(d)'
<1> DEFINE entry == [key |-> NewKey, ids |-> DOMAIN chunk]
<1>1. /\ store' = [store EXCEPT ![d].pending = Append(@, entry)]
      /\ Finish(d) /\ UNCHANGED saved /\ NewKey \in Keys
  BY NewKeyIsKey DEF Unacknowledged
<1>2. entry \in Pending
  BY <1>1, ChunkOK DEF AllGood, IsMap, Pending
<1> HIDE DEF entry
<1> DEFINE queue == Append(store[d].pending, entry)
<1>3. queue \in Seq(Pending)
  <2>1. store[d].pending \in Seq(Pending)
    BY DEF IInv, DeviceOK, StoreOK, IsStore, Pending
  <2> QED
    BY <1>2, <2>1
<1>4. /\ DOMAIN store' = Devices
      /\ store'[d] = [store[d] EXCEPT !.pending = queue]
      /\ \A e \in Devices \ {d} : store'[e] = store[e]
  BY <1>1 DEF IInv
<1>5. StoreOK(commits', seq', nextId', store[d]) /\ StoreOK(commits, seq, nextId, saved[d])'
  BY <1>1, StoreStays DEF IInv, DeviceOK, GrowsNow
<1>6. StoreOK(commits, seq, nextId, store[d])'
  <2> HIDE DEF queue
  <2> QED
    BY <1>3, <1>4, <1>5, PendingOK
<1> QED
  BY <1>1, <1>4, <1>5, <1>6, Finished DEF DeviceOK

LEMMA PushRefusedInv ==
  ASSUME IInv, NEW d \in Devices, PushRefused(d)
  PROVE  IInv'
<1>1. PICK chunk \in Chunks(d) : Unacknowledged(d, chunk)
  BY DEF PushRefused
<1>2. /\ idem' = [idem EXCEPT ![NewKey] = NoResult] /\ Fault("refused")
      /\ UNCHANGED <<rows, seq, commits, saved, userVars, nextId>>
  BY <1>1 DEF PushRefused, Unacknowledged
<1>3. GrowsNow
  BY <1>2 DEF IInv, ServerOK, LogOK, GrowsNow, Grows
<1>4. ServerOK'
  <2>1. ResultsOK(commits, NoResult)
    BY Empty DEF ResultsOK
  <2>2. DOMAIN idem' = Keys /\ \A k \in Keys : ResultsOK(commits', idem'[k])
    BY <1>2, <2>1 DEF IInv, ServerOK
  <2> QED
    BY <1>2, <2>2 DEF IInv, ServerOK, RowsOK
<1>5. UserOK'
  BY <1>2, <1>3, FaultCounted, UserIdle DEF IInv
<1> QED
  BY <1>1, <1>2, <1>3, <1>4, <1>5, UnacknowledgedOK, DeviceStep DEF IInv

\* All of a batch or a part of it took effect.
LEMMA UnansweredOK ==
  ASSUME IInv, NEW batch, AllGood(commits, seq, nextId, batch), NEW key \in Keys,
         Unanswered(batch, key), nextId' = nextId
  PROVE  /\ ServerOK' /\ GrowsNow /\ faults' \in 0..MaxFaults
         /\ \A id \in Ids : rows[id].deleted => rows'[id].deleted
<1>1. CASE /\ Fault("lost") /\ Serve(batch)
           /\ idem' = [idem EXCEPT ![key] = Results(batch)]
  <2>1. /\ ResultsOK(commits', Results(batch))
        /\ \A id \in Ids : rows[id].deleted => rows'[id].deleted
    BY <1>1, ServeOK DEF IInv
  <2>2. /\ DOMAIN idem' = Keys
        /\ \A k \in Keys : idem'[k] = idem[k] \/ ResultsOK(commits', idem'[k])
    BY <1>1, <2>1 DEF IInv, ServerOK
  <2> QED
    BY <1>1, <2>1, <2>2, Served, FaultCounted DEF IInv
<1>2. CASE /\ Fault("unrecorded")
           /\ \E part \in SUBSET DOMAIN batch : Serve(Restrict(batch, part))
           /\ idem' = [idem EXCEPT ![key] = NoResult]
  <2>1. PICK part \in SUBSET DOMAIN batch : Serve(Restrict(batch, part))
    BY <1>2
  <2>2. AllGood(commits, seq, nextId, Restrict(batch, part))
    BY RestrictGood
  <2>3. ResultsOK(commits', NoResult)
    BY Empty DEF ResultsOK
  <2>4. /\ DOMAIN idem' = Keys
        /\ \A k \in Keys : idem'[k] = idem[k] \/ ResultsOK(commits', idem'[k])
    BY <1>2, <2>3 DEF IInv, ServerOK
  <2>5. \A id \in Ids : rows[id].deleted => rows'[id].deleted
    BY <2>1, <2>2, ServeOK DEF IInv
  <2> QED
    BY <1>2, <2>1, <2>2, <2>4, <2>5, Served, FaultCounted DEF IInv
<1> QED
  BY <1>1, <1>2 DEF Unanswered

LEMMA PushLostInv ==
  ASSUME IInv, NEW d \in Devices, PushLost(d)
  PROVE  IInv'
<1>1. PICK chunk \in Chunks(d) : Unacknowledged(d, chunk) /\ Unanswered(chunk, NewKey)
  BY DEF PushLost
<1>2. UNCHANGED <<saved, userVars, nextId>> /\ NewKey \in Keys
  BY <1>1, NewKeyIsKey DEF Unacknowledged
<1>3. ServerOK' /\ GrowsNow /\ faults' \in 0..MaxFaults
  BY <1>1, <1>2, ChunkOK, UnansweredOK
<1>4. UserOK'
  BY <1>2, <1>3, UserIdle DEF IInv
<1> QED
  BY <1>1, <1>2, <1>3, <1>4, UnacknowledgedOK, DeviceStep DEF IInv

LEMMA ReplayLostInv ==
  ASSUME IInv, NEW d \in Devices, ReplayLost(d)
  PROVE  IInv'
<1> DEFINE key == Head(store[d].pending).key
<1>1. /\ proc[d].at = "replay" /\ Unanswered(proc[d].todo, key) /\ Finish(d)
      /\ UNCHANGED <<store, saved, userVars, nextId>>
  BY DEF ReplayLost
<1>2. key \in Keys /\ AllGood(commits, seq, nextId, proc[d].todo)
  <2>1. store[d].pending \in Seq(Pending) /\ store[d].pending # <<>>
    BY <1>1 DEF IInv, DeviceOK, ProcOK, StoreOK, IsStore, Pending
  <2> QED
    BY <2>1, FirstPending DEF IInv, DeviceOK, ProcOK
<1>3. ServerOK' /\ GrowsNow /\ faults' \in 0..MaxFaults
  BY <1>1, <1>2, UnansweredOK
<1>4. UserOK'
  BY <1>1, <1>3, UserIdle DEF IInv
<1>5. StoreOK(commits, seq, nextId, store[d])' /\ StoreOK(commits, seq, nextId, saved[d])'
  BY <1>1, <1>3, StoreStays DEF IInv, DeviceOK, GrowsNow
<1>6. DeviceOK(d)'
  BY <1>1, <1>5, Finished DEF DeviceOK
<1> QED
  BY <1>1, <1>3, <1>4, <1>6, Finished, DeviceStep DEF IInv

\* One chunk of a push.
LEMMA ChunkServed ==
  ASSUME IInv, NEW d \in Devices, proc[d].at = "push", NEW chunk \in Chunks(d),
         Serve(chunk), UNCHANGED <<idem, nextId, saved>>,
         store' = [store EXCEPT ![d] = ApplyResults(@, Results(chunk))]
  PROVE  /\ ServerOK' /\ GrowsNow
         /\ \A id \in Ids : rows[id].deleted => rows'[id].deleted
         /\ DOMAIN store' = Devices /\ \A e \in Devices \ {d} : store'[e] = store[e]
         /\ StoreOK(commits, seq, nextId, store[d])'
         /\ StoreOK(commits, seq, nextId, saved[d])'
         /\ AllGood(commits', seq', nextId', Without(proc[d].todo, chunk))
<1> DEFINE results == Results(chunk)
<1>1. AllGood(commits, seq, nextId, chunk) /\ DOMAIN chunk \subseteq DOMAIN proc[d].todo
  BY ChunkOK
<1>2. /\ ServerOK' /\ GrowsNow /\ ResultsOK(commits', results)
      /\ \A id \in Ids : rows[id].deleted => rows'[id].deleted
  <2>1. /\ ResultsOK(commits', results)
        /\ \A id \in Ids : rows[id].deleted => rows'[id].deleted
    BY <1>1, ServeOK DEF IInv
  <2>2. DOMAIN idem' = Keys /\ \A k \in Keys : idem'[k] = idem[k]
    BY DEF IInv, ServerOK
  <2> QED
    BY <1>1, <2>1, <2>2, Served DEF IInv
<1>3. /\ DOMAIN store' = Devices /\ store'[d] = ApplyResults(store[d], results)
      /\ \A e \in Devices \ {d} : store'[e] = store[e]
  BY DEF IInv
<1>4. StoreOK(commits', seq', nextId', store[d]) /\ StoreOK(commits, seq, nextId, saved[d])'
  BY <1>2, StoreStays DEF IInv, DeviceOK, GrowsNow
<1>5. seq' \in Nat /\ LogOK(commits', seq', nextId')
  BY <1>2 DEF ServerOK
<1> HIDE DEF results
<1>6. StoreOK(commits', seq', nextId', store'[d])
  BY <1>2, <1>3, <1>4, <1>5, ApplyOK
<1>7. AllGood(commits', seq', nextId', Without(proc[d].todo, chunk))
  <2>1. AllGood(commits', seq', nextId', proc[d].todo)
    BY <1>2, AllGoodStays DEF IInv, DeviceOK, ProcOK, GrowsNow
  <2> QED
    BY <2>1, RestrictGood DEF Without
<1> QED
  BY <1>2, <1>3, <1>4, <1>6, <1>7 DEF results

\* If a chunk met no conflict, what is still dirty is still to be sent.
LEMMA ChunkCleans ==
  ASSUME IInv, NEW d \in Devices, NEW chunk \in Chunks(d), ~HadConflicts(Results(chunk)),
         store'[d] = ApplyResults(store[d], Results(chunk)),
         DirtyIds(d) \subseteq DOMAIN proc[d].todo
  PROVE  DirtyIds(d)' \subseteq DOMAIN Without(proc[d].todo, chunk)
<1> DEFINE results == Results(chunk)
<1>1. IsStore(store[d])
  BY DEF IInv, DeviceOK, StoreOK
<1>2. DOMAIN Without(proc[d].todo, chunk) = DOMAIN proc[d].todo \ DOMAIN chunk
  BY DEF Without, Restrict
<1> SUFFICES ASSUME NEW id \in DirtyIds(d)'
             PROVE  id \in DOMAIN proc[d].todo \ DOMAIN chunk
  BY <1>2
<1>3. AppliedIn(results) = DOMAIN chunk
  BY DEF HadConflicts, Results
<1>4. id \in DOMAIN store'[d].recs /\ store'[d].recs[id].dirty
  BY DEF DirtyIds
<1> HIDE DEF results
<1>5. /\ id \in DOMAIN store[d].recs \ AppliedIn(results)
      /\ store'[d].recs[id] = store[d].recs[id]
  BY <1>1, <1>4, ApplyCleans DEF results
<1> QED
  BY <1>3, <1>4, <1>5 DEF DirtyIds

LEMMA PushInv ==
  ASSUME IInv, NEW d \in Devices, Push(d)
  PROVE  IInv'
<1>1. PICK chunk \in Chunks(d) :
          LET results == Results(chunk)
              todo == Without(proc[d].todo, chunk)
              conflicts == proc[d].conflicts \/ HadConflicts(results)
          IN  /\ Serve(chunk)
              /\ store' = [store EXCEPT ![d] = ApplyResults(@, results)]
              /\ IF todo # NoRecords
                 THEN proc' = [proc EXCEPT ![d].todo = todo, ![d].conflicts = conflicts]
                 ELSE IF conflicts /\ proc[d].iter < MaxIterations
                 THEN proc' = [proc EXCEPT ![d] =
                                  [Ready EXCEPT !.at = "pull", !.iter = proc[d].iter + 1]]
                 ELSE Finish(d)
  BY DEF Push
<1> DEFINE todo == Without(proc[d].todo, chunk)
           conflicts == proc[d].conflicts \/ HadConflicts(Results(chunk))
<1>2. /\ proc[d].at = "push" /\ UNCHANGED <<idem, saved, userVars, faults, nextId>>
      /\ Serve(chunk) /\ store' = [store EXCEPT ![d] = ApplyResults(@, Results(chunk))]
  BY <1>1 DEF Push
<1>3. /\ ServerOK' /\ GrowsNow
      /\ DOMAIN store' = Devices /\ \A e \in Devices \ {d} : store'[e] = store[e]
      /\ StoreOK(commits, seq, nextId, store[d])' /\ StoreOK(commits, seq, nextId, saved[d])'
      /\ AllGood(commits', seq', nextId', todo)
  BY <1>2, ChunkServed
<1>4. UserOK'
  BY <1>2, <1>3, UserIdle DEF IInv, UserOK
<1>5. /\ proc[d].iter \in 0..MaxIterations /\ proc[d].conflicts \in BOOLEAN
      /\ DOMAIN proc = Devices /\ DOMAIN proc[d] = {"at", "iter", "todo", "conflicts"}
  BY DEF IInv, DeviceOK, ProcOK
<1>6. /\ DOMAIN proc' = Devices /\ ProcOK(d)'
      /\ \A e \in Devices \ {d} : proc'[e] = proc[e]
  <2>1. CASE proc' = [proc EXCEPT ![d].todo = todo, ![d].conflicts = conflicts]
    <3>1. /\ DOMAIN proc' = Devices /\ \A e \in Devices \ {d} : proc'[e] = proc[e]
          /\ DOMAIN proc'[d] = DOMAIN proc[d]
          /\ proc'[d].at = "push" /\ proc'[d].iter = proc[d].iter
          /\ proc'[d].todo = todo /\ proc'[d].conflicts = conflicts
      BY <1>2, <1>5, <2>1
    <3>2. conflicts \in BOOLEAN
      BY <1>5
    <3> HIDE DEF todo, conflicts
    <3> QED
      BY <1>3, <1>5, <3>1, <3>2 DEF ProcOK
  <2>2. CASE proc' = [proc EXCEPT ![d] = [Ready EXCEPT !.at = "pull", !.iter = proc[d].iter + 1]]
             /\ proc[d].iter < MaxIterations
    <3>1. /\ DOMAIN proc' = Devices /\ \A e \in Devices \ {d} : proc'[e] = proc[e]
          /\ DOMAIN proc'[d] = DOMAIN Ready
          /\ proc'[d].at = "pull" /\ proc'[d].iter = proc[d].iter + 1
          /\ proc'[d].conflicts = FALSE /\ proc'[d].todo = NoRecords
      BY <1>5, <2>2 DEF Ready
    <3>2. proc[d].iter + 1 \in 0..MaxIterations
      BY <1>5, <2>2, SyncerAssumption
    <3> QED
      BY <3>1, <3>2, ReadyOK, EmptyGood DEF ProcOK
  <2>3. CASE Finish(d)
    BY <2>3, Finished
  <2> QED
    BY <1>1, <2>1, <2>2, <2>3
<1>7. DeviceOK(d)'
  BY <1>3, <1>6 DEF DeviceOK
<1> QED
  BY <1>2, <1>3, <1>4, <1>6, <1>7, DeviceStep DEF IInv

-------------------------------------------------------------------------------
(* A pull.                                                                 *)

LEMMA IncomingFacts ==
  ASSUME IInv, NEW d \in Devices, NEW id \in Incoming(d)
  PROVE  /\ id \in Ids /\ rows[id] \in Row /\ Committed(commits, id, rows[id])
         /\ rows[id].version \in 1..seq /\ rows[id].version > store[d].cursor
         /\ store[d].cursor \in Nat /\ seq \in Nat
<1>1. id \in Ids /\ rows[id] \in Row /\ rows[id].version > store[d].cursor
  BY DEF Incoming, IInv, ServerOK, RowsOK
<1>2. store[d].cursor \in Nat /\ seq \in Nat
  BY DEF IInv, DeviceOK, StoreOK, IsStore, ServerOK
<1>3. rows[id] # NoRow
  BY <1>1, <1>2, Empty
<1>4. Committed(commits, id, rows[id])
  BY <1>1, <1>3 DEF IInv, ServerOK, RowsOK
<1>5. rows[id].version \in 1..seq
  BY <1>4 DEF Committed, IInv, ServerOK, LogOK
<1> QED
  BY <1>1, <1>2, <1>4, <1>5

\* The new ids lie between the old and the new nextId.
LEMMA CopyIdsNew ==
  ASSUME IInv, NEW d \in Devices, CopyIds(d) \subseteq Ids,
         nextId' = nextId + Cardinality(Copied(d))
  PROVE  /\ nextId \in Nat /\ nextId <= nextId' /\ nextId' \in 1..(MaxIds + 1)
         /\ \A id \in Copied(d) : CopyId(d, id) \in nextId..(nextId' - 1)
<1> DEFINE copied == Copied(d)
           below(id) == {x \in copied : x < id}
<1>1. copied \in SUBSET Ids /\ copied \subseteq Nat
  BY SyncerAssumption DEF Copied, Incoming, Ids
<1>2. IsFiniteSet(copied) /\ Cardinality(copied) \in Nat /\ nextId \in 1..(MaxIds + 1)
  BY <1>1, IdsFinite DEF IInv, ServerOK
<1>3. \A id \in copied : CopyId(d, id) = nextId + Cardinality(below(id))
  BY DEF CopyId
<1>4. \A id \in copied : CopyId(d, id) \in Ids
  BY DEF CopyIds
<1> HIDE DEF copied
<1>5. ASSUME NEW id \in copied
      PROVE  /\ Cardinality(below(id)) \in Nat
             /\ Cardinality(below(id)) < Cardinality(copied)
  <2>1. below(id) \in SUBSET copied /\ id \notin below(id)
    BY <1>1
  <2>2. below(id) # copied
    BY <2>1
  <2> HIDE DEF below
  <2>3. /\ Cardinality(below(id)) \in Nat
        /\ Cardinality(below(id)) <= Cardinality(copied)
        /\ Cardinality(below(id)) # Cardinality(copied)
    BY <1>2, <2>1, <2>2, FS_Subset, FS_CardinalityType
  <2> QED
    BY <1>2, <2>3
<1>6. nextId' \in 1..(MaxIds + 1)
  <2>1. CASE copied = {}
    <3>1. Cardinality(copied) = 0
      BY <2>1, FS_EmptySet
    <3> QED
      BY <1>2, <3>1 DEF copied
  <2>2. CASE copied # {}
    <3>1. PICK last \in copied : \A id \in copied : id <= last
      <4>1. MaxIds \in Nat /\ \A id \in copied : id <= MaxIds
        BY <1>1, SyncerAssumption DEF Ids
      <4> QED
        BY <1>1, <2>2, <4>1, Largest
    <3>2. below(last) = copied \ {last}
      <4>1. \A id \in copied : id < last <=> id # last
        BY <1>1, <3>1
      <4> QED
        BY <4>1, Zenon
    <3>3. Cardinality(below(last)) = Cardinality(copied) - 1
      BY <1>2, <3>1, <3>2, FS_RemoveElement
    <3>4. nextId + Cardinality(below(last)) \in Ids
      BY <1>3, <1>4, <3>1
    <3>5. nextId' = nextId + Cardinality(copied)
      BY DEF copied
    <3> QED
      BY <1>2, <3>3, <3>4, <3>5, SyncerAssumption DEF Ids
  <2> QED
    BY <2>1, <2>2
<1>7. nextId' = nextId + Cardinality(copied)
  BY DEF copied
<1>8. \A id \in copied : CopyId(d, id) \in nextId..(nextId' - 1)
  <2> TAKE id \in copied
  <2>1. CopyId(d, id) = nextId + Cardinality(below(id))
    BY <1>3
  <2>2. Cardinality(below(id)) \in Nat /\ Cardinality(below(id)) < Cardinality(copied)
    BY <1>5
  <2> HIDE DEF below
  <2> QED
    BY <1>2, <1>7, <2>1, <2>2
<1> QED
  BY <1>2, <1>6, <1>7, <1>8 DEF copied

\* What a pull puts in the place of a record: the server's row, or the local record
\* with a new base.  A live record stays based on a live version, because a
\* tombstone wins over it.
LEMMA MergedOK ==
  ASSUME IInv, NEW d \in Devices, NEW id \in Incoming(d)
  PROVE  /\ Merged(d, id) \in Stored /\ Good(commits, seq, nextId, id, Merged(d, id))
         /\ ~Merged(d, id).dirty => Merged(d, id) = FromServer(rows[id])
<1> DEFINE row == rows[id]
           local == store[d].recs[id]
<1>1. /\ id \in Ids /\ row \in Row /\ Committed(commits, id, row)
      /\ row.version \in 1..seq /\ seq \in Nat
  BY IncomingFacts
<1>2. LogOK(commits, seq, nextId)
  BY DEF IInv, ServerOK
<1>3. CASE ~InConflict(d, id) \/ ServerWins(local, row)
  <2>1. Merged(d, id) = FromServer(row)
    BY <1>3 DEF Merged
  <2> QED
    BY <1>1, <1>2, <2>1, FromServerGood
<1>4. CASE InConflict(d, id) /\ ~ServerWins(local, row)
  <2>1. Merged(d, id) = [local EXCEPT !.base = row.version]
    BY <1>4 DEF Merged
  <2>2. local \in Stored /\ Good(commits, seq, nextId, id, local) /\ local.dirty
    BY <1>4, RecordFacts DEF InConflict, IInv, DeviceOK, StoreOK
  <2>3. ~local.deleted => Live(commits, id, row.version)
    <3>1. ~local.deleted => ~row.deleted
      BY <1>4 DEF ServerWins
    <3>2. PICK c \in commits : c.id = id /\ c.row = row
      BY <1>1 DEF Committed
    <3>3. \A c1 \in commits : c1.row.version = row.version => c1.row = row
      BY <1>2, <3>2 DEF LogOK
    <3> QED
      BY <3>1, <3>3 DEF Live
  <2> HIDE DEF local, row
  <2>4. /\ Merged(d, id) \in Stored /\ Merged(d, id).dirty
        /\ Merged(d, id).version = local.version /\ Merged(d, id).base = row.version
        /\ Merged(d, id).deleted = local.deleted
    BY <1>1, <2>1, <2>2 DEF Stored
  <2> QED
    BY <1>1, <2>2, <2>3, <2>4 DEF Good
<1> QED
  BY <1>3, <1>4

\* A conflict copy has an id that no commit has.
LEMMA CopyGood ==
  ASSUME IInv, NEW d \in Devices, NEW id \in Copied(d),
         NEW new \in Nat, nextId <= new, NEW free \in Nat, new < free
  PROVE  /\ ConflictCopy(d, id) \in Stored /\ ConflictCopy(d, id).dirty
         /\ Good(commits, seq, free, new, ConflictCopy(d, id))
<1> DEFINE row == rows[id]
           local == store[d].recs[id]
           copy == ConflictCopy(d, id)
<1>1. id \in Incoming(d) /\ id \in DOMAIN store[d].recs /\ local.dirty
  BY DEF Copied, InConflict
<1>2. row \in Row /\ row.version \in 1..seq /\ seq \in Nat
  BY <1>1, IncomingFacts
<1>3. local \in Stored /\ Good(commits, seq, nextId, id, local)
  BY <1>1, RecordFacts DEF IInv, DeviceOK, StoreOK
<1>4. \A v : Live(commits, new, v)
  <2>1. \A c \in commits : c.id < nextId /\ c.id \in Nat
    BY SyncerAssumption DEF IInv, ServerOK, LogOK, Ids
  <2>2. nextId \in Nat
    BY DEF IInv, ServerOK
  <2>3. \A c \in commits : c.id # new
    BY <2>1, <2>2
  <2> QED
    BY <2>3 DEF Live
<1>5. copy \in Stored /\ copy.dirty /\ copy.version <= seq /\ copy.base = 0
  <2>1. CASE LocalDeleteWins(local, row)
    <3>1. copy = [FromServer(row) EXCEPT !.dirty = TRUE, !.dirtyAt = Now(d)]
      BY <2>1 DEF ConflictCopy
    <3>2. /\ FromServer(row) \in Stored /\ FromServer(row).version = row.version
          /\ FromServer(row).base = 0
      BY <1>2 DEF FromServer, Row, Stored
    <3>3. Now(d) \in Int
      BY NowIsTime DEF IInv
    <3>4. ASSUME NEW rec \in Stored, NEW t \in Int, NEW marked,
                 marked = [rec EXCEPT !.dirty = TRUE, !.dirtyAt = t]
          PROVE  /\ marked \in Stored /\ marked.dirty
                 /\ marked.version = rec.version /\ marked.base = rec.base
      BY <3>4 DEF Stored
    <3>5. row.version <= seq
      BY <1>2
    <3> HIDE DEF row, local, copy
    <3>6. /\ copy \in Stored /\ copy.dirty /\ copy.version = FromServer(row).version
          /\ copy.base = FromServer(row).base
      BY <3>1, <3>2, <3>3, <3>4
    <3> QED
      BY <3>2, <3>5, <3>6
  <2>2. CASE ~LocalDeleteWins(local, row)
    <3>1. copy = [local EXCEPT !.base = 0]
      BY <2>2 DEF ConflictCopy
    <3> HIDE DEF row, local, copy
    <3> QED
      BY <1>1, <1>3, <3>1 DEF Stored, Good
  <2> QED
    BY <2>1, <2>2
<1> HIDE DEF copy
<1>6. Good(commits, seq, free, new, copy)
  BY <1>2, <1>4, <1>5 DEF Good
<1> QED
  BY <1>5, <1>6 DEF copy

\* The cursor after a pull covers every row that came in.
LEMMA PulledCursor ==
  ASSUME IInv, NEW d \in Devices
  PROVE  /\ AfterPull(d).cursor \in Nat /\ store[d].cursor <= AfterPull(d).cursor
         /\ \A id \in Incoming(d) : rows[id].version <= AfterPull(d).cursor
         /\ AfterPull(d).cursor <= seq \/ AfterPull(d).cursor = store[d].cursor
<1> DEFINE I == Incoming(d)
           version == [id \in I |-> rows[id].version]
           after == AfterPull(d).cursor
<1>1. IsStore(store[d]) /\ store[d].cursor \in Nat /\ seq \in Nat
  BY DEF IInv, DeviceOK, StoreOK, IsStore, ServerOK
<1>2. after = IF I = {} THEN store[d].cursor
              ELSE CHOOSE v \in {rows[id].version : id \in I} : \A id \in I : rows[id].version <= v
  BY <1>1 DEF AfterPull, IsStore
<1>3. \A id \in I : rows[id].version \in 1..seq /\ rows[id].version > store[d].cursor
  BY IncomingFacts
<1> HIDE DEF I, after
<1>4. ASSUME I = {}
      PROVE  after = store[d].cursor
  BY <1>2, <1>4
<1>5. ASSUME I # {}
      PROVE  /\ after \in Nat /\ store[d].cursor <= after /\ after <= seq
             /\ \A id \in I : rows[id].version <= after
  <2>1. version \in [I -> Nat] /\ \A id \in I : version[id] <= seq
    BY <1>1, <1>3
  <2>2. \E v \in {version[id] : id \in I} : \A id \in I : version[id] <= v
    <3> HIDE DEF version
    <3> QED
      BY <1>1, <1>5, <2>1, CursorCovers
  <2>3. \E v \in {rows[id].version : id \in I} : \A id \in I : rows[id].version <= v
    BY <2>2
  <2>4. after \in {rows[id].version : id \in I} /\ \A id \in I : rows[id].version <= after
    BY <1>2, <1>5, <2>3
  <2>5. after \in Nat /\ store[d].cursor <= after /\ after <= seq
    BY <1>1, <1>3, <2>4
  <2> QED
    BY <2>4, <2>5
<1>6. /\ after \in Nat /\ store[d].cursor <= after
      /\ \A id \in I : rows[id].version <= after
      /\ after <= seq \/ after = store[d].cursor
  BY <1>1, <1>4, <1>5
<1> QED
  BY <1>6 DEF I, after

\* The store after a pull.
LEMMA PulledOK ==
  ASSUME IInv, NEW d \in Devices, CopyIds(d) \subseteq Ids,
         nextId' = nextId + Cardinality(Copied(d))
  PROVE  StoreOK(commits, seq, nextId', AfterPull(d))
<1> DEFINE after == AfterPull(d)
           old == store[d]
           incoming == Incoming(d)
           copies == CopyIds(d)
<1>1. StoreOK(commits, seq, nextId, old) /\ IsStore(old)
  BY DEF IInv, DeviceOK, StoreOK
<1>2. /\ DOMAIN after = DOMAIN old /\ after.pending = old.pending
      /\ after.recs = [id \in DOMAIN old.recs \union incoming \union copies |->
                          IF id \in copies THEN CopyAt(d, id)
                          ELSE IF id \in incoming THEN Merged(d, id)
                          ELSE old.recs[id]]
  BY <1>1 DEF AfterPull, IsStore
<1>3. /\ nextId \in Nat /\ nextId <= nextId' /\ nextId' \in Nat
      /\ \A id \in Copied(d) : CopyId(d, id) \in nextId..(nextId' - 1)
  BY CopyIdsNew
<1>4. /\ after.cursor \in Nat /\ old.cursor \in Nat /\ old.cursor <= after.cursor
      /\ \A id \in incoming : rows[id].version <= after.cursor
  BY <1>1, PulledCursor DEF IsStore
<1>5. ASSUME NEW id \in Ids, NEW rec, rec \in Stored, Good(commits, seq, nextId, id, rec)
      PROVE  Good(commits, seq, nextId', id, rec)
  BY <1>3, <1>5 DEF Good, Ids
<1> HIDE DEF after, old, incoming, copies
<1>6. ASSUME NEW id \in DOMAIN after.recs
      PROVE  /\ id \in Ids /\ after.recs[id] \in Stored
             /\ Good(commits, seq, nextId', id, after.recs[id])
             /\ ~after.recs[id].dirty =>
                    /\ after.recs[id].version <= after.cursor
                    /\ \E row \in Row :
                           Committed(commits, id, row) /\ FromServer(row) = after.recs[id]
  <2>1. CASE id \in copies
    <3>1. \E x \in Copied(d) : CopyId(d, x) = id
      BY <2>1 DEF copies, CopyIds
    <3> DEFINE from == CHOOSE x \in Copied(d) : CopyId(d, x) = id
    <3>2. from \in Copied(d) /\ CopyId(d, from) = id
      BY <3>1
    <3>3. after.recs[id] = ConflictCopy(d, from)
      BY <1>2, <2>1 DEF CopyAt
    <3> HIDE DEF from
    <3>4. id \in Nat /\ nextId <= id /\ id < nextId'
      BY <1>3, <3>2
    <3>5. /\ ConflictCopy(d, from) \in Stored /\ ConflictCopy(d, from).dirty
          /\ Good(commits, seq, nextId', id, ConflictCopy(d, from))
      BY <1>3, <3>2, <3>4, CopyGood
    <3>6. id \in Ids
      BY <2>1 DEF copies
    <3> QED
      BY <3>3, <3>5, <3>6
  <2>2. CASE id \notin copies /\ id \in incoming
    <3>1. after.recs[id] = Merged(d, id)
      BY <1>2, <2>2
    <3>2. /\ Merged(d, id) \in Stored /\ Good(commits, seq, nextId, id, Merged(d, id))
          /\ ~Merged(d, id).dirty => Merged(d, id) = FromServer(rows[id])
      BY <2>2, MergedOK DEF incoming
    <3>3. /\ id \in Ids /\ rows[id] \in Row /\ Committed(commits, id, rows[id])
          /\ rows[id].version <= after.cursor
      BY <1>4, <2>2, IncomingFacts DEF incoming
    <3>4. FromServer(rows[id]).version = rows[id].version
      BY DEF FromServer
    <3> QED
      BY <1>5, <3>1, <3>2, <3>3, <3>4
  <2>3. CASE id \notin copies /\ id \notin incoming
    <3>1. id \in DOMAIN old.recs /\ after.recs[id] = old.recs[id]
      BY <1>2, <1>6, <2>3
    <3>2. id \in Ids /\ old.recs[id] \in Stored /\ Good(commits, seq, nextId, id, old.recs[id])
      BY <1>1, <3>1 DEF StoreOK, AllGood, IsMap
    <3>3. ~old.recs[id].dirty =>
              /\ old.recs[id].version <= old.cursor
              /\ \E row \in Row : Committed(commits, id, row) /\ FromServer(row) = old.recs[id]
      BY <1>1, <3>1 DEF StoreOK, Clean
    <3>4. old.recs[id].version <= old.cursor => old.recs[id].version <= after.cursor
      BY <1>4, <3>2 DEF Stored
    <3> QED
      BY <1>5, <3>1, <3>2, <3>3, <3>4
  <2> QED
    BY <2>1, <2>2, <2>3
<1>7. IsMap(after.recs, Stored)
  BY <1>2, <1>6 DEF IsMap
<1>8. IsStore(after)
  BY <1>1, <1>2, <1>4, <1>7 DEF IsStore
<1> QED
  BY <1>6, <1>7, <1>8 DEF StoreOK, AllGood, Clean, after

\* What is next after a pull: nothing, or the push of all that is dirty.
LEMMA PulledNext ==
  ASSUME IInv, NEW d \in Devices, Pull(d)
  PROVE  \/ Finish(d) /\ DirtyIds(d)' = {}
         \/ proc' = [proc EXCEPT ![d].at = "push",
                                 ![d].todo = Restrict(store'[d].recs, DirtyIds(d)'),
                                 ![d].conflicts = FALSE]
  BY DEF Pull, DirtyIds

LEMMA PullInv ==
  ASSUME IInv, NEW d \in Devices, Pull(d)
  PROVE  IInv'
<1>1. /\ UNCHANGED <<rows, seq, idem, commits, saved, userVars, faults>>
      /\ proc[d].at = "pull" /\ CopyIds(d) \subseteq Ids
      /\ nextId' = nextId + Cardinality(Copied(d))
      /\ store' = [store EXCEPT ![d] = AfterPull(d)]
  BY DEF Pull, serverVars
<1>2. nextId \in Nat /\ nextId <= nextId' /\ nextId' \in 1..(MaxIds + 1)
  BY <1>1, CopyIdsNew
<1>3. GrowsNow
  BY <1>1, <1>2 DEF IInv, ServerOK, LogOK, GrowsNow, Grows
<1>4. ServerOK'
  <2>1. \A c \in commits : c.id < nextId'
    BY <1>2, SyncerAssumption DEF IInv, ServerOK, LogOK, Ids
  <2>2. LogOK(commits', seq', nextId')
    BY <1>1, <2>1 DEF IInv, ServerOK, LogOK
  <2> QED
    BY <1>1, <1>2, <2>2 DEF IInv, ServerOK, RowsOK
<1>5. UserOK'
  BY <1>1, <1>3, UserIdle DEF IInv, UserOK
<1>6. /\ DOMAIN store' = Devices /\ store'[d] = AfterPull(d)
      /\ \A e \in Devices \ {d} : store'[e] = store[e]
  BY <1>1 DEF IInv
<1>7. StoreOK(commits, seq, nextId, store[d])' /\ StoreOK(commits, seq, nextId, saved[d])'
  <2>1. StoreOK(commits, seq, nextId', AfterPull(d))
    BY <1>1, PulledOK
  <2> QED
    BY <1>1, <1>3, <1>6, <2>1, StoreStays DEF IInv, DeviceOK, GrowsNow
<1>8. /\ DOMAIN proc' = Devices /\ ProcOK(d)'
      /\ \A e \in Devices \ {d} : proc'[e] = proc[e]
  <2> DEFINE dirty == DirtyIds(d)'
             todo == Restrict(store'[d].recs, dirty)
  <2>1. CASE Finish(d)
    BY <2>1, Finished
  <2>2. CASE proc' = [proc EXCEPT ![d].at = "push", ![d].todo = todo, ![d].conflicts = FALSE]
    <3>1. /\ DOMAIN proc = Devices /\ DOMAIN proc[d] = {"at", "iter", "todo", "conflicts"}
          /\ proc[d].iter \in 0..MaxIterations
      BY DEF IInv, DeviceOK, ProcOK
    <3>2. /\ DOMAIN proc' = Devices /\ \A e \in Devices \ {d} : proc'[e] = proc[e]
          /\ DOMAIN proc'[d] = DOMAIN proc[d]
          /\ proc'[d].at = "push" /\ proc'[d].iter = proc[d].iter
          /\ proc'[d].todo = todo /\ proc'[d].conflicts = FALSE
      BY <2>2, <3>1
    <3>3. dirty \subseteq DOMAIN store'[d].recs
      BY DEF DirtyIds
    <3>4. AllGood(commits', seq', nextId', todo) /\ DOMAIN todo = dirty
      BY <1>7, <3>3, RestrictGood DEF StoreOK
    <3> HIDE DEF todo
    <3> QED
      BY <3>1, <3>2, <3>4 DEF ProcOK
  <2> QED
    BY <2>1, <2>2, PulledNext
<1>9. DeviceOK(d)'
  BY <1>7, <1>8 DEF DeviceOK
<1> QED
  BY <1>1, <1>3, <1>4, <1>5, <1>6, <1>8, <1>9, DeviceStep DEF IInv

-------------------------------------------------------------------------------
(* Every step.                                                             *)

LEMMA NextInv == IInv /\ [Next]_vars => IInv'
<1> SUFFICES ASSUME IInv, [Next]_vars
             PROVE  IInv'
  OBVIOUS
<1>1. CASE UNCHANGED vars
  BY <1>1 DEF vars, serverVars, userVars, IInv, ServerOK, RowsOK, DeviceOK, ProcOK, UserOK
<1>2. CASE DeleteExpired
  BY <1>2, DeleteExpiredInv
<1>3. ASSUME NEW d \in Devices, UserStep(d)
      PROVE  IInv'
  <2>2. CASE Create(d)
    BY <2>2, CreateInv
  <2>3. ASSUME NEW id \in DOMAIN store[d].recs, Update(d, id, store[d].recs[id].body)
        PROVE  IInv'
    <3>1. store[d].recs[id].body \in Bodies
      BY RecordFacts DEF IInv, DeviceOK, StoreOK
    <3> QED
      BY <2>3, <3>1, UpdateInv
  <2>4. ASSUME NEW id \in DOMAIN store[d].recs, Delete(d, id)
        PROVE  IInv'
    BY <2>4, DeleteInv
  <2>5. CASE Export(d)
    BY <2>5, ExportInv
  <2>6. CASE Import(d)
    BY <2>6, ImportInv
  <2>7. CASE SyncStart(d)
    BY <2>7, SyncStartInv
  <2>8. CASE Save(d)
    BY <2>8, SaveInv
  <2> QED
    BY <1>3, <2>2, <2>3, <2>4, <2>5, <2>6, <2>7, <2>8 DEF UserStep
<1>4. ASSUME NEW d \in Devices, SyncStep(d)
      PROVE  IInv'
  BY <1>4, ReplayInv, PullInv, PushInv, RefusedInv, PushRefusedInv, PushLostInv, ReplayLostInv
     DEF SyncStep
<1>5. ASSUME NEW d \in Devices, Crash(d)
      PROVE  IInv'
  BY <1>5, CrashInv
<1> QED
  BY <1>1, <1>2, <1>3, <1>4, <1>5 DEF Next

\* The inductive invariant: what every store, file, batch and recorded answer may hold
\* while syncs, faults and restarts go on (syncer.go:75-255).
THEOREM InvHolds == Spec => []IInv
<1> QED BY InitInv, NextInv, PTL DEF Spec

-------------------------------------------------------------------------------
(* What the invariant says of a state and of a step.                       *)

LEMMA InvTypeOK ==
  ASSUME IInv
  PROVE  TypeOK
<1>1. /\ rows \in [Ids -> Row] /\ seq \in Nat /\ DOMAIN idem = Keys
      /\ nextId \in 1..(MaxIds + 1) /\ commits \subseteq [id: Ids, base: Nat, row: Row]
      /\ \A k \in Keys : IsMap(idem[k], [applied: BOOLEAN, row: Row])
  BY DEF IInv, ServerOK, RowsOK, LogOK, ResultsOK
<1>2. \A d \in Devices : IsStore(store[d]) /\ IsStore(saved[d])
  BY DEF IInv, DeviceOK, StoreOK
<1>3. \A d \in Devices :
          /\ proc[d].at \in {"ready", "replay", "pull", "push"}
          /\ proc[d].iter \in 0..MaxIterations
          /\ IsMap(proc[d].todo, Stored)
          /\ proc[d].conflicts \in BOOLEAN
  BY DEF IInv, DeviceOK, ProcOK, AllGood
<1>4. /\ IsMap(bundle, Stored) /\ edits \in 0..MaxEdits
      /\ imports \in 0..MaxImports /\ faults \in 0..MaxFaults
  BY DEF IInv, UserOK, AllGood
<1>5. DOMAIN store = Devices /\ DOMAIN saved = Devices /\ DOMAIN proc = Devices
  BY DEF IInv
<1> QED
  BY <1>1, <1>2, <1>3, <1>4, <1>5 DEF TypeOK

LEMMA InvClean ==
  ASSUME IInv
  PROVE  CleanIsCommitted
<1> SUFFICES ASSUME NEW d \in Devices, NEW s \in {store[d], saved[d]},
                    NEW id \in DOMAIN s.recs, ~s.recs[id].dirty
             PROVE  /\ s.recs[id].version <= s.cursor
                    /\ \E c \in commits :
                           /\ c.id = id /\ c.row.version = s.recs[id].version
                           /\ FromServer(c.row) = s.recs[id]
  BY DEF CleanIsCommitted
<1>1. Clean(commits, s)
  BY DEF IInv, DeviceOK, StoreOK
<1>2. PICK row \in Row : Committed(commits, id, row) /\ FromServer(row) = s.recs[id]
  BY <1>1 DEF Clean
<1>3. PICK c \in commits : c.id = id /\ c.row = row
  BY <1>2 DEF Committed
<1>4. row.version = s.recs[id].version
  BY <1>2 DEF FromServer
<1> QED
  BY <1>1, <1>2, <1>3, <1>4 DEF Clean

\* What DeletedStaysDeleted says of a step.
Final == \A id \in Ids : rows[id].deleted => rows'[id].deleted

LEMMA StepKeepsTombstones ==
  ASSUME IInv, [Next]_vars
  PROVE  Final
<1>1. CASE UNCHANGED rows
  BY <1>1 DEF Final
<1>2. ASSUME NEW d \in Devices, Replay(d)
      PROVE  Final
  <2>1. CASE UNCHANGED serverVars
    BY <1>1, <2>1 DEF serverVars
  <2>2. CASE Serve(proc[d].todo)
    <3>1. nextId' = nextId /\ AllGood(commits, seq, nextId, proc[d].todo)
      BY <1>2 DEF Replay, IInv, DeviceOK, ProcOK
    <3> QED
      BY <2>2, <3>1, ServeOK DEF IInv, Final
  <2> QED
    BY <1>2, <2>1, <2>2 DEF Replay
<1>3. ASSUME NEW d \in Devices, Push(d)
      PROVE  Final
  <2>1. PICK chunk \in Chunks(d) : Serve(chunk)
    BY <1>3 DEF Push
  <2>2. nextId' = nextId
    BY <1>3 DEF Push
  <2> QED
    BY <2>1, <2>2, ChunkOK, ServeOK DEF IInv, Final
<1>4. ASSUME NEW d \in Devices, PushLost(d)
      PROVE  Final
  <2>1. PICK chunk \in Chunks(d) : Unacknowledged(d, chunk) /\ Unanswered(chunk, NewKey)
    BY <1>4 DEF PushLost
  <2>2. nextId' = nextId /\ NewKey \in Keys
    BY <2>1, NewKeyIsKey DEF Unacknowledged
  <2> QED
    BY <2>1, <2>2, ChunkOK, UnansweredOK DEF Final
<1>5. ASSUME NEW d \in Devices, ReplayLost(d)
      PROVE  Final
  <2>1. /\ proc[d].at = "replay" /\ nextId' = nextId
        /\ Unanswered(proc[d].todo, Head(store[d].pending).key)
    BY <1>5 DEF ReplayLost
  <2>2. store[d].pending \in Seq(Pending) /\ store[d].pending # <<>>
    BY <2>1 DEF IInv, DeviceOK, ProcOK, StoreOK, IsStore, Pending
  <2>3. /\ Head(store[d].pending).key \in Keys
        /\ AllGood(commits, seq, nextId, proc[d].todo)
    BY <2>2, FirstPending DEF IInv, DeviceOK, ProcOK
  <2> QED
    BY <2>1, <2>3, UnansweredOK DEF Final
<1>6. CASE UNCHANGED vars \/ DeleteExpired \/ \E d \in Devices : Crash(d)
  BY <1>1, <1>6 DEF vars, serverVars, DeleteExpired, Crash
<1>7. ASSUME NEW d \in Devices, UserStep(d)
      PROVE  UNCHANGED rows
  BY <1>7 DEF UserStep, Create, Update, Delete, Export, Import, SyncStart, Save, Edit, serverVars
<1>8. ASSUME NEW d \in Devices, Pull(d) \/ Refused(d) \/ PushRefused(d)
      PROVE  UNCHANGED rows
  BY <1>8 DEF Pull, Refused, PushRefused, serverVars
<1> QED
  BY <1>1, <1>2, <1>3, <1>4, <1>5, <1>6, <1>7, <1>8 DEF Next, SyncStep

\* A device's own steps are the only ones that touch it.
LEMMA OnlyItsOwn ==
  ASSUME IInv, NEW d \in Devices, NEW e \in Devices, e # d,
         UserStep(e) \/ SyncStep(e) \/ Crash(e)
  PROVE  UNCHANGED <<proc[d], store[d]>>
<1>1. CASE UserStep(e)
  BY <1>1 DEF IInv, UserStep, Create, Update, Delete, Export, Import, SyncStart, Save, Edit
<1>2. CASE SyncStep(e)
  BY <1>2 DEF IInv, SyncStep, Replay, Pull, Push, Refused, PushRefused, PushLost, ReplayLost,
              Unacknowledged, Finish
<1>3. CASE Crash(e)
  BY <1>3 DEF IInv, Crash
<1> QED
  BY <1>1, <1>2, <1>3

-------------------------------------------------------------------------------
(* A second invariant: what a push has still to send is what the store      *)
(* holds, since nothing edits it in between, and it is all that is dirty    *)
(* unless a conflict was met.                                              *)

TodoOf(d) ==
    proc[d].at = "push" =>
        /\ \A id \in DOMAIN proc[d].todo :
               id \in DOMAIN store[d].recs /\ store[d].recs[id] = proc[d].todo[id]
        /\ ~proc[d].conflicts => DirtyIds(d) \subseteq DOMAIN proc[d].todo

TodoCurrent == \A d \in Devices : TodoOf(d)

\* Of the records of a push, those that were applied are as they were sent, and the
\* others as they were.
LEMMA PushedRecords ==
  ASSUME IInv, NEW d \in Devices, TodoOf(d), proc[d].at = "push",
         NEW chunk \in Chunks(d),
         store' = [store EXCEPT ![d] = ApplyResults(@, Results(chunk))],
         NEW id \in DOMAIN store[d].recs
  PROVE  /\ id \in DOMAIN store'[d].recs
         /\ id \notin DOMAIN chunk => store'[d].recs[id] = store[d].recs[id]
         /\ \/ store'[d].recs[id] = store[d].recs[id]
            \/ /\ store'[d].recs[id].deleted = store[d].recs[id].deleted
               /\ store'[d].recs[id].body = store[d].recs[id].body
<1> DEFINE applied == AppliedIn(Results(chunk))
<1>1. store'[d].recs = [x \in DOMAIN store[d].recs \union applied |->
                           IF x \in applied THEN FromServer(Results(chunk)[x].row)
                           ELSE store[d].recs[x]]
  BY DEF IInv, DeviceOK, StoreOK, IsStore, ApplyResults
<1>2. /\ applied \subseteq DOMAIN chunk
      /\ \A x \in applied : Results(chunk)[x].row = RowsAfter(chunk)[x]
  BY DEF AppliedIn, Results
<1>3. CASE id \notin applied
  BY <1>1, <1>3
<1>4. CASE id \in applied
  <2>1. PICK S \in SUBSET DOMAIN proc[d].todo : chunk = Restrict(proc[d].todo, S)
    BY DEF Chunks, kSubset
  <2>2. id \in DOMAIN chunk /\ id \in S /\ chunk[id] = proc[d].todo[id]
    BY <1>2, <1>4, <2>1 DEF Restrict
  <2>3. chunk[id] = store[d].recs[id]
    BY <2>2 DEF TodoOf
  <2>4. id \in Applicable(chunk) /\ id \in Ids
    <3>1. Results(chunk)[id].applied /\ id \in DOMAIN Results(chunk)
      BY <1>4 DEF AppliedIn
    <3>2. id \in Applicable(chunk)
      BY <2>2, <3>1 DEF Results
    <3> QED
      BY <3>2 DEF IInv, DeviceOK, StoreOK, IsStore, IsMap
  <2>5. /\ RowsAfter(chunk)[id].deleted = chunk[id].deleted
        /\ RowsAfter(chunk)[id].body = chunk[id].body
    BY <2>4 DEF RowsAfter
  <2>6. store'[d].recs[id] = FromServer(RowsAfter(chunk)[id])
    BY <1>1, <1>2, <1>4
  <2> QED
    BY <1>1, <2>2, <2>3, <2>5, <2>6 DEF FromServer
<1> QED
  BY <1>1, <1>2, <1>3, <1>4

LEMMA TodoPushed ==
  ASSUME IInv, NEW d \in Devices, TodoOf(d), Push(d)
  PROVE  TodoOf(d)'
<1> SUFFICES ASSUME proc'[d].at = "push"
             PROVE  /\ \A id \in DOMAIN proc'[d].todo :
                           /\ id \in DOMAIN store'[d].recs
                           /\ store'[d].recs[id] = proc'[d].todo[id]
                    /\ ~proc'[d].conflicts => DirtyIds(d)' \subseteq DOMAIN proc'[d].todo
  BY DEF TodoOf
<1>1. PICK chunk \in Chunks(d) :
          /\ store' = [store EXCEPT ![d] = ApplyResults(@, Results(chunk))]
          /\ \/ proc' = [proc EXCEPT ![d].todo = Without(proc[d].todo, chunk),
                                     ![d].conflicts =
                                         proc[d].conflicts \/ HadConflicts(Results(chunk))]
             \/ proc' = [proc EXCEPT ![d] =
                            [Ready EXCEPT !.at = "pull", !.iter = proc[d].iter + 1]]
             \/ Finish(d)
  BY DEF Push
<1> DEFINE conflicts == proc[d].conflicts \/ HadConflicts(Results(chunk))
<1>2. DOMAIN proc = Devices /\ DOMAIN proc[d] = {"at", "iter", "todo", "conflicts"}
  BY DEF IInv, DeviceOK, ProcOK
<1>3. /\ proc'[d].todo = Without(proc[d].todo, chunk)
      /\ proc'[d].conflicts = conflicts
  <2>1. CASE proc' = [proc EXCEPT ![d].todo = Without(proc[d].todo, chunk),
                                  ![d].conflicts = conflicts]
    BY <1>2, <2>1
  <2>2. CASE proc' = [proc EXCEPT ![d] =
                         [Ready EXCEPT !.at = "pull", !.iter = proc[d].iter + 1]]
    <3>1. proc'[d].at = "pull"
      BY <1>2, <2>2 DEF Ready
    <3> QED
      BY <3>1
  <2>3. CASE Finish(d)
    <3>1. proc'[d].at = "ready"
      BY <1>2, <2>3 DEF Finish, Ready
    <3> QED
      BY <3>1
  <2> QED
    BY <1>1, <2>1, <2>2, <2>3
<1>4. proc[d].at = "push"
  BY DEF Push
<1>5. ASSUME NEW id \in DOMAIN proc'[d].todo
      PROVE  id \in DOMAIN store'[d].recs /\ store'[d].recs[id] = proc'[d].todo[id]
  <2>1. id \in DOMAIN proc[d].todo \ DOMAIN chunk /\ proc'[d].todo[id] = proc[d].todo[id]
    BY <1>3, <1>5 DEF Without, Restrict
  <2>2. id \in DOMAIN store[d].recs /\ store[d].recs[id] = proc[d].todo[id]
    BY <1>4, <2>1 DEF TodoOf
  <2> QED
    BY <1>1, <1>4, <2>1, <2>2, PushedRecords
<1>6. ASSUME ~proc'[d].conflicts
      PROVE  DirtyIds(d)' \subseteq DOMAIN proc'[d].todo
  <2>1. ~proc[d].conflicts /\ ~HadConflicts(Results(chunk))
    BY <1>3, <1>6
  <2>2. DirtyIds(d) \subseteq DOMAIN proc[d].todo
    BY <1>4, <2>1 DEF TodoOf
  <2>3. store'[d] = ApplyResults(store[d], Results(chunk))
    BY <1>1 DEF IInv
  <2> QED
    BY <1>3, <2>1, <2>2, <2>3, ChunkCleans
<1> QED
  BY <1>5, <1>6

LEMMA TodoPulled ==
  ASSUME IInv, NEW d \in Devices, Pull(d)
  PROVE  TodoOf(d)'
<1> DEFINE dirty == DirtyIds(d)'
<1>1. DOMAIN proc = Devices /\ DOMAIN proc[d] = {"at", "iter", "todo", "conflicts"}
  BY DEF IInv, DeviceOK, ProcOK
<1>2. CASE Finish(d)
  <2>1. proc'[d].at = "ready"
    BY <1>1, <1>2, ReadyOK DEF Finish
  <2> QED
    BY <2>1 DEF TodoOf
<1>3. CASE proc' = [proc EXCEPT ![d].at = "push", ![d].todo = Restrict(store'[d].recs, dirty),
                                ![d].conflicts = FALSE]
  <2>1. proc'[d].todo = Restrict(store'[d].recs, dirty)
    BY <1>1, <1>3
  <2>2. dirty \subseteq DOMAIN store'[d].recs
    BY DEF DirtyIds
  <2>3. DOMAIN proc'[d].todo = dirty
    BY <2>1 DEF Restrict
  <2>4. \A id \in dirty : proc'[d].todo[id] = store'[d].recs[id]
    BY <2>1 DEF Restrict
  <2> HIDE DEF dirty
  <2>5. DirtyIds(d)' \subseteq DOMAIN proc'[d].todo
    BY <2>3 DEF dirty
  <2> QED
    BY <2>2, <2>3, <2>4, <2>5 DEF TodoOf
<1> QED
  BY <1>2, <1>3, PulledNext

\* The other steps of a device leave it at rest or do not touch it.
LEMMA TodoNext ==
  ASSUME IInv, TodoCurrent, [Next]_vars
  PROVE  TodoCurrent'
<1> SUFFICES ASSUME NEW d \in Devices
             PROVE  TodoOf(d)'
  BY DEF TodoCurrent
<1>1. TodoOf(d) /\ DOMAIN proc = Devices /\ DOMAIN store = Devices
  BY DEF TodoCurrent, IInv
<1>2. CASE UNCHANGED <<proc[d], store[d]>>
  BY <1>1, <1>2 DEF TodoOf, DirtyIds
<1>3. CASE UNCHANGED vars \/ DeleteExpired
  BY <1>2, <1>3 DEF vars, DeleteExpired
<1>4. CASE Push(d) \/ Pull(d)
  BY <1>1, <1>4, TodoPushed, TodoPulled
<1>5. CASE Replay(d) \/ SyncStart(d)
  <2>1. \E s : proc'[d] = ReplayOrPull(s)
    BY <1>1, <1>5 DEF Replay, SyncStart
  <2> QED
    BY <2>1 DEF ReplayOrPull, Ready, TodoOf
<1>6. CASE Refused(d) \/ PushRefused(d) \/ PushLost(d) \/ ReplayLost(d) \/ Crash(d)
  <2>1. proc'[d] = Ready
    BY <1>1, <1>6
       DEF Refused, PushRefused, PushLost, ReplayLost, Crash, Finish, Unacknowledged
  <2> QED
    BY <2>1, ReadyOK DEF TodoOf
<1>7. CASE UserStep(d) /\ ~SyncStart(d)
  <2>1. proc'[d].at = "ready"
    BY <1>7 DEF UserStep, Create, Update, Delete, Export, Import, Save, Edit
  <2> QED
    BY <2>1 DEF TodoOf
<1>8. ASSUME NEW e \in Devices, e # d, UserStep(e) \/ SyncStep(e) \/ Crash(e)
      PROVE  UNCHANGED <<proc[d], store[d]>>
  BY <1>1, <1>8, OnlyItsOwn
<1> QED
  BY <1>2, <1>3, <1>4, <1>5, <1>6, <1>7, <1>8 DEF Next, SyncStep

\* What a push has read and not yet sent is what the store holds (syncer.go:84-91).
THEOREM TodoHolds == Spec => []TodoCurrent
<1>1. Init => TodoCurrent
  BY ReadyOK DEF Init, TodoCurrent, TodoOf
<1>2. IInv /\ TodoCurrent /\ [Next]_vars => TodoCurrent'
  BY TodoNext
<1> QED BY <1>1, <1>2, InvHolds, PTL DEF Spec

-------------------------------------------------------------------------------
(* What a sync leaves behind when it ends.                                 *)

\* What SyncEndsClean says of a step.
Ends(d) ==
    /\ proc[d].at \in {"pull", "push"}
    /\ proc'[d].at = "ready"
    /\ proc[d].iter < MaxIterations
    /\ faults' = faults

AllClean(d) == \A id \in DOMAIN store'[d].recs : ~store'[d].recs[id].dirty

LEMMA StepEndsClean ==
  ASSUME IInv, NEW d \in Devices, TodoOf(d), [Next]_vars, Ends(d)
  PROVE  AllClean(d)
<1>1. DirtyIds(d)' = {} => AllClean(d)
  BY DEF DirtyIds, AllClean
<1>2. proc'[d].at # proc[d].at
  BY DEF Ends
<1>3. CASE Pull(d)
  <2>1. proc[d].at = "pull" /\ DOMAIN proc = Devices
    BY <1>3 DEF Pull, IInv
  <2>2. CASE Finish(d) /\ DirtyIds(d)' = {}
    BY <1>1, <2>2
  <2>3. CASE proc' = [proc EXCEPT ![d].at = "push",
                                  ![d].todo = Restrict(store'[d].recs, DirtyIds(d)'),
                                  ![d].conflicts = FALSE]
    <3>1. DOMAIN proc[d] = {"at", "iter", "todo", "conflicts"}
      BY DEF IInv, DeviceOK, ProcOK
    <3>2. proc'[d].at = "push"
      BY <2>1, <2>3, <3>1
    <3> QED
      BY <3>2 DEF Ends
  <2> QED
    BY <1>3, <2>2, <2>3, PulledNext
<1>4. CASE Push(d)
  <2>1. PICK chunk \in Chunks(d) :
            LET results == Results(chunk)
                todo == Without(proc[d].todo, chunk)
                conflicts == proc[d].conflicts \/ HadConflicts(results)
            IN  /\ Serve(chunk)
                /\ store' = [store EXCEPT ![d] = ApplyResults(@, results)]
                /\ IF todo # NoRecords
                   THEN proc' = [proc EXCEPT ![d].todo = todo, ![d].conflicts = conflicts]
                   ELSE IF conflicts /\ proc[d].iter < MaxIterations
                   THEN proc' = [proc EXCEPT ![d] =
                                    [Ready EXCEPT !.at = "pull", !.iter = proc[d].iter + 1]]
                   ELSE Finish(d)
    BY <1>4 DEF Push
  <2> DEFINE todo == Without(proc[d].todo, chunk)
             conflicts == proc[d].conflicts \/ HadConflicts(Results(chunk))
  <2>2. /\ proc[d].at = "push" /\ UNCHANGED <<idem, nextId, saved>> /\ Serve(chunk)
        /\ store' = [store EXCEPT ![d] = ApplyResults(@, Results(chunk))]
    BY <1>4, <2>1 DEF Push
  <2>3. ASSUME ~conflicts PROVE DirtyIds(d)' \subseteq DOMAIN todo
    <3>1. DirtyIds(d) \subseteq DOMAIN proc[d].todo
      BY <2>2, <2>3 DEF TodoOf
    <3>2. store'[d] = ApplyResults(store[d], Results(chunk))
      BY <2>2 DEF IInv
    <3> QED
      BY <2>3, <3>1, <3>2, ChunkCleans
  <2>4. DOMAIN proc = Devices /\ DOMAIN proc[d] = {"at", "iter", "todo", "conflicts"}
    BY DEF IInv, DeviceOK, ProcOK
  <2>5. CASE proc' = [proc EXCEPT ![d].todo = todo, ![d].conflicts = conflicts]
    <3>1. proc'[d].at = "push"
      BY <2>2, <2>4, <2>5
    <3> QED
      BY <3>1 DEF Ends
  <2>6. CASE proc' = [proc EXCEPT ![d] =
                         [Ready EXCEPT !.at = "pull", !.iter = proc[d].iter + 1]]
    <3>1. proc'[d].at = "pull"
      BY <2>4, <2>6 DEF Ready
    <3> QED
      BY <3>1 DEF Ends
  <2>7. CASE todo = NoRecords /\ ~conflicts
    BY <1>1, <2>3, <2>7, Empty
  <2> QED
    BY <2>1, <2>5, <2>6, <2>7 DEF Ends
<1>5. CASE Refused(d) \/ PushRefused(d) \/ PushLost(d) \/ ReplayLost(d) \/ Crash(d) \/ DeleteExpired
  <2>1. faults' = faults + 1 /\ faults \in Nat
    BY <1>5, SyncerAssumption
       DEF Refused, PushRefused, PushLost, ReplayLost, Unanswered, Crash, DeleteExpired, Fault,
           IInv, UserOK
  <2> QED
    BY <2>1 DEF Ends
<1>6. CASE Replay(d)
  BY <1>6 DEF Replay, Ends
<1>7. CASE UserStep(d)
  BY <1>7 DEF UserStep, Ends
<1>8. CASE UNCHANGED vars
  BY <1>2, <1>8 DEF vars
<1>9. ASSUME NEW e \in Devices, e # d, UserStep(e) \/ SyncStep(e) \/ Crash(e)
      PROVE  AllClean(d)
  <2>1. proc'[d] = proc[d]
    BY <1>9, OnlyItsOwn
  <2> QED
    BY <1>2, <2>1
<1> QED
  BY <1>3, <1>4, <1>5, <1>6, <1>7, <1>8, <1>9 DEF Next, SyncStep, Ends

-------------------------------------------------------------------------------
(* No edit is dropped.                                                     *)

\* Copies have different ids.
LEMMA CopyIdsDiffer ==
  ASSUME NEW d \in Devices, nextId \in Nat, NEW a \in Copied(d), NEW b \in Copied(d),
         CopyId(d, a) = CopyId(d, b)
  PROVE  a = b
<1> DEFINE copied == Copied(d)
           below(id) == {x \in copied : x < id}
<1>1. copied \in SUBSET Ids /\ copied \subseteq Nat
  BY SyncerAssumption DEF Copied, Incoming, Ids
<1>2. /\ CopyId(d, a) = nextId + Cardinality(below(a))
      /\ CopyId(d, b) = nextId + Cardinality(below(b))
  BY DEF CopyId
<1> HIDE DEF copied
<1>3. ASSUME NEW x \in copied, NEW y \in copied, x < y
      PROVE  Cardinality(below(x)) # Cardinality(below(y))
  <2>1. \A z \in copied : z < x => z < y
    BY <1>1, <1>3
  <2>2. ~(x < x)
    BY <1>1
  <2>3. below(x) \in SUBSET below(y) /\ x \in below(y) /\ x \notin below(x)
    BY <1>3, <2>1, <2>2, Zenon
  <2>4. below(y) \in SUBSET Ids
    BY <1>1
  <2> HIDE DEF below
  <2>5. IsFiniteSet(below(y)) /\ below(x) # below(y)
    BY <2>3, <2>4, IdsFinite
  <2> QED
    BY <2>3, <2>5, FS_Subset
<1>4. Cardinality(below(a)) \in Nat /\ Cardinality(below(b)) \in Nat
  BY <1>1, IdsFinite
<1>5. a \in copied /\ b \in copied
  BY DEF copied
<1>6. a < b \/ b < a \/ a = b
  BY <1>1, <1>5
<1> HIDE DEF below
<1>7. Cardinality(below(a)) = Cardinality(below(b))
  <2>1. nextId + Cardinality(below(a)) = nextId + Cardinality(below(b))
    BY <1>2, Zenon
  <2>2. ASSUME NEW n \in Nat, NEW m \in Nat, nextId + n = nextId + m
        PROVE  n = m
    BY <2>2
  <2> QED
    BY <1>4, <2>1, <2>2
<1>8. ~(a < b) /\ ~(b < a)
  <2>1. a < b => Cardinality(below(a)) # Cardinality(below(b))
    BY <1>3, <1>5
  <2>2. b < a => Cardinality(below(b)) # Cardinality(below(a))
    BY <1>3, <1>5
  <2> QED
    BY <1>7, <2>1, <2>2
<1> QED
  BY <1>6, <1>8

\* A pull keeps an edit in its place or in a conflict copy, a delete as a tombstone.
LEMMA PullKeeps ==
  ASSUME IInv, NEW d \in Devices, Pull(d), NEW id \in DirtyIds(d)
  PROVE  KeptIn(store'[d], id, store[d].recs[id])
<1> DEFINE local == store[d].recs[id]
           after == store'[d].recs
<1>1. /\ id \in DOMAIN store[d].recs /\ local.dirty /\ IsStore(store[d]) /\ local \in Stored
      /\ id \in Ids /\ id < nextId
  BY DEF DirtyIds, IInv, DeviceOK, StoreOK, AllGood, IsMap, Good
<1>2. /\ store'[d] = AfterPull(d) /\ CopyIds(d) \subseteq Ids
      /\ nextId' = nextId + Cardinality(Copied(d))
  BY DEF Pull, IInv
<1>3. after = [x \in DOMAIN store[d].recs \union Incoming(d) \union CopyIds(d) |->
                  IF x \in CopyIds(d) THEN CopyAt(d, x)
                  ELSE IF x \in Incoming(d) THEN Merged(d, x)
                  ELSE store[d].recs[x]]
  BY <1>1, <1>2 DEF AfterPull, IsStore
<1>4. nextId \in Nat /\ \A x \in Copied(d) : CopyId(d, x) >= nextId
  BY <1>2, CopyIdsNew
<1>5. id \notin CopyIds(d)
  <2>1. \A x \in Copied(d) : CopyId(d, x) # id
    BY <1>1, <1>2, <1>4 DEF Ids, CopyIds
  <2> QED
    BY <2>1 DEF CopyIds
<1>6. id \in DOMAIN after
      /\ after[id] = IF id \in Incoming(d) THEN Merged(d, id) ELSE local
  BY <1>1, <1>3, <1>5
<1> HIDE DEF after
<1>7. CASE id \notin Incoming(d)
  BY <1>6, <1>7 DEF KeptIn, after
<1>8. CASE id \in Incoming(d) /\ ServerWins(local, rows[id])
  <2>1. after[id] = FromServer(rows[id]) /\ InConflict(d, id)
    BY <1>1, <1>6, <1>8 DEF Merged, InConflict
  <2>2. CASE local.deleted
    <3>1. rows[id].deleted
      BY <1>8, <2>2 DEF ServerWins
    <3>2. after[id].deleted
      BY <2>1, <3>1 DEF FromServer
    <3> QED
      BY <2>2, <3>2 DEF KeptIn, after
  <2>3. CASE ~local.deleted
    <3> DEFINE new == CopyId(d, id)
               from == CHOOSE x \in Copied(d) : CopyId(d, x) = new
    <3>1. id \in Copied(d) /\ new \in CopyIds(d)
      BY <1>8, <2>1 DEF Copied, CopyIds
    <3>2. from \in Copied(d) /\ CopyId(d, from) = new
      BY <3>1
    <3>3. from = id
      BY <1>4, <3>1, <3>2, CopyIdsDiffer
    <3>4. new \in DOMAIN after /\ after[new] = ConflictCopy(d, id)
      BY <1>3, <3>1, <3>3 DEF CopyAt, after
    <3>5. ConflictCopy(d, id) = [local EXCEPT !.base = 0]
      BY <2>3 DEF ConflictCopy, LocalDeleteWins
    <3> HIDE DEF new
    <3>6. ~after[new].deleted /\ after[new].body = local.body
      BY <1>1, <2>3, <3>4, <3>5 DEF Stored
    <3> QED
      BY <2>3, <3>4, <3>6 DEF KeptIn, after
  <2> QED
    BY <2>2, <2>3
<1>9. CASE id \in Incoming(d) /\ ~ServerWins(local, rows[id])
  <2>1. after[id] = [local EXCEPT !.base = rows[id].version]
    BY <1>1, <1>6, <1>9 DEF Merged, InConflict
  <2>2. after[id].deleted = local.deleted /\ after[id].body = local.body
    BY <1>1, <2>1 DEF Stored
  <2> QED
    BY <1>6, <2>2 DEF KeptIn, after
<1> QED
  BY <1>7, <1>8, <1>9

LEMMA StepKeepsEdits ==
  ASSUME IInv, TodoCurrent, [Next]_vars
  PROVE  \A d \in Devices : KeepsEditsAt("pull", d) /\ KeepsEditsAt("push", d)
<1> SUFFICES ASSUME NEW d \in Devices, proc[d].at \in {"pull", "push"}, faults' = faults,
                    NEW id \in DirtyIds(d)
             PROVE  KeptIn(store'[d], id, store[d].recs[id])
  BY DEF KeepsEditsAt
<1>1. id \in DOMAIN store[d].recs
  BY DEF DirtyIds
<1>2. CASE UNCHANGED store[d]
  BY <1>1, <1>2 DEF KeptIn
<1>3. CASE UNCHANGED vars
  BY <1>2, <1>3 DEF vars
<1>4. CASE Pull(d)
  BY <1>4, PullKeeps
<1>5. CASE Push(d)
  <2>1. PICK chunk \in Chunks(d) :
            store' = [store EXCEPT ![d] = ApplyResults(@, Results(chunk))]
    BY <1>5 DEF Push
  <2>2. proc[d].at = "push" /\ TodoOf(d)
    BY <1>5 DEF Push, TodoCurrent
  <2>3. /\ id \in DOMAIN store'[d].recs
        /\ \/ store'[d].recs[id] = store[d].recs[id]
           \/ /\ store'[d].recs[id].deleted = store[d].recs[id].deleted
              /\ store'[d].recs[id].body = store[d].recs[id].body
    BY <1>1, <2>1, <2>2, PushedRecords
  <2> QED
    BY <2>3 DEF KeptIn
<1>6. CASE Refused(d) \/ PushRefused(d) \/ PushLost(d) \/ ReplayLost(d) \/ Crash(d) \/ DeleteExpired
  <2>1. faults' = faults + 1 /\ faults \in Nat
    BY <1>6, SyncerAssumption
       DEF Refused, PushRefused, PushLost, ReplayLost, Unanswered, Crash, DeleteExpired, Fault,
           IInv, UserOK
  <2> QED
    BY <2>1
<1>7. CASE Replay(d) \/ UserStep(d)
  BY <1>7 DEF Replay, UserStep
<1>8. ASSUME NEW e \in Devices, e # d, UserStep(e) \/ SyncStep(e) \/ Crash(e)
      PROVE  UNCHANGED store[d]
  BY <1>8, OnlyItsOwn
<1> QED
  BY <1>2, <1>3, <1>4, <1>5, <1>6, <1>7, <1>8 DEF Next, SyncStep

-------------------------------------------------------------------------------
(* The theorems.                                                           *)

\* Every variable always holds a value of its type.
THEOREM TypeIsOK == Spec => []TypeOK
<1>1. IInv => TypeOK
  BY InvTypeOK
<1> QED BY <1>1, InvHolds, PTL

\* What a device shows as synchronised, in memory and in its file, is a row that the
\* server committed and no newer than the cursor, whatever answers were lost and
\* whenever the process ended (pull, syncer.go:105-127; applyPushResults,
\* syncer.go:211-225).
THEOREM SyncedIsCommitted == Spec => []CleanIsCommitted
<1>1. IInv => CleanIsCommitted
  BY InvClean
<1> QED BY <1>1, InvHolds, PTL

\* No step brings a deleted record of the server back: no update that had not seen
\* the tombstone, no replay, conflict copy or import of an old backup
\* (resolveConflict, syncer.go:141-161; RecordRepository.Upsert,
\* postgres/record.go:34-46).
THEOREM TombstonesAreFinal == Spec => DeletedStaysDeleted
<1>1. IInv /\ [Next]_vars => [Final]_vars
  BY StepKeepsTombstones
<1> QED BY <1>1, InvHolds, PTL DEF Spec, DeletedStaysDeleted, Final

\* A sync that ends before its last round, and not by a fault, leaves nothing unsent:
\* a push with no conflict has sent all there was, and with one it pulls again
\* (Syncer.sync, syncer.go:80-99).
THEOREM SyncLeavesNothing == Spec => SyncEndsClean
<1>1. IInv /\ TodoCurrent /\ [Next]_vars =>
          [\A d \in Devices : Ends(d) => AllClean(d)]_vars
  BY StepEndsClean DEF TodoCurrent
<1> QED BY <1>1, InvHolds, TodoHolds, PTL DEF Spec, SyncEndsClean, Ends, AllClean

\* A pull and the push after it never drop what the user did: an edit stays, is
\* accepted or becomes a conflict copy, a delete stays one (resolveConflict,
\* syncer.go:141-161; applyPushResults, syncer.go:211-225).
THEOREM SyncDropsNothing == Spec => SyncKeepsEdits
<1>1. IInv /\ TodoCurrent /\ [Next]_vars =>
          [\A d \in Devices : KeepsEditsAt("pull", d) /\ KeepsEditsAt("push", d)]_vars
  BY StepKeepsEdits
<1> QED BY <1>1, InvHolds, TodoHolds, PTL DEF Spec, SyncKeepsEdits
===============================================================================
