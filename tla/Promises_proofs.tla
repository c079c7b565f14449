---------------------------- MODULE Promises_proofs ----------------------------
(***************************************************************************)
(* What Syncer promises the user of several devices, for every number      *)
(* of devices, records, edits and faults.                                   *)
(*                                                                         *)
(* LostOnlyToEdits, where no device is killed: what the server has accepted  *)
(* is never lost but to an edit that wins over it by its clock.  The         *)
(* argument follows a content from holder to holder.  A row that is          *)
(* replaced hands it to the row that replaces it, or the delete that         *)
(* replaces it has put it into a conflict copy, which has a larger id; so     *)
(* the holder with the largest id can be replaced only by one that keeps     *)
(* the content, or by an edit.  A kill can take a conflict copy from the     *)
(* device before it was sent.                                               *)
(*                                                                         *)
(* ImplementsReplicas, with kills: every step changes records in a way that  *)
(* Replicas lists.  The argument, in the second part, needs that what is     *)
(* recorded of a batch speaks only of the records the batch still names, in  *)
(* every memory and every file.                                             *)
(*                                                                         *)
(* SyncedDevicesAgree and BehindForAReason, with kills: what a device that is *)
(* at rest holds, and how it can fall behind.  The third part needs that a   *)
(* recorded answer is newer than all its device has received.               *)
(***************************************************************************)
EXTENDS Syncer_proofs

-------------------------------------------------------------------------------
(* The invariant.                                                          *)

\* A recorded answer that the device is still to get says that its record was
\* applied: the row has what the record had, and the record will be replaced by it.
Told(d, id) ==
    \E i \in DOMAIN store[d].pending : id \in AppliedIn(idem[store[d].pending[i].key])

\* Every version of record id has the content, on the devices, in the backup and of
\* those committed: so will any that an edit, a merge or an import makes of them.
Everywhere(body, id) ==
    /\ \A d \in Devices : id \in DOMAIN store[d].recs => body \subseteq store[d].recs[id].body
    /\ id \in DOMAIN bundle => body \subseteq bundle[id].body
    /\ \A c \in commits : c.id = id => body \subseteq c.row.body

\* Record id of d has the content and will be sent.
Holds(d, id, body) ==
    /\ id \in DOMAIN store[d].recs
    /\ store[d].recs[id].dirty
    /\ ~Told(d, id)
    /\ Everywhere(body, id)

HeldAt(body, id) ==
    body \subseteq rows[id].body \/ \E d \in Devices : Holds(d, id, body)

HeldAbove(body, n) == \E id \in Ids : id > n /\ HeldAt(body, id)

\* The loss that LostOnlyToEdits admits.
LostIn(log, body) ==
    \E c1, c2 \in log :
        /\ body \subseteq c1.row.body
        /\ Overwrites(c2, c1)
        /\ c1.row.deleted \/ ~c2.row.deleted

Safe(body, n) == LostIn(commits, body) \/ HeldAbove(body, n)

\* A record has all of the version it was taken from.
Includes(log, id, rec) ==
    \A c \in log : c.id = id /\ c.row.version = rec.version => c.row.body \subseteq rec.body

\* What a delete is about to replace is in the deleted record or held by a record
\* with a larger id: its conflict copy, or what became of it.
DeleteIsSafe(id, rec) ==
    rec.deleted =>
        \A c \in commits :
            c.id = id /\ c.row.version = rec.base /\ ~c.row.deleted
            => c.row.body \subseteq rec.body \/ Safe(c.row.body, id)

RecordsSafe ==
    \A d \in Devices : \A id \in DOMAIN store[d].recs :
        /\ Includes(commits, id, store[d].recs[id])
        /\ DeleteIsSafe(id, store[d].recs[id])

CommitsSafe == \A c \in commits : Safe(c.row.body, 0)

\* The backup has no tombstones, and its records are as whole as those of a device.
BundleSafe ==
    \A id \in DOMAIN bundle : Includes(commits, id, bundle[id]) /\ ~bundle[id].deleted

\* Every batch has its own key; a pull and a push find nothing pending; a replay
\* sends what the store holds.
KeysDiffer ==
    \A d, e \in Devices : \A i \in DOMAIN store[d].pending : \A j \in DOMAIN store[e].pending :
        store[d].pending[i].key = store[e].pending[j].key => d = e /\ i = j

Fresh(d) ==
    /\ proc[d].at \in {"pull", "push"} => store[d].pending = <<>>
    /\ proc[d].at = "replay" =>
           \A id \in DOMAIN proc[d].todo :
               id \in DOMAIN store[d].recs /\ store[d].recs[id] = proc[d].todo[id]

PendingInv == KeysDiffer /\ \A d \in Devices : Fresh(d)

LossInv == RecordsSafe /\ CommitsSafe /\ BundleSafe

-------------------------------------------------------------------------------
(* A content keeps a holder.                                               *)

LEMMA LostStays ==
  ASSUME NEW log, NEW log2, log \subseteq log2, NEW body, LostIn(log, body)
  PROVE  LostIn(log2, body)
  BY DEF LostIn

LEMMA LostPart ==
  ASSUME NEW log, NEW part, NEW body, part \subseteq body, LostIn(log, body)
  PROVE  LostIn(log, part)
  BY DEF LostIn

LEMMA SafePart ==
  ASSUME NEW part, NEW body, part \subseteq body, NEW n, Safe(body, n)
  PROVE  Safe(part, n)
<1>1. \A id \in Ids : HeldAt(body, id) => HeldAt(part, id)
  BY DEF HeldAt, Holds, Everywhere
<1> QED
  BY <1>1, LostPart DEF Safe, HeldAbove

\* If each holder hands the content on to one that is not smaller, or a larger one
\* has it already, there is a holder after the step: the largest one's heir.
LEMMA SafeStays ==
  ASSUME commits \subseteq commits',
         ASSUME NEW body, NEW id \in Ids, HeldAt(body, id)
         PROVE  \/ Safe(body, id)
                \/ LostIn(commits', body)
                \/ \E x \in Ids : x >= id /\ HeldAt(body, x)'
  PROVE  \A body : \A n \in Nat : Safe(body, n) => Safe(body, n)'
<1> SUFFICES ASSUME NEW body, NEW n \in Nat, HeldAbove(body, n), ~LostIn(commits', body)
             PROVE  HeldAbove(body, n)'
  BY LostStays DEF Safe
<1> DEFINE holders == {id \in Ids : id > n /\ HeldAt(body, id)}
<1>1. holders \in SUBSET Nat /\ holders # {} /\ \A id \in holders : id <= MaxIds
  BY SyncerAssumption DEF HeldAbove, Ids
<1>2. PICK last \in holders : \A id \in holders : id <= last
  <2> HIDE DEF holders
  <2> QED
    BY <1>1, SyncerAssumption, Largest
<1>3. last \in Ids /\ last \in Nat /\ last > n /\ HeldAt(body, last)
  BY <1>1, <1>2
<1>4. ~Safe(body, last)
  <2>1. ~LostIn(commits, body)
    BY LostStays
  <2>2. ~HeldAbove(body, last)
    <3> SUFFICES ASSUME NEW id \in Ids, id > last, HeldAt(body, id)
                 PROVE  FALSE
      BY DEF HeldAbove
    <3>1. id \in Nat /\ id > n
      BY <1>3, SyncerAssumption DEF Ids
    <3> QED
      BY <1>2, <1>3, <3>1
  <2> QED
    BY <2>1, <2>2 DEF Safe
<1>5. PICK x \in Ids : x >= last /\ HeldAt(body, x)'
  BY <1>3, <1>4
<1>6. x > n
  BY <1>3, <1>5, SyncerAssumption DEF Ids
<1> QED
  BY <1>5, <1>6 DEF HeldAbove

\* A record no step changes stays safe: new commits have versions it has not seen.
LEMMA IncludesStays ==
  ASSUME NEW log, NEW top, NEW free, NEW log2, NEW top2, NEW free2,
         Grows(log, top, free, log2, top2, free2),
         NEW id, NEW rec \in Stored, rec.version <= top, Includes(log, id, rec)
  PROVE  Includes(log2, id, rec)
  BY DEF Includes, Grows, Row, Stored

LEMMA DeleteStaysSafe ==
  ASSUME GrowsNow, \A body : \A n \in Nat : Safe(body, n) => Safe(body, n)',
         NEW id \in Ids, NEW rec \in Stored, rec.base <= seq, DeleteIsSafe(id, rec)
  PROVE  DeleteIsSafe(id, rec)'
<1> SUFFICES ASSUME rec.deleted, NEW c \in commits', c.id = id, c.row.version = rec.base,
                    ~c.row.deleted
             PROVE  c.row.body \subseteq rec.body \/ Safe(c.row.body, id)'
  BY DEF DeleteIsSafe
<1>1. c \in commits
  BY DEF GrowsNow, Grows, Row, Stored
<1>2. c.row.body \subseteq rec.body \/ Safe(c.row.body, id)
  BY <1>1 DEF DeleteIsSafe
<1>3. id \in Nat
  BY SyncerAssumption DEF Ids
<1>4. PICK body : body = c.row.body
  OBVIOUS
<1>5. CASE body \subseteq rec.body
  BY <1>4, <1>5
<1>6. CASE Safe(body, id)
  <2>1. Safe(body, id)'
    BY <1>3, <1>6
  <2> QED
    BY <1>4, <2>1 DEF Safe, HeldAbove, HeldAt, Holds, Told, Everywhere
<1> QED
  BY <1>2, <1>4, <1>5, <1>6

\* A copy of a committed row has no base a commit could have.
LEMMA FromServerSafe ==
  ASSUME NEW log, NEW top, NEW free, LogOK(log, top, free),
         NEW id \in Ids, NEW row \in Row, Committed(log, id, row)
  PROVE  /\ Includes(log, id, FromServer(row))
         /\ \A c \in log : c.row.version # FromServer(row).base
<1>1. PICK c \in log : c.id = id /\ c.row = row
  BY DEF Committed
<1>2. FromServer(row).version = row.version /\ FromServer(row).body = row.body
      /\ FromServer(row).base = 0
  BY DEF FromServer
<1>3. \A c1 \in log : c1.row.version = row.version => c1.row = row
  BY <1>1 DEF LogOK
<1>4. \A c1 \in log : c1.row.version # 0
  BY DEF LogOK
<1> QED
  BY <1>2, <1>3, <1>4 DEF Includes

SafeGoesOn == \A body : \A n \in Nat : Safe(body, n) => Safe(body, n)'

\* What is left to show of a step: what it commits is in a row, and the records it
\* changes are safe.
LEMMA LossStep ==
  ASSUME IInv, IInv', LossInv, GrowsNow, SafeGoesOn, BundleSafe',
         \A c \in commits' \ commits : \E id \in Ids : c.row.body \subseteq rows'[id].body,
         \A d \in Devices : \A id \in DOMAIN store'[d].recs : \A rec :
             rec = store'[d].recs[id] =>
                 \/ id \in DOMAIN store[d].recs /\ rec = store[d].recs[id]
                 \/ Includes(commits', id, rec) /\ DeleteIsSafe(id, rec)'
  PROVE  LossInv'
<1>1. CommitsSafe'
  <2> SUFFICES ASSUME NEW c \in commits'
               PROVE  Safe(c.row.body, 0)'
    BY DEF CommitsSafe, Safe, HeldAbove, HeldAt, Holds, Told, Everywhere
  <2>1. CASE c \in commits
    <3>1. PICK body : body = c.row.body
      OBVIOUS
    <3>2. Safe(body, 0)
      BY <2>1, <3>1 DEF LossInv, CommitsSafe
    <3>3. Safe(body, 0)'
      BY <3>2 DEF SafeGoesOn
    <3> QED
      BY <3>1, <3>3 DEF Safe, HeldAbove, HeldAt, Holds, Told, Everywhere
  <2>2. CASE c \notin commits
    <3>1. PICK id \in Ids : c.row.body \subseteq rows'[id].body
      BY <2>2
    <3>2. id > 0
      BY DEF Ids
    <3> QED
      BY <3>1, <3>2 DEF Safe, HeldAbove, HeldAt
  <2> QED
    BY <2>1, <2>2
<1>2. RecordsSafe'
  <2> SUFFICES ASSUME NEW d \in Devices, NEW id \in DOMAIN store'[d].recs,
                      NEW rec, rec = store'[d].recs[id]
               PROVE  Includes(commits', id, rec) /\ DeleteIsSafe(id, rec)'
    BY DEF RecordsSafe, DeleteIsSafe
  <2>1. CASE id \in DOMAIN store[d].recs /\ rec = store[d].recs[id]
    <3>1. Includes(commits, id, rec) /\ DeleteIsSafe(id, rec)
      BY <2>1 DEF LossInv, RecordsSafe, DeleteIsSafe
    <3>2. rec \in Stored /\ id \in Ids /\ rec.version <= seq /\ rec.base <= seq
      BY <2>1 DEF IInv, DeviceOK, StoreOK, AllGood, IsMap, Good
    <3> QED
      BY <3>1, <3>2, IncludesStays, DeleteStaysSafe DEF SafeGoesOn, GrowsNow
  <2> QED
    BY <2>1
<1> QED
  BY <1>1, <1>2 DEF LossInv

LEMMA BundleStays ==
  ASSUME IInv, BundleSafe, GrowsNow, UNCHANGED bundle
  PROVE  BundleSafe'
<1>1. \A id \in DOMAIN bundle : bundle[id] \in Stored /\ bundle[id].version <= seq
  BY DEF IInv, UserOK, AllGood, IsMap, Good
<1>2. \A id \in DOMAIN bundle : Includes(commits', id, bundle[id])
  BY <1>1, IncludesStays DEF BundleSafe, GrowsNow
<1> QED
  BY <1>2 DEF BundleSafe

\* What every version of a record has, every later one has.
WholeGoesOn ==
    \A id \in Ids : \A body : id < nextId /\ Everywhere(body, id) => Everywhere(body, id)'

\* Each version that a step makes is made of an earlier one, or is of a new record.
LEMMA WholeStays ==
  ASSUME \A c \in commits' \ commits : \E d \in Devices :
             c.id \in DOMAIN store[d].recs /\ store[d].recs[c.id].body \subseteq c.row.body,
         \A d \in Devices : \A id \in DOMAIN store'[d].recs :
             \/ ~(id < nextId)
             \/ \E e \in Devices :
                    /\ id \in DOMAIN store[e].recs
                    /\ store[e].recs[id].body \subseteq store'[d].recs[id].body
             \/ \E c \in commits' :
                    c.id = id /\ c.row.body \subseteq store'[d].recs[id].body
             \/ id \in DOMAIN bundle /\ bundle[id].body \subseteq store'[d].recs[id].body,
         \A id \in DOMAIN bundle' :
             \/ id \in DOMAIN bundle /\ bundle'[id] = bundle[id]
             \/ \E d \in Devices : id \in DOMAIN store[d].recs /\ bundle'[id] = store[d].recs[id]
  PROVE  WholeGoesOn
<1> SUFFICES ASSUME NEW id \in Ids, NEW body, id < nextId, Everywhere(body, id)
             PROVE  Everywhere(body, id)'
  BY DEF WholeGoesOn
<1>1. \A c \in commits' : c.id = id => body \subseteq c.row.body
  BY DEF Everywhere
<1>2. \A d \in Devices :
          id \in DOMAIN store'[d].recs => body \subseteq store'[d].recs[id].body
  BY <1>1 DEF Everywhere
<1>3. id \in DOMAIN bundle' => body \subseteq bundle'[id].body
  BY DEF Everywhere
<1> QED
  BY <1>1, <1>2, <1>3 DEF Everywhere

\* A new record has one version.
LEMMA NewIsWhole ==
  ASSUME IInv, NEW d \in Devices, NEW id \in Ids, id >= nextId, NEW body,
         UNCHANGED <<commits, bundle>>, \A e \in Devices \ {d} : store'[e] = store[e],
         body \subseteq store'[d].recs[id].body
  PROVE  Everywhere(body, id)'
<1>1. id \in Nat /\ nextId \in Nat
  BY SyncerAssumption DEF Ids, IInv, ServerOK
<1>2. \A e \in Devices : id \notin DOMAIN store[e].recs
  BY <1>1 DEF IInv, DeviceOK, StoreOK, AllGood, Good
<1>3. id \notin DOMAIN bundle
  BY <1>1 DEF IInv, UserOK, AllGood, Good
<1>4. \A c \in commits : c.id # id
  BY <1>1 DEF IInv, ServerOK, LogOK
<1> QED
  BY <1>2, <1>3, <1>4 DEF Everywhere

LEMMA HeldIsOld ==
  ASSUME IInv, NEW d \in Devices, NEW id, NEW body, Holds(d, id, body)
  PROVE  /\ id \in Ids /\ id < nextId
         /\ body \subseteq store[d].recs[id].body
  BY DEF Holds, Everywhere, IInv, DeviceOK, StoreOK, AllGood, IsMap, Good

-------------------------------------------------------------------------------
(* A batch meets the server.                                               *)

\* What d sends is what it has.
Sends(d, batch) ==
    \A id \in DOMAIN batch : id \in DOMAIN store[d].recs /\ batch[id] = store[d].recs[id]

\* What a row held before it was replaced.
LEMMA ServedRow ==
  ASSUME IInv, RecordsSafe, NEW d \in Devices, NEW batch, Sends(d, batch),
         Serve(batch), GrowsNow, LogOK(commits', seq', nextId'),
         NEW id \in Ids, NEW body, body \subseteq rows[id].body
  PROVE  \/ Safe(body, id)
         \/ LostIn(commits', body)
         \/ body \subseteq rows'[id].body
<1>1. rows'[id] = IF id \in Applicable(batch)
                  THEN [version |-> VersionFor(Applicable(batch), id),
                        deleted |-> batch[id].deleted, body |-> batch[id].body]
                  ELSE rows[id]
  BY DEF Serve, RowsAfter
<1>2. CASE id \notin Applicable(batch)
  BY <1>1, <1>2
<1>3. CASE rows[id] = NoRow
  BY <1>3 DEF NoRow
<1>4. CASE id \in Applicable(batch) /\ rows[id] # NoRow
  <2> DEFINE c2 == [id |-> id, base |-> batch[id].base, row |-> rows'[id]]
  <2>1. PICK c1 \in commits : c1.id = id /\ c1.row = rows[id]
    BY <1>4 DEF IInv, ServerOK, RowsOK, Committed
  <2>2. rows[id].version # 0
    BY <2>1 DEF IInv, ServerOK, LogOK
  <2>3. /\ id \in DOMAIN batch /\ batch[id].base = c1.row.version
        /\ id \in DOMAIN store[d].recs /\ batch[id] = store[d].recs[id]
    BY <1>4, <2>1, <2>2 DEF Applicable, Sends
  <2>4. /\ c1 \in commits' /\ c2 \in commits'
        /\ rows'[id].deleted = batch[id].deleted /\ rows'[id].body = batch[id].body
    BY <1>1, <1>4 DEF Serve
  <2>5. CASE c1.row.body \subseteq batch[id].body
    BY <2>1, <2>4, <2>5
  <2>6. CASE ~(c1.row.body \subseteq batch[id].body) /\ (c1.row.deleted \/ ~batch[id].deleted)
    BY <2>1, <2>3, <2>4, <2>6 DEF LostIn, Overwrites
  <2>7. CASE ~(c1.row.body \subseteq batch[id].body) /\ ~c1.row.deleted /\ batch[id].deleted
    <3>1. DeleteIsSafe(id, batch[id])
      BY <2>3 DEF RecordsSafe
    <3>2. Safe(c1.row.body, id)
      BY <2>1, <2>3, <2>7, <3>1 DEF DeleteIsSafe
    <3> QED
      BY <2>1, <3>2, SafePart
  <2> QED
    BY <2>5, <2>6, <2>7
<1> QED
  BY <1>2, <1>3, <1>4

\* What a step in which a batch of d meets the server does to the records of d: each
\* that held something was applied or goes on to hold it, and those it changes are
\* copies of committed rows.
Exchanged(d, batch) ==
    /\ \A id \in DOMAIN store[d].recs :
           store[d].recs[id].dirty /\ ~Told(d, id) =>
               \/ id \in Applicable(batch)
               \/ /\ id \in DOMAIN store'[d].recs
                  /\ store'[d].recs[id] = store[d].recs[id]
                  /\ ~Told(d, id)'
    /\ \A id \in DOMAIN store'[d].recs :
           \/ id \in DOMAIN store[d].recs /\ store'[d].recs[id] = store[d].recs[id]
           \/ \E row \in Row : /\ Committed(commits', id, row)
                               /\ store'[d].recs[id] = FromServer(row)

\* The other devices keep what they have.
Apart(d) ==
    \A e \in Devices \ {d} : store'[e] = store[e] /\ \A id : Told(e, id)' => Told(e, id)

LEMMA ExchangeSafe ==
  ASSUME IInv, IInv', LossInv, GrowsNow, NEW d \in Devices, NEW batch, UNCHANGED bundle,
         Sends(d, batch), Serve(batch), Exchanged(d, batch), Apart(d)
  PROVE  LossInv'
<1>1. LogOK(commits', seq', nextId') /\ commits \subseteq commits'
  BY DEF IInv, ServerOK, GrowsNow, Grows
<1>2. /\ DOMAIN batch \subseteq Ids
      /\ \A id \in Applicable(batch) :
             id \in Ids /\ id \in DOMAIN store[d].recs /\ rows'[id].body = store[d].recs[id].body
  <2>1. DOMAIN batch \subseteq Ids
    BY DEF Sends, IInv, DeviceOK, StoreOK, IsStore, IsMap
  <2> QED
    BY <2>1 DEF Applicable, Sends, Serve, RowsAfter
<1>3. WholeGoesOn
  <2>1. \A c \in commits' \ commits :
            c.id \in DOMAIN store[d].recs /\ store[d].recs[c.id].body \subseteq c.row.body
    BY <1>2 DEF Serve
  <2>2. ASSUME NEW e \in Devices, NEW id \in DOMAIN store'[e].recs
        PROVE  \/ id \in DOMAIN store[e].recs /\ store'[e].recs[id] = store[e].recs[id]
               \/ \E c \in commits' : c.id = id /\ c.row.body \subseteq store'[e].recs[id].body
    <3>1. CASE e # d
      BY <2>2, <3>1 DEF Apart
    <3>2. ASSUME NEW row \in Row, Committed(commits', id, row),
                 store'[e].recs[id] = FromServer(row)
          PROVE  \E c \in commits' : c.id = id /\ c.row.body \subseteq store'[e].recs[id].body
      BY <3>2 DEF Committed, FromServer
    <3> QED
      BY <2>2, <3>1, <3>2 DEF Exchanged
  <2> QED
    BY <2>1, <2>2, WholeStays
<1>4. ASSUME NEW body, NEW id \in Ids, HeldAt(body, id)
      PROVE  \/ Safe(body, id)
             \/ LostIn(commits', body)
             \/ \E x \in Ids : x >= id /\ HeldAt(body, x)'
  <2>1. id >= id
    BY DEF Ids
  <2>2. SUFFICES ASSUME ~Safe(body, id), ~LostIn(commits', body)
                 PROVE  HeldAt(body, id)'
    BY <2>1
  <2>3. CASE body \subseteq rows[id].body
    <3>1. body \subseteq rows'[id].body
      BY <1>1, <2>2, <2>3, ServedRow DEF LossInv
    <3> QED
      BY <3>1 DEF HeldAt
  <2>4. CASE Holds(d, id, body)
    <3>1. CASE id \in Applicable(batch)
      BY <1>2, <2>4, <3>1, HeldIsOld DEF HeldAt
    <3>2. CASE id \notin Applicable(batch)
      <4>1. Everywhere(body, id)'
        BY <1>3, <2>4, HeldIsOld DEF Holds, WholeGoesOn
      <4> QED
        BY <2>4, <3>2, <4>1 DEF Holds, HeldAt, Exchanged
    <3> QED
      BY <3>1, <3>2
  <2>5. ASSUME NEW e \in Devices \ {d}, Holds(e, id, body)
        PROVE  HeldAt(body, id)'
    <3>1. Everywhere(body, id)'
      BY <1>3, <2>5, HeldIsOld DEF Holds, WholeGoesOn
    <3> QED
      BY <2>5, <3>1 DEF Holds, HeldAt, Apart
  <2> QED
    BY <1>4, <2>3, <2>4, <2>5 DEF HeldAt
<1>5. SafeGoesOn
  BY <1>1, <1>4, SafeStays DEF SafeGoesOn
<1>6. \A c \in commits' \ commits : \E id \in Ids : c.row.body \subseteq rows'[id].body
  BY <1>2 DEF Serve
<1>7. ASSUME NEW e \in Devices, NEW id \in DOMAIN store'[e].recs,
             NEW rec, rec = store'[e].recs[id],
             ~(id \in DOMAIN store[e].recs /\ rec = store[e].recs[id])
      PROVE  Includes(commits', id, rec) /\ DeleteIsSafe(id, rec)'
  <2>1. e = d
    BY <1>7 DEF Apart
  <2>2. PICK row \in Row : Committed(commits', id, row) /\ rec = FromServer(row)
    BY <1>7, <2>1 DEF Exchanged
  <2>3. id \in Ids
    BY <1>7 DEF IInv, DeviceOK, StoreOK, IsStore, IsMap
  <2>4. Includes(commits', id, rec) /\ \A c \in commits' : c.row.version # rec.base
    BY <1>1, <2>2, <2>3, FromServerSafe
  <2> QED
    BY <2>4 DEF DeleteIsSafe
<1> QED
  BY <1>5, <1>6, <1>7, BundleStays, LossStep DEF LossInv

-------------------------------------------------------------------------------
(* Edits of the user.                                                      *)

\* Where nothing reaches the server, it is enough that what is to be sent stays so.
LEMMA StillHeld ==
  ASSUME IInv, UNCHANGED <<rows, commits>>, WholeGoesOn,
         \A d \in Devices : \A id \in DOMAIN store[d].recs :
             store[d].recs[id].dirty /\ ~Told(d, id) =>
                 /\ id \in DOMAIN store'[d].recs
                 /\ store'[d].recs[id].dirty
                 /\ ~Told(d, id)'
  PROVE  SafeGoesOn
<1>1. ASSUME NEW body, NEW id \in Ids, HeldAt(body, id)
      PROVE  id >= id /\ HeldAt(body, id)'
  <2>1. id >= id
    BY DEF Ids
  <2>2. CASE body \subseteq rows[id].body
    BY <2>1, <2>2 DEF HeldAt
  <2>3. ASSUME NEW d \in Devices, Holds(d, id, body)
        PROVE  HeldAt(body, id)'
    <3>1. Everywhere(body, id)'
      BY <2>3, HeldIsOld DEF Holds, WholeGoesOn
    <3> QED
      BY <2>3, <3>1 DEF Holds, HeldAt
  <2> QED
    BY <1>1, <2>1, <2>2, <2>3 DEF HeldAt
<1> QED
  BY <1>1, SafeStays DEF SafeGoesOn

\* An edit adds to what its author had in front of him, and is based on it.
LEMMA EditSafe ==
  ASSUME IInv, IInv', LossInv, NEW d \in Devices, NEW id \in Ids, NEW rec,
         Edit(d, id, rec), nextId <= nextId', rec.dirty, rec.base = rec.version,
         IF id \in DOMAIN store[d].recs
         THEN store[d].recs[id].body \subseteq rec.body
         ELSE id = nextId,
         Includes(commits, id, rec)
  PROVE  LossInv'
<1>1. UNCHANGED <<rows, seq, idem, commits, bundle>>
  BY DEF Edit, serverVars
<1>2. /\ store'[d].recs = PutRecord(store[d].recs, id, rec)
      /\ store'[d].pending = store[d].pending
      /\ \A e \in Devices \ {d} : store'[e] = store[e]
  BY DEF Edit, IInv, DeviceOK, StoreOK, IsStore
<1>3. /\ id \in DOMAIN store'[d].recs /\ store'[d].recs[id] = rec
      /\ \A x \in DOMAIN store[d].recs \ {id} :
             x \in DOMAIN store'[d].recs /\ store'[d].recs[x] = store[d].recs[x]
      /\ \A x \in DOMAIN store'[d].recs : x # id => x \in DOMAIN store[d].recs
  BY <1>2 DEF PutRecord
<1>4. GrowsNow
  BY <1>1, SyncerAssumption DEF GrowsNow, Grows, IInv, ServerOK, LogOK
<1>5. WholeGoesOn
  <2>1. ASSUME NEW e \in Devices, NEW x \in DOMAIN store'[e].recs
        PROVE  \/ ~(x < nextId)
               \/ /\ x \in DOMAIN store[e].recs
                  /\ store[e].recs[x].body \subseteq store'[e].recs[x].body
    <3>1. CASE e = d /\ x = id /\ id \notin DOMAIN store[d].recs
      BY <3>1, SyncerAssumption DEF Ids
    <3>2. CASE ~(e = d /\ x = id /\ id \notin DOMAIN store[d].recs)
      BY <1>2, <1>3, <2>1, <3>2
    <3> QED
      BY <3>1, <3>2
  <2>2. \A x \in DOMAIN bundle' : x \in DOMAIN bundle /\ bundle'[x] = bundle[x]
    BY <1>1
  <2> QED
    BY <1>1, <2>1, <2>2, WholeStays
<1>6. ASSUME NEW e \in Devices, NEW x \in DOMAIN store[e].recs,
             store[e].recs[x].dirty, ~Told(e, x)
      PROVE  x \in DOMAIN store'[e].recs /\ store'[e].recs[x].dirty /\ ~Told(e, x)'
  <2>1. ~Told(e, x)'
    BY <1>1, <1>2, <1>6 DEF Told
  <2>2. CASE e = d
    BY <1>3, <1>6, <2>1, <2>2
  <2>3. CASE e # d
    BY <1>2, <1>6, <2>1, <2>3
  <2> QED
    BY <2>2, <2>3
<1>7. SafeGoesOn
  BY <1>1, <1>5, <1>6, StillHeld
<1>8. Includes(commits', id, rec) /\ DeleteIsSafe(id, rec)'
  BY <1>1 DEF Includes, DeleteIsSafe
<1>9. ASSUME NEW e \in Devices, NEW x \in DOMAIN store'[e].recs,
             NEW r, r = store'[e].recs[x]
      PROVE  \/ x \in DOMAIN store[e].recs /\ r = store[e].recs[x]
             \/ Includes(commits', x, r) /\ DeleteIsSafe(x, r)'
  <2>1. CASE e = d /\ x = id
    <3>1. r = rec
      BY <1>3, <1>9, <2>1
    <3> QED
      BY <1>8, <2>1, <3>1 DEF DeleteIsSafe
  <2>2. CASE e # d \/ x # id
    BY <1>2, <1>3, <1>9, <2>2
  <2> QED
    BY <2>1, <2>2
<1> QED
  BY <1>1, <1>4, <1>7, <1>9, BundleStays, LossStep DEF LossInv

LEMMA CreateSafe ==
  ASSUME IInv, IInv', LossInv, NEW d \in Devices, Create(d)
  PROVE  LossInv'
<1> DEFINE rec == [version |-> 0, base |-> 0, deleted |-> FALSE, body |-> {edits + 1},
                   dirty |-> TRUE, dirtyAt |-> Now(d)]
<1>1. /\ nextId \in Ids /\ nextId' = nextId + 1 /\ Edit(d, nextId, rec)
      /\ rec.dirty /\ rec.base = rec.version
  BY DEF Create
<1>2. nextId \notin DOMAIN store[d].recs
  BY <1>1 DEF IInv, DeviceOK, StoreOK, AllGood, Good, Ids
<1>3. \A c \in commits : c.id # nextId
  BY <1>1 DEF IInv, ServerOK, LogOK, Ids
<1>4. nextId <= nextId'
  BY <1>1 DEF Ids
<1> HIDE DEF rec
<1>5. Includes(commits, nextId, rec)
  BY <1>3 DEF Includes
<1> QED
  BY <1>1, <1>2, <1>4, <1>5, EditSafe

\* Update and Delete leave the version, and add to the body or leave it.
LEMMA ChangeSafe ==
  ASSUME IInv, IInv', LossInv, NEW d \in Devices, NEW id \in DOMAIN store[d].recs, NEW rec,
         Edit(d, id, rec), UNCHANGED nextId, rec.dirty, rec.base = rec.version,
         rec.version = store[d].recs[id].version, store[d].recs[id].body \subseteq rec.body
  PROVE  LossInv'
<1>1. id \in Ids /\ nextId \in Nat
  BY SyncerAssumption DEF IInv, DeviceOK, StoreOK, IsStore, IsMap, ServerOK
<1>2. Includes(commits, id, store[d].recs[id])
  BY DEF LossInv, RecordsSafe
<1>3. Includes(commits, id, rec)
  BY <1>2 DEF Includes
<1>4. nextId <= nextId'
  BY <1>1
<1> QED
  BY <1>1, <1>3, <1>4, EditSafe

LEMMA UpdateSafe ==
  ASSUME IInv, IInv', LossInv, NEW d \in Devices, NEW id,
         id \in DOMAIN store[d].recs, Update(d, id, store[d].recs[id].body)
  PROVE  LossInv'
<1> DEFINE old == store[d].recs[id]
           rec == [old EXCEPT !.body = old.body \union {edits + 1}, !.base = old.version,
                              !.dirty = TRUE, !.dirtyAt = Now(d)]
<1>1. Edit(d, id, rec) /\ UNCHANGED nextId
  BY DEF Update
<1>2. old \in Stored
  BY DEF IInv, DeviceOK, StoreOK, IsStore, IsMap
<1>3. /\ rec.dirty /\ rec.base = rec.version /\ rec.version = old.version
      /\ old.body \subseteq rec.body
  <2> HIDE DEF old
  <2> QED
    BY <1>2 DEF Stored
<1> HIDE DEF rec
<1> QED
  BY <1>1, <1>3, ChangeSafe

LEMMA DeleteSafe ==
  ASSUME IInv, IInv', LossInv, NEW d \in Devices, NEW id, Delete(d, id)
  PROVE  LossInv'
<1> DEFINE old == store[d].recs[id]
           rec == [old EXCEPT !.deleted = TRUE, !.base = old.version,
                              !.dirty = TRUE, !.dirtyAt = Now(d)]
<1>1. id \in DOMAIN store[d].recs /\ Edit(d, id, rec) /\ UNCHANGED nextId
  BY DEF Delete
<1>2. old \in Stored
  BY <1>1 DEF IInv, DeviceOK, StoreOK, IsStore, IsMap
<1>3. /\ rec.dirty /\ rec.base = rec.version /\ rec.version = old.version
      /\ old.body \subseteq rec.body
  <2> HIDE DEF old
  <2> QED
    BY <1>2 DEF Stored
<1> HIDE DEF rec
<1> QED
  BY <1>1, <1>3, ChangeSafe

\* A backup has what the device had, without the tombstones.
LEMMA ExportSafe ==
  ASSUME IInv, IInv', LossInv, NEW d \in Devices, Export(d)
  PROVE  LossInv'
<1>1. /\ UNCHANGED <<rows, seq, idem, commits, store, nextId>>
      /\ \A id \in DOMAIN bundle' : /\ id \in DOMAIN store[d].recs
                                    /\ bundle'[id] = store[d].recs[id]
                                    /\ ~store[d].recs[id].deleted
  BY DEF Export, serverVars
<1>2. GrowsNow
  BY <1>1, SyncerAssumption DEF GrowsNow, Grows, IInv, ServerOK, LogOK
<1>3. WholeGoesOn
  BY <1>1, WholeStays
<1>4. SafeGoesOn
  BY <1>1, <1>3, StillHeld DEF Told
<1>5. BundleSafe'
  BY <1>1 DEF LossInv, RecordsSafe, BundleSafe, Includes
<1> QED
  BY <1>1, <1>2, <1>4, <1>5, LossStep

\* What an import replaces by an earlier version is to be sent as before, and has in
\* every version what is looked for.
LEMMA ImportSafe ==
  ASSUME IInv, IInv', LossInv, NEW d \in Devices, Import(d)
  PROVE  LossInv'
<1> DEFINE edited(id) == [bundle[id] EXCEPT !.base = bundle[id].version,
                                            !.dirty = TRUE, !.dirtyAt = Now(d)]
<1>1. /\ UNCHANGED <<rows, seq, idem, commits, bundle, nextId>>
      /\ store' = [store EXCEPT ![d].recs =
                      [id \in DOMAIN @ \union DOMAIN bundle |->
                          IF id \in DOMAIN bundle THEN edited(id) ELSE @[id]]]
  BY DEF Import, serverVars
<1>2. /\ store'[d].recs = [id \in DOMAIN store[d].recs \union DOMAIN bundle |->
                              IF id \in DOMAIN bundle THEN edited(id)
                              ELSE store[d].recs[id]]
      /\ store'[d].pending = store[d].pending
      /\ \A e \in Devices \ {d} : store'[e] = store[e]
  BY <1>1 DEF IInv, DeviceOK, StoreOK, IsStore
<1>3. \A id \in DOMAIN bundle :
          /\ edited(id).dirty /\ edited(id).version = bundle[id].version
          /\ edited(id).body = bundle[id].body /\ edited(id).deleted = bundle[id].deleted
  BY DEF IInv, UserOK, AllGood, IsMap, Stored
<1> HIDE DEF edited
<1>4. GrowsNow
  BY <1>1, SyncerAssumption DEF GrowsNow, Grows, IInv, ServerOK, LogOK
<1>5. ASSUME NEW e \in Devices, NEW id \in DOMAIN store'[e].recs
      PROVE  \/ id \in DOMAIN store[e].recs /\ store'[e].recs[id] = store[e].recs[id]
             \/ e = d /\ id \in DOMAIN bundle /\ store'[e].recs[id] = edited(id)
  BY <1>2, <1>5
<1>6. WholeGoesOn
  <2>1. ASSUME NEW e \in Devices, NEW id \in DOMAIN store'[e].recs
        PROVE  \/ /\ id \in DOMAIN store[e].recs
                  /\ store[e].recs[id].body \subseteq store'[e].recs[id].body
               \/ id \in DOMAIN bundle /\ bundle[id].body \subseteq store'[e].recs[id].body
    BY <1>3, <1>5, <2>1
  <2> QED
    BY <1>1, <2>1, WholeStays
<1>7. ASSUME NEW e \in Devices, NEW x \in DOMAIN store[e].recs,
             store[e].recs[x].dirty, ~Told(e, x)
      PROVE  x \in DOMAIN store'[e].recs /\ store'[e].recs[x].dirty /\ ~Told(e, x)'
  <2>1. ~Told(e, x)'
    BY <1>1, <1>2, <1>7 DEF Told
  <2>2. CASE e = d
    BY <1>2, <1>3, <1>7, <2>1, <2>2
  <2>3. CASE e # d
    BY <1>2, <1>7, <2>1, <2>3
  <2> QED
    BY <2>2, <2>3
<1>8. SafeGoesOn
  BY <1>1, <1>6, <1>7, StillHeld
<1>9. ASSUME NEW e \in Devices, NEW x \in DOMAIN store'[e].recs,
             NEW r, r = store'[e].recs[x]
      PROVE  \/ x \in DOMAIN store[e].recs /\ r = store[e].recs[x]
             \/ Includes(commits', x, r) /\ DeleteIsSafe(x, r)'
  <2>1. CASE x \in DOMAIN bundle /\ r = edited(x)
    <3>1. Includes(commits, x, bundle[x]) /\ ~bundle[x].deleted
      BY <2>1 DEF LossInv, BundleSafe
    <3>2. Includes(commits', x, r) /\ ~r.deleted
      BY <1>1, <1>3, <2>1, <3>1 DEF Includes
    <3> QED
      BY <3>2 DEF DeleteIsSafe
  <2> QED
    BY <1>5, <1>9, <2>1
<1> QED
  BY <1>1, <1>4, <1>8, <1>9, BundleStays, LossStep DEF LossInv

-------------------------------------------------------------------------------
(* A pull.                                                                 *)

\* The copy of what loses in a conflict has a new id.
LEMMA CopyMade ==
  ASSUME IInv, NEW d \in Devices, Pull(d), NEW id \in Copied(d)
  PROVE  \E new \in Ids :
             /\ new > id /\ new >= nextId
             /\ new \in DOMAIN store'[d].recs
             /\ store'[d].recs[new] = ConflictCopy(d, id)
<1> DEFINE new == CopyId(d, id)
           from == CHOOSE x \in Copied(d) : CopyId(d, x) = new
<1>1. /\ store'[d] = AfterPull(d) /\ CopyIds(d) \subseteq Ids
      /\ nextId' = nextId + Cardinality(Copied(d))
      /\ IsStore(store[d])
  BY DEF Pull, IInv, DeviceOK, StoreOK
<1>2. store'[d].recs = [x \in DOMAIN store[d].recs \union Incoming(d) \union CopyIds(d) |->
                           IF x \in CopyIds(d) THEN CopyAt(d, x)
                           ELSE IF x \in Incoming(d) THEN Merged(d, x)
                           ELSE store[d].recs[x]]
  BY <1>1 DEF AfterPull, IsStore
<1>3. nextId \in Nat /\ new >= nextId /\ new \in CopyIds(d)
  BY <1>1, CopyIdsNew DEF CopyIds
<1>4. from \in Copied(d) /\ CopyId(d, from) = new
  OBVIOUS
<1>5. from = id
  BY <1>3, <1>4, CopyIdsDiffer
<1>6. new \in DOMAIN store'[d].recs /\ store'[d].recs[new] = ConflictCopy(d, id)
  BY <1>2, <1>3, <1>5 DEF CopyAt
<1>7. id \in Ids /\ id < nextId
  BY DEF Copied, InConflict, IInv, DeviceOK, StoreOK, AllGood, IsMap, Good
<1>8. new \in Ids /\ new > id
  BY <1>1, <1>3, <1>7 DEF Ids
<1> QED
  BY <1>3, <1>6, <1>8

\* The records after a pull.
LEMMA PulledRecords ==
  ASSUME IInv, NEW d \in Devices, Pull(d), NEW id \in DOMAIN store'[d].recs
  PROVE  \/ id \in DOMAIN store[d].recs /\ store'[d].recs[id] = store[d].recs[id]
         \/ id \in Incoming(d) /\ store'[d].recs[id] = Merged(d, id)
         \/ ~(id < nextId) /\ \A c \in commits : c.id # id
<1>1. /\ store'[d] = AfterPull(d) /\ CopyIds(d) \subseteq Ids
      /\ nextId' = nextId + Cardinality(Copied(d))
      /\ IsStore(store[d])
  BY DEF Pull, IInv, DeviceOK, StoreOK
<1>2. store'[d].recs = [x \in DOMAIN store[d].recs \union Incoming(d) \union CopyIds(d) |->
                           IF x \in CopyIds(d) THEN CopyAt(d, x)
                           ELSE IF x \in Incoming(d) THEN Merged(d, x)
                           ELSE store[d].recs[x]]
  BY <1>1 DEF AfterPull, IsStore
<1>3. CASE id \in CopyIds(d)
  <2>1. id >= nextId /\ nextId \in Nat /\ id \in Ids
    BY <1>1, <1>3, CopyIdsNew DEF CopyIds
  <2>2. \A c \in commits : c.id < nextId /\ c.id \in Ids
    BY DEF IInv, ServerOK, LogOK
  <2> QED
    BY <2>1, <2>2 DEF Ids
<1>4. CASE id \notin CopyIds(d)
  BY <1>2, <1>4
<1> QED
  BY <1>3, <1>4

\* A dirty record stays in its place, perhaps with a new base, or becomes a copy.
LEMMA PulledEdit ==
  ASSUME IInv, NEW d \in Devices, Pull(d), NEW id \in DOMAIN store[d].recs,
         store[d].recs[id].dirty
  PROVE  \E x \in Ids : /\ x >= id
                        /\ x \in DOMAIN store'[d].recs
                        /\ store'[d].recs[x].dirty
                        /\ store'[d].recs[x].body = store[d].recs[id].body
                        /\ x = id \/ x >= nextId
<1> DEFINE local == store[d].recs[id]
<1>1. /\ id \in Ids /\ id < nextId /\ local \in Stored
      /\ store'[d] = AfterPull(d) /\ CopyIds(d) \subseteq Ids
      /\ nextId' = nextId + Cardinality(Copied(d))
      /\ IsStore(store[d])
  BY DEF Pull, IInv, DeviceOK, StoreOK, AllGood, IsMap, Good
<1>2. id \notin CopyIds(d) /\ nextId \in Nat
  BY <1>1, CopyIdsNew DEF CopyIds, Ids
<1>3. /\ id \in DOMAIN store'[d].recs
      /\ store'[d].recs[id] = IF id \in Incoming(d) THEN Merged(d, id) ELSE local
  BY <1>1, <1>2 DEF AfterPull, IsStore
<1>4. id >= id
  BY <1>1 DEF Ids
<1>5. CASE id \notin Incoming(d)
  BY <1>1, <1>3, <1>4, <1>5
<1>6. CASE id \in Incoming(d) /\ ServerWins(local, rows[id])
  <2>1. id \in Copied(d)
    BY <1>6 DEF Copied, InConflict
  <2>2. PICK new \in Ids : /\ new > id /\ new >= nextId
                           /\ new \in DOMAIN store'[d].recs
                           /\ store'[d].recs[new] = ConflictCopy(d, id)
    BY <2>1, CopyMade
  <2>3. ConflictCopy(d, id) = [local EXCEPT !.base = 0]
    <3>1. rows[id].deleted \in BOOLEAN /\ local.deleted \in BOOLEAN
      BY <1>1, <1>6, IncomingFacts DEF Row, Stored
    <3>2. ~LocalDeleteWins(local, rows[id])
      <4> HIDE DEF local
      <4> QED
        BY <1>6, <3>1 DEF ServerWins, LocalDeleteWins
    <3> QED
      BY <3>2 DEF ConflictCopy
  <2>4. store'[d].recs[new].dirty /\ store'[d].recs[new].body = local.body
    BY <1>1, <2>2, <2>3 DEF Stored
  <2> QED
    BY <1>1, <2>2, <2>4 DEF Ids
<1>7. CASE id \in Incoming(d) /\ ~ServerWins(local, rows[id])
  <2>1. store'[d].recs[id] = [local EXCEPT !.base = rows[id].version]
    BY <1>3, <1>7 DEF Merged, InConflict
  <2>2. store'[d].recs[id].dirty /\ store'[d].recs[id].body = local.body
    BY <1>1, <2>1 DEF Stored
  <2> QED
    BY <1>1, <1>3, <1>4, <2>2
<1> QED
  BY <1>5, <1>6, <1>7

\* What is merged is safe: a delete that wins has what it wins over in its copy.
LEMMA MergedSafe ==
  ASSUME IInv, RecordsSafe, NEW d \in Devices, Fresh(d), Pull(d),
         NEW id \in Incoming(d), NEW rec, rec = Merged(d, id)
  PROVE  Includes(commits', id, rec) /\ DeleteIsSafe(id, rec)'
<1> DEFINE local == store[d].recs[id]
           row == rows[id]
<1>1. UNCHANGED <<rows, commits, bundle>> /\ store'[d].pending = <<>>
      /\ \A e \in Devices \ {d} : store'[e] = store[e]
  BY DEF Pull, AfterPull, serverVars, userVars, Fresh, IInv, DeviceOK, StoreOK, IsStore
<1>2. /\ id \in Ids /\ row \in Row /\ Committed(commits, id, row)
      /\ LogOK(commits, seq, nextId)
  BY IncomingFacts DEF IInv, ServerOK
<1>3. CASE ~InConflict(d, id) \/ ServerWins(local, row)
  <2>1. rec = FromServer(row)
    BY <1>3 DEF Merged
  <2>2. Includes(commits, id, rec) /\ \A c \in commits : c.row.version # rec.base
    BY <1>2, <2>1, FromServerSafe
  <2> QED
    BY <1>1, <2>2 DEF DeleteIsSafe
<1>4. CASE InConflict(d, id) /\ ~ServerWins(local, row)
  <2>1. /\ rec = [local EXCEPT !.base = row.version]
        /\ id \in DOMAIN store[d].recs /\ local \in Stored
    BY <1>4 DEF Merged, InConflict, IInv, DeviceOK, StoreOK, IsStore, IsMap
  <2>2. /\ rec.version = local.version /\ rec.body = local.body
        /\ rec.deleted = local.deleted /\ rec.base = row.version
    BY <2>1 DEF Stored
  <2>3. Includes(commits', id, rec)
    BY <1>1, <2>1, <2>2 DEF RecordsSafe, Includes
  <2>4. ASSUME rec.deleted, NEW c \in commits', c.id = id, c.row.version = rec.base,
               ~c.row.deleted
        PROVE  HeldAbove(c.row.body, id)'
    <3>1. c.row = row
      BY <1>1, <1>2, <2>2, <2>4 DEF Committed, LogOK
    <3>2. id \in Copied(d) /\ LocalDeleteWins(local, row)
      BY <1>4, <2>2, <2>4, <3>1 DEF Copied, LocalDeleteWins
    <3>3. PICK new \in Ids : /\ new > id /\ new >= nextId
                             /\ new \in DOMAIN store'[d].recs
                             /\ store'[d].recs[new] = ConflictCopy(d, id)
      BY <3>2, CopyMade
    <3>4. store'[d].recs[new].dirty /\ store'[d].recs[new].body = row.body
      BY <3>2, <3>3 DEF ConflictCopy, FromServer
    <3>5. PICK body : body = c.row.body
      OBVIOUS
    <3>6. Everywhere(body, new)'
      BY <1>1, <3>1, <3>3, <3>4, <3>5, NewIsWhole
    <3>7. Holds(d, new, body)'
      BY <1>1, <3>3, <3>4, <3>6 DEF Holds, Told
    <3>8. HeldAbove(body, id)'
      BY <3>3, <3>7 DEF HeldAbove, HeldAt
    <3> QED
      BY <3>5, <3>8 DEF HeldAbove, HeldAt, Holds, Told, Everywhere
  <2> QED
    BY <2>3, <2>4 DEF DeleteIsSafe, Safe
<1> QED
  BY <1>3, <1>4

LEMMA PullSafe ==
  ASSUME IInv, IInv', LossInv, NEW d \in Devices, Fresh(d), Pull(d)
  PROVE  LossInv'
<1>1. /\ UNCHANGED <<rows, seq, idem, commits, bundle>> /\ store[d].pending = <<>>
      /\ store'[d].pending = <<>>
      /\ \A e \in Devices \ {d} : store'[e] = store[e]
  BY DEF Pull, AfterPull, serverVars, userVars, Fresh, IInv, DeviceOK, StoreOK, IsStore
<1>2. GrowsNow
  <2>1. nextId <= nextId'
    BY CopyIdsNew DEF Pull
  <2> QED
    BY <1>1, <2>1, SyncerAssumption DEF GrowsNow, Grows, IInv, ServerOK, LogOK
<1>3. WholeGoesOn
  <2>1. ASSUME NEW e \in Devices, NEW x \in DOMAIN store'[e].recs
        PROVE  \/ ~(x < nextId)
               \/ /\ x \in DOMAIN store[e].recs
                  /\ store[e].recs[x].body \subseteq store'[e].recs[x].body
               \/ \E c \in commits' : c.id = x /\ c.row.body \subseteq store'[e].recs[x].body
    <3>1. CASE e # d
      BY <1>1, <2>1, <3>1
    <3>2. CASE e = d /\ x \in Incoming(d) /\ store'[d].recs[x] = Merged(d, x)
      <4>1. CASE Merged(d, x) = FromServer(rows[x])
        <5>1. PICK c \in commits : c.id = x /\ c.row = rows[x]
          BY <3>2, IncomingFacts DEF Committed
        <5> QED
          BY <1>1, <3>2, <4>1, <5>1 DEF FromServer
      <4>2. CASE InConflict(d, x) /\ Merged(d, x) = [store[d].recs[x] EXCEPT !.base = rows[x].version]
        <5>1. x \in DOMAIN store[d].recs /\ store[d].recs[x] \in Stored
          BY <4>2 DEF InConflict, IInv, DeviceOK, StoreOK, IsStore, IsMap
        <5> QED
          BY <3>2, <4>2, <5>1 DEF Stored
      <4> QED
        BY <4>1, <4>2 DEF Merged
    <3> QED
      BY <2>1, <3>1, <3>2, PulledRecords
  <2>2. \A x \in DOMAIN bundle' : x \in DOMAIN bundle /\ bundle'[x] = bundle[x]
    BY <1>1
  <2> QED
    BY <1>1, <2>1, <2>2, WholeStays
<1>4. ASSUME NEW body, NEW id \in Ids, HeldAt(body, id)
      PROVE  \E x \in Ids : x >= id /\ HeldAt(body, x)'
  <2>1. id >= id
    BY DEF Ids
  <2>2. CASE body \subseteq rows[id].body
    BY <1>1, <2>1, <2>2 DEF HeldAt
  <2>3. CASE Holds(d, id, body)
    <3>1. PICK x \in Ids : /\ x >= id
                           /\ x \in DOMAIN store'[d].recs
                           /\ store'[d].recs[x].dirty
                           /\ store'[d].recs[x].body = store[d].recs[id].body
                           /\ x = id \/ x >= nextId
      BY <2>3, PulledEdit DEF Holds
    <3>2. Everywhere(body, x)'
      <4>1. body \subseteq store'[d].recs[x].body
        BY <2>3, <3>1, HeldIsOld
      <4> QED
        BY <1>1, <1>3, <2>3, <3>1, <4>1, HeldIsOld, NewIsWhole DEF Holds, WholeGoesOn
    <3>3. Holds(d, x, body)'
      BY <1>1, <3>1, <3>2 DEF Holds, Told
    <3> QED
      BY <3>1, <3>3 DEF HeldAt
  <2>4. ASSUME NEW e \in Devices \ {d}, Holds(e, id, body)
        PROVE  HeldAt(body, id)'
    <3>1. Everywhere(body, id)'
      BY <1>3, <2>4, HeldIsOld DEF Holds, WholeGoesOn
    <3> QED
      BY <1>1, <2>4, <3>1 DEF Holds, HeldAt, Told
  <2> QED
    BY <1>4, <2>1, <2>2, <2>3, <2>4 DEF HeldAt
<1>5. SafeGoesOn
  BY <1>1, <1>4, SafeStays DEF SafeGoesOn
<1>6. ASSUME NEW e \in Devices, NEW id \in DOMAIN store'[e].recs,
             NEW rec, rec = store'[e].recs[id]
      PROVE  \/ id \in DOMAIN store[e].recs /\ rec = store[e].recs[id]
             \/ Includes(commits', id, rec) /\ DeleteIsSafe(id, rec)'
  <2>1. CASE e # d
    BY <1>1, <1>6, <2>1
  <2>2. CASE e = d
    <3>1. \/ id \in DOMAIN store[d].recs /\ rec = store[d].recs[id]
          \/ id \in Incoming(d) /\ rec = Merged(d, id)
          \/ \A c \in commits : c.id # id
      BY <1>6, <2>2, PulledRecords
    <3>2. CASE id \in Incoming(d) /\ rec = Merged(d, id)
      BY <3>2, MergedSafe DEF LossInv
    <3>3. CASE \A c \in commits : c.id # id
      BY <1>1, <3>3 DEF Includes, DeleteIsSafe
    <3> QED
      BY <2>2, <3>1, <3>2, <3>3
  <2> QED
    BY <2>1, <2>2
<1> QED
  BY <1>1, <1>2, <1>5, <1>6, BundleStays, LossStep DEF LossInv

-------------------------------------------------------------------------------
(* Steps that send something.                                              *)

LEMMA PendingKeys ==
  ASSUME IInv, NEW d \in Devices
  PROVE  /\ store[d].pending \in Seq(Pending)
         /\ \A i \in DOMAIN store[d].pending : store[d].pending[i].key \in Keys
<1>1. store[d].pending \in Seq(Pending)
  BY DEF IInv, DeviceOK, StoreOK, IsStore, Pending
<1>2. \A i \in DOMAIN store[d].pending : store[d].pending[i] \in Pending
  BY <1>1
<1> QED
  BY <1>1, <1>2 DEF Pending

\* A device whose batches have other keys is told nothing new.
LEMMA ToldStays ==
  ASSUME IInv, NEW k, NEW e \in Devices, store'[e].pending = store[e].pending,
         \A key \in Keys \ {k} : AppliedIn(idem'[key]) \subseteq AppliedIn(idem[key]),
         \A i \in DOMAIN store[e].pending : store[e].pending[i].key # k
  PROVE  \A id : Told(e, id)' => Told(e, id)
<1>1. \A i \in DOMAIN store[e].pending : store[e].pending[i].key \in Keys
  BY PendingKeys
<1> QED
  BY <1>1 DEF Told

\* The batch at the head of the queue is d's own.
LEMMA HeadKey ==
  ASSUME IInv, KeysDiffer, NEW d \in Devices, store[d].pending # <<>>
  PROVE  /\ 1 \in DOMAIN store[d].pending
         /\ Head(store[d].pending) = store[d].pending[1]
         /\ Head(store[d].pending).key \in Keys
         /\ \A e \in Devices \ {d} : \A i \in DOMAIN store[e].pending :
                store[e].pending[i].key # Head(store[d].pending).key
         /\ \A i \in DOMAIN Tail(store[d].pending) :
                /\ i + 1 \in DOMAIN store[d].pending
                /\ Tail(store[d].pending)[i] = store[d].pending[i + 1]
                /\ Tail(store[d].pending)[i].key # Head(store[d].pending).key
<1>1. store[d].pending \in Seq(Pending)
  BY PendingKeys
<1>2. /\ 1 \in DOMAIN store[d].pending
      /\ Head(store[d].pending) = store[d].pending[1]
      /\ \A i \in DOMAIN Tail(store[d].pending) :
             /\ i + 1 \in DOMAIN store[d].pending /\ i + 1 # 1
             /\ Tail(store[d].pending)[i] = store[d].pending[i + 1]
  BY <1>1
<1>3. Head(store[d].pending).key \in Keys
  BY <1>1, FirstPending
<1> QED
  BY <1>2, <1>3 DEF KeysDiffer

\* Nothing reaches the server.
LEMMA ServeNothing ==
  ASSUME IInv, UNCHANGED <<rows, seq, commits>>
  PROVE  Serve(NoRecords) /\ Applicable(NoRecords) = {} /\ \A d : Sends(d, NoRecords)
<1>1. DOMAIN NoRecords = {} /\ Applicable(NoRecords) = {}
  BY DEF NoRecords, Applicable
<1>2. rows = [id \in Ids |-> rows[id]]
  BY DEF IInv, ServerOK, RowsOK
<1>3. RowsAfter(NoRecords) = rows
  BY <1>1, <1>2 DEF RowsAfter
<1>4. seq + Cardinality({}) = seq
  BY FS_EmptySet DEF IInv, ServerOK
<1> QED
  BY <1>1, <1>3, <1>4 DEF Serve, Sends

LEMMA SendsPart ==
  ASSUME NEW d, NEW batch, Sends(d, batch), NEW part \in SUBSET DOMAIN batch
  PROVE  Sends(d, Restrict(batch, part))
  BY DEF Sends, Restrict

LEMMA Unchanging ==
  ASSUME IInv, UNCHANGED <<seq, commits, nextId>>
  PROVE  GrowsNow
  BY SyncerAssumption DEF GrowsNow, Grows, IInv, ServerOK, LogOK

\* The records after an answer.
LEMMA Answered ==
  ASSUME IInv, NEW d \in Devices, NEW results, ResultsOK(commits', results),
         store'[d].recs = ApplyResults(store[d], results).recs
  PROVE  /\ \A id \in DOMAIN store[d].recs \ AppliedIn(results) :
                id \in DOMAIN store'[d].recs /\ store'[d].recs[id] = store[d].recs[id]
         /\ \A id \in DOMAIN store'[d].recs :
                \/ id \in DOMAIN store[d].recs /\ store'[d].recs[id] = store[d].recs[id]
                \/ \E row \in Row : /\ Committed(commits', id, row)
                                    /\ store'[d].recs[id] = FromServer(row)
<1>1. store'[d].recs = [id \in DOMAIN store[d].recs \union AppliedIn(results) |->
                           IF id \in AppliedIn(results) THEN FromServer(results[id].row)
                           ELSE store[d].recs[id]]
  BY DEF ApplyResults, IInv, DeviceOK, StoreOK, IsStore
<1>2. \A id \in AppliedIn(results) :
          results[id].row \in Row /\ Committed(commits', id, results[id].row)
  BY DEF ResultsOK, IsMap, AppliedIn
<1> QED
  BY <1>1, <1>2

LEMMA ReplaySafe ==
  ASSUME IInv, IInv', LossInv, PendingInv, NEW d \in Devices, Replay(d)
  PROVE  LossInv'
<1> DEFINE key == Head(store[d].pending).key
           batch == proc[d].todo
           results == IF Recorded(key) THEN idem[key] ELSE Results(batch)
<1>1. /\ proc[d].at = "replay" /\ UNCHANGED <<nextId, bundle>>
      /\ store'[d].recs = ApplyResults(store[d], results).recs
      /\ store'[d].pending = Tail(store[d].pending)
      /\ \A e \in Devices \ {d} : store'[e] = store[e]
      /\ IF Recorded(key)
         THEN UNCHANGED serverVars
         ELSE Serve(batch) /\ idem' = [idem EXCEPT ![key] = results]
  BY DEF Replay, userVars, IInv, DeviceOK, StoreOK, IsStore, ApplyResults
<1>2. store[d].pending # <<>> /\ AllGood(commits, seq, nextId, batch) /\ KeysDiffer
  BY <1>1 DEF IInv, DeviceOK, ProcOK, PendingInv
<1> HIDE DEF results
<1>3. \A k \in Keys \ {key} : idem'[k] = idem[k]
  BY <1>1 DEF serverVars, IInv, ServerOK
<1>4. Apart(d)
  BY <1>1, <1>2, <1>3, HeadKey, ToldStays DEF Apart
<1>5. \A id : Told(d, id)' => Told(d, id)
  <2>1. \A i \in DOMAIN Tail(store[d].pending) : Tail(store[d].pending)[i].key \in Keys
    BY <1>2, HeadKey, PendingKeys
  <2> QED
    BY <1>1, <1>2, <1>3, <2>1, HeadKey DEF Told
<1>6. CASE Recorded(key)
  <2>1. UNCHANGED <<rows, seq, idem, commits>> /\ results = idem[key]
    BY <1>1, <1>6 DEF serverVars, results
  <2>2. ResultsOK(commits', results)
    BY <1>2, <2>1, HeadKey DEF IInv, ServerOK
  <2>3. \A id \in AppliedIn(results) : Told(d, id)
    BY <1>2, <2>1, HeadKey DEF Told
  <2>4. Exchanged(d, NoRecords)
    BY <1>1, <1>5, <2>2, <2>3, Answered DEF Exchanged
  <2> QED
    BY <1>1, <1>4, <2>1, <2>4, ServeNothing, Unchanging, ExchangeSafe
<1>7. CASE ~Recorded(key)
  <2>1. Serve(batch) /\ results = Results(batch)
    BY <1>1, <1>7 DEF results
  <2>2. ResultsOK(commits', results) /\ AppliedIn(results) = Applicable(batch) /\ GrowsNow
    BY <1>1, <1>2, <2>1, ServeOK DEF IInv
  <2>3. Sends(d, batch)
    BY <1>1 DEF Sends, PendingInv, Fresh
  <2>4. Exchanged(d, batch)
    BY <1>1, <1>5, <2>2, Answered DEF Exchanged
  <2> QED
    BY <1>1, <1>4, <2>1, <2>2, <2>3, <2>4, ExchangeSafe
<1> QED
  BY <1>6, <1>7

LEMMA ChunkSends ==
  ASSUME TodoCurrent, NEW d \in Devices, proc[d].at = "push", NEW chunk \in Chunks(d)
  PROVE  Sends(d, chunk)
<1>1. PICK S \in SUBSET DOMAIN proc[d].todo : chunk = Restrict(proc[d].todo, S)
  BY DEF Chunks, kSubset
<1>2. \A id \in DOMAIN proc[d].todo :
          id \in DOMAIN store[d].recs /\ store[d].recs[id] = proc[d].todo[id]
  BY DEF TodoCurrent, TodoOf
<1> QED
  BY <1>1, <1>2 DEF Sends, Restrict

LEMMA PushSafe ==
  ASSUME IInv, IInv', LossInv, PendingInv, TodoCurrent, NEW d \in Devices, Push(d)
  PROVE  LossInv'
<1>1. PICK chunk \in Chunks(d) :
          /\ Serve(chunk)
          /\ store' = [store EXCEPT ![d] = ApplyResults(@, Results(chunk))]
  BY DEF Push
<1>2. proc[d].at = "push" /\ UNCHANGED <<idem, nextId, bundle>>
  BY DEF Push, userVars
<1>3. /\ GrowsNow /\ ResultsOK(commits', Results(chunk))
      /\ AppliedIn(Results(chunk)) = Applicable(chunk)
  BY <1>1, <1>2, ChunkOK, ServeOK DEF IInv
<1>4. /\ store[d].pending = <<>> /\ store'[d].pending = <<>>
      /\ store'[d].recs = ApplyResults(store[d], Results(chunk)).recs
      /\ \A e \in Devices \ {d} : store'[e] = store[e]
  <2>1. store[d].pending = <<>>
    BY <1>2 DEF PendingInv, Fresh
  <2> QED
    BY <1>1, <2>1 DEF IInv, DeviceOK, StoreOK, IsStore, ApplyResults
<1>5. Apart(d)
  BY <1>2, <1>4 DEF Apart, Told
<1>6. \A id : ~Told(d, id)'
  BY <1>4 DEF Told
<1>7. Exchanged(d, chunk)
  BY <1>3, <1>4, <1>6, Answered DEF Exchanged
<1> QED
  BY <1>1, <1>2, <1>3, <1>5, <1>7, ChunkSends, ExchangeSafe

\* A batch of d takes effect and d does not learn of it: its records stay, and a
\* recorded answer tells of what was applied.
LEMMA UntoldSafe ==
  ASSUME IInv, IInv', LossInv, GrowsNow, NEW d \in Devices, NEW batch, NEW key \in Keys,
         UNCHANGED bundle, NEW results, Sends(d, batch), Serve(batch),
         idem' = [idem EXCEPT ![key] = results],
         AppliedIn(results) \subseteq Applicable(batch),
         store'[d].recs = store[d].recs,
         \A e \in Devices \ {d} : store'[e] = store[e],
         \A i \in DOMAIN store'[d].pending :
             \/ store'[d].pending[i].key = key
             \/ \E j \in DOMAIN store[d].pending :
                    store[d].pending[j].key = store'[d].pending[i].key,
         \A e \in Devices \ {d} : \A i \in DOMAIN store[e].pending :
             store[e].pending[i].key # key
  PROVE  LossInv'
<1>1. idem'[key] = results /\ \A k \in Keys \ {key} : idem'[k] = idem[k]
  BY DEF IInv, ServerOK
<1>2. Apart(d)
  BY <1>1, ToldStays DEF Apart
<1>3. \A id : Told(d, id)' => Told(d, id) \/ id \in Applicable(batch)
  <2> SUFFICES ASSUME NEW id, NEW i \in DOMAIN store'[d].pending,
                      id \in AppliedIn(idem'[store'[d].pending[i].key])
               PROVE  Told(d, id) \/ id \in Applicable(batch)
    BY DEF Told
  <2>1. CASE store'[d].pending[i].key = key
    BY <1>1, <2>1
  <2>2. CASE store'[d].pending[i].key # key
    <3>1. PICK j \in DOMAIN store[d].pending :
              store[d].pending[j].key = store'[d].pending[i].key
      BY <2>2
    <3>2. store[d].pending[j].key \in Keys \ {key}
      BY <2>2, <3>1, PendingKeys
    <3> QED
      BY <1>1, <3>1, <3>2 DEF Told
  <2> QED
    BY <2>1, <2>2
<1>4. Exchanged(d, batch)
  BY <1>3 DEF Exchanged
<1> QED
  BY <1>2, <1>4, ExchangeSafe

LEMMA UnansweredSafe ==
  ASSUME IInv, IInv', LossInv, GrowsNow, NEW d \in Devices, NEW batch, NEW key \in Keys,
         AllGood(commits, seq, nextId, batch), UNCHANGED <<nextId, bundle>>,
         Sends(d, batch), Unanswered(batch, key),
         store'[d].recs = store[d].recs,
         \A e \in Devices \ {d} : store'[e] = store[e],
         \A i \in DOMAIN store'[d].pending :
             \/ store'[d].pending[i].key = key
             \/ \E j \in DOMAIN store[d].pending :
                    store[d].pending[j].key = store'[d].pending[i].key,
         \A e \in Devices \ {d} : \A i \in DOMAIN store[e].pending :
             store[e].pending[i].key # key
  PROVE  LossInv'
<1>1. CASE Serve(batch) /\ idem' = [idem EXCEPT ![key] = Results(batch)]
  <2>1. AppliedIn(Results(batch)) = Applicable(batch)
    BY <1>1, ServeOK DEF IInv
  <2> DEFINE results == Results(batch)
  <2>2. idem' = [idem EXCEPT ![key] = results] /\ AppliedIn(results) \subseteq Applicable(batch)
    BY <1>1, <2>1
  <2> HIDE DEF results
  <2> QED
    BY <1>1, <2>2, UntoldSafe
<1>2. ASSUME NEW part \in SUBSET DOMAIN batch, Serve(Restrict(batch, part)),
             idem' = [idem EXCEPT ![key] = NoResult]
      PROVE  LossInv'
  <2>1. Sends(d, Restrict(batch, part)) /\ AppliedIn(NoResult) = {}
    BY SendsPart, Empty
  <2> DEFINE sent == Restrict(batch, part)
  <2>2. Sends(d, sent) /\ Serve(sent) /\ AppliedIn(NoResult) \subseteq Applicable(sent)
    BY <1>2, <2>1
  <2> HIDE DEF sent
  <2> QED
    BY <1>2, <2>2, UntoldSafe
<1> QED
  BY <1>1, <1>2 DEF Unanswered

\* A push without an answer leaves its batch as the only one pending, under a key
\* that no device has.
LEMMA Queued ==
  ASSUME IInv, PendingInv, NEW d \in Devices, proc[d].at = "push",
         NEW chunk \in Chunks(d), Unacknowledged(d, chunk)
  PROVE  /\ NewKey \in Keys /\ UNCHANGED <<nextId, bundle>>
         /\ store'[d].recs = store[d].recs
         /\ store[d].pending = <<>>
         /\ store'[d].pending = <<[key |-> NewKey, ids |-> DOMAIN chunk]>>
         /\ \A e \in Devices \ {d} : store'[e] = store[e]
         /\ \A e \in Devices : \A i \in DOMAIN store[e].pending :
                store[e].pending[i].key # NewKey
<1> DEFINE entry == [key |-> NewKey, ids |-> DOMAIN chunk]
<1>1. FreshKey(NewKey) /\ NewKey \in Keys
  <2>1. \E key \in Keys : FreshKey(key)
    BY DEF Unacknowledged
  <2> QED
    BY <2>1 DEF NewKey
<1>2. store' = [store EXCEPT ![d].pending = Append(@, entry)] /\ UNCHANGED <<nextId, bundle>>
  BY DEF Unacknowledged, userVars
<1>3. store[d].pending = <<>>
  BY DEF PendingInv, Fresh
<1> HIDE DEF entry
<1>4. /\ store'[d].recs = store[d].recs
      /\ store'[d].pending = Append(store[d].pending, entry)
      /\ \A e \in Devices \ {d} : store'[e] = store[e]
  BY <1>2 DEF IInv, DeviceOK, StoreOK, IsStore
<1>5. \A e \in Devices : \A i \in DOMAIN store[e].pending :
          store[e].pending[i].key # NewKey
  BY <1>1 DEF FreshKey
<1>6. Append(<<>>, entry) = <<entry>>
  OBVIOUS
<1>7. store'[d].pending = <<[key |-> NewKey, ids |-> DOMAIN chunk]>>
  BY <1>3, <1>4, <1>6 DEF entry
<1> QED
  BY <1>1, <1>2, <1>3, <1>4, <1>5, <1>7

LEMMA OneInQueue ==
  ASSUME NEW entry
  PROVE  DOMAIN <<entry>> = {1} /\ <<entry>>[1] = entry
  OBVIOUS

LEMMA PushRefusedSafe ==
  ASSUME IInv, IInv', LossInv, PendingInv, NEW d \in Devices, PushRefused(d)
  PROVE  LossInv'
<1>1. PICK chunk \in Chunks(d) : Unacknowledged(d, chunk)
  BY DEF PushRefused
<1>2. /\ proc[d].at = "push" /\ UNCHANGED <<rows, seq, commits>>
      /\ idem' = [idem EXCEPT ![NewKey] = NoResult]
  BY DEF PushRefused
<1>3. /\ NewKey \in Keys /\ UNCHANGED <<nextId, bundle>>
      /\ store'[d].recs = store[d].recs
      /\ store'[d].pending = <<[key |-> NewKey, ids |-> DOMAIN chunk]>>
      /\ \A e \in Devices \ {d} : store'[e] = store[e]
      /\ \A e \in Devices : \A i \in DOMAIN store[e].pending :
             store[e].pending[i].key # NewKey
  BY <1>1, <1>2, Queued
<1>4. \A i \in DOMAIN store'[d].pending : store'[d].pending[i].key = NewKey
  BY <1>3, OneInQueue
<1>5. /\ Serve(NoRecords) /\ Sends(d, NoRecords)
      /\ AppliedIn(NoResult) \subseteq Applicable(NoRecords)
  BY <1>2, ServeNothing, Empty
<1>6. GrowsNow
  BY <1>2, <1>3, Unchanging
<1> QED
  BY <1>2, <1>3, <1>4, <1>5, <1>6, UntoldSafe

LEMMA PushLostSafe ==
  ASSUME IInv, IInv', LossInv, PendingInv, TodoCurrent, NEW d \in Devices, PushLost(d)
  PROVE  LossInv'
<1>1. PICK chunk \in Chunks(d) : Unacknowledged(d, chunk) /\ Unanswered(chunk, NewKey)
  BY DEF PushLost
<1>2. proc[d].at = "push"
  BY DEF PushLost
<1>3. /\ NewKey \in Keys /\ UNCHANGED <<nextId, bundle>>
      /\ store'[d].recs = store[d].recs
      /\ store'[d].pending = <<[key |-> NewKey, ids |-> DOMAIN chunk]>>
      /\ \A e \in Devices \ {d} : store'[e] = store[e]
      /\ \A e \in Devices : \A i \in DOMAIN store[e].pending :
             store[e].pending[i].key # NewKey
  BY <1>1, <1>2, Queued
<1>4. \A i \in DOMAIN store'[d].pending : store'[d].pending[i].key = NewKey
  BY <1>3, OneInQueue
<1>5. AllGood(commits, seq, nextId, chunk) /\ Sends(d, chunk)
  BY <1>2, ChunkOK, ChunkSends
<1>6. GrowsNow
  BY <1>1, <1>3, <1>5, UnansweredOK
<1> QED
  BY <1>1, <1>3, <1>4, <1>5, <1>6, UnansweredSafe

LEMMA ReplayLostSafe ==
  ASSUME IInv, IInv', LossInv, PendingInv, NEW d \in Devices, ReplayLost(d)
  PROVE  LossInv'
<1> DEFINE key == Head(store[d].pending).key
<1>1. /\ proc[d].at = "replay" /\ Unanswered(proc[d].todo, key)
      /\ UNCHANGED <<store, nextId, bundle>>
  BY DEF ReplayLost, userVars
<1>2. store[d].pending # <<>> /\ AllGood(commits, seq, nextId, proc[d].todo)
  BY <1>1 DEF IInv, DeviceOK, ProcOK
<1>3. /\ key \in Keys
      /\ \A e \in Devices \ {d} : \A i \in DOMAIN store[e].pending :
             store[e].pending[i].key # key
  BY <1>2, HeadKey DEF PendingInv
<1>4. Sends(d, proc[d].todo)
  BY <1>1 DEF Sends, PendingInv, Fresh
<1> HIDE DEF key
<1>5. GrowsNow
  BY <1>1, <1>2, <1>3, UnansweredOK
<1> QED
  BY <1>1, <1>2, <1>3, <1>4, <1>5, UnansweredSafe

-------------------------------------------------------------------------------
\* Nothing is committed, no record changes and no device is told anything new.
LEMMA IdleSafe ==
  ASSUME IInv, IInv', LossInv, UNCHANGED <<rows, seq, commits, store, nextId, bundle>>,
         \A k \in Keys : AppliedIn(idem'[k]) \subseteq AppliedIn(idem[k])
  PROVE  LossInv'
<1>1. GrowsNow
  BY Unchanging
<1>2. \A d \in Devices : \A id : Told(d, id)' => Told(d, id)
  BY PendingKeys DEF Told
<1>3. WholeGoesOn
  BY DEF WholeGoesOn, Everywhere
<1>4. SafeGoesOn
  BY <1>2, <1>3, StillHeld
<1> QED
  BY <1>1, <1>4, BundleStays, LossStep DEF LossInv

-------------------------------------------------------------------------------
(* The queues of batches.                                                  *)

\* What a step of d may do to its queue: nothing, take the first batch, or leave one
\* with a key of its own.
QueueStep(d) ==
    \/ store'[d].pending = store[d].pending
    \/ /\ store[d].pending # <<>>
       /\ store'[d].pending = Tail(store[d].pending)
    \/ \E entry :
           /\ store'[d].pending = <<entry>>
           /\ \A e \in Devices : \A i \in DOMAIN store[e].pending :
                  store[e].pending[i].key # entry.key

LEMMA KeysStayDifferent ==
  ASSUME IInv, KeysDiffer, NEW d \in Devices, QueueStep(d),
         \A e \in Devices \ {d} : store'[e] = store[e]
  PROVE  KeysDiffer'
<1>1. CASE store'[d].pending = store[d].pending
  <2>1. \A e \in Devices : store'[e].pending = store[e].pending
    BY <1>1
  <2> QED
    BY <2>1 DEF KeysDiffer
<1>2. CASE store[d].pending # <<>> /\ store'[d].pending = Tail(store[d].pending)
  <2>1. \A i \in DOMAIN store'[d].pending :
            /\ i + 1 \in DOMAIN store[d].pending /\ i \in Nat
            /\ store'[d].pending[i] = store[d].pending[i + 1]
    <3>1. store[d].pending \in Seq(Pending)
      BY PendingKeys
    <3> QED
      BY <1>2, <3>1
  <2>2. \A i, j \in DOMAIN store'[d].pending :
            store'[d].pending[i].key = store'[d].pending[j].key => i = j
    <3> SUFFICES ASSUME NEW i \in DOMAIN store'[d].pending, NEW j \in DOMAIN store'[d].pending,
                        store'[d].pending[i].key = store'[d].pending[j].key
                 PROVE  i = j
      OBVIOUS
    <3>1. i + 1 = j + 1
      BY <2>1 DEF KeysDiffer
    <3> QED
      BY <2>1, <3>1
  <2>3. \A e \in Devices \ {d} : \A i \in DOMAIN store'[d].pending :
            \A j \in DOMAIN store'[e].pending :
                store'[d].pending[i].key # store'[e].pending[j].key
    BY <2>1 DEF KeysDiffer
  <2> QED
    BY <2>2, <2>3 DEF KeysDiffer
<1>3. ASSUME NEW entry, store'[d].pending = <<entry>>,
             \A e \in Devices : \A i \in DOMAIN store[e].pending :
                 store[e].pending[i].key # entry.key
      PROVE  KeysDiffer'
  <2>1. DOMAIN store'[d].pending = {1} /\ store'[d].pending[1] = entry
    BY <1>3, OneInQueue
  <2> QED
    BY <1>3, <2>1 DEF KeysDiffer
<1> QED
  BY <1>1, <1>2, <1>3 DEF QueueStep

LEMMA EditKeeps ==
  ASSUME IInv, NEW d \in Devices, NEW id, NEW rec, Edit(d, id, rec)
  PROVE  /\ store'[d].pending = store[d].pending /\ UNCHANGED proc
         /\ \A e \in Devices \ {d} : store'[e] = store[e]
  BY DEF Edit, IInv, DeviceOK, StoreOK, IsStore

LEMMA ReplayIsFresh ==
  ASSUME NEW d, proc'[d] = ReplayOrPull(store'[d])
  PROVE  Fresh(d)'
<1>1. CASE store'[d].pending = <<>>
  <2>1. proc'[d].at = "pull"
    BY <1>1 DEF ReplayOrPull, Ready
  <2> QED
    BY <1>1, <2>1 DEF Fresh
<1>2. CASE store'[d].pending # <<>>
  <2> DEFINE ids == Head(store'[d].pending).ids \intersect DOMAIN store'[d].recs
  <2>1. proc'[d].at = "replay" /\ proc'[d].todo = Restrict(store'[d].recs, ids)
    BY <1>2 DEF ReplayOrPull, Ready
  <2>2. ids \subseteq DOMAIN store'[d].recs
    OBVIOUS
  <2> HIDE DEF ids
  <2>3. \A id \in DOMAIN proc'[d].todo :
            id \in DOMAIN store'[d].recs /\ store'[d].recs[id] = proc'[d].todo[id]
    BY <2>1, <2>2 DEF Restrict
  <2> QED
    BY <2>1, <2>3 DEF Fresh
<1> QED
  BY <1>1, <1>2

LEMMA StepQueue ==
  ASSUME IInv, PendingInv, NEW d \in Devices, UserStep(d) \/ SyncStep(d)
  PROVE  /\ QueueStep(d) /\ Fresh(d)'
         /\ \A e \in Devices \ {d} : store'[e] = store[e]
<1> USE DEF Fresh
<1>1. DOMAIN proc = Devices /\ DOMAIN proc[d] = {"at", "iter", "todo", "conflicts"}
  BY DEF IInv, DeviceOK, ProcOK
<1>2. Finish(d) => proc'[d].at = "ready"
  BY <1>1, ReadyOK DEF Finish
<1>3. proc[d].at \in {"pull", "push"} => store[d].pending = <<>>
  BY DEF PendingInv
<1>4. CASE UserStep(d) /\ ~SyncStart(d)
  <2>1. /\ proc[d].at = "ready" /\ UNCHANGED proc
        /\ store'[d].pending = store[d].pending
        /\ \A e \in Devices \ {d} : store'[e] = store[e]
    <3>1. CASE \E id, rec : Edit(d, id, rec)
      BY <1>4, <3>1, EditKeeps DEF UserStep
    <3>2. CASE Export(d) \/ Save(d)
      BY <1>4, <3>2 DEF UserStep, Export, Save
    <3>3. CASE Import(d)
      BY <1>4, <3>3 DEF UserStep, Import, IInv, DeviceOK, StoreOK, IsStore
    <3> QED
      BY <1>4, <3>1, <3>2, <3>3 DEF UserStep, Create, Update, Delete
  <2> QED
    BY <2>1 DEF QueueStep
<1>5. CASE Refused(d) \/ ReplayLost(d)
  <2>1. UNCHANGED store /\ proc'[d].at = "ready"
    BY <1>2, <1>5 DEF Refused, ReplayLost
  <2> QED
    BY <2>1 DEF QueueStep
<1>6. CASE SyncStart(d)
  <2>1. UNCHANGED store /\ proc'[d] = ReplayOrPull(store'[d])
    BY <1>1, <1>6 DEF SyncStart
  <2> QED
    BY <2>1, ReplayIsFresh DEF QueueStep
<1>7. CASE Replay(d)
  <2>1. PICK results :
            LET after == [ApplyResults(store[d], results) EXCEPT !.pending = Tail(@)]
            IN  /\ store' = [store EXCEPT ![d] = after]
                /\ proc' = [proc EXCEPT ![d] = ReplayOrPull(after)]
    BY <1>7 DEF Replay
  <2> DEFINE applied == ApplyResults(store[d], results)
             after == [applied EXCEPT !.pending = Tail(@)]
  <2>2. /\ proc[d].at = "replay" /\ store'[d] = after /\ proc'[d] = ReplayOrPull(after)
        /\ \A e \in Devices \ {d} : store'[e] = store[e]
    BY <1>1, <1>7, <2>1 DEF Replay, IInv
  <2>3. after.pending = Tail(store[d].pending)
    BY DEF IInv, DeviceOK, StoreOK, IsStore, ApplyResults
  <2> HIDE DEF after
  <2>4. /\ proc[d].at = "replay" /\ proc'[d] = ReplayOrPull(store'[d])
        /\ store'[d].pending = Tail(store[d].pending)
        /\ \A e \in Devices \ {d} : store'[e] = store[e]
    BY <2>2, <2>3
  <2>5. store[d].pending # <<>>
    BY <2>4 DEF IInv, DeviceOK, ProcOK
  <2> QED
    BY <2>4, <2>5, ReplayIsFresh DEF QueueStep
<1>8. CASE Pull(d)
  <2>1. /\ proc[d].at = "pull" /\ store'[d].pending = store[d].pending
        /\ \A e \in Devices \ {d} : store'[e] = store[e]
    <3>1. AfterPull(d).pending = store[d].pending
      BY DEF AfterPull, IInv, DeviceOK, StoreOK, IsStore
    <3> QED
      BY <1>8, <3>1 DEF Pull, IInv
  <2>2. proc'[d].at # "replay"
    <3>1. CASE Finish(d)
      BY <1>2, <3>1
    <3>2. CASE proc' = [proc EXCEPT ![d].at = "push",
                                    ![d].todo = Restrict(store'[d].recs, DirtyIds(d)'),
                                    ![d].conflicts = FALSE]
      <4>1. proc'[d].at = "push"
        BY <1>1, <3>2
      <4> QED
        BY <4>1
    <3> QED
      BY <1>8, <3>1, <3>2, PulledNext
  <2> QED
    BY <1>3, <2>1, <2>2 DEF QueueStep
<1>9. CASE Push(d)
  <2>1. /\ proc[d].at = "push" /\ store'[d].pending = store[d].pending
        /\ \A e \in Devices \ {d} : store'[e] = store[e]
    BY <1>9 DEF Push, ApplyResults, IInv, DeviceOK, StoreOK, IsStore
  <2>2. proc'[d].at # "replay"
    <3>1. \/ \E todo, conflicts :
                 proc' = [proc EXCEPT ![d].todo = todo, ![d].conflicts = conflicts]
          \/ proc' = [proc EXCEPT ![d] =
                         [Ready EXCEPT !.at = "pull", !.iter = proc[d].iter + 1]]
          \/ Finish(d)
      BY <1>9 DEF Push
    <3> QED
      BY <1>1, <1>2, <2>1, <3>1 DEF Ready
  <2> QED
    BY <1>3, <2>1, <2>2 DEF QueueStep
<1>10. CASE PushRefused(d) \/ PushLost(d)
  <2>1. PICK chunk \in Chunks(d) : Unacknowledged(d, chunk)
    BY <1>10 DEF PushRefused, PushLost
  <2>2. proc[d].at = "push" /\ proc'[d].at = "ready"
    BY <1>2, <1>10, <2>1 DEF PushRefused, PushLost, Unacknowledged
  <2> DEFINE entry == [key |-> NewKey, ids |-> DOMAIN chunk]
  <2>3. /\ store'[d].pending = <<entry>>
        /\ \A e \in Devices : \A i \in DOMAIN store[e].pending :
               store[e].pending[i].key # entry.key
        /\ \A e \in Devices \ {d} : store'[e] = store[e]
    BY <2>1, <2>2, Queued
  <2> HIDE DEF entry
  <2> QED
    BY <2>2, <2>3 DEF QueueStep
<1> QED
  BY <1>4, <1>5, <1>6, <1>7, <1>8, <1>9, <1>10 DEF SyncStep

LEMMA NoKill ==
  ASSUME "crash" \notin Faults
  PROVE  \A d : ~Crash(d)
  BY DEF Crash, Fault

LEMMA PendingNext ==
  ASSUME "crash" \notin Faults, IInv, PendingInv, [Next]_vars
  PROVE  PendingInv'
<1>1. CASE UNCHANGED vars \/ DeleteExpired
  <2>1. UNCHANGED <<store, proc>>
    BY <1>1 DEF vars, DeleteExpired
  <2> QED
    BY <2>1 DEF PendingInv, KeysDiffer, Fresh
<1>2. ASSUME NEW d \in Devices, UserStep(d) \/ SyncStep(d)
      PROVE  PendingInv'
  <2>1. /\ QueueStep(d) /\ Fresh(d)'
        /\ \A e \in Devices \ {d} : store'[e] = store[e]
    BY <1>2, StepQueue
  <2>2. KeysDiffer'
    BY <2>1, KeysStayDifferent DEF PendingInv
  <2>3. ASSUME NEW e \in Devices, e # d
        PROVE  Fresh(e)'
    <3>1. UNCHANGED <<proc[e], store[e]>>
      BY <1>2, <2>3, OnlyItsOwn
    <3> QED
      BY <3>1 DEF PendingInv, Fresh
  <2> QED
    BY <2>1, <2>2, <2>3 DEF PendingInv
<1> QED
  BY <1>1, <1>2, NoKill DEF Next

-------------------------------------------------------------------------------
(* The theorem.                                                            *)

LEMMA LossNext ==
  ASSUME "crash" \notin Faults, IInv, IInv', LossInv, PendingInv,
         TodoCurrent, [Next]_vars
  PROVE  LossInv'
<1>1. CASE UNCHANGED vars
  <2>1. UNCHANGED <<rows, seq, commits, store, nextId, idem, bundle>>
    BY <1>1 DEF vars, serverVars, userVars
  <2> QED
    BY <2>1, IdleSafe
<1>2. CASE DeleteExpired
  <2>1. /\ UNCHANGED <<rows, seq, commits, store, nextId, bundle>>
        /\ \A k \in Keys : idem'[k] \in {NoResult, idem[k]}
    BY <1>2 DEF DeleteExpired, userVars
  <2>2. \A k \in Keys : AppliedIn(idem'[k]) \subseteq AppliedIn(idem[k])
    BY <2>1, Empty
  <2> QED
    BY <2>1, <2>2, IdleSafe
<1>3. ASSUME NEW d \in Devices, SyncStart(d) \/ Save(d) \/ Refused(d)
      PROVE  LossInv'
  <2>1. UNCHANGED <<rows, seq, commits, store, nextId, idem, bundle>>
    BY <1>3 DEF SyncStart, Save, Refused, serverVars, userVars
  <2> QED
    BY <2>1, IdleSafe
<1>4. ASSUME NEW d \in Devices, UserStep(d)
      PROVE  LossInv'
  BY <1>3, <1>4, CreateSafe, UpdateSafe, DeleteSafe, ExportSafe, ImportSafe DEF UserStep
<1>5. ASSUME NEW d \in Devices, SyncStep(d)
      PROVE  LossInv'
  <2>1. Fresh(d)
    BY DEF PendingInv
  <2> QED
    BY <1>3, <1>5, <2>1, ReplaySafe, PullSafe, PushSafe, PushRefusedSafe, PushLostSafe,
       ReplayLostSafe
       DEF SyncStep
<1> QED
  BY <1>1, <1>2, <1>3, <1>4, <1>5, NoKill DEF Next

LEMMA LossInit ==
  ASSUME Init
  PROVE  PendingInv /\ LossInv
<1>1. \A d \in Devices : store[d].pending = <<>> /\ store[d].recs = NoRecords
  BY DEF Init, EmptyStore
<1>2. \A d \in Devices : proc[d].at = "ready"
  BY ReadyOK DEF Init
<1>3. PendingInv
  BY <1>1, <1>2 DEF PendingInv, KeysDiffer, Fresh
<1>4. RecordsSafe
  BY <1>1, Empty DEF RecordsSafe
<1>5. CommitsSafe
  BY DEF Init, CommitsSafe
<1>6. BundleSafe
  BY Empty DEF Init, BundleSafe
<1> QED
  BY <1>3, <1>4, <1>5, <1>6 DEF LossInv

LEMMA SafeIsHeld ==
  ASSUME LossInv
  PROVE  LostOnlyToEdits
<1> SUFFICES ASSUME NEW c \in commits, ~Held(c)
             PROVE  LostIn(commits, c.row.body)
  BY DEF LostOnlyToEdits, LostIn
<1>1. Safe(c.row.body, 0)
  BY DEF LossInv, CommitsSafe
<1>2. ~HeldAbove(c.row.body, 0)
  BY DEF HeldAbove, HeldAt, Holds, Held, Everywhere
<1> QED
  BY <1>1, <1>2 DEF Safe

\* Batches that were sent and not answered have keys of their own, on every device, and
\* a replay sends what the device holds now (syncer.go:226-255).
THEOREM PendingHolds ==
  ASSUME "crash" \notin Faults
  PROVE  Spec => []PendingInv
<1>1. Init => PendingInv
  BY LossInit
<1>2. IInv /\ PendingInv /\ [Next]_vars => PendingInv'
  BY PendingNext
<1> QED
  BY <1>1, <1>2, InvHolds, PTL DEF Spec

\* A content the server has accepted stays on the server or on a device, or an edit won
\* over it by its clock, whatever answers and records of answers were lost: a delete
\* that wins has put it into a conflict copy (syncer.go:125-159, README.md:85-88).
THEOREM OnlyEditsLose ==
  ASSUME "crash" \notin Faults
  PROVE  Spec => []LostOnlyToEdits
<1>1. Init => LossInv
  BY LossInit
<1>2. IInv /\ IInv' /\ PendingInv /\ TodoCurrent /\ LossInv /\ [Next]_vars => LossInv'
  BY LossNext
<1>3. LossInv => LostOnlyToEdits
  BY SafeIsHeld
<1> QED
  BY <1>1, <1>2, <1>3, InvHolds, TodoHolds, PendingHolds, PTL DEF Spec

-------------------------------------------------------------------------------
(* The devices implement Replicas.  A third invariant, with kills: a batch  *)
(* and what is recorded of it speak of the same records, in every memory    *)
(* and every file, and what is sent is what the store holds.               *)

Batches(s) == {s.pending[i] : i \in DOMAIN s.pending}

AllBatches == UNION {Batches(store[d]) \union Batches(saved[d]) : d \in Devices}

\* A file may hold a batch that the memory has replayed, and the other way round: then
\* both name the same records.
BatchesOK ==
    /\ \A b, c \in AllBatches : b.key = c.key => b.ids = c.ids
    /\ \A b \in AllBatches : DOMAIN idem[b.key] \subseteq b.ids

\* A record that was committed once has a row.
RowsStay == \A c \in commits : rows[c.id] # NoRow

\* What a push has yet to send was dirty when it was listed; what a replay sends is what
\* the store holds of the first batch.
SentOf(d) ==
    /\ proc[d].at = "push" => \A id \in DOMAIN proc[d].todo : proc[d].todo[id].dirty
    /\ proc[d].at = "replay" =>
           /\ DOMAIN proc[d].todo \subseteq Head(store[d].pending).ids
           /\ Sends(d, proc[d].todo)

BatchInv == BatchesOK /\ RowsStay /\ \A d \in Devices : SentOf(d)

\* A batch that is served becomes rows with new versions.
LEMMA ServedRows ==
  ASSUME IInv, NEW batch, AllGood(commits, seq, nextId, batch), Serve(batch)
  PROVE  /\ Applicable(batch) \subseteq DOMAIN batch /\ DOMAIN batch \subseteq Ids
         /\ \A id \in Ids \ Applicable(batch) : rows'[id] = rows[id]
         /\ \A id \in Applicable(batch) :
                /\ rows'[id] = [version |-> seq + Rank(Applicable(batch), id),
                                deleted |-> batch[id].deleted, body |-> batch[id].body]
                /\ rows'[id].version = seq + Rank(Applicable(batch), id)
                /\ rows'[id].deleted = batch[id].deleted
                /\ rows'[id].body = batch[id].body
                /\ rows'[id].version > seq
         /\ \A a, b \in Applicable(batch) : rows'[a].version = rows'[b].version => a = b
<1> DEFINE app == Applicable(batch)
<1>1. app \subseteq DOMAIN batch /\ DOMAIN batch \subseteq Ids
  BY DEF Applicable, AllGood, IsMap
<1>2. \A id \in Ids \ app : rows'[id] = rows[id]
  BY DEF Serve, RowsAfter
<1>3. \A id \in app : rows'[id] = [version |-> seq + Rank(app, id),
                                   deleted |-> batch[id].deleted, body |-> batch[id].body]
  BY <1>1 DEF Serve, RowsAfter, VersionFor, Rank
<1>4. \A id \in app : /\ rows'[id].version = seq + Rank(app, id)
                      /\ rows'[id].deleted = batch[id].deleted
                      /\ rows'[id].body = batch[id].body
  <2> HIDE DEF app
  <2> TAKE id \in app
  <2>1. rows'[id] = [version |-> seq + Rank(app, id),
                     deleted |-> batch[id].deleted, body |-> batch[id].body]
    BY <1>3
  <2> QED
    BY <2>1
<1>5. seq \in Nat /\ app \in SUBSET Ids /\ Cardinality(app) \in Nat
  BY <1>1, IdsFinite DEF IInv, ServerOK
<1> HIDE DEF app
<1>6. \A id \in app : Rank(app, id) \in 1..Cardinality(app)
  BY <1>5, Ranks
<1>7. \A id \in app : rows'[id].version > seq
  BY <1>4, <1>5, <1>6
<1>8. ASSUME NEW a \in app, NEW b \in app, rows'[a].version = rows'[b].version
      PROVE  a = b
  <2>1. seq + Rank(app, a) = seq + Rank(app, b)
    BY <1>4, <1>8
  <2>2. Rank(app, a) = Rank(app, b)
    <3>1. Rank(app, a) \in Nat /\ Rank(app, b) \in Nat
      BY <1>5, <1>6
    <3> QED
      BY <1>5, <2>1, <3>1
  <2> QED
    BY <1>5, <2>2, Ranks
<1> QED
  BY <1>1, <1>2, <1>3, <1>4, <1>7, <1>8 DEF app

LEMMA RowsStayServed ==
  ASSUME IInv, RowsStay, NEW batch, AllGood(commits, seq, nextId, batch), Serve(batch)
  PROVE  RowsStay'
<1>1. /\ Applicable(batch) \subseteq Ids
      /\ \A id \in Ids \ Applicable(batch) : rows'[id] = rows[id]
      /\ \A id \in Applicable(batch) : rows'[id].version > seq
  BY ServedRows
<1>2. \A id \in Applicable(batch) : rows'[id] # NoRow
  BY <1>1, Empty DEF IInv, ServerOK
<1>3. \A c \in commits : c.id \in Ids
  BY DEF IInv, ServerOK, LogOK
<1>4. \A c \in commits' : c \in commits \/ c.id \in Applicable(batch)
  BY DEF Serve
<1> QED
  BY <1>1, <1>2, <1>3, <1>4 DEF RowsStay

\* What is sent is taken only if it is a change.
LEMMA OnlyDirtyApplies ==
  ASSUME IInv, RowsStay, NEW d \in Devices, NEW batch, Sends(d, batch),
         NEW id \in Applicable(batch), id \in Ids
  PROVE  store[d].recs[id].dirty
<1> SUFFICES ASSUME ~store[d].recs[id].dirty
             PROVE  FALSE
  OBVIOUS
<1>1. /\ id \in DOMAIN store[d].recs /\ batch[id] = store[d].recs[id]
      /\ rows[id].version \in {0, batch[id].base}
  BY DEF Applicable, Sends
<1>2. PICK row \in Row : Committed(commits, id, row) /\ FromServer(row) = store[d].recs[id]
  BY <1>1 DEF IInv, DeviceOK, StoreOK, Clean
<1>3. rows[id].version = 0
  BY <1>1, <1>2 DEF FromServer
<1>4. rows[id] # NoRow
  BY <1>2 DEF Committed, RowsStay
<1>5. rows[id].version >= 1
  BY <1>4 DEF IInv, ServerOK, RowsOK, Committed, LogOK
<1> QED
  BY <1>3, <1>5

\* The server takes what a device sends as Replicas says.
LEMMA ServedIsAccepted ==
  ASSUME IInv, RowsStay, NEW d \in Devices, NEW batch, Sends(d, batch),
         AllGood(commits, seq, nextId, batch), Serve(batch), nextId' = nextId
  PROVE  Promise!Accept(d) /\ Promise!Accepted = Applicable(batch)
<1> DEFINE app == Applicable(batch)
           mine == store[d].recs
<1>1. /\ app \subseteq DOMAIN batch /\ DOMAIN batch \subseteq Ids
      /\ \A id \in Ids \ app : rows'[id] = rows[id]
      /\ \A id \in app : /\ rows'[id].deleted = batch[id].deleted
                         /\ rows'[id].body = batch[id].body
                         /\ rows'[id].version > seq
      /\ \A a, b \in app : rows'[a].version = rows'[b].version => a = b
  BY ServedRows
<1>2. \A id \in app : id \in DOMAIN mine /\ batch[id] = mine[id]
  BY <1>1 DEF Sends
<1>3. \A id \in app : mine[id].dirty
  BY <1>1, OnlyDirtyApplies
<1>4. \A id \in app : rows[id].deleted => mine[id].deleted
  <2>1. \A id \in Ids : rows[id].deleted => rows'[id].deleted
    BY ServeOK DEF IInv
  <2> QED
    BY <1>1, <1>2, <2>1
<1>5. \A id \in app : rows[id].version \in {0, mine[id].base}
  BY <1>2 DEF Applicable
<1>6. seq \in Nat /\ \A p \in commits : p.row.version \in Nat /\ p.row.version <= seq
  BY DEF IInv, ServerOK, LogOK
<1>7. \A id \in app : rows'[id].version \in Nat
  <2>1. rows' \in [Ids -> Row]
    BY ServeOK DEF IInv, RowsOK
  <2> QED
    BY <1>1, <2>1 DEF Row
<1>8. commits' = commits \union {[id |-> id, base |-> mine[id].base, row |-> rows'[id]] : id \in app}
  <2>1. commits' = commits \union {[id |-> id, base |-> batch[id].base, row |-> rows'[id]] : id \in app}
    BY DEF Serve
  <2> QED
    BY <1>2, <2>1
<1>9. Promise!Accepted = app
  <2>1. \A id \in Ids : rows[id].version \in Nat /\ rows[id].version <= seq
    BY <1>6, Empty DEF IInv, ServerOK, RowsOK, Committed, Row
  <2>2. \A id \in app : rows'[id] # rows[id]
    BY <1>1, <1>6, <2>1
  <2> QED
    BY <1>1, <2>2 DEF Promise!Accepted
<1>10. \A id \in app : \A p \in commits : p.row.version < rows'[id].version
  BY <1>1, <1>6, <1>7
<1> HIDE DEF app
<1> QED
  BY <1>1, <1>2, <1>3, <1>4, <1>5, <1>8, <1>9, <1>10 DEF Promise!Accept, app

\* Nothing is put into a queue but a batch with a new key.
LEMMA BatchesStay ==
  ASSUME IInv, BatchesOK, DOMAIN store' = Devices, DOMAIN saved' = Devices,
         NEW new,
         \A b \in new : /\ DOMAIN idem'[b.key] \subseteq b.ids
                        /\ \A c \in AllBatches : c.key # b.key
                        /\ \A c \in new : c = b,
         AllBatches' \subseteq AllBatches \union new,
         \A b \in AllBatches :
             \/ DOMAIN idem'[b.key] \subseteq DOMAIN idem[b.key]
             \/ DOMAIN idem'[b.key] \subseteq b.ids
  PROVE  BatchesOK'
<1>1. ASSUME NEW b \in AllBatches', NEW c \in AllBatches', b.key = c.key
      PROVE  b.ids = c.ids
  BY <1>1 DEF BatchesOK
<1>2. ASSUME NEW b \in AllBatches'
      PROVE  DOMAIN idem'[b.key] \subseteq b.ids
  <2>1. CASE b \in AllBatches
    BY <2>1 DEF BatchesOK
  <2>2. CASE b \in new
    BY <2>2
  <2> QED
    BY <1>2, <2>1, <2>2
<1> QED
  BY <1>1, <1>2 DEF BatchesOK

\* A step of d that takes batches away at most.
LEMMA QueueShrinks ==
  ASSUME IInv, NEW d \in Devices, DOMAIN store' = Devices, DOMAIN saved' = Devices,
         \A e \in Devices \ {d} : UNCHANGED <<store[e], saved[e]>>,
         Batches(store'[d]) \subseteq Batches(store[d]) \union Batches(saved[d]),
         Batches(saved'[d]) \subseteq Batches(store[d]) \union Batches(saved[d])
  PROVE  AllBatches' \subseteq AllBatches
<1> SUFFICES ASSUME NEW e \in Devices,
                    NEW b \in Batches(store'[e]) \union Batches(saved'[e])
             PROVE  b \in AllBatches
  BY DEF AllBatches
<1>1. \E f \in Devices : b \in Batches(store[f]) \union Batches(saved[f])
  <2>1. CASE e = d
    BY <2>1
  <2>2. CASE e # d
    BY <2>2
  <2> QED
    BY <2>1, <2>2
<1> QED
  BY <1>1 DEF AllBatches

LEMMA QueueFacts ==
  ASSUME IInv, NEW d \in Devices
  PROVE  /\ store[d].pending \in Seq(Pending) /\ saved[d].pending \in Seq(Pending)
         /\ Batches(store[d]) \subseteq AllBatches
         /\ \A b \in AllBatches : b \in Pending
         /\ proc[d].at = "replay" => Head(store[d].pending) \in Batches(store[d])
<1>1. \A e \in Devices : store[e].pending \in Seq(Pending) /\ saved[e].pending \in Seq(Pending)
  BY DEF IInv, DeviceOK, StoreOK, IsStore, Pending
<1>2. ASSUME NEW b \in AllBatches
      PROVE  b \in Pending
  <2>1. PICK e \in Devices : b \in Batches(store[e]) \union Batches(saved[e])
    BY DEF AllBatches
  <2>2. ASSUME NEW queue \in Seq(Pending), NEW i \in DOMAIN queue
        PROVE  queue[i] \in Pending
    OBVIOUS
  <2> QED
    BY <1>1, <2>1, <2>2 DEF Batches
<1>3. ASSUME proc[d].at = "replay"
      PROVE  Head(store[d].pending) \in Batches(store[d])
  <2>1. store[d].pending # <<>>
    BY <1>3 DEF IInv, DeviceOK, ProcOK
  <2>2. 1 \in DOMAIN store[d].pending /\ Head(store[d].pending) = store[d].pending[1]
    BY <1>1, <2>1
  <2> QED
    BY <2>2 DEF Batches
<1> QED
  BY <1>1, <1>2, <1>3 DEF AllBatches

LEMMA TailBatches ==
  ASSUME NEW s, NEW t, s.pending \in Seq(Pending), s.pending # <<>>, t.pending = Tail(s.pending)
  PROVE  Batches(t) \subseteq Batches(s)
<1> SUFFICES ASSUME NEW i \in DOMAIN Tail(s.pending)
             PROVE  Tail(s.pending)[i] \in Batches(s)
  BY DEF Batches
<1>1. i + 1 \in DOMAIN s.pending /\ Tail(s.pending)[i] = s.pending[i + 1]
  OBVIOUS
<1> QED
  BY <1>1 DEF Batches

LEMMA AppendedBatches ==
  ASSUME NEW s, NEW t, s.pending \in Seq(Pending), NEW entry \in Pending,
         t.pending = Append(s.pending, entry)
  PROVE  Batches(t) = Batches(s) \union {entry}
<1> DEFINE n == Len(s.pending)
<1>1. /\ DOMAIN t.pending = DOMAIN s.pending \union {n + 1}
      /\ t.pending[n + 1] = entry
      /\ \A i \in DOMAIN s.pending : t.pending[i] = s.pending[i]
  OBVIOUS
<1> QED
  BY <1>1 DEF Batches

LEMMA AwaitedIs ==
  ASSUME NEW s
  PROVE  Awaited(s) = UNION {b.ids : b \in Batches(s)}
BY DEF Awaited, Batches

\* The next batch of a replay is the first of the queue, as the store has its records.
LEMMA NextIsSent ==
  ASSUME NEW d, proc'[d] = ReplayOrPull(store'[d])
  PROVE  SentOf(d)'
<1>1. CASE store'[d].pending = <<>>
  <2>1. proc'[d].at = "pull"
    BY <1>1 DEF ReplayOrPull, Ready
  <2> QED
    BY <2>1 DEF SentOf
<1>2. CASE store'[d].pending # <<>>
  <2> DEFINE ids == Head(store'[d].pending).ids \intersect DOMAIN store'[d].recs
  <2>1. proc'[d].at = "replay" /\ proc'[d].todo = Restrict(store'[d].recs, ids)
    BY <1>2 DEF ReplayOrPull, Ready
  <2>2. ids \subseteq DOMAIN store'[d].recs /\ ids \subseteq Head(store'[d].pending).ids
    OBVIOUS
  <2> HIDE DEF ids
  <2>3. /\ DOMAIN proc'[d].todo \subseteq ids
        /\ \A id \in DOMAIN proc'[d].todo :
               id \in DOMAIN store'[d].recs /\ store'[d].recs[id] = proc'[d].todo[id]
    BY <2>1, <2>2 DEF Restrict
  <2> QED
    BY <2>1, <2>2, <2>3 DEF SentOf, Sends
<1> QED
  BY <1>1, <1>2

\* A batch, or a part of it, is served, and what is recorded of it speaks of no more.
LEMMA UnansweredServes ==
  ASSUME IInv, NEW d \in Devices, NEW batch, AllGood(commits, seq, nextId, batch),
         Sends(d, batch), NEW key \in Keys, Unanswered(batch, key)
  PROVE  /\ \E part : /\ Sends(d, part) /\ AllGood(commits, seq, nextId, part) /\ Serve(part)
                      /\ DOMAIN part \subseteq DOMAIN batch
         /\ DOMAIN idem'[key] \subseteq DOMAIN batch
         /\ \A k \in Keys \ {key} : idem'[k] = idem[k]
<1>1. DOMAIN idem = Keys
  BY DEF IInv, ServerOK
<1>2. CASE Serve(batch) /\ idem' = [idem EXCEPT ![key] = Results(batch)]
  <2>1. DOMAIN Results(batch) = DOMAIN batch
    BY DEF Results
  <2>2. idem'[key] = Results(batch) /\ \A k \in Keys \ {key} : idem'[k] = idem[k]
    BY <1>1, <1>2
  <2> QED
    BY <1>2, <2>1, <2>2
<1>3. ASSUME NEW part \in SUBSET DOMAIN batch, Serve(Restrict(batch, part)),
             idem' = [idem EXCEPT ![key] = NoResult]
      PROVE  /\ \E p : /\ Sends(d, p) /\ AllGood(commits, seq, nextId, p) /\ Serve(p)
                       /\ DOMAIN p \subseteq DOMAIN batch
             /\ DOMAIN idem'[key] \subseteq DOMAIN batch
             /\ \A k \in Keys \ {key} : idem'[k] = idem[k]
  <2>1. /\ Sends(d, Restrict(batch, part)) /\ DOMAIN Restrict(batch, part) = part
        /\ AllGood(commits, seq, nextId, Restrict(batch, part))
    BY SendsPart, RestrictGood
  <2>2. DOMAIN NoResult = {}
    BY DEF NoResult
  <2>3. idem'[key] = NoResult /\ \A k \in Keys \ {key} : idem'[k] = idem[k]
    BY <1>1, <1>3
  <2> QED
    BY <1>3, <2>1, <2>2, <2>3
<1> QED
  BY <1>2, <1>3 DEF Unanswered

\* A push that is not answered: some of its chunk was served, and all of it waits.
Waits(d, chunk) ==
    /\ \E part : /\ Sends(d, part) /\ AllGood(commits, seq, nextId, part) /\ Serve(part)
                 /\ DOMAIN part \subseteq DOMAIN chunk
    /\ DOMAIN idem'[NewKey] \subseteq DOMAIN chunk
    /\ \A k \in Keys \ {NewKey} : idem'[k] = idem[k]

LEMMA PushWaits ==
  ASSUME IInv, TodoCurrent, BatchInv, NEW d \in Devices, PushRefused(d) \/ PushLost(d)
  PROVE  \E chunk \in Chunks(d) :
             /\ Waits(d, chunk)
             /\ Sends(d, chunk) /\ \A id \in DOMAIN chunk : store[d].recs[id].dirty
             /\ NewKey \in Keys /\ FreshKey(NewKey) /\ DOMAIN chunk \in SUBSET Ids
             /\ store'[d].recs = store[d].recs
             /\ store'[d].pending =
                    Append(store[d].pending, [key |-> NewKey, ids |-> DOMAIN chunk])
             /\ \A e \in Devices \ {d} : store'[e] = store[e]
             /\ UNCHANGED <<saved, nextId>> /\ Finish(d)
<1>1. PICK chunk \in Chunks(d) :
          /\ Unacknowledged(d, chunk)
          /\ \/ Unanswered(chunk, NewKey)
             \/ UNCHANGED <<rows, seq, commits>> /\ idem' = [idem EXCEPT ![NewKey] = NoResult]
  BY DEF PushRefused, PushLost
<1>2. proc[d].at = "push"
  BY DEF PushRefused, PushLost
<1>3. NewKey \in Keys /\ FreshKey(NewKey)
  <2>1. \E key \in Keys : FreshKey(key)
    BY <1>1 DEF Unacknowledged
  <2> QED
    BY <2>1 DEF NewKey
<1>4. /\ AllGood(commits, seq, nextId, chunk) /\ DOMAIN chunk \subseteq DOMAIN proc[d].todo
      /\ Sends(d, chunk)
  BY <1>2, ChunkOK, ChunkSends
<1>5. \A id \in DOMAIN chunk : store[d].recs[id].dirty
  BY <1>2, <1>4 DEF BatchInv, SentOf, TodoCurrent, TodoOf
<1>6. Waits(d, chunk)
  <2>1. CASE Unanswered(chunk, NewKey)
    BY <1>3, <1>4, <2>1, UnansweredServes DEF Waits
  <2>2. CASE /\ UNCHANGED <<rows, seq, commits>>
             /\ idem' = [idem EXCEPT ![NewKey] = NoResult]
    <3>1. Serve(NoRecords) /\ Sends(d, NoRecords) /\ DOMAIN NoRecords = {}
      BY <2>2, ServeNothing, Empty
    <3>2. AllGood(commits, seq, nextId, NoRecords)
      BY EmptyGood
    <3>3. DOMAIN idem = Keys /\ DOMAIN NoResult = {}
      BY DEF IInv, ServerOK, NoResult
    <3> QED
      BY <1>3, <2>2, <3>1, <3>2, <3>3 DEF Waits
  <2> QED
    BY <1>1, <2>1, <2>2
<1>7. DOMAIN chunk \in SUBSET Ids
  BY <1>4 DEF AllGood, IsMap
<1> DEFINE entry == [key |-> NewKey, ids |-> DOMAIN chunk]
<1>8. store' = [store EXCEPT ![d].pending = Append(@, entry)]
      /\ UNCHANGED <<saved, nextId>> /\ Finish(d)
  BY <1>1 DEF Unacknowledged
<1> HIDE DEF entry
<1>9. /\ store'[d].recs = store[d].recs
      /\ store'[d].pending = Append(store[d].pending, entry)
      /\ \A e \in Devices \ {d} : store'[e] = store[e]
  BY <1>8 DEF IInv, DeviceOK, StoreOK, IsStore
<1> QED
  BY <1>3, <1>4, <1>5, <1>6, <1>7, <1>8, <1>9 DEF entry

\* The replay of a batch that is not answered.
LEMMA ReplayWaits ==
  ASSUME IInv, BatchInv, NEW d \in Devices, ReplayLost(d)
  PROVE  LET first == Head(store[d].pending)
         IN  /\ first \in Batches(store[d]) /\ first \in Pending
             /\ DOMAIN proc[d].todo \subseteq first.ids
             /\ \E part : /\ Sends(d, part) /\ AllGood(commits, seq, nextId, part) /\ Serve(part)
                          /\ DOMAIN part \subseteq first.ids
             /\ DOMAIN idem'[first.key] \subseteq first.ids
             /\ \A k \in Keys \ {first.key} : idem'[k] = idem[k]
             /\ UNCHANGED <<store, saved, nextId>> /\ Finish(d)
<1> DEFINE first == Head(store[d].pending)
<1>1. /\ proc[d].at = "replay" /\ Unanswered(proc[d].todo, first.key)
      /\ UNCHANGED <<store, saved, nextId>> /\ Finish(d)
  BY DEF ReplayLost
<1>2. first \in Batches(store[d]) /\ first \in Pending
  BY <1>1, QueueFacts
<1>3. first.key \in Keys
  BY <1>2 DEF Pending
<1>4. /\ AllGood(commits, seq, nextId, proc[d].todo) /\ Sends(d, proc[d].todo)
      /\ DOMAIN proc[d].todo \subseteq first.ids
  BY <1>1 DEF IInv, DeviceOK, ProcOK, BatchInv, SentOf
<1> HIDE DEF first
<1> QED
  BY <1>1, <1>2, <1>3, <1>4, UnansweredServes DEF first

\* An answer to the first batch of the queue.
Answers(d, first, batch, results) ==
    /\ Sends(d, batch) /\ AllGood(commits, seq, nextId, batch) /\ Serve(batch)
    /\ DOMAIN batch \subseteq first.ids
    /\ DOMAIN results \subseteq first.ids
    /\ ResultsOK(commits', results)
    /\ Applicable(batch) \subseteq AppliedIn(results)
    /\ store'[d].recs = ApplyResults(store[d], results).recs
    /\ DOMAIN idem'[first.key] \subseteq first.ids

LEMMA ReplayAnswers ==
  ASSUME IInv, BatchInv, NEW d \in Devices, Replay(d)
  PROVE  LET first == Head(store[d].pending)
         IN  /\ first \in Batches(store[d]) /\ first \in Pending /\ store[d].pending # <<>>
             /\ \E batch, results : Answers(d, first, batch, results)
             /\ \A k \in Keys \ {first.key} : idem'[k] = idem[k]
             /\ store'[d].pending = Tail(store[d].pending)
             /\ proc'[d] = ReplayOrPull(store'[d])
             /\ \A e \in Devices \ {d} : store'[e] = store[e] /\ proc'[e] = proc[e]
             /\ UNCHANGED <<saved, nextId>>
<1> DEFINE first == Head(store[d].pending)
           key == first.key
           batch == proc[d].todo
           results == IF Recorded(key) THEN idem[key] ELSE Results(batch)
           after == [ApplyResults(store[d], results) EXCEPT !.pending = Tail(@)]
<1>1. /\ proc[d].at = "replay" /\ UNCHANGED <<saved, nextId>>
      /\ store' = [store EXCEPT ![d] = after]
      /\ proc' = [proc EXCEPT ![d] = ReplayOrPull(after)]
      /\ IF Recorded(key)
         THEN UNCHANGED serverVars
         ELSE Serve(batch) /\ idem' = [idem EXCEPT ![key] = results]
  BY DEF Replay
<1>2. store'[d] = after /\ proc'[d] = ReplayOrPull(store'[d])
      /\ \A e \in Devices \ {d} : store'[e] = store[e] /\ proc'[e] = proc[e]
  BY <1>1 DEF IInv
<1>3. /\ after.recs = ApplyResults(store[d], results).recs
      /\ after.pending = Tail(store[d].pending)
  BY DEF IInv, DeviceOK, StoreOK, IsStore, ApplyResults
<1>4. first \in Batches(store[d]) /\ first \in Pending /\ store[d].pending # <<>>
  BY <1>1, QueueFacts DEF IInv, DeviceOK, ProcOK
<1>5. key \in Keys /\ DOMAIN idem[key] \subseteq first.ids
  BY <1>4, QueueFacts DEF Pending, BatchInv, BatchesOK
<1>6. /\ AllGood(commits, seq, nextId, batch) /\ Sends(d, batch)
      /\ DOMAIN batch \subseteq first.ids
  BY <1>1 DEF IInv, DeviceOK, ProcOK, BatchInv, SentOf
<1>7. DOMAIN idem = Keys
  BY DEF IInv, ServerOK
<1> HIDE DEF first, key, batch, results, after
<1>8. CASE Recorded(key)
  <2>1. UNCHANGED <<rows, seq, idem, commits>> /\ results = idem[key]
    BY <1>1, <1>8 DEF serverVars, results
  <2>2. ResultsOK(commits', results)
    BY <1>5, <2>1 DEF IInv, ServerOK
  <2>3. /\ Serve(NoRecords) /\ Sends(d, NoRecords) /\ DOMAIN NoRecords = {}
        /\ Applicable(NoRecords) = {} /\ AllGood(commits, seq, nextId, NoRecords)
    BY <2>1, ServeNothing, Empty, EmptyGood
  <2>4. DOMAIN results \subseteq first.ids /\ DOMAIN idem'[first.key] \subseteq first.ids
    BY <1>5, <2>1 DEF key
  <2>5. Answers(d, first, NoRecords, results)
    BY <1>2, <1>3, <2>2, <2>3, <2>4 DEF Answers
  <2> QED
    BY <1>1, <1>2, <1>3, <1>4, <2>1, <2>5 DEF first
<1>9. CASE ~Recorded(key)
  <2>1. Serve(batch) /\ results = Results(batch) /\ idem' = [idem EXCEPT ![key] = results]
    BY <1>1, <1>9 DEF results
  <2>2. ResultsOK(commits', results) /\ AppliedIn(results) = Applicable(batch)
    BY <1>1, <1>6, <2>1, ServeOK DEF IInv
  <2>3. DOMAIN results \subseteq first.ids
    BY <1>6, <2>1 DEF Results
  <2>4. idem'[key] = results /\ \A k \in Keys \ {key} : idem'[k] = idem[k]
    BY <1>5, <1>7, <2>1
  <2>5. Answers(d, first, batch, results)
    BY <1>2, <1>3, <1>6, <2>1, <2>2, <2>3, <2>4 DEF Answers, key
  <2> QED
    BY <1>1, <1>2, <1>3, <1>4, <2>4, <2>5 DEF first, key
<1> QED
  BY <1>8, <1>9

\* A step of d leaves the other devices and their files alone.
Elsewhere(d) == \A e \in Devices \ {d} : UNCHANGED <<store[e], saved[e], proc[e]>>

LEMMA StepElsewhere ==
  ASSUME IInv, NEW d \in Devices, UserStep(d) \/ SyncStep(d) \/ Crash(d)
  PROVE  Elsewhere(d)
<1>1. \A e \in Devices \ {d} : UNCHANGED <<store[e], proc[e]>>
  BY OnlyItsOwn
<1>2. UNCHANGED saved \/ saved' = [saved EXCEPT ![d] = store[d]]
  BY DEF UserStep, Create, Update, Delete, Export, Import, SyncStart, Save, Edit, Crash,
         SyncStep, Replay, Pull, Push, Refused, PushRefused, PushLost, ReplayLost,
         Unacknowledged
<1>3. \A e \in Devices \ {d} : UNCHANGED saved[e]
  BY <1>2 DEF IInv
<1> QED
  BY <1>1, <1>3 DEF Elsewhere

\* What a step of d has to show.
LEMMA BatchStep ==
  ASSUME IInv, IInv', BatchInv, NEW d \in Devices, Elsewhere(d),
         Batches(store'[d]) \subseteq Batches(store[d]) \union Batches(saved[d]),
         Batches(saved'[d]) \subseteq Batches(store[d]) \union Batches(saved[d]),
         \A b \in AllBatches : \/ DOMAIN idem'[b.key] \subseteq DOMAIN idem[b.key]
                               \/ DOMAIN idem'[b.key] \subseteq b.ids,
         RowsStay', SentOf(d)'
  PROVE  BatchInv'
<1>1. AllBatches' \subseteq AllBatches
  BY QueueShrinks DEF Elsewhere, IInv
<1>2. BatchesOK'
  <2> DEFINE new == {}
  <2>1. /\ AllBatches' \subseteq AllBatches \union new
        /\ \A b \in new : /\ DOMAIN idem'[b.key] \subseteq b.ids
                          /\ \A c \in AllBatches : c.key # b.key
                          /\ \A c \in new : c = b
    BY <1>1
  <2>2. DOMAIN store' = Devices /\ DOMAIN saved' = Devices /\ BatchesOK
    BY DEF IInv, BatchInv
  <2> HIDE DEF new
  <2> QED
    BY <2>1, <2>2, BatchesStay
<1>3. ASSUME NEW e \in Devices PROVE SentOf(e)'
  <2>1. CASE e # d
    BY <2>1 DEF Elsewhere, BatchInv, SentOf, Sends
  <2> QED
    BY <2>1
<1> QED
  BY <1>2, <1>3 DEF BatchInv

\* A device at rest has nothing to send.
LEMMA RestSends ==
  ASSUME NEW d, proc'[d].at \in {"ready", "pull"}
  PROVE  SentOf(d)'
  BY DEF SentOf

LEMMA FinishRests ==
  ASSUME IInv, NEW d \in Devices, Finish(d)
  PROVE  proc'[d].at = "ready"
  BY ReadyOK DEF IInv, Finish

\* The server has nothing to do with it.
LEMMA QuietBatches ==
  ASSUME IInv, IInv', BatchInv, NEW d \in Devices,
         UserStep(d) \/ Crash(d) \/ Refused(d) \/ Pull(d)
  PROVE  BatchInv'
<1>1. Elsewhere(d)
  BY StepElsewhere DEF SyncStep
<1>2. UNCHANGED <<rows, idem, commits>>
  BY DEF UserStep, Create, Update, Delete, Export, Import, SyncStart, Save, Edit, Crash,
         Pull, Refused, serverVars
<1>3. RowsStay'
  BY <1>2 DEF BatchInv, RowsStay
<1>4. \A b \in AllBatches : DOMAIN idem'[b.key] \subseteq DOMAIN idem[b.key]
  BY <1>2
<1> SUFFICES /\ Batches(store'[d]) \subseteq Batches(store[d]) \union Batches(saved[d])
             /\ Batches(saved'[d]) \subseteq Batches(store[d]) \union Batches(saved[d])
             /\ SentOf(d)'
  BY <1>1, <1>3, <1>4, BatchStep
<1>5. DOMAIN store = Devices /\ DOMAIN saved = Devices /\ DOMAIN proc = Devices
  BY DEF IInv
<1>6. CASE UserStep(d) /\ ~SyncStart(d) /\ ~Save(d)
  <2>1. UNCHANGED <<saved, proc>> /\ store'[d].pending = store[d].pending
    <3>1. CASE \E id, rec : Edit(d, id, rec)
      BY <1>6, <3>1, EditKeeps DEF Edit
    <3>2. CASE Export(d)
      BY <3>2 DEF Export
    <3>3. CASE Import(d)
      BY <3>3 DEF Import, IInv, DeviceOK, StoreOK, IsStore
    <3> QED
      BY <1>6, <3>1, <3>2, <3>3 DEF UserStep, Create, Update, Delete
  <2>2. proc'[d].at = "ready"
    BY <1>6, <2>1 DEF UserStep
  <2> QED
    BY <2>1, <2>2, RestSends DEF Batches
<1>7. CASE SyncStart(d)
  <2>1. UNCHANGED <<store, saved>> /\ proc'[d] = ReplayOrPull(store'[d])
    BY <1>5, <1>7 DEF SyncStart
  <2> QED
    BY <2>1, NextIsSent
<1>8. CASE UserStep(d) /\ Save(d)
  <2>1. UNCHANGED <<store, proc>> /\ saved'[d] = store[d] /\ proc[d].at = "ready"
    BY <1>5, <1>8 DEF Save
  <2> QED
    BY <2>1, RestSends
<1>9. CASE Crash(d)
  <2>1. UNCHANGED saved /\ store'[d] = saved[d] /\ Finish(d)
    BY <1>5, <1>9 DEF Crash, Finish
  <2> QED
    BY <2>1, FinishRests, RestSends
<1>10. CASE Refused(d)
  <2>1. UNCHANGED <<store, saved>> /\ Finish(d)
    BY <1>10 DEF Refused
  <2> QED
    BY <2>1, FinishRests, RestSends
<1>11. CASE Pull(d)
  <2>1. UNCHANGED saved /\ store'[d].pending = store[d].pending
    <3>1. AfterPull(d).pending = store[d].pending
      BY DEF AfterPull, IInv, DeviceOK, StoreOK, IsStore
    <3> QED
      BY <1>5, <1>11, <3>1 DEF Pull
  <2>2. SentOf(d)'
    <3>1. CASE Finish(d)
      BY <3>1, FinishRests, RestSends
    <3>2. CASE proc' = [proc EXCEPT ![d].at = "push",
                                    ![d].todo = Restrict(store'[d].recs, DirtyIds(d)'),
                                    ![d].conflicts = FALSE]
      <4>1. DOMAIN proc[d] = {"at", "iter", "todo", "conflicts"}
        BY DEF IInv, DeviceOK, ProcOK
      <4>2. proc'[d].at = "push" /\ proc'[d].todo = Restrict(store'[d].recs, DirtyIds(d)')
        BY <1>5, <3>2, <4>1
      <4>3. DirtyIds(d)' \subseteq DOMAIN store'[d].recs
        BY DEF DirtyIds
      <4>4. \A id \in DOMAIN proc'[d].todo : proc'[d].todo[id].dirty
        BY <4>2, <4>3 DEF Restrict, DirtyIds
      <4> QED
        BY <4>2, <4>4 DEF SentOf
    <3> QED
      BY <1>11, <3>1, <3>2, PulledNext
  <2> QED
    BY <2>1, <2>2 DEF Batches
<1> QED
  BY <1>6, <1>7, <1>8, <1>9, <1>10, <1>11

LEMMA PushBatches ==
  ASSUME IInv, IInv', BatchInv, NEW d \in Devices, Push(d)
  PROVE  BatchInv'
<1>1. PICK chunk \in Chunks(d) :
          /\ Serve(chunk)
          /\ store' = [store EXCEPT ![d] = ApplyResults(@, Results(chunk))]
          /\ \/ proc' = [proc EXCEPT ![d].todo = Without(proc[d].todo, chunk),
                                     ![d].conflicts =
                                         proc[d].conflicts \/ HadConflicts(Results(chunk))]
             \/ proc' = [proc EXCEPT ![d] =
                            [Ready EXCEPT !.at = "pull", !.iter = proc[d].iter + 1]]
             \/ Finish(d)
  BY DEF Push
<1>2. proc[d].at = "push" /\ UNCHANGED <<idem, saved, nextId>>
  BY DEF Push
<1>3. RowsStay'
  BY <1>1, ChunkOK, RowsStayServed DEF BatchInv
<1>4. store'[d].pending = store[d].pending
  BY <1>1 DEF ApplyResults, IInv, DeviceOK, StoreOK, IsStore
<1>5. SentOf(d)'
  <2>1. DOMAIN proc = Devices /\ DOMAIN proc[d] = {"at", "iter", "todo", "conflicts"}
    BY DEF IInv, DeviceOK, ProcOK
  <2>2. CASE proc' = [proc EXCEPT ![d].todo = Without(proc[d].todo, chunk),
                                  ![d].conflicts =
                                      proc[d].conflicts \/ HadConflicts(Results(chunk))]
    <3>1. proc'[d].at = "push" /\ proc'[d].todo = Without(proc[d].todo, chunk)
      BY <1>2, <2>1, <2>2
    <3>2. \A id \in DOMAIN proc'[d].todo :
              id \in DOMAIN proc[d].todo /\ proc'[d].todo[id] = proc[d].todo[id]
      BY <3>1 DEF Without, Restrict
    <3> QED
      BY <1>2, <3>1, <3>2 DEF BatchInv, SentOf
  <2>3. CASE proc' = [proc EXCEPT ![d] =
                         [Ready EXCEPT !.at = "pull", !.iter = proc[d].iter + 1]]
    <3>1. proc'[d].at = "pull"
      BY <2>1, <2>3 DEF Ready
    <3> QED
      BY <3>1, RestSends
  <2>4. CASE Finish(d)
    BY <2>4, FinishRests, RestSends
  <2> QED
    BY <1>1, <2>2, <2>3, <2>4
<1>6. Elsewhere(d)
  BY StepElsewhere DEF SyncStep
<1>7. Batches(store'[d]) = Batches(store[d]) /\ Batches(saved'[d]) = Batches(saved[d])
  BY <1>2, <1>4 DEF Batches
<1> QED
  BY <1>2, <1>3, <1>5, <1>6, <1>7, BatchStep

LEMMA ReplayBatches ==
  ASSUME IInv, IInv', BatchInv, NEW d \in Devices, Replay(d) \/ ReplayLost(d)
  PROVE  BatchInv'
<1> DEFINE first == Head(store[d].pending)
<1>1. /\ first \in Batches(store[d]) /\ first \in Pending
      /\ \E batch : AllGood(commits, seq, nextId, batch) /\ Serve(batch)
      /\ DOMAIN idem'[first.key] \subseteq first.ids
      /\ \A k \in Keys \ {first.key} : idem'[k] = idem[k]
      /\ UNCHANGED saved
      /\ Batches(store'[d]) \subseteq Batches(store[d])
      /\ SentOf(d)'
  <2>1. CASE Replay(d)
    <3>1. /\ first \in Batches(store[d]) /\ first \in Pending /\ store[d].pending # <<>>
          /\ \E batch, results : Answers(d, first, batch, results)
          /\ \A k \in Keys \ {first.key} : idem'[k] = idem[k]
          /\ store'[d].pending = Tail(store[d].pending)
          /\ proc'[d] = ReplayOrPull(store'[d])
          /\ UNCHANGED saved
      BY <2>1, ReplayAnswers
    <3>2. Batches(store'[d]) \subseteq Batches(store[d])
      BY <3>1, QueueFacts, TailBatches
    <3> HIDE DEF first
    <3> QED
      BY <3>1, <3>2, NextIsSent DEF Answers
  <2>2. CASE ReplayLost(d)
    <3>1. UNCHANGED store /\ SentOf(d)'
      BY <2>2, ReplayWaits, FinishRests, RestSends
    <3> QED
      BY <2>2, <3>1, ReplayWaits
  <2> QED
    BY <2>1, <2>2
<1> HIDE DEF first
<1>2. RowsStay'
  BY <1>1, RowsStayServed DEF BatchInv
<1>3. \A b \in AllBatches : \/ DOMAIN idem'[b.key] \subseteq DOMAIN idem[b.key]
                            \/ DOMAIN idem'[b.key] \subseteq b.ids
  <2> TAKE b \in AllBatches
  <2>1. b.key \in Keys /\ first \in AllBatches
    BY <1>1, QueueFacts DEF Pending
  <2>2. b.key = first.key => b.ids = first.ids
    BY <2>1 DEF BatchInv, BatchesOK
  <2> QED
    BY <1>1, <2>1, <2>2
<1>4. Elsewhere(d)
  BY StepElsewhere DEF SyncStep
<1> QED
  BY <1>1, <1>2, <1>3, <1>4, BatchStep

LEMMA WaitingBatches ==
  ASSUME IInv, IInv', TodoCurrent, BatchInv, NEW d \in Devices, PushRefused(d) \/ PushLost(d)
  PROVE  BatchInv'
<1>1. PICK chunk \in Chunks(d) :
          /\ Waits(d, chunk)
          /\ NewKey \in Keys /\ FreshKey(NewKey) /\ DOMAIN chunk \in SUBSET Ids
          /\ store'[d].pending =
                 Append(store[d].pending, [key |-> NewKey, ids |-> DOMAIN chunk])
          /\ \A e \in Devices \ {d} : store'[e] = store[e]
          /\ UNCHANGED saved /\ Finish(d)
  BY PushWaits
<1> DEFINE entry == [key |-> NewKey, ids |-> DOMAIN chunk]
           new == {entry}
<1>2. entry \in Pending /\ entry.key = NewKey /\ entry.ids = DOMAIN chunk
  BY <1>1 DEF Pending
<1>3. store'[d].pending = Append(store[d].pending, entry)
  BY <1>1
<1> HIDE DEF entry
<1>4. Batches(store'[d]) = Batches(store[d]) \union {entry}
  BY <1>2, <1>3, QueueFacts, AppendedBatches
<1>5. AllBatches' \subseteq AllBatches \union new
  <2> SUFFICES ASSUME NEW e \in Devices,
                      NEW b \in Batches(store'[e]) \union Batches(saved'[e]), b # entry
               PROVE  b \in AllBatches
    BY DEF AllBatches
  <2>1. b \in Batches(store[e]) \union Batches(saved[e])
    BY <1>1, <1>4
  <2> QED
    BY <2>1 DEF AllBatches
<1>6. \A c \in AllBatches : c.key # NewKey
  BY <1>1 DEF FreshKey, AllBatches, Batches
<1>7. BatchesOK'
  <2>1. \A b \in new : /\ DOMAIN idem'[b.key] \subseteq b.ids
                       /\ \A c \in AllBatches : c.key # b.key
                       /\ \A c \in new : c = b
    BY <1>1, <1>2, <1>6 DEF Waits
  <2>2. \A b \in AllBatches : DOMAIN idem'[b.key] \subseteq DOMAIN idem[b.key]
    <3>1. \A b \in AllBatches : b.key \in Keys
      BY QueueFacts DEF Pending
    <3> QED
      BY <1>1, <1>6, <3>1 DEF Waits
  <2> HIDE DEF new
  <2> QED
    BY <1>5, <2>1, <2>2, BatchesStay DEF IInv, BatchInv
<1>8. RowsStay'
  BY <1>1, RowsStayServed DEF BatchInv, Waits
<1>9. SentOf(d)'
  BY <1>1, FinishRests, RestSends
<1>10. \A e \in Devices : SentOf(e)'
  <2>1. Elsewhere(d)
    BY StepElsewhere DEF SyncStep
  <2> QED
    BY <1>9, <2>1 DEF Elsewhere, BatchInv, SentOf, Sends
<1> QED
  BY <1>7, <1>8, <1>10 DEF BatchInv

LEMMA BatchNext ==
  ASSUME IInv, IInv', TodoCurrent, BatchInv, [Next]_vars
  PROVE  BatchInv'
<1>1. CASE UNCHANGED vars \/ DeleteExpired
  <2>1. /\ UNCHANGED <<rows, commits, store, saved, proc>>
        /\ \A k \in Keys : DOMAIN idem'[k] \subseteq DOMAIN idem[k]
    <3>1. CASE UNCHANGED vars
      BY <3>1 DEF vars, serverVars
    <3>2. CASE DeleteExpired
      <4>1. DOMAIN NoResult = {}
        BY DEF NoResult
      <4> QED
        BY <3>2, <4>1 DEF DeleteExpired
    <3> QED
      BY <1>1, <3>1, <3>2
  <2>2. AllBatches' = AllBatches
    BY <2>1 DEF AllBatches
  <2>3. \A b \in AllBatches : b.key \in Keys
    <3> SUFFICES ASSUME NEW b \in AllBatches
                 PROVE  b.key \in Keys
      OBVIOUS
    <3>1. PICK d \in Devices : TRUE
      BY DEF AllBatches
    <3> QED
      BY <3>1, QueueFacts DEF Pending
  <2>4. BatchesOK'
    BY <2>1, <2>2, <2>3 DEF BatchInv, BatchesOK
  <2> QED
    BY <2>1, <2>4 DEF BatchInv, RowsStay, SentOf, Sends
<1>2. ASSUME NEW d \in Devices, UserStep(d) \/ SyncStep(d) \/ Crash(d)
      PROVE  BatchInv'
  BY <1>2, QuietBatches, PushBatches, ReplayBatches, WaitingBatches DEF SyncStep
<1> QED
  BY <1>1, <1>2 DEF Next

LEMMA BatchInit == Init => BatchInv
<1> SUFFICES ASSUME Init PROVE BatchInv
  OBVIOUS
<1>1. AllBatches = {}
  <2>1. \A d \in Devices : store[d].pending = <<>> /\ saved[d].pending = <<>>
    BY DEF Init, EmptyStore
  <2> QED
    BY <2>1 DEF AllBatches, Batches
<1>2. \A d \in Devices : proc[d].at = "ready"
  BY ReadyOK DEF Init
<1> QED
  BY <1>1, <1>2 DEF Init, BatchInv, BatchesOK, RowsStay, SentOf

\* What is recorded of a batch, wherever the batch is kept, speaks of its records only,
\* and what is sent is what the store holds (syncer.go:180-251).
THEOREM BatchesHold == Spec => []BatchInv
<1>1. Init => BatchInv
  BY BatchInit
<1>2. IInv /\ IInv' /\ TodoCurrent /\ BatchInv /\ [Next]_vars => BatchInv'
  BY BatchNext
<1> QED
  BY <1>1, <1>2, InvHolds, TodoHolds, PTL DEF Spec

-------------------------------------------------------------------------------
(* Each step of the devices is one of Replicas, or none.                   *)

LEMMA ShowsItsRow ==
  ASSUME NEW row
  PROVE  Promise!Shows(FromServer(row), row)
  BY DEF Promise!Shows, FromServer

\* A step of Replicas by d.
LEMMA PromisedStep ==
  ASSUME IInv, IInv', NEW d \in Devices, Elsewhere(d),
         \/ Promise!Edit(d) \/ Promise!Push(d) \/ Promise!Send(d) \/ Promise!Answer(d)
         \/ Promise!Pull(d) \/ Promise!Save(d) \/ Promise!Restart(d)
  PROVE  Promise!Next
<1>1. \A e \in Devices \ {d} :
          /\ store'[e].recs = store[e].recs
          /\ Awaited(store'[e]) = Awaited(store[e])
          /\ [held |-> saved'[e].recs, asked |-> Awaited(saved'[e])] =
                 [held |-> saved[e].recs, asked |-> Awaited(saved[e])]
  BY DEF Elsewhere
<1> QED
  BY <1>1 DEF Promise!Next

\* The memory and the file of a device, as Replicas sees them.
LEMMA SavedAlike ==
  ASSUME IInv, UNCHANGED saved
  PROVE  UNCHANGED [e \in Devices |-> [held |-> saved[e].recs, asked |-> Awaited(saved[e])]]
  OBVIOUS

LEMMA QueueAlike ==
  ASSUME IInv, NEW d \in Devices, Elsewhere(d), store'[d].pending = store[d].pending
  PROVE  UNCHANGED [e \in Devices |-> Awaited(store[e])]
<1>1. Awaited(store'[d]) = Awaited(store[d])
  BY DEF Awaited
<1> QED
  BY <1>1 DEF Elsewhere

\* What a user changes is dirty.
LEMMA EditIsPromised ==
  ASSUME IInv, IInv', NEW d \in Devices, NEW id, NEW rec, Edit(d, id, rec), rec.dirty,
         Elsewhere(d)
  PROVE  Promise!Edit(d)
<1>1. /\ UNCHANGED <<rows, commits, saved>>
      /\ store' = [store EXCEPT ![d].recs = PutRecord(@, id, rec)]
  BY DEF Edit, serverVars
<1>2. /\ store'[d].recs = PutRecord(store[d].recs, id, rec)
      /\ store'[d].pending = store[d].pending
  BY <1>1 DEF IInv, DeviceOK, StoreOK, IsStore
<1>3. /\ DOMAIN store'[d].recs = DOMAIN store[d].recs \union {id}
      /\ store'[d].recs[id] = rec
      /\ \A x \in DOMAIN store[d].recs \ {id} : store'[d].recs[x] = store[d].recs[x]
  BY <1>2 DEF PutRecord
<1> QED
  BY <1>1, <1>2, <1>3, SavedAlike, QueueAlike DEF Promise!Edit

LEMMA UserEditIsPromised ==
  ASSUME IInv, IInv', NEW d \in Devices, UserStep(d), Elsewhere(d),
         ~SyncStart(d), ~Save(d), ~Export(d)
  PROVE  Promise!Edit(d)
<1>1. ASSUME Create(d)
      PROVE  Promise!Edit(d)
  <2> DEFINE rec == [version |-> 0, base |-> 0, deleted |-> FALSE, body |-> {edits + 1},
                     dirty |-> TRUE, dirtyAt |-> Now(d)]
  <2>1. Edit(d, nextId, rec) /\ rec.dirty
    BY <1>1 DEF Create
  <2> HIDE DEF rec
  <2> QED
    BY <2>1, EditIsPromised
<1>2. ASSUME NEW id \in DOMAIN store[d].recs, Update(d, id, store[d].recs[id].body)
      PROVE  Promise!Edit(d)
  <2> DEFINE old == store[d].recs[id]
             rec == [old EXCEPT !.body = old.body \union {edits + 1}, !.base = old.version,
                                !.dirty = TRUE, !.dirtyAt = Now(d)]
  <2>1. old \in Stored
    BY RecordFacts DEF IInv, DeviceOK, StoreOK
  <2>2. Edit(d, id, rec)
    BY <1>2 DEF Update
  <2> HIDE DEF old
  <2>3. rec.dirty
    BY <2>1 DEF Stored
  <2> HIDE DEF rec
  <2> QED
    BY <2>2, <2>3, EditIsPromised
<1>3. ASSUME NEW id \in DOMAIN store[d].recs, Delete(d, id)
      PROVE  Promise!Edit(d)
  <2> DEFINE old == store[d].recs[id]
             rec == [old EXCEPT !.deleted = TRUE, !.base = old.version,
                                !.dirty = TRUE, !.dirtyAt = Now(d)]
  <2>1. old \in Stored
    BY RecordFacts DEF IInv, DeviceOK, StoreOK
  <2>2. Edit(d, id, rec)
    BY <1>3 DEF Delete
  <2> HIDE DEF old
  <2>3. rec.dirty
    BY <2>1 DEF Stored
  <2> HIDE DEF rec
  <2> QED
    BY <2>2, <2>3, EditIsPromised
<1>4. ASSUME Import(d)
      PROVE  Promise!Edit(d)
  <2> DEFINE edited(id) == [bundle[id] EXCEPT !.base = bundle[id].version,
                                              !.dirty = TRUE, !.dirtyAt = Now(d)]
  <2>1. /\ UNCHANGED <<rows, commits, saved>>
        /\ store'[d].pending = store[d].pending
        /\ store'[d].recs = [id \in DOMAIN store[d].recs \union DOMAIN bundle |->
                                IF id \in DOMAIN bundle THEN edited(id) ELSE store[d].recs[id]]
    BY <1>4 DEF Import, serverVars, IInv, DeviceOK, StoreOK, IsStore
  <2>2. ASSUME NEW id \in DOMAIN bundle
        PROVE  edited(id).dirty
    <3>1. bundle[id] \in Stored
      BY RecordFacts DEF IInv, UserOK
    <3> QED
      BY <3>1 DEF Stored
  <2> HIDE DEF edited
  <2>3. /\ DOMAIN store[d].recs \subseteq DOMAIN store'[d].recs
        /\ \A id \in DOMAIN store'[d].recs :
               \/ store'[d].recs[id].dirty
               \/ id \in DOMAIN store[d].recs /\ store'[d].recs[id] = store[d].recs[id]
    BY <2>1, <2>2
  <2> QED
    BY <2>1, <2>3, SavedAlike, QueueAlike DEF Promise!Edit
<1> QED
  BY <1>1, <1>2, <1>3, <1>4 DEF UserStep

LEMMA SaveIsPromised ==
  ASSUME IInv, IInv', NEW d \in Devices, Save(d)
  PROVE  Promise!Save(d)
<1>1. /\ UNCHANGED <<rows, commits, store>> /\ saved'[d] = store[d]
      /\ \A e \in Devices \ {d} : saved'[e] = saved[e]
  BY DEF Save, serverVars, IInv
<1> QED
  BY <1>1 DEF Promise!Save

LEMMA CrashIsPromised ==
  ASSUME IInv, IInv', NEW d \in Devices, Crash(d)
  PROVE  Promise!Restart(d)
<1>1. UNCHANGED <<rows, commits, saved>> /\ store'[d] = saved[d]
  BY DEF Crash, serverVars, IInv
<1> QED
  BY <1>1, SavedAlike DEF Promise!Restart

\* A push is answered: the device learns of what was taken.
LEMMA PushIsPromised ==
  ASSUME IInv, IInv', TodoCurrent, BatchInv, NEW d \in Devices, Push(d), Elsewhere(d)
  PROVE  Promise!Push(d)
<1>1. PICK chunk \in Chunks(d) :
          /\ Serve(chunk)
          /\ store' = [store EXCEPT ![d] = ApplyResults(@, Results(chunk))]
  BY DEF Push
<1>2. proc[d].at = "push" /\ UNCHANGED <<saved, nextId>>
  BY DEF Push
<1>3. AllGood(commits, seq, nextId, chunk) /\ Sends(d, chunk)
  BY <1>2, ChunkOK, ChunkSends
<1>4. Promise!Accept(d) /\ Promise!Accepted = Applicable(chunk)
  BY <1>1, <1>2, <1>3, ServedIsAccepted DEF BatchInv
<1> DEFINE app == Applicable(chunk)
<1>5. /\ store'[d].pending = store[d].pending
      /\ store'[d].recs = [id \in DOMAIN store[d].recs \union AppliedIn(Results(chunk)) |->
                              IF id \in AppliedIn(Results(chunk))
                              THEN FromServer(Results(chunk)[id].row) ELSE store[d].recs[id]]
  BY <1>1 DEF IInv, DeviceOK, StoreOK, IsStore, ApplyResults
<1>6. AppliedIn(Results(chunk)) = app /\ app \subseteq DOMAIN store[d].recs
  BY <1>1, <1>2, <1>3, ServeOK, ServedRows DEF IInv, Sends
<1>7. \A id \in app : Results(chunk)[id].row = rows'[id]
  BY <1>1 DEF Results, Serve, Applicable
<1>8. /\ DOMAIN store'[d].recs = DOMAIN store[d].recs
      /\ \A id \in app : store'[d].recs[id] = FromServer(rows'[id])
      /\ \A id \in DOMAIN store[d].recs \ app : store'[d].recs[id] = store[d].recs[id]
  BY <1>5, <1>6, <1>7
<1> HIDE DEF app
<1>9. \A id \in DOMAIN store[d].recs :
          IF id \in app THEN Promise!Shows(store'[d].recs[id], rows'[id])
                        ELSE store'[d].recs[id] = store[d].recs[id]
  BY <1>8, ShowsItsRow
<1> QED
  BY <1>2, <1>4, <1>5, <1>8, <1>9, SavedAlike, QueueAlike DEF Promise!Push, app

\* A push that is not answered.
LEMMA WaitIsPromised ==
  ASSUME IInv, IInv', TodoCurrent, BatchInv, NEW d \in Devices, PushRefused(d) \/ PushLost(d),
         Elsewhere(d)
  PROVE  Promise!Send(d)
<1>1. PICK chunk \in Chunks(d) :
          /\ Waits(d, chunk)
          /\ Sends(d, chunk) /\ \A id \in DOMAIN chunk : store[d].recs[id].dirty
          /\ NewKey \in Keys /\ DOMAIN chunk \in SUBSET Ids
          /\ store'[d].recs = store[d].recs
          /\ store'[d].pending =
                 Append(store[d].pending, [key |-> NewKey, ids |-> DOMAIN chunk])
          /\ UNCHANGED <<saved, nextId>>
  BY PushWaits
<1>2. PICK part : /\ Sends(d, part) /\ AllGood(commits, seq, nextId, part) /\ Serve(part)
                  /\ DOMAIN part \subseteq DOMAIN chunk
  BY <1>1 DEF Waits
<1>3. Promise!Accept(d) /\ Promise!Accepted \subseteq DOMAIN chunk
  BY <1>1, <1>2, ServedIsAccepted, ServedRows DEF BatchInv
<1>4. Awaited(store'[d]) = Awaited(store[d]) \union DOMAIN chunk
  <2> DEFINE entry == [key |-> NewKey, ids |-> DOMAIN chunk]
  <2>1. entry \in Pending /\ entry.ids = DOMAIN chunk
    BY <1>1 DEF Pending
  <2>2. store'[d].pending = Append(store[d].pending, entry)
    BY <1>1
  <2> HIDE DEF entry
  <2>3. Batches(store'[d]) = Batches(store[d]) \union {entry}
    BY <2>1, <2>2, QueueFacts, AppendedBatches
  <2> QED
    BY <2>1, <2>3, AwaitedIs
<1>5. DOMAIN chunk \subseteq {id \in DOMAIN store[d].recs : store[d].recs[id].dirty}
  BY <1>1 DEF Sends
<1>6. \A e \in Devices : store'[e].recs = store[e].recs
  BY <1>1 DEF Elsewhere
<1> QED
  BY <1>1, <1>3, <1>4, <1>5, <1>6, SavedAlike DEF Promise!Send

LEMMA ReplayWaitIsPromised ==
  ASSUME IInv, IInv', BatchInv, NEW d \in Devices, ReplayLost(d)
  PROVE  Promise!Send(d)
<1> DEFINE first == Head(store[d].pending)
<1>1. /\ first \in Batches(store[d]) /\ UNCHANGED <<store, saved, nextId>>
      /\ \E part : /\ Sends(d, part) /\ AllGood(commits, seq, nextId, part) /\ Serve(part)
                   /\ DOMAIN part \subseteq first.ids
  BY ReplayWaits
<1> HIDE DEF first
<1>2. PICK part : /\ Sends(d, part) /\ AllGood(commits, seq, nextId, part) /\ Serve(part)
                  /\ DOMAIN part \subseteq first.ids
  BY <1>1
<1>3. Promise!Accept(d) /\ Promise!Accepted \subseteq first.ids
  BY <1>1, <1>2, ServedIsAccepted, ServedRows DEF BatchInv
<1>4. first.ids \subseteq Awaited(store[d])
  BY <1>1, AwaitedIs
<1> QED
  BY <1>1, <1>3, <1>4, SavedAlike DEF Promise!Send

LEMMA AnswerIsPromised ==
  ASSUME IInv, IInv', BatchInv, NEW d \in Devices, Replay(d)
  PROVE  Promise!Answer(d)
<1> DEFINE first == Head(store[d].pending)
<1>1. /\ first \in Batches(store[d]) /\ store[d].pending # <<>>
      /\ \E batch, results : Answers(d, first, batch, results)
      /\ store'[d].pending = Tail(store[d].pending)
      /\ UNCHANGED <<saved, nextId>>
  BY ReplayAnswers
<1> HIDE DEF first
<1>2. PICK batch, results : Answers(d, first, batch, results)
  BY <1>1
<1>3. /\ Sends(d, batch) /\ AllGood(commits, seq, nextId, batch) /\ Serve(batch)
      /\ DOMAIN batch \subseteq first.ids /\ DOMAIN results \subseteq first.ids
      /\ ResultsOK(commits', results)
      /\ Applicable(batch) \subseteq AppliedIn(results)
      /\ store'[d].recs = ApplyResults(store[d], results).recs
  BY <1>2 DEF Answers
<1>4. Promise!Accept(d) /\ Promise!Accepted = Applicable(batch) /\ Applicable(batch) \subseteq first.ids
  BY <1>1, <1>3, ServedIsAccepted, ServedRows DEF BatchInv
<1>5. first.ids \subseteq Awaited(store[d]) /\ Awaited(store'[d]) \subseteq Awaited(store[d])
  <2>1. Batches(store'[d]) \subseteq Batches(store[d])
    BY <1>1, QueueFacts, TailBatches
  <2> QED
    BY <1>1, <2>1, AwaitedIs
<1>6. store'[d].recs = [id \in DOMAIN store[d].recs \union AppliedIn(results) |->
                           IF id \in AppliedIn(results) THEN FromServer(results[id].row)
                           ELSE store[d].recs[id]]
  BY <1>3 DEF IInv, DeviceOK, StoreOK, IsStore, ApplyResults
<1>7. DOMAIN store[d].recs \subseteq DOMAIN store'[d].recs
  BY <1>6
<1>8. ASSUME NEW id \in DOMAIN store'[d].recs
      PROVE  \/ id \in DOMAIN store[d].recs \ Applicable(batch) /\ store'[d].recs[id] = store[d].recs[id]
             \/ /\ id \in Awaited(store[d])
                /\ \E p \in commits' : p.id = id /\ Promise!Shows(store'[d].recs[id], p.row)
  <2>1. CASE id \notin AppliedIn(results)
    BY <1>3, <1>6, <2>1
  <2>2. CASE id \in AppliedIn(results)
    <3>1. store'[d].recs[id] = FromServer(results[id].row)
      BY <1>6, <2>2
    <3>2. PICK p \in commits' : p.id = id /\ p.row = results[id].row
      BY <1>3, <2>2 DEF ResultsOK, Committed
    <3>3. id \in Awaited(store[d])
      BY <1>3, <1>5, <2>2 DEF AppliedIn
    <3>4. Promise!Shows(store'[d].recs[id], p.row)
      BY <3>1, <3>2, ShowsItsRow
    <3> QED
      BY <3>2, <3>3, <3>4
  <2> QED
    BY <2>1, <2>2
<1> QED
  BY <1>1, <1>4, <1>5, <1>7, <1>8, SavedAlike DEF Promise!Answer

\* An id that is still to be given out is used by no device and no row.
LEMMA NewIsUnused ==
  ASSUME IInv, NEW id \in Ids, id >= nextId
  PROVE  Promise!Unused(id)
<1>1. nextId \in Nat /\ id \in Nat
  BY SyncerAssumption DEF IInv, ServerOK, Ids
<1>2. \A e \in Devices : id \notin DOMAIN store[e].recs
  <2> SUFFICES ASSUME NEW e \in Devices, id \in DOMAIN store[e].recs
               PROVE  FALSE
    OBVIOUS
  <2>1. id < nextId
    BY RecordFacts DEF IInv, DeviceOK, StoreOK, Good
  <2> QED
    BY <1>1, <2>1
<1>3. rows[id] = NoRow
  <2> SUFFICES ASSUME Committed(commits, id, rows[id])
               PROVE  FALSE
    BY DEF IInv, ServerOK, RowsOK
  <2>1. id < nextId
    BY DEF Committed, IInv, ServerOK, LogOK
  <2> QED
    BY <1>1, <2>1
<1> QED
  BY <1>2, <1>3 DEF Promise!Unused

\* What loses in a conflict is kept.
LEMMA CopyIsPromised ==
  ASSUME IInv, NEW d \in Devices, Pull(d), NEW id \in Copied(d)
  PROVE  LET local == store[d].recs[id]
         IN  /\ LocalDeleteWins(local, rows[id]) => Promise!KeptAsCopy(d, rows[id])
             /\ ~LocalDeleteWins(local, rows[id]) => Promise!KeptAsCopy(d, local)
<1> DEFINE local == store[d].recs[id]
           copy == ConflictCopy(d, id)
<1>1. PICK new \in Ids : /\ new >= nextId /\ new \in DOMAIN store'[d].recs
                         /\ store'[d].recs[new] = ConflictCopy(d, id)
  BY CopyMade
<1>2. Promise!Unused(new)
  BY <1>1, NewIsUnused
<1>3. local \in Stored /\ local.dirty /\ rows[id] \in Row
  BY RecordFacts, IncomingFacts DEF Copied, InConflict, IInv, DeviceOK, StoreOK
<1>4. CASE LocalDeleteWins(local, rows[id])
  <2>1. copy = [FromServer(rows[id]) EXCEPT !.dirty = TRUE, !.dirtyAt = Now(d)]
    BY <1>4 DEF ConflictCopy
  <2>2. copy.dirty /\ copy.deleted = rows[id].deleted /\ copy.body = rows[id].body
    BY <2>1 DEF FromServer
  <2> QED
    BY <1>1, <1>2, <1>4, <2>2 DEF Promise!KeptAsCopy
<1>5. CASE ~LocalDeleteWins(local, rows[id])
  <2>1. copy = [local EXCEPT !.base = 0]
    BY <1>5 DEF ConflictCopy
  <2>2. copy.dirty /\ copy.deleted = local.deleted /\ copy.body = local.body
    <3> HIDE DEF local, copy
    <3> QED
      BY <1>3, <2>1 DEF Stored
  <2> QED
    BY <1>1, <1>2, <1>5, <2>2 DEF Promise!KeptAsCopy
<1> QED
  BY <1>4, <1>5

LEMMA MergeIsPromised ==
  ASSUME IInv, NEW d \in Devices, Pull(d), NEW id \in DOMAIN store[d].recs,
         id \in DOMAIN store'[d].recs,
         store'[d].recs[id] = IF id \in Incoming(d) THEN Merged(d, id) ELSE store[d].recs[id]
  PROVE  Promise!Merged(d, id)
<1> DEFINE mine == store[d].recs[id]
           row == rows[id]
<1>1. mine \in Stored /\ mine.deleted \in BOOLEAN /\ mine.dirty \in BOOLEAN
  BY RecordFacts DEF IInv, DeviceOK, StoreOK
<1>2. CASE id \notin Incoming(d)
  BY <1>2 DEF Promise!Merged
<1>3. CASE id \in Incoming(d) /\ ~mine.dirty
  <2>1. store'[d].recs[id] = FromServer(row)
    BY <1>3 DEF Merged, InConflict
  <2>2. mine.version <= store[d].cursor /\ mine.version \in Nat
    BY <1>1, <1>3 DEF IInv, DeviceOK, StoreOK, Clean, Stored
  <2>3. row.version > mine.version
    <3>1. row.version \in Nat /\ store[d].cursor \in Nat /\ row.version > store[d].cursor
      BY <1>3, IncomingFacts DEF Row
    <3> QED
      BY <2>2, <3>1
  <2> QED
    BY <1>3, <2>1, <2>3, ShowsItsRow DEF Promise!Merged
<1>4. CASE id \in Incoming(d) /\ mine.dirty /\ ServerWins(mine, row)
  <2>1. store'[d].recs[id] = FromServer(row) /\ id \in Copied(d)
    BY <1>4 DEF Merged, Copied, InConflict
  <2>2. (mine.deleted => row.deleted) /\ ~LocalDeleteWins(mine, row)
    BY <1>4 DEF ServerWins, LocalDeleteWins
  <2>3. Promise!KeptAsCopy(d, mine)
    BY <2>1, <2>2, CopyIsPromised
  <2> QED
    BY <1>4, <2>1, <2>2, <2>3, ShowsItsRow DEF Promise!Merged, Promise!KeptAsCopy
<1>5. CASE id \in Incoming(d) /\ mine.dirty /\ ~ServerWins(mine, row)
  <2>1. store'[d].recs[id] = [mine EXCEPT !.base = row.version]
    BY <1>5 DEF Merged, InConflict
  <2>2. row.deleted => mine.deleted
    BY <1>5 DEF ServerWins
  <2>3. mine.deleted /\ ~row.deleted => Promise!KeptAsCopy(d, row)
    <3> SUFFICES ASSUME mine.deleted, ~row.deleted
                 PROVE  Promise!KeptAsCopy(d, row)
      OBVIOUS
    <3>1. LocalDeleteWins(mine, row)
      BY DEF LocalDeleteWins
    <3>2. id \in Copied(d)
      BY <1>5, <3>1 DEF Copied, InConflict
    <3> QED
      BY <3>1, <3>2, CopyIsPromised
  <2> HIDE DEF mine
  <2>4. mine.dirty /\ store'[d].recs[id] = [mine EXCEPT !.base = row.version]
    BY <1>5, <2>1
  <2> QED
    BY <2>2, <2>3, <2>4 DEF Promise!Merged, mine
<1> QED
  BY <1>1, <1>2, <1>3, <1>4, <1>5

LEMMA PullIsPromised ==
  ASSUME IInv, IInv', NEW d \in Devices, Pull(d), Elsewhere(d)
  PROVE  Promise!Pull(d)
<1>1. /\ UNCHANGED <<rows, commits, saved>> /\ CopyIds(d) \subseteq Ids
      /\ nextId' = nextId + Cardinality(Copied(d))
      /\ store'[d] = AfterPull(d)
  BY DEF Pull, serverVars, IInv
<1>2. /\ store'[d].pending = store[d].pending
      /\ store'[d].recs = [id \in DOMAIN store[d].recs \union Incoming(d) \union CopyIds(d) |->
                              IF id \in CopyIds(d) THEN CopyAt(d, id)
                              ELSE IF id \in Incoming(d) THEN Merged(d, id)
                              ELSE store[d].recs[id]]
  BY <1>1 DEF AfterPull, IInv, DeviceOK, StoreOK, IsStore
<1>3. \A id \in CopyIds(d) : Promise!Unused(id)
  <2>1. \A id \in CopyIds(d) : id >= nextId /\ id \in Ids
    BY <1>1, CopyIdsNew DEF CopyIds
  <2> QED
    BY <2>1, NewIsUnused
<1>4. \A id \in DOMAIN store[d].recs : id \notin CopyIds(d)
  BY <1>3 DEF Promise!Unused
<1>5. \A id \in DOMAIN store[d].recs : Promise!Merged(d, id)
  BY <1>2, <1>4, MergeIsPromised
<1>6. ASSUME NEW id \in DOMAIN store'[d].recs \ DOMAIN store[d].recs
      PROVE  \/ Promise!Shows(store'[d].recs[id], rows[id])
             \/ Promise!Unused(id) /\ store'[d].recs[id].dirty
  <2>1. CASE id \in CopyIds(d)
    <3> DEFINE from == CHOOSE x \in Copied(d) : CopyId(d, x) = id
    <3>1. \E x \in Copied(d) : CopyId(d, x) = id
      BY <2>1 DEF CopyIds
    <3>2. from \in Copied(d) /\ CopyId(d, from) = id
      BY <3>1
    <3>3. store'[d].recs[id] = ConflictCopy(d, from)
      BY <1>2, <2>1 DEF CopyAt
    <3> HIDE DEF from
    <3>4. id \in Nat /\ nextId <= id /\ nextId \in Nat /\ nextId' \in Nat /\ id < nextId'
      BY <1>1, <3>2, CopyIdsNew
    <3>5. ConflictCopy(d, from).dirty
      BY <3>2, <3>4, CopyGood
    <3> QED
      BY <1>3, <2>1, <3>3, <3>5
  <2>2. CASE id \notin CopyIds(d)
    <3>1. store'[d].recs[id] = Merged(d, id) /\ ~InConflict(d, id)
      BY <1>2, <1>6, <2>2 DEF InConflict
    <3>2. store'[d].recs[id] = FromServer(rows[id])
      BY <3>1 DEF Merged
    <3> QED
      BY <3>2, ShowsItsRow
  <2> QED
    BY <2>1, <2>2
<1>7. DOMAIN store[d].recs \subseteq DOMAIN store'[d].recs
  BY <1>2
<1> QED
  BY <1>1, <1>2, <1>5, <1>6, <1>7, SavedAlike, QueueAlike DEF Promise!Pull

LEMMA StepIsPromised ==
  ASSUME IInv, IInv', TodoCurrent, BatchInv, [Next]_vars
  PROVE  [Promise!Next]_(Promise!vars)
<1>1. ASSUME UNCHANGED <<rows, commits, store, saved>>
      PROVE  UNCHANGED Promise!vars
  BY <1>1 DEF Promise!vars
<1>2. CASE UNCHANGED vars \/ DeleteExpired
  BY <1>1, <1>2 DEF vars, serverVars, DeleteExpired
<1>3. ASSUME NEW d \in Devices, UserStep(d) \/ SyncStep(d) \/ Crash(d)
      PROVE  [Promise!Next]_(Promise!vars)
  <2>1. Elsewhere(d)
    BY <1>3, StepElsewhere
  <2>2. CASE SyncStart(d) \/ Export(d) \/ Refused(d)
    BY <1>1, <2>2 DEF SyncStart, Export, Refused, serverVars
  <2>3. CASE UserStep(d) /\ ~SyncStart(d) /\ ~Export(d)
    BY <2>1, <2>3, UserEditIsPromised, SaveIsPromised, PromisedStep
  <2>4. CASE Crash(d)
    BY <2>1, <2>4, CrashIsPromised, PromisedStep
  <2>5. CASE Pull(d)
    BY <2>1, <2>5, PullIsPromised, PromisedStep
  <2>6. CASE Push(d)
    BY <2>1, <2>6, PushIsPromised, PromisedStep
  <2>7. CASE PushRefused(d) \/ PushLost(d)
    BY <2>1, <2>7, WaitIsPromised, PromisedStep
  <2>8. CASE ReplayLost(d)
    BY <2>1, <2>8, ReplayWaitIsPromised, PromisedStep
  <2>9. CASE Replay(d)
    BY <2>1, <2>9, AnswerIsPromised, PromisedStep
  <2> QED
    BY <1>3, <2>2, <2>3, <2>4, <2>5, <2>6, <2>7, <2>8, <2>9 DEF SyncStep
<1> QED
  BY <1>2, <1>3 DEF Next

LEMMA InitIsPromised == Init => Promise!Init
<1> SUFFICES ASSUME Init PROVE Promise!Init
  OBVIOUS
<1>1. \A s : s = EmptyStore => s.recs = NoRecords /\ Awaited(s) = {}
  BY DEF EmptyStore, Awaited
<1>2. NoRecords = Promise!NoRecords
  BY DEF NoRecords, Promise!NoRecords
<1> QED
  BY <1>1, <1>2 DEF Init, Promise!Init

\* Rounds of pulls and pushes, lost answers, replays, conflict copies, imports and
\* restarts change what the server and the devices hold only in the ways Replicas lists
\* (Syncer.Sync, syncer.go:75-255; VaultManager, vault_manager.go).
THEOREM SyncerImplementsReplicas == Spec => ImplementsReplicas
<1>1. Init => Promise!Init
  BY InitIsPromised
<1>2. IInv /\ IInv' /\ TodoCurrent /\ BatchInv /\ [Next]_vars => [Promise!Next]_(Promise!vars)
  BY StepIsPromised
<1> QED
  BY <1>1, <1>2, InvHolds, TodoHolds, BatchesHold, PTL DEF Spec, ImplementsReplicas, Promise!Spec

-------------------------------------------------------------------------------
(* Falling behind.  A fourth invariant, with kills: no cursor is ahead of   *)
(* the server, at most one batch waits, and what is recorded of it is newer *)
(* than the cursor of the store that has it.                               *)

NewerThan(n, results) == \A id \in AppliedIn(results) : results[id].row.version > n

FrontOK(answers, top, s) ==
    /\ s.cursor <= top
    /\ Len(s.pending) <= 1
    /\ \A b \in Batches(s) : NewerThan(s.cursor, answers[b.key])

\* A row is the newest of its commits.
RowsNewest == \A c \in commits : c.row.version <= rows[c.id].version

FrontOf(d) ==
    /\ FrontOK(idem, seq, store[d]) /\ FrontOK(idem, seq, saved[d])
    /\ proc[d].at \in {"pull", "push"} => store[d].pending = <<>>

FrontInv == RowsNewest /\ \A d \in Devices : FrontOf(d)

\* What the server changes is newer than all there was.
ServerMoves ==
    /\ seq <= seq'
    /\ \A id \in Ids : rows'[id] = rows[id] \/ rows'[id].version > seq
    /\ \A c \in commits' \ commits : rows'[c.id] = c.row
    /\ \A k \in Keys : idem'[k] = idem[k] \/ NewerThan(seq, idem'[k])

LEMMA NoneIsNewer == ASSUME NEW n PROVE NewerThan(n, NoResult)
  BY Empty DEF NewerThan

LEMMA ServedIsNew ==
  ASSUME IInv, NEW batch, AllGood(commits, seq, nextId, batch), Serve(batch), nextId' = nextId
  PROVE  /\ NewerThan(seq, Results(batch))
         /\ AppliedIn(Results(batch)) = Applicable(batch)
         /\ \A id \in Applicable(batch) : Results(batch)[id].row = rows'[id]
         /\ seq <= seq'
         /\ \A id \in Ids : rows'[id] = rows[id] \/ rows'[id].version > seq
         /\ \A c \in commits' \ commits : rows'[c.id] = c.row
<1>1. /\ Applicable(batch) \subseteq DOMAIN batch
      /\ \A id \in Ids \ Applicable(batch) : rows'[id] = rows[id]
      /\ \A id \in Applicable(batch) : rows'[id].version > seq
  BY ServedRows
<1>2. AppliedIn(Results(batch)) = Applicable(batch) /\ seq <= seq'
  BY ServeOK DEF IInv, GrowsNow, Grows
<1>3. \A id \in DOMAIN batch : Results(batch)[id].row = rows'[id]
  BY DEF Results, Serve
<1>4. \A c \in commits' \ commits : rows'[c.id] = c.row
  BY DEF Serve
<1> QED
  BY <1>1, <1>2, <1>3, <1>4 DEF NewerThan

\* Nothing is recorded of what was cut short, and what is recorded is new.
LEMMA UnansweredIsNew ==
  ASSUME IInv, NEW batch, AllGood(commits, seq, nextId, batch), nextId' = nextId,
         NEW key \in Keys, Unanswered(batch, key)
  PROVE  /\ NewerThan(seq, idem'[key])
         /\ \A k \in Keys \ {key} : idem'[k] = idem[k]
         /\ \E part : AllGood(commits, seq, nextId, part) /\ Serve(part)
<1>1. DOMAIN idem = Keys
  BY DEF IInv, ServerOK
<1>2. CASE Serve(batch) /\ idem' = [idem EXCEPT ![key] = Results(batch)]
  BY <1>1, <1>2, ServedIsNew
<1>3. ASSUME NEW part \in SUBSET DOMAIN batch, Serve(Restrict(batch, part)),
             idem' = [idem EXCEPT ![key] = NoResult]
      PROVE  /\ NewerThan(seq, idem'[key])
             /\ \A k \in Keys \ {key} : idem'[k] = idem[k]
             /\ \E p : AllGood(commits, seq, nextId, p) /\ Serve(p)
  <2>1. AllGood(commits, seq, nextId, Restrict(batch, part))
    BY RestrictGood
  <2>2. idem'[key] = NoResult /\ \A k \in Keys \ {key} : idem'[k] = idem[k]
    BY <1>1, <1>3
  <2> QED
    BY <1>3, <2>1, <2>2, NoneIsNewer
<1> QED
  BY <1>2, <1>3 DEF Unanswered

\* A push that is not answered leaves a batch with a new answer or none.
LEMMA WaitIsNew ==
  ASSUME IInv, NEW d \in Devices, PushRefused(d) \/ PushLost(d)
  PROVE  ServerMoves /\ NewerThan(seq, idem'[NewKey])
<1>1. PICK chunk \in Chunks(d) :
          /\ Unacknowledged(d, chunk)
          /\ \/ Unanswered(chunk, NewKey)
             \/ UNCHANGED <<rows, seq, commits>> /\ idem' = [idem EXCEPT ![NewKey] = NoResult]
  BY DEF PushRefused, PushLost
<1>2. NewKey \in Keys /\ nextId' = nextId
  BY <1>1, NewKeyIsKey DEF Unacknowledged
<1>3. AllGood(commits, seq, nextId, chunk)
  BY ChunkOK
<1>4. CASE Unanswered(chunk, NewKey)
  BY <1>2, <1>3, <1>4, UnansweredIsNew, ServedIsNew DEF ServerMoves
<1>5. CASE UNCHANGED <<rows, seq, commits>> /\ idem' = [idem EXCEPT ![NewKey] = NoResult]
  <2>1. /\ idem'[NewKey] = NoResult /\ \A k \in Keys \ {NewKey} : idem'[k] = idem[k]
        /\ seq \in Nat
    BY <1>2, <1>5 DEF IInv, ServerOK
  <2> QED
    BY <1>5, <2>1, NoneIsNewer DEF ServerMoves
<1> QED
  BY <1>1, <1>4, <1>5

\* The answer a replay gets is new, or was recorded before.
LEMMA ReplayIsNew ==
  ASSUME IInv, NEW d \in Devices, Replay(d)
  PROVE  /\ ServerMoves
         /\ \E results :
                /\ results = idem[Head(store[d].pending).key] \/ NewerThan(seq, results)
                /\ ResultsOK(commits', results)
                /\ \A id \in Ids : \/ rows'[id] = rows[id]
                                   \/ id \in AppliedIn(results) /\ results[id].row = rows'[id]
                /\ store'[d].recs = ApplyResults(store[d], results).recs
                /\ store'[d].cursor = ApplyResults(store[d], results).cursor
<1> DEFINE key == Head(store[d].pending).key
           batch == proc[d].todo
           results == IF Recorded(key) THEN idem[key] ELSE Results(batch)
           after == [ApplyResults(store[d], results) EXCEPT !.pending = Tail(@)]
<1>1. /\ proc[d].at = "replay" /\ nextId' = nextId
      /\ store' = [store EXCEPT ![d] = after]
      /\ IF Recorded(key)
         THEN UNCHANGED serverVars
         ELSE Serve(batch) /\ idem' = [idem EXCEPT ![key] = results]
  BY DEF Replay
<1>2. store'[d] = after
  BY <1>1 DEF IInv
<1>3. /\ after.recs = ApplyResults(store[d], results).recs
      /\ after.cursor = ApplyResults(store[d], results).cursor
  BY DEF IInv, DeviceOK, StoreOK, IsStore, ApplyResults
<1>4. Head(store[d].pending) \in Pending
  BY <1>1, QueueFacts
<1>5. key \in Keys
  BY <1>4 DEF Pending
<1>6. AllGood(commits, seq, nextId, batch) /\ DOMAIN idem = Keys /\ seq \in Nat
  BY DEF IInv, DeviceOK, ProcOK, ServerOK
<1> HIDE DEF key, batch, results, after
<1>7. CASE Recorded(key)
  <2>1. UNCHANGED <<rows, seq, idem, commits>> /\ results = idem[key]
    BY <1>1, <1>7 DEF serverVars, results
  <2>2. ResultsOK(commits', results)
    BY <1>5, <2>1 DEF IInv, ServerOK
  <2>3. ServerMoves
    BY <1>6, <2>1 DEF ServerMoves
  <2>4. results = idem[Head(store[d].pending).key]
    BY <2>1 DEF key
  <2> QED
    BY <1>2, <1>3, <2>1, <2>2, <2>3, <2>4
<1>8. CASE ~Recorded(key)
  <2>1. Serve(batch) /\ results = Results(batch) /\ idem' = [idem EXCEPT ![key] = results]
    BY <1>1, <1>8 DEF results
  <2>2. ResultsOK(commits', results) /\ AppliedIn(results) = Applicable(batch)
    BY <1>1, <1>6, <2>1, ServeOK DEF IInv
  <2>3. idem'[key] = results /\ \A k \in Keys \ {key} : idem'[k] = idem[k]
    BY <1>5, <1>6, <2>1
  <2>4. /\ NewerThan(seq, results) /\ ServerMoves
        /\ \A id \in AppliedIn(results) : results[id].row = rows'[id]
    BY <1>1, <1>6, <2>1, <2>3, ServedIsNew DEF ServerMoves
  <2>5. \A id \in Ids \ Applicable(batch) : rows'[id] = rows[id]
    BY <1>6, <2>1, ServedRows
  <2> QED
    BY <1>2, <1>3, <2>2, <2>4, <2>5
<1> QED
  BY <1>7, <1>8

\* The server and all steps that reach it.
LEMMA StepMoves ==
  ASSUME IInv, TodoCurrent, BatchInv, [Next]_vars
  PROVE  ServerMoves
<1>1. seq \in Nat
  BY DEF IInv, ServerOK
<1>2. ASSUME UNCHANGED serverVars
      PROVE  ServerMoves
  BY <1>1, <1>2 DEF ServerMoves, serverVars
<1>3. CASE UNCHANGED vars
  BY <1>2, <1>3 DEF vars
<1>4. CASE DeleteExpired
  <2>1. UNCHANGED <<rows, seq, commits>> /\ \A k \in Keys : idem'[k] = NoResult \/ idem'[k] = idem[k]
    BY <1>4 DEF DeleteExpired
  <2> QED
    BY <1>1, <2>1, NoneIsNewer DEF ServerMoves
<1>5. ASSUME NEW d \in Devices, UserStep(d) \/ Crash(d) \/ Refused(d) \/ Pull(d)
      PROVE  ServerMoves
  BY <1>2, <1>5 DEF UserStep, Create, Update, Delete, Export, Import, SyncStart, Save, Edit,
                    Crash, Pull, Refused
<1>6. ASSUME NEW d \in Devices, Push(d)
      PROVE  ServerMoves
  <2>1. PICK chunk \in Chunks(d) : Serve(chunk)
    BY <1>6 DEF Push
  <2>2. UNCHANGED <<idem, nextId>>
    BY <1>6 DEF Push
  <2>3. AllGood(commits, seq, nextId, chunk)
    BY ChunkOK
  <2> QED
    BY <2>1, <2>2, <2>3, ServedIsNew DEF ServerMoves
<1>7. ASSUME NEW d \in Devices, ReplayLost(d)
      PROVE  ServerMoves
  <2> DEFINE key == Head(store[d].pending).key
             batch == proc[d].todo
  <2>1. proc[d].at = "replay" /\ Unanswered(batch, key) /\ nextId' = nextId
    BY <1>7 DEF ReplayLost
  <2>2. key \in Keys
    <3>1. Head(store[d].pending) \in Pending
      BY <2>1, QueueFacts
    <3> QED
      BY <3>1 DEF Pending
  <2>3. AllGood(commits, seq, nextId, batch)
    BY DEF IInv, DeviceOK, ProcOK
  <2> HIDE DEF key, batch
  <2>4. /\ NewerThan(seq, idem'[key])
        /\ \A k \in Keys \ {key} : idem'[k] = idem[k]
        /\ \E part : AllGood(commits, seq, nextId, part) /\ Serve(part)
    BY <2>1, <2>2, <2>3, UnansweredIsNew
  <2>5. /\ seq <= seq'
        /\ \A id \in Ids : rows'[id] = rows[id] \/ rows'[id].version > seq
        /\ \A c \in commits' \ commits : rows'[c.id] = c.row
    BY <2>1, <2>4, ServedIsNew
  <2> QED
    BY <2>4, <2>5 DEF ServerMoves
<1> QED
  BY <1>3, <1>4, <1>5, <1>6, <1>7, WaitIsNew, ReplayIsNew DEF Next, SyncStep

LEMMA RowsStayNewest ==
  ASSUME IInv, IInv', RowsNewest, ServerMoves
  PROVE  RowsNewest'
<1> SUFFICES ASSUME NEW c \in commits'
             PROVE  c.row.version <= rows'[c.id].version
  BY DEF RowsNewest
<1>1. /\ c.row.version \in Nat /\ c.id \in Ids
      /\ rows'[c.id].version \in Nat
  BY DEF IInv, ServerOK, LogOK, RowsOK, Row
<1>2. CASE c \notin commits
  BY <1>1, <1>2 DEF ServerMoves
<1>3. CASE c \in commits
  <2>1. c.row.version <= rows[c.id].version /\ c.row.version <= seq /\ seq \in Nat
    BY <1>3 DEF RowsNewest, IInv, ServerOK, LogOK
  <2> QED
    BY <1>1, <2>1 DEF ServerMoves
<1> QED
  BY <1>2, <1>3

\* What was recorded stays newer than a cursor, and so is what is recorded now.
LEMMA FrontStays ==
  ASSUME NEW answers, NEW answers2, NEW top \in Nat, NEW top2 \in Nat, NEW s, IsStore(s),
         FrontOK(answers, top, s), top <= top2,
         \A k \in Keys : answers2[k] = answers[k] \/ NewerThan(top, answers2[k]),
         \A k \in Keys : IsMap(answers2[k], [applied: BOOLEAN, row: Row])
  PROVE  FrontOK(answers2, top2, s)
<1>1. s.cursor \in Nat /\ s.cursor <= top /\ Len(s.pending) <= 1
  BY DEF FrontOK, IsStore
<1>2. ASSUME NEW b \in Batches(s)
      PROVE  NewerThan(s.cursor, answers2[b.key])
  <2>1. b.key \in Keys
    <3>1. s.pending \in Seq(Pending)
      BY DEF IsStore, Pending
    <3>2. b \in Pending
      BY <3>1 DEF Batches
    <3> QED
      BY <3>2 DEF Pending
  <2>2. CASE answers2[b.key] = answers[b.key]
    BY <2>2 DEF FrontOK
  <2>3. CASE NewerThan(top, answers2[b.key])
    <3>1. \A id \in AppliedIn(answers2[b.key]) : answers2[b.key][id].row.version \in Nat
      BY <2>1 DEF IsMap, AppliedIn, Row
    <3> QED
      BY <1>1, <2>3, <3>1 DEF NewerThan
  <2> QED
    BY <2>1, <2>2, <2>3
<1> QED
  BY <1>1, <1>2 DEF FrontOK

LEMMA FrontGoesOn ==
  ASSUME IInv, IInv', ServerMoves, NEW d \in Devices
  PROVE  /\ FrontOK(idem, seq, store[d]) => FrontOK(idem', seq', store[d])
         /\ FrontOK(idem, seq, saved[d]) => FrontOK(idem', seq', saved[d])
<1>1. /\ seq \in Nat /\ seq' \in Nat
      /\ \A k \in Keys : IsMap(idem'[k], [applied: BOOLEAN, row: Row])
      /\ IsStore(store[d]) /\ IsStore(saved[d])
  BY DEF IInv, ServerOK, ResultsOK, DeviceOK, StoreOK
<1> QED
  BY <1>1, FrontStays DEF ServerMoves

\* It is a matter of the cursor and the queue.
LEMMA FrontAlike ==
  ASSUME NEW answers, NEW top, NEW s, NEW t, FrontOK(answers, top, s),
         t.cursor = s.cursor, t.pending = s.pending
  PROVE  FrontOK(answers, top, t)
  BY DEF FrontOK, Batches

LEMMA NothingWaits ==
  ASSUME NEW answers, NEW top, NEW s, s.cursor <= top, s.pending = <<>>
  PROVE  FrontOK(answers, top, s)
  BY DEF FrontOK, Batches

\* What the user does moves no cursor and no batch.
LEMMA UserKeepsFront ==
  ASSUME IInv, NEW d \in Devices, UserStep(d)
  PROVE  store'[d].cursor = store[d].cursor /\ store'[d].pending = store[d].pending
<1>1. ASSUME NEW id, NEW rec, Edit(d, id, rec)
      PROVE  store'[d].cursor = store[d].cursor /\ store'[d].pending = store[d].pending
  BY <1>1 DEF Edit, IInv, DeviceOK, StoreOK, IsStore
<1>2. CASE Export(d) \/ SyncStart(d) \/ Save(d)
  BY <1>2 DEF Export, SyncStart, Save
<1>3. CASE Import(d)
  BY <1>3 DEF Import, IInv, DeviceOK, StoreOK, IsStore
<1> QED
  BY <1>1, <1>2, <1>3 DEF UserStep, Create, Update, Delete

LEMMA QuietFront ==
  ASSUME IInv, IInv', ServerMoves, NEW d \in Devices, FrontOf(d),
         UserStep(d) \/ Crash(d) \/ Refused(d) \/ ReplayLost(d)
  PROVE  FrontOf(d)'
<1>1. /\ FrontOK(idem', seq', store[d]) /\ FrontOK(idem', seq', saved[d])
      /\ DOMAIN store = Devices /\ DOMAIN saved = Devices /\ DOMAIN proc = Devices
  BY FrontGoesOn DEF FrontOf, IInv
<1>2. CASE UserStep(d)
  <2>1. FrontOK(idem', seq', store'[d])
    BY <1>1, <1>2, UserKeepsFront, FrontAlike
  <2>2. saved'[d] \in {saved[d], store[d]}
    BY <1>1, <1>2 DEF UserStep, Create, Update, Delete, Export, Import, SyncStart, Save, Edit
  <2>3. proc'[d].at \in {"pull", "push"} => store'[d].pending = <<>>
    <3>1. CASE SyncStart(d)
      <4>1. proc'[d] = ReplayOrPull(store'[d])
        BY <1>1, <3>1 DEF SyncStart
      <4> QED
        BY <4>1, ReplayIsFresh DEF Fresh
    <3>2. CASE ~SyncStart(d)
      <4>1. proc'[d].at = "ready"
        BY <1>2, <3>2 DEF UserStep, Create, Update, Delete, Export, Import, Save, Edit
      <4> QED
        BY <4>1
    <3> QED
      BY <3>1, <3>2
  <2> QED
    BY <1>1, <2>1, <2>2, <2>3 DEF FrontOf
<1>3. CASE Crash(d)
  <2>1. UNCHANGED saved /\ store'[d] = saved[d] /\ Finish(d)
    BY <1>1, <1>3 DEF Crash, Finish
  <2>2. proc'[d].at = "ready"
    BY <2>1, FinishRests
  <2> QED
    BY <1>1, <2>1, <2>2 DEF FrontOf
<1>4. CASE Refused(d) \/ ReplayLost(d)
  <2>1. UNCHANGED <<store, saved>> /\ Finish(d)
    BY <1>4 DEF Refused, ReplayLost
  <2>2. proc'[d].at = "ready"
    BY <2>1, FinishRests
  <2> QED
    BY <1>1, <2>1, <2>2 DEF FrontOf
<1> QED
  BY <1>2, <1>3, <1>4

\* A pull and a push find nothing waiting.
LEMMA PulledFront ==
  ASSUME IInv, IInv', ServerMoves, NEW d \in Devices, FrontOf(d), Pull(d)
  PROVE  FrontOf(d)'
<1>1. /\ store'[d] = AfterPull(d) /\ UNCHANGED <<seq, saved>> /\ proc[d].at = "pull"
  BY DEF Pull, serverVars, IInv
<1>2. store'[d].pending = store[d].pending
  BY <1>1 DEF AfterPull, IInv, DeviceOK, StoreOK, IsStore
<1>3. store'[d].pending = <<>> /\ store'[d].cursor <= seq'
  BY <1>1, <1>2, PulledCursor DEF FrontOf, FrontOK
<1> QED
  BY <1>1, <1>3, FrontGoesOn, NothingWaits DEF FrontOf

\* Results are applied to the store as it was, by a server that has moved on.
LEMMA AppliedFront ==
  ASSUME IInv, IInv', ServerMoves, NEW d \in Devices, FrontOf(d), nextId' = nextId,
         NEW batch, AllGood(commits, seq, nextId, batch), Serve(batch),
         NEW results, ResultsOK(commits', results)
  PROVE  /\ ApplyResults(store[d], results).cursor <= seq'
         /\ ApplyResults(store[d], results).pending = store[d].pending
<1>1. seq' \in Nat /\ LogOK(commits', seq', nextId') /\ GrowsNow
  BY ServeOK DEF IInv
<1>2. StoreOK(commits, seq, nextId, store[d]) /\ store[d].cursor <= seq /\ seq \in Nat
      /\ store[d].cursor \in Nat
  BY DEF IInv, DeviceOK, FrontOf, FrontOK, ServerOK, StoreOK, IsStore
<1>3. StoreOK(commits', seq', nextId', store[d])
  BY <1>1, <1>2, StoreStays DEF GrowsNow
<1>4. store[d].cursor <= seq'
  BY <1>1, <1>2 DEF ServerMoves
<1> QED
  BY <1>1, <1>3, <1>4, AppliedCursor, ApplyOK

LEMMA PushedFront ==
  ASSUME IInv, IInv', ServerMoves, NEW d \in Devices, FrontOf(d), Push(d)
  PROVE  FrontOf(d)'
<1>1. PICK chunk \in Chunks(d) :
          Serve(chunk) /\ store' = [store EXCEPT ![d] = ApplyResults(@, Results(chunk))]
  BY DEF Push
<1>2. proc[d].at = "push" /\ UNCHANGED <<saved, nextId>>
  BY DEF Push
<1>3. store'[d] = ApplyResults(store[d], Results(chunk))
  BY <1>1 DEF IInv
<1>4. AllGood(commits, seq, nextId, chunk)
  BY ChunkOK
<1>5. ResultsOK(commits', Results(chunk))
  BY <1>1, <1>2, <1>4, ServeOK DEF IInv
<1>6. store'[d].pending = <<>> /\ store'[d].cursor <= seq'
  BY <1>1, <1>2, <1>3, <1>4, <1>5, AppliedFront DEF FrontOf
<1> QED
  BY <1>2, <1>6, FrontGoesOn, NothingWaits DEF FrontOf

\* A batch that is not answered is the only one that waits.
LEMMA WaitingFront ==
  ASSUME IInv, IInv', TodoCurrent, BatchInv, ServerMoves, NEW d \in Devices, FrontOf(d),
         PushRefused(d) \/ PushLost(d)
  PROVE  FrontOf(d)'
<1>1. PICK chunk \in Chunks(d) : Unacknowledged(d, chunk)
  BY DEF PushRefused, PushLost
<1>2. proc[d].at = "push" /\ NewerThan(seq, idem'[NewKey])
  BY WaitIsNew DEF PushRefused, PushLost
<1> DEFINE entry == [key |-> NewKey, ids |-> DOMAIN chunk]
<1>3. entry.key = NewKey
  OBVIOUS
<1>4. store' = [store EXCEPT ![d].pending = Append(@, entry)] /\ UNCHANGED saved /\ Finish(d)
  BY <1>1 DEF Unacknowledged
<1> HIDE DEF entry
<1>5. /\ store'[d].cursor = store[d].cursor
      /\ store'[d].pending = Append(store[d].pending, entry)
  BY <1>4 DEF IInv, DeviceOK, StoreOK, IsStore
<1>6. store'[d].pending = <<entry>>
  <2>1. store[d].pending = <<>>
    BY <1>2 DEF FrontOf
  <2>2. Append(<<>>, entry) = <<entry>>
    OBVIOUS
  <2> QED
    BY <1>5, <2>1, <2>2
<1>7. Len(store'[d].pending) = 1 /\ Batches(store'[d]) = {entry}
  <2>1. Len(<<entry>>) = 1 /\ DOMAIN <<entry>> = {1} /\ <<entry>>[1] = entry
    OBVIOUS
  <2>2. \A s : s.pending = <<entry>> => Len(s.pending) = 1 /\ Batches(s) = {entry}
    BY <2>1 DEF Batches
  <2> QED
    BY <1>6, <2>2
<1>8. store'[d].cursor <= seq' /\ NewerThan(store'[d].cursor, idem'[NewKey])
  <2>1. /\ store[d].cursor <= seq /\ store[d].cursor \in Nat /\ seq \in Nat /\ seq' \in Nat
        /\ NewKey \in Keys /\ \A k \in Keys : ResultsOK(commits', idem'[k])
    BY <1>1, NewKeyIsKey
       DEF Unacknowledged, FrontOf, FrontOK, IInv, DeviceOK, StoreOK, IsStore, ServerOK
  <2>2. \A id \in AppliedIn(idem'[NewKey]) : idem'[NewKey][id].row.version \in Nat
    BY <2>1 DEF ResultsOK, IsMap, AppliedIn, Row
  <2> QED
    BY <1>2, <1>5, <2>1, <2>2 DEF ServerMoves, NewerThan
<1>9. proc'[d].at = "ready"
  BY <1>4, FinishRests
<1>10. FrontOK(idem', seq', store'[d])
  <2>1. \A b \in Batches(store'[d]) : NewerThan(store'[d].cursor, idem'[b.key])
    <3>1. \A b \in Batches(store'[d]) : b = entry
      BY <1>7
    <3> QED
      BY <1>3, <1>8, <3>1
  <2> QED
    BY <1>7, <1>8, <2>1 DEF FrontOK
<1>11. FrontOK(idem', seq', saved'[d])
  BY <1>4, FrontGoesOn DEF FrontOf
<1> QED
  BY <1>9, <1>10, <1>11 DEF FrontOf

LEMMA ReplayedFront ==
  ASSUME IInv, IInv', BatchInv, ServerMoves, NEW d \in Devices, FrontOf(d), Replay(d)
  PROVE  FrontOf(d)'
<1>1. /\ store[d].pending # <<>> /\ store'[d].pending = Tail(store[d].pending)
      /\ proc'[d] = ReplayOrPull(store'[d]) /\ UNCHANGED <<saved, nextId>>
  BY ReplayAnswers
<1>2. store'[d].pending = <<>>
  <2>1. store[d].pending \in Seq(Pending) /\ Len(store[d].pending) <= 1
    BY QueueFacts DEF FrontOf, FrontOK
  <2> QED
    BY <1>1, <2>1
<1>3. PICK results : /\ ResultsOK(commits', results)
                     /\ store'[d].cursor = ApplyResults(store[d], results).cursor
  BY ReplayIsNew
<1>4. \E batch : AllGood(commits, seq, nextId, batch) /\ Serve(batch)
  BY ReplayAnswers DEF Answers
<1>5. store'[d].cursor <= seq'
  BY <1>1, <1>3, <1>4, AppliedFront
<1> QED
  BY <1>1, <1>2, <1>5, FrontGoesOn, NothingWaits DEF FrontOf

LEMMA FrontNext ==
  ASSUME IInv, IInv', TodoCurrent, BatchInv, FrontInv, [Next]_vars
  PROVE  FrontInv'
<1>1. ServerMoves
  BY StepMoves
<1>2. RowsNewest'
  BY <1>1, RowsStayNewest DEF FrontInv
<1>3. \A d \in Devices : UNCHANGED <<store[d], saved[d], proc[d]>> => FrontOf(d)'
  BY <1>1, FrontGoesOn DEF FrontInv, FrontOf
<1>4. CASE UNCHANGED vars \/ DeleteExpired
  BY <1>2, <1>3, <1>4 DEF FrontInv, vars, DeleteExpired
<1>5. ASSUME NEW d \in Devices, UserStep(d) \/ SyncStep(d) \/ Crash(d)
      PROVE  FrontInv'
  <2>1. FrontOf(d)'
    BY <1>1, <1>5, QuietFront, PulledFront, PushedFront, WaitingFront, ReplayedFront
       DEF SyncStep, FrontInv
  <2>2. Elsewhere(d)
    BY <1>5, StepElsewhere
  <2> QED
    BY <1>2, <1>3, <2>1, <2>2 DEF FrontInv, Elsewhere
<1> QED
  BY <1>4, <1>5 DEF Next

LEMMA FrontInit == Init => FrontInv
<1> SUFFICES ASSUME Init PROVE FrontInv
  OBVIOUS
<1>1. \A d \in Devices : store[d].pending = <<>> /\ saved[d].pending = <<>>
                         /\ store[d].cursor = 0 /\ saved[d].cursor = 0
  BY DEF Init, EmptyStore
<1>2. \A d \in Devices : FrontOK(idem, seq, store[d]) /\ FrontOK(idem, seq, saved[d])
  BY <1>1, NothingWaits DEF Init
<1> QED
  BY <1>1, <1>2 DEF Init, FrontInv, FrontOf, RowsNewest

\* However answers are lost and processes killed, one batch at most is waiting for its
\* answer, and the answer is newer than all its device has received (syncer.go:163-251).
THEOREM FrontHolds == Spec => []FrontInv
<1>1. Init => FrontInv
  BY FrontInit
<1>2. IInv /\ IInv' /\ TodoCurrent /\ BatchInv /\ FrontInv /\ [Next]_vars => FrontInv'
  BY FrontNext
<1> QED
  BY <1>1, <1>2, InvHolds, TodoHolds, BatchesHold, PTL DEF Spec

\* Device d has row id, or the row that what it has of it is based on, if its cursor
\* is past the row.
Seen(d, id) ==
    rows[id].version \in 1..store[d].cursor =>
        /\ id \in DOMAIN store[d].recs
        /\ rows[id].version \in {store[d].recs[id].version, store[d].recs[id].base}

LEMMA SkippedIs ==
  ASSUME NEW d \in Devices
  PROVE  /\ Skipped(d) <=> \E id \in Ids : ~Seen(d, id)
         /\ Skipped(d)' <=> \E id \in Ids : ~Seen(d, id)'
  BY DEF Skipped, Seen

\* Where the cursor is, and that of a row the server changes.
LEMMA CursorFacts ==
  ASSUME IInv, IInv', FrontInv, ServerMoves, NEW d \in Devices
  PROVE  /\ store[d].cursor \in Nat /\ store'[d].cursor \in Nat /\ seq \in Nat
         /\ store[d].cursor <= seq
         /\ \A id \in Ids : rows[id].version \in Nat /\ rows'[id].version \in Nat
         /\ \A id \in Ids : rows'[id] = rows[id] \/ rows'[id].version > store[d].cursor
<1>1. /\ store[d].cursor \in Nat /\ store'[d].cursor \in Nat /\ seq \in Nat
      /\ store[d].cursor <= seq
      /\ \A id \in Ids : rows[id].version \in Nat /\ rows'[id].version \in Nat
  BY DEF IInv, DeviceOK, StoreOK, IsStore, ServerOK, RowsOK, Row, FrontInv, FrontOf, FrontOK
<1> QED
  BY <1>1 DEF ServerMoves

\* A device does not fall behind while it and its cursor stay where they are.
LEMMA SeenStays ==
  ASSUME IInv, IInv', FrontInv, ServerMoves, NEW d \in Devices,
         store'[d].cursor = store[d].cursor, NEW id \in Ids, Seen(d, id),
         id \in DOMAIN store[d].recs =>
             id \in DOMAIN store'[d].recs /\ store'[d].recs[id] = store[d].recs[id]
  PROVE  Seen(d, id)'
  BY CursorFacts DEF Seen

LEMMA IdleStays ==
  ASSUME IInv, IInv', FrontInv, ServerMoves, NEW d \in Devices,
         store'[d].cursor = store[d].cursor,
         \A id \in DOMAIN store[d].recs :
             id \in DOMAIN store'[d].recs /\ store'[d].recs[id] = store[d].recs[id],
         Skipped(d)'
  PROVE  Skipped(d)
<1>1. \A id \in Ids : Seen(d, id) => Seen(d, id)'
  BY SeenStays
<1> QED
  BY <1>1, SkippedIs

\* What a clean record is based on is nothing.
LEMMA CleanBase ==
  ASSUME IInv, NEW d \in Devices, NEW id \in DOMAIN store[d].recs, ~store[d].recs[id].dirty
  PROVE  store[d].recs[id].base = 0
<1>1. PICK row \in Row : FromServer(row) = store[d].recs[id]
  BY DEF IInv, DeviceOK, StoreOK, Clean
<1> QED
  BY <1>1 DEF FromServer

\* An edit of a record forgets a base that was not its version.
LEMMA EditForgets ==
  ASSUME IInv, IInv', FrontInv, ServerMoves, NEW d \in Devices,
         NEW edited \in DOMAIN store[d].recs, NEW rec, Edit(d, edited, rec),
         rec.version = store[d].recs[edited].version, rec.base = store[d].recs[edited].version,
         ~Skipped(d), Skipped(d)'
  PROVE  ForgetsBase(d)
<1> DEFINE old == store[d].recs[edited]
<1>1. /\ store'[d].recs = PutRecord(store[d].recs, edited, rec)
      /\ store'[d].cursor = store[d].cursor
  BY DEF Edit, IInv, DeviceOK, StoreOK, IsStore
<1>2. /\ DOMAIN store'[d].recs = DOMAIN store[d].recs
      /\ store'[d].recs[edited] = rec
      /\ \A id \in DOMAIN store[d].recs \ {edited} : store'[d].recs[id] = store[d].recs[id]
  BY <1>1 DEF PutRecord
<1>3. \A id \in Ids : Seen(d, id)
  BY SkippedIs
<1>4. \A id \in Ids \ {edited} : Seen(d, id)'
  BY <1>1, <1>2, <1>3, SeenStays
<1>5. edited \in Ids /\ ~Seen(d, edited)'
  BY <1>4, SkippedIs
<1>6. UNCHANGED rows
  BY DEF Edit, serverVars
<1>7. /\ rows[edited].version \in 1..store[d].cursor
      /\ rows[edited].version \in {old.version, old.base}
      /\ rows[edited].version # old.version
  BY <1>1, <1>2, <1>3, <1>5, <1>6 DEF Seen
<1>8. old.dirty
  BY <1>7, CleanBase
<1> QED
  BY <1>2, <1>7, <1>8 DEF ForgetsBase, DirtyIds

LEMMA UserBehind ==
  ASSUME IInv, IInv', FrontInv, ServerMoves, NEW d \in Devices, UserStep(d),
         ~Skipped(d), Skipped(d)'
  PROVE  ForgetsBase(d) \/ imports' > imports
<1>1. CASE Export(d) \/ SyncStart(d) \/ Save(d)
  <2>1. UNCHANGED store
    BY <1>1 DEF Export, SyncStart, Save
  <2> QED
    BY <2>1, IdleStays
<1>2. CASE Import(d)
  <2>1. imports' = imports + 1
    BY <1>2 DEF Import
  <2>2. imports \in Int
    BY SyncerAssumption DEF IInv, UserOK
  <2> QED
    BY <2>1, <2>2
<1>3. ASSUME Create(d)
      PROVE  FALSE
  <2> DEFINE rec == [version |-> 0, base |-> 0, deleted |-> FALSE, body |-> {edits + 1},
                     dirty |-> TRUE, dirtyAt |-> Now(d)]
  <2>1. Edit(d, nextId, rec) /\ nextId \in Ids
    BY <1>3 DEF Create
  <2> HIDE DEF rec
  <2>2. /\ store'[d].recs = PutRecord(store[d].recs, nextId, rec)
        /\ store'[d].cursor = store[d].cursor
    BY <2>1 DEF Edit, IInv, DeviceOK, StoreOK, IsStore
  <2>3. nextId \notin DOMAIN store[d].recs
    <3>1. nextId \in Nat
      BY DEF IInv, ServerOK
    <3> QED
      BY <2>1, <3>1, NewIsUnused DEF Promise!Unused
  <2>4. \A id \in DOMAIN store[d].recs :
            id \in DOMAIN store'[d].recs /\ store'[d].recs[id] = store[d].recs[id]
    BY <2>2, <2>3 DEF PutRecord
  <2> QED
    BY <2>2, <2>4, IdleStays
<1>4. ASSUME NEW id \in DOMAIN store[d].recs, Update(d, id, store[d].recs[id].body)
      PROVE  ForgetsBase(d)
  <2> DEFINE old == store[d].recs[id]
             rec == [old EXCEPT !.body = old.body \union {edits + 1}, !.base = old.version,
                                !.dirty = TRUE, !.dirtyAt = Now(d)]
  <2>1. old \in Stored
    BY RecordFacts DEF IInv, DeviceOK, StoreOK
  <2>2. Edit(d, id, rec)
    BY <1>4 DEF Update
  <2>3. rec.version = old.version /\ rec.base = old.version
    BY <2>1 DEF Stored
  <2> HIDE DEF rec
  <2> QED
    BY <2>2, <2>3, EditForgets
<1>5. ASSUME NEW id \in DOMAIN store[d].recs, Delete(d, id)
      PROVE  ForgetsBase(d)
  <2> DEFINE old == store[d].recs[id]
             rec == [old EXCEPT !.deleted = TRUE, !.base = old.version,
                                !.dirty = TRUE, !.dirtyAt = Now(d)]
  <2>1. old \in Stored
    BY RecordFacts DEF IInv, DeviceOK, StoreOK
  <2>2. Edit(d, id, rec)
    BY <1>5 DEF Delete
  <2>3. rec.version = old.version /\ rec.base = old.version
    BY <2>1 DEF Stored
  <2> HIDE DEF rec
  <2> QED
    BY <2>2, <2>3, EditForgets
<1> QED
  BY <1>1, <1>2, <1>3, <1>4, <1>5 DEF UserStep

\* A pull takes in all that its cursor moves past.
LEMMA PullIsNotBehind ==
  ASSUME IInv, IInv', FrontInv, ServerMoves, NEW d \in Devices, Pull(d), ~Skipped(d)
  PROVE  ~Skipped(d)'
<1>1. store'[d] = AfterPull(d) /\ UNCHANGED rows /\ CopyIds(d) \subseteq Ids
      /\ nextId' = nextId + Cardinality(Copied(d))
  BY DEF Pull, serverVars, IInv
<1>2. store'[d].recs = [id \in DOMAIN store[d].recs \union Incoming(d) \union CopyIds(d) |->
                           IF id \in CopyIds(d) THEN CopyAt(d, id)
                           ELSE IF id \in Incoming(d) THEN Merged(d, id)
                           ELSE store[d].recs[id]]
  BY <1>1 DEF AfterPull, IInv, DeviceOK, StoreOK, IsStore
<1>3. \A id \in CopyIds(d) : Promise!Unused(id)
  <2>1. \A id \in CopyIds(d) : id >= nextId /\ id \in Ids
    BY <1>1, CopyIdsNew DEF CopyIds
  <2> QED
    BY <2>1, NewIsUnused
<1> SUFFICES ASSUME NEW id \in Ids, rows[id].version \in 1..store'[d].cursor
             PROVE  /\ id \in DOMAIN store'[d].recs
                    /\ rows[id].version \in {store'[d].recs[id].version, store'[d].recs[id].base}
  BY <1>1, SkippedIs DEF Seen
<1>4. id \notin CopyIds(d)
  BY <1>3, Empty DEF Promise!Unused
<1>5. CASE id \in Incoming(d)
  <2>1. id \in DOMAIN store'[d].recs /\ store'[d].recs[id] = Merged(d, id)
    BY <1>2, <1>4, <1>5
  <2>2. CASE ~InConflict(d, id) \/ ServerWins(store[d].recs[id], rows[id])
    BY <2>1, <2>2 DEF Merged, FromServer
  <2>3. CASE InConflict(d, id) /\ ~ServerWins(store[d].recs[id], rows[id])
    <3>1. store[d].recs[id] \in Stored
      BY <2>3, RecordFacts DEF InConflict, IInv, DeviceOK, StoreOK
    <3>2. store'[d].recs[id] = [store[d].recs[id] EXCEPT !.base = rows[id].version]
      BY <2>1, <2>3 DEF Merged
    <3>3. store'[d].recs[id].base = rows[id].version
      BY <3>1, <3>2 DEF Stored
    <3> QED
      BY <2>1, <3>3
  <2> QED
    BY <2>1, <2>2, <2>3
<1>6. CASE id \notin Incoming(d)
  <2>1. rows[id].version \in 1..store[d].cursor
    BY <1>6, CursorFacts DEF Incoming
  <2>2. /\ id \in DOMAIN store[d].recs
        /\ rows[id].version \in {store[d].recs[id].version, store[d].recs[id].base}
    BY <2>1, SkippedIs DEF Seen
  <2>3. id \in DOMAIN store'[d].recs /\ store'[d].recs[id] = store[d].recs[id]
    BY <1>2, <1>4, <1>6, <2>2
  <2> QED
    BY <2>2, <2>3
<1> QED
  BY <1>5, <1>6

\* What is applied is newer than the cursor was: the rows it passes are not.
LEMMA AnswerBehind ==
  ASSUME IInv, IInv', FrontInv, ServerMoves, NEW d \in Devices, NEW results,
         store'[d].recs = ApplyResults(store[d], results).recs,
         \A id \in Ids : \/ rows'[id] = rows[id]
                         \/ id \in AppliedIn(results) /\ results[id].row = rows'[id],
         \A id \in Ids \intersect AppliedIn(results) :
             rows'[id] = rows[id] => rows[id].version > store[d].cursor,
         ~Skipped(d), Skipped(d)'
  PROVE  MovesPastRow(d)
<1>1. PICK id \in Ids : ~Seen(d, id)'
  BY SkippedIs
<1>2. rows'[id].version \in 1..store'[d].cursor
  BY <1>1 DEF Seen
<1>3. store'[d].recs = [x \in DOMAIN store[d].recs \union AppliedIn(results) |->
                           IF x \in AppliedIn(results) THEN FromServer(results[x].row)
                           ELSE store[d].recs[x]]
  BY DEF IInv, DeviceOK, StoreOK, IsStore, ApplyResults
<1>4. rows'[id] = rows[id]
  <2> SUFFICES ASSUME id \in AppliedIn(results), results[id].row = rows'[id]
               PROVE  FALSE
    OBVIOUS
  <2>1. id \in DOMAIN store'[d].recs /\ store'[d].recs[id] = FromServer(rows'[id])
    BY <1>3
  <2>2. store'[d].recs[id].version = rows'[id].version
    BY <2>1 DEF FromServer
  <2> QED
    BY <1>1, <2>1, <2>2 DEF Seen
<1>5. rows[id].version > store[d].cursor
  <2>1. CASE id \in AppliedIn(results)
    BY <1>4, <2>1
  <2>2. CASE id \notin AppliedIn(results)
    <3> SUFFICES ASSUME rows[id].version \in 1..store[d].cursor
                 PROVE  FALSE
      BY <1>2, <1>4, CursorFacts
    <3>1. /\ id \in DOMAIN store[d].recs
          /\ rows[id].version \in {store[d].recs[id].version, store[d].recs[id].base}
      BY SkippedIs DEF Seen
    <3>2. id \in DOMAIN store'[d].recs /\ store'[d].recs[id] = store[d].recs[id]
      BY <1>3, <2>2, <3>1
    <3> QED
      BY <1>1, <1>4, <3>1, <3>2 DEF Seen
  <2> QED
    BY <2>1, <2>2
<1>6. rows[id].version \in (store[d].cursor + 1)..store'[d].cursor
  BY <1>2, <1>4, <1>5, CursorFacts
<1> QED
  BY <1>4, <1>6 DEF MovesPastRow

LEMMA PushBehind ==
  ASSUME IInv, IInv', FrontInv, ServerMoves, NEW d \in Devices, Push(d),
         ~Skipped(d), Skipped(d)'
  PROVE  MovesPastRow(d)
<1>1. PICK chunk \in Chunks(d) :
          Serve(chunk) /\ store' = [store EXCEPT ![d] = ApplyResults(@, Results(chunk))]
  BY DEF Push
<1>2. nextId' = nextId /\ AllGood(commits, seq, nextId, chunk)
  BY ChunkOK DEF Push
<1> DEFINE results == Results(chunk)
<1>3. /\ \A id \in Ids \ Applicable(chunk) : rows'[id] = rows[id]
      /\ \A id \in Applicable(chunk) : results[id].row = rows'[id]
      /\ AppliedIn(results) = Applicable(chunk)
      /\ \A id \in Applicable(chunk) : rows'[id].version > seq
  BY <1>1, <1>2, ServedRows, ServedIsNew
<1>4. store'[d] = ApplyResults(store[d], results)
  BY <1>1 DEF IInv
<1> HIDE DEF results
<1>5. \A id \in Ids \intersect AppliedIn(results) :
          rows'[id] = rows[id] => rows[id].version > store[d].cursor
  BY <1>3, CursorFacts
<1>6. \A id \in Ids : \/ rows'[id] = rows[id]
                      \/ id \in AppliedIn(results) /\ results[id].row = rows'[id]
  BY <1>3
<1> QED
  BY <1>4, <1>5, <1>6, AnswerBehind

LEMMA ReplayBehind ==
  ASSUME IInv, IInv', FrontInv, ServerMoves, NEW d \in Devices, Replay(d),
         ~Skipped(d), Skipped(d)'
  PROVE  MovesPastRow(d)
<1> DEFINE key == Head(store[d].pending).key
<1>1. PICK results :
          /\ results = idem[key] \/ NewerThan(seq, results)
          /\ ResultsOK(commits', results)
          /\ \A id \in Ids : \/ rows'[id] = rows[id]
                             \/ id \in AppliedIn(results) /\ results[id].row = rows'[id]
          /\ store'[d].recs = ApplyResults(store[d], results).recs
  BY ReplayIsNew
<1>2. Head(store[d].pending) \in Batches(store[d])
  BY QueueFacts DEF Replay
<1>3. NewerThan(store[d].cursor, results)
  <2>1. \A id \in AppliedIn(results) : results[id].row.version \in Nat
    BY <1>1 DEF ResultsOK, IsMap, AppliedIn, Row
  <2>2. CASE NewerThan(seq, results)
    BY <2>1, <2>2, CursorFacts DEF NewerThan
  <2>3. CASE results = idem[key]
    BY <1>2, <2>3 DEF FrontInv, FrontOf, FrontOK
  <2> QED
    BY <1>1, <2>2, <2>3
<1> HIDE DEF key
<1>4. ASSUME NEW id \in Ids \intersect AppliedIn(results), rows'[id] = rows[id]
      PROVE  rows[id].version > store[d].cursor
  <2>1. PICK c \in commits' : c.id = id /\ c.row = results[id].row
    BY <1>1, <1>4 DEF ResultsOK, Committed
  <2>2. c.row.version > store[d].cursor /\ c.row.version \in Nat
    BY <1>3, <1>4, <2>1 DEF NewerThan, IInv, ServerOK, LogOK
  <2>3. c.row.version <= rows'[id].version
    BY <2>1, RowsStayNewest DEF RowsNewest, FrontInv
  <2> QED
    BY <1>4, <2>2, <2>3, CursorFacts
<1> QED
  BY <1>1, <1>4, AnswerBehind

\* A step that takes d behind is one of four.
LEMMA StepBehind ==
  ASSUME IInv, IInv', TodoCurrent, BatchInv, FrontInv, [Next]_vars, NEW d \in Devices,
         ~Skipped(d), Skipped(d)'
  PROVE  \/ proc[d].at \in {"replay", "push"} /\ MovesPastRow(d)
         \/ proc[d].at = "ready" /\ ForgetsBase(d)
         \/ imports' > imports
         \/ store'[d] = saved[d]
<1>1. ServerMoves
  BY StepMoves
<1>2. store'[d] # store[d]
  BY <1>1, IdleStays
<1>3. UserStep(d) \/ SyncStep(d) \/ Crash(d)
  BY <1>2, OnlyItsOwn DEF Next, vars, DeleteExpired
<1>4. CASE UserStep(d)
  BY <1>1, <1>4, UserBehind DEF UserStep
<1>5. CASE Crash(d)
  BY <1>5 DEF Crash, IInv
<1>6. CASE Pull(d)
  BY <1>1, <1>6, PullIsNotBehind
<1>7. CASE Push(d)
  BY <1>1, <1>7, PushBehind DEF Push
<1>8. CASE Replay(d)
  BY <1>1, <1>8, ReplayBehind DEF Replay
<1>9. CASE Refused(d) \/ ReplayLost(d)
  BY <1>2, <1>9 DEF Refused, ReplayLost
<1>10. CASE PushRefused(d) \/ PushLost(d)
  <2>1. PICK entry : store' = [store EXCEPT ![d].pending = Append(@, entry)]
    BY <1>10 DEF PushRefused, PushLost, Unacknowledged
  <2>2. store'[d].recs = store[d].recs /\ store'[d].cursor = store[d].cursor
    BY <2>1 DEF IInv, DeviceOK, StoreOK, IsStore
  <2> QED
    BY <1>1, <2>2, IdleStays
<1> QED
  BY <1>3, <1>4, <1>5, <1>6, <1>7, <1>8, <1>9, <1>10 DEF SyncStep

\* A device's cursor gets past a row it does not have, nor has merged, by the answer to
\* a push, an edit that forgets the merge, an import or a restart, and in no other way:
\* never by a pull, a retry after a failure or anything on another device
\* (syncer.go:109-127, 212-223; vault_manager.go:99-127).
THEOREM BehindOnlyForAReason == Spec => BehindForAReason
<1>1. IInv /\ IInv' /\ TodoCurrent /\ BatchInv /\ FrontInv /\ [Next]_vars =>
          \A d \in Devices :
              ~Skipped(d) /\ Skipped(d)' =>
                  \/ proc[d].at \in {"replay", "push"} /\ MovesPastRow(d)
                  \/ proc[d].at = "ready" /\ ForgetsBase(d)
                  \/ imports' > imports
                  \/ store'[d] = saved[d]
  BY StepBehind
<1> QED
  BY <1>1, InvHolds, TodoHolds, BatchesHold, FrontHolds, PTL DEF Spec, BehindForAReason

LEMMA SyncedIsEqual ==
  ASSUME IInv, BatchInv
  PROVE  SyncedDevicesAgree
<1> SUFFICES ASSUME NEW d \in Devices, DirtyIds(d) = {}, Incoming(d) = {}, ~Skipped(d)
             PROVE  store[d].recs =
                        [id \in {x \in Ids : rows[x] # NoRow} |-> FromServer(rows[id])]
  BY DEF SyncedDevicesAgree
<1> DEFINE recs == store[d].recs
<1>1. recs = [id \in DOMAIN recs |-> recs[id]] /\ DOMAIN recs \subseteq Ids
  BY DEF IInv, DeviceOK, StoreOK, IsStore, IsMap
<1>2. \A id \in DOMAIN recs : ~recs[id].dirty
  BY DEF DirtyIds
<1>3. ASSUME NEW id \in DOMAIN recs
      PROVE  /\ rows[id] # NoRow /\ recs[id].base = 0
             /\ \E c \in commits : c.id = id /\ FromServer(c.row) = recs[id]
  <2>1. PICK row \in Row : Committed(commits, id, row) /\ FromServer(row) = recs[id]
    BY <1>2 DEF IInv, DeviceOK, StoreOK, Clean
  <2> QED
    BY <1>2, <2>1, CleanBase DEF Committed, BatchInv, RowsStay
<1>4. ASSUME NEW id \in Ids, rows[id] # NoRow
      PROVE  id \in DOMAIN recs /\ recs[id] = FromServer(rows[id])
  <2>1. PICK c \in commits : c.id = id /\ c.row = rows[id]
    BY <1>4 DEF IInv, ServerOK, RowsOK, Committed
  <2>2. rows[id].version \in Nat /\ rows[id].version >= 1
    BY <2>1 DEF IInv, ServerOK, LogOK
  <2>3. rows[id].version <= store[d].cursor
    <3>1. store[d].cursor \in Nat /\ ~(rows[id].version > store[d].cursor)
      BY DEF Incoming, IInv, DeviceOK, StoreOK, IsStore
    <3> QED
      BY <2>2, <3>1
  <2>4. /\ id \in DOMAIN recs
        /\ rows[id].version \in {recs[id].version, recs[id].base}
    <3>1. rows[id].version \in 1..store[d].cursor
      BY <2>2, <2>3 DEF IInv, DeviceOK, StoreOK, IsStore
    <3> QED
      BY <3>1 DEF Skipped
  <2>5. rows[id].version = recs[id].version
    BY <1>3, <2>2, <2>4
  <2>6. PICK c2 \in commits : c2.id = id /\ FromServer(c2.row) = recs[id]
    BY <1>3, <2>4
  <2>7. c2.row.version = c.row.version
    BY <2>1, <2>5, <2>6 DEF FromServer
  <2>8. c2.row = c.row
    BY <2>7 DEF IInv, ServerOK, LogOK
  <2> QED
    BY <2>1, <2>4, <2>6, <2>8
<1>5. DOMAIN recs = {x \in Ids : rows[x] # NoRow}
  BY <1>1, <1>3, <1>4
<1>6. \A id \in DOMAIN recs : recs[id] = FromServer(rows[id])
  BY <1>1, <1>3, <1>4
<1> HIDE DEF recs
<1>7. recs = [id \in {x \in Ids : rows[x] # NoRow} |-> FromServer(rows[id])]
  BY <1>1, <1>5, <1>6
<1> QED
  BY <1>7 DEF recs

\* A device that has nothing to send or to receive, and whose cursor has skipped no row,
\* holds the server's records, whatever was lost, retried or cut short before.
THEOREM SyncedAgree == Spec => []SyncedDevicesAgree
  BY InvHolds, BatchesHold, SyncedIsEqual, PTL
===============================================================================
