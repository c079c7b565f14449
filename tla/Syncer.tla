-------------------------------- MODULE Syncer --------------------------------
(***************************************************************************)
(* The devices of one account and the server they synchronise with:        *)
(* VaultManager's local edits, Syncer.Sync, Session.Close and FileStore on  *)
(* each device (internal/client), against Push and Pull served in one step *)
(* each (their interleaving is SyncServer's subject).                      *)
(*                                                                         *)
(* A device runs one thing at a time, as a CLI command does: edits happen   *)
(* only when no sync is under way.  Tui lets them happen during one.       *)
(*                                                                         *)
(* The server's sequence is also its clock: UpdatedAt of a row is its      *)
(* version, and DirtyAt is the sequence at the time of the edit plus the   *)
(* error of the device's clock.                                            *)
(*                                                                         *)
(* A body stands for an encrypted payload by the edits that went into it:  *)
(* the last one and those its author had in front of him.                  *)
(* UUIDs for records and keys are numbers not used before.                 *)
(***************************************************************************)
EXTENDS Integers, Sequences, FiniteSetsExt, Functions

CONSTANTS
    Devices,
    ClockSkew,      \* [Devices -> Int]: device clock minus server clock
    ChunkSize,      \* records in one push (defaultChunkSize, 100)
    MaxIterations,  \* pull-push rounds of one sync (defaultMaxIterations, 5)
    Faults,         \* which faults can occur
    MaxFaults,      \* bound: faults, and imports of a backup
    MaxEdits,       \* bound: creates, updates and deletes
    MaxImports,     \* bound: imports
    MaxIds,         \* bound: record ids
    MaxKeys         \* bound: idempotency keys in use at one time

FaultKinds ==
    {"crash",       \* the process ends without Session.Close
     "refused",     \* a pull or push fails before the server acts on it
     "lost",        \* a push takes effect and is recorded, its answer is lost
     "unrecorded",  \* a push is cut short: some of it took effect, no result is recorded
     "expired"}     \* recorded results grow older than 24 hours

ASSUME SyncerAssumption ==
    /\ ClockSkew \in [Devices -> Int]
    /\ ChunkSize \in Nat \ {0}
    /\ MaxIterations \in Nat \ {0}
    /\ Faults \subseteq FaultKinds
    /\ MaxFaults \in Nat
    /\ MaxEdits \in Nat
    /\ MaxImports \in Nat
    /\ MaxIds \in Nat
    /\ MaxKeys \in Nat

VARIABLES
    rows,       \* rows[id]: the server's record; version 0 is "no row"
    seq,        \* records_version_seq
    idem,       \* idem[k]: the recorded result of push k, NoResult if none
    store,      \* store[d]: the Store in the memory of device d
    saved,      \* saved[d]: what its file holds
    proc,       \* proc[d]: where d is in Sync or Close
    bundle,     \* the last exported backup file
    edits,      \* edits made so far; names the next one
    imports,    \* imports made so far
    faults,     \* faults so far
    nextId,     \* the next unused record id
    commits     \* history of the server's rows

serverVars == <<rows, seq, idem, commits>>
userVars == <<bundle, edits, imports>>
vars == <<serverVars, store, saved, proc, userVars, faults, nextId>>

-------------------------------------------------------------------------------
Ids == 1..MaxIds
Keys == 1..MaxKeys
Bodies == SUBSET (1..MaxEdits)

\* The server's view of a record (domain.Record).
Row == [version: Nat, deleted: BOOLEAN, body: Bodies]
NoRow == [version |-> 0, deleted |-> FALSE, body |-> {}]

\* What a device holds of a record (storage.StoredRecord).
Stored == [version: Nat, base: Nat, deleted: BOOLEAN, body: Bodies,
           dirty: BOOLEAN, dirtyAt: Int]

FromServer(row) ==
    [version |-> row.version, base |-> 0, deleted |-> row.deleted,
     body |-> row.body, dirty |-> FALSE, dirtyAt |-> 0]

\* The result of a push: for each record, whether it was applied and the row.
NoResult == [id \in {} |-> NoRow]

Now(d) == seq + ClockSkew[d]

DirtyIds(d) == {id \in DOMAIN store[d].recs : store[d].recs[id].dirty}

PutRecord(recs, id, rec) ==
    [x \in DOMAIN recs \union {id} |-> IF x = id THEN rec ELSE recs[x]]

NoRecords == [id \in {} |-> NoRow]

\* at: the step Sync is about to take; todo: the records it has read from the
\* store for it and not yet sent.
Ready == [at |-> "ready", iter |-> 0, todo |-> NoRecords, conflicts |-> FALSE]

EmptyStore == [recs |-> NoRecords, cursor |-> 0, pending |-> <<>>]

Init ==
    /\ rows = [id \in Ids |-> NoRow]
    /\ seq = 0
    /\ idem = [k \in Keys |-> NoResult]
    /\ store = [d \in Devices |-> EmptyStore]
    /\ saved = [d \in Devices |-> EmptyStore]
    /\ proc = [d \in Devices |-> Ready]
    /\ bundle = NoRecords
    /\ edits = 0
    /\ imports = 0
    /\ faults = 0
    /\ nextId = 1
    /\ commits = {}

-------------------------------------------------------------------------------
(* VaultManager: edits of the local store.                                 *)

Edit(d, id, rec) ==
    /\ edits < MaxEdits
    /\ edits' = edits + 1
    /\ store' = [store EXCEPT ![d].recs = PutRecord(@, id, rec)]
    /\ UNCHANGED <<serverVars, saved, proc, bundle, imports, faults>>

Create(d) ==
    /\ nextId \in Ids
    /\ nextId' = nextId + 1
    /\ Edit(d, nextId,
            [version |-> 0, base |-> 0, deleted |-> FALSE, body |-> {edits + 1},
             dirty |-> TRUE, dirtyAt |-> Now(d)])

\* Mutant of Update: the base is not set to the version the user has seen.
UpdateKeepsBase(d, id, seen) ==
    /\ id \in DOMAIN store[d].recs
    /\ Edit(d, id, [store[d].recs[id] EXCEPT !.body = seen \union {edits + 1},
                                             !.dirty = TRUE, !.dirtyAt = Now(d)])
    /\ UNCHANGED nextId

\* The user, having seen a body of the record, enters another.  Update takes the
\* record as it is, so an update of a tombstone stays one.
Update(d, id, seen) ==
    /\ id \in DOMAIN store[d].recs
    /\ LET existing == store[d].recs[id]
       IN  Edit(d, id, [existing EXCEPT
                            !.body = seen \union {edits + 1}, !.base = existing.version,
                            !.dirty = TRUE, !.dirtyAt = Now(d)])
    /\ UNCHANGED nextId

Delete(d, id) ==
    /\ id \in DOMAIN store[d].recs
    /\ LET existing == store[d].recs[id]
       IN  Edit(d, id, [existing EXCEPT
                            !.deleted = TRUE, !.base = existing.version,
                            !.dirty = TRUE, !.dirtyAt = Now(d)])
    /\ UNCHANGED nextId

\* export writes the records List() shows, import puts them back as local edits
\* over whatever the store holds.  A second export before the import would only
\* replace the file of the first.
Export(d) ==
    /\ DOMAIN bundle = {}
    /\ imports < MaxImports
    /\ faults + imports < MaxFaults
    /\ bundle' = [id \in {x \in DOMAIN store[d].recs : ~store[d].recs[x].deleted} |->
                     store[d].recs[id]]
    /\ UNCHANGED <<serverVars, store, saved, proc, edits, imports, faults, nextId>>

Import(d) ==
    /\ imports < MaxImports
    /\ faults + imports < MaxFaults
    /\ DOMAIN bundle # {}
    /\ imports' = imports + 1
    /\ store' = [store EXCEPT ![d].recs =
                    [id \in DOMAIN @ \union DOMAIN bundle |->
                        IF id \in DOMAIN bundle
                        THEN [bundle[id] EXCEPT !.base = bundle[id].version,
                                                !.dirty = TRUE, !.dirtyAt = Now(d)]
                        ELSE @[id]]]
    /\ UNCHANGED <<serverVars, saved, proc, bundle, edits, faults, nextId>>

-------------------------------------------------------------------------------
(* The server.                                                             *)

\* The records of a batch whose base is still the row's version, or new.
Applicable(batch) == {id \in DOMAIN batch : rows[id].version \in {0, batch[id].base}}

\* Each applied record draws the next version.  The order within one push is of
\* no consequence here: it is served in one step.
VersionFor(applicable, id) == seq + Cardinality({x \in applicable : x <= id})

RowsAfter(batch) ==
    LET applicable == Applicable(batch)
    IN  [id \in Ids |->
            IF id \in applicable
            THEN [version |-> VersionFor(applicable, id),
                  deleted |-> batch[id].deleted, body |-> batch[id].body]
            ELSE rows[id]]

Results(batch) ==
    LET after == RowsAfter(batch)
        applicable == Applicable(batch)
    IN  [id \in DOMAIN batch |-> [applied |-> id \in applicable, row |-> after[id]]]

\* Mutant of Recorded: the key is not looked up.
NeverRecorded(key) == FALSE

\* SyncService.Push: key has a recorded result, or the batch is applied.
Recorded(key) == DOMAIN idem[key] # {}

Serve(batch) ==
    /\ rows' = RowsAfter(batch)
    /\ seq' = seq + Cardinality(Applicable(batch))
    /\ commits' = commits \union
           {[id |-> id, base |-> batch[id].base, row |-> rows'[id]] : id \in Applicable(batch)}

-------------------------------------------------------------------------------
(* Syncer.Sync, begun by the user (sync, s) or by Session.Close.           *)

Finish(d) == proc' = [proc EXCEPT ![d] = Ready]

\* What is next once s is the store: the oldest pending batch, with its records as
\* they are in s, or the first pull.
ReplayOrPull(s) ==
    IF s.pending = <<>>
    THEN [Ready EXCEPT !.at = "pull", !.iter = 1]
    ELSE [Ready EXCEPT !.at = "replay", !.iter = 1,
                       !.todo = Restrict(s.recs, Head(s.pending).ids \intersect DOMAIN s.recs)]

SyncStart(d) ==
    /\ proc[d].at = "ready"
    /\ proc' = [proc EXCEPT ![d] = ReplayOrPull(store[d])]
    /\ UNCHANGED <<serverVars, store, saved, userVars, faults, nextId>>

\* applyPushResults: the applied records become clean copies of the server's and
\* the cursor moves to the largest version among them; the row of a conflict is
\* not looked at.
AppliedIn(results) == {id \in DOMAIN results : results[id].applied}

ApplyResults(s, results) ==
    LET applied == AppliedIn(results)
    IN  [s EXCEPT
            !.recs = [id \in DOMAIN @ \union applied |->
                         IF id \in applied THEN FromServer(results[id].row) ELSE @[id]],
            !.cursor = IF \A id \in applied : results[id].row.version <= @
                       THEN @
                       ELSE CHOOSE v \in {results[id].row.version : id \in applied} :
                                \A id \in applied : results[id].row.version <= v]

\* Mutant of HadConflicts: the conflict of a push is not reported to the loop.
NoConflicts(results) == FALSE

HadConflicts(results) == AppliedIn(results) # DOMAIN results

\* replayPending: the batch is sent again under its key and acknowledged.
Replay(d) ==
    /\ proc[d].at = "replay"
    /\ LET key == Head(store[d].pending).key
           results == IF Recorded(key) THEN idem[key] ELSE Results(proc[d].todo)
           after == [ApplyResults(store[d], results) EXCEPT !.pending = Tail(@)]
       IN  /\ IF Recorded(key)
              THEN UNCHANGED serverVars
              ELSE /\ Serve(proc[d].todo)
                   /\ idem' = [idem EXCEPT ![key] = results]
           /\ store' = [store EXCEPT ![d] = after]
           /\ proc' = [proc EXCEPT ![d] = ReplayOrPull(after)]
    /\ UNCHANGED <<saved, userVars, faults, nextId>>

-------------------------------------------------------------------------------
(* pull.                                                                   *)

Incoming(d) == {id \in Ids : rows[id].version > store[d].cursor}

InConflict(d, id) == id \in DOMAIN store[d].recs /\ store[d].recs[id].dirty

\* The cases of resolveConflict.
LocalDeleteWins(local, row) == local.deleted /\ ~row.deleted

\* Mutants of ServerWins: the later change wins, deleted or not; the times of two
\* changes are not compared.
LaterWins(local, row) == row.version > local.dirtyAt

DeleteWinsOnly(local, row) == ~local.deleted /\ row.deleted

ServerWins(local, row) ==
    \/ ~local.deleted /\ row.deleted
    \/ local.deleted = row.deleted /\ row.version > local.dirtyAt

\* Mutant of Merged: the server's row always replaces the local record.
MergedToServer(d, id) == FromServer(rows[id])

\* Mutant of Merged: the base of a record that wins is not moved.
MergedKeepsBase(d, id) ==
    IF ~InConflict(d, id) \/ ServerWins(store[d].recs[id], rows[id])
    THEN FromServer(rows[id])
    ELSE store[d].recs[id]

\* The record of an incoming id after the merge.
Merged(d, id) ==
    LET local == store[d].recs[id]
    IN  IF ~InConflict(d, id) \/ ServerWins(local, rows[id])
        THEN FromServer(rows[id])
        ELSE [local EXCEPT !.base = rows[id].version]

\* Mutant of Copied: what a delete wins over is not copied.
CopiedFromHere(d) ==
    {id \in Incoming(d) :
        InConflict(d, id) /\ ServerWins(store[d].recs[id], rows[id])}

\* The losing side is copied when a delete or the server wins, not when an edit
\* made here wins.
Copied(d) ==
    {id \in Incoming(d) :
        /\ InConflict(d, id)
        /\ \/ LocalDeleteWins(store[d].recs[id], rows[id])
           \/ ServerWins(store[d].recs[id], rows[id])}

\* Mutant of ConflictCopy: the copy is not marked dirty.
ConflictCopyClean(d, id) ==
    IF LocalDeleteWins(store[d].recs[id], rows[id])
    THEN FromServer(rows[id])
    ELSE [store[d].recs[id] EXCEPT !.base = 0, !.dirty = FALSE]

ConflictCopy(d, id) ==
    IF LocalDeleteWins(store[d].recs[id], rows[id])
    THEN [FromServer(rows[id]) EXCEPT !.dirty = TRUE, !.dirtyAt = Now(d)]
    ELSE [store[d].recs[id] EXCEPT !.base = 0]

\* Copies get new ids.
CopyId(d, id) == nextId + Cardinality({x \in Copied(d) : x < id})

CopyIds(d) == {CopyId(d, id) : id \in Copied(d)}

CopyAt(d, new) == ConflictCopy(d, CHOOSE id \in Copied(d) : CopyId(d, id) = new)

AfterPull(d) ==
    LET incoming == Incoming(d)
        copies == CopyIds(d)
    IN  [store[d] EXCEPT
            !.recs = [id \in DOMAIN @ \union incoming \union copies |->
                         IF id \in copies THEN CopyAt(d, id)
                         ELSE IF id \in incoming THEN Merged(d, id)
                         ELSE @[id]],
            !.cursor = IF incoming = {} THEN @
                       ELSE CHOOSE v \in {rows[id].version : id \in incoming} :
                                \A id \in incoming : rows[id].version <= v]

\* One pull, the merge, and ListDirty, which decides whether there is anything
\* to push.
Pull(d) ==
    /\ proc[d].at = "pull"
    /\ CopyIds(d) \subseteq Ids
    /\ nextId' = nextId + Cardinality(Copied(d))
    /\ store' = [store EXCEPT ![d] = AfterPull(d)]
    /\ LET recs == store'[d].recs
           dirty == {id \in DOMAIN recs : recs[id].dirty}
       IN  IF dirty = {}
           THEN Finish(d)
           ELSE proc' = [proc EXCEPT ![d].at = "push", ![d].todo = Restrict(recs, dirty),
                                     ![d].conflicts = FALSE]
    /\ UNCHANGED <<serverVars, saved, userVars, faults>>

-------------------------------------------------------------------------------
(* pushAll.                                                                *)

\* The chunks of the dirty records, which come in no particular order.
Chunks(d) ==
    LET ids == DOMAIN proc[d].todo
        size == IF Cardinality(ids) < ChunkSize THEN Cardinality(ids) ELSE ChunkSize
    IN  {Restrict(proc[d].todo, chunk) : chunk \in kSubset(size, ids)}

Without(todo, chunk) == Restrict(todo, DOMAIN todo \ DOMAIN chunk)

\* A key no batch on any device or in any file has.
FreshKey(key) ==
    /\ key \in Keys
    /\ \A s \in {store[d] : d \in Devices} \union {saved[d] : d \in Devices} :
           \A i \in DOMAIN s.pending : s.pending[i].key # key

\* uuid.NewString(): which one it is makes no difference.
NewKey == CHOOSE key \in Keys : FreshKey(key)

\* One chunk is pushed and acknowledged.  AddPendingPush and ClearPendingPush
\* cancel out: nothing saves the store in between.
Push(d) ==
    /\ proc[d].at = "push"
    /\ \E chunk \in Chunks(d) :
           LET results == Results(chunk)
               todo == Without(proc[d].todo, chunk)
               conflicts == proc[d].conflicts \/ HadConflicts(results)
           IN  /\ Serve(chunk)
               /\ store' = [store EXCEPT ![d] = ApplyResults(@, results)]
               /\ IF todo # NoRecords
                  THEN proc' = [proc EXCEPT ![d].todo = todo, ![d].conflicts = conflicts]
                  ELSE IF conflicts /\ proc[d].iter < MaxIterations
                  THEN proc' = [proc EXCEPT ![d] =
                                   [Ready EXCEPT !.at = "pull", !.iter = proc[d].iter + 1]]
                  ELSE Finish(d)
    /\ UNCHANGED <<idem, saved, userVars, faults, nextId>>

-------------------------------------------------------------------------------
(* The file.                                                               *)

\* Session.Close is a sync, whether it fails or not, followed by this step;
\* CloseWithoutSync is this step alone.  Bound: a file that no crash can bring
\* back is not written.
Save(d) ==
    /\ proc[d].at = "ready"
    /\ "crash" \in Faults /\ faults + imports < MaxFaults
    /\ saved' = [saved EXCEPT ![d] = store[d]]
    /\ UNCHANGED <<serverVars, store, proc, userVars, faults, nextId>>

-------------------------------------------------------------------------------
(* Faults.                                                                 *)

Fault(kind) ==
    /\ kind \in Faults
    /\ faults + imports < MaxFaults
    /\ faults' = faults + 1

\* The process ends without Close: killed, or a CLI command that returns after a
\* failed sync.  What comes next starts from the file.
Crash(d) ==
    /\ Fault("crash")
    /\ store' = [store EXCEPT ![d] = saved[d]]
    /\ proc' = [proc EXCEPT ![d] = Ready]
    /\ UNCHANGED <<serverVars, saved, userVars, nextId>>

\* A pull or the replay of a batch fails before the server acts on it.
Refused(d) ==
    /\ proc[d].at \in {"pull", "replay"}
    /\ Fault("refused")
    /\ Finish(d)
    /\ UNCHANGED <<serverVars, store, saved, userVars, nextId>>

\* IdempotencyStore.DeleteExpired: one statement, whatever is old enough.
DeleteExpired ==
    /\ Fault("expired")
    /\ \E old \in SUBSET {k \in Keys : Recorded(k)} :
           /\ old # {}
           /\ idem' = [k \in Keys |-> IF k \in old THEN NoResult ELSE idem[k]]
    /\ UNCHANGED <<rows, seq, commits, store, saved, proc, userVars, nextId>>

\* The batch stays in pending under the key it was sent with.
Unacknowledged(d, chunk) ==
    /\ \E key \in Keys : FreshKey(key)
    /\ store' = [store EXCEPT ![d].pending =
                    Append(@, [key |-> NewKey, ids |-> DOMAIN chunk])]
    /\ Finish(d)
    /\ UNCHANGED <<saved, userVars, nextId>>

PushRefused(d) ==
    /\ proc[d].at = "push"
    /\ Fault("refused")
    /\ \E chunk \in Chunks(d) : Unacknowledged(d, chunk)
    /\ idem' = [idem EXCEPT ![NewKey] = NoResult]
    /\ UNCHANGED <<rows, seq, commits>>

\* A batch took effect and its result is recorded under key, or some of its
\* records took effect and nothing is recorded.
Unanswered(batch, key) ==
    \/ /\ Fault("lost")
       /\ Serve(batch)
       /\ idem' = [idem EXCEPT ![key] = Results(batch)]
    \/ /\ Fault("unrecorded")
       /\ \E part \in SUBSET DOMAIN batch : Serve(Restrict(batch, part))
       /\ idem' = [idem EXCEPT ![key] = NoResult]

PushLost(d) ==
    /\ proc[d].at = "push"
    /\ \E chunk \in Chunks(d) : Unacknowledged(d, chunk) /\ Unanswered(chunk, NewKey)

\* The same for a batch that is being replayed: it is pending already.
ReplayLost(d) ==
    /\ proc[d].at = "replay"
    /\ ~Recorded(Head(store[d].pending).key)
    /\ Unanswered(proc[d].todo, Head(store[d].pending).key)
    /\ Finish(d)
    /\ UNCHANGED <<store, saved, userVars, nextId>>

-------------------------------------------------------------------------------
SyncStep(d) ==
    \/ Replay(d) \/ Pull(d) \/ Push(d)
    \/ Refused(d) \/ PushRefused(d) \/ PushLost(d) \/ ReplayLost(d)

UserStep(d) ==
    /\ proc[d].at = "ready"
    /\ \/ Create(d)
       \/ \E id \in DOMAIN store[d].recs :
              Update(d, id, store[d].recs[id].body) \/ Delete(d, id)
       \/ Export(d) \/ Import(d)
       \/ SyncStart(d)
       \/ Save(d)

Next ==
    \/ \E d \in Devices : UserStep(d) \/ SyncStep(d) \/ Crash(d)
    \/ DeleteExpired

Spec == Init /\ [][Next]_vars

\* A sync that began goes on, and the user keeps closing sessions (Close always
\* synchronises); edits and faults need not happen.
FairSpec ==
    Spec /\ \A d \in Devices : WF_vars(SyncStep(d)) /\ WF_vars(SyncStart(d))

-------------------------------------------------------------------------------
(* What is true of every execution.                                        *)

\* A map from some of the ids to values.
IsMap(f, Values) == DOMAIN f \subseteq Ids /\ f \in [DOMAIN f -> Values]

IsStore(s) ==
    /\ DOMAIN s = {"recs", "cursor", "pending"}
    /\ IsMap(s.recs, Stored)
    /\ s.cursor \in Nat
    /\ s.pending \in Seq([key: Keys, ids: SUBSET Ids])

\* Every variable holds a value of its type.
TypeOK ==
    /\ rows \in [Ids -> Row]
    /\ seq \in Nat
    /\ DOMAIN idem = Keys
    /\ \A k \in Keys : IsMap(idem[k], [applied: BOOLEAN, row: Row])
    /\ DOMAIN store = Devices /\ DOMAIN saved = Devices
    /\ \A d \in Devices : IsStore(store[d]) /\ IsStore(saved[d])
    /\ DOMAIN proc = Devices
    /\ \A d \in Devices :
           /\ proc[d].at \in {"ready", "replay", "pull", "push"}
           /\ proc[d].iter \in 0..MaxIterations
           /\ IsMap(proc[d].todo, Stored)
           /\ proc[d].conflicts \in BOOLEAN
    /\ IsMap(bundle, Stored)
    /\ edits \in 0..MaxEdits
    /\ imports \in 0..MaxImports
    /\ faults \in 0..MaxFaults
    /\ nextId \in 1..(MaxIds + 1)
    /\ commits \subseteq [id: Ids, base: Nat, row: Row]

\* What a device shows as synchronised is a row the server committed, no newer
\* than the device's cursor, in memory and in the file (syncer.go:118, 215): no
\* lost answer, replay, crash or import makes a local edit look synchronised.
CleanIsCommitted ==
    \A d \in Devices : \A s \in {store[d], saved[d]} : \A id \in DOMAIN s.recs :
        LET rec == s.recs[id]
        IN  ~rec.dirty =>
                /\ rec.version <= s.cursor
                /\ \E c \in commits :
                       c.id = id /\ c.row.version = rec.version /\ FromServer(c.row) = rec

\* A tombstone on the server is final: no stale update, conflict, replay or
\* import of an old backup brings the record back ("delete-wins: a stale update
\* must not resurrect a deleted record", syncer.go:131-134).
DeletedStaysDeleted ==
    [][\A id \in Ids : rows[id].deleted => rows'[id].deleted]_vars

\* What the user did to record id is still there after the step: a delete as a
\* tombstone, an edit as some live record with its body.
KeptIn(s, id, rec) ==
    IF rec.deleted
    THEN s.recs[id].deleted
    ELSE \E x \in DOMAIN s.recs : ~s.recs[x].deleted /\ s.recs[x].body = rec.body

KeepsEditsAt(step, d) ==
    proc[d].at = step /\ faults' = faults =>
        \A id \in DirtyIds(d) : KeptIn(store'[d], id, store[d].recs[id])

\* A pull and the push that follows never drop a local edit or delete from the
\* device: it stays, is accepted, or survives as a conflict copy (syncer.go:125-159).
SyncKeepsEdits ==
    [][\A d \in Devices : KeepsEditsAt("pull", d) /\ KeepsEditsAt("push", d)]_vars

\* A sync that ends before its last round leaves nothing unsent (syncer.go:85-97).
SyncEndsClean ==
    [][\A d \in Devices :
           /\ proc[d].at \in {"pull", "push"}
           /\ proc'[d].at = "ready"
           /\ proc[d].iter < MaxIterations
           /\ faults' = faults
           => \A id \in DOMAIN store'[d].recs : ~store'[d].recs[id].dirty]_vars

\* A device does not take its own push for another device's edit: a pull copies no
\* record that the server has with the very same body (syncer.go:206-209).
NoSelfConflict ==
    \A d \in Devices : proc[d].at = "pull" =>
        \A id \in Copied(d) :
            ~rows[id].deleted /\ ~store[d].recs[id].deleted
            => rows[id].body # store[d].recs[id].body

\* The content of a commit is still held by a record, on the server or on a device.
Held(c) ==
    \/ \E id \in Ids : c.row.body \subseteq rows[id].body
    \/ \E d \in Devices : \E id \in DOMAIN store[d].recs :
           c.row.body \subseteq store[d].recs[id].body

\* c2 replaced c1 and left out some of its content.
Overwrites(c2, c1) ==
    /\ c2.id = c1.id /\ c2.base = c1.row.version
    /\ ~(c1.row.body \subseteq c2.row.body)

\* What the server has accepted is lost in one way only: an edit wins by its clock
\* over a live record, whose content is copied nowhere (syncer.go:155-157).  A delete
\* never loses an edit that was not deleted before, whoever makes it and whoever wins
\* ("data is never lost silently", README.md:85-88).  A device that is killed can take
\* a conflict copy with it, and then this fails.
LostOnlyToEdits ==
    \A c \in commits :
        \/ Held(c)
        \/ \E c1, c2 \in commits :
               /\ c.row.body \subseteq c1.row.body
               /\ Overwrites(c2, c1)
               /\ c1.row.deleted \/ ~c2.row.deleted

\* A live record takes the place of one whose content it leaves out only as an edit that
\* was made, by its device's clock, no earlier than the other was accepted: an older one
\* yields and is copied (resolveConflict, syncer.go:151-157).
EarlierEditsYield ==
    [][\A id \in Ids :
          /\ ~rows[id].deleted /\ ~rows'[id].deleted
          /\ ~(rows[id].body \subseteq rows'[id].body)
          => \E d \in Devices :
                 /\ id \in DOMAIN proc[d].todo
                 /\ proc[d].todo[id].body = rows'[id].body
                 /\ proc[d].todo[id].dirtyAt >= rows[id].version]_vars

\* The device's cursor is past a row that is neither what it has nor what that is based on.
Skipped(d) ==
    \E id \in Ids :
        /\ rows[id].version \in 1..store[d].cursor
        /\ \/ id \notin DOMAIN store[d].recs
           \/ rows[id].version \notin {store[d].recs[id].version, store[d].recs[id].base}

\* A device that has nothing to send and nothing to receive holds the server's records,
\* all of them and no other, whatever failed on the way, unless its cursor has
\* skipped a row: two such devices agree (syncer.go:75-127).
SyncedDevicesAgree ==
    \A d \in Devices :
        DirtyIds(d) = {} /\ Incoming(d) = {} /\ ~Skipped(d)
        => store[d].recs =
               [id \in {x \in Ids : rows[x] # NoRow} |-> FromServer(rows[id])]

\* The cursor of d moves past a row that was on the server before.
MovesPastRow(d) ==
    \E id \in Ids :
        /\ rows'[id] = rows[id]
        /\ rows[id].version \in (store[d].cursor + 1)..store'[d].cursor

\* The user changes a record that was merged and is still to be sent, and it is based
\* on its old version again (vault_manager.go:106, 121).
ForgetsBase(d) ==
    \E id \in DirtyIds(d) :
        LET rec == store[d].recs[id]
        IN  /\ rec.base = rows[id].version /\ rec.base # rec.version
            /\ store'[d].recs[id].base = rec.version

\* A device falls behind in four ways: the answer to its own push moves its cursor past
\* a row of another device (syncer.go:212-223), an edit forgets what the record was
\* merged with, a backup is imported, or it starts again from a file that was behind.
BehindForAReason ==
    [][\A d \in Devices :
           ~Skipped(d) /\ Skipped(d)' =>
               \/ proc[d].at \in {"replay", "push"} /\ MovesPastRow(d)
               \/ proc[d].at = "ready" /\ ForgetsBase(d)
               \/ imports' > imports
               \/ store'[d] = saved[d]]_vars

\* In the end every local edit has been accepted by the server: the rounds of pull
\* and push come to an end (syncer.go:79-97).
EventuallySynced == <>[](\A d \in Devices : DirtyIds(d) = {})

\* That fails only where a device has fallen behind.
SyncedUnlessSkipped == EventuallySynced \/ <>(\E d \in Devices : Skipped(d))

-------------------------------------------------------------------------------
(* The devices keep what synchronisation promises.                         *)

\* The records of a store that have been sent and not answered.
Awaited(s) == UNION {s.pending[i].ids : i \in DOMAIN s.pending}

Promise == INSTANCE Replicas WITH
               past <- commits,
               held <- [d \in Devices |-> store[d].recs],
               asked <- [d \in Devices |-> Awaited(store[d])],
               disk <- [d \in Devices |->
                           [held |-> saved[d].recs, asked |-> Awaited(saved[d])]]

\* Rounds of pull and push with chunks, cursors, keys, replays and conflict copies
\* (syncer.go) change records only in the ways Replicas lists.
ImplementsReplicas == Promise!Spec
===============================================================================
