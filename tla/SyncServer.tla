------------------------------ MODULE SyncServer ------------------------------
(***************************************************************************)
(* The server's side of synchronisation for one account: SyncService.Push  *)
(* and Pull and VaultService over the postgres repositories                *)
(* (internal/server/service, internal/server/storage/postgres).            *)
(*                                                                         *)
(* A worker is a goroutine serving one HTTP request.  Every statement it   *)
(* sends to the database is a step, so requests interleave, a request can  *)
(* be cut short between any two statements, and a client that got no       *)
(* answer sends the same push again while the first may still be running.  *)
(* The upsert statement takes two steps: nextval() and the row lock first, *)
(* the commit that makes the row visible second.                           *)
(*                                                                         *)
(* Ciphertext and the tombstone flag are left out: within one record the   *)
(* version names the content, so a row is its version.                     *)
(***************************************************************************)
EXTENDS Integers, Sequences, FiniteSets

CONSTANTS
    Ids,            \* record identifiers
    Keys,           \* idempotency keys, one per push the clients make
    NoKey,          \* the key of a REST write
    Workers,        \* requests that can be in service at the same time
    Pullers,        \* clients that pull
    MaxBatch,       \* bound: records in one push (defaultChunkSize in the code)
    MaxSends,       \* bound: pushes delivered, first tries and retries of all keys
    MaxRestWrites,  \* bound: REST creates, updates and deletes
    MaxVersion      \* bound: values drawn from records_version_seq

ASSUME NoKeyAssumption == NoKey \notin Keys

ASSUME BoundsAssumption ==
    /\ MaxBatch \in Nat
    /\ MaxSends \in Nat
    /\ MaxRestWrites \in Nat
    /\ MaxVersion \in Nat

VARIABLES
    records,    \* records[id]: the version of the committed row, 0 if no row
    seq,        \* last value drawn from records_version_seq
    idem,       \* idem[k]: the saved result of push k, <<>> when none is saved
    expired,    \* history: whether a saved result has been deleted
    requests,   \* requests[k]: the batch a client pushes under key k
    sends,      \* pushes delivered so far
    restWrites, \* REST writes made so far
    workers,    \* workers[w]: the request w serves and how far it is
    answers,    \* the results that reached clients
    commits,    \* history: the row writes that committed
    cursor,     \* cursor[p]: the LastSyncVersion of puller p
    known       \* known[p][id]: the version of id that p holds

storeVars == <<records, seq, commits>>
clientVars == <<requests, sends, restWrites>>
pullVars == <<cursor, known>>
savedVars == <<idem, expired>>
vars == <<storeVars, clientVars, pullVars, savedVars, workers, answers>>

-------------------------------------------------------------------------------
Versions == 0..MaxVersion

\* A record in a request, with its BaseVersion and the Version the client holds.
Item == [id: Ids, op: {"upsert", "delete"}, base: Versions, held: Versions]

Result == [id: Ids, status: {"applied", "conflict"}, version: Versions]

WorkerState ==
    [pc: {"idle", "check", "owner", "upsert", "commit", "reread", "save", "reply"},
     key: Keys \union {NoKey},
     items: Seq(Item),
     newVersion: Versions,
     results: Seq(Result)]

Idle ==
    [pc |-> "idle", key |-> NoKey, items |-> <<>>, newVersion |-> 0,
     results |-> <<>>]

\* The record a worker is at: one result has been computed for each before it.
Current(w) == workers[w].items[Len(workers[w].results) + 1]

\* Mutants of Locked: the comparison and the write are separate statements; a
\* push is one transaction and keeps its row locks until it is answered.
LockedNever(id) == FALSE

LockedByPush(id) ==
    \E w \in Workers :
        \/ workers[w].pc = "commit" /\ Current(w).id = id
        \/ \E i \in DOMAIN workers[w].results : workers[w].results[i].id = id

\* The rows whose lock is held by an upsert that has not committed yet.
Locked(id) == \E w \in Workers : workers[w].pc = "commit" /\ Current(w).id = id

\* Mutants of Matches: the WHERE clause is missing; DO NOTHING instead of DO
\* UPDATE.
MatchesAlways(item) == TRUE

MatchesNoRow(item) == item.op = "delete" \/ records[item.id] = 0

\* INSERT ... ON CONFLICT (id) DO UPDATE ... WHERE version = base: a missing row
\* is inserted whatever the base, an existing one only replaces that version.
\* DELETE compares nothing.
Matches(item) == item.op = "delete" \/ records[item.id] \in {0, item.base}

\* Mutant of Draws: the UPDATE branch does not set version.
DrawsOnInsert(item) == IF records[item.id] = 0 THEN 1 ELSE 0

\* The nextval() of the VALUES list is drawn even when the row exists; the
\* UPDATE branch, when it runs, draws a second one.
Draws(item) ==
    IF item.op = "upsert" /\ records[item.id] # 0 /\ Matches(item) THEN 2 ELSE 1

Init ==
    /\ records = [id \in Ids |-> 0]
    /\ seq = 0
    /\ idem = [k \in Keys |-> <<>>]
    /\ expired = FALSE
    /\ requests = [k \in Keys |-> <<>>]
    /\ sends = 0
    /\ restWrites = 0
    /\ workers = [w \in Workers |-> Idle]
    /\ answers = {}
    /\ commits = {}
    /\ cursor = [p \in Pullers |-> 0]
    /\ known = [p \in Pullers |-> [id \in Ids |-> 0]]

-------------------------------------------------------------------------------
(* The push clients.                                                       *)

\* An id that no row and no request has yet: newID() and uuid.NewString() can
\* return it.
Unused(id) ==
    /\ records[id] = 0
    /\ \A k \in Keys : \A i \in DOMAIN requests[k] : requests[k][i].id # id
    /\ \A w \in Workers : \A i \in DOMAIN workers[w].items : workers[w].items[i].id # id

\* A version a client can hold for a record: none, one the record has had, for a new
\* id the version of the record it was copied from (saveConflictCopy keeps it), or
\* one in an earlier push of it.
Seen(id, version) ==
    \/ version = 0
    \/ \E c \in commits : c.version = version /\ (c.id = id \/ Unused(id))
    \/ \E k \in Keys : \E i \in DOMAIN requests[k] :
           requests[k][i].id = id /\ version \in {requests[k][i].base, requests[k][i].held}

\* The dirty records with an id that a client can hold: an edit takes the version as
\* its base (vault_manager.go:106, 121), a merge a later one (syncer.go:149, 156), a
\* conflict copy none, and no row with its id has what it holds.
Dirty(id) ==
    LET versions == {v \in Versions : Seen(id, v)}
    IN  {item \in [id: {id}, op: {"upsert"}, base: versions, held: versions] :
            \/ item.held <= item.base
            \/ item.base = 0 /\ \A c \in commits : c.version = item.held => c.id # id}

\* A chunk of dirty records, each id once.
Batches ==
    LET dirty == UNION {Dirty(id) : id \in Ids}
    IN  {batch \in UNION {[1..n -> dirty] : n \in 1..MaxBatch} :
            \A i, j \in DOMAIN batch : batch[i].id = batch[j].id => i = j}

\* A client makes a batch under a fresh idempotency key.
Submit(k) ==
    /\ requests[k] = <<>>
    /\ \E batch \in Batches : requests' = [requests EXCEPT ![k] = batch]
    /\ UNCHANGED <<storeVars, pullVars, savedVars, workers, answers, sends, restWrites>>

\* The user edits a record of a batch that has had no answer: replayPending will send
\* it as it is then, under the same key (syncer.go:231-239).  A replay comes before
\* any pull, so the client still holds the version it held.
EditPending(k, i) ==
    /\ requests[k][i].base # requests[k][i].held
    /\ requests' = [requests EXCEPT ![k][i].base = requests[k][i].held]
    /\ UNCHANGED <<storeVars, pullVars, savedVars, workers, answers, sends, restWrites>>

\* The request reaches the server: the first time, or again because the client
\* has had no answer (retryablehttp, a refreshed token, replayPending).
Deliver(w, k) ==
    /\ workers[w].pc = "idle"
    /\ requests[k] # <<>>
    /\ sends < MaxSends
    /\ sends' = sends + 1
    /\ workers' = [workers EXCEPT ![w] =
                      [Idle EXCEPT !.pc = "check", !.key = k, !.items = requests[k]]]
    /\ UNCHANGED <<storeVars, pullVars, savedVars, answers, requests, restWrites>>

-------------------------------------------------------------------------------
(* SyncService.Push and the repositories it calls.                         *)

\* Mutant of CheckIdempotency: the saved result is not looked up.
IgnoreIdempotency(w) ==
    /\ workers[w].pc = "check"
    /\ workers' = [workers EXCEPT ![w].pc = "upsert"]
    /\ UNCHANGED <<storeVars, clientVars, pullVars, savedVars, answers>>

CheckIdempotency(w) ==
    /\ workers[w].pc = "check"
    /\ workers' = [workers EXCEPT ![w] =
           IF idem[workers[w].key] # <<>>
           THEN [@ EXCEPT !.pc = "reply", !.results = idem[workers[w].key]]
           ELSE [@ EXCEPT !.pc = "upsert"]]
    /\ UNCHANGED <<storeVars, clientVars, pullVars, savedVars, answers>>

\* The statement starts: it waits for the row lock, compares, and draws from
\* the sequence whatever the comparison says.
Upsert(w) ==
    /\ workers[w].pc = "upsert"
    /\ ~Locked(Current(w).id)
    /\ seq + Draws(Current(w)) <= MaxVersion
    /\ seq' = seq + Draws(Current(w))
    /\ workers' = [workers EXCEPT ![w] =
           IF Matches(Current(w))
           THEN [@ EXCEPT !.pc = "commit", !.newVersion = seq + Draws(Current(w))]
           ELSE [@ EXCEPT !.pc = "reread"]]
    /\ UNCHANGED <<clientVars, pullVars, records, commits, savedVars, answers>>

\* What follows the result of one record: the next record of the push, the
\* saving of its result, or for a REST write the end of the request.
Advance(w, result) ==
    IF workers[w].key = NoKey
    THEN Idle
    ELSE [workers[w] EXCEPT
             !.pc = IF Len(workers[w].results) + 1 = Len(workers[w].items)
                    THEN "save" ELSE "upsert",
             !.newVersion = 0,
             !.results = Append(@, result)]

\* The statement ends: the row becomes visible and its lock is released.
Commit(w) ==
    /\ workers[w].pc = "commit"
    /\ LET item == Current(w)
           v == workers[w].newVersion
       IN  /\ records' = [records EXCEPT ![item.id] = v]
           /\ commits' = commits \union
                  {[key |-> workers[w].key, id |-> item.id, op |-> item.op,
                    base |-> item.base, prev |-> records[item.id], version |-> v]}
           /\ workers' = [workers EXCEPT ![w] =
                  Advance(w, [id |-> item.id, status |-> "applied", version |-> v])]
    /\ UNCHANGED <<clientVars, pullVars, seq, savedVars, answers>>

\* Mutants of Reread: the row read back is reported as applied; a conflict comes
\* without the server's record.
RereadAsApplied(w) ==
    /\ workers[w].pc = "reread"
    /\ LET id == Current(w).id
       IN  workers' = [workers EXCEPT ![w] =
               Advance(w, [id |-> id, status |-> "applied", version |-> records[id]])]
    /\ UNCHANGED <<storeVars, clientVars, pullVars, savedVars, answers>>

RereadWithoutRow(w) ==
    /\ workers[w].pc = "reread"
    /\ workers' = [workers EXCEPT ![w] =
           Advance(w, [id |-> Current(w).id, status |-> "conflict"])]
    /\ UNCHANGED <<storeVars, clientVars, pullVars, savedVars, answers>>

\* No row came back: Upsert reads the row in a statement of its own and Push
\* reports a conflict (a REST update answers 409).
Reread(w) ==
    /\ workers[w].pc = "reread"
    /\ LET id == Current(w).id
       IN  workers' = [workers EXCEPT ![w] =
               Advance(w, [id |-> id, status |-> "conflict", version |-> records[id]])]
    /\ UNCHANGED <<storeVars, clientVars, pullVars, savedVars, answers>>

SaveResult(w) ==
    /\ workers[w].pc = "save"
    /\ idem' = [idem EXCEPT ![workers[w].key] = workers[w].results]
    /\ workers' = [workers EXCEPT ![w].pc = "reply"]
    /\ UNCHANGED <<storeVars, clientVars, pullVars, expired, answers>>

\* The response reaches the client.
Reply(w) ==
    /\ workers[w].pc = "reply"
    /\ answers' = answers \union {[key |-> workers[w].key, results |-> workers[w].results]}
    /\ workers' = [workers EXCEPT ![w] = Idle]
    /\ UNCHANGED <<storeVars, clientVars, pullVars, savedVars>>

\* A statement fails, the request's context is cancelled, the process stops or
\* the response is lost: nothing is undone except an uncommitted upsert.
Abort(w) ==
    /\ workers[w].pc # "idle"
    /\ workers' = [workers EXCEPT ![w] = Idle]
    /\ UNCHANGED <<storeVars, clientVars, pullVars, savedVars, answers>>

-------------------------------------------------------------------------------
(* VaultService: the REST writes, which carry no idempotency key.          *)

StartRest(w, pc, item) ==
    /\ workers[w].pc = "idle"
    /\ restWrites < MaxRestWrites
    /\ restWrites' = restWrites + 1
    /\ workers' = [workers EXCEPT ![w] = [Idle EXCEPT !.pc = pc, !.items = <<item>>]]
    /\ UNCHANGED <<storeVars, pullVars, savedVars, answers, requests, sends>>

VaultCreate(w) ==
    \E id \in Ids :
        /\ Unused(id)
        /\ StartRest(w, "upsert", [id |-> id, op |-> "upsert", base |-> 0, held |-> 0])

VaultUpdate(w) ==
    \E id \in Ids, base \in Versions :
        /\ Seen(id, base)
        /\ StartRest(w, "owner", [id |-> id, op |-> "upsert", base |-> base, held |-> base])

VaultDelete(w) ==
    \E id \in Ids :
        StartRest(w, "owner", [id |-> id, op |-> "delete", base |-> 0, held |-> 0])

\* checkOwner: a record that is not there is refused before the write.  All records
\* are of the one account that is modelled, so the comparison of owners succeeds.
CheckOwner(w) ==
    /\ workers[w].pc = "owner"
    /\ workers' = [workers EXCEPT ![w] =
           IF records[Current(w).id] = 0 THEN Idle ELSE [@ EXCEPT !.pc = "upsert"]]
    /\ UNCHANGED <<storeVars, clientVars, pullVars, savedVars, answers>>

-------------------------------------------------------------------------------
(* Pull and the hourly cleanup.                                            *)

\* Mutant of ListSince: off by one.
ListAfterNext(since) == {id \in Ids : records[id] > since + 1}

\* ListSince: the rows visible to one SELECT.
ListSince(since) == {id \in Ids : records[id] > since}

\* SyncService.Pull and what a client without local changes does with it: it
\* takes every row and remembers the largest version it received.
Pull(p) ==
    LET rows == ListSince(cursor[p])
    IN  /\ rows # {}
        /\ known' = [known EXCEPT ![p] =
               [id \in Ids |-> IF id \in rows THEN records[id] ELSE @[id]]]
        /\ \E last \in rows :
               /\ \A id \in rows : records[id] <= records[last]
               /\ cursor' = [cursor EXCEPT ![p] = records[last]]
        /\ UNCHANGED <<storeVars, clientVars, savedVars, workers, answers>>

\* IdempotencyStore.DeleteExpired: one statement removes every key that is old.
DeleteExpired ==
    /\ \E old \in SUBSET {k \in Keys : idem[k] # <<>>} :
           /\ old # {}
           /\ idem' = [k \in Keys |-> IF k \in old THEN <<>> ELSE idem[k]]
    /\ expired' = TRUE
    /\ UNCHANGED <<storeVars, clientVars, pullVars, workers, answers>>

-------------------------------------------------------------------------------
Serve(w) ==
    \/ CheckIdempotency(w)
    \/ CheckOwner(w)
    \/ Upsert(w)
    \/ Commit(w)
    \/ Reread(w)
    \/ SaveResult(w)
    \/ Reply(w)

Next ==
    \/ \E k \in Keys : Submit(k) \/ \E i \in DOMAIN requests[k] : EditPending(k, i)
    \/ \E w \in Workers :
           \/ \E k \in Keys : Deliver(w, k)
           \/ Serve(w)
           \/ Abort(w)
           \/ VaultCreate(w)
           \/ VaultUpdate(w)
           \/ VaultDelete(w)
    \/ \E p \in Pullers : Pull(p)
    \/ DeleteExpired

Spec == Init /\ [][Next]_vars

\* A goroutine that serves a request keeps running; nothing else must happen.
FairSpec == Spec /\ \A w \in Workers : WF_vars(Serve(w))

-------------------------------------------------------------------------------
(* What is true of every execution.                                        *)

\* Every variable holds a value of its type.
TypeOK ==
    /\ records \in [Ids -> Versions]
    /\ seq \in Versions
    /\ idem \in [Keys -> Seq(Result)]
    /\ expired \in BOOLEAN
    /\ requests \in [Keys -> Seq(Item)]
    /\ sends \in 0..MaxSends
    /\ restWrites \in 0..MaxRestWrites
    /\ workers \in [Workers -> WorkerState]
    /\ answers \subseteq [key: Keys, results: Seq(Result)]
    /\ commits \subseteq [key: Keys \union {NoKey}, id: Ids, op: {"upsert", "delete"},
                          base: Versions, prev: Versions, version: Versions]
    /\ cursor \in [Pullers -> Versions]
    /\ known \in [Pullers -> [Ids -> Versions]]

\* A push takes effect at most once on each of its records, however often it is
\* sent, whichever statement failed the first time, with two copies of it in
\* service at once, after its saved result has expired, and also if its records
\* were edited before it was sent again (sync.go:41-42).
AppliedAtMostOnce ==
    \A c, d \in commits :
        c.key = d.key /\ c.key # NoKey /\ c.id = d.id => c = d

\* The writes of a record form one line: no two replace the same version, and
\* an upsert replaces the version its writer had seen or creates the row.  This
\* is what "optimistic locking" must mean with requests interleaved
\* (record.go:34-46): no write is buried by one that had not seen it.
OneLineOfWrites ==
    /\ \A c, d \in commits : c.id = d.id /\ c.prev = d.prev => c = d
    /\ \A c \in commits : c.op = "upsert" => c.prev \in {0, c.base}

\* A version is carried by one write of one record (migration 000002): a client
\* that knows a version knows the content.
VersionsAreUnique ==
    \A c, d \in commits : c.version = d.version => c = d

\* An "applied" a client was told, or will be told by the saved result, is a
\* row write of that very push that committed, even when the request that made
\* it was cut short and another one answered (sync.go:55-85).
AppliedIsCommitted ==
    \A a \in answers \union {[key |-> k, results |-> idem[k]] : k \in Keys} :
        \A i \in DOMAIN a.results :
            a.results[i].status = "applied" =>
                \E c \in commits :
                    /\ c.key = a.key
                    /\ c.id = a.results[i].id
                    /\ c.version = a.results[i].version

\* A "conflict" shows a version newer than the base the client sent: pulling can
\* tell it something (record.go:56-63 reads the row in a second statement).
ConflictIsGenuine ==
    \A a \in answers :
        \A i \in DOMAIN a.results :
            a.results[i].status = "conflict" =>
                a.results[i].version > requests[a.key][i].base

\* A client whose cursor is at v holds every row whose version is at most v: the
\* cursor is "a global monotone cursor" (migration 000002_global_version_sequence).
CursorIsComplete ==
    \A p \in Pullers, id \in Ids :
        records[id] <= cursor[p] => known[p][id] = records[id]

\* Sending a push again returns the result computed for it the first time
\* (sync.go:41-42): no two answers differ.  It takes that the first request has
\* ended and that its result is still saved (SerialAnswersAgree).
AnswersAgree ==
    \A a, b \in answers : a.key = b.key => a.results = b.results

\* At most one upsert is between its nextval() and its commit.
OneUpsertAtATime ==
    \A v, w \in Workers : workers[v].pc = "commit" /\ workers[w].pc = "commit" => v = w

\* No two requests that carry the same key are in service at once.
OneRequestPerKey ==
    \A v, w \in Workers :
        workers[v].key = workers[w].key /\ workers[w].key # NoKey => v = w

\* As long as no two upserts overlap, a client never has a cursor beyond a row it
\* does not hold (ListSince, record.go:69; migration 000002): that it fails otherwise
\* is due to versions becoming visible out of order, to nothing else.
SerialCursorIsComplete == []OneUpsertAtATime => []CursorIsComplete

\* As long as no push is in service twice at once and no saved result has expired,
\* every answer to it is the same (sync.go:41-42), whatever pushes interleave, wherever
\* one was cut short and whatever is edited before it is sent again.
SerialAnswersAgree == [](OneRequestPerKey /\ ~expired) => []AnswersAgree

\* Every request in service ends, also one that waits for a row another holds.
RequestsEnd == \A w \in Workers : workers[w].pc # "idle" ~> workers[w].pc = "idle"

-------------------------------------------------------------------------------
(* The server implements the store it promises.                            *)

Store == INSTANCE VersionedStore WITH
             latest <- records,
             done <- {<<c.key, c.id>> : c \in {x \in commits : x.key # NoKey}}

\* Interleaved, repeated and interrupted requests look like single writes.
ImplementsStore == Store!Spec
===============================================================================
