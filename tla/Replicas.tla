-------------------------------- MODULE Replicas --------------------------------
(***************************************************************************)
(* What synchronisation promises the user of several devices: the server    *)
(* takes a change only over the row it was made from, each device holds      *)
(* copies of rows and changes of its own, and a change of its own goes away  *)
(* in three ways only: the server has taken the record and the device learns *)
(* so, a merge leaves a copy of it, or the device starts again from its file. *)
(* No rounds, chunks, cursors, keys or batches appear here; Syncer shows how *)
(* the code provides it.                                                    *)
(***************************************************************************)
EXTENDS Integers

CONSTANTS
    Devices,
    Ids,        \* record identifiers
    NoRow       \* the row of a record the server does not have; its version is 0

VARIABLES
    rows,       \* rows[id]: the server's record
    past,       \* the rows there have been, each with the version it was made from
    held,       \* held[d]: the records in the memory of device d
    asked,      \* asked[d]: the records it has sent and has no answer about
    disk        \* disk[d]: both, as last saved

vars == <<rows, past, held, asked, disk>>

\* A device's record is a change of its own (dirty), made from the version base, or
\* it shows a row.
Shows(rec, row) ==
    /\ ~rec.dirty
    /\ rec.version = row.version /\ rec.deleted = row.deleted /\ rec.body = row.body

NoRecords == [id \in {} |-> NoRow]

Init ==
    /\ rows = [id \in Ids |-> NoRow]
    /\ past = {}
    /\ held = [d \in Devices |-> NoRecords]
    /\ asked = [d \in Devices |-> {}]
    /\ disk = [d \in Devices |-> [held |-> NoRecords, asked |-> {}]]

-------------------------------------------------------------------------------
(* The server.                                                             *)

Accepted == {id \in Ids : rows'[id] # rows[id]}

\* It takes records of d, as they are now, each a change of its own made from the row it
\* replaces, and gives them versions no row has had.  A tombstone is never replaced
\* by anything else.
Accept(d) ==
    /\ \A id \in Accepted :
           /\ id \in DOMAIN held[d]
           /\ held[d][id].dirty
           /\ rows[id].version \in {0, held[d][id].base}
           /\ rows[id].deleted => held[d][id].deleted
           /\ rows'[id].deleted = held[d][id].deleted
           /\ rows'[id].body = held[d][id].body
           /\ \A p \in past : p.row.version < rows'[id].version
           /\ \A x \in Accepted : rows'[x].version = rows'[id].version => x = id
    /\ past' = past \union
           {[id |-> id, base |-> held[d][id].base, row |-> rows'[id]] : id \in Accepted}

-------------------------------------------------------------------------------
(* The devices.                                                            *)

\* The user changes records, or puts them back from a backup.
Edit(d) ==
    /\ UNCHANGED <<rows, past, asked, disk>>
    /\ DOMAIN held[d] \subseteq DOMAIN held'[d]
    /\ \A id \in DOMAIN held'[d] :
           held'[d][id].dirty \/ (id \in DOMAIN held[d] /\ held'[d][id] = held[d][id])

\* Records are sent, and the device learns which of them the server has taken.
Push(d) ==
    /\ UNCHANGED <<asked, disk>>
    /\ Accept(d)
    /\ DOMAIN held'[d] = DOMAIN held[d]
    /\ \A id \in DOMAIN held[d] :
           IF id \in Accepted THEN Shows(held'[d][id], rows'[id])
                             ELSE held'[d][id] = held[d][id]

\* Records are sent, and the device learns nothing.
Send(d) ==
    /\ UNCHANGED <<held, disk>>
    /\ Accept(d)
    /\ asked[d] \subseteq asked'[d]
    /\ asked'[d] \ asked[d] \subseteq {id \in DOMAIN held[d] : held[d][id].dirty}
    /\ Accepted \subseteq asked'[d]

\* An answer that was missing arrives, perhaps to records that are sent again.  It takes
\* the place of what the user has done to them meanwhile.
Answer(d) ==
    /\ UNCHANGED disk
    /\ Accept(d)
    /\ Accepted \subseteq asked[d]
    /\ asked'[d] \subseteq asked[d]
    /\ DOMAIN held[d] \subseteq DOMAIN held'[d]
    /\ \A id \in DOMAIN held'[d] :
           \/ id \in DOMAIN held[d] \ Accepted /\ held'[d][id] = held[d][id]
           \/ id \in asked[d] /\ \E p \in past' : p.id = id /\ Shows(held'[d][id], p.row)

\* An id no device and no row has.
Unused(id) == rows[id] = NoRow /\ \A e \in Devices : id \notin DOMAIN held[e]

\* The losing side of a conflict is kept as a record of its own, still to be sent.
KeptAsCopy(d, loser) ==
    \E id \in DOMAIN held'[d] :
        /\ Unused(id)
        /\ held'[d][id].dirty
        /\ held'[d][id].deleted = loser.deleted
        /\ held'[d][id].body = loser.body

\* What a device has of a record before, what the server has, what the device has then:
\* the row, or its own change, now made from the row.  A delete wins, and what it or
\* the row wins over is kept.
Merged(d, id) ==
    LET mine == held[d][id]
        row == rows[id]
    IN  \/ held'[d][id] = mine
        \/ /\ Shows(held'[d][id], row)
           /\ mine.dirty \/ row.version > mine.version
           /\ mine.dirty => (mine.deleted => row.deleted) /\ KeptAsCopy(d, mine)
        \/ /\ mine.dirty
           /\ held'[d][id] = [mine EXCEPT !.base = row.version]
           /\ row.deleted => mine.deleted
           /\ mine.deleted /\ ~row.deleted => KeptAsCopy(d, row)

Pull(d) ==
    /\ UNCHANGED <<rows, past, asked, disk>>
    /\ DOMAIN held[d] \subseteq DOMAIN held'[d]
    /\ \A id \in DOMAIN held[d] : Merged(d, id)
    /\ \A id \in DOMAIN held'[d] \ DOMAIN held[d] :
           Shows(held'[d][id], rows[id]) \/ (Unused(id) /\ held'[d][id].dirty)

Save(d) ==
    /\ UNCHANGED <<rows, past, held, asked>>
    /\ disk' = [disk EXCEPT ![d] = [held |-> held[d], asked |-> asked[d]]]

\* The device ends without saving and starts again.
Restart(d) ==
    /\ UNCHANGED <<rows, past, disk>>
    /\ held'[d] = disk[d].held
    /\ asked'[d] = disk[d].asked

-------------------------------------------------------------------------------
Next ==
    \E d \in Devices :
        /\ \A e \in Devices \ {d} :
               held'[e] = held[e] /\ asked'[e] = asked[e] /\ disk'[e] = disk[e]
        /\ Edit(d) \/ Push(d) \/ Send(d) \/ Answer(d) \/ Pull(d) \/ Save(d) \/ Restart(d)

Spec == Init /\ [][Next]_vars
===============================================================================
