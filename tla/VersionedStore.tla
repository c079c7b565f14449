---------------------------- MODULE VersionedStore ----------------------------
(***************************************************************************)
(* What the server promises its clients about the records of one account:  *)
(* a register per record id that changes in one step, a compare-and-swap   *)
(* against the version the writer last saw, and never twice for the same   *)
(* record of the same push (named by its idempotency key).  No handler, no *)
(* sequence, no row lock and no idempotency table appear here; SyncServer  *)
(* shows how the code provides it.                                         *)
(***************************************************************************)
EXTENDS Integers

CONSTANTS
    Ids,        \* record identifiers (UUIDs)
    Keys,       \* idempotency keys of pushes
    Versions    \* the versions a record can carry: naturals, 0 for "no such record"

VARIABLES
    latest,     \* latest[id]: the version of the record, and so its content
    done        \* the <<key, id>> pairs that have taken effect

vars == <<latest, done>>

Init ==
    /\ latest = [id \in Ids |-> 0]
    /\ done = {}

\* The record changes: its version grows and no other record carries it.
Replace(id, v) ==
    /\ v > latest[id]
    /\ \A other \in Ids : latest[other] # v
    /\ latest' = [latest EXCEPT ![id] = v]

\* It does so in one of three ways.  A push writes a record it has seen at version
\* base, or creates it.
Push(key, id, base) ==
    /\ <<key, id>> \notin done
    /\ latest[id] \in {0, base}
    /\ done' = done \union {<<key, id>>}

\* A REST create or update: the same compare-and-swap, without a key.
Write(id, base) ==
    /\ latest[id] \in {0, base}
    /\ UNCHANGED done

\* A REST delete: unconditional, but only of a record that exists.
Erase(id) ==
    /\ latest[id] # 0
    /\ UNCHANGED done

Next ==
    \E id \in Ids, v \in Versions :
        /\ Replace(id, v)
        /\ \/ \E key \in Keys, base \in Versions : Push(key, id, base)
           \/ \E base \in Versions : Write(id, base)
           \/ Erase(id)

Spec == Init /\ [][Next]_vars
===============================================================================
