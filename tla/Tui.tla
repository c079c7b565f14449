---------------------------------- MODULE Tui ----------------------------------
(***************************************************************************)
(* The terminal UI (internal/client/tui/model.go) on one device: its event  *)
(* loop, which handles one key or message at a time, beside the goroutine   *)
(* in which bubbletea runs the sync that "s" starts.  Both work on the same *)
(* Store, so edits and deletes fall between the steps of the sync.          *)
(*                                                                         *)
(* Syncer's actions are used as they are.  One of them merges a whole       *)
(* answer: the Store's lock is taken for each record, so in the program an  *)
(* edit can also fall between two records of one merge.                     *)
(*                                                                         *)
(* The other devices of the account change its rows in steps of their own.  *)
(* The session has been opened by the login screen; quitting, which is      *)
(* Syncer's sync and Save, ends the behaviour.                              *)
(***************************************************************************)
EXTENDS Syncer, SequencesExt

CONSTANT Me

ASSUME TuiAssumption == Devices = {Me} /\ MaxIds >= 2

VARIABLES
    screen,     \* the screen; "confirm" is the list with confirmDeleteID set
    list,       \* m.records: ids in the order of the screen
    cursor,     \* m.cursor, an index into m.records from 0 up
    subject,    \* confirmDeleteID or editingID, 0 for none
    seen,       \* the body an edit form was filled with
    syncing,    \* m.syncing, and whether syncResultMsg is waiting
    calm        \* history: the edits made here when nothing was being sent

screenVars == <<screen, list, cursor, subject, seen>>
tuiVars == <<screenVars, syncing, calm>>
allVars == <<vars, tuiVars>>

-------------------------------------------------------------------------------
myStore == store[Me]

\* What VaultManager.List returns, as a set.
Visible(s) == {id \in DOMAIN s.recs : ~s.recs[id].deleted}

\* refreshRecords.  List goes through a Go map: the order is another one each time.
Refresh == list' \in SetToSeqs(Visible(myStore'))

Clamp == cursor' = IF cursor < Len(list') THEN cursor
                   ELSE IF list' = <<>> THEN 0 ELSE Len(list') - 1

\* m.records[m.cursor], where there is one.
OnRecord == cursor < Len(list)
Selected == list[cursor + 1]

\* Two records, which the server and the device have.
TuiInit ==
    /\ rows = [id \in Ids |-> IF id <= 2 THEN [NoRow EXCEPT !.version = id] ELSE NoRow]
    /\ seq = 2
    /\ commits = {[id |-> id, base |-> 0, row |-> rows[id]] : id \in {1, 2}}
    /\ idem = [k \in Keys |-> NoResult]
    /\ store = [d \in Devices |-> [recs |-> [id \in {1, 2} |-> FromServer(rows[id])],
                                   cursor |-> 2, pending |-> <<>>]]
    /\ saved = store
    /\ proc = [d \in Devices |-> Ready]
    /\ bundle = NoRecords
    /\ edits = 0 /\ imports = 0 /\ faults = 0
    /\ nextId = 3
    /\ screen = "list"
    /\ list \in SetToSeqs({1, 2})
    /\ cursor = 0
    /\ subject = 0
    /\ seen = {}
    /\ syncing = "no"
    /\ calm = {}

-------------------------------------------------------------------------------
(* Keys that change what is shown and nothing else.                        *)

Show(to, id, body) ==
    /\ screen' = to
    /\ subject' = id
    /\ seen' = body
    /\ UNCHANGED <<vars, list, cursor, syncing, calm>>

MoveCursor(by) ==
    /\ screen = "list"
    /\ cursor' = cursor + by
    /\ UNCHANGED <<vars, screen, list, subject, seen, syncing, calm>>

\* Mutant of MoveUp: it does not stop at the first record.
MoveUpAlways == MoveCursor(-1)

MoveUp == cursor > 0 /\ MoveCursor(-1)
MoveDown == cursor < Len(list) - 1 /\ MoveCursor(1)

OpenDetail == screen = "list" /\ OnRecord /\ Show("detail", 0, {})

AskDelete == screen = "list" /\ OnRecord /\ Show("confirm", Selected, {})

NewRecord == screen = "list" /\ Show("type", 0, {})

ChooseType == screen = "type" /\ Show("form", 0, {})

\* "e" edits the record under the cursor, as it is in the store now.
StartEdit ==
    screen = "detail" /\ OnRecord /\ Show("form", Selected, myStore.recs[Selected].body)

Back == screen \in {"confirm", "detail", "type", "form"} /\ Show("list", 0, {})

-------------------------------------------------------------------------------
(* Keys that change the store.                                             *)

ToList ==
    /\ screen' = "list"
    /\ subject' = 0
    /\ seen' = {}
    /\ UNCHANGED syncing

\* Mutant of ConfirmDelete: the record under the cursor is deleted.
ConfirmDeleteSelected ==
    /\ screen = "confirm"
    /\ OnRecord
    /\ Delete(Me, Selected)
    /\ Refresh
    /\ Clamp
    /\ ToList
    /\ UNCHANGED calm

ConfirmDelete ==
    /\ screen = "confirm"
    /\ Delete(Me, subject)
    /\ Refresh
    /\ Clamp
    /\ ToList
    /\ UNCHANGED calm

\* Nothing is being sent or waits to be sent again.
Calm == proc[Me].at = "ready" /\ myStore.pending = <<>>

\* submitAddForm: the list is read again, the cursor stays where it is.
Submit ==
    /\ screen = "form"
    /\ IF subject = 0 THEN Create(Me) ELSE Update(Me, subject, seen)
    /\ Refresh
    /\ ToList
    /\ calm' = IF Calm THEN calm \union {edits'} ELSE calm
    /\ UNCHANGED cursor

-------------------------------------------------------------------------------
(* The sync in its goroutine, and the message at its end.                  *)

StartSync ==
    /\ screen = "list"
    /\ syncing = "no"
    /\ SyncStart(Me)
    /\ syncing' = "running"
    /\ UNCHANGED <<screenVars, calm>>

Sync ==
    /\ SyncStep(Me)
    /\ syncing' = IF proc'[Me].at # "ready" THEN "running"
                  ELSE IF faults' = faults THEN "done" ELSE "failed"
    /\ UNCHANGED <<screenVars, calm>>

\* Mutants of SyncResult: the cursor stays where it is; a failure leaves m.syncing set.
SyncResultNoClamp ==
    /\ syncing \in {"done", "failed"}
    /\ UNCHANGED <<vars, screen, cursor, subject, seen, calm>>
    /\ syncing' = "no"
    /\ IF syncing = "done" THEN Refresh ELSE UNCHANGED list

SyncResultOnSuccess ==
    /\ syncing = "done"
    /\ UNCHANGED <<vars, screen, subject, seen, calm>>
    /\ syncing' = "no"
    /\ Refresh
    /\ Clamp

\* handleSyncResult: a failure is shown and nothing else.
SyncResult ==
    /\ syncing \in {"done", "failed"}
    /\ UNCHANGED <<vars, screen, subject, seen, calm>>
    /\ syncing' = "no"
    /\ IF syncing = "done" THEN Refresh /\ Clamp ELSE UNCHANGED <<list, cursor>>

-------------------------------------------------------------------------------
\* An index past the end: "enter", "d", "e" or the tick of the TOTP code ends the
\* process, without Session.Close.
Panic ==
    /\ screen \in {"list", "detail"}
    /\ list # <<>> /\ ~OnRecord
    /\ screen' = "gone"
    /\ store' = saved
    /\ proc' = [proc EXCEPT ![Me] = Ready]
    /\ syncing' = "no"
    /\ UNCHANGED <<serverVars, saved, userVars, faults, nextId,
                   list, cursor, subject, seen, calm>>

\* A change made on another device that has the row arrives at the server.
Remote(id) ==
    /\ screen # "gone"
    /\ rows[id].version # 0 /\ ~rows[id].deleted
    /\ edits < MaxEdits
    /\ edits' = edits + 1
    /\ \E deleted \in BOOLEAN :
           Serve([x \in {id} |->
               [base |-> rows[id].version, deleted |-> deleted,
                body |-> IF deleted THEN rows[id].body ELSE rows[id].body \union {edits'}]])
    /\ UNCHANGED <<idem, store, saved, proc, bundle, imports, faults, nextId, tuiVars>>

-------------------------------------------------------------------------------
EventLoop ==
    \/ MoveUp \/ MoveDown
    \/ OpenDetail \/ AskDelete \/ NewRecord \/ ChooseType \/ StartEdit \/ Back
    \/ ConfirmDelete \/ Submit
    \/ StartSync \/ SyncResult
    \/ Panic

TuiNext == EventLoop \/ Sync \/ \E id \in Ids : Remote(id)

TuiSpec == TuiInit /\ [][TuiNext]_allVars

\* The goroutine goes on and bubbletea delivers its message; keys and the other
\* devices need not do anything.
TuiFairSpec == TuiSpec /\ WF_allVars(Sync) /\ WF_allVars(SyncResult)

-------------------------------------------------------------------------------
\* Every variable, Syncer's too, holds a value of its type, whatever the sync does.
TuiTypeOK ==
    /\ TypeOK
    /\ screen \in {"list", "confirm", "detail", "type", "form", "gone"}
    /\ list \in Seq(Ids)
    /\ cursor \in Nat
    /\ subject \in 0..MaxIds
    /\ seen \subseteq 1..MaxEdits
    /\ syncing \in {"no", "running", "done", "failed"}
    /\ calm \subseteq 1..MaxEdits

\* A confirmed delete or a saved form changes the record it was opened for and no
\* other, though a sync reorders the list in between (model.go:421, 510).
ActsOnItsSubject ==
    [][/\ screen \in {"confirm", "form"}
       /\ screen' = "list"
       => \A id \in DOMAIN myStore.recs \ {subject} :
              myStore'.recs[id] = myStore.recs[id]]_allVars

\* With no sync under way, unless one failed, the list shows the records the store
\* has, also those the sync brought, and the cursor is on one of them: "enter", "d"
\* and "e" find the record they index (model.go:283-287, 430-433).
ListIsCurrent ==
    syncing = "no" /\ faults = 0 /\ screen # "gone"
    => /\ {list[i] : i \in DOMAIN list} = Visible(myStore)
       /\ list = <<>> \/ OnRecord

Kept(edit) == \E id \in DOMAIN myStore.recs : edit \in myStore.recs[id].body

\* What the user saved when nothing was being sent stays on the device, whatever
\* is edited, deleted and merged while a sync is under way (syncer.go:125-159).
CalmEditsSurvive == screen # "gone" => \A edit \in calm : Kept(edit)

\* "s" is not ignored for ever: a sync that began ends, and m.syncing is reset.
SyncEnds == syncing # "no" ~> syncing = "no"
===============================================================================
