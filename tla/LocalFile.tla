------------------------------- MODULE LocalFile -------------------------------
(***************************************************************************)
(* The encrypted file of one machine and the programs that work on it:     *)
(* FileStore.Load and Save (internal/client/storage/file.go), the session   *)
(* that opens and closes it (client/cli/session.go, client/tui/session.go,  *)
(* client/service/session.go), and what each command does in between.       *)
(*                                                                         *)
(* A process is a run of a command or of the terminal UI.  Every system     *)
(* call of Save is a step; processes interleave, are killed, and the        *)
(* machine loses power.                                                     *)
(*                                                                         *)
(* An edit is a change of a record, named by a number; a store is the set   *)
(* of edits it reflects.  Synchronisation, the subject of Syncer, is the    *)
(* exchange of edits with the server.  A data key is named by its account.  *)
(***************************************************************************)
EXTENDS Integers, FiniteSets

CONSTANTS
    Processes,      \* programs that can run at the same time
    Accounts,       \* accounts, each standing for its data key
    ZeroKey,        \* the key zeroBytes leaves
    NoKey,          \* the "key" of a file that is not there
    MaxEdits,       \* bound: edits
    MaxSessions,    \* bound: programs started
    MaxFaults       \* bound: failed saves, kills, power failures, late "q"s

ASSUME LocalFileAssumption ==
    /\ ZeroKey # NoKey
    /\ Accounts \intersect {ZeroKey, NoKey} = {}
    /\ MaxEdits \in Nat
    /\ MaxSessions \in Nat
    /\ MaxFaults \in Nat

VARIABLES
    file,       \* what the path names
    medium,     \* what it can name after a power failure: renames settle later
    server,     \* server[a]: the edits the server has for account a
    registered, \* the accounts that exist
    pc,         \* pc[p]: the step p is about to take
    session,    \* session[p]: the variables of the command
    store,      \* store[p]: its two Stores
    temp,       \* temp[p]: its temporary file
    syncing,    \* syncing[p]: the sync goroutine of its terminal UI runs
    edits,      \* edits made so far; names the next one
    sessions,   \* programs started so far
    faults,     \* faults so far
    found,      \* history: found[p], the edits of the file p loaded
    made,       \* history: made[p], the edits p made
    reported,   \* history: edits whose command ended without an error
    closedTwice,\* history: some terminal UI closed its session again
    undone      \* history: edits dropped by a save that had not loaded them, or
                \* by a power failure

fileVars == <<file, medium, temp, undone>>
userVars == <<edits, sessions, faults, reported, closedTwice>>
vars == <<fileVars, userVars, server, registered, pc, session, store, syncing, found, made>>

-------------------------------------------------------------------------------
Edits == 1..MaxEdits

Commands ==
    {"vault",       \* add, edit, delete, get, otp, export, import, login
     "sync",        \* sync, list
     "logout", "register", "tui"}

\* What a file holds.  whole: all of it was written; durable: it was synced.
Content == [key: Accounts \union {ZeroKey, NoKey}, edits: SUBSET Edits,
            whole: BOOLEAN, durable: BOOLEAN]

NoFile == [key |-> NoKey, edits |-> {}, whole |-> TRUE, durable |-> TRUE]

\* fs, vault: which of the two stores the FileStore, and the VaultManager and
\* Syncer, point to.  ok: Close has met no error.
Fresh(command, account) ==
    [command |-> command, account |-> account, key |-> NoKey,
     fs |-> "first", vault |-> "first", ok |-> TRUE]

Nobody == Fresh("vault", NoKey)

\* The store NewFileStore makes, and the one Load makes.
Stores == {"first", "loaded"}

NewStores == [s \in Stores |-> {}]

OnServer == UNION {server[a] : a \in Accounts}

\* Session.key is the slice the session and the vault manager share.
Opens(content, key) == content.whole /\ content.key = key

Init ==
    /\ file = NoFile
    /\ medium = {NoFile}
    /\ server = [a \in Accounts |-> {}]
    /\ registered \in SUBSET Accounts
    /\ pc = [p \in Processes |-> "off"]
    /\ session = [p \in Processes |-> Nobody]
    /\ store = [p \in Processes |-> NewStores]
    /\ temp = [p \in Processes |-> NoFile]
    /\ syncing = [p \in Processes |-> FALSE]
    /\ edits = 0 /\ sessions = 0 /\ faults = 0
    /\ found = [p \in Processes |-> {}]
    /\ made = [p \in Processes |-> {}]
    /\ reported = {}
    /\ closedTwice = FALSE
    /\ undone = {}

-------------------------------------------------------------------------------
(* openSession and openNewSession.                                         *)

At(p, step) == pc[p] = step

Goto(p, step) == pc' = [pc EXCEPT ![p] = step]

\* The user runs a command or enters a password in the terminal UI.
Start(p, command, account) ==
    /\ At(p, "off")
    /\ sessions < MaxSessions
    /\ sessions' = sessions + 1
    /\ Goto(p, IF command = "register" THEN "register" ELSE "login")
    /\ session' = [session EXCEPT ![p] = Fresh(command, account)]
    /\ UNCHANGED <<fileVars, server, registered, store, syncing, edits, faults, reported,
                   closedTwice, found, made>>

Register(p) ==
    /\ At(p, "register")
    /\ session[p].account \notin registered
    /\ registered' = registered \union {session[p].account}
    /\ Goto(p, "login")
    /\ UNCHANGED <<fileVars, userVars, server, session, store, syncing, found, made>>

\* AuthFlow.Login: the data key is unwrapped.  It puts profile and tokens into the
\* first store.  After a registration nothing is loaded.
Login(p) ==
    /\ At(p, "login")
    /\ session[p].account \in registered
    /\ session' = [session EXCEPT ![p].key = session[p].account]
    /\ Goto(p, IF session[p].command = "register" THEN "open" ELSE "load")
    /\ UNCHANGED <<fileVars, userVars, server, registered, store, syncing, found, made>>

\* A command that ends with an error before Close: the login was refused, a file
\* that is there does not open, a vault operation or an explicit sync failed.
Quit(p) ==
    /\ Goto(p, "off")
    /\ session' = [session EXCEPT ![p] = Nobody]
    /\ store' = [store EXCEPT ![p] = NewStores]
    /\ syncing' = [syncing EXCEPT ![p] = FALSE]
    /\ found' = [found EXCEPT ![p] = {}]
    /\ made' = [made EXCEPT ![p] = {}]

Fails(p) ==
    /\ \/ pc[p] \in {"register", "login"}
       \/ At(p, "load") /\ file # NoFile /\ ~Opens(file, session[p].key)
       \/ At(p, "open") /\ session[p].command # "tui"
       \/ At(p, "close") /\ session[p].command = "sync"
    /\ Quit(p)
    /\ UNCHANGED <<fileVars, userVars, server, registered>>

\* Mutant of Load: vault manager and synchroniser are made before the file is
\* loaded.
LoadAfterVault(p) ==
    /\ At(p, "load")
    /\ found' = [found EXCEPT ![p] = file.edits]
    /\ Goto(p, "open")
    /\ \/ file = NoFile /\ UNCHANGED <<store, session>>
       \/ /\ Opens(file, session[p].key)
          /\ store' = [store EXCEPT ![p]["loaded"] = file.edits]
          /\ session' = [session EXCEPT ![p].fs = "loaded"]
    /\ UNCHANGED <<fileVars, userVars, server, registered, syncing, made>>

\* FileStore.Load replaces the store by that of the file, when there is one; then
\* the vault manager and the synchroniser take the pointer.
Load(p) ==
    /\ At(p, "load")
    /\ found' = [found EXCEPT ![p] = file.edits]
    /\ Goto(p, "open")
    /\ \/ file = NoFile /\ UNCHANGED <<store, session>>
       \/ /\ Opens(file, session[p].key)
          /\ store' = [store EXCEPT ![p]["loaded"] = file.edits]
          /\ session' = [session EXCEPT ![p].fs = "loaded", ![p].vault = "loaded"]
    /\ UNCHANGED <<fileVars, userVars, server, registered, syncing, made>>

-------------------------------------------------------------------------------
(* What a command does with an open session.                               *)

\* VaultManager's Create, Update, Delete, Import: once per command.
Edit(p) ==
    /\ At(p, "open")
    /\ \/ session[p].command = "tui"
       \/ session[p].command = "vault" /\ made[p] = {}
    /\ edits < MaxEdits
    /\ edits' = edits + 1
    /\ made' = [made EXCEPT ![p] = @ \union {edits'}]
    /\ store' = [store EXCEPT ![p][session[p].vault] = @ \union {edits'}]
    /\ UNCHANGED <<fileVars, server, registered, pc, session, syncing, sessions, faults,
                   reported, closedTwice, found>>

\* Syncer.Sync, as far as it came: some edits reached the server, and the store
\* may have what the server has.
Exchange(p) ==
    LET s == session[p]
    IN  \E sent \in SUBSET store[p][s.vault], pulled \in BOOLEAN :
            /\ server' = [server EXCEPT ![s.account] = @ \union sent]
            /\ store' = IF pulled
                        THEN [store EXCEPT ![p][s.vault] = @ \union server[s.account]]
                        ELSE store

\* sync and list synchronise first; if that fails, they end without Close (Fails).
ExplicitSync(p) ==
    /\ At(p, "open")
    /\ session[p].command = "sync"
    /\ Exchange(p)
    /\ Goto(p, "close")
    /\ UNCHANGED <<fileVars, userVars, registered, session, syncing, found, made>>

\* "s" in the terminal UI; the sync goes on whatever the event loop does.
StartSync(p) ==
    /\ At(p, "open")
    /\ session[p].command = "tui"
    /\ ~syncing[p]
    /\ syncing' = [syncing EXCEPT ![p] = TRUE]
    /\ UNCHANGED <<fileVars, userVars, server, registered, pc, session, store, found, made>>

SyncInBackground(p) ==
    /\ syncing[p]
    /\ Exchange(p)
    /\ syncing' = [syncing EXCEPT ![p] = FALSE]
    /\ UNCHANGED <<fileVars, userVars, registered, pc, session, found, made>>

-------------------------------------------------------------------------------
(* Session.Close, CloseWithoutSync, FileStore.Save.                        *)

\* The command is done, or "q" was pressed.  logout does not synchronise.
BeginClose(p) ==
    /\ At(p, "open")
    /\ session[p].command # "sync"
    /\ Goto(p, IF session[p].command = "logout" THEN "save" ELSE "close")
    /\ UNCHANGED <<fileVars, userVars, server, registered, session, store, syncing, found, made>>

\* A failed sync is returned as an error after the save.
CloseSync(p) ==
    /\ At(p, "close")
    /\ Exchange(p)
    /\ \E ok \in BOOLEAN : session' = [session EXCEPT ![p].ok = ok]
    /\ Goto(p, "save")
    /\ UNCHANGED <<fileVars, userVars, registered, syncing, found, made>>

\* Snapshot, Encrypt, CreateTemp and Write: nobody else knows the temporary file.
WriteTemp(p) ==
    /\ At(p, "save")
    /\ temp' = [temp EXCEPT ![p] =
                   [key |-> session[p].key, edits |-> store[p][session[p].fs],
                    whole |-> TRUE, durable |-> FALSE]]
    /\ Goto(p, "written")
    /\ UNCHANGED <<file, medium, undone, userVars, server, registered, session, store,
                   syncing, found, made>>

\* Mutant of Fsync: the file is closed without being synced.
CloseTemp(p) ==
    /\ At(p, "written")
    /\ Goto(p, "synced")
    /\ UNCHANGED <<fileVars, userVars, server, registered, session, store, syncing,
                   found, made>>

Fsync(p) ==
    /\ At(p, "written")
    /\ temp' = [temp EXCEPT ![p].durable = TRUE]
    /\ Goto(p, "synced")
    /\ UNCHANGED <<file, medium, undone, userVars, server, registered, session, store,
                   syncing, found, made>>

\* The deferred zeroBytes runs when Close returns, whatever it returns.
CloseReturns(p, ok) ==
    /\ Goto(p, "closed")
    /\ session' = [session EXCEPT ![p].key = ZeroKey, ![p].ok = @ /\ ok]

Rename(p) ==
    /\ At(p, "synced")
    /\ file' = temp[p]
    /\ medium' = medium \union {temp[p]}
    /\ temp' = [temp EXCEPT ![p] = NoFile]
    /\ undone' = undone \union (file.edits \ (temp[p].edits \union found[p]))
    /\ CloseReturns(p, TRUE)
    /\ UNCHANGED <<userVars, server, registered, store, syncing, found, made>>

\* Mutant of SaveFails: the temporary file is not removed.
SaveFailsLitter(p) ==
    /\ pc[p] \in {"save", "written", "synced"}
    /\ faults < MaxFaults
    /\ faults' = faults + 1
    /\ CloseReturns(p, FALSE)
    /\ UNCHANGED <<fileVars, server, registered, store, syncing, edits, sessions, reported,
                   closedTwice, found, made>>

\* Any system call of Save can fail: the directory is missing, the disk is full.
SaveFails(p) ==
    /\ pc[p] \in {"save", "written", "synced"}
    /\ faults < MaxFaults
    /\ faults' = faults + 1
    /\ temp' = [temp EXCEPT ![p] = NoFile]
    /\ CloseReturns(p, FALSE)
    /\ UNCHANGED <<file, medium, undone, server, registered, store, syncing, edits,
                   sessions, reported, closedTwice, found, made>>

\* The command prints its result; the terminal UI receives its QuitMsg.
Exit(p) ==
    /\ At(p, "closed")
    /\ Quit(p)
    /\ reported' = IF session[p].ok THEN reported \union made[p] ELSE reported
    /\ UNCHANGED <<fileVars, server, registered, edits, sessions, faults, closedTwice>>

\* A "q" pressed while Close ran is handled before the QuitMsg: m.session is still
\* set, and is closed again with the key it has now.
QuitAgain(p) ==
    /\ At(p, "closed")
    /\ session[p].command = "tui"
    /\ faults < MaxFaults
    /\ faults' = faults + 1
    /\ session' = [session EXCEPT ![p].ok = TRUE]
    /\ Goto(p, "close")
    /\ closedTwice' = TRUE
    /\ UNCHANGED <<fileVars, edits, sessions, reported, server, registered, store, syncing,
                   found, made>>

-------------------------------------------------------------------------------
(* Faults.                                                                 *)

\* What a killed Save leaves beside the file is read by nobody.
Kill(p) ==
    /\ pc[p] # "off"
    /\ faults < MaxFaults
    /\ faults' = faults + 1
    /\ Quit(p)
    /\ temp' = [temp EXCEPT ![p] = NoFile]
    /\ UNCHANGED <<file, medium, undone, server, registered, edits, sessions, reported,
                   closedTwice>>

\* The directory reaches the medium; nothing in Save waits for it.
Settle ==
    /\ medium # {file}
    /\ medium' = {file}
    /\ UNCHANGED <<file, temp, undone, userVars, server, registered, pc, session, store,
                   syncing, found, made>>

\* Every process ends; a rename may be undone, and what was not synced is torn.
PowerFailure ==
    /\ faults < MaxFaults
    /\ faults' = faults + 1
    /\ \E left \in medium :
           file' = [left EXCEPT !.whole = left.whole /\ left.durable]
    /\ medium' = {file'}
    /\ undone' = undone \union (file.edits \ file'.edits)
    /\ pc' = [p \in Processes |-> "off"]
    /\ session' = [p \in Processes |-> Nobody]
    /\ store' = [p \in Processes |-> NewStores]
    /\ temp' = [p \in Processes |-> NoFile]
    /\ syncing' = [p \in Processes |-> FALSE]
    /\ found' = [p \in Processes |-> {}]
    /\ made' = [p \in Processes |-> {}]
    /\ UNCHANGED <<server, registered, edits, sessions, reported, closedTwice>>

-------------------------------------------------------------------------------
Next ==
    \/ \E p \in Processes :
           \/ \E command \in Commands, account \in Accounts : Start(p, command, account)
           \/ Register(p) \/ Login(p) \/ Load(p) \/ Fails(p)
           \/ Edit(p) \/ ExplicitSync(p) \/ StartSync(p) \/ SyncInBackground(p)
           \/ BeginClose(p) \/ CloseSync(p)
           \/ WriteTemp(p) \/ Fsync(p) \/ Rename(p) \/ SaveFails(p)
           \/ Exit(p) \/ QuitAgain(p)
           \/ Kill(p)
    \/ Settle
    \/ PowerFailure

Spec == Init /\ [][Next]_vars

-------------------------------------------------------------------------------
(* What is true of every execution.                                        *)

SessionState ==
    [command: Commands, account: Accounts \union {NoKey}, key: Accounts \union {ZeroKey, NoKey},
     fs: Stores, vault: Stores, ok: BOOLEAN]

\* Every variable holds a value of its type, and a temporary file is there only
\* while its Save is under way (file.go:99).
TypeOK ==
    /\ file \in Content
    /\ medium \subseteq Content
    /\ server \in [Accounts -> SUBSET Edits]
    /\ registered \subseteq Accounts
    /\ pc \in [Processes -> {"off", "register", "login", "load", "open", "close", "save",
                             "written", "synced", "closed"}]
    /\ session \in [Processes -> SessionState]
    /\ store \in [Processes -> [Stores -> SUBSET Edits]]
    /\ temp \in [Processes -> Content]
    /\ \A p \in Processes : pc[p] \notin {"written", "synced"} => temp[p] = NoFile
    /\ syncing \in [Processes -> BOOLEAN]
    /\ edits \in 0..MaxEdits /\ sessions \in 0..MaxSessions /\ faults \in 0..MaxFaults
    /\ found \in [Processes -> SUBSET Edits]
    /\ made \in [Processes -> SUBSET Edits]
    /\ reported \subseteq Edits /\ undone \subseteq Edits
    /\ closedTwice \in BOOLEAN

\* The file is whole and encrypted with the key of an account, whatever failed,
\* was killed, ran at the same time or lost power ("this protects the file from
\* corruption if the process crashes during the write", file.go:64-66).
FileOpens == file # NoFile => file.whole /\ file.key \in Accounts

\* A torn file never gets the name; that a terminal UI closed its session a second
\* time is the only way to a file that is whole but opens with nobody's key.
OpensUnlessClosedTwice == file.whole /\ (FileOpens \/ closedTwice)

\* What a user was told is saved is on the server or in the file, whatever its key,
\* unless a program that had loaded the file before replaced it, or the power failed
\* before the rename settled (session.go:44-66).
ReportedEditsKept == reported \subseteq OnServer \union file.edits \union undone
===============================================================================
