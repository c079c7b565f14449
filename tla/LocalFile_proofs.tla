---------------------------- MODULE LocalFile_proofs ----------------------------
(***************************************************************************)
(* Theorems about LocalFile for every number of processes, accounts, edits *)
(* and faults, and however often a terminal UI closes its session.         *)
(***************************************************************************)
EXTENDS LocalFile, TLAPS

-------------------------------------------------------------------------------
(* The inductive invariant.                                                *)

\* Where an edit can be found again, or why it cannot.
Kept == OnServer \union file.edits \union undone

\* The key of an account, unless a session was closed with a key zeroed before.
KeyOK(key) == key \in Accounts \/ closedTwice

\* Whatever a power failure leaves is whole and opens.
ContentOK(content) ==
    /\ content.whole /\ content.durable
    /\ content = NoFile \/ KeyOK(content.key)

FileOK == file \in medium /\ \A content \in medium : ContentOK(content)

\* The session and the vault share one store, which is ahead of the file that was
\* loaded; the key is that of the account until Close has returned.
ProcessOK(p) ==
    /\ pc[p] # "off" => session[p].account \in Accounts
    /\ syncing[p] => pc[p] \in {"open", "close", "save", "written", "synced", "closed"}
    /\ pc[p] \in {"off", "register", "login", "load"} => found[p] = {} /\ made[p] = {}
    /\ session[p].fs = session[p].vault
    /\ pc[p] \in {"load", "open", "close", "save"} => KeyOK(session[p].key)
    /\ pc[p] \in {"open", "close", "save", "written", "synced", "closed"} =>
           found[p] \union made[p] \subseteq store[p][session[p].vault]
    /\ pc[p] \in {"written", "synced"} =>
           /\ temp[p].whole /\ KeyOK(temp[p].key)
           /\ found[p] \union made[p] \subseteq temp[p].edits
    /\ pc[p] = "synced" => temp[p].durable
    /\ pc[p] = "closed" /\ session[p].ok => made[p] \subseteq Kept

IInv ==
    /\ TypeOK
    /\ FileOK
    /\ \A p \in Processes : ProcessOK(p)
    /\ reported \subseteq Kept

-------------------------------------------------------------------------------
(* What most steps have in common: they concern one process.               *)

Untouched(q) ==
    UNCHANGED <<pc[q], session[q], store[q], temp[q], syncing[q], found[q], made[q]>>

LEMMA InitInv == Init => IInv
<1> SUFFICES ASSUME Init PROVE IInv
  OBVIOUS
<1>1. NoFile \in Content /\ ContentOK(NoFile)
  BY DEF NoFile, Content, ContentOK
<1>2. Nobody \in SessionState /\ Nobody.fs = Nobody.vault /\ Nobody.command = "vault"
  BY DEF Nobody, Fresh, SessionState, Commands, Stores
<1>3. NewStores \in [Stores -> SUBSET Edits]
  BY DEF NewStores
<1>4. TypeOK
  <2>1. closedTwice \in BOOLEAN
    BY Zenon DEF Init
  <2> QED
    BY <1>1, <1>2, <1>3, <2>1, LocalFileAssumption DEF Init, TypeOK
<1>5. FileOK
  BY <1>1 DEF Init, FileOK
<1>6. \A p \in Processes : ProcessOK(p)
  BY <1>2 DEF Init, ProcessOK
<1>7. reported \subseteq Kept
  BY DEF Init
<1> QED
  BY <1>4, <1>5, <1>6, <1>7 DEF IInv

\* A process that takes no part keeps its invariant.
LEMMA OtherProcess ==
  ASSUME NEW q \in Processes, ProcessOK(q), Untouched(q), Kept \subseteq Kept',
         closedTwice => closedTwice'
  PROVE  ProcessOK(q)'
  BY DEF ProcessOK, KeyOK, Untouched

\* A step of one process that leaves the file, the medium, the server and the
\* reports alone.
LEMMA QuietStep ==
  ASSUME IInv, NEW p \in Processes,
         UNCHANGED <<file, medium, server, undone, reported, closedTwice>>,
         \A q \in Processes \ {p} : Untouched(q),
         TypeOK', ProcessOK(p)'
  PROVE  IInv'
<1>1. Kept' = Kept
  BY DEF Kept, OnServer
<1>2. FileOK'
  BY DEF IInv, FileOK, ContentOK, KeyOK
<1>3. \A q \in Processes : ProcessOK(q)'
  BY <1>1, OtherProcess DEF IInv
<1>4. reported' \subseteq Kept'
  BY <1>1 DEF IInv
<1> QED
  BY <1>2, <1>3, <1>4 DEF IInv

\* Changes that keep the type of a store or a session.
LEMMA StoreType ==
  ASSUME TypeOK, NEW p \in Processes, NEW s \in Stores, NEW new \in SUBSET Edits
  PROVE  [store EXCEPT ![p][s] = new] \in [Processes -> [Stores -> SUBSET Edits]]
<1>1. [store[p] EXCEPT ![s] = new] \in [Stores -> SUBSET Edits]
  BY DEF TypeOK
<1> QED
  BY <1>1 DEF TypeOK

LEMMA SessionType ==
  ASSUME NEW s \in SessionState
  PROVE  /\ \A key \in Accounts \union {ZeroKey, NoKey} : [s EXCEPT !.key = key] \in SessionState
         /\ \A which \in Stores : [s EXCEPT !.fs = which] \in SessionState
         /\ \A which \in Stores : [s EXCEPT !.vault = which] \in SessionState
         /\ \A ok \in BOOLEAN : [s EXCEPT !.ok = ok] \in SessionState
  BY DEF SessionState

-------------------------------------------------------------------------------
(* Steps that only concern the process.                                    *)

LEMMA StartInv ==
  ASSUME IInv, NEW p \in Processes, NEW command \in Commands, NEW account \in Accounts,
         Start(p, command, account)
  PROVE  IInv'
<1> USE DEF At, Goto, fileVars
<1>1. Fresh(command, account) \in SessionState
  BY DEF Fresh, SessionState, Stores
<1>2. TypeOK'
  BY <1>1, LocalFileAssumption DEF IInv, Start, TypeOK
<1>3. ProcessOK(p)'
  BY DEF IInv, Start, TypeOK, ProcessOK, Fresh
<1>4. \A q \in Processes \ {p} : Untouched(q)
  BY DEF IInv, Start, TypeOK, Untouched
<1> QED
  BY <1>2, <1>3, <1>4, QuietStep DEF Start

LEMMA RegisterInv ==
  ASSUME IInv, NEW p \in Processes, Register(p)
  PROVE  IInv'
<1> USE DEF At, Goto, fileVars, userVars
<1>1. TypeOK'
  BY DEF IInv, Register, TypeOK, ProcessOK
<1>2. ProcessOK(p)'
  BY DEF IInv, Register, TypeOK, ProcessOK
<1>3. \A q \in Processes \ {p} : Untouched(q)
  BY DEF IInv, Register, TypeOK, Untouched
<1> QED
  BY <1>1, <1>2, <1>3, QuietStep DEF Register

LEMMA LoginInv ==
  ASSUME IInv, NEW p \in Processes, Login(p)
  PROVE  IInv'
<1> USE DEF At, Goto, fileVars, userVars
<1>0. session[p].account \in Accounts
  BY DEF IInv, Login, ProcessOK
<1>1. TypeOK'
  BY <1>0, SessionType DEF IInv, Login, TypeOK
<1>2. ProcessOK(p)'
  BY <1>0 DEF IInv, Login, TypeOK, SessionState, ProcessOK, KeyOK
<1>3. \A q \in Processes \ {p} : Untouched(q)
  BY DEF IInv, Login, TypeOK, Untouched
<1> QED
  BY <1>1, <1>2, <1>3, QuietStep DEF Login

LEMMA LoadInv ==
  ASSUME IInv, NEW p \in Processes, Load(p)
  PROVE  IInv'
<1> USE DEF At, Goto, fileVars, userVars
<1>1. TypeOK'
  <2>1. CASE file = NoFile /\ UNCHANGED <<store, session>>
    <3>1. found' \in [Processes -> SUBSET Edits]
      BY DEF IInv, Load, TypeOK, Content
    <3> QED
      BY <2>1, <3>1 DEF IInv, Load, TypeOK
  <2>2. CASE /\ store' = [store EXCEPT ![p]["loaded"] = file.edits]
             /\ session' = [session EXCEPT ![p].fs = "loaded", ![p].vault = "loaded"]
    <3>1. file.edits \in SUBSET Edits
      BY DEF IInv, TypeOK, Content
    <3>2. store' \in [Processes -> [Stores -> SUBSET Edits]]
      BY <2>2, <3>1, StoreType DEF IInv, Stores
    <3>3. session' \in [Processes -> SessionState]
      <4> DEFINE between == [session EXCEPT ![p].fs = "loaded"]
      <4>1. between \in [Processes -> SessionState]
        BY SessionType DEF IInv, TypeOK, Stores
      <4>2. session' = [between EXCEPT ![p] = [between[p] EXCEPT !.vault = "loaded"]]
        BY <2>2
      <4> HIDE DEF between
      <4> QED
        BY <4>1, <4>2, SessionType DEF Stores
    <3>4. found' \in [Processes -> SUBSET Edits]
      BY <3>1 DEF IInv, Load, TypeOK
    <3> QED
      BY <2>2, <3>2, <3>3, <3>4 DEF IInv, Load, TypeOK
  <2> QED
    BY <2>1, <2>2 DEF Load
<1>2. ProcessOK(p)'
  BY DEF IInv, Load, TypeOK, SessionState, Stores, ProcessOK, NoFile, KeyOK
<1>3. \A q \in Processes \ {p} : Untouched(q)
  BY DEF IInv, Load, TypeOK, Untouched
<1> QED
  BY <1>1, <1>2, <1>3, QuietStep DEF Load

LEMMA NobodyType == Nobody \in SessionState /\ Nobody.fs = Nobody.vault
  BY DEF Nobody, Fresh, SessionState, Commands, Stores

LEMMA NewStoresType == NewStores \in [Stores -> SUBSET Edits]
  BY DEF NewStores

\* A process that ends leaves nothing behind.
LEMMA QuitProcess ==
  ASSUME TypeOK, NEW p \in Processes, Quit(p)
  PROVE  /\ pc' \in [Processes -> {"off", "register", "login", "load", "open", "close",
                                   "save", "written", "synced", "closed"}]
         /\ session' \in [Processes -> SessionState]
         /\ store' \in [Processes -> [Stores -> SUBSET Edits]]
         /\ syncing' \in [Processes -> BOOLEAN]
         /\ found' \in [Processes -> SUBSET Edits]
         /\ made' \in [Processes -> SUBSET Edits]
         /\ pc'[p] = "off"
         /\ ProcessOK(p)'
         /\ \A q \in Processes \ {p} :
                UNCHANGED <<pc[q], session[q], store[q], syncing[q], found[q], made[q]>>
  BY NobodyType, NewStoresType DEF TypeOK, Quit, Goto, ProcessOK

LEMMA FailsInv ==
  ASSUME IInv, NEW p \in Processes, Fails(p)
  PROVE  IInv'
<1> USE DEF At, fileVars, userVars
<1>1. /\ Quit(p)
      /\ UNCHANGED <<file, medium, temp, undone, edits, sessions, faults, reported,
                     closedTwice, server, registered>>
      /\ pc[p] \notin {"written", "synced"}
  BY DEF Fails
<1>2. TypeOK'
  <2>1. \A q \in Processes : pc'[q] \notin {"written", "synced"} => temp'[q] = NoFile
    BY <1>1, QuitProcess DEF IInv, TypeOK
  <2> QED
    BY <1>1, <2>1, QuitProcess DEF IInv, TypeOK
<1>3. ProcessOK(p)'
  BY <1>1, QuitProcess DEF IInv
<1>4. \A q \in Processes \ {p} : Untouched(q)
  BY <1>1, QuitProcess DEF IInv, Untouched
<1> QED
  BY <1>1, <1>2, <1>3, <1>4, QuietStep

LEMMA KillInv ==
  ASSUME IInv, NEW p \in Processes, Kill(p)
  PROVE  IInv'
<1>1. TypeOK'
  <2>1. temp' \in [Processes -> Content] /\ temp'[p] = NoFile
    BY DEF IInv, TypeOK, Kill, NoFile, Content
  <2>2. faults' \in 0..MaxFaults
    BY LocalFileAssumption DEF IInv, TypeOK, Kill
  <2>3. \A q \in Processes : pc'[q] \notin {"written", "synced"} => temp'[q] = NoFile
    BY <2>1, QuitProcess DEF IInv, TypeOK, Kill
  <2> QED
    BY <2>1, <2>2, <2>3, QuitProcess DEF IInv, TypeOK, Kill
<1>2. ProcessOK(p)'
  BY QuitProcess DEF IInv, Kill
<1>3. \A q \in Processes \ {p} : Untouched(q)
  BY QuitProcess DEF IInv, TypeOK, Kill, Untouched
<1> QED
  BY <1>1, <1>2, <1>3, QuietStep DEF Kill

LEMMA EditInv ==
  ASSUME IInv, NEW p \in Processes, Edit(p)
  PROVE  IInv'
<1> USE DEF At, fileVars
<1>1. edits' \in Edits /\ edits' \in 0..MaxEdits
  BY LocalFileAssumption DEF IInv, Edit, TypeOK, Edits
<1>2. session[p].vault \in Stores
  BY DEF IInv, TypeOK, SessionState
<1>3. TypeOK'
  <2>1. store[p][session[p].vault] \union {edits'} \in SUBSET Edits
    BY <1>1, <1>2 DEF IInv, TypeOK
  <2>2. store' \in [Processes -> [Stores -> SUBSET Edits]]
    BY <1>2, <2>1, StoreType DEF IInv, Edit
  <2>3. made' \in [Processes -> SUBSET Edits]
    BY <1>1 DEF IInv, Edit, TypeOK
  <2> QED
    BY <1>1, <2>2, <2>3 DEF IInv, Edit, TypeOK
<1>4. ProcessOK(p)'
  BY <1>2 DEF IInv, Edit, TypeOK, ProcessOK, KeyOK
<1>5. \A q \in Processes \ {p} : Untouched(q)
  BY DEF IInv, Edit, TypeOK, Untouched
<1> QED
  BY <1>3, <1>4, <1>5, QuietStep DEF Edit

LEMMA StartSyncInv ==
  ASSUME IInv, NEW p \in Processes, StartSync(p)
  PROVE  IInv'
<1> USE DEF At, fileVars, userVars
<1>1. TypeOK'
  BY DEF IInv, StartSync, TypeOK
<1>2. ProcessOK(p)'
  BY DEF IInv, StartSync, TypeOK, ProcessOK, KeyOK
<1>3. \A q \in Processes \ {p} : Untouched(q)
  BY DEF IInv, StartSync, TypeOK, Untouched
<1> QED
  BY <1>1, <1>2, <1>3, QuietStep DEF StartSync

LEMMA BeginCloseInv ==
  ASSUME IInv, NEW p \in Processes, BeginClose(p)
  PROVE  IInv'
<1> USE DEF At, Goto, fileVars, userVars
<1>1. TypeOK'
  BY SessionType DEF IInv, BeginClose, TypeOK
<1>2. ProcessOK(p)'
  BY DEF IInv, BeginClose, TypeOK, SessionState, ProcessOK, KeyOK
<1>3. \A q \in Processes \ {p} : Untouched(q)
  BY DEF IInv, BeginClose, TypeOK, Untouched
<1> QED
  BY <1>1, <1>2, <1>3, QuietStep DEF BeginClose

-------------------------------------------------------------------------------
(* Save.                                                                   *)

LEMMA WriteTempInv ==
  ASSUME IInv, NEW p \in Processes, WriteTemp(p)
  PROVE  IInv'
<1> USE DEF At, Goto, userVars
<1> DEFINE written == [key |-> session[p].key, edits |-> store[p][session[p].fs],
                       whole |-> TRUE, durable |-> FALSE]
<1>1. /\ written \in Content
      /\ written.whole /\ KeyOK(written.key)
      /\ found[p] \union made[p] \subseteq written.edits
  BY DEF IInv, WriteTemp, TypeOK, SessionState, ProcessOK, Content
<1>2. temp' = [temp EXCEPT ![p] = written]
  BY DEF WriteTemp
<1> HIDE DEF written
<1>3. TypeOK'
  BY <1>1, <1>2 DEF IInv, WriteTemp, TypeOK
<1>4. ProcessOK(p)'
  BY <1>1, <1>2 DEF IInv, WriteTemp, TypeOK, ProcessOK, KeyOK
<1>5. \A q \in Processes \ {p} : Untouched(q)
  BY <1>2 DEF IInv, WriteTemp, TypeOK, Untouched
<1> QED
  BY <1>3, <1>4, <1>5, QuietStep DEF WriteTemp

LEMMA FsyncInv ==
  ASSUME IInv, NEW p \in Processes, Fsync(p)
  PROVE  IInv'
<1> USE DEF At, Goto, userVars
<1>1. TypeOK'
  <2>1. [temp[p] EXCEPT !.durable = TRUE] \in Content
    BY DEF IInv, TypeOK, Content
  <2> QED
    BY <2>1 DEF IInv, Fsync, TypeOK
<1>2. ProcessOK(p)'
  BY DEF IInv, Fsync, TypeOK, Content, ProcessOK, KeyOK
<1>3. \A q \in Processes \ {p} : Untouched(q)
  BY DEF IInv, Fsync, TypeOK, Untouched
<1> QED
  BY <1>1, <1>2, <1>3, QuietStep DEF Fsync

LEMMA SaveFailsInv ==
  ASSUME IInv, NEW p \in Processes, SaveFails(p)
  PROVE  IInv'
<1> USE DEF At, Goto
<1>1. /\ session' \in [Processes -> SessionState]
      /\ session'[p] = [session[p] EXCEPT !.key = ZeroKey, !.ok = FALSE]
      /\ \A q \in Processes \ {p} : session'[q] = session[q]
  <2> DEFINE between == [session EXCEPT ![p].key = ZeroKey]
  <2>1. session' = [between EXCEPT ![p].ok = @ /\ FALSE]
    BY DEF SaveFails, CloseReturns
  <2>2. between \in [Processes -> SessionState]
    BY SessionType DEF IInv, TypeOK
  <2>3. \A q \in Processes : session'[q] =
            IF q = p THEN [session[p] EXCEPT !.key = ZeroKey, !.ok = FALSE] ELSE session[q]
    BY <2>1 DEF IInv, TypeOK
  <2>4. session' \in [Processes -> SessionState]
    <3> HIDE DEF between
    <3> QED
      BY <2>1, <2>2, SessionType
  <2> QED
    BY <2>3, <2>4
<1>2. TypeOK'
  <2>1. temp' \in [Processes -> Content] /\ temp'[p] = NoFile
    BY DEF IInv, TypeOK, SaveFails, NoFile, Content
  <2>2. faults' \in 0..MaxFaults
    BY LocalFileAssumption DEF IInv, TypeOK, SaveFails
  <2> QED
    BY <1>1, <2>1, <2>2 DEF IInv, TypeOK, SaveFails, CloseReturns
<1>3. ProcessOK(p)'
  BY <1>1 DEF IInv, TypeOK, SessionState, SaveFails, CloseReturns, ProcessOK
<1>4. \A q \in Processes \ {p} : Untouched(q)
  BY <1>1 DEF IInv, TypeOK, SaveFails, CloseReturns, Untouched
<1> QED
  BY <1>2, <1>3, <1>4, QuietStep DEF SaveFails

\* The file that replaces another was synced and opens; what it drops is undone.
LEMMA RenameInv ==
  ASSUME IInv, NEW p \in Processes, Rename(p)
  PROVE  IInv'
<1> USE DEF At, Goto, userVars
<1>1. /\ session' \in [Processes -> SessionState]
      /\ session'[p] = [session[p] EXCEPT !.key = ZeroKey, !.ok = session[p].ok]
      /\ \A q \in Processes \ {p} : session'[q] = session[q]
  <2> DEFINE between == [session EXCEPT ![p].key = ZeroKey]
  <2>1. session' = [between EXCEPT ![p].ok = @ /\ TRUE]
    BY DEF Rename, CloseReturns
  <2>2. between \in [Processes -> SessionState]
    BY SessionType DEF IInv, TypeOK
  <2>3. between[p].ok = session[p].ok /\ session[p].ok \in BOOLEAN
    BY DEF IInv, TypeOK, SessionState
  <2>4. \A q \in Processes : session'[q] =
            IF q = p THEN [session[p] EXCEPT !.key = ZeroKey, !.ok = session[p].ok]
            ELSE session[q]
    BY <2>1, <2>3 DEF IInv, TypeOK
  <2>5. session' \in [Processes -> SessionState]
    <3> HIDE DEF between
    <3> QED
      BY <2>1, <2>2, <2>3, SessionType
  <2> QED
    BY <2>4, <2>5
<1>2. /\ temp[p] \in Content /\ ContentOK(temp[p])
      /\ found[p] \union made[p] \subseteq temp[p].edits
      /\ temp[p].edits \in SUBSET Edits
      /\ file' = temp[p] /\ medium' = medium \union {temp[p]}
  BY DEF IInv, TypeOK, ProcessOK, Rename, Content, ContentOK
<1>3. TypeOK'
  <2>1. temp' \in [Processes -> Content] /\ temp'[p] = NoFile
    BY DEF IInv, TypeOK, Rename, NoFile, Content
  <2>2. undone' \in SUBSET Edits
    BY DEF IInv, TypeOK, Rename, Content
  <2> QED
    BY <1>1, <1>2, <2>1, <2>2 DEF IInv, TypeOK, Rename, CloseReturns
<1>4. FileOK'
  BY <1>2 DEF IInv, FileOK, ContentOK, KeyOK, Rename
<1>5. Kept \subseteq Kept' /\ made[p] \subseteq Kept'
  BY <1>2 DEF Kept, OnServer, Rename
<1>6. ProcessOK(p)'
  BY <1>1, <1>5 DEF IInv, TypeOK, SessionState, Rename, CloseReturns, ProcessOK
<1>7. \A q \in Processes : ProcessOK(q)'
  <2>1. \A q \in Processes \ {p} : Untouched(q)
    BY <1>1 DEF IInv, TypeOK, Rename, CloseReturns, Untouched
  <2> QED
    BY <2>1, <1>5, <1>6, OtherProcess DEF IInv, Rename
<1>8. reported' \subseteq Kept'
  BY <1>5 DEF IInv, Rename
<1> QED
  BY <1>3, <1>4, <1>7, <1>8 DEF IInv

LEMMA ExitInv ==
  ASSUME IInv, NEW p \in Processes, Exit(p)
  PROVE  IInv'
<1> USE DEF At, fileVars
<1>1. Kept' = Kept /\ FileOK'
  BY DEF IInv, Exit, Kept, OnServer, FileOK, ContentOK, KeyOK
<1>2. reported' \subseteq Kept' /\ reported' \in SUBSET Edits
  BY <1>1 DEF IInv, Exit, TypeOK, ProcessOK
<1>3. TypeOK'
  <2>1. \A q \in Processes : pc'[q] \notin {"written", "synced"} => temp'[q] = NoFile
    BY QuitProcess DEF IInv, TypeOK, Exit
  <2> QED
    BY <1>2, <2>1, QuitProcess DEF IInv, TypeOK, Exit
<1>4. \A q \in Processes : ProcessOK(q)'
  <2>1. ProcessOK(p)'
    BY QuitProcess DEF IInv, Exit
  <2>2. \A q \in Processes \ {p} : Untouched(q)
    BY QuitProcess DEF IInv, Exit, Untouched
  <2> QED
    BY <1>1, <2>1, <2>2, OtherProcess DEF IInv, Exit
<1> QED
  BY <1>1, <1>2, <1>3, <1>4 DEF IInv

\* The second Close encrypts with the zeroed key, and nothing else goes wrong.
LEMMA QuitAgainInv ==
  ASSUME IInv, NEW p \in Processes, QuitAgain(p)
  PROVE  IInv'
<1> USE DEF At, Goto, fileVars
<1>1. /\ session' \in [Processes -> SessionState]
      /\ UNCHANGED <<session[p].account, session[p].fs, session[p].vault>>
      /\ \A q \in Processes \ {p} : session'[q] = session[q]
  <2>1. session' = [session EXCEPT ![p] = [session[p] EXCEPT !.ok = TRUE]]
    BY DEF QuitAgain
  <2>2. [session[p] EXCEPT !.ok = TRUE] \in SessionState
    BY SessionType DEF IInv, TypeOK
  <2>3. session[p] \in SessionState
    BY DEF IInv, TypeOK
  <2> QED
    BY <2>1, <2>2, <2>3 DEF IInv, TypeOK, SessionState
<1>0. faults' \in 0..MaxFaults /\ closedTwice' \in BOOLEAN
  <2>1. closedTwice' \in BOOLEAN
    BY Zenon DEF QuitAgain
  <2> QED
    BY <2>1, LocalFileAssumption DEF IInv, TypeOK, QuitAgain
<1>2. TypeOK'
  BY <1>0, <1>1 DEF IInv, TypeOK, QuitAgain
<1>3. closedTwice' /\ Kept' = Kept
  BY DEF QuitAgain, Kept, OnServer
<1>4. ProcessOK(p)'
  BY <1>1, <1>3 DEF IInv, TypeOK, QuitAgain, ProcessOK, KeyOK
<1>5. FileOK'
  BY <1>3 DEF IInv, QuitAgain, FileOK, ContentOK, KeyOK
<1>6. \A q \in Processes : ProcessOK(q)'
  <2>1. \A q \in Processes \ {p} : Untouched(q)
    BY <1>1 DEF IInv, TypeOK, QuitAgain, Untouched
  <2> QED
    BY <1>3, <1>4, <2>1, OtherProcess DEF IInv
<1>7. reported' \subseteq Kept'
  BY <1>3 DEF IInv, QuitAgain
<1> QED
  BY <1>2, <1>5, <1>6, <1>7 DEF IInv

-------------------------------------------------------------------------------
(* Synchronisation: the server and the store of the process only grow.      *)

LEMMA ExchangeGrows ==
  ASSUME IInv, NEW p \in Processes, pc[p] # "off", Exchange(p)
  PROVE  /\ server' \in [Accounts -> SUBSET Edits]
         /\ OnServer \subseteq OnServer'
         /\ store' \in [Processes -> [Stores -> SUBSET Edits]]
         /\ store[p][session[p].vault] \subseteq store'[p][session[p].vault]
         /\ \A q \in Processes \ {p} : store'[q] = store[q]
<1>1. session[p].vault \in Stores /\ session[p].account \in Accounts
  BY DEF IInv, TypeOK, SessionState, ProcessOK
<1>2. PICK sent \in SUBSET store[p][session[p].vault], pulled \in BOOLEAN :
          /\ server' = [server EXCEPT ![session[p].account] = @ \union sent]
          /\ store' = IF pulled
                      THEN [store EXCEPT ![p][session[p].vault] =
                                @ \union server[session[p].account]]
                      ELSE store
  BY DEF Exchange
<1>3. /\ server' \in [Accounts -> SUBSET Edits]
      /\ \A a \in Accounts : server[a] \subseteq server'[a]
  BY <1>1, <1>2 DEF IInv, TypeOK
<1>4. OnServer \subseteq OnServer'
  BY <1>3 DEF OnServer
<1>5. CASE pulled
  <2>1. store[p][session[p].vault] \union server[session[p].account] \in SUBSET Edits
    BY <1>1 DEF IInv, TypeOK
  <2>2. store' \in [Processes -> [Stores -> SUBSET Edits]]
    BY <1>1, <1>2, <1>5, <2>1, StoreType DEF IInv
  <2>3. store[p][session[p].vault] \subseteq store'[p][session[p].vault]
    BY <1>1, <1>2, <1>5 DEF IInv, TypeOK
  <2>4. \A q \in Processes \ {p} : store'[q] = store[q]
    BY <1>2, <1>5 DEF IInv, TypeOK
  <2> QED
    BY <1>3, <1>4, <2>2, <2>3, <2>4
<1>6. CASE ~pulled
  BY <1>2, <1>3, <1>4, <1>6 DEF IInv, TypeOK
<1> QED
  BY <1>5, <1>6

LEMMA ServerStep ==
  ASSUME IInv, NEW p \in Processes,
         UNCHANGED <<file, medium, undone, reported, closedTwice>>, OnServer \subseteq OnServer',
         \A q \in Processes \ {p} : Untouched(q),
         TypeOK', ProcessOK(p)'
  PROVE  IInv'
<1>1. Kept \subseteq Kept'
  BY DEF Kept
<1>2. FileOK'
  BY DEF IInv, FileOK, ContentOK, KeyOK
<1>3. \A q \in Processes : ProcessOK(q)'
  BY <1>1, OtherProcess DEF IInv
<1>4. reported' \subseteq Kept'
  BY <1>1 DEF IInv
<1> QED
  BY <1>2, <1>3, <1>4 DEF IInv

LEMMA ExplicitSyncInv ==
  ASSUME IInv, NEW p \in Processes, ExplicitSync(p)
  PROVE  IInv'
<1> USE DEF At, Goto, fileVars, userVars
<1>1. pc[p] # "off" /\ Exchange(p)
  BY DEF ExplicitSync
<1>2. TypeOK'
  BY <1>1, ExchangeGrows DEF IInv, TypeOK, ExplicitSync
<1>3. ProcessOK(p)'
  <2>1. pc[p] = "open" /\ pc'[p] = "close" /\ session[p].command = "sync"
    BY DEF IInv, TypeOK, ExplicitSync
  <2>2. UNCHANGED <<session[p], temp[p], syncing[p], found[p], made[p], closedTwice>>
    BY DEF ExplicitSync
  <2>3. found'[p] \union made'[p] \subseteq store'[p][session'[p].vault]
    BY <1>1, <2>1, <2>2, ExchangeGrows DEF IInv, ProcessOK
  <2> QED
    BY <2>1, <2>2, <2>3 DEF IInv, ProcessOK, KeyOK
<1>4. \A q \in Processes \ {p} : Untouched(q)
  BY <1>1, ExchangeGrows DEF IInv, TypeOK, Untouched, ExplicitSync
<1> QED
  BY <1>1, <1>2, <1>3, <1>4, ExchangeGrows, ServerStep DEF ExplicitSync

LEMMA SyncInBackgroundInv ==
  ASSUME IInv, NEW p \in Processes, SyncInBackground(p)
  PROVE  IInv'
<1> USE DEF fileVars, userVars
<1>1. pc[p] # "off" /\ Exchange(p)
  BY DEF IInv, SyncInBackground, ProcessOK
<1>2. TypeOK'
  BY <1>1, ExchangeGrows DEF IInv, TypeOK, SyncInBackground
<1>3. ProcessOK(p)'
  <2>1. made[p] \subseteq Kept => made'[p] \subseteq Kept'
    BY <1>1, ExchangeGrows DEF Kept, SyncInBackground
  <2> QED
    BY <1>1, <2>1, ExchangeGrows DEF IInv, TypeOK, ProcessOK, SyncInBackground, KeyOK
<1>4. \A q \in Processes \ {p} : Untouched(q)
  BY <1>1, ExchangeGrows DEF IInv, TypeOK, Untouched, SyncInBackground
<1> QED
  BY <1>1, <1>2, <1>3, <1>4, ExchangeGrows, ServerStep DEF SyncInBackground

LEMMA CloseSyncInv ==
  ASSUME IInv, NEW p \in Processes, CloseSync(p)
  PROVE  IInv'
<1> USE DEF At, Goto, fileVars, userVars
<1>1. pc[p] # "off" /\ Exchange(p)
  BY DEF CloseSync
<1>2. PICK ok \in BOOLEAN : session' = [session EXCEPT ![p].ok = ok]
  BY DEF CloseSync
<1>3. TypeOK'
  BY <1>1, <1>2, ExchangeGrows, SessionType DEF IInv, TypeOK, CloseSync
<1>4. ProcessOK(p)'
  BY <1>1, <1>2, ExchangeGrows DEF IInv, TypeOK, SessionState, ProcessOK, CloseSync, KeyOK
<1>5. \A q \in Processes \ {p} : Untouched(q)
  BY <1>1, <1>2, ExchangeGrows DEF IInv, TypeOK, Untouched, CloseSync
<1> QED
  BY <1>1, <1>3, <1>4, <1>5, ExchangeGrows, ServerStep DEF CloseSync

-------------------------------------------------------------------------------
(* The machine.                                                            *)

LEMMA SettleInv == IInv /\ Settle => IInv'
<1> SUFFICES ASSUME IInv, Settle PROVE IInv'
  OBVIOUS
<1>1. Kept' = Kept
  BY DEF Settle, Kept, OnServer
<1>2. TypeOK'
  BY DEF IInv, TypeOK, Settle, userVars
<1>3. FileOK'
  BY DEF IInv, FileOK, Settle, userVars, ContentOK, KeyOK
<1>4. \A p \in Processes : ProcessOK(p)'
  BY <1>1, OtherProcess DEF IInv, Settle, userVars, Untouched
<1> QED
  BY <1>1, <1>2, <1>3, <1>4 DEF IInv, Settle, userVars

\* Everything the medium may hold was synced, so nothing is torn.
LEMMA PowerFailureInv == IInv /\ PowerFailure => IInv'
<1> SUFFICES ASSUME IInv, PowerFailure PROVE IInv'
  OBVIOUS
<1>1. PICK left \in medium : file' = [left EXCEPT !.whole = left.whole /\ left.durable]
  BY DEF PowerFailure
<1>2. left \in Content /\ ContentOK(left)
  BY DEF IInv, TypeOK, FileOK
<1>3. file' = left
  BY <1>1, <1>2 DEF Content, ContentOK
<1>4. Kept \subseteq Kept'
  BY DEF PowerFailure, Kept, OnServer
<1>5. NoFile \in Content
  BY DEF NoFile, Content
<1>6. TypeOK'
  <2>1. faults' \in 0..MaxFaults
    BY LocalFileAssumption DEF IInv, TypeOK, PowerFailure
  <2>2. undone' \in SUBSET Edits
    BY DEF IInv, TypeOK, PowerFailure, Content
  <2> QED
    BY <1>2, <1>3, <1>5, <2>1, <2>2, NobodyType, NewStoresType DEF IInv, TypeOK, PowerFailure
<1>7. FileOK'
  BY <1>2, <1>3 DEF PowerFailure, FileOK, ContentOK, KeyOK
<1>8. \A p \in Processes : ProcessOK(p)'
  BY NobodyType DEF PowerFailure, ProcessOK
<1>9. reported' \subseteq Kept'
  BY <1>4 DEF IInv, PowerFailure
<1> QED
  BY <1>6, <1>7, <1>8, <1>9 DEF IInv

-------------------------------------------------------------------------------
(* The theorems.                                                           *)

LEMMA NextInv == IInv /\ [Next]_vars => IInv'
<1> SUFFICES ASSUME IInv, [Next]_vars PROVE IInv'
  OBVIOUS
<1>1. CASE UNCHANGED vars
  <2>1. UNCHANGED <<file, medium, temp, undone, edits, sessions, faults, reported,
                    closedTwice, server, registered, pc, session, store, syncing, found, made>>
    BY <1>1 DEF vars, fileVars, userVars
  <2>2. TypeOK'
    BY <2>1 DEF IInv, TypeOK
  <2>3. FileOK'
    BY <2>1 DEF IInv, FileOK, ContentOK, KeyOK
  <2>4. Kept' = Kept
    BY <2>1 DEF Kept, OnServer
  <2>5. \A p \in Processes : ProcessOK(p)'
    BY <2>1, <2>4, OtherProcess DEF IInv, Untouched
  <2> QED
    BY <2>1, <2>2, <2>3, <2>4, <2>5 DEF IInv
<1>2. ASSUME NEW p \in Processes, NEW command \in Commands, NEW account \in Accounts,
             Start(p, command, account)
      PROVE  IInv'
  BY <1>2, StartInv
<1>3. ASSUME NEW p \in Processes, Register(p) \/ Login(p) \/ Load(p) \/ Fails(p)
      PROVE  IInv'
  BY <1>3, RegisterInv, LoginInv, LoadInv, FailsInv
<1>4. ASSUME NEW p \in Processes,
             Edit(p) \/ ExplicitSync(p) \/ StartSync(p) \/ SyncInBackground(p)
      PROVE  IInv'
  BY <1>4, EditInv, ExplicitSyncInv, StartSyncInv, SyncInBackgroundInv
<1>5. ASSUME NEW p \in Processes,
             BeginClose(p) \/ CloseSync(p) \/ WriteTemp(p) \/ Fsync(p) \/ Rename(p)
      PROVE  IInv'
  BY <1>5, BeginCloseInv, CloseSyncInv, WriteTempInv, FsyncInv, RenameInv
<1>6. ASSUME NEW p \in Processes, SaveFails(p) \/ Exit(p) \/ QuitAgain(p) \/ Kill(p)
      PROVE  IInv'
  BY <1>6, SaveFailsInv, ExitInv, QuitAgainInv, KillInv
<1> QED
  BY <1>1, <1>2, <1>3, <1>4, <1>5, <1>6, SettleInv, PowerFailureInv DEF Next

\* The invariant holds of every execution.
THEOREM InvHolds == Spec => []IInv
<1>1. IInv /\ [Next]_vars => IInv'
  BY NextInv
<1> QED
  BY <1>1, InitInv, PTL DEF Spec

\* Variables have their types, and no Save that ended leaves a temporary file.
THEOREM TypeIsOK == Spec => []TypeOK
<1>1. IInv => TypeOK
  BY DEF IInv
<1> QED
  BY <1>1, InvHolds, PTL

\* Crashes, power failures, failed saves and other processes leave a file that is
\* whole and opens with the key of an account; only a second Close of one session
\* leaves one that nobody opens (FileStore.Save, Session.Close).
THEOREM FileAlwaysOpens == Spec => []OpensUnlessClosedTwice
<1>1. IInv => OpensUnlessClosedTwice
  BY DEF IInv, FileOK, ContentOK, KeyOK, FileOpens, OpensUnlessClosedTwice
<1> QED
  BY <1>1, InvHolds, PTL

\* An edit reported as saved is on the server or in the file, unless a program that
\* had not loaded it or a power failure took it back (Session.Close).
THEOREM ReportedEditsAreKept == Spec => []ReportedEditsKept
<1>1. IInv => ReportedEditsKept
  BY DEF IInv, Kept, ReportedEditsKept
<1> QED
  BY <1>1, InvHolds, PTL

===============================================================================
