------------------------ MODULE ChatHistory_proofs ------------------------
(***************************************************************************)
(* Theorems about ChatHistory, for any number of locations, passwords,     *)
(* messages, crashes and failing writes.                                   *)
(***************************************************************************)
EXTENDS ChatHistory, TLAPS

USE HistoryAssumption

\* A key is held by an open history, and the dialog is done.
Closed == sealingKey # None => up /\ mode = "open" /\ pending = "none"

\* A process that is not up holds nothing.
Asleep == ~up => writing.op = "none" /\ mode = "loading" /\ pending = "none"

\* During a write there is no history at the path; flush and clear seal with the
\* present key.
Truncated ==
    writing.op # "none" =>
        /\ file[filePath].kind = "headless"
        /\ pending = "none" /\ writing.key \in Passwords
        /\ writing.op # "create" => writing.key = sealingKey

\* The modes in which the user looks at one location and may choose another.
ChangeModes == {"change_path", "change_path_unlock", "change_path_create"}

\* Where the dialog is about to create a history, or may return to the question
\* whether to, there is none.
AboutToCreate ==
    \/ pending = "create"
    \/ mode = "create_new"
    \/ mode \in ChangeModes /\ previous = "create_new"

NothingThere ==
    /\ mode = "first_run" => file[resolve_chat_history_path(config)].kind # "sealed"
    /\ ~strayed /\ AboutToCreate => file[filePath].kind # "sealed"

\* It speaks of the file that the next command acts on.
Named ==
    /\ ~strayed /\ mode \in {"unlock", "create_new", "delete_confirm"} \cup ChangeModes =>
         shown = filePath
    /\ mode = "delete_confirm" => previous = "unlock"

\* What the interface holds outside an open history (nothing), and what the backend's
\* archive holds while no save raced with clearAllHistory: what the last save
\* carried; nothing once the clear command has run.
Saved ==
    /\ mode = "open" => sealingKey # None
    /\ mode # "open" => store = {} /\ ~timer /\ inFlight = None /\ clearing = "no"
    /\ writing.op = "create" => mode # "open"
    /\ writing.op = "clear" => clearing = "running"
    /\ ~raced /\ clearing # "no" => inFlight = None
    /\ ~raced /\ clearing \in {"running", "returned"} => archive = {}
    /\ ~raced /\ mode = "open" /\ ~timer /\ clearing = "no" /\ inFlight # None => inFlight = store
    /\ ArchiveIsStore

IInv == TypeOK /\ OpenIsOnDisk /\ Closed /\ Asleep /\ Truncated /\ NothingThere /\ Named

----------------------------------------------------------------------------
\* What a file may hold.
LEMMA ContentsType ==
    /\ Absent \in Contents /\ Absent.kind = "absent"
    /\ Headless \in Contents /\ Headless.kind = "headless"
    /\ Torn \in Contents /\ Torn.kind = "torn"
BY DEF Contents, Absent, Headless, Torn

LEMMA SealedType ==
    ASSUME NEW pw \in Passwords, NEW msgs \in SUBSET Messages
    PROVE  /\ Sealed(pw, msgs) \in Contents /\ Sealed(pw, msgs).kind = "sealed"
           /\ Sealed(pw, msgs).key = pw /\ Sealed(pw, msgs).msgs = msgs
BY DEF Contents, Histories, Sealed

LEMMA HistoryType ==
    ASSUME NEW f \in Contents, f.kind = "sealed"
    PROVE  f.key \in Passwords /\ f.msgs \in SUBSET Messages
BY DEF Contents, Histories, Sealed, Absent, Headless, Torn

LEMMA Resolved ==
    ASSUME NEW c \in Paths \cup {None}
    PROVE  resolve_chat_history_path(c) \in Paths
BY DEF resolve_chat_history_path

LEMMA IInvInit == Init => IInv
<1> SUFFICES ASSUME Init PROVE IInv OBVIOUS
<1>1. TypeOK
  <2>1. file \in [Paths -> Contents]
    <3>1. 0 \in Messages BY DEF Messages
    <3>2. \A pw \in Passwords : Sealed(pw, {0}) \in Contents BY <3>1, SealedType
    <3> QED BY <3>2, ContentsType DEF Init
  <2>2. /\ dirty \in BOOLEAN /\ up \in BOOLEAN /\ timer \in BOOLEAN
        /\ strayed \in BOOLEAN /\ broken \in BOOLEAN /\ raced \in BOOLEAN
    BY DEF Init
  <2>3. writing \in Writes BY DEF Init, NoWrite, Writes
  <2>4. arrived \in 0..MaxMessages /\ stops \in 0..MaxStops /\ failures \in 0..MaxFailures
    BY DEF Init
  <2>5. /\ filePath \in Paths /\ sealingKey \in Passwords \cup {None} /\ archive \in SUBSET Messages
        /\ shown \in Paths /\ selected \in Paths /\ pending \in {"none", "create", "unlock"}
        /\ store \in SUBSET Messages /\ inFlight \in (SUBSET Messages) \cup {None}
    BY DEF Init
  <2> QED BY <2>1, <2>2, <2>3, <2>4, <2>5 DEF Init, TypeOK, Modes
<1>2. OpenIsOnDisk /\ Closed /\ Asleep /\ Truncated /\ NothingThere /\ Named
  BY DEF Init, OpenIsOnDisk, Closed, Asleep, Truncated, NothingThere, AboutToCreate, Named,
         ChangeModes, NoWrite
<1> QED BY <1>1, <1>2 DEF IInv

----------------------------------------------------------------------------
\* The process starts, and ends.
LEMMA ForgetStep ==
    ASSUME IInv, Forget, file' \in [Paths -> Contents], UNCHANGED config,
           stops' \in 0..MaxStops, UNCHANGED <<arrived, failures>>
    PROVE  IInv'
<1>1. TypeOK'
  <2>1. /\ dirty' \in BOOLEAN /\ up' \in BOOLEAN /\ timer' \in BOOLEAN
        /\ strayed' \in BOOLEAN /\ broken' \in BOOLEAN /\ raced' \in BOOLEAN
    BY DEF Forget
  <2>2. writing' \in Writes BY DEF Forget, NoWrite, Writes
  <2>3. /\ filePath' \in Paths /\ sealingKey' \in Passwords \cup {None}
        /\ archive' \in SUBSET Messages /\ shown' \in Paths /\ selected' \in Paths
        /\ pending' \in {"none", "create", "unlock"}
        /\ store' \in SUBSET Messages /\ inFlight' \in (SUBSET Messages) \cup {None}
    BY DEF Forget
  <2>4. /\ mode' \in Modes /\ previous' \in {"unlock", "create_new"}
        /\ clearing' \in {"no", "invoked", "running", "returned"}
    BY DEF Forget, Modes
  <2> QED BY <2>1, <2>2, <2>3, <2>4 DEF IInv, TypeOK
<1>2. (OpenIsOnDisk /\ Closed /\ Asleep /\ Truncated /\ NothingThere /\ Named)'
  BY DEF Forget, OpenIsOnDisk, Closed, Asleep, Truncated, NothingThere, AboutToCreate, Named,
         ChangeModes, NoWrite
<1> QED BY <1>1, <1>2 DEF IInv

LEMMA LifeStep ==
    ASSUME IInv, Start \/ Quit \/ Crash
    PROVE  IInv'
<1> USE DEF IInv
<1>1. CASE Start
  <2>1. config' \in Paths \cup {None} BY <1>1 DEF Start, TypeOK
  <2>2. filePath' \in Paths BY <1>1, <2>1, Resolved DEF Start
  <2>3. up' \in BOOLEAN BY <1>1 DEF Start
  <2>4. TypeOK' BY <1>1, <2>1, <2>2, <2>3
    DEF Start, TypeOK, dialog, chats, bounds, ghosts
  <2>5. ~up /\ mode = "loading" /\ pending = "none" /\ writing.op = "none" /\ sealingKey = None
    BY <1>1 DEF Start, Asleep, Closed
  <2>6. UNCHANGED <<mode, pending, writing, sealingKey>> /\ up' BY <1>1 DEF Start, dialog
  <2>7. (OpenIsOnDisk /\ Closed /\ Asleep /\ Truncated /\ NothingThere /\ Named)'
    BY <2>5, <2>6
    DEF OpenIsOnDisk, Closed, Asleep, Truncated, NothingThere, AboutToCreate, Named, ChangeModes
  <2> QED BY <2>4, <2>7
<1>2. CASE Quit
  BY <1>2, ForgetStep DEF Quit, TypeOK, disk
<1>3. CASE Crash
  <2>1. file' \in [Paths -> Contents] BY <1>3, ContentsType DEF Crash, TypeOK
  <2>2. stops' \in 0..MaxStops BY <1>3 DEF Crash, TypeOK
  <2> QED BY <1>3, <2>1, <2>2, ForgetStep DEF Crash
<1> QED BY <1>1, <1>2, <1>3

\* The end of a write.
LEMMA WriteStep ==
    ASSUME IInv, EndWrite \/ WriteFails
    PROVE  IInv'
<1> USE DEF IInv
<1>1. NoWrite \in Writes /\ NoWrite.op = "none" BY DEF NoWrite, Writes
<1>2. CASE EndWrite
  <2> DEFINE msgs == IF writing.op = "create" THEN {} ELSE archive
  <2>1. /\ writing.op # "none" /\ up /\ writing.key \in Passwords /\ filePath \in Paths
        /\ pending = "none"
    BY <1>2 DEF EndWrite, Asleep, Truncated, TypeOK
  <2>2. msgs \in SUBSET Messages BY DEF TypeOK
  <2>3. Written = Sealed(writing.key, msgs) BY DEF Written
  <2>4. /\ Written \in Contents /\ Written.kind = "sealed" /\ Written.key = writing.key
        /\ Written.msgs \in SUBSET Messages
    BY <2>1, <2>2, <2>3, SealedType
  <2>5. file' = [file EXCEPT ![filePath] = Written] /\ filePath' = filePath BY <1>2 DEF EndWrite
  <2>6. file' \in [Paths -> Contents] BY <2>4, <2>5 DEF TypeOK
  <2>7. file'[filePath'] = Written BY <2>1, <2>5 DEF TypeOK
  <2>8. mode' = "open"
    BY <1>2, <2>1 DEF EndWrite, Truncated, Closed, TypeOK
  <2>9. TypeOK'
    <3>1. dirty' \in BOOLEAN /\ strayed' \in BOOLEAN /\ broken' \in BOOLEAN BY <1>2 DEF EndWrite
    <3>2. /\ mode' \in Modes /\ archive' \in SUBSET Messages
          /\ sealingKey' \in Passwords \cup {None}
      BY <1>2, <2>1, <2>4, <2>8 DEF EndWrite, Modes
    <3>3. clearing' \in {"no", "invoked", "running", "returned"} BY <1>2 DEF EndWrite, TypeOK
    <3> QED BY <1>1, <1>2, <2>6, <3>1, <3>2, <3>3 DEF EndWrite, TypeOK, bounds
  <2>10. OpenIsOnDisk' BY <1>2, <2>4, <2>7 DEF EndWrite, OpenIsOnDisk
  <2>11. Closed' /\ Asleep' /\ Truncated'
    BY <1>1, <1>2, <2>1, <2>8 DEF EndWrite, Closed, Asleep, Truncated
  <2>12. NothingThere' /\ Named'
    BY <1>2, <2>1, <2>8 DEF EndWrite, NothingThere, AboutToCreate, Named, ChangeModes
  <2> QED BY <2>9, <2>10, <2>11, <2>12
<1>3. CASE WriteFails
  <2>1. PICK rest \in {Headless, Torn} : file' = [file EXCEPT ![filePath] = rest]
    BY <1>3 DEF WriteFails
  <2>2. rest \in Contents /\ rest.kind # "sealed" BY <2>1, ContentsType
  <2>3. file' \in [Paths -> Contents] BY <2>1, <2>2 DEF TypeOK
  <2>4. /\ UNCHANGED <<config, up, filePath, sealingKey, mode, previous, shown, selected, pending,
                      strayed>>
        /\ broken' /\ writing' = NoWrite /\ up
    BY <1>3 DEF WriteFails, dialog, Asleep
  <2>5. TypeOK'
    <3>1. dirty' \in BOOLEAN /\ broken' \in BOOLEAN BY <1>3 DEF WriteFails, AfterFailure, TypeOK
    <3>2. failures' \in 0..MaxFailures BY <1>3 DEF WriteFails, TypeOK
    <3>3. clearing' \in {"no", "invoked", "running", "returned"} BY <1>3 DEF WriteFails, TypeOK
    <3> QED BY <1>1, <1>3, <2>3, <3>1, <3>2, <3>3 DEF WriteFails, TypeOK, dialog
  <2>6. \A p \in Paths : file'[p].kind = "sealed" => file[p].kind = "sealed"
    BY <2>1, <2>2 DEF TypeOK
  <2>7. NothingThere'
    BY <2>4, <2>6, Resolved DEF NothingThere, AboutToCreate, TypeOK, resolve_chat_history_path
  <2>8. (OpenIsOnDisk /\ Closed /\ Asleep /\ Truncated /\ Named)'
    BY <1>1, <2>4 DEF OpenIsOnDisk, Closed, Asleep, Truncated, Named
  <2> QED BY <2>5, <2>7, <2>8
<1> QED BY <1>2, <1>3

----------------------------------------------------------------------------
\* The dialog.
LEMMA DialogStep ==
    ASSUME IInv,
           \/ LoadStatus \/ FirstRunDefault \/ Navigate \/ ChangePath \/ Delete
           \/ \E dir \in Paths : FirstRunChosen(dir) \/ BrowseChangePath(dir)
    PROVE  IInv'
<1> USE DEF IInv
<1> DEFINE resolved == resolve_chat_history_path(config)
<1>1. mode # "open" => sealingKey = None BY DEF Closed
<1>2. resolved \in Paths BY Resolved DEF TypeOK
<1>3. CASE LoadStatus
  <2>1. /\ up /\ mode = "loading" /\ pending = "none" /\ writing.op = "none"
        /\ sealingKey = None
    BY <1>1, <1>3 DEF LoadStatus, InDialog, Ready
  <2>2. /\ UNCHANGED <<file, config, up, sealingKey, writing, previous, pending>>
        /\ filePath' = resolved /\ shown' = resolved /\ ~strayed'
    BY <1>3 DEF LoadStatus, disk
  <2>3. /\ mode' \in {"unlock", "first_run", "create_new"}
        /\ mode' # "unlock" => file[resolved].kind # "sealed"
    BY <1>3, <2>2 DEF LoadStatus, has_valid_header
  <2>4. TypeOK'
    <3>1. strayed' \in BOOLEAN BY <1>3 DEF LoadStatus
    <3> QED BY <1>2, <1>3, <2>2, <2>3, <3>1 DEF LoadStatus, TypeOK, Modes, disk, chats, bounds
  <2>5. (OpenIsOnDisk /\ Closed /\ Asleep /\ Truncated)'
    BY <2>1, <2>2 DEF OpenIsOnDisk, Closed, Asleep, Truncated
  <2>6. (NothingThere /\ Named)'
    BY <2>1, <2>2, <2>3 DEF NothingThere, AboutToCreate, Named, ChangeModes,
                            resolve_chat_history_path
  <2> QED BY <2>4, <2>5, <2>6
<1>4. ASSUME NEW dir \in Paths, set_chat_history_path(dir), InDialog("first_run"),
             UNCHANGED <<previous, selected, chats, bounds, ghosts>>,
             \/ mode' = "unlock" /\ shown' = dir /\ UNCHANGED pending
             \/ /\ file[dir].kind # "sealed"
                /\ pending' = "create" /\ UNCHANGED <<mode, shown>>
      PROVE  IInv'
  <2>1. /\ up /\ mode = "first_run" /\ pending = "none" /\ writing.op = "none"
        /\ sealingKey = None
    BY <1>1, <1>4 DEF InDialog, Ready
  <2>2. /\ UNCHANGED <<file, up, sealingKey, archive, dirty, writing>>
        /\ filePath' = dir /\ config' = dir
    BY <1>4 DEF set_chat_history_path
  <2>3. dir # None /\ resolve_chat_history_path(config') = dir
    BY <2>2 DEF resolve_chat_history_path
  <2>4. TypeOK'
    <3>1. /\ mode' \in Modes /\ shown' \in Paths /\ pending' \in {"none", "create", "unlock"}
      BY <1>4 DEF TypeOK, Modes
    <3> QED BY <1>4, <2>2, <3>1 DEF TypeOK, chats, bounds, ghosts
  <2>5. (OpenIsOnDisk /\ Closed /\ Asleep /\ Truncated)'
    BY <2>1, <2>2 DEF OpenIsOnDisk, Closed, Asleep, Truncated
  <2>6. (NothingThere /\ Named)'
    BY <1>4, <2>1, <2>2, <2>3 DEF NothingThere, AboutToCreate, Named, ChangeModes, ghosts
  <2> QED BY <2>4, <2>5, <2>6
<1>5. ASSUME NEW dir \in Paths, FirstRunChosen(dir) PROVE IInv'
  BY <1>4, <1>5 DEF FirstRunChosen, holds_history, has_valid_header
<1>6. CASE FirstRunDefault
  <2>1. file[resolved].kind # "sealed" BY <1>6 DEF FirstRunDefault, InDialog, NothingThere
  <2> QED BY <1>2, <1>4, <1>6, <2>1 DEF FirstRunDefault
<1>7. CASE Navigate
  <2>1. /\ up /\ pending = "none" /\ writing.op = "none"
        /\ UNCHANGED <<file, config, up, filePath, sealingKey, archive, dirty, writing, shown,
                      selected, pending, strayed>>
        /\ mode # "open"
    BY <1>7 DEF Navigate, disk, chat, ghosts
  <2>2. /\ mode' \in Modes /\ previous' \in {"unlock", "create_new"}
    BY <1>7 DEF Navigate, TypeOK, Modes
  <2>3. TypeOK' BY <1>7, <2>1, <2>2 DEF Navigate, TypeOK, chats, bounds, ghosts
  <2>4. (OpenIsOnDisk /\ Closed /\ Asleep /\ Truncated)'
    BY <1>1, <2>1 DEF OpenIsOnDisk, Closed, Asleep, Truncated
  <2>5. NothingThere'
    BY <1>7, <2>1 DEF Navigate, NothingThere, AboutToCreate, Named, ChangeModes, TypeOK
  <2>6. Named' BY <1>7, <2>1 DEF Navigate, Named, ChangeModes, TypeOK
  <2> QED BY <2>3, <2>4, <2>5, <2>6
<1>8. ASSUME NEW dir \in Paths, BrowseChangePath(dir) PROVE IInv'
  <2>1. /\ up /\ mode = "change_path" /\ pending = "none" /\ writing.op = "none"
        /\ UNCHANGED <<file, config, up, filePath, sealingKey, archive, dirty, writing, shown,
                      previous, pending, strayed>>
        /\ mode' \in {"change_path_unlock", "change_path_create"} /\ selected' = dir
    BY <1>8 DEF BrowseChangePath, InDialog, Ready, disk, chat, ghosts
  <2>2. TypeOK'
    <3>1. mode' \in Modes BY <2>1 DEF Modes
    <3> QED BY <1>8, <2>1, <3>1 DEF BrowseChangePath, TypeOK, chats, bounds, ghosts
  <2>3. (OpenIsOnDisk /\ Closed /\ Asleep /\ Truncated)'
    BY <1>1, <2>1 DEF OpenIsOnDisk, Closed, Asleep, Truncated
  <2>4. (NothingThere /\ Named)' BY <2>1 DEF NothingThere, AboutToCreate, Named, ChangeModes
  <2> QED BY <2>2, <2>3, <2>4
<1>9. CASE ChangePath
  <2>1. /\ up /\ mode \in {"change_path_unlock", "change_path_create"} /\ writing.op = "none"
        /\ UNCHANGED <<file, up, sealingKey, archive, dirty, writing, mode, previous, shown,
                      selected>>
        /\ strayed' /\ config' = selected /\ filePath' = selected
    BY <1>9 DEF ChangePath, InDialog, Ready, set_chat_history_path
  <2>2. TypeOK'
    <3>1. strayed' \in BOOLEAN BY <1>9 DEF ChangePath
    <3>2. pending' \in {"none", "create", "unlock"} BY <1>9 DEF ChangePath
    <3> QED BY <1>9, <2>1, <3>1, <3>2 DEF ChangePath, TypeOK, chats, bounds
  <2>3. (OpenIsOnDisk /\ Closed /\ Asleep /\ Truncated /\ NothingThere /\ Named)'
    BY <1>1, <2>1 DEF OpenIsOnDisk, Closed, Asleep, Truncated, NothingThere, Named
  <2> QED BY <2>2, <2>3
<1>10. CASE Delete
  <2>1. /\ up /\ pending = "none" /\ writing.op = "none"
        /\ UNCHANGED <<up, filePath, writing, pending>>
        /\ mode' = "loading" /\ sealingKey' = None /\ config' = None
        /\ file' = [file EXCEPT ![filePath] = Absent]
    BY <1>10 DEF Delete, InDialog, Ready
  <2>2. TypeOK'
    <3>1. file' \in [Paths -> Contents] BY <2>1, ContentsType DEF TypeOK
    <3>2. dirty' \in BOOLEAN /\ mode' \in Modes BY <1>10 DEF Delete, Modes
    <3> QED BY <1>10, <2>1, <3>1, <3>2 DEF Delete, TypeOK, chats, bounds, ghosts
  <2>3. (OpenIsOnDisk /\ Closed /\ Asleep /\ Truncated /\ NothingThere /\ Named)'
    BY <2>1 DEF OpenIsOnDisk, Closed, Asleep, Truncated, NothingThere, AboutToCreate, Named,
                ChangeModes
  <2> QED BY <2>2, <2>3
<1> QED BY <1>3, <1>5, <1>6, <1>7, <1>8, <1>9, <1>10

\* The file is truncated.
LEMMA BeginStep ==
    ASSUME IInv, up, writing.op = "none", NEW op \in {"create", "flush", "clear"},
           NEW pw \in Passwords, BeginWrite(op, pw), pending' = "none",
           op # "create" => pw = sealingKey,
           UNCHANGED <<config, up, filePath, sealingKey, dirty, mode, previous, shown, selected,
                       strayed>>
    PROVE  /\ file' \in [Paths -> Contents] /\ writing' \in Writes
           /\ (OpenIsOnDisk /\ Closed /\ Asleep /\ Truncated /\ NothingThere /\ Named)'
<1> USE DEF IInv
<1>1. /\ writing' = [op |-> op, key |-> pw] /\ file' = [file EXCEPT ![filePath] = Headless]
  BY DEF BeginWrite
<1>2. file' \in [Paths -> Contents] /\ writing' \in Writes
  BY <1>1, ContentsType DEF TypeOK, Writes
<1>3. \A p \in Paths : file'[p].kind = "sealed" => file[p].kind = "sealed"
  BY <1>1, ContentsType DEF TypeOK
<1>4. NothingThere'
  BY <1>3, Resolved DEF NothingThere, AboutToCreate, TypeOK, resolve_chat_history_path
<1>5. Truncated' BY <1>1, ContentsType DEF Truncated, TypeOK
<1>6. (OpenIsOnDisk /\ Closed /\ Asleep /\ Named)'
  BY <1>1 DEF OpenIsOnDisk, Closed, Asleep, Named
<1> QED BY <1>2, <1>4, <1>5, <1>6

LEMMA OpeningStep ==
    ASSUME IInv, NEW pw \in Passwords, Create(pw) \/ Unlock(pw)
    PROVE  IInv'
<1> USE DEF IInv
<1>1. CASE Create(pw)
  <2>1. up /\ writing.op = "none" BY <1>1 DEF Create, Ready
  <2>2. /\ file' \in [Paths -> Contents] /\ writing' \in Writes
        /\ (OpenIsOnDisk /\ Closed /\ Asleep /\ Truncated /\ NothingThere /\ Named)'
    BY <1>1, <2>1, BeginStep DEF Create, chat, ghosts
  <2>3. TypeOK' BY <1>1, <2>2 DEF Create, TypeOK, chat, chats, bounds, ghosts
  <2> QED BY <2>2, <2>3
<1>2. CASE Unlock(pw)
  <2> DEFINE f == file[filePath]
  <2>1. /\ up /\ writing.op = "none" /\ pending' = "none"
        /\ UNCHANGED <<file, config, up, filePath, writing, previous, shown, broken>>
    BY <1>2 DEF Unlock, Ready, InDialog, disk
  <2>2. CASE f.kind = "sealed" /\ f.key = pw
    <3>1. f.msgs \in SUBSET Messages BY <2>2, HistoryType DEF TypeOK
    <3>2. /\ archive' = f.msgs /\ store' = f.msgs /\ sealingKey' = pw /\ dirty' = FALSE
          /\ mode' = "open" /\ strayed' = FALSE
      BY <1>2, <2>2 DEF Unlock
    <3>3. mode' \in Modes /\ dirty' \in BOOLEAN /\ strayed' \in BOOLEAN
      BY <3>2 DEF Modes
    <3>4. TypeOK' BY <1>2, <2>1, <3>1, <3>2, <3>3 DEF Unlock, TypeOK, bounds
    <3>5. (OpenIsOnDisk /\ Closed /\ Asleep /\ Truncated)'
      BY <2>1, <2>2, <3>2 DEF OpenIsOnDisk, Closed, Asleep, Truncated
    <3>6. (NothingThere /\ Named)'
      BY <2>1, <3>2 DEF NothingThere, AboutToCreate, Named, ChangeModes
    <3> QED BY <3>4, <3>5, <3>6
  <2>3. CASE ~(f.kind = "sealed" /\ f.key = pw)
    <3>1. UNCHANGED <<archive, store, sealingKey, dirty, mode, strayed>>
      BY <1>2, <2>3 DEF Unlock
    <3>2. TypeOK' BY <1>2, <2>1, <3>1 DEF Unlock, TypeOK, bounds
    <3>3. (OpenIsOnDisk /\ Closed /\ Asleep /\ Truncated)'
      BY <2>1, <3>1 DEF OpenIsOnDisk, Closed, Asleep, Truncated
    <3>4. (NothingThere /\ Named)'
      BY <2>1, <3>1 DEF NothingThere, AboutToCreate, Named, ChangeModes
    <3> QED BY <3>2, <3>3, <3>4
  <2> QED BY <2>2, <2>3
<1> QED BY <1>1, <1>2

----------------------------------------------------------------------------
\* The open history.
LEMMA OpenStep ==
    ASSUME IInv,
           \/ Arrives \/ Drop \/ TimerFires \/ Save \/ Flush
           \/ ClearAll \/ ClearRuns \/ ClearReturns \/ ResetConfig
    PROVE  IInv'
<1> USE DEF IInv
<1>1. ASSUME UNCHANGED <<file, up, filePath, sealingKey, writing, mode, previous, shown, pending,
                         strayed, broken>>,
             \/ UNCHANGED <<archive, dirty>>
             \/ dirty'
             \/ sealingKey = None,
             config' = config \/ mode = "open"
      PROVE  (OpenIsOnDisk /\ Closed /\ Asleep /\ Truncated /\ NothingThere /\ Named)'
  BY <1>1 DEF OpenIsOnDisk, Closed, Asleep, Truncated, NothingThere, AboutToCreate, Named,
              ChangeModes
<1>2. CASE Arrives
  <2>1. /\ arrived' \in 0..MaxMessages /\ store' \in SUBSET Messages /\ timer' \in BOOLEAN
    <3>1. arrived' \in 0..MaxMessages BY <1>2 DEF Arrives, TypeOK
    <3>2. store' = store \cup {arrived'} /\ timer' = TRUE BY <1>2 DEF Arrives, scheduleSave
    <3> QED BY <3>1, <3>2 DEF TypeOK, Messages
  <2>2. TypeOK' BY <1>2, <2>1 DEF Arrives, TypeOK, disk, chat, dialog, ghosts
  <2> QED BY <1>1, <1>2, <2>2 DEF Arrives, disk, chat, dialog, ghosts
<1>3. CASE Drop
  <2>1. store' \in SUBSET Messages /\ timer' \in BOOLEAN
    BY <1>3 DEF Drop, scheduleSave, TypeOK
  <2>2. TypeOK' BY <1>3, <2>1 DEF Drop, TypeOK, disk, chat, dialog, bounds, ghosts
  <2> QED BY <1>1, <1>3, <2>2 DEF Drop, disk, chat, dialog, ghosts
<1>4. CASE TimerFires
  <2>1. timer' \in BOOLEAN /\ raced' \in BOOLEAN BY <1>4 DEF TimerFires, TypeOK
  <2>2. TypeOK' BY <1>4, <2>1 DEF TimerFires, TypeOK, disk, chat, dialog, bounds
  <2> QED BY <1>1, <1>4, <2>2 DEF TimerFires, disk, chat, dialog
<1>5. CASE Save
  <2>1. dirty' \in BOOLEAN /\ raced' \in BOOLEAN BY <1>5 DEF Save, TypeOK
  <2>2. archive' \in SUBSET Messages
    <3>1. inFlight \in SUBSET Messages BY <1>5 DEF Save, TypeOK
    <3> QED BY <1>5, <3>1 DEF Save, TypeOK
  <2>3. TypeOK' BY <1>5, <2>1, <2>2 DEF Save, TypeOK, disk, dialog, bounds
  <2>4. dirty' \/ UNCHANGED <<archive, dirty>> BY <1>5 DEF Save
  <2> QED BY <1>1, <1>5, <2>3, <2>4 DEF Save, disk, dialog
<1>6. CASE Flush
  <2>1. /\ up /\ writing.op = "none" /\ sealingKey \in Passwords BY <1>6 DEF Flush, Ready, TypeOK
  <2>2. pending = "none" BY <2>1 DEF Closed
  <2>3. /\ file' \in [Paths -> Contents] /\ writing' \in Writes
        /\ (OpenIsOnDisk /\ Closed /\ Asleep /\ Truncated /\ NothingThere /\ Named)'
    BY <1>6, <2>1, <2>2, BeginStep DEF Flush, chat, dialog, ghosts
  <2>4. TypeOK' BY <1>6, <2>3 DEF Flush, TypeOK, chat, dialog, chats, bounds, ghosts
  <2> QED BY <2>3, <2>4
<1>7. CASE ClearAll
  <2>1. raced' \in BOOLEAN BY <1>7 DEF ClearAll, TypeOK
  <2>2. TypeOK' BY <1>7, <2>1 DEF ClearAll, TypeOK, disk, chat, dialog, bounds
  <2> QED BY <1>1, <1>7, <2>2 DEF ClearAll, disk, chat, dialog
<1>8. CASE ClearRuns
  <2>1. up /\ writing.op = "none" BY <1>8 DEF ClearRuns, Ready
  <2>2. CASE sealingKey # None
    <3>1. pending = "none" /\ sealingKey \in Passwords BY <2>1, <2>2 DEF Closed, TypeOK
    <3>2. /\ BeginWrite("clear", sealingKey) /\ clearing' = "running" /\ archive' = {}
          /\ UNCHANGED <<dirty, config, up, filePath, sealingKey, dialog, store, timer, inFlight,
                        bounds, ghosts>>
      BY <1>8, <2>2 DEF ClearRuns, ClearWrites
    <3>3. /\ file' \in [Paths -> Contents] /\ writing' \in Writes
          /\ (OpenIsOnDisk /\ Closed /\ Asleep /\ Truncated /\ NothingThere /\ Named)'
      BY <2>1, <3>1, <3>2, BeginStep DEF dialog, ghosts
    <3>4. TypeOK' BY <3>2, <3>3 DEF TypeOK, dialog, bounds, ghosts
    <3> QED BY <3>3, <3>4
  <2>3. CASE sealingKey = None
    <3>1. /\ clearing' = "returned" /\ archive' = {} /\ dirty' = FALSE
          /\ UNCHANGED <<file, writing, config, up, filePath, sealingKey, dialog, store, timer,
                        inFlight, bounds, ghosts>>
      BY <1>8, <2>3 DEF ClearRuns, ClearWrites
    <3>2. archive' \in SUBSET Messages /\ dirty' \in BOOLEAN
          /\ clearing' \in {"no", "invoked", "running", "returned"}
      BY <3>1
    <3>3. TypeOK' BY <3>1, <3>2 DEF TypeOK, dialog, bounds, ghosts
    <3> QED BY <1>1, <2>3, <3>1, <3>3 DEF dialog, ghosts
  <2> QED BY <2>2, <2>3
<1>9. CASE ClearReturns
  <2>1. TypeOK' BY <1>9 DEF ClearReturns, TypeOK, disk, chat, dialog, bounds, ghosts
  <2> QED BY <1>1, <1>9, <2>1 DEF ClearReturns, disk, chat, dialog, ghosts
<1>10. CASE ResetConfig
  <2>1. TypeOK' BY <1>10 DEF ResetConfig, TypeOK, chat, dialog, chats, bounds, ghosts
  <2> QED BY <1>1, <1>10, <2>1 DEF ResetConfig, chat, dialog, ghosts
<1> QED BY <1>2, <1>3, <1>4, <1>5, <1>6, <1>7, <1>8, <1>9, <1>10

----------------------------------------------------------------------------
LEMMA IInvStep == IInv /\ [Next]_vars => IInv'
<1> SUFFICES ASSUME IInv, [Next]_vars PROVE IInv' OBVIOUS
<1>1. CASE Next
  BY <1>1, LifeStep, WriteStep, DialogStep, OpeningStep, OpenStep DEF Next
<1>2. CASE UNCHANGED vars
  BY <1>2 DEF IInv, TypeOK, OpenIsOnDisk, Closed, Asleep, Truncated, NothingThere,
              AboutToCreate, Named, vars, disk, chat, dialog, chats, bounds, ghosts
<1> QED BY <1>1, <1>2

LEMMA IInvAlways == Spec => []IInv
BY IInvInit, IInvStep, PTL DEF Spec

\* The variables stay in their ranges.
THEOREM TypeCorrect == Spec => []TypeOK
<1>1. IInv => TypeOK BY DEF IInv
<1> QED BY <1>1, IInvAlways, PTL

\* While a history is open its file is that history under its key, except during
\* a write and after one that failed; when nothing is dirty it is up to date.
THEOREM OpenAlwaysOnDisk == Spec => []OpenIsOnDisk
<1>1. IInv => OpenIsOnDisk BY DEF IInv
<1> QED BY <1>1, IInvAlways, PTL

\* No command, crash or failing write makes a readable history unreadable unless
\* it is the open one or the user confirmed its deletion, as long as no change of
\* location was left half done.
THEOREM AlwaysLostKnowingly == Spec => LostKnowingly
<1> DEFINE Known == \A p \in Paths : file[p].kind = "sealed" /\ file'[p].kind # "sealed" =>
                      \/ p = filePath /\ sealingKey # None
                      \/ p = shown /\ mode = "delete_confirm"
                      \/ strayed
<1>1. ASSUME IInv, [Next]_vars PROVE Known
  <2> USE <1>1 DEF IInv
  <2>1. CASE UNCHANGED file BY <2>1
  <2>2. ASSUME NEW f, file' = [file EXCEPT ![filePath] = f],
               file[filePath].kind # "sealed" \/ sealingKey # None
        PROVE  Known
    BY <2>2 DEF TypeOK
  <2>3. CASE Crash \/ EndWrite \/ WriteFails
    BY <2>2, <2>3 DEF Crash, EndWrite, WriteFails, Truncated
  <2>4. ASSUME NEW pw \in Passwords, Create(pw) PROVE Known
    <3>1. AboutToCreate BY <2>4 DEF Create, InDialog, AboutToCreate
    <3>2. file' = [file EXCEPT ![filePath] = Headless] BY <2>4 DEF Create, BeginWrite
    <3>3. strayed \/ file[filePath].kind # "sealed" BY <3>1 DEF NothingThere
    <3>4. CASE strayed BY <3>4
    <3>5. CASE file[filePath].kind # "sealed" BY <3>2, <3>5 DEF TypeOK
    <3> QED BY <3>3, <3>4, <3>5
  <2>5. CASE Flush \/ ClearRuns
    BY <2>1, <2>2, <2>5 DEF Flush, ClearRuns, ClearWrites, BeginWrite
  <2>6. CASE Delete
    BY <2>6 DEF Delete, InDialog, Named, TypeOK
  <2>7. CASE UNCHANGED vars BY <2>1, <2>7 DEF vars, disk
  <2>8. CASE \/ Start \/ Quit \/ LoadStatus \/ FirstRunDefault \/ Navigate \/ ChangePath
             \/ \E dir \in Paths : FirstRunChosen(dir) \/ BrowseChangePath(dir)
             \/ \E pw \in Passwords : Unlock(pw)
             \/ Arrives \/ Drop \/ TimerFires \/ Save \/ ClearAll \/ ClearReturns \/ ResetConfig
    BY <2>1, <2>8 DEF Start, Quit, LoadStatus, FirstRunDefault, Navigate, ChangePath,
       FirstRunChosen, BrowseChangePath, set_chat_history_path, Unlock, Arrives, Drop, TimerFires,
       Save, ClearAll, ClearReturns, ResetConfig, disk
  <2> QED BY <2>3, <2>4, <2>5, <2>6, <2>7, <2>8 DEF Next
<1> QED BY <1>1, IInvAlways, PTL DEF Spec, LostKnowingly
----------------------------------------------------------------------------
\* What is shown and what is saved.
LEMMA SavedInit == Init => Saved
BY DEF Init, Saved, ArchiveIsStore, NoWrite

LEMMA SavedStep == IInv /\ Saved /\ [Next]_vars => Saved'
<1> SUFFICES ASSUME IInv, Saved, [Next]_vars PROVE Saved' OBVIOUS
<1> USE DEF Saved, ArchiveIsStore
<1>1. mode = "open" => up /\ pending = "none" BY DEF IInv, Closed
<1>2. ASSUME UNCHANGED <<sealingKey, archive, chats, raced>>, mode # "open", mode' # "open",
             writing' = writing \/ writing'.op = "create"
      PROVE  Saved'
  BY <1>2 DEF chats
<1>3. ASSUME UNCHANGED <<sealingKey, archive, writing, mode, chats, raced>> PROVE Saved'
  BY <1>3 DEF chats
<1>4. CASE Start \/ ResetConfig \/ UNCHANGED vars
  BY <1>3, <1>4 DEF Start, ResetConfig, vars, chat, dialog, ghosts
<1>5. CASE Quit \/ Crash
  BY <1>5 DEF Quit, Crash, Forget, NoWrite
<1>6. CASE EndWrite
  <2>1. /\ writing.op # "none" /\ writing'.op = "none" /\ sealingKey' = writing.key
        /\ archive' = IF writing.op = "create" THEN {} ELSE archive
        /\ mode' = IF writing.op = "create" THEN "open" ELSE mode
        /\ clearing' = IF writing.op = "clear" THEN "returned" ELSE clearing
        /\ UNCHANGED <<store, timer, inFlight, raced>>
    BY <1>6 DEF EndWrite, Written, Sealed, NoWrite
  <2>2. writing.key # None BY <2>1 DEF IInv, Truncated
  <2>3. CASE writing.op = "create" BY <2>1, <2>2, <2>3
  <2>4. CASE writing.op # "create" BY <2>1, <2>2, <2>4
  <2> QED BY <2>3, <2>4
<1>7. CASE WriteFails
  <2>1. /\ writing'.op = "none"
        /\ clearing' = IF writing.op = "clear" THEN "returned" ELSE clearing
        /\ UNCHANGED <<sealingKey, archive, mode, store, timer, inFlight, raced>>
    BY <1>7 DEF WriteFails, NoWrite, dialog
  <2> QED BY <2>1
<1>8. CASE \/ LoadStatus \/ FirstRunDefault \/ Navigate \/ ChangePath
           \/ \E dir \in Paths : FirstRunChosen(dir) \/ BrowseChangePath(dir)
  <2>1. mode # "open" /\ mode' # "open"
    BY <1>8 DEF LoadStatus, FirstRunDefault, Navigate, ChangePath, FirstRunChosen,
                BrowseChangePath, InDialog, IInv, TypeOK
  <2>2. UNCHANGED <<sealingKey, archive, writing, chats, raced>>
    BY <1>8 DEF LoadStatus, FirstRunDefault, Navigate, ChangePath, FirstRunChosen,
                BrowseChangePath, set_chat_history_path, chat, ghosts
  <2> QED BY <1>2, <2>1, <2>2
<1>9. CASE Delete
  <2>1. /\ mode = "delete_confirm" /\ mode' = "loading" /\ UNCHANGED <<writing, chats, raced>>
    BY <1>9 DEF Delete, InDialog, ghosts
  <2> QED BY <2>1 DEF chats
<1>10. ASSUME NEW pw \in Passwords, Create(pw) PROVE Saved'
  <2>1. mode # "open" BY <1>1, <1>10 DEF Create, InDialog
  <2>2. /\ UNCHANGED <<sealingKey, archive, mode, chats, raced>> /\ writing'.op = "create"
    BY <1>10 DEF Create, BeginWrite, chat, ghosts
  <2> QED BY <1>2, <2>1, <2>2
<1>11. ASSUME NEW pw \in Passwords, Unlock(pw) PROVE Saved'
  <2>1. /\ mode # "open" /\ writing.op = "none"
        /\ UNCHANGED <<writing, timer, inFlight, clearing, raced>>
    BY <1>1, <1>11 DEF Unlock, InDialog, Ready
  <2>2. \/ UNCHANGED <<archive, store, sealingKey, mode>>
        \/ archive' = store' /\ sealingKey' # None /\ mode' = "open"
    BY <1>11 DEF Unlock
  <2>3. CASE UNCHANGED <<archive, store, sealingKey, mode>> BY <2>1, <2>3
  <2>4. CASE archive' = store' /\ sealingKey' # None /\ mode' = "open" BY <2>1, <2>4
  <2> QED BY <2>2, <2>3, <2>4
<1>12. CASE Arrives \/ Drop
  <2>1. /\ mode = "open" /\ timer'
        /\ UNCHANGED <<sealingKey, archive, writing, mode, inFlight, clearing, raced>>
    BY <1>12 DEF Arrives, Drop, scheduleSave, chat, dialog, ghosts
  <2> QED BY <2>1
<1>13. CASE TimerFires
  <2>1. /\ timer /\ ~timer' /\ inFlight = None /\ inFlight' = store
        /\ ~raced' => ~raced /\ clearing = "no"
        /\ UNCHANGED <<sealingKey, archive, writing, mode, store, clearing>>
        /\ store # None
    BY <1>13 DEF TimerFires, chat, dialog, IInv, TypeOK, Messages
  <2> QED BY <2>1
<1>14. CASE Save
  <2>1. mode = "open" /\ sealingKey # None BY <1>14 DEF Save
  <2>2. /\ inFlight # None /\ inFlight' = None /\ archive' = inFlight
        /\ ~raced' => clearing = "no" /\ (~raced \/ inFlight = store)
        /\ UNCHANGED <<sealingKey, writing, mode, store, timer, clearing>>
    BY <1>14, <2>1 DEF Save, dialog
  <2> QED BY <2>1, <2>2
<1>15. CASE Flush
  <2>1. /\ writing'.op = "flush" /\ UNCHANGED <<sealingKey, archive, mode, chats, raced>>
    BY <1>15 DEF Flush, BeginWrite, chat, dialog, ghosts
  <2> QED BY <2>1 DEF chats
<1>16. CASE ClearAll
  <2>1. /\ mode = "open" /\ clearing = "no" /\ clearing' = "invoked"
        /\ ~raced' => ~raced /\ inFlight = None
        /\ UNCHANGED <<sealingKey, archive, writing, mode, store, timer, inFlight>>
    BY <1>16 DEF ClearAll, chat, dialog
  <2> QED BY <2>1
<1>17. CASE ClearRuns
  <2>1. /\ clearing = "invoked" /\ sealingKey # None /\ mode = "open" BY <1>17 DEF ClearRuns
  <2>2. /\ archive' = {} /\ clearing' = "running" /\ writing'.op = "clear"
        /\ UNCHANGED <<sealingKey, mode, store, timer, inFlight, raced>>
    BY <1>17, <2>1 DEF ClearRuns, ClearWrites, BeginWrite, dialog, ghosts
  <2> QED BY <2>1, <2>2
<1>18. CASE ClearReturns
  <2>1. /\ clearing = "returned" /\ clearing' = "no" /\ store' = {}
        /\ UNCHANGED <<sealingKey, archive, writing, mode, timer, inFlight, raced>>
    BY <1>18 DEF ClearReturns, chat, dialog, ghosts
  <2>2. mode = "open" /\ writing.op # "clear" BY <2>1
  <2> QED BY <2>1, <2>2
<1> QED BY <1>4, <1>5, <1>6, <1>7, <1>8, <1>9, <1>10, <1>11, <1>12, <1>13, <1>14, <1>15, <1>16,
           <1>17, <1>18 DEF Next

\* With no save outstanding, and none that raced with clearAllHistory, the archive
\* the backend seals holds exactly the messages the interface shows.
THEOREM ArchiveAlwaysStore == Spec => []ArchiveIsStore
<1>1. Saved => ArchiveIsStore BY DEF Saved
<1> QED BY <1>1, SavedInit, SavedStep, IInvAlways, PTL DEF Spec
=============================================================================
