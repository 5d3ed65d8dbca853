---------------------------- MODULE ChatHistory ----------------------------
(***************************************************************************)
(* The encrypted chat history of one client: the file on disk, the state   *)
(* behind the lock of `ChatState' (commands.rs, lib.rs), the setup dialog  *)
(* that asks for a password (ChatHistorySetup.svelte) and the stores of    *)
(* messages with their debounced save (chat.ts).                           *)
(*                                                                         *)
(* A command of the backend is one step, except where it writes the file:  *)
(* std::fs::write truncates and then fills, so a crash or a full disk      *)
(* between the two leaves a file that no password opens.  The lock is held *)
(* across a write: no other command runs then, but the interface goes on.  *)
(*                                                                         *)
(* Sealing is by password: the salt is read from, or written with, the     *)
(* file it belongs to, so it never separates from its key.  Of the         *)
(* archive only the set of its messages matters; the interface's limit of  *)
(* 500 messages per conversation is one of the ways messages are dropped.  *)
(***************************************************************************)
EXTENDS Naturals, FiniteSets

CONSTANTS
    Paths,          \* directories that may hold a chat_history.bin
    Default,        \* the one in data_dir()
    Passwords,
    None,           \* Option::None
    MaxMessages,    \* bound: messages that arrive
    MaxStops,       \* bound: crashes and orderly exits
    MaxFailures     \* bound: writes that fail

ASSUME HistoryAssumption ==
    /\ Default \in Paths
    /\ None \notin Paths \cup Passwords
    /\ \A saved \in SUBSET (0..MaxMessages) : saved # None
    /\ {MaxMessages, MaxStops, MaxFailures} \subseteq Nat

VARIABLES
    \* --- disk ---
    file,           \* [Paths -> contents]
    config,         \* chat_history_path of settings.json
    \* --- the backend ---
    up,
    filePath, sealingKey, archive, dirty,   \* ChatState
    writing,        \* the command that is inside std::fs::write, or None
    \* --- the interface ---
    mode, previous, \* of the dialog; "open" once chatUnlocked
    shown,          \* currentPath
    selected,       \* selectedDirectory of the change of location
    pending,        \* what a handler does after set_chat_history_path: "create", "unlock"
    store,          \* channelMessages and dmMessages
    timer,          \* saveTimeout # null
    inFlight,       \* the stores save_chat_messages was invoked with, or None
    clearing,       \* clearAllHistory: "no", "invoked", "running", "returned"
    arrived, stops, failures,
    \* --- history ---
    strayed,        \* the location was changed and the change was not completed
    broken,         \* a write failed, and none has succeeded since
    raced           \* messages were saved while clearAllHistory waited

disk    == <<file, config>>
chat    == <<filePath, sealingKey, archive, dirty>>
dialog  == <<mode, previous, shown, selected, pending>>
chats   == <<store, timer, inFlight, clearing>>
bounds  == <<arrived, stops, failures>>
ghosts  == <<strayed, broken, raced>>
vars == <<disk, up, chat, writing, dialog, chats, bounds, ghosts>>

\* Message 0 stands for all that an earlier installation had saved.
Messages == 0..MaxMessages

\* What a file may hold: nothing; bytes without a valid header (another
\* program's, or a write cut short); a header without its whole payload; an archive.
Absent == [kind |-> "absent", key |-> None, msgs |-> {}]
Headless == [kind |-> "headless", key |-> None, msgs |-> {}]
Torn == [kind |-> "torn", key |-> None, msgs |-> {}]
Sealed(pw, msgs) == [kind |-> "sealed", key |-> pw, msgs |-> msgs]
Histories == {Sealed(pw, msgs) : pw \in Passwords, msgs \in SUBSET Messages}
Contents == {Absent, Headless, Torn} \cup Histories

\* A variant for mutation testing: an existing history not noticed.
Unnoticed(f)  == FALSE

has_valid_header(f) == f.kind \in {"torn", "sealed"}
holds_history(f) == has_valid_header(f)

resolve_chat_history_path(c) == IF c = None THEN Default ELSE c

Modes == {"loading", "first_run", "unlock", "create_new", "delete_confirm",
          "change_path", "change_path_unlock", "change_path_create", "open"}
Writes  == [op: {"none", "create", "flush", "clear"}, key: Passwords \cup {None}]
NoWrite == [op |-> "none", key |-> None]

TypeOK ==
    /\ file \in [Paths -> Contents] /\ config \in Paths \cup {None}
    /\ up \in BOOLEAN /\ dirty \in BOOLEAN
    /\ filePath \in Paths /\ sealingKey \in Passwords \cup {None}
    /\ archive \in SUBSET Messages
    /\ writing \in Writes
    /\ mode \in Modes /\ previous \in {"unlock", "create_new"}
    /\ shown \in Paths /\ selected \in Paths /\ pending \in {"none", "create", "unlock"}
    /\ store \in SUBSET Messages /\ timer \in BOOLEAN
    /\ inFlight \in (SUBSET Messages) \cup {None}
    /\ clearing \in {"no", "invoked", "running", "returned"}
    /\ arrived \in 0..MaxMessages /\ stops \in 0..MaxStops /\ failures \in 0..MaxFailures
    /\ strayed \in BOOLEAN /\ broken \in BOOLEAN /\ raced \in BOOLEAN

Init ==
    /\ file \in [Paths -> {Absent, Headless} \cup {Sealed(pw, {0}) : pw \in Passwords}]
    /\ config \in Paths \cup {None}
    /\ up = FALSE /\ filePath = Default /\ sealingKey = None /\ archive = {} /\ dirty = FALSE
    /\ writing = NoWrite
    /\ mode = "loading" /\ previous = "unlock" /\ shown = Default /\ selected = Default
    /\ pending = "none"
    /\ store = {} /\ timer = FALSE /\ inFlight = None /\ clearing = "no"
    /\ arrived = 0 /\ stops = 0 /\ failures = 0
    /\ strayed = FALSE /\ broken = FALSE /\ raced = FALSE

Ready == up /\ writing.op = "none"              \* the lock of ChatState can be taken
InDialog(m) == Ready /\ mode = m /\ pending = "none"

----------------------------------------------------------------------------
(* Starting and ending.                                                    *)

\* setup: a history at the default path is adopted when none is configured.
Start ==
    /\ ~up /\ up' = TRUE
    /\ config' = IF config = None /\ has_valid_header(file[Default]) THEN Default ELSE config
    /\ filePath' = resolve_chat_history_path(config')
    /\ UNCHANGED <<file, sealingKey, archive, dirty, writing, dialog, chats, bounds, ghosts>>

\* Everything in memory goes with the process.
Forget ==
    /\ up' = FALSE /\ filePath' = Default /\ sealingKey' = None /\ archive' = {}
    /\ dirty' = FALSE /\ writing' = NoWrite
    /\ mode' = "loading" /\ previous' = "unlock" /\ shown' = Default /\ selected' = Default
    /\ pending' = "none"
    /\ store' = {} /\ timer' = FALSE /\ inFlight' = None /\ clearing' = "no"
    /\ strayed' = FALSE /\ broken' = FALSE /\ raced' = FALSE

\* The user closes the window while nothing is being written.
Quit ==
    /\ Ready /\ stops < MaxStops /\ stops' = stops + 1
    /\ Forget
    /\ UNCHANGED <<disk, arrived, failures>>

\* The process is killed, perhaps in the middle of a write.
Crash ==
    /\ up /\ writing.op # "none" /\ stops < MaxStops /\ stops' = stops + 1
    /\ \E rest \in {Headless, Torn} : file' = [file EXCEPT ![filePath] = rest]
    /\ Forget
    /\ UNCHANGED <<config, arrived, failures>>

----------------------------------------------------------------------------
(* std::fs::write, under the lock of ChatState.                            *)

BeginWrite(op, pw) ==
    /\ writing' = [op |-> op, key |-> pw]
    /\ file' = [file EXCEPT ![filePath] = Headless]

\* What the command writes: create an empty archive, the others the present one.
Written == Sealed(writing.key, IF writing.op = "create" THEN {} ELSE archive)

EndWrite ==
    /\ writing.op # "none" /\ writing' = NoWrite
    /\ file' = [file EXCEPT ![filePath] = Written]
    /\ archive' = Written.msgs /\ sealingKey' = writing.key /\ dirty' = FALSE
    /\ mode' = IF writing.op = "create" THEN "open" ELSE mode
    /\ clearing' = IF writing.op = "clear" THEN "returned" ELSE clearing
    /\ strayed' = FALSE /\ broken' = FALSE
    /\ UNCHANGED <<config, up, filePath, previous, shown, selected, pending, store, timer,
                   inFlight, bounds, raced>>

\* Variants for mutation testing: a failed write counts as done, clearing leaves
\* the file alone, a change is not saved.
Undirtied == FALSE
NotWritten == FALSE
NotScheduled == UNCHANGED timer

AfterFailure == dirty
ClearWrites  == sealingKey # None
scheduleSave == timer' = TRUE

\* The disk is full: the command returns an error and changes nothing else.
WriteFails ==
    /\ writing.op # "none" /\ failures < MaxFailures /\ failures' = failures + 1
    /\ writing' = NoWrite
    /\ \E rest \in {Headless, Torn} : file' = [file EXCEPT ![filePath] = rest]
    /\ clearing' = IF writing.op = "clear" THEN "returned" ELSE clearing
    /\ broken' = TRUE /\ dirty' = AfterFailure
    /\ UNCHANGED <<config, up, filePath, sealingKey, archive, dialog, store, timer, inFlight, arrived, stops,
                   strayed, raced>>

----------------------------------------------------------------------------
(* The dialog.  A handler awaits each command before it goes on; a command *)
(* that fails leaves the dialog where it is.                               *)

\* loadStatus and get_chat_history_status
LoadStatus ==
    /\ InDialog("loading")
    /\ filePath' = resolve_chat_history_path(config) /\ shown' = filePath'
    /\ strayed' = FALSE
    /\ mode' = CASE has_valid_header(file[filePath'])                -> "unlock"
                 [] ~has_valid_header(file[filePath']) /\ config = None -> "first_run"
                 [] OTHER                                            -> "create_new"
    /\ UNCHANGED <<disk, up, sealingKey, archive, dirty, writing, previous, selected, pending,
                   chats, bounds, broken, raced>>

\* set_chat_history_path: refused over a file that is not a history.
set_chat_history_path(dir) ==
    /\ file[dir].kind # "headless"
    /\ config' = dir /\ filePath' = dir
    /\ UNCHANGED <<file, up, sealingKey, archive, dirty, writing>>

\* handleFirstRunCreate.  A directory the user chose may turn out to hold a history.
FirstRunChosen(dir) ==
    /\ InDialog("first_run") /\ set_chat_history_path(dir)
    /\ \/ /\ holds_history(file[dir])
          /\ mode' = "unlock" /\ shown' = dir /\ UNCHANGED pending
       \/ /\ ~holds_history(file[dir])
          /\ pending' = "create" /\ UNCHANGED <<mode, shown>>
    /\ UNCHANGED <<previous, selected, chats, bounds, ghosts>>

FirstRunDefault ==
    /\ InDialog("first_run") /\ set_chat_history_path(resolve_chat_history_path(config))
    /\ pending' = "create"
    /\ UNCHANGED <<mode, shown, previous, selected, chats, bounds, ghosts>>

\* create_chat_history, from a handler that set the location or from handleCreateNew.
Create(pw) ==
    /\ Ready /\ (pending = "create" \/ InDialog("create_new"))
    /\ pending' = "none" /\ BeginWrite("create", pw)
    /\ UNCHANGED <<config, up, chat, mode, previous, shown, selected, chats, bounds, ghosts>>

\* unlock_chat_history and populateFromArchive; the right password or an error.
Unlock(pw) ==
    /\ Ready /\ (pending = "unlock" \/ InDialog("unlock"))
    /\ pending' = "none"
    /\ LET f == file[filePath] IN
       \/ /\ f.kind = "sealed" /\ f.key = pw
          /\ archive' = f.msgs /\ store' = f.msgs /\ sealingKey' = pw /\ dirty' = FALSE
          /\ mode' = "open" /\ strayed' = FALSE
       \/ /\ ~(f.kind = "sealed" /\ f.key = pw)
          /\ UNCHANGED <<archive, store, sealingKey, dirty, mode, strayed>>
    /\ UNCHANGED <<disk, up, filePath, writing, previous, shown, selected, timer, inFlight,
                   clearing, bounds, broken, raced>>

\* goToDeleteConfirm, goToChangePath and goBack: no command is issued.
Navigate ==
    /\ up /\ pending = "none" /\ writing.op = "none"
    /\ \/ mode = "unlock" /\ mode' = "delete_confirm" /\ previous' = mode
       \/ mode \in {"unlock", "create_new"} /\ mode' = "change_path" /\ previous' = mode
       \/ /\ mode \in {"delete_confirm", "change_path", "change_path_unlock", "change_path_create"}
          /\ mode' = previous /\ UNCHANGED previous
    /\ UNCHANGED <<disk, up, chat, writing, shown, selected, pending, chats, bounds, ghosts>>

\* handleBrowseChangePath and check_path_status
BrowseChangePath(dir) ==
    /\ InDialog("change_path") /\ file[dir].kind # "headless"
    /\ selected' = dir
    /\ mode' = IF has_valid_header(file[dir]) THEN "change_path_unlock" ELSE "change_path_create"
    /\ UNCHANGED <<disk, up, chat, writing, previous, shown, pending, chats, bounds, ghosts>>

\* handleChangePathUnlock and handleChangePathCreate: the location is set first.
ChangePath ==
    /\ mode \in {"change_path_unlock", "change_path_create"} /\ InDialog(mode)
    /\ set_chat_history_path(selected)
    /\ pending' = IF mode = "change_path_unlock" THEN "unlock" ELSE "create"
    /\ strayed' = TRUE
    /\ UNCHANGED <<mode, previous, shown, selected, chats, bounds, broken, raced>>

\* delete_chat_history, and loadStatus afterwards
Delete ==
    /\ InDialog("delete_confirm")
    /\ file' = [file EXCEPT ![filePath] = Absent] /\ config' = None
    /\ archive' = {} /\ sealingKey' = None /\ dirty' = FALSE
    /\ mode' = "loading"
    /\ UNCHANGED <<up, filePath, writing, previous, shown, selected, pending, chats, bounds,
                   ghosts>>

----------------------------------------------------------------------------
(* The open history.                                                       *)

\* addChannelMessage and addDmMessage
Arrives ==
    /\ up /\ mode = "open" /\ arrived < MaxMessages
    /\ arrived' = arrived + 1 /\ store' = store \cup {arrived'} /\ scheduleSave
    /\ UNCHANGED <<disk, up, chat, writing, dialog, inFlight, clearing, stops, failures, ghosts>>

\* clearChannelChat, clearDmChat and the oldest message over the limit
Drop ==
    /\ up /\ mode = "open"
    /\ \E m \in store : store' = store \ {m}
    /\ scheduleSave
    /\ UNCHANGED <<disk, up, chat, writing, dialog, inFlight, clearing, bounds, ghosts>>

\* scheduleSave's timer fires.  One save at a time: they are two seconds apart.
TimerFires ==
    /\ up /\ timer /\ inFlight = None
    /\ timer' = FALSE /\ inFlight' = store
    /\ raced' = (raced \/ clearing # "no")
    /\ UNCHANGED <<disk, up, chat, writing, dialog, store, clearing, bounds, strayed, broken>>

\* save_chat_messages; without a key it does nothing
Save ==
    /\ Ready /\ inFlight # None /\ inFlight' = None
    /\ \/ sealingKey = None /\ UNCHANGED <<archive, dirty>>
       \/ sealingKey # None /\ archive' = inFlight /\ dirty' = TRUE
    /\ raced' = (clearing # "no" \/ (raced /\ inFlight # store))
    /\ UNCHANGED <<disk, up, filePath, sealingKey, writing, dialog, store, timer, clearing,
                   bounds, strayed, broken>>

\* flush_chat_to_disk, every five seconds
Flush ==
    /\ Ready /\ dirty /\ sealingKey # None
    /\ BeginWrite("flush", sealingKey)
    /\ UNCHANGED <<config, up, chat, dialog, chats, bounds, ghosts>>

\* clearAllHistory: invoke, wait, empty the stores.
ClearAll ==
    /\ up /\ mode = "open" /\ clearing = "no" /\ clearing' = "invoked"
    /\ raced' = (raced \/ inFlight # None)
    /\ UNCHANGED <<disk, up, chat, writing, dialog, store, timer, inFlight, bounds, strayed,
                   broken>>

\* clear_chat_history
ClearRuns ==
    /\ Ready /\ clearing = "invoked" /\ archive' = {}
    /\ \/ /\ ClearWrites /\ clearing' = "running"
          /\ BeginWrite("clear", sealingKey) /\ UNCHANGED dirty
       \/ /\ ~ClearWrites /\ clearing' = "returned"
          /\ dirty' = FALSE /\ UNCHANGED <<file, writing>>
    /\ UNCHANGED <<config, up, filePath, sealingKey, dialog, store, timer, inFlight, bounds,
                   ghosts>>

ClearReturns ==
    /\ up /\ clearing = "returned" /\ clearing' = "no" /\ store' = {}
    /\ UNCHANGED <<disk, up, chat, writing, dialog, timer, inFlight, bounds, ghosts>>

\* reset_config, from the settings: the location is forgotten, the history stays open.
ResetConfig ==
    /\ Ready /\ mode = "open" /\ config # None /\ config' = None
    /\ UNCHANGED <<file, up, chat, writing, dialog, chats, bounds, ghosts>>

----------------------------------------------------------------------------
Next ==
    \/ Start \/ Quit \/ Crash \/ EndWrite \/ WriteFails
    \/ LoadStatus \/ FirstRunDefault \/ Navigate \/ ChangePath \/ Delete
    \/ \E dir \in Paths : FirstRunChosen(dir) \/ BrowseChangePath(dir)
    \/ \E pw \in Passwords : Create(pw) \/ Unlock(pw)
    \/ Arrives \/ Drop \/ TimerFires \/ Save \/ Flush
    \/ ClearAll \/ ClearRuns \/ ClearReturns \/ ResetConfig

Spec == Init /\ [][Next]_vars

\* The timer of the interface, the flush task and the runtime that runs commands.
FairSpec ==
    /\ Spec
    /\ WF_vars(TimerFires) /\ WF_vars(Save) /\ WF_vars(Flush)
    /\ WF_vars(EndWrite) /\ WF_vars(ClearRuns) /\ WF_vars(ClearReturns)

----------------------------------------------------------------------------
(* Once a history is open, the file at its path is that history under its  *)
(* key, unless a write is under way or failed and was not made good; and   *)
(* when nothing is dirty it holds all of the archive.  clear_chat_history  *)
(* leaves `dirty' alone when its write fails, so a broken file may stay.   *)
OpenIsOnDisk ==
    sealingKey # None /\ writing.op = "none" /\ ~broken =>
        /\ file[filePath].kind = "sealed" /\ file[filePath].key = sealingKey
        /\ ~dirty => file[filePath].msgs = archive

(* With no save outstanding the backend's archive is what the interface    *)
(* shows.  The exception is a save that crossed clearAllHistory: it put    *)
(* cleared messages back in the archive, and so in the file.               *)
ArchiveIsStore ==
    mode = "open" /\ ~timer /\ inFlight = None /\ clearing = "no" /\ ~raced =>
        archive = store

(* A readable history stops being one only when it is the open one being   *)
(* rewritten, or when the user confirmed the deletion of the path the      *)
(* dialog shows: create_chat_history never takes the place of one.  The    *)
(* exception is a change of location that was not completed: filePath has  *)
(* moved, and the dialog the user goes back to still speaks of the old     *)
(* one.                                                                    *)
LostKnowingly ==
    [][\A p \in Paths : file[p].kind = "sealed" /\ file'[p].kind # "sealed" =>
         \/ p = filePath /\ sealingKey # None
         \/ p = shown /\ mode = "delete_confirm"
         \/ strayed]_vars

(* A message that is shown reaches the disk, unless it is cleared or the   *)
(* process ends first: a failed write is tried again by the next flush.    *)
ShownIsSaved ==
    \A m \in Messages :
        (mode = "open" /\ m \in store) ~>
            (m \notin store \/ (file[filePath].kind = "sealed" /\ m \in file[filePath].msgs))

----------------------------------------------------------------------------
(* Statements the code does not keep.                                      *)

(* flush_chat_to_disk is "Called by the background task and on exit": an   *)
(* orderly exit leaves everything the backend was given on disk.           *)
ExitFlushes == [][Quit /\ sealingKey # None => file[filePath] = Sealed(sealingKey, archive)]_vars

(* "No chat history file found at the configured location. Create a new    *)
(* one?": the dialog that says so writes where there is no history.        *)
NotFoundMeansNone == mode = "create_new" => file[filePath].kind # "sealed"
=============================================================================
