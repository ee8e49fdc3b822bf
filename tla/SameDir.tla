------------------------------- MODULE SameDir -------------------------------
(***************************************************************************)
(* Multi-link commands (-i n, -b) whose links share folders (-m).  Link i  *)
(* of a command starts link i+1 seconds later; every link with a folder    *)
(* is counted in same_dir, shared by the links of its command.  A download *)
(* that completes waits, holding one lock for the whole bot, until it can  *)
(* give its files to another link of its folder or knows it is the last;   *)
(* the last one uploads them all.                                          *)
(*                                                                         *)
(* One event loop: a step is the code between two awaits, or under         *)
(* task_dict_lock.  A failed move, and /stopall, are left out.             *)
(***************************************************************************)
EXTENDS Integers, FiniteSets

CONSTANTS
    Commands,
    Multi,    \* the links of each command
    Folders,
    None

ASSUME SameDirAssumption ==
    /\ Multi \in [Commands -> Nat \ {0}]
    /\ None \notin Folders /\ None \notin Int

Tasks == UNION {{c} \X (1..Multi[c]) : c \in Commands}

ASSUME NoneIsNoTask == None \notin Tasks

TasksOf(c) == {t \in Tasks : t[1] = c}

VARIABLES
    seen,     \* how many links of each command have started
    chain,    \* run_multi of the newest link of each command
    tagged,   \* commands whose tag is in multi_tags (with -i from the second link)
    folder,   \* folder_name of each link
    total,    \* same_dir[folder]["total"]
    tasks,    \* same_dir[folder]["tasks"]
    pc,       \* of each link
    lock,     \* who holds same_directory_lock
    files,    \* the links whose files are in a link's directory
    lost      \* history variable: links whose files were deleted

folderVars == <<folder, total, tasks>>
vars == <<seen, chain, tagged, folderVars, pc, lock, files, lost>>

PCs == {"unborn", "download", "complete", "merged", "upload", "failed"}

\* A chain is "over" after the last link, or "broken": no next link will come
\* although the folders still count on it.
Chains == {"sleep", "cancelling", "cancelled", "broken", "over"}

Goto(t, next) == pc' = [pc EXCEPT ![t] = next]
Member(t) == folder[t] # None /\ t \in tasks[t[1]][folder[t]]
Known(c) == {f \in Folders : total[c][f] # None}

-----------------------------------------------------------------------------
(* new_event and run_multi *)

\* Broken on purpose: the other folders still wait for this link.
CountAlone(t, f) ==
    LET c == t[1]
        rest == Multi[c] - t[2] + 1
    IN /\ total' = [total EXCEPT ![c] =
                      [g \in Folders |-> IF g = f /\ @[g] = None THEN rest ELSE @[g]]]
       /\ tasks' = IF f = None THEN tasks ELSE [tasks EXCEPT ![c][f] = @ \cup {t}]

\* A folder starts with the links that are left; every link that goes
\* elsewhere is one less to wait for.
Count(t, f) ==
    LET c == t[1]
        rest == Multi[c] - t[2] + 1
    IN /\ total' = [total EXCEPT ![c] =
                      [g \in Folders |->
                         CASE g = f /\ g \notin Known(c) -> rest
                           [] g # f /\ g \in Known(c) -> @[g] - 1
                           [] OTHER -> @[g]]]
       /\ tasks' = IF f = None THEN tasks ELSE [tasks EXCEPT ![c][f] = @ \cup {t}]

NewEvent(c, f) ==
    LET t == <<c, seen[c] + 1>> IN
    /\ t[2] <= Multi[c]
    /\ Count(t, f)
    /\ folder' = [folder EXCEPT ![t] = f]
    /\ seen' = [seen EXCEPT ![c] = t[2]]
    /\ Goto(t, "download")
    /\ UNCHANGED <<tagged, lock, files, lost>>

Start(c, f) ==
    /\ seen[c] = 0
    /\ NewEvent(c, f)
    /\ UNCHANGED chain

\* sleep(7) is over: on to the next link, unless the command was cancelled or
\* the message of the next link cannot be fetched ("empty").
RunMulti(c) ==
    /\ seen[c] > 0 /\ chain[c] = "sleep"
    /\ \/ /\ seen[c] = Multi[c]
          /\ chain' = [chain EXCEPT ![c] = "over"]
          /\ tagged' = tagged \ {c}
          /\ UNCHANGED <<seen, folderVars, pc, lock, files, lost>>
       \/ /\ seen[c] < Multi[c] /\ c \notin tagged
          /\ chain' = [chain EXCEPT ![c] = "cancelling"]
          /\ UNCHANGED <<seen, folderVars, pc, tagged, lock, files, lost>>
       \/ /\ seen[c] < Multi[c] /\ c \in tagged
          /\ chain' = [chain EXCEPT ![c] = "broken"]
          /\ UNCHANGED <<seen, folderVars, pc, tagged, lock, files, lost>>
       \/ /\ c \in tagged
          /\ \E f \in Folders \cup {None} : NewEvent(c, f)
          /\ UNCHANGED chain

\* self.multi is what is left with this link included.
Cancelled(c) ==
    /\ chain[c] = "cancelling"
    /\ chain' = [chain EXCEPT ![c] = "cancelled"]
    /\ total' = [total EXCEPT ![c] =
                   [f \in Folders |-> IF f \in Known(c) THEN @[f] - (Multi[c] - seen[c] + 1)
                                                        ELSE @[f]]]
    /\ UNCHANGED <<seen, tagged, folder, tasks, pc, lock, files, lost>>

\* /cancel with the tag of the command; the tag of a broken chain stays, unused
CancelMulti(c) ==
    /\ c \in tagged /\ seen[c] > 0 /\ chain[c] = "sleep"
    /\ tagged' = tagged \ {c}
    /\ UNCHANGED <<seen, chain, folderVars, pc, lock, files, lost>>

-----------------------------------------------------------------------------
(* A link *)

Downloaded(t) ==
    /\ pc[t] = "download"
    /\ Goto(t, "complete")
    /\ files' = [files EXCEPT ![t] = @ \cup {t}]
    /\ UNCHANGED <<seen, chain, tagged, folderVars, lock, lost>>

\* Broken on purpose: the others wait for it all the same.
RemoveUncounted(t) ==
    /\ tasks' = IF Member(t) THEN [tasks EXCEPT ![t[1]][folder[t]] = @ \ {t}] ELSE tasks
    /\ UNCHANGED total

\* remove_from_same_dir
RemoveFromSameDir(t) ==
    /\ tasks' = IF Member(t) THEN [tasks EXCEPT ![t[1]][folder[t]] = @ \ {t}] ELSE tasks
    /\ total' = IF Member(t) THEN [total EXCEPT ![t[1]][folder[t]] = @ - 1] ELSE total

\* on_download_error, for an error or because the user cancels the link; it
\* ends with clean_download(self.dir).
Error(t) ==
    /\ pc[t] \in {"download", "complete"}
    /\ Goto(t, "failed")
    /\ RemoveFromSameDir(t)
    /\ files' = [files EXCEPT ![t] = {}]
    /\ lost' = lost \cup files[t]
    /\ UNCHANGED <<seen, chain, tagged, folder, lock>>

\* on_download_complete of a link without a folder
Alone(t) ==
    /\ pc[t] = "complete" /\ ~Member(t)
    /\ Goto(t, "upload")
    /\ UNCHANGED <<seen, chain, tagged, folderVars, lock, files, lost>>

Acquire(t) ==
    /\ pc[t] = "complete" /\ Member(t) /\ lock = None
    /\ lock' = t
    /\ UNCHANGED <<seen, chain, tagged, folderVars, pc, files, lost>>

\* The files go to any other link of the folder: list(tasks)[0].
Merge(t) ==
    /\ lock = t /\ Member(t)
    /\ total[t[1]][folder[t]] > 1
    /\ \E other \in tasks[t[1]][folder[t]] \ {t} :
         files' = [files EXCEPT ![t] = {}, ![other] = @ \cup files[t]]
    /\ RemoveFromSameDir(t)
    /\ Goto(t, "merged")
    /\ lock' = None
    /\ UNCHANGED <<seen, chain, tagged, folder, lost>>

\* Broken on purpose: the last but one does not wait either.
LastOneEarly(t) ==
    /\ lock = t /\ Member(t)
    /\ total[t[1]][folder[t]] <= 2
    /\ Goto(t, "upload")
    /\ lock' = None
    /\ UNCHANGED <<seen, chain, tagged, folderVars, files, lost>>

\* It stays in tasks, and in total.
LastOne(t) ==
    /\ lock = t /\ Member(t)
    /\ total[t[1]][folder[t]] <= 1
    /\ Goto(t, "upload")
    /\ lock' = None
    /\ UNCHANGED <<seen, chain, tagged, folderVars, files, lost>>

\* Removed while it waited, by an error.
GiveUp(t) ==
    /\ lock = t /\ ~Member(t)
    /\ lock' = None
    /\ UNCHANGED <<seen, chain, tagged, folderVars, pc, files, lost>>

Init ==
    /\ seen = [c \in Commands |-> 0]
    /\ chain = [c \in Commands |-> "sleep"]
    /\ tagged = Commands
    /\ folder = [t \in Tasks |-> None]
    /\ total = [c \in Commands |-> [f \in Folders |-> None]]
    /\ tasks = [c \in Commands |-> [f \in Folders |-> {}]]
    /\ pc = [t \in Tasks |-> "unborn"]
    /\ lock = None
    /\ files = [t \in Tasks |-> {}]
    /\ lost = {}

Complete(t) == Acquire(t) \/ Merge(t) \/ LastOne(t) \/ GiveUp(t)

Next ==
    \/ \E c \in Commands, f \in Folders \cup {None} : Start(c, f)
    \/ \E c \in Commands : RunMulti(c) \/ Cancelled(c) \/ CancelMulti(c)
    \/ \E t \in Tasks : Downloaded(t) \/ Error(t) \/ Alone(t) \/ Complete(t)

\* The chains and the polls of the event loop go on; no download is assumed to
\* end.
Fairness ==
    /\ \A c \in Commands : WF_vars(RunMulti(c) \/ Cancelled(c))
    /\ \A t \in Tasks : WF_vars(Merge(t) \/ LastOne(t) \/ GiveUp(t))

Spec == Init /\ [][Next]_vars
FairSpec == Spec /\ Fairness

-----------------------------------------------------------------------------

TypeOK ==
    /\ seen \in [Commands -> Nat]
    /\ \A c \in Commands : seen[c] <= Multi[c]
    /\ chain \in [Commands -> Chains]
    /\ tagged \subseteq Commands
    /\ folder \in [Tasks -> Folders \cup {None}]
    /\ total \in [Commands -> [Folders -> Int \cup {None}]]
    /\ tasks \in [Commands -> [Folders -> SUBSET Tasks]]
    /\ pc \in [Tasks -> PCs]
    /\ lock \in Tasks \cup {None}
    /\ files \in [Tasks -> SUBSET Tasks]
    /\ lost \subseteq Tasks

\* What a folder waits for, as long as nobody has cancelled the command: its
\* own links that are not settled, and all that have not started.
TotalsCount ==
    \A c \in Commands :
        chain[c] # "cancelled" =>
            \A f \in Known(c) : total[c][f] = Cardinality(tasks[c][f]) + Multi[c] - seen[c]

\* "all links will be uploaded together as one task" (help_messages.py), for a
\* command that nobody cancels, up to what an error deletes: who uploads from
\* a folder has the files of all its links, and no link is still to come.
UploadedTogether ==
    \A t \in Tasks :
        pc[t] = "upload" /\ folder[t] # None /\ chain[t[1]] # "cancelled" =>
            /\ files[t] = {u \in TasksOf(t[1]) : folder[u] = folder[t] /\ pc[u] # "failed"} \ lost
            /\ tasks[t[1]][folder[t]] = {t}
            /\ seen[t[1]] = Multi[t[1]]

\* Files that are being uploaded stay as they are, in a cancelled command too:
\* nobody merges into a link that does not wait any more.
NoLateFiles ==
    [][\A t \in Tasks : pc[t] = "upload" => files'[t] = files[t]]_vars

\* Who waits for its folder, and keeps the lock, waits for something: it is the
\* last, or another link is there to take its files, or the chain of its command
\* has links to start - which a chain that broke does not.  Errors and cancels
\* leave no total that counts on a link that is gone.
SomebodyAwaited ==
    \A t \in Tasks :
        lock = t /\ Member(t) =>
            \/ total[t[1]][folder[t]] <= 1
            \/ tasks[t[1]][folder[t]] # {t}
            \/ seen[t[1]] < Multi[t[1]] /\ chain[t[1]] \in {"sleep", "cancelling", "broken"}

\* A completed download that waits for its folder holds a lock of the whole
\* bot: it is let go unless some chain broke without taking its links back.
LockReleased ==
    lock # None ~> lock = None \/ \E c \in Commands : chain[c] = "broken"

=============================================================================
