----------------------------- MODULE TaskQueue -----------------------------
(***************************************************************************)
(* The admission queues of the mirror/leech bot: the two waiting queues    *)
(* (queued_dl, queued_up), the two sets of admitted tasks (non_queued_dl,  *)
(* non_queued_up), the table of active tasks (task_dict), and the          *)
(* coroutines that move a task through them.                               *)
(*                                                                         *)
(* The bot runs on one asyncio loop, so a coroutine is interrupted only    *)
(* where it suspends.  No coroutine suspends while it holds                *)
(* queue_dict_lock, hence every critical section of that lock, and a       *)
(* start_from_queued() called right after it, is one action.  task_dict is *)
(* guarded by task_dict_lock, which the status updater holds across        *)
(* network calls: acquiring it suspends, and every block under it is an    *)
(* action of its own.                                                      *)
(*                                                                         *)
(* Each task has a main coroutine (pc) that downloads, processes and       *)
(* uploads, and a second coroutine (handler) that a cancel command or the  *)
(* download engine starts: on_download_error / on_upload_error.  Either is *)
(* a background task of the loop: an exception that it does not catch ends *)
(* it where it is.                                                         *)
(***************************************************************************)
EXTENDS Integers, FiniteSets, Sequences

CONSTANTS
    Tasks,        \* message ids (listener.mid), one per task
    EngineTasks,  \* downloaded by aria2, qBittorrent or SABnzbd
    SeedTasks,    \* torrents that seed after the upload
    ForceRun,     \* started with -f
    Cancellable,  \* somebody may cancel these
    Fragile,      \* an await of these may raise where nobody catches it
    Forceable,    \* started with -fd or -fu, or force-started later, if at all
    LimitChoices  \* the values of QUEUE_ALL, QUEUE_DOWNLOAD, QUEUE_UPLOAD

ASSUME TaskAssumption ==
    /\ IsFiniteSet(Tasks)
    /\ EngineTasks \subseteq Tasks
    /\ SeedTasks \subseteq EngineTasks
    /\ ForceRun \cup Cancellable \cup Fragile \cup Forceable \subseteq Tasks
    /\ LimitChoices \subseteq [all : Nat, dl : Nat, up : Nat]

VARIABLES
    limits,       \* Config.QUEUE_ALL / QUEUE_DOWNLOAD / QUEUE_UPLOAD, 0 = none
    refillDue,    \* a settings edit has not yet called start_from_queued
    queuedDl,     \* queued_dl: insertion-ordered dict of waiting downloads
    queuedUp,     \* queued_up
    nonQueuedDl,  \* non_queued_dl: admitted downloads
    nonQueuedUp,  \* non_queued_up: admitted uploads
    signalled,    \* tasks whose current queue event is set
    taskDict,     \* the mids that task_dict holds
    pc,           \* where the main coroutine of a task is
    handler,      \* where its error/cancel coroutine is
    cancelled,    \* listener.is_cancelled
    failed,       \* the engine reported an error or a duplicate
    forceDl,      \* listener.force_download
    forceUp,      \* listener.force_upload
    broken        \* tasks that lost a coroutine to an exception (history)

queueVars == <<queuedDl, queuedUp, nonQueuedDl, nonQueuedUp, signalled>>
flagVars == <<cancelled, failed, forceDl, forceUp, broken>>
confVars == <<limits, refillDue>>
vars == <<confVars, queueVars, taskDict, pc, handler, flagVars>>

PCs == {"new", "addQueued", "add", "waitDl", "resume", "dl", "dlDone", "post",
        "proc", "procRun", "checkUp", "enqUp", "waitUp", "regUp", "up", "fin",
        "finQueue", "seedReg", "seed", "errDict", "errQueue", "done"}

Elems(s) == {s[i] : i \in 1 .. Len(s)}

\* del queued[mid], a no-op when the key is absent
Without(s, t) ==
    IF t \in Elems(s)
    THEN LET k == CHOOSE i \in 1 .. Len(s) : s[i] = t
         IN SubSeq(s, 1, k - 1) \o SubSeq(s, k + 1, Len(s))
    ELSE s

Lesser(a, b) == IF a < b THEN a ELSE b

-----------------------------------------------------------------------------
(* check_running_tasks: is a task of one kind to wait? *)

\* Broken on purpose: the comparisons are off by one.
OverLimitOffByOne(stateLimit, count, total) ==
    \/ limits.all > 0 /\ total > limits.all /\ (stateLimit = 0 \/ count > stateLimit)
    \/ stateLimit > 0 /\ count > stateLimit

OverLimit(stateLimit, count, total) ==
    \/ /\ limits.all > 0 /\ total >= limits.all
       /\ stateLimit = 0 \/ count >= stateLimit
    \/ stateLimit > 0 /\ count >= stateLimit

MustQueueDl(t) ==
    /\ t \notin ForceRun \cup forceDl
    /\ OverLimit(limits.dl, Cardinality(nonQueuedDl),
                 Cardinality(nonQueuedDl) + Cardinality(nonQueuedUp))

\* The upload variant has already given the download slot back.
MustQueueUp(t) ==
    /\ t \notin ForceRun \cup forceUp
    /\ OverLimit(limits.up, Cardinality(nonQueuedUp),
                 Cardinality(nonQueuedDl \ {t}) + Cardinality(nonQueuedUp))

(* start_from_queued: how many heads of a queue are started. *)

Room(queue, limit, used) ==
    IF limit = 0 THEN Len(queue)
    ELSE IF used < limit THEN Lesser(Len(queue), limit - used) ELSE 0

UpRoom(qu, nd, nu) ==
    LET free == limits.all - (Cardinality(nd) + Cardinality(nu))
        room == Room(qu, limits.up, Cardinality(nu))
    IN IF limits.all = 0 THEN room
       ELSE IF free > 0 THEN Lesser(room, free) ELSE 0

DlRoom(qd, qu, nd, nu) ==
    LET free == limits.all - (Cardinality(nd) + Cardinality(nu)) - UpRoom(qu, nd, nu)
        room == Room(qd, limits.dl, Cardinality(nd))
    IN IF limits.all = 0 THEN room
       ELSE IF free > 0 THEN Lesser(room, free) ELSE 0

\* Broken on purpose: the started tasks are not deleted from the queues.
StartFirstKeepsQueue(qd, qu, nd, nu, sg, kd, ku) ==
    LET dls == Elems(SubSeq(qd, 1, kd))
        ups == Elems(SubSeq(qu, 1, ku))
    IN /\ queuedDl' = qd /\ queuedUp' = qu
       /\ nonQueuedDl' = nd \cup dls /\ nonQueuedUp' = nu \cup ups
       /\ signalled' = sg \cup dls \cup ups

\* Move the first ku uploads and kd downloads to the admitted sets and set
\* their events (start_up_from_queued, start_dl_from_queued).
StartFirst(qd, qu, nd, nu, sg, kd, ku) ==
    LET dls == Elems(SubSeq(qd, 1, kd))
        ups == Elems(SubSeq(qu, 1, ku))
    IN /\ queuedDl' = SubSeq(qd, kd + 1, Len(qd))
       /\ queuedUp' = SubSeq(qu, ku + 1, Len(qu))
       /\ nonQueuedDl' = nd \cup dls
       /\ nonQueuedUp' = nu \cup ups
       /\ signalled' = sg \cup dls \cup ups

\* start_from_queued, entered with the given queues, sets and set events
StartFromQueued(qd, qu, nd, nu, sg) ==
    StartFirst(qd, qu, nd, nu, sg, DlRoom(qd, qu, nd, nu), UpRoom(qu, nd, nu))

\* Broken on purpose: the event of a dropped task is not set.
ReleaseAllSilently(t) ==
    StartFromQueued(Without(queuedDl, t), Without(queuedUp, t),
                    nonQueuedDl \ {t}, nonQueuedUp \ {t}, signalled)

\* Broken on purpose: the error handlers forget the upload slot.
ReleaseAllKeepsUpSlot(t) ==
    StartFromQueued(Without(queuedDl, t), Without(queuedUp, t),
                    nonQueuedDl \ {t}, nonQueuedUp,
                    IF t \in Elems(queuedDl) \cup Elems(queuedUp)
                    THEN signalled \cup {t} ELSE signalled)

\* The queue part of on_download_error and on_upload_error, and the refill
\* that follows: wake the task if it waits, give back whatever it holds.
ReleaseAll(t) ==
    StartFromQueued(Without(queuedDl, t), Without(queuedUp, t),
                    nonQueuedDl \ {t}, nonQueuedUp \ {t},
                    IF t \in Elems(queuedDl) \cup Elems(queuedUp)
                    THEN signalled \cup {t} ELSE signalled)

Goto(t, next) == pc' = [pc EXCEPT ![t] = next]

-----------------------------------------------------------------------------
(* The download half of the main coroutine (add_*_download). *)

\* check_running_tasks(listener): wait in queued_dl, or take a download slot
CheckDl(t) ==
    /\ pc[t] = "new"
    /\ IF MustQueueDl(t)
       THEN /\ queuedDl' = Append(queuedDl, t)
            /\ Goto(t, "addQueued")
            /\ UNCHANGED nonQueuedDl
       ELSE /\ nonQueuedDl' = nonQueuedDl \cup {t}
            /\ Goto(t, "add")
            /\ UNCHANGED queuedDl
    /\ UNCHANGED <<confVars, queuedUp, nonQueuedUp, signalled, taskDict, handler, flagVars>>

\* task_dict[mid] = QueueStatus(...) (or the engine's status with queued=True);
\* "waitDl" is all that comes between this and the end of event.wait()
RegisterQueued(t) ==
    /\ pc[t] = "addQueued"
    /\ taskDict' = taskDict \cup {t}
    /\ Goto(t, "waitDl")
    /\ UNCHANGED <<confVars, queueVars, handler, flagVars>>

\* event.wait() returns; a cancelled task stops here
WakeDl(t) ==
    /\ pc[t] = "waitDl"
    /\ t \in signalled
    /\ Goto(t, IF t \in cancelled THEN "done"
               ELSE IF t \in EngineTasks THEN "resume" ELSE "add")
    /\ UNCHANGED <<confVars, queueVars, taskDict, handler, flagVars>>

\* An engine task clears "queued" on its entry of task_dict; when a cancel has
\* deleted the entry the KeyError ends the coroutine (aria2) or is handled as
\* a download error (qBittorrent, SABnzbd).
ResumeEngine(t) ==
    /\ pc[t] = "resume"
    /\ IF t \in taskDict THEN Goto(t, "dl")
       ELSE Goto(t, "done") \/ Goto(t, "errDict")
    /\ UNCHANGED <<confVars, queueVars, taskDict, handler, flagVars>>

\* task_dict[mid] = the downloader's status object
Register(t) ==
    /\ pc[t] = "add"
    /\ taskDict' = taskDict \cup {t}
    /\ Goto(t, "dl")
    /\ UNCHANGED <<confVars, queueVars, handler, flagVars>>

\* A downloader that sees is_cancelled returns; an engine event for a task that
\* is no longer in task_dict finds nobody to report to.
DlAbandoned(t) ==
    /\ pc[t] = "dl"
    /\ t \in cancelled \/ (t \in EngineTasks /\ t \notin taskDict)
    /\ Goto(t, "done")
    /\ UNCHANGED <<confVars, queueVars, taskDict, handler, flagVars>>

DlFinished(t) ==
    /\ pc[t] = "dl"
    /\ t \notin cancelled
    /\ t \in EngineTasks => t \in taskDict
    /\ Goto(t, "dlDone")
    /\ UNCHANGED <<confVars, queueVars, taskDict, handler, flagVars>>

DlFailed(t) ==
    /\ pc[t] = "dl"
    /\ t \notin cancelled
    /\ t \in EngineTasks => t \in taskDict
    /\ Goto(t, "errDict")
    /\ UNCHANGED <<confVars, queueVars, taskDict, handler, flagVars>>

-----------------------------------------------------------------------------
(* on_download_complete: processing, then the upload half. *)

\* the re-check under task_dict_lock after the two-second sleep
CompleteStart(t) ==
    /\ pc[t] = "dlDone"
    /\ Goto(t, IF t \in cancelled \/ t \notin taskDict THEN "done" ELSE "post")
    /\ UNCHANGED <<confVars, queueVars, taskDict, handler, flagVars>>

\* nothing to upload: on_upload_error
NothingToUpload(t) ==
    /\ pc[t] = "post"
    /\ Goto(t, "errDict")
    /\ UNCHANGED <<confVars, queueVars, taskDict, handler, flagVars>>

\* Without QUEUE_ALL the download slot is given back before processing starts.
FreeDownloadSlot(t) ==
    /\ pc[t] = "post"
    /\ IF limits.all = 0
       THEN StartFromQueued(queuedDl, queuedUp, nonQueuedDl \ {t}, nonQueuedUp, signalled)
       ELSE UNCHANGED queueVars
    /\ Goto(t, "proc")
    /\ UNCHANGED <<confVars, taskDict, handler, flagVars>>

\* a processing stage (extract, convert, compress, split, ...) registers itself
StageStart(t) ==
    /\ pc[t] = "proc"
    /\ taskDict' = taskDict \cup {t}
    /\ Goto(t, "procRun")
    /\ UNCHANGED <<confVars, queueVars, handler, flagVars>>

StageEnd(t) ==
    /\ pc[t] = "procRun"
    /\ Goto(t, IF t \in cancelled THEN "done" ELSE "checkUp")
    /\ UNCHANGED <<confVars, queueVars, taskDict, handler, flagVars>>

\* no stage is requested: is_cancelled is not looked at again
NoStages(t) ==
    /\ pc[t] = "proc"
    /\ Goto(t, "checkUp")
    /\ UNCHANGED <<confVars, queueVars, taskDict, handler, flagVars>>

\* check_running_tasks(self, "up"), then start_from_queued()
CheckUp(t) ==
    /\ pc[t] = "checkUp"
    /\ IF MustQueueUp(t)
       THEN /\ StartFromQueued(queuedDl, Append(queuedUp, t), nonQueuedDl \ {t},
                               nonQueuedUp, signalled \ {t})
            /\ Goto(t, "enqUp")
       ELSE /\ StartFromQueued(queuedDl, queuedUp, nonQueuedDl \ {t},
                               nonQueuedUp \cup {t}, signalled)
            /\ Goto(t, "regUp")
    /\ UNCHANGED <<confVars, taskDict, handler, flagVars>>

\* task_dict[mid] = QueueStatus(self, gid, "Up")
RegisterQueuedUp(t) ==
    /\ pc[t] = "enqUp"
    /\ taskDict' = taskDict \cup {t}
    /\ Goto(t, "waitUp")
    /\ UNCHANGED <<confVars, queueVars, handler, flagVars>>

WakeUp(t) ==
    /\ pc[t] = "waitUp"
    /\ t \in signalled
    /\ Goto(t, IF t \in cancelled THEN "done" ELSE "regUp")
    /\ UNCHANGED <<confVars, queueVars, taskDict, handler, flagVars>>

\* task_dict[mid] = the uploader's status object, then the upload starts
RegisterUp(t) ==
    /\ pc[t] = "regUp"
    /\ taskDict' = taskDict \cup {t}
    /\ Goto(t, "up")
    /\ UNCHANGED <<confVars, queueVars, handler, flagVars>>

\* an uploader that sees is_cancelled returns without calling the listener
UpAbandoned(t) ==
    /\ pc[t] = "up"
    /\ t \in cancelled
    /\ Goto(t, "done")
    /\ UNCHANGED <<confVars, queueVars, taskDict, handler, flagVars>>

UpFailed(t) ==
    /\ pc[t] = "up"
    /\ t \notin cancelled
    /\ Goto(t, "errDict")
    /\ UNCHANGED <<confVars, queueVars, taskDict, handler, flagVars>>

UpFinished(t) ==
    /\ pc[t] = "up"
    /\ t \notin cancelled
    /\ Goto(t, "fin")
    /\ UNCHANGED <<confVars, queueVars, taskDict, handler, flagVars>>

\* on_upload_complete of a task that does not seed: first task_dict ...
UploadComplete(t) ==
    /\ pc[t] = "fin"
    /\ t \notin SeedTasks
    /\ taskDict' = taskDict \ {t}
    /\ Goto(t, "finQueue")
    /\ UNCHANGED <<confVars, queueVars, handler, flagVars>>

\* Broken on purpose: the freed slot is offered to nobody.
FreeUploadSlotNoRefill(t) ==
    /\ pc[t] = "finQueue" \/ (pc[t] = "fin" /\ t \in SeedTasks)
    /\ nonQueuedUp' = nonQueuedUp \ {t}
    /\ Goto(t, IF t \in SeedTasks THEN "seedReg" ELSE "done")
    /\ UNCHANGED <<confVars, queuedDl, queuedUp, nonQueuedDl, signalled, taskDict,
                   handler, flagVars>>

\* ... and, after a status update, the upload slot
FreeUploadSlot(t) ==
    /\ pc[t] = "finQueue" \/ (pc[t] = "fin" /\ t \in SeedTasks)
    /\ StartFromQueued(queuedDl, queuedUp, nonQueuedDl, nonQueuedUp \ {t}, signalled)
    /\ Goto(t, IF t \in SeedTasks THEN "seedReg" ELSE "done")
    /\ UNCHANGED <<confVars, taskDict, handler, flagVars>>

\* a seeding torrent keeps its entry, unless it was cancelled meanwhile
StartSeeding(t) ==
    /\ pc[t] = "seedReg"
    /\ Goto(t, IF t \in cancelled \/ t \notin taskDict THEN "done" ELSE "seed")
    /\ UNCHANGED <<confVars, queueVars, taskDict, handler, flagVars>>

\* the seeding goal is reached: on_upload_error, if the entry is still there
SeedFinished(t) ==
    /\ pc[t] = "seed"
    /\ Goto(t, IF t \in taskDict THEN "errDict" ELSE "done")
    /\ UNCHANGED <<confVars, queueVars, taskDict, handler, flagVars>>

\* on_download_error / on_upload_error called by the main coroutine
ErrorDict(t) ==
    /\ pc[t] = "errDict"
    /\ taskDict' = taskDict \ {t}
    /\ Goto(t, "errQueue")
    /\ UNCHANGED <<confVars, queueVars, handler, flagVars>>

ErrorQueue(t) ==
    /\ pc[t] = "errQueue"
    /\ ReleaseAll(t)
    /\ Goto(t, "done")
    /\ UNCHANGED <<confVars, taskDict, handler, flagVars>>

-----------------------------------------------------------------------------
(* The second coroutine of a task: cancel commands and engine errors. *)

\* cancel: the status object found in task_dict sets is_cancelled and calls
\* the error handler of its stage
Cancel(t) ==
    /\ t \in taskDict \cap Cancellable
    /\ handler[t] = "idle"
    /\ cancelled' = cancelled \cup {t}
    /\ handler' = [handler EXCEPT ![t] = "dict"]
    /\ UNCHANGED <<confVars, queueVars, taskDict, pc, failed, forceDl, forceUp, broken>>

\* The listeners of the engines call on_download_error (a duplicate found some
\* seconds after the start, a dead torrent, metadata that never came) without
\* setting is_cancelled and whatever the main coroutine is doing by then, be it
\* waiting in a queue.
EngineError(t) ==
    /\ t \in EngineTasks \cap taskDict
    /\ handler[t] = "idle"
    /\ t \notin failed
    /\ failed' = failed \cup {t}
    /\ handler' = [handler EXCEPT ![t] = "dict"]
    /\ UNCHANGED <<confVars, queueVars, taskDict, pc, cancelled, forceDl, forceUp, broken>>

HandlerDict(t) ==
    /\ handler[t] = "dict"
    /\ taskDict' = taskDict \ {t}
    /\ handler' = [handler EXCEPT ![t] = "queue"]
    /\ UNCHANGED <<confVars, queueVars, pc, flagVars>>

HandlerQueue(t) ==
    /\ handler[t] = "queue"
    /\ ReleaseAll(t)
    /\ handler' = [handler EXCEPT ![t] = "idle"]
    /\ UNCHANGED <<confVars, taskDict, pc, flagVars>>

-----------------------------------------------------------------------------
(* Exceptions, caught and uncaught *)

\* What the downloader catches, up to the start of the download, ends in
\* on_download_error.  qBittorrent, SABnzbd and JDownloader catch what the
\* registration and the resumption raise as well, aria2 only what addUri raises.
AddFails(t) ==
    /\ pc[t] \in {"addQueued", "add", "waitDl", "resume"}
    /\ Goto(t, "errDict")
    /\ UNCHANGED <<confVars, queueVars, taskDict, handler, flagVars>>

\* Where the main coroutine awaits an RPC, the database or the file system
\* outside any try.  What it leaves behind stays: its places in the queues, its
\* slots, and its entry of task_dict, by which it can still be cancelled.
CoroutineDies(t) ==
    /\ t \in Fragile
    /\ pc[t] \in PCs \ {"new", "enqUp", "waitUp", "errDict", "done"}
    /\ Goto(t, "done")
    /\ broken' = broken \cup {t}
    /\ UNCHANGED <<confVars, queueVars, taskDict, handler, cancelled, failed, forceDl, forceUp>>

\* on_download_error / on_upload_error of the second coroutine: the status
\* update and the incomplete-task store come before the queues.
HandlerDies(t) ==
    /\ t \in Fragile
    /\ handler[t] = "queue"
    /\ handler' = [handler EXCEPT ![t] = "idle"]
    /\ broken' = broken \cup {t}
    /\ UNCHANGED <<confVars, queueVars, taskDict, pc, cancelled, failed, forceDl, forceUp>>

-----------------------------------------------------------------------------
(* Operators of the bot: force start and settings. *)

\* Broken on purpose: a force-started download is not counted.
StartOneDlUncounted(t) ==
    /\ queuedDl' = Without(queuedDl, t)
    /\ signalled' = signalled \cup {t}
    /\ UNCHANGED <<queuedUp, nonQueuedDl, nonQueuedUp>>

\* start_dl_from_queued, start_up_from_queued for one task
StartOneDl(t) ==
    /\ queuedDl' = Without(queuedDl, t)
    /\ nonQueuedDl' = nonQueuedDl \cup {t}
    /\ signalled' = signalled \cup {t}
    /\ UNCHANGED <<queuedUp, nonQueuedUp>>

StartOneUp(t) ==
    /\ queuedUp' = Without(queuedUp, t)
    /\ nonQueuedUp' = nonQueuedUp \cup {t}
    /\ signalled' = signalled \cup {t}
    /\ UNCHANGED <<queuedDl, nonQueuedDl>>

\* /forcestart with fd, fu or neither (both)
ForceStart(t, d, u) ==
    /\ t \in taskDict \cap Forceable
    /\ d \/ u
    /\ forceDl' = IF d THEN forceDl \cup {t} ELSE forceDl
    /\ forceUp' = IF u THEN forceUp \cup {t} ELSE forceUp
    /\ CASE u /\ t \in Elems(queuedUp) -> StartOneUp(t)
         [] d /\ t \in Elems(queuedDl) /\ ~(u /\ t \in Elems(queuedUp)) -> StartOneDl(t)
         [] OTHER -> UNCHANGED queueVars
    /\ UNCHANGED <<confVars, taskDict, pc, handler, cancelled, failed, broken>>

\* A settings edit stores the value at once and refills after a few awaits.
\* The refills of edits that overlap are one: the first finds every value stored.
EditLimits(new) ==
    /\ new # limits
    /\ limits' = new
    /\ refillDue' = TRUE
    /\ UNCHANGED <<queueVars, taskDict, pc, handler, flagVars>>

\* Broken on purpose: the settings menu does not refill.
RefillAfterEditMissing ==
    /\ refillDue
    /\ refillDue' = FALSE
    /\ UNCHANGED <<limits, queueVars, taskDict, pc, handler, flagVars>>

RefillAfterEdit ==
    /\ refillDue
    /\ StartFromQueued(queuedDl, queuedUp, nonQueuedDl, nonQueuedUp, signalled)
    /\ refillDue' = FALSE
    /\ UNCHANGED <<limits, taskDict, pc, handler, flagVars>>

-----------------------------------------------------------------------------

Init ==
    /\ limits \in LimitChoices
    /\ refillDue = FALSE
    /\ queuedDl = <<>> /\ queuedUp = <<>>
    /\ nonQueuedDl = {} /\ nonQueuedUp = {}
    /\ signalled = {} /\ taskDict = {}
    /\ pc = [t \in Tasks |-> "new"]
    /\ handler = [t \in Tasks |-> "idle"]
    /\ cancelled = {} /\ failed = {} /\ broken = {}
    /\ forceDl \in SUBSET Forceable /\ forceUp \in SUBSET Forceable

DownloadStep(t) ==
    \/ CheckDl(t) \/ RegisterQueued(t) \/ WakeDl(t)
    \/ ResumeEngine(t) \/ Register(t)
    \/ DlAbandoned(t) \/ DlFinished(t) \/ DlFailed(t)

UploadStep(t) ==
    \/ CompleteStart(t) \/ NothingToUpload(t) \/ FreeDownloadSlot(t)
    \/ StageStart(t) \/ StageEnd(t) \/ NoStages(t)
    \/ CheckUp(t) \/ RegisterQueuedUp(t) \/ WakeUp(t) \/ RegisterUp(t)
    \/ UpAbandoned(t) \/ UpFailed(t) \/ UpFinished(t)
    \/ UploadComplete(t) \/ FreeUploadSlot(t) \/ StartSeeding(t) \/ SeedFinished(t)
    \/ ErrorDict(t) \/ ErrorQueue(t)

HandlerStep(t) == HandlerDict(t) \/ HandlerQueue(t)

ExceptionStep(t) == AddFails(t) \/ CoroutineDies(t) \/ HandlerDies(t)

Next ==
    \/ \E t \in Tasks : DownloadStep(t) \/ UploadStep(t) \/ HandlerStep(t)
    \/ \E t \in Tasks : Cancel(t) \/ EngineError(t) \/ ExceptionStep(t)
    \/ \E t \in Tasks, d, u \in BOOLEAN : ForceStart(t, d, u)
    \/ \E new \in LimitChoices : EditLimits(new)
    \/ RefillAfterEdit

Spec == Init /\ [][Next]_vars

\* The loop runs every ready coroutine, every started transfer ends (the
\* engines retry a bounded number of times), and a settings edit completes.
\* Nobody has to cancel, force or edit anything, and no exception has to come.
Fairness ==
    /\ \A t \in Tasks : WF_vars(DownloadStep(t)) /\ WF_vars(UploadStep(t))
                        /\ WF_vars(HandlerStep(t))
    /\ WF_vars(RefillAfterEdit)

FairSpec == Spec /\ Fairness

-----------------------------------------------------------------------------
(* What the queues promise *)

\* Every variable keeps its shape; in particular the waiting queues stay
\* dictionaries: no mid is in one of them twice.
TypeOK ==
    /\ limits \in LimitChoices /\ refillDue \in BOOLEAN
    /\ queuedDl \in Seq(Tasks) /\ queuedUp \in Seq(Tasks)
    /\ nonQueuedDl \subseteq Tasks /\ nonQueuedUp \subseteq Tasks
    /\ signalled \subseteq Tasks /\ taskDict \subseteq Tasks
    /\ pc \in [Tasks -> PCs]
    /\ handler \in [Tasks -> {"idle", "dict", "queue"}]
    /\ cancelled \subseteq Tasks /\ failed \subseteq Tasks /\ broken \subseteq Tasks
    /\ forceDl \subseteq Tasks /\ forceUp \subseteq Tasks

NoRepeats(s) == \A i, j \in 1 .. Len(s) : s[i] = s[j] => i = j

\* A task waits in at most one queue and holds at most one slot, and never does
\* both: the counts that check_running_tasks compares with the limits count no
\* task twice, whatever the order of cancels, force starts and refills.
OnePlace ==
    /\ NoRepeats(queuedDl) /\ NoRepeats(queuedUp)
    /\ Elems(queuedDl) \cap (Elems(queuedUp) \cup nonQueuedDl \cup nonQueuedUp) = {}
    /\ Elems(queuedUp) \cap (nonQueuedDl \cup nonQueuedUp) = {}
    /\ nonQueuedDl \cap nonQueuedUp = {}


\* No lost wake-up: a coroutine that waits for its queue event, or is about to,
\* can still be found in the queue by whoever is to set the event, or the event
\* is already set.  An event dropped from the dict unset would wait forever.
NoLostWakeup ==
    \A t \in Tasks :
        /\ pc[t] \in {"addQueued", "waitDl"} => t \in signalled \cup Elems(queuedDl)
        /\ pc[t] \in {"enqUp", "waitUp"} => t \in signalled \cup Elems(queuedUp)

\* Work conservation: outside the gap of a settings edit nobody waits while
\* start_from_queued would start somebody; each place that gives a slot back
\* remembers to refill.
NoIdleCapacity ==
    ~refillDue =>
        /\ UpRoom(queuedUp, nonQueuedDl, nonQueuedUp) = 0
        /\ DlRoom(queuedDl, queuedUp, nonQueuedDl, nonQueuedUp) = 0

\* A transfer that nobody stopped runs on a slot: no refill, force start or
\* handler of another task takes the slot of a running task away.
RunningHaveSlots ==
    \A t \in Tasks \ (cancelled \cup failed) :
        /\ pc[t] \in {"add", "resume", "dl", "dlDone"} => t \in nonQueuedDl
        /\ pc[t] \in {"regUp", "up"} => t \in nonQueuedUp

\* A slot that outlives its task
Leaked(t) ==
    /\ pc[t] = "done" /\ handler[t] = "idle"
    /\ t \in nonQueuedDl \cup nonQueuedUp

\* An error that reaches on_download_error or on_upload_error gives everything
\* back, also when the engine reports it beside the main coroutine, in whatever
\* state that is.  Slots are lost in two ways only.  A cancel releases the slot
\* beside the main coroutine, check_running_tasks(self, "up"), which does not
\* look at is_cancelled, takes another one, and the uploader that sees
\* is_cancelled returns without freeing it.  And an exception that nobody
\* catches ends a coroutine that holds a slot.
HandledErrorsLeakNothing ==
    \A t \in Tasks : Leaked(t) => t \in cancelled \cup broken

\* The limits: a task that enters an admitted set without being forced finds
\* room for itself.  QUEUE_ALL binds a kind that has no limit of its own;
\* check_running_tasks lets a kind with a limit of its own exceed it.
AdmissionWithinLimits ==
    LET total == Cardinality(nonQueuedDl') + Cardinality(nonQueuedUp')
    IN /\ \A t \in (nonQueuedDl' \ nonQueuedDl) \ (ForceRun \cup forceDl') :
             /\ limits.dl > 0 => Cardinality(nonQueuedDl') <= limits.dl
             /\ limits.all > 0 /\ limits.dl = 0 => total <= limits.all
       /\ \A t \in (nonQueuedUp' \ nonQueuedUp) \ (ForceRun \cup forceUp') :
             /\ limits.up > 0 => Cardinality(nonQueuedUp') <= limits.up
             /\ limits.all > 0 /\ limits.up = 0 => total <= limits.all

LimitsRespected == [][AdmissionWithinLimits]_vars

\* Every task ends, unless a leaked slot stays for ever: the queues move, no
\* wake-up is lost, no settings edit or force start strands a task, and what a
\* dead coroutine has left in a queue holds nobody up before it has got a slot.
TasksEnd ==
    <>[](\E t \in Tasks : Leaked(t)) \/ \A t \in Tasks : <>(pc[t] = "done")

=============================================================================
