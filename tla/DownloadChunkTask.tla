------------------------- MODULE DownloadChunkTask -------------------------
(***************************************************************************)
(* DownloadChunkTask of cyfs-stack                                         *)
(* (src/.../trans_api/local/task/chunk_task.rs): the task-manager task     *)
(* that drives one bdt chunk download.  Its state is                       *)
(*   session      async Mutex<Option<String>>: the bdt download id         *)
(*   task_status  Mutex<TaskStatus>: the in-memory status                  *)
(* and the status persisted in the TaskStore.  start/pause/stop/           *)
(* get_task_detail_status are called concurrently by the task manager and *)
(* by users.  Each call is split at its awaits: start_task holds the       *)
(* session lock for its whole body; the others take it for one statement  *)
(* (clone or take) and write task_status and the store afterwards.         *)
(*                                                                         *)
(* The bdt download group (sub_task, pause, cancel, state) is not under    *)
(* src/: a bdt session is an id with a state; the environment finishes or *)
(* fails a downloading one, and a call on an ended session may be told    *)
(* NotFound or an error, or succeed without effect.                        *)
(***************************************************************************)
EXTENDS Naturals, FiniteSets

CONSTANTS
  Calls,        \* concurrent callers (model values)
  Kind,         \* Calls -> {"start", "pause", "stop", "detail"}
  MaxSessions,  \* bound on bdt download sessions created
  MayRestart    \* may the process restart

NoSession == 0
NoCall == "none"
Ids == 1 .. MaxSessions
\* DownloadTaskState of a bdt session; "Canceled" is Error(Interrupted)
Live == {"Downloading", "Paused"}
Ended == {"Canceled", "Finished", "Failed"}

VARIABLES
  session,     \* self.session: NoSession or a bdt id
  status,      \* self.task_status
  stored,      \* the status last saved by task_store.save_task_status
  bdt,         \* bdt download group: id -> "none" | Live | Ended
  nextId,      \* next bdt id
  lockOwner,   \* the start_task call holding the session lock, or NoCall
  pc,          \* step of each call
  held,        \* the id a call cloned or took out of session
  val          \* the status a call writes and saves

vars == <<session, status, stored, bdt, nextId, lockOwner, pc, held, val>>

(***************************************************************************)
(* start_task                                                              *)
(***************************************************************************)
\* session.lock().await, then return Ok if task_status is Running
StartLock(c) ==
  /\ Kind[c] = "start" /\ pc[c] = "idle" /\ lockOwner = NoCall
  /\ IF status = "Running"
     THEN UNCHANGED <<pc, lockOwner>>
     ELSE /\ lockOwner' = c
          /\ pc' = [pc EXCEPT ![c] = "create"]
  /\ UNCHANGED <<session, status, stored, bdt, nextId, held, val>>

\* mutant: the session guard is dropped once the id is stored, before the
\* status write and save
StartCreateEarlyUnlock(c) ==
  /\ pc[c] = "create"
  /\ \/ /\ lockOwner' = NoCall
        /\ pc' = [pc EXCEPT ![c] = "idle"]
        /\ UNCHANGED <<session, status, bdt, nextId, val>>
     \/ /\ nextId <= MaxSessions
        /\ bdt' = [bdt EXCEPT ![nextId] = "Downloading"]
        /\ session' = nextId
        /\ nextId' = nextId + 1
        /\ status' = "Running"
        /\ pc' = [pc EXCEPT ![c] = "save"]
        /\ val' = [val EXCEPT ![c] = "Running"]
        /\ lockOwner' = NoCall
  /\ UNCHANGED <<stored, held>>

\* id_streams + download_chunk: on error return Err (the guard is dropped);
\* on success *session = Some(id) and task_status = Running
StartCreate(c) ==
  /\ pc[c] = "create"
  /\ \/ /\ lockOwner' = NoCall
        /\ pc' = [pc EXCEPT ![c] = "idle"]
        /\ UNCHANGED <<session, status, bdt, nextId, val>>
     \/ /\ nextId <= MaxSessions
        /\ bdt' = [bdt EXCEPT ![nextId] = "Downloading"]
        /\ session' = nextId
        /\ nextId' = nextId + 1
        /\ status' = "Running"
        /\ pc' = [pc EXCEPT ![c] = "save"]
        /\ val' = [val EXCEPT ![c] = "Running"]
        /\ UNCHANGED lockOwner
  /\ UNCHANGED <<stored, held>>

(***************************************************************************)
(* pause_task, stop_task, get_task_detail_status: the session lock is     *)
(* held only for the clone / take.                                         *)
(***************************************************************************)
PauseRead(c) ==
  /\ Kind[c] = "pause" /\ pc[c] = "idle" /\ lockOwner = NoCall
  /\ held' = [held EXCEPT ![c] = session]
  /\ val' = [val EXCEPT ![c] = "Paused"]
  /\ pc' = [pc EXCEPT ![c] = IF session = NoSession THEN "set" ELSE "op"]
  /\ UNCHANGED <<session, status, stored, bdt, nextId, lockOwner>>

StopTake(c) ==
  /\ Kind[c] = "stop" /\ pc[c] = "idle" /\ lockOwner = NoCall
  /\ held' = [held EXCEPT ![c] = session]
  /\ session' = NoSession
  /\ val' = [val EXCEPT ![c] = "Stopped"]
  /\ pc' = [pc EXCEPT ![c] = IF session = NoSession THEN "set" ELSE "op"]
  /\ UNCHANGED <<status, stored, bdt, nextId, lockOwner>>

\* sub_task(&id) then task.pause() / task.cancel(); an error returns Err
\* before task_status is written
BdtControl(c, target) ==
  /\ pc[c] = "op" /\ Kind[c] \in {"pause", "stop"}
  /\ \/ /\ bdt[held[c]] \in Live
        /\ bdt' = [bdt EXCEPT ![held[c]] = target]
        /\ pc' = [pc EXCEPT ![c] = "set"]
     \/ /\ bdt[held[c]] \in Ended
        /\ pc' \in {[pc EXCEPT ![c] = "idle"], [pc EXCEPT ![c] = "set"]}
        /\ UNCHANGED bdt
  /\ UNCHANGED <<session, status, stored, nextId, lockOwner, held, val>>

PauseOp(c) == Kind[c] = "pause" /\ BdtControl(c, "Paused")
StopOp(c) == Kind[c] = "stop" /\ BdtControl(c, "Canceled")

\* *self.task_status.lock().unwrap() = Paused / Stopped
SetStatus(c) ==
  /\ pc[c] = "set"
  /\ status' = val[c]
  /\ pc' = [pc EXCEPT ![c] = "save"]
  /\ UNCHANGED <<session, stored, bdt, nextId, lockOwner, held, val>>

\* task_store.save_task_status(..).await; start_task's guard drops here
Save(c) ==
  /\ pc[c] = "save"
  /\ stored' = val[c]
  /\ pc' = [pc EXCEPT ![c] = "idle"]
  /\ lockOwner' = IF lockOwner = c THEN NoCall ELSE lockOwner
  /\ UNCHANGED <<session, status, bdt, nextId, held, val>>

\* get_task_detail_status: clone the session; without one, task_status is
\* written Stopped after the session lock is dropped (SetStatus)
DetailRead(c) ==
  /\ Kind[c] = "detail" /\ pc[c] = "idle" /\ lockOwner = NoCall
  /\ held' = [held EXCEPT ![c] = session]
  /\ val' = [val EXCEPT ![c] = "Stopped"]
  /\ pc' = [pc EXCEPT ![c] = IF session = NoSession THEN "set" ELSE "op"]
  /\ UNCHANGED <<session, status, stored, bdt, nextId, lockOwner>>

\* task.state(): Error(other) -> Failed, Finished -> Finished (written and
\* saved); Downloading, Paused, Error(Interrupted) are only reported
DetailOp(c) ==
  /\ Kind[c] = "detail" /\ pc[c] = "op"
  /\ \/ /\ bdt[held[c]] \in {"Failed", "Finished"}
        /\ status' = bdt[held[c]]
        /\ val' = [val EXCEPT ![c] = bdt[held[c]]]
        /\ pc' = [pc EXCEPT ![c] = "save"]
     \/ /\ bdt[held[c]] \in Live \cup Ended
        /\ pc' = [pc EXCEPT ![c] = "idle"]
        /\ UNCHANGED <<status, val>>
  /\ UNCHANGED <<session, stored, bdt, nextId, lockOwner, held>>

\* environment: a downloading bdt session completes or fails
BdtEnd(id) ==
  /\ bdt[id] = "Downloading"
  /\ bdt' \in {[bdt EXCEPT ![id] = "Finished"], [bdt EXCEPT ![id] = "Failed"]}
  /\ UNCHANGED <<session, status, stored, nextId, lockOwner, pc, held, val>>

\* the process restarts: calls in flight are lost, the bdt downloads of the
\* old process end without completing, and the task manager rebuilds the
\* task with DownloadChunkTaskFactory::restore, which ignores the stored
\* status and calls DownloadChunkTask::new (session None, Stopped)
Restore ==
  /\ MayRestart
  /\ session' = NoSession
  /\ status' = "Stopped"
  /\ bdt' = [id \in Ids |-> IF bdt[id] \in Live THEN "Failed" ELSE bdt[id]]
  /\ lockOwner' = NoCall
  /\ pc' = [c \in Calls |-> "idle"]
  /\ held' = [c \in Calls |-> NoSession]
  /\ val' = [c \in Calls |-> "Stopped"]
  /\ UNCHANGED <<stored, nextId>>

Init ==
  /\ session = NoSession
  /\ status = "Stopped"
  /\ stored = "Stopped"
  /\ bdt = [id \in Ids |-> "none"]
  /\ nextId = 1
  /\ lockOwner = NoCall
  /\ pc = [c \in Calls |-> "idle"]
  /\ held = [c \in Calls |-> NoSession]
  /\ val = [c \in Calls |-> "Stopped"]

Next ==
  \/ \E c \in Calls :
       \/ StartLock(c) \/ StartCreate(c)
       \/ PauseRead(c) \/ PauseOp(c)
       \/ StopTake(c) \/ StopOp(c)
       \/ DetailRead(c) \/ DetailOp(c)
       \/ SetStatus(c) \/ Save(c)
  \/ \E id \in Ids : BdtEnd(id)
  \/ Restore

Spec == Init /\ [][Next]_vars

-----------------------------------------------------------------------------
Quiescent == \A c \in Calls : pc[c] = "idle"

(* start_task keeps the session lock across its awaits: from the moment  *)
(* it stores the new download id until it has saved Running, no stop_task *)
(* can take the id, so a start that returns Ok leaves the download it     *)
(* created as the task's session, whatever pause, stop and detail do.     *)
StartOwnsNewSession ==
  \A c \in Calls : (Kind[c] = "start" /\ pc[c] = "save") => session = nextId - 1

(* When no call is in flight and task_status says Running, the task holds *)
(* a bdt session; otherwise start_task returns Ok at once for ever and    *)
(* the task can never download again.                                     *)
RunningHasSession ==
  (Quiescent /\ status = "Running") => session /= NoSession

(* Every bdt download that is still live (downloading or paused) is the  *)
(* task's session or held by a call in flight: start_task never strands *)
(* a previous download it did not cancel.                                *)
NoOrphanSession ==
  \A id \in Ids :
    bdt[id] \in Live =>
      \/ id = session
      \/ \E c \in Calls : pc[c] /= "idle" /\ held[c] = id

(* When no call is in flight, the status saved in the task store is the  *)
(* in-memory task_status, so a restarted task manager resumes the task in *)
(* the state it was left in.                                              *)
StoreMatchesStatus == Quiescent => stored = status
(* At most one bdt download of the task is downloading at a time: a new  *)
(* one is started only when task_status says the task is not running.     *)
SingleDownload == Cardinality({id \in Ids : bdt[id] = "Downloading"}) <= 1
=============================================================================
