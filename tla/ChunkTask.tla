----------------------------- MODULE ChunkTask -----------------------------
(***************************************************************************)
(* ChunkTask of cyfs-bdt (src/.../ndn/download/chunk.rs): the download    *)
(* facade.  Its state is a control state Normal(waiters) | Canceled and a  *)
(* task state Downloading(context id, cache) | Error | Finished, both      *)
(* under one RwLock.  cancel() changes both under the lock, then wakes the *)
(* transferred waiters and removes the download context after releasing   *)
(* it.  wait_user_canceled() registers a waiter under the lock and then    *)
(* awaits it.  Callers of cancel are the task manager and the drop of a    *)
(* ChunkTaskReader; they may run concurrently.                             *)
(* StateWaiter (new_waiter / transfer / wake / wait) is not under src/;    *)
(* it is modelled as a set of registered waiters and a set of woken ones.  *)
(***************************************************************************)
EXTENDS Naturals

CONSTANTS
  Waiters,     \* concurrent wait_user_canceled calls (model values)
  Cancelers,   \* concurrent cancel calls (model values)
  Queriers     \* concurrent speed accessor calls (model values)

VARIABLES
  control,     \* "Normal" | "Canceled"
  task,        \* "Downloading" | "Error" | "Finished"
  waiters,     \* StateWaiter of Normal: registered waiters
  woken,       \* waiters woken by StateWaiter::wake
  wpc,         \* step of each wait_user_canceled call
  cpc,         \* step of each cancel call
  cw,          \* waiters a cancel call took out by transfer()
  cc,          \* did a cancel call take the Downloading (id, cache)
  removes,     \* remove_context calls made for the task's context id
  chunkDone,   \* the chunk cache's downloader has the whole chunk
  qpc,         \* step of each speed accessor call
  qcache       \* did the accessor clone the cache out of Downloading

vars == <<control, task, waiters, woken, wpc, cpc, cw, cc, removes, chunkDone,
          qpc, qcache>>
qvars == <<qpc, qcache>>

\* ChunkTask::new: the context is added and the task starts Downloading
Init ==
  /\ control = "Normal"
  /\ task = "Downloading"
  /\ waiters = {}
  /\ woken = {}
  /\ wpc = [w \in Waiters |-> "init"]
  /\ cpc = [k \in Cancelers |-> "idle"]
  /\ cw = [k \in Cancelers |-> {}]
  /\ cc = [k \in Cancelers |-> FALSE]
  /\ removes = 0
  /\ chunkDone = FALSE
  /\ qpc = [q \in Queriers |-> "idle"]
  /\ qcache = [q \in Queriers |-> FALSE]

\* mutant: a waiter is registered without looking at the control state
WaitRegisterUnchecked(w) ==
  /\ wpc[w] = "init"
  /\ waiters' = waiters \cup {w}
  /\ wpc' = [wpc EXCEPT ![w] = "waiting"]
  /\ UNCHANGED <<control, task, woken, cpc, cw, cc, removes, chunkDone>> /\ UNCHANGED qvars

\* wait_user_canceled, lock section: new_waiter while Normal, else return
WaitRegister(w) ==
  /\ wpc[w] = "init"
  /\ IF control = "Normal"
     THEN /\ waiters' = waiters \cup {w}
          /\ wpc' = [wpc EXCEPT ![w] = "waiting"]
     ELSE /\ wpc' = [wpc EXCEPT ![w] = "returned"]
          /\ UNCHANGED waiters
  /\ UNCHANGED <<control, task, woken, cpc, cw, cc, removes, chunkDone>> /\ UNCHANGED qvars

\* wait_user_canceled, await: StateWaiter::wait resolves once woken
WaitReturn(w) ==
  /\ wpc[w] = "waiting"
  /\ w \in woken
  /\ wpc' = [wpc EXCEPT ![w] = "returned"]
  /\ UNCHANGED <<control, task, waiters, woken, cpc, cw, cc, removes, chunkDone>> /\ UNCHANGED qvars

\* mutant: cancel takes the (id, cache) whatever the task state
CancelLockedAlways(k) ==
  /\ cpc[k] = "idle"
  /\ cw' = [cw EXCEPT ![k] = IF control = "Normal" THEN waiters ELSE {}]
  /\ waiters' = IF control = "Normal" THEN {} ELSE waiters
  /\ control' = "Canceled"
  /\ cc' = [cc EXCEPT ![k] = TRUE]
  /\ task' = "Error"
  /\ cpc' = [cpc EXCEPT ![k] = "wake"]
  /\ UNCHANGED <<woken, wpc, removes, chunkDone>> /\ UNCHANGED qvars

\* cancel, lock section: Normal -> Canceled taking the waiters out;
\* Downloading -> Error(UserCanceled) taking the (id, cache)
CancelLocked(k) ==
  /\ cpc[k] = "idle"
  /\ cw' = [cw EXCEPT ![k] = IF control = "Normal" THEN waiters ELSE {}]
  /\ waiters' = IF control = "Normal" THEN {} ELSE waiters
  /\ control' = "Canceled"
  /\ cc' = [cc EXCEPT ![k] = (task = "Downloading")]
  /\ task' = IF task = "Downloading" THEN "Error" ELSE task
  /\ cpc' = [cpc EXCEPT ![k] = "wake"]
  /\ UNCHANGED <<woken, wpc, removes, chunkDone>> /\ UNCHANGED qvars

\* cancel, after the lock: waiters.wake()
CancelWake(k) ==
  /\ cpc[k] = "wake"
  /\ woken' = woken \cup cw[k]
  /\ cpc' = [cpc EXCEPT ![k] = "remove"]
  /\ UNCHANGED <<control, task, waiters, wpc, cw, cc, removes, chunkDone>> /\ UNCHANGED qvars

\* cancel, after the lock: downloader().context().remove_context(&id)
CancelRemove(k) ==
  /\ cpc[k] = "remove"
  /\ removes' = IF cc[k] THEN removes + 1 ELSE removes
  /\ cpc' = [cpc EXCEPT ![k] = "done"]
  /\ UNCHANGED <<control, task, waiters, woken, wpc, cw, cc, chunkDone>> /\ UNCHANGED qvars

\* environment: the cache's downloader completes the chunk.  No code of
\* ChunkTask reacts to it: nothing constructs TaskStateImpl::Finished.
ChunkCompleted ==
  /\ ~chunkDone
  /\ chunkDone' = TRUE
  /\ UNCHANGED <<control, task, waiters, woken, wpc, cpc, cw, cc, removes>> /\ UNCHANGED qvars

(***************************************************************************)
(* calc_speed, cur_speed, history_speed, drain_score, on_drain: each takes *)
(* the read lock, clones the cache if Downloading, releases the lock, and *)
(* only then asks the cache's downloader; otherwise it returns 0.          *)
(***************************************************************************)
SpeedRead(q) ==
  /\ qpc[q] = "idle"
  /\ qcache' = [qcache EXCEPT ![q] = (task = "Downloading")]
  /\ qpc' = [qpc EXCEPT ![q] = "query"]
  /\ UNCHANGED <<control, task, waiters, woken, wpc, cpc, cw, cc, removes, chunkDone>>

\* after the lock: cache.downloader().<accessor>(), or 0 without a cache
SpeedQuery(q) ==
  /\ qpc[q] = "query"
  /\ qpc' = [qpc EXCEPT ![q] = "done"]
  /\ UNCHANGED <<control, task, waiters, woken, wpc, cpc, cw, cc, removes, chunkDone, qcache>>

Next ==
  \/ \E q \in Queriers : SpeedRead(q) \/ SpeedQuery(q)
  \/ \E w \in Waiters : WaitRegister(w) \/ WaitReturn(w)
  \/ \E k \in Cancelers : CancelLocked(k) \/ CancelWake(k) \/ CancelRemove(k)
  \/ ChunkCompleted

\* a started call runs to its end; cancel's steps never block
Fairness ==
  /\ \A w \in Waiters : WF_vars(WaitReturn(w))
  /\ \A k \in Cancelers : WF_vars(CancelWake(k)) /\ WF_vars(CancelRemove(k))
  /\ WF_vars(ChunkCompleted)
  /\ \A q \in Queriers : WF_vars(SpeedQuery(q))

Spec == Init /\ [][Next]_vars /\ Fairness

-----------------------------------------------------------------------------
(* However a user cancel and a reader-drop cancel interleave, the task's  *)
(* download context is removed from the downloader at most once.          *)
ContextRemovedOnce == removes <= 1

(* Once cancel has run, every wait_user_canceled call returns: no waiter  *)
(* registered concurrently with cancel is left unwoken.                   *)
WaitersWoken ==
  \A w \in Waiters :
    (control = "Canceled" /\ wpc[w] = "waiting") ~> (wpc[w] = "returned")

(* spec 4.6: the task leaves Downloading for Finished once the chunk is    *)
(* downloaded.                                                             *)
DoneLeavesDownloading == chunkDone ~> (task /= "Downloading")

(* spec 4.6: the speed accessors delegate to the cache's downloader only  *)
(* while the task is Downloading and report 0 otherwise; a cancel between *)
(* the accessor's lock section and its downloader call must not be asked. *)
SpeedOnlyWhileDownloading ==
  [][\A q \in Queriers : (SpeedQuery(q) /\ qcache[q]) => task = "Downloading"]_vars
=============================================================================
