--------------------------- MODULE StreamEncoder ---------------------------
(***************************************************************************)
(* StreamEncoder of cyfs-bdt (src/.../ndn/chunk/cache2/stream.rs): the    *)
(* send-side session that reads pieces of a ChunkStreamCache and encodes  *)
(* them for the channel.  The channel polls next_piece; when the storage  *)
(* refuses a synchronous read (UnSupport) the encoder spawns a background *)
(* async read (async_next_piece) and parks in Pending until the task puts *)
(* its result in Waiting.  reset/merge rewind the OutcomeIndexQueue.      *)
(*                                                                         *)
(* The OutcomeIndexQueue is not under src/; it is modelled from spec.md   *)
(* 4.1 as a cursor over [Start, End) with step +1.  A piece's bytes are   *)
(* abstracted to the index they were read for, so that a result applied  *)
(* to the wrong piece is visible.                                          *)
(***************************************************************************)
EXTENDS Integers, Sequences

CONSTANTS
  Start, End,    \* the encode desc [start, end)
  ReadMayFail,   \* may a read fail with an error other than UnSupport
  MaxResets,     \* bound on reset/merge calls from the channel
  None           \* model value: no pending read

ASSUME Start < End /\ ReadMayFail \in BOOLEAN /\ MaxResets \in Nat

Indices == Start .. End - 1
\* results of a read: the bytes (the index they belong to), or an error
ReadErr == -1
Results == Indices \cup {ReadErr}
PendingStates ==
  {None} \cup [kind : {"Pending"}, desc : Indices]
         \cup [kind : {"Waiting"}, desc : Indices, result : Results]

VARIABLES
  pending,    \* EncoderStateImpl.pending
  cur,        \* OutcomeIndexQueue cursor; End means exhausted
  tasks,      \* descs of the spawned async_next_piece tasks still running
  committed,  \* indices for which the chunk cache's exists() holds
  sent,       \* history: pieces returned by next_piece, <<index, bytes>>
  resets,     \* number of reset/merge calls so far
  syncSupported, \* can sync_try_read of this chunk's raw cache succeed
  readFailed  \* history: has some read of the cache failed

vars == <<pending, cur, tasks, committed, sent, resets, syncSupported, readFailed>>

(***************************************************************************)
(* OutcomeIndexQueue, modelled from spec.md 4.1.                           *)
(***************************************************************************)
OqNext == IF cur < End THEN cur ELSE None
OqPopNext == cur' = cur + 1
OqReset == cur' = Start

(***************************************************************************)
(* ChunkStreamCache reads                                                  *)
(***************************************************************************)
\* exists: indices.exists(index) under the cache's read lock
Exists(i) == i \in committed

\* sync_try_read / async_try_read of a piece: NotFound unless it exists,
\* else the seek and exact-length read, which may fail (len mismatch or a
\* storage error); the sync path may also answer UnSupport, see NextPiece*
TryRead(i) ==
  IF ~Exists(i) THEN {ReadErr}
  ELSE IF ReadMayFail THEN {i, ReadErr} ELSE {i}

(***************************************************************************)
(* Environment: a decoder commits a piece to the shared cache.             *)
(***************************************************************************)
CacheCommit ==
  /\ \E i \in Indices \ committed : committed' = committed \cup {i}
  /\ UNCHANGED <<pending, cur, tasks, sent, resets, syncSupported, readFailed>>

(***************************************************************************)
(* next_piece                                                              *)
(***************************************************************************)
\* Pending: the async read has not landed yet, Ok(0)
NextPiecePending ==
  /\ pending /= None /\ pending.kind = "Pending"
  /\ UNCHANGED vars

\* Waiting: take the result out and go back to None.  Ok bytes are sent only
\* if the piece is still the cursor head; an Err is returned to the channel.
NextPieceWaiting ==
  /\ pending /= None /\ pending.kind = "Waiting"
  /\ pending' = None
  /\ IF pending.result /= ReadErr /\ OqNext = pending.desc
     THEN /\ OqPopNext
          /\ sent' = Append(sent, <<pending.desc, pending.result>>)
     ELSE UNCHANGED <<cur, sent>>
  /\ UNCHANGED <<tasks, committed, resets, syncSupported, readFailed>>

\* None, the head piece is in the cache: a synchronous read that succeeds
NextPieceSyncRead ==
  /\ syncSupported
  /\ pending = None
  /\ OqNext /= None /\ Exists(OqNext)
  /\ OqPopNext
  /\ sent' = Append(sent, <<cur, cur>>)
  /\ UNCHANGED <<pending, tasks, committed, resets, syncSupported, readFailed>>

\* None, head in the cache, sync_try_read returns UnSupport: park in Pending
\* and spawn async_next_piece for the head desc
NextPieceUnSupport ==
  /\ pending = None
  /\ OqNext /= None /\ Exists(OqNext)
  /\ pending' = [kind |-> "Pending", desc |-> cur]
  /\ tasks' = tasks \cup {cur}
  /\ UNCHANGED <<cur, committed, sent, resets, syncSupported, readFailed>>

\* None and nothing to send (queue exhausted or head not in the cache),
\* or a sync read error other than UnSupport, which only storage with a
\* sync reader can give: Ok(0) / Err, state unchanged
NextPieceIdle ==
  /\ pending = None
  /\ \/ /\ OqNext = None \/ ~Exists(OqNext)
        /\ UNCHANGED vars
     \/ /\ ReadMayFail /\ syncSupported /\ Exists(OqNext)
        /\ readFailed' = TRUE
        /\ UNCHANGED <<pending, cur, tasks, committed, sent, resets, syncSupported>>

\* mutant: the task stores its result whatever read is pending
AsyncNextPieceAnyPending(d) ==
  /\ d \in tasks
  /\ \E r \in TryRead(d) :
       /\ pending' = IF pending /= None /\ pending.kind = "Pending"
                     THEN [kind |-> "Waiting", desc |-> pending.desc, result |-> r]
                     ELSE pending
       /\ readFailed' = (readFailed \/ r = ReadErr)
  /\ tasks' = tasks \ {d}
  /\ UNCHANGED <<cur, committed, sent, resets, syncSupported>>

\* async_next_piece(d): async_try_read of d completes, then, under the
\* state lock, the result is stored only if Pending(d) is still the state
AsyncNextPiece(d) ==
  /\ d \in tasks
  /\ \E r \in TryRead(d) :
       /\ pending' = IF pending /= None /\ pending.kind = "Pending"
                          /\ pending.desc = d
                     THEN [kind |-> "Waiting", desc |-> d, result |-> r]
                     ELSE pending
       /\ readFailed' = (readFailed \/ r = ReadErr)
  /\ tasks' = tasks \ {d}
  /\ UNCHANGED <<cur, committed, sent, resets, syncSupported>>

\* reset / merge: indices.reset(), then drop a Pending/Waiting piece that is
\* no longer the head.  merge ignores max_index and lost_index.
RewindAndDrop ==
  /\ resets < MaxResets
  /\ OqReset
  /\ pending' = IF pending /= None /\ Start /= pending.desc
                THEN None ELSE pending
  /\ resets' = resets + 1
  /\ UNCHANGED <<tasks, committed, sent, syncSupported, readFailed>>

Reset == RewindAndDrop
Merge == RewindAndDrop

Init ==
  /\ pending = None
  /\ cur = Start
  /\ tasks = {}
  /\ committed = {}
  /\ sent = <<>>
  /\ resets = 0
  /\ syncSupported \in BOOLEAN
  /\ readFailed = FALSE

Next ==
  \/ CacheCommit
  \/ NextPiecePending
  \/ NextPieceWaiting
  \/ NextPieceSyncRead
  \/ NextPieceUnSupport
  \/ NextPieceIdle
  \/ \E d \in tasks : AsyncNextPiece(d)
  \/ Reset
  \/ Merge

(***************************************************************************)
(* Fairness: the channel keeps polling next_piece while the session is    *)
(* open, a spawned task runs to completion, and the cache eventually      *)
(* holds the pieces (the download side finishes).                         *)
(***************************************************************************)
NextPiece ==
  \/ NextPiecePending \/ NextPieceWaiting \/ NextPieceSyncRead
  \/ NextPieceUnSupport \/ NextPieceIdle

Fairness ==
  /\ WF_vars(NextPiece)
  /\ WF_vars(CacheCommit)
  /\ \A d \in Indices : WF_vars(AsyncNextPiece(d))

Spec == Init /\ [][Next]_vars /\ Fairness

-----------------------------------------------------------------------------
TypeOK ==
  /\ pending \in PendingStates
  /\ cur \in Start .. End
  /\ tasks \subseteq Indices
  /\ committed \subseteq Indices
  /\ sent \in Seq(Indices \X Indices)
  /\ resets \in 0 .. MaxResets
  /\ syncSupported \in BOOLEAN /\ readFailed \in BOOLEAN

(* Refinement of PieceSender: whatever the interleaving of polls, async   *)
(* read completions and reset/merge calls, next_piece emits the cursor    *)
(* head, with the bytes read for that very piece, and advances the        *)
(* cursor by one; reset and merge are a rewind.                           *)
Sender == INSTANCE PieceSender WITH cursor <- cur
SenderSpec == Sender!Spec

=============================================================================
