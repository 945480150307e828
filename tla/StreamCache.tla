---------------------------- MODULE StreamCache ----------------------------
(***************************************************************************)
(* ChunkStreamCache and StreamDecoder of cyfs-bdt                           *)
(* (src/.../ndn/chunk/cache2/stream.rs).                                    *)
(*                                                                         *)
(* One chunk of Pieces pieces is shared by several decoder sessions.  A    *)
(* session is driven by one or more concurrent calls of push_piece_data    *)
(* (one per channel context that feeds it).  Every call runs the code's    *)
(* steps as separate atomic actions, each one lock section of the code:   *)
(*   1. window check + IncomeIndexQueue::try_push   (read lock)            *)
(*   2. seek + write of the raw cache                (no lock)             *)
(*   3. IncomeIndexQueue::push                       (write lock)          *)
(*   4. require_index over the decoder window        (read lock)           *)
(* The IncomeIndexQueue itself is not under src/.  try_push is called     *)
(* through a read guard (stream.rs:74), which gives shared access only:   *)
(* it answers from the committed indices and records nothing, so nothing  *)
(* stops two calls carrying the same piece from both writing it.          *)
(***************************************************************************)
EXTENDS Naturals, FiniteSets

CONSTANTS
  Pieces,        \* number of pieces of the chunk: indices 0 .. Pieces-1
  Sessions,      \* decoder sessions (model values)
  Callers,       \* concurrent push_piece_data calls (model values)
  SessionOf,     \* Callers -> Sessions: the decoder a call runs in
  WinStart,      \* Sessions -> Nat: desc start of the decoder window
  WinEnd,        \* Sessions -> Nat: desc end (exclusive)
  WriteMayFail,  \* may the raw-cache seek/write fail (InvalidInput / io error)
  MaxWrites      \* cap of the per-index write counter

ASSUME Pieces \in Nat \ {0}
ASSUME SessionOf \in [Callers -> Sessions]
ASSUME \A s \in Sessions : WinStart[s] < WinEnd[s] /\ WinEnd[s] <= Pieces
ASSUME WriteMayFail \in BOOLEAN /\ MaxWrites \in Nat \ {0}

\* the piece indices of the chunk; a peer may send any of them
Indices == 0 .. Pieces - 1
\* the desc [start, end) of a decoder session
Window(s) == WinStart[s] .. WinEnd[s] - 1

VARIABLES
  committed,   \* IncomeIndexQueue: indices committed by push ("exists")
  writes,      \* raw cache: number of completed writes of each index
  pc,          \* step of each push_piece_data call
  idx,         \* index of the piece a call carries
  finished,    \* history: has some call of the session returned finished=true
  writeFailed  \* history: has some raw-cache write failed

vars == <<committed, writes, pc, idx, finished, writeFailed>>

(***************************************************************************)
(* IncomeIndexQueue (not under src/), as the calls of stream.rs use it.    *)
(***************************************************************************)
\* try_push(i..i+1): valid iff inside the queue window; exists iff committed
IqValid(i) == i \in Indices
IqTaken(i) == i \in committed
\* mutant: require drops the last index of the window (end treated inclusive-1)
IqRequireShort(s) == (WinStart[s] .. WinEnd[s] - 2) \ committed
\* require(start, end, step): the indices of [start, end) still missing
IqRequire(s) == Window(s) \ committed

(***************************************************************************)
(* StreamDecoder::push_piece_data + ChunkStreamCache::push_piece_data.     *)
(***************************************************************************)
\* the decoder rejects a piece outside its desc [start, end)
InDecoderWindow(c, i) ==
  i >= WinStart[SessionOf[c]] /\ i < WinEnd[SessionOf[c]]

\* mutant: the piece's index is taken one past the one it carries
TryPushIndexOffByOne(c, i) ==
  /\ pc[c] = "idle"
  /\ InDecoderWindow(c, i)
  /\ IqValid(i) /\ ~IqTaken(i)
  /\ pc' = [pc EXCEPT ![c] = "write"]
  /\ idx' = [idx EXCEPT ![c] = i + 1]
  /\ UNCHANGED <<committed, writes, finished, writeFailed>>

\* step 1: window check, then try_push under the read lock.  A call that is
\* rejected or finds the piece committed returns at once, without I/O.
TryPush(c, i) ==
  /\ pc[c] = "idle"
  /\ \/ /\ ~InDecoderWindow(c, i)
        /\ UNCHANGED <<pc, idx>>
     \/ /\ InDecoderWindow(c, i)
        /\ (~IqValid(i) \/ IqTaken(i))
        /\ UNCHANGED <<pc, idx>>
     \/ /\ InDecoderWindow(c, i)
        /\ IqValid(i) /\ ~IqTaken(i)
        /\ pc' = [pc EXCEPT ![c] = "write"]
        /\ idx' = [idx EXCEPT ![c] = i]
  /\ UNCHANGED <<committed, writes, finished, writeFailed>>

\* step 2, success: seek to range.start and write range.len() bytes
WriteRange(c) ==
  /\ pc[c] = "write"
  /\ writes' = [writes EXCEPT ![idx[c]] = IF @ < MaxWrites THEN @ + 1 ELSE @]
  /\ pc' = [pc EXCEPT ![c] = "commit"]
  /\ UNCHANGED <<committed, idx, finished, writeFailed>>

\* step 2, failure: sync_writer/seek/write error or length mismatch.  The
\* call returns Err; the piece stays missing and a resend is written again.
WriteFails(c) ==
  /\ WriteMayFail
  /\ pc[c] = "write"
  /\ pc' = [pc EXCEPT ![c] = "idle"]
  /\ writeFailed' = TRUE
  /\ UNCHANGED <<committed, writes, idx, finished>>

\* mutant: indices.push issued before the raw-cache write completes
CommitBeforeWrite(c) ==
  /\ pc[c] \in {"write", "commit"}
  /\ committed' = committed \cup {idx[c]}
  /\ pc' = [pc EXCEPT ![c] = IF @ = "write" THEN "commit"
                             ELSE IF IqTaken(idx[c]) THEN "idle" ELSE "require"]
  /\ UNCHANGED <<writes, idx, finished, writeFailed>>

\* step 3: indices.push under the write lock.  Its result has the shape of
\* try_push's (spec 4.1): exists if another call committed the index
\* meanwhile.  The decoder goes on to require_index only if pushed().
Commit(c) ==
  /\ pc[c] = "commit"
  /\ committed' = committed \cup {idx[c]}
  /\ pc' = [pc EXCEPT ![c] = IF IqTaken(idx[c]) THEN "idle" ELSE "require"]
  /\ UNCHANGED <<writes, idx, finished, writeFailed>>

\* step 4: the decoder re-queries require_index over its own window and
\* reports finished=true iff nothing is missing any more
RequireAfterPush(c) ==
  /\ pc[c] = "require"
  /\ finished' = [finished EXCEPT ![SessionOf[c]] =
                    @ \/ IqRequire(SessionOf[c]) = {}]
  /\ pc' = [pc EXCEPT ![c] = "idle"]
  /\ UNCHANGED <<committed, writes, idx, writeFailed>>

Init ==
  /\ committed = {}
  /\ writes = [i \in Indices |-> 0]
  /\ pc = [c \in Callers |-> "idle"]
  /\ idx = [c \in Callers |-> 0]
  /\ finished = [s \in Sessions |-> FALSE]
  /\ writeFailed = FALSE

Next ==
  \E c \in Callers :
    \/ \E i \in Indices : TryPush(c, i)
    \/ WriteRange(c)
    \/ WriteFails(c)
    \/ Commit(c)
    \/ RequireAfterPush(c)

(***************************************************************************)
(* Fairness.  A started call runs to completion (its steps are plain code, *)
(* never blocked).  The peer answers the channel's continuation requests,  *)
(* built from require_index, by sending a missing piece of the window:     *)
(* weak fairness of delivering some missing index to each call.            *)
(***************************************************************************)
DeliverMissing(c) == \E i \in IqRequire(SessionOf[c]) : TryPush(c, i)

Fairness ==
  \A c \in Callers :
    /\ WF_vars(WriteRange(c) \/ WriteFails(c))
    /\ WF_vars(Commit(c))
    /\ WF_vars(RequireAfterPush(c))
    /\ WF_vars(DeliverMissing(c))

Spec == Init /\ [][Next]_vars /\ Fairness

-----------------------------------------------------------------------------
TypeOK ==
  /\ committed \subseteq Indices
  /\ writes \in [Indices -> 0 .. MaxWrites]
  /\ pc \in [Callers -> {"idle", "write", "commit", "require"}]
  /\ idx \in [Callers -> Indices]
  /\ finished \in [Sessions -> BOOLEAN]
  /\ writeFailed \in BOOLEAN

(* Exclusive reservation (spec 8): under concurrent push_piece_data calls *)
(* carrying the same never-seen piece, exactly one writes it to the raw   *)
(* cache.  The try_push of stream.rs:74 runs under a read guard.          *)
ExclusiveWrite == \A i \in Indices : writes[i] <= 1

(* Window completion (spec 4.1/8): once every index of a session's window *)
(* is committed, some push_piece_data call of that session eventually     *)
(* returns finished=true, so the decoder learns its sub-range is done,    *)
(* even when overlapping sessions commit the pieces of its window.        *)
SessionToldFinished ==
  \A s \in Sessions : (Window(s) \subseteq committed) ~> finished[s]
=============================================================================
