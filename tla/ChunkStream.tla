---------------------------- MODULE ChunkStream ----------------------------
(***************************************************************************)
(* One ChunkStreamCache of cyfs-bdt (src/.../ndn/chunk/cache2/stream.rs)  *)
(* shared by the receive and the send side of a node: the StreamDecoders  *)
(* of the download sessions write pieces into it (StreamCache), and the   *)
(* StreamEncoder of an upload session of the same chunk reads them out    *)
(* (StreamEncoder).  The two meet only in the cache's IncomeIndexQueue:   *)
(* the decoders' push commits an index, the encoder's exists() and reads  *)
(* see it.  The encoder's environment action CacheCommit is replaced by  *)
(* the decoders' real push_piece_data steps.                              *)
(***************************************************************************)
EXTENDS Naturals, Sequences

CONSTANTS
  Pieces, Sessions, Callers, SessionOf, WinStart, WinEnd, WriteMayFail,
  MaxWrites,                    \* StreamCache: the decoder side
  ReadMayFail, MaxResets, None  \* StreamEncoder: the encoder side

VARIABLES
  committed,                    \* IncomeIndexQueue: shared by both sides
  writes, pc, idx, finished, writeFailed,
  pending, cur, tasks, sent, resets, syncSupported, readFailed

decoderVars == <<writes, pc, idx, finished, writeFailed>>
encoderVars == <<pending, cur, tasks, sent, resets, syncSupported, readFailed>>
vars == <<committed, decoderVars, encoderVars>>

SC == INSTANCE StreamCache
\* the encoder serves the whole chunk: desc [0, Pieces)
SE == INSTANCE StreamEncoder WITH Start <- 0, End <- Pieces

DecoderStep(A) == A /\ UNCHANGED encoderVars
EncoderStep(A) == A /\ UNCHANGED decoderVars

Init == SC!Init /\ SE!Init

Next ==
  \/ DecoderStep(SC!Next)
  \/ EncoderStep(SE!NextPiece)
  \/ EncoderStep(\E d \in tasks : SE!AsyncNextPiece(d))
  \/ EncoderStep(SE!Reset)

(***************************************************************************)
(* Fairness: that of the two sides (see StreamCache and StreamEncoder),   *)
(* the cache being filled by the decoders instead of by the environment.  *)
(***************************************************************************)
Fairness ==
  /\ \A c \in Callers :
       /\ WF_vars(DecoderStep(SC!WriteRange(c) \/ SC!WriteFails(c)))
       /\ WF_vars(DecoderStep(SC!Commit(c)))
       /\ WF_vars(DecoderStep(SC!RequireAfterPush(c)))
       /\ WF_vars(DecoderStep(SC!DeliverMissing(c)))
  /\ WF_vars(EncoderStep(SE!NextPiece))
  /\ \A d \in SE!Indices : WF_vars(EncoderStep(SE!AsyncNextPiece(d)))

Spec == Init /\ [][Next]_vars /\ Fairness

-----------------------------------------------------------------------------
TypeOK == SC!TypeOK /\ SE!TypeOK

(* Every piece the encoder has sent, by sync_try_read or by the spawned   *)
(* async_try_read, was written to the raw cache by a decoder before: the *)
(* decoder's push comes after its write, and exists() gates every read.  *)
SentWasWritten ==
  \A k \in 1 .. Len(sent) : writes[sent[k][1]] >= 1

(* StreamEncoder refines PieceSender, with the decoders filling the cache *)
(* (see StreamEncoder!SenderSpec).                                        *)
SenderSpec == SE!SenderSpec

(* End to end: unless a raw-cache write or read fails, every piece the    *)
(* peers send to the decoders is eventually uploaded by the encoder.      *)
DeliveredUnlessStorageFails ==
  <>writeFailed \/ <>readFailed \/ <>[](cur = Pieces)
=============================================================================
