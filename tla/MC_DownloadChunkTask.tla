------------------------ MODULE MC_DownloadChunkTask ------------------------
EXTENDS DownloadChunkTask, TLC

CONSTANTS st, pa, sp, de

\* one caller of each operation; each calls again after returning
MCCalls == {st, pa, sp, de}
MCKind == (st :> "start") @@ (pa :> "pause") @@ (sp :> "stop") @@ (de :> "detail")
=============================================================================
