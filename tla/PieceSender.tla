---------------------------- MODULE PieceSender ----------------------------
(***************************************************************************)
(* What a send-side session promises (spec.md 4.1, 4.4): it emits the      *)
(* pieces of its window [Start, End) in cursor order, each with its own    *)
(* bytes, only once the chunk cache holds them; a reset/merge rewinds the  *)
(* cursor to Start.  StreamEncoder is shown to implement this.             *)
(***************************************************************************)
EXTENDS Naturals, Sequences

CONSTANTS Start, End

VARIABLES
  cursor,     \* next index to send
  sent,       \* pieces emitted so far: <<index, index the bytes belong to>>
  committed   \* indices the chunk cache holds

vars == <<cursor, sent, committed>>

Init == cursor = Start /\ sent = <<>> /\ committed = {}

\* the cache gains a piece (written by some decoder)
Store == \E i \in (Start .. End - 1) \ committed : committed' = committed \cup {i}
         /\ UNCHANGED <<cursor, sent>>

\* the head piece, held by the cache, is emitted with its own bytes
Send == /\ cursor < End
        /\ cursor \in committed
        /\ sent' = Append(sent, <<cursor, cursor>>)
        /\ cursor' = cursor + 1
        /\ UNCHANGED committed

\* the peer asks for retransmission: the cursor is rewound
Rewind == cursor' = Start /\ UNCHANGED <<sent, committed>>

Next == Store \/ Send \/ Rewind

Spec == Init /\ [][Next]_vars
=============================================================================
