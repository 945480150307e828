----------------------------- MODULE SyncBound -----------------------------
(***************************************************************************)
(* SyncBound of cyfs-group (src/.../cyfs-group/src/objects/protocol.rs),   *)
(* the bound of a hotstuff SyncRequest [min, max]: Height(u64) or          *)
(* Round(u64).  The type derives Ord (variant first, Height < Round, then *)
(* the value) but implements PartialOrd by hand: a height and a round are *)
(* compared by value, the height winning a tie.  Orderings are -1 / 0 / 1 *)
(* for Less / Equal / Greater.                                             *)
(*                                                                         *)
(* The module is a set of operators; a state is a triple of bounds so that *)
(* TLC enumerates every triple of the bounded domain.                      *)
(***************************************************************************)
EXTENDS Integers

CONSTANT MaxValue   \* bounds carry values 0 .. MaxValue

Bounds == [kind : {"Height", "Round"}, v : 0 .. MaxValue]

\* u64::cmp
Cmp(x, y) == IF x < y THEN -1 ELSE IF x = y THEN 0 ELSE 1

\* #[derive(Ord)]: the variant's index first, then the field
DerivedCmp(a, b) ==
  IF a.kind = b.kind THEN Cmp(a.v, b.v)
  ELSE IF a.kind = "Height" THEN -1 ELSE 1

\* mutant: the height side of a mixed comparison uses > instead of >=
PartialCmpStrict(a, b) ==
  CASE a.kind = b.kind -> Cmp(a.v, b.v)
    [] a.kind = "Height" -> IF a.v > b.v THEN 1 ELSE -1
    [] OTHER -> IF b.v >= a.v THEN -1 ELSE 1

\* impl PartialOrd for SyncBound: partial_cmp
PartialCmp(a, b) ==
  CASE a.kind = b.kind -> Cmp(a.v, b.v)
    [] a.kind = "Height" -> IF a.v >= b.v THEN 1 ELSE -1
    [] OTHER -> IF b.v >= a.v THEN -1 ELSE 1

VARIABLES a, b, c

vars == <<a, b, c>>

Init == a \in Bounds /\ b \in Bounds /\ c \in Bounds

\* the next triple to examine
Next == a' \in Bounds /\ b' = a /\ c' = b

Spec == Init /\ [][Next]_vars

-----------------------------------------------------------------------------
(* The hand-written partial_cmp is a total order, as the `<` and `>`      *)
(* comparisons of sync bounds assume: it answers Equal exactly for equal  *)
(* bounds, swapping the operands reverses the answer (a height and a round *)
(* of the same value included), and it is transitive.                     *)
PartialCmpTotalOrder ==
  /\ (PartialCmp(a, b) = 0) <=> (a = b)
  /\ PartialCmp(a, b) = -PartialCmp(b, a)
  /\ (PartialCmp(a, b) < 0 /\ PartialCmp(b, c) < 0) => PartialCmp(a, c) < 0

(* Ord and PartialOrd agree (the contract of std::cmp::Ord: partial_cmp(a, *)
(* b) == Some(cmp(a, b))), so sorting, BTreeMap keys, max/min and `<` all *)
(* order sync bounds the same way.                                         *)
PartialCmpMatchesOrd == PartialCmp(a, b) = DerivedCmp(a, b)
=============================================================================
