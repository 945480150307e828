---------------------------- MODULE HotstuffCodec ----------------------------
(***************************************************************************)
(* The wire codec of HotstuffPackage in cyfs-group                         *)
(* (src/.../cyfs-group/src/objects/protocol.rs): from_msg, raw_measure,    *)
(* raw_encode, raw_decode and the length-prefixed field helpers.           *)
(*                                                                         *)
(* A package is its variant and its fields in constructor order.  The     *)
(* fields are objects of other crates (blocks, votes, addresses, ...)     *)
(* whose own RawEncode is not under src/: a field object is a leaf <<T, k>>*)
(* of type T, encoded as Size(T) bytes whose first byte names the object; *)
(* decoding a type reads that byte and fails (Err) on another type's byte. *)
(* Everything the package codec does itself is modelled byte by byte: the  *)
(* tag byte with its flag bit, the order of the fields, and the            *)
(* little-endian length prefixes of encode_with_length/decode_with_length, *)
(* including the slice panics and the assert of the decoder.               *)
(***************************************************************************)
EXTENDS Integers, Sequences, SequencesExt, Bitwise

CONSTANTS
  NVals,      \* leaf objects per field type: k \in 1 .. NVals
  Kinds       \* the package variants whose messages are checked

\* field types: GroupConsensusBlock, HotstuffBlockQCVote, HotstuffTimeoutVote,
\* HotstuffTimeout, ProtocolAddress, SyncBound, Option<NONObjectInfo>,
\* ObjectId, BuckyError, String, BuckyResult<GroupRPathStatus>
TypeIdx == [Block |-> 1, Vote |-> 2, TVote |-> 3, TC |-> 4, Addr |-> 5,
            Bound |-> 6, Non |-> 7, ObjId |-> 8, Err |-> 9, Str |-> 10,
            Status |-> 11]
Types == DOMAIN TypeIdx
Leaves(T) == {<<T, k>> : k \in 1 .. NVals}
Size(T) == 1 + (TypeIdx[T] % 3)
Code(o) == 16 * TypeIdx[o[1]] + o[2]

\* outcomes of a decoder: Ok(value, remaining bytes), Err, or a panic
Ok(v, rest) == [r |-> "ok", val |-> v, rest |-> rest]
Fail == [r |-> "err"]
Panic == [r |-> "panic"]

LeafEncode(o) == <<Code(o)>> \o [i \in 1 .. Size(o[1]) - 1 |-> 0]

LeafDecode(T, buf) ==
  IF /\ Len(buf) >= Size(T)
     /\ buf[1] \div 16 = TypeIdx[T]
     /\ buf[1] % 16 \in 1 .. NVals
  THEN Ok(<<T, buf[1] % 16>>, SubSeq(buf, Size(T) + 1, Len(buf)))
  ELSE Fail

(***************************************************************************)
(* HotstuffMessage and HotstuffPackage::from_msg                           *)
(***************************************************************************)
\* ProposalResult(id, Ok(..)) and (id, Err(..)) are separate variants here
PackageKinds == {"Block", "BlockVote", "TimeoutVote", "Timeout", "SyncRequest",
                 "StateChangeNotify", "LastStateRequest", "ProposalOk",
                 "ProposalErr", "QueryState", "VerifiableState"}

\* the fields of each HotstuffMessage variant
MsgFields == [Block |-> <<"Block">>, BlockVote |-> <<"Vote">>,
              TimeoutVote |-> <<"TVote">>, Timeout |-> <<"TC">>,
              SyncRequest |-> <<"Bound", "Bound">>,
              StateChangeNotify |-> <<"Block", "Block">>,
              LastStateRequest |-> <<>>,
              ProposalOk |-> <<"ObjId", "Non", "Block", "Block">>,
              ProposalErr |-> <<"ObjId", "Err">>,
              QueryState |-> <<"Str">>,
              VerifiableState |-> <<"Str", "Status">>]

RECURSIVE Tuples(_)
Tuples(ts) ==
  IF ts = <<>> THEN {<<>>}
  ELSE {<<v>> \o t : v \in Leaves(Head(ts)), t \in Tuples(Tail(ts))}

Messages(K) == {[kind |-> K, f |-> fs] : fs \in Tuples(MsgFields[K])}

\* from_msg: ProtocolAddress::Full(rpath) goes first, or, for an error
\* ProposalResult, after the error; Block, StateChangeNotify and an Ok
\* ProposalResult carry no address
FromMsg(m, rpath) ==
  LET addr == <<"Addr", rpath>> IN
  [kind |-> m.kind,
   f |-> CASE m.kind \in {"Block", "StateChangeNotify", "ProposalOk"} -> m.f
           [] m.kind = "ProposalErr" -> m.f \o <<addr>>
           [] OTHER -> <<addr>> \o m.f]

Packages ==
  {FromMsg(m, r) : m \in UNION {Messages(K) : K \in Kinds}, r \in 1 .. NVals}

(***************************************************************************)
(* raw_measure                                                             *)
(***************************************************************************)
\* mutant: StateChangeNotify's block prefix counted with the 2-byte width
MeasureExtraShortPrefix(K) ==
  CASE K \in {"BlockVote", "TimeoutVote", "Timeout", "VerifiableState",
               "StateChangeNotify"} -> 2
    [] K = "ProposalOk" -> 3
    [] OTHER -> 0

\* the bytes raw_measure adds for the length prefixes of each variant
MeasureExtra(K) ==
  CASE K \in {"BlockVote", "TimeoutVote", "Timeout", "VerifiableState"} -> 2
    [] K \in {"StateChangeNotify", "ProposalOk"} -> 3
    [] OTHER -> 0

RECURSIVE SizeSum(_)
SizeSum(fs) == IF fs = <<>> THEN 0 ELSE Size(Head(fs)[1]) + SizeSum(Tail(fs))

Measure(p) == 1 + MeasureExtra(p.kind) + SizeSum(p.f)

(***************************************************************************)
(* raw_encode / raw_decode: the tag byte and the field layouts.  A field  *)
(* is <<constructor position, type, length-prefix bytes (0: none)>>.      *)
(***************************************************************************)
Tag == [Block |-> 0, BlockVote |-> 1, TimeoutVote |-> 2, Timeout |-> 3,
        SyncRequest |-> 4, StateChangeNotify |-> 5, LastStateRequest |-> 6,
        ProposalOk |-> 7, ProposalErr |-> 7, QueryState |-> 8,
        VerifiableState |-> 9]

PACKAGE_FLAG_PROPOSAL_RESULT_OK == 128

\* buf[0] = tag; for an Ok ProposalResult, buf[0] &= FLAG
EncodeTag(K) ==
  IF K = "ProposalOk" THEN Tag[K] & PACKAGE_FLAG_PROPOSAL_RESULT_OK ELSE Tag[K]

EncodeLayout ==
  [Block |-> <<<<1, "Block", 0>>>>,
   BlockVote |-> <<<<1, "Addr", 2>>, <<2, "Vote", 0>>>>,
   TimeoutVote |-> <<<<1, "Addr", 2>>, <<2, "TVote", 0>>>>,
   Timeout |-> <<<<1, "Addr", 2>>, <<2, "TC", 0>>>>,
   SyncRequest |-> <<<<2, "Bound", 0>>, <<3, "Bound", 0>>, <<1, "Addr", 0>>>>,
   StateChangeNotify |-> <<<<1, "Block", 3>>, <<2, "Block", 0>>>>,
   LastStateRequest |-> <<<<1, "Addr", 0>>>>,
   ProposalOk |-> <<<<1, "ObjId", 0>>, <<2, "Non", 0>>, <<3, "Block", 3>>,
                    <<4, "Block", 0>>>>,
   ProposalErr |-> <<<<1, "ObjId", 0>>, <<2, "Err", 0>>, <<3, "Addr", 0>>>>,
   QueryState |-> <<<<2, "Str", 0>>, <<1, "Addr", 0>>>>,
   VerifiableState |-> <<<<1, "Addr", 2>>, <<2, "Str", 0>>,
                         <<3, "Status", 0>>>>]

\* mutant: QueryState decoded in constructor order (address first)
DecodeLayoutConstructorOrder ==
  [EncodeLayout EXCEPT !["QueryState"] = <<<<1, "Addr", 0>>, <<2, "Str", 0>>>>,
                       !["VerifiableState"] = <<<<1, "Addr", 3>>, <<2, "Str", 0>>,
                                                <<3, "Status", 0>>>>]

\* raw_decode reads the fields in the order raw_encode writes them, except
\* that VerifiableState's address is read with a 3-byte length
DecodeLayout ==
  [EncodeLayout EXCEPT !["VerifiableState"] = <<<<1, "Addr", 3>>, <<2, "Str", 0>>,
                                                <<3, "Status", 0>>>>]

\* little-endian length of n bytes, as len.to_le_bytes()[..n]
LE(x, n) == [i \in 1 .. n |-> (x \div 2^(8 * (i - 1))) % 256]
FromLE(bytes) ==
  LET RECURSIVE F(_)
      F(i) == IF i = 0 THEN 0 ELSE bytes[i] * 2^(8 * (i - 1)) + F(i - 1)
  IN F(Len(bytes))

\* encode_with_length: the object after an n-byte length prefix
EncodeWithLength(o, n) == LE(Len(LeafEncode(o)), n) \o LeafEncode(o)

\* decode_with_length: split_at(n), decode &buf[..len] (slicing past the end
\* panics), assert_eq!(remain.len(), 0), continue at &buf[len..]
DecodeWithLength(T, buf, n) ==
  IF Len(buf) < n THEN Panic
  ELSE LET len == FromLE(SubSeq(buf, 1, n))
           body == SubSeq(buf, n + 1, Len(buf))
       IN IF len > Len(body) THEN Panic
          ELSE LET res == LeafDecode(T, SubSeq(body, 1, len))
               IN CASE res.r /= "ok" -> res
                    [] res.rest /= <<>> -> Panic
                    [] OTHER -> Ok(res.val, SubSeq(body, len + 1, Len(body)))

EncodeField(fld, p) ==
  IF fld[3] = 0 THEN LeafEncode(p.f[fld[1]]) ELSE EncodeWithLength(p.f[fld[1]], fld[3])

DecodeField(fld, buf) ==
  IF fld[3] = 0 THEN LeafDecode(fld[2], buf) ELSE DecodeWithLength(fld[2], buf, fld[3])

\* raw_encode
Encode(p) ==
  LET layout == EncodeLayout[p.kind]
  IN <<EncodeTag(p.kind)>> \o FlattenSeq([i \in 1 .. Len(layout) |-> EncodeField(layout[i], p)])

\* the fields decoded one after the other; a failure ends the decode
RECURSIVE DecodeFields(_, _, _)
DecodeFields(layout, buf, acc) ==
  IF layout = <<>> THEN Ok(acc, buf)
  ELSE LET fld == Head(layout)
           res == DecodeField(fld, buf)
       IN IF res.r /= "ok" THEN res
          ELSE DecodeFields(Tail(layout), res.rest,
                 [i \in DOMAIN acc \cup {fld[1]} |-> IF i = fld[1] THEN res.val ELSE acc[i]])

\* raw_decode: pkg_type = buf[0] << 1 >> 1 (as u8); the flag selects Ok or
\* Err for a ProposalResult; an unknown type is unreachable!()
Decode(buf) ==
  LET t == ((buf[1] * 2) % 256) \div 2
      kind == IF t = 7
              THEN IF (buf[1] & PACKAGE_FLAG_PROPOSAL_RESULT_OK) /= 0
                   THEN "ProposalOk" ELSE "ProposalErr"
              ELSE CHOOSE K \in PackageKinds \ {"ProposalOk", "ProposalErr"} : Tag[K] = t
      res == DecodeFields(DecodeLayout[kind], Tail(buf), <<>>)
  IN CASE t > 9 -> Panic
       [] res.r /= "ok" -> res
       [] OTHER -> Ok([kind |-> kind, f |-> [i \in 1 .. Len(res.val) |-> res.val[i]]], res.rest)

VARIABLE pkg

Init == pkg \in Packages

\* the next package sent
Next == pkg' \in Packages

Spec == Init /\ [][Next]_pkg

-----------------------------------------------------------------------------
(* raw_measure, written apart from raw_encode, gives exactly the number of *)
(* bytes raw_encode writes for every package from_msg builds: the buffer   *)
(* is allocated from it, so a short measure makes raw_encode panic.        *)
MeasureMatchesEncode == Len(Encode(pkg)) = Measure(pkg)

(* A package decodes to itself: raw_decode of the bytes raw_encode wrote   *)
(* gives back the same variant and fields and consumes every byte.         *)
RoundTrip == Decode(Encode(pkg)) = Ok(pkg, <<>>)
=============================================================================
