------------------------------ MODULE Metadata ------------------------------
(***************************************************************************)
(* The one-line metadata record RocksDbKVCache keeps beside every payload: *)
(* "model_id|seq_id|num_tokens|expiration_time".                           *)
(*                                                                         *)
(* A string is the sequence of its '|'-separated segments: splitting at    *)
(* '|' is all the code ever does with it.  A segment that std::stoull      *)
(* accepts is the number it yields, every other segment is one of Words.   *)
(***************************************************************************)
EXTENDS Integers, Sequences

CONSTANTS
    Words,      \* segments std::stoull rejects (it throws)
    U64Mod      \* 2^64 in the code; a small modulus when model-checking

ASSUME MetadataAssumption ==
    /\ U64Mod \in Nat \ {0}
    /\ Words \cap Nat = {}

U64     == 0 .. U64Mod - 1
Segment == Words \cup U64

\* "" is the empty sequence; a model_id without '|' has one segment.
ModelId == Seq(Segment)

\* What the store writes under "meta:<cache_id>".
MetaString == {m \in Seq(Segment) : Len(m) >= 4}

\* What a successful parse yields.
Parsed == [model : ModelId, seq : U64, tok : U64, exp : U64]

serializeMetadata(model, seq, tok, exp) == model \o <<seq, tok, exp>>

(***************************************************************************)
(* Four getline calls take the first four segments and drop the rest; the  *)
(* three std::stoull calls throw when one of segments 2 to 4 is a word.    *)
(***************************************************************************)
Parses(m) == \A i \in 2 .. 4 : m[i] \in U64

\* Mutant of parseMetadata: the two counters are read in the wrong order.
parseSwapped(m) ==
    [model |-> <<m[1]>>, seq |-> m[3], tok |-> m[2], exp |-> m[4]]

parseMetadata(m) ==
    [model |-> <<m[1]>>, seq |-> m[2], tok |-> m[3], exp |-> m[4]]

(***************************************************************************)
(* Parsing gives back what was serialized (rocksdb_kvcache.cpp:393-434).   *)
(***************************************************************************)
RoundTrips(model, seq, tok, exp) ==
    LET m == serializeMetadata(model, seq, tok, exp)
    IN  /\ Parses(m)
        /\ parseMetadata(m) = [model |-> model, seq |-> seq, tok |-> tok, exp |-> exp]
=============================================================================
