------------------------------ MODULE AggState ------------------------------
(***************************************************************************)
(* The oracle datum of crates/oracleguard-adapter/src/charli3.rs: the      *)
(* parser of the AggState document and its normalisation into the oracle   *)
(* part of an intent.  Pure operators.                                     *)
(*                                                                         *)
(* A document is the sequence of its CBOR items, as the decoder hands them *)
(* out: an item is its type and its argument.  How an item is spelled in   *)
(* bytes is left out, and so is an integer beyond a u64, which has no such *)
(* item.                                                                   *)
(***************************************************************************)
EXTENDS Canonical, Sequences

Item(type, argument) == [type |-> type, argument |-> argument]

Tag(number) == Item("Tag", number)
Array(length) == Item("Array", length)
IndefiniteArray == Item("IndefiniteArray", 0)
Map(length) == Item("Map", length)
UInt(value) == Item("UInt", value)
Break == Item("Break", 0)

(* Text, a negative integer, or any other item the schema has no place for *)
Other == Item("Other", 0)

Items ==
    [type : {"Tag", "Array", "Map"}, argument : Nat]
        \cup [type : {"UInt"}, argument : U64]
        \cup {IndefiniteArray, Break, Other}

CONSTR_0_TAG == 121
CONSTR_2_TAG == 123

KEY_PRICE == 0
KEY_CREATED_MS == 1
KEY_EXPIRY_MS == 2
Keys == {KEY_PRICE, KEY_CREATED_MS, KEY_EXPIRY_MS}

AggStateData ==
    [price_microusd : U64, created_unix_ms : U64, expiry_unix_ms : U64]

Charli3ParseErrors ==
    {"MalformedCbor", "UnexpectedConstructor", "PriceNotInteger",
     "TimestampNotInteger", "UnexpectedMapKey"}

-----------------------------------------------------------------------------
(* The parser.  Items are read once, in order, so the result is the error  *)
(* of the first item that is not what its place requires.  A check is the  *)
(* set of the error it gives, empty when the item will do.                 *)

HasItem(document, i, type) == i <= Len(document) /\ document[i].type = type

ErrorUnless(ok, error) == IF ok THEN {} ELSE {error}

ExpectTag(document, i, tag) ==
    IF HasItem(document, i, "Tag")
    THEN ErrorUnless(document[i].argument = tag, "UnexpectedConstructor")
    ELSE {"MalformedCbor"}

ExpectArrayWithOneElement(document, i) ==
    ErrorUnless(i <= Len(document) /\ document[i] \in {Array(1), IndefiniteArray},
                "MalformedCbor")

ExpectMapOfThree(document, i) ==
    ErrorUnless(i <= Len(document) /\ document[i] = Map(3), "MalformedCbor")

(* Where the k-th entry of the map begins.                                 *)
EntryAt(k) == 4 + 2 * k

ExpectNewKey(document, k) ==
    IF HasItem(document, EntryAt(k), "UInt")
    THEN ErrorUnless(/\ document[EntryAt(k)].argument \in Keys
                     /\ \A j \in 1 .. k - 1 : document[EntryAt(j)] # document[EntryAt(k)],
                     "UnexpectedMapKey")
    ELSE {"MalformedCbor"}

ExpectValue(document, k) ==
    IF EntryAt(k) + 1 > Len(document) THEN {"MalformedCbor"}
    ELSE ErrorUnless(document[EntryAt(k) + 1].type = "UInt",
                     IF document[EntryAt(k)] = UInt(KEY_PRICE)
                     THEN "PriceNotInteger" ELSE "TimestampNotInteger")

(* expect_array_break: where reading goes on behind item i.  Nothing is    *)
(* consumed unless the item is a break, and there has to be an item.       *)
AfterArrayBreak(document, i) ==
    IF i > Len(document) THEN {}
    ELSE IF document[i] = Break THEN {i + 1} ELSE {i}

(* Fault: only the inner array is closed.                                  *)
ExpectEndOfInner(document, i) ==
    ErrorUnless(Len(document) + 1 \in AfterArrayBreak(document, i), "MalformedCbor")

(* Both arrays are closed, and nothing is left.                            *)
ExpectEnd(document, i) ==
    ErrorUnless(\E inner \in AfterArrayBreak(document, i) :
                    Len(document) + 1 \in AfterArrayBreak(document, inner),
                "MalformedCbor")

Checks(document) ==
    <<ExpectTag(document, 1, CONSTR_0_TAG), ExpectArrayWithOneElement(document, 2),
      ExpectTag(document, 3, CONSTR_2_TAG), ExpectArrayWithOneElement(document, 4),
      ExpectMapOfThree(document, 5),
      ExpectNewKey(document, 1), ExpectValue(document, 1),
      ExpectNewKey(document, 2), ExpectValue(document, 2),
      ExpectNewKey(document, 3), ExpectValue(document, 3),
      ExpectEnd(document, 12)>>

FailedChecks(document) ==
    LET checks == Checks(document) IN {i \in 1 .. 12 : checks[i] # {}}

IsParsed(document) == FailedChecks(document) = {}

ParseError(document) ==
    LET failed == FailedChecks(document)
        first == CHOOSE i \in failed : \A j \in failed : i <= j
    IN  CHOOSE error \in Checks(document)[first] : TRUE

(* Fault: the value of the first entry is the price, whatever its key.     *)
ValueByPosition(document, key) == document[EntryAt(key + 1) + 1].argument

(* Three new keys out of three: none is missing.                           *)
ValueOf(document, key) ==
    LET k == CHOOSE k \in 1 .. 3 : document[EntryAt(k)] = UInt(key)
    IN  document[EntryAt(k) + 1].argument

DatumOf(document) ==
    [price_microusd |-> ValueOf(document, KEY_PRICE),
     created_unix_ms |-> ValueOf(document, KEY_CREATED_MS),
     expiry_unix_ms |-> ValueOf(document, KEY_EXPIRY_MS)]

-----------------------------------------------------------------------------
(* Normalisation                                                           *)

Normalized(document, ref) ==
    LET datum == DatumOf(document)
    IN  [result |-> "Ok",
         fact |-> [price_microusd |-> datum.price_microusd],
         provenance |-> [timestamp_unix |-> datum.created_unix_ms,
                         expiry_unix |-> datum.expiry_unix_ms,
                         aggregator_utxo_ref |-> ref]]

Rejection(error) == [result |-> "Err", error |-> error]

(* normalize_aggstate_datum: neither the age nor the price is looked at.   *)
NormalizeAggStateDatum(document, ref) ==
    IF IsParsed(document) THEN Normalized(document, ref)
    ELSE Rejection(ParseError(document))

NormalizeParseValidate(document, ref, now) ==
    LET normalized == NormalizeAggStateDatum(document, ref)
    IN  IF normalized.result = "Err" THEN normalized
        ELSE IF normalized.fact.price_microusd = 0 THEN Rejection("OraclePriceZero")
        ELSE IF ~IsFresh(normalized.provenance, now) THEN Rejection("OracleStale")
        ELSE normalized

NormalizeRejections ==
    [result : {"Err"},
     error : Charli3ParseErrors \cup {"OraclePriceZero", "OracleStale"}]

NormalizeResults ==
    [result : {"Ok"}, fact : OracleFactEval, provenance : OracleFactProvenance]
        \cup NormalizeRejections

-----------------------------------------------------------------------------
(* The documents of the schema, stated without the parser.                 *)

EntriesOf(datum) ==
    {<<UInt(KEY_PRICE), UInt(datum.price_microusd)>>,
     <<UInt(KEY_CREATED_MS), UInt(datum.created_unix_ms)>>,
     <<UInt(KEY_EXPIRY_MS), UInt(datum.expiry_unix_ms)>>}

(* The document's map says exactly this datum, in any order.               *)
Says(document, datum) ==
    /\ Len(document) >= 11
    /\ document[5] = Map(3)
    /\ {<<document[EntryAt(k)], document[EntryAt(k) + 1]>> : k \in 1 .. 3}
           = EntriesOf(datum)

Opening(tag, header) == <<Tag(tag), header>>
Closing(header) == IF header = IndefiniteArray THEN <<Break>> ELSE <<>>

(* The document with these six items in its map, and these headers of the  *)
(* constructors' arrays.                                                   *)
Encoding(entries, outer, inner) ==
    Opening(CONSTR_0_TAG, outer) \o Opening(CONSTR_2_TAG, inner)
        \o <<Map(3)>> \o entries \o Closing(inner) \o Closing(outer)

(* A document of the schema whose arrays have headers of this set.         *)
IsAggState(document, headers) ==
    /\ Len(document) >= 11
    /\ \E outer, inner \in headers :
          document = Encoding(SubSeq(document, 6, 11), outer, inner)
    /\ {document[EntryAt(k)] : k \in 1 .. 3} = {UInt(key) : key \in Keys}
    /\ \A k \in 1 .. 3 : document[EntryAt(k) + 1].type = "UInt"

=============================================================================
