---------------------------- MODULE MCOracleFetch ----------------------------
(***************************************************************************)
(* A small instance of OracleFetch, and the claim of the comments in       *)
(* charli3.rs that the code does not keep.                                 *)
(***************************************************************************)
EXTENDS OracleFetch, TLC

Entry(key, value) == <<UInt(key), UInt(value)>>

InOrder(datum) ==
    Entry(KEY_PRICE, datum.price_microusd) \o Entry(KEY_CREATED_MS, datum.created_unix_ms)
        \o Entry(KEY_EXPIRY_MS, datum.expiry_unix_ms)

Reordered(datum) ==
    Entry(KEY_EXPIRY_MS, datum.expiry_unix_ms) \o Entry(KEY_PRICE, datum.price_microusd)
        \o Entry(KEY_CREATED_MS, datum.created_unix_ms)

OnChain(entries) == Encoding(entries, IndefiniteArray, IndefiniteArray)

(* Of one datum, whatever the oracle would publish.  The entry of the      *)
(* price is there twice and the expiry is not; the price is no integer; an *)
(* item follows.                                                           *)
Malformed ==
    LET datum == [price_microusd |-> 2, created_unix_ms |-> 0, expiry_unix_ms |-> Validity]
    IN  {OnChain(Entry(KEY_PRICE, datum.price_microusd) \o Entry(KEY_PRICE, datum.expiry_unix_ms)
                     \o Entry(KEY_CREATED_MS, datum.created_unix_ms)),
         OnChain(<<UInt(KEY_PRICE), Other>> \o SubSeq(InOrder(datum), 3, 6)),
         Append(OnChain(InOrder(datum)), Other)}

(* Only a price other than zero comes in both orders.                      *)
WellFormed(datum) ==
    {OnChain(InOrder(datum))} \cup
        IF datum.price_microusd = 0 THEN {} ELSE {OnChain(Reordered(datum))}

MCDocuments(datum) == WellFormed(datum) \cup Malformed

-----------------------------------------------------------------------------
(* The arrays of a Plutus constructor may also be definite.                *)

DefiniteDocuments(datum) ==
    {Encoding(InOrder(datum), outer, inner) :
        outer \in {Array(1), IndefiniteArray}, inner \in {Array(1), IndefiniteArray}}

(* The comments of charli3.rs say that an array of one element may be      *)
(* definite and then has no trailing break, so that nothing is consumed:   *)
(* a document of the schema with such arrays is not refused as malformed.  *)
DefiniteArraysAreParsed ==
    \A refused \in result : refused.result = "Err" /\ refused.error \in Charli3ParseErrors =>
        \A d \in document : ~IsAggState(d, {IndefiniteArray, Array(1)})

=============================================================================
