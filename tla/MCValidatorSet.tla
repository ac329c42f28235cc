---------------------------- MODULE MCValidatorSet ----------------------------
(***************************************************************************)
(* A small instance of ValidatorSet: three validators of which two agree,  *)
(* operators who edit files, restart validators one by one and make        *)
(* mistakes.                                                               *)
(***************************************************************************)
EXTENDS ValidatorSet, TLC

CONSTANTS pol, unregistered, alloc, unlisted, alice, mallory, dest, elsewhere, token,
          utxo, v1, v2, v3

Destination(length) == [address |-> dest, length |-> length, bytes_ok |-> TRUE]

Entry(basis, subjects, asset, length) ==
    [id |-> alloc, basis_lovelace |-> basis, authorized_subjects |-> subjects,
     approved_asset |-> asset, approved_destinations |-> {Destination(length)},
     hex_ok |-> TRUE]

File(entries) ==
    [parses |-> TRUE, registered_policy_refs |-> {pol}, allocations |-> entries]

Good == Entry(4, {alice}, ADA_LITERAL, MAX_ADDRESS_LENGTH)
Small == Entry(2, {alice}, ADA_LITERAL, MAX_ADDRESS_LENGTH)

GoodFile == File(<<Good>>)
SmallFile == File(<<Small>>)
(* Files with a mistake in each of the places the loader looks at.         *)
DoubleFile == File(<<Good, Small>>)
TokenFile == File(<<Entry(4, {alice}, "token", MAX_ADDRESS_LENGTH)>>)
ShortFile == File(<<Entry(4, {alice}, ADA_LITERAL, 0)>>)
UnhexFile == File(<<[Good EXCEPT !.hex_ok = FALSE]>>)
GoneFile == [GoodFile EXCEPT !.parses = FALSE]

TwoFiles == {GoodFile, SmallFile}
EveryFile == TwoFiles \cup {DoubleFile, TokenFile, ShortFile, UnhexFile, GoneFile}

Intent(version, requester, amount, price, expiry) ==
    [intent_version |-> version, policy_ref |-> pol, allocation_id |-> alloc,
     requester_id |-> requester,
     oracle_fact |-> [price_microusd |-> price],
     oracle_provenance |-> [timestamp_unix |-> 0, expiry_unix |-> expiry,
                            aggregator_utxo_ref |-> utxo],
     requested_amount_lovelace |-> amount, destination |-> dest, asset |-> ADA]

(* Expires between two clocks; needs the larger allocation.                *)
FewIntents == {Intent(1, alice, 2, 1, 1)}

(* Every amount and price of the scaled instance, and intents that fail at *)
(* one of the other conditions each.                                       *)
Base == Intent(INTENT_VERSION_V1, alice, 2, 1, 2)

EveryIntent ==
    FewIntents \cup
    {Intent(INTENT_VERSION_V1, alice, amount, price, 1) : amount \in 0 .. 5, price \in 0 .. 3}
        \cup {Base,
              [Base EXCEPT !.intent_version = 2],
              [Base EXCEPT !.policy_ref = unregistered],
              [Base EXCEPT !.allocation_id = unlisted],
              [Base EXCEPT !.requester_id = mallory],
              [Base EXCEPT !.destination = elsewhere],
              [Base EXCEPT !.asset = token]}

(* The instance is explored where one of three things varies in full: the  *)
(* lives of the three validators, the calls put to two of them, or the     *)
(* file of one.                                                            *)
HasFewCalls ==
    /\ \A v \in Validators : file[v] \in TwoFiles
    /\ proposal # None => proposal.call \in FewIntents \cup {Garbage}
    /\ \A block \in blocks : block.call \in FewIntents \cup {Garbage}

HasTwoRunning ==
    /\ file[v1] \in TwoFiles /\ file[v2] \in TwoFiles /\ file[v3] = GoodFile
    /\ handler[v3] = None
    /\ clock[v2] = 0 /\ clock[v3] = 0
    /\ blocks = {}

HasOneRunning ==
    /\ file[v2] = GoodFile /\ file[v3] = GoodFile
    /\ handler[v2] = None /\ handler[v3] = None
    /\ proposal = None

IsExplored == HasFewCalls \/ HasTwoRunning \/ HasOneRunning

Majorities == {Q \in SUBSET Validators : 2 * Cardinality(Q) > Cardinality(Validators)}

=============================================================================
