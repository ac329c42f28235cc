------------------------------ MODULE NodeConfig ------------------------------
(***************************************************************************)
(* The configuration loader of integrations/ziranity (config.rs): which    *)
(* files it accepts, and the snapshot it freezes for the node's life.      *)
(***************************************************************************)
EXTENDS Authorize, Sequences

CONSTANT ADA_LITERAL   \* the string "ADA", the only accepted approved_asset

(* Lengths a destination may state: 0, a legal one, and one past the       *)
(* 57-byte buffer.                                                         *)
MAX_ADDRESS_LENGTH == 57
StatedLengths == {0, MAX_ADDRESS_LENGTH, MAX_ADDRESS_LENGTH + 1}

(* A destination of the file: the address its bytes and length make, the   *)
(* length, and whether the bytes are an even number of lowercase hex       *)
(* digits that fit the buffer.                                             *)
DestinationFiles ==
    [address : Addresses, length : StatedLengths, bytes_ok : BOOLEAN]

(* An entry of registry.allocations, ids and subjects being 64 hex digits  *)
(* when hex_ok.                                                            *)
IsAllocationFile(entry) ==
    /\ entry.id \in AllocationIds
    /\ entry.basis_lovelace \in U64
    /\ entry.authorized_subjects \subseteq RequesterIds
    /\ entry.approved_destinations \subseteq DestinationFiles
    /\ entry.hex_ok \in BOOLEAN

(* A file: whether it can be read, parsed as TOML and its policy refs      *)
(* decoded, and its content.                                               *)
IsConfigFile(file) ==
    /\ file.parses \in BOOLEAN
    /\ file.registered_policy_refs \subseteq PolicyRefs
    /\ Len(file.allocations) \in Nat
    /\ DOMAIN file.allocations = 1 .. Len(file.allocations)
    /\ \A i \in DOMAIN file.allocations : IsAllocationFile(file.allocations[i])

-----------------------------------------------------------------------------

DecodesDestination(destination) ==
    /\ destination.length \in 1 .. MAX_ADDRESS_LENGTH
    /\ destination.bytes_ok

DecodesEntry(entry) ==
    /\ entry.hex_ok
    /\ entry.approved_asset = ADA_LITERAL
    /\ \A destination \in entry.approved_destinations : DecodesDestination(destination)

HasDuplicateIds(entries) ==
    \E i, j \in DOMAIN entries : i # j /\ entries[i].id = entries[j].id

(* Fault: duplicate ids are let through.                                   *)
IsLoadableTwice(file) ==
    /\ file.parses
    /\ \A i \in DOMAIN file.allocations : DecodesEntry(file.allocations[i])

(* from_toml_path returns Ok; any other file is a BuildError.              *)
IsLoadable(file) ==
    /\ file.parses
    /\ \A i \in DOMAIN file.allocations : DecodesEntry(file.allocations[i])
    /\ ~HasDuplicateIds(file.allocations)

(* AllocationRegistryView::lookup finds the first entry with the id.       *)
EntryOf(file, id) ==
    LET indices == {i \in DOMAIN file.allocations : file.allocations[i].id = id}
    IN  file.allocations[CHOOSE i \in indices : \A j \in indices : i <= j]

(* Fault: the asset is kept as the file spells it.                         *)
FactsAsSpelled(entry) ==
    [basis_lovelace |-> entry.basis_lovelace,
     authorized_subjects |-> entry.authorized_subjects,
     approved_asset |-> entry.approved_asset,
     approved_destinations |->
        {destination.address : destination \in entry.approved_destinations}]

FactsOf(entry) ==
    [basis_lovelace |-> entry.basis_lovelace,
     authorized_subjects |-> entry.authorized_subjects,
     approved_asset |-> ADA,
     approved_destinations |->
        {destination.address : destination \in entry.approved_destinations}]

SnapshotOf(file) ==
    [policies |-> file.registered_policy_refs,
     allocations |->
        [id \in {file.allocations[i].id : i \in DOMAIN file.allocations} |->
            FactsOf(EntryOf(file, id))]]

=============================================================================
