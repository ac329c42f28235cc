------------------------------ MODULE PolicyDoc ------------------------------
(***************************************************************************)
(* The identity of a policy: policy.rs of crates/oracleguard-schemas makes *)
(* canonical bytes of a JSON document and a policy_ref of those, and       *)
(* examples/show_policy_ref.rs compares that of a document with that of    *)
(* the document with another cap.  Pure operators.                         *)
(*                                                                         *)
(* A document is the members of one object, as they are written: keys may  *)
(* come in any order and more than once.  Whitespace, and objects and      *)
(* arrays within a member, are left out.                                   *)
(***************************************************************************)
EXTENDS Wire, Sequences

(* Keys, numbered in the order of their bytes.                             *)
POLICY_VERSION == 1
RELEASE_CAP_BASIS_POINTS == 2
SCHEMA == 3

PolicyKeys == {POLICY_VERSION, RELEASE_CAP_BASIS_POINTS, SCHEMA}

(* A number with a fraction or an exponent, or one beyond 64 bits, is read *)
(* as a float; a text may be written with escapes.                         *)
Integer(n) == [kind |-> "Integer", value |-> n, escaped |-> FALSE]
Float(n) == [kind |-> "Float", value |-> n, escaped |-> FALSE]
Text(t, escaped) == [kind |-> "Text", value |-> t, escaped |-> escaped]

KeysOf(members) == {members[i][1] : i \in DOMAIN members}

(* What a file may hold: a list of members, cut short or not.              *)
IsPolicyDocument(document) ==
    LET members == document.members
    IN  /\ document.whole \in BOOLEAN
        /\ Len(members) \in Nat /\ DOMAIN members = 1 .. Len(members)
        /\ KeysOf(members) \subseteq PolicyKeys
        /\ \A i \in DOMAIN members :
              \E kind \in {"Integer", "Float", "Text"}, escaped \in BOOLEAN :
                  members[i][2] = [kind |-> kind, value |-> members[i][2].value,
                                   escaped |-> escaped]

(* serde_json keeps the last member of a key, and what its text stands for.*)
ReadObject(members) ==
    [key \in KeysOf(members) |->
        LET i == CHOOSE i \in DOMAIN members :
                    /\ members[i][1] = key
                    /\ \A j \in DOMAIN members : members[j][1] = key => j <= i
        IN  [members[i][2] EXCEPT !.escaped = FALSE]]

(* The keys of an object, from the least to the greatest.                  *)
Ascending(keys) ==
    CHOOSE s \in [1 .. Cardinality(keys) -> keys] :
        \A i, j \in DOMAIN s : i < j => s[i] < s[j]

(* An object's members, in the order of their keys.                        *)
WriteObject(object) ==
    LET keys == Ascending(DOMAIN object)
    IN  [i \in DOMAIN keys |-> <<keys[i], object[keys[i]]>>]

(* Fault: the members are left as they were written.                       *)
CanonicalizeInOrder(document) ==
    IF ~document.whole THEN Err("InvalidJson")
    ELSE IF \E i \in DOMAIN document.members : document.members[i][2].kind = "Float"
         THEN Err("FloatForbidden")
         ELSE Ok(document.members)

CanonicalizePolicyJson(document) ==
    LET object == ReadObject(document.members)
    IN  IF ~document.whole THEN Err("InvalidJson")
        ELSE IF \E key \in DOMAIN object : object[key].kind = "Float"
             THEN Err("FloatForbidden")
             ELSE Ok(WriteObject(object))

(* SHA-256, taken to be injective.                                         *)
DerivePolicyRef(canonical_bytes) == [sha256 |-> canonical_bytes]

(* The document with another cap, as serde_json writes it.                 *)
WithCap(document, cap) ==
    LET object == ReadObject(document.members)
    IN  [whole |-> TRUE,
         members |-> WriteObject(
            [key \in DOMAIN object \cup {RELEASE_CAP_BASIS_POINTS} |->
                IF key = RELEASE_CAP_BASIS_POINTS THEN Integer(cap) ELSE object[key]])]

ShowPolicyRef(document, cap) ==
    LET original == CanonicalizePolicyJson(document)
        rotated == CanonicalizePolicyJson(WithCap(document, cap))
    IN  IF original.result = "Err" THEN [exit |-> 1]
        ELSE [exit |-> 0,
              original |-> DerivePolicyRef(original.value),
              rotated |-> DerivePolicyRef(rotated.value),
              changed |-> DerivePolicyRef(original.value) # DerivePolicyRef(rotated.value)]

-----------------------------------------------------------------------------
(* What a document says, stated without its canonical form.                *)

(* The last member of a key.                                               *)
LastOf(document, key) ==
    {k \in DOMAIN document.members :
        /\ document.members[k][1] = key
        /\ \A j \in k + 1 .. Len(document.members) : document.members[j][1] # key}

(* Its value for a key: that of the last member, whatever its spelling.    *)
Says(document, key) ==
    {[kind |-> document.members[i][2].kind, value |-> document.members[i][2].value] :
        i \in LastOf(document, key)}

SayTheSame(d, e) ==
    \A key \in PolicyKeys : Says(d, key) = Says(e, key)

(* The same values, as they are written.                                   *)
SpellTheSame(d, e) ==
    \A key \in PolicyKeys :
        {d.members[i][2] : i \in LastOf(d, key)} = {e.members[i][2] : i \in LastOf(e, key)}

=============================================================================
