---------------------------- MODULE DemoFlowProofs ----------------------------
(***************************************************************************)
(* The demo script, for every template, configuration of the validators,   *)
(* price, lifetime of a datum and set of policy documents: what its        *)
(* builder sizes and predicts, what a payment and a live bundle follow     *)
(* from, and what the identity of a policy says.                           *)
(***************************************************************************)
EXTENDS DemoFlow, DecisionProofs, FiniteSetTheorems

-----------------------------------------------------------------------------
(* Numbers in order                                                        *)

(* A family of subsets of a finite set has a smallest member.  What is     *)
(* proved by induction elsewhere is proved here of a least counterexample. *)
LEMMA SmallestSubset ==
    ASSUME NEW S, IsFiniteSet(S), NEW F, \A T \in F : T \subseteq S, F # {}
    PROVE  \E T \in F : \A U \in F : U \subseteq T => U = T
<1>1. IsWellFoundedOn(StrictSubsetOrdering(S), SUBSET S)
  BY FS_StrictSubsetOrderingWellFounded, FS_FiniteSubsetsOfFinite
<1>2. PICK T \in F : \A U \in F : <<U, T>> \notin StrictSubsetOrdering(S)
  <2>1. F \subseteq SUBSET S
    OBVIOUS
  <2>. QED
    BY <1>1, <2>1, WFMin
<1>3. ASSUME NEW U \in F, U \subseteq T PROVE U = T
  BY <1>2, <1>3 DEF StrictSubsetOrdering
<1>. QED
  BY <1>3

LEMMA GreatestOfFinite ==
    ASSUME NEW A \in SUBSET Int, IsFiniteSet(A), A # {}
    PROVE  \E m \in A : \A k \in A : k <= m
<1> DEFINE Above(i) == {k \in A : k > i}
           Family == {Above(i) : i \in A}
<1>1. (\A T \in Family : T \subseteq A) /\ Family # {}
  OBVIOUS
<1>2. \A i \in A : Above(i) \in Family
  OBVIOUS
<1>3. \A T \in Family : \E m \in A : T = Above(m)
  OBVIOUS
<1>4. PICK T \in Family : \A U \in Family : U \subseteq T => U = T
  <2>. HIDE DEF Family
  <2>. QED
    BY <1>1, SmallestSubset
<1>5. PICK m \in A : T = Above(m)
  <2>. HIDE DEF Family, Above
  <2>. QED
    BY <1>3
<1>6. ASSUME NEW k \in A, k > m PROVE FALSE
  <2>1. k \in Int /\ m \in Int /\ \A j \in A : j \in Int
    OBVIOUS
  <2>2. Above(k) \subseteq Above(m) /\ k \in Above(m) /\ k \notin Above(k)
    <3>. HIDE DEF Family
    <3>1. k \in Above(m) /\ k \notin Above(k)
      BY <1>6, <2>1
    <3>2. ASSUME NEW j \in Above(k) PROVE j \in Above(m)
      BY <1>6, <2>1
    <3>. QED
      BY <3>1, <3>2
  <2>. HIDE DEF Above, Family
  <2>. QED
    BY <1>2, <1>4, <1>5, <2>2
<1>. QED
  BY <1>6

(* Any finite set of numbers can be written from its least to its          *)
(* greatest.                                                               *)
LEMMA CanBeAscending ==
    ASSUME NEW S \in SUBSET Int, IsFiniteSet(S)
    PROVE  \E s \in [1 .. Cardinality(S) -> S] : \A i, j \in DOMAIN s : i < j => s[i] < s[j]
<1> DEFINE Has(T) == \E s \in [1 .. Cardinality(T) -> T] :
                        \A i, j \in DOMAIN s : i < j => s[i] < s[j]
           Lacking == {T \in SUBSET S : ~Has(T)}
<1>1. SUFFICES ASSUME ~Has(S) PROVE FALSE
  OBVIOUS
<1>2. PICK T \in Lacking : \A U \in Lacking : U \subseteq T => U = T
  <2>1. (\A T \in Lacking : T \subseteq S) /\ Lacking # {}
    <3>. HIDE DEF Has
    <3>. QED
      BY <1>1
  <2>. HIDE DEF Lacking
  <2>. QED
    BY <2>1, SmallestSubset
<1>3. T \in SUBSET Int /\ IsFiniteSet(T) /\ Cardinality(T) \in Nat
  BY <1>2, FS_Subset, FS_CardinalityType
<1>4. CASE T = {}
  <2>1. Cardinality(T) = 0
    BY <1>4, FS_EmptySet
  <2>2. [i \in 1 .. 0 |-> i] \in [1 .. Cardinality(T) -> T]
    BY <1>4, <2>1
  <2>3. \A i, j \in DOMAIN [i \in 1 .. 0 |-> i] : FALSE
    OBVIOUS
  <2>. QED
    BY <1>2, <2>2, <2>3
<1>5. CASE T # {}
  <2>1. PICK m \in T : \A k \in T : k <= m
    BY <1>3, <1>5, GreatestOfFinite
  <2> DEFINE U == T \ {m}
             n == Cardinality(U)
  <2>2. n \in Nat /\ Cardinality(T) = n + 1
    <3>1. Cardinality(U) = Cardinality(T) - 1 /\ Cardinality(U) \in Nat
      BY <1>3, <2>1, FS_RemoveElement, FS_CardinalityType
    <3>. QED
      BY <1>3, <3>1
  <2>3. PICK s \in [1 .. n -> U] : \A i, j \in DOMAIN s : i < j => s[i] < s[j]
    <3>1. U \in SUBSET S /\ U \subseteq T /\ U # T
      BY <1>2, <2>1
    <3>2. Has(U)
      <4>. HIDE DEF Has, U
      <4>. QED
        BY <1>2, <3>1
    <3>. HIDE DEF U
    <3>. QED
      BY <3>2
  <2>. HIDE DEF n
  <2> DEFINE t == [i \in 1 .. n + 1 |-> IF i = n + 1 THEN m ELSE s[i]]
  <2>4. t \in [1 .. Cardinality(T) -> T]
    BY <2>1, <2>2, <2>3
  <2>5. ASSUME NEW i \in DOMAIN t, NEW j \in DOMAIN t, i < j PROVE t[i] < t[j]
    <3>1. i \in 1 .. n + 1 /\ j \in 1 .. n + 1 /\ i # n + 1
      BY <2>2, <2>5
    <3>2. i \in 1 .. n /\ s[i] \in U /\ t[i] = s[i]
      BY <2>2, <2>3, <3>1
    <3>3. CASE j = n + 1
      <4>1. t[j] = m
        BY <3>1, <3>3
      <4>2. s[i] \in Int /\ m \in Int /\ s[i] <= m /\ s[i] # m
        BY <1>3, <2>1, <3>2
      <4>. HIDE DEF t
      <4>. QED
        BY <3>2, <4>1, <4>2
    <3>4. CASE j # n + 1
      BY <2>2, <2>3, <2>5, <3>1, <3>2, <3>4
    <3>. QED
      BY <3>3, <3>4
  <2>. QED
    BY <1>2, <2>4, <2>5
<1>. QED
  BY <1>4, <1>5

-----------------------------------------------------------------------------
(* The identity of a policy                                                *)

LEMMA AscendingListsAll ==
    ASSUME NEW S \in SUBSET Int, IsFiniteSet(S)
    PROVE  /\ Ascending(S) \in [1 .. Cardinality(S) -> S]
           /\ \A i, j \in 1 .. Cardinality(S) : Ascending(S)[i] = Ascending(S)[j] => i = j
           /\ \A k \in S : \E i \in 1 .. Cardinality(S) : Ascending(S)[i] = k
<1> DEFINE n == Cardinality(S)
           s == Ascending(S)
<1>1. n \in Nat /\ IsFiniteSet(1 .. n) /\ Cardinality(1 .. n) = n
  BY FS_CardinalityType, FS_Interval
<1>2. s \in [1 .. n -> S] /\ \A i, j \in DOMAIN s : i < j => s[i] < s[j]
  BY CanBeAscending DEF Ascending
<1>. HIDE DEF s
<1>3. ASSUME NEW i \in 1 .. n, NEW j \in 1 .. n, s[i] = s[j] PROVE i = j
  <2>1. s[i] \in Int /\ s[j] \in Int /\ i \in Int /\ j \in Int
    <3>1. s[i] \in S /\ s[j] \in S
      BY <1>2
    <3>2. i \in Int /\ j \in Int
      BY <1>1
    <3>. QED
      BY <3>1, <3>2
  <2>2. ~(i < j) /\ ~(j < i)
    BY <1>2, <1>3, <2>1
  <2>. QED
    BY <2>1, <2>2
<1>4. s \in Injection(1 .. n, S)
  BY <1>2, <1>3 DEF Injection, IsInjective
<1>5. s \in Surjection(1 .. n, S)
  BY <1>1, <1>4, FS_Injection
<1>6. \A k \in S : \E i \in 1 .. n : s[i] = k
  BY <1>5 DEF Surjection
<1>. QED
  BY <1>2, <1>3, <1>6 DEF s

(* What serde_json makes of a list of members: no two have one key, and no *)
(* text is spelled with escapes.                                           *)
IsObject(object) ==
    /\ object = [key \in DOMAIN object |-> object[key]]
    /\ DOMAIN object \subseteq PolicyKeys
    /\ \A key \in DOMAIN object :
          object[key] = [kind |-> object[key].kind, value |-> object[key].value,
                         escaped |-> FALSE]

LEMMA FewKeys ==
    ASSUME NEW object, IsObject(object)
    PROVE  DOMAIN object \in SUBSET Int /\ IsFiniteSet(DOMAIN object)
<1>1. PolicyKeys = 1 .. 3
  BY DEF PolicyKeys, POLICY_VERSION, RELEASE_CAP_BASIS_POINTS, SCHEMA
<1>2. IsFiniteSet(PolicyKeys)
  <2>1. \A n \in Nat : IsFiniteSet(1 .. n)
    BY FS_Interval
  <2>. QED
    BY <1>1, <2>1
<1>3. DOMAIN object \in SUBSET PolicyKeys
  BY DEF IsObject
<1>. QED
  BY <1>1, <1>2, <1>3, FS_Subset

(* Canonical bytes are read as the object they were written from.          *)
LEMMA WrittenIsRead ==
    ASSUME NEW object, IsObject(object)
    PROVE  /\ ReadObject(WriteObject(object)) = object
           /\ KeysOf(WriteObject(object)) = DOMAIN object
<1> DEFINE n == Cardinality(DOMAIN object)
           keys == Ascending(DOMAIN object)
           members == WriteObject(object)
<1>1. /\ keys \in [1 .. n -> DOMAIN object]
      /\ \A i, j \in 1 .. n : keys[i] = keys[j] => i = j
      /\ \A k \in DOMAIN object : \E i \in 1 .. n : keys[i] = k
  BY FewKeys, AscendingListsAll
<1>2. members = [i \in 1 .. n |-> <<keys[i], object[keys[i]]>>]
  BY <1>1 DEF WriteObject
<1>3. \A i \in 1 .. n : members[i][1] = keys[i] /\ members[i][2] = object[keys[i]]
  BY <1>2
<1>4. DOMAIN members = 1 .. n
  BY <1>2
<1>. HIDE DEF members, keys, n
<1>5. KeysOf(members) = DOMAIN object
  <2>1. KeysOf(members) = {keys[i] : i \in 1 .. n}
    BY <1>3, <1>4 DEF KeysOf
  <2>2. ASSUME NEW key \in KeysOf(members) PROVE key \in DOMAIN object
    BY <1>1, <2>1, <2>2
  <2>3. ASSUME NEW key \in DOMAIN object PROVE key \in KeysOf(members)
    BY <1>1, <2>1, <2>3
  <2>. QED
    BY <2>2, <2>3
<1>6. ASSUME NEW key \in DOMAIN object
      PROVE  ReadObject(members)[key] = object[key]
  <2> DEFINE Last(i) == /\ members[i][1] = key
                        /\ \A j \in DOMAIN members : members[j][1] = key => j <= i
             last == CHOOSE i \in DOMAIN members : Last(i)
  <2>1. PICK i \in 1 .. n : keys[i] = key
    BY <1>1
  <2>2. Last(i)
    <3>1. ASSUME NEW j \in 1 .. n, members[j][1] = key PROVE j <= i
      BY <1>1, <1>3, <2>1, <3>1
    <3>. QED
      BY <1>3, <1>4, <2>1, <3>1
  <2>3. last \in DOMAIN members /\ members[last][1] = key
    BY <1>4, <2>2
  <2>. HIDE DEF last
  <2>4. members[last][2] = object[key]
    BY <1>3, <1>4, <2>3
  <2>5. [object[key] EXCEPT !.escaped = FALSE] = object[key]
    BY DEF IsObject
  <2>6. ReadObject(members)[key] = [members[last][2] EXCEPT !.escaped = FALSE]
    BY <1>5 DEF ReadObject, last
  <2>. QED
    BY <2>4, <2>5, <2>6
<1>7. ReadObject(members) = [key \in DOMAIN object |-> ReadObject(members)[key]]
  BY <1>5 DEF ReadObject
<1>8. object = [key \in DOMAIN object |-> object[key]]
  BY DEF IsObject
<1>9. ReadObject(members) = object
  BY <1>6, <1>7, <1>8
<1>. QED
  BY <1>5, <1>9 DEF members

LEMMA WritingIsInjective ==
    ASSUME NEW o, IsObject(o), NEW p, IsObject(p)
    PROVE  WriteObject(o) = WriteObject(p) <=> o = p
  BY WrittenIsRead

(* What a text stands for keeps its kind and its value.                    *)
LEMMA Unescaped ==
    ASSUME NEW v, NEW k, NEW x, NEW e, v = [kind |-> k, value |-> x, escaped |-> e]
    PROVE  /\ [v EXCEPT !.escaped = FALSE] = [kind |-> k, value |-> x, escaped |-> FALSE]
           /\ v.kind = k
<1> DEFINE fields == {"kind", "value", "escaped"}
           w == [kind |-> k, value |-> x, escaped |-> FALSE]
           u == [v EXCEPT !.escaped = FALSE]
<1>1. /\ u = [f \in fields |-> u[f]]
      /\ w = [f \in fields |-> w[f]]
  OBVIOUS
<1>2. u["kind"] = w["kind"] /\ u["value"] = w["value"] /\ u["escaped"] = w["escaped"]
  OBVIOUS
<1>3. u = w
  <2>. HIDE DEF u, w
  <2>. QED
    BY <1>1, <1>2
<1>. QED
  BY <1>3

(* The last of the members with a key, which is the one that counts.       *)
LEMMA LastOfItsKey ==
    ASSUME NEW document, IsPolicyDocument(document), NEW key \in KeysOf(document.members)
    PROVE  \E i \in DOMAIN document.members :
              /\ document.members[i][1] = key
              /\ \A j \in DOMAIN document.members : document.members[j][1] = key => j <= i
<1> DEFINE members == document.members
           A == {i \in DOMAIN members : members[i][1] = key}
<1>1. Len(members) \in Nat /\ DOMAIN members = 1 .. Len(members)
  BY DEF IsPolicyDocument
<1>2. A # {}
  BY DEF KeysOf
<1>3. A \in SUBSET Int /\ IsFiniteSet(A)
  <2>1. A \in SUBSET (1 .. Len(members))
    BY <1>1
  <2>2. IsFiniteSet(1 .. Len(members))
    <3>1. 1 \in Int /\ Len(members) \in Int
      BY <1>1
    <3>. QED
      BY <3>1, FS_Interval
  <2>. QED
    BY <1>1, <2>1, <2>2, FS_Subset
<1>4. PICK i \in A : \A j \in A : j <= i
  <2>. HIDE DEF A
  <2>. QED
    BY <1>2, <1>3, GreatestOfFinite
<1>. QED
  BY <1>4

(* Reading a document gives what it says: for every key the value of the   *)
(* last member that has it, however it is spelled.                         *)
LEMMA ReadIsSaid ==
    ASSUME NEW document, IsPolicyDocument(document)
    PROVE  /\ IsObject(ReadObject(document.members))
           /\ DOMAIN ReadObject(document.members) = KeysOf(document.members)
           /\ \A key \in PolicyKeys \ KeysOf(document.members) : Says(document, key) = {}
           /\ \A key \in KeysOf(document.members) :
                 LET value == ReadObject(document.members)[key]
                 IN  Says(document, key) = {[kind |-> value.kind, value |-> value.value]}
<1> DEFINE members == document.members
           object == ReadObject(members)
<1>1. /\ Len(members) \in Nat /\ DOMAIN members = 1 .. Len(members)
      /\ KeysOf(members) \subseteq PolicyKeys
      /\ \A i \in DOMAIN members :
            \E kind \in {"Integer", "Float", "Text"}, escaped \in BOOLEAN :
                members[i][2] = [kind |-> kind, value |-> members[i][2].value,
                                 escaped |-> escaped]
  BY DEF IsPolicyDocument
<1>2. /\ DOMAIN object = KeysOf(members)
      /\ object = [key \in DOMAIN object |-> object[key]]
  BY DEF ReadObject
<1>3. ASSUME NEW key \in KeysOf(members)
      PROVE  \E i \in DOMAIN members :
                /\ Says(document, key) =
                      {[kind |-> members[i][2].kind, value |-> members[i][2].value]}
                /\ object[key] = [members[i][2] EXCEPT !.escaped = FALSE]
  <2> DEFINE Last(i) == /\ members[i][1] = key
                        /\ \A j \in DOMAIN members : members[j][1] = key => j <= i
             last == CHOOSE i \in DOMAIN members : Last(i)
  <2>1. \E i \in DOMAIN members : Last(i)
    BY LastOfItsKey
  <2>2. last \in DOMAIN members /\ Last(last)
    BY <2>1
  <2>3. object[key] = [members[last][2] EXCEPT !.escaped = FALSE]
    BY DEF ReadObject
  <2>. HIDE DEF last
  <2>4. {k \in DOMAIN members :
            /\ members[k][1] = key
            /\ \A j \in k + 1 .. Len(members) : members[j][1] # key} = {last}
    BY <1>1, <2>2
  <2>5. Says(document, key) =
            {[kind |-> members[last][2].kind, value |-> members[last][2].value]}
    BY <2>4 DEF Says, LastOf
  <2>. QED
    BY <2>2, <2>3, <2>5
<1>4. ASSUME NEW key \in PolicyKeys \ KeysOf(members)
      PROVE  Says(document, key) = {}
  BY <1>4 DEF Says, LastOf, KeysOf
<1>. HIDE DEF object
<1>5. ASSUME NEW key \in KeysOf(members)
      PROVE  /\ object[key] = [kind |-> object[key].kind, value |-> object[key].value,
                               escaped |-> FALSE]
             /\ Says(document, key) =
                   {[kind |-> object[key].kind, value |-> object[key].value]}
  <2>1. PICK i \in DOMAIN members :
           /\ Says(document, key) =
                 {[kind |-> members[i][2].kind, value |-> members[i][2].value]}
           /\ object[key] = [members[i][2] EXCEPT !.escaped = FALSE]
    BY <1>3
  <2>2. PICK kind \in {"Integer", "Float", "Text"}, escaped \in BOOLEAN :
           members[i][2] = [kind |-> kind, value |-> members[i][2].value,
                            escaped |-> escaped]
    BY <1>1
  <2>3. /\ object[key] = [kind |-> kind, value |-> members[i][2].value, escaped |-> FALSE]
        /\ members[i][2].kind = kind
    BY <2>1, <2>2, Unescaped
  <2>. QED
    BY <2>1, <2>3
<1>6. IsObject(object)
  BY <1>1, <1>2, <1>5 DEF IsObject
<1>. QED
  BY <1>2, <1>4, <1>5, <1>6 DEF object

LEMMA SameObjects ==
    ASSUME NEW o, IsObject(o), NEW p, IsObject(p), DOMAIN o = DOMAIN p,
           \A key \in DOMAIN o : o[key].kind = p[key].kind /\ o[key].value = p[key].value
    PROVE  o = p
<1>1. \A key \in DOMAIN o : o[key] = p[key]
  BY DEF IsObject
<1>2. o = [key \in DOMAIN o |-> o[key]] /\ p = [key \in DOMAIN o |-> p[key]]
  BY DEF IsObject
<1>. QED
  BY <1>1, <1>2

(* Documents are read as one object exactly if they say the same.          *)
LEMMA ReadTheSameIfSaid ==
    ASSUME NEW d, IsPolicyDocument(d), NEW e, IsPolicyDocument(e)
    PROVE  ReadObject(d.members) = ReadObject(e.members) <=> SayTheSame(d, e)
<1> DEFINE o == ReadObject(d.members)
           p == ReadObject(e.members)
           Said(object, key) == [kind |-> object[key].kind, value |-> object[key].value]
<1>1. /\ IsObject(o) /\ DOMAIN o \subseteq PolicyKeys
      /\ \A key \in PolicyKeys : Says(d, key) =
            IF key \in DOMAIN o THEN {Said(o, key)} ELSE {}
  BY ReadIsSaid DEF IsObject
<1>2. /\ IsObject(p) /\ DOMAIN p \subseteq PolicyKeys
      /\ \A key \in PolicyKeys : Says(e, key) =
            IF key \in DOMAIN p THEN {Said(p, key)} ELSE {}
  BY ReadIsSaid DEF IsObject
<1>. HIDE DEF o, p
<1>3. ASSUME o = p PROVE SayTheSame(d, e)
  BY <1>1, <1>2, <1>3 DEF SayTheSame
<1>4. ASSUME SayTheSame(d, e) PROVE o = p
  <2>1. \A key \in PolicyKeys : Says(d, key) = Says(e, key)
    BY <1>4 DEF SayTheSame
  <2>2. DOMAIN o = DOMAIN p
    <3>. HIDE DEF Said
    <3>1. \A key \in PolicyKeys : key \in DOMAIN o <=> key \in DOMAIN p
      BY <1>1, <1>2, <2>1
    <3>. QED
      BY <1>1, <1>2, <3>1
  <2>3. ASSUME NEW key \in DOMAIN o
        PROVE  o[key].kind = p[key].kind /\ o[key].value = p[key].value
    <3>1. {Said(o, key)} = {Said(p, key)}
      BY <1>1, <1>2, <2>1, <2>2
    <3>2. Said(o, key) = Said(p, key)
      <4>. HIDE DEF Said
      <4>. QED
        BY <3>1
    <3>. QED
      BY <3>2
  <2>. QED
    BY <1>1, <1>2, <2>2, <2>3, SameObjects
<1>. QED
  BY <1>3, <1>4 DEF o, p

(* The document with another cap has canonical bytes if the document has:  *)
(* those of its object with the one member replaced.                       *)
LEMMA RotatedForm ==
    ASSUME NEW document, IsPolicyDocument(document), NEW cap,
           CanonicalizePolicyJson(document).result = "Ok"
    PROVE  LET object == ReadObject(document.members)
               rotated == [key \in DOMAIN object \cup {RELEASE_CAP_BASIS_POINTS} |->
                              IF key = RELEASE_CAP_BASIS_POINTS THEN Integer(cap)
                              ELSE object[key]]
           IN  /\ IsObject(object) /\ IsObject(rotated)
               /\ CanonicalizePolicyJson(document) = Ok(WriteObject(object))
               /\ CanonicalizePolicyJson(WithCap(document, cap)) = Ok(WriteObject(rotated))
<1> DEFINE object == ReadObject(document.members)
           rotated == [key \in DOMAIN object \cup {RELEASE_CAP_BASIS_POINTS} |->
                          IF key = RELEASE_CAP_BASIS_POINTS THEN Integer(cap)
                          ELSE object[key]]
           changed == WithCap(document, cap)
<1>1. IsObject(object)
  BY ReadIsSaid
<1>2. /\ CanonicalizePolicyJson(document) = Ok(WriteObject(object))
      /\ \A key \in DOMAIN object : object[key].kind # "Float"
  BY DEF CanonicalizePolicyJson, Err, Ok
<1>3. changed.whole = TRUE /\ changed.members = WriteObject(rotated)
  BY DEF WithCap
<1>. HIDE DEF object, changed
<1>4. /\ IsObject(rotated)
      /\ \A key \in DOMAIN rotated : rotated[key].kind # "Float"
  BY <1>1, <1>2 DEF IsObject, PolicyKeys, Integer
<1>. HIDE DEF rotated
<1>5. ReadObject(changed.members) = rotated
  BY <1>3, <1>4, WrittenIsRead
<1>6. CanonicalizePolicyJson(changed) = Ok(WriteObject(rotated))
  BY <1>3, <1>4, <1>5 DEF CanonicalizePolicyJson
<1>. QED
  BY <1>1, <1>2, <1>4, <1>6 DEF object, rotated, changed

(* The identity of a policy is what its document says.  For any document   *)
(* that is shown, another cap gives another identity unless it was the cap *)
(* already, and any document that can be canonicalised has the identity    *)
(* shown exactly if it says the same, however the members of the two are   *)
(* ordered, repeated or spelled (policy.rs, show_policy_ref.rs).           *)
THEOREM PolicyRefIsWhatIsSaid ==
    ASSUME NEW document, IsPolicyDocument(document), NEW cap,
           ShowPolicyRef(document, cap).exit = 0
    PROVE  LET shown == ShowPolicyRef(document, cap)
           IN  /\ shown.changed <=> Says(document, RELEASE_CAP_BASIS_POINTS)
                                        # {[kind |-> "Integer", value |-> cap]}
               /\ \A other :
                     /\ IsPolicyDocument(other)
                     /\ CanonicalizePolicyJson(other).result = "Ok"
                     => (DerivePolicyRef(CanonicalizePolicyJson(other).value)
                            = shown.original <=> SayTheSame(other, document))
<1> DEFINE shown == ShowPolicyRef(document, cap)
           object == ReadObject(document.members)
           rotated == [key \in DOMAIN object \cup {RELEASE_CAP_BASIS_POINTS} |->
                          IF key = RELEASE_CAP_BASIS_POINTS THEN Integer(cap)
                          ELSE object[key]]
           key0 == RELEASE_CAP_BASIS_POINTS
<1>1. CanonicalizePolicyJson(document).result = "Ok"
  BY DEF ShowPolicyRef, CanonicalizePolicyJson, Ok, Err
<1>2. /\ IsObject(object) /\ IsObject(rotated)
      /\ CanonicalizePolicyJson(document) = Ok(WriteObject(object))
      /\ CanonicalizePolicyJson(WithCap(document, cap)) = Ok(WriteObject(rotated))
  BY <1>1, RotatedForm
<1>3. /\ shown.original = DerivePolicyRef(WriteObject(object))
      /\ shown.changed <=> DerivePolicyRef(WriteObject(object))
                               # DerivePolicyRef(WriteObject(rotated))
  <2>. HIDE DEF object, rotated
  <2>1. /\ CanonicalizePolicyJson(document).result = "Ok"
        /\ CanonicalizePolicyJson(document).value = WriteObject(object)
        /\ CanonicalizePolicyJson(WithCap(document, cap)).value = WriteObject(rotated)
    BY <1>2 DEF Ok
  <2>. QED
    BY <2>1 DEF ShowPolicyRef
<1>4. key0 \in PolicyKeys
  BY DEF PolicyKeys
<1>5. /\ DOMAIN object = KeysOf(document.members)
      /\ Says(document, key0) =
            IF key0 \in DOMAIN object
            THEN {[kind |-> object[key0].kind, value |-> object[key0].value]} ELSE {}
  BY <1>4, ReadIsSaid
<1>6. object = rotated <=> key0 \in DOMAIN object /\ object[key0] = Integer(cap)
  <2>1. object = [key \in DOMAIN object |-> object[key]]
    BY <1>2 DEF IsObject
  <2>. HIDE DEF object
  <2>2. ASSUME object = rotated PROVE key0 \in DOMAIN object /\ object[key0] = Integer(cap)
    BY <2>2
  <2>3. ASSUME key0 \in DOMAIN object, object[key0] = Integer(cap) PROVE object = rotated
    BY <2>1, <2>3
  <2>. QED
    BY <2>2, <2>3
<1>7. object = rotated <=> Says(document, key0) = {[kind |-> "Integer", value |-> cap]}
  <2>. HIDE DEF object, rotated, key0
  <2>1. CASE key0 \notin DOMAIN object
    BY <1>5, <1>6, <2>1
  <2>2. CASE key0 \in DOMAIN object
    <3>1. object[key0] = [kind |-> object[key0].kind, value |-> object[key0].value,
                          escaped |-> FALSE]
      BY <1>2, <2>2 DEF IsObject
    <3>2. object[key0] = Integer(cap) <=>
             object[key0].kind = "Integer" /\ object[key0].value = cap
      <4>1. \A k, x : [kind |-> k, value |-> x, escaped |-> FALSE] = Integer(cap)
                          <=> k = "Integer" /\ x = cap
        BY DEF Integer
      <4>. QED
        BY <3>1, <4>1
    <3>3. Says(document, key0) = {[kind |-> "Integer", value |-> cap]} <=>
             [kind |-> object[key0].kind, value |-> object[key0].value]
                = [kind |-> "Integer", value |-> cap]
      BY <1>5, <2>2
    <3>. QED
      BY <1>6, <2>2, <3>2, <3>3
  <2>. QED
    BY <2>1, <2>2
<1>8. shown.changed <=> object # rotated
  <2>. HIDE DEF object, rotated, shown
  <2>. QED
    BY <1>2, <1>3, WritingIsInjective DEF DerivePolicyRef
<1>9. ASSUME NEW other, IsPolicyDocument(other),
             CanonicalizePolicyJson(other).result = "Ok"
      PROVE  DerivePolicyRef(CanonicalizePolicyJson(other).value) = shown.original
                <=> SayTheSame(other, document)
  <2>1. /\ IsObject(ReadObject(other.members))
        /\ CanonicalizePolicyJson(other).value = WriteObject(ReadObject(other.members))
    <3>1. IsObject(ReadObject(other.members))
      BY <1>9, ReadIsSaid
    <3>2. CanonicalizePolicyJson(other).value = WriteObject(ReadObject(other.members))
      BY <1>9 DEF CanonicalizePolicyJson, Ok, Err
    <3>. QED
      BY <3>1, <3>2
  <2>2. WriteObject(ReadObject(other.members)) = WriteObject(object)
           <=> SayTheSame(other, document)
    BY <1>2, <1>9, <2>1, WritingIsInjective, ReadTheSameIfSaid
  <2>. HIDE DEF object, shown
  <2>. QED
    BY <1>3, <2>1, <2>2 DEF DerivePolicyRef
<1>. QED
  BY <1>7, <1>8, <1>9

-----------------------------------------------------------------------------
(* What the builder sizes and predicts                                     *)

(* Some(cap), since the conversion of the product never fails.             *)
LEMMA CapOfIsTheQuotient ==
    ASSUME NEW basis \in U64, NEW price \in U64
    PROVE  /\ CapOf(basis, price) = (basis * SelectReleaseBand(price)) \div BASIS_POINT_SCALE
           /\ CapOf(basis, price) \in U64
<1> DEFINE cap == (basis * SelectReleaseBand(price)) \div BASIS_POINT_SCALE
<1>1. cap \in 0 .. basis /\ MaxReleasable(basis, SelectReleaseBand(price)) = {cap}
  BY BandIsAShare, CapFits
<1>. HIDE DEF cap
<1>2. CapOf(basis, price) = cap
  BY <1>1 DEF CapOf
<1>3. cap \in U64
  BY <1>1, CanonicalAssumption DEF U64
<1>. QED
  BY <1>2, <1>3 DEF cap

(* A request is releasable exactly up to the cap.                          *)
LEMMA ReleasableUpToTheCap ==
    ASSUME NEW amount \in U64, NEW basis \in U64, NEW price \in U64
    PROVE  IsReleasable(amount, basis, price) <=> amount <= CapOf(basis, price)
<1> DEFINE product == basis * SelectReleaseBand(price)
<1>1. amount \in Nat /\ BASIS_POINT_SCALE \in Nat \ {0} /\ product \in Nat
  BY BandIsAShare, EvaluatorAssumption, CanonicalAssumption DEF U64
<1>. HIDE DEF product
<1>2. amount <= product \div BASIS_POINT_SCALE <=> amount * BASIS_POINT_SCALE <= product
  BY <1>1, QuotientBound
<1>3. CapOf(basis, price) = product \div BASIS_POINT_SCALE
  BY CapOfIsTheQuotient DEF product
<1>. QED
  BY <1>2, <1>3, BandIsBestRow DEF product

LEMMA WholeAdaRoundsDown ==
    ASSUME NEW amount \in Nat
    PROVE  WholeAda(amount) \in 0 .. amount
<1> DEFINE ada == amount \div ONE_ADA
<1>1. ONE_ADA \in Nat \ {0}
  BY DemoFlowAssumption, CanonicalAssumption DEF U64
<1>2. ada \in Nat
  BY <1>1
<1>3. ada * ONE_ADA <= amount
  <2>1. ada <= amount \div ONE_ADA
    BY <1>2
  <2>. HIDE DEF ada
  <2>. QED
    BY <1>1, <1>2, <2>1, QuotientBound
<1>4. ada * ONE_ADA \in Nat
  BY <1>1, <1>2
<1>. QED
  BY <1>3, <1>4 DEF WholeAda

(* The last whole ADA of the u64 is less than one ADA from its end.        *)
LEMMA LastWholeAda ==
    /\ WholeAda(U64Max) \in 0 .. U64Max
    /\ U64Max < WholeAda(U64Max) + ONE_ADA
<1> DEFINE ada == U64Max \div ONE_ADA
<1>1. ONE_ADA \in Nat \ {0} /\ U64Max \in Nat
  BY DemoFlowAssumption, CanonicalAssumption DEF U64
<1>2. WholeAda(U64Max) \in 0 .. U64Max
  BY <1>1, WholeAdaRoundsDown
<1>3. ada \in Nat /\ ~(ada + 1 <= U64Max \div ONE_ADA)
  BY <1>1
<1>4. (ada + 1) * ONE_ADA = WholeAda(U64Max) + ONE_ADA
  <2>1. WholeAda(U64Max) = ada * ONE_ADA
    BY DEF WholeAda
  <2>. HIDE DEF ada
  <2>. QED
    BY <1>1, <1>3, <2>1
<1>5. ~((ada + 1) * ONE_ADA <= U64Max)
  <2>1. ada + 1 \in Nat
    BY <1>3
  <2>. HIDE DEF ada
  <2>. QED
    BY <1>1, <1>3, <2>1, QuotientBound
<1>. HIDE DEF ada
<1>. QED
  BY <1>1, <1>2, <1>4, <1>5

(* The amounts are a u64; that of the allow scenario is something and no   *)
(* more than a cap of one ADA or more, and that of the deny scenario is    *)
(* more than the cap unless the cap has reached the last whole ADA         *)
(* (pick_amount).                                                          *)
LEMMA PickedAmounts ==
    ASSUME NEW cap \in U64
    PROVE  /\ \A scenario \in Scenarios : PickAmount(scenario, cap) \in U64
           /\ PickAmount("Allow", cap) > 0
           /\ ONE_ADA <= cap => PickAmount("Allow", cap) <= cap
           /\ cap < PickAmount("Deny", cap) <=> cap < WholeAda(U64Max)
<1> DEFINE fifths == SaturatingMul(cap \div 10, 8)
           more == SaturatingAdd(cap, cap \div 10)
           above == WrappingAdd(cap, ONE_ADA)
<1>1. /\ ONE_ADA \in Nat \ {0} /\ ONE_ADA <= U64Max
      /\ cap \in Nat /\ cap <= U64Max /\ U64Max \in Nat
  BY DemoFlowAssumption, CanonicalAssumption DEF U64
<1>2. cap \div 10 \in Nat /\ (cap \div 10) * 8 \in Nat /\ (cap \div 10) * 8 <= cap
  BY <1>1
<1>3. fifths \in Nat /\ fifths <= cap
  BY <1>1, <1>2 DEF SaturatingMul, Least
<1>4. more \in Nat /\ more <= U64Max
  BY <1>1, <1>2 DEF SaturatingAdd, Least
<1>5. /\ above \in 0 .. U64Max
      /\ cap + ONE_ADA <= U64Max => above = cap + ONE_ADA
      /\ cap + ONE_ADA > U64Max => more = U64Max /\ above < cap
  <2>1. above \in 0 .. U64Max /\ (cap + ONE_ADA <= U64Max => above = cap + ONE_ADA)
    BY <1>1 DEF WrappingAdd
  <2>2. ASSUME cap + ONE_ADA > U64Max
        PROVE  more = U64Max /\ above < cap
    <3>1. 10 * ONE_ADA <= cap
      BY <1>1, <2>2, DemoFlowAssumption
    <3>2. ONE_ADA <= cap \div 10
      BY <1>1, <3>1
    <3>3. more = U64Max
      BY <1>1, <1>2, <2>2, <3>2 DEF SaturatingAdd, Least
    <3>4. above = cap + ONE_ADA - (U64Max + 1)
      BY <1>1, <2>2 DEF WrappingAdd
    <3>. HIDE DEF above, more
    <3>. QED
      BY <1>1, <3>1, <3>3, <3>4
  <2>. QED
    BY <2>1, <2>2
<1>. HIDE DEF fifths, more, above
<1>6. WholeAda(fifths) \in 0 .. fifths /\ WholeAda(more) \in 0 .. more
  BY <1>3, <1>4, WholeAdaRoundsDown
<1>7. PickAmount("Allow", cap) = Greatest(WholeAda(fifths), ONE_ADA)
  BY DEF PickAmount, fifths
<1>8. PickAmount("Deny", cap) = Greatest(WholeAda(more), above)
  BY DEF PickAmount, more, above
<1>9. /\ PickAmount("Allow", cap) \in U64 /\ PickAmount("Allow", cap) > 0
      /\ ONE_ADA <= cap => PickAmount("Allow", cap) <= cap
  BY <1>1, <1>3, <1>6, <1>7 DEF Greatest, U64
<1>10. PickAmount("Deny", cap) \in U64
  BY <1>1, <1>4, <1>5, <1>6, <1>8 DEF Greatest, U64
<1>11. cap < PickAmount("Deny", cap) <=> cap < WholeAda(U64Max)
  <2>1. WholeAda(U64Max) \in 0 .. U64Max /\ U64Max < WholeAda(U64Max) + ONE_ADA
    BY LastWholeAda
  <2>2. CASE cap + ONE_ADA <= U64Max
    BY <1>1, <1>4, <1>5, <1>6, <1>8, <2>1, <2>2 DEF Greatest
  <2>3. CASE cap + ONE_ADA > U64Max
    BY <1>1, <1>5, <1>8, <2>1, <2>3 DEF Greatest
  <2>. QED
    BY <1>1, <2>2, <2>3
<1>. QED
  BY <1>9, <1>10, <1>11 DEF Scenarios

(* Data the oracle may have published up to an instant.                    *)
DataUntil(time) == {DatumAt(price, created) : price \in Prices, created \in 0 .. time}

LEMMA DataAreTyped ==
    ASSUME NEW d \in DataUntil(MaxNow)
    PROVE  d.fact \in OracleFactEval /\ d.provenance \in OracleFactProvenance
<1>1. PICK price \in Prices, created \in 0 .. MaxNow : d = DatumAt(price, created)
  BY DEF DataUntil
<1>2. /\ price \in U64 /\ created \in U64 /\ created + Validity \in U64
      /\ Template.oracle_provenance.aggregator_utxo_ref \in UtxoRefs
  BY DemoFlowAssumption, CanonicalAssumption
     DEF U64, DisbursementIntents, OracleFactProvenance
<1>. QED
  BY <1>1, <1>2 DEF DatumAt, OracleFactEval, OracleFactProvenance

(* A scenario's intent is the template's with the oracle's part and the    *)
(* amount filled in.                                                       *)
LEMMA ScenarioIntentsAreTyped ==
    ASSUME NEW scenario \in Scenarios, NEW d \in DataUntil(MaxNow)
    PROVE  LET intent == ScenarioIntent(scenario, d, DEMO_BASIS)
           IN  /\ intent \in DisbursementIntents
               /\ intent.intent_version = INTENT_VERSION_V1
               /\ intent.policy_ref = Template.policy_ref
               /\ intent.allocation_id = Template.allocation_id
               /\ intent.requester_id = Template.requester_id
               /\ intent.asset = Template.asset
               /\ intent.destination = Template.destination
               /\ intent.oracle_provenance = d.provenance
<1> DEFINE amount == PickAmount(scenario, CapOf(DEMO_BASIS, d.fact.price_microusd))
<1>1. d.fact \in OracleFactEval /\ d.provenance \in OracleFactProvenance
  BY DataAreTyped
<1>2. DEMO_BASIS \in U64 /\ d.fact.price_microusd \in U64
  BY <1>1, DemoFlowAssumption DEF OracleFactEval
<1>3. amount \in U64
  BY <1>2, CapOfIsTheQuotient, PickedAmounts
<1>4. ScenarioIntent(scenario, d, DEMO_BASIS) =
         [Template EXCEPT !.oracle_fact = d.fact, !.oracle_provenance = d.provenance,
                          !.requested_amount_lovelace = amount]
  BY DEF ScenarioIntent
<1>. HIDE DEF amount
<1>5. Template \in DisbursementIntents /\ Template.intent_version = INTENT_VERSION_V1
  BY DemoFlowAssumption
<1>. QED
  BY <1>1, <1>3, <1>4, <1>5 DEF DisbursementIntents

(* The builder predicts a result, and a grant of what the intent asks.     *)
LEMMA PredictionsAreResults ==
    ASSUME NEW intent \in DisbursementIntents, NEW basis \in U64
    PROVE  /\ Predict(intent, basis) \in AuthorizationResults
           /\ Predict(intent, basis).verdict = "Authorized" =>
                 Predict(intent, basis).effect.authorized_amount_lovelace
                    = intent.requested_amount_lovelace
<1>1. CASE IsAllowed(intent, basis)
  <2>1. Predict(intent, basis) = Authorized(FullEffect(intent))
    BY <1>1, EvaluatorIsExact DEF Predict, Allow, FullEffect
  <2>2. FullEffect(intent).authorized_amount_lovelace = intent.requested_amount_lovelace
    BY DEF FullEffect, EffectOf, Allow
  <2>. QED
    BY <2>1, <2>2, EffectsAreTyped DEF Authorized, AuthorizationResults
<1>2. CASE ~IsAllowed(intent, basis)
  <2>1. PICK reason \in {"AmountZero", "OraclePriceZero", "ReleaseCapExceeded"} :
           EvaluateDisbursement(intent, basis) = Deny(reason)
    BY <1>2, EvaluatorIsExact
  <2>2. Predict(intent, basis) = Denied(reason, "Grant")
    BY <2>1 DEF Predict, Deny
  <2>3. "Grant" \in AuthorizationGates /\ reason \in ReasonsAt("Grant")
    BY DEF AuthorizationGates, ReasonsAt
  <2>. QED
    BY <2>2, <2>3, DenialsAreResults DEF Denied
<1>. QED
  BY <1>1, <1>2

(* The configuration the builder assumes: it runs no gate but the last.    *)
AssumedSnapshot ==
    [policies |-> {Template.policy_ref},
     allocations |-> [id \in {Template.allocation_id} |->
         [basis_lovelace |-> DEMO_BASIS,
          authorized_subjects |-> {Template.requester_id},
          approved_asset |-> Template.asset,
          approved_destinations |-> {Template.destination}]]]

(* So configured, consensus gives what was predicted or finds the datum    *)
(* expired.                                                                *)
LEMMA PredictedUnlessExpired ==
    ASSUME NEW scenario \in Scenarios, NEW d \in DataUntil(MaxNow), NEW at
    PROVE  LET intent == ScenarioIntent(scenario, d, DEMO_BASIS)
           IN  AuthorizeDisbursement(intent, AssumedSnapshot, at) =
                   IF at < d.provenance.expiry_unix THEN Predict(intent, DEMO_BASIS)
                   ELSE Denied("OracleStale", "Grant")
<1> DEFINE intent == ScenarioIntent(scenario, d, DEMO_BASIS)
<1>1. /\ intent.intent_version = INTENT_VERSION_V1
      /\ intent.policy_ref = Template.policy_ref
      /\ intent.allocation_id = Template.allocation_id
      /\ intent.requester_id = Template.requester_id
      /\ intent.asset = Template.asset
      /\ intent.destination = Template.destination
      /\ intent.oracle_provenance = d.provenance
  BY ScenarioIntentsAreTyped
<1>. HIDE DEF intent
<1>2. IsKnown(intent, AssumedSnapshot)
  BY <1>1 DEF IsKnown, AssumedSnapshot
<1>3. /\ RunAnchorGate(intent, AssumedSnapshot) = Pass
      /\ RunRegistryGate(intent, AssumedSnapshot) = Pass
  BY <1>2, GatesOwnTheirReasons
<1>4. BasisOf(intent, AssumedSnapshot) = DEMO_BASIS
  BY <1>1 DEF BasisOf, AssumedSnapshot
<1>5. IsFresh(intent.oracle_provenance, at) <=> at < d.provenance.expiry_unix
  BY <1>1 DEF IsFresh
<1>6. ASSUME at < d.provenance.expiry_unix
      PROVE  AuthorizeDisbursement(intent, AssumedSnapshot, at) = Predict(intent, DEMO_BASIS)
  BY <1>3, <1>4, <1>5, <1>6 DEF AuthorizeDisbursement, RunGrantGate, Predict
<1>7. ASSUME ~(at < d.provenance.expiry_unix)
      PROVE  AuthorizeDisbursement(intent, AssumedSnapshot, at) = Denied("OracleStale", "Grant")
  BY <1>3, <1>4, <1>5, <1>7 DEF AuthorizeDisbursement, RunGrantGate, Deny
<1>. QED
  BY <1>6, <1>7 DEF intent

-----------------------------------------------------------------------------
(* Files and bundles                                                       *)

(* What a staged file may hold: the bytes of a value, or some of them.     *)
BytesOf(value) == {Encode(value), Cut(value)}

LEMMA CutBytes ==
    ASSUME NEW value
    PROVE  [Encode(value) EXCEPT !.shape = "Cut"] = Cut(value)
<1> DEFINE w == [Encode(value) EXCEPT !.shape = "Cut"]
           fields == {"shape", "value"}
<1>1. w = [f \in fields |-> w[f]] /\ Cut(value) = [f \in fields |-> Cut(value)[f]]
  BY DEF Encode, Cut
<1>2. w["shape"] = Cut(value)["shape"] /\ w["value"] = Cut(value)["value"]
  BY DEF Encode, Cut
<1>3. w = Cut(value)
  <2>. HIDE DEF w
  <2>. QED
    BY <1>1, <1>2
<1>. QED
  BY <1>3

(* Of bytes that a file may hold, those decode that are all of them.       *)
LEMMA DecodedBytes ==
    ASSUME NEW value, NEW bytes \in BytesOf(value)
    PROVE  /\ bytes.value = value
           /\ Decode(bytes).result = "Ok" => bytes = Encode(value) /\ Decode(bytes).value = value
           /\ bytes.shape = "Exact" => bytes = Encode(value)
<1>1. CASE bytes = Encode(value)
  BY <1>1 DEF Encode, Decode, Ok
<1>2. CASE bytes = Cut(value)
  BY <1>2 DEF Cut, Decode, Err
<1>. QED
  BY <1>1, <1>2 DEF BytesOf

(* However far the builder came, its files are of the datum it read.       *)
LEMMA BuilderStages ==
    ASSUME NEW n, NEW begun, NEW d, NEW scenario \in Scenarios
    PROVE  LET staged == FilesAfter(n, begun, d)[scenario]
               intent == ScenarioIntent(scenario, d, DEMO_BASIS)
           IN  /\ staged.intent \subseteq BytesOf(intent)
               /\ staged.result \subseteq BytesOf(Predict(intent, DEMO_BASIS))
               /\ \A a, b \in staged.intent : a = b
<1> DEFINE intent == ScenarioIntent(scenario, d, DEMO_BASIS)
           prediction == Predict(intent, DEMO_BASIS)
           staged == FilesAfter(n, begun, d)[scenario]
           Written(bytes) == {bytes, [bytes EXCEPT !.shape = "Cut"]}
<1>1. ContentOf(<<scenario, "intent">>, d) = Encode(intent)
  BY DEF ContentOf, EmitPayload
<1>2. ContentOf(<<scenario, "result">>, d) = Encode(prediction)
  BY DEF ContentOf, EncodeResult
<1>. HIDE DEF intent, prediction
<1>3. staged.intent \subseteq Written(ContentOf(<<scenario, "intent">>, d))
  BY DEF FilesAfter
<1>4. staged.result \subseteq Written(ContentOf(<<scenario, "result">>, d))
  BY DEF FilesAfter
<1>5. Written(ContentOf(<<scenario, "intent">>, d)) = BytesOf(intent)
  BY <1>1, CutBytes DEF BytesOf
<1>6. Written(ContentOf(<<scenario, "result">>, d)) = BytesOf(prediction)
  BY <1>2, CutBytes DEF BytesOf
<1>7. staged.intent \subseteq BytesOf(intent) /\ staged.result \subseteq BytesOf(prediction)
  <2>. HIDE DEF staged, Written
  <2>. QED
    BY <1>3, <1>4, <1>5, <1>6
<1>8. \A a, b \in staged.intent : a = b
  BY DEF FilesAfter
<1>. QED
  BY <1>7, <1>8 DEF staged, intent, prediction

(* The record of a bundle that verify_live_bundle reports on has the       *)
(* staged result, and a transaction only if it was given one.              *)
LEMMA ReportsAreOfTheFiles ==
    ASSUME NEW intent \in DisbursementIntents, NEW result \in AuthorizationResults,
           NEW staged, staged.intent \subseteq BytesOf(intent),
           staged.result \subseteq BytesOf(result),
           NEW tx_hash, tx_hash \subseteq TxHashes, NEW height, height \in Nat
    PROVE  LET report == VerifyLiveBundle(BundleArgs(staged, tx_hash, height))
           IN  /\ report.exit \in 0 .. 2
               /\ \A record \in report.evidence :
                     /\ record \in DisbursementEvidence
                     /\ record.authorization = result
                     /\ Encode(result) \in staged.result
                     /\ record.execution.outcome = "Settled" =>
                           record.execution.tx_hash \in tx_hash
<1> DEFINE args == BundleArgs(staged, tx_hash, height)
           report == VerifyLiveBundle(args)
<1>1. /\ args.intent_path = staged.intent /\ args.auth_path = staged.result
      /\ args.tx_hash = tx_hash /\ args.committed_height = height
      /\ args.allocation_basis_lovelace = DEMO_BASIS
  BY DEF BundleArgs
<1>. HIDE DEF args
<1> DEFINE Fails == \/ staged.intent = {} \/ staged.result = {}
                    \/ \E bytes \in staged.intent \cup staged.result :
                          Decode(bytes).result = "Err"
<1>2. CASE Fails
  <2>1. report = Exit(1)
    BY <1>1, <1>2 DEF VerifyLiveBundle
  <2>. QED
    BY <2>1 DEF Exit, args
<1>3. CASE ~Fails
  <2>1. {DecodeIntent(b).value : b \in staged.intent} = {intent}
    <3>1. \A b \in staged.intent : DecodeIntent(b).value = intent
      BY <1>3, DecodedBytes DEF DecodeIntent, Decode, BytesOf, Encode, Cut, Ok, Err
    <3>. QED
      BY <1>3, <3>1
  <2>2. /\ {DecodeResult(b).value : b \in staged.result} = {result}
        /\ Encode(result) \in staged.result
    <3>1. \A b \in staged.result : DecodeResult(b).value = result /\ b = Encode(result)
      BY <1>3, DecodedBytes DEF DecodeResult, Decode, BytesOf, Encode, Cut, Ok, Err
    <3>. QED
      BY <1>3, <3>1
  <2>3. report = IF result.verdict = "Authorized" /\ tx_hash = {} THEN Exit(2)
                 ELSE Report(Assemble(intent, result, args))
    BY <1>1, <1>3, <2>1, <2>2 DEF VerifyLiveBundle
  <2>4. CASE result.verdict = "Authorized" /\ tx_hash = {}
    BY <2>3, <2>4 DEF Exit, args
  <2>5. CASE ~(result.verdict = "Authorized" /\ tx_hash = {})
    <3> DEFINE record == Assemble(intent, result, args)
               execution == ExecutionOf(result, tx_hash)
    <3>1. /\ execution \in FulfillmentOutcomes
          /\ execution.outcome = "Settled" => execution.tx_hash \in tx_hash
      <4>1. CASE result.verdict = "Authorized"
        <5>1. (CHOOSE h \in tx_hash : TRUE) \in tx_hash
          BY <2>5, <4>1
        <5>2. execution = Settled(CHOOSE h \in tx_hash : TRUE)
          BY <4>1 DEF ExecutionOf
        <5>. QED
          BY <5>1, <5>2 DEF Settled, FulfillmentOutcomes
      <4>2. CASE result.verdict # "Authorized"
        <5>1. execution = DeniedUpstream(result.reason, result.gate)
          BY <4>2 DEF ExecutionOf
        <5>2. result.reason \in DisbursementReasonCodes /\ result.gate \in AuthorizationGates
          BY <4>2 DEF AuthorizationResults
        <5>. QED
          BY <5>1, <5>2 DEF DeniedUpstream, FulfillmentOutcomes
      <4>. QED
        BY <4>1, <4>2
    <3>. HIDE DEF execution
    <3>2. record = [evidence_version |-> EVIDENCE_VERSION_V1,
                    intent |-> intent,
                    intent_id |-> IntentId(intent),
                    allocation_basis_lovelace |-> DEMO_BASIS,
                    now_unix_ms |-> intent.oracle_provenance.timestamp_unix,
                    committed_height |-> height,
                    authorization |-> result,
                    execution |-> execution]
      BY <1>1 DEF Assemble, AssembleEvidence, CommittedReceipt, execution
    <3>3. IntentId(intent) \in IntentIds
      BY DEF DisbursementIntents, IntentId, IntentIds
    <3>4. intent.oracle_provenance.timestamp_unix \in U64 /\ DEMO_BASIS \in U64
      BY DemoFlowAssumption DEF DisbursementIntents, OracleFactProvenance
    <3>. HIDE DEF record
    <3>5. /\ record \in DisbursementEvidence
          /\ record.authorization = result /\ record.execution = execution
      BY <3>1, <3>2, <3>3, <3>4 DEF DisbursementEvidence, EvidenceVersions
    <3>6. report.exit \in 0 .. 2 /\ report.evidence = {record}
      BY <2>3, <2>5 DEF Report, record
    <3>. HIDE DEF report
    <3>7. \A r \in report.evidence :
             /\ r \in DisbursementEvidence
             /\ r.authorization = result
             /\ Encode(result) \in staged.result
             /\ r.execution.outcome = "Settled" => r.execution.tx_hash \in tx_hash
      BY <2>2, <3>1, <3>5, <3>6
    <3>. QED
      BY <3>6, <3>7 DEF report, args
  <2>. QED
    BY <2>4, <2>5
<1>. QED
  BY <1>2, <1>3

(* The builder predicts a denial of the deny scenario.                     *)
LEMMA DenialsAreDenied ==
    ASSUME NEW d \in DataUntil(MaxNow)
    PROVE  Predict(ScenarioIntent("Deny", d, DEMO_BASIS), DEMO_BASIS).verdict = "Denied"
<1> DEFINE intent == ScenarioIntent("Deny", d, DEMO_BASIS)
           price == d.fact.price_microusd
           cap == CapOf(DEMO_BASIS, price)
<1>1. intent \in DisbursementIntents
  BY ScenarioIntentsAreTyped DEF Scenarios
<1>2. /\ Template \in DisbursementIntents
      /\ intent = [Template EXCEPT !.oracle_fact = d.fact,
                       !.oracle_provenance = d.provenance,
                       !.requested_amount_lovelace = PickAmount("Deny", cap)]
  BY DemoFlowAssumption DEF ScenarioIntent
<1>. HIDE DEF intent
<1>3. /\ intent.requested_amount_lovelace = PickAmount("Deny", cap)
      /\ intent.oracle_fact = d.fact
  <2>. HIDE DEF cap, price
  <2>. QED
    BY <1>2 DEF DisbursementIntents
<1>4. price \in U64 /\ DEMO_BASIS \in U64
  BY DataAreTyped, DemoFlowAssumption DEF OracleFactEval
<1>. HIDE DEF price
<1>5. cap \in Nat /\ cap <= DEMO_BASIS /\ cap \in U64
  <2>1. cap \in 0 .. DEMO_BASIS
    BY <1>4, BandIsAShare, CapFits, CapOfIsTheQuotient
  <2>2. cap \in U64
    BY <1>4, CapOfIsTheQuotient
  <2>3. DEMO_BASIS \in Nat
    BY <1>4, CanonicalAssumption DEF U64
  <2>. HIDE DEF cap
  <2>. QED
    BY <2>1, <2>2, <2>3
<1>6. ~IsReleasable(intent.requested_amount_lovelace, DEMO_BASIS, price)
  <2>1. \A amount \in U64 : IsReleasable(amount, DEMO_BASIS, price) <=> amount <= cap
    BY <1>4, ReleasableUpToTheCap
  <2>. HIDE DEF cap
  <2>2. ONE_ADA \in Nat /\ DEMO_BASIS \in Nat /\ DEMO_BASIS + ONE_ADA <= U64Max /\ U64Max \in Nat
    BY <1>4, DemoFlowAssumption, CanonicalAssumption DEF U64
  <2>3. cap < WholeAda(U64Max)
    BY <1>5, <2>2, LastWholeAda
  <2>4. PickAmount("Deny", cap) \in U64 /\ cap < PickAmount("Deny", cap)
    BY <1>5, <2>3, PickedAmounts DEF Scenarios
  <2>5. PickAmount("Deny", cap) \in Nat
    BY <2>2, <2>4 DEF U64
  <2>6. ~(PickAmount("Deny", cap) <= cap)
    BY <1>5, <2>4, <2>5
  <2>. QED
    BY <1>3, <2>1, <2>4, <2>6
<1>7. ~IsAllowed(intent, DEMO_BASIS)
  BY <1>3, <1>6 DEF IsAllowed, price
<1>8. PICK reason : EvaluateDisbursement(intent, DEMO_BASIS) = Deny(reason)
  BY <1>1, <1>4, <1>7, EvaluatorIsExact
<1>9. Predict(intent, DEMO_BASIS).verdict = "Denied"
  BY <1>8 DEF Predict, Deny, Denied
<1>. QED
  BY <1>9 DEF intent

(* A bundle of files that are whole verifies, when a grant has its         *)
(* transaction: its record is that of a decision taken when the datum was  *)
(* made.                                                                   *)
LEMMA ReportsAreClean ==
    ASSUME NEW scenario \in Scenarios, NEW d \in DataUntil(MaxNow), NEW intent, NEW prediction,
           intent = ScenarioIntent(scenario, d, DEMO_BASIS),
           prediction = Predict(intent, DEMO_BASIS),
           NEW staged, staged.intent = {Encode(intent)}, staged.result = {Encode(prediction)},
           NEW tx_hash, tx_hash \subseteq TxHashes,
           prediction.verdict = "Authorized" => tx_hash # {},
           NEW height, height \in Nat
    PROVE  VerifyLiveBundle(BundleArgs(staged, tx_hash, height)).exit = 0
<1> DEFINE args == BundleArgs(staged, tx_hash, height)
           execution == ExecutionOf(prediction, tx_hash)
           created == d.provenance.timestamp_unix
<1>1. /\ intent \in DisbursementIntents /\ intent.intent_version = INTENT_VERSION_V1
      /\ intent.allocation_id = Template.allocation_id
      /\ intent.oracle_provenance = d.provenance
  BY ScenarioIntentsAreTyped
<1>2. created \in U64 /\ created < d.provenance.expiry_unix /\ DEMO_BASIS \in U64
  <2>1. PICK price \in Prices, c \in 0 .. MaxNow : d = DatumAt(price, c)
    BY DEF DataUntil
  <2>2. created = c /\ d.provenance.expiry_unix = c + Validity
    BY <2>1 DEF DatumAt
  <2>. QED
    BY <2>2, DemoFlowAssumption, CanonicalAssumption DEF U64
<1>3. prediction = AuthorizeDisbursement(intent, AssumedSnapshot, created)
  BY <1>2, PredictedUnlessExpired
<1>4. IsConfigSnapshot(AssumedSnapshot)
  BY DemoFlowAssumption DEF AssumedSnapshot, IsConfigSnapshot, AllocationFacts,
                            DisbursementIntents
<1>5. BasisOf(intent, AssumedSnapshot) = DEMO_BASIS
  BY <1>1 DEF BasisOf, AssumedSnapshot
<1>6. prediction \in AuthorizationResults
  BY <1>1, <1>2, PredictionsAreResults
<1>7. execution \in FulfillmentOutcomes /\ Fits(execution, prediction)
  <2>1. CASE prediction.verdict = "Authorized"
    <3>1. (CHOOSE h \in tx_hash : TRUE) \in TxHashes
      BY <2>1
    <3>2. execution = Settled(CHOOSE h \in tx_hash : TRUE)
      BY <2>1 DEF ExecutionOf
    <3>. QED
      BY <2>1, <3>1, <3>2 DEF Settled, FulfillmentOutcomes, Fits
  <2>2. CASE prediction.verdict # "Authorized"
    <3>1. execution = DeniedUpstream(prediction.reason, prediction.gate)
      BY <2>2 DEF ExecutionOf
    <3>2. prediction.reason \in DisbursementReasonCodes /\ prediction.gate \in AuthorizationGates
      BY <1>6, <2>2 DEF AuthorizationResults
    <3>. QED
      BY <2>2, <3>1, <3>2 DEF DeniedUpstream, FulfillmentOutcomes, Fits
  <2>. QED
    BY <2>1, <2>2
<1>. HIDE DEF created
<1>8. IsOk(VerifyEvidence(Assemble(intent, prediction, args)))
  <2>1. Assemble(intent, prediction, args) =
           AssembleEvidence(intent, CommittedReceipt(IntentId(intent), height, prediction),
                            execution, DEMO_BASIS, created)
    BY <1>1 DEF Assemble, BundleArgs, created
  <2>. HIDE DEF execution, args
  <2>. QED
    BY <1>1, <1>2, <1>3, <1>4, <1>5, <1>7, <2>1, FittingRecordIsClean
<1>9. VerifyLiveBundle(args) = Report(Assemble(intent, prediction, args))
  <2>1. /\ args.intent_path = {Encode(intent)} /\ args.auth_path = {Encode(prediction)}
        /\ args.tx_hash = tx_hash
    BY DEF BundleArgs
  <2>. HIDE DEF args
  <2>2. /\ {DecodeIntent(b).value : b \in args.intent_path} = {intent}
        /\ {DecodeResult(b).value : b \in args.auth_path} = {prediction}
        /\ \A bytes \in args.intent_path \cup args.auth_path : Decode(bytes).result = "Ok"
    BY <2>1 DEF DecodeIntent, DecodeResult, Decode, Encode, Ok
  <2>. QED
    BY <2>1, <2>2 DEF VerifyLiveBundle
<1>. HIDE DEF args
<1>10. VerifyLiveBundle(args).exit = 0
  BY <1>8, <1>9 DEF Report
<1>. QED
  BY <1>10 DEF args

-----------------------------------------------------------------------------
(* The invariant of a run                                                  *)

IntentOf(scenario) == ScenarioIntent(scenario, datum, DEMO_BASIS)
PredictionFor(scenario) == Predict(IntentOf(scenario), DEMO_BASIS)

(* Files, summary and commits are of the datum the builder read.           *)
StagedOfTheDatum ==
    /\ datum \in DataUntil(now)
    /\ \A scenario \in Scenarios :
          /\ files[scenario].intent \subseteq BytesOf(IntentOf(scenario))
          /\ files[scenario].result \subseteq BytesOf(PredictionFor(scenario))
          /\ \A a, b \in files[scenario].intent : a = b
    /\ kv \subseteq {Summarised(datum)}

(* Consensus decided the staged intent, at an instant that has passed, and *)
(* a run that passed has the staged result.                                *)
CommittedOfTheFiles ==
    \A scenario \in Scenarios :
        /\ \A result \in committed[scenario] : \E at \in 0 .. now :
              result = AuthorizeDisbursement(IntentOf(scenario), snapshot, at)
        /\ ok[scenario] =>
              /\ Encode(IntentOf(scenario)) \in files[scenario].intent
              /\ \E result \in AuthorizationResults :
                    /\ committed[scenario] = {result}
                    /\ files[scenario].result = {Encode(result)}

(* Nothing is there before the step that makes it, so that a later step    *)
(* never takes away what an earlier one relied on.                         *)
BeforeFiles == {"Readiness", "Pull", "Build"}
BeforeCommits == BeforeFiles \cup {"RunAllow"}
BeforePayment == BeforeCommits \cup {"RunDeny", "Settle"}
BeforeBundles == BeforePayment \cup {"AllowBundle"}
BeforeDenyBundle == BeforeBundles \cup {"DenyBundle"}

InOrder ==
    /\ step \in BeforeFiles => files = NoFiles /\ kv = {}
    /\ step \in BeforeCommits => \A scenario \in Scenarios :
          committed[scenario] = {} /\ ~ok[scenario]
    /\ step \in BeforePayment => ledger = {} /\ tx_id = {}
    /\ step \in BeforeBundles => live["Allow"] = {}
    /\ step \in BeforeDenyBundle => live["Deny"] = {}

(* What the script keeps for each scenario.                                *)
KeptByScenario ==
    /\ committed \in [Scenarios -> SUBSET AuthorizationResults]
    /\ ok \in [Scenarios -> BOOLEAN]
    /\ live = [scenario \in Scenarios |-> live[scenario]]

TxIdIsOfTheLedger == \A tx_hash \in tx_id : \E tx \in ledger : tx.tx_hash = tx_hash

RotationIsShown ==
    \A r \in rotation :
        r.document \in PolicyDocuments /\ r.shown = ShowPolicyRef(r.document, ROTATED_CAP)

DemoInvariant ==
    /\ TypeOK
    /\ StagedOfTheDatum
    /\ CommittedOfTheFiles
    /\ InOrder
    /\ KeptByScenario
    /\ TxIdIsOfTheLedger
    /\ PaymentFollowsConsensus
    /\ LiveBundlesAreOfThisRun
    /\ RotationIsShown

LEMMA DataAreKept ==
    ASSUME NEW a \in Nat, NEW b \in Nat, a <= b
    PROVE  DataUntil(a) \subseteq DataUntil(b)
<1>1. 0 .. a \subseteq 0 .. b
  OBVIOUS
<1>. QED
  BY <1>1 DEF DataUntil

LEMMA StagedFilesAreTyped ==
    ASSUME NEW scenario \in Scenarios, NEW d \in DataUntil(MaxNow), NEW staged,
           staged.intent \subseteq BytesOf(ScenarioIntent(scenario, d, DEMO_BASIS)),
           staged.result \subseteq
               BytesOf(Predict(ScenarioIntent(scenario, d, DEMO_BASIS), DEMO_BASIS))
    PROVE  /\ staged.intent \subseteq Bytes(DisbursementIntents)
           /\ staged.result \subseteq Bytes(AuthorizationResults)
<1> DEFINE intent == ScenarioIntent(scenario, d, DEMO_BASIS)
<1>1. intent \in DisbursementIntents /\ DEMO_BASIS \in U64
  BY ScenarioIntentsAreTyped, DemoFlowAssumption
<1>. HIDE DEF intent
<1>2. Predict(intent, DEMO_BASIS) \in AuthorizationResults
  BY <1>1, PredictionsAreResults
<1>3. \A values : \A value \in values : BytesOf(value) \subseteq Bytes(values)
  BY DEF BytesOf, Bytes, Shapes, Encode, Cut
<1>4. /\ BytesOf(intent) \subseteq Bytes(DisbursementIntents)
      /\ BytesOf(Predict(intent, DEMO_BASIS)) \subseteq Bytes(AuthorizationResults)
  BY <1>1, <1>2, <1>3
<1>. QED
  BY <1>4 DEF intent

(* What the steps of the script work with is of its type.                  *)
LEMMA StagedIsTyped ==
    ASSUME DemoInvariant
    PROVE  /\ now \in Nat /\ now <= MaxNow /\ MaxNow \in Nat
           /\ datum \in DataUntil(MaxNow)
           /\ \A scenario \in Scenarios :
                 /\ IntentOf(scenario) \in DisbursementIntents
                 /\ PredictionFor(scenario) \in AuthorizationResults
           /\ IsConfigSnapshot(snapshot)
<1>1. now \in Nat /\ now <= MaxNow /\ MaxNow \in Nat
  BY DemoFlowAssumption DEF DemoInvariant, TypeOK
<1>2. datum \in DataUntil(MaxNow)
  BY <1>1, DataAreKept DEF DemoInvariant, StagedOfTheDatum
<1>3. \A scenario \in Scenarios : IntentOf(scenario) \in DisbursementIntents
  BY <1>2, ScenarioIntentsAreTyped DEF IntentOf
<1>4. \A scenario \in Scenarios : PredictionFor(scenario) \in AuthorizationResults
  BY <1>3, PredictionsAreResults, DemoFlowAssumption DEF PredictionFor
<1>5. IsConfigSnapshot(snapshot)
  BY DemoFlowAssumption DEF DemoInvariant, TypeOK
<1>. QED
  BY <1>1, <1>2, <1>3, <1>4, <1>5

LEMMA DemoInit ==
    ASSUME Init
    PROVE  DemoInvariant
<1>1. now \in Nat /\ now <= MaxNow /\ MaxNow \in Nat
  BY DemoFlowAssumption DEF Init
<1>2. datum \in DataUntil(now)
  <2>1. 0 \in 0 .. now
    BY <1>1
  <2>. QED
    BY <2>1 DEF Init, DataUntil
<1>3. datum.fact \in OracleFactEval /\ datum.provenance \in OracleFactProvenance
  BY <1>1, <1>2, DataAreKept, DataAreTyped
<1>4. \A scenario \in Scenarios :
         /\ files[scenario].intent = {} /\ files[scenario].result = {}
         /\ committed[scenario] = {} /\ ok[scenario] = FALSE /\ live[scenario] = {}
  BY DEF Init, NoFiles
<1>5. TypeOK
  BY <1>3, <1>4 DEF Init, TypeOK, FilesTyped, Steps
<1>6. StagedOfTheDatum
  BY <1>2, <1>4 DEF Init, StagedOfTheDatum
<1>7. CommittedOfTheFiles
  BY <1>4 DEF CommittedOfTheFiles
<1>8. InOrder
  BY <1>4 DEF Init, InOrder, Scenarios
<1>9. KeptByScenario
  BY DEF Init, KeptByScenario
<1>10. /\ TxIdIsOfTheLedger /\ PaymentFollowsConsensus /\ RotationIsShown
       /\ LiveBundlesAreOfThisRun
  BY <1>4 DEF Init, TxIdIsOfTheLedger, PaymentFollowsConsensus, RotationIsShown,
              LiveBundlesAreOfThisRun, LiveBundlesAreClean
<1>. QED
  BY <1>5, <1>6, <1>7, <1>8, <1>9, <1>10 DEF DemoInvariant

(* Readiness, Summary and a step that does nothing disturb neither files,  *)
(* nor commits, nor the pool.                                              *)
LEMMA QuietSteps ==
    ASSUME DemoInvariant,
           \/ Readiness
           \/ Summary
           \/ UNCHANGED vars
    PROVE  DemoInvariant'
<1>1. UNCHANGED <<now, datum, options, snapshot, files, kv, committed, ok, ledger, tx_id,
                  live, rotation>>
  BY DEF Readiness, Summary, vars, chain, setting, devnet
<1>2. pull' \in {"fallback", "live"}
  BY DEF Readiness, Summary, vars, DemoInvariant, TypeOK
<1>3. step' \in Steps /\ InOrder'
  <2>1. CASE Readiness
    BY <1>1, <2>1 DEF Readiness, DemoInvariant, InOrder, Steps, BeforeFiles, BeforeCommits,
                      BeforePayment, BeforeBundles, BeforeDenyBundle
  <2>2. CASE Summary
    BY <2>2 DEF Summary, InOrder, Steps, BeforeFiles, BeforeCommits,
                BeforePayment, BeforeBundles, BeforeDenyBundle
  <2>3. CASE UNCHANGED vars
    BY <1>1, <2>3 DEF vars, DemoInvariant, TypeOK, InOrder
  <2>. QED
    BY <2>1, <2>2, <2>3
<1>4. TypeOK'
  BY <1>1, <1>2, <1>3 DEF DemoInvariant, TypeOK, FilesTyped
<1>5. StagedOfTheDatum'
  BY <1>1 DEF DemoInvariant, StagedOfTheDatum, IntentOf, PredictionFor
<1>6. CommittedOfTheFiles'
  BY <1>1 DEF DemoInvariant, CommittedOfTheFiles, IntentOf
<1>7. KeptByScenario'
  BY <1>1 DEF DemoInvariant, KeptByScenario
<1>8. TxIdIsOfTheLedger' /\ PaymentFollowsConsensus'
  BY <1>1 DEF DemoInvariant, TxIdIsOfTheLedger, PaymentFollowsConsensus
<1>9. LiveBundlesAreOfThisRun' /\ RotationIsShown'
  BY <1>1 DEF DemoInvariant, LiveBundlesAreOfThisRun, LiveBundlesAreClean, RotationIsShown
<1>. QED
  BY <1>3, <1>4, <1>5, <1>6, <1>7, <1>8, <1>9 DEF DemoInvariant

(* Nothing has been staged when the oracle is read.                        *)
LEMMA PullStep ==
    ASSUME DemoInvariant, Pull
    PROVE  DemoInvariant'
<1>1. UNCHANGED <<now, options, pull, snapshot, files, kv, committed, ok, ledger, tx_id,
                  live, rotation>>
  BY DEF Pull, setting, devnet
<1>2. now \in Nat /\ now <= MaxNow /\ MaxNow \in Nat /\ now' = now
  BY <1>1, StagedIsTyped
<1>3. datum' \in DataUntil(now)
  <2>1. CASE \E price \in Prices : datum' = DatumAt(price, now)
    <3>1. now \in 0 .. now
      BY <1>2
    <3>. QED
      BY <2>1, <3>1 DEF DataUntil
  <2>2. CASE UNCHANGED datum
    BY <2>2 DEF DemoInvariant, StagedOfTheDatum
  <2>. QED
    BY <2>1, <2>2 DEF Pull
<1>4. datum'.fact \in OracleFactEval /\ datum'.provenance \in OracleFactProvenance
  BY <1>2, <1>3, DataAreKept, DataAreTyped
<1>5. /\ files = NoFiles /\ kv = {} /\ ledger = {} /\ tx_id = {}
      /\ \A scenario \in Scenarios :
            committed[scenario] = {} /\ ~ok[scenario] /\ live[scenario] = {}
  BY DEF Pull, DemoInvariant, InOrder, Scenarios, BeforeFiles, BeforeCommits,
         BeforePayment, BeforeBundles, BeforeDenyBundle
<1>6. \A scenario \in Scenarios : files[scenario].intent = {} /\ files[scenario].result = {}
  BY <1>5 DEF NoFiles
<1>7. step' \in {"Build", "Settle"}
  BY DEF Pull
<1>8. TypeOK'
  BY <1>1, <1>4, <1>7 DEF DemoInvariant, TypeOK, FilesTyped, Steps
<1>9. StagedOfTheDatum'
  BY <1>1, <1>3, <1>5, <1>6 DEF StagedOfTheDatum
<1>10. CommittedOfTheFiles'
  BY <1>1, <1>5 DEF CommittedOfTheFiles
<1>11. InOrder'
  BY <1>1, <1>5 DEF InOrder, Scenarios
<1>12. KeptByScenario'
  BY <1>1 DEF DemoInvariant, KeptByScenario
<1>13. /\ TxIdIsOfTheLedger' /\ PaymentFollowsConsensus'
       /\ LiveBundlesAreOfThisRun'
  BY <1>1, <1>5 DEF TxIdIsOfTheLedger, PaymentFollowsConsensus, LiveBundlesAreOfThisRun,
                    LiveBundlesAreClean
<1>14. RotationIsShown'
  BY <1>1 DEF DemoInvariant, RotationIsShown
<1>. QED
  BY <1>8, <1>9, <1>10, <1>11, <1>12, <1>13, <1>14 DEF DemoInvariant

(* The builder's files are of the datum on chain, also when it fails.      *)
LEMMA BuildStep ==
    ASSUME DemoInvariant, BuildScenarios
    PROVE  DemoInvariant'
<1>1. UNCHANGED <<now, datum, options, pull, snapshot, committed, ok, ledger, tx_id,
                  live, rotation>>
  BY DEF BuildScenarios, setting, devnet, chain
<1>2. /\ kv = {} /\ ledger = {} /\ tx_id = {}
      /\ \A scenario \in Scenarios :
            committed[scenario] = {} /\ ~ok[scenario] /\ live[scenario] = {}
  BY DEF BuildScenarios, DemoInvariant, InOrder, Scenarios, BeforeFiles, BeforeCommits,
         BeforePayment, BeforeBundles, BeforeDenyBundle
<1>3. PICK n, begun : files' = FilesAfter(n, begun, datum)
  BY DEF BuildScenarios
<1>4. kv' \subseteq {Summarised(datum)}
  BY <1>2 DEF BuildScenarios
<1>5. \A scenario \in Scenarios :
         /\ files'[scenario].intent \subseteq BytesOf(IntentOf(scenario))
         /\ files'[scenario].result \subseteq BytesOf(PredictionFor(scenario))
         /\ \A a, b \in files'[scenario].intent : a = b
  BY <1>3, BuilderStages DEF IntentOf, PredictionFor
<1>6. StagedOfTheDatum'
  BY <1>1, <1>4, <1>5 DEF DemoInvariant, StagedOfTheDatum, IntentOf, PredictionFor
<1>7. \A scenario \in Scenarios : FilesTyped(scenario)'
  BY <1>5, StagedIsTyped, StagedFilesAreTyped DEF FilesTyped, IntentOf, PredictionFor
<1>8. TypeOK'
  <2>1. step' = "RunAllow"
    BY DEF BuildScenarios
  <2>. QED
    BY <1>1, <1>7, <2>1 DEF DemoInvariant, TypeOK, Steps
<1>9. CommittedOfTheFiles'
  BY <1>1, <1>2 DEF CommittedOfTheFiles
<1>10. InOrder'
  BY <1>1, <1>2 DEF BuildScenarios, InOrder, Scenarios, BeforeFiles
<1>11. KeptByScenario'
  BY <1>1 DEF DemoInvariant, KeptByScenario
<1>12. /\ TxIdIsOfTheLedger' /\ PaymentFollowsConsensus'
       /\ LiveBundlesAreOfThisRun'
  BY <1>1, <1>2 DEF TxIdIsOfTheLedger, PaymentFollowsConsensus, LiveBundlesAreOfThisRun,
                    LiveBundlesAreClean
<1>13. RotationIsShown'
  BY <1>1 DEF DemoInvariant, RotationIsShown
<1>. QED
  BY <1>6, <1>8, <1>9, <1>10, <1>11, <1>12, <1>13 DEF DemoInvariant

(* A run commits what AuthorizeDisbursement gives on the staged intent, at *)
(* an instant of its own.                                                  *)
LEMMA RunStep ==
    ASSUME DemoInvariant, NEW scenario \in Scenarios,
           step \in {"RunAllow", "RunDeny"}, Run(scenario),
           step' \in {"RunDeny", "Settle"},
           UNCHANGED <<pull, datum, ledger, options, snapshot, files, kv, tx_id, live, rotation>>
    PROVE  DemoInvariant'
<1>1. /\ now \in Nat /\ now <= MaxNow /\ MaxNow \in Nat
      /\ \A s \in Scenarios : IntentOf(s) \in DisbursementIntents
      /\ IsConfigSnapshot(snapshot)
  BY StagedIsTyped
<1>2. /\ ledger = {} /\ tx_id = {}
      /\ \A s \in Scenarios : live[s] = {}
  BY DEF DemoInvariant, InOrder, Scenarios, BeforeFiles, BeforeCommits, BeforePayment,
         BeforeBundles, BeforeDenyBundle
<1>3. now' \in Nat /\ now <= now' /\ now' <= MaxNow
  BY <1>1 DEF Run, devnet
<1>4. \/ UNCHANGED <<committed, ok>>
      \/ \E result \in AuthorizationResults :
            /\ result = AuthorizeDisbursement(IntentOf(scenario), snapshot, now')
            /\ Encode(IntentOf(scenario)) \in files[scenario].intent
            /\ committed' = [committed EXCEPT ![scenario] = {result}]
            /\ ok' = [ok EXCEPT ![scenario] = files[scenario].result = {Encode(result)}]
  <2>1. CASE UNCHANGED <<now, devnet>>
    BY <2>1 DEF devnet
  <2>2. ASSUME NEW bytes \in files[scenario].intent, NEW at \in now .. MaxNow,
               DecodeIntent(bytes).result = "Ok", now' = at,
               LET result == AuthorizeDisbursement(DecodeIntent(bytes).value, snapshot, at)
               IN  /\ committed' = [committed EXCEPT ![scenario] = {result}]
                   /\ ok' = [ok EXCEPT ![scenario] =
                                 files[scenario].result = {EncodeResult(result)}]
        PROVE  <1>4!2
    <3>1. bytes \in BytesOf(IntentOf(scenario))
      BY DEF DemoInvariant, StagedOfTheDatum
    <3>2. DecodeIntent(bytes).value = IntentOf(scenario) /\ bytes = Encode(IntentOf(scenario))
      BY <2>2, <3>1, DecodedBytes DEF DecodeIntent
    <3>3. now' \in U64
      BY <1>1, <1>3, DemoFlowAssumption, CanonicalAssumption DEF U64
    <3>4. AuthorizeDisbursement(IntentOf(scenario), snapshot, now') \in AuthorizationResults
      BY <1>1, <3>3, AuthorizedIffPermitted
    <3>. QED
      BY <2>2, <3>2, <3>4 DEF EncodeResult
  <2>. QED
    BY <2>1, <2>2 DEF Run
<1>5. KeptByScenario'
  <2>1. committed' \in [Scenarios -> SUBSET AuthorizationResults]
    BY <1>4 DEF DemoInvariant, KeptByScenario
  <2>2. ok' \in [Scenarios -> BOOLEAN]
    BY <1>4 DEF DemoInvariant, KeptByScenario
  <2>3. live' = [s \in Scenarios |-> live'[s]]
    BY DEF DemoInvariant, KeptByScenario
  <2>. QED
    BY <2>1, <2>2, <2>3 DEF KeptByScenario
<1>6. \A s \in Scenarios : IntentOf(s)' = IntentOf(s)
  BY DEF IntentOf
<1>7. ASSUME NEW s \in Scenarios
      PROVE  /\ \A result \in committed'[s] : \E at \in 0 .. now' :
                   result = AuthorizeDisbursement(IntentOf(s), snapshot, at)
             /\ ok'[s] =>
                   /\ Encode(IntentOf(s)) \in files[s].intent
                   /\ \E result \in AuthorizationResults :
                         committed'[s] = {result} /\ files[s].result = {Encode(result)}
  <2>1. /\ \A result \in committed[s] : \E at \in 0 .. now' :
              result = AuthorizeDisbursement(IntentOf(s), snapshot, at)
        /\ ok[s] =>
              /\ Encode(IntentOf(s)) \in files[s].intent
              /\ \E result \in AuthorizationResults :
                    committed[s] = {result} /\ files[s].result = {Encode(result)}
    <3>1. 0 .. now \subseteq 0 .. now'
      BY <1>1, <1>3
    <3>. QED
      BY <3>1 DEF DemoInvariant, CommittedOfTheFiles
  <2>2. now' \in 0 .. now'
    BY <1>3
  <2>3. CASE committed'[s] = committed[s] /\ ok'[s] = ok[s]
    BY <2>1, <2>3
  <2>4. CASE \E result \in AuthorizationResults :
                /\ result = AuthorizeDisbursement(IntentOf(s), snapshot, now')
                /\ Encode(IntentOf(s)) \in files[s].intent
                /\ committed'[s] = {result}
                /\ ok'[s] = (files[s].result = {Encode(result)})
    BY <2>2, <2>4
  <2>5. committed \in [Scenarios -> SUBSET AuthorizationResults] /\ ok \in [Scenarios -> BOOLEAN]
    BY DEF DemoInvariant, KeptByScenario
  <2>. QED
    BY <1>4, <2>3, <2>4, <2>5
<1>8. CommittedOfTheFiles'
  BY <1>6, <1>7 DEF CommittedOfTheFiles
<1>9. StagedOfTheDatum'
  <2>1. datum \in DataUntil(now')
    BY <1>1, <1>3, DataAreKept DEF DemoInvariant, StagedOfTheDatum
  <2>. QED
    BY <2>1 DEF DemoInvariant, StagedOfTheDatum, IntentOf, PredictionFor
<1>10. TypeOK'
  <2>1. now' \in 0 .. MaxNow
    BY <1>1, <1>3
  <2>2. \A s \in Scenarios : committed'[s] \subseteq AuthorizationResults /\ ok'[s] \in BOOLEAN
    BY <1>5 DEF KeptByScenario
  <2>. QED
    BY <2>1, <2>2 DEF DemoInvariant, TypeOK, FilesTyped, Steps
<1>11. InOrder'
  BY <1>2 DEF InOrder, Scenarios, BeforeFiles, BeforeCommits
<1>12. /\ TxIdIsOfTheLedger' /\ PaymentFollowsConsensus'
       /\ LiveBundlesAreOfThisRun'
  BY <1>2 DEF TxIdIsOfTheLedger, PaymentFollowsConsensus, LiveBundlesAreOfThisRun,
                    LiveBundlesAreClean
<1>13. RotationIsShown'
  BY DEF DemoInvariant, RotationIsShown
<1>. QED
  BY <1>5, <1>8, <1>9, <1>10, <1>11, <1>12, <1>13 DEF DemoInvariant

(* A run that passed has the whole intent and the predicted result.        *)
LEMMA PassedAsPredicted ==
    ASSUME DemoInvariant, NEW scenario \in Scenarios, ok[scenario]
    PROVE  /\ committed[scenario] = {PredictionFor(scenario)}
           /\ files[scenario].result = {Encode(PredictionFor(scenario))}
           /\ files[scenario].intent = {Encode(IntentOf(scenario))}
<1>1. PICK result \in AuthorizationResults :
         committed[scenario] = {result} /\ files[scenario].result = {Encode(result)}
  BY DEF DemoInvariant, CommittedOfTheFiles
<1>2. Encode(result) \in BytesOf(PredictionFor(scenario))
  BY <1>1 DEF DemoInvariant, StagedOfTheDatum
<1>3. Encode(result).value = PredictionFor(scenario)
  BY <1>2, DecodedBytes
<1>4. result = PredictionFor(scenario)
  BY <1>3 DEF Encode
<1>5. files[scenario].intent = {Encode(IntentOf(scenario))}
  BY DEF DemoInvariant, CommittedOfTheFiles, StagedOfTheDatum
<1>. QED
  BY <1>1, <1>4, <1>5

(* With the builder's summary, a payment has the amount and the id of the  *)
(* allow scenario's intent.                                                *)
LEMMA PaymentOfTheSummary ==
    ASSUME DemoInvariant, NEW tx_hash
    PROVE  /\ Payment(tx_hash).tx_hash = tx_hash
           /\ Payment(tx_hash).destination = RECEIVER
           /\ Payment(tx_hash).amount_lovelace \in U64
           /\ kv # {} =>
                 /\ Payment(tx_hash).amount_lovelace
                       = IntentOf("Allow").requested_amount_lovelace
                 /\ Payment(tx_hash).intent_id = IntentId(IntentOf("Allow"))
<1>1. CASE kv = {}
  BY <1>1, DemoFlowAssumption DEF Payment
<1>2. CASE kv # {}
  <2> DEFINE intent == IntentOf("Allow")
  <2>1. intent.requested_amount_lovelace \in U64
    BY StagedIsTyped DEF Scenarios, DisbursementIntents
  <2>2. Summarised(datum) = [allow_amount_lovelace |-> intent.requested_amount_lovelace,
                             allow_intent_id |-> IntentId(intent)]
    BY DEF Summarised, IntentOf
  <2>3. kv = {Summarised(datum)}
    BY <1>2 DEF DemoInvariant, StagedOfTheDatum
  <2>. HIDE DEF intent
  <2>4. /\ {k.allow_amount_lovelace : k \in kv} = {intent.requested_amount_lovelace}
        /\ {k.allow_intent_id : k \in kv} = {IntentId(intent)}
    BY <2>2, <2>3
  <2>5. /\ Payment(tx_hash).tx_hash = tx_hash
        /\ Payment(tx_hash).destination = RECEIVER
        /\ Payment(tx_hash).amount_lovelace = intent.requested_amount_lovelace
        /\ Payment(tx_hash).intent_id = IntentId(intent)
    BY <1>2, <2>4 DEF Payment
  <2>. QED
    BY <2>1, <2>5 DEF intent
<1>. QED
  BY <1>1, <1>2

(* The helper runs only after the allow scenario has passed.               *)
LEMMA SettleStep ==
    ASSUME DemoInvariant, Settle
    PROVE  DemoInvariant'
<1>1. UNCHANGED <<now, datum, options, pull, snapshot, files, kv, committed, ok, live, rotation>>
  BY DEF Settle, setting, devnet
<1>2. /\ ledger = {} /\ tx_id = {}
      /\ \A s \in Scenarios : live[s] = {}
  BY DEF Settle, DemoInvariant, InOrder, Scenarios, BeforeFiles, BeforeCommits,
         BeforePayment, BeforeBundles, BeforeDenyBundle
<1>3. \/ ledger' = {} /\ tx_id' = {}
      \/ /\ ok["Allow"]
         /\ \E tx_hash \in TxHashes :
               ledger' = {Payment(tx_hash)} /\ tx_id' \subseteq {tx_hash}
  BY <1>2 DEF Settle, MaySettle
<1>4. /\ \A tx \in ledger' : /\ tx.tx_hash \in TxHashes /\ tx.amount_lovelace \in U64
                            /\ tx.destination \in Addresses
      /\ tx_id' \subseteq TxHashes
  BY <1>3, PaymentOfTheSummary, DemoFlowAssumption
<1>5. step' = "AllowBundle"
  BY DEF Settle
<1>6. TypeOK'
  BY <1>1, <1>4, <1>5 DEF DemoInvariant, TypeOK, FilesTyped, Steps
<1>7. StagedOfTheDatum'
  BY <1>1 DEF DemoInvariant, StagedOfTheDatum, IntentOf, PredictionFor
<1>8. CommittedOfTheFiles'
  BY <1>1 DEF DemoInvariant, CommittedOfTheFiles, IntentOf
<1>9. KeptByScenario'
  BY <1>1 DEF DemoInvariant, KeptByScenario
<1>10. InOrder'
  BY <1>1, <1>2, <1>5 DEF InOrder, Scenarios, BeforeFiles, BeforeCommits, BeforePayment
<1>11. TxIdIsOfTheLedger'
  BY <1>3, PaymentOfTheSummary DEF TxIdIsOfTheLedger
<1>12. PaymentFollowsConsensus'
  <2>1. ASSUME ok["Allow"], NEW tx_hash
        PROVE  LET tx == Payment(tx_hash)
               IN  /\ tx.destination = RECEIVER
                   /\ \E result \in committed["Allow"] :
                         /\ files["Allow"].result = {Encode(result)}
                         /\ kv # {} /\ result.verdict = "Authorized" =>
                               /\ tx.amount_lovelace
                                     = result.effect.authorized_amount_lovelace
                               /\ \A bytes \in files["Allow"].intent :
                                     tx.intent_id = IntentId(bytes.value)
    <3>1. /\ committed["Allow"] = {PredictionFor("Allow")}
          /\ files["Allow"].result = {Encode(PredictionFor("Allow"))}
      BY <2>1, PassedAsPredicted DEF Scenarios
    <3>2. PredictionFor("Allow").verdict = "Authorized" =>
             PredictionFor("Allow").effect.authorized_amount_lovelace
                = IntentOf("Allow").requested_amount_lovelace
      BY StagedIsTyped, PredictionsAreResults, DemoFlowAssumption DEF PredictionFor, Scenarios
    <3>3. \A bytes \in files["Allow"].intent : bytes.value = IntentOf("Allow")
      BY DecodedBytes DEF DemoInvariant, StagedOfTheDatum, Scenarios
    <3>. QED
      BY <3>1, <3>2, <3>3, PaymentOfTheSummary
  <2>2. \A tx \in ledger' :
           /\ tx.destination = RECEIVER
           /\ \E result \in committed["Allow"] :
                 /\ files["Allow"].result = {Encode(result)}
                 /\ kv # {} /\ result.verdict = "Authorized" =>
                       /\ tx.amount_lovelace = result.effect.authorized_amount_lovelace
                       /\ \A bytes \in files["Allow"].intent :
                             tx.intent_id = IntentId(bytes.value)
    BY <1>3, <2>1
  <2>. QED
    BY <1>1, <2>2 DEF PaymentFollowsConsensus
<1>13. LiveBundlesAreOfThisRun'
  BY <1>1, <1>2 DEF LiveBundlesAreOfThisRun, LiveBundlesAreClean
<1>14. RotationIsShown'
  BY <1>1 DEF DemoInvariant, RotationIsShown
<1>. QED
  BY <1>6, <1>7, <1>8, <1>9, <1>10, <1>11, <1>12, <1>13, <1>14 DEF DemoInvariant

(* The bundle of a run that passed verifies, and its record is of the      *)
(* committed result.                                                       *)
LEMMA ReportOfARun ==
    ASSUME DemoInvariant, NEW scenario \in Scenarios, ok[scenario],
           NEW tx_hash \in SUBSET tx_id, scenario = "Allow" => tx_hash # {},
           NEW height \in Nat
    PROVE  LET report == VerifyLiveBundle(BundleArgs(files[scenario], tx_hash, height))
           IN  /\ report.exit = 0
               /\ \A record \in report.evidence :
                     /\ record \in DisbursementEvidence
                     /\ committed[scenario] = {record.authorization}
                     /\ record.execution.outcome = "Settled" =>
                           \E tx \in ledger : tx.tx_hash = record.execution.tx_hash
<1> DEFINE intent == IntentOf(scenario)
           prediction == PredictionFor(scenario)
           staged == files[scenario]
           report == VerifyLiveBundle(BundleArgs(staged, tx_hash, height))
<1>1. committed[scenario] = {prediction}
  BY PassedAsPredicted
<1>2. /\ intent \in DisbursementIntents /\ prediction \in AuthorizationResults
      /\ staged.intent \subseteq BytesOf(intent)
      /\ staged.result \subseteq BytesOf(prediction)
  BY StagedIsTyped DEF DemoInvariant, StagedOfTheDatum
<1>3. tx_hash \subseteq TxHashes
  BY DEF DemoInvariant, TypeOK
<1>4. report.exit = 0
  <2>1. datum \in DataUntil(MaxNow)
    BY StagedIsTyped
  <2>2. /\ intent = ScenarioIntent(scenario, datum, DEMO_BASIS)
        /\ prediction = Predict(intent, DEMO_BASIS)
    BY DEF IntentOf, PredictionFor
  <2>3. staged.intent = {Encode(intent)} /\ staged.result = {Encode(prediction)}
    BY PassedAsPredicted
  <2>4. prediction.verdict = "Authorized" => tx_hash # {}
    <3>1. scenario = "Deny" => prediction.verdict = "Denied"
      BY <2>1, <2>2, DenialsAreDenied
    <3>. QED
      BY <3>1 DEF Scenarios
  <2>. HIDE DEF intent, prediction, staged
  <2>. QED
    BY <1>3, <2>1, <2>2, <2>3, <2>4, ReportsAreClean
<1>. HIDE DEF intent, prediction, staged
<1>5. \A record \in report.evidence :
         /\ record \in DisbursementEvidence
         /\ record.authorization = prediction
         /\ record.execution.outcome = "Settled" => record.execution.tx_hash \in tx_hash
  BY <1>2, <1>3, ReportsAreOfTheFiles
<1>. HIDE DEF report
<1>6. \A record \in report.evidence : record.execution.outcome = "Settled" =>
         \E tx \in ledger : tx.tx_hash = record.execution.tx_hash
  BY <1>5 DEF DemoInvariant, TxIdIsOfTheLedger
<1>. QED
  BY <1>1, <1>4, <1>5, <1>6 DEF report, staged

(* A bundle is made only of a run that passed, and disturbs nothing but    *)
(* what is printed of it.                                                  *)
LEMMA BundleStep ==
    ASSUME DemoInvariant, NEW scenario \in Scenarios, NEW tx_hash \in SUBSET tx_id,
           NEW heights \in SUBSET HeightOf(scenario),
           scenario = "Allow" /\ heights # {} => tx_hash # {},
           live' = [live EXCEPT ![scenario] =
               {VerifyLiveBundle(BundleArgs(files[scenario], tx_hash, height)) :
                   height \in heights}],
           step' \in Steps, InOrder',
           UNCHANGED <<now, datum, options, pull, snapshot, files, kv, committed, ok, ledger,
                       tx_id, rotation>>
    PROVE  DemoInvariant'
<1>1. KeptByScenario' /\ live'[scenario] =
         {VerifyLiveBundle(BundleArgs(files[scenario], tx_hash, height)) : height \in heights}
  BY DEF DemoInvariant, KeptByScenario
<1>2. \A s \in Scenarios : s # scenario => live'[s] = live[s]
  BY DEF DemoInvariant, KeptByScenario
<1>3. ASSUME NEW height \in heights
      PROVE  LET report == VerifyLiveBundle(BundleArgs(files[scenario], tx_hash, height))
             IN  /\ report.exit = 0
                 /\ \A record \in report.evidence :
                       /\ record \in DisbursementEvidence
                       /\ committed[scenario] = {record.authorization}
                       /\ record.execution.outcome = "Settled" =>
                             \E tx \in ledger : tx.tx_hash = record.execution.tx_hash
  <2>1. ok[scenario] /\ height \in Nat /\ (scenario = "Allow" => tx_hash # {})
    BY DEF HeightOf
  <2>. QED
    BY <2>1, ReportOfARun
<1>4. \A l \in live'[scenario] : l.exit = 0 /\ l.evidence \subseteq DisbursementEvidence
  BY <1>1, <1>3
<1>5. TypeOK'
  <2>1. 0 \in 0 .. 2
    OBVIOUS
  <2>2. \A s \in Scenarios : \A l \in live'[s] :
           l.exit \in 0 .. 2 /\ l.evidence \subseteq DisbursementEvidence
    BY <1>2, <1>4, <2>1 DEF DemoInvariant, TypeOK
  <2>. QED
    BY <2>2 DEF DemoInvariant, TypeOK, FilesTyped
<1>6. LiveBundlesAreOfThisRun'
  <2>1. LiveBundlesAreClean'
    BY <1>2, <1>4 DEF DemoInvariant, LiveBundlesAreOfThisRun, LiveBundlesAreClean
  <2>2. \A s \in Scenarios : \A l \in live'[s] : \A record \in l.evidence :
           /\ committed[s] = {record.authorization}
           /\ record.execution.outcome = "Settled" =>
                 \E tx \in ledger : tx.tx_hash = record.execution.tx_hash
    BY <1>1, <1>2, <1>3 DEF DemoInvariant, LiveBundlesAreOfThisRun
  <2>. QED
    BY <2>1, <2>2 DEF LiveBundlesAreOfThisRun
<1>7. StagedOfTheDatum' /\ CommittedOfTheFiles'
  BY DEF DemoInvariant, StagedOfTheDatum, CommittedOfTheFiles, IntentOf, PredictionFor
<1>8. TxIdIsOfTheLedger' /\ PaymentFollowsConsensus' /\ RotationIsShown'
  BY DEF DemoInvariant, TxIdIsOfTheLedger, PaymentFollowsConsensus, RotationIsShown
<1>. QED
  BY <1>1, <1>5, <1>6, <1>7, <1>8 DEF DemoInvariant

LEMMA BundleSteps ==
    ASSUME DemoInvariant, AllowBundle \/ DenyBundle
    PROVE  DemoInvariant'
<1>1. CASE AllowBundle
  <2> DEFINE heights == IF tx_id # {} THEN HeightOf("Allow") ELSE {}
  <2>1. /\ step' = "DenyBundle" /\ live["Deny"] = {} /\ "Allow" \in Scenarios
        /\ live' = [live EXCEPT !["Allow"] =
              {VerifyLiveBundle(BundleArgs(files["Allow"], tx_id, height)) :
                  height \in heights}]
    BY <1>1 DEF AllowBundle, DemoInvariant, InOrder, Scenarios, BeforeFiles, BeforeCommits,
                BeforePayment, BeforeBundles, BeforeDenyBundle
  <2>2. heights \in SUBSET HeightOf("Allow") /\ (heights # {} => tx_id # {})
    OBVIOUS
  <2>. HIDE DEF heights
  <2>3. UNCHANGED <<now, datum, options, pull, snapshot, files, kv, committed, ok, ledger,
                    tx_id, rotation>>
    BY <1>1 DEF AllowBundle, chain, setting, devnet
  <2>4. step' \in Steps
    BY <2>1 DEF Steps
  <2>5. live'["Deny"] = {}
    BY <2>1 DEF DemoInvariant, KeptByScenario, Scenarios
  <2>6. InOrder'
    BY <2>1, <2>5 DEF InOrder, BeforeFiles, BeforeCommits, BeforePayment, BeforeBundles
  <2>. QED
    BY <2>1, <2>2, <2>3, <2>4, <2>6, BundleStep
<1>2. CASE DenyBundle
  <2> DEFINE heights == HeightOf("Deny")
             none == {}
  <2>1. /\ step' = "Rotate" /\ "Deny" \in Scenarios
        /\ live' = [live EXCEPT !["Deny"] =
              {VerifyLiveBundle(BundleArgs(files["Deny"], none, height)) : height \in heights}]
    BY <1>2 DEF DenyBundle, Scenarios
  <2>2. heights \in SUBSET HeightOf("Deny") /\ none \in SUBSET tx_id
    OBVIOUS
  <2>. HIDE DEF heights, none
  <2>3. UNCHANGED <<now, datum, options, pull, snapshot, files, kv, committed, ok, ledger,
                    tx_id, rotation>>
    BY <1>2 DEF DenyBundle, chain, setting, devnet
  <2>4. step' \in Steps /\ InOrder'
    BY <2>1 DEF Steps, InOrder, BeforeFiles, BeforeCommits, BeforePayment, BeforeBundles,
                BeforeDenyBundle
  <2>. QED
    BY <2>1, <2>2, <2>3, <2>4, BundleStep
<1>. QED
  BY <1>1, <1>2

(* The policy that is shown is that of the document that was read.         *)
LEMMA RotateStep ==
    ASSUME DemoInvariant, Rotate
    PROVE  DemoInvariant'
<1>1. UNCHANGED <<now, datum, options, pull, snapshot, files, kv, committed, ok, ledger, tx_id,
                  live>>
  BY DEF Rotate, chain, setting, devnet
<1>2. step' \in {"Summary", "Aborted"}
  BY DEF Rotate
<1>3. RotationIsShown'
  <2>1. CASE UNCHANGED rotation
    BY <2>1 DEF DemoInvariant, RotationIsShown
  <2>2. ASSUME NEW document \in PolicyDocuments,
               rotation' = {[document |-> document,
                             shown |-> ShowPolicyRef(document, ROTATED_CAP)]}
        PROVE  RotationIsShown'
    <3> DEFINE shown == ShowPolicyRef(document, ROTATED_CAP)
    <3>1. rotation' = {[document |-> document, shown |-> shown]}
      BY <2>2
    <3>2. shown = ShowPolicyRef(document, ROTATED_CAP)
      OBVIOUS
    <3>. HIDE DEF shown
    <3>. QED
      BY <3>1, <3>2 DEF RotationIsShown
  <2>. QED
    BY <2>1, <2>2 DEF Rotate
<1>4. \A r \in rotation' : r.document \in PolicyDocuments /\ r.shown.exit \in {0, 1}
  <2>1. \A document \in PolicyDocuments : ShowPolicyRef(document, ROTATED_CAP).exit \in {0, 1}
    BY DEF ShowPolicyRef
  <2>. QED
    BY <1>3, <2>1 DEF RotationIsShown
<1>5. TypeOK'
  BY <1>1, <1>2, <1>4 DEF DemoInvariant, TypeOK, FilesTyped, Steps
<1>6. StagedOfTheDatum' /\ CommittedOfTheFiles'
  BY <1>1 DEF DemoInvariant, StagedOfTheDatum, CommittedOfTheFiles, IntentOf, PredictionFor
<1>7. InOrder'
  BY <1>2 DEF InOrder, BeforeFiles, BeforeCommits, BeforePayment, BeforeBundles,
              BeforeDenyBundle
<1>8. KeptByScenario'
  BY <1>1 DEF DemoInvariant, KeptByScenario
<1>9. /\ TxIdIsOfTheLedger' /\ PaymentFollowsConsensus'
      /\ LiveBundlesAreOfThisRun'
  BY <1>1 DEF DemoInvariant, TxIdIsOfTheLedger, PaymentFollowsConsensus,
              LiveBundlesAreOfThisRun, LiveBundlesAreClean
<1>. QED
  BY <1>3, <1>5, <1>6, <1>7, <1>8, <1>9 DEF DemoInvariant

(* What is staged, committed, paid and shown stays of one datum, in the    *)
(* order of the script's steps (demo.sh).                                  *)
THEOREM RunKeepsItsOrder == Spec => []DemoInvariant
<1>1. Init => DemoInvariant
  BY DemoInit
<1>2. DemoInvariant /\ [Next]_vars => DemoInvariant'
  <2>1. CASE Readiness \/ Summary \/ UNCHANGED vars
    BY <2>1, QuietSteps
  <2>2. CASE RunAllow
    <3>1. UNCHANGED <<pull, datum, ledger, options, snapshot, files, kv, tx_id, live, rotation>>
      BY <2>2 DEF RunAllow, chain, setting
    <3>. QED
      BY <2>2, <3>1, RunStep DEF RunAllow, Scenarios
  <2>3. CASE RunDeny
    <3>1. UNCHANGED <<pull, datum, ledger, options, snapshot, files, kv, tx_id, live, rotation>>
      BY <2>3 DEF RunDeny, chain, setting
    <3>. QED
      BY <2>3, <3>1, RunStep DEF RunDeny, Scenarios
  <2>. QED
    BY <2>1, <2>2, <2>3, PullStep, BuildStep, SettleStep, BundleSteps, RotateStep DEF Next
<1>. QED
  BY <1>1, <1>2, PTL DEF Spec

(* Every step leaves the script's variables in their types (demo.sh,       *)
(* build_live_scenario.rs, verify_live_bundle.rs).                         *)
THEOREM DemoIsTyped == Spec => []TypeOK
<1>1. DemoInvariant => TypeOK
  BY DEF DemoInvariant
<1>. QED
  BY <1>1, RunKeepsItsOrder, PTL

(* A payment follows a commit of the allow scenario whose result is the    *)
(* staged one, and with the builder's summary a granted payment has the    *)
(* amount and the id of its intent.  It goes to the receiver of the        *)
(* script, whichever destination consensus approved (demo.sh).             *)
THEOREM EveryPaymentFollowsConsensus == Spec => []PaymentFollowsConsensus
<1>1. DemoInvariant => PaymentFollowsConsensus
  BY DEF DemoInvariant
<1>. QED
  BY <1>1, RunKeepsItsOrder, PTL

(* Every live bundle that is made verifies, so that the CLEAN which the    *)
(* summary prints without looking is true, and it records what this run's  *)
(* consensus committed, and a transaction only if the pool made it         *)
(* (demo.sh, verify_live_bundle.rs).                                       *)
THEOREM EveryLiveBundleIsOfThisRun == Spec => []LiveBundlesAreOfThisRun
<1>1. DemoInvariant => LiveBundlesAreOfThisRun
  BY DEF DemoInvariant
<1>. QED
  BY <1>1, RunKeepsItsOrder, PTL

(* The allow scenario is within a cap of one ADA or more, and the deny     *)
(* scenario beyond it exactly when the cap has not reached the last whole  *)
(* ADA of the u64, for every basis and price (pick_amount in               *)
(* build_live_scenario.rs).                                                *)
THEOREM ScenariosAlwaysStraddle == Spec => []ScenariosStraddleTheCap
<1>1. ASSUME NEW basis \in U64, NEW price \in U64, ONE_ADA <= CapOf(basis, price)
      PROVE  /\ IsReleasable(PickAmount("Allow", CapOf(basis, price)), basis, price)
             /\ IsReleasable(PickAmount("Deny", CapOf(basis, price)), basis, price)
                   <=> WholeAda(U64Max) <= CapOf(basis, price)
  <2> DEFINE cap == CapOf(basis, price)
  <2>1. cap \in U64 /\ cap \in Nat
    BY CapOfIsTheQuotient, CanonicalAssumption DEF U64
  <2>2. ONE_ADA <= cap
    BY <1>1
  <2>. HIDE DEF cap
  <2>3. /\ PickAmount("Allow", cap) \in U64 /\ PickAmount("Deny", cap) \in U64
        /\ PickAmount("Allow", cap) <= cap
        /\ cap < PickAmount("Deny", cap) <=> cap < WholeAda(U64Max)
    BY <2>1, <2>2, PickedAmounts DEF Scenarios
  <2>4. PickAmount("Deny", cap) \in Nat /\ WholeAda(U64Max) \in Nat
    BY <2>3, LastWholeAda, CanonicalAssumption DEF U64
  <2>5. PickAmount("Deny", cap) <= cap <=> WholeAda(U64Max) <= cap
    BY <2>1, <2>3, <2>4
  <2>6. /\ IsReleasable(PickAmount("Allow", cap), basis, price)
        /\ IsReleasable(PickAmount("Deny", cap), basis, price) <=> WholeAda(U64Max) <= cap
    <3>1. \A amount \in U64 : IsReleasable(amount, basis, price) <=> amount <= cap
      BY ReleasableUpToTheCap DEF cap
    <3>. QED
      BY <2>3, <2>5, <3>1
  <2>. QED
    BY <2>6 DEF cap
<1>2. TypeOK => ScenariosStraddleTheCap
  <2>1. ASSUME TypeOK PROVE datum.fact.price_microusd \in U64
    BY <2>1 DEF TypeOK, OracleFactEval
  <2>. QED
    BY <1>1, <2>1 DEF ScenariosStraddleTheCap
<1>. QED
  BY <1>2, DemoIsTyped, PTL

(* Consensus reproduces the prediction unless the datum had expired or the *)
(* validators are configured otherwise than the builder assumes            *)
(* (build_live_scenario.rs, authorize.rs).                                 *)
THEOREM EveryPredictionIsReproduced == Spec => []PredictionIsReproduced
<1>1. ASSUME DemoInvariant, NEW scenario \in Scenarios,
             NEW result \in committed[scenario], NEW bytes \in files[scenario].result,
             bytes.shape = "Exact", snapshot = AssumedSnapshot
      PROVE  \/ bytes.value = result
             \/ result = Denied("OracleStale", "Grant") /\ now >= datum.provenance.expiry_unix
  <2>1. PICK at \in 0 .. now :
           result = AuthorizeDisbursement(IntentOf(scenario), AssumedSnapshot, at)
    BY <1>1 DEF DemoInvariant, CommittedOfTheFiles
  <2>2. datum \in DataUntil(MaxNow) /\ now \in Nat /\ now <= MaxNow /\ MaxNow \in Nat
    BY <1>1, StagedIsTyped
  <2>3. result = IF at < datum.provenance.expiry_unix THEN PredictionFor(scenario)
                 ELSE Denied("OracleStale", "Grant")
    BY <2>1, <2>2, PredictedUnlessExpired DEF IntentOf, PredictionFor
  <2>4. bytes \in BytesOf(PredictionFor(scenario))
    BY <1>1 DEF DemoInvariant, StagedOfTheDatum
  <2>5. bytes.value = PredictionFor(scenario)
    BY <2>4, DecodedBytes
  <2>6. datum.provenance.expiry_unix \in Nat
    BY <2>2, DataAreTyped, CanonicalAssumption DEF OracleFactProvenance, U64
  <2>7. at < datum.provenance.expiry_unix \/ now >= datum.provenance.expiry_unix
    BY <2>2, <2>6
  <2>. QED
    BY <2>3, <2>5, <2>7
<1>2. DemoInvariant => PredictionIsReproduced
  BY <1>1 DEF PredictionIsReproduced, AssumedSnapshot
<1>. QED
  BY <1>2, RunKeepsItsOrder, PTL

(* What the script shows of a policy's identity is what its document says  *)
(* (policy.rs, show_policy_ref.rs).                                        *)
THEOREM RotationIsAlwaysObservable == Spec => []RotationIsObservable
<1>1. ASSUME DemoInvariant, NEW r \in rotation, r.shown.exit = 0
      PROVE  /\ r.shown.changed <=>
                    Says(r.document, RELEASE_CAP_BASIS_POINTS)
                        # {[kind |-> "Integer", value |-> ROTATED_CAP]}
             /\ \A other \in PolicyDocuments :
                   CanonicalizePolicyJson(other).result = "Ok" =>
                      (DerivePolicyRef(CanonicalizePolicyJson(other).value) = r.shown.original
                          <=> SayTheSame(other, r.document))
  <2>1. /\ r.document \in PolicyDocuments
        /\ r.shown = ShowPolicyRef(r.document, ROTATED_CAP)
    BY <1>1 DEF DemoInvariant, RotationIsShown
  <2>2. \A document \in PolicyDocuments : IsPolicyDocument(document)
    BY DemoFlowAssumption
  <2>3. ShowPolicyRef(r.document, ROTATED_CAP).exit = 0
    BY <1>1, <2>1
  <2>. QED
    BY <2>1, <2>2, <2>3, PolicyRefIsWhatIsSaid
<1>2. DemoInvariant => RotationIsObservable
  BY <1>1 DEF RotationIsObservable
<1>. QED
  BY <1>2, RunKeepsItsOrder, PTL

===============================================================================
