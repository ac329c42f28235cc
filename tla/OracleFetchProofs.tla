---------------------------- MODULE OracleFetchProofs ----------------------------
(***************************************************************************)
(* The parser of the oracle's datum, for every document, and the fetch,    *)
(* for any number of transactions of the oracle, any documents and any     *)
(* time limit: the price that is read is recent and says what it said on   *)
(* chain.                                                                  *)
(***************************************************************************)
EXTENDS OracleFetch, SequenceTheorems, FiniteSetTheorems, TLAPS

-----------------------------------------------------------------------------
(* The parser                                                              *)

Headers == {Array(1), IndefiniteArray}

(* What a document is when every check lets it pass, item by item.         *)
IsShaped(d) ==
    /\ Len(d) = 13
    /\ d[1] = Tag(CONSTR_0_TAG) /\ d[2] \in Headers
    /\ d[3] = Tag(CONSTR_2_TAG) /\ d[4] \in Headers
    /\ d[5] = Map(3)
    /\ {d[6], d[8], d[10]} = {UInt(KEY_PRICE), UInt(KEY_CREATED_MS), UInt(KEY_EXPIRY_MS)}
    /\ d[7].type = "UInt" /\ d[9].type = "UInt" /\ d[11].type = "UInt"
    /\ d[12] = Break /\ d[13] = Break

(* A sequence behind another: every item is where it was, or as much later *)
(* as the first one is long.                                               *)
IsConcat(u, s, t) ==
    /\ Len(u) = Len(s) + Len(t)
    /\ \A i \in 1 .. Len(s) : u[i] = s[i]
    /\ \A i \in 1 .. Len(t) : u[Len(s) + i] = t[i]

LEMMA ConcatAt ==
    ASSUME NEW S, NEW s \in Seq(S), NEW t \in Seq(S)
    PROVE  s \o t \in Seq(S) /\ IsConcat(s \o t, s, t)
<1>1. /\ s \o t \in Seq(S)
      /\ Len(s \o t) = Len(s) + Len(t)
      /\ \A i \in 1 .. Len(s) + Len(t) :
            (s \o t)[i] = IF i <= Len(s) THEN s[i] ELSE t[i - Len(s)]
  BY ConcatProperties
<1>2. Len(s) \in Nat /\ Len(t) \in Nat
  BY LenProperties
<1>3. \A i \in 1 .. Len(s) : (s \o t)[i] = s[i]
  BY <1>1, <1>2
<1>4. ASSUME NEW i \in 1 .. Len(t)
      PROVE  (s \o t)[Len(s) + i] = t[i]
  <2>1. /\ Len(s) + i \in 1 .. Len(s) + Len(t)
        /\ ~(Len(s) + i <= Len(s))
        /\ Len(s) + i - Len(s) = i
    BY <1>2
  <2>. QED
    BY <1>1, <2>1
<1>. QED
  BY <1>1, <1>3, <1>4 DEF IsConcat

(* Some number among these is the least.                                   *)
LEMMA LeastOfTwelve ==
    ASSUME NEW T, T \subseteq 1 .. 12, T # {}
    PROVE  \E i \in T : \A j \in T : i <= j
<1> DEFINE NoneUpTo(n) == \A i \in 1 .. n : i \notin T
<1>1. SUFFICES ASSUME \A i \in T : \E j \in T : ~(i <= j)
               PROVE  FALSE
  OBVIOUS
<1>2. ASSUME NEW n \in 0 .. 11, NoneUpTo(n)
      PROVE  NoneUpTo(n + 1)
  <2>1. n + 1 \in T => \A j \in T : n + 1 <= j
    BY <1>2
  <2>. QED
    BY <1>1, <1>2, <2>1
<1>3. NoneUpTo(0)
  OBVIOUS
<1>4. \A n \in 0 .. 11 : NoneUpTo(n) => NoneUpTo(n + 1)
  BY <1>2
<1>. HIDE DEF NoneUpTo
<1>5. NoneUpTo(6)
  BY <1>3, <1>4
<1>6. NoneUpTo(12)
  BY <1>4, <1>5
<1>. QED
  BY <1>6 DEF NoneUpTo

LEMMA ItemsAreRecords ==
    ASSUME NEW item \in Items
    PROVE  /\ item = [type |-> item.type, argument |-> item.argument]
           /\ item.type = "UInt" => item.argument \in U64 /\ item = UInt(item.argument)
           /\ item.type = "Tag" => item = Tag(item.argument)
           /\ item.type = "Map" => item = Map(item.argument)
  BY DEF Items, UInt, Tag, Map, Item, IndefiniteArray, Break, Other

(* The items a place may require have their type and argument.             *)
LEMMA ItemTypes ==
    /\ \A n : UInt(n).type = "UInt" /\ UInt(n).argument = n
    /\ \A n : Tag(n).type = "Tag" /\ Tag(n).argument = n
    /\ \A n : Map(n).type = "Map" /\ Array(n).type = "Array"
    /\ IndefiniteArray.type = "IndefiniteArray" /\ Break.type = "Break"
    /\ KEY_PRICE = 0 /\ KEY_CREATED_MS = 1 /\ KEY_EXPIRY_MS = 2
  BY DEF UInt, Tag, Map, Array, IndefiniteArray, Break, Item, KEY_PRICE, KEY_CREATED_MS,
         KEY_EXPIRY_MS

(* Three keys of three, each of them new, are all the keys.                *)
LEMMA KeysAreAll ==
    ASSUME NEW a \in Items, NEW b \in Items, NEW c \in Items
    PROVE  /\ a.type = "UInt" /\ b.type = "UInt" /\ c.type = "UInt"
           /\ a.argument \in Keys /\ b.argument \in Keys /\ c.argument \in Keys
           /\ a # b /\ a # c /\ b # c
           <=>
           {a, b, c} = {UInt(KEY_PRICE), UInt(KEY_CREATED_MS), UInt(KEY_EXPIRY_MS)}
<1>1. ASSUME a.type = "UInt", b.type = "UInt", c.type = "UInt",
             a.argument \in Keys, b.argument \in Keys, c.argument \in Keys,
             a # b, a # c, b # c
      PROVE  {a, b, c} = {UInt(KEY_PRICE), UInt(KEY_CREATED_MS), UInt(KEY_EXPIRY_MS)}
  <2>1. a = UInt(a.argument) /\ b = UInt(b.argument) /\ c = UInt(c.argument)
    BY <1>1, ItemsAreRecords
  <2>2. /\ a.argument \in Keys /\ b.argument \in Keys /\ c.argument \in Keys
        /\ a.argument # b.argument /\ a.argument # c.argument /\ b.argument # c.argument
    BY <1>1, <2>1
  <2>. QED
    BY <2>1, <2>2 DEF Keys
<1>2. ASSUME {a, b, c} = {UInt(KEY_PRICE), UInt(KEY_CREATED_MS), UInt(KEY_EXPIRY_MS)}
      PROVE  /\ a.type = "UInt" /\ b.type = "UInt" /\ c.type = "UInt"
             /\ a.argument \in Keys /\ b.argument \in Keys /\ c.argument \in Keys
             /\ a # b /\ a # c /\ b # c
  <2>1. /\ UInt(KEY_PRICE) # UInt(KEY_CREATED_MS) /\ UInt(KEY_PRICE) # UInt(KEY_EXPIRY_MS)
        /\ UInt(KEY_CREATED_MS) # UInt(KEY_EXPIRY_MS)
    BY ItemTypes
  <2>2. a # b /\ a # c /\ b # c
    BY <1>2, <2>1
  <2>3. \A x \in {a, b, c} : x.type = "UInt" /\ x.argument \in Keys
    BY <1>2, ItemTypes DEF Keys
  <2>. QED
    BY <2>2, <2>3
<1>. QED
  BY <1>1, <1>2

(* Both arrays have to be closed by a break, however they were opened,     *)
(* since without one a further item is needed (expect_array_break).        *)
LEMMA EndIsTwoBreaks ==
    ASSUME NEW d \in Seq(Items), Len(d) >= 11
    PROVE  ExpectEnd(d, 12) = {} <=> Len(d) = 13 /\ d[12] = Break /\ d[13] = Break
<1>1. Len(d) \in Nat
  BY LenProperties
<1>2. ExpectEnd(d, 12) = {} <=>
         \E inner \in AfterArrayBreak(d, 12) : Len(d) + 1 \in AfterArrayBreak(d, inner)
  BY DEF ExpectEnd, ErrorUnless
<1>3. CASE Len(d) < 12
  BY <1>1, <1>2, <1>3 DEF AfterArrayBreak
<1>4. CASE Len(d) >= 12 /\ d[12] # Break
  <2>1. AfterArrayBreak(d, 12) = {12}
    BY <1>1, <1>4 DEF AfterArrayBreak
  <2>. QED
    BY <1>1, <1>2, <1>4, <2>1
<1>5. CASE Len(d) >= 12 /\ d[12] = Break
  <2>1. AfterArrayBreak(d, 12) = {13}
    BY <1>1, <1>5 DEF AfterArrayBreak
  <2>2. AfterArrayBreak(d, 13) =
           IF 13 > Len(d) THEN {} ELSE IF d[13] = Break THEN {14} ELSE {13}
    BY DEF AfterArrayBreak
  <2>3. ExpectEnd(d, 12) = {} <=> Len(d) + 1 \in AfterArrayBreak(d, 13)
    BY <1>2, <2>1
  <2>4. CASE 13 > Len(d)
    BY <1>1, <2>2, <2>3, <2>4
  <2>5. CASE 13 <= Len(d) /\ d[13] = Break
    <3>1. AfterArrayBreak(d, 13) = {14}
      BY <1>1, <2>2, <2>5
    <3>2. \A n \in Nat : n + 1 = 14 <=> n = 13
      OBVIOUS
    <3>3. Len(d) + 1 \in AfterArrayBreak(d, 13) <=> Len(d) = 13
      BY <1>1, <3>1, <3>2, Zenon
    <3>. QED
      BY <1>5, <2>3, <2>5, <3>3, Zenon
  <2>6. CASE 13 <= Len(d) /\ d[13] # Break
    BY <1>1, <2>2, <2>3, <2>6
  <2>. QED
    BY <1>1, <2>4, <2>5, <2>6
<1>. QED
  BY <1>1, <1>3, <1>4, <1>5

LEMMA ChecksAreExact ==
    ASSUME NEW d \in Seq(Items)
    PROVE  IsParsed(d) <=> IsShaped(d)
<1>1. Len(d) \in Nat /\ \A i \in 1 .. Len(d) : d[i] \in Items
  BY LenProperties, ElementOfSeq
<1>2. IsParsed(d) <=>
         /\ ExpectTag(d, 1, CONSTR_0_TAG) = {} /\ ExpectArrayWithOneElement(d, 2) = {}
         /\ ExpectTag(d, 3, CONSTR_2_TAG) = {} /\ ExpectArrayWithOneElement(d, 4) = {}
         /\ ExpectMapOfThree(d, 5) = {}
         /\ ExpectNewKey(d, 1) = {} /\ ExpectValue(d, 1) = {}
         /\ ExpectNewKey(d, 2) = {} /\ ExpectValue(d, 2) = {}
         /\ ExpectNewKey(d, 3) = {} /\ ExpectValue(d, 3) = {}
         /\ ExpectEnd(d, 12) = {}
  <2>1. IsParsed(d) <=> \A i \in 1 .. 12 : Checks(d)[i] = {}
    BY DEF IsParsed, FailedChecks
  <2> DEFINE checks == Checks(d)
  <2>2. /\ checks[1] = ExpectTag(d, 1, CONSTR_0_TAG)
        /\ checks[2] = ExpectArrayWithOneElement(d, 2)
        /\ checks[3] = ExpectTag(d, 3, CONSTR_2_TAG)
        /\ checks[4] = ExpectArrayWithOneElement(d, 4)
        /\ checks[5] = ExpectMapOfThree(d, 5)
        /\ checks[6] = ExpectNewKey(d, 1) /\ checks[7] = ExpectValue(d, 1)
        /\ checks[8] = ExpectNewKey(d, 2) /\ checks[9] = ExpectValue(d, 2)
        /\ checks[10] = ExpectNewKey(d, 3) /\ checks[11] = ExpectValue(d, 3)
        /\ checks[12] = ExpectEnd(d, 12)
    BY DEF Checks
  <2>. HIDE DEF checks
  <2>3. IsParsed(d) <=> \A i \in 1 .. 12 : checks[i] = {}
    BY <2>1 DEF checks
  <2>4. \A i \in 1 .. 12 :
           \/ i = 1 \/ i = 2 \/ i = 3 \/ i = 4 \/ i = 5 \/ i = 6
           \/ i = 7 \/ i = 8 \/ i = 9 \/ i = 10 \/ i = 11 \/ i = 12
    OBVIOUS
  <2>. QED
    BY <2>2, <2>3, <2>4
<1>3. ASSUME NEW i \in 1 .. Len(d), NEW tag
      PROVE  ExpectTag(d, i, tag) = {} <=> d[i] = Tag(tag)
  <2>1. d[i] \in Items
    BY <1>1
  <2>2. ExpectTag(d, i, tag) = {} <=> d[i].type = "Tag" /\ d[i].argument = tag
    BY <1>1 DEF ExpectTag, HasItem, ErrorUnless
  <2>. QED
    BY <2>1, <2>2, ItemsAreRecords, ItemTypes
<1>4. \A i \in Nat : ExpectArrayWithOneElement(d, i) = {} <=> i <= Len(d) /\ d[i] \in Headers
  BY DEF ExpectArrayWithOneElement, ErrorUnless, Headers
<1>5. ExpectMapOfThree(d, 5) = {} <=> 5 <= Len(d) /\ d[5] = Map(3)
  BY DEF ExpectMapOfThree, ErrorUnless
<1>6. /\ ExpectNewKey(d, 1) = {} <=> 6 <= Len(d) /\ d[6].type = "UInt" /\ d[6].argument \in Keys
      /\ ExpectNewKey(d, 2) = {} <=>
            8 <= Len(d) /\ d[8].type = "UInt" /\ d[8].argument \in Keys /\ d[6] # d[8]
      /\ ExpectNewKey(d, 3) = {} <=>
            /\ 10 <= Len(d) /\ d[10].type = "UInt" /\ d[10].argument \in Keys
            /\ d[6] # d[10] /\ d[8] # d[10]
  <2>1. EntryAt(1) = 6 /\ EntryAt(2) = 8 /\ EntryAt(3) = 10
    BY DEF EntryAt
  <2>2. 1 .. 1 - 1 = {} /\ 1 .. 2 - 1 = {1} /\ 1 .. 3 - 1 = {1, 2}
    OBVIOUS
  <2>. QED
    BY <1>1, <2>1, <2>2 DEF ExpectNewKey, HasItem, ErrorUnless
<1>7. /\ ExpectValue(d, 1) = {} <=> 7 <= Len(d) /\ d[7].type = "UInt"
      /\ ExpectValue(d, 2) = {} <=> 9 <= Len(d) /\ d[9].type = "UInt"
      /\ ExpectValue(d, 3) = {} <=> 11 <= Len(d) /\ d[11].type = "UInt"
  <2>1. EntryAt(1) + 1 = 7 /\ EntryAt(2) + 1 = 9 /\ EntryAt(3) + 1 = 11
    BY DEF EntryAt
  <2>2. \A why, ok : ErrorUnless(ok, why) = {} <=> ok
    BY DEF ErrorUnless
  <2>3. \A k \in 1 .. 3 : ExpectValue(d, k) = {} <=>
           ~(EntryAt(k) + 1 > Len(d)) /\ d[EntryAt(k) + 1].type = "UInt"
    BY <2>2 DEF ExpectValue
  <2>. QED
    BY <1>1, <2>1, <2>3
<1>8. CASE Len(d) < 11
  BY <1>1, <1>2, <1>7, <1>8 DEF IsShaped
<1>9. CASE Len(d) >= 11
  <2>1. d[6] \in Items /\ d[8] \in Items /\ d[10] \in Items
    BY <1>1, <1>9
  <2>2. CONSTR_0_TAG \in Nat /\ CONSTR_2_TAG \in Nat
    BY DEF CONSTR_0_TAG, CONSTR_2_TAG
  <2>3. /\ ExpectTag(d, 1, CONSTR_0_TAG) = {} <=> d[1] = Tag(CONSTR_0_TAG)
        /\ ExpectTag(d, 3, CONSTR_2_TAG) = {} <=> d[3] = Tag(CONSTR_2_TAG)
        /\ ExpectArrayWithOneElement(d, 2) = {} <=> d[2] \in Headers
        /\ ExpectArrayWithOneElement(d, 4) = {} <=> d[4] \in Headers
        /\ ExpectMapOfThree(d, 5) = {} <=> d[5] = Map(3)
    BY <1>1, <1>3, <1>4, <1>5, <1>9, <2>2
  <2>4. ExpectNewKey(d, 1) = {} /\ ExpectNewKey(d, 2) = {} /\ ExpectNewKey(d, 3) = {} <=>
           {d[6], d[8], d[10]} = {UInt(KEY_PRICE), UInt(KEY_CREATED_MS), UInt(KEY_EXPIRY_MS)}
    <3>1. ExpectNewKey(d, 1) = {} /\ ExpectNewKey(d, 2) = {} /\ ExpectNewKey(d, 3) = {} <=>
             /\ d[6].type = "UInt" /\ d[8].type = "UInt" /\ d[10].type = "UInt"
             /\ d[6].argument \in Keys /\ d[8].argument \in Keys /\ d[10].argument \in Keys
             /\ d[6] # d[8] /\ d[6] # d[10] /\ d[8] # d[10]
      BY <1>1, <1>6, <1>9
    <3> DEFINE a == d[6]
               b == d[8]
               c == d[10]
    <3>2. a \in Items /\ b \in Items /\ c \in Items
      BY <2>1
    <3>. HIDE DEF a, b, c
    <3>3. /\ a.type = "UInt" /\ b.type = "UInt" /\ c.type = "UInt"
          /\ a.argument \in Keys /\ b.argument \in Keys /\ c.argument \in Keys
          /\ a # b /\ a # c /\ b # c
          <=> {a, b, c} = {UInt(KEY_PRICE), UInt(KEY_CREATED_MS), UInt(KEY_EXPIRY_MS)}
      BY <3>2, KeysAreAll
    <3>. QED
      BY <3>1, <3>3, Zenon DEF a, b, c
  <2>5. ExpectEnd(d, 12) = {} <=> Len(d) = 13 /\ d[12] = Break /\ d[13] = Break
    BY <1>9, EndIsTwoBreaks
  <2>. QED
    <3>1. /\ ExpectValue(d, 1) = {} <=> d[7].type = "UInt"
          /\ ExpectValue(d, 2) = {} <=> d[9].type = "UInt"
          /\ ExpectValue(d, 3) = {} <=> d[11].type = "UInt"
      BY <1>1, <1>7, <1>9
    <3>. QED
      BY <1>2, <2>3, <2>4, <2>5, <3>1 DEF IsShaped
<1>. QED
  BY <1>1, <1>8, <1>9

(* The entries of a document that passes: every key is at one place, with  *)
(* an integer behind it.                                                   *)
LEMMA EntriesAreKeyed ==
    ASSUME NEW d \in Seq(Items), IsShaped(d)
    PROVE  /\ \A k \in 1 .. 3 : \E key \in Keys : d[EntryAt(k)] = UInt(key)
           /\ \A key \in Keys : \E k \in 1 .. 3 : d[EntryAt(k)] = UInt(key)
           /\ \A j, k \in 1 .. 3 : d[EntryAt(j)] = d[EntryAt(k)] => j = k
           /\ \A k \in 1 .. 3 : /\ d[EntryAt(k) + 1] = UInt(d[EntryAt(k) + 1].argument)
                                /\ d[EntryAt(k) + 1].argument \in U64
<1>1. Len(d) = 13 /\ \A i \in 1 .. 13 : d[i] \in Items
  <2>1. Len(d) = 13
    BY DEF IsShaped
  <2>. QED
    BY <2>1, ElementOfSeq
<1>2. /\ EntryAt(1) = 6 /\ EntryAt(2) = 8 /\ EntryAt(3) = 10
      /\ EntryAt(1) + 1 = 7 /\ EntryAt(2) + 1 = 9 /\ EntryAt(3) + 1 = 11
  BY DEF EntryAt
<1>3. \A k : k \in 1 .. 3 <=> k = 1 \/ k = 2 \/ k = 3
  OBVIOUS
<1> DEFINE a == d[6]
           b == d[8]
           c == d[10]
<1>4. a \in Items /\ b \in Items /\ c \in Items
  BY <1>1
<1>5. {a, b, c} = {UInt(KEY_PRICE), UInt(KEY_CREATED_MS), UInt(KEY_EXPIRY_MS)}
  BY DEF IsShaped
<1>6. d[EntryAt(1)] = a /\ d[EntryAt(2)] = b /\ d[EntryAt(3)] = c
  BY <1>2
<1>. HIDE DEF a, b, c
<1>7. a # b /\ a # c /\ b # c
  <2>1. /\ a.type = "UInt" /\ b.type = "UInt" /\ c.type = "UInt"
        /\ a.argument \in Keys /\ b.argument \in Keys /\ c.argument \in Keys
        /\ a # b /\ a # c /\ b # c
        <=> {a, b, c} = {UInt(KEY_PRICE), UInt(KEY_CREATED_MS), UInt(KEY_EXPIRY_MS)}
    BY <1>4, KeysAreAll
  <2>. QED
    BY <1>5, <2>1, Zenon
<1>8. /\ \A x \in {a, b, c} : \E key \in Keys : x = UInt(key)
      /\ \A key \in Keys : UInt(key) \in {a, b, c}
  BY <1>5 DEF Keys
<1>9. /\ d[7] = UInt(d[7].argument) /\ d[9] = UInt(d[9].argument) /\ d[11] = UInt(d[11].argument)
      /\ d[7].argument \in U64 /\ d[9].argument \in U64 /\ d[11].argument \in U64
  BY <1>1, ItemsAreRecords DEF IsShaped
<1>10. \A k \in 1 .. 3 : \E key \in Keys : d[EntryAt(k)] = UInt(key)
  BY <1>3, <1>6, <1>8
<1>11. \A key \in Keys : \E k \in 1 .. 3 : d[EntryAt(k)] = UInt(key)
  BY <1>3, <1>6, <1>8
<1>12. \A j, k \in 1 .. 3 : d[EntryAt(j)] = d[EntryAt(k)] => j = k
  BY <1>3, <1>6, <1>7
<1>13. \A k \in 1 .. 3 : /\ d[EntryAt(k) + 1] = UInt(d[EntryAt(k) + 1].argument)
                         /\ d[EntryAt(k) + 1].argument \in U64
  BY <1>2, <1>3, <1>9
<1>. QED
  BY <1>10, <1>11, <1>12, <1>13

(* What is read for a key is what stands behind it.                        *)
LEMMA ValuesAreFound ==
    ASSUME NEW d \in Seq(Items), IsShaped(d), NEW k \in 1 .. 3, NEW key,
           d[EntryAt(k)] = UInt(key)
    PROVE  /\ ValueOf(d, key) \in U64
           /\ <<d[EntryAt(k)], d[EntryAt(k) + 1]>> = <<UInt(key), UInt(ValueOf(d, key))>>
<1> DEFINE found == CHOOSE i \in 1 .. 3 : d[EntryAt(i)] = UInt(key)
<1>1. found \in 1 .. 3 /\ d[EntryAt(found)] = UInt(key)
  OBVIOUS
<1>2. ValueOf(d, key) = d[EntryAt(found) + 1].argument
  BY DEF ValueOf
<1>. HIDE DEF found
<1>3. found = k
  BY <1>1, EntriesAreKeyed
<1>. QED
  BY <1>2, <1>3, EntriesAreKeyed

LEMMA ShapedSaysItsDatum ==
    ASSUME NEW d \in Seq(Items), IsShaped(d)
    PROVE  DatumOf(d) \in AggStateData /\ Says(d, DatumOf(d))
<1> DEFINE datum == DatumOf(d)
           pairs == {<<d[EntryAt(k)], d[EntryAt(k) + 1]>> : k \in 1 .. 3}
           PairOf(key) == <<UInt(key), UInt(ValueOf(d, key))>>
<1>1. /\ datum.price_microusd = ValueOf(d, KEY_PRICE)
      /\ datum.created_unix_ms = ValueOf(d, KEY_CREATED_MS)
      /\ datum.expiry_unix_ms = ValueOf(d, KEY_EXPIRY_MS)
  BY DEF DatumOf
<1>2. \A key \in Keys : ValueOf(d, key) \in U64
  BY EntriesAreKeyed, ValuesAreFound
<1>3. datum \in AggStateData
  BY <1>2 DEF DatumOf, AggStateData, Keys
<1>4. EntriesOf(datum) = {PairOf(key) : key \in Keys}
  BY <1>1 DEF EntriesOf, Keys
<1>. HIDE DEF datum
<1>5. pairs \subseteq {PairOf(key) : key \in Keys}
  <2>1. SUFFICES ASSUME NEW k \in 1 .. 3
                 PROVE  <<d[EntryAt(k)], d[EntryAt(k) + 1]>> \in {PairOf(key) : key \in Keys}
    OBVIOUS
  <2>2. PICK key \in Keys : d[EntryAt(k)] = UInt(key)
    BY EntriesAreKeyed
  <2>3. <<d[EntryAt(k)], d[EntryAt(k) + 1]>> = PairOf(key)
    BY <2>2, ValuesAreFound
  <2>. QED
    BY <2>3
<1>6. {PairOf(key) : key \in Keys} \subseteq pairs
  <2>1. SUFFICES ASSUME NEW key \in Keys PROVE PairOf(key) \in pairs
    OBVIOUS
  <2>2. PICK k \in 1 .. 3 : d[EntryAt(k)] = UInt(key)
    BY EntriesAreKeyed
  <2>3. <<d[EntryAt(k)], d[EntryAt(k) + 1]>> = PairOf(key)
    BY <2>2, ValuesAreFound
  <2>. QED
    BY <2>3
<1>7. pairs = EntriesOf(datum)
  BY <1>4, <1>5, <1>6
<1>8. Len(d) >= 11 /\ d[5] = Map(3)
  BY DEF IsShaped
<1>. QED
  BY <1>3, <1>7, <1>8 DEF Says, datum

(* A document says one datum.                                              *)
LEMMA DatumIsUnique ==
    ASSUME NEW d, NEW datum \in AggStateData, NEW other \in AggStateData,
           Says(d, datum), Says(d, other)
    PROVE  datum = other
<1>1. EntriesOf(datum) = EntriesOf(other)
  BY DEF Says
<1>2. ASSUME NEW x \in AggStateData, NEW y \in AggStateData, EntriesOf(x) = EntriesOf(y),
             NEW key \in Keys, NEW v, <<UInt(key), UInt(v)>> \in EntriesOf(x)
      PROVE  v = IF key = KEY_PRICE THEN y.price_microusd
                 ELSE IF key = KEY_CREATED_MS THEN y.created_unix_ms ELSE y.expiry_unix_ms
  <2>1. <<UInt(key), UInt(v)>> \in EntriesOf(y)
    BY <1>2
  <2>2. \A m, n : UInt(m) = UInt(n) => m = n
    BY ItemTypes
  <2>3. \A p, q, m, n : <<p, q>> = <<m, n>> => p = m /\ q = n
    OBVIOUS
  <2>4. \/ key = KEY_PRICE /\ v = y.price_microusd
        \/ key = KEY_CREATED_MS /\ v = y.created_unix_ms
        \/ key = KEY_EXPIRY_MS /\ v = y.expiry_unix_ms
    BY <2>1, <2>2, <2>3 DEF EntriesOf
  <2>. QED
    BY <2>4, ItemTypes
<1>3. /\ datum.price_microusd = other.price_microusd
      /\ datum.created_unix_ms = other.created_unix_ms
      /\ datum.expiry_unix_ms = other.expiry_unix_ms
  <2>1. /\ <<UInt(KEY_PRICE), UInt(datum.price_microusd)>> \in EntriesOf(datum)
        /\ <<UInt(KEY_CREATED_MS), UInt(datum.created_unix_ms)>> \in EntriesOf(datum)
        /\ <<UInt(KEY_EXPIRY_MS), UInt(datum.expiry_unix_ms)>> \in EntriesOf(datum)
    BY DEF EntriesOf
  <2>2. KEY_PRICE \in Keys /\ KEY_CREATED_MS \in Keys /\ KEY_EXPIRY_MS \in Keys
    BY DEF Keys
  <2>. QED
    BY <1>1, <1>2, <2>1, <2>2, ItemTypes
<1>. QED
  BY <1>3 DEF AggStateData

(* The documents the oracle uses on chain pass.                            *)
LEMMA AggStatesAreShaped ==
    ASSUME NEW d \in Seq(Items), IsAggState(d, {IndefiniteArray})
    PROVE  IsShaped(d)
<1> DEFINE entries == SubSeq(d, 6, 11)
<1>1. Len(d) >= 11 /\ Len(d) \in Nat
  BY LenProperties DEF IsAggState
<1>2. /\ entries \in Seq(Items) /\ Len(entries) = 6
      /\ \A i \in 1 .. 6 : entries[i] = d[i + 5]
  BY <1>1, SubSeqProperties
<1>3. d = Encoding(entries, IndefiniteArray, IndefiniteArray)
  BY DEF IsAggState
<1>. HIDE DEF entries
<1> DEFINE outer == Opening(CONSTR_0_TAG, IndefiniteArray)
           inner == Opening(CONSTR_2_TAG, IndefiniteArray)
           map == <<Map(3)>>
           close == <<Break>>
<1>4. /\ outer \in Seq(Items) /\ Len(outer) = 2
      /\ outer[1] = Tag(CONSTR_0_TAG) /\ outer[2] = IndefiniteArray
      /\ inner \in Seq(Items) /\ Len(inner) = 2
      /\ inner[1] = Tag(CONSTR_2_TAG) /\ inner[2] = IndefiniteArray
      /\ map \in Seq(Items) /\ Len(map) = 1 /\ map[1] = Map(3)
      /\ close \in Seq(Items) /\ Len(close) = 1 /\ close[1] = Break
  BY DEF Opening, Items, Tag, Map, Item, CONSTR_0_TAG, CONSTR_2_TAG
<1>5. d = outer \o inner \o map \o entries \o close \o close
  BY <1>3 DEF Encoding, Closing
<1>. HIDE DEF outer, inner, map, close
<1> DEFINE opened == outer \o inner
           headed == opened \o map
           body == headed \o entries
           closed == body \o close
<1>6. /\ opened \in Seq(Items) /\ Len(opened) = 4
      /\ opened[1] = outer[1] /\ opened[2] = outer[2]
      /\ opened[3] = inner[1] /\ opened[4] = inner[2]
  <2>1. outer \in Seq(Items) /\ inner \in Seq(Items)
    BY <1>4
  <2>2. opened \in Seq(Items) /\ IsConcat(opened, outer, inner)
    BY <2>1, ConcatAt
  <2>. HIDE DEF opened
  <2>3. /\ Len(opened) = Len(outer) + Len(inner)
        /\ \A i \in 1 .. Len(outer) : opened[i] = outer[i]
        /\ \A i \in 1 .. Len(inner) : opened[Len(outer) + i] = inner[i]
    BY <2>2 DEF IsConcat
  <2>4. opened[2 + 1] = inner[1] /\ opened[2 + 2] = inner[2]
    BY <1>4, <2>3
  <2>. QED
    BY <1>4, <2>2, <2>3, <2>4
<1>. HIDE DEF opened
<1>7. /\ headed \in Seq(Items) /\ Len(headed) = 5
      /\ headed[5] = Map(3) /\ \A i \in 1 .. 4 : headed[i] = opened[i]
  <2>1. opened \in Seq(Items) /\ map \in Seq(Items)
    BY <1>4, <1>6
  <2>2. headed \in Seq(Items) /\ IsConcat(headed, opened, map)
    BY <2>1, ConcatAt
  <2>. HIDE DEF headed
  <2>3. /\ Len(headed) = Len(opened) + Len(map)
        /\ \A i \in 1 .. Len(opened) : headed[i] = opened[i]
        /\ \A i \in 1 .. Len(map) : headed[Len(opened) + i] = map[i]
    BY <2>2 DEF IsConcat
  <2>4. headed[4 + 1] = map[1]
    BY <1>4, <1>6, <2>3
  <2>. QED
    BY <1>4, <1>6, <2>2, <2>3, <2>4
<1>. HIDE DEF headed
<1>8. /\ body \in Seq(Items) /\ Len(body) = 11
      /\ \A i \in 1 .. 5 : body[i] = headed[i]
  <2>1. headed \in Seq(Items) /\ entries \in Seq(Items)
    BY <1>2, <1>7
  <2>2. body \in Seq(Items) /\ IsConcat(body, headed, entries)
    BY <2>1, ConcatAt
  <2>. HIDE DEF body
  <2>3. /\ Len(body) = Len(headed) + Len(entries)
        /\ \A i \in 1 .. Len(headed) : body[i] = headed[i]
    BY <2>2 DEF IsConcat
  <2>. QED
    BY <1>2, <1>7, <2>2, <2>3
<1>. HIDE DEF body
<1>9. /\ closed \in Seq(Items) /\ Len(closed) = 12
      /\ closed[12] = Break /\ \A i \in 1 .. 11 : closed[i] = body[i]
  <2>1. body \in Seq(Items) /\ close \in Seq(Items)
    BY <1>4, <1>8
  <2>2. closed \in Seq(Items) /\ IsConcat(closed, body, close)
    BY <2>1, ConcatAt
  <2>. HIDE DEF closed
  <2>3. /\ Len(closed) = Len(body) + Len(close)
        /\ \A i \in 1 .. Len(body) : closed[i] = body[i]
        /\ \A i \in 1 .. Len(close) : closed[Len(body) + i] = close[i]
    BY <2>2 DEF IsConcat
  <2>4. closed[11 + 1] = close[1]
    BY <1>4, <1>8, <2>3
  <2>. QED
    BY <1>4, <1>8, <2>2, <2>3, <2>4
<1>. HIDE DEF closed
<1>10. Len(d) = 13 /\ d[13] = Break /\ \A i \in 1 .. 12 : d[i] = closed[i]
  <2>1. closed \in Seq(Items) /\ close \in Seq(Items) /\ d = closed \o close
    BY <1>4, <1>5, <1>9 DEF closed, body, headed, opened
  <2>2. IsConcat(d, closed, close)
    BY <2>1, ConcatAt
  <2>3. /\ Len(d) = Len(closed) + Len(close)
        /\ \A i \in 1 .. Len(closed) : d[i] = closed[i]
        /\ \A i \in 1 .. Len(close) : d[Len(closed) + i] = close[i]
    BY <2>2 DEF IsConcat
  <2>4. d[12 + 1] = close[1]
    BY <1>4, <1>9, <2>3
  <2>. QED
    BY <1>4, <1>9, <2>3, <2>4
<1>11. /\ d[1] = Tag(CONSTR_0_TAG) /\ d[2] = IndefiniteArray
       /\ d[3] = Tag(CONSTR_2_TAG) /\ d[4] = IndefiniteArray
       /\ d[5] = Map(3) /\ d[12] = Break
  BY <1>4, <1>6, <1>7, <1>8, <1>9, <1>10
<1>12. EntryAt(1) = 6 /\ EntryAt(2) = 8 /\ EntryAt(3) = 10
  BY DEF EntryAt
<1>13. /\ {d[6], d[8], d[10]} = {UInt(KEY_PRICE), UInt(KEY_CREATED_MS), UInt(KEY_EXPIRY_MS)}
       /\ d[7].type = "UInt" /\ d[9].type = "UInt" /\ d[11].type = "UInt"
  <2>1. {d[EntryAt(k)] : k \in 1 .. 3} = {d[6], d[8], d[10]}
    <3>1. \A k : k \in 1 .. 3 <=> k = 1 \/ k = 2 \/ k = 3
      OBVIOUS
    <3>. QED
      BY <1>12, <3>1
  <2>2. {UInt(key) : key \in Keys} = {UInt(KEY_PRICE), UInt(KEY_CREATED_MS), UInt(KEY_EXPIRY_MS)}
    BY DEF Keys
  <2>3. {d[EntryAt(k)] : k \in 1 .. 3} = {UInt(key) : key \in Keys}
    BY DEF IsAggState
  <2>4. \A k \in 1 .. 3 : d[EntryAt(k) + 1].type = "UInt"
    BY DEF IsAggState
  <2>5. EntryAt(1) + 1 = 7 /\ EntryAt(2) + 1 = 9 /\ EntryAt(3) + 1 = 11
    BY DEF EntryAt
  <2>6. d[7].type = "UInt" /\ d[9].type = "UInt" /\ d[11].type = "UInt"
    <3>1. 1 \in 1 .. 3 /\ 2 \in 1 .. 3 /\ 3 \in 1 .. 3
      OBVIOUS
    <3>. QED
      BY <2>4, <2>5, <3>1, Zenon
  <2>. QED
    BY <2>1, <2>2, <2>3, <2>6, Zenon
<1>. QED
  BY <1>10, <1>11, <1>13 DEF IsShaped, Headers

(* The parser takes exactly the documents that close both arrays with      *)
(* breaks, and of those it reads what their maps say; the documents of the *)
(* chain are among them (parse_aggstate_datum).                            *)
THEOREM ParserIsExact ==
    ASSUME NEW d \in Seq(Items)
    PROVE  /\ IsParsed(d) <=> IsShaped(d)
           /\ IsParsed(d) => DatumOf(d) \in AggStateData /\ Says(d, DatumOf(d))
           /\ IsAggState(d, {IndefiniteArray}) => IsParsed(d)
  BY ChecksAreExact, ShapedSaysItsDatum, AggStatesAreShaped

(* A document that is refused is refused with an error of the parser.      *)
LEMMA ParseErrorsAreTyped ==
    ASSUME NEW d, ~IsParsed(d)
    PROVE  ParseError(d) \in Charli3ParseErrors
<1> DEFINE checks == Checks(d)
           failed == FailedChecks(d)
           first == CHOOSE i \in failed : \A j \in failed : i <= j
<1>1. failed \subseteq 1 .. 12 /\ failed # {} /\ \A i \in failed : checks[i] # {}
  BY DEF IsParsed, FailedChecks
<1>2. \A i \in 1 .. 12 : checks[i] \subseteq Charli3ParseErrors
  <2>1. \A ok, why : ErrorUnless(ok, why) \subseteq {why}
    BY DEF ErrorUnless
  <2>2. \A i, tag : ExpectTag(d, i, tag) \subseteq Charli3ParseErrors
    BY <2>1 DEF ExpectTag, Charli3ParseErrors
  <2>3. \A i : ExpectArrayWithOneElement(d, i) \subseteq Charli3ParseErrors
    BY <2>1 DEF ExpectArrayWithOneElement, Charli3ParseErrors
  <2>4. ExpectMapOfThree(d, 5) \subseteq Charli3ParseErrors
    BY <2>1 DEF ExpectMapOfThree, Charli3ParseErrors
  <2>5. \A k : ExpectNewKey(d, k) \subseteq Charli3ParseErrors
    BY <2>1 DEF ExpectNewKey, Charli3ParseErrors
  <2>6. \A k : ExpectValue(d, k) \subseteq Charli3ParseErrors
    BY <2>1 DEF ExpectValue, Charli3ParseErrors
  <2>7. ExpectEnd(d, 12) \subseteq Charli3ParseErrors
    BY <2>1 DEF ExpectEnd, Charli3ParseErrors
  <2>8. \A i \in 1 .. 12 :
           \/ i = 1 \/ i = 2 \/ i = 3 \/ i = 4 \/ i = 5 \/ i = 6
           \/ i = 7 \/ i = 8 \/ i = 9 \/ i = 10 \/ i = 11 \/ i = 12
    OBVIOUS
  <2>. QED
    BY <2>2, <2>3, <2>4, <2>5, <2>6, <2>7, <2>8 DEF Checks
<1>3. \E i \in failed : \A j \in failed : i <= j
  BY <1>1, LeastOfTwelve
<1>4. ParseError(d) = CHOOSE why \in checks[first] : TRUE
  BY DEF ParseError
<1>. HIDE DEF failed, checks
<1>5. first \in failed
  BY <1>3
<1>. HIDE DEF first
<1>. QED
  BY <1>1, <1>2, <1>4, <1>5

-----------------------------------------------------------------------------
(* Normalisation                                                           *)

(* What a consumer takes from a document is what the document says, and a  *)
(* refusal has its cause in the document or, for the validating pipeline,  *)
(* in the price or the clock.                                              *)
Takes(taken, d, ref) ==
    /\ IsParsed(d)
    /\ taken.fact.price_microusd = DatumOf(d).price_microusd
    /\ taken.provenance.timestamp_unix = DatumOf(d).created_unix_ms
    /\ taken.provenance.expiry_unix = DatumOf(d).expiry_unix_ms
    /\ taken.provenance.aggregator_utxo_ref = ref

LEMMA NormalizedIsTyped ==
    ASSUME NEW d \in Seq(Items), IsParsed(d), NEW ref \in UtxoRefs
    PROVE  /\ Normalized(d, ref) \in NormalizeResults
           /\ Normalized(d, ref).result = "Ok"
           /\ Takes(Normalized(d, ref), d, ref)
<1>1. DatumOf(d) \in AggStateData
  BY ParserIsExact
<1> DEFINE datum == DatumOf(d)
<1>2. /\ datum.price_microusd \in U64 /\ datum.created_unix_ms \in U64
      /\ datum.expiry_unix_ms \in U64
  BY <1>1 DEF AggStateData
<1>. HIDE DEF datum
<1>3. Normalized(d, ref) =
         [result |-> "Ok",
          fact |-> [price_microusd |-> datum.price_microusd],
          provenance |-> [timestamp_unix |-> datum.created_unix_ms,
                          expiry_unix |-> datum.expiry_unix_ms,
                          aggregator_utxo_ref |-> ref]]
  BY DEF Normalized, datum
<1>4. Normalized(d, ref) \in NormalizeResults
  BY <1>2, <1>3 DEF NormalizeResults, OracleFactEval, OracleFactProvenance
<1>5. Normalized(d, ref).result = "Ok" /\ Takes(Normalized(d, ref), d, ref)
  BY <1>3 DEF Takes, datum
<1>. QED
  BY <1>4, <1>5

LEMMA LiveResults ==
    ASSUME NEW d \in Seq(Items), NEW ref \in UtxoRefs, NEW taken,
           taken = NormalizeAggStateDatum(d, ref)
    PROVE  /\ taken \in NormalizeResults
           /\ taken.result = "Ok" => Takes(taken, d, ref)
           /\ taken.result = "Err" => ~IsParsed(d) /\ taken.error \in Charli3ParseErrors
<1>1. CASE IsParsed(d)
  BY <1>1, NormalizedIsTyped DEF NormalizeAggStateDatum
<1>2. CASE ~IsParsed(d)
  <2>1. taken = [result |-> "Err", error |-> ParseError(d)]
    BY <1>2 DEF NormalizeAggStateDatum, Rejection
  <2>. QED
    BY <1>2, <2>1, ParseErrorsAreTyped DEF NormalizeResults, NormalizeRejections
<1>. QED
  BY <1>1, <1>2

LEMMA ValidatedResults ==
    ASSUME NEW d \in Seq(Items), NEW ref \in UtxoRefs, NEW time, NEW taken,
           taken = NormalizeParseValidate(d, ref, time)
    PROVE  /\ taken \in NormalizeResults
           /\ taken.result = "Ok" =>
                 /\ Takes(taken, d, ref)
                 /\ taken.fact.price_microusd # 0
                 /\ time < taken.provenance.expiry_unix
           /\ taken.result = "Err" =>
                 \/ ~IsParsed(d) /\ taken.error \in Charli3ParseErrors
                 \/ /\ IsParsed(d) /\ taken.error = "OraclePriceZero"
                    /\ DatumOf(d).price_microusd = 0
                 \/ /\ IsParsed(d) /\ taken.error = "OracleStale"
                    /\ ~(time < DatumOf(d).expiry_unix_ms)
<1> DEFINE normalized == NormalizeAggStateDatum(d, ref)
<1>1. /\ normalized \in NormalizeResults
      /\ normalized.result = "Ok" => Takes(normalized, d, ref)
      /\ normalized.result = "Err" => ~IsParsed(d) /\ normalized.error \in Charli3ParseErrors
  BY LiveResults
<1>2. normalized.result = "Ok" \/ normalized.result = "Err"
  BY <1>1 DEF NormalizeResults, NormalizeRejections
<1>3. taken = IF normalized.result = "Err" THEN normalized
              ELSE IF normalized.fact.price_microusd = 0 THEN Rejection("OraclePriceZero")
              ELSE IF ~IsFresh(normalized.provenance, time) THEN Rejection("OracleStale")
              ELSE normalized
  BY DEF NormalizeParseValidate
<1>. HIDE DEF normalized
<1>4. \A why : Rejection(why).result = "Err" /\ Rejection(why).error = why
  BY DEF Rejection
<1>5. /\ Rejection("OraclePriceZero") \in NormalizeResults
      /\ Rejection("OracleStale") \in NormalizeResults
  BY DEF Rejection, NormalizeResults, NormalizeRejections
<1>6. CASE normalized.result = "Err"
  BY <1>1, <1>3, <1>6
<1>7. CASE normalized.result = "Ok" /\ normalized.fact.price_microusd = 0
  BY <1>1, <1>3, <1>4, <1>5, <1>7 DEF Takes
<1>8. CASE /\ normalized.result = "Ok" /\ normalized.fact.price_microusd # 0
           /\ ~IsFresh(normalized.provenance, time)
  BY <1>1, <1>3, <1>4, <1>5, <1>8 DEF Takes, IsFresh
<1>9. CASE /\ normalized.result = "Ok" /\ normalized.fact.price_microusd # 0
           /\ IsFresh(normalized.provenance, time)
  BY <1>1, <1>3, <1>9 DEF IsFresh
<1>. QED
  BY <1>2, <1>6, <1>7, <1>8, <1>9

-----------------------------------------------------------------------------
(* The inductive invariant                                                 *)

(* Transactions are numbered without a gap, and the token of the last one  *)
(* is unspent, since only a later one could spend it.                      *)
ChainInv ==
    /\ now \in 0 .. MaxNow
    /\ IsFiniteSet(outputs)
    /\ \E n \in 0 .. MaxTransactions : TransactionsOf(outputs) = 1 .. n
    /\ spent \subseteq outputs
    /\ index \subseteq outputs
    /\ \A o \in outputs :
          /\ o.token \in BOOLEAN
          /\ o.datum_hash \subseteq Seq(Items)
          /\ \A d, e \in o.datum_hash : d = e
    /\ \A transaction \in TransactionsOf(outputs) :
          \E o \in AggStates(Unspent) : transaction <= o.transaction_id

(* The aggregation of the adapter is over before the fetch begins.         *)
PullInv ==
    /\ pull \in PullStatuses
    /\ pending \in BOOLEAN
    /\ pulled \subseteq TransactionsOf(outputs)
    /\ pull = "Ok" => HasSubmitted
    /\ phase # "Idle" => pull # "Running"

FetchInv ==
    /\ phase \in Phases
    /\ began \in 0 .. MaxNow /\ fetched \in 0 .. MaxNow
    /\ waited \in 0 .. Timeout
    /\ asked.at \in 0 .. MaxNow
    /\ error \in KupoErrors \cup {NoError}
    /\ record \subseteq AggStates(outputs)
    /\ \A match, other \in record : match = other
    /\ phase \in {"Idle", "Matches"} => record = {}
    /\ phase \in Fetching => document = {}
    /\ \A d \in document : \A match \in record : d \in match.datum_hash

(* How long the fetch has taken so far.                                    *)
TimeInv ==
    /\ phase = "Matches" => now = began + waited
    /\ phase = "Datum" =>
          /\ began <= asked.at /\ asked.at <= began + Timeout
          /\ now = asked.at + waited
    /\ phase \in {"Fetched", "Normalized"} =>
          /\ began <= asked.at /\ asked.at <= fetched
          /\ fetched <= began + 2 * Timeout

(* The match that was taken was the most recent one, also of the           *)
(* aggregation of the adapter, unless that is on chain only later.         *)
RecentInv ==
    /\ phase \in {"Datum", "Fetched", "Normalized"} /\ pending => asked.pending
    /\ ~asked.behind => \A match \in record :
          /\ match.transaction_id \in asked.unspent
          /\ \A transaction \in asked.unspent : transaction <= match.transaction_id
          /\ ~asked.pending =>
                \A transaction \in pulled : transaction <= match.transaction_id

ResultInv ==
    \A taken \in result :
        /\ phase = "Normalized"
        /\ \E match \in record : \E d \in document :
              taken = NormalizeAggStateDatum(d, match.transaction_id)

Inv == ChainInv /\ PullInv /\ FetchInv /\ TimeInv /\ RecentInv /\ ResultInv

LEMMA ConstantsAreTyped ==
    /\ U64Max \in Nat /\ MaxTransactions \in Nat /\ Validity \in Nat /\ Timeout \in Nat
    /\ MaxNow \in Nat /\ MaxNow + Validity <= U64Max
    /\ Timeout > 0
    /\ UtxoRefs = 1 .. MaxTransactions
  BY CanonicalAssumption, OracleFetchAssumption

LEMMA InitInv == Init => Inv
<1>. SUFFICES ASSUME Init PROVE Inv
  OBVIOUS
<1>. USE DEF Init
<1>1. ChainInv
  <2>1. TransactionsOf(outputs) = {}
    BY DEF TransactionsOf
  <2>2. 0 \in 0 .. MaxTransactions /\ 1 .. 0 = {} /\ 0 \in 0 .. MaxNow
    BY ConstantsAreTyped
  <2>3. IsFiniteSet(outputs)
    BY FS_EmptySet
  <2>4. \E n \in 0 .. MaxTransactions : TransactionsOf(outputs) = 1 .. n
    BY <2>1, <2>2
  <2>. QED
    BY <2>1, <2>2, <2>3, <2>4 DEF ChainInv
<1>2. PullInv
  BY DEF PullInv, PullStatuses
<1>3. FetchInv
  BY ConstantsAreTyped DEF FetchInv, Phases, Fetching, Waiting, Ended, NoError
<1>4. TimeInv /\ RecentInv /\ ResultInv
  BY DEF TimeInv, RecentInv, ResultInv
<1>. QED
  BY <1>1, <1>2, <1>3, <1>4 DEF Inv

(* The number of the next transaction is the least that is not taken.      *)
LEMMA NextIsNew ==
    ASSUME NEW n \in Nat, TransactionsOf(outputs) = 1 .. n
    PROVE  NextTransaction = n + 1
<1>1. Cardinality(1 .. n) = n
  <2>1. Cardinality(1 .. n) = IF 1 > n THEN 0 ELSE n - 1 + 1
    BY FS_Interval
  <2>. QED
    BY <2>1
<1>. QED
  BY <1>1 DEF NextTransaction

LEMMA OutputFields ==
    \A t, k, h : /\ Output(t, k, h).transaction_id = t
                 /\ Output(t, k, h).token = k
                 /\ Output(t, k, h).datum_hash = h
  BY DEF Output

(* What a transaction of the oracle adds and spends.                       *)
LEMMA AggregationGrows ==
    ASSUME ChainInv, AggregateAs(NextTransaction)
    PROVE  /\ ChainInv'
           /\ outputs \subseteq outputs'
           /\ NextTransaction \in TransactionsOf(outputs)'
<1>1. PICK n \in 0 .. MaxTransactions : TransactionsOf(outputs) = 1 .. n
  BY DEF ChainInv
<1>2. n \in Nat /\ NextTransaction = n + 1
  BY <1>1, NextIsNew, ConstantsAreTyped
<1>3. n + 1 <= MaxTransactions
  BY <1>2 DEF AggregateAs
<1>4. PICK price \in Prices :
         \E datum_hash \in {{}} \cup {{d} : d \in Documents(Published(price))} :
             outputs' = outputs \cup {Output(n + 1, TRUE, datum_hash),
                                      Output(n + 1, FALSE, {<<Other>>})}
  BY <1>2 DEF AggregateAs
<1>5. PICK datum_hash \in {{}} \cup {{d} : d \in Documents(Published(price))} :
         outputs' = outputs \cup {Output(n + 1, TRUE, datum_hash),
                                  Output(n + 1, FALSE, {<<Other>>})}
  BY <1>4
<1> DEFINE made == Output(n + 1, TRUE, datum_hash)
           companion == Output(n + 1, FALSE, {<<Other>>})
<1>6. outputs' = outputs \cup {made, companion}
  BY <1>5
<1>7. /\ made.transaction_id = n + 1 /\ made.token = TRUE /\ made.datum_hash = datum_hash
      /\ companion.transaction_id = n + 1 /\ companion.token = FALSE
      /\ companion.datum_hash = {<<Other>>}
  BY OutputFields
<1>. HIDE DEF made, companion
<1>8. TransactionsOf(outputs)' = 1 .. n + 1
  <2>1. TransactionsOf(outputs)' = TransactionsOf(outputs) \cup {n + 1}
    BY <1>6, <1>7 DEF TransactionsOf
  <2>. QED
    BY <1>1, <1>2, <2>1
<1>9. spent' \subseteq outputs' /\ spent' \ spent \subseteq outputs /\ made \notin outputs
  <2>1. made \notin outputs
    <3>1. made \in outputs => n + 1 \in TransactionsOf(outputs)
      BY <1>7 DEF TransactionsOf
    <3>. QED
      BY <1>1, <1>2, <3>1
  <2>2. PICK old \in {{}} \cup {{o} : o \in AggStates(Unspent)} : spent' = spent \cup old
    BY DEF AggregateAs
  <2>3. old \subseteq outputs
    BY <2>2 DEF AggStates, Unspent
  <2>. QED
    BY <1>6, <2>1, <2>2, <2>3 DEF ChainInv
<1>10. Published(price) \in AggStateData
  BY <1>4, OracleFetchAssumption, ConstantsAreTyped
  DEF ChainInv, Published, AggStateData, U64
<1>11. \A d \in datum_hash : d \in Seq(Items)
  BY <1>5, <1>10, OracleFetchAssumption
<1>13. \A d, e \in datum_hash : d = e
  BY <1>5
<1>14. \A o \in outputs' :
          /\ o.token \in BOOLEAN
          /\ o.datum_hash \subseteq Seq(Items)
          /\ \A d, e \in o.datum_hash : d = e
  <2>1. <<Other>> \in Seq(Items)
    BY DEF Items, Other, Item
  <2>2. SUFFICES ASSUME NEW o \in outputs'
                 PROVE  /\ o.token \in BOOLEAN
                        /\ o.datum_hash \subseteq Seq(Items)
                        /\ \A d, e \in o.datum_hash : d = e
    OBVIOUS
  <2>3. CASE o \in outputs
    BY <2>3 DEF ChainInv
  <2>4. CASE o = made
    BY <1>7, <1>11, <1>13, <2>4
  <2>5. CASE o = companion
    BY <1>7, <2>1, <2>5
  <2>. QED
    BY <1>6, <2>3, <2>4, <2>5
<1>15. \A transaction \in TransactionsOf(outputs)' :
          \E o \in AggStates(Unspent)' : transaction <= o.transaction_id
  <2>1. made \in AggStates(Unspent)'
    BY <1>6, <1>7, <1>9 DEF AggStates, Unspent, ChainInv
  <2>. QED
    BY <1>2, <1>7, <1>8, <2>1
<1>16. IsFiniteSet(outputs')
  <2>1. IsFiniteSet(outputs \cup {made})
    BY FS_AddElement DEF ChainInv
  <2>2. IsFiniteSet((outputs \cup {made}) \cup {companion})
    BY <2>1, FS_AddElement
  <2>3. outputs' = (outputs \cup {made}) \cup {companion}
    BY <1>6
  <2>. QED
    BY <2>2, <2>3
<1>17. now' = now /\ index' = index /\ outputs \subseteq outputs'
  BY <1>6 DEF AggregateAs
<1>18. \E m \in 0 .. MaxTransactions : TransactionsOf(outputs)' = 1 .. m
  BY <1>2, <1>3, <1>8, ConstantsAreTyped
<1>19. ChainInv'
  BY <1>9, <1>14, <1>15, <1>16, <1>17, <1>18 DEF ChainInv
<1>. QED
  BY <1>2, <1>8, <1>17, <1>19

(* What Kupo gives as its first match with the token: an output it saw     *)
(* unspent, and no later one has the token.                                *)
LEMMA FirstMatchIsNewest ==
    ASSUME ChainInv, NEW list \in Listings(index), NEW match \in FirstMatch(list)
    PROVE  /\ match \in AggStates(index)
           /\ \A o \in AggStates(index) : o.transaction_id <= match.transaction_id
<1> DEFINE length == Cardinality(index)
<1>1. length \in Nat
  BY FS_Subset, FS_CardinalityType DEF ChainInv
<1>2. /\ list \in [1 .. length -> index]
      /\ \A o \in index : \E i \in DOMAIN list : list[i] = o
      /\ \A i, j \in DOMAIN list : i < j => list[i].transaction_id >= list[j].transaction_id
  BY DEF Listings
<1>. HIDE DEF length
<1>3. DOMAIN list = 1 .. length
  BY <1>2
<1>4. PICK i \in Matches(list) : match = list[i] /\ \A j \in Matches(list) : i <= j
  BY DEF FirstMatch
<1>5. i \in 1 .. length /\ list[i].token /\ list[i] \in index
  BY <1>2, <1>3, <1>4 DEF Matches
<1>6. \A o \in index : o.transaction_id \in Nat
  <2>1. PICK n \in 0 .. MaxTransactions : TransactionsOf(outputs) = 1 .. n
    BY DEF ChainInv
  <2>2. \A o \in index : o.transaction_id \in 1 .. n
    BY <2>1 DEF ChainInv, TransactionsOf
  <2>. QED
    BY <2>2
<1>7. ASSUME NEW o \in AggStates(index)
      PROVE  o.transaction_id <= match.transaction_id
  <2>1. o \in index /\ o.token
    BY DEF AggStates
  <2>2. PICK j \in 1 .. length : list[j] = o
    BY <1>2, <1>3, <2>1
  <2>3. i <= j
    BY <1>3, <1>4, <2>1, <2>2 DEF Matches
  <2>4. CASE i = j
    BY <1>4, <1>6, <2>1, <2>2, <2>4
  <2>5. CASE i < j
    BY <1>2, <1>3, <1>4, <1>5, <1>6, <2>1, <2>2, <2>5
  <2>. QED
    BY <1>5, <2>2, <2>3, <2>4, <2>5
<1>. QED
  BY <1>4, <1>5, <1>7 DEF AggStates

LEMMA ChainStep == Inv /\ [Next]_vars => ChainInv' /\ outputs \subseteq outputs'
<1>. SUFFICES ASSUME Inv, [Next]_vars PROVE ChainInv' /\ outputs \subseteq outputs'
  OBVIOUS
<1>1. ChainInv
  BY DEF Inv
<1>2. ASSUME UNCHANGED <<now, oracle, index>>
      PROVE  ChainInv' /\ outputs \subseteq outputs'
  <2>1. Unspent' = Unspent
    BY <1>2 DEF Unspent, oracle
  <2>. QED
    BY <1>1, <1>2, <2>1 DEF ChainInv, oracle
<1>3. CASE Tick
  <2>1. now' \in 0 .. MaxNow /\ UNCHANGED <<outputs, spent, index>>
    BY <1>1, <1>3, ConstantsAreTyped DEF Tick, oracle, ChainInv
  <2>2. Unspent' = Unspent
    BY <2>1 DEF Unspent
  <2>. QED
    BY <1>1, <2>1, <2>2 DEF ChainInv
<1>4. CASE Aggregate
  BY <1>1, <1>4, AggregationGrows DEF Aggregate
<1>5. CASE PullLands
  BY <1>1, <1>5, AggregationGrows DEF PullLands
<1>6. CASE Synchronise
  <2>1. index' = Unspent /\ UNCHANGED <<now, outputs, spent>>
    BY <1>6 DEF Synchronise, oracle
  <2>2. Unspent' = Unspent /\ Unspent \subseteq outputs
    BY <2>1 DEF Unspent
  <2>. QED
    BY <1>1, <2>1, <2>2 DEF ChainInv
<1>7. CASE StartPull \/ PullSubmits \/ PullReturns \/ StartFetch \/ AnswerMatches \/ AnswerDatum
  BY <1>2, <1>7 DEF StartPull, PullSubmits, PullReturns, StartFetch, AnswerMatches,
                    AnswerDatum
<1>8. CASE RequestFails \/ TimeOut \/ Normalize
  BY <1>2, <1>8 DEF RequestFails, TimeOut, Normalize
<1>9. CASE UNCHANGED vars
  BY <1>2, <1>9 DEF vars
<1>. QED
  BY <1>3, <1>4, <1>5, <1>6, <1>7, <1>8, <1>9 DEF Next

LEMMA TransactionsGrow ==
    ASSUME outputs \subseteq outputs'
    PROVE  /\ TransactionsOf(outputs) \subseteq TransactionsOf(outputs)'
           /\ AggStates(outputs) \subseteq AggStates(outputs)'
  BY DEF TransactionsOf, AggStates

LEMMA PullStep == Inv /\ [Next]_vars => PullInv'
<1>. SUFFICES ASSUME Inv, [Next]_vars PROVE PullInv'
  OBVIOUS
<1>1. PullInv
  BY DEF Inv
<1>2. TransactionsOf(outputs) \subseteq TransactionsOf(outputs)'
  BY ChainStep, TransactionsGrow
<1>3. SubmitsItself
  BY DEF SubmitsItself, BuildAggregateArgs, NewMvpAggregate
<1>4. ASSUME UNCHANGED charli3, phase' # "Idle" => phase # "Idle" \/ pull # "Running"
      PROVE  PullInv'
  BY <1>1, <1>2, <1>4 DEF PullInv, HasSubmitted, charli3
<1>5. CASE StartPull \/ PullSubmits
  BY <1>1, <1>2, <1>5
  DEF StartPull, PullSubmits, PullInv, HasSubmitted, PullStatuses, fetch
<1>6. CASE PullLands
  <2>1. NextTransaction \in TransactionsOf(outputs)'
    BY <1>6, AggregationGrows DEF PullLands, Inv
  <2>2. pulled' = {NextTransaction} /\ pending' = FALSE /\ UNCHANGED <<pull, phase>>
    BY <1>6 DEF PullLands, AggregateAs, fetch
  <2>. QED
    BY <1>1, <2>1, <2>2 DEF PullInv, HasSubmitted
<1>7. CASE PullReturns
  BY <1>1, <1>2, <1>3, <1>7 DEF PullReturns, PullInv, HasSubmitted, PullStatuses, fetch
<1>8. CASE Tick \/ Aggregate \/ Synchronise
  BY <1>4, <1>8 DEF Tick, Aggregate, AggregateAs, Synchronise, fetch
<1>9. CASE StartFetch \/ AnswerMatches \/ AnswerDatum \/ RequestFails \/ TimeOut
  BY <1>4, <1>9 DEF StartFetch, AnswerMatches, AnswerDatum, RequestFails, TimeOut, Waiting
<1>10. CASE Normalize
  BY <1>4, <1>10 DEF Normalize
<1>11. CASE UNCHANGED vars
  BY <1>4, <1>11 DEF vars, fetch
<1>. QED
  BY <1>5, <1>6, <1>7, <1>8, <1>9, <1>10, <1>11 DEF Next

(* The steps of the fetch, each by what it changes.                        *)
LEMMA MatchesAnswered ==
    ASSUME AnswerMatches
    PROVE  /\ phase = "Matches"
           /\ asked' = [at |-> now, behind |-> index # Unspent, pending |-> pending,
                        unspent |-> TransactionsOf(AggStates(Unspent))]
           /\ UNCHANGED <<now, charli3, oracle, index, began, document, fetched, result>>
           /\ \/ /\ phase' = "Failed" /\ error' \in KupoErrors
                 /\ UNCHANGED <<waited, record>>
              \/ /\ phase' = "Datum" /\ waited' = 0 /\ UNCHANGED error
                 /\ \E list \in Listings(index) : \E match \in FirstMatch(list) : record' = {match}
  BY DEF AnswerMatches, Fail, KupoErrors

LEMMA FetchStep == Inv /\ [Next]_vars => FetchInv'
<1>. SUFFICES ASSUME Inv, [Next]_vars PROVE FetchInv'
  OBVIOUS
<1>1. FetchInv /\ ChainInv
  BY DEF Inv
<1>2. AggStates(outputs) \subseteq AggStates(outputs)'
  BY ChainStep, TransactionsGrow
<1>3. now \in 0 .. MaxNow /\ 0 \in 0 .. Timeout
  BY <1>1, ConstantsAreTyped DEF ChainInv
<1>. USE DEF Phases, Fetching, Waiting, Ended, KupoErrors
<1>4. ASSUME UNCHANGED fetch
      PROVE  FetchInv'
  BY <1>1, <1>2, <1>4 DEF FetchInv, fetch
<1>5. CASE Tick
  <2>1. /\ waited' = IF phase \in Waiting THEN waited + 1 ELSE waited
        /\ phase \in Waiting => waited < Timeout
        /\ UNCHANGED <<phase, began, asked, record, document, fetched, error>>
    BY <1>5 DEF Tick
  <2>2. waited' \in 0 .. Timeout
    BY <1>1, <2>1, ConstantsAreTyped DEF FetchInv
  <2>. QED
    BY <1>1, <1>2, <2>1, <2>2 DEF FetchInv
<1>6. CASE StartFetch
  <2>1. /\ phase = "Idle" /\ phase' = "Matches" /\ began' = now /\ waited' = 0
        /\ UNCHANGED <<asked, record, document, fetched, error>>
    BY <1>6 DEF StartFetch
  <2>. QED
    BY <1>1, <1>2, <1>3, <2>1 DEF FetchInv
<1>7. CASE AnswerMatches
  <2>1. /\ phase = "Matches" /\ asked'.at = now
        /\ UNCHANGED <<began, document, fetched>>
    BY <1>7, MatchesAnswered
  <2>2. CASE phase' = "Failed" /\ error' \in KupoErrors /\ UNCHANGED <<waited, record>>
    BY <1>1, <1>2, <1>3, <2>1, <2>2 DEF FetchInv
  <2>3. CASE /\ phase' = "Datum" /\ waited' = 0 /\ UNCHANGED error
             /\ \E list \in Listings(index) : \E match \in FirstMatch(list) : record' = {match}
    <3>1. PICK list \in Listings(index) : \E match \in FirstMatch(list) : record' = {match}
      BY <2>3
    <3>2. PICK match \in FirstMatch(list) : record' = {match}
      BY <3>1
    <3>3. match \in AggStates(index)
      BY <1>1, FirstMatchIsNewest
    <3>4. match \in AggStates(outputs)
      BY <1>1, <3>3 DEF ChainInv, AggStates
    <3>5. document' = {}
      BY <1>1, <2>1 DEF FetchInv
    <3>. QED
      BY <1>1, <1>2, <1>3, <2>1, <2>3, <3>2, <3>4, <3>5 DEF FetchInv
  <2>. QED
    BY <1>7, <2>2, <2>3, MatchesAnswered
<1>8. CASE AnswerDatum
  <2>1. /\ phase = "Datum" /\ phase' = "Fetched" /\ fetched' = now
        /\ \E match \in record : document' = match.datum_hash
        /\ UNCHANGED <<began, waited, asked, record, error>>
    BY <1>8 DEF AnswerDatum
  <2>2. \A d \in document' : \A match \in record' : d \in match.datum_hash
    BY <1>1, <2>1 DEF FetchInv
  <2>. QED
    BY <1>1, <1>2, <1>3, <2>1, <2>2 DEF FetchInv
<1>9. CASE RequestFails \/ TimeOut
  <2>1. /\ phase \in Waiting /\ phase' = "Failed" /\ error' = "RequestFailed"
        /\ UNCHANGED <<began, waited, asked, record, document, fetched>>
    BY <1>9 DEF RequestFails, TimeOut, Fail
  <2>. QED
    BY <1>1, <1>2, <2>1 DEF FetchInv
<1>10. CASE Normalize
  <2>1. /\ phase = "Fetched" /\ phase' = "Normalized"
        /\ UNCHANGED <<began, waited, asked, record, document, fetched, error>>
    BY <1>10 DEF Normalize
  <2>. QED
    BY <1>1, <1>2, <2>1 DEF FetchInv
<1>11. CASE \/ Aggregate \/ PullLands \/ Synchronise \/ StartPull \/ PullSubmits \/ PullReturns
           \/ UNCHANGED vars
  BY <1>4, <1>11 DEF Aggregate, PullLands, AggregateAs, Synchronise, StartPull,
                     PullSubmits, PullReturns, vars
<1>. QED
  BY <1>5, <1>6, <1>7, <1>8, <1>9, <1>10, <1>11 DEF Next

LEMMA TimeStep == Inv /\ [Next]_vars => TimeInv'
<1>. SUFFICES ASSUME Inv, [Next]_vars PROVE TimeInv'
  OBVIOUS
<1>1. TimeInv
  BY DEF Inv
<1>2. /\ now \in Nat /\ began \in Nat /\ waited \in Nat /\ asked.at \in Nat /\ fetched \in Nat
      /\ waited <= Timeout /\ Timeout \in Nat
  BY ConstantsAreTyped DEF Inv, ChainInv, FetchInv
<1>3. ASSUME UNCHANGED now, UNCHANGED fetch
      PROVE  TimeInv'
  BY <1>1, <1>3 DEF TimeInv, fetch
<1>4. CASE Tick
  <2>1. /\ now' = now + 1 /\ waited' = IF phase \in Waiting THEN waited + 1 ELSE waited
        /\ UNCHANGED <<phase, began, asked, fetched>>
    BY <1>4 DEF Tick
  <2>. QED
    BY <1>1, <1>2, <2>1 DEF TimeInv, Waiting
<1>5. CASE StartFetch
  BY <1>2, <1>5 DEF StartFetch, TimeInv
<1>6. CASE AnswerMatches
  <2>1. /\ phase = "Matches" /\ asked'.at = now /\ UNCHANGED <<now, began>>
        /\ \/ phase' = "Failed"
           \/ phase' = "Datum" /\ waited' = 0
    BY <1>6, MatchesAnswered
  <2>. QED
    BY <1>1, <1>2, <2>1 DEF TimeInv
<1>7. CASE AnswerDatum
  <2>1. /\ phase = "Datum" /\ phase' = "Fetched" /\ fetched' = now
        /\ UNCHANGED <<now, began, asked>>
    BY <1>7 DEF AnswerDatum
  <2>. QED
    BY <1>1, <1>2, <2>1 DEF TimeInv
<1>8. CASE RequestFails \/ TimeOut
  BY <1>8 DEF RequestFails, TimeOut, Fail, TimeInv
<1>9. CASE Normalize
  BY <1>1, <1>9 DEF Normalize, TimeInv
<1>10. CASE \/ Aggregate \/ PullLands \/ Synchronise \/ StartPull \/ PullSubmits \/ PullReturns
           \/ UNCHANGED vars
  BY <1>3, <1>10 DEF Aggregate, PullLands, AggregateAs, Synchronise, StartPull,
                     PullSubmits, PullReturns, vars
<1>. QED
  BY <1>4, <1>5, <1>6, <1>7, <1>8, <1>9, <1>10 DEF Next

LEMMA RecentStep == Inv /\ [Next]_vars => RecentInv'
<1>. SUFFICES ASSUME Inv, [Next]_vars PROVE RecentInv'
  OBVIOUS
<1>1. RecentInv /\ ChainInv /\ PullInv /\ FetchInv
  BY DEF Inv
<1>2. ASSUME UNCHANGED <<asked, record, pending, pulled>>,
             phase' \in {"Datum", "Fetched", "Normalized"} =>
                phase \in {"Datum", "Fetched", "Normalized"}
      PROVE  RecentInv'
  BY <1>1, <1>2 DEF RecentInv
<1>3. CASE PullSubmits \/ PullLands
  <2>1. UNCHANGED <<phase, asked, record>> /\ (PullLands => pending /\ pending' = FALSE)
    BY <1>3 DEF PullSubmits, PullLands, AggregateAs, fetch
  <2>2. CASE phase \in {"Idle", "Matches"}
    <3>1. record' = {}
      BY <1>1, <2>1, <2>2 DEF FetchInv
    <3>. QED
      BY <2>1, <2>2, <3>1 DEF RecentInv
  <2>3. CASE phase \notin {"Idle", "Matches"}
    <3>1. PullLands /\ phase = "Datum"
      BY <1>1, <1>3, <2>3 DEF PullSubmits, PullInv, PullLands, Fetching, Waiting
    <3>. QED
      BY <1>1, <2>1, <3>1 DEF RecentInv
  <2>. QED
    BY <2>2, <2>3
<1>4. CASE AnswerMatches
  <2>1. /\ phase = "Matches"
        /\ asked'.behind = (index # Unspent)
        /\ asked'.pending = pending
        /\ asked'.unspent = TransactionsOf(AggStates(Unspent))
        /\ UNCHANGED <<pending, pulled>>
    BY <1>4, MatchesAnswered DEF charli3
  <2>2. CASE UNCHANGED record
    BY <1>1, <2>1, <2>2 DEF RecentInv, FetchInv
  <2>3. CASE \E list \in Listings(index) : \E match \in FirstMatch(list) : record' = {match}
    <3>1. PICK list \in Listings(index) : \E match \in FirstMatch(list) : record' = {match}
      BY <2>3
    <3>2. PICK match \in FirstMatch(list) : record' = {match}
      BY <3>1
    <3>3. /\ match \in AggStates(index)
          /\ \A o \in AggStates(index) : o.transaction_id <= match.transaction_id
      BY <1>1, FirstMatchIsNewest
    <3>4. SUFFICES ASSUME index = Unspent
                   PROVE  /\ match.transaction_id \in asked'.unspent
                          /\ \A transaction \in asked'.unspent :
                                transaction <= match.transaction_id
                          /\ \A transaction \in pulled :
                                transaction <= match.transaction_id
      BY <2>1, <3>2 DEF RecentInv
    <3>5. match.transaction_id \in asked'.unspent
      BY <2>1, <3>3, <3>4 DEF TransactionsOf
    <3>6. \A transaction \in asked'.unspent : transaction <= match.transaction_id
      BY <2>1, <3>3, <3>4 DEF TransactionsOf
    <3>7. ASSUME NEW transaction \in pulled
          PROVE  transaction <= match.transaction_id
      <4>1. transaction \in TransactionsOf(outputs)
        BY <1>1 DEF PullInv
      <4>2. PICK o \in AggStates(Unspent) : transaction <= o.transaction_id
        BY <1>1, <4>1 DEF ChainInv
      <4>3. o.transaction_id <= match.transaction_id
        BY <3>3, <3>4, <4>2
      <4>4. PICK n \in 0 .. MaxTransactions : TransactionsOf(outputs) = 1 .. n
        BY <1>1 DEF ChainInv
      <4>5. o \in outputs /\ match \in outputs
        BY <1>1, <3>3, <4>2 DEF ChainInv, AggStates, Unspent
      <4>6. /\ transaction \in 1 .. n /\ o.transaction_id \in 1 .. n
            /\ match.transaction_id \in 1 .. n
        BY <4>1, <4>4, <4>5 DEF TransactionsOf
      <4>. QED
        BY <4>2, <4>3, <4>6
    <3>. QED
      BY <3>5, <3>6, <3>7
  <2>. QED
    BY <1>4, <2>2, <2>3, MatchesAnswered
<1>5. CASE Tick \/ Aggregate \/ Synchronise \/ StartPull \/ PullReturns
  BY <1>2, <1>5 DEF Tick, Aggregate, AggregateAs, Synchronise, StartPull, PullReturns,
                    charli3, fetch
<1>6. CASE StartFetch \/ AnswerDatum \/ RequestFails \/ TimeOut \/ Normalize
  BY <1>2, <1>6 DEF StartFetch, AnswerDatum, RequestFails, TimeOut, Fail, Normalize, charli3
<1>7. CASE UNCHANGED vars
  BY <1>2, <1>7 DEF vars, charli3, fetch
<1>. QED
  BY <1>3, <1>4, <1>5, <1>6, <1>7 DEF Next

LEMMA ResultStep == Inv /\ [Next]_vars => ResultInv'
<1>. SUFFICES ASSUME Inv, [Next]_vars PROVE ResultInv'
  OBVIOUS
<1>1. ResultInv
  BY DEF Inv
<1>2. ASSUME UNCHANGED result, phase # "Normalized"
      PROVE  ResultInv'
  BY <1>1, <1>2 DEF ResultInv
<1>3. ASSUME UNCHANGED <<now, fetch>>
      PROVE  ResultInv'
  BY <1>1, <1>3 DEF ResultInv, fetch
<1>4. CASE Normalize
  BY <1>4 DEF Normalize, ResultInv
<1>6. CASE Tick \/ StartFetch \/ AnswerMatches \/ AnswerDatum \/ RequestFails \/ TimeOut
  BY <1>2, <1>6 DEF Tick, StartFetch, AnswerMatches, AnswerDatum, RequestFails, TimeOut,
                    Ended,
                    Waiting
<1>7. CASE \/ Aggregate \/ PullLands \/ Synchronise \/ StartPull \/ PullSubmits \/ PullReturns
           \/ UNCHANGED vars
  BY <1>3, <1>7 DEF Aggregate, PullLands, AggregateAs, Synchronise, StartPull, PullSubmits,
                    PullReturns, vars
<1>. QED
  BY <1>4, <1>6, <1>7 DEF Next

LEMMA InvIsInductive == Spec => []Inv
<1>1. Inv /\ [Next]_vars => Inv'
  BY ChainStep, PullStep, FetchStep, TimeStep, RecentStep, ResultStep DEF Inv
<1>. QED
  BY InitInv, <1>1, PTL DEF Spec

-----------------------------------------------------------------------------
(* The properties                                                          *)

LEMMA OutputsAreNumbered ==
    ASSUME Inv, NEW o \in outputs
    PROVE  o.transaction_id \in UtxoRefs
<1>1. PICK n \in 0 .. MaxTransactions : TransactionsOf(outputs) = 1 .. n
  BY DEF Inv, ChainInv
<1>2. o.transaction_id \in 1 .. n
  BY <1>1 DEF TransactionsOf
<1>. QED
  BY <1>2, ConstantsAreTyped

(* Where a result comes from.                                              *)
LEMMA ResultsAreOfTheirMatch ==
    ASSUME Inv, NEW taken \in result
    PROVE  \E match \in AggStates(outputs) : \E d \in match.datum_hash :
              /\ d \in Seq(Items)
              /\ match.transaction_id \in UtxoRefs
              /\ \A e \in document : e = d
              /\ taken = NormalizeAggStateDatum(d, match.transaction_id)
<1>1. PICK match \in record, d \in document :
         taken = NormalizeAggStateDatum(d, match.transaction_id)
  BY DEF Inv, ResultInv
<1>2. match \in AggStates(outputs) /\ \A e \in document : e \in match.datum_hash
  BY <1>1 DEF Inv, FetchInv
<1>3. match \in outputs
  BY <1>2 DEF AggStates
<1>4. d \in Seq(Items) /\ \A e \in document : e = d
  BY <1>1, <1>2, <1>3 DEF Inv, ChainInv
<1>5. match.transaction_id \in UtxoRefs
  BY <1>3, OutputsAreNumbered
<1>. QED
  BY <1>1, <1>2, <1>4, <1>5

LEMMA ResultsAreTyped ==
    ASSUME Inv, NEW taken \in result
    PROVE  taken \in NormalizeResults
<1>1. PICK match \in AggStates(outputs) : \E d \in match.datum_hash :
         /\ d \in Seq(Items)
         /\ match.transaction_id \in UtxoRefs
         /\ taken = NormalizeAggStateDatum(d, match.transaction_id)
  BY ResultsAreOfTheirMatch
<1>2. PICK d \in match.datum_hash :
         /\ d \in Seq(Items)
         /\ match.transaction_id \in UtxoRefs
         /\ taken = NormalizeAggStateDatum(d, match.transaction_id)
  BY <1>1
<1>. QED
  BY <1>2, LiveResults

(* Every variable keeps its type, whatever the oracle publishes and Kupo   *)
(* answers (charli3_aggregate.rs, kupo.rs, charli3.rs).                    *)
THEOREM FetchTypes == Spec => []TypeOK
<1>1. Inv => TypeOK
  <2>. SUFFICES ASSUME Inv PROVE TypeOK
    OBVIOUS
  <2>1. result \subseteq NormalizeResults
    BY ResultsAreTyped
  <2>2. \A o \in outputs : o.transaction_id \in UtxoRefs /\ o.token \in BOOLEAN
    BY OutputsAreNumbered DEF Inv, ChainInv
  <2>. QED
    BY <2>1, <2>2 DEF TypeOK, Inv, ChainInv, PullInv, FetchInv
<1>. QED
  BY <1>1, InvIsInductive, PTL

(* The price that is taken is the one its provenance names (kupo.rs,       *)
(* charli3.rs).                                                            *)
THEOREM FactsAreOfTheirUtxo == Spec => []FactIsOfItsUtxo
<1>1. Inv => FactIsOfItsUtxo
  <2>. SUFFICES ASSUME Inv, NEW taken \in result, taken.result = "Ok"
                PROVE  \E o \in AggStates(outputs) : \E d \in o.datum_hash :
                          /\ o.transaction_id = taken.provenance.aggregator_utxo_ref
                          /\ Says(d, [price_microusd |-> taken.fact.price_microusd,
                                      created_unix_ms |-> taken.provenance.timestamp_unix,
                                      expiry_unix_ms |-> taken.provenance.expiry_unix])
    BY DEF FactIsOfItsUtxo
  <2>1. PICK match \in AggStates(outputs) : \E d \in match.datum_hash :
           /\ d \in Seq(Items)
           /\ match.transaction_id \in UtxoRefs
           /\ taken = NormalizeAggStateDatum(d, match.transaction_id)
    BY ResultsAreOfTheirMatch
  <2>2. PICK d \in match.datum_hash :
           /\ d \in Seq(Items)
           /\ match.transaction_id \in UtxoRefs
           /\ taken = NormalizeAggStateDatum(d, match.transaction_id)
    BY <2>1
  <2>3. Takes(taken, d, match.transaction_id)
    BY <2>2, LiveResults
  <2>4. Says(d, DatumOf(d)) /\ DatumOf(d) \in AggStateData
    BY <2>2, <2>3, ParserIsExact DEF Takes
  <2>5. DatumOf(d) = [price_microusd |-> taken.fact.price_microusd,
                      created_unix_ms |-> taken.provenance.timestamp_unix,
                      expiry_unix_ms |-> taken.provenance.expiry_unix]
    BY <2>3, <2>4 DEF Takes, AggStateData
  <2>. QED
    BY <2>3, <2>4, <2>5 DEF Takes
<1>. QED
  BY <1>1, InvIsInductive, PTL

(* The datum that is read was the most recent one at most two time limits  *)
(* before it arrived, unless Kupo was behind (kupo.rs).                    *)
THEOREM ReadsAreRecent == Spec => []ReadIsRecent
<1>1. Inv => ReadIsRecent
  <2>. SUFFICES ASSUME Inv PROVE ReadIsRecent
    OBVIOUS
  <2>1. /\ began \in Nat /\ fetched \in Nat /\ Timeout \in Nat
        /\ TimeInv /\ RecentInv
    BY ConstantsAreTyped DEF Inv, FetchInv
  <2>. QED
    BY <2>1 DEF ReadIsRecent, TimeInv, RecentInv
<1>. QED
  BY <1>1, InvIsInductive, PTL

(* What the adapter has aggregated, or something later, is what it reads,  *)
(* unless Kupo was behind or the aggregation not on chain then             *)
(* (charli3_aggregate.rs, kupo.rs).                                        *)
THEOREM PullsAreRead == Spec => []PullIsRead
<1>1. Inv => PullIsRead
  <2>. SUFFICES ASSUME Inv, pull = "Ok", phase \in {"Fetched", "Normalized"},
                       ~asked.behind, ~asked.pending
                PROVE  \E transaction \in pulled :
                          \A match \in record : transaction <= match.transaction_id
    BY DEF PullIsRead
  <2>1. ~pending
    BY DEF Inv, RecentInv
  <2>2. PICK transaction \in pulled : TRUE
    BY <2>1 DEF Inv, PullInv, HasSubmitted
  <2>. QED
    BY <2>2 DEF Inv, RecentInv
<1>. QED
  BY <1>1, InvIsInductive, PTL

(* Why the parser or the checks of the validating pipeline refuse a        *)
(* document is in the document.                                            *)
LEMMA RefusalHasItsReason ==
    ASSUME NEW d \in Seq(Items), NEW time \in Nat, NEW refusal,
           \/ ~IsParsed(d) /\ refusal \in Charli3ParseErrors
           \/ /\ IsParsed(d) /\ refusal = "OraclePriceZero"
              /\ DatumOf(d).price_microusd = 0
           \/ /\ IsParsed(d) /\ refusal = "OracleStale"
              /\ ~(time < DatumOf(d).expiry_unix_ms)
    PROVE  IsJustified(refusal, d, time)
<1>1. /\ IsParsed(d) => DatumOf(d) \in AggStateData /\ Says(d, DatumOf(d))
      /\ IsAggState(d, {IndefiniteArray}) => IsParsed(d)
  BY ParserIsExact
<1>2. CASE ~IsParsed(d) /\ refusal \in Charli3ParseErrors
  BY <1>1, <1>2 DEF IsJustified
<1>3. ASSUME IsParsed(d)
      PROVE  /\ DatumOf(d).price_microusd \in U64
             /\ DatumOf(d).created_unix_ms \in U64
             /\ DatumOf(d).expiry_unix_ms \in U64
             /\ Says(d, [price_microusd |-> DatumOf(d).price_microusd,
                         created_unix_ms |-> DatumOf(d).created_unix_ms,
                         expiry_unix_ms |-> DatumOf(d).expiry_unix_ms])
  <2>1. DatumOf(d) = [price_microusd |-> DatumOf(d).price_microusd,
                      created_unix_ms |-> DatumOf(d).created_unix_ms,
                      expiry_unix_ms |-> DatumOf(d).expiry_unix_ms]
    BY <1>1, <1>3 DEF AggStateData
  <2>. QED
    BY <1>1, <1>3, <2>1 DEF AggStateData
<1>4. CASE /\ IsParsed(d) /\ refusal = "OraclePriceZero"
           /\ DatumOf(d).price_microusd = 0
  BY <1>3, <1>4 DEF IsJustified
<1>5. CASE /\ IsParsed(d) /\ refusal = "OracleStale"
           /\ ~(time < DatumOf(d).expiry_unix_ms)
  <2>1. DatumOf(d).expiry_unix_ms \in 0 .. time
    BY <1>3, <1>5, ConstantsAreTyped DEF U64
  <2>. QED
    BY <1>3, <1>5, <2>1 DEF IsJustified
<1>. QED
  BY <1>2, <1>4, <1>5

(* A refusal has its cause in what was read, a document as the oracle      *)
(* writes it is never malformed, and what passes the checks of             *)
(* normalize_parse_validate has a price and is not expired (charli3.rs).   *)
THEOREM RefusalsAreJustified == Spec => []RefusalIsJustified
<1>1. Inv => RefusalIsJustified
  <2>. SUFFICES ASSUME Inv, NEW e \in document PROVE
           /\ \A refused \in result : refused.result = "Err" =>
                 refused.error \in Charli3ParseErrors /\ IsJustified(refused.error, e, now)
           /\ \A match \in record :
                 LET validated == NormalizeParseValidate(e, match.transaction_id, now)
                 IN  IF validated.result = "Err"
                     THEN IsJustified(validated.error, e, now)
                     ELSE /\ validated.fact.price_microusd > 0
                          /\ now < validated.provenance.expiry_unix
    BY DEF RefusalIsJustified
  <2>1. now \in Nat
    BY ConstantsAreTyped DEF Inv, ChainInv
  <2>2. ASSUME NEW refused \in result, refused.result = "Err"
        PROVE  refused.error \in Charli3ParseErrors /\ IsJustified(refused.error, e, now)
    <3>1. PICK match \in AggStates(outputs) : \E d \in match.datum_hash :
             /\ d \in Seq(Items) /\ e = d
             /\ match.transaction_id \in UtxoRefs
             /\ refused = NormalizeAggStateDatum(d, match.transaction_id)
      BY ResultsAreOfTheirMatch
    <3>2. /\ e \in Seq(Items)
          /\ match.transaction_id \in UtxoRefs
          /\ refused = NormalizeAggStateDatum(e, match.transaction_id)
      BY <3>1
    <3>3. ~IsParsed(e) /\ refused.error \in Charli3ParseErrors
      BY <2>2, <3>2, LiveResults
    <3>. QED
      BY <2>1, <3>2, <3>3, RefusalHasItsReason
  <2>3. ASSUME NEW match \in record
        PROVE  LET validated == NormalizeParseValidate(e, match.transaction_id, now)
               IN  IF validated.result = "Err"
                   THEN IsJustified(validated.error, e, now)
                   ELSE /\ validated.fact.price_microusd > 0
                        /\ now < validated.provenance.expiry_unix
    <3> DEFINE validated == NormalizeParseValidate(e, match.transaction_id, now)
    <3>1. match \in outputs /\ e \in match.datum_hash
      BY DEF Inv, FetchInv, AggStates
    <3>2. e \in Seq(Items)
      BY <3>1 DEF Inv, ChainInv
    <3>3. match.transaction_id \in UtxoRefs
      BY <3>1, OutputsAreNumbered
    <3>4. /\ validated \in NormalizeResults
          /\ validated.result = "Ok" =>
                /\ Takes(validated, e, match.transaction_id)
                /\ validated.fact.price_microusd # 0
                /\ now < validated.provenance.expiry_unix
          /\ validated.result = "Err" =>
                \/ ~IsParsed(e) /\ validated.error \in Charli3ParseErrors
                \/ /\ IsParsed(e) /\ validated.error = "OraclePriceZero"
                   /\ DatumOf(e).price_microusd = 0
                \/ /\ IsParsed(e) /\ validated.error = "OracleStale"
                   /\ ~(now < DatumOf(e).expiry_unix_ms)
      BY <3>2, <3>3, ValidatedResults
    <3>. HIDE DEF validated
    <3>5. ASSUME validated.result = "Err"
          PROVE  IsJustified(validated.error, e, now)
      BY <2>1, <3>2, <3>4, <3>5, RefusalHasItsReason
    <3>6. ASSUME validated.result # "Err"
          PROVE  /\ validated.fact.price_microusd > 0
                 /\ now < validated.provenance.expiry_unix
      <4>1. validated.result = "Ok"
        BY <3>4, <3>6 DEF NormalizeResults, NormalizeRejections
      <4>2. DatumOf(e) \in AggStateData
        BY <3>2, <3>4, <4>1, ParserIsExact DEF Takes
      <4>3. validated.fact.price_microusd \in Nat
        BY <3>4, <4>1, <4>2, ConstantsAreTyped DEF Takes, AggStateData, U64
      <4>. QED
        BY <3>4, <4>1, <4>3
    <3>. QED
      BY <3>5, <3>6 DEF validated
  <2>. QED
    BY <2>2, <2>3
<1>. QED
  BY <1>1, InvIsInductive, PTL

-----------------------------------------------------------------------------
(* Progress: the safety half of FetchEnds                                  *)

(* A fetch begins early enough to use both time limits, and a request that *)
(* was answered has something to go on with.                               *)
RoomInv ==
    /\ phase # "Idle" => began + 2 * Timeout <= MaxNow
    /\ phase = "Datum" => record # {} /\ \A match \in record : match.datum_hash # {}
    /\ phase = "Fetched" => record # {} /\ document # {}
    /\ phase = "Normalized" => result # {}

(* The clock can go on, or the limit is reached; and what was fetched is   *)
(* normalised to something.                                                *)
NoFetchIsStuck ==
    /\ phase \in Waiting => waited = Timeout \/ (waited < Timeout /\ now < MaxNow)
    /\ phase = "Fetched" => record # {} /\ document # {}
    /\ phase = "Normalized" => result # {}

(* How many steps a fetch has left at most, the ticks it waits included.   *)
StepsOfRequest == Timeout + 1

StepsOfFetch ==
    IF phase = "Idle" THEN 2 * StepsOfRequest + 2
    ELSE IF phase = "Matches" THEN 2 * StepsOfRequest + 1 - waited
    ELSE IF phase = "Datum" THEN StepsOfRequest + 1 - waited
    ELSE IF phase = "Fetched" THEN 1
    ELSE 0

(* Whatever changes the fetch uses up one of its steps.                    *)
EveryFetchStepIsProgress == [][UNCHANGED fetch \/ StepsOfFetch' < StepsOfFetch]_vars

LEMMA RoomStep == Inv /\ RoomInv /\ [Next]_vars => RoomInv'
<1>. SUFFICES ASSUME Inv, RoomInv, [Next]_vars PROVE RoomInv'
  OBVIOUS
<1>1. ASSUME UNCHANGED <<phase, began, record, document, result>>
      PROVE  RoomInv'
  BY <1>1 DEF RoomInv
<1>2. CASE StartFetch
  <2>1. now + 2 * Timeout <= MaxNow /\ began' = now /\ phase' = "Matches"
    BY <1>2 DEF StartFetch
  <2>. QED
    BY <2>1 DEF RoomInv
<1>3. CASE AnswerMatches
  <2>1. phase = "Matches" /\ UNCHANGED began
    BY <1>3 DEF AnswerMatches
  <2>2. \/ phase' = "Failed"
        \/ phase' = "Datum" /\ \E match : match.datum_hash # {} /\ record' = {match}
    BY <1>3 DEF AnswerMatches, Fail
  <2>. QED
    BY <2>1, <2>2 DEF RoomInv
<1>4. CASE AnswerDatum
  <2>1. /\ phase = "Datum" /\ phase' = "Fetched" /\ UNCHANGED <<began, record>>
        /\ \E match \in record : document' = match.datum_hash
    BY <1>4 DEF AnswerDatum
  <2>. QED
    BY <2>1 DEF RoomInv
<1>5. CASE RequestFails \/ TimeOut
  <2>1. phase # "Idle" /\ phase' = "Failed" /\ UNCHANGED began
    BY <1>5 DEF RequestFails, TimeOut, Fail, Waiting
  <2>. QED
    BY <2>1 DEF RoomInv
<1>6. CASE Normalize
  <2>1. phase = "Fetched" /\ phase' = "Normalized" /\ UNCHANGED began
    BY <1>6 DEF Normalize
  <2>2. PICK match \in record, d \in document : TRUE
    BY <2>1 DEF RoomInv
  <2>3. NormalizeAggStateDatum(d, match.transaction_id) \in result'
    BY <1>6, <2>2 DEF Normalize
  <2>. QED
    BY <2>1, <2>3 DEF RoomInv
<1>7. CASE \/ Tick \/ Aggregate \/ PullLands \/ Synchronise \/ StartPull \/ PullSubmits
           \/ PullReturns \/ UNCHANGED vars
  BY <1>1, <1>7 DEF Tick, Aggregate, PullLands, AggregateAs, Synchronise, StartPull,
                    PullSubmits,
                    PullReturns, vars, fetch
<1>. QED
  BY <1>2, <1>3, <1>4, <1>5, <1>6, <1>7 DEF Next

LEMMA RoomIsKept == Spec => [](Inv /\ RoomInv)
<1>1. Init => RoomInv
  BY DEF Init, RoomInv
<1>. QED
  BY <1>1, RoomStep, InvIsInductive, PTL DEF Spec

(* A fetch under way never waits for what cannot come: time can pass until *)
(* the limit of the request is reached, and whatever Kupo answered is      *)
(* normalised to a fact or an error (kupo.rs, charli3.rs).                 *)
THEOREM NoFetchIsEverStuck == Spec => []NoFetchIsStuck
<1>1. ASSUME Inv, RoomInv
      PROVE  NoFetchIsStuck
  <2>1. /\ now \in Nat /\ began \in Nat /\ waited \in Nat /\ asked.at \in Nat
        /\ waited <= Timeout /\ Timeout \in Nat /\ MaxNow \in Nat
    BY <1>1, ConstantsAreTyped DEF Inv, ChainInv, FetchInv
  <2>2. ASSUME phase \in Waiting, waited # Timeout
        PROVE  waited < Timeout /\ now < MaxNow
    <3>1. began + 2 * Timeout <= MaxNow
      BY <1>1, <2>2 DEF RoomInv, Waiting
    <3>2. waited < Timeout
      BY <2>1, <2>2
    <3>3. now <= began + Timeout + waited
      BY <1>1, <2>1, <2>2 DEF Inv, TimeInv, Waiting
    <3>. QED
      BY <2>1, <3>1, <3>2, <3>3
  <2>. QED
    BY <1>1, <2>2 DEF NoFetchIsStuck, RoomInv
<1>. QED
  BY <1>1, RoomIsKept, PTL

(* A fetch changes at most 2 * Timeout + 4 times, whatever Kupo, the       *)
(* oracle and the aggregation do meanwhile (kupo.rs).                      *)
THEOREM FetchesTakeFinitelyManySteps ==
    /\ Spec => EveryFetchStepIsProgress
    /\ Spec => [](StepsOfFetch \in 0 .. 2 * Timeout + 4)
<1>1. ASSUME Inv, [Next]_vars
      PROVE  UNCHANGED fetch \/ StepsOfFetch' < StepsOfFetch
  <2>1. waited \in Nat /\ waited <= Timeout /\ Timeout \in Nat
    BY <1>1, ConstantsAreTyped DEF Inv, FetchInv
  <2>. USE DEF StepsOfFetch, StepsOfRequest
  <2>2. CASE Tick
    <3>1. CASE phase \in Waiting
      <4>1. waited' = waited + 1 /\ UNCHANGED phase
        BY <2>2, <3>1 DEF Tick
      <4>. QED
        BY <2>1, <3>1, <4>1 DEF Waiting
    <3>2. CASE phase \notin Waiting
      BY <2>2, <3>2 DEF Tick, fetch
    <3>. QED
      BY <3>1, <3>2
  <2>3. CASE StartFetch
    <3>1. phase = "Idle" /\ phase' = "Matches" /\ waited' = 0
      BY <2>3 DEF StartFetch
    <3>. QED
      BY <2>1, <3>1
  <2>4. CASE AnswerMatches
    <3>1. phase = "Matches" /\ (phase' = "Failed" \/ (phase' = "Datum" /\ waited' = 0))
      BY <2>4, MatchesAnswered
    <3>. QED
      BY <2>1, <3>1
  <2>5. CASE AnswerDatum \/ RequestFails \/ TimeOut
    <3>1. \/ phase = "Datum" /\ phase' = "Fetched"
          \/ phase \in Waiting /\ phase' = "Failed"
      BY <2>5 DEF AnswerDatum, RequestFails, TimeOut, Fail
    <3>. QED
      BY <2>1, <3>1 DEF Waiting
  <2>6. CASE Normalize
    <3>1. phase = "Fetched" /\ phase' = "Normalized"
      BY <2>6 DEF Normalize
    <3>. QED
      BY <3>1
  <2>7. CASE \/ Aggregate \/ PullLands \/ Synchronise \/ StartPull \/ PullSubmits \/ PullReturns
           \/ UNCHANGED vars
    BY <2>7 DEF Aggregate, PullLands, AggregateAs, Synchronise, StartPull, PullSubmits,
                PullReturns, vars
  <2>. QED
    BY <1>1, <2>2, <2>3, <2>4, <2>5, <2>6, <2>7 DEF Next
<1>2. Inv /\ [Next]_vars => [UNCHANGED fetch \/ StepsOfFetch' < StepsOfFetch]_vars
  BY <1>1
<1>3. ASSUME Inv
      PROVE  StepsOfFetch \in 0 .. 2 * Timeout + 4
  <2>1. waited \in Nat /\ waited <= Timeout /\ Timeout \in Nat
    BY <1>3, ConstantsAreTyped DEF Inv, FetchInv
  <2>. QED
    BY <2>1 DEF StepsOfFetch, StepsOfRequest
<1>. QED
  BY <1>2, <1>3, InvIsInductive, PTL DEF Spec, EveryFetchStepIsProgress

=============================================================================
