---------------------------- MODULE LaunchProofs -----------------------------
(* What a launch keeps for every registry, deployment and request that keeps  *)
(* to the assumptions of Launch.                                             *)
EXTENDS Launch, FiniteSetTheorems, SequenceTheorems, WellFoundedInduction, TLAPS

-----------------------------------------------------------------------------
(* Documents *)

(* A path is told by its first key and the rest. *)
LEMMA PathOf ==
  ASSUME NEW S, NEW q \in Seq(S), q # <<>>
  PROVE  /\ Head(q) \in S /\ Tail(q) \in Seq(S) /\ Len(Tail(q)) = Len(q) - 1
         /\ q = <<Head(q)>> \o Tail(q)
<1> DEFINE r == <<Head(q)>> \o Tail(q)
<1>1. /\ Head(q) \in S /\ Tail(q) \in Seq(S) /\ Len(Tail(q)) = Len(q) - 1
      /\ Head(q) = q[1] /\ \A i \in 1 .. Len(Tail(q)) : Tail(q)[i] = q[i + 1]
  BY HeadTailProperties
<1>2. Len(q) \in Nat \ {0} /\ <<Head(q)>> \in Seq(S) /\ Len(<<Head(q)>>) = 1
  BY <1>1, EmptySeq
<1>3. /\ r \in Seq(S) /\ Len(r) = 1 + Len(Tail(q))
      /\ \A i \in 1 .. 1 + Len(Tail(q)) :
           r[i] = IF i <= 1 THEN <<Head(q)>>[i] ELSE Tail(q)[i - 1]
  BY <1>1, <1>2, ConcatProperties
<1> HIDE DEF r
<1>4. ASSUME NEW i \in 1 .. Len(q)
      PROVE  r[i] = q[i]
  <2>1. CASE i = 1
    BY <1>1, <1>2, <1>3, <2>1
  <2>2. CASE i # 1
    <3>1. i - 1 \in 1 .. Len(Tail(q)) /\ (i - 1) + 1 = i
      BY <1>1, <1>2, <2>2
    <3> QED  BY <1>1, <1>2, <1>3, <2>2, <3>1
  <2> QED  BY <2>1, <2>2
<1>5. q = r
  BY <1>1, <1>2, <1>3, <1>4, SeqEqual
<1> QED  BY <1>1, <1>5 DEF r

(* A key put before a path is its head, and the path its tail.               *)
LEMMA PathUnder ==
  ASSUME NEW S, NEW k \in S, NEW p \in Seq(S)
  PROVE  /\ <<k>> \o p \in Seq(S) /\ <<k>> \o p # <<>>
         /\ Head(<<k>> \o p) = k /\ Tail(<<k>> \o p) = p
<1> DEFINE q == <<k>> \o p
<1>1. <<k>> \in Seq(S) /\ Len(<<k>>) = 1 /\ <<k>>[1] = k
  OBVIOUS
<1>2. /\ q \in Seq(S) /\ Len(q) = 1 + Len(p) /\ Len(p) \in Nat
      /\ \A i \in 1 .. 1 + Len(p) : q[i] = IF i <= 1 THEN <<k>>[i] ELSE p[i - 1]
  BY <1>1, ConcatProperties
<1> HIDE DEF q
<1>3. q # <<>> /\ q[1] = k
  <2>1. Len(q) # 0 /\ 1 \in 1 .. 1 + Len(p)
    BY <1>2
  <2> QED  BY <1>1, <1>2, <2>1, EmptySeq
<1>4. /\ Head(q) = k /\ Tail(q) \in Seq(S) /\ Len(Tail(q)) = Len(p)
      /\ \A i \in 1 .. Len(p) : Tail(q)[i] = q[i + 1]
  BY <1>2, <1>3, HeadTailProperties
<1>5. ASSUME NEW i \in 1 .. Len(p)
      PROVE  Tail(q)[i] = p[i]
  <2>1. i + 1 \in 1 .. 1 + Len(p) /\ ~(i + 1 <= 1) /\ (i + 1) - 1 = i
    BY <1>2
  <2> QED  BY <1>2, <1>4, <2>1
<1>6. Tail(q) = p
  BY <1>2, <1>4, <1>5, SeqEqual
<1> QED  BY <1>2, <1>3, <1>4, <1>6 DEF q

(* The part of a document under a key: its paths, and what is at them.       *)
LEMMA UnderIs ==
  ASSUME NEW S, NEW doc, DOMAIN doc \subseteq Seq(S), NEW k \in S
  PROVE  /\ DOMAIN Under(doc, k) \subseteq Seq(S)
         /\ \A p \in Seq(S) :
              /\ p \in DOMAIN Under(doc, k) <=> <<k>> \o p \in DOMAIN doc
              /\ At(Under(doc, k), p) = At(doc, <<k>> \o p)
<1> DEFINE below == {p \in DOMAIN doc : p # <<>> /\ Head(p) = k}
           paths == {Tail(q) : q \in below}
<1>1. Under(doc, k) = [p \in paths |-> doc[<<k>> \o p]]
  BY DEF Under
<1>2. \A q \in below : Tail(q) \in Seq(S) /\ q = <<k>> \o Tail(q)
  BY PathOf
<1>3. \A p \in Seq(S) : p \in paths <=> <<k>> \o p \in DOMAIN doc
  <2>1. ASSUME NEW p \in Seq(S), p \in paths
        PROVE  <<k>> \o p \in DOMAIN doc
    BY <1>2, <2>1
  <2>2. ASSUME NEW p \in Seq(S), <<k>> \o p \in DOMAIN doc
        PROVE  p \in paths
    <3>1. <<k>> \o p \in below /\ Tail(<<k>> \o p) = p
      BY <2>2, PathUnder
    <3> QED  BY <3>1
  <2> QED  BY <2>1, <2>2
<1>4. paths \subseteq Seq(S)
  BY <1>2
<1> HIDE DEF paths
<1> QED  BY <1>1, <1>3, <1>4 DEF At

(* The root of a part, and what is right below it.                           *)
LEMMA UnderHere ==
  ASSUME NEW S, NEW doc, DOMAIN doc \subseteq Seq(S), NEW k \in S
  PROVE  /\ Root(Under(doc, k)) = At(doc, <<k>>)
         /\ \A n \in S :
              /\ <<n>> \in DOMAIN Under(doc, k) <=> <<k, n>> \in DOMAIN doc
              /\ At(Under(doc, k), <<n>>) = At(doc, <<k, n>>)
<1>1. <<>> \in Seq(S) /\ <<k>> \o <<>> = <<k>>
  BY ConcatEmptySeq
<1>2. ASSUME NEW n \in S
      PROVE  <<n>> \in Seq(S) /\ <<k>> \o <<n>> = <<k, n>>
  <2>1. <<k>> \in Seq(S) /\ <<n>> \in Seq(S) /\ <<k, n>> \in Seq(S)
    OBVIOUS
  <2>2. Len(<<k>>) = 1 /\ Len(<<n>>) = 1 /\ Len(<<k, n>>) = 2
    OBVIOUS
  <2> DEFINE r == <<k>> \o <<n>>
  <2>3. /\ r \in Seq(S) /\ Len(r) = 2
        /\ \A i \in 1 .. 2 : r[i] = IF i <= 1 THEN <<k>>[i] ELSE <<n>>[i - 1]
    BY <2>1, <2>2, ConcatProperties
  <2> HIDE DEF r
  <2>4. \A i \in 1 .. 2 : r[i] = <<k, n>>[i]
    BY <2>3
  <2>5. r = <<k, n>>
    BY <2>1, <2>2, <2>3, <2>4, SeqEqual
  <2> QED  BY <2>1, <2>5 DEF r
<1> DEFINE part == Under(doc, k)
<1>3. \A p \in Seq(S) : /\ p \in DOMAIN part <=> <<k>> \o p \in DOMAIN doc
                        /\ At(part, p) = At(doc, <<k>> \o p)
  BY UnderIs
<1> HIDE DEF part
<1>4. ASSUME NEW n \in S
      PROVE  /\ <<n>> \in DOMAIN part <=> <<k, n>> \in DOMAIN doc
             /\ At(part, <<n>>) = At(doc, <<k, n>>)
  <2>1. /\ <<n>> \in DOMAIN part <=> <<k>> \o <<n>> \in DOMAIN doc
        /\ At(part, <<n>>) = At(doc, <<k>> \o <<n>>)
    BY <1>2, <1>3
  <2> QED  BY <1>2, <2>1
<1>5. Root(part) = At(doc, <<k>>)
  BY <1>1, <1>3 DEF Root
<1> QED  BY <1>4, <1>5 DEF part

(* What a merge of two objects has at the paths of one key and of two.       *)
LEMMA MergedAt ==
  ASSUME NEW S, NEW base, NEW over, Root(base).kind = "object", Root(over).kind = "object",
         DOMAIN base \subseteq Seq(S), DOMAIN over \subseteq Seq(S)
  PROVE  /\ Root(deepMerge(base, over)).kind = "object"
         /\ DOMAIN deepMerge(base, over) \subseteq Seq(S)
         /\ \A k \in S :
              At(deepMerge(base, over), <<k>>) =
                IF <<k>> \in DOMAIN over THEN over[<<k>>] ELSE At(base, <<k>>)
         /\ \A k, n \in S :
              \/ <<k>> \notin DOMAIN over
              \/ At(base, <<k>>).kind = "object" /\ At(over, <<k>>).kind = "object"
              \/ <<k, n>> \notin DOMAIN base
              => At(deepMerge(base, over), <<k, n>>) =
                   IF <<k, n>> \in DOMAIN over THEN over[<<k, n>>] ELSE At(base, <<k, n>>)
<1> DEFINE merged(p) == At(base, p).kind = "object" /\ At(over, p).kind = "object"
           replaced(p) == p \in DOMAIN over /\ ~merged(p)
           kept == {p \in DOMAIN base : \A n \in 0 .. Len(p) : ~replaced(SubSeq(p, 1, n))}
           doc == deepMerge(base, over)
<1>1. /\ DOMAIN doc = kept \cup DOMAIN over
      /\ \A p \in DOMAIN doc : doc[p] = IF p \in DOMAIN over THEN over[p] ELSE base[p]
  BY DEF deepMerge, Spread
<1>2. \A p : At(doc, p) = IF p \in DOMAIN over THEN over[p]
                          ELSE IF p \in kept THEN base[p] ELSE Absent
  BY <1>1 DEF At
<1>3. DOMAIN doc \subseteq Seq(S)
  BY <1>1
<1>4. ~replaced(<<>>)
  BY DEF Root
<1>5. ASSUME NEW k \in S, <<k>> \notin DOMAIN over, <<k>> \in DOMAIN base
      PROVE  <<k>> \in kept
  <2>1. ASSUME NEW n \in 0 .. Len(<<k>>)
        PROVE  SubSeq(<<k>>, 1, n) = <<>> \/ SubSeq(<<k>>, 1, n) = <<k>>
    <3>1. <<k>> \in Seq(S) /\ Len(<<k>>) = 1
      OBVIOUS
    <3>2. n = 0 \/ n = Len(<<k>>)
      BY <3>1
    <3>3. CASE n = 0
      BY <3>3, SubSeqEmpty
    <3>4. CASE n = Len(<<k>>)
      BY <3>1, <3>4, SubSeqFull
    <3> QED  BY <3>2, <3>3, <3>4
  <2>2. ~replaced(<<k>>)
    BY <1>5
  <2> HIDE DEF replaced
  <2> QED  BY <1>4, <1>5, <2>1, <2>2
<1>6. ASSUME NEW k \in S, NEW n \in S, <<k, n>> \notin DOMAIN over,
             <<k, n>> \in DOMAIN base, ~replaced(<<k>>)
      PROVE  <<k, n>> \in kept
  <2>1. ASSUME NEW m \in 0 .. Len(<<k, n>>)
        PROVE  SubSeq(<<k, n>>, 1, m) \in {<<>>, <<k>>, <<k, n>>}
    <3>1. <<k, n>> \in Seq(S) /\ Len(<<k, n>>) = 2
      OBVIOUS
    <3>2. m = 0 \/ m = 1 \/ m = Len(<<k, n>>)
      BY <3>1
    <3>3. CASE m = 0
      BY <3>3, SubSeqEmpty
    <3>4. CASE m = 1
      <4>1. SubSeq(<<k, n>>, 1, 1) = <<<<k, n>>[1]>> \o SubSeq(<<k, n>>, 2, 1)
        BY <3>1, SubSeqRecursiveFirst
      <4>2. SubSeq(<<k, n>>, 2, 1) = <<>>
        BY SubSeqEmpty
      <4>3. <<<<k, n>>[1]>> \o <<>> = <<k>>
        <5>1. <<k>> \in Seq(S) /\ <<k, n>>[1] = k
          OBVIOUS
        <5> QED  BY <5>1, ConcatEmptySeq
      <4> QED  BY <3>4, <4>1, <4>2, <4>3
    <3>5. CASE m = Len(<<k, n>>)
      BY <3>1, <3>5, SubSeqFull
    <3> QED  BY <3>2, <3>3, <3>4, <3>5
  <2>2. ~replaced(<<k, n>>)
    BY <1>6
  <2> HIDE DEF replaced
  <2> QED  BY <1>4, <1>6, <2>1, <2>2
<1> HIDE DEF doc, kept
<1>7. Root(doc).kind = "object"
  <2>1. <<>> \in DOMAIN over /\ over[<<>>].kind = "object"
    BY DEF Root, At, Absent
  <2>2. At(doc, <<>>) = over[<<>>]
    BY <1>2, <2>1
  <2> QED  BY <2>1, <2>2 DEF Root
<1>8. kept \subseteq DOMAIN base
  BY DEF kept
<1>9. \A k \in S : At(doc, <<k>>) = IF <<k>> \in DOMAIN over THEN over[<<k>>]
                                         ELSE At(base, <<k>>)
  BY <1>2, <1>5, <1>8 DEF At
<1>10. ASSUME NEW k \in S, NEW n \in S,
              \/ <<k>> \notin DOMAIN over
              \/ At(base, <<k>>).kind = "object" /\ At(over, <<k>>).kind = "object"
              \/ <<k, n>> \notin DOMAIN base
       PROVE  At(doc, <<k, n>>) = IF <<k, n>> \in DOMAIN over THEN over[<<k, n>>]
                                  ELSE At(base, <<k, n>>)
  <2>1. CASE <<k, n>> \in DOMAIN over
    BY <1>2, <2>1
  <2>2. CASE <<k, n>> \notin DOMAIN over /\ <<k, n>> \notin DOMAIN base
    BY <1>2, <1>8, <2>2 DEF At
  <2>3. CASE <<k, n>> \notin DOMAIN over /\ <<k, n>> \in DOMAIN base
    <3>1. ~replaced(<<k>>)
      BY <1>10, <2>3
    <3> HIDE DEF replaced
    <3>2. <<k, n>> \in kept
      BY <1>6, <2>3, <3>1
    <3> QED  BY <1>2, <2>3, <3>2 DEF At
  <2> QED  BY <2>1, <2>2, <2>3
<1> QED  BY <1>3, <1>7, <1>9, <1>10 DEF doc

(* The members of a document are what is at its paths of one key. *)
LEMMA MembersAre ==
  ASSUME NEW S, NEW doc, DOMAIN doc \subseteq Seq(S), NEW k \in S
  PROVE  /\ k \in DOMAIN Members(doc) <=> <<k>> \in DOMAIN doc
         /\ k \in DOMAIN Members(doc) => Members(doc)[k] = doc[<<k>>]
<1> DEFINE single == {q \in DOMAIN doc : Len(q) = 1}
           keys == {Head(q) : q \in single}
<1>1. Members(doc) = [n \in keys |-> doc[<<n>>]]
  BY DEF Members
<1>2. <<k>> \in Seq(S) /\ Len(<<k>>) = 1 /\ Head(<<k>>) = k
  OBVIOUS
<1>3. ASSUME NEW q \in single
      PROVE  q = <<Head(q)>>
  <2>1. q \in Seq(S) /\ Len(q) = 1
    OBVIOUS
  <2>2. Len(<<>>) = 0
    OBVIOUS
  <2>3. q # <<>>
    BY <2>1, <2>2
  <2> QED  BY <2>1, <2>3
<1>4. k \in keys <=> <<k>> \in DOMAIN doc
  <2>1. <<k>> \in DOMAIN doc => <<k>> \in single
    BY <1>2
  <2>2. ASSUME k \in keys PROVE <<k>> \in DOMAIN doc
    <3>1. PICK q \in single : k = Head(q)
      BY <2>2
    <3> QED  BY <1>3, <3>1
  <2> QED  BY <1>2, <2>1, <2>2
<1> HIDE DEF keys
<1> QED  BY <1>1, <1>4

(* Substitution keeps the shape of a document and puts an input where its     *)
(* placeholder was.                                                         *)
LEMMA FilledAt ==
  ASSUME NEW doc, NEW inputs
  PROVE  /\ DOMAIN substitute(doc, inputs) = DOMAIN doc
         /\ Root(doc).kind = "object" => Root(substitute(doc, inputs)).kind = "object"
         /\ \A p \in DOMAIN doc :
              doc[p].kind = "exact" => substitute(doc, inputs)[p] = inputs[doc[p].is]
<1>1. DOMAIN substitute(doc, inputs) = DOMAIN doc
  BY DEF substitute
<1>2. Root(doc).kind = "object" => Root(substitute(doc, inputs)).kind = "object"
  <2> SUFFICES ASSUME Root(doc).kind = "object" PROVE Root(substitute(doc, inputs)).kind = "object"
    OBVIOUS
  <2>1. <<>> \in DOMAIN doc /\ doc[<<>>].kind = "object"
    BY DEF Root, At, Absent
  <2>2. substitute(doc, inputs)[<<>>] = doc[<<>>]
    BY <2>1 DEF substitute
  <2> QED  BY <1>1, <2>1, <2>2 DEF Root, At
<1>3. \A p \in DOMAIN doc :
        doc[p].kind = "exact" => substitute(doc, inputs)[p] = inputs[doc[p].is]
  BY DEF substitute
<1> QED  BY <1>1, <1>2, <1>3

(* The keys of documents.  (The provers do not know of a literal that it is a  *)
(* string, so those the model names are listed.)                             *)
Keys == STRING \cup HintNames \cup FieldNames
          \cup {"policyHints", "contextTemplate", "agentExecution", "participants"}

(* The paths of a document are made of keys. *)
LEMMA KeysAreStrings == Seq(STRING) \subseteq Seq(Keys)
<1>1. STRING \subseteq Keys
  BY DEF Keys
<1> QED  BY <1>1, SeqMonotonic

(* The same of a part, under the keys that are listed. *)
LEMMA KeysUnder ==
  ASSUME NEW doc, DOMAIN doc \subseteq Seq(Keys), NEW k \in Keys
  PROVE  /\ Root(Under(doc, k)) = At(doc, <<k>>)
         /\ \A n \in Keys :
              /\ <<n>> \in DOMAIN Under(doc, k) <=> <<k, n>> \in DOMAIN doc
              /\ At(Under(doc, k), <<n>>) = At(doc, <<k, n>>)
<1>1. Root(Under(doc, k)) = At(doc, <<k>>)
  BY UnderHere DEF At, Root
<1>2. \A n \in Keys : <<n>> \in DOMAIN Under(doc, k) <=> <<k, n>> \in DOMAIN doc
  BY UnderHere
<1>3. \A n \in Keys : At(Under(doc, k), <<n>>) = At(doc, <<k, n>>)
  BY UnderHere DEF At, Root
<1> QED  BY <1>1, <1>2, <1>3

-----------------------------------------------------------------------------
(* References *)

(* A non-empty set of natural numbers has a minimum. *)
LEMMA Minimum ==
  ASSUME NEW T \in SUBSET Nat, T # {}
  PROVE  \E x \in T : \A y \in T : x <= y
<1>1. PICK x \in T : \A y \in T : ~(<<y, x>> \in OpToRel(<, Nat))
  BY WFMin, NatLessThanWellFounded
<1>2. \A y \in T : ~(y < x)
  BY <1>1 DEF OpToRel
<1>3. x \in Nat /\ \A y \in T : y \in Nat
  OBVIOUS
<1> QED  BY <1>2, <1>3

(* A non-empty set of numbers up to k has a maximum. *)
LEMMA Maximum ==
  ASSUME NEW k \in Nat, NEW T \in SUBSET (1 .. k), T # {}
  PROVE  \E x \in T : \A y \in T : y <= x
<1> DEFINE U == {k - y : y \in T}
<1>1. U \in SUBSET Nat /\ U # {}
  <2>1. \A y \in T : y \in 1 .. k
    OBVIOUS
  <2>2. \A y \in T : k - y \in Nat
    BY <2>1
  <2> QED  BY <2>2
<1>2. PICK u \in U : \A v \in U : u <= v
  BY <1>1, Minimum
<1>3. PICK x \in T : u = k - x
  OBVIOUS
<1>4. ASSUME NEW y \in T PROVE y <= x
  <2>1. k - y \in U
    OBVIOUS
  <2>2. k - x <= k - y
    BY <1>2, <1>3, <2>1
  <2> QED  BY <2>2
<1> QED  BY <1>4

(* A reference whose pack has one name starts with it, followed by a slash.   *)
LEMMA ReferenceStarts ==
  ASSUME NEW ref \in Seq(STRING), parseScenarioRef(ref).kind = "ref",
         NEW name, parseScenarioRef(ref).is.pack = <<name>>
  PROVE  ref[1] = name /\ ref[2] = "/" /\ 2 \in DOMAIN ref
<1> DEFINE ats == {i \in DOMAIN ref : ref[i] = "@"}
           at == CHOOSE i \in ats : \A j \in ats : j <= i
           path == SubSeq(ref, 1, at - 1)
           slashes == {i \in DOMAIN path : path[i] = "/"}
           slash == CHOOSE i \in slashes : \A j \in slashes : i <= j
           pack == SubSeq(path, 1, slash - 1)
<1>1. ats # {} /\ slashes # {} /\ pack = <<name>>
  BY DEF parseScenarioRef, Absent
<1>2. Len(ref) \in Nat /\ DOMAIN ref = 1 .. Len(ref)
  OBVIOUS
<1>3. at \in 1 .. Len(ref)
  <2>1. ats \in SUBSET (1 .. Len(ref))
    BY <1>2
  <2> HIDE DEF ats
  <2>2. \E i \in ats : \A j \in ats : j <= i
    BY <1>1, <1>2, <2>1, Maximum
  <2>3. at \in ats
    BY <2>2
  <2> QED  BY <2>1, <2>3
<1> HIDE DEF at
<1>4. /\ path \in Seq(STRING) /\ Len(path) = at - 1 /\ DOMAIN path = 1 .. at - 1
      /\ \A i \in 1 .. at - 1 : path[i] = ref[i]
  <2>1. \A i \in 1 .. at - 1 : ref[i] \in STRING
    BY <1>2, <1>3
  <2>2. /\ path \in Seq(STRING) /\ Len(path) = IF 1 <= at - 1 THEN (at - 1) - 1 + 1 ELSE 0
        /\ \A i \in 1 .. (at - 1) - 1 + 1 : path[i] = ref[1 + i - 1]
    BY <1>2, <1>3, <2>1, SubSeqProperties
  <2> HIDE DEF path
  <2>3. Len(path) = at - 1
    BY <1>3, <2>2
  <2>4. \A i \in 1 .. at - 1 : path[i] = ref[i]
    BY <1>2, <1>3, <2>2
  <2> QED  BY <2>2, <2>3, <2>4
<1> HIDE DEF path
<1>5. slash \in 1 .. at - 1 /\ path[slash] = "/"
  <2>1. slashes \in SUBSET Nat
    BY <1>4
  <2>2. slashes \subseteq 1 .. at - 1 /\ \A i \in slashes : path[i] = "/"
    BY <1>4
  <2> HIDE DEF slashes
  <2>3. \E i \in slashes : \A j \in slashes : i <= j
    BY <1>1, <2>1, Minimum
  <2>4. slash \in slashes
    BY <2>3
  <2> QED  BY <2>2, <2>4
<1> HIDE DEF slash
<1>6. /\ Len(pack) = slash - 1 /\ \A i \in 1 .. slash - 1 : pack[i] = path[i]
  <2>1. \A i \in 1 .. slash - 1 : path[i] \in STRING
    BY <1>3, <1>4, <1>5
  <2>2. /\ Len(pack) = IF 1 <= slash - 1 THEN (slash - 1) - 1 + 1 ELSE 0
        /\ \A i \in 1 .. (slash - 1) - 1 + 1 : pack[i] = path[1 + i - 1]
    BY <1>3, <1>5, <2>1, SubSeqProperties
  <2> HIDE DEF pack
  <2>3. Len(pack) = slash - 1
    BY <1>3, <1>5, <2>2
  <2>4. \A i \in 1 .. slash - 1 : pack[i] = path[i]
    BY <1>3, <1>5, <2>2
  <2> QED  BY <2>3, <2>4
<1> HIDE DEF pack
<1>7. slash = 2 /\ pack[1] = name
  <2>1. Len(<<name>>) = 1 /\ <<name>>[1] = name
    OBVIOUS
  <2> QED  BY <1>1, <1>3, <1>5, <1>6, <2>1
<1>8. 2 \in 1 .. at - 1 /\ 1 \in 1 .. at - 1 /\ 1 \in 1 .. slash - 1
  BY <1>3, <1>5, <1>7
<1> QED  BY <1>2, <1>3, <1>4, <1>5, <1>6, <1>7, <1>8

-----------------------------------------------------------------------------
(* The invariant: what a launch is made of does not change while it is made.  *)

Parts == parseScenarioRef(request.scenarioRef).is
Inputs == MergedInputs(Scenario, Template, request)
Merged == mergeLaunch(Scenario.launch, Template)

(* What compile returned, with what ExampleRunService adds. *)
Enriched == [Result.launch EXCEPT
               !.agentExecution = applyAgentExecution(Result.launch),
               !.metadata.agentExecution = Text(applyAgentExecution(Result.launch))]

(* An agent, as Attach leaves it. *)
Attached(p) ==
  LET definition == Definition(p)
      env == launchEnv(operator.env, definition, Bootstrap(p),
                       compiled.agentExecution = "deterministic")
  IN IF validate(definition.manifest)
       THEN [started |-> TRUE, framework |-> definition.framework, bootstrap |-> Bootstrap(p),
             env |-> spawnEnv(env, <<"bootstrap file of", p>>)]
       ELSE [started |-> FALSE]

Opined(p) == Analysis(agents[p].framework, Installed(p), agents[p].env,
                      agents[p].bootstrap.scenario_ref, Context(p), LlmReplies)

IInv ==
  /\ operator \in Operators /\ request \in Requests
  /\ stage = "launching" => /\ Result.error = "" /\ Resolved(Result.launch)
                           /\ compiled = Enriched
  /\ stage # "launching" => DOMAIN agents = {}
  /\ DOMAIN agents # {} => DOMAIN agents \subseteq Participants
  /\ \A p \in DOMAIN agents : agents[p] = Attached(p)
  /\ DOMAIN opinions \subseteq Specialists
  /\ \A p \in DOMAIN opinions : opinions[p] \in Opined(p)

(* A new run has no agents. *)
LEMMA InitIInv == Init => IInv
  BY DEF Init, IInv

(* Compiling is the only step that touches what the agents are made of, and   *)
(* comes before them; an attach adds one agent, an analysis one opinion.     *)
LEMMA IInvStep == IInv /\ [Next]_vars => IInv'
<1> SUFFICES ASSUME IInv, [Next]_vars PROVE IInv'
  OBVIOUS
<1>1. CASE Refuse
  <2>1. /\ stage' = "refused" /\ stage = "requested"
        /\ UNCHANGED <<operator, request, compiled, agents, opinions>>
    BY <1>1 DEF Refuse
  <2>2. DOMAIN agents = {} /\ DOMAIN opinions = {}
    BY <2>1 DEF IInv, Specialists, Started
  <2> QED  BY <2>1, <2>2 DEF IInv
<1>2. CASE Compile
  <2>1. /\ stage' = "launching" /\ stage = "requested"
        /\ UNCHANGED <<operator, request, agents, opinions>>
        /\ Result.error = "" /\ Resolved(Result.launch) /\ compiled' = Enriched
    BY <1>2 DEF Compile, Enriched
  <2>2. DOMAIN agents = {} /\ DOMAIN opinions = {}
    BY <2>1 DEF IInv, Specialists, Started
  <2>3. /\ Result' = Result /\ Resolved(Result.launch)' = Resolved(Result.launch)
        /\ Enriched' = Enriched
    BY <2>1 DEF Result, Resolved, Enriched, applyAgentExecution
  <2> QED  BY <2>1, <2>2, <2>3 DEF IInv
<1>3. ASSUME NEW p \in Waiting, Attach(p)
      PROVE  IInv'
  <2>1. /\ stage = "launching" /\ UNCHANGED <<operator, request, stage, compiled, opinions>>
        /\ agents' = Over([q \in {p} |-> Attached(p)], agents)
    BY <1>3 DEF Attach, Attached
  <2>2. p \in Participants /\ p \notin DOMAIN agents
    BY DEF Waiting
  <2>3. /\ DOMAIN agents' = DOMAIN agents \cup {p}
        /\ agents'[p] = Attached(p) /\ \A q \in DOMAIN agents : agents'[q] = agents[q]
    BY <2>1, <2>2 DEF Over
  <2>4. /\ Result' = Result /\ Resolved(Result.launch)' = Resolved(Result.launch)
        /\ Enriched' = Enriched /\ Participants' = Participants
    BY <2>1 DEF Result, Resolved, Enriched, applyAgentExecution, Participants
  <2>5. \A q : Attached(q)' = Attached(q)
    BY <2>1 DEF Attached, Definition, Bootstrap
  <2>6. \A q \in DOMAIN agents : q \in Specialists => q \in Specialists'
    BY <2>3 DEF Specialists, Started
  <2>7. \A q \in DOMAIN agents : Opined(q)' = Opined(q)
    BY <2>1, <2>3 DEF Opined, Installed, Context
  <2>8. Specialists \subseteq DOMAIN agents
    BY DEF Specialists, Started
  <2>9. DOMAIN agents' \subseteq Participants'
    BY <2>2, <2>3, <2>4 DEF IInv
  <2>10. \A q \in DOMAIN agents' : agents'[q] = Attached(q)'
    BY <2>3, <2>5 DEF IInv
  <2>11. /\ DOMAIN opinions' \subseteq Specialists'
         /\ \A q \in DOMAIN opinions' : opinions'[q] \in Opined(q)'
    BY <2>1, <2>6, <2>7, <2>8 DEF IInv
  <2>12. /\ operator' \in Operators /\ request' \in Requests /\ stage' = "launching"
         /\ Result'.error = "" /\ Resolved(Result.launch)' /\ compiled' = Enriched'
    BY <2>1, <2>4 DEF IInv
  <2> QED  BY <2>9, <2>10, <2>11, <2>12 DEF IInv
<1>4. ASSUME NEW p \in Started, Analyse(p)
      PROVE  IInv'
  <2>1. /\ p \in Specialists \ DOMAIN opinions
        /\ UNCHANGED <<operator, request, stage, compiled, agents>>
    BY <1>4 DEF Analyse
  <2>2. PICK o \in Opined(p) : opinions' = Over([q \in {p} |-> o], opinions)
    BY <1>4 DEF Analyse, Opined
  <2>3. /\ DOMAIN opinions' = DOMAIN opinions \cup {p}
        /\ opinions'[p] = o /\ \A q \in DOMAIN opinions : opinions'[q] = opinions[q]
    BY <2>1, <2>2 DEF Over
  <2>4. /\ Result' = Result /\ Resolved(Result.launch)' = Resolved(Result.launch)
        /\ Enriched' = Enriched /\ Participants' = Participants /\ Specialists' = Specialists
        /\ \A q : Attached(q)' = Attached(q)
        /\ \A q : Opined(q)' = Opined(q)
    BY <2>1 DEF Result, Resolved, Enriched, applyAgentExecution, Participants, Specialists,
                Started, Attached, Definition, Bootstrap, Opined, Installed, Context
  <2> QED  BY <2>1, <2>2, <2>3, <2>4 DEF IInv
<1>5. CASE UNCHANGED vars
  <2>1. UNCHANGED <<operator, request, stage, compiled, agents, opinions>>
    BY <1>5 DEF vars
  <2>2. /\ Result' = Result /\ Resolved(Result.launch)' = Resolved(Result.launch)
        /\ Enriched' = Enriched /\ Participants' = Participants /\ Specialists' = Specialists
        /\ \A q : Attached(q)' = Attached(q)
        /\ \A q : Opined(q)' = Opined(q)
    BY <2>1 DEF Result, Resolved, Enriched, applyAgentExecution, Participants, Specialists,
                Started, Attached, Definition, Bootstrap, Opined, Installed, Context
  <2> QED  BY <2>1, <2>2 DEF IInv
<1> QED  BY <1>1, <1>2, <1>3, <1>4, <1>5 DEF Next

(* A launch keeps its invariant, for every registry, deployment and request.  *)
THEOREM Invariance == Spec => []IInv
  BY InitIInv, IInvStep, PTL DEF Spec

-----------------------------------------------------------------------------
(* The launch of an accepted request *)

(* What was accepted names a scenario, and a template of it or none, and its  *)
(* inputs are valid.                                                        *)
LEMMA Accepted ==
  ASSUME IInv, stage = "launching"
  PROVE  /\ parseScenarioRef(request.scenarioRef).kind = "ref" /\ Parts \in DOMAIN Registry
         /\ request.templateId = "" \/ request.templateId \in DOMAIN Scenario.templates
         /\ validateInputs(Scenario.schema, Inputs)
         /\ Result.launch = Compiled(request, Parts, Merged, Inputs)
<1> DEFINE parsed == parseScenarioRef(request.scenarioRef)
           broken == \/ \E key \in {"contextTemplate", "metadataTemplate", "kickoffTemplate"} :
                           ~Resolves(Under(Merged, key), Inputs)
                     \/ describeExtensionsProblem(Under(Merged, "extensions"))
                     \/ ~KnownExecution(At(Merged, <<"agentExecution">>))
<1>1. Result.error = ""
  BY DEF IInv
<1>2. parsed.kind \in {"absent", "ref"}
  BY DEF parseScenarioRef, Absent
<1>3. Result =
        CASE parsed.kind = "absent" -> Refuses("INVALID_SCENARIO_REF")
          [] parsed.kind = "ref" /\ Parts \notin DOMAIN Registry -> Refuses("NOT_FOUND")
          [] parsed.kind = "ref" /\ Parts \in DOMAIN Registry ->
               IF request.templateId \notin DOMAIN Scenario.templates \cup {""}
                 THEN Refuses("TEMPLATE_NOT_FOUND")
               ELSE IF ~validateInputs(Scenario.schema, Inputs) THEN Refuses("VALIDATION_ERROR")
               ELSE IF broken THEN Refuses("COMPILATION_ERROR")
               ELSE [error |-> "", launch |-> Compiled(request, Parts, Merged, Inputs)]
  BY DEF Result, compile, Parts, Inputs, Merged, Scenario, Template
<1> HIDE DEF parsed, broken
<1>4. \A code : Refuses(code).error = code
  BY DEF Refuses
<1>5. parsed.kind = "ref" /\ Parts \in DOMAIN Registry
  BY <1>1, <1>2, <1>3, <1>4
<1> QED  BY <1>1, <1>3, <1>4, <1>5 DEF parsed

(* What the launch keeps of what was compiled. *)
LEMMA CompiledIs ==
  ASSUME IInv, stage = "launching"
  PROVE  /\ compiled.scenarioRef = request.scenarioRef
         /\ compiled.participants = OfParticipants(Merged, "id")
         /\ compiled.agentRefs = OfParticipants(Merged, "agentRef")
         /\ compiled.policyHints = Under(Merged, "policyHints")
         /\ compiled.sessionContext = substitute(Under(Merged, "contextTemplate"), Inputs)
         /\ Result.launch.agentExecution = At(Merged, <<"agentExecution">>)
         /\ Result.launch.agentRefs = compiled.agentRefs
         /\ compiled.agentExecution = applyAgentExecution(Result.launch)
         /\ compiled.metadata.agentExecution = Text(applyAgentExecution(Result.launch))
<1> DEFINE how == applyAgentExecution(Result.launch)
<1>1. compiled = [Result.launch EXCEPT !.agentExecution = how,
                                       !.metadata.agentExecution = Text(how)]
  BY DEF IInv, Enriched
<1>2. Result.launch = Compiled(request, Parts, Merged, Inputs)
  BY Accepted
<1> HIDE DEF how
<1>3. \A base, over : DOMAIN base \subseteq DOMAIN Spread(base, over)
  BY DEF Spread
<1>4. "agentExecution" \in DOMAIN [agentExecution |-> Absent]
  OBVIOUS
<1>5. "agentExecution" \in DOMAIN Result.launch.metadata
  BY <1>2, <1>3, <1>4 DEF Compiled
<1>6. /\ Result.launch.scenarioRef = request.scenarioRef
      /\ Result.launch.participants = OfParticipants(Merged, "id")
      /\ Result.launch.agentRefs = OfParticipants(Merged, "agentRef")
      /\ Result.launch.policyHints = Under(Merged, "policyHints")
      /\ Result.launch.sessionContext = substitute(Under(Merged, "contextTemplate"), Inputs)
      /\ Result.launch.agentExecution = At(Merged, <<"agentExecution">>)
      /\ DOMAIN Result.launch = {"scenarioRef", "packSlug", "participants", "agentRefs",
                                 "initiatorParticipantId", "policyHints", "sessionContext",
                                 "agentExecution", "metadata"}
  BY <1>2 DEF Compiled
<1>7. compiled.metadata.agentExecution = Text(how)
  BY <1>1, <1>5, <1>6
<1>8. /\ compiled.agentExecution = how
      /\ \A k \in DOMAIN Result.launch \ {"agentExecution", "metadata"} :
           compiled[k] = Result.launch[k]
  BY <1>1, <1>6
<1> QED  BY <1>6, <1>7, <1>8 DEF how

(* The pack of the request is one the agents know, and they recognise it.     *)
LEMMA PackKnown ==
  ASSUME IInv, stage = "launching"
  PROVE  /\ Pack \in Domains /\ ScenarioOf(Pack, Scenario)
         /\ detect_domain(request.scenarioRef) = Pack
<1>1. parseScenarioRef(request.scenarioRef).kind = "ref" /\ Parts \in DOMAIN Registry
  BY Accepted
<1>2. PICK pack \in Domains : Parts.pack = <<pack>> /\ ScenarioOf(pack, Registry[Parts])
  BY <1>1, RegistryAssumption
<1>3. Pack = pack
  BY <1>2 DEF Pack, Parts
<1>4. ScenarioOf(Pack, Scenario)
  BY <1>2, <1>3 DEF Scenario, Parts
<1>5. request.scenarioRef \in Seq(STRING)
  BY RequestAssumption DEF IInv
<1> DEFINE ref == request.scenarioRef
<1>6. ref[1] = Pack /\ ref[2] = "/" /\ 2 \in DOMAIN ref
  BY <1>1, <1>2, <1>3, <1>5, ReferenceStarts DEF Parts
<1> HIDE DEF ref
<1>7. detect_domain(ref) = Pack
  BY <1>2, <1>3, <1>6 DEF detect_domain
<1> QED  BY <1>2, <1>3, <1>4, <1>7 DEF ref

(* The template's own part of the launch, if it has one. *)
LEMMA OwnLaunch ==
  ASSUME IInv, stage = "launching"
  PROVE  IF Given(Root(Template.launch))
           THEN /\ LaunchDocument(Pack, Template.launch)
                /\ \A f \in FieldsOf(Pack) :
                     <<"contextTemplate", f>> \notin DOMAIN Template.launch
           ELSE DOMAIN Template.launch \subseteq {<<>>}
<1>1. CASE request.templateId = ""
  <2>1. Template.launch = NoDocument
    BY <1>1 DEF Template, NoTemplate
  <2>2. DOMAIN NoDocument = {}
    BY DEF NoDocument
  <2>3. ~Given(Root(NoDocument))
    BY <2>2 DEF Root, At, Given, Absent
  <2> QED  BY <2>1, <2>2, <2>3
<1>2. CASE request.templateId # ""
  <2>1. request.templateId \in DOMAIN Scenario.templates
    BY <1>2, Accepted
  <2>2. Template = Scenario.templates[request.templateId]
    BY <1>2 DEF Template
  <2>3. ScenarioOf(Pack, Scenario)
    BY PackKnown
  <2> QED  BY <2>1, <2>2, <2>3 DEF ScenarioOf
<1> QED  BY <1>1, <1>2

(* A section of a launch document that has members is an object.             *)
LEMMA SectionIsObject ==
  ASSUME NEW pack, NEW doc, LaunchDocument(pack, doc),
         NEW k \in {"policyHints", "contextTemplate"}
  PROVE  /\ <<k>> \in DOMAIN doc => At(doc, <<k>>).kind = "object"
         /\ \A n \in Keys : <<k, n>> \in DOMAIN doc => <<k>> \in DOMAIN doc
<1>1. <<k>> \in DOMAIN doc => At(doc, <<k>>).kind = "object"
  BY DEF LaunchDocument, At
<1>2. ASSUME NEW n \in Keys, <<k, n>> \in DOMAIN doc
      PROVE  <<k>> \in DOMAIN doc
  <2> DEFINE p == <<k, n>>
  <2>1. p \in Seq(Keys) /\ Len(p) = 2
    <3>1. k \in Keys
      BY DEF Keys
    <3> QED  BY <3>1
  <2>2. SubSeq(p, 1, 1) \in DOMAIN doc
    <3>1. \A m \in 0 .. Len(p) : SubSeq(p, 1, m) \in DOMAIN doc
      BY <1>2 DEF LaunchDocument
    <3> HIDE DEF p
    <3> QED  BY <2>1, <3>1
  <2>3. SubSeq(p, 1, 1) = <<p[1]>>
    <3> HIDE DEF p
    <3>1. SubSeq(p, 1, 1) = <<p[1]>> \o SubSeq(p, 2, 1)
      BY <2>1, SubSeqRecursiveFirst
    <3>2. SubSeq(p, 2, 1) = <<>>
      BY SubSeqEmpty
    <3>3. <<p[1]>> \in Seq(Keys)
      BY <2>1
    <3> QED  BY <3>1, <3>2, <3>3, ConcatEmptySeq
  <2>4. p[1] = k
    OBVIOUS
  <2> QED  BY <2>2, <2>3, <2>4
<1> QED  BY <1>1, <1>2

(* The launch of a run: the template's where it says something, else the      *)
(* scenario's, key by key also within its sections.                          *)
LEMMA MergedIs ==
  ASSUME IInv, stage = "launching"
  PROVE  /\ DOMAIN Merged \subseteq Seq(Keys)
         /\ \A k \in Keys :
              At(Merged, <<k>>) = IF <<k>> \in DOMAIN Template.launch
                                    THEN Template.launch[<<k>>] ELSE At(Scenario.launch, <<k>>)
         /\ \A k \in {"policyHints", "contextTemplate"}, n \in Keys :
              At(Merged, <<k, n>>) =
                IF <<k, n>> \in DOMAIN Template.launch
                  THEN Template.launch[<<k, n>>] ELSE At(Scenario.launch, <<k, n>>)
<1> DEFINE base == Scenario.launch
           own == Template.launch
<1>1. LaunchDocument(Pack, base)
  BY PackKnown DEF ScenarioOf
<1>2. DOMAIN base \subseteq Seq(Keys) /\ Root(base).kind = "object"
  BY <1>1, KeysAreStrings DEF LaunchDocument
<1>3. Merged = IF ~Given(Root(own)) THEN base ELSE deepMerge(base, own)
  BY DEF Merged, mergeLaunch
<1>4. CASE ~Given(Root(own))
  <2>1. DOMAIN own \subseteq {<<>>} /\ Merged = base
    BY <1>3, <1>4, OwnLaunch
  <2>2. \A k, n : <<k>> # <<>> /\ <<k, n>> # <<>>
    OBVIOUS
  <2> QED  BY <1>2, <2>1, <2>2
<1>5. CASE Given(Root(own))
  <2>1. LaunchDocument(Pack, own) /\ Merged = deepMerge(base, own)
    BY <1>3, <1>5, OwnLaunch
  <2>2. DOMAIN own \subseteq Seq(Keys) /\ Root(own).kind = "object"
    BY <2>1, KeysAreStrings DEF LaunchDocument
  <2> HIDE DEF base, own
  <2> DEFINE both == deepMerge(base, own)
  <2>3. /\ DOMAIN both \subseteq Seq(Keys)
        /\ \A k \in Keys :
             At(both, <<k>>) = IF <<k>> \in DOMAIN own THEN own[<<k>>] ELSE At(base, <<k>>)
    BY SMTT(20), <1>2, <2>2, MergedAt
  <2>4. \A k, n \in Keys :
          \/ <<k>> \notin DOMAIN own
          \/ At(base, <<k>>).kind = "object" /\ At(own, <<k>>).kind = "object"
          \/ <<k, n>> \notin DOMAIN base
          => At(both, <<k, n>>) = IF <<k, n>> \in DOMAIN own
                                    THEN own[<<k, n>>] ELSE At(base, <<k, n>>)
    BY SMTT(20), <1>2, <2>2, MergedAt
  <2>5. Merged = both
    BY <2>1
  <2> HIDE DEF both
  <2>6. ASSUME NEW k \in {"policyHints", "contextTemplate"}, NEW n \in Keys
        PROVE  At(Merged, <<k, n>>) = IF <<k, n>> \in DOMAIN own
                                        THEN own[<<k, n>>] ELSE At(base, <<k, n>>)
    <3>1. \/ <<k>> \notin DOMAIN own
          \/ At(base, <<k>>).kind = "object" /\ At(own, <<k>>).kind = "object"
          \/ <<k, n>> \notin DOMAIN base
      BY <1>1, <2>1, SectionIsObject
    <3>2. k \in Keys
      BY DEF Keys
    <3> QED  BY <2>4, <2>5, <3>1, <3>2
  <2> QED  BY <2>3, <2>5, <2>6 DEF base, own
<1> QED  BY <1>4, <1>5

(* An agent that was started, as it was prepared. *)
LEMMA StartedAgent ==
  ASSUME IInv, NEW p \in Started
  PROVE  /\ stage = "launching" /\ p \in Participants
         /\ agents[p].bootstrap = Bootstrap(p)
         /\ agents[p].framework = Definition(p).framework
         /\ agents[p].framework \in HostAdapters
         /\ agents[p].env =
              spawnEnv(launchEnv(operator.env, Definition(p), Bootstrap(p),
                                 compiled.agentExecution = "deterministic"),
                       <<"bootstrap file of", p>>)
<1>1. p \in DOMAIN agents /\ agents[p].started
  BY DEF Started
<1>2. stage = "launching" /\ p \in Participants /\ agents[p] = Attached(p)
  BY <1>1 DEF IInv
<1> DEFINE ready == validate(Definition(p).manifest)
           env == spawnEnv(launchEnv(operator.env, Definition(p), Bootstrap(p),
                                     compiled.agentExecution = "deterministic"),
                           <<"bootstrap file of", p>>)
           agent == [started |-> TRUE, framework |-> Definition(p).framework,
                     bootstrap |-> Bootstrap(p), env |-> env]
<1>3. Attached(p) = IF ready THEN agent ELSE [started |-> FALSE]
  BY DEF Attached
<1>4. agents[p] = agent
  <2> HIDE DEF ready, agent
  <2>1. ~[started |-> FALSE].started
    OBVIOUS
  <2> QED  BY <1>1, <1>2, <1>3, <2>1
<1>5. Definition(p).framework \in HostAdapters
  <2> DEFINE i == CHOOSE i \in DOMAIN compiled.participants : compiled.participants[i] = p
  <2>1. i \in DOMAIN compiled.participants
    BY <1>2 DEF Participants
  <2>2. DOMAIN compiled.participants = DOMAIN compiled.agentRefs
    BY <1>2, CompiledIs DEF OfParticipants
  <2>3. compiled.agentRefs[i] \in DOMAIN operator.agents
    BY <1>2, <2>1, <2>2, CompiledIs DEF IInv, Resolved
  <2>4. Definition(p) = operator.agents[compiled.agentRefs[i]]
    BY DEF Definition
  <2> HIDE DEF i
  <2> QED  BY <2>3, <2>4, OperatorAssumption DEF IInv
<1> HIDE DEF env
<1>6. /\ agents[p].bootstrap = Bootstrap(p) /\ agents[p].framework = Definition(p).framework
      /\ agents[p].env = env
  BY <1>4
<1> QED  BY <1>2, <1>5, <1>6 DEF env

(* The bootstrap of an agent carries the reference, the hints and the context *)
(* of the launch.                                                           *)
LEMMA BootstrapIs ==
  ASSUME IInv, NEW p \in Started
  PROVE  /\ agents[p].bootstrap.scenario_ref = request.scenarioRef
         /\ agents[p].bootstrap.policy_hints = Under(Merged, "policyHints")
         /\ agents[p].bootstrap.session_context =
              substitute(Under(Merged, "contextTemplate"), Inputs)
<1>1. stage = "launching" /\ agents[p].bootstrap = Bootstrap(p)
  BY StartedAgent
<1>2. /\ Bootstrap(p).scenario_ref = compiled.scenarioRef
      /\ Bootstrap(p).policy_hints = compiled.policyHints
      /\ Bootstrap(p).session_context = compiled.sessionContext
  BY DEF Bootstrap, buildBootstrapPayload
<1> QED  BY <1>1, <1>2, CompiledIs

-----------------------------------------------------------------------------
(* The hints of the launch are the template's, one by one, else the           *)
(* scenario's.                                                              *)
LEMMA MergedHints ==
  ASSUME IInv, stage = "launching", NEW name \in HintNames
  PROVE  At(Under(Merged, "policyHints"), <<name>>) =
           IF <<"policyHints", name>> \in DOMAIN Template.launch
             THEN Template.launch[<<"policyHints", name>>]
             ELSE At(Scenario.launch, <<"policyHints", name>>)
<1>1. "policyHints" \in Keys /\ name \in Keys
  BY DEF Keys
<1>2. DOMAIN Merged \subseteq Seq(Keys)
  BY MergedIs
<1>3. \A n \in Keys :
        /\ <<n>> \in DOMAIN Under(Merged, "policyHints") <=> <<"policyHints", n>> \in DOMAIN Merged
        /\ At(Under(Merged, "policyHints"), <<n>>) = At(Merged, <<"policyHints", n>>)
  BY <1>1, <1>2, KeysUnder
<1> QED  BY <1>1, <1>3, MergedIs

(* Every agent of every accepted run gets the template's hints, and the        *)
(* scenario's where the template is silent.                                  *)
THEOREM HintsMerge == Spec => []HintsMergeOneByOne
<1>1. ASSUME IInv PROVE HintsMergeOneByOne
  <2> SUFFICES ASSUME NEW p \in Started, NEW name \in HintNames
               PROVE  At(agents[p].bootstrap.policy_hints, <<name>>) =
                        IF <<name>> \in DOMAIN Under(Template.launch, "policyHints")
                          THEN Under(Template.launch, "policyHints")[<<name>>]
                          ELSE At(Under(Scenario.launch, "policyHints"), <<name>>)
    BY DEF HintsMergeOneByOne
  <2> DEFINE own == Template.launch
             base == Scenario.launch
  <2>1. stage = "launching" /\ agents[p].bootstrap.policy_hints = Under(Merged, "policyHints")
    BY <1>1, StartedAgent, BootstrapIs
  <2>2. At(Under(Merged, "policyHints"), <<name>>) =
          IF <<"policyHints", name>> \in DOMAIN own
            THEN own[<<"policyHints", name>>] ELSE At(base, <<"policyHints", name>>)
    BY <1>1, <2>1, MergedHints
  <2>3. DOMAIN base \subseteq Seq(Keys)
    BY <1>1, <2>1, PackKnown, KeysAreStrings DEF ScenarioOf, LaunchDocument
  <2>4. DOMAIN own \subseteq Seq(Keys)
    <3>1. CASE Given(Root(own))
      BY <1>1, <2>1, <3>1, OwnLaunch, KeysAreStrings DEF LaunchDocument
    <3>2. CASE ~Given(Root(own))
      <4>1. DOMAIN own \subseteq {<<>>}
        BY <1>1, <2>1, <3>2, OwnLaunch
      <4> QED  BY <4>1, EmptySeq
    <3> QED  BY <3>1, <3>2
  <2>5. "policyHints" \in Keys /\ name \in Keys
    BY DEF Keys
  <2> HIDE DEF own, base
  <2>6. \A n \in Keys :
          /\ <<n>> \in DOMAIN Under(base, "policyHints") <=> <<"policyHints", n>> \in DOMAIN base
          /\ At(Under(base, "policyHints"), <<n>>) = At(base, <<"policyHints", n>>)
    BY <2>3, <2>5, KeysUnder
  <2>7. \A n \in Keys :
          /\ <<n>> \in DOMAIN Under(own, "policyHints") <=> <<"policyHints", n>> \in DOMAIN own
          /\ At(Under(own, "policyHints"), <<n>>) = At(own, <<"policyHints", n>>)
    BY <2>4, <2>5, KeysUnder
  <2>8. <<name>> \in DOMAIN Under(own, "policyHints") =>
          Under(own, "policyHints")[<<name>>] = own[<<"policyHints", name>>]
    BY <2>5, <2>7 DEF At
  <2> QED  BY <2>1, <2>2, <2>5, <2>6, <2>7, <2>8 DEF own, base
<1> QED  BY <1>1, Invariance, PTL

-----------------------------------------------------------------------------
(* The inputs *)

(* A field of a domain is one of the listed fields. *)
LEMMA FieldsAreListed ==
  ASSUME NEW domain \in Domains, NEW f \in FieldsOf(domain)
  PROVE  f \in FieldNames /\ f \in Keys
<1>1. f \in FieldNames
  BY DEF Domains, FieldsOf, FieldNames
<1> QED  BY <1>1 DEF Keys

(* Every field of the pack has a value of its kind among the inputs of an     *)
(* accepted run, the one the request, the template or the schema gives.      *)
LEMMA InputsAre ==
  ASSUME IInv, stage = "launching", NEW f \in FieldsOf(Pack)
  PROVE  /\ f \in DOMAIN Inputs /\ Inputs[f].kind # "null"
         /\ Inputs[f].is = InputOf(f) /\ InputOf(f) \in ValuesOf(f)
<1> DEFINE property == Scenario.schema.properties[f]
           defaults == extractSchemaDefaults(Scenario.schema)
           said == request.inputs
           preset == Template.defaults
<1>1. /\ f \in Scenario.schema.required \cap DOMAIN Scenario.schema.properties
      /\ property.type \in KindsOf(f)
      /\ f = "incidentSeverity" => property.values # {} /\ property.values \subseteq ValuesOf(f)
      /\ Coherent(property.default)
  BY PackKnown DEF ScenarioOf
<1>2. f \in DOMAIN Inputs /\ Accepts(property, Inputs[f])
  BY <1>1, Accepted DEF validateInputs
<1>3. /\ DOMAIN Inputs = (DOMAIN defaults \cup DOMAIN preset) \cup DOMAIN said
      /\ \A n \in DOMAIN Inputs :
           Inputs[n] = IF n \in DOMAIN said THEN said[n]
                       ELSE IF n \in DOMAIN preset THEN preset[n] ELSE defaults[n]
  BY DEF Inputs, MergedInputs, mergeDefaults, Spread
<1>4. \A n \in DOMAIN defaults : defaults[n] = Scenario.schema.properties[n].default
  BY DEF extractSchemaDefaults
<1>5. Inputs[f] = IF f \in DOMAIN said THEN said[f]
                  ELSE IF f \in DOMAIN preset THEN preset[f] ELSE property.default
  BY <1>2, <1>3, <1>4
<1>6. \A n \in DOMAIN said : Coherent(said[n])
  BY RequestAssumption DEF IInv
<1>7. \A n \in DOMAIN preset : Coherent(preset[n])
  <2>1. CASE request.templateId = ""
    BY <2>1 DEF Template, NoTemplate
  <2>2. CASE request.templateId # ""
    <3>1. request.templateId \in DOMAIN Scenario.templates
      BY <2>2, Accepted
    <3>2. Template = Scenario.templates[request.templateId]
      BY <2>2 DEF Template
    <3> QED  BY <3>1, <3>2, PackKnown DEF ScenarioOf
  <2> QED  BY <2>1, <2>2
<1>8. Inputs[f].is = InputOf(f)
  BY <1>5 DEF InputOf
<1>9. Coherent(Inputs[f])
  BY <1>1, <1>5, <1>6, <1>7
<1> DEFINE node == Inputs[f]
<1> HIDE DEF property, node
<1>10. /\ node.kind = property.type \/ (node.kind = "integer" /\ property.type = "number")
       /\ node.kind = "string" /\ property.values # {} => node.is \in property.values
  BY <1>2 DEF Accepts, node
<1>11. node.kind # "null" /\ node.is \in ValuesOf(f)
  <2>1. CASE f \in Flags
    BY <1>1, <1>9, <1>10, <2>1 DEF KindsOf, ValuesOf, Coherent, node
  <2>2. CASE f = "incidentSeverity"
    <3>1. f \notin Flags
      BY <2>2 DEF Flags
    <3> QED  BY <1>1, <1>10, <2>2, <3>1 DEF KindsOf, node
  <2>3. CASE f \notin Flags /\ f # "incidentSeverity"
    BY <1>1, <1>9, <1>10, <2>3 DEF KindsOf, ValuesOf, Coherent, node
  <2> QED  BY <2>1, <2>2, <2>3
<1> QED  BY <1>2, <1>8, <1>11 DEF node

(* The context of a started agent holds each input of its pack.              *)
LEMMA ContextHolds ==
  ASSUME IInv, NEW p \in Started, NEW f \in FieldsOf(Pack)
  PROVE  f \in DOMAIN Context(p) /\ Context(p)[f] = Inputs[f]
<1> DEFINE base == Scenario.launch
           own == Template.launch
           section == Under(Merged, "contextTemplate")
           filled == substitute(section, Inputs)
<1>1. stage = "launching" /\ agents[p].bootstrap.session_context = filled
  BY StartedAgent, BootstrapIs
<1>2. Pack \in Domains /\ ScenarioOf(Pack, Scenario) /\ f \in Keys
  BY <1>1, PackKnown, FieldsAreListed
<1>3. At(base, <<"contextTemplate", f>>) = Node("exact", f) /\ LaunchDocument(Pack, base)
  BY <1>2 DEF ScenarioOf
<1>4. <<"contextTemplate", f>> \notin DOMAIN own
  <2>1. CASE Given(Root(own))
    BY <1>1, <2>1, OwnLaunch
  <2>2. CASE ~Given(Root(own))
    <3>1. DOMAIN own \subseteq {<<>>}
      BY <1>1, <2>2, OwnLaunch
    <3>2. <<"contextTemplate", f>> # <<>>
      OBVIOUS
    <3> QED  BY <3>1, <3>2
  <2> QED  BY <2>1, <2>2
<1>5. DOMAIN Merged \subseteq Seq(Keys) /\ "contextTemplate" \in Keys
  BY <1>1, MergedIs DEF Keys
<1>6. At(Merged, <<"contextTemplate", f>>) = Node("exact", f)
  BY <1>1, <1>2, <1>3, <1>4, MergedIs
<1>7. At(Merged, <<"contextTemplate">>).kind = "object"
  <2>1. CASE <<"contextTemplate">> \in DOMAIN own
    <3>1. own[<<"contextTemplate">>].kind = "object"
      <4>1. CASE Given(Root(own))
        <5>1. At(own, <<"contextTemplate">>).kind = "object"
          BY <1>1, <2>1, <4>1, OwnLaunch, SectionIsObject
        <5> QED  BY <2>1, <5>1 DEF At
      <4>2. CASE ~Given(Root(own))
        <5>1. DOMAIN own \subseteq {<<>>}
          BY <1>1, <4>2, OwnLaunch
        <5>2. <<"contextTemplate">> # <<>>
          OBVIOUS
        <5> QED  BY <2>1, <5>1, <5>2
      <4> QED  BY <4>1, <4>2
    <3> QED  BY <1>1, <1>5, <2>1, <3>1, MergedIs
  <2>2. CASE <<"contextTemplate">> \notin DOMAIN own
    <3>1. <<"contextTemplate", f>> \in DOMAIN base
      BY <1>3 DEF At, Node, Absent
    <3>2. At(base, <<"contextTemplate">>).kind = "object"
      BY <1>2, <1>3, <3>1, SectionIsObject
    <3> QED  BY <1>1, <1>5, <2>2, <3>2, MergedIs
  <2> QED  BY <2>1, <2>2
<1> HIDE DEF section
<1>8. /\ Root(section) = At(Merged, <<"contextTemplate">>)
      /\ \A n \in Keys :
           At(section, <<n>>) = At(Merged, <<"contextTemplate", n>>)
  BY <1>5, KeysUnder DEF section
<1>9. DOMAIN section \subseteq Seq(Keys)
  BY <1>5, UnderIs DEF section
<1>10. <<f>> \in DOMAIN section /\ section[<<f>>] = Node("exact", f)
  <2>1. At(section, <<f>>) = Node("exact", f)
    BY <1>2, <1>6, <1>8
  <2> QED  BY <2>1 DEF At, Node, Absent
<1>11. Root(section).kind = "object"
  BY <1>7, <1>8
<1>12. /\ DOMAIN filled = DOMAIN section /\ Root(filled).kind = "object"
       /\ filled[<<f>>] = Inputs[f]
  BY <1>10, <1>11, FilledAt DEF Node
<1> HIDE DEF filled
<1>13. f \in DOMAIN Members(filled) /\ Members(filled)[f] = filled[<<f>>]
  BY <1>2, <1>9, <1>10, <1>12, MembersAre
<1>14. Context(p) = Members(filled)
  BY <1>1, <1>12 DEF Context
<1> QED  BY <1>12, <1>13, <1>14

(* A started agent scores, of each field of its pack, the input of the run.   *)
LEMMA FieldsReach ==
  ASSUME IInv, NEW p \in Started, NEW f \in FieldsOf(Pack)
  PROVE  FieldsSeen(p)[f] = InputOf(f)
<1>1. stage = "launching"
  BY StartedAgent
<1>2. f \in FieldNames
  BY <1>1, PackKnown, FieldsAreListed
<1>3. /\ f \in DOMAIN Context(p) /\ Context(p)[f].kind # "null"
      /\ Context(p)[f].is = InputOf(f)
  BY <1>1, ContextHolds, InputsAre
<1> DEFINE context == Context(p)
<1> HIDE DEF context
<1>4. map_kickoff_to_inputs(context)[f] = context[f].is
  BY <1>2, <1>3 DEF map_kickoff_to_inputs, context
<1>5. f \in FraudState
  BY <1>2 DEF FraudState, FieldNames
<1>6. FieldsSeen(p)[f] = map_kickoff_to_inputs(context)[f]
  BY <1>2, <1>5 DEF FieldsSeen, Fields, context
<1> QED  BY <1>3, <1>4, <1>6 DEF context

(* The inputs of an accepted run reach the analysis of every specialist,       *)
(* whatever the registry, the deployment and the request.                    *)
THEOREM InputsReach == Spec => []InputsReachTheScorers
<1>1. ASSUME IInv PROVE InputsReachTheScorers
  <2> SUFFICES ASSUME NEW p \in Specialists
               PROVE  /\ detect_domain(agents[p].bootstrap.scenario_ref) = Pack
                      /\ \A f \in FieldsOf(Pack) : FieldsSeen(p)[f] = InputOf(f)
    BY DEF InputsReachTheScorers
  <2>1. p \in Started
    BY DEF Specialists
  <2>2. stage = "launching" /\ agents[p].bootstrap.scenario_ref = request.scenarioRef
    BY <1>1, <2>1, StartedAgent, BootstrapIs
  <2> QED  BY <1>1, <2>1, <2>2, PackKnown, FieldsReach
<1> QED  BY <1>1, Invariance, PTL

-----------------------------------------------------------------------------
(* Rule-based runs *)

Workers == {"langchain", "langgraph", "crewai"}

(* A specialist's worker is one of the three that score. *)
LEMMA SpecialistWorker ==
  ASSUME IInv, NEW p \in Specialists
  PROVE  p \in Started /\ agents[p].framework \in Workers
<1>1. p \in Started /\ agents[p].framework # "custom"
  BY DEF Specialists
<1>2. agents[p].framework \in HostAdapters
  BY <1>1, StartedAgent
<1> QED  BY <1>1, <1>2 DEF HostAdapters, Workers

(* A score depends on the fields of its domain only. *)
LEMMA ScoreReads ==
  ASSUME NEW framework \in Workers, NEW domain \in Domains, NEW g, NEW h,
         \A f \in FieldsOf(domain) : g[f] = h[f]
  PROVE  _score_result(framework, domain, g) = _score_result(framework, domain, h)
<1>1. score_by_domain(framework, domain, g) = score_by_domain(framework, domain, h)
  <2>1. CASE domain = "fraud"
    <3>1. /\ g.transactionAmount = h.transactionAmount /\ g.isVipCustomer = h.isVipCustomer
          /\ g.accountAgeDays = h.accountAgeDays /\ g.deviceTrustScore = h.deviceTrustScore
          /\ g.priorChargebacks = h.priorChargebacks
      BY <2>1 DEF FieldsOf, FraudFields
    <3>2. /\ ScoreFraudLangChain(g) = ScoreFraudLangChain(h)
          /\ ScoreFraudLangGraph(g) = ScoreFraudLangGraph(h)
          /\ ScoreFraudCrewAI(g) = ScoreFraudCrewAI(h)
      BY <3>1 DEF ScoreFraudLangChain, ScoreFraudLangGraph, ScoreFraudCrewAI
    <3> QED  BY <2>1, <3>2 DEF score_by_domain, Workers
  <2>2. CASE domain = "lending"
    <3>1. \A n \in LendingFields : g[n] = h[n]
      BY <2>2 DEF FieldsOf
    <3>2. /\ g.creditScore = h.creditScore /\ g.debtToIncomeRatio = h.debtToIncomeRatio
          /\ g.employmentYears = h.employmentYears /\ g.priorDefaults = h.priorDefaults
      BY <3>1 DEF LendingFields
    <3>3. dti_component(g) = dti_component(h)
      BY <3>2 DEF dti_component
    <3>4. score_lending(g) = score_lending(h)
      BY <3>1, <3>2, <3>3 DEF score_lending
    <3> QED  BY <2>2, <3>4 DEF score_by_domain
  <2>3. CASE domain = "claims"
    <3>1. \A n \in ClaimsFields : g[n] = h[n]
      BY <2>3 DEF FieldsOf
    <3>2. /\ g.policyAge = h.policyAge /\ g.priorClaims = h.priorClaims
          /\ g.isHighValuePolicy = h.isHighValuePolicy
          /\ g.incidentSeverity = h.incidentSeverity
      BY <3>1 DEF ClaimsFields
    <3>3. score_claims(g) = score_claims(h)
      BY <3>1, <3>2 DEF score_claims
    <3> QED  BY <2>3, <3>3 DEF score_by_domain
  <2> QED  BY <2>1, <2>2, <2>3 DEF Domains
<1> QED  BY <1>1 DEF _score_result

(* A launch that is to be rule-based is marked so. *)
LEMMA MarkedDeterministic ==
  ASSUME IInv, stage = "launching", AsksForDeterministic \/ ~operator.allowLlm
  PROVE  applyAgentExecution(Result.launch) = "deterministic"
<1> DEFINE base == Scenario.launch
           own == Template.launch
           path == <<"agentExecution">>
<1>1. CASE ~operator.allowLlm
  BY <1>1 DEF applyAgentExecution
<1>2. CASE AsksForDeterministic
  <2>1. (IF At(own, path).kind # "absent" THEN At(own, path) ELSE At(base, path))
          = Text("deterministic")
    BY <1>2 DEF AsksForDeterministic
  <2>2. path \in DOMAIN own <=> At(own, path).kind # "absent"
    <3>1. CASE Given(Root(own))
      <4>1. \A q \in DOMAIN own : own[q].kind # "absent"
        BY <3>1, OwnLaunch DEF LaunchDocument
      <4> QED  BY <4>1 DEF At, Absent
    <3>2. CASE ~Given(Root(own))
      <4>1. DOMAIN own \subseteq {<<>>}
        BY <3>2, OwnLaunch
      <4>2. path # <<>>
        OBVIOUS
      <4> QED  BY <4>1, <4>2 DEF At, Absent
    <3> QED  BY <3>1, <3>2
  <2>3. At(Merged, path) = IF path \in DOMAIN own THEN own[path] ELSE At(base, path)
    BY MergedIs DEF Keys
  <2> HIDE DEF path, own, base
  <2>4. path \in DOMAIN own => At(own, path) = own[path]
    BY DEF At
  <2>5. At(Merged, path) = Text("deterministic")
    BY <2>1, <2>2, <2>3, <2>4
  <2>6. Result.launch.agentExecution = At(Merged, path)
    BY CompiledIs DEF path
  <2> QED  BY <2>5, <2>6 DEF applyAgentExecution
<1> QED  BY <1>1, <1>2

(* The agents of such a launch are spawned without the key of a hosted LLM.   *)
LEMMA SpawnedWithoutKeys ==
  ASSUME IInv, NEW p \in Started, compiled.agentExecution = "deterministic",
         NEW installed
  PROVE  ~AsksLlm(installed, agents[p].env)
<1> DEFINE prepared == prepareLaunch(Definition(p).framework, operator.env,
                                     Definition(p).manifest, Bootstrap(p))
           env == withoutLlmProviderKeys(prepared)
<1>1. agents[p].env = spawnEnv(env, <<"bootstrap file of", p>>)
  BY StartedAgent DEF launchEnv
<1> HIDE DEF prepared
<1>2. "OPENAI_API_KEY" \notin DOMAIN env
  BY DEF withoutLlmProviderKeys, LLM_PROVIDER_ENV_KEYS
<1> HIDE DEF env
<1>3. "OPENAI_API_KEY" \notin DOMAIN agents[p].env
  BY <1>1, <1>2 DEF spawnEnv, Over
<1> QED  BY <1>3 DEF AsksLlm

(* A run that asks for it, and every run of a service that does not allow       *)
(* LLMs, is rule-based, for every deployment and every reply an LLM might give.*)
THEOREM DeterministicRuns == Spec => []DeterministicRunsAreRuleBased
<1>1. ASSUME IInv PROVE DeterministicRunsAreRuleBased
  <2> SUFFICES ASSUME stage = "launching", AsksForDeterministic \/ ~operator.allowLlm
               PROVE  /\ compiled.metadata.agentExecution = Text("deterministic")
                      /\ \A p \in DOMAIN opinions :
                           opinions[p] = _score_result(agents[p].framework, Pack, FieldsGiven)
    BY DEF DeterministicRunsAreRuleBased
  <2>1. applyAgentExecution(Result.launch) = "deterministic"
    BY <1>1, MarkedDeterministic
  <2>2. /\ compiled.metadata.agentExecution = Text("deterministic")
        /\ compiled.agentExecution = "deterministic"
    BY <1>1, <2>1, CompiledIs
  <2>3. ASSUME NEW p \in DOMAIN opinions
        PROVE  opinions[p] = _score_result(agents[p].framework, Pack, FieldsGiven)
    <3>1. p \in Specialists /\ opinions[p] \in Opined(p)
      BY <1>1 DEF IInv
    <3>2. p \in Started /\ agents[p].framework \in Workers
      BY <1>1, <3>1, SpecialistWorker
    <3>3. ~AsksLlm(Installed(p), agents[p].env)
      BY <1>1, <2>2, <3>2, SpawnedWithoutKeys
    <3>4. detect_domain(agents[p].bootstrap.scenario_ref) = Pack /\ Pack \in Domains
      BY <1>1, <3>2, BootstrapIs, PackKnown
    <3>5. Opined(p) = {_score_result(agents[p].framework, Pack, FieldsSeen(p))}
      BY <3>3, <3>4 DEF Opined, Analysis, FieldsSeen
    <3>6. \A f \in FieldsOf(Pack) : FieldsSeen(p)[f] = FieldsGiven[f]
      <4>1. \A f \in FieldsOf(Pack) : FieldsGiven[f] = InputOf(f)
        BY <3>4, FieldsAreListed DEF FieldsGiven
      <4> QED  BY <1>1, <3>2, <4>1, FieldsReach
    <3>7. _score_result(agents[p].framework, Pack, FieldsSeen(p))
            = _score_result(agents[p].framework, Pack, FieldsGiven)
      BY <3>2, <3>4, <3>6, ScoreReads
    <3> QED  BY <3>1, <3>5, <3>7
  <2> QED  BY <2>2, <2>3
<1> QED  BY <1>1, Invariance, PTL

-----------------------------------------------------------------------------
(* Better cases *)

(* Every field the scorers of a domain read has a value of its kind. *)
Filled(domain, g) == \A n \in FieldsOf(domain) : g[n] \in ValuesOf(n)

(* A case at least as good in each of them. *)
NoWorse(domain, g, h) == \A n \in FieldsOf(domain) : Merit(n, h[n]) >= Merit(n, g[n])

(* An opinion at least as favourable: an approval stays one, and who opposes  *)
(* did so before.                                                           *)
Opposes(o) == o.recommendation \in {"BLOCK", "REJECT"}
NoLessFavourable(s, t) == /\ s.recommendation = "APPROVE" => t.recommendation = "APPROVE"
                          /\ Opposes(t) => Opposes(s)

(* A rule-based opinion that approves or opposes has some confidence. *)
Confident(domain, s) ==
  /\ s.recommendation \in {"APPROVE", "REVIEW", "BLOCK", "REJECT"}
  /\ s.confidence \in Nat
  /\ s.recommendation # "REVIEW" => s.confidence >= LeastConfidence(domain)

(* What a better case means for the fields of a fraud run. *)
LEMMA FraudCase ==
  ASSUME NEW g, NEW h, Filled("fraud", g), Filled("fraud", h), NoWorse("fraud", g, h)
  PROVE  /\ g.transactionAmount \in Int /\ h.transactionAmount \in Int
         /\ g.accountAgeDays \in Int /\ h.accountAgeDays \in Int
         /\ g.deviceTrustScore \in Int /\ h.deviceTrustScore \in Int
         /\ g.priorChargebacks \in Int /\ h.priorChargebacks \in Int
         /\ h.transactionAmount <= g.transactionAmount /\ h.accountAgeDays >= g.accountAgeDays
         /\ h.deviceTrustScore >= g.deviceTrustScore
         /\ h.priorChargebacks <= g.priorChargebacks
         /\ g.isVipCustomer => h.isVipCustomer
<1>1. \A n \in FraudFields : /\ g[n] \in ValuesOf(n) /\ h[n] \in ValuesOf(n)
                            /\ Merit(n, h[n]) >= Merit(n, g[n])
  BY DEF Filled, NoWorse, FieldsOf
<1>2. \A n \in FraudFields \ {"isVipCustomer"} : ValuesOf(n) = Int
  BY DEF FraudFields, ValuesOf, Flags
<1>3. ValuesOf("isVipCustomer") = BOOLEAN
  BY DEF ValuesOf, Flags
<1>4. /\ g.transactionAmount \in Int /\ h.transactionAmount \in Int
      /\ 0 - h.transactionAmount >= 0 - g.transactionAmount
  BY <1>1, <1>2 DEF FraudFields, Merit
<1>5. /\ g.accountAgeDays \in Int /\ h.accountAgeDays \in Int
      /\ h.accountAgeDays >= g.accountAgeDays
  BY <1>1, <1>2 DEF FraudFields, Merit
<1>6. /\ g.deviceTrustScore \in Int /\ h.deviceTrustScore \in Int
      /\ h.deviceTrustScore >= g.deviceTrustScore
  BY <1>1, <1>2 DEF FraudFields, Merit
<1>7. /\ g.priorChargebacks \in Int /\ h.priorChargebacks \in Int
      /\ 0 - h.priorChargebacks >= 0 - g.priorChargebacks
  BY <1>1, <1>2 DEF FraudFields, Merit
<1>8. (IF h.isVipCustomer THEN 1 ELSE 0) >= (IF g.isVipCustomer THEN 1 ELSE 0)
  BY <1>1 DEF FraudFields, Merit
<1>9. g.isVipCustomer => h.isVipCustomer
  BY <1>8
<1>10. /\ h.transactionAmount <= g.transactionAmount
       /\ h.priorChargebacks <= g.priorChargebacks
  BY <1>4, <1>7
<1> QED  BY <1>4, <1>5, <1>6, <1>7, <1>9, <1>10

(* The same for the fields of a loan. *)
LEMMA LendingCase ==
  ASSUME NEW g, NEW h, Filled("lending", g), Filled("lending", h), NoWorse("lending", g, h)
  PROVE  /\ g.creditScore \in Int /\ h.creditScore \in Int
         /\ g.debtToIncomeRatio \in Int /\ h.debtToIncomeRatio \in Int
         /\ g.employmentYears \in Int /\ h.employmentYears \in Int
         /\ g.priorDefaults \in Int /\ h.priorDefaults \in Int
         /\ h.creditScore >= g.creditScore /\ h.debtToIncomeRatio <= g.debtToIncomeRatio
         /\ h.employmentYears >= g.employmentYears /\ h.priorDefaults <= g.priorDefaults
         /\ \A n \in LendingFields : g[n] # None /\ h[n] # None
<1>1. \A n \in LendingFields : /\ g[n] \in ValuesOf(n) /\ h[n] \in ValuesOf(n)
                              /\ Merit(n, h[n]) >= Merit(n, g[n])
  BY DEF Filled, NoWorse, FieldsOf
<1>2. \A n \in LendingFields : ValuesOf(n) = Int
  BY DEF LendingFields, ValuesOf, Flags
<1>3. \A n \in LendingFields : None \notin ValuesOf(n)
  BY NoneAssumption DEF FieldNames
<1>4. /\ g.creditScore \in Int /\ h.creditScore \in Int /\ h.creditScore >= g.creditScore
  BY <1>1, <1>2 DEF LendingFields, Merit
<1>5. /\ g.debtToIncomeRatio \in Int /\ h.debtToIncomeRatio \in Int
      /\ 0 - h.debtToIncomeRatio >= 0 - g.debtToIncomeRatio
  BY <1>1, <1>2 DEF LendingFields, Merit
<1>6. /\ g.employmentYears \in Int /\ h.employmentYears \in Int
      /\ h.employmentYears >= g.employmentYears
  BY <1>1, <1>2 DEF LendingFields, Merit
<1>7. /\ g.priorDefaults \in Int /\ h.priorDefaults \in Int
      /\ 0 - h.priorDefaults >= 0 - g.priorDefaults
  BY <1>1, <1>2 DEF LendingFields, Merit
<1>8. \A n \in LendingFields : g[n] # None /\ h[n] # None
  BY <1>1, <1>3
<1>9. /\ h.debtToIncomeRatio <= g.debtToIncomeRatio /\ h.priorDefaults <= g.priorDefaults
  BY <1>5, <1>7
<1> QED  BY <1>4, <1>5, <1>6, <1>7, <1>8, <1>9

(* The same for the fields of a claim. *)
LEMMA ClaimsCase ==
  ASSUME NEW g, NEW h, Filled("claims", g), Filled("claims", h), NoWorse("claims", g, h)
  PROVE  /\ g.policyAge \in Int /\ h.policyAge \in Int
         /\ g.priorClaims \in Int /\ h.priorClaims \in Int
         /\ h.policyAge >= g.policyAge /\ h.priorClaims <= g.priorClaims
         /\ h.isHighValuePolicy => g.isHighValuePolicy
         /\ g.incidentSeverity \in DOMAIN CLAIMS_SEVERITY_SCORES
         /\ h.incidentSeverity \in DOMAIN CLAIMS_SEVERITY_SCORES
         /\ CLAIMS_SEVERITY_SCORES[h.incidentSeverity]
              >= CLAIMS_SEVERITY_SCORES[g.incidentSeverity]
         /\ \A n \in ClaimsFields : g[n] # None /\ h[n] # None
<1>1. \A n \in ClaimsFields : /\ g[n] \in ValuesOf(n) /\ h[n] \in ValuesOf(n)
                             /\ Merit(n, h[n]) >= Merit(n, g[n])
  BY DEF Filled, NoWorse, FieldsOf
<1>2. /\ ValuesOf("policyAge") = Int /\ ValuesOf("priorClaims") = Int
      /\ ValuesOf("incidentSeverity") = DOMAIN CLAIMS_SEVERITY_SCORES
  BY DEF ValuesOf, Flags
<1>3. \A n \in ClaimsFields : None \notin ValuesOf(n)
  BY NoneAssumption DEF FieldNames
<1>4. g.policyAge \in Int /\ h.policyAge \in Int /\ h.policyAge >= g.policyAge
  BY <1>1, <1>2 DEF ClaimsFields, Merit
<1>5. /\ g.priorClaims \in Int /\ h.priorClaims \in Int
      /\ 0 - h.priorClaims >= 0 - g.priorClaims
  BY <1>1, <1>2 DEF ClaimsFields, Merit
<1>6. (IF h.isHighValuePolicy THEN 0 ELSE 1) >= (IF g.isHighValuePolicy THEN 0 ELSE 1)
  BY <1>1 DEF ClaimsFields, Merit
<1>7. /\ g.incidentSeverity \in DOMAIN CLAIMS_SEVERITY_SCORES
      /\ h.incidentSeverity \in DOMAIN CLAIMS_SEVERITY_SCORES
      /\ CLAIMS_SEVERITY_SCORES[h.incidentSeverity]
           >= CLAIMS_SEVERITY_SCORES[g.incidentSeverity]
  BY <1>1, <1>2 DEF ClaimsFields, Merit
<1>8. \A n \in ClaimsFields : g[n] # None /\ h[n] # None
  BY <1>1, <1>3
<1>9. h.priorClaims <= g.priorClaims
  BY <1>5
<1>10. h.isHighValuePolicy => g.isHighValuePolicy
  BY <1>6
<1> QED  BY <1>4, <1>5, <1>7, <1>8, <1>9, <1>10

(* Clamping keeps the order, and stays between the bounds. *)
LEMMA Clamp ==
  ASSUME NEW lo \in Int, NEW hi \in Int, lo <= hi, NEW x \in Int, NEW y \in Int, x <= y
  PROVE  /\ _clamp(x, lo, hi) \in lo .. hi /\ _clamp(y, lo, hi) \in lo .. hi
         /\ _clamp(x, lo, hi) <= _clamp(y, lo, hi)
  BY DEF _clamp

(* A graded score approves from "high" on and rejects up to "low", with a      *)
(* confidence of sixty at least.                                            *)
LEMMA GradedIs ==
  ASSUME NEW score \in Int, NEW low \in Nat \ {0}, NEW high \in Nat, NEW top \in Nat,
         low < high, high < top
  PROVE  LET o == Graded(score, low, high, top)
         IN /\ o.recommendation = IF score >= high THEN "APPROVE"
                                 ELSE IF score <= low THEN "REJECT" ELSE "REVIEW"
            /\ o.confidence \in Nat
            /\ o.recommendation # "REVIEW" => o.confidence >= 60
<1> DEFINE up == (30 * (score - high)) \div (top - high)
           down == (30 * _clamp(low - score, 0, low)) \div low
<1>1. score >= high => up \in Nat
  <2>1. ASSUME score >= high PROVE 30 * (score - high) \in Nat
    BY <2>1
  <2>2. top - high \in Nat \ {0}
    OBVIOUS
  <2>3. \A a \in Nat, b \in Nat \ {0} : a \div b \in Nat
    OBVIOUS
  <2> QED  BY <2>1, <2>2, <2>3
<1>2. down \in Nat
  <2>1. _clamp(low - score, 0, low) \in 0 .. low
    BY Clamp
  <2>2. 30 * _clamp(low - score, 0, low) \in Nat
    BY <2>1
  <2>3. \A a \in Nat, b \in Nat \ {0} : a \div b \in Nat
    OBVIOUS
  <2> QED  BY <2>2, <2>3
<1> HIDE DEF up, down
<1>3. Graded(score, low, high, top) =
        CASE score >= high -> Opinion("APPROVE", 60 + up)
          [] score <= low -> Opinion("REJECT", 60 + down)
          [] OTHER -> Opinion("REVIEW", 50)
  BY DEF Graded, up, down
<1>4. CASE score >= high
  <2>1. ~(score <= low)
    BY <1>4
  <2>2. Graded(score, low, high, top) = Opinion("APPROVE", 60 + up)
    BY <1>3, <1>4, <2>1
  <2>3. 60 + up \in Nat /\ 60 + up >= 60
    BY <1>1, <1>4
  <2> QED  BY <1>4, <2>2, <2>3 DEF Opinion
<1>5. CASE score <= low
  <2>1. ~(score >= high)
    BY <1>5
  <2>2. Graded(score, low, high, top) = Opinion("REJECT", 60 + down)
    BY <1>3, <1>5, <2>1
  <2>3. 60 + down \in Nat /\ 60 + down >= 60
    BY <1>2
  <2> QED  BY <1>5, <2>1, <2>2, <2>3 DEF Opinion
<1>6. CASE ~(score >= high) /\ ~(score <= low)
  <2>1. Graded(score, low, high, top) = Opinion("REVIEW", 50)
    BY <1>3, <1>6
  <2> QED  BY <1>6, <2>1 DEF Opinion
<1> QED  BY <1>4, <1>5, <1>6

(* A higher score is graded no less favourably. *)
LEMMA GradedImproves ==
  ASSUME NEW x \in Int, NEW y \in Int, x <= y,
         NEW low \in Nat \ {0}, NEW high \in Nat, NEW top \in Nat, low < high, high < top
  PROVE  NoLessFavourable(Graded(x, low, high, top), Graded(y, low, high, top))
<1> DEFINE o(z) == Graded(z, low, high, top).recommendation
<1>1. /\ o(x) = IF x >= high THEN "APPROVE" ELSE IF x <= low THEN "REJECT" ELSE "REVIEW"
      /\ o(y) = IF y >= high THEN "APPROVE" ELSE IF y <= low THEN "REJECT" ELSE "REVIEW"
  BY GradedIs
<1> HIDE DEF o
<1>2. o(x) = "APPROVE" => o(y) = "APPROVE"
  BY <1>1
<1>3. o(y) \in {"BLOCK", "REJECT"} => o(x) \in {"BLOCK", "REJECT"}
  BY <1>1
<1> QED  BY <1>2, <1>3 DEF NoLessFavourable, Opposes, o

(* None is no number. *)
LEMMA NoneIsNoNumber == None \notin Int
<1>1. "creditScore" \in FieldNames /\ ValuesOf("creditScore") = Int
  BY DEF FieldNames, LendingFields, ValuesOf, Flags
<1> QED  BY <1>1, NoneAssumption

(* The worker sends a score with a confidence as it is. *)
LEMMA SentAsScored ==
  ASSUME NEW framework, NEW domain, NEW g, NEW o, o = score_by_domain(framework, domain, g),
         o.confidence \in Int
  PROVE  _score_result(framework, domain, g) = o
  BY NoneIsNoNumber DEF _score_result

(* The chain of a fraud run on a case and a better one. *)
LEMMA ChainImproves ==
  ASSUME NEW g, NEW h, Filled("fraud", g), Filled("fraud", h), NoWorse("fraud", g, h)
  PROVE  /\ Confident("fraud", _score_result("langchain", "fraud", g))
         /\ Confident("fraud", _score_result("langchain", "fraud", h))
         /\ NoLessFavourable(_score_result("langchain", "fraud", g),
                             _score_result("langchain", "fraud", h))
<1> DEFINE sure(f) == f.isVipCustomer /\ f.accountAgeDays >= 7 /\ f.transactionAmount <= 5000
           large(f) == f.transactionAmount > 5000 \/ f.accountAgeDays < 3
           o(f) == ScoreFraudLangChain(f)
<1>1. \A f : o(f) = IF sure(f) THEN Opinion("APPROVE", 88)
                    ELSE IF large(f) THEN Opinion("REVIEW", 73) ELSE Opinion("APPROVE", 78)
  BY DEF ScoreFraudLangChain
<1>2. sure(g) => ~large(g)
  BY FraudCase
<1>3. sure(h) => ~large(h)
  BY FraudCase
<1>4. large(h) => large(g)
  BY FraudCase
<1> HIDE DEF sure, large, o
<1>5. \A f : o(f) \in {Opinion("APPROVE", 88), Opinion("REVIEW", 73), Opinion("APPROVE", 78)}
  BY <1>1
<1>6. \A f : o(f).confidence \in Int
  BY <1>5 DEF Opinion
<1>7. \A f : _score_result("langchain", "fraud", f) = o(f)
  <2>1. \A f : o(f) = score_by_domain("langchain", "fraud", f)
    BY DEF score_by_domain, o
  <2> QED  BY <1>6, <2>1, SentAsScored
<1>8. /\ o(g).recommendation = IF large(g) THEN "REVIEW" ELSE "APPROVE"
      /\ o(h).recommendation = IF large(h) THEN "REVIEW" ELSE "APPROVE"
  BY <1>1, <1>2, <1>3 DEF Opinion
<1>9. Confident("fraud", o(g)) /\ Confident("fraud", o(h))
  BY <1>5 DEF Confident, Opinion, LeastConfidence
<1>10. NoLessFavourable(o(g), o(h))
  BY <1>4, <1>8 DEF NoLessFavourable, Opposes
<1> QED  BY <1>7, <1>9, <1>10

(* The graph of a fraud run. *)
LEMMA GraphImproves ==
  ASSUME NEW g, NEW h, Filled("fraud", g), Filled("fraud", h), NoWorse("fraud", g, h)
  PROVE  /\ Confident("fraud", _score_result("langgraph", "fraud", g))
         /\ Confident("fraud", _score_result("langgraph", "fraud", h))
         /\ NoLessFavourable(_score_result("langgraph", "fraud", g),
                             _score_result("langgraph", "fraud", h))
<1> DEFINE bad(f) == f.deviceTrustScore < 8 \/ f.priorChargebacks >= 2
           poor(f) == f.deviceTrustScore < 20 \/ f.priorChargebacks >= 1
           o(f) == ScoreFraudLangGraph(f)
<1>1. \A f : o(f) = IF bad(f) THEN Opinion("BLOCK", 94)
                    ELSE IF poor(f) THEN Opinion("REVIEW", 84) ELSE Opinion("APPROVE", 72)
  BY DEF ScoreFraudLangGraph
<1>2. bad(h) => bad(g)
  BY FraudCase
<1>3. poor(h) => poor(g)
  BY FraudCase
<1> HIDE DEF bad, poor, o
<1>4. \A f : o(f) \in {Opinion("BLOCK", 94), Opinion("REVIEW", 84), Opinion("APPROVE", 72)}
  BY <1>1
<1>5. \A f : o(f).confidence \in Int
  BY <1>4 DEF Opinion
<1>6. \A f : _score_result("langgraph", "fraud", f) = o(f)
  <2>1. \A f : o(f) = score_by_domain("langgraph", "fraud", f)
    BY DEF score_by_domain, o
  <2> QED  BY <1>5, <2>1, SentAsScored
<1>7. \A f : o(f).recommendation = IF bad(f) THEN "BLOCK"
                                   ELSE IF poor(f) THEN "REVIEW" ELSE "APPROVE"
  BY <1>1 DEF Opinion
<1>8. Confident("fraud", o(g)) /\ Confident("fraud", o(h))
  BY <1>4 DEF Confident, Opinion, LeastConfidence
<1>9. NoLessFavourable(o(g), o(h))
  <2>1. o(g).recommendation = "APPROVE" => o(h).recommendation = "APPROVE"
    BY <1>2, <1>3, <1>7
  <2>2. o(h).recommendation \in {"BLOCK", "REJECT"} => o(g).recommendation \in {"BLOCK", "REJECT"}
    BY <1>2, <1>7
  <2> QED  BY <2>1, <2>2 DEF NoLessFavourable, Opposes
<1> QED  BY <1>6, <1>8, <1>9

(* The crew of a fraud run, whose BLOCK is sent with a confidence of 76. *)
LEMMA CrewImproves ==
  ASSUME NEW g, NEW h, Filled("fraud", g), Filled("fraud", h), NoWorse("fraud", g, h)
  PROVE  /\ Confident("fraud", _score_result("crewai", "fraud", g))
         /\ Confident("fraud", _score_result("crewai", "fraud", h))
         /\ NoLessFavourable(_score_result("crewai", "fraud", g),
                             _score_result("crewai", "fraud", h))
<1> DEFINE bad(f) == \/ f.deviceTrustScore <= 8 \/ f.priorChargebacks >= 2
                     \/ f.transactionAmount >= 3000 /\ f.accountAgeDays < 7
           o(f) == _score_result("crewai", "fraud", f)
<1>1. bad(h) => bad(g)
  BY FraudCase
<1>2. \A f : ScoreFraudCrewAI(f) = IF bad(f) THEN Opinion("BLOCK", None)
                                   ELSE Opinion("REVIEW", 76)
  BY DEF ScoreFraudCrewAI
<1> HIDE DEF bad
<1>3. \A f : score_by_domain("crewai", "fraud", f) = ScoreFraudCrewAI(f)
  BY DEF score_by_domain
<1>4. 76 # None
  BY NoneIsNoNumber
<1>5. \A f : o(f) = IF bad(f) THEN Opinion("BLOCK", 76) ELSE Opinion("REVIEW", 76)
  BY <1>2, <1>3, <1>4 DEF _score_result, Opinion
<1> HIDE DEF o
<1>6. \A f : /\ o(f).recommendation = IF bad(f) THEN "BLOCK" ELSE "REVIEW"
             /\ o(f).confidence = 76
  BY <1>5 DEF Opinion
<1>7. Confident("fraud", o(g)) /\ Confident("fraud", o(h))
  BY <1>6 DEF Confident, LeastConfidence
<1>8. NoLessFavourable(o(g), o(h))
  BY <1>1, <1>6 DEF NoLessFavourable, Opposes
<1> QED  BY <1>7, <1>8 DEF o

(* The lending scorer of every framework. *)
LEMMA LendingImproves ==
  ASSUME NEW framework, NEW g, NEW h,
         Filled("lending", g), Filled("lending", h), NoWorse("lending", g, h)
  PROVE  /\ Confident("lending", _score_result(framework, "lending", g))
         /\ Confident("lending", _score_result(framework, "lending", h))
         /\ NoLessFavourable(_score_result(framework, "lending", g),
                             _score_result(framework, "lending", h))
<1> DEFINE credit(f) == _clamp(f.creditScore - 580, 0, 170)
           debt(f) == dti_component(f)
           years(f) == _clamp(f.employmentYears, 0, 5)
           score(f) == 115 * credit(f) + 595 * debt(f) + 1173 * years(f)
           graded(f) == Graded(score(f), 13685, 27370, 39100)
           o(f) == score_lending(f)
<1>1. /\ credit(g) \in Int /\ credit(h) \in Int /\ credit(g) <= credit(h)
      /\ debt(g) \in Int /\ debt(h) \in Int /\ debt(g) <= debt(h)
      /\ years(g) \in Int /\ years(h) \in Int /\ years(g) <= years(h)
  <2>1. /\ g.creditScore \in Int /\ h.creditScore \in Int
        /\ g.debtToIncomeRatio \in Int /\ h.debtToIncomeRatio \in Int
        /\ g.employmentYears \in Int /\ h.employmentYears \in Int
        /\ h.creditScore >= g.creditScore /\ h.debtToIncomeRatio <= g.debtToIncomeRatio
        /\ h.employmentYears >= g.employmentYears
    BY LendingCase
  <2> QED  BY <2>1 DEF dti_component, _clamp
<1> HIDE DEF credit, debt, years
<1>2. score(g) \in Int /\ score(h) \in Int /\ score(g) <= score(h)
  BY <1>1
<1> HIDE DEF score
<1>3. NoLessFavourable(graded(g), graded(h))
  BY <1>2, GradedImproves
<1>4. /\ graded(g).recommendation \in {"APPROVE", "REJECT", "REVIEW"}
      /\ graded(g).confidence \in Nat
      /\ graded(g).recommendation # "REVIEW" => graded(g).confidence >= 60
      /\ graded(h).recommendation \in {"APPROVE", "REJECT", "REVIEW"}
      /\ graded(h).confidence \in Nat
      /\ graded(h).recommendation # "REVIEW" => graded(h).confidence >= 60
  BY <1>2, GradedIs
<1> HIDE DEF graded
<1>5. /\ o(g) = IF g.priorDefaults > 0 THEN Opinion("REJECT", 75) ELSE graded(g)
      /\ o(h) = IF h.priorDefaults > 0 THEN Opinion("REJECT", 75) ELSE graded(h)
  BY LendingCase DEF score_lending, graded, score, credit, debt, years
<1>6. h.priorDefaults > 0 => g.priorDefaults > 0
  BY LendingCase
<1> HIDE DEF o
<1>7. o(g).confidence \in Int /\ o(h).confidence \in Int
  BY <1>4, <1>5 DEF Opinion
<1>8. /\ _score_result(framework, "lending", g) = o(g)
      /\ _score_result(framework, "lending", h) = o(h)
  <2>1. \A f : o(f) = score_by_domain(framework, "lending", f)
    BY DEF score_by_domain, o
  <2> QED  BY <1>7, <2>1, SentAsScored
<1>9. Confident("lending", o(g)) /\ Confident("lending", o(h))
  BY <1>4, <1>5 DEF Confident, Opinion, LeastConfidence
<1>10. NoLessFavourable(o(g), o(h))
  BY <1>3, <1>5, <1>6 DEF NoLessFavourable, Opposes, Opinion
<1> QED  BY <1>8, <1>9, <1>10

(* The claims scorer of every framework. *)
LEMMA ClaimsImproves ==
  ASSUME NEW framework, NEW g, NEW h,
         Filled("claims", g), Filled("claims", h), NoWorse("claims", g, h)
  PROVE  /\ Confident("claims", _score_result(framework, "claims", g))
         /\ Confident("claims", _score_result(framework, "claims", h))
         /\ NoLessFavourable(_score_result(framework, "claims", g),
                             _score_result(framework, "claims", h))
<1> DEFINE severity(f) == CLAIMS_SEVERITY_SCORES[f.incidentSeverity]
           age(f) == _clamp(f.policyAge, 0, 24)
           record(f) == _clamp(120 - 36 * f.priorClaims, 0, 120)
           value(f) == IF f.isHighValuePolicy THEN 72 ELSE 0
           score(f) == severity(f) + 5 * age(f) + record(f) - value(f)
           o(f) == Graded(score(f), 144, 312, 480)
<1>1. /\ severity(g) \in Int /\ severity(h) \in Int /\ severity(g) <= severity(h)
      /\ value(g) \in Int /\ value(h) \in Int /\ value(h) <= value(g)
  BY ClaimsCase DEF CLAIMS_SEVERITY_SCORES
<1>2. /\ age(g) \in Int /\ age(h) \in Int /\ age(g) <= age(h)
      /\ record(g) \in Int /\ record(h) \in Int /\ record(g) <= record(h)
  <2>1. /\ g.policyAge \in Int /\ h.policyAge \in Int
        /\ g.priorClaims \in Int /\ h.priorClaims \in Int
        /\ h.policyAge >= g.policyAge /\ h.priorClaims <= g.priorClaims
    BY ClaimsCase
  <2> QED  BY <2>1 DEF _clamp
<1> HIDE DEF severity, age, record, value
<1>3. score(g) \in Int /\ score(h) \in Int /\ score(g) <= score(h)
  BY <1>1, <1>2
<1> HIDE DEF score
<1>4. NoLessFavourable(o(g), o(h))
  BY <1>3, GradedImproves
<1>5. /\ o(g).recommendation \in {"APPROVE", "REJECT", "REVIEW"}
      /\ o(g).confidence \in Nat
      /\ o(g).recommendation # "REVIEW" => o(g).confidence >= 60
      /\ o(h).recommendation \in {"APPROVE", "REJECT", "REVIEW"}
      /\ o(h).confidence \in Nat
      /\ o(h).recommendation # "REVIEW" => o(h).confidence >= 60
  BY <1>3, GradedIs
<1> HIDE DEF o
<1>6. score_claims(g) = o(g) /\ score_claims(h) = o(h)
  BY ClaimsCase DEF score_claims, o, score, severity, age, record, value
<1>7. /\ _score_result(framework, "claims", g) = o(g)
      /\ _score_result(framework, "claims", h) = o(h)
  <2>1. \A f : score_claims(f) = score_by_domain(framework, "claims", f)
    BY DEF score_by_domain
  <2> QED  BY <1>5, <1>6, <2>1, SentAsScored
<1>8. Confident("claims", o(g)) /\ Confident("claims", o(h))
  BY <1>5 DEF Confident, LeastConfidence
<1> QED  BY <1>4, <1>7, <1>8

(* In every domain and with every worker a better case is judged no less      *)
(* favourably.                                                              *)
LEMMA ScoreImproves ==
  ASSUME NEW framework \in Workers, NEW domain \in Domains, NEW g, NEW h,
         Filled(domain, g), Filled(domain, h), NoWorse(domain, g, h)
  PROVE  /\ Confident(domain, _score_result(framework, domain, g))
         /\ Confident(domain, _score_result(framework, domain, h))
         /\ NoLessFavourable(_score_result(framework, domain, g),
                             _score_result(framework, domain, h))
<1>1. CASE domain = "fraud"
  BY <1>1, ChainImproves, GraphImproves, CrewImproves DEF Workers
<1>2. CASE domain = "lending"
  BY <1>2, LendingImproves
<1>3. CASE domain = "claims"
  BY <1>3, ClaimsImproves
<1> QED  BY <1>1, <1>2, <1>3 DEF Domains

(* The opinions that say one of some words with enough confidence, those with *)
(* too little, and what a policy without a veto makes of them: n opinions, of *)
(* which "pro" approve and "con" oppose.                                     *)
Heeded(policy, said, words) ==
  {p \in DOMAIN said : /\ said[p].confidence >= policy.minimumConfidence
                       /\ said[p].recommendation \in words}

Unheeded(policy, said) == {p \in DOMAIN said : said[p].confidence < policy.minimumConfidence}

Pro(policy, said) == Cardinality(Heeded(policy, said, {"APPROVE"}))
Con(policy, said) == Cardinality(Heeded(policy, said, {"BLOCK", "REJECT"}))

RankOf(policy, n, pro, con, unheeded) ==
  CASE policy.type = "unanimous" ->
         IF con > 0 THEN 0 ELSE IF unheeded = {} /\ n > 0 /\ pro = n THEN 2 ELSE 1
    [] policy.type \in {"majority", "supermajority"} ->
         IF (IF n > 0 THEN pro * policy.den >= policy.num * n ELSE policy.num <= 0) THEN 2
         ELSE IF con > pro THEN 0 ELSE 1
    [] policy.type = "none" -> IF con > 0 THEN 0 ELSE 2

(* What the coordinator counts of a set of opinions that are all evaluations. *)
LEMMA Counted ==
  ASSUME NEW policy, NEW said, IsFiniteSet(DOMAIN said), policy.vetoThreshold \in Nat \ {0},
         \A p \in DOMAIN said : said[p].recommendation # "ABSTAIN"
  PROVE  /\ DOMAIN Signals(said) = DOMAIN said
         /\ Saying(policy, Signals(said), {"APPROVE"}) = Pro(policy, said)
         /\ Saying(policy, Signals(said), {"ABSTAIN"}) = 0
         /\ Opposed(policy, Signals(said)) = Con(policy, said)
         /\ Disqualified(policy, Signals(said)) = Unheeded(policy, said)
         /\ ~Vetoed(policy, Signals(said))
<1> DEFINE signals == Signals(said)
<1>1. /\ DOMAIN signals = DOMAIN said
      /\ \A p \in DOMAIN said : /\ signals[p].type = "Evaluation"
                               /\ signals[p].says = said[p].recommendation
                               /\ signals[p].confidence = said[p].confidence
  BY DEF Signals
<1> HIDE DEF signals
<1>2. Evaluations(signals) = DOMAIN said /\ Objections(signals) = {}
  BY <1>1 DEF Evaluations, Objections
<1>3. \A words : {p \in Qualified(policy, signals) : signals[p].says \in words}
                  = Heeded(policy, said, words)
  BY <1>1, <1>2 DEF Qualified, Heeded
<1>4. \A words : Saying(policy, signals, words) = Cardinality(Heeded(policy, said, words))
  BY <1>3 DEF Saying
<1>5. Con(policy, said) \in Nat
  <2>1. Heeded(policy, said, {"BLOCK", "REJECT"}) \in SUBSET DOMAIN said
    BY DEF Heeded
  <2> QED  BY <2>1, FS_Subset, FS_CardinalityType DEF Con
<1>6. Opposed(policy, signals) = Con(policy, said)
  <2>1. Cardinality(Objections(signals)) = 0
    BY <1>2, FS_EmptySet
  <2> QED  BY <1>4, <1>5, <2>1 DEF Opposed, Con
<1>7. ~Vetoed(policy, signals)
  <2>1. {p \in Objections(signals) : signals[p].says = "critical"} = {}
    BY <1>2
  <2>2. Cardinality({}) = 0 /\ ~(0 >= policy.vetoThreshold)
    BY FS_EmptySet
  <2> QED  BY <2>1, <2>2 DEF Vetoed
<1>8. Disqualified(policy, signals) = Unheeded(policy, said)
  BY <1>1, <1>2 DEF Disqualified, Unheeded
<1>9. Saying(policy, signals, {"ABSTAIN"}) = 0
  <2>1. Heeded(policy, said, {"ABSTAIN"}) = {}
    BY DEF Heeded
  <2> QED  BY <1>4, <2>1, FS_EmptySet
<1> QED  BY <1>1, <1>4, <1>6, <1>7, <1>8, <1>9 DEF signals, Pro

(* How the decision ranks, from what was counted. *)
LEMMA Ranked ==
  ASSUME NEW policy, NEW said, IsFiniteSet(DOMAIN said), policy.vetoThreshold \in Nat \ {0},
         \A p \in DOMAIN said : said[p].recommendation # "ABSTAIN",
         policy.type \in PolicyTypes
  PROVE  Rank(decide(policy, Signals(said))) =
           RankOf(policy, Cardinality(DOMAIN said), Pro(policy, said), Con(policy, said),
                  Unheeded(policy, said))
<1> DEFINE n == Cardinality(DOMAIN said)
           pro == Pro(policy, said)
           con == Con(policy, said)
           none == Unheeded(policy, said) = {}
           enough == IF n > 0 THEN pro * policy.den >= policy.num * n ELSE policy.num <= 0
           all == none /\ n > 0 /\ pro = n
           against == con > 0
           outvoted == con > pro
           signals == Signals(said)
<1>1. Rank(Approve) = 2 /\ Rank(StepUp) = 1 /\ Rank(Decline) = 0
  BY DEF Rank, Approve, StepUp, Decline
<1>2. /\ Cardinality(DOMAIN signals) = n /\ Saying(policy, signals, {"APPROVE"}) = pro
      /\ Saying(policy, signals, {"ABSTAIN"}) = 0 /\ Opposed(policy, signals) = con
      /\ Disqualified(policy, signals) = Unheeded(policy, said) /\ ~Vetoed(policy, signals)
  BY Counted
<1>3. n - 0 = n
  BY FS_CardinalityType
<1> HIDE DEF signals, n, pro, con
<1>4. decide(policy, signals) =
        CASE policy.type = "unanimous" ->
               IF against THEN Decline ELSE IF all THEN Approve ELSE StepUp
          [] policy.type \in {"majority", "supermajority"} ->
               IF enough THEN Approve ELSE IF outvoted THEN Decline ELSE StepUp
          [] policy.type = "none" -> IF against THEN Decline ELSE Approve
  <2>1. CASE policy.type = "unanimous"
    BY <1>2, <2>1 DEF decide
  <2>2. CASE policy.type \in {"majority", "supermajority"}
    BY <1>2, <1>3, <2>2 DEF decide
  <2>3. CASE policy.type = "none"
    BY <1>2, <2>3 DEF decide
  <2> QED  BY <2>1, <2>2, <2>3 DEF PolicyTypes
<1> HIDE DEF all, enough, against, outvoted
<1>5. Rank(decide(policy, signals)) =
        CASE policy.type = "unanimous" -> IF against THEN 0 ELSE IF all THEN 2 ELSE 1
          [] policy.type \in {"majority", "supermajority"} ->
               IF enough THEN 2 ELSE IF outvoted THEN 0 ELSE 1
          [] policy.type = "none" -> IF against THEN 0 ELSE 2
  BY <1>1, <1>4 DEF PolicyTypes
<1> QED  BY <1>5 DEF all, enough, against, outvoted, n, pro, con, signals, RankOf

(* Under a policy whose floor the opinions that approve or oppose reach, no    *)
(* less favourable opinions never make the verdict less favourable.          *)
LEMMA DecideImproves ==
  ASSUME NEW policy, NEW domain, NEW P, IsFiniteSet(P), NEW s, NEW t,
         DOMAIN s = P, DOMAIN t = P,
         policy.type \in PolicyTypes, policy.num \in Nat, policy.den = 100,
         policy.vetoThreshold \in Nat \ {0},
         policy.minimumConfidence \in 0 .. LeastConfidence(domain),
         \A p \in P : /\ Confident(domain, s[p]) /\ Confident(domain, t[p])
                      /\ NoLessFavourable(s[p], t[p])
  PROVE  Rank(decide(policy, Signals(t))) >= Rank(decide(policy, Signals(s)))
<1> DEFINE floor == policy.minimumConfidence
           n == Cardinality(P)
           yes(x) == Heeded(policy, x, {"APPROVE"})
           no(x) == Heeded(policy, x, {"BLOCK", "REJECT"})
           pro(x) == Pro(policy, x)
           con(x) == Con(policy, x)
           weak(x) == Unheeded(policy, x)
           rank(x) == RankOf(policy, n, pro(x), con(x), weak(x))
<1>1. LeastConfidence(domain) \in {60, 72} /\ floor \in Nat
  BY DEF LeastConfidence
<1>2. \A p \in P : /\ s[p].confidence \in Nat /\ t[p].confidence \in Nat
                   /\ s[p].recommendation # "REVIEW" => s[p].confidence >= floor
                   /\ t[p].recommendation # "REVIEW" => t[p].confidence >= floor
                   /\ s[p].recommendation # "ABSTAIN" /\ t[p].recommendation # "ABSTAIN"
  BY <1>1 DEF Confident
<1>3. /\ Rank(decide(policy, Signals(s))) = rank(s)
      /\ Rank(decide(policy, Signals(t))) = rank(t)
  BY <1>2, Ranked
<1>4. yes(s) \subseteq yes(t) /\ yes(t) \subseteq P
  BY <1>2 DEF NoLessFavourable, Heeded
<1>5. no(t) \subseteq no(s) /\ no(s) \subseteq P
  BY <1>2 DEF NoLessFavourable, Opposes, Heeded
<1>6. yes(s) = P => weak(t) = {}
  <2> SUFFICES ASSUME yes(s) = P, NEW p \in weak(t) PROVE FALSE
    OBVIOUS
  <2>1. p \in P /\ t[p].confidence < floor
    BY DEF Unheeded
  <2>2. t[p].confidence >= floor
    BY <1>4, <2>1 DEF Heeded
  <2> QED  BY <1>1, <1>2, <2>1, <2>2
<1>7. n \in Nat
  BY FS_CardinalityType
<1> HIDE DEF yes, no, n, weak
<1>8. /\ IsFiniteSet(yes(t)) /\ IsFiniteSet(yes(s)) /\ IsFiniteSet(no(s)) /\ IsFiniteSet(no(t))
  BY <1>4, <1>5, FS_Subset
<1>9. /\ Cardinality(yes(s)) <= Cardinality(yes(t)) /\ Cardinality(yes(t)) <= n
      /\ Cardinality(no(t)) <= Cardinality(no(s))
      /\ Cardinality(yes(s)) = n => yes(s) = P
  BY <1>4, <1>5, <1>8, FS_Subset DEF n
<1>10. /\ pro(s) \in Nat /\ pro(t) \in Nat /\ con(s) \in Nat /\ con(t) \in Nat
       /\ pro(s) = Cardinality(yes(s)) /\ pro(t) = Cardinality(yes(t))
       /\ con(s) = Cardinality(no(s)) /\ con(t) = Cardinality(no(t))
  BY <1>8, FS_CardinalityType DEF Pro, Con, yes, no
<1> HIDE DEF pro, con
<1>11. pro(s) <= pro(t) /\ pro(t) <= n /\ con(t) <= con(s)
  BY <1>9, <1>10
<1>12. pro(s) = n => weak(t) = {} /\ pro(t) = n
  BY <1>6, <1>7, <1>9, <1>10
<1> DEFINE needed == policy.num * n
<1>13. needed \in Nat
  BY <1>7
<1> HIDE DEF needed
<1>14. \A x : rank(x) =
         CASE policy.type = "unanimous" ->
                IF con(x) > 0 THEN 0 ELSE IF weak(x) = {} /\ n > 0 /\ pro(x) = n THEN 2 ELSE 1
           [] policy.type \in {"majority", "supermajority"} ->
                IF (IF n > 0 THEN pro(x) * 100 >= needed ELSE policy.num <= 0) THEN 2
                ELSE IF con(x) > pro(x) THEN 0 ELSE 1
           [] policy.type = "none" -> IF con(x) > 0 THEN 0 ELSE 2
  BY DEF RankOf, needed
<1> HIDE DEF rank
<1>15. rank(t) >= rank(s)
  <2>1. CASE policy.type = "unanimous"
    BY <1>7, <1>10, <1>11, <1>12, <1>14, <2>1
  <2>2. CASE policy.type \in {"majority", "supermajority"}
    BY <1>7, <1>10, <1>11, <1>13, <1>14, <2>2
  <2>3. CASE policy.type = "none"
    BY <1>10, <1>11, <1>14, <2>3
  <2> QED  BY <2>1, <2>2, <2>3 DEF PolicyTypes
<1> QED  BY <1>3, <1>15

(* The hints of a launch are such as a pack's may be. *)
LEMMA HintsKept ==
  ASSUME IInv, stage = "launching", NEW name \in HintNames
  PROVE  HintOf(Pack, name, At(compiled.policyHints, <<name>>))
<1> DEFINE own == Template.launch
           base == Scenario.launch
           path == <<"policyHints", name>>
<1>1. At(compiled.policyHints, <<name>>) = IF path \in DOMAIN own THEN own[path] ELSE At(base, path)
  BY CompiledIs, MergedHints
<1>2. HintOf(Pack, name, At(base, path))
  BY PackKnown DEF ScenarioOf, LaunchDocument
<1>3. path \in DOMAIN own => HintOf(Pack, name, At(own, path))
  <2> SUFFICES ASSUME path \in DOMAIN own PROVE HintOf(Pack, name, At(own, path))
    OBVIOUS
  <2>1. path # <<>>
    OBVIOUS
  <2>2. Given(Root(own))
    <3> HIDE DEF path
    <3> QED  BY <2>1, OwnLaunch
  <2>3. LaunchDocument(Pack, own)
    BY <2>2, OwnLaunch
  <2> QED  BY <2>3 DEF LaunchDocument
<1> HIDE DEF own, base, path
<1>4. path \in DOMAIN own => At(own, path) = own[path]
  BY DEF At
<1> QED  BY <1>1, <1>2, <1>3, <1>4

(* The policy the coordinator makes of them. *)
LEMMA PolicyKept ==
  ASSUME IInv, stage = "launching"
  PROVE  LET policy == createPolicyStrategy(compiled.policyHints)
         IN /\ policy.type \in PolicyTypes /\ policy.num \in Nat /\ policy.den = 100
            /\ policy.vetoThreshold \in Nat \ {0}
            /\ policy.minimumConfidence \in 0 .. LeastConfidence(Pack)
<1> DEFINE hints == compiled.policyHints
<1>1. \A name \in HintNames : HintOf(Pack, name, At(hints, <<name>>))
  BY HintsKept
<1> HIDE DEF hints
<1>2. Hint(hints, "type", "none") \in PolicyTypes
  <2>1. HintOf(Pack, "type", At(hints, <<"type">>))
    BY <1>1 DEF HintNames
  <2>2. "none" \in PolicyTypes
    BY DEF PolicyTypes
  <2> QED  BY <2>1, <2>2 DEF Hint, HintOf
<1>3. Hint(hints, "threshold", 50) \in Nat
  <2>1. HintOf(Pack, "threshold", At(hints, <<"threshold">>))
    BY <1>1 DEF HintNames
  <2> QED  BY <2>1 DEF Hint, HintOf
<1>4. Hint(hints, "vetoThreshold", 1) \in Nat \ {0}
  <2>1. HintOf(Pack, "vetoThreshold", At(hints, <<"vetoThreshold">>))
    BY <1>1 DEF HintNames
  <2> QED  BY <2>1 DEF Hint, HintOf
<1>5. Hint(hints, "minimumConfidence", 0) \in 0 .. LeastConfidence(Pack)
  <2>1. HintOf(Pack, "minimumConfidence", At(hints, <<"minimumConfidence">>))
    BY <1>1 DEF HintNames
  <2>2. 0 \in 0 .. LeastConfidence(Pack)
    BY DEF LeastConfidence
  <2> QED  BY <2>1, <2>2 DEF Hint, HintOf
<1> QED  BY <1>2, <1>3, <1>4, <1>5 DEF createPolicyStrategy, hints

(* A launch has finitely many specialists. *)
LEMMA SpecialistsFinite ==
  ASSUME IInv, stage = "launching"
  PROVE  IsFiniteSet(Specialists)
<1> DEFINE own == Template.launch
           base == Scenario.launch
           path == <<"participants">>
           all == At(Merged, path)
<1>1. all = IF path \in DOMAIN own THEN own[path] ELSE At(base, path)
  BY MergedIs DEF Keys
<1>2. At(base, path).is \in Nat
  BY PackKnown DEF ScenarioOf, LaunchDocument
<1>3. path \in DOMAIN own => own[path].is \in Nat
  <2> SUFFICES ASSUME path \in DOMAIN own PROVE own[path].is \in Nat
    OBVIOUS
  <2>1. path # <<>>
    OBVIOUS
  <2>2. Given(Root(own))
    <3> HIDE DEF path
    <3> QED  BY <2>1, OwnLaunch
  <2>3. LaunchDocument(Pack, own)
    BY <2>2, OwnLaunch
  <2>4. own[path].kind # "absent" /\ At(own, path) = own[path]
    BY <2>3 DEF LaunchDocument, At
  <2> QED  BY <2>3, <2>4 DEF LaunchDocument
<1>4. all.is \in Nat
  BY <1>1, <1>2, <1>3
<1> HIDE DEF own, base
<1>5. compiled.participants = OfParticipants(Merged, "id")
  BY CompiledIs
<1>6. DOMAIN compiled.participants = 1 .. all.is
  BY <1>5 DEF OfParticipants
<1> DEFINE said == compiled.participants
           n == all.is
<1> HIDE DEF all, n
<1>7. n \in Nat /\ DOMAIN said = 1 .. n /\ IsFiniteSet(1 .. n)
  BY <1>4, <1>6, FS_Interval DEF n
<1>8. said \in Surjection(1 .. n, Participants)
  <2>1. said = [i \in 1 .. n |-> said[i]]
    BY <1>5, <1>7 DEF OfParticipants
  <2>2. \A i \in 1 .. n : said[i] \in Participants
    BY <1>7 DEF Participants
  <2>3. said \in [1 .. n -> Participants]
    BY <2>1, <2>2
  <2>4. \A p \in Participants : \E i \in 1 .. n : said[i] = p
    BY <1>7 DEF Participants
  <2> QED  BY <2>3, <2>4 DEF Surjection
<1>9. IsFiniteSet(Participants)
  BY <1>7, <1>8, FS_Surjection
<1>10. Specialists \subseteq Participants
  BY StartedAgent DEF Specialists
<1> QED  BY <1>9, <1>10, FS_Subset

(* Cases are compared by numbers. *)
LEMMA MeritIsNumber ==
  ASSUME NEW f \in FieldNames, NEW v \in ValuesOf(f)
  PROVE  Merit(f, v) \in Int
<1>1. CASE f \in Flags
  BY <1>1 DEF Merit, Flags
<1>2. CASE f = "incidentSeverity"
  <2>1. v \in {"minor", "moderate", "severe", "total_loss"}
    BY <1>2 DEF ValuesOf, Flags, CLAIMS_SEVERITY_SCORES
  <2> QED  BY <1>2, <2>1 DEF Merit, CLAIMS_SEVERITY_SCORES
<1>3. CASE f \notin Flags /\ f # "incidentSeverity"
  <2>1. v \in Int /\ 0 - v \in Int
    BY <1>3 DEF ValuesOf
  <2> QED  BY <1>3, <2>1 DEF Merit, Flags
<1> QED  BY <1>1, <1>2, <1>3

(* Improving one input of a run never makes its verdict less favourable, for    *)
(* every registry, deployment, request and grid of values.                   *)
THEOREM BetterCase == Spec => []BetterCaseNeverWorse
<1>1. ASSUME IInv PROVE BetterCaseNeverWorse
  <2> SUFFICES ASSUME stage = "launching", NEW f \in FieldsOf(Pack), f \in DOMAIN Grid,
                      NEW v \in Grid[f], Merit(f, v) > Merit(f, InputOf(f))
               PROVE  Rank(Verdict([FieldsGiven EXCEPT ![f] = v])) >= Rank(Verdict(FieldsGiven))
    BY DEF BetterCaseNeverWorse
  <2> DEFINE g == FieldsGiven
             h == [FieldsGiven EXCEPT ![f] = v]
             policy == createPolicyStrategy(compiled.policyHints)
             said(x) == [p \in Specialists |-> _score_result(agents[p].framework, Pack, x)]
  <2>1. Pack \in Domains /\ \A n \in FieldsOf(Pack) : n \in FieldNames
    BY <1>1, PackKnown, FieldsAreListed
  <2>2. /\ \A n \in FieldsOf(Pack) : g[n] = InputOf(n)
        /\ \A n \in FieldsOf(Pack) : h[n] = IF n = f THEN v ELSE g[n]
    BY <2>1 DEF FieldsGiven
  <2> HIDE DEF g, h
  <2>3. \A n \in FieldsOf(Pack) : g[n] \in ValuesOf(n)
    BY <1>1, <2>2, InputsAre
  <2>4. v \in ValuesOf(f)
    BY GridAssumption
  <2>5. \A n \in FieldsOf(Pack) : h[n] \in ValuesOf(n)
    BY <2>2, <2>3, <2>4
  <2>6. \A n \in FieldsOf(Pack) : Merit(n, g[n]) \in Int /\ Merit(n, h[n]) \in Int
    BY <2>1, <2>3, <2>5, MeritIsNumber
  <2>7. \A n \in FieldsOf(Pack) : Merit(n, h[n]) >= Merit(n, g[n])
    <3> SUFFICES ASSUME NEW n \in FieldsOf(Pack) PROVE Merit(n, h[n]) >= Merit(n, g[n])
      OBVIOUS
    <3>1. CASE n = f
      BY <2>2, <2>6, <3>1
    <3>2. CASE n # f
      BY <2>2, <2>6, <3>2
    <3> QED  BY <3>1, <3>2
  <2>8. Filled(Pack, g) /\ Filled(Pack, h) /\ NoWorse(Pack, g, h)
    BY <2>3, <2>5, <2>7 DEF Filled, NoWorse
  <2>9. \A p \in Specialists :
          /\ Confident(Pack, said(g)[p]) /\ Confident(Pack, said(h)[p])
          /\ NoLessFavourable(said(g)[p], said(h)[p])
    BY <1>1, <2>1, <2>8, SpecialistWorker, ScoreImproves
  <2>10. DOMAIN said(g) = Specialists /\ DOMAIN said(h) = Specialists
    OBVIOUS
  <2>11. /\ policy.type \in PolicyTypes /\ policy.num \in Nat /\ policy.den = 100
         /\ policy.vetoThreshold \in Nat \ {0}
         /\ policy.minimumConfidence \in 0 .. LeastConfidence(Pack)
    BY <1>1, PolicyKept
  <2>12. IsFiniteSet(Specialists)
    BY <1>1, SpecialistsFinite
  <2>13. \A x : Verdict(x) = decide(policy, Signals(said(x)))
    BY DEF Verdict
  <2> HIDE DEF said, policy
  <2>14. Rank(decide(policy, Signals(said(h)))) >= Rank(decide(policy, Signals(said(g))))
    BY <2>9, <2>10, <2>11, <2>12, DecideImproves
  <2> QED  BY <2>13, <2>14 DEF g, h
<1> QED  BY <1>1, Invariance, PTL
=============================================================================
