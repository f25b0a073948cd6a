-------------------------- MODULE PackLoaderProofs --------------------------
(***************************************************************************)
(* Theorems about PackLoader: the walk implements the one-step load of       *)
(* CatalogueLoad, and packs that pass the checks of ScenarioChecks are       *)
(* served, for every set of packs directories that DisksAssumption admits.  *)
(*                                                                         *)
(* First, what a document stands for: the recursion of IncludeResolver       *)
(* exists and agrees with the reachability of CatalogueLoad on every graph   *)
(* of includes (LoadedIs), by induction on the number of files not yet on    *)
(* the way from the root.  Then the invariant of the walk, level by level:   *)
(* the maps built so far serve what has been read.                          *)
(***************************************************************************)
EXTENDS PackLoader, FiniteSetTheorems, WellFoundedInduction, TLAPS

-----------------------------------------------------------------------------
(* Induction over the natural numbers for a set: the theorems of the library   *)
(* take the induction predicate as an operator; here a fact is cited with the *)
(* set of the numbers it holds for.                                         *)

(* A non-empty set of natural numbers has a minimum. *)
LEMMA Minimum ==
  ASSUME NEW T \in SUBSET Nat, T # {}
  PROVE  \E x \in T : \A y \in T : x <= y
<1>1. PICK x \in T : \A y \in T : ~(<<y, x>> \in OpToRel(<, Nat))
  BY WFMin, NatLessThanWellFounded
<1>2. \A y \in T : ~(y < x)
  BY <1>1 DEF OpToRel
<1>3. x \in Nat /\ \A y \in T : y \in Nat
  OBVIOUS
<1> QED  BY <1>2, <1>3

(* What holds of 0, and of n + 1 if it holds of n, holds of every number.    *)
LEMMA Induction ==
  ASSUME NEW S, 0 \in S, \A n \in Nat : n \in S => n + 1 \in S
  PROVE  Nat \subseteq S
<1> SUFFICES ASSUME Nat \ S # {} PROVE FALSE
  OBVIOUS
<1>1. PICK x \in Nat \ S : \A y \in Nat \ S : x <= y
  BY Minimum
<1>2. x # 0 /\ x - 1 \in Nat
  BY <1>1
<1>3. x - 1 \in S
  BY <1>1, <1>2
<1>4. (x - 1) + 1 \in S
  BY <1>2, <1>3
<1> QED  BY <1>1, <1>4

(* g goes through the first n elements of s, from base, taking F for a step. *)
IsFold(g, F, base, s, n) == g[0] = base /\ \A k \in 1 .. n : g[k] = F[g[k - 1]][s[k]]

(* Such a function exists, with values of the type F gives them.             *)
LEMMA FoldExists ==
  ASSUME NEW R, NEW T, NEW F \in [R -> [T -> R]], NEW base \in R,
         NEW n \in Nat, NEW s \in [1 .. n -> T]
  PROVE  \E g \in [0 .. n -> R] : IsFold(g, F, base, s, n)
<1> DEFINE Folds(m) == {g \in [0 .. m -> R] : IsFold(g, F, base, s, m)}
           Defined == {m \in Nat : m <= n => Folds(m) # {}}
<1>1. 0 \in Defined
  <2>1. [k \in 0 .. 0 |-> base] \in Folds(0)
    BY DEF IsFold
  <2> QED  BY <2>1
<1>2. ASSUME NEW m \in Nat, m \in Defined, m + 1 <= n
      PROVE  Folds(m + 1) # {}
  <2>1. PICK g : g \in [0 .. m -> R] /\ IsFold(g, F, base, s, m)
    BY <1>2
  <2> DEFINE last == F[g[m]][s[m + 1]]
             h == [k \in 0 .. m + 1 |-> IF k = m + 1 THEN last ELSE g[k]]
  <2>2. g[m] \in R /\ s[m + 1] \in T
    BY <1>2, <2>1
  <2>3. last \in R
    BY <2>2
  <2> HIDE DEF last
  <2>4. h \in [0 .. m + 1 -> R]
    BY <1>2, <2>1, <2>3
  <2>5. h[0] = base
    BY <1>2, <2>1 DEF IsFold
  <2>6. ASSUME NEW k \in 1 .. m + 1
        PROVE  h[k] = F[h[k - 1]][s[k]]
    <3>1. k - 1 \in 0 .. m /\ k \in 0 .. m + 1 /\ k - 1 \in 0 .. m + 1 /\ k - 1 # m + 1
      BY <1>2
    <3>2. h[k - 1] = g[k - 1]
      BY <3>1
    <3>3. CASE k = m + 1
      BY <3>1, <3>2, <3>3 DEF last
    <3>4. CASE k # m + 1
      <4>1. k \in 1 .. m
        BY <1>2, <3>4
      <4> QED  BY <2>1, <3>1, <3>2, <3>4, <4>1 DEF IsFold
    <3> QED  BY <3>3, <3>4
  <2>7. h \in Folds(m + 1)
    BY <2>4, <2>5, <2>6 DEF IsFold
  <2> QED  BY <2>7
<1> HIDE DEF Folds
<1>3. ASSUME NEW m \in Nat, m \in Defined
      PROVE  m + 1 \in Defined
  <2>1. m + 1 \in Nat
    OBVIOUS
  <2> QED  BY <1>2, <1>3, <2>1
<1> HIDE DEF Defined
<1>4. Nat \subseteq Defined
  BY <1>1, <1>3, Induction
<1>5. n \in Defined /\ n <= n
  BY <1>4
<1>6. Folds(n) # {}
  BY <1>5 DEF Defined
<1>7. PICK g : g \in Folds(n)
  BY <1>6
<1> QED  BY <1>7 DEF Folds

-----------------------------------------------------------------------------
(* Includes: the recursion over files and visited sets exists.               *)

(* What a document stands for depends on the files it includes, which lie     *)
(* further from the root.                                                    *)
LEMMA ParsedDepends ==
  ASSUME NEW docs, Documents(docs), NEW v \in SUBSET DOMAIN docs, NEW f \in DOMAIN docs,
         NEW p, NEW q,
         \A g \in DOMAIN docs \ v : p[v \cup {g}][g] = q[v \cup {g}][g]
  PROVE  Parsed(docs, f, v, p) = Parsed(docs, f, v, q)
<1>1. \A g \in DOMAIN docs : loadFile(docs, g, v, p) = loadFile(docs, g, v, q)
  BY DEF loadFile, resolveIncludePath
<1>2. docs[f].includes \subseteq DOMAIN docs
  BY DEF Documents
<1>3. docs[f].text = "alias" => (CHOOSE g \in docs[f].includes : TRUE) \in DOMAIN docs
  BY <1>2 DEF Documents
<1> QED  BY <1>1, <1>2, <1>3 DEF Parsed

(* A document stands for a file, or is invalid. *)
LEMMA ParsedType ==
  ASSUME NEW docs, Documents(docs), NEW v \in SUBSET DOMAIN docs, NEW f \in DOMAIN docs,
         NEW p \in [SUBSET DOMAIN docs -> [DOMAIN docs -> DOMAIN docs \cup {Invalid}]]
  PROVE  Parsed(docs, f, v, p) \in DOMAIN docs \cup {Invalid}
<1>1. \A g \in DOMAIN docs : loadFile(docs, g, v, p) \in DOMAIN docs \cup {Invalid}
  BY DEF loadFile
<1>2. docs[f].text = "alias" => (CHOOSE g \in docs[f].includes : TRUE) \in DOMAIN docs
  BY DEF Documents
<1> QED  BY <1>1, <1>2 DEF Parsed

(* One file further away, one file less to come.                             *)
LEMMA OneLess ==
  ASSUME NEW D, IsFiniteSet(D), NEW v \in SUBSET D, NEW g \in D \ v
  PROVE  /\ Cardinality(D \ v) \in Nat /\ Cardinality(D \ (v \cup {g})) \in Nat
         /\ Cardinality(D \ (v \cup {g})) < Cardinality(D \ v)
<1>1. IsFiniteSet(D \ v) /\ g \in D \ v
  BY FS_Subset
<1>2. D \ (v \cup {g}) = (D \ v) \ {g}
  OBVIOUS
<1>3. Cardinality((D \ v) \ {g}) = Cardinality(D \ v) - 1 /\ IsFiniteSet((D \ v) \ {g})
  BY <1>1, FS_RemoveElement
<1>4. Cardinality(D \ v) \in Nat /\ Cardinality((D \ v) \ {g}) \in Nat
  BY <1>1, <1>3, FS_CardinalityType
<1> QED  BY <1>2, <1>3, <1>4

(* The recursion has a solution: every visited set is settled once all larger *)
(* ones are, and nothing is larger than all files.                           *)
LEMMA ParseExists ==
  ASSUME NEW docs, Documents(docs)
  PROVE  \A v \in SUBSET DOMAIN docs : \A f \in DOMAIN docs :
           parseYamlContent(docs)[v][f] = Parsed(docs, f, v, parseYamlContent(docs))
<1> DEFINE D == DOMAIN docs
           N == Cardinality(D)
           R == [SUBSET D -> [D -> D \cup {Invalid}]]
           Deeper(p) == [v \in SUBSET D |-> [f \in D |-> Parsed(docs, f, v, p)]]
           F == [p \in R |-> [t \in {0} |-> Deeper(p)]]
           base == [v \in SUBSET D |-> [f \in D |-> Invalid]]
           zeros == [k \in 1 .. N + 2 |-> 0]
           parse == parseYamlContent(docs)
<1>1. IsFiniteSet(D) /\ N \in Nat
  BY FS_CardinalityType DEF Documents
<1>2. \A p \in R : Deeper(p) \in R
  <2> SUFFICES ASSUME NEW p \in R PROVE Deeper(p) \in R
    OBVIOUS
  <2>1. \A v \in SUBSET D, f \in D : Parsed(docs, f, v, p) \in D \cup {Invalid}
    BY ParsedType
  <2> QED  BY <2>1
<1>3. base \in R /\ F \in [R -> [{0} -> R]]
  BY <1>2
<1> HIDE DEF Deeper
<1>4. PICK h \in [0 .. N + 2 -> R] : \A k \in 1 .. N + 2 : h[k] = Deeper(h[k - 1])
  <2>1. N + 2 \in Nat /\ zeros \in [1 .. N + 2 -> {0}]
    BY <1>1
  <2> HIDE DEF base, R, zeros
  <2>2. PICK h \in [0 .. N + 2 -> R] : IsFold(h, F, base, zeros, N + 2)
    BY <1>3, <2>1, FoldExists
  <2>3. ASSUME NEW k \in 1 .. N + 2 PROVE h[k] = Deeper(h[k - 1])
    <3>1. h[k - 1] \in R /\ zeros[k] = 0
      BY <1>1, <2>1 DEF zeros
    <3>2. h[k] = F[h[k - 1]][zeros[k]]
      BY <2>2 DEF IsFold
    <3> QED  BY <3>1, <3>2
  <2> QED  BY <2>3
<1> DEFINE Settled(k) == \A v \in SUBSET D : Cardinality(D \ v) < k => h[k][v] = h[k + 1][v]
           Levels == {k \in Nat : k <= N + 1 => Settled(k)}
<1> HIDE DEF R
<1>5. 0 \in Levels
  <2>1. \A v \in SUBSET D : Cardinality(D \ v) \in Nat
    BY <1>1, FS_Subset, FS_CardinalityType
  <2>2. \A v \in SUBSET D : ~(Cardinality(D \ v) < 0)
    <3> SUFFICES ASSUME NEW v \in SUBSET D PROVE ~(Cardinality(D \ v) < 0)
      OBVIOUS
    <3> DEFINE c == Cardinality(D \ v)
    <3>1. c \in Nat
      BY <2>1
    <3> HIDE DEF c
    <3>2. ~(c < 0)
      BY <3>1
    <3> QED  BY <3>2 DEF c
  <2>3. Settled(0)
    BY <2>2, Zenon
  <2> HIDE DEF Settled
  <2> QED  BY <2>3
<1>6. ASSUME NEW k \in Nat, k \in Levels PROVE k + 1 \in Levels
  <2> SUFFICES ASSUME k + 1 <= N + 1 PROVE Settled(k + 1)
    <3> HIDE DEF Settled
    <3> QED  BY <1>6
  <2> SUFFICES ASSUME NEW v \in SUBSET D, Cardinality(D \ v) < k + 1
               PROVE  h[k + 1][v] = h[(k + 1) + 1][v]
    OBVIOUS
  <2>1. Settled(k)
    <3> HIDE DEF Settled, N, D
    <3>1. k <= N + 1
      BY <1>1, <1>6
    <3> QED  BY <1>6, <3>1
  <2>2. h[k + 1] = Deeper(h[k]) /\ h[(k + 1) + 1] = Deeper(h[k + 1])
    <3>1. k + 1 \in 1 .. N + 2 /\ (k + 1) + 1 \in 1 .. N + 2 /\ (k + 1) - 1 = k
          /\ ((k + 1) + 1) - 1 = k + 1
      BY <1>1, <1>6
    <3> QED  BY <1>4, <3>1
  <2>3. \A g \in D \ v : h[k][v \cup {g}][g] = h[k + 1][v \cup {g}][g]
    <3> SUFFICES ASSUME NEW g \in D \ v PROVE h[k][v \cup {g}] = h[k + 1][v \cup {g}]
      OBVIOUS
    <3>1. Cardinality(D \ (v \cup {g})) < k
      <4>1. v \in SUBSET D /\ g \in D \ v
        OBVIOUS
      <4> HIDE DEF N, D
      <4>2. /\ Cardinality(D \ v) \in Nat /\ Cardinality(D \ (v \cup {g})) \in Nat
            /\ Cardinality(D \ (v \cup {g})) < Cardinality(D \ v)
        BY <1>1, <4>1, OneLess
      <4> QED  BY <1>6, <4>2
    <3>2. v \cup {g} \in SUBSET D
      OBVIOUS
    <3> QED  BY <2>1, <3>1, <3>2
  <2> DEFINE a == h[k]
             b == h[k + 1]
  <2>4. \A f \in D : Parsed(docs, f, v, a) = Parsed(docs, f, v, b)
    <3> HIDE DEF a, b, D
    <3> SUFFICES ASSUME NEW f \in D PROVE Parsed(docs, f, v, a) = Parsed(docs, f, v, b)
      OBVIOUS
    <3>1. \A g \in D \ v : a[v \cup {g}][g] = b[v \cup {g}][g]
      BY <2>3 DEF a, b
    <3> QED  BY <3>1, ParsedDepends DEF D
  <2> HIDE DEF a, b
  <2>5. Deeper(a)[v] = Deeper(b)[v]
    BY <2>4 DEF Deeper
  <2> QED  BY <2>2, <2>5 DEF a, b
<1>7. Settled(N + 1)
  <2> HIDE DEF Settled, D, N
  <2>1. Nat \subseteq Levels
    BY <1>5, <1>6, Induction
  <2> QED  BY <1>1, <2>1
<1> DEFINE q == h[N + 1]
           Def(r) == r = [v \in SUBSET D |-> [f \in D |-> Parsed(docs, f, v, r)]]
<1>8. Def(q)
  <2>1. N + 1 \in 1 .. N + 2 /\ N + 2 \in 1 .. N + 2 /\ (N + 2) - 1 = N + 1 /\ (N + 1) + 1 = N + 2
        /\ N + 1 \in 0 .. N + 2 /\ (N + 1) - 1 \in 0 .. N + 2
    BY <1>1
  <2>2. q = Deeper(h[(N + 1) - 1]) /\ h[N + 2] = Deeper(q)
    BY <1>4, <2>1
  <2>3. \A v \in SUBSET D : q[v] = h[N + 2][v]
    <3> SUFFICES ASSUME NEW v \in SUBSET D PROVE Cardinality(D \ v) < N + 1
      BY <1>7, <2>1
    <3>1. D \ v \subseteq D
      OBVIOUS
    <3> QED  BY <1>1, <3>1, FS_Subset, FS_CardinalityType
  <2> HIDE DEF q
  <2>4. q = [v \in SUBSET D |-> q[v]]
    BY <2>2 DEF Deeper
  <2>5. \A v \in SUBSET D : q[v] = [f \in D |-> Parsed(docs, f, v, q)]
    BY <2>2, <2>3 DEF Deeper
  <2> QED  BY <2>4, <2>5
<1>9. parse = CHOOSE r : Def(r)
  BY DEF parseYamlContent
<1>10. Def(parse)
  <2> HIDE DEF Def, parse, q
  <2> QED  BY <1>8, <1>9
<1> QED  BY <1>10

-----------------------------------------------------------------------------
(* Reachability: the files reachable from f are the least set with f that the *)
(* edges do not leave.                                                       *)
Closed(S, edges) == \A e \in edges : e[1] \in S => e[2] \in S

(* As many steps as there are files reach all of them, for a step that adds   *)
(* nothing is the last.                                                      *)
LEMMA ReachableIs ==
  ASSUME NEW docs, IsFiniteSet(DOMAIN docs),
         NEW edges \in SUBSET ((DOMAIN docs) \X (DOMAIN docs)),
         NEW f \in DOMAIN docs
  PROVE  LET R == Catalogue!Reachable(docs, edges, f) IN
         /\ f \in R /\ R \subseteq DOMAIN docs /\ Closed(R, edges)
         /\ \A S : f \in S /\ Closed(S, edges) => R \subseteq S
<1> DEFINE D == DOMAIN docs
           N == Cardinality(D)
           Wider(S) == S \cup {e[2] : e \in {e \in edges : e[1] \in S}}
           F == [S \in SUBSET D |-> [t \in {0} |-> Wider(S)]]
           zeros == [k \in 1 .. N |-> 0]
           Def(w) == w = [n \in 0 .. N |-> IF n = 0 THEN {f} ELSE Wider(w[n - 1])]
           within == CHOOSE w : Def(w)
<1>1. IsFiniteSet(D) /\ N \in Nat
  BY FS_CardinalityType
<1>2. \A S \in SUBSET D : Wider(S) \in SUBSET D
  OBVIOUS
<1>3. \A S : /\ S \subseteq Wider(S) /\ (Wider(S) = S => Closed(S, edges))
             /\ \A T : S \subseteq T /\ Closed(T, edges) => Wider(S) \subseteq T
  BY DEF Closed
<1>4. Catalogue!Reachable(docs, edges, f) = within[N]
  BY DEF Catalogue!Reachable, Catalogue!Cardinality, Cardinality
<1> HIDE DEF Wider
<1>5. Def(within)
  <2>1. {f} \in SUBSET D /\ F \in [SUBSET D -> [{0} -> SUBSET D]] /\ zeros \in [1 .. N -> {0}]
    BY <1>2
  <2>2. PICK h \in [0 .. N -> SUBSET D] : IsFold(h, F, {f}, zeros, N)
    <3> HIDE DEF F, zeros, D, N
    <3> QED  BY <1>1, <2>1, FoldExists
  <2>3. ASSUME NEW k \in 1 .. N PROVE h[k] = Wider(h[k - 1])
    <3>1. h[k - 1] \in SUBSET D /\ zeros[k] = 0
      BY <1>1
    <3>2. h[k] = F[h[k - 1]][zeros[k]]
      BY <2>2 DEF IsFold
    <3> QED  BY <3>1, <3>2
  <2>4. h[0] = {f}
    BY <2>2 DEF IsFold
  <2>5. \A k \in 0 .. N : h[k] = IF k = 0 THEN {f} ELSE Wider(h[k - 1])
    BY <1>1, <2>3, <2>4
  <2>6. Def(h)
    BY <2>5
  <2> HIDE DEF Def
  <2> QED  BY <2>6
<1> HIDE DEF within
<1>6. within[0] = {f} /\ \A k \in Nat : k + 1 <= N => within[k + 1] = Wider(within[k])
  <2>1. \A n \in 0 .. N : within[n] = IF n = 0 THEN {f} ELSE Wider(within[n - 1])
    BY <1>5
  <2>2. 0 \in 0 .. N
    BY <1>1
  <2>3. ASSUME NEW k \in Nat, k + 1 <= N PROVE within[k + 1] = Wider(within[k])
    <3>1. k + 1 \in 0 .. N /\ k + 1 # 0 /\ (k + 1) - 1 = k
      BY <1>1, <2>3
    <3> QED  BY <2>1, <3>1
  <2> QED  BY <2>1, <2>2, <2>3
<1> DEFINE Good(k) ==
             /\ f \in within[k] /\ within[k] \subseteq D
             /\ \A S : f \in S /\ Closed(S, edges) => within[k] \subseteq S
             /\ Closed(within[k], edges) \/ Cardinality(within[k]) >= k + 1
           Levels == {k \in Nat : k <= N => Good(k)}
<1>7. 0 \in Levels
  <2>1. Cardinality({f}) = 1
    BY FS_Singleton
  <2>2. Good(0)
    BY <1>6, <2>1
  <2> HIDE DEF Good
  <2> QED  BY <2>2
<1>8. ASSUME NEW k \in Nat, k \in Levels PROVE k + 1 \in Levels
  <2> SUFFICES ASSUME k + 1 <= N PROVE Good(k + 1)
    <3> HIDE DEF Good
    <3> QED  BY <1>8
  <2>1. Good(k)
    BY <1>1, <1>8
  <2>2. within[k + 1] = Wider(within[k])
    BY <1>6
  <2>3. f \in within[k + 1] /\ within[k + 1] \subseteq D
    BY <1>2, <1>3, <2>1, <2>2
  <2>4. \A S : f \in S /\ Closed(S, edges) => within[k + 1] \subseteq S
    BY <1>3, <2>1, <2>2
  <2>5. Closed(within[k + 1], edges) \/ Cardinality(within[k + 1]) >= (k + 1) + 1
    <3>1. CASE within[k + 1] = within[k]
      BY <1>3, <2>2, <3>1
    <3>2. CASE within[k + 1] # within[k]
      <4>1. IsFiniteSet(within[k + 1]) /\ within[k] \subseteq within[k + 1]
        BY <1>1, <1>3, <2>2, <2>3, FS_Subset
      <4>2. /\ IsFiniteSet(within[k]) /\ Cardinality(within[k]) < Cardinality(within[k + 1])
            /\ Cardinality(within[k]) \in Nat /\ Cardinality(within[k + 1]) \in Nat
        BY <3>2, <4>1, FS_Subset, FS_CardinalityType
      <4>3. CASE Closed(within[k], edges)
        <5>1. within[k + 1] \subseteq within[k]
          BY <1>3, <2>2, <4>3
        <5> QED  BY <3>2, <4>1, <5>1
      <4>4. CASE Cardinality(within[k]) >= k + 1
        BY <4>2, <4>4
      <4> QED  BY <2>1, <4>3, <4>4
    <3> QED  BY <3>1, <3>2
  <2> QED  BY <2>3, <2>4, <2>5
<1>9. Good(N)
  <2> HIDE DEF Good
  <2>1. Nat \subseteq Levels
    BY <1>7, <1>8, Induction
  <2> QED  BY <1>1, <2>1
<1>10. Closed(within[N], edges)
  <2>1. Cardinality(within[N]) \in Nat /\ Cardinality(within[N]) <= N
    BY <1>1, <1>9, FS_Subset, FS_CardinalityType
  <2> QED  BY <1>1, <1>9, <2>1
<1> QED  BY <1>4, <1>9, <1>10

-----------------------------------------------------------------------------
(* Documents: what the recursion makes of a file, and what CatalogueLoad says *)
(* of it by reachability, are the same.                                      *)
Edges(docs) == Catalogue!Includes(docs)
Aliases(docs) == {e \in Edges(docs) : docs[e[1]].text = "alias"}
Reach(docs, f) == Catalogue!Reachable(docs, Edges(docs), f)
Ends(docs, f) == {g \in Catalogue!Reachable(docs, Aliases(docs), f) : docs[g].text # "alias"}

Includable(docs, g) == docs[g].inside /\ docs[g].ext # "other" /\ docs[g].text # "missing"

(* An include of f is an edge, unless f is JSON. *)
LEMMA EdgesAre ==
  ASSUME NEW docs, Documents(docs), NEW f \in DOMAIN docs
  PROVE  /\ Edges(docs) \in SUBSET ((DOMAIN docs) \X (DOMAIN docs))
         /\ Aliases(docs) \in SUBSET ((DOMAIN docs) \X (DOMAIN docs))
         /\ docs[f].includes \in SUBSET DOMAIN docs
         /\ docs[f].ext # "json" => \A g \in docs[f].includes : <<f, g>> \in Edges(docs)
         /\ \A e \in Edges(docs) : e[1] = f => docs[f].ext # "json" /\ e[2] \in docs[f].includes
  BY DEF Edges, Aliases, Catalogue!Includes, Documents

(* From f one reaches f, and what one reaches from its includes.             *)
LEMMA ReachFrom ==
  ASSUME NEW docs, Documents(docs), NEW f \in DOMAIN docs
  PROVE  /\ f \in Reach(docs, f) /\ Reach(docs, f) \subseteq DOMAIN docs
         /\ \A e \in Edges(docs) : e[1] \in Reach(docs, f) => e[2] \in Reach(docs, f)
         /\ \A g \in Reach(docs, f) : Reach(docs, g) \subseteq Reach(docs, f)
         /\ \A h \in Reach(docs, f) :
              \/ h = f
              \/ docs[f].ext # "json" /\ \E g \in docs[f].includes : h \in Reach(docs, g)
<1> DEFINE D == DOMAIN docs
           S == {f} \cup UNION {Reach(docs, g) : g \in {g \in docs[f].includes : docs[f].ext # "json"}}
<1>1. IsFiniteSet(D) /\ Edges(docs) \in SUBSET (D \X D) /\ docs[f].includes \in SUBSET D
  BY EdgesAre DEF Documents
<1>2. \A g \in D : /\ g \in Reach(docs, g) /\ Reach(docs, g) \subseteq D
                   /\ Closed(Reach(docs, g), Edges(docs))
                   /\ \A T : g \in T /\ Closed(T, Edges(docs)) => Reach(docs, g) \subseteq T
  BY <1>1, ReachableIs DEF Reach
<1>3. \A g \in Reach(docs, f) : Reach(docs, g) \subseteq Reach(docs, f)
  BY <1>2
<1>4. Closed(S, Edges(docs))
  <2> SUFFICES ASSUME NEW e \in Edges(docs), e[1] \in S PROVE e[2] \in S
    BY DEF Closed
  <2>1. CASE e[1] = f
    <3>1. docs[f].ext # "json" /\ e[2] \in docs[f].includes /\ e[2] \in D
      BY <1>1, <2>1, EdgesAre
    <3> QED  BY <1>2, <3>1
  <2>2. CASE e[1] # f
    <3>1. PICK g \in docs[f].includes : docs[f].ext # "json" /\ e[1] \in Reach(docs, g)
      BY <2>2
    <3>2. e[2] \in Reach(docs, g)
      BY <1>1, <1>2, <3>1 DEF Closed
    <3> QED  BY <3>1, <3>2
  <2> QED  BY <2>1, <2>2
<1>5. Reach(docs, f) \subseteq S
  BY <1>2, <1>4
<1> QED  BY <1>2, <1>3, <1>5 DEF Closed

(* The last document of a chain of aliases.                                  *)
LEMMA EndsAre ==
  ASSUME NEW docs, Documents(docs), NEW f \in DOMAIN docs
  PROVE  /\ docs[f].text # "alias" => Ends(docs, f) = {f}
         /\ \A g \in DOMAIN docs :
              docs[f].text = "alias" /\ docs[f].includes = {g} => Ends(docs, f) = Ends(docs, g)
<1> DEFINE D == DOMAIN docs
           A == Aliases(docs)
           R(g) == Catalogue!Reachable(docs, A, g)
<1>1. IsFiniteSet(D) /\ A \in SUBSET (D \X D)
  BY EdgesAre DEF Documents
<1>2. \A g \in D : /\ g \in R(g) /\ Closed(R(g), A)
                   /\ \A T : g \in T /\ Closed(T, A) => R(g) \subseteq T
  BY <1>1, ReachableIs
<1>3. \A e \in A : docs[e[1]].text = "alias" /\ e[2] \in docs[e[1]].includes
  BY DEF Aliases, Edges, Catalogue!Includes
<1>4. Ends(docs, f) = {h \in R(f) : docs[h].text # "alias"}
  BY DEF Ends
<1> HIDE DEF A, R
<1>5. ASSUME docs[f].text # "alias" PROVE Ends(docs, f) = {f}
  <2>1. Closed({f}, A)
    BY <1>3, <1>5 DEF Closed
  <2>2. R(f) = {f}
    BY <1>2, <2>1
  <2> QED  BY <1>4, <1>5, <2>2
<1>6. ASSUME NEW g \in D, docs[f].text = "alias", docs[f].includes = {g}
      PROVE  Ends(docs, f) = Ends(docs, g)
  <2>1. Closed({f} \cup R(g), A)
    <3> SUFFICES ASSUME NEW e \in A, e[1] \in {f} \cup R(g) PROVE e[2] \in {f} \cup R(g)
      BY DEF Closed
    <3>1. CASE e[1] = f
      BY <1>2, <1>3, <1>6, <3>1
    <3>2. CASE e[1] \in R(g)
      BY <1>2, <1>6, <3>2 DEF Closed
    <3> QED  BY <3>1, <3>2
  <2>2. R(f) \subseteq {f} \cup R(g)
    BY <1>2, <2>1
  <2>3. <<f, g>> \in A
    BY <1>6, EdgesAre DEF A, Aliases, Documents
  <2>4. g \in R(f) /\ R(g) \subseteq R(f)
    BY <1>2, <1>6, <2>3 DEF Closed
  <2>5. Ends(docs, g) = {h \in R(g) : docs[h].text # "alias"}
    BY DEF Ends, R, A
  <2> QED  BY <1>4, <1>6, <2>2, <2>4, <2>5
<1> QED  BY <1>5, <1>6

(* Broken, one include at a time. *)
LEMMA BrokenStep ==
  ASSUME NEW docs, Documents(docs), NEW f \in DOMAIN docs
  PROVE  ~Catalogue!Broken(docs, f) <=>
           /\ docs[f].text # "broken"
           /\ docs[f].ext # "json" => \A g \in docs[f].includes :
                /\ Includable(docs, g) /\ ~Catalogue!Broken(docs, g)
                /\ f \notin Reach(docs, g)
<1> DEFINE D == DOMAIN docs
           E == Edges(docs)
           Fine(h, r) == /\ docs[h].text # "broken"
                         /\ h # r => Includable(docs, h)
                         /\ \A e \in E : e[1] = h => h \notin Reach(docs, e[2])
<1>1. \A r : ~Catalogue!Broken(docs, r) <=> \A h \in Reach(docs, r) : Fine(h, r)
  BY DEF Catalogue!Broken, Reach, Edges, Includable
<1>2. \A g \in docs[f].includes : g \in D
  BY EdgesAre
<1>3. /\ f \in Reach(docs, f)
      /\ docs[f].ext # "json" => \A g \in docs[f].includes : <<f, g>> \in E
      /\ \A e \in E : e[1] = f => docs[f].ext # "json" /\ e[2] \in docs[f].includes
  BY ReachFrom, EdgesAre
<1> HIDE DEF E
<1>4. ASSUME ~Catalogue!Broken(docs, f), docs[f].ext # "json", NEW g \in docs[f].includes
      PROVE  Includable(docs, g) /\ ~Catalogue!Broken(docs, g) /\ f \notin Reach(docs, g)
  <2>1. <<f, g>> \in E /\ Fine(f, f) /\ \A h \in Reach(docs, f) : Fine(h, f)
    BY <1>1, <1>3, <1>4
  <2>2. f \notin Reach(docs, g)
    BY <2>1
  <2>3. g \in Reach(docs, g) /\ g \in D
    BY <1>2, <1>4, ReachFrom
  <2>4. g \in Reach(docs, f)
    BY <1>3, <2>1, ReachFrom DEF E
  <2>5. Reach(docs, g) \subseteq Reach(docs, f)
    BY <2>4, ReachFrom
  <2>6. \A h \in Reach(docs, g) : h # f /\ Fine(h, f)
    BY <2>1, <2>2, <2>5
  <2>7. \A h \in Reach(docs, g) : Fine(h, g)
    BY <2>6
  <2> HIDE DEF Fine
  <2>8. ~Catalogue!Broken(docs, g)
    BY <1>1, <2>7
  <2>9. Includable(docs, g)
    BY <2>3, <2>6 DEF Fine
  <2> QED  BY <2>2, <2>8, <2>9
<1>5. ASSUME docs[f].text # "broken",
             docs[f].ext # "json" => \A g \in docs[f].includes :
               Includable(docs, g) /\ ~Catalogue!Broken(docs, g) /\ f \notin Reach(docs, g),
             NEW h \in Reach(docs, f)
      PROVE  Fine(h, f)
  <2>1. CASE h = f
    BY <1>3, <1>5, <2>1
  <2>2. ASSUME docs[f].ext # "json", NEW g \in docs[f].includes, h \in Reach(docs, g)
        PROVE  Fine(h, f)
    <3>1. Fine(h, g) /\ Includable(docs, g)
      BY <1>1, <1>5, <2>2
    <3> QED  BY <3>1
  <2>3. \/ h = f
        \/ docs[f].ext # "json" /\ \E g \in docs[f].includes : h \in Reach(docs, g)
    BY <1>5, ReachFrom
  <2> QED  BY <2>1, <2>2, <2>3
<1> HIDE DEF Fine
<1>6. ~Catalogue!Broken(docs, f) => docs[f].text # "broken"
  BY <1>1, <1>3 DEF Fine
<1> QED  BY <1>1, <1>4, <1>5, <1>6

(* The recursion agrees with reachability, on the way from the root that v    *)
(* holds.                                                                    *)
Agrees(docs, f, v) ==
  LET x == parseYamlContent(docs)[v][f] IN
  /\ x # Invalid <=> ~Catalogue!Broken(docs, f) /\ Reach(docs, f) \cap v \subseteq {f}
  /\ x # Invalid => Ends(docs, f) = {x}

(* What an include stands for, if the recursion agrees further from the root. *)
LEMMA IncludeAgrees ==
  ASSUME NEW docs, Documents(docs), NEW v \in SUBSET DOMAIN docs, NEW g \in DOMAIN docs,
         g \notin v /\ docs[g].ext # "json" => Agrees(docs, g, v \cup {g})
  PROVE  LET x == loadFile(docs, g, v, parseYamlContent(docs)) IN
         /\ x # Invalid <=>
              Includable(docs, g) /\ ~Catalogue!Broken(docs, g) /\ Reach(docs, g) \cap v = {}
         /\ x # Invalid => Ends(docs, g) = {x}
<1> DEFINE x == loadFile(docs, g, v, parseYamlContent(docs))
<1>1. resolveIncludePath(docs, g, v) <=> Includable(docs, g) /\ g \notin v
  BY DEF resolveIncludePath, Includable, SUPPORTED_EXTENSIONS, Documents
<1>2. g \in Reach(docs, g)
  BY ReachFrom
<1>3. CASE ~Includable(docs, g) \/ g \in v
  BY <1>1, <1>2, <1>3 DEF loadFile
<1>4. CASE Includable(docs, g) /\ g \notin v /\ docs[g].ext = "json"
  <2>1. Reach(docs, g) \subseteq {g}
    BY <1>4, ReachFrom
  <2>2. ~Catalogue!Broken(docs, g) <=> docs[g].text # "broken"
    BY <1>4, BrokenStep
  <2>3. Ends(docs, g) = {g}
    BY <1>4, EndsAre DEF Documents
  <2>4. x = IF docs[g].text = "broken" THEN Invalid ELSE g
    BY <1>1, <1>4 DEF loadFile
  <2>5. g # Invalid
    BY DEF Documents
  <2> HIDE DEF x
  <2>6. Reach(docs, g) \cap v = {}
    BY <1>4, <2>1
  <2> QED  BY <1>4, <2>2, <2>3, <2>4, <2>5, <2>6 DEF x
<1>5. CASE Includable(docs, g) /\ g \notin v /\ docs[g].ext # "json"
  <2>1. x = parseYamlContent(docs)[v \cup {g}][g]
    BY <1>1, <1>5 DEF loadFile
  <2>2. Reach(docs, g) \cap (v \cup {g}) \subseteq {g} <=> Reach(docs, g) \cap v = {}
    BY <1>5
  <2> QED  BY <1>5, <2>1, <2>2 DEF Agrees
<1> QED  BY <1>3, <1>4, <1>5

(* And then it agrees here. *)
LEMMA AgreesStep ==
  ASSUME NEW docs, Documents(docs), NEW v \in SUBSET DOMAIN docs, NEW f \in v,
         docs[f].ext # "json",
         \A g \in DOMAIN docs \ v : docs[g].ext # "json" => Agrees(docs, g, v \cup {g})
  PROVE  Agrees(docs, f, v)
<1> DEFINE D == DOMAIN docs
           parse == parseYamlContent(docs)
           I == docs[f].includes
           load(g) == loadFile(docs, g, v, parse)
           x == parse[v][f]
           Fit(g) == Includable(docs, g) /\ ~Catalogue!Broken(docs, g) /\ Reach(docs, g) \cap v = {}
<1>1. f \in D /\ I \in SUBSET D /\ f # Invalid
  BY EdgesAre DEF Documents
<1>2. x = Parsed(docs, f, v, parse)
  BY <1>1, ParseExists
<1>3. \A g \in I : /\ load(g) # Invalid <=> Fit(g)
                   /\ load(g) # Invalid => Ends(docs, g) = {load(g)}
  BY <1>1, IncludeAgrees
<1>4. docs[f].text = "alias" =>
        \E g \in D : I = {g} /\ (CHOOSE h \in I : TRUE) = g
  BY <1>1 DEF Documents
<1>5. x # Invalid <=> docs[f].text # "broken" /\ \A g \in I : load(g) # Invalid
  <2> HIDE DEF x, parse, I
  <2>1. x = IF docs[f].text = "broken" \/ \E g \in I : load(g) = Invalid THEN Invalid
            ELSE IF docs[f].text = "alias" THEN load(CHOOSE g \in I : TRUE) ELSE f
    BY <1>2 DEF Parsed, I
  <2> HIDE DEF load
  <2> QED  BY <1>1, <1>4, <2>1
<1>6. x # Invalid => Ends(docs, f) = {x}
  <2>1. ASSUME x # Invalid, docs[f].text = "alias" PROVE Ends(docs, f) = {x}
    <3>1. PICK g \in D : I = {g} /\ (CHOOSE h \in I : TRUE) = g
      BY <1>4, <2>1
    <3>2. x = load(g)
      BY <1>2, <1>5, <2>1, <3>1 DEF Parsed
    <3>3. Ends(docs, f) = Ends(docs, g)
      BY <1>1, <2>1, <3>1, EndsAre
    <3> HIDE DEF x, load, I
    <3> QED  BY <1>3, <2>1, <3>1, <3>2, <3>3
  <2>2. ASSUME x # Invalid, docs[f].text # "alias" PROVE Ends(docs, f) = {x}
    <3>1. x = f
      BY <1>2, <1>5, <2>2 DEF Parsed
    <3> QED  BY <1>1, <2>2, <3>1, EndsAre
  <2> QED  BY <2>1, <2>2
<1> HIDE DEF x, load
<1>7. ~Catalogue!Broken(docs, f) <=>
        /\ docs[f].text # "broken"
        /\ \A g \in I : /\ Includable(docs, g) /\ ~Catalogue!Broken(docs, g)
                        /\ f \notin Reach(docs, g)
  BY <1>1, BrokenStep
<1>8. /\ \A g \in I : Reach(docs, g) \subseteq Reach(docs, f)
      /\ \A h \in Reach(docs, f) : h = f \/ \E g \in I : h \in Reach(docs, g)
  <2>1. \A g \in I : g \in Reach(docs, f)
    <3> SUFFICES ASSUME NEW g \in I PROVE g \in Reach(docs, f)
      OBVIOUS
    <3>1. <<f, g>> \in Edges(docs) /\ f \in Reach(docs, f)
      BY <1>1, ReachFrom, EdgesAre
    <3> QED  BY <1>1, <3>1, ReachFrom
  <2> QED  BY <1>1, <2>1, ReachFrom
<1>9. ASSUME x # Invalid
      PROVE  ~Catalogue!Broken(docs, f) /\ Reach(docs, f) \cap v \subseteq {f}
  <2>1. docs[f].text # "broken" /\ \A g \in I : Fit(g)
    BY <1>3, <1>5, <1>9
  <2> QED  BY <1>7, <1>8, <2>1
<1>10. ASSUME ~Catalogue!Broken(docs, f), Reach(docs, f) \cap v \subseteq {f}
       PROVE  x # Invalid
  <2>1. \A g \in I : Fit(g)
    BY <1>7, <1>8, <1>10
  <2> QED  BY <1>3, <1>5, <1>7, <1>10, <2>1
<1> QED  BY <1>6, <1>9, <1>10 DEF Agrees, x

(* What a YAML file read by name stands for.                                 *)
LEMMA LoadedIs ==
  ASSUME NEW docs, Documents(docs), NEW f, IsYamlFile(docs, f)
  PROVE  /\ loadYamlWithIncludes(docs, f) =
              IF Catalogue!Broken(docs, f) THEN Invalid ELSE Catalogue!Data(docs, f)
         /\ ~Catalogue!Broken(docs, f) => Catalogue!Data(docs, f) # Invalid
<1> DEFINE D == DOMAIN docs
           Good(n) == \A v \in SUBSET D : Cardinality(D \ v) < n =>
                        \A g \in v : docs[g].ext # "json" => Agrees(docs, g, v)
           Levels == {n \in Nat : Good(n)}
<1>1. IsFiniteSet(D) /\ f \in D /\ docs[f].ext # "json"
  BY DEF Documents, IsYamlFile
<1>2. \A v \in SUBSET D : Cardinality(D \ v) \in Nat
  BY <1>1, FS_Subset, FS_CardinalityType
<1>3. 0 \in Levels
  <2> SUFFICES ASSUME NEW v \in SUBSET D PROVE ~(Cardinality(D \ v) < 0)
    OBVIOUS
  <2> DEFINE c == Cardinality(D \ v)
  <2>1. c \in Nat
    BY <1>2
  <2> HIDE DEF c
  <2>2. ~(c < 0)
    BY <2>1
  <2> QED  BY <2>2 DEF c
<1>4. ASSUME NEW n \in Nat, n \in Levels PROVE n + 1 \in Levels
  <2> SUFFICES ASSUME NEW v \in SUBSET D, Cardinality(D \ v) < n + 1, NEW g \in v,
                      docs[g].ext # "json"
               PROVE  Agrees(docs, g, v)
    BY <1>4
  <2>1. ASSUME NEW h \in D \ v, docs[h].ext # "json" PROVE Agrees(docs, h, v \cup {h})
    <3>1. Cardinality(D \ (v \cup {h})) < n
      <4> HIDE DEF D
      <4>1. /\ Cardinality(D \ v) \in Nat /\ Cardinality(D \ (v \cup {h})) \in Nat
            /\ Cardinality(D \ (v \cup {h})) < Cardinality(D \ v)
        BY <1>1, <2>1, OneLess
      <4> QED  BY <1>4, <4>1
    <3>2. v \cup {h} \in SUBSET D /\ h \in v \cup {h}
      BY <2>1
    <3> QED  BY <1>4, <2>1, <3>1, <3>2
  <2> QED  BY <2>1, AgreesStep
<1>5. Agrees(docs, f, {f})
  <2> HIDE DEF Good
  <2>1. Nat \subseteq Levels
    BY <1>3, <1>4, Induction
  <2> DEFINE c == Cardinality(D \ {f})
  <2>2. {f} \in SUBSET D
    BY <1>1
  <2>3. c \in Nat
    BY <1>2, <2>2
  <2>4. c + 1 \in Nat /\ c < c + 1
    <3> HIDE DEF c
    <3> QED  BY <2>3
  <2>5. Good(c + 1)
    BY <2>1, <2>4
  <2> HIDE DEF c
  <2>6. Cardinality(D \ {f}) < c + 1
    BY <2>4 DEF c
  <2> QED  BY <1>1, <2>2, <2>5, <2>6 DEF Good
<1>6. Catalogue!Data(docs, f) = CHOOSE g : g \in Ends(docs, f)
  BY DEF Catalogue!Data, Ends, Aliases, Edges
<1> QED  BY <1>5, <1>6 DEF Agrees, loadYamlWithIncludes

-----------------------------------------------------------------------------
(* What the walk has read is served, level by level.                         *)

Genuine(d, t) ==
  LET x == d.docs[Catalogue!Data(d.docs, t)] IN
  x.text = "mapping" /\ x.kind = "ScenarioTemplate" /\ x.slug # ""

TemplatesServed(d, ts, templates) ==
  LET genuine == {t \in ts : Genuine(d, t)} IN
  /\ \A t \in ts : ~Catalogue!Broken(d.docs, t)
  /\ DOMAIN templates = {Catalogue!TemplateSlug(d, t) : t \in genuine}
  /\ \A slug \in DOMAIN templates : \E t \in genuine :
       Catalogue!TemplateSlug(d, t) = slug /\ templates[slug] = Catalogue!Data(d.docs, t)

VersionAt(d, e, s, v) == d.dirs[e].scenarios[s][v]
IsServed(d, e, s, v) == Catalogue!IsMapping(d.docs, VersionAt(d, e, s, v).scenario)

VersionsServed(d, e, s, vs, versions) ==
  /\ \A v \in vs : ~Catalogue!FailsVersion(d, VersionAt(d, e, s, v))
  /\ versions = [v \in DOMAIN versions |-> versions[v]]
  /\ DOMAIN versions = {v \in vs : IsServed(d, e, s, v)}
  /\ \A v \in DOMAIN versions : Catalogue!ServesVersion(d, VersionAt(d, e, s, v), versions[v])

ScenariosServed(d, e, names, scenarios) ==
  /\ DOMAIN scenarios =
       {s \in names : \E v \in Catalogue!Versions(d, e, s) : IsServed(d, e, s, v)}
  /\ \A s \in names : \A v \in Catalogue!Versions(d, e, s) :
       ~Catalogue!FailsVersion(d, VersionAt(d, e, s, v))
  /\ \A s \in DOMAIN scenarios :
       VersionsServed(d, e, s, Catalogue!Versions(d, e, s), scenarios[s])

IsMapped(d, e) == Catalogue!IsMapping(d.docs, d.dirs[e].pack)

PacksServed(d, dirs, packs) ==
  /\ \A e \in dirs : ~Catalogue!FailsPack(d, e)
  /\ DOMAIN packs = {Catalogue!Slug(d, e) : e \in {e \in dirs : IsMapped(d, e)}}
  /\ \A slug \in DOMAIN packs : \E e \in dirs :
       IsMapped(d, e) /\ Catalogue!Slug(d, e) = slug /\ Catalogue!ServesPack(d, e, packs[slug])

(* At the start nothing is read and nothing served. *)
LEMMA NothingServed ==
  ASSUME NEW d, NEW e, NEW s
  PROVE  /\ TemplatesServed(d, {}, Empty) /\ VersionsServed(d, e, s, {}, Empty)
         /\ ScenariosServed(d, e, {}, Empty) /\ PacksServed(d, {}, Empty)
<1>1. DOMAIN Empty = {} /\ Empty = [k \in DOMAIN Empty |-> Empty[k]]
  BY DEF Empty
<1> HIDE DEF Empty
<1>2. TemplatesServed(d, {}, Empty)
  BY <1>1 DEF TemplatesServed
<1>3. VersionsServed(d, e, s, {}, Empty)
  BY <1>1 DEF VersionsServed
<1>4. ScenariosServed(d, e, {}, Empty)
  BY <1>1 DEF ScenariosServed
<1>5. PacksServed(d, {}, Empty)
  BY <1>1 DEF PacksServed
<1> QED  BY <1>2, <1>3, <1>4, <1>5

(* One more template. *)
LEMMA TemplateServed ==
  ASSUME NEW d, NEW ts, NEW templates, TemplatesServed(d, ts, templates),
         NEW t, ~Catalogue!Broken(d.docs, t)
  PROVE  TemplatesServed(d, ts \cup {t},
           IF Genuine(d, t)
             THEN put(templates, Catalogue!TemplateSlug(d, t), Catalogue!Data(d.docs, t))
             ELSE templates)
<1> DEFINE slug == Catalogue!TemplateSlug(d, t)
           x == Catalogue!Data(d.docs, t)
           more == put(templates, slug, x)
<1>1. CASE Genuine(d, t)
  <2>1. /\ DOMAIN more = DOMAIN templates \cup {slug} /\ more[slug] = x
        /\ \A k \in DOMAIN templates : k # slug => more[k] = templates[k]
    BY DEF put
  <2> HIDE DEF more
  <2>2. TemplatesServed(d, ts \cup {t}, more)
    BY <1>1, <2>1 DEF TemplatesServed
  <2> QED  BY <1>1, <2>2 DEF more
<1>2. CASE ~Genuine(d, t)
  BY <1>2 DEF TemplatesServed
<1> QED  BY <1>1, <1>2

(* One more version, or one that is left out. *)
LEMMA VersionServed ==
  ASSUME NEW d, NEW e, NEW s, NEW vs, NEW versions, VersionsServed(d, e, s, vs, versions),
         NEW v, ~Catalogue!FailsVersion(d, VersionAt(d, e, s, v))
  PROVE  /\ ~IsServed(d, e, s, v) => VersionsServed(d, e, s, vs \cup {v}, versions)
         /\ \A entry : IsServed(d, e, s, v) /\ Catalogue!ServesVersion(d, VersionAt(d, e, s, v), entry)
                       => VersionsServed(d, e, s, vs \cup {v}, put(versions, v, entry))
<1>1. ASSUME ~IsServed(d, e, s, v) PROVE VersionsServed(d, e, s, vs \cup {v}, versions)
  BY <1>1 DEF VersionsServed
<1>2. ASSUME NEW entry, IsServed(d, e, s, v), Catalogue!ServesVersion(d, VersionAt(d, e, s, v), entry)
      PROVE  VersionsServed(d, e, s, vs \cup {v}, put(versions, v, entry))
  <2> DEFINE more == put(versions, v, entry)
  <2>1. /\ DOMAIN more = DOMAIN versions \cup {v} /\ more[v] = entry
        /\ more = [k \in DOMAIN more |-> more[k]]
        /\ \A k \in DOMAIN versions : k # v => more[k] = versions[k]
    BY DEF put
  <2> HIDE DEF more
  <2>2. DOMAIN more = {w \in vs \cup {v} : IsServed(d, e, s, w)}
    BY <1>2, <2>1 DEF VersionsServed
  <2>3. \A w \in DOMAIN more : Catalogue!ServesVersion(d, VersionAt(d, e, s, w), more[w])
    BY <1>2, <2>1 DEF VersionsServed
  <2>4. VersionsServed(d, e, s, vs \cup {v}, more)
    BY <2>1, <2>2, <2>3 DEF VersionsServed
  <2> QED  BY <2>4 DEF more
<1> QED  BY <1>1, <1>2

(* One more scenario, which is left out if none of its versions is served.   *)
LEMMA ScenarioServed ==
  ASSUME NEW d, NEW e, NEW names, NEW scenarios, ScenariosServed(d, e, names, scenarios),
         NEW s, NEW versions, VersionsServed(d, e, s, Catalogue!Versions(d, e, s), versions)
  PROVE  ScenariosServed(d, e, names \cup {s},
           IF versions = Empty THEN scenarios ELSE put(scenarios, s, versions))
<1>1. CASE versions = Empty
  <2>1. DOMAIN versions = {}
    BY <1>1 DEF Empty
  <2>2. /\ \A v \in Catalogue!Versions(d, e, s) : ~Catalogue!FailsVersion(d, VersionAt(d, e, s, v))
        /\ ~\E v \in Catalogue!Versions(d, e, s) : IsServed(d, e, s, v)
    BY <2>1 DEF VersionsServed
  <2>3. ScenariosServed(d, e, names \cup {s}, scenarios)
    BY <2>2 DEF ScenariosServed
  <2> QED  BY <1>1, <2>3
<1>2. CASE versions # Empty
  <2> DEFINE more == put(scenarios, s, versions)
  <2>1. /\ DOMAIN more = DOMAIN scenarios \cup {s} /\ more[s] = versions
        /\ \A k \in DOMAIN scenarios : k # s => more[k] = scenarios[k]
    BY DEF put
  <2> HIDE DEF more
  <2>2. DOMAIN versions # {}
    <3>1. versions = [v \in DOMAIN versions |-> versions[v]]
      BY DEF VersionsServed
    <3> QED  BY <1>2, <3>1 DEF Empty
  <2>3. \E v \in Catalogue!Versions(d, e, s) : IsServed(d, e, s, v)
    BY <2>2 DEF VersionsServed
  <2>4. \A v \in Catalogue!Versions(d, e, s) : ~Catalogue!FailsVersion(d, VersionAt(d, e, s, v))
    BY DEF VersionsServed
  <2>5. ScenariosServed(d, e, names \cup {s}, more)
    BY <2>1, <2>3, <2>4 DEF ScenariosServed
  <2> QED  BY <1>2, <2>5 DEF more
<1> QED  BY <1>1, <1>2

(* One more pack, or one that is left out. *)
LEMMA PackServed ==
  ASSUME NEW d, NEW dirs, NEW packs, PacksServed(d, dirs, packs),
         NEW e, ~Catalogue!FailsPack(d, e)
  PROVE  /\ ~IsMapped(d, e) => PacksServed(d, dirs \cup {e}, packs)
         /\ \A entry : IsMapped(d, e) /\ Catalogue!ServesPack(d, e, entry)
                       => PacksServed(d, dirs \cup {e}, put(packs, Catalogue!Slug(d, e), entry))
<1>1. ASSUME ~IsMapped(d, e) PROVE PacksServed(d, dirs \cup {e}, packs)
  BY <1>1 DEF PacksServed
<1>2. ASSUME NEW entry, IsMapped(d, e), Catalogue!ServesPack(d, e, entry)
      PROVE  PacksServed(d, dirs \cup {e}, put(packs, Catalogue!Slug(d, e), entry))
  <2> DEFINE slug == Catalogue!Slug(d, e)
             more == put(packs, slug, entry)
  <2>1. /\ DOMAIN more = DOMAIN packs \cup {slug} /\ more[slug] = entry
        /\ \A k \in DOMAIN packs : k # slug => more[k] = packs[k]
    BY DEF put
  <2> HIDE DEF more
  <2>2. PacksServed(d, dirs \cup {e}, more)
    BY <1>2, <2>1 DEF PacksServed
  <2> QED  BY <2>2 DEF more
<1> QED  BY <1>1, <1>2

(* A pack whose scenarios were all read without an error, as ClosePack leaves *)
(* it.                                                                       *)
LEMMA PackComplete ==
  ASSUME NEW d, NEW e, NEW scenarios, IsMapped(d, e),
         ScenariosServed(d, e, DOMAIN d.dirs[e].scenarios, scenarios),
         ~Catalogue!Wrong(d.docs, d.dirs[e].pack, "ScenarioPack"), Catalogue!Slug(d, e) # ""
  PROVE  /\ ~Catalogue!FailsPack(d, e)
         /\ Catalogue!ServesPack(d, e, [pack |-> Catalogue!Data(d.docs, d.dirs[e].pack),
                                        scenarios |-> scenarios])
<1>1. ~Catalogue!FailsPack(d, e)
  BY DEF Catalogue!FailsPack, ScenariosServed, VersionAt
<1>2. \A s : {v \in Catalogue!Versions(d, e, s) :
               Catalogue!IsMapping(d.docs, d.dirs[e].scenarios[s][v].scenario)} =
             {v \in Catalogue!Versions(d, e, s) : IsServed(d, e, s, v)}
  BY DEF IsServed, VersionAt
<1>3. DOMAIN scenarios = {s \in DOMAIN d.dirs[e].scenarios :
                           {v \in Catalogue!Versions(d, e, s) : IsServed(d, e, s, v)} # {}}
  BY DEF ScenariosServed
<1>4. \A s \in DOMAIN scenarios :
        LET served == {v \in Catalogue!Versions(d, e, s) : IsServed(d, e, s, v)} IN
        /\ DOMAIN scenarios[s] = served
        /\ \A v \in served : Catalogue!ServesVersion(d, d.dirs[e].scenarios[s][v], scenarios[s][v])
  BY DEF ScenariosServed, VersionsServed, VersionAt
<1> QED  BY <1>1, <1>2, <1>3, <1>4 DEF Catalogue!ServesPack

-----------------------------------------------------------------------------
(* The inductive invariant: what each loop has left behind is served, but for *)
(* what the loops inside it are at.                                          *)
InPack == pc \in {"scenarios", "versions", "templates"}
InScenario == pc \in {"versions", "templates"}
InVersion == pc = "templates"

SeenDirs == Catalogue!PackDirs(disk) \ (todo.dirs \cup {e \in {at.dir} : InPack})
SeenScenarios ==
  DOMAIN disk.dirs[at.dir].scenarios \ (todo.scenarios \cup {s \in {at.scenario} : InScenario})
SeenVersions ==
  Catalogue!Versions(disk, at.dir, at.scenario)
    \ (todo.versions \cup {v \in {at.version} : InVersion})
SeenTemplates == VersionDir(at.version).templates \ todo.templates

Shape ==
  /\ disk \in Disks
  /\ pc \in {"start", "dirs", "scenarios", "versions", "templates", "loaded", "failed"}
  /\ DOMAIN todo = {"dirs", "scenarios", "versions", "templates"}
  /\ DOMAIN at = {"dir", "pack", "scenario", "version", "doc"}
  /\ DOMAIN built = {"packs", "scenarios", "versions", "templates"}

(* A document the walk has opened: a genuine one of its kind.                *)
Opened(f, kind, x) ==
  /\ Catalogue!IsMapping(disk.docs, f) /\ ~Catalogue!Wrong(disk.docs, f, kind)
  /\ x = Catalogue!Data(disk.docs, f)

DirsInv ==
  /\ pc = "start" => built.packs = Empty
  /\ pc = "dirs" \/ InPack => /\ disk.exists /\ todo.dirs \subseteq DOMAIN disk.dirs
                             /\ PacksServed(disk, SeenDirs, built.packs)
  /\ pc = "loaded" => PacksServed(disk, Catalogue!PackDirs(disk), built.packs)
  /\ pc = "failed" => \E e \in Catalogue!PackDirs(disk) : Catalogue!FailsPack(disk, e)

PackInv ==
  InPack =>
    /\ at.dir \in Catalogue!PackDirs(disk) \ todo.dirs
    /\ Opened(disk.dirs[at.dir].pack, "ScenarioPack", at.pack)
    /\ Catalogue!Slug(disk, at.dir) # ""
    /\ todo.scenarios \subseteq DOMAIN disk.dirs[at.dir].scenarios
    /\ ScenariosServed(disk, at.dir, SeenScenarios, built.scenarios)

ScenarioInv ==
  InScenario =>
    /\ at.scenario \in DOMAIN disk.dirs[at.dir].scenarios \ todo.scenarios
    /\ todo.versions \subseteq DOMAIN disk.dirs[at.dir].scenarios[at.scenario]
    /\ VersionsServed(disk, at.dir, at.scenario, SeenVersions, built.versions)

VersionInv ==
  InVersion =>
    /\ at.version \in Catalogue!Versions(disk, at.dir, at.scenario) \ todo.versions
    /\ Opened(VersionDir(at.version).scenario, "ScenarioVersion", at.doc)
    /\ todo.templates \subseteq VersionDir(at.version).templates
    /\ TemplatesServed(disk, SeenTemplates, built.templates)

IInv == Shape /\ DirsInv /\ PackInv /\ ScenarioInv /\ VersionInv

(* What parseYamlFile says of a file read by name. *)
LEMMA ReadByName ==
  ASSUME Shape, NEW f, IsYamlFile(disk.docs, f)
  PROVE  LET x == parseYamlFile(f)
             broken == Catalogue!Broken(disk.docs, f)
             mapping == Catalogue!IsMapping(disk.docs, f)
         IN /\ x = Invalid <=> broken
            /\ ~broken => x = Catalogue!Data(disk.docs, f)
            /\ mapping => ~broken
            /\ Placeholder(x) <=> ~broken /\ ~mapping
            /\ BadPack(x) <=> \/ Catalogue!Wrong(disk.docs, f, "ScenarioPack")
                              \/ mapping /\ disk.docs[Catalogue!Data(disk.docs, f)].slug = ""
            /\ BadScenario(x) <=> Catalogue!Wrong(disk.docs, f, "ScenarioVersion")
<1> DEFINE x == parseYamlFile(f)
           broken == Catalogue!Broken(disk.docs, f)
           data == Catalogue!Data(disk.docs, f)
<1>1. /\ x = IF broken THEN Invalid ELSE data
      /\ ~broken => data # Invalid
  BY DisksAssumption, LoadedIs DEF Shape, parseYamlFile
<1>2. Catalogue!IsMapping(disk.docs, f) <=> ~broken /\ disk.docs[data].text = "mapping"
  BY DEF Catalogue!IsMapping
<1>3. \A kind : Catalogue!Wrong(disk.docs, f, kind) <=>
        \/ broken
        \/ disk.docs[data].text = "mapping" /\ ~Claims(data, kind)
  BY <1>2 DEF Catalogue!Wrong, Claims
<1> HIDE DEF x, broken, data
<1>4. Placeholder(x) <=> x # Invalid /\ disk.docs[x].text # "mapping"
  BY DEF Placeholder, isMappingDocument
<1>5. BadPack(x) <=> (x # Invalid =>
        disk.docs[x].text = "mapping" /\ ~(Claims(x, "ScenarioPack") /\ disk.docs[x].slug # ""))
  BY DEF BadPack, isMappingDocument
<1>6. BadScenario(x) <=> (x # Invalid =>
        disk.docs[x].text = "mapping" /\ ~Claims(x, "ScenarioVersion"))
  BY DEF BadScenario, isMappingDocument
<1> QED  BY <1>1, <1>2, <1>3, <1>4, <1>5, <1>6 DEF x, broken, data

(* The files read by name. *)
LEMMA NamedFiles ==
  ASSUME Shape, NEW e \in DOMAIN disk.dirs
  PROVE  /\ disk.dirs[e].pack # NoFile => IsYamlFile(disk.docs, disk.dirs[e].pack)
         /\ \A s \in DOMAIN disk.dirs[e].scenarios :
              \A v \in DOMAIN disk.dirs[e].scenarios[s] :
                LET version == disk.dirs[e].scenarios[s][v] IN
                /\ version.scenario # NoFile => IsYamlFile(disk.docs, version.scenario)
                /\ \A t \in version.templates : IsYamlFile(disk.docs, t)
  BY DisksAssumption DEF Shape

(* The pack directories of CatalogueLoad are those loadAll goes into. *)
LEMMA PackDirsAre ==
  ASSUME disk.exists
  PROVE  Catalogue!PackDirs(disk) = {e \in DOMAIN disk.dirs : IsPackDir(e)}
  BY DEF Catalogue!PackDirs, IsPackDir

-----------------------------------------------------------------------------
(* A walk starts with nothing read and nothing built. *)
LEMMA InitIInv == Init => IInv
<1> SUFFICES ASSUME Init PROVE IInv
  OBVIOUS
<1>1. Shape
  BY DEF Init, Shape
<1>2. DirsInv
  BY DEF Init, DirsInv, InPack
<1>3. PackInv /\ ScenarioInv /\ VersionInv
  BY DEF Init, PackInv, ScenarioInv, VersionInv, InPack, InScenario, InVersion
<1> QED  BY <1>1, <1>2, <1>3 DEF IInv

(* loadAll *)
LEMMA ReadPacksDirStep ==
  ASSUME IInv, ReadPacksDir
  PROVE  IInv'
<1>1. /\ pc = "start" /\ disk' = disk /\ at' = at /\ built' = built /\ built.packs = Empty
      /\ Shape /\ DOMAIN todo' = DOMAIN todo
  BY DEF ReadPacksDir, IInv, DirsInv, Shape
<1>2. Shape'
  BY <1>1 DEF Shape, ReadPacksDir
<1>3. ~InPack' /\ ~InScenario' /\ ~InVersion' /\ pc' \in {"dirs", "loaded"}
  BY <1>1 DEF ReadPacksDir, InPack, InScenario, InVersion
<1>4. CASE disk.exists
  <2>1. pc' = "dirs" /\ todo'.dirs = DOMAIN disk.dirs
    BY <1>1, <1>4 DEF ReadPacksDir, Shape
  <2>2. SeenDirs' = {}
    BY <1>1, <1>4, <2>1, PackDirsAre DEF SeenDirs
  <2>3. PacksServed(disk, {}, Empty)
    BY NothingServed
  <2>4. DirsInv'
    BY <1>1, <1>3, <1>4, <2>1, <2>2, <2>3 DEF DirsInv
  <2> QED  BY <1>2, <1>3, <2>4 DEF IInv, PackInv, ScenarioInv, VersionInv
<1>5. CASE ~disk.exists
  <2>1. pc' = "loaded"
    BY <1>5 DEF ReadPacksDir
  <2>2. Catalogue!PackDirs(disk) = {}
    BY <1>5 DEF Catalogue!PackDirs
  <2>3. PacksServed(disk, {}, Empty)
    BY NothingServed
  <2>4. DirsInv'
    BY <1>1, <1>3, <2>1, <2>2, <2>3 DEF DirsInv
  <2> QED  BY <1>2, <1>3, <2>4 DEF IInv, PackInv, ScenarioInv, VersionInv
<1> QED  BY <1>4, <1>5

(* What is no pack costs itself only. *)
LEMMA SkipEntryStep ==
  ASSUME IInv, NEW e \in todo.dirs, SkipEntry(e)
  PROVE  IInv'
<1>1. /\ pc = "dirs" /\ pc' = pc /\ disk' = disk /\ at' = at /\ built' = built
      /\ todo' = [todo EXCEPT !.dirs = @ \ {e}]
      /\ Shape /\ disk.exists /\ todo.dirs \subseteq DOMAIN disk.dirs
      /\ PacksServed(disk, SeenDirs, built.packs)
  BY DEF SkipEntry, IInv, DirsInv
<1>2. ~InPack /\ ~InPack' /\ ~InScenario' /\ ~InVersion'
  BY <1>1 DEF InPack, InScenario, InVersion
<1>3. DOMAIN todo' = DOMAIN todo /\ todo'.dirs = todo.dirs \ {e}
  BY <1>1 DEF Shape
<1>4. Shape'
  BY <1>1, <1>3 DEF Shape
<1>5. PacksServed(disk, SeenDirs', built.packs)
  <2>1. CASE IsPackDir(e)
    <3>1. SeenDirs' = SeenDirs \cup {e}
      BY <1>1, <1>2, <1>3, <2>1, PackDirsAre DEF SeenDirs
    <3>2. IsYamlFile(disk.docs, disk.dirs[e].pack)
      BY <1>1, <2>1, NamedFiles DEF IsPackDir
    <3>3. ~IsMapped(disk, e) /\ ~Catalogue!Broken(disk.docs, disk.dirs[e].pack)
      BY <1>1, <2>1, <3>2, ReadByName DEF SkipEntry, IsMapped
    <3>4. ~Catalogue!FailsPack(disk, e)
      BY <3>3 DEF Catalogue!FailsPack, Catalogue!Wrong, IsMapped
    <3>5. PacksServed(disk, SeenDirs \cup {e}, built.packs)
      <4>1. PICK d, dirs, packs : d = disk /\ dirs = SeenDirs /\ packs = built.packs
        OBVIOUS
      <4> QED  BY <1>1, <3>3, <3>4, <4>1, PackServed
    <3> QED  BY <3>1, <3>5
  <2>2. CASE ~IsPackDir(e)
    <3>1. SeenDirs' = SeenDirs
      BY <1>1, <1>2, <1>3, <2>2, PackDirsAre DEF SeenDirs
    <3> QED  BY <1>1, <3>1
  <2> QED  BY <2>1, <2>2
<1>6. DirsInv'
  BY <1>1, <1>2, <1>3, <1>5 DEF DirsInv
<1> QED  BY <1>2, <1>4, <1>6 DEF IInv, PackInv, ScenarioInv, VersionInv

(* An error ends the walk: what was wrong makes its pack fail.               *)
LEMMA ThrowStep ==
  ASSUME IInv, Throw, NEW e \in Catalogue!PackDirs(disk), Catalogue!FailsPack(disk, e)
  PROVE  IInv'
<1>1. /\ pc' = "failed" /\ disk' = disk /\ todo' = todo /\ at' = at /\ built' = built /\ Shape
  BY DEF Throw, IInv
<1>2. Shape' /\ ~InPack' /\ ~InScenario' /\ ~InVersion'
  BY <1>1 DEF Shape, InPack, InScenario, InVersion
<1>3. DirsInv'
  BY <1>1, <1>2 DEF DirsInv
<1> QED  BY <1>2, <1>3 DEF IInv, PackInv, ScenarioInv, VersionInv

(* A pack is rejected for what makes it fail the load. *)
LEMMA RejectPackStep ==
  ASSUME IInv, NEW e \in todo.dirs, RejectPack(e)
  PROVE  IInv'
<1>1. pc = "dirs" /\ Shape /\ disk.exists /\ e \in DOMAIN disk.dirs /\ IsPackDir(e) /\ Throw
  BY DEF RejectPack, IInv, DirsInv
<1>2. e \in Catalogue!PackDirs(disk)
  BY <1>1, PackDirsAre
<1>3. IsYamlFile(disk.docs, disk.dirs[e].pack)
  BY <1>1, NamedFiles DEF IsPackDir
<1>4. Catalogue!FailsPack(disk, e)
  BY <1>1, <1>3, ReadByName DEF RejectPack, Catalogue!FailsPack, Catalogue!Slug
<1> QED  BY <1>1, <1>2, <1>4, ThrowStep

(* A pack that is opened is a genuine one, of which nothing is read yet.      *)
LEMMA OpenPackStep ==
  ASSUME IInv, NEW e \in todo.dirs, OpenPack(e)
  PROVE  IInv'
<1> DEFINE x == parseYamlFile(disk.dirs[e].pack)
<1>1. /\ pc = "dirs" /\ pc' = "scenarios" /\ disk' = disk
      /\ Shape /\ disk.exists /\ todo.dirs \subseteq DOMAIN disk.dirs
      /\ PacksServed(disk, SeenDirs, built.packs)
      /\ IsPackDir(e) /\ ~BadPack(x) /\ ~Placeholder(x)
      /\ todo' = [todo EXCEPT !.dirs = @ \ {e}, !.scenarios = DOMAIN disk.dirs[e].scenarios]
      /\ at' = [at EXCEPT !.dir = e, !.pack = x]
      /\ built' = [built EXCEPT !.scenarios = Empty]
  BY DEF OpenPack, IInv, DirsInv
<1> HIDE DEF x
<1>2. /\ DOMAIN todo' = DOMAIN todo /\ DOMAIN at' = DOMAIN at /\ DOMAIN built' = DOMAIN built
      /\ todo'.dirs = todo.dirs \ {e} /\ todo'.scenarios = DOMAIN disk.dirs[e].scenarios
      /\ at'.dir = e /\ at'.pack = x
      /\ built'.packs = built.packs /\ built'.scenarios = Empty
  BY <1>1 DEF Shape
<1>3. Shape' /\ ~InPack /\ InPack' /\ ~InScenario' /\ ~InVersion'
  BY <1>1, <1>2 DEF Shape, InPack, InScenario, InVersion
<1>4. e \in Catalogue!PackDirs(disk) /\ IsYamlFile(disk.docs, disk.dirs[e].pack)
  BY <1>1, PackDirsAre, NamedFiles DEF IsPackDir
<1>5. SeenDirs' = SeenDirs
  BY <1>1, <1>2, <1>3 DEF SeenDirs
<1>6. DirsInv'
  BY <1>1, <1>2, <1>3, <1>5 DEF DirsInv
<1>7. /\ Catalogue!IsMapping(disk.docs, disk.dirs[e].pack)
      /\ ~Catalogue!Wrong(disk.docs, disk.dirs[e].pack, "ScenarioPack")
      /\ x = Catalogue!Data(disk.docs, disk.dirs[e].pack)
      /\ Catalogue!Slug(disk, e) # ""
  <2> DEFINE f == disk.dirs[e].pack
  <2>1. /\ ~Catalogue!Broken(disk.docs, f) => x = Catalogue!Data(disk.docs, f)
        /\ Placeholder(x) <=>
             ~Catalogue!Broken(disk.docs, f) /\ ~Catalogue!IsMapping(disk.docs, f)
        /\ BadPack(x) <=> \/ Catalogue!Wrong(disk.docs, f, "ScenarioPack")
                          \/ /\ Catalogue!IsMapping(disk.docs, f)
                             /\ disk.docs[Catalogue!Data(disk.docs, f)].slug = ""
    BY <1>1, <1>4, ReadByName DEF x
  <2>2. Catalogue!Broken(disk.docs, f) => Catalogue!Wrong(disk.docs, f, "ScenarioPack")
    BY DEF Catalogue!Wrong
  <2>3. Catalogue!Slug(disk, e) = disk.docs[Catalogue!Data(disk.docs, f)].slug
    BY DEF Catalogue!Slug
  <2> HIDE DEF f
  <2> QED  BY <1>1, <2>1, <2>2, <2>3 DEF f
<1>8. SeenScenarios' = {}
  BY <1>1, <1>2 DEF SeenScenarios
<1>9. ScenariosServed(disk, e, {}, Empty)
  BY NothingServed
<1>10. PackInv'
  BY <1>1, <1>2, <1>4, <1>7, <1>8, <1>9 DEF PackInv, Opened
<1> QED  BY <1>3, <1>6, <1>10 DEF IInv, ScenarioInv, VersionInv

(* The closed pack is served with all its scenarios. *)
LEMMA ClosePackStep ==
  ASSUME IInv, ClosePack
  PROVE  IInv'
<1> DEFINE e == at.dir
           entry == [pack |-> at.pack, scenarios |-> built.scenarios]
<1>1. /\ pc = "scenarios" /\ todo.scenarios = {} /\ pc' = "dirs"
      /\ disk' = disk /\ todo' = todo /\ at' = at
      /\ built' = [built EXCEPT !.packs = put(@, disk.docs[at.pack].slug, entry)]
      /\ Shape /\ DirsInv /\ PackInv
  BY DEF ClosePack, IInv
<1>2. InPack /\ ~InScenario /\ ~InPack' /\ ~InScenario' /\ ~InVersion'
  BY <1>1 DEF InPack, InScenario, InVersion
<1>3. /\ disk.exists /\ todo.dirs \subseteq DOMAIN disk.dirs
      /\ PacksServed(disk, SeenDirs, built.packs)
      /\ e \in Catalogue!PackDirs(disk) \ todo.dirs
      /\ Opened(disk.dirs[e].pack, "ScenarioPack", at.pack) /\ Catalogue!Slug(disk, e) # ""
      /\ ScenariosServed(disk, e, SeenScenarios, built.scenarios)
  BY <1>1, <1>2 DEF DirsInv, PackInv
<1>4. SeenScenarios = DOMAIN disk.dirs[e].scenarios
  BY <1>1, <1>2 DEF SeenScenarios
<1>5. IsMapped(disk, e) /\ ~Catalogue!FailsPack(disk, e) /\ Catalogue!ServesPack(disk, e, entry)
  BY <1>3, <1>4, PackComplete DEF Opened, IsMapped
<1>6. disk.docs[at.pack].slug = Catalogue!Slug(disk, e)
  BY <1>3 DEF Opened, Catalogue!Slug
<1> HIDE DEF entry
<1>7. /\ DOMAIN built' = DOMAIN built
      /\ built'.packs = put(built.packs, Catalogue!Slug(disk, e), entry)
  BY <1>1, <1>6 DEF Shape
<1>8. Shape'
  BY <1>1, <1>7 DEF Shape
<1>9. SeenDirs' = SeenDirs \cup {e}
  BY <1>1, <1>2, <1>3 DEF SeenDirs
<1>10. PacksServed(disk, SeenDirs \cup {e}, built'.packs)
  <2>1. PICK d, dirs, packs, dir, new :
          d = disk /\ dirs = SeenDirs /\ packs = built.packs /\ dir = e /\ new = entry
    OBVIOUS
  <2>2. /\ PacksServed(d, dirs, packs) /\ ~Catalogue!FailsPack(d, dir)
        /\ IsMapped(d, dir) /\ Catalogue!ServesPack(d, dir, new)
    BY <1>3, <1>5, <2>1
  <2>3. PacksServed(d, dirs \cup {dir}, put(packs, Catalogue!Slug(d, dir), new))
    BY <2>2, PackServed
  <2> QED  BY <1>7, <2>1, <2>3
<1>11. DirsInv'
  BY <1>1, <1>2, <1>3, <1>9, <1>10 DEF DirsInv
<1> QED  BY <1>2, <1>8, <1>11 DEF IInv, PackInv, ScenarioInv, VersionInv

(* At the end every entry has been read. *)
LEMMA ReturnStep ==
  ASSUME IInv, Return
  PROVE  IInv'
<1>1. /\ pc = "dirs" /\ todo.dirs = {} /\ pc' = "loaded"
      /\ disk' = disk /\ todo' = todo /\ at' = at /\ built' = built
      /\ Shape /\ PacksServed(disk, SeenDirs, built.packs)
  BY DEF Return, IInv, DirsInv
<1>2. Shape' /\ ~InPack /\ ~InPack' /\ ~InScenario' /\ ~InVersion'
  BY <1>1 DEF Shape, InPack, InScenario, InVersion
<1>3. SeenDirs = Catalogue!PackDirs(disk)
  BY <1>1, <1>2 DEF SeenDirs
<1>4. DirsInv'
  BY <1>1, <1>2, <1>3 DEF DirsInv
<1> QED  BY <1>2, <1>4 DEF IInv, PackInv, ScenarioInv, VersionInv

(* discoverScenarios *)
LEMMA OpenScenarioStep ==
  ASSUME IInv, NEW s \in todo.scenarios, OpenScenario(s)
  PROVE  IInv'
<1>1. /\ pc = "scenarios" /\ pc' = "versions" /\ disk' = disk
      /\ todo' = [todo EXCEPT !.scenarios = @ \ {s},
                              !.versions = DOMAIN disk.dirs[at.dir].scenarios[s]]
      /\ at' = [at EXCEPT !.scenario = s]
      /\ built' = [built EXCEPT !.versions = Empty]
      /\ Shape /\ DirsInv /\ PackInv
  BY DEF OpenScenario, IInv
<1>2. InPack /\ ~InScenario /\ InPack' /\ InScenario' /\ ~InVersion'
  BY <1>1 DEF InPack, InScenario, InVersion
<1>3. /\ DOMAIN todo' = DOMAIN todo /\ DOMAIN at' = DOMAIN at /\ DOMAIN built' = DOMAIN built
      /\ todo'.dirs = todo.dirs /\ todo'.scenarios = todo.scenarios \ {s}
      /\ todo'.versions = DOMAIN disk.dirs[at.dir].scenarios[s]
      /\ at'.dir = at.dir /\ at'.pack = at.pack /\ at'.scenario = s
      /\ built'.packs = built.packs /\ built'.scenarios = built.scenarios
      /\ built'.versions = Empty
  BY <1>1 DEF Shape
<1>4. Shape'
  BY <1>1, <1>3 DEF Shape
<1>5. SeenDirs' = SeenDirs
  BY <1>1, <1>2, <1>3 DEF SeenDirs
<1>6. DirsInv'
  BY <1>1, <1>2, <1>3, <1>5 DEF DirsInv
<1>7. s \in DOMAIN disk.dirs[at.dir].scenarios
  BY <1>1, <1>2 DEF PackInv
<1>8. SeenScenarios' = SeenScenarios
  BY <1>1, <1>2, <1>3 DEF SeenScenarios
<1>9. PackInv'
  BY <1>1, <1>2, <1>3, <1>8 DEF PackInv, Opened
<1>10. SeenVersions' = {}
  BY <1>1, <1>3 DEF SeenVersions, Catalogue!Versions
<1>11. VersionsServed(disk, at.dir, s, {}, Empty)
  BY NothingServed
<1>12. ScenarioInv'
  BY <1>1, <1>3, <1>7, <1>10, <1>11 DEF ScenarioInv
<1> QED  BY <1>2, <1>4, <1>6, <1>9, <1>12 DEF IInv, VersionInv

(* The closed scenario is served with all its versions. *)
LEMMA CloseScenarioStep ==
  ASSUME IInv, CloseScenario
  PROVE  IInv'
<1> DEFINE more == IF built.versions = Empty THEN built.scenarios
                   ELSE put(built.scenarios, at.scenario, built.versions)
<1>1. /\ pc = "versions" /\ todo.versions = {} /\ pc' = "scenarios"
      /\ disk' = disk /\ todo' = todo /\ at' = at
      /\ built' = IF built.versions = Empty THEN built
                  ELSE [built EXCEPT !.scenarios = put(@, at.scenario, built.versions)]
      /\ Shape /\ DirsInv /\ PackInv /\ ScenarioInv
  BY DEF CloseScenario, IInv
<1>2. InPack /\ InScenario /\ ~InVersion /\ InPack' /\ ~InScenario' /\ ~InVersion'
  BY <1>1 DEF InPack, InScenario, InVersion
<1>3. /\ DOMAIN built' = DOMAIN built /\ built'.packs = built.packs /\ built'.scenarios = more
  BY <1>1 DEF Shape
<1>4. Shape'
  BY <1>1, <1>3 DEF Shape
<1>5. SeenDirs' = SeenDirs
  BY <1>1, <1>2 DEF SeenDirs
<1>6. DirsInv'
  BY <1>1, <1>2, <1>3, <1>5 DEF DirsInv
<1>7. SeenVersions = Catalogue!Versions(disk, at.dir, at.scenario)
  BY <1>1, <1>2 DEF SeenVersions
<1>8. SeenScenarios' = SeenScenarios \cup {at.scenario}
  BY <1>1, <1>2 DEF SeenScenarios, ScenarioInv
<1>9. ScenariosServed(disk, at.dir, SeenScenarios \cup {at.scenario}, more)
  BY <1>1, <1>2, <1>7, ScenarioServed DEF PackInv, ScenarioInv
<1> HIDE DEF more
<1>10. PackInv'
  BY <1>1, <1>2, <1>3, <1>8, <1>9 DEF PackInv, Opened
<1> QED  BY <1>2, <1>4, <1>6, <1>10 DEF IInv, ScenarioInv, VersionInv

(* discoverVersions *)
LEMMA SkipVersionStep ==
  ASSUME IInv, NEW v \in todo.versions, SkipVersion(v)
  PROVE  IInv'
<1> DEFINE f == VersionDir(v).scenario
<1>1. /\ pc = "versions" /\ pc' = pc /\ disk' = disk /\ at' = at /\ built' = built
      /\ todo' = [todo EXCEPT !.versions = @ \ {v}]
      /\ f # NoFile => Placeholder(parseYamlFile(f))
      /\ Shape /\ DirsInv /\ PackInv /\ ScenarioInv
  BY DEF SkipVersion, IInv
<1>2. InPack /\ InScenario /\ ~InVersion /\ InPack' /\ InScenario' /\ ~InVersion'
  BY <1>1 DEF InPack, InScenario, InVersion
<1>3. /\ DOMAIN todo' = DOMAIN todo /\ todo'.dirs = todo.dirs
      /\ todo'.scenarios = todo.scenarios /\ todo'.versions = todo.versions \ {v}
  BY <1>1 DEF Shape
<1>4. Shape'
  BY <1>1, <1>3 DEF Shape
<1>5. SeenDirs' = SeenDirs /\ SeenScenarios' = SeenScenarios
  BY <1>1, <1>2, <1>3 DEF SeenDirs, SeenScenarios
<1>6. DirsInv' /\ PackInv'
  BY <1>1, <1>2, <1>3, <1>5 DEF DirsInv, PackInv, Opened
<1>7. VersionsServed(disk, at.dir, at.scenario, SeenVersions', built.versions)
  <2>1. CASE f # NoFile
    <3>1. SeenVersions' = SeenVersions \cup {v}
      BY <1>1, <1>2, <1>3, <2>1 DEF SeenVersions, ScenarioInv, Catalogue!Versions, VersionDir
    <3>2. IsYamlFile(disk.docs, f)
      BY <1>1, <1>2, <2>1, NamedFiles DEF PackInv, ScenarioInv, Catalogue!PackDirs, VersionDir
    <3>3. ~Catalogue!Broken(disk.docs, f) /\ ~Catalogue!IsMapping(disk.docs, f)
      BY <1>1, <2>1, <3>2, ReadByName
    <3>4. /\ ~IsServed(disk, at.dir, at.scenario, v)
          /\ ~Catalogue!FailsVersion(disk, VersionAt(disk, at.dir, at.scenario, v))
      BY <3>3 DEF IsServed, VersionAt, VersionDir, Catalogue!FailsVersion, Catalogue!Wrong
    <3>5. PICK d, e, s, vs, versions :
            /\ d = disk /\ e = at.dir /\ s = at.scenario
            /\ vs = SeenVersions /\ versions = built.versions
      OBVIOUS
    <3> QED  BY <1>1, <1>2, <3>1, <3>4, <3>5, VersionServed DEF ScenarioInv
  <2>2. CASE f = NoFile
    <3>1. SeenVersions' = SeenVersions
      BY <1>1, <1>2, <1>3, <2>2 DEF SeenVersions, Catalogue!Versions, VersionDir
    <3> QED  BY <1>1, <1>2, <3>1 DEF ScenarioInv
  <2> QED  BY <2>1, <2>2
<1>8. ScenarioInv'
  BY <1>1, <1>2, <1>3, <1>7 DEF ScenarioInv
<1> QED  BY <1>2, <1>4, <1>6, <1>8 DEF IInv, VersionInv

(* What the walk knows of the version it is at, or about to open.            *)
LEMMA AtVersion ==
  ASSUME IInv, InScenario, NEW v \in DOMAIN disk.dirs[at.dir].scenarios[at.scenario],
         VersionDir(v).scenario # NoFile
  PROVE  /\ v \in Catalogue!Versions(disk, at.dir, at.scenario)
         /\ IsYamlFile(disk.docs, VersionDir(v).scenario)
         /\ \A t \in VersionDir(v).templates : IsYamlFile(disk.docs, t)
         /\ at.dir \in Catalogue!PackDirs(disk) /\ IsMapped(disk, at.dir)
         /\ Catalogue!FailsVersion(disk, VersionDir(v)) => Catalogue!FailsPack(disk, at.dir)
<1>1. /\ Shape /\ at.dir \in Catalogue!PackDirs(disk) /\ IsMapped(disk, at.dir)
      /\ at.scenario \in DOMAIN disk.dirs[at.dir].scenarios
  BY DEF IInv, PackInv, ScenarioInv, InPack, InScenario, Opened, IsMapped
<1>2. v \in Catalogue!Versions(disk, at.dir, at.scenario)
  BY DEF Catalogue!Versions, VersionDir
<1>3. at.dir \in DOMAIN disk.dirs
  BY <1>1 DEF Catalogue!PackDirs
<1>4. /\ IsYamlFile(disk.docs, VersionDir(v).scenario)
      /\ \A t \in VersionDir(v).templates : IsYamlFile(disk.docs, t)
  BY <1>1, <1>3, NamedFiles DEF VersionDir
<1>5. Catalogue!FailsVersion(disk, VersionDir(v)) => Catalogue!FailsPack(disk, at.dir)
  BY <1>1, <1>2 DEF Catalogue!FailsPack, IsMapped, VersionDir
<1> QED  BY <1>1, <1>2, <1>4, <1>5

(* A version is rejected for what makes its pack fail. *)
LEMMA RejectVersionStep ==
  ASSUME IInv, NEW v \in todo.versions, RejectVersion(v)
  PROVE  IInv'
<1>1. /\ InScenario /\ Shape /\ Throw /\ v \in DOMAIN disk.dirs[at.dir].scenarios[at.scenario]
      /\ VersionDir(v).scenario # NoFile
      /\ BadScenario(parseYamlFile(VersionDir(v).scenario))
  BY DEF RejectVersion, IInv, ScenarioInv, InScenario
<1>2. /\ IsYamlFile(disk.docs, VersionDir(v).scenario)
      /\ at.dir \in Catalogue!PackDirs(disk)
      /\ Catalogue!FailsVersion(disk, VersionDir(v)) => Catalogue!FailsPack(disk, at.dir)
  BY <1>1, AtVersion
<1>3. Catalogue!Wrong(disk.docs, VersionDir(v).scenario, "ScenarioVersion")
  BY <1>1, <1>2, ReadByName
<1>4. Catalogue!FailsPack(disk, at.dir)
  BY <1>2, <1>3 DEF Catalogue!FailsVersion
<1> QED  BY <1>1, <1>2, <1>4, ThrowStep

(* A version that is opened is a genuine one, of which no template is read.   *)
LEMMA OpenVersionStep ==
  ASSUME IInv, NEW v \in todo.versions, OpenVersion(v)
  PROVE  IInv'
<1> DEFINE f == VersionDir(v).scenario
           x == parseYamlFile(f)
<1>1. /\ pc = "versions" /\ pc' = "templates" /\ disk' = disk
      /\ f # NoFile /\ ~BadScenario(x) /\ ~Placeholder(x)
      /\ todo' = [todo EXCEPT !.versions = @ \ {v}, !.templates = VersionDir(v).templates]
      /\ at' = [at EXCEPT !.version = v, !.doc = x]
      /\ built' = [built EXCEPT !.templates = Empty]
      /\ Shape /\ DirsInv /\ PackInv /\ ScenarioInv
  BY DEF OpenVersion, IInv
<1>2. InPack /\ InScenario /\ ~InVersion /\ InPack' /\ InScenario' /\ InVersion'
  BY <1>1 DEF InPack, InScenario, InVersion
<1>3. v \in Catalogue!Versions(disk, at.dir, at.scenario) /\ IsYamlFile(disk.docs, f)
  BY <1>1, <1>2, AtVersion DEF ScenarioInv
<1>4. /\ Catalogue!IsMapping(disk.docs, f) /\ ~Catalogue!Wrong(disk.docs, f, "ScenarioVersion")
      /\ x = Catalogue!Data(disk.docs, f)
  <2>1. /\ ~Catalogue!Broken(disk.docs, f) => x = Catalogue!Data(disk.docs, f)
        /\ Placeholder(x) <=>
             ~Catalogue!Broken(disk.docs, f) /\ ~Catalogue!IsMapping(disk.docs, f)
        /\ BadScenario(x) <=> Catalogue!Wrong(disk.docs, f, "ScenarioVersion")
    BY <1>1, <1>3, ReadByName
  <2>2. Catalogue!Broken(disk.docs, f) => Catalogue!Wrong(disk.docs, f, "ScenarioVersion")
    BY DEF Catalogue!Wrong
  <2> HIDE DEF x, f
  <2> QED  BY <1>1, <2>1, <2>2
<1> HIDE DEF x
<1>5. /\ DOMAIN todo' = DOMAIN todo /\ DOMAIN at' = DOMAIN at /\ DOMAIN built' = DOMAIN built
      /\ todo'.dirs = todo.dirs /\ todo'.scenarios = todo.scenarios
      /\ todo'.versions = todo.versions \ {v} /\ todo'.templates = VersionDir(v).templates
      /\ at'.dir = at.dir /\ at'.pack = at.pack /\ at'.scenario = at.scenario
      /\ at'.version = v /\ at'.doc = x
      /\ built'.packs = built.packs /\ built'.scenarios = built.scenarios
      /\ built'.versions = built.versions /\ built'.templates = Empty
  BY <1>1 DEF Shape
<1>6. Shape'
  BY <1>1, <1>5 DEF Shape
<1>7. /\ SeenDirs' = SeenDirs /\ SeenScenarios' = SeenScenarios /\ SeenVersions' = SeenVersions
      /\ VersionDir(v)' = VersionDir(v)
  BY <1>1, <1>2, <1>5 DEF SeenDirs, SeenScenarios, SeenVersions, VersionDir
<1>8. DirsInv' /\ PackInv' /\ ScenarioInv'
  BY <1>1, <1>2, <1>5, <1>7 DEF DirsInv, PackInv, ScenarioInv, Opened
<1>9. SeenTemplates' = {} /\ VersionDir(at.version)' = VersionDir(v)
  BY <1>1, <1>5 DEF SeenTemplates, VersionDir
<1>10. TemplatesServed(disk, {}, Empty)
  BY NothingServed
<1>11. VersionInv'
  BY <1>1, <1>2, <1>3, <1>4, <1>5, <1>9, <1>10 DEF VersionInv, Opened
<1> QED  BY <1>6, <1>8, <1>11 DEF IInv

(* A version whose templates were all read without an error, as CloseVersion  *)
(* leaves it.                                                                *)
LEMMA VersionComplete ==
  ASSUME NEW d, NEW v, NEW templates, TemplatesServed(d, v.templates, templates),
         Catalogue!IsMapping(d.docs, v.scenario),
         ~Catalogue!Wrong(d.docs, v.scenario, "ScenarioVersion")
  PROVE  /\ ~Catalogue!FailsVersion(d, v)
         /\ Catalogue!ServesVersion(d, v, [scenario |-> Catalogue!Data(d.docs, v.scenario),
                                           templates |-> templates])
<1>1. ~Catalogue!FailsVersion(d, v)
  BY DEF Catalogue!FailsVersion, TemplatesServed
<1>2. Catalogue!Templates(d, v) = {t \in v.templates : Genuine(d, t)}
  BY DEF Catalogue!Templates, Genuine
<1> QED  BY <1>1, <1>2 DEF Catalogue!ServesVersion, TemplatesServed

(* The closed version is served with all its templates. *)
LEMMA CloseVersionStep ==
  ASSUME IInv, CloseVersion
  PROVE  IInv'
<1> DEFINE v == at.version
           entry == [scenario |-> at.doc, templates |-> built.templates]
<1>1. /\ pc = "templates" /\ todo.templates = {} /\ pc' = "versions"
      /\ disk' = disk /\ todo' = todo /\ at' = at
      /\ built' = [built EXCEPT !.versions = put(@, v, entry)]
      /\ Shape /\ DirsInv /\ PackInv /\ ScenarioInv /\ VersionInv
  BY DEF CloseVersion, IInv
<1>2. InPack /\ InScenario /\ InVersion /\ InPack' /\ InScenario' /\ ~InVersion'
  BY <1>1 DEF InPack, InScenario, InVersion
<1>3. SeenTemplates = VersionDir(v).templates
  BY <1>1 DEF SeenTemplates
<1>4. /\ IsServed(disk, at.dir, at.scenario, v)
      /\ ~Catalogue!FailsVersion(disk, VersionAt(disk, at.dir, at.scenario, v))
      /\ Catalogue!ServesVersion(disk, VersionAt(disk, at.dir, at.scenario, v), entry)
  <2>1. VersionAt(disk, at.dir, at.scenario, v) = VersionDir(v)
    BY DEF VersionAt, VersionDir
  <2>2. /\ Catalogue!IsMapping(disk.docs, VersionDir(v).scenario)
        /\ ~Catalogue!Wrong(disk.docs, VersionDir(v).scenario, "ScenarioVersion")
        /\ at.doc = Catalogue!Data(disk.docs, VersionDir(v).scenario)
        /\ TemplatesServed(disk, VersionDir(v).templates, built.templates)
    BY <1>1, <1>2, <1>3 DEF VersionInv, Opened
  <2> QED  BY <2>1, <2>2, VersionComplete DEF IsServed
<1> HIDE DEF entry
<1>5. /\ DOMAIN built' = DOMAIN built
      /\ built'.packs = built.packs /\ built'.scenarios = built.scenarios
      /\ built'.versions = put(built.versions, v, entry)
  BY <1>1 DEF Shape
<1>6. Shape'
  BY <1>1, <1>5 DEF Shape
<1>7. /\ SeenDirs' = SeenDirs /\ SeenScenarios' = SeenScenarios
      /\ SeenVersions' = SeenVersions \cup {v}
  BY <1>1, <1>2 DEF SeenDirs, SeenScenarios, SeenVersions, VersionInv
<1>8. DirsInv' /\ PackInv'
  BY <1>1, <1>2, <1>5, <1>7 DEF DirsInv, PackInv, Opened
<1>9. VersionsServed(disk, at.dir, at.scenario, SeenVersions \cup {v}, built'.versions)
  <2>1. PICK d, e, s, vs, versions, w, new :
          /\ d = disk /\ e = at.dir /\ s = at.scenario
          /\ vs = SeenVersions /\ versions = built.versions /\ w = v /\ new = entry
    OBVIOUS
  <2> QED  BY <1>1, <1>2, <1>4, <1>5, <2>1, VersionServed DEF ScenarioInv
<1>10. ScenarioInv'
  BY <1>1, <1>2, <1>7, <1>9 DEF ScenarioInv
<1> QED  BY <1>2, <1>6, <1>8, <1>10 DEF IInv, VersionInv

(* discoverTemplates *)
LEMMA ReadTemplateStep ==
  ASSUME IInv, NEW t \in todo.templates, ReadTemplate(t)
  PROVE  IInv'
<1> DEFINE x == parseYamlFile(t)
           slug == Catalogue!TemplateSlug(disk, t)
           more == IF Genuine(disk, t)
                     THEN put(built.templates, slug, Catalogue!Data(disk.docs, t))
                     ELSE built.templates
<1>1. /\ pc = "templates" /\ pc' = pc /\ disk' = disk /\ at' = at
      /\ x # Invalid
      /\ todo' = [todo EXCEPT !.templates = @ \ {t}]
      /\ built' = IF IsTemplate(x)
                    THEN [built EXCEPT !.templates = put(@, disk.docs[x].slug, x)]
                    ELSE built
      /\ Shape /\ DirsInv /\ PackInv /\ ScenarioInv /\ VersionInv
  BY DEF ReadTemplate, IInv
<1>2. InPack /\ InScenario /\ InVersion /\ InPack' /\ InScenario' /\ InVersion'
  BY <1>1 DEF InPack, InScenario, InVersion
<1>3. IsYamlFile(disk.docs, t)
  BY <1>1, <1>2, AtVersion DEF VersionInv, Catalogue!Versions, VersionDir
<1>4. ~Catalogue!Broken(disk.docs, t) /\ x = Catalogue!Data(disk.docs, t)
  BY <1>1, <1>3, ReadByName
<1>5. IsTemplate(x) <=> Genuine(disk, t)
  BY <1>4 DEF IsTemplate, isMappingDocument, Genuine
<1>6. disk.docs[x].slug = slug
  BY <1>4 DEF Catalogue!TemplateSlug
<1>7. /\ DOMAIN built' = DOMAIN built /\ built'.templates = more
      /\ built'.packs = built.packs /\ built'.scenarios = built.scenarios
      /\ built'.versions = built.versions
  <2> HIDE DEF x, slug
  <2> QED  BY <1>1, <1>4, <1>5, <1>6 DEF Shape
<1> HIDE DEF more
<1>8. /\ DOMAIN todo' = DOMAIN todo /\ todo'.dirs = todo.dirs
      /\ todo'.scenarios = todo.scenarios /\ todo'.versions = todo.versions
      /\ todo'.templates = todo.templates \ {t}
  BY <1>1 DEF Shape
<1>9. Shape'
  BY <1>1, <1>7, <1>8 DEF Shape
<1>10. SeenDirs' = SeenDirs /\ SeenScenarios' = SeenScenarios /\ SeenVersions' = SeenVersions
  BY <1>1, <1>2, <1>8 DEF SeenDirs, SeenScenarios, SeenVersions
<1>11. DirsInv' /\ PackInv' /\ ScenarioInv'
  BY <1>1, <1>2, <1>7, <1>8, <1>10 DEF DirsInv, PackInv, ScenarioInv, Opened
<1>12. SeenTemplates' = SeenTemplates \cup {t} /\ VersionDir(at.version)' = VersionDir(at.version)
  BY <1>1, <1>2, <1>8 DEF SeenTemplates, VersionInv, VersionDir
<1>13. TemplatesServed(disk, SeenTemplates \cup {t}, more)
  BY <1>1, <1>2, <1>4, TemplateServed DEF VersionInv, more
<1>14. VersionInv'
  BY <1>1, <1>2, <1>7, <1>8, <1>12, <1>13 DEF VersionInv, Opened, Catalogue!Versions
<1> QED  BY <1>9, <1>11, <1>14 DEF IInv

(* A template is rejected for what makes its version fail. *)
LEMMA RejectTemplateStep ==
  ASSUME IInv, NEW t \in todo.templates, RejectTemplate(t)
  PROVE  IInv'
<1> DEFINE v == at.version
<1>1. /\ pc = "templates" /\ parseYamlFile(t) = Invalid /\ Throw
      /\ Shape /\ VersionInv /\ InScenario /\ InVersion
  BY DEF RejectTemplate, IInv, InScenario, InVersion
<1>2. /\ v \in Catalogue!Versions(disk, at.dir, at.scenario) /\ t \in VersionDir(v).templates
      /\ Catalogue!IsMapping(disk.docs, VersionDir(v).scenario)
  BY <1>1 DEF VersionInv, Opened
<1>3. v \in DOMAIN disk.dirs[at.dir].scenarios[at.scenario] /\ VersionDir(v).scenario # NoFile
  BY <1>2 DEF Catalogue!Versions, VersionDir
<1>4. /\ IsYamlFile(disk.docs, t) /\ at.dir \in Catalogue!PackDirs(disk)
      /\ Catalogue!FailsVersion(disk, VersionDir(v)) => Catalogue!FailsPack(disk, at.dir)
  BY <1>1, <1>2, <1>3, AtVersion
<1>5. Catalogue!Broken(disk.docs, t)
  BY <1>1, <1>4, ReadByName
<1>6. Catalogue!FailsPack(disk, at.dir)
  BY <1>2, <1>4, <1>5 DEF Catalogue!FailsVersion
<1> QED  BY <1>1, <1>4, <1>6, ThrowStep

(* The invariant is about the variables of the walk only. *)
LEMMA StutterStep ==
  ASSUME IInv, UNCHANGED vars
  PROVE  IInv'
<1>1. disk' = disk /\ pc' = pc /\ todo' = todo /\ at' = at /\ built' = built
  BY DEF vars
<1>2. Shape' /\ (InPack' <=> InPack) /\ (InScenario' <=> InScenario) /\ (InVersion' <=> InVersion)
  BY <1>1 DEF IInv, Shape, InPack, InScenario, InVersion
<1>3. /\ SeenDirs' = SeenDirs /\ SeenScenarios' = SeenScenarios /\ SeenVersions' = SeenVersions
      /\ SeenTemplates' = SeenTemplates /\ VersionDir(at.version)' = VersionDir(at.version)
  BY <1>1, <1>2 DEF SeenDirs, SeenScenarios, SeenVersions, SeenTemplates, VersionDir
<1>4. DirsInv' /\ PackInv' /\ ScenarioInv' /\ VersionInv'
  BY <1>1, <1>2, <1>3 DEF IInv, DirsInv, PackInv, ScenarioInv, VersionInv, Opened
<1> QED  BY <1>2, <1>4 DEF IInv

(* Every step of the walk keeps the invariant. *)
LEMMA NextIInv ==
  ASSUME IInv, [Next]_vars
  PROVE  IInv'
<1>1. CASE ReadPacksDir  BY <1>1, ReadPacksDirStep
<1>2. CASE Return  BY <1>2, ReturnStep
<1>3. ASSUME NEW e \in todo.dirs, SkipEntry(e) \/ RejectPack(e) \/ OpenPack(e)
      PROVE  IInv'
  BY <1>3, SkipEntryStep, RejectPackStep, OpenPackStep
<1>4. ASSUME NEW s \in todo.scenarios, OpenScenario(s) PROVE IInv'
  BY <1>4, OpenScenarioStep
<1>5. ASSUME NEW v \in todo.versions, SkipVersion(v) \/ RejectVersion(v) \/ OpenVersion(v)
      PROVE  IInv'
  BY <1>5, SkipVersionStep, RejectVersionStep, OpenVersionStep
<1>6. ASSUME NEW t \in todo.templates, ReadTemplate(t) \/ RejectTemplate(t)
      PROVE  IInv'
  BY <1>6, ReadTemplateStep, RejectTemplateStep
<1>7. CASE CloseVersion \/ CloseScenario \/ ClosePack
  BY <1>7, CloseVersionStep, CloseScenarioStep, ClosePackStep
<1>8. CASE UNCHANGED vars  BY <1>8, StutterStep
<1> QED  BY <1>1, <1>2, <1>3, <1>4, <1>5, <1>6, <1>7, <1>8 DEF Next

(* The walk keeps its invariant: what each loop has left behind is served.    *)
THEOREM Invariance == Spec => []IInv
<1> QED  BY InitIInv, NextIInv, PTL DEF Spec

-----------------------------------------------------------------------------
(* A finished walk serves the catalogue. *)
LEMMA LoadedServes ==
  ASSUME NEW d, NEW packs, PacksServed(d, Catalogue!PackDirs(d), packs)
  PROVE  Catalogue!Serves(d, packs)
BY DEF Catalogue!Serves, PacksServed, IsMapped

(* Every step of the walk is no step of the load, or the whole of it.        *)
LEMMA NextLoads ==
  ASSUME IInv, IInv', [Next]_vars
  PROVE  [Catalogue!Load]_(Catalogue!vars)
<1>1. Empty = Catalogue!NoPacks
  BY DEF Empty, Catalogue!NoPacks
<1>2. disk' = disk
  BY DEF Next, vars, ReadPacksDir, Return, SkipEntry, RejectPack, OpenPack, OpenScenario,
         SkipVersion, RejectVersion, OpenVersion, ReadTemplate, RejectTemplate, CloseVersion,
         CloseScenario, ClosePack, Throw
<1>3. \/ pc' = pc /\ built'.packs = built.packs
      \/ pc \notin {"loaded", "failed"}
  BY DEF Next, vars, ReadPacksDir, Return, SkipEntry, RejectPack, OpenPack, OpenScenario,
         SkipVersion, RejectVersion, OpenVersion, ReadTemplate, RejectTemplate, CloseVersion,
         CloseScenario, ClosePack
<1>4. CASE pc' = pc /\ built'.packs = built.packs
  BY <1>2, <1>4 DEF Catalogue!vars, Outcome
<1>5. CASE pc \notin {"loaded", "failed"}
  <2>1. Outcome = Catalogue!Pending
    BY <1>1, <1>5 DEF Outcome, Catalogue!Pending
  <2>2. CASE pc' \notin {"loaded", "failed"}
    BY <1>2, <1>5, <2>2 DEF Catalogue!vars, Outcome
  <2>3. CASE pc' = "failed"
    <3>1. Outcome' = Catalogue!Failed
      BY <1>1, <2>3 DEF Outcome, Catalogue!Failed
    <3>2. Catalogue!Fails
      BY <1>2, <2>3 DEF IInv, DirsInv, Catalogue!Fails
    <3> QED  BY <1>2, <2>1, <3>1, <3>2 DEF Catalogue!Load
  <2>4. CASE pc' = "loaded"
    <3>1. Outcome'.state = "loaded" /\ Outcome'.packs = built'.packs
      BY <2>4 DEF Outcome
    <3>2. PacksServed(disk, Catalogue!PackDirs(disk), built'.packs)
      BY <1>2, <2>4 DEF IInv, DirsInv
    <3>3. ~Catalogue!Fails
      BY <3>2 DEF Catalogue!Fails, PacksServed
    <3>4. Catalogue!Serves(disk, built'.packs)
      <4>1. PICK d, packs : d = disk /\ packs = built'.packs
        OBVIOUS
      <4> QED  BY <3>2, <4>1, LoadedServes
    <3> QED  BY <1>2, <2>1, <3>1, <3>3, <3>4 DEF Catalogue!Load
  <2> QED  BY <2>2, <2>3, <2>4
<1> QED  BY <1>3, <1>4, <1>5

(* The walk implements the load in one step: whatever order readdir gives and *)
(* however the includes share and circle, it ends with the whole catalogue    *)
(* or with an error that something in it deserves.                           *)
THEOREM WalkLoadsTheCatalogue == Spec => LoadsTheCatalogue
<1>1. Init => Catalogue!Init
  BY DEF Init, Catalogue!Init, Catalogue!Pending, Catalogue!NoPacks, Outcome, Empty
<1>2. IInv /\ IInv' /\ [Next]_vars => [Catalogue!Load]_(Catalogue!vars)
  BY NextLoads
<1> QED  BY <1>1, <1>2, Invariance, PTL DEF Spec, LoadsTheCatalogue, Catalogue!Spec

-----------------------------------------------------------------------------
(* The checks of pack authors *)

(* They read documents as the loader does. *)
LEMMA ChecksRead ==
  ASSUME NEW docs, NEW f
  PROVE  Checks!loadYamlWithIncludes(docs, f) = loadYamlWithIncludes(docs, f)
         /\ Checks!Invalid = Invalid
BY DEF Checks!loadYamlWithIncludes, Checks!parseYamlContent, Checks!Parsed, Checks!loadFile,
       Checks!resolveIncludePath, Checks!SUPPORTED_EXTENSIONS, Checks!Invalid,
       loadYamlWithIncludes, parseYamlContent, Parsed, loadFile, resolveIncludePath,
       SUPPORTED_EXTENSIONS, Invalid

Checked ==
  /\ Checks!runLint(disk)
  /\ \A e \in Checks!listPackDirs(disk) :
       \A v \in Checks!listScenarioVersionDirs(disk, e) : Checks!runValidate(disk.docs, v)
  /\ ~Unchecked

(* A version that passes validate is served. *)
LEMMA ValidatedVersion ==
  ASSUME Shape, NEW v, IsYamlFile(disk.docs, v.scenario),
         \A t \in v.templates : IsYamlFile(disk.docs, t), Checks!runValidate(disk.docs, v)
  PROVE  Catalogue!IsMapping(disk.docs, v.scenario) /\ ~Catalogue!FailsVersion(disk, v)
<1> DEFINE f == v.scenario
           x == parseYamlFile(f)
<1>1. \A g : Checks!loadYamlWithIncludes(disk.docs, g) = parseYamlFile(g)
  BY ChecksRead DEF parseYamlFile
<1>2. /\ x # Invalid /\ isMappingDocument(x) /\ Claims(x, "ScenarioVersion")
      /\ \A t \in v.templates : parseYamlFile(t) # Invalid
  BY <1>1, ChecksRead
     DEF Checks!runValidate, Checks!validateTemplate, Checks!Header, isMappingDocument, Claims
<1>3. ~Placeholder(x) /\ ~BadScenario(x)
  BY <1>2 DEF Placeholder, BadScenario
<1>4. /\ Catalogue!IsMapping(disk.docs, f) /\ ~Catalogue!Wrong(disk.docs, f, "ScenarioVersion")
  <2>1. /\ x = Invalid <=> Catalogue!Broken(disk.docs, f)
        /\ Placeholder(x) <=>
             ~Catalogue!Broken(disk.docs, f) /\ ~Catalogue!IsMapping(disk.docs, f)
        /\ BadScenario(x) <=> Catalogue!Wrong(disk.docs, f, "ScenarioVersion")
    BY ReadByName
  <2> HIDE DEF x, f
  <2> QED  BY <1>2, <1>3, <2>1
<1>5. \A t \in v.templates : ~Catalogue!Broken(disk.docs, t)
  BY <1>2, ReadByName
<1> QED  BY <1>4, <1>5 DEF Catalogue!FailsVersion

(* So is a pack that passes lint, whose slug is its own.                     *)
LEMMA CheckedPack ==
  ASSUME Shape, Checked, NEW e \in Catalogue!PackDirs(disk)
  PROVE  /\ e \in Checks!listPackDirs(disk)
         /\ IsMapped(disk, e) /\ ~Catalogue!FailsPack(disk, e)
         /\ parseYamlFile(disk.dirs[e].pack) = Catalogue!Data(disk.docs, disk.dirs[e].pack)
         /\ \A s \in DOMAIN disk.dirs[e].scenarios : \A v \in Catalogue!Versions(disk, e, s) :
              IsServed(disk, e, s, v)
         /\ \A g \in Catalogue!PackDirs(disk) :
              Catalogue!Slug(disk, g) = Catalogue!Slug(disk, e) => g = e
<1> DEFINE f(g) == disk.dirs[g].pack
           x(g) == parseYamlFile(f(g))
<1>1. \A g : Checks!loadYamlWithIncludes(disk.docs, g) = parseYamlFile(g)
  BY ChecksRead DEF parseYamlFile
<1>2. ASSUME NEW g \in Catalogue!PackDirs(disk)
      PROVE  g \in Checks!listPackDirs(disk) /\ g \in DOMAIN disk.dirs
             /\ IsYamlFile(disk.docs, f(g))
  <2>1. disk.exists /\ g \in DOMAIN disk.dirs /\ IsPackDir(g)
    BY <1>2 DEF Catalogue!PackDirs, IsPackDir
  <2>2. disk.dirs[g].kind # "link"
    BY <2>1 DEF Checked, Unchecked
  <2> QED  BY <2>1, <2>2, NamedFiles DEF IsPackDir, Checks!listPackDirs
<1>3. ASSUME NEW g \in Catalogue!PackDirs(disk)
      PROVE  x(g) # Invalid /\ isMappingDocument(x(g)) /\ disk.docs[x(g)].slug # ""
  <2>1. \A c \in Checks!lintPack(disk, g) : c.level # "error"
    BY <1>2, <1>3 DEF Checked, Checks!runLint
  <2>2. \A h, about : Checks!Finding("error", h, about).level = "error"
    BY DEF Checks!Finding
  <2>3. x(g) # Invalid
    BY <1>1, <2>1, <2>2, ChecksRead DEF Checks!lintPack
  <2>4. isMappingDocument(x(g))
    BY <1>1, <2>1, <2>2, <2>3, ChecksRead DEF Checks!lintPack, isMappingDocument
  <2>5. disk.docs[x(g)].slug # ""
    BY <1>1, <2>1, <2>2, <2>3, <2>4, ChecksRead DEF Checks!lintPack, isMappingDocument
  <2> QED  BY <2>3, <2>4, <2>5
<1>4. ASSUME NEW g \in Catalogue!PackDirs(disk)
      PROVE  /\ Claims(x(g), "ScenarioPack")
             /\ \A h \in Catalogue!PackDirs(disk) :
                  disk.docs[x(h)].slug = disk.docs[x(g)].slug => h = g
  BY <1>2, <1>3, <1>4 DEF Checked, Unchecked
<1>5. ASSUME NEW g \in Catalogue!PackDirs(disk)
      PROVE  /\ Catalogue!IsMapping(disk.docs, f(g))
             /\ ~Catalogue!Wrong(disk.docs, f(g), "ScenarioPack")
             /\ x(g) = Catalogue!Data(disk.docs, f(g))
  <2>1. ~Placeholder(x(g)) /\ ~BadPack(x(g))
    BY <1>3, <1>4, <1>5 DEF Placeholder, BadPack
  <2>2. /\ x(g) = Invalid <=> Catalogue!Broken(disk.docs, f(g))
        /\ ~Catalogue!Broken(disk.docs, f(g)) => x(g) = Catalogue!Data(disk.docs, f(g))
        /\ Placeholder(x(g)) <=>
             ~Catalogue!Broken(disk.docs, f(g)) /\ ~Catalogue!IsMapping(disk.docs, f(g))
        /\ Catalogue!Wrong(disk.docs, f(g), "ScenarioPack") => BadPack(x(g))
    BY <1>2, <1>5, ReadByName
  <2> HIDE DEF x, f
  <2> QED  BY <1>3, <1>5, <2>1, <2>2
<1>6. \A g \in Catalogue!PackDirs(disk) : Catalogue!Slug(disk, g) = disk.docs[x(g)].slug
  BY <1>5 DEF Catalogue!Slug
<1>7. ASSUME NEW s \in DOMAIN disk.dirs[e].scenarios, NEW v \in Catalogue!Versions(disk, e, s)
      PROVE  /\ IsServed(disk, e, s, v)
             /\ ~Catalogue!FailsVersion(disk, disk.dirs[e].scenarios[s][v])
  <2>1. /\ v \in DOMAIN disk.dirs[e].scenarios[s]
        /\ disk.dirs[e].scenarios[s][v].scenario # NoFile
    BY <1>7 DEF Catalogue!Versions
  <2>2. disk.dirs[e].scenarios[s][v] \in Checks!listScenarioVersionDirs(disk, e)
    BY <1>7, <2>1 DEF Checks!listScenarioVersionDirs
  <2>3. Checks!runValidate(disk.docs, disk.dirs[e].scenarios[s][v])
    BY <1>2, <2>2 DEF Checked
  <2>4. PICK version : version = disk.dirs[e].scenarios[s][v]
    OBVIOUS
  <2>5. /\ IsYamlFile(disk.docs, version.scenario)
        /\ \A t \in version.templates : IsYamlFile(disk.docs, t)
    BY <1>2, <1>7, <2>1, <2>4, NamedFiles
  <2> QED  BY <2>3, <2>4, <2>5, ValidatedVersion DEF IsServed, VersionAt
<1>8. ~Catalogue!FailsPack(disk, e)
  BY <1>3, <1>5, <1>6, <1>7 DEF Catalogue!FailsPack
<1>9. \A g \in Catalogue!PackDirs(disk) :
        Catalogue!Slug(disk, g) = Catalogue!Slug(disk, e) => g = e
  BY <1>4, <1>6
<1> QED  BY <1>2, <1>5, <1>7, <1>8, <1>9 DEF IsMapped

(* So the invariant gives what the authors of packs rely on. *)
LEMMA CheckedAreServed == IInv => CheckedPacksAreServed
<1> SUFFICES ASSUME IInv, pc \in {"loaded", "failed"}, Checked
             PROVE  /\ pc = "loaded"
                    /\ \A e \in Checks!listPackDirs(disk) :
                         \E slug \in DOMAIN built.packs : \A s \in DOMAIN disk.dirs[e].scenarios :
                           \A v \in Catalogue!Versions(disk, e, s) :
                             /\ built.packs[slug].pack = parseYamlFile(disk.dirs[e].pack)
                             /\ v \in DOMAIN built.packs[slug].scenarios[s]
  BY DEF CheckedPacksAreServed, Checked
<1>1. Shape
  BY DEF IInv
<1>2. pc = "loaded"
  BY <1>1, CheckedPack DEF IInv, DirsInv
<1>3. PacksServed(disk, Catalogue!PackDirs(disk), built.packs)
  BY <1>2 DEF IInv, DirsInv
<1>4. ASSUME NEW e \in Checks!listPackDirs(disk)
      PROVE  \E slug \in DOMAIN built.packs : \A s \in DOMAIN disk.dirs[e].scenarios :
               \A v \in Catalogue!Versions(disk, e, s) :
                 /\ built.packs[slug].pack = parseYamlFile(disk.dirs[e].pack)
                 /\ v \in DOMAIN built.packs[slug].scenarios[s]
  <2>1. e \in Catalogue!PackDirs(disk)
    BY <1>4 DEF Checks!listPackDirs, Catalogue!PackDirs
  <2>2. /\ IsMapped(disk, e)
        /\ parseYamlFile(disk.dirs[e].pack) = Catalogue!Data(disk.docs, disk.dirs[e].pack)
        /\ \A s \in DOMAIN disk.dirs[e].scenarios : \A v \in Catalogue!Versions(disk, e, s) :
              IsServed(disk, e, s, v)
        /\ \A g \in Catalogue!PackDirs(disk) :
              Catalogue!Slug(disk, g) = Catalogue!Slug(disk, e) => g = e
    BY <1>1, <2>1, CheckedPack
  <2> DEFINE slug == Catalogue!Slug(disk, e)
  <2>3. slug \in DOMAIN built.packs
    BY <1>3, <2>1, <2>2 DEF PacksServed
  <2>4. Catalogue!ServesPack(disk, e, built.packs[slug])
    BY <1>3, <2>2, <2>3 DEF PacksServed
  <2>5. built.packs[slug].pack = Catalogue!Data(disk.docs, disk.dirs[e].pack)
    BY <2>4 DEF Catalogue!ServesPack
  <2>6. ASSUME NEW s \in DOMAIN disk.dirs[e].scenarios, NEW v \in Catalogue!Versions(disk, e, s)
        PROVE  v \in DOMAIN built.packs[slug].scenarios[s]
    BY <2>2, <2>4, <2>6 DEF Catalogue!ServesPack, IsServed, VersionAt
  <2> HIDE DEF slug
  <2> QED  BY <2>2, <2>3, <2>5, <2>6
<1> QED  BY <1>2, <1>4

(* Packs that pass lint, with scenarios that all pass validate, are served,   *)
(* but for what neither check looks at.                                      *)
THEOREM ChecksSuffice == Spec => []CheckedPacksAreServed
<1> QED  BY Invariance, CheckedAreServed, PTL
=============================================================================
