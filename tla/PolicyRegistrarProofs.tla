----------------------- MODULE PolicyRegistrarProofs ------------------------
(* What policy registration keeps for any number of instances, any policy     *)
(* directories and any number of restarts of the runtime.                    *)
EXTENDS PolicyRegistrar, SequenceTheorems, WellFoundedInduction, TLAPS

(* A non-empty set of natural numbers has a minimum. *)
LEMMA Minimum ==
  ASSUME NEW T \in SUBSET Nat, T # {}
  PROVE  \E x \in T : \A y \in T : x <= y
<1>1. PICK x \in T : \A y \in T : ~(<<y, x>> \in OpToRel(<, Nat))
  BY WFMin, NatLessThanWellFounded
<1>2. \A y \in T : ~(y < x)
  BY <1>1 DEF OpToRel
<1>3. x \in Nat /\ \A y \in T : y \in Nat
  OBVIOUS
<1> QED  BY <1>2, <1>3

(* What holds of 0, and of n + 1 if it holds of n, holds of every number.    *)
LEMMA Induction ==
  ASSUME NEW S, 0 \in S, \A n \in Nat : n \in S => n + 1 \in S
  PROVE  Nat \subseteq S
<1> SUFFICES ASSUME Nat \ S # {} PROVE FALSE
  OBVIOUS
<1>1. PICK x \in Nat \ S : \A y \in Nat \ S : x <= y
  BY Minimum
<1>2. x # 0 /\ x - 1 \in Nat
  BY <1>1
<1>3. x - 1 \in S
  BY <1>1, <1>2
<1>4. (x - 1) + 1 \in S
  BY <1>2, <1>3
<1> QED  BY <1>1, <1>4

(* The values of the loader's map: policies it could read, each id once.     *)
DistinctPolicies ==
  {s \in Seq(FileRecord) :
     /\ \A k \in DOMAIN s : s[k].id # Unreadable
     /\ \A j, k \in DOMAIN s : s[j].id = s[k].id => j = k}

Counted == {"registered", "already", "managed"}

Present(i) == \A p \in Ids : outcome[i][p] \in Counted => registry[p] # 0

Exact(i) ==
  \A k \in 1 .. Len(Registrable[i]) :
    LET p == Registrable[i][k] IN
    /\ outcome[i][p.id] \in Counted
    /\ p.id \notin unread[i]
    /\ ~(pc[i] = "comparing" /\ next[i] = k)
    => (p.id \in drift[i]) = (registry[p.id] # p.version)

(* The policies a pass has not come to are neither counted nor reported, one  *)
(* being read back is counted and not yet compared, and what was counted     *)
(* since the runtime last restarted is there.                                *)
InstanceInv(i) ==
  /\ begunAt[i] <= restarts
  /\ pc[i] \in {"starting", "minting"} => next[i] = 1
  /\ pc[i] = "minting" => Len(Registrable[i]) >= 1
  /\ pc[i] = "comparing" => outcome[i][Policy(i).id] = "already"
  /\ pc[i] = "starting" => \A p \in Ids : outcome[i][p] = "none"
  /\ \A k \in next[i] .. Len(Registrable[i]) :
       /\ Registrable[i][k].id \notin drift[i]
       /\ k # next[i] \/ pc[i] # "comparing" => outcome[i][Registrable[i][k].id] = "none"
  /\ Undisturbed(i) => Present(i) /\ Exact(i)

(* The policies a pass is past are settled, one is missing only for a pass   *)
(* that switched, and that has met a read-only registry or was misled.       *)
AccountInv(i) ==
  /\ pc[i] = "done" => next[i] = Len(Registrable[i]) + 1
  /\ \A k \in 1 .. next[i] - 1 : outcome[i][Registrable[i][k].id] # "none"
  /\ pc[i] = "verifying" => verifying[i]
  /\ \A p \in Ids : outcome[i][p] = "missing" => verifying[i]
  /\ verifying[i] => readOnly \/ i \in misled

IInv == /\ TypeOK /\ next \in [Instances -> Nat]
        /\ \A i \in Instances : InstanceInv(i) /\ AccountInv(i)

-----------------------------------------------------------------------------
(* Reading one more file leaves every id in the map once. *)
LEMMA LoadedType ==
  ASSUME NEW s \in DistinctPolicies, NEW file \in FileRecord
  PROVE  Loaded(s, file) \in DistinctPolicies
<1>1. s \in Seq(FileRecord) /\ Len(s) \in Nat /\ DOMAIN s = 1 .. Len(s)
  BY DEF DistinctPolicies
<1>2. CASE file.id = Unreadable
  BY <1>2 DEF Loaded
<1>3. CASE file.id # Unreadable /\ \E k \in DOMAIN s : s[k].id = file.id
  <2> DEFINE t == [k \in DOMAIN s |-> IF s[k].id = file.id THEN file ELSE s[k]]
  <2>1. Loaded(s, file) = t
    BY <1>3 DEF Loaded
  <2>2. t \in Seq(FileRecord) /\ DOMAIN t = DOMAIN s
    BY <1>1
  <2>3. \A k \in DOMAIN s : t[k].id = s[k].id
    OBVIOUS
  <2> HIDE DEF t
  <2> QED  BY <2>1, <2>2, <2>3 DEF DistinctPolicies
<1>4. CASE file.id # Unreadable /\ ~\E k \in DOMAIN s : s[k].id = file.id
  <2> DEFINE t == Append(s, file)
  <2>1. Loaded(s, file) = t
    BY <1>4 DEF Loaded
  <2>2. /\ t \in Seq(FileRecord) /\ DOMAIN t = 1 .. Len(s) + 1
        /\ \A k \in 1 .. Len(s) : t[k] = s[k]
        /\ t[Len(s) + 1] = file
    BY <1>1
  <2> HIDE DEF t
  <2>3. \A k \in DOMAIN t : k \in DOMAIN s \/ k = Len(s) + 1
    BY <1>1, <2>2
  <2> QED  BY <1>1, <1>4, <2>1, <2>2, <2>3 DEF DistinctPolicies
<1> QED  BY <1>2, <1>3, <1>4

(* The loader goes through any files from the first to the last. *)
LEMMA LoadExists ==
  ASSUME NEW files \in Seq(FileRecord)
  PROVE  \E g \in [0 .. Len(files) -> DistinctPolicies] :
           g[0] = <<>> /\ \A k \in 1 .. Len(files) : g[k] = Loaded(g[k - 1], files[k])
<1> DEFINE n == Len(files)
           Loads(m) == {g \in [0 .. m -> DistinctPolicies] :
                          /\ g[0] = <<>>
                          /\ \A k \in 1 .. m : g[k] = Loaded(g[k - 1], files[k])}
           Defined == {m \in Nat : m <= n => Loads(m) # {}}
<1>1. n \in Nat /\ \A k \in 1 .. n : files[k] \in FileRecord
  OBVIOUS
<1> HIDE DEF n
<1>2. 0 \in Defined
  <2>1. <<>> \in DistinctPolicies
    BY DEF DistinctPolicies
  <2>2. [k \in 0 .. 0 |-> <<>>] \in Loads(0)
    BY <2>1
  <2> QED  BY <2>2
<1>3. ASSUME NEW m \in Nat, m \in Defined, m + 1 <= n
      PROVE  Loads(m + 1) # {}
  <2>1. PICK g : g \in Loads(m)
    <3>1. m <= n
      BY <1>1, <1>3
    <3> HIDE DEF Loads
    <3> QED  BY <1>3, <3>1
  <2> DEFINE last == Loaded(g[m], files[m + 1])
             h == [k \in 0 .. m + 1 |-> IF k = m + 1 THEN last ELSE g[k]]
  <2>2. last \in DistinctPolicies
    BY <1>1, <1>3, <2>1, LoadedType
  <2> HIDE DEF last
  <2>3. h \in [0 .. m + 1 -> DistinctPolicies] /\ h[0] = <<>>
    BY <1>3, <2>1, <2>2
  <2>4. ASSUME NEW k \in 1 .. m + 1
        PROVE  h[k] = Loaded(h[k - 1], files[k])
    <3>1. /\ k - 1 \in 0 .. m /\ k \in 0 .. m + 1 /\ k - 1 \in 0 .. m + 1
          /\ k - 1 # m + 1 /\ h[k - 1] = g[k - 1]
      BY <1>3
    <3>2. CASE k = m + 1
      BY <3>1, <3>2 DEF last
    <3>3. CASE k # m + 1
      <4>1. k \in 1 .. m
        BY <1>3, <3>3
      <4> QED  BY <2>1, <3>1, <3>3, <4>1
    <3> QED  BY <3>2, <3>3
  <2> HIDE DEF h
  <2>5. h \in Loads(m + 1)
    BY <2>3, <2>4
  <2> QED  BY <2>5
<1> HIDE DEF Loads
<1>4. ASSUME NEW m \in Nat, m \in Defined
      PROVE  m + 1 \in Defined
  BY <1>3, <1>4
<1> HIDE DEF Defined
<1>5. Nat \subseteq Defined
  BY <1>2, <1>4, Induction
<1>6. Loads(n) # {}
  BY <1>1, <1>5 DEF Defined
<1> QED  BY <1>6 DEF Loads, n

(* Whatever the files are, the loader's map has every readable id once.      *)
LEMMA AvailableType ==
  ASSUME NEW files \in Seq(FileRecord)
  PROVE  listAvailablePolicies(files) \in DistinctPolicies
<1> DEFINE n == Len(files)
           f(g) == [k \in 0 .. n |-> IF k = 0 THEN <<>> ELSE Loaded(g[k - 1], files[k])]
           load == CHOOSE g : g = f(g)
           Typed == {k \in Nat : k <= n => load[k] \in DistinctPolicies}
<1>1. n \in Nat /\ files \in [1 .. n -> FileRecord]
  OBVIOUS
<1>2. <<>> \in DistinctPolicies
  BY DEF DistinctPolicies
<1> HIDE DEF n
<1>3. \E g : g = f(g)
  <2>1. PICK g \in [0 .. n -> DistinctPolicies] :
          g[0] = <<>> /\ \A k \in 1 .. n : g[k] = Loaded(g[k - 1], files[k])
    BY LoadExists DEF n
  <2>2. g = f(g)
    <3>1. \A k \in 0 .. n : g[k] = IF k = 0 THEN <<>> ELSE Loaded(g[k - 1], files[k])
      BY <1>1, <2>1
    <3> QED  BY <2>1, <3>1
  <2> QED  BY <2>2
<1>4. load = f(load)
  BY <1>3
<1>5. load[0] = <<>> /\ \A k \in 1 .. n : load[k] = Loaded(load[k - 1], files[k])
  <2> HIDE DEF load
  <2> QED  BY <1>1, <1>4
<1>6. listAvailablePolicies(files) = load[n]
  BY DEF listAvailablePolicies, n
<1> HIDE DEF load
<1>7. 0 \in Typed
  BY <1>2, <1>5
<1>8. ASSUME NEW k \in Nat, k \in Typed
      PROVE  k + 1 \in Typed
  <2> SUFFICES ASSUME k + 1 <= n PROVE load[k + 1] \in DistinctPolicies
    OBVIOUS
  <2>1. k <= n /\ k + 1 \in 1 .. n /\ (k + 1) - 1 = k
    BY <1>1
  <2>2. load[k + 1] = Loaded(load[k], files[k + 1])
    BY <1>5, <2>1
  <2> QED  BY <1>1, <1>8, <2>1, <2>2, LoadedType
<1> HIDE DEF Typed
<1>9. Nat \subseteq Typed
  BY <1>7, <1>8, Induction
<1> QED  BY <1>1, <1>6, <1>9 DEF Typed

(* What is registered are policies of the directory, each id once, and never  *)
(* the reserved one.                                                         *)
LEMMA RegistrableType ==
  ASSUME NEW i \in Instances
  PROVE  /\ Registrable[i] \in Seq(FileRecord) /\ Len(Registrable[i]) \in Nat
         /\ DOMAIN Registrable[i] = 1 .. Len(Registrable[i])
         /\ \A k \in 1 .. Len(Registrable[i]) :
              /\ Registrable[i][k].id \in Ids /\ Registrable[i][k].version \in Versions
              /\ Registrable[i][k].version # 0
         /\ \A j, k \in 1 .. Len(Registrable[i]) :
              Registrable[i][j].id = Registrable[i][k].id => j = k
<1> DEFINE all == listAvailablePolicies(Files[i])
           n == Len(all)
           reserved == {k \in 1 .. n : all[k].id = ReservedPolicy}
           at == Min(reserved)
           from(k) == IF k < at THEN k ELSE k + 1
           s == Registrable[i]
<1>1. all \in DistinctPolicies
  BY AvailableType, RegistrarAssumption
<1>2. /\ all \in Seq(FileRecord) /\ n \in Nat /\ DOMAIN all = 1 .. n
      /\ \A k \in 1 .. n : all[k].id # Unreadable /\ all[k] \in FileRecord
      /\ \A j, k \in 1 .. n : all[j].id = all[k].id => j = k
  BY <1>1 DEF DistinctPolicies
<1>3. s = IF reserved # {} THEN RemoveAt(all, at) ELSE all
  <2>1. s = RemoveFirstMatch(all, LAMBDA p : p.id = ReservedPolicy)
    BY DEF Registrable, listRegistrablePolicies
  <2>2. SelectInSeq(all, LAMBDA p : p.id = ReservedPolicy) = IF reserved # {} THEN at ELSE 0
    BY DEF SelectInSeq
  <2> QED  BY <2>1, <2>2 DEF RemoveFirstMatch
<1> HIDE DEF all, n, s
<1>4. CASE reserved = {}
  <2>1. s = all /\ \A k \in 1 .. n : all[k].id # ReservedPolicy
    BY <1>3, <1>4
  <2>2. \A k \in 1 .. n : all[k].id \in Ids /\ all[k].version \in Versions /\ all[k].version # 0
    BY <1>2, <2>1, RegistrarAssumption DEF FileRecord
  <2> QED  BY <1>2, <2>1, <2>2 DEF s, n
<1>5. CASE reserved # {}
  <2>1. at \in 1 .. n /\ all[at].id = ReservedPolicy
    <3>1. reserved \in SUBSET Nat
      BY <1>2
    <3> HIDE DEF reserved
    <3>2. PICK k \in reserved : \A j \in reserved : k <= j
      BY <1>5, <3>1, Minimum
    <3>3. at \in reserved
      BY <3>2 DEF Min
    <3> QED  BY <3>3 DEF reserved
  <2> HIDE DEF at
  <2> DEFINE before == SubSeq(all, 1, at - 1)
             after == SubSeq(all, at + 1, n)
  <2>2. s = before \o after
    BY <1>3, <1>5 DEF RemoveAt, n
  <2>3. /\ before \in Seq(FileRecord) /\ Len(before) = at - 1
        /\ \A k \in 1 .. at - 1 : before[k] = all[k]
    BY <1>2, <2>1, SubSeqProperties
  <2>4. after \in Seq(FileRecord) /\ Len(after) = n - at
    <3>1. \A k \in at + 1 .. n : all[k] \in FileRecord
      BY <1>2, <2>1
    <3>2. after \in Seq(FileRecord) /\ Len(after) = IF at + 1 <= n THEN n - (at + 1) + 1 ELSE 0
      BY <1>2, <2>1, <3>1, SubSeqProperties
    <3> HIDE DEF after
    <3>3. CASE at = n
      BY <1>2, <2>1, <3>2, <3>3
    <3>4. CASE at + 1 <= n
      BY <1>2, <2>1, <3>2, <3>4
    <3> QED  BY <1>2, <2>1, <3>3, <3>4
  <2>5. ASSUME NEW k \in at .. n - 1
        PROVE  after[k - (at - 1)] = all[k + 1]
    <3>1. k - (at - 1) \in 1 .. n - at /\ (at + 1) + (k - (at - 1)) - 1 = k + 1
      BY <1>2, <2>1
    <3> QED  BY <1>2, <2>1, <3>1
  <2> HIDE DEF before, after
  <2>6. /\ s \in Seq(FileRecord) /\ Len(s) = (at - 1) + (n - at)
        /\ \A k \in 1 .. (at - 1) + (n - at) :
             s[k] = IF k <= at - 1 THEN before[k] ELSE after[k - (at - 1)]
    BY <2>2, <2>3, <2>4, ConcatProperties
  <2>7. Len(s) = n - 1 /\ n - 1 \in Nat /\ DOMAIN s = 1 .. n - 1
    BY <1>2, <2>1, <2>6
  <2>8. ASSUME NEW k \in 1 .. n - 1
        PROVE  s[k] = all[from(k)] /\ from(k) \in 1 .. n /\ from(k) # at
    BY <1>2, <2>1, <2>3, <2>5, <2>6
  <2>9. \A j, k \in 1 .. n - 1 : from(j) = from(k) => j = k
    BY <1>2, <2>1
  <2> HIDE DEF from
  <2>10. ASSUME NEW k \in 1 .. n - 1
         PROVE  s[k].id \in Ids /\ s[k].version \in Versions /\ s[k].version # 0
    <3>1. s[k].id # ReservedPolicy /\ s[k].id # Unreadable /\ s[k] \in FileRecord
      BY <1>2, <2>1, <2>8
    <3> QED  BY <3>1, RegistrarAssumption DEF FileRecord
  <2>11. ASSUME NEW j \in 1 .. n - 1, NEW k \in 1 .. n - 1, s[j].id = s[k].id
         PROVE  j = k
    BY <1>2, <2>8, <2>9, <2>11
  <2> QED  BY <2>6, <2>7, <2>10, <2>11 DEF s
<1> QED  BY <1>4, <1>5

LEMMA SameRegistrable == UNCHANGED Registrable
  BY DEF Registrable

-----------------------------------------------------------------------------
(* Before the passes nothing is counted. *)
LEMMA InitIInv == Init => IInv
<1> SUFFICES ASSUME Init PROVE IInv
  OBVIOUS
<1>1. \A i \in Instances : /\ pc[i] = "starting" /\ next[i] = 1 /\ verifying[i] = FALSE
                           /\ drift[i] = {} /\ unread[i] = {} /\ begunAt[i] = 0
                           /\ \A p \in Ids : outcome[i][p] = "none"
  BY DEF Init
<1>0. misled = {}
  BY DEF Init
<1>2. TypeOK /\ next \in [Instances -> Nat]
  <2>1. \A i \in Instances : 1 \in 1 .. Len(Registrable[i]) + 1
    BY RegistrableType
  <2>2. 0 \in 0 .. MaxRestarts
    BY RegistrarAssumption
  <2>3. [p \in Ids |-> "none"] \in [Ids -> {"none", "registered", "already", "managed",
                                           "missing", "failed"}]
    OBVIOUS
  <2> QED  BY <1>0, <1>1, <2>1, <2>2, <2>3 DEF Init, TypeOK
<1>3. ASSUME NEW i \in Instances
      PROVE  InstanceInv(i)
  <2>1. \A k \in 1 .. Len(Registrable[i]) : Registrable[i][k].id \in Ids
    BY RegistrableType
  <2>2. begunAt[i] <= restarts
    BY <1>1 DEF Init
  <2>3. \A p \in Ids : outcome[i][p] \notin Counted
    BY <1>1 DEF Counted
  <2>4. Present(i) /\ Exact(i)
    BY <2>1, <2>3 DEF Present, Exact
  <2>5. \A k \in next[i] .. Len(Registrable[i]) :
          Registrable[i][k].id \notin drift[i] /\ outcome[i][Registrable[i][k].id] = "none"
    BY <1>1, <2>1
  <2> QED  BY <1>1, <2>2, <2>4, <2>5 DEF InstanceInv
<1>4. ASSUME NEW i \in Instances
      PROVE  AccountInv(i)
  <2>1. 1 .. next[i] - 1 = {}
    BY <1>1
  <2> QED  BY <1>1, <2>1 DEF AccountInv
<1> QED  BY <1>2, <1>3, <1>4 DEF IInv

-----------------------------------------------------------------------------
(* The end of an iteration moves one instance to its next policy. *)
LEMMA AdvanceStep ==
  ASSUME TypeOK, next \in [Instances -> Nat], NEW i \in Instances,
         pc[i] \in {"registering", "comparing", "verifying"},
         NEW isVerifying \in BOOLEAN, Advance(i, isVerifying)
  PROVE  /\ next' \in [Instances -> Nat]
         /\ pc' \in [Instances -> {"starting", "minting", "registering", "comparing",
                                   "verifying", "done", "aborted"}]
         /\ next'[i] = next[i] + 1 /\ pc'[i] \in {"done", "verifying", "registering"}
         /\ pc'[i] = "done" => next'[i] = Len(Registrable[i]) + 1
         /\ pc'[i] = "verifying" => isVerifying
         /\ \A j \in Instances : j # i => next'[j] = next[j] /\ pc'[j] = pc[j]
         /\ \A j \in Instances :
              /\ next'[j] \in 1 .. Len(Registrable[j]) + 1
              /\ pc'[j] \in {"registering", "comparing", "verifying"} =>
                   next'[j] <= Len(Registrable[j]) /\ Registrable[j][next'[j]].id \in Ids
<1> DEFINE n == Len(Registrable[i])
           k == next[i]
<1>1. k \in 1 .. n /\ n \in Nat /\ k \in Nat /\ \A m \in 1 .. n : Registrable[i][m].id \in Ids
  <2>1. n \in Nat /\ \A m \in 1 .. n : Registrable[i][m].id \in Ids
    BY RegistrableType
  <2>2. k \in 1 .. n + 1 /\ k <= n
    BY DEF TypeOK
  <2> HIDE DEF n, k
  <2> QED  BY <2>1, <2>2
<1>2. /\ next'[i] = k + 1 /\ next' \in [Instances -> Nat]
      /\ \A j \in Instances : j # i => next'[j] = next[j]
  <2>1. next' = [next EXCEPT ![i] = k + 1]
    BY DEF Advance
  <2>2. k + 1 \in Nat
    BY <1>1
  <2> HIDE DEF k
  <2> QED  BY <2>1, <2>2
<1>3. /\ pc'[i] = IF next[i] = Len(Registrable[i]) THEN "done"
                  ELSE IF isVerifying THEN "verifying" ELSE "registering"
      /\ pc' \in [Instances -> {"starting", "minting", "registering", "comparing",
                                "verifying", "done", "aborted"}]
      /\ \A j \in Instances : j # i => pc'[j] = pc[j]
  BY DEF Advance, TypeOK
<1>4. ASSUME NEW j \in Instances
      PROVE  /\ next'[j] \in 1 .. Len(Registrable[j]) + 1
             /\ pc'[j] \in {"registering", "comparing", "verifying"} =>
                  next'[j] <= Len(Registrable[j]) /\ Registrable[j][next'[j]].id \in Ids
  <2>1. CASE j = i
    <3>1. pc'[i] \in {"registering", "comparing", "verifying"} => k # n
      BY <1>3
    <3> HIDE DEF n, k
    <3>2. /\ next'[i] \in 1 .. n + 1
          /\ pc'[i] \in {"registering", "comparing", "verifying"} =>
               next'[i] <= n /\ next'[i] \in 1 .. n
      BY <1>1, <1>2, <3>1
    <3>3. pc'[i] \in {"registering", "comparing", "verifying"} =>
            Registrable[i][next'[i]].id \in Ids
      BY <1>1, <3>2
    <3> QED  BY <2>1, <3>2, <3>3 DEF n
  <2>2. CASE j # i
    BY <1>2, <1>3, <2>2 DEF TypeOK, Policy
  <2> QED  BY <2>1, <2>2
<1> QED  BY <1>1, <1>2, <1>3, <1>4 DEF k

(* Counting the current policy touches the count of that policy only.        *)
LEMMA CountStep ==
  ASSUME TypeOK, NEW i \in Instances, Policy(i).id \in Ids,
         NEW how \in {"none", "registered", "already", "managed", "missing", "failed"},
         Count(i, how)
  PROVE  /\ outcome' \in [Instances -> [Ids -> {"none", "registered", "already", "managed",
                                               "missing", "failed"}]]
         /\ outcome'[i][Policy(i).id] = how
         /\ \A p \in Ids : p # Policy(i).id => outcome'[i][p] = outcome[i][p]
         /\ \A j \in Instances : j # i => outcome'[j] = outcome[j]
<1> DEFINE id == Policy(i).id
<1>1. outcome' = [outcome EXCEPT ![i][id] = how]
  BY DEF Count
<1> HIDE DEF id
<1> QED  BY <1>1 DEF TypeOK, id

(* What one instance does leaves what another has counted as it was: a        *)
(* registration only adds a policy the runtime did not hold.                 *)
LEMMA OtherInstance ==
  ASSUME IInv, NEW j \in Instances,
         pc'[j] = pc[j], next'[j] = next[j], outcome'[j] = outcome[j], drift'[j] = drift[j],
         unread'[j] = unread[j], begunAt'[j] = begunAt[j], restarts' = restarts,
         verifying'[j] = verifying[j], readOnly' = readOnly, misled \subseteq misled',
         \A p \in Ids : registry[p] # 0 => registry'[p] = registry[p]
  PROVE  InstanceInv(j)' /\ AccountInv(j)'
<1>1. InstanceInv(j) /\ \A k \in 1 .. Len(Registrable[j]) : Registrable[j][k].id \in Ids
  BY RegistrableType DEF IInv
<1>2. UNCHANGED <<Policy(j), Undisturbed(j)>>
  BY SameRegistrable DEF Policy, Undisturbed
<1>3. Present(j) => Present(j)'
  BY DEF Present
<1>4. Present(j) /\ Exact(j) => Exact(j)'
  BY <1>1, SameRegistrable DEF Present, Exact
<1>5. InstanceInv(j)'
  BY <1>1, <1>2, <1>3, <1>4, SameRegistrable DEF InstanceInv
<1>6. AccountInv(j)'
  BY SameRegistrable DEF IInv, AccountInv
<1> QED  BY <1>5, <1>6

(* Settling the current policy: if it is counted as present, the runtime holds *)
(* it and its drift is reported or it was not read back; if as missing, the   *)
(* pass has switched.                                                       *)
LEMMA SettleStep ==
  ASSUME IInv, NEW i \in Instances, pc[i] \in {"registering", "comparing", "verifying"},
         NEW isVerifying \in BOOLEAN, Advance(i, isVerifying),
         NEW how \in {"none", "registered", "already", "managed", "missing", "failed"},
         outcome'[i][Policy(i).id] = how,
         \A p \in Ids : p # Policy(i).id => outcome'[i][p] = outcome[i][p],
         drift'[i] \in {drift[i], drift[i] \cup {Policy(i).id}},
         unread'[i] \in {unread[i], unread[i] \cup {Policy(i).id}},
         begunAt'[i] = begunAt[i], restarts' = restarts,
         \A p \in Ids : registry[p] # 0 => registry'[p] = registry[p],
         how \in Counted /\ Undisturbed(i) =>
           /\ registry'[Policy(i).id] # 0
           /\ \/ Policy(i).id \in unread'[i]
              \/ (Policy(i).id \in drift'[i]) = (registry'[Policy(i).id] # Policy(i).version),
         UNCHANGED <<readOnly, verifying, misled>>,
         how # "none", how = "missing" => verifying[i], isVerifying => verifying[i]
  PROVE  InstanceInv(i)' /\ AccountInv(i)'
<1> DEFINE n == Len(Registrable[i])
           k == next[i]
           id(m) == Registrable[i][m].id
<1>1. /\ InstanceInv(i) /\ n \in Nat /\ k \in 1 .. n /\ k \in Nat
      /\ \A m \in 1 .. n : id(m) \in Ids
      /\ \A l, m \in 1 .. n : id(l) = id(m) => l = m
  <2>1. /\ n \in Nat /\ \A m \in 1 .. n : id(m) \in Ids
        /\ \A l, m \in 1 .. n : id(l) = id(m) => l = m
    BY RegistrableType
  <2>2. k \in 1 .. n + 1 /\ k <= n /\ InstanceInv(i)
    BY DEF IInv, TypeOK
  <2> HIDE DEF n, k, id
  <2> QED  BY <2>1, <2>2
<1>2. /\ next'[i] = k + 1 /\ pc'[i] \in {"done", "verifying", "registering"}
  BY AdvanceStep DEF IInv
<1>3. /\ Policy(i).id = id(k) /\ Policy(i).version = Registrable[i][k].version /\ id(k) \in Ids
  BY <1>1 DEF Policy
<1>4. ASSUME NEW m \in 1 .. n, m # k
      PROVE  /\ outcome'[i][id(m)] = outcome[i][id(m)]
             /\ id(m) \in drift'[i] <=> id(m) \in drift[i]
             /\ id(m) \in unread'[i] <=> id(m) \in unread[i]
  BY <1>1, <1>3, <1>4
<1>5. ASSUME NEW m \in next'[i] .. n
      PROVE  id(m) \notin drift'[i] /\ outcome'[i][id(m)] = "none"
  <2>1. m \in 1 .. n /\ m # k /\ m \in k .. n
    BY <1>1, <1>2
  <2>2. id(m) \notin drift[i] /\ outcome[i][id(m)] = "none"
    BY <1>1, <2>1 DEF InstanceInv
  <2> QED  BY <1>4, <2>1, <2>2
<1>6. ASSUME Undisturbed(i)'
      PROVE  Present(i)' /\ Exact(i)'
  <2>1. Present(i) /\ Exact(i) /\ Undisturbed(i)
    BY <1>1, <1>6 DEF InstanceInv, Undisturbed
  <2>2. Present(i)'
    <3>1. ASSUME NEW p \in Ids, outcome'[i][p] \in Counted
          PROVE  registry'[p] # 0
      <4>1. CASE p = id(k)
        BY <1>3, <2>1, <3>1, <4>1
      <4>2. CASE p # id(k)
        BY <1>3, <2>1, <3>1, <4>2 DEF Present
      <4> QED  BY <4>1, <4>2
    <3> QED  BY <3>1 DEF Present
  <2>3. Exact(i)'
    <3>1. ASSUME NEW m \in 1 .. n, outcome'[i][id(m)] \in Counted, id(m) \notin unread'[i]
          PROVE  (id(m) \in drift'[i]) = (registry'[id(m)] # Registrable[i][m].version)
      <4>1. CASE m = k
        BY <1>3, <2>1, <3>1, <4>1
      <4>2. CASE m # k
        <5>1. /\ outcome[i][id(m)] \in Counted /\ id(m) \notin unread[i] /\ id(m) \in Ids
              /\ id(m) \in drift'[i] <=> id(m) \in drift[i]
          BY <1>1, <1>4, <3>1, <4>2
        <5>2. registry'[id(m)] = registry[id(m)]
          BY <2>1, <5>1 DEF Present
        <5>3. ~(pc[i] = "comparing" /\ next[i] = m)
          BY <4>2
        <5>4. (id(m) \in drift[i]) = (registry[id(m)] # Registrable[i][m].version)
          BY <2>1, <5>1, <5>3 DEF Exact
        <5> QED  BY <5>1, <5>2, <5>4
      <4> QED  BY <4>1, <4>2
    <3> QED  BY <3>1, SameRegistrable DEF Exact
  <2> QED  BY <2>2, <2>3
<1>7. begunAt'[i] <= restarts'
  BY <1>1 DEF InstanceInv
<1>8. AccountInv(i)'
  <2>1. /\ pc'[i] = "done" => next'[i] = n + 1
        /\ pc'[i] = "verifying" => verifying'[i]
    BY AdvanceStep DEF IInv
  <2>2. ASSUME NEW m \in 1 .. next'[i] - 1
        PROVE  outcome'[i][id(m)] # "none"
    <3>1. m = k \/ m \in 1 .. k - 1
      BY <1>1, <1>2
    <3>2. CASE m = k
      BY <1>3, <3>2
    <3>3. CASE m \in 1 .. k - 1
      <4>1. m \in 1 .. n /\ m # k /\ outcome[i][id(m)] # "none"
        BY <1>1, <3>3 DEF IInv, AccountInv
      <4> QED  BY <1>4, <4>1
    <3> QED  BY <3>1, <3>2, <3>3
  <2>3. ASSUME NEW p \in Ids, outcome'[i][p] = "missing"
        PROVE  verifying'[i]
    <3>1. CASE p = Policy(i).id
      BY <2>3, <3>1
    <3>2. CASE p # Policy(i).id
      BY <2>3, <3>2 DEF IInv, AccountInv
    <3> QED  BY <3>1, <3>2
  <2>4. verifying'[i] => readOnly' \/ i \in misled'
    BY DEF IInv, AccountInv
  <2> HIDE DEF k
  <2> QED  BY <2>1, <2>2, <2>3, <2>4, SameRegistrable DEF AccountInv
<1> HIDE DEF k
<1> QED  BY <1>2, <1>5, <1>6, <1>7, <1>8, SameRegistrable DEF InstanceInv

(* An error with a code is taken for a read-only registry's only if it is. *)
LEMMA ReadOnlyAnswer ==
  ASSUME NEW e \in Errors, isReadOnlyRegistryError(e), e.code # ""
  PROVE  readOnly
  BY DEF Errors, Codes, isReadOnlyRegistryError

-----------------------------------------------------------------------------
(* Every step of a pass keeps the invariant. *)
LEMMA StepInv ==
  ASSUME IInv, NEW i \in Instances, Step(i)
  PROVE  IInv'
<1> DEFINE id == Policy(i).id
           Others == \A j \in Instances : j # i =>
                       /\ pc'[j] = pc[j] /\ next'[j] = next[j] /\ outcome'[j] = outcome[j]
                       /\ drift'[j] = drift[j] /\ unread'[j] = unread[j]
                       /\ begunAt'[j] = begunAt[j] /\ verifying'[j] = verifying[j]
<1>0. /\ TypeOK /\ next \in [Instances -> Nat] /\ InstanceInv(i) /\ AccountInv(i)
      /\ restarts \in Nat /\ begunAt[i] \in Nat /\ next[i] \in Nat
      /\ Len(Registrable[i]) \in Nat
      /\ \A k \in 1 .. Len(Registrable[i]) :
           Registrable[i][k].id \in Ids /\ Registrable[i][k].version \in Versions
           /\ Registrable[i][k].version # 0
      /\ UNCHANGED Registrable
  BY RegistrableType, SameRegistrable DEF IInv, TypeOK
<1>1. ASSUME pc[i] \in {"registering", "comparing", "verifying"}
      PROVE  /\ id \in Ids /\ Policy(i).version \in Versions /\ Policy(i).version # 0
             /\ next[i] \in 1 .. Len(Registrable[i]) /\ id \notin drift[i]
             /\ registry[id] \in Versions \cup {0}
  <2> DEFINE n == Len(Registrable[i])
             k == next[i]
  <2>1. k \in 1 .. n + 1 /\ k <= n /\ n \in Nat /\ id \in Ids
    BY <1>0, <1>1 DEF TypeOK
  <2> HIDE DEF n, k
  <2>2. k \in 1 .. n /\ k \in k .. n
    BY <2>1
  <2> USE DEF n, k
  <2>3. id \notin drift[i]
    BY <1>0, <2>2 DEF InstanceInv, Policy
  <2>4. Policy(i).version \in Versions /\ Policy(i).version # 0
    BY <1>0, <2>2 DEF Policy
  <2>5. registry[id] \in Versions \cup {0}
    BY <1>0, <2>1 DEF TypeOK
  <2> QED  BY <2>1, <2>2, <2>3, <2>4, <2>5
<1>2. ASSUME Others, restarts' = restarts, InstanceInv(i)', AccountInv(i)',
             readOnly' = readOnly, misled \subseteq misled',
             \A p \in Ids : registry[p] # 0 => registry'[p] = registry[p]
      PROVE  \A j \in Instances : InstanceInv(j)' /\ AccountInv(j)'
  BY <1>2, OtherInstance
<1>3. CASE Start(i)
  <2>1. /\ pc[i] = "starting"
        /\ pc' = [pc EXCEPT ![i] = IF Registrable[i] = <<>> THEN "done" ELSE "minting"]
        /\ begunAt' = [begunAt EXCEPT ![i] = restarts]
        /\ UNCHANGED <<registry, readOnly, hasCodes, restarts, next, verifying, outcome, drift,
                       unread, misled>>
    BY <1>3 DEF Start, runtimeVars
  <2>2. /\ pc'[i] \in {"done", "minting"} /\ (pc'[i] = "minting" => Registrable[i] # <<>>)
        /\ begunAt'[i] = restarts /\ Others
    BY <1>0, <2>1 DEF TypeOK
  <2>3. TypeOK'
    <3>1. /\ pc' \in [Instances -> {"starting", "minting", "registering", "comparing",
                                    "verifying", "done", "aborted"}]
          /\ begunAt' \in [Instances -> 0 .. MaxRestarts]
      BY <1>0, <2>1 DEF TypeOK
    <3>2. \A j \in Instances :
            /\ next'[j] \in 1 .. Len(Registrable[j]) + 1
            /\ pc'[j] \in {"registering", "comparing", "verifying"} =>
                 next'[j] <= Len(Registrable[j]) /\ Registrable[j][next'[j]].id \in Ids
      BY <1>0, <2>1, <2>2 DEF TypeOK, Policy
    <3> QED  BY <1>0, <2>1, <3>1, <3>2 DEF TypeOK, Policy
  <2>4. InstanceInv(i)'
    <3>1. pc'[i] = "minting" => Len(Registrable[i]) >= 1
      BY <1>0, <2>2, RegistrableType, EmptySeq
    <3>2. \A p \in Ids : outcome'[i][p] \notin Counted
      BY <1>0, <2>1 DEF InstanceInv, Counted
    <3>3. Present(i)' /\ Exact(i)'
      BY <1>0, <3>2 DEF Present, Exact
    <3>4. begunAt'[i] <= restarts' /\ next'[i] = 1
      BY <1>0, <2>1, <2>2 DEF InstanceInv
    <3> QED  BY <1>0, <2>1, <2>2, <3>1, <3>3, <3>4 DEF InstanceInv
  <2>5. AccountInv(i)'
    <3>1. pc'[i] = "done" => Len(Registrable[i]) = 0
      BY <2>1, <1>0, EmptySeq DEF TypeOK
    <3>2. next[i] = 1 /\ 1 .. next[i] - 1 = {}
      BY <1>0, <2>1 DEF InstanceInv
    <3> QED  BY <1>0, <2>1, <2>2, <3>1, <3>2 DEF AccountInv
  <2> QED  BY <1>0, <1>2, <2>1, <2>2, <2>3, <2>4, <2>5 DEF IInv
<1>4. CASE Mint(i)
  <2>1. PICK c \in {"registering", "aborted"} : pc' = [pc EXCEPT ![i] = c]
    BY <1>4 DEF Mint
  <2>2. /\ pc[i] = "minting"
        /\ UNCHANGED <<registry, readOnly, hasCodes, restarts, next, verifying, outcome, drift,
                       unread, begunAt, misled>>
    BY <1>4 DEF Mint, runtimeVars
  <2>3. pc'[i] = c /\ Others
    BY <1>0, <2>1, <2>2 DEF TypeOK
  <2>4. next[i] = 1 /\ Len(Registrable[i]) >= 1 /\ Registrable[i][1].id \in Ids
    BY <1>0, <2>2 DEF InstanceInv
  <2>5. TypeOK'
    <3>1. pc' \in [Instances -> {"starting", "minting", "registering", "comparing",
                                "verifying", "done", "aborted"}]
      BY <1>0, <2>1 DEF TypeOK
    <3>2. \A j \in Instances :
            /\ next'[j] \in 1 .. Len(Registrable[j]) + 1
            /\ pc'[j] \in {"registering", "comparing", "verifying"} =>
                 next'[j] <= Len(Registrable[j]) /\ Registrable[j][next'[j]].id \in Ids
      BY <1>0, <2>2, <2>3, <2>4 DEF TypeOK, Policy
    <3> QED  BY <1>0, <2>2, <3>1, <3>2 DEF TypeOK, Policy
  <2>6. InstanceInv(i)'
    <3>1. Undisturbed(i)' => Present(i)' /\ Exact(i)'
      BY <1>0, <2>2, <2>3 DEF InstanceInv, Undisturbed, Present, Exact
    <3> QED  BY <1>0, <2>2, <2>3, <3>1 DEF InstanceInv
  <2>7. AccountInv(i)'
    BY <1>0, <2>2, <2>3 DEF AccountInv
  <2> QED  BY <1>0, <1>2, <2>2, <2>3, <2>5, <2>6, <2>7 DEF IInv
<1>5. CASE AlreadyRegistered(i)
  <2>1. /\ pc[i] = "registering" /\ registry[id] # 0 /\ Count(i, "already")
        /\ pc' = [pc EXCEPT ![i] = "comparing"]
        /\ UNCHANGED <<registry, readOnly, hasCodes, restarts, next, verifying, drift, unread,
                       begunAt, misled>>
    BY <1>5 DEF AlreadyRegistered, runtimeVars
  <2>2. /\ id \in Ids /\ next[i] \in 1 .. Len(Registrable[i]) /\ id \notin drift[i]
        /\ UNCHANGED Policy(i)
    BY <1>0, <1>1, <2>1 DEF Policy
  <2>3. /\ outcome' \in [Instances -> [Ids -> {"none", "registered", "already", "managed",
                                              "missing", "failed"}]]
        /\ outcome'[i][id] = "already"
        /\ \A p \in Ids : p # id => outcome'[i][p] = outcome[i][p]
        /\ \A j \in Instances : j # i => outcome'[j] = outcome[j]
    BY <1>0, <2>1, <2>2, CountStep
  <2> HIDE DEF id
  <2>4. pc'[i] = "comparing" /\ Others
    BY <1>0, <2>1, <2>3 DEF TypeOK
  <2>5. TypeOK'
    <3>1. pc' \in [Instances -> {"starting", "minting", "registering", "comparing",
                                "verifying", "done", "aborted"}]
      BY <1>0, <2>1 DEF TypeOK
    <3>2. \A j \in Instances :
            /\ next'[j] \in 1 .. Len(Registrable[j]) + 1
            /\ pc'[j] \in {"registering", "comparing", "verifying"} =>
                 next'[j] <= Len(Registrable[j]) /\ Registrable[j][next'[j]].id \in Ids
      BY <1>0, <2>1, <2>2, <2>4 DEF TypeOK, Policy, id
    <3> QED  BY <1>0, <2>1, <2>3, <3>1, <3>2 DEF TypeOK, Policy
  <2>6. InstanceInv(i)'
    <3> DEFINE n == Len(Registrable[i])
               k == next[i]
               name(m) == Registrable[i][m].id
    <3>1. /\ k \in 1 .. n /\ n \in Nat /\ id = name(k)
          /\ \A m \in 1 .. n : name(m) \in Ids
          /\ \A l, m \in 1 .. n : name(l) = name(m) => l = m
      BY <2>2, RegistrableType DEF Policy, id
    <3> HIDE DEF name
    <3>2. \A m \in k .. n : name(m) \notin drift'[i] /\ (m # k => outcome'[i][name(m)] = "none")
      <4> TAKE m \in k .. n
      <4>1. m \in 1 .. n /\ name(m) \notin drift[i] /\ (m # k => outcome[i][name(m)] = "none")
        BY <1>0, <2>1, <3>1 DEF InstanceInv, name
      <4> QED  BY <2>1, <2>3, <3>1, <4>1
    <3>3. ASSUME Undisturbed(i)'
          PROVE  Present(i)' /\ Exact(i)'
      <4>1. Present(i) /\ Exact(i)
        BY <1>0, <2>1, <3>3 DEF InstanceInv, Undisturbed
      <4>2. Present(i)'
        BY <2>1, <2>3, <4>1 DEF Present
      <4>3. ASSUME NEW m \in 1 .. n, outcome'[i][name(m)] \in Counted, name(m) \notin unread'[i],
                   ~(pc'[i] = "comparing" /\ next'[i] = m)
            PROVE  (name(m) \in drift'[i]) = (registry'[name(m)] # Registrable[i][m].version)
        <5>1. m # k /\ name(m) # id /\ name(m) \in Ids
          BY <2>1, <2>4, <3>1, <4>3
        <5>2. outcome[i][name(m)] \in Counted
          BY <2>3, <4>3, <5>1
        <5> QED  BY <2>1, <4>1, <4>3, <5>1, <5>2 DEF Exact, name
      <4>4. Exact(i)'
        BY <1>0, <4>3 DEF Exact, name
      <4> QED  BY <4>2, <4>4
    <3>4. begunAt'[i] <= restarts'
      BY <1>0, <2>1 DEF InstanceInv
    <3>5. \A m \in next'[i] .. Len(Registrable'[i]) :
            /\ Registrable'[i][m].id \notin drift'[i]
            /\ m # next'[i] \/ pc'[i] # "comparing" => outcome'[i][Registrable'[i][m].id] = "none"
      BY <1>0, <2>1, <2>4, <3>2 DEF name
    <3>6. outcome'[i][Policy(i)'.id] = "already"
      BY <2>2, <2>3 DEF id
    <3> QED  BY <2>4, <3>3, <3>4, <3>5, <3>6 DEF InstanceInv
  <2>7. AccountInv(i)'
    <3> DEFINE name(m) == Registrable[i][m].id
    <3>1. ASSUME NEW m \in 1 .. next'[i] - 1
          PROVE  outcome'[i][name(m)] # "none"
      <4>1. m \in 1 .. Len(Registrable[i]) /\ name(m) \in Ids /\ outcome[i][name(m)] # "none"
        BY <1>0, <2>1, <2>2 DEF AccountInv
      <4> QED  BY <2>3, <4>1
    <3>2. \A p \in Ids : outcome'[i][p] = "missing" => verifying'[i]
      BY <1>0, <2>1, <2>3 DEF AccountInv
    <3> QED  BY <1>0, <2>1, <2>4, <3>1, <3>2 DEF AccountInv
  <2> QED  BY <1>0, <1>2, <2>1, <2>4, <2>5, <2>6, <2>7 DEF IInv
<1>6. ASSUME NEW isVerifying \in BOOLEAN, pc[i] \in {"registering", "comparing", "verifying"},
             NEW how \in {"none", "registered", "already", "managed", "missing", "failed"},
             Advance(i, isVerifying),
             Count(i, how) \/ (how = outcome[i][id] /\ UNCHANGED outcome),
             UNCHANGED <<readOnly, hasCodes, restarts, verifying, begunAt, misled>>,
             how # "none", how = "missing" => verifying[i], isVerifying => verifying[i],
             drift' \in {drift, [drift EXCEPT ![i] = drift[i] \cup {id}]},
             unread' \in {unread, [unread EXCEPT ![i] = unread[i] \cup {id}]},
             registry' \in [Ids -> Versions \cup {0}],
             \A p \in Ids : registry[p] # 0 => registry'[p] = registry[p],
             how \in Counted /\ Undisturbed(i) =>
               /\ registry'[id] # 0
               /\ \/ id \in unread'[i]
                  \/ (id \in drift'[i]) = (registry'[id] # Policy(i).version)
      PROVE  IInv'
  <2>1. id \in Ids
    BY <1>1, <1>6
  <2>2. /\ outcome' \in [Instances -> [Ids -> {"none", "registered", "already", "managed",
                                              "missing", "failed"}]]
        /\ outcome'[i][id] = how
        /\ \A p \in Ids : p # id => outcome'[i][p] = outcome[i][p]
        /\ \A j \in Instances : j # i => outcome'[j] = outcome[j]
    <3>1. CASE Count(i, how)
      BY <1>0, <2>1, <3>1, CountStep
    <3>2. CASE how = outcome[i][id] /\ UNCHANGED outcome
      BY <1>0, <3>2 DEF TypeOK
    <3> QED  BY <1>6, <3>1, <3>2
  <2>3. /\ next' \in [Instances -> Nat]
        /\ pc' \in [Instances -> {"starting", "minting", "registering", "comparing",
                                  "verifying", "done", "aborted"}]
        /\ \A j \in Instances : j # i => next'[j] = next[j] /\ pc'[j] = pc[j]
        /\ \A j \in Instances :
             /\ next'[j] \in 1 .. Len(Registrable[j]) + 1
             /\ pc'[j] \in {"registering", "comparing", "verifying"} =>
                  next'[j] <= Len(Registrable[j]) /\ Registrable[j][next'[j]].id \in Ids
    BY <1>0, <1>6, AdvanceStep
  <2> HIDE DEF id
  <2>4. /\ drift' \in [Instances -> SUBSET Ids] /\ unread' \in [Instances -> SUBSET Ids]
        /\ \A j \in Instances : j # i => drift'[j] = drift[j] /\ unread'[j] = unread[j]
        /\ drift'[i] \in {drift[i], drift[i] \cup {id}}
        /\ unread'[i] \in {unread[i], unread[i] \cup {id}}
    <3>1. drift \in [Instances -> SUBSET Ids] /\ unread \in [Instances -> SUBSET Ids]
      BY <1>0 DEF TypeOK
    <3>2. /\ drift' \in [Instances -> SUBSET Ids] /\ drift'[i] \in {drift[i], drift[i] \cup {id}}
          /\ \A j \in Instances : j # i => drift'[j] = drift[j]
      BY <1>6, <2>1, <3>1
    <3>3. /\ unread' \in [Instances -> SUBSET Ids]
          /\ unread'[i] \in {unread[i], unread[i] \cup {id}}
          /\ \A j \in Instances : j # i => unread'[j] = unread[j]
      BY <1>6, <2>1, <3>1
    <3> QED  BY <3>2, <3>3
  <2>5. TypeOK'
    BY <1>0, <1>6, <2>2, <2>3, <2>4 DEF TypeOK, Policy
  <2>6. Others
    BY <1>6, <2>2, <2>3, <2>4
  <2> USE DEF id
  <2>7. InstanceInv(i)' /\ AccountInv(i)'
    BY <1>6, <2>2, <2>4, SettleStep
  <2> HIDE DEF id, Others
  <2> QED  BY <1>2, <1>6, <2>3, <2>5, <2>6, <2>7 DEF IInv
<1>7. CASE RegisterOk(i)
  <2>1. /\ pc[i] = "registering" /\ registry[id] = 0 /\ Advance(i, FALSE)
        /\ registry' = [registry EXCEPT ![id] = Policy(i).version]
        /\ UNCHANGED <<readOnly, hasCodes, restarts, verifying, drift, unread, begunAt, misled>>
    BY <1>7 DEF RegisterOk
  <2>2. PICK how \in {"registered", "failed"} : Count(i, how)
    BY <1>7 DEF RegisterOk
  <2>3. /\ id \in Ids /\ id \notin drift[i]
        /\ Policy(i).version \in Versions /\ Policy(i).version # 0
    BY <1>1, <2>1
  <2> DEFINE version == Policy(i).version
  <2> HIDE DEF id, version
  <2>4. /\ registry' \in [Ids -> Versions \cup {0}] /\ registry'[id] = version
        /\ \A p \in Ids : registry[p] # 0 => registry'[p] = registry[p]
    BY <1>0, <2>1, <2>3 DEF TypeOK, version
  <2>5. how \in Counted =>
          registry'[id] # 0 /\ (id \in drift'[i]) = (registry'[id] # version)
    BY <2>1, <2>3, <2>4 DEF version
  <2> USE DEF id, version
  <2> QED  BY <1>6, <2>1, <2>2, <2>4, <2>5
<1>8. CASE Refused(i)
  <2>1. PICK e \in Errors :
          /\ pc[i] = "registering"
          /\ \/ /\ isReadOnlyRegistryError(e)
                /\ verifying' = [verifying EXCEPT ![i] = TRUE]
                /\ misled' = IF e.code = "" THEN misled \cup {i} ELSE misled
                /\ pc' = [pc EXCEPT ![i] = "verifying"]
                /\ UNCHANGED <<next, outcome>>
             \/ /\ ~isReadOnlyRegistryError(e)
                /\ Count(i, "failed")
                /\ Advance(i, FALSE)
                /\ UNCHANGED <<verifying, misled>>
          /\ UNCHANGED <<registry, readOnly, hasCodes, restarts, drift, unread, begunAt>>
    BY <1>8 DEF Refused, runtimeVars
  <2>2. CASE isReadOnlyRegistryError(e)
    <3>1. /\ verifying' = [verifying EXCEPT ![i] = TRUE]
          /\ misled' = IF e.code = "" THEN misled \cup {i} ELSE misled
          /\ pc' = [pc EXCEPT ![i] = "verifying"]
          /\ UNCHANGED <<next, outcome, registry, readOnly, hasCodes, restarts, drift, unread,
                         begunAt>>
      BY <2>1, <2>2
    <3>2. pc'[i] = "verifying" /\ verifying'[i] /\ Others /\ misled \subseteq misled'
      BY <1>0, <3>1 DEF TypeOK
    <3>3. readOnly' \/ i \in misled'
      BY <2>2, <3>1, ReadOnlyAnswer
    <3>4. TypeOK'
      <4>1. /\ pc' \in [Instances -> {"starting", "minting", "registering", "comparing",
                                      "verifying", "done", "aborted"}]
            /\ verifying' \in [Instances -> BOOLEAN] /\ misled' \subseteq Instances
        BY <1>0, <3>1 DEF TypeOK
      <4>2. \A j \in Instances :
              /\ next'[j] \in 1 .. Len(Registrable[j]) + 1
              /\ pc'[j] \in {"registering", "comparing", "verifying"} =>
                   next'[j] <= Len(Registrable[j]) /\ Registrable[j][next'[j]].id \in Ids
        BY <1>0, <2>1, <3>1, <3>2 DEF TypeOK, Policy
      <4> QED  BY <1>0, <3>1, <4>1, <4>2 DEF TypeOK, Policy
    <3>5. InstanceInv(i)'
      <4>1. ASSUME Undisturbed(i)'
            PROVE  Present(i)' /\ Exact(i)'
        <5>1. Present(i) /\ Exact(i)
          BY <1>0, <3>1, <4>1 DEF InstanceInv, Undisturbed
        <5>2. Present(i)'
          BY <3>1, <5>1 DEF Present
        <5>3. pc[i] = "registering" /\ pc'[i] = "verifying"
          BY <2>1, <3>2
        <5>4. Exact(i)'
          BY <1>0, <3>1, <5>1, <5>3 DEF Exact
        <5> QED  BY <5>2, <5>4
      <4> QED  BY <1>0, <2>1, <3>1, <3>2, <4>1 DEF InstanceInv
    <3>6. AccountInv(i)'
      BY <1>0, <3>1, <3>2, <3>3 DEF AccountInv
    <3> QED  BY <1>0, <1>2, <3>1, <3>2, <3>4, <3>5, <3>6 DEF IInv
  <2>3. CASE ~isReadOnlyRegistryError(e)
    <3>1. /\ Count(i, "failed") /\ Advance(i, FALSE) /\ "failed" \notin Counted
          /\ UNCHANGED <<verifying, registry, readOnly, hasCodes, restarts, drift, unread, begunAt,
                         misled>>
      BY <2>1, <2>3 DEF Counted
    <3>2. registry' \in [Ids -> Versions \cup {0}]
      BY <1>0, <3>1 DEF TypeOK
    <3> QED  BY <1>6, <2>1, <3>1, <3>2
  <2> QED  BY <2>2, <2>3
<1>9. ASSUME Compare(i), id \notin drift[i]
      PROVE  /\ drift' \in {drift, [drift EXCEPT ![i] = drift[i] \cup {id}]}
             /\ (id \in drift'[i]) = (registry[id] # Policy(i).version)
  <2>1. drift' = [drift EXCEPT ![i] = IF registry[id] # Policy(i).version
                                        THEN drift[i] \cup {id} ELSE drift[i]]
    BY <1>9 DEF Compare
  <2>2. drift \in [Instances -> SUBSET Ids]
    BY <1>0 DEF TypeOK
  <2>3. CASE registry[id] # Policy(i).version
    <3>1. drift' = [drift EXCEPT ![i] = drift[i] \cup {id}]
      BY <2>1, <2>3
    <3> QED  BY <2>2, <2>3, <3>1
  <2>4. CASE registry[id] = Policy(i).version
    <3>1. drift' = drift
      BY <2>1, <2>2, <2>4
    <3> QED  BY <1>9, <2>4, <3>1
  <2> QED  BY <2>3, <2>4
<1>10. CASE checkSchemaDrift(i)
  <2>1. /\ pc[i] = "comparing" /\ Advance(i, FALSE)
        /\ UNCHANGED <<registry, readOnly, hasCodes, restarts, verifying, outcome, begunAt, misled>>
        /\ \/ registry[id] # 0 /\ Compare(i) /\ UNCHANGED unread
           \/ unread' = [unread EXCEPT ![i] = unread[i] \cup {id}] /\ UNCHANGED drift
    BY <1>10 DEF checkSchemaDrift, runtimeVars
  <2>2. /\ id \notin drift[i] /\ outcome[i][id] = "already"
        /\ registry' \in [Ids -> Versions \cup {0}]
    BY <1>0, <1>1, <2>1 DEF InstanceInv, TypeOK
  <2>3. CASE registry[id] # 0 /\ Compare(i) /\ UNCHANGED unread
    BY <1>6, <1>9, <2>1, <2>2, <2>3
  <2>4. CASE unread' = [unread EXCEPT ![i] = unread[i] \cup {id}] /\ UNCHANGED drift
    <3>1. id \in unread'[i]
      BY <1>0, <2>4 DEF TypeOK
    <3>2. Undisturbed(i) => registry[id] # 0
      BY <1>0, <1>1, <2>1, <2>2 DEF InstanceInv, Present, Counted
    <3> QED  BY <1>6, <2>1, <2>2, <2>4, <3>1, <3>2
  <2> QED  BY <2>1, <2>3, <2>4
<1>11. CASE verifyManagedPolicy(i)
  <2>1. /\ pc[i] = "verifying" /\ Advance(i, TRUE)
        /\ UNCHANGED <<registry, readOnly, hasCodes, restarts, verifying, unread, begunAt, misled>>
        /\ verifying[i]
        /\ \/ registry[id] # 0 /\ Count(i, "managed") /\ Compare(i)
           \/ Count(i, "missing") /\ UNCHANGED drift
    BY <1>0, <1>11 DEF verifyManagedPolicy, runtimeVars, AccountInv
  <2>2. id \notin drift[i] /\ registry' \in [Ids -> Versions \cup {0}]
    BY <1>0, <1>1, <2>1 DEF TypeOK
  <2>3. CASE registry[id] # 0 /\ Count(i, "managed") /\ Compare(i)
    BY <1>6, <1>9, <2>1, <2>2, <2>3
  <2>4. CASE Count(i, "missing") /\ UNCHANGED drift
    BY <1>6, <2>1, <2>2, <2>4 DEF Counted
  <2> QED  BY <2>1, <2>3, <2>4
<1> QED  BY <1>3, <1>4, <1>5, <1>7, <1>8, <1>10, <1>11 DEF Step

(* A restart forgets what a writable registry held; every pass that had begun *)
(* is disturbed by it.                                                       *)
LEMMA RestartInv ==
  ASSUME IInv, Restart
  PROVE  IInv'
<1>1. /\ TypeOK /\ next \in [Instances -> Nat]
      /\ \A i \in Instances : InstanceInv(i) /\ AccountInv(i)
      /\ restarts \in 0 .. MaxRestarts /\ MaxRestarts \in Nat
      /\ UNCHANGED Registrable
  BY SameRegistrable, RegistrarAssumption DEF IInv, TypeOK
<1>2. /\ restarts' = restarts + 1 /\ restarts < MaxRestarts
      /\ registry' = IF readOnly THEN registry ELSE [p \in Ids |-> 0]
      /\ UNCHANGED <<readOnly, hasCodes, pc, next, verifying, outcome, drift, unread, begunAt,
                     misled>>
  BY DEF Restart
<1>3. TypeOK'
  <2>1. registry' \in [Ids -> Versions \cup {0}] /\ restarts' \in 0 .. MaxRestarts
    BY <1>1, <1>2 DEF TypeOK
  <2>2. \A j \in Instances :
          /\ next'[j] \in 1 .. Len(Registrable[j]) + 1
          /\ pc'[j] \in {"registering", "comparing", "verifying"} =>
               next'[j] <= Len(Registrable[j]) /\ Registrable[j][next'[j]].id \in Ids
    BY <1>1, <1>2 DEF TypeOK, Policy
  <2> QED  BY <1>1, <1>2, <2>1, <2>2 DEF TypeOK, Policy
<1>4. ASSUME NEW i \in Instances
      PROVE  InstanceInv(i)'
  <2>1. begunAt[i] \in Nat /\ begunAt[i] <= restarts
    BY <1>1 DEF InstanceInv, TypeOK
  <2>2. begunAt'[i] <= restarts' /\ begunAt'[i] # restarts'
    BY <1>1, <1>2, <2>1
  <2>3. ~Undisturbed(i)'
    BY <2>2 DEF Undisturbed
  <2> QED  BY <1>1, <1>2, <2>2, <2>3 DEF InstanceInv, Policy
<1>5. \A i \in Instances : AccountInv(i)'
  BY <1>1, <1>2 DEF AccountInv
<1> QED  BY <1>1, <1>2, <1>3, <1>4, <1>5 DEF IInv

-----------------------------------------------------------------------------
(* The inductive invariant holds in every state of every deployment. *)
THEOREM Invariance == Spec => []IInv
<1>1. ASSUME IInv, UNCHANGED vars
      PROVE  IInv'
  <2>1. /\ UNCHANGED <<registry, readOnly, hasCodes, restarts, pc, next, verifying, outcome, drift,
                       unread, begunAt, misled>>
        /\ UNCHANGED Registrable
    BY <1>1, SameRegistrable DEF vars
  <2>2. TypeOK'
    BY <1>1, <2>1 DEF IInv, TypeOK, Policy
  <2>3. \A i \in Instances : InstanceInv(i)'
    BY <1>1, <2>1 DEF IInv, InstanceInv, Present, Exact, Undisturbed, Policy
  <2>4. \A i \in Instances : AccountInv(i)'
    BY <1>1, <2>1 DEF IInv, AccountInv
  <2> QED  BY <1>1, <2>1, <2>2, <2>3, <2>4 DEF IInv
<1>2. IInv /\ [Next]_vars => IInv'
  BY <1>1, StepInv, RestartInv DEF Next
<1> QED  BY InitIInv, <1>2, PTL DEF Spec

(* Every pass stays inside its list of policies, none of them the reserved    *)
(* one.                                                                      *)
THEOREM Typing == Spec => []TypeOK
<1>1. IInv => TypeOK
  BY DEF IInv
<1> QED  BY Invariance, <1>1, PTL

(* A policy the log counts as present is there until the runtime restarts.   *)
THEOREM CountedPolicies == Spec => []CountedPoliciesArePresent
<1>1. IInv => CountedPoliciesArePresent
  BY DEF IInv, InstanceInv, Present, Counted, CountedPoliciesArePresent
<1> QED  BY Invariance, <1>1, PTL

(* Drift is reported for exactly the policies that were compared and differ. *)
THEOREM ExactDrift == Spec => []DriftIsReported
<1>1. IInv => DriftIsReported
  BY DEF IInv, InstanceInv, Exact, Counted, DriftIsReported
<1> QED  BY Invariance, <1>1, PTL

(* What a finished pass leaves the runtime without failed by itself, or is    *)
(* named as missing; and as missing from a read-only registry wrongly only    *)
(* after an error without a code.                                           *)
THEOREM AbsencesNamed == Spec => []AbsentPoliciesAreNamed
<1>1. ASSUME IInv PROVE AbsentPoliciesAreNamed
  <2> SUFFICES ASSUME NEW i \in Instances, pc[i] = "done", Undisturbed(i),
                      NEW k \in DOMAIN Registrable[i],
                      registry[Registrable[i][k].id] = 0
               PROVE  LET p == Registrable[i][k].id IN
                      \/ outcome[i][p] = "failed"
                      \/ outcome[i][p] = "missing" /\ verifying[i] /\ (readOnly \/ i \in misled)
    BY DEF AbsentPoliciesAreNamed
  <2> DEFINE n == Len(Registrable[i])
             p == Registrable[i][k].id
  <2>1. InstanceInv(i) /\ AccountInv(i) /\ TypeOK
    BY <1>1 DEF IInv
  <2>2. n \in Nat /\ k \in 1 .. n /\ p \in Ids
    BY RegistrableType
  <2>3. next[i] - 1 = n
    BY <2>1, <2>2 DEF AccountInv
  <2>4. outcome[i][p] # "none"
    BY <2>1, <2>2, <2>3 DEF AccountInv
  <2>5. outcome[i][p] \notin Counted
    BY <2>1, <2>2 DEF InstanceInv, Present
  <2>6. outcome[i][p] \in {"failed", "missing"}
    BY <2>1, <2>2, <2>4, <2>5 DEF TypeOK, Counted
  <2> QED  BY <2>1, <2>2, <2>6 DEF AccountInv
<1> QED  BY Invariance, <1>1, PTL
=============================================================================
