------------------------ MODULE ClaimConfigsProofs -------------------------
(***************************************************************************)
(* Proofs about ClaimConfigs for every list of configs, every set of       *)
(* feature gates and any number of up- and downgrades.  What the loops of  *)
(* GetOpaqueDeviceConfigs make of a list of any length is derived from the *)
(* order of the natural numbers.                                           *)
(***************************************************************************)
EXTENDS ClaimConfigs, FiniteSetTheorems, TLAPS

-----------------------------------------------------------------------------
(* Numbers *)

(* Every set of numbers that is not empty has a least one. *)
LEMMA Least ==
    ASSUME NEW T \in SUBSET Nat, T # {}
    PROVE  \E m \in T : \A n \in T : m <= n
<1>1. PICK m \in T : \A n \in T : ~(<<n, m>> \in OpToRel(<, Nat))
  BY NatLessThanWellFounded, WFMin
<1>2. \A n \in T : ~(n < m)
  BY <1>1 DEF OpToRel
<1> QED
  BY <1>2

(* A bounded one has a greatest one. *)
LEMMA Greatest ==
    ASSUME NEW T \in SUBSET Nat, T # {}, NEW b \in Nat, \A n \in T : n <= b
    PROVE  Max(T) \in T /\ \A n \in T : n <= Max(T)
<1> DEFINE U == {n \in Nat : \A x \in T : x <= n}
<1>1. PICK m \in U : \A n \in U : m <= n
  BY Least
<1>2. m \in T
  <2>1. SUFFICES ASSUME m \notin T PROVE FALSE
    OBVIOUS
  <2>2. \A x \in T : x <= m - 1
    BY <1>1, <2>1
  <2>3. m - 1 \in Nat
    <3>1. PICK x \in T : TRUE
      OBVIOUS
    <3>2. x \in Nat /\ m \in Nat /\ x <= m /\ x # m
      BY <1>1, <2>1, <3>1
    <3> QED
      BY <3>2
  <2> QED
    BY <1>1, <2>2, <2>3
<1> QED
  BY <1>1, <1>2 DEF Max

(* The elements of S that are less than i *)
Below(S, i) == {j \in S : j < i}

LEMMA BelowFacts ==
    ASSUME NEW S \in SUBSET Nat, IsFiniteSet(S), NEW i \in S
    PROVE  /\ IsFiniteSet(Below(S, i)) /\ Cardinality(Below(S, i)) \in Nat
           /\ Cardinality(Below(S, i)) < Cardinality(S)
<1>1. Below(S, i) \subseteq S \ {i}
  BY DEF Below
<1>2. /\ IsFiniteSet(S \ {i}) /\ Cardinality(S \ {i}) = Cardinality(S) - 1
      /\ Cardinality(S) \in Nat
  BY FS_RemoveElement, FS_CardinalityType
<1>3. IsFiniteSet(Below(S, i)) /\ Cardinality(Below(S, i)) <= Cardinality(S \ {i})
  BY <1>1, <1>2, FS_Subset
<1>4. Cardinality(Below(S, i)) \in Nat
  BY <1>3, FS_CardinalityType
<1> QED
  BY <1>2, <1>3, <1>4

(* More is below a greater element. *)
LEMMA BelowMonotone ==
    ASSUME NEW S \in SUBSET Nat, IsFiniteSet(S), NEW i \in S, NEW j \in S, i < j
    PROVE  Cardinality(Below(S, i)) < Cardinality(Below(S, j))
<1>1. /\ IsFiniteSet(Below(S, i)) /\ Cardinality(Below(S, i)) \in Nat
      /\ IsFiniteSet(Below(S, j)) /\ Cardinality(Below(S, j)) \in Nat
  BY BelowFacts
<1>2. i \notin Below(S, i) /\ Below(S, i) \cup {i} \in SUBSET Below(S, j)
  <2>1. \A n \in S : n \in Nat
    OBVIOUS
  <2>2. i \in Nat /\ j \in Nat
    BY <2>1
  <2>3. \A n \in S : n < i => n < j
    BY <2>1, <2>2
  <2>4. ~(i < i)
    BY <2>2
  <2> QED
    BY <2>3, <2>4 DEF Below
<1>3. Cardinality(Below(S, i) \cup {i}) = Cardinality(Below(S, i)) + 1
  BY <1>1, <1>2, FS_AddElement
<1>4. Cardinality(Below(S, i) \cup {i}) <= Cardinality(Below(S, j))
  BY <1>1, <1>2, FS_Subset
<1> QED
  BY <1>1, <1>3, <1>4

(* There is a k-th element for every k up to the size of the set. *)
LEMMA NthExists ==
    ASSUME NEW S \in SUBSET Nat, IsFiniteSet(S), NEW k \in 1 .. Cardinality(S)
    PROVE  \E i \in S : Cardinality(Below(S, i)) = k - 1
<1>0. Cardinality(S) \in Nat /\ \A n \in S : n \in Nat
  BY FS_CardinalityType
<1> DEFINE T == {n \in Nat : /\ n >= 1 /\ n <= Cardinality(S)
                            /\ \A i \in S : Cardinality(Below(S, i)) # n - 1}
<1>1. SUFFICES ASSUME T # {} PROVE FALSE
  BY <1>0
<1>2. PICK m \in T : \A n \in T : m <= n
  BY <1>1, Least
<1>3. m \in Nat /\ m >= 1 /\ m <= Cardinality(S)
  BY <1>2
<1>4. CASE m = 1
  <2>1. S # {}
    BY <1>3, <1>4, FS_EmptySet
  <2>2. PICK i \in S : \A j \in S : i <= j
    BY <2>1, Least
  <2>3. Below(S, i) = {}
    <3>1. \A j \in S : ~(j < i)
      BY <1>0, <2>2
    <3> QED
      BY <3>1 DEF Below
  <2> QED
    BY <1>2, <1>4, <2>2, <2>3, FS_EmptySet
<1>5. CASE m > 1
  <2>1. m - 1 \in Nat /\ m - 1 >= 1 /\ m - 1 <= Cardinality(S) /\ m - 1 \notin T
    BY <1>0, <1>2, <1>3, <1>5
  <2>2. PICK i \in S : Cardinality(Below(S, i)) = (m - 1) - 1
    BY <2>1
  <2> DEFINE L == Below(S, i) \cup {i}
  <2>3. IsFiniteSet(Below(S, i)) /\ i \notin Below(S, i)
    BY <1>0, BelowFacts DEF Below
  <2>4. Cardinality(L) = m - 1
    <3>1. Cardinality(L) = Cardinality(Below(S, i)) + 1
      BY <2>3, FS_AddElement
    <3> HIDE DEF L
    <3> QED
      BY <1>3, <2>2, <3>1
  <2>5. S \ L # {} /\ S \ L \in SUBSET Nat
    <3>1. L \subseteq S
      BY DEF Below
    <3>2. L # S
      <4> HIDE DEF L
      <4> QED
        BY <1>0, <1>3, <2>4
    <3> HIDE DEF L
    <3> QED
      BY <3>1, <3>2
  <2>6. PICK j \in S \ L : \A n \in S \ L : j <= n
    <3> HIDE DEF L
    <3> QED
      BY <2>5, Least
  <2>7. Below(S, j) = L
    <3>1. i \in Nat /\ j \in S /\ j \in Nat /\ ~(j < i) /\ j # i
      BY <1>0, <2>6 DEF Below
    <3>2. ASSUME NEW n \in S PROVE n < j <=> n \in L
      <4>1. n \in Nat
        BY <1>0
      <4>2. CASE n \in L
        <5>1. n < i \/ n = i
          BY <4>2 DEF Below
        <5> QED
          BY <3>1, <4>1, <4>2, <5>1
      <4>3. CASE n \notin L
        <5> HIDE DEF L
        <5> QED
          BY <2>6, <3>1, <4>1, <4>3
      <4> QED
        BY <4>2, <4>3
    <3>3. L \subseteq S
      BY DEF Below
    <3> HIDE DEF L
    <3> QED
      BY <3>2, <3>3 DEF Below
  <2>8. Cardinality(Below(S, j)) = m - 1
    BY <2>4, <2>7
  <2> QED
    BY <1>2, <2>6, <2>8
<1> QED
  BY <1>3, <1>4, <1>5

LEMMA NthFacts ==
    ASSUME NEW S \in SUBSET Nat, IsFiniteSet(S), NEW k \in 1 .. Cardinality(S)
    PROVE  Nth(S, k) \in S /\ Cardinality(Below(S, Nth(S, k))) = k - 1
<1>1. \E i \in S : Cardinality({j \in S : j < i}) = k - 1
  BY NthExists DEF Below
<1> QED
  BY <1>1 DEF Nth, Below

(* Every element is the k-th for some k, and a greater one for a greater k. *)
LEMMA NthOnto ==
    ASSUME NEW S \in SUBSET Nat, IsFiniteSet(S), NEW i \in S
    PROVE  \E k \in 1 .. Cardinality(S) : Nth(S, k) = i
<1> DEFINE k == Cardinality(Below(S, i)) + 1
<1>1. k \in 1 .. Cardinality(S) /\ k - 1 = Cardinality(Below(S, i))
  BY BelowFacts, FS_CardinalityType
<1> HIDE DEF k
<1>2. Nth(S, k) \in S /\ Cardinality(Below(S, Nth(S, k))) = k - 1
  BY <1>1, NthFacts
<1>3. Nth(S, k) \in Nat /\ i \in Nat /\ Cardinality(Below(S, i)) \in Nat
  BY <1>2, BelowFacts
<1>4. ~(Nth(S, k) < i)
  BY <1>1, <1>2, <1>3, BelowMonotone
<1>5. ~(i < Nth(S, k))
  BY <1>1, <1>2, <1>3, BelowMonotone
<1> QED
  BY <1>1, <1>3, <1>4, <1>5

LEMMA NthMonotone ==
    ASSUME NEW S \in SUBSET Nat, IsFiniteSet(S),
           NEW k \in 1 .. Cardinality(S), NEW l \in 1 .. Cardinality(S), k < l
    PROVE  Nth(S, k) < Nth(S, l)
<1>0. Cardinality(S) \in Nat
  BY FS_CardinalityType
<1>1. /\ Nth(S, k) \in S /\ Cardinality(Below(S, Nth(S, k))) = k - 1
      /\ Nth(S, l) \in S /\ Cardinality(Below(S, Nth(S, l))) = l - 1
  BY NthFacts
<1>2. Nth(S, k) # Nth(S, l)
  BY <1>0, <1>1
<1>3. ~(Nth(S, l) < Nth(S, k))
  <2>1. SUFFICES ASSUME Nth(S, l) < Nth(S, k) PROVE FALSE
    OBVIOUS
  <2>2. Cardinality(Below(S, Nth(S, l))) < Cardinality(Below(S, Nth(S, k)))
    BY <1>1, <2>1, BelowMonotone
  <2> QED
    BY <1>0, <1>1, <2>2
<1>4. Nth(S, k) \in Nat /\ Nth(S, l) \in Nat
  BY <1>1
<1> QED
  BY <1>2, <1>3, <1>4

-----------------------------------------------------------------------------
(* Lists *)

LEMMA Joined ==
    ASSUME NEW X, NEW s \in Seq(X), NEW t \in Seq(X)
    PROVE  /\ s \o t \in Seq(X) /\ Len(s \o t) = Len(s) + Len(t)
           /\ DOMAIN (s \o t) = 1 .. Len(s) + Len(t)
           /\ \A k \in 1 .. Len(s) : (s \o t)[k] = s[k]
           /\ \A k \in 1 .. Len(t) : (s \o t)[Len(s) + k] = t[k]
OBVIOUS

(* A list, as the assumption has it *)
IsList(list) ==
    list \in Seq(Range(list)) /\ \A e \in Range(list) : e.source \in {"class", "claim"}

LEMMA PositionsFinite ==
    ASSUME NEW list, IsList(list), NEW S \in SUBSET DOMAIN list
    PROVE  /\ S \in SUBSET Nat /\ IsFiniteSet(S) /\ Cardinality(S) \in Nat
           /\ \A i \in S : list[i] \in Range(list)
<1>1. DOMAIN list = 1 .. Len(list) /\ Len(list) \in Nat
  BY DEF IsList
<1>2. IsFiniteSet(1 .. Len(list))
  BY <1>1, FS_Interval
<1>3. IsFiniteSet(S)
  BY <1>1, <1>2, FS_Subset
<1>4. Cardinality(S) \in Nat
  BY <1>3, FS_CardinalityType
<1> QED
  BY <1>1, <1>3, <1>4 DEF Range

LEMMA PartOfFacts ==
    ASSUME NEW list, IsList(list), NEW S \in SUBSET DOMAIN list
    PROVE  /\ PartOf(list, S) \in Seq(Range(list))
           /\ Len(PartOf(list, S)) = Cardinality(S)
           /\ \A k \in 1 .. Cardinality(S) :
                 Nth(S, k) \in S /\ PartOf(list, S)[k] = list[Nth(S, k)]
<1>1. /\ S \in SUBSET Nat /\ IsFiniteSet(S) /\ Cardinality(S) \in Nat
      /\ \A i \in S : list[i] \in Range(list)
  BY PositionsFinite
<1>2. \A k \in 1 .. Cardinality(S) : Nth(S, k) \in S
  BY <1>1, NthFacts
<1>3. \A k \in 1 .. Cardinality(S) : list[Nth(S, k)] \in Range(list)
  BY <1>1, <1>2
<1> QED
  BY <1>1, <1>2, <1>3 DEF PartOf

-----------------------------------------------------------------------------
(* The defaults *)

LEMMA ConcatThree ==
    ASSUME NEW a, NEW b, NEW c
    PROVE  <<>> \o <<a, b>> = <<a, b>> /\ <<c>> \o <<a, b>> = <<c, a, b>>
<1> DEFINE X == {a, b, c}
<1>1. /\ <<>> \in Seq(X) /\ <<c>> \in Seq(X) /\ <<a, b>> \in Seq(X)
      /\ <<c, a, b>> \in Seq(X)
  OBVIOUS
<1>2. <<>> \o <<a, b>> = <<a, b>>
  OBVIOUS
<1>3. <<c>> \o <<a, b>> = <<c, a, b>>
  <2> DEFINE s == <<c>> \o <<a, b>>
  <2>1. s \in Seq(X) /\ Len(s) = 3 /\ s[1] = c /\ s[1 + 1] = a /\ s[1 + 2] = b
    BY <1>1, Joined
  <2> HIDE DEF s
  <2>2. s = <<c, a, b>>
    BY <2>1
  <2> QED
    BY <2>2 DEF s
<1> QED
  BY <1>2, <1>3

LEMMA DefaultsAre ==
    ASSUME TypeOK
    PROVE  \/ /\ plugin = "cd"
              /\ Defaults = <<Config("Daemon", [domain |-> ""]),
                              Config("Channel", [domain |-> ""])>>
           \/ /\ plugin = "gpu" /\ "PassthroughSupport" \notin gates
              /\ Defaults = <<DefaultMigDeviceConfig, DefaultGpuConfig>>
           \/ /\ plugin = "gpu" /\ "PassthroughSupport" \in gates
              /\ Defaults = <<DefaultVfioDeviceConfig, DefaultMigDeviceConfig,
                              DefaultGpuConfig>>
<1>1. plugin = "cd" \/ plugin = "gpu"
  BY ClaimConfigsAssumption DEF TypeOK
<1> QED
  BY <1>1, ConcatThree DEF Defaults

(* One default is of the type of the device. *)
LEMMA DefaultsFacts ==
    ASSUME TypeOK
    PROVE  /\ Len(Defaults) \in Nat /\ DOMAIN Defaults = 1 .. Len(Defaults)
           /\ \E d \in DOMAIN Defaults : Defaults[d].kind = device
<1>1. CASE plugin = "cd"
  <2>1. device \in {"Channel", "Daemon"}
    BY <1>1 DEF TypeOK, Kinds
  <2> DEFINE c == Config("Daemon", [domain |-> ""])
             e == Config("Channel", [domain |-> ""])
  <2>2. Defaults = <<c, e>>
    BY <1>1, DefaultsAre
  <2>3. c.kind = "Daemon" /\ e.kind = "Channel"
    BY DEF Config
  <2> HIDE DEF c, e
  <2> QED
    BY <2>1, <2>2, <2>3
<1>2. CASE plugin = "gpu" /\ "PassthroughSupport" \notin gates
  <2>1. device \in {"Gpu", "Mig"}
    BY <1>2 DEF TypeOK, Kinds
  <2>2. Defaults = <<DefaultMigDeviceConfig, DefaultGpuConfig>>
    BY <1>2, DefaultsAre
  <2>3. DefaultMigDeviceConfig.kind = "Mig" /\ DefaultGpuConfig.kind = "Gpu"
    BY DEF Config, DefaultMigDeviceConfig, DefaultGpuConfig
  <2> QED
    BY <2>1, <2>2, <2>3
<1>3. CASE plugin = "gpu" /\ "PassthroughSupport" \in gates
  <2>1. device \in {"Gpu", "Mig", "Vfio"}
    BY <1>3 DEF TypeOK, Kinds
  <2>2. Defaults = <<DefaultVfioDeviceConfig, DefaultMigDeviceConfig,
                     DefaultGpuConfig>>
    BY <1>3, DefaultsAre
  <2>3. /\ DefaultVfioDeviceConfig.kind = "Vfio" /\ DefaultMigDeviceConfig.kind = "Mig"
        /\ DefaultGpuConfig.kind = "Gpu"
    BY DEF Config, DefaultVfioDeviceConfig, DefaultMigDeviceConfig, DefaultGpuConfig
  <2> QED
    BY <2>1, <2>2, <2>3
<1> QED
  BY <1>1, <1>2, <1>3, DefaultsAre

(* The defaults of the GPU plugin are valid, whatever the feature gates. *)
LEMMA DefaultsAreValid ==
    ASSUME TypeOK, plugin = "gpu", NEW d \in DOMAIN Defaults
    PROVE  Validate(Normalize(Defaults[d])) = "ok"
<1>1. Validate(Normalize(DefaultVfioDeviceConfig)) = "ok"
  BY DEF DefaultVfioDeviceConfig, Config, Normalize, Validate
<1>2. Validate(Normalize(DefaultMigDeviceConfig)) = "ok"
  BY DEF DefaultMigDeviceConfig, Config, Normalize, Validate, NormalizeSharing,
         ValidateSharing, Implied, Sharing, NoSharing
<1>3. Validate(Normalize(DefaultGpuConfig)) = "ok"
  BY DEF DefaultGpuConfig, Config, Normalize, Validate, NormalizeSharing,
         ValidateSharing, Implied, Sharing, NoSharing
<1>4. Defaults[d] \in {DefaultVfioDeviceConfig, DefaultMigDeviceConfig,
                       DefaultGpuConfig}
  <2>1. CASE Defaults = <<DefaultMigDeviceConfig, DefaultGpuConfig>>
    BY <2>1
  <2>2. CASE Defaults = <<DefaultVfioDeviceConfig, DefaultMigDeviceConfig,
                          DefaultGpuConfig>>
    BY <2>2
  <2> QED
    BY <2>1, <2>2, DefaultsAre
<1> QED
  BY <1>1, <1>2, <1>3, <1>4

-----------------------------------------------------------------------------
(* The selection *)

(* GetOpaqueDeviceConfigs has the class's and then the claim's. *)
LEMMA OpaqueConfigs ==
    ASSUME NEW list, IsList(list)
    PROVE  LET A == OursFrom(list, "class")
               B == OursFrom(list, "claim")
               G == GetOpaqueDeviceConfigs(list)
           IN  /\ A \in SUBSET Nat /\ IsFiniteSet(A) /\ Cardinality(A) \in Nat
               /\ B \in SUBSET Nat /\ IsFiniteSet(B) /\ Cardinality(B) \in Nat
               /\ G \in Seq(Range(list)) /\ Len(G) = Cardinality(A) + Cardinality(B)
               /\ \A k \in 1 .. Cardinality(A) :
                     Nth(A, k) \in A /\ G[k] = list[Nth(A, k)]
               /\ \A k \in 1 .. Cardinality(B) :
                     Nth(B, k) \in B /\ G[Cardinality(A) + k] = list[Nth(B, k)]
<1> DEFINE A == OursFrom(list, "class")
           B == OursFrom(list, "claim")
           p == PartOf(list, A)
           q == PartOf(list, B)
<1>1. A \in SUBSET DOMAIN list /\ B \in SUBSET DOMAIN list
  BY DEF OursFrom
<1>2. GetOpaqueDeviceConfigs(list) = p \o q
  BY DEF GetOpaqueDeviceConfigs
<1> HIDE DEF A, B
<1>3. /\ A \in SUBSET Nat /\ IsFiniteSet(A) /\ Cardinality(A) \in Nat
      /\ B \in SUBSET Nat /\ IsFiniteSet(B) /\ Cardinality(B) \in Nat
  BY <1>1, PositionsFinite
<1>4. /\ p \in Seq(Range(list)) /\ Len(p) = Cardinality(A)
      /\ \A k \in 1 .. Cardinality(A) : Nth(A, k) \in A /\ p[k] = list[Nth(A, k)]
  BY <1>1, PartOfFacts
<1>5. /\ q \in Seq(Range(list)) /\ Len(q) = Cardinality(B)
      /\ \A k \in 1 .. Cardinality(B) : Nth(B, k) \in B /\ q[k] = list[Nth(B, k)]
  BY <1>1, PartOfFacts
<1> HIDE DEF p, q
<1>6. /\ p \o q \in Seq(Range(list)) /\ Len(p \o q) = Len(p) + Len(q)
      /\ \A k \in 1 .. Len(p) : (p \o q)[k] = p[k]
      /\ \A k \in 1 .. Len(q) : (p \o q)[Len(p) + k] = q[k]
  <2> DEFINE X == Range(list)
  <2>1. p \in Seq(X) /\ q \in Seq(X)
    BY <1>4, <1>5
  <2> HIDE DEF X
  <2>2. /\ p \o q \in Seq(X) /\ Len(p \o q) = Len(p) + Len(q)
        /\ \A k \in 1 .. Len(p) : (p \o q)[k] = p[k]
        /\ \A k \in 1 .. Len(q) : (p \o q)[Len(p) + k] = q[k]
    BY <2>1
  <2> QED
    BY <2>2 DEF X
<1>7. /\ p \o q \in Seq(Range(list)) /\ Len(p \o q) = Cardinality(A) + Cardinality(B)
      /\ \A k \in 1 .. Cardinality(A) :
            Nth(A, k) \in A /\ (p \o q)[k] = list[Nth(A, k)]
      /\ \A k \in 1 .. Cardinality(B) :
            Nth(B, k) \in B /\ (p \o q)[Cardinality(A) + k] = list[Nth(B, k)]
  BY <1>3, <1>4, <1>5, <1>6
<1> QED
  BY <1>2, <1>3, <1>7 DEF A, B

(* The positions of the configs that are for this driver and the device *)
Mine(list) == {i \in DOMAIN list : list[i].driver = plugin /\ Matches(list[i])}

(* Every config of GetOpaqueDeviceConfigs is one of the list. *)
LEMMA OpaqueFromList ==
    ASSUME NEW list, IsList(list), NEW k \in DOMAIN GetOpaqueDeviceConfigs(list)
    PROVE  \E i \in DOMAIN list :
              list[i].driver = plugin /\ GetOpaqueDeviceConfigs(list)[k] = list[i]
<1> DEFINE A == OursFrom(list, "class")
           B == OursFrom(list, "claim")
           G == GetOpaqueDeviceConfigs(list)
<1>1. \A i \in A \cup B : i \in DOMAIN list /\ list[i].driver = plugin
  BY DEF OursFrom
<1>2. /\ Cardinality(A) \in Nat /\ Cardinality(B) \in Nat
      /\ G \in Seq(Range(list)) /\ Len(G) = Cardinality(A) + Cardinality(B)
      /\ \A n \in 1 .. Cardinality(A) : Nth(A, n) \in A /\ G[n] = list[Nth(A, n)]
      /\ \A n \in 1 .. Cardinality(B) :
            Nth(B, n) \in B /\ G[Cardinality(A) + n] = list[Nth(B, n)]
  BY OpaqueConfigs
<1> HIDE DEF A, B, G
<1>3. k \in DOMAIN G
  BY DEF G
<1>4. k \in 1 .. Cardinality(A) + Cardinality(B)
  BY <1>2, <1>3
<1>5. CASE k <= Cardinality(A)
  <2>1. k \in 1 .. Cardinality(A)
    BY <1>2, <1>4, <1>5
  <2> QED
    BY <1>1, <1>2, <2>1 DEF G
<1>6. CASE k > Cardinality(A)
  <2>1. /\ k - Cardinality(A) \in 1 .. Cardinality(B)
        /\ Cardinality(A) + (k - Cardinality(A)) = k
    BY <1>2, <1>4, <1>6
  <2> QED
    BY <1>1, <1>2, <2>1 DEF G
<1> QED
  BY <1>2, <1>4, <1>5, <1>6

(* The defaults and then the class's and then the claim's *)
LEMMA AllConfigsAre ==
    ASSUME TypeOK, NEW list, IsList(list)
    PROVE  LET n == Len(Defaults)
               A == OursFrom(list, "class")
               B == OursFrom(list, "claim")
               all == AllConfigs(list)
           IN  /\ DOMAIN all = 1 .. n + Cardinality(A) + Cardinality(B)
               /\ \A d \in 1 .. n : all[d] = General(Defaults[d])
               /\ \A k \in 1 .. Cardinality(A) :
                     Nth(A, k) \in A /\ all[n + k] = list[Nth(A, k)]
               /\ \A k \in 1 .. Cardinality(B) :
                     /\ Nth(B, k) \in B
                     /\ all[n + Cardinality(A) + k] = list[Nth(B, k)]
<1> DEFINE n == Len(Defaults)
           A == OursFrom(list, "class")
           B == OursFrom(list, "claim")
           a == Cardinality(A)
           b == Cardinality(B)
           G == GetOpaqueDeviceConfigs(list)
           D == [i \in DOMAIN Defaults |-> General(Defaults[i])]
           X == Range(list) \cup {General(Defaults[i]) : i \in DOMAIN Defaults}
<1>1. n \in Nat /\ DOMAIN Defaults = 1 .. n
  BY DefaultsFacts
<1>2. D \in Seq(X) /\ Len(D) = n /\ \A d \in 1 .. n : D[d] = General(Defaults[d])
  BY <1>1
<1>3. /\ a \in Nat /\ b \in Nat /\ G \in Seq(Range(list)) /\ Len(G) = a + b
      /\ \A k \in 1 .. a : Nth(A, k) \in A /\ G[k] = list[Nth(A, k)]
      /\ \A k \in 1 .. b : Nth(B, k) \in B /\ G[a + k] = list[Nth(B, k)]
  BY OpaqueConfigs
<1>4. G \in Seq(X)
  <2> DEFINE Y == Range(list)
  <2>1. G \in Seq(Y) /\ Y \subseteq X
    BY <1>3
  <2> HIDE DEF G, X, Y
  <2> QED
    BY <2>1
<1>5. AllConfigs(list) = D \o G
  BY DEF AllConfigs
<1> HIDE DEF n, A, B, a, b, G, D, X
<1>6. /\ DOMAIN (D \o G) = 1 .. n + (a + b)
      /\ \A d \in 1 .. n : (D \o G)[d] = D[d]
      /\ \A k \in 1 .. a + b : (D \o G)[n + k] = G[k]
  <2>1. /\ DOMAIN (D \o G) = 1 .. Len(D) + Len(G)
        /\ \A d \in 1 .. Len(D) : (D \o G)[d] = D[d]
        /\ \A k \in 1 .. Len(G) : (D \o G)[Len(D) + k] = G[k]
    BY <1>2, <1>4
  <2> QED
    BY <1>2, <1>3, <2>1
<1>7. ASSUME NEW k \in 1 .. a PROVE (D \o G)[n + k] = list[Nth(A, k)]
  <2>1. k \in 1 .. a + b
    BY <1>3
  <2> QED
    BY <1>3, <1>6, <2>1
<1>8. ASSUME NEW k \in 1 .. b PROVE (D \o G)[n + a + k] = list[Nth(B, k)]
  <2>1. a + k \in 1 .. a + b /\ n + a + k = n + (a + k)
    BY <1>1, <1>3
  <2> QED
    BY <1>3, <1>6, <2>1
<1>9. n + (a + b) = n + a + b
  BY <1>1, <1>3
<1>10. /\ DOMAIN (D \o G) = 1 .. n + a + b
       /\ \A d \in 1 .. n : (D \o G)[d] = General(Defaults[d])
       /\ \A k \in 1 .. a : Nth(A, k) \in A /\ (D \o G)[n + k] = list[Nth(A, k)]
       /\ \A k \in 1 .. b : Nth(B, k) \in B /\ (D \o G)[n + a + k] = list[Nth(B, k)]
  BY <1>2, <1>3, <1>6, <1>7, <1>8, <1>9
<1> QED
  BY <1>5, <1>10 DEF n, A, B, a, b

(* The last one that matches: one of the claim's or the class's that       *)
(* outranks the others, or a default when there is none.                   *)
LEMMA SelectedFacts ==
    ASSUME TypeOK, IsList(configs)
    PROVE  \/ /\ Mine(configs) = {}
              /\ \E d \in DOMAIN Defaults : Selected(configs) = General(Defaults[d])
           \/ \E i \in Mine(configs) :
                 /\ Selected(configs) = configs[i]
                 /\ \A j \in Mine(configs) \ {i} : Outranks(i, j)
<1> DEFINE n == Len(Defaults)
           A == OursFrom(configs, "class")
           B == OursFrom(configs, "claim")
           a == Cardinality(A)
           b == Cardinality(B)
           all == AllConfigs(configs)
           M == {i \in DOMAIN all : Matches(all[i])}
           m == Max(M)
<1>1. n \in Nat /\ DOMAIN Defaults = 1 .. n
  BY DefaultsFacts
<1>2. /\ A \in SUBSET Nat /\ IsFiniteSet(A) /\ a \in Nat
      /\ B \in SUBSET Nat /\ IsFiniteSet(B) /\ b \in Nat
  BY OpaqueConfigs
<1>3. /\ DOMAIN all = 1 .. n + a + b
      /\ \A d \in 1 .. n : all[d] = General(Defaults[d])
      /\ \A k \in 1 .. a : Nth(A, k) \in A /\ all[n + k] = configs[Nth(A, k)]
      /\ \A k \in 1 .. b : Nth(B, k) \in B /\ all[n + a + k] = configs[Nth(B, k)]
  BY AllConfigsAre
<1>4. M # {}
  <2>1. PICK d \in DOMAIN Defaults : Defaults[d].kind = device
    BY DefaultsFacts
  <2>2. Matches(General(Defaults[d]))
    BY <2>1 DEF Matches, General, Mismatch
  <2>3. d \in DOMAIN all /\ all[d] = General(Defaults[d])
    <3> HIDE DEF n, a, b, all
    <3> QED
      BY <1>1, <1>2, <1>3, <2>1
  <2> QED
    BY <2>2, <2>3
<1>5. Selected(configs) = all[m]
  BY DEF Selected
<1>6. m \in M /\ \A x \in M : x <= m
  <2>1. M \in SUBSET Nat /\ \A x \in M : x <= n + a + b
    <3> HIDE DEF n, a, b, all
    <3> QED
      BY <1>1, <1>2, <1>3
  <2>2. n + a + b \in Nat
    BY <1>1, <1>2
  <2> HIDE DEF M, n, a, b
  <2> QED
    BY <1>4, <2>1, <2>2, Greatest
<1>7. m \in 1 .. n + a + b /\ Matches(all[m])
  BY <1>3, <1>6
<1>8. \A i \in A : configs[i].source = "class"
  BY DEF OursFrom
<1>9. \A i \in B : configs[i].source = "claim"
  BY DEF OursFrom
<1>10. Mine(configs) = {i \in A \cup B : Matches(configs[i])}
  <2>1. \A i \in DOMAIN configs : configs[i].source \in {"class", "claim"}
    BY DEF IsList, Range
  <2> QED
    BY <2>1 DEF Mine, OursFrom
<1>11. \A x \in 1 .. n + a + b : Matches(all[x]) => x <= m
  BY <1>3, <1>6
<1> HIDE DEF n, A, B, a, b, all, M, m
<1>12. ASSUME NEW j \in Mine(configs), j \in A
       PROVE  \E l \in 1 .. a : Nth(A, l) = j /\ n + l <= m
  <2>1. PICK l \in 1 .. a : Nth(A, l) = j
    BY <1>2, <1>12, NthOnto DEF a
  <2>2. n + l \in 1 .. n + a + b
    BY <1>1, <1>2
  <2>3. Matches(all[n + l])
    BY <1>3, <1>10, <2>1
  <2> QED
    BY <1>11, <2>1, <2>2, <2>3
<1>13. ASSUME NEW j \in Mine(configs), j \in B
       PROVE  \E l \in 1 .. b : Nth(B, l) = j /\ n + a + l <= m
  <2>1. PICK l \in 1 .. b : Nth(B, l) = j
    BY <1>2, <1>13, NthOnto DEF b
  <2>2. n + a + l \in 1 .. n + a + b
    BY <1>1, <1>2
  <2>3. Matches(all[n + a + l])
    BY <1>3, <1>10, <2>1
  <2> QED
    BY <1>11, <2>1, <2>2, <2>3
<1>14. CASE m <= n
  <2>1. m \in DOMAIN Defaults /\ all[m] = General(Defaults[m])
    BY <1>1, <1>2, <1>3, <1>7, <1>14
  <2>2. ASSUME NEW j \in Mine(configs) PROVE FALSE
    <3>1. CASE j \in A
      BY <1>1, <1>2, <1>7, <1>12, <1>14, <3>1
    <3>2. CASE j \in B
      BY <1>1, <1>2, <1>7, <1>13, <1>14, <3>2
    <3> QED
      BY <1>10, <3>1, <3>2
  <2> QED
    BY <1>5, <2>1, <2>2
<1>15. CASE m > n /\ m <= n + a
  <2> DEFINE k == m - n
             i == Nth(A, k)
  <2>1. k \in 1 .. a /\ n + k = m
    BY <1>1, <1>2, <1>7, <1>15
  <2>2. i \in A /\ all[m] = configs[i]
    BY <1>3, <2>1
  <2>3. i \in Mine(configs)
    BY <1>7, <1>10, <2>2
  <2>4. ASSUME NEW j \in Mine(configs) \ {i} PROVE Outranks(i, j)
    <3>1. CASE j \in A
      <4>1. PICK l \in 1 .. a : Nth(A, l) = j /\ n + l <= m
        BY <1>12, <3>1
      <4>2. l < k
        <5>1. l # k
          BY <2>4, <4>1
        <5> QED
          BY <1>1, <1>2, <1>7, <2>1, <4>1, <5>1
      <4>3. Nth(A, l) < Nth(A, k)
        BY <1>2, <2>1, <4>1, <4>2, NthMonotone DEF a
      <4>4. i > j
        BY <1>2, <2>2, <3>1, <4>1, <4>3
      <4> QED
        BY <1>8, <2>2, <3>1, <4>4 DEF Outranks
    <3>2. CASE j \in B
      BY <1>1, <1>2, <1>7, <1>13, <1>15, <3>2
    <3> QED
      BY <1>10, <3>1, <3>2
  <2> HIDE DEF k, i
  <2> QED
    BY <1>5, <2>2, <2>3, <2>4
<1>16. CASE m > n + a
  <2> DEFINE k == m - (n + a)
             i == Nth(B, k)
  <2>1. k \in 1 .. b /\ n + a + k = m
    BY <1>1, <1>2, <1>7, <1>16
  <2>2. i \in B /\ all[m] = configs[i]
    BY <1>3, <2>1
  <2>3. i \in Mine(configs)
    BY <1>7, <1>10, <2>2
  <2>4. ASSUME NEW j \in Mine(configs) \ {i} PROVE Outranks(i, j)
    <3>1. CASE j \in B
      <4>1. PICK l \in 1 .. b : Nth(B, l) = j /\ n + a + l <= m
        BY <1>13, <3>1
      <4>2. l < k
        <5>1. l # k
          BY <2>4, <4>1
        <5> QED
          BY <1>1, <1>2, <1>7, <2>1, <4>1, <5>1
      <4>3. Nth(B, l) < Nth(B, k)
        BY <1>2, <2>1, <4>1, <4>2, NthMonotone DEF b
      <4>4. i > j
        BY <1>2, <2>2, <3>1, <4>1, <4>3
      <4> QED
        BY <1>9, <2>2, <3>1, <4>4 DEF Outranks
    <3>2. CASE j \in A
      BY <1>8, <1>9, <2>2, <3>2 DEF Outranks
    <3> QED
      BY <1>10, <3>1, <3>2
  <2> HIDE DEF k, i
  <2> QED
    BY <1>5, <2>2, <2>3, <2>4
<1> QED
  BY <1>1, <1>2, <1>7, <1>14, <1>15, <1>16

-----------------------------------------------------------------------------
(* What no action changes *)

Same == plugin' = plugin /\ gates' = gates /\ device' = device /\ configs' = configs

LEMMA SameSelection ==
    ASSUME Same
    PROVE  /\ GetOpaqueDeviceConfigs(configs)' = GetOpaqueDeviceConfigs(configs)
           /\ Selected(configs)' = Selected(configs)
<1>1. GetOpaqueDeviceConfigs(configs)' = GetOpaqueDeviceConfigs(configs)
  BY DEF Same, GetOpaqueDeviceConfigs, OursFrom
<1>2. Defaults' = Defaults
  BY DEF Same, Defaults, DefaultVfioDeviceConfig, DefaultMigDeviceConfig,
         DefaultGpuConfig
<1>3. [i \in DOMAIN Defaults |-> General(Defaults[i])]'
         = [i \in DOMAIN Defaults |-> General(Defaults[i])]
  BY <1>2 DEF Same, General
<1>4. AllConfigs(configs)' = AllConfigs(configs)
  BY <1>1, <1>3 DEF AllConfigs
<1>5. {i \in DOMAIN AllConfigs(configs) : Matches(AllConfigs(configs)[i])}'
         = {i \in DOMAIN AllConfigs(configs) : Matches(AllConfigs(configs)[i])}
  BY <1>4 DEF Same, Matches, Mismatch, Kinds
<1>6. Selected(configs)' = Selected(configs)
  BY <1>4, <1>5 DEF Selected
<1> QED
  BY <1>1, <1>6

LEMMA SameForSelected ==
    ASSUME Same
    PROVE  /\ Normalize(Selected(configs).config)' = Normalize(Selected(configs).config)
           /\ Releasable(configs)' <=> Releasable(configs)
<1>1. Normalize(Selected(configs).config)' = Normalize(Selected(configs).config)
  BY SameSelection DEF Same, Normalize, NormalizeSharing, Implied
<1>2. Releasable(configs)' <=> Releasable(configs)
  BY SameSelection DEF Same, Releasable, Decodes, Mismatch, Kinds
<1> QED
  BY <1>1, <1>2

LEMMA SameFiles ==
    ASSUME Same
    PROVE  MetadataFields' = MetadataFields /\ CheckpointFiles' = CheckpointFiles
<1>1. MetadataFields' = MetadataFields
  BY DEF Same, MetadataFields
<1>2. Normalize(Selected(configs).config)' = Normalize(Selected(configs).config)
  BY SameForSelected
<1> QED
  BY <1>1, <1>2 DEF Same, CheckpointFiles, CheckpointEntries

-----------------------------------------------------------------------------
(* The invariant *)

LEMMA ConfigsAreList ==
    ASSUME TypeOK PROVE IsList(configs)
BY ClaimConfigsAssumption DEF TypeOK, IsList

(* What a version writes is a file with the checksums of what it has. *)
LEMMA WritesSound ==
    ASSUME NEW e \in CheckpointEntries, NEW v \in Versions, v = "2503RC2" => plugin = "cd",
           e.fields \in SUBSET Optional(v)
    PROVE  Marshalled(e, v) \in CheckpointFiles /\ ChecksumsOf(Marshalled(e, v))
<1> DEFINE f == Marshalled(e, v)
           boot == {"NodeBootID"} \cap Optional(v)
<1>1. NoEntry \in CheckpointEntries /\ NoEntry.fields = {}
  BY DEF CheckpointEntries, NoEntry, Entry
<1>2. /\ ToV1(e) \in CheckpointEntries /\ ToV1(e).fields \in SUBSET Optional(v)
      /\ e.fields \in SUBSET MetadataFields /\ ToV1(e).fields \in SUBSET MetadataFields
  BY <1>1 DEF ToV1, CheckpointEntries
<1>3. CASE ReadsV2(v)
  <2>1. f = [format |-> "V2", v1 |-> ToV1(e), v2 |-> e, boot |-> boot,
             sum1 |-> ToV1(e).fields, sum2 |-> e.fields \cup boot]
    <3>1. Emitted(v, ToV1(e).fields) = ToV1(e).fields
      BY <1>2 DEF Emitted
    <3>2. Emitted(v, e.fields \cup boot) = e.fields \cup boot
      BY DEF Emitted
    <3> QED
      BY <1>3, <3>1, <3>2 DEF Marshalled, MarshalCheckpoint
  <2>2. boot \in SUBSET {"NodeBootID"}
    OBVIOUS
  <2> HIDE DEF boot, f
  <2>3. f \in CheckpointFiles
    BY <1>2, <2>1, <2>2 DEF CheckpointFiles
  <2>4. ChecksumsOf(f)
    BY <2>1 DEF ChecksumsOf
  <2> QED
    BY <2>3, <2>4 DEF f
<1>4. CASE ~ReadsV2(v)
  <2> DEFINE w == IF v = "2503RC2" THEN [e EXCEPT !.status = {}] ELSE e
  <2>1. v \in {"2503RC2", "V1"}
    BY <1>4 DEF Versions, ReadsV2, Current
  <2>2. w \in CheckpointEntries /\ w.fields = e.fields
    BY DEF CheckpointEntries
  <2>3. f = [format |-> v, v1 |-> w, v2 |-> NoEntry, boot |-> {},
             sum1 |-> e.fields, sum2 |-> {}]
    <3>1. Emitted(v, e.fields) = e.fields
      BY DEF Emitted
    <3> QED
      BY <1>4, <3>1 DEF Marshalled, LegacyCheckpoint
  <2> HIDE DEF w, f
  <2>4. f \in CheckpointFiles
    BY <1>1, <1>2, <2>1, <2>2, <2>3 DEF CheckpointFiles
  <2>5. ChecksumsOf(f)
    BY <1>1, <2>1, <2>2, <2>3 DEF ChecksumsOf
  <2> QED
    BY <2>4, <2>5 DEF f
<1> QED
  BY <1>3, <1>4

(* The entries that the actions write. *)
LEMMA EntriesWritten ==
    LET c == Normalize(Selected(configs).config)
    IN  /\ NoEntry \in CheckpointEntries /\ NoEntry.fields = {}
        /\ Entry("PrepareStarted", {configs}, {}, {}) \in CheckpointEntries
        /\ Entry("PrepareStarted", {configs}, {}, {}).fields = {}
        /\ \A S \in SUBSET MetadataFields :
              /\ Entry("PrepareCompleted", {configs}, {c}, S) \in CheckpointEntries
              /\ Entry("PrepareCompleted", {configs}, {c}, S).fields = S
<1> DEFINE c == Normalize(Selected(configs).config)
<1> HIDE DEF c
<1>1. CheckpointEntries =
        [state : {"none", "PrepareStarted", "PrepareCompleted"},
         status : SUBSET {configs}, devices : SUBSET {c}, fields : SUBSET MetadataFields]
  BY DEF CheckpointEntries, c
<1>2. /\ NoEntry \in CheckpointEntries /\ NoEntry.fields = {}
      /\ Entry("PrepareStarted", {configs}, {}, {}) \in CheckpointEntries
      /\ Entry("PrepareStarted", {configs}, {}, {}).fields = {}
  BY <1>1 DEF NoEntry, Entry
<1>3. ASSUME NEW S \in SUBSET MetadataFields
      PROVE  /\ Entry("PrepareCompleted", {configs}, {c}, S) \in CheckpointEntries
             /\ Entry("PrepareCompleted", {configs}, {c}, S).fields = S
  BY <1>1 DEF Entry
<1> QED
  BY <1>2, <1>3 DEF c

(* What a version finds. *)
LEMMA LoadedIsEntry ==
    ASSUME TypeOK, NEW v PROVE Loaded(v) \in CheckpointEntries
<1>1. file.v1 \in CheckpointEntries /\ file.v2 \in CheckpointEntries
  BY DEF TypeOK, CheckpointFiles
<1>2. ToV2(file.v1) \in CheckpointEntries
  BY <1>1 DEF ToV2, CheckpointEntries
<1> QED
  BY <1>1, <1>2 DEF Loaded

LEMMA ClaimInit == Init => ClaimInv
<1> SUFFICES ASSUME Init PROVE ClaimInv
  OBVIOUS
<1>1. file \in CheckpointFiles /\ ChecksumsOf(file)
  <2>1. /\ version \in Versions /\ (version = "2503RC2" => plugin = "cd")
        /\ file = Marshalled(NoEntry, version)
    BY DEF Init, Write
  <2>2. NoEntry \in CheckpointEntries /\ NoEntry.fields \in SUBSET Optional(version)
    BY EntriesWritten
  <2> QED
    BY <2>1, <2>2, WritesSound
<1>2. TypeOK
  BY <1>1 DEF Init, TypeOK
<1>3. ChecksumsHold
  BY <1>1 DEF Init, ChecksumsHold
<1>4. RecordedInBoth
  BY DEF Init, RecordedInBoth
<1>5. AppliedIsSelected
  BY DEF Init, AppliedIsSelected, ReleasesApplied
<1>6. VerdictsHold
  BY DEF Init, VerdictsHold
<1> QED
  BY <1>2, <1>3, <1>4, <1>5, <1>6 DEF ClaimInv

(* Every action leaves what the claim is. *)
LEMMA NextSame == [Next]_vars => Same
BY DEF Next, vars, Same, Admit, NoWebhook, Delete, PrepareStart, PrepareDevices,
       LegacyPrepare, Unprepare, Switch

(* A version accepts the file unless it is older than what the file has.   *)
LEMMA Accepted ==
    ASSUME ClaimInv, NEW v \in Versions
    PROVE  VerifyChecksum(v) \/ v = "V2" \/ (v \in {"V1", "2503RC2"} /\ MetadataFields # {})
<1>1. /\ file.v1.fields \in SUBSET MetadataFields
      /\ file.v2.fields \in SUBSET MetadataFields
      /\ file.boot \in SUBSET {"NodeBootID"}
  BY DEF ClaimInv, TypeOK, CheckpointFiles, CheckpointEntries
<1>2. ChecksumsOf(file)
  BY DEF ClaimInv, ChecksumsHold
<1>3. MetadataFields \in SUBSET {"Metadata"}
  BY DEF MetadataFields
<1>4. CASE Current(v)
  <2>1. Optional(v) = {"ShareID", "Metadata", "NodeBootID"}
    BY <1>4 DEF Optional
  <2>2. /\ Emitted(v, file.v1.fields) = file.v1.fields
        /\ Emitted(v, file.v2.fields \cup file.boot) = file.v2.fields \cup file.boot
    BY <1>1, <1>3, <2>1 DEF Emitted
  <2> QED
    BY <1>2, <2>2 DEF VerifyChecksum, ChecksumsOf
<1>5. CASE v \in {"V1", "2503RC2"} /\ MetadataFields = {}
  <2>1. Emitted(v, file.v1.fields) = file.v1.fields
    BY <1>1, <1>5 DEF Emitted
  <2>2. ~ReadsV2(v)
    BY <1>5 DEF ReadsV2, Current
  <2> QED
    BY <1>2, <2>1, <2>2 DEF VerifyChecksum, ChecksumsOf
<1> QED
  BY <1>4, <1>5 DEF Versions, Current

(* The files that the actions write. *)
LEMMA FilePreserved ==
    ASSUME ClaimInv, [Next]_vars PROVE file' \in CheckpointFiles /\ ChecksumsOf(file')
<1> USE DEF ClaimInv
<1> DEFINE Sound(f) == f \in CheckpointFiles /\ ChecksumsOf(f)
<1>1. Sound(file)
  BY DEF TypeOK, ChecksumsHold
<1>2. version \in Versions /\ (version = "2503RC2" => plugin = "cd")
  BY DEF TypeOK
<1>3. ASSUME NEW e \in CheckpointEntries, e.fields \in SUBSET Optional(version)
      PROVE  Sound(Write(e))
  BY <1>2, <1>3, WritesSound DEF Write
<1> HIDE DEF Sound
<1>4. Sound(Write(NoEntry))
  BY <1>3, EntriesWritten
<1>5. CASE Admit \/ NoWebhook \/ Delete \/ UNCHANGED vars
  BY <1>1, <1>5 DEF Admit, NoWebhook, Delete, vars, Sound
<1>6. CASE PrepareStart
  <2>1. file' = Write(Entry("PrepareStarted", {configs}, {}, {}))
    BY <1>6 DEF PrepareStart
  <2>2. Sound(Write(Entry("PrepareStarted", {configs}, {}, {})))
    BY <1>3, EntriesWritten
  <2> QED
    BY <2>1, <2>2 DEF Sound
<1>7. ASSUME Prepared(version) PROVE Sound(file')
  <2> DEFINE c == Normalize(Selected(configs).config)
             S == MetadataFields \cap Optional(version)
             e == Entry("PrepareCompleted", {configs}, {c}, S)
  <2>1. file' = Write(e)
    BY <1>7 DEF Prepared
  <2>2. e \in CheckpointEntries /\ e.fields = S
    BY EntriesWritten
  <2>3. e.fields \in SUBSET Optional(version)
    BY <2>2
  <2> HIDE DEF e
  <2> QED
    BY <1>3, <2>1, <2>2, <2>3
<1>8. CASE PrepareDevices
  BY <1>1, <1>7, <1>8 DEF PrepareDevices, Sound
<1>9. CASE LegacyPrepare
  BY <1>7, <1>9 DEF LegacyPrepare, Sound
<1>10. CASE Unprepare
  <2>1. file' = file \/ file' = Write(NoEntry)
    BY <1>10 DEF Unprepare, UnprepareStatus, UnprepareDevices
  <2> QED
    BY <1>1, <1>4, <2>1 DEF Sound
<1>11. ASSUME NEW v \in Versions \ {"2503RC2"}, Switch(v)
       PROVE  Sound(file')
  <2>1. CASE file' = file
    BY <1>1, <2>1
  <2>2. CASE file' = MarshalCheckpoint(Loaded(v), v) /\ Current(v)
    <3>1. Loaded(v) \in CheckpointEntries
      BY LoadedIsEntry
    <3>2. Loaded(v).fields \in SUBSET Optional(v)
      BY <2>2, <3>1 DEF CheckpointEntries, Optional, MetadataFields
    <3>3. MarshalCheckpoint(Loaded(v), v) = Marshalled(Loaded(v), v)
      BY <2>2 DEF Marshalled, ReadsV2
    <3> QED
      BY <1>11, <2>2, <3>1, <3>2, <3>3, WritesSound DEF Sound
  <2> QED
    BY <1>11, <2>1, <2>2 DEF Switch
<1> QED
  BY <1>5, <1>6, <1>8, <1>9, <1>10, <1>11 DEF Next, Sound

LEMMA TypePreserved ==
    ASSUME ClaimInv, [Next]_vars PROVE TypeOK' /\ ChecksumsHold'
<1> USE DEF ClaimInv
<1>0. Same /\ MetadataFields' = MetadataFields /\ CheckpointFiles' = CheckpointFiles
  BY NextSame, SameFiles
<1>1. file' \in CheckpointFiles' /\ (ChecksumsOf(file))'
  BY <1>0, FilePreserved DEF ChecksumsOf, Same
<1> DEFINE Rest ==
      /\ stage \in {"submitted", "refused", "admitted", "started", "failed", "prepared",
                    "unprepared", "stuck"}
      /\ version \in Versions /\ checked \in Versions \cup {"none"}
      /\ preparer \in Versions \cup {"none"} /\ gone \in BOOLEAN /\ accepts \in BOOLEAN
      /\ version = "2503RC2" => plugin = "cd"
      /\ accepts \/ version = "V2" \/ (version = "V1" /\ MetadataFields # {})
<1>2. Rest
  BY DEF TypeOK, ChecksumsHold
<1>3. SUFFICES Rest'
  BY <1>0, <1>1 DEF TypeOK, ChecksumsHold, Same
<1>4. CASE UNCHANGED vars
  BY <1>0, <1>2, <1>4 DEF vars
<1>5. CASE Admit \/ NoWebhook \/ Delete \/ PrepareStart
  BY <1>0, <1>2, <1>5 DEF Admit, NoWebhook, Delete, PrepareStart
<1>6. CASE PrepareDevices \/ LegacyPrepare
  BY <1>0, <1>2, <1>6 DEF PrepareDevices, LegacyPrepare, Prepared
<1>7. CASE Unprepare
  BY <1>0, <1>2, <1>7 DEF Unprepare, UnprepareStatus, UnprepareDevices
<1>8. ASSUME NEW v \in Versions \ {"2503RC2"}, Switch(v)
      PROVE  Rest'
  <2>1. VerifyChecksum(v) \/ v = "V2" \/ (v = "V1" /\ MetadataFields # {})
    BY Accepted
  <2>2. VerifyChecksum(v) \in BOOLEAN
    BY DEF VerifyChecksum
  <2> QED
    BY <1>0, <1>2, <1>8, <2>1, <2>2 DEF Switch
<1> QED
  BY <1>4, <1>5, <1>6, <1>7, <1>8 DEF Next

LEMMA RecordPreserved ==
    ASSUME ClaimInv, [Next]_vars PROVE RecordedInBoth'
<1> USE DEF ClaimInv
<1> DEFINE Done(e) == /\ e.state = "PrepareCompleted" /\ e.devices = {applied'}
                      /\ e.status = {} => plugin' = "cd" /\ preparer' = "2503RC2"
<1>1. SUFFICES ASSUME stage' = "prepared"
               PROVE  Done(file'.v1) /\ (file'.format = "V2" => Done(file'.v2))
  BY DEF RecordedInBoth, Complete
<1>2. plugin' = plugin
  BY NextSame DEF Same
<1>3. ASSUME Prepared(version), TypeOK
      PROVE  Done(file'.v1) /\ (file'.format = "V2" => Done(file'.v2))
  <2> DEFINE c == Normalize(Selected(configs).config)
             S == MetadataFields \cap Optional(version)
             e == Entry("PrepareCompleted", {configs}, {c}, S)
  <2>1. file' = Write(e) /\ applied' = c /\ preparer' = version
    BY <1>3 DEF Prepared
  <2> HIDE DEF c, S
  <2>2. Done(e)
    BY <2>1 DEF Entry
  <2>3. version = "2503RC2" => Done([e EXCEPT !.status = {}])
    BY <1>2, <1>3, <2>1 DEF Entry, TypeOK
  <2>4. ToV1(e) = e
    BY DEF ToV1, Entry
  <2> HIDE DEF e, Done
  <2>5. CASE ReadsV2(version)
    <3>1. file'.v1 = e /\ file'.v2 = e
      BY <2>1, <2>4, <2>5 DEF Write, Marshalled, MarshalCheckpoint
    <3> QED
      BY <2>2, <3>1
  <2>6. CASE ~ReadsV2(version)
    <3>1. file'.v1 = IF version = "2503RC2" THEN [e EXCEPT !.status = {}] ELSE e
      BY <2>1, <2>6 DEF Write, Marshalled, LegacyCheckpoint
    <3>2. file'.format # "V2"
      BY <2>1, <2>6 DEF Write, Marshalled, LegacyCheckpoint, ReadsV2
    <3> QED
      BY <2>2, <2>3, <3>1, <3>2
  <2> QED
    BY <2>5, <2>6
<1>4. CASE PrepareDevices
  BY <1>1, <1>3, <1>4 DEF PrepareDevices
<1>5. CASE LegacyPrepare
  BY <1>3, <1>5 DEF LegacyPrepare
<1>6. ASSUME stage = "prepared", UNCHANGED <<applied, preparer>>
      PROVE  Done(file.v1) /\ (file.format = "V2" => Done(file.v2))
  BY <1>2, <1>6 DEF RecordedInBoth, Complete
<1> HIDE DEF Done
<1>7. ASSUME NEW v \in Versions \ {"2503RC2"}, Switch(v)
      PROVE  Done(file'.v1) /\ (file'.format = "V2" => Done(file'.v2))
  <2>1. stage = "prepared" /\ UNCHANGED <<applied, preparer>>
    BY <1>1, <1>7 DEF Switch
  <2>2. Done(file.v1) /\ (file.format = "V2" => Done(file.v2))
    BY <1>6, <2>1
  <2>3. CASE file' = MarshalCheckpoint(Loaded(v), v)
    <3>1. file.v1 \in CheckpointEntries
      BY DEF TypeOK, CheckpointFiles
    <3>2. Done(ToV2(file.v1))
      BY <2>2, <3>1 DEF ToV2, Done, CheckpointEntries
    <3>3. Done(Loaded(v))
      BY <2>2, <3>2 DEF Loaded
    <3>4. ToV1(Loaded(v)) = Loaded(v)
      BY <3>3 DEF ToV1, Done
    <3> QED
      BY <2>3, <3>3, <3>4 DEF MarshalCheckpoint
  <2>4. CASE file' = file
    BY <2>2, <2>4
  <2> QED
    BY <1>7, <2>3, <2>4 DEF Switch
<1>8. CASE UNCHANGED vars \/ Delete
  <2>1. stage = "prepared" /\ UNCHANGED <<file, applied, preparer>>
    BY <1>1, <1>8 DEF vars, Delete
  <2> QED
    BY <1>6, <2>1
<1> QED
  BY <1>1, <1>4, <1>5, <1>7, <1>8
     DEF Next, Admit, NoWebhook, PrepareStart, Unprepare, UnprepareStatus,
         UnprepareDevices

(* A preparation that succeeds has decoded every config and found no       *)
(* mismatch, so that Unprepare will.                                       *)
LEMMA OkIsReleasable ==
    ASSUME PrepareOutcome = "ok" PROVE Releasable(configs)
<1> DEFINE sel == Selected(configs)
           c == Normalize(sel.config)
           undecoded == \E e \in Range(GetOpaqueDeviceConfigs(configs)) :
                            ~Decodes(e.config, TRUE)
           mismatch == sel.for = "this" /\ Mismatch(sel.config)
           unrecognized == sel.config.kind \notin Kinds(plugin)
<1>1. "ok" = CASE undecoded -> "decode"
               [] mismatch -> "mismatch"
               [] unrecognized -> "unrecognized"
               [] Validate(c) # "ok" -> Validate(c)
               [] ~Applies(c) -> "apply"
               [] OTHER -> "ok"
  BY DEF PrepareOutcome
<1> HIDE DEF c, undecoded, mismatch, unrecognized
<1>2. ~undecoded /\ ~mismatch
  BY <1>1
<1> QED
  BY <1>2 DEF Releasable, undecoded, mismatch, Decodes

(* Without configs there is nothing to decode, and a default is selected. *)
LEMMA EmptyIsReleasable ==
    ASSUME TypeOK, configs = <<>> PROVE Releasable(configs)
<1>1. IsList(configs)
  BY ConfigsAreList
<1>2. DOMAIN configs = {}
  OBVIOUS
<1>3. \A k \in DOMAIN GetOpaqueDeviceConfigs(configs) : FALSE
  BY <1>1, <1>2, OpaqueFromList
<1>4. Mine(configs) = {}
  BY <1>2 DEF Mine
<1>5. Selected(configs).for = "all"
  BY <1>1, <1>4, SelectedFacts DEF General
<1> QED
  BY <1>3, <1>5 DEF Releasable, Range

(* There is nothing to normalise in a config of the ComputeDomain plugin. *)
LEMMA NothingToNormalize ==
    ASSUME NEW c, plugin = "cd", c.kind \in Kinds(plugin) PROVE Normalize(c) = c
BY DEF Normalize, Kinds

LEMMA OkIsRecognized ==
    ASSUME PrepareOutcome = "ok" PROVE Selected(configs).config.kind \in Kinds(plugin)
<1> DEFINE sel == Selected(configs)
           c == Normalize(sel.config)
           undecoded == \E e \in Range(GetOpaqueDeviceConfigs(configs)) :
                            ~Decodes(e.config, TRUE)
           mismatch == sel.for = "this" /\ Mismatch(sel.config)
           unrecognized == sel.config.kind \notin Kinds(plugin)
<1>1. "ok" = CASE undecoded -> "decode"
               [] mismatch -> "mismatch"
               [] unrecognized -> "unrecognized"
               [] Validate(c) # "ok" -> Validate(c)
               [] ~Applies(c) -> "apply"
               [] OTHER -> "ok"
  BY DEF PrepareOutcome
<1> HIDE DEF c, undecoded, mismatch, unrecognized
<1>2. ~unrecognized
  BY <1>1
<1> QED
  BY <1>2 DEF unrecognized

LEMMA EmptyIsRecognized ==
    ASSUME TypeOK, configs = <<>>, plugin = "cd"
    PROVE  Selected(configs).config.kind \in Kinds(plugin)
<1> DEFINE x == Config("Daemon", [domain |-> ""])
           y == Config("Channel", [domain |-> ""])
<1>1. IsList(configs) /\ Mine(configs) = {}
  <2>1. DOMAIN configs = {}
    OBVIOUS
  <2> QED
    BY <2>1, ConfigsAreList DEF Mine
<1>2. PICK d \in DOMAIN Defaults : Selected(configs) = General(Defaults[d])
  BY <1>1, SelectedFacts
<1>3. Defaults = <<x, y>>
  BY DefaultsAre
<1>4. x.kind \in Kinds(plugin) /\ y.kind \in Kinds(plugin)
  BY DEF Config, Kinds
<1> HIDE DEF x, y
<1>5. Defaults[d].kind \in Kinds(plugin)
  BY <1>3, <1>4
<1> QED
  BY <1>2, <1>5 DEF General

(* Whatever version has written it and whichever reads it, the entry of a  *)
(* prepared claim has what was applied.                                    *)
LEMMA PreparedIsLoaded ==
    ASSUME ClaimInv, stage = "prepared", NEW v PROVE Complete(Loaded(v))
<1>1. Complete(file.v1) /\ (file.format = "V2" => Complete(file.v2))
  BY DEF ClaimInv, RecordedInBoth
<1>2. file.v1 \in CheckpointEntries
  BY DEF ClaimInv, TypeOK, CheckpointFiles
<1>3. Complete(ToV2(file.v1))
  BY <1>1, <1>2 DEF ToV2, Complete, CheckpointEntries
<1> QED
  BY <1>1, <1>3 DEF Loaded

LEMMA AppliedPreserved ==
    ASSUME ClaimInv, [Next]_vars PROVE AppliedIsSelected'
<1> USE DEF ClaimInv
<1> DEFINE C == Selected(configs).config
           N == Normalize(C)
           R == Releasable(configs)
           Good(a) == a = N /\ R /\ (plugin = "cd" => a = C)
<1>0. Same /\ plugin \in {"gpu", "cd"}
  BY NextSame, ClaimConfigsAssumption DEF TypeOK
<1>1. C' = C /\ N' = N /\ (R' <=> R) /\ plugin' = plugin
  BY <1>0, SameSelection, SameForSelected DEF Same
<1>2. /\ stage = "prepared" => applied = N
      /\ applied # None => stage \in {"prepared", "unprepared", "stuck"} /\ Good(applied)
      /\ ReleasesApplied
  BY DEF AppliedIsSelected
<1> HIDE DEF C, N, R
<1>3. SUFFICES
        /\ stage' = "prepared" => applied' = N
        /\ applied' # None =>
             stage' \in {"prepared", "unprepared", "stuck"} /\ Good(applied')
        /\ ReleasesApplied'
  BY <1>1 DEF AppliedIsSelected, C, N, R, None, Config, NoSharing, Sharing
<1>4. None' = None
  BY DEF None, Config, NoSharing, Sharing
<1>5. CASE Admit \/ NoWebhook
  BY <1>2, <1>4, <1>5 DEF Admit, NoWebhook, ReleasesApplied
<1>6. CASE PrepareStart \/ UNCHANGED vars
  BY <1>1, <1>2, <1>4, <1>6 DEF PrepareStart, ReleasesApplied, vars
<1>7. CASE Delete
  BY <1>1, <1>2, <1>4, <1>7 DEF Delete, ReleasesApplied
<1>8. ASSUME applied' = N, stage' = "prepared", R, C.kind \in Kinds(plugin) \/ plugin = "gpu"
      PROVE  /\ Good(applied') /\ ReleasesApplied'
  BY <1>0, <1>8, NothingToNormalize DEF ReleasesApplied, N
<1>9. CASE PrepareDevices
  <2>1. CASE PrepareOutcome = "ok"
    <3>1. applied' = N /\ stage' = "prepared"
      BY <1>9, <2>1 DEF PrepareDevices, Prepared, N, C
    <3>2. R /\ C.kind \in Kinds(plugin)
      BY <2>1, OkIsReleasable, OkIsRecognized DEF R, C
    <3> QED
      BY <1>8, <3>1, <3>2
  <2>2. CASE PrepareOutcome # "ok"
    <3>1. stage = "started" /\ stage' = "failed" /\ applied' = applied
      BY <1>9, <2>2 DEF PrepareDevices
    <3> QED
      BY <1>2, <1>4, <3>1 DEF ReleasesApplied
  <2> QED
    BY <2>1, <2>2
<1>10. CASE LegacyPrepare
  <2>1. applied' = N /\ stage' = "prepared" /\ configs = <<>>
    BY <1>10 DEF LegacyPrepare, Prepared, N, C
  <2>2. R
    BY <2>1, EmptyIsReleasable DEF R
  <2>3. plugin = "cd" => C.kind \in Kinds(plugin)
    BY <2>1, EmptyIsRecognized DEF C
  <2> QED
    BY <1>0, <1>8, <2>1, <2>2, <2>3
<1>11. CASE Unprepare
  <2>1. UNCHANGED <<applied, gone, preparer>> /\ stage \in {"admitted", "prepared", "failed"}
    BY <1>11 DEF Unprepare
  <2>2. stage' \in {"unprepared", "stuck"}
    BY <1>11 DEF Unprepare, UnprepareStatus, UnprepareDevices
  <2>3. ASSUME applied # None
        PROVE  \/ stage' = "unprepared" /\ released' = applied
               \/ stage' = "stuck" /\ plugin = "cd" /\ preparer = "2503RC2" /\ gone
    <3> DEFINE e == Loaded(version)
    <3>1. stage = "prepared" /\ Good(applied)
      BY <1>2, <2>1, <2>3
    <3>2. Complete(e) /\ e \in CheckpointEntries
      BY <3>1, PreparedIsLoaded, LoadedIsEntry
    <3>3. e.state # "none" /\ e.devices = {applied} /\ e.status \in SUBSET {configs}
      BY <3>2 DEF Complete, CheckpointEntries
    <3>4. e.status = {} => plugin = "cd" /\ preparer = "2503RC2"
      BY <3>2 DEF Complete
    <3> HIDE DEF e
    <3>5. CASE plugin = "gpu"
      BY <1>11, <3>3, <3>5 DEF Unprepare, UnprepareDevices, e
    <3>6. CASE plugin = "cd"
      <4>1. UnprepareStatus(e)
        BY <1>11, <3>3, <3>6 DEF Unprepare, e
      <4>2. CASE ClaimStatus(e) = {configs}
        <5>1. stage' = "unprepared" /\ released' = Selected(configs).config
          BY <3>1, <4>1, <4>2 DEF UnprepareStatus, R
        <5> QED
          BY <3>1, <3>6, <5>1 DEF C
      <4>3. CASE ClaimStatus(e) # {configs}
        <5>1. e.status = {} /\ gone /\ ClaimStatus(e) = {}
          BY <3>3, <4>3 DEF ClaimStatus
        <5> QED
          BY <3>4, <4>1, <5>1 DEF UnprepareStatus
      <4> QED
        BY <4>2, <4>3
    <3> QED
      BY <1>0, <3>5, <3>6
  <2> QED
    BY <1>1, <1>2, <1>4, <2>1, <2>2, <2>3 DEF ReleasesApplied
<1>12. ASSUME NEW v \in Versions \ {"2503RC2"}, Switch(v)
       PROVE  /\ stage' = "prepared" => applied' = N
              /\ applied' # None =>
                   stage' \in {"prepared", "unprepared", "stuck"} /\ Good(applied')
              /\ ReleasesApplied'
  BY <1>1, <1>2, <1>4, <1>12 DEF Switch, ReleasesApplied
<1> QED
  BY <1>5, <1>6, <1>7, <1>9, <1>10, <1>11, <1>12 DEF Next

(* A verdict depends on the claim and on the version. *)
LEMMA SameOutcome ==
    ASSUME Same, version' = version PROVE PrepareOutcome' = PrepareOutcome
<1> DEFINE sel == Selected(configs)
           c == Normalize(sel.config)
           G == GetOpaqueDeviceConfigs(configs)
<1>1. sel' = sel /\ c' = c /\ G' = G
  BY SameSelection, SameForSelected
<1> HIDE DEF sel, c, G
<1>2. (\E e \in Range(G) : ~Decodes(e.config, TRUE))'
         <=> (\E e \in Range(G) : ~Decodes(e.config, TRUE))
  BY <1>1 DEF Decodes
<1>3. (Mismatch(sel.config)' <=> Mismatch(sel.config)) /\ Kinds(plugin)' = Kinds(plugin)
  BY <1>1 DEF Same, Mismatch, Kinds
<1>4. Validate(c)' = Validate(c)
  BY <1>1 DEF Same, Validate, ValidateSharing
<1>5. Applies(c)' <=> Applies(c)
  BY <1>1 DEF Same, Applies
<1> QED
  BY <1>1, <1>2, <1>3, <1>4, <1>5 DEF PrepareOutcome, sel, c, G

LEMMA VerdictsPreserved ==
    ASSUME ClaimInv, [Next]_vars PROVE VerdictsHold'
<1> USE DEF ClaimInv
<1>0. Same
  BY NextSame
<1>1. ASSUME NEW e
      PROVE  Validate(Normalize(e.config))' = Validate(Normalize(e.config))
  BY <1>0 DEF Same, Validate, ValidateSharing, Normalize, NormalizeSharing, Implied
<1>2. /\ checked # "none" /\ stage # "refused"
           => stage # "submitted" /\ AdmittedFor(checked)
      /\ stage = "failed" => failure = PrepareOutcome /\ failure # "ok"
  BY DEF VerdictsHold
<1>3. ASSUME checked' # "none", stage' # "refused"
      PROVE  stage' # "submitted" /\ AdmittedFor(checked')
  <2>1. CASE Admit
    <3>1. Admissible /\ stage' = "admitted" /\ checked' = version
      BY <1>3, <2>1 DEF Admit
    <3> QED
      BY <3>1 DEF Admissible, AdmittedFor, Decodes
  <2>2. CASE ~Admit
    <3>1. checked' = checked
      BY <2>2 DEF Next, vars, NoWebhook, Delete, PrepareStart, PrepareDevices,
                  LegacyPrepare, Prepared, Unprepare, Switch
    <3>2. stage # "refused"
      BY <1>3, <2>2
         DEF Next, vars, NoWebhook, Delete, PrepareStart, PrepareDevices, LegacyPrepare,
             Prepared, Unprepare, UnprepareStatus, UnprepareDevices, Switch
    <3>3. stage # "submitted" /\ AdmittedFor(checked)
      BY <1>2, <1>3, <3>1, <3>2
    <3>4. stage' # "submitted"
      BY <2>2, <3>3
         DEF Next, vars, NoWebhook, Delete, PrepareStart, PrepareDevices, LegacyPrepare,
             Prepared, Unprepare, UnprepareStatus, UnprepareDevices, Switch
    <3> QED
      BY <3>1, <3>3, <3>4
  <2> QED
    BY <2>1, <2>2
<1>4. ASSUME stage' = "failed"
      PROVE  failure' = PrepareOutcome' /\ failure' # "ok"
  <2>1. CASE PrepareDevices
    <3>1. failure' = PrepareOutcome /\ failure' # "ok" /\ version' = version
      BY <1>4, <2>1 DEF PrepareDevices, Prepared
    <3> QED
      BY <1>0, <3>1, SameOutcome
  <2>2. CASE ~PrepareDevices
    <3>1. stage = "failed" /\ failure' = failure /\ version' = version
      BY <1>4, <2>2
         DEF Next, vars, Admit, NoWebhook, Delete, PrepareStart, LegacyPrepare, Prepared,
             Unprepare, UnprepareStatus, UnprepareDevices, Switch
    <3> QED
      BY <1>0, <1>2, <3>1, SameOutcome
  <2> QED
    BY <2>1, <2>2
<1>5. checked' # "none" /\ stage' # "refused"
        => stage' # "submitted" /\ (AdmittedFor(checked))'
  BY <1>0, <1>1, <1>3 DEF AdmittedFor, Same, Claimed
<1> QED
  BY <1>4, <1>5 DEF VerdictsHold

(* What the other theorems rest on: the claim is what it was, both formats *)
(* of the checkpoint have a prepared claim, what was applied is what the   *)
(* configs select, and verdicts are those of the version that gave them.   *)
THEOREM ClaimInvariant == Spec => []ClaimInv
<1>1. ClaimInv /\ [Next]_vars => ClaimInv'
  BY TypePreserved, RecordPreserved, AppliedPreserved, VerdictsPreserved DEF ClaimInv
<1> QED
  BY <1>1, ClaimInit, PTL DEF Spec

-----------------------------------------------------------------------------
(* The properties *)

(* Whatever the list of configs, its length and its order, the config of a *)
(* prepared device is the one that GetOpaqueDeviceConfigs and the loop     *)
(* over slices.Backward are documented to prefer.                          *)
THEOREM PrecedenceIsDocumented == Spec => []ConfigPrecedence
<1>1. ClaimInv => ConfigPrecedence
  <2> SUFFICES ASSUME ClaimInv, stage = "prepared"
               PROVE  \/ /\ Mine(configs) = {}
                         /\ applied \in {Normalize(Defaults[i]) : i \in DOMAIN Defaults}
                      \/ \E i \in Mine(configs) :
                           /\ \A j \in Mine(configs) \ {i} : Outranks(i, j)
                           /\ applied = Normalize(configs[i].config)
    BY DEF ConfigPrecedence, Mine
  <2>1. applied = Normalize(Selected(configs).config)
    BY DEF ClaimInv, AppliedIsSelected
  <2>2. TypeOK /\ IsList(configs)
    BY ConfigsAreList DEF ClaimInv
  <2>3. CASE /\ Mine(configs) = {}
             /\ \E d \in DOMAIN Defaults : Selected(configs) = General(Defaults[d])
    <3>1. PICK d \in DOMAIN Defaults : Selected(configs) = General(Defaults[d])
      BY <2>3
    <3>2. Selected(configs).config = Defaults[d]
      BY <3>1 DEF General
    <3> QED
      BY <2>1, <2>3, <3>2
  <2>4. CASE \E i \in Mine(configs) :
                /\ Selected(configs) = configs[i]
                /\ \A j \in Mine(configs) \ {i} : Outranks(i, j)
    BY <2>1, <2>4
  <2> QED
    BY <2>2, <2>3, <2>4, SelectedFacts
<1> QED
  BY <1>1, ClaimInvariant, PTL

(* A claim that the webhook has admitted is not refused by the same        *)
(* version's Prepare for a config that does not decode or is not valid.    *)
THEOREM AdmittedClaimsPrepare == Spec => []AdmittedPrepares
<1>1. ClaimInv => AdmittedPrepares
  <2> SUFFICES ASSUME ClaimInv, stage = "failed", checked = version, plugin = "gpu",
                      \A e \in Range(configs) : e.source = "claim" /\ e.driver = "gpu"
               PROVE  failure \in {"mismatch", "unrecognized", "apply"}
    BY DEF AdmittedPrepares
  <2>1. TypeOK /\ IsList(configs)
    BY ConfigsAreList DEF ClaimInv
  <2>2. failure = PrepareOutcome /\ failure # "ok"
    BY DEF ClaimInv, VerdictsHold
  <2>3. AdmittedFor(version)
    <3>1. checked # "none"
      BY <2>1 DEF TypeOK, Versions
    <3> QED
      BY <3>1 DEF ClaimInv, VerdictsHold
  <2>4. \A i \in DOMAIN configs :
           /\ Decodes(configs[i].config, TRUE)
           /\ Validate(Normalize(configs[i].config)) = "ok"
    BY <2>3 DEF AdmittedFor, Claimed, Range, Decodes
  <2> DEFINE G == GetOpaqueDeviceConfigs(configs)
             sel == Selected(configs)
             c == Normalize(sel.config)
  <2>5. ~ \E e \in Range(G) : ~Decodes(e.config, TRUE)
    <3>1. ASSUME NEW k \in DOMAIN G PROVE Decodes(G[k].config, TRUE)
      <4>1. PICK i \in DOMAIN configs : G[k] = configs[i]
        BY <2>1, OpaqueFromList
      <4> QED
        BY <2>4, <4>1
    <3> QED
      BY <3>1 DEF Range
  <2>6. Validate(c) = "ok"
    <3>1. CASE \E d \in DOMAIN Defaults : sel = General(Defaults[d])
      <4>1. PICK d \in DOMAIN Defaults : sel = General(Defaults[d])
        BY <3>1
      <4>2. sel.config = Defaults[d]
        BY <4>1 DEF General
      <4> QED
        BY <2>1, <4>2, DefaultsAreValid
    <3>2. CASE \E i \in Mine(configs) : sel = configs[i]
      BY <2>4, <3>2 DEF Mine
    <3> QED
      BY <2>1, <3>1, <3>2, SelectedFacts
  <2> HIDE DEF G, sel, c
  <2>7. PrepareOutcome \in {"mismatch", "unrecognized", "apply", "ok"}
    BY <2>5, <2>6 DEF PrepareOutcome, G, sel, c
  <2> QED
    BY <2>2, <2>7
<1> QED
  BY <1>1, ClaimInvariant, PTL

(* However often the driver is up- and downgraded, a version accepts the   *)
(* checkpoint unless it is older than what the checkpoint has, and finds a *)
(* prepared claim in it with what was prepared.                            *)
THEOREM PreparedStaysPrepared == Spec => []StaysPrepared
<1>1. ClaimInv => StaysPrepared
  <2> SUFFICES ASSUME ClaimInv PROVE StaysPrepared
    OBVIOUS
  <2>1. accepts \/ version = "V2" \/ (version = "V1" /\ MetadataFields # {})
    BY DEF ClaimInv, ChecksumsHold
  <2>2. stage = "prepared" =>
          /\ Loaded(version).state = "PrepareCompleted"
          /\ Loaded(version).devices = {applied}
    BY PreparedIsLoaded DEF Complete
  <2> QED
    BY <2>1, <2>2 DEF StaysPrepared, MetadataFields
<1> QED
  BY <1>1, ClaimInvariant, PTL

(* What was applied is what Unprepare releases, from whatever entry and    *)
(* with whatever version, except for an entry without status whose claim   *)
(* is gone.                                                                *)
THEOREM AppliedIsReleased == Spec => []ReleasesApplied
<1>1. ClaimInv => ReleasesApplied
  BY DEF ClaimInv, AppliedIsSelected
<1> QED
  BY <1>1, ClaimInvariant, PTL

=============================================================================
