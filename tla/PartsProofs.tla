---------------------------- MODULE PartsProofs ----------------------------
(***************************************************************************)
(* Proofs about the parts that MCParts runs, each for any size.  PartsRefined *)
(* says that the composition leaves every part to its own specification; the *)
(* theorems after it show, part by part, what that specification promises. *)
(***************************************************************************)
EXTENDS MCParts, FiniteSetTheorems, SequenceTheorems, TLAPS

-----------------------------------------------------------------------------
(* Numbers.                                                                *)

\* A set of natural numbers has a least element.
LEMMA LeastElement ==
  ASSUME NEW S \in SUBSET Nat, S # {}
  PROVE  \E m \in S : \A k \in S : m <= k
<1> DEFINE R == OpToRel(<, Nat)
<1>1. \A a, b \in Nat : a < b => <<a, b>> \in R
  BY DEF OpToRel
<1>2. IsWellFoundedOn(R, Nat)
  BY NatLessThanWellFounded
<1> HIDE DEF R
<1>3. PICK m \in S : \A k \in S : <<k, m>> \notin R
  BY <1>2, WFMin
<1>4. ASSUME NEW k \in S PROVE m <= k
  <2>1. k \in Nat /\ m \in Nat /\ ~(k < m)
    BY <1>1, <1>3
  <2> QED
    BY <2>1
<1> QED
  BY <1>4

\* A bounded one has a greatest.
LEMMA GreatestElement ==
  ASSUME NEW bound \in Nat, NEW S \in SUBSET (0..bound), S # {}
  PROVE  Max(S) \in S /\ \A k \in S : k <= Max(S)
<1> DEFINE T == {bound - k : k \in S}
<1>1. T \in SUBSET Nat /\ T # {}
  <2>1. \A k \in S : bound - k \in Nat
    OBVIOUS
  <2>2. PICK k \in S : TRUE
    OBVIOUS
  <2>3. bound - k \in T
    BY <2>2
  <2> QED
    BY <2>1, <2>3
<1> HIDE DEF T
<1>2. PICK t \in T : \A k \in T : t <= k
  BY <1>1, LeastElement
<1>3. PICK m \in S : t = bound - m
  BY DEF T
<1>4. \A k \in S : bound - k \in T
  BY DEF T
<1>5. \A k \in S : k <= m
  BY <1>2, <1>3, <1>4
<1> QED
  BY <1>3, <1>5 DEF Max

-----------------------------------------------------------------------------
(* Seeding: the upsert of the cities.                                      *)

\* Some seed up to number i finds its name taken by a row that no seed has
\* renamed by then.
Clash(i) == \E k \in 1..i : \E j \in DOMAIN cities \ (1..k) : cities[j] = k

\* The rows after i seeds.
Upserted(i) == [j \in DOMAIN cities \union 1..i |-> IF j \in 1..i THEN j ELSE cities[j]]

\* What the row by row upsert makes of the cities.
UpsertTo == [i \in 0..SeedCities |-> IF Clash(i) THEN <<>> ELSE Upserted(i)]

LEMMA UpsertOneMore ==
  ASSUME PartsAssumption, NEW i \in 1..SeedCities, NEW rows, rows = UpsertTo[i - 1]
  PROVE  UpsertTo[i] = Seeds!UpsertCity(i, rows)
<1>1. /\ i \in Nat /\ i >= 1 /\ i - 1 \in 0..SeedCities /\ i \in 0..SeedCities
      /\ 1..i = 1..(i - 1) \union {i} /\ SeedCities \in Nat
  BY DEF PartsAssumption
<1>2. UpsertTo[i] = IF Clash(i) THEN <<>> ELSE Upserted(i)
  BY <1>1 DEF UpsertTo
<1>3. rows = IF Clash(i - 1) THEN <<>> ELSE Upserted(i - 1)
  BY <1>1 DEF UpsertTo
<1>4. CASE Clash(i - 1)
  <2>1. Clash(i)
    BY <1>1, <1>4 DEF Clash
  <2>2. i > 1 /\ rows = <<>>
    BY <1>1, <1>3, <1>4 DEF Clash
  <2> QED
    BY <1>2, <2>1, <2>2 DEF Seeds!UpsertCity
<1>5. CASE ~Clash(i - 1)
  <2>1. rows = Upserted(i - 1)
    BY <1>3, <1>5
  <2>2. /\ DOMAIN rows = DOMAIN cities \union 1..(i - 1)
        /\ \A j \in 1..(i - 1) : rows[j] = j
        /\ \A j \in DOMAIN cities \ (1..(i - 1)) : rows[j] = cities[j]
    BY <2>1 DEF Upserted
  <2>3. i > 1 => rows # <<>>
    <3> SUFFICES ASSUME i > 1, rows = <<>> PROVE FALSE
      OBVIOUS
    <3>1. 1 \in DOMAIN rows
      BY <1>1, <2>2
    <3> QED
      BY <3>1
  <2>4. Clash(i) <=> \E j \in DOMAIN cities \ (1..i) : cities[j] = i
    BY <1>1, <1>5 DEF Clash
  <2>5. Clash(i) <=> \E j \in DOMAIN rows \ {i} : rows[j] = i
    BY <1>1, <2>2, <2>4
  <2>6. Upserted(i) = [j \in DOMAIN rows \union {i} |-> IF j = i THEN i ELSE rows[j]]
    <3>1. DOMAIN rows \union {i} = DOMAIN cities \union 1..i
      BY <1>1, <2>2
    <3>2. ASSUME NEW j \in DOMAIN cities \union 1..i
          PROVE  (IF j \in 1..i THEN j ELSE cities[j]) = (IF j = i THEN i ELSE rows[j])
      BY <1>1, <2>2
    <3> QED
      BY <3>1, <3>2 DEF Upserted
  <2> QED
    BY <1>2, <2>3, <2>5, <2>6 DEF Seeds!UpsertCity
<1> QED
  BY <1>4, <1>5

\* The upsert leaves every seed with its name, or fails if a row that keeps its
\* own has one of them.
LEMMA UpsertOfCities ==
  ASSUME PartsAssumption, cities = [j \in DOMAIN cities |-> cities[j]]
  PROVE  Seeds!UpsertCities = UpsertTo[SeedCities]
<1> DEFINE Equation(f) == f = [i \in 0..SeedCities |-> IF i = 0 THEN cities
                                                        ELSE Seeds!UpsertCity(i, f[i - 1])]
           upsert == CHOOSE f : Equation(f)
<1>1. Seeds!UpsertCities = upsert[SeedCities]
  BY DEF Seeds!UpsertCities
<1>2. SeedCities \in Nat
  BY DEF PartsAssumption
<1>3. UpsertTo[0] = cities
  <2>1. ~Clash(0) /\ 1..0 = {} /\ 0 \in 0..SeedCities
    BY <1>2 DEF Clash
  <2>2. UpsertTo[0] = Upserted(0)
    BY <2>1 DEF UpsertTo
  <2> QED
    BY <2>1, <2>2 DEF Upserted
<1>4. Equation(UpsertTo)
  <2>1. ASSUME NEW i \in 0..SeedCities
        PROVE  UpsertTo[i] = IF i = 0 THEN cities ELSE Seeds!UpsertCity(i, UpsertTo[i - 1])
    <3>1. CASE i = 0
      BY <1>3, <3>1
    <3>2. CASE i # 0
      <4>1. i \in 1..SeedCities
        BY <1>2, <3>2
      <4> QED
        BY <3>2, <4>1, UpsertOneMore
    <3> QED
      BY <3>1, <3>2
  <2>2. UpsertTo = [i \in 0..SeedCities |-> UpsertTo[i]]
    BY DEF UpsertTo
  <2> QED
    BY <2>1, <2>2
<1>5. Equation(upsert)
  <2> HIDE DEF Equation
  <2> QED
    BY <1>4
<1> HIDE DEF upsert
<1>6. /\ upsert[0] = cities
      /\ \A i \in 1..SeedCities : upsert[i] = Seeds!UpsertCity(i, upsert[i - 1])
  <2>1. \A i \in 0..SeedCities :
          upsert[i] = IF i = 0 THEN cities ELSE Seeds!UpsertCity(i, upsert[i - 1])
    BY <1>5
  <2> HIDE DEF Equation
  <2>2. 0 \in 0..SeedCities /\ \A i \in 1..SeedCities : i \in 0..SeedCities /\ i # 0
    BY <1>2
  <2> QED
    BY <2>1, <2>2
<1>7. \A i \in 0..SeedCities : upsert[i] = UpsertTo[i]
  <2> DEFINE S == {i \in 0..SeedCities : upsert[i] # UpsertTo[i]}
  <2> SUFFICES ASSUME S # {} PROVE FALSE
    OBVIOUS
  <2>1. S \in SUBSET Nat
    OBVIOUS
  <2>2. PICK m \in S : \A k \in S : m <= k
    BY <2>1, LeastElement
  <2>3. m \in 1..SeedCities /\ m - 1 \in 0..SeedCities /\ m - 1 \notin S
    <3>1. m \in 0..SeedCities /\ m # 0
      BY <1>3, <1>6
    <3>2. m \in 1..SeedCities /\ m - 1 \in 0..SeedCities /\ ~(m <= m - 1)
      BY <1>2, <3>1
    <3> QED
      BY <2>2, <3>2
  <2>4. upsert[m - 1] = UpsertTo[m - 1]
    BY <2>3
  <2>5. UpsertTo[m] = Seeds!UpsertCity(m, UpsertTo[m - 1])
    BY <2>3, UpsertOneMore
  <2> QED
    BY <1>6, <2>3, <2>4, <2>5
<1> QED
  BY <1>1, <1>2, <1>7

-----------------------------------------------------------------------------
(* The composition.                                                        *)

\* A step of the composition is, to each part, a step of its own or none.
LEMMA PartsSteps ==
  ASSUME [PartsNext]_<<part, parts>>
  PROVE  /\ [Next]_vars /\ [Links!Next]_(Links!vars) /\ [Files!Next]_(Files!vars)
         /\ [Time!Next]_(Time!vars) /\ [Phone!Next]_(Phone!vars) /\ [Push!Next]_(Push!vars)
         /\ [Texts!Next]_(Texts!vars) /\ [Errors!Next]_(Errors!vars)
         /\ [Seeds!Next]_(Seeds!vars) /\ [Start!Next]_(Start!vars)
<1> USE DEF PartsNext, RunsStorage, RunsLinks, RunsFiles, RunsTime, RunsPhones, RunsPush,
            RunsTexts, RunsErrors, RunsSeeds, RunsStart, parts
<1>1. [Next]_vars
  OBVIOUS
<1>2. [Links!Next]_(Links!vars)
  BY DEF linksVars, Links!vars
<1>3. [Files!Next]_(Files!vars)
  BY DEF filesVars, Files!vars
<1>4. [Time!Next]_(Time!vars)
  BY DEF timeVars, Time!vars
<1>5. [Phone!Next]_(Phone!vars)
  BY DEF phoneVars, Phone!vars
<1>6. [Push!Next]_(Push!vars)
  BY DEF pushVars, Push!vars
<1>7. [Texts!Next]_(Texts!vars)
  BY DEF textsVars, Texts!vars
<1>8. [Errors!Next]_(Errors!vars)
  BY DEF errorsVars, Errors!vars
<1>9. [Seeds!Next]_(Seeds!vars)
  BY DEF seedsVars, Seeds!vars
<1>10. [Start!Next]_(Start!vars)
  BY DEF startVars, Start!vars
<1> QED
  BY <1>1, <1>2, <1>3, <1>4, <1>5, <1>6, <1>7, <1>8, <1>9, <1>10

\* Each part is left to itself: what PartsSpec does to it is what its own
\* specification allows.
THEOREM PartsRefined ==
  PartsSpec => /\ Spec /\ Links!Spec /\ Files!Spec /\ Time!Spec /\ Phone!Spec
               /\ Push!Spec /\ Texts!Spec /\ Errors!Spec /\ Seeds!Spec /\ Start!Spec
<1>1. PartsInit => /\ Init /\ Links!Init /\ Files!Init /\ Time!Init /\ Phone!Init
                   /\ Push!Init /\ Texts!Init /\ Errors!Init /\ Seeds!Init /\ Start!Init
  BY DEF PartsInit
<1>2. [PartsNext]_<<part, parts>> =>
         /\ [Next]_vars /\ [Links!Next]_(Links!vars) /\ [Files!Next]_(Files!vars)
         /\ [Time!Next]_(Time!vars) /\ [Phone!Next]_(Phone!vars) /\ [Push!Next]_(Push!vars)
         /\ [Texts!Next]_(Texts!vars) /\ [Errors!Next]_(Errors!vars)
         /\ [Seeds!Next]_(Seeds!vars) /\ [Start!Next]_(Start!vars)
  BY PartsSteps
<1> QED
  BY <1>1, <1>2, PTL DEF PartsSpec, Spec, Links!Spec, Files!Spec, Time!Spec, Phone!Spec,
     Push!Spec, Texts!Spec, Errors!Spec, Seeds!Spec, Start!Spec

-----------------------------------------------------------------------------
(* Sets of numbers, listed in their order.                                 *)

Listings(S) ==
  {f \in [1..Cardinality(S) -> S] : \A i, j \in DOMAIN f : i < j => f[i] < f[j]}
Listable(n) == \A S \in SUBSET {k \in Nat : k < n} : IsFiniteSet(S) /\ Listings(S) # {}

LEMMA ListOneMore == ASSUME NEW n \in Nat, Listable(n) PROVE Listable(n + 1)
<1> SUFFICES ASSUME NEW S \in SUBSET {k \in Nat : k < n + 1}
             PROVE  IsFiniteSet(S) /\ Listings(S) # {}
  BY DEF Listable
<1>1. CASE n \notin S
  <2>1. S \in SUBSET {k \in Nat : k < n}
    BY <1>1
  <2> QED
    BY <2>1 DEF Listable
<1>2. CASE n \in S
  <2> DEFINE R == S \ {n}
             c == Cardinality(R)
  <2>1. R \in SUBSET {k \in Nat : k < n} /\ S = R \union {n} /\ n \notin R
    BY <1>2
  <2>2. IsFiniteSet(R) /\ Listings(R) # {}
    BY <2>1 DEF Listable
  <2>3. IsFiniteSet(S) /\ Cardinality(S) = c + 1 /\ c \in Nat
    <3>1. Cardinality(R) \in Nat /\ IsFiniteSet(R \union {n})
          /\ Cardinality(R \union {n}) = Cardinality(R) + 1
      BY <2>1, <2>2, FS_AddElement, FS_CardinalityType
    <3> QED
      BY <2>1, <3>1
  <2>4. PICK e \in [1..c -> R] : \A i, j \in DOMAIN e : i < j => e[i] < e[j]
    BY <2>2 DEF Listings
  <2> DEFINE f == [i \in 1..(c + 1) |-> IF i = c + 1 THEN n ELSE e[i]]
  <2> HIDE DEF R, c
  <2>5. f \in [1..(c + 1) -> S]
    BY <2>1, <2>3, <2>4
  <2>6. ASSUME NEW i \in 1..(c + 1), NEW j \in 1..(c + 1), i < j PROVE f[i] < f[j]
    <3>1. i \in 1..c /\ f[i] = e[i] /\ e[i] \in R
      BY <2>3, <2>4, <2>6
    <3>2. CASE j = c + 1
      BY <2>1, <3>1, <3>2
    <3>3. CASE j # c + 1
      <4>1. j \in 1..c /\ f[j] = e[j]
        BY <2>3, <3>3
      <4> QED
        BY <2>4, <2>6, <3>1, <4>1
    <3> QED
      BY <3>2, <3>3
  <2>7. f \in Listings(S)
    BY <2>3, <2>5, <2>6 DEF Listings
  <2> QED
    BY <2>3, <2>7
<1> QED
  BY <1>1, <1>2

\* Every set of numbers below a bound can be listed: else there were a least
\* bound below which one cannot.
LEMMA AllListable == ASSUME NEW n \in Nat PROVE Listable(n)
<1> SUFFICES ASSUME ~Listable(n) PROVE FALSE
  OBVIOUS
<1> DEFINE Bad == {m \in Nat : ~Listable(m)}
<1>1. PICK m \in Bad : \A k \in Bad : m <= k
  BY LeastElement
<1>2. m # 0
  <2>1. Listings({}) # {}
    <3>1. Cardinality({}) = 0
      BY FS_EmptySet
    <3>2. [i \in 1..0 |-> i] \in [1..0 -> {}]
      OBVIOUS
    <3> QED
      BY <3>1, <3>2 DEF Listings
  <2>2. \A S \in SUBSET {k \in Nat : k < 0} : S = {}
    OBVIOUS
  <2>3. Listable(0)
    BY <2>1, <2>2, FS_EmptySet DEF Listable
  <2> QED
    BY <2>3
<1>3. m - 1 \in Nat /\ m - 1 \notin Bad
  BY <1>1, <1>2
<1>4. Listable(m - 1)
  BY <1>3
<1>5. Listable((m - 1) + 1)
  BY <1>3, <1>4, ListOneMore
<1>6. (m - 1) + 1 = m
  OBVIOUS
<1> QED
  BY <1>1, <1>5, <1>6

\* The list of a set of numbers contains each of them once.
InOrder(S) ==
  CHOOSE f \in [1..Cardinality(S) -> S] : \A i, j \in DOMAIN f : i < j => f[i] < f[j]

Bounded(S) == \E n \in Nat : S \subseteq {k \in Nat : k < n}

LEMMA ListedOnce ==
  ASSUME NEW S, Bounded(S)
  PROVE  /\ IsFiniteSet(S) /\ Cardinality(S) \in Nat
         /\ InOrder(S) \in [1..Cardinality(S) -> S]
         /\ \A i, j \in DOMAIN InOrder(S) : InOrder(S)[i] = InOrder(S)[j] => i = j
         /\ \A x \in S : \E i \in DOMAIN InOrder(S) : InOrder(S)[i] = x
<1> DEFINE c == Cardinality(S)
           f == InOrder(S)
<1>1. IsFiniteSet(S) /\ Listings(S) # {}
  BY AllListable DEF Listable, Bounded
<1>2. c \in Nat
  BY <1>1, FS_CardinalityType
<1>3. f \in [1..c -> S] /\ \A i, j \in DOMAIN f : i < j => f[i] < f[j]
  BY <1>1 DEF Listings, InOrder
<1> HIDE DEF f, c
<1>4. ASSUME NEW i \in DOMAIN f, NEW j \in DOMAIN f, f[i] = f[j] PROVE i = j
  <2>1. i \in 1..c /\ j \in 1..c
    BY <1>3
  <2>2. f[i] \in S /\ f[j] \in S /\ \A x \in S : x \in Int
    BY <1>3, <2>1 DEF Bounded
  <2>3. f[i] \in Int /\ f[j] \in Int
    BY <2>2
  <2>4. ~(f[i] < f[j]) /\ ~(f[j] < f[i])
    BY <1>4, <2>3
  <2>5. ~(i < j) /\ ~(j < i)
    BY <1>3, <2>4
  <2> QED
    BY <1>2, <2>1, <2>5
<1>5. f \in Injection(1..c, S) /\ IsFiniteSet(1..c) /\ Cardinality(1..c) = c
  <2>1. IsInjective(f)
    BY <1>4 DEF IsInjective
  <2>2. f \in Injection(1..c, S)
    BY <1>3, <2>1 DEF Injection
  <2> QED
    BY <1>2, <2>2, FS_Interval
<1>6. f \in Surjection(1..c, S)
  BY <1>1, <1>5, FS_Injection DEF c
<1> QED
  BY <1>1, <1>2, <1>3, <1>4, <1>6 DEF f, c, Surjection

\* What the statement does to the rows.
Upsert(rows) ==
  /\ rows # <<>> =>
       /\ DOMAIN rows = DOMAIN cities \union Seeds!Seeds
       /\ \A j \in DOMAIN rows : rows[j] = IF j \in Seeds!Seeds THEN j ELSE cities[j]
       /\ rows = [j \in DOMAIN rows |-> rows[j]]
  /\ (\A j \in DOMAIN cities : cities[j] = j) => rows # <<>>

LEMMA UpsertResult ==
  ASSUME PartsAssumption, cities = [j \in DOMAIN cities |-> cities[j]],
         NEW rows, rows = Seeds!UpsertCities
  PROVE  Upsert(rows)
<1>1. SeedCities \in 0..SeedCities /\ 1 \in 1..SeedCities
  BY DEF PartsAssumption
<1>2. rows = IF Clash(SeedCities) THEN <<>> ELSE Upserted(SeedCities)
  BY <1>1, UpsertOfCities DEF UpsertTo
<1>3. Upserted(SeedCities) # <<>>
  <2> SUFFICES ASSUME Upserted(SeedCities) = <<>> PROVE FALSE
    OBVIOUS
  <2>1. 1 \in DOMAIN Upserted(SeedCities)
    BY <1>1 DEF Upserted
  <2> QED
    BY <2>1
<1>4. (\A j \in DOMAIN cities : cities[j] = j) => ~Clash(SeedCities)
  BY DEF Clash, PartsAssumption
<1>5. ~Clash(SeedCities) =>
        /\ DOMAIN rows = DOMAIN cities \union Seeds!Seeds
        /\ \A j \in DOMAIN rows : rows[j] = IF j \in Seeds!Seeds THEN j ELSE cities[j]
        /\ rows = [j \in DOMAIN rows |-> rows[j]]
  BY <1>2 DEF Upserted, Seeds!Seeds
<1> QED
  BY <1>2, <1>3, <1>4, <1>5 DEF Upsert

-----------------------------------------------------------------------------
(* Seeding: the invariant.                                                 *)

LastCityId == SeedCities + MaxCityId   \* no greater id is ever drawn
Phases == {"off", "clear", "cities", "setval", "areas", "admin", "users", "done", "failed", "cut"}

SeedsTypes ==
  /\ seedEnv \in {"development", "production"} /\ step \in Phases
  /\ edited \in BOOLEAN /\ touched \in BOOLEAN /\ torn \in BOOLEAN /\ admin \in BOOLEAN
  /\ cities \in [DOMAIN cities -> 0..SeedCities] /\ DOMAIN cities \subseteq 1..LastCityId
  /\ lastCity \in 0..LastCityId /\ drawn \subseteq 1..LastCityId
  /\ lastUser \in Nat /\ DOMAIN users \subseteq 1..lastUser

\* What the statements of a run have left when the next one is due.
RunsProgress ==
  /\ edited => touched
  /\ step \in {"setval", "areas", "admin", "users", "done"} /\ ~edited =>
       \A i \in Seeds!Seeds : i \in DOMAIN cities /\ cities[i] = i
  /\ step \in {"admin", "users", "done"} /\ ~edited => Seeds!SeedAreas \subseteq areas
  /\ step \in {"users", "done"} => admin
  /\ step = "done" /\ seedEnv # "production" =>
       \A i \in Seeds!Seeds : \E u \in DOMAIN users : users[u] = i

\* Without edits there are the seeds' own rows only, in which no run fails.
NothingForeign ==
  ~touched =>
    /\ step # "failed" /\ drawn = {} /\ areas \subseteq Seeds!SeedAreas
    /\ \A i \in DOMAIN cities : i \in Seeds!Seeds /\ cities[i] = i

\* From the setval on the sequence is not behind, unless it was torn.
SequenceAhead ==
  step \in {"areas", "admin", "users", "done"} /\ ~torn =>
    \A id \in DOMAIN cities \union drawn : id <= lastCity

SeedsIInv ==
  /\ SeedsTypes /\ RunsProgress /\ NothingForeign /\ SequenceAhead
  /\ Seeds!SessionsKeepTheirUser

-----------------------------------------------------------------------------
(* Seeding: the steps of the script.                                       *)

LEMMA StartStep == ASSUME SeedsIInv, Seeds!Start PROVE SeedsIInv'
<1>1. SeedsTypes'
  BY DEF SeedsIInv, SeedsTypes, Seeds!Start, Seeds!places, Seeds!people, Phases
<1>2. RunsProgress' /\ NothingForeign' /\ SequenceAhead'
  BY DEF SeedsIInv, RunsProgress, NothingForeign, SequenceAhead, Seeds!Start, Seeds!places,
         Seeds!people
<1>3. Seeds!SessionsKeepTheirUser'
  BY DEF SeedsIInv, Seeds!SessionsKeepTheirUser, Seeds!Start, Seeds!people
<1> QED
  BY <1>1, <1>2, <1>3 DEF SeedsIInv

LEMMA ClearStep == ASSUME SeedsIInv, Seeds!Clear PROVE SeedsIInv'
<1>1. SeedsTypes'
  <2>1. CASE seedEnv = "production"
    BY <2>1 DEF SeedsIInv, SeedsTypes, Seeds!Clear, Seeds!histories, Phases
  <2>2. CASE seedEnv # "production"
    <3>1. DOMAIN users' = {} /\ lastUser' = 0
      BY <2>2 DEF Seeds!Clear
    <3> QED
      BY <2>2, <3>1 DEF SeedsIInv, SeedsTypes, Seeds!Clear, Seeds!histories, Phases
  <2> QED
    BY <2>1, <2>2
<1>2. RunsProgress' /\ NothingForeign' /\ SequenceAhead'
  BY DEF SeedsIInv, RunsProgress, NothingForeign, SequenceAhead, Seeds!Clear, Seeds!histories
<1>3. Seeds!SessionsKeepTheirUser'
  BY DEF SeedsIInv, Seeds!SessionsKeepTheirUser, Seeds!Clear
<1> QED
  BY <1>1, <1>2, <1>3 DEF SeedsIInv

LEMMA InsertCitiesStep == ASSUME PartsAssumption, SeedsIInv, Seeds!InsertCities PROVE SeedsIInv'
<1>1. PICK rows : rows = Seeds!UpsertCities
  OBVIOUS
<1>2. /\ rows # <<>> =>
           /\ DOMAIN rows = DOMAIN cities \union Seeds!Seeds
           /\ \A j \in DOMAIN rows : rows[j] = IF j \in Seeds!Seeds THEN j ELSE cities[j]
           /\ rows = [j \in DOMAIN rows |-> rows[j]]
      /\ (\A j \in DOMAIN cities : cities[j] = j) => rows # <<>>
  <2>1. cities = [j \in DOMAIN cities |-> cities[j]]
    BY DEF SeedsIInv, SeedsTypes
  <2>2. Upsert(rows)
    BY <1>1, <2>1, UpsertResult
  <2> QED
    BY <2>2 DEF Upsert
<1>3. /\ step = "cities" /\ (rows = <<>> => step' = "failed" /\ cities' = cities)
      /\ rows # <<>> => step' = "setval" /\ cities' = rows
      /\ UNCHANGED <<seedEnv, lastCity, drawn, areas, users, lastUser, admin, sessions,
                     edited, touched, torn>>
  BY <1>1 DEF Seeds!InsertCities, Seeds!people, Seeds!histories
<1>4. CASE rows = <<>>
  <2>1. SeedsTypes' /\ RunsProgress' /\ SequenceAhead'
    BY <1>3, <1>4 DEF SeedsIInv, SeedsTypes, RunsProgress, SequenceAhead, Phases
  <2>2. NothingForeign'
    BY <1>2, <1>3, <1>4 DEF SeedsIInv, NothingForeign
  <2>3. Seeds!SessionsKeepTheirUser'
    BY <1>3 DEF SeedsIInv, Seeds!SessionsKeepTheirUser
  <2> QED
    BY <2>1, <2>2, <2>3 DEF SeedsIInv
<1>5. CASE rows # <<>>
  <2>1. SeedsTypes'
    <3>1. rows \in [DOMAIN rows -> 0..SeedCities] /\ DOMAIN rows \subseteq 1..LastCityId
      <4>1. SeedCities \in Nat /\ MaxCityId \in Nat
        BY DEF PartsAssumption
      <4>2. cities \in [DOMAIN cities -> 0..SeedCities] /\ DOMAIN cities \subseteq 1..LastCityId
        BY DEF SeedsIInv, SeedsTypes
      <4>3. ASSUME NEW j \in DOMAIN rows PROVE rows[j] \in 0..SeedCities
        <5>1. CASE j \in Seeds!Seeds
          <6>1. rows[j] = j
            BY <1>2, <1>5, <5>1
          <6> QED
            BY <4>1, <5>1, <6>1 DEF Seeds!Seeds
        <5>2. CASE j \notin Seeds!Seeds
          <6>1. rows[j] = cities[j] /\ j \in DOMAIN cities
            BY <1>2, <1>5, <5>2
          <6> QED
            BY <4>2, <6>1
        <5> QED
          BY <5>1, <5>2
      <4>4. Seeds!Seeds \subseteq 1..LastCityId
        BY <4>1 DEF Seeds!Seeds, LastCityId
      <4> QED
        BY <1>2, <1>5, <4>2, <4>3, <4>4
    <3> QED
      BY <1>3, <1>5, <3>1 DEF SeedsIInv, SeedsTypes, Phases
  <2>2. RunsProgress'
    BY <1>2, <1>3, <1>5 DEF SeedsIInv, RunsProgress, Seeds!SeedAreas, Seeds!Seeds
  <2>3. NothingForeign' /\ SequenceAhead'
    BY <1>2, <1>3, <1>5 DEF SeedsIInv, NothingForeign, SequenceAhead, Seeds!Seeds, Seeds!SeedAreas
  <2>4. Seeds!SessionsKeepTheirUser'
    BY <1>3 DEF SeedsIInv, Seeds!SessionsKeepTheirUser
  <2> QED
    BY <2>1, <2>2, <2>3, <2>4 DEF SeedsIInv
<1> QED
  BY <1>4, <1>5

LEMMA SetSequenceStep == ASSUME PartsAssumption, SeedsIInv, Seeds!SetSequence PROVE SeedsIInv'
<1> DEFINE ids == DOMAIN cities
<1>1. ids \in SUBSET (0..LastCityId) /\ LastCityId \in Nat /\ lastCity \in 0..LastCityId
  BY DEF SeedsIInv, SeedsTypes, LastCityId, PartsAssumption
<1>2. /\ cities = <<>> => ids = {} /\ lastCity' = lastCity
      /\ cities # <<>> => lastCity' = Max(ids)
  BY DEF Seeds!SetSequence, Seeds!Max, Max
<1>3. ASSUME ids = {} PROVE cities = <<>>
  <2>1. cities \in [{} -> 0..SeedCities]
    BY <1>3 DEF SeedsIInv, SeedsTypes
  <2>2. {} = 1..0
    OBVIOUS
  <2>3. cities \in Seq(0..SeedCities) /\ Len(cities) = 0
    BY <2>1, <2>2
  <2> QED
    BY <2>3, EmptySeq
<1>9. torn' = (drawn # {})
  BY Zenon DEF Seeds!SetSequence
<1> HIDE DEF ids
<1>4. lastCity' \in 0..LastCityId /\ \A k \in ids : k <= lastCity'
  <2>1. CASE cities = <<>>
    BY <1>1, <1>2, <2>1
  <2>2. CASE cities # <<>>
    BY <1>1, <1>2, <1>3, <2>2, GreatestElement
  <2> QED
    BY <2>1, <2>2
<1>5. SeedsTypes'
  <2>1. torn' \in BOOLEAN
    BY <1>9
  <2> QED
    BY <1>4, <2>1 DEF SeedsIInv, SeedsTypes, Seeds!SetSequence, Seeds!people, Phases
<1>6. RunsProgress' /\ NothingForeign'
  BY DEF SeedsIInv, RunsProgress, NothingForeign, Seeds!SetSequence, Seeds!people
<1>7. SequenceAhead'
  <2>1. ~torn' => drawn' = {}
    BY <1>9 DEF Seeds!SetSequence
  <2> QED
    BY <1>4, <2>1 DEF SequenceAhead, Seeds!SetSequence, ids
<1>8. Seeds!SessionsKeepTheirUser'
  BY DEF SeedsIInv, Seeds!SessionsKeepTheirUser, Seeds!SetSequence, Seeds!people
<1> QED
  BY <1>5, <1>6, <1>7, <1>8 DEF SeedsIInv

LEMMA InsertAreasStep == ASSUME SeedsIInv, Seeds!InsertAreas PROVE SeedsIInv'
<1>1. /\ step = "areas" /\ step' \in {"failed", "admin"}
      /\ UNCHANGED <<seedEnv, cities, lastCity, drawn, users, lastUser, admin, sessions,
                     edited, touched, torn>>
      /\ step' = "admin" =>
           Seeds!SeedAreas \subseteq areas' /\ areas' \subseteq areas \union Seeds!SeedAreas
      /\ step' = "failed" => areas' = areas
  BY DEF Seeds!InsertAreas, Seeds!people, Seeds!histories
<1>2. SeedsTypes' /\ RunsProgress' /\ SequenceAhead'
  BY <1>1 DEF SeedsIInv, SeedsTypes, RunsProgress, SequenceAhead, Phases
<1>3. NothingForeign'
  <2>1. ASSUME ~touched PROVE step' = "admin"
    <3>1. areas \subseteq Seeds!SeedAreas /\ Seeds!Seeds \subseteq DOMAIN cities
      BY <1>1, <2>1 DEF SeedsIInv, NothingForeign, RunsProgress
    <3>2. ~ \E a \in areas, s \in Seeds!SeedAreas : a.city = s.city /\ a.ar = s.ar /\ a.en # s.en
      BY <3>1 DEF Seeds!SeedAreas
    <3> QED
      BY <3>1, <3>2 DEF Seeds!InsertAreas
  <2> QED
    BY <1>1, <2>1 DEF SeedsIInv, NothingForeign
<1>4. Seeds!SessionsKeepTheirUser'
  BY <1>1 DEF SeedsIInv, Seeds!SessionsKeepTheirUser
<1> QED
  BY <1>2, <1>3, <1>4 DEF SeedsIInv

LEMMA InsertAdminStep == ASSUME SeedsIInv, Seeds!InsertAdmin PROVE SeedsIInv'
<1>1. SeedsTypes'
  BY DEF SeedsIInv, SeedsTypes, Seeds!InsertAdmin, Seeds!places, Seeds!histories, Phases
<1>2. RunsProgress' /\ NothingForeign' /\ SequenceAhead'
  BY DEF SeedsIInv, RunsProgress, NothingForeign, SequenceAhead, Seeds!InsertAdmin, Seeds!places,
         Seeds!histories
<1>3. Seeds!SessionsKeepTheirUser'
  BY DEF SeedsIInv, Seeds!SessionsKeepTheirUser, Seeds!InsertAdmin
<1> QED
  BY <1>1, <1>2, <1>3 DEF SeedsIInv

LEMMA InsertUsersStep == ASSUME PartsAssumption, SeedsIInv, Seeds!InsertUsers PROVE SeedsIInv'
<1>1. /\ step = "users" /\ step' \in {"failed", "done"}
      /\ UNCHANGED <<seedEnv, cities, lastCity, drawn, areas, admin, sessions, edited, touched, torn>>
      /\ step' = "failed" => ~(Seeds!Seeds \subseteq DOMAIN cities) /\ UNCHANGED <<users, lastUser>>
  BY DEF Seeds!InsertUsers, Seeds!places, Seeds!histories
<1>2. ASSUME step' = "done"
      PROVE  /\ lastUser' = lastUser + SeedCities
             /\ DOMAIN users' = DOMAIN users \union {lastUser + i : i \in Seeds!Seeds}
             /\ \A u \in DOMAIN users : users'[u] = users[u]
             /\ \A i \in Seeds!Seeds : users'[lastUser + i] = i
  <2>1. /\ lastUser' = lastUser + SeedCities
        /\ users' = [u \in DOMAIN users \union {lastUser + i : i \in Seeds!Seeds} |->
                       IF u \in DOMAIN users THEN users[u] ELSE u - lastUser]
    BY <1>2 DEF Seeds!InsertUsers
  <2>2. \A i \in Seeds!Seeds : lastUser + i \notin DOMAIN users /\ (lastUser + i) - lastUser = i
    BY DEF SeedsIInv, SeedsTypes, Seeds!Seeds, PartsAssumption
  <2> QED
    BY <2>1, <2>2
<1>3. lastUser' \in Nat /\ DOMAIN users' \subseteq 1..lastUser'
  BY <1>1, <1>2 DEF SeedsIInv, SeedsTypes, Seeds!Seeds, PartsAssumption
<1>4. SeedsTypes'
  BY <1>1, <1>3 DEF SeedsIInv, SeedsTypes, Phases
<1>5. RunsProgress' /\ SequenceAhead'
  BY <1>1, <1>2 DEF SeedsIInv, RunsProgress, SequenceAhead
<1>6. NothingForeign'
  BY <1>1 DEF SeedsIInv, NothingForeign, RunsProgress
<1>7. Seeds!SessionsKeepTheirUser'
  BY <1>1, <1>2 DEF SeedsIInv, Seeds!SessionsKeepTheirUser
<1> QED
  BY <1>4, <1>5, <1>6, <1>7 DEF SeedsIInv

LEMMA CutStep == ASSUME SeedsIInv, Seeds!Cut PROVE SeedsIInv'
<1>1. SeedsTypes'
  BY DEF SeedsIInv, SeedsTypes, Seeds!Cut, Seeds!places, Seeds!people, Seeds!histories, Phases
<1>2. RunsProgress' /\ NothingForeign' /\ SequenceAhead'
  BY DEF SeedsIInv, RunsProgress, NothingForeign, SequenceAhead, Seeds!Cut, Seeds!places,
         Seeds!people, Seeds!histories
<1>3. Seeds!SessionsKeepTheirUser'
  BY DEF SeedsIInv, Seeds!SessionsKeepTheirUser, Seeds!Cut, Seeds!people
<1> QED
  BY <1>1, <1>2, <1>3 DEF SeedsIInv

-----------------------------------------------------------------------------
(* Seeding: the steps of the program, and the invariant of all.            *)

\* An edit makes the run one that was edited: what remains is the types, the
\* sequence and the sessions.
LEMMA EditsExcuse ==
  ASSUME SeedsIInv, Seeds!Edits, step' = step, seedEnv' = seedEnv, UNCHANGED Seeds!people
  PROVE  /\ RunsProgress' /\ NothingForeign' /\ Seeds!SessionsKeepTheirUser'
         /\ torn' = torn
<1>1. edited' = TRUE /\ touched' = TRUE /\ torn' = torn
  BY DEF Seeds!Edits
<1>2. RunsProgress' /\ NothingForeign'
  BY <1>1 DEF SeedsIInv, RunsProgress, NothingForeign, Seeds!people
<1>3. Seeds!SessionsKeepTheirUser'
  BY DEF SeedsIInv, Seeds!SessionsKeepTheirUser, Seeds!people
<1> QED
  BY <1>1, <1>2, <1>3

LEMMA DrawCityIdStep == ASSUME PartsAssumption, SeedsIInv, Seeds!DrawCityId PROVE SeedsIInv'
<1>1. RunsProgress' /\ NothingForeign' /\ Seeds!SessionsKeepTheirUser' /\ torn' = torn
  BY EditsExcuse DEF Seeds!DrawCityId
<1>2. lastCity' \in 0..LastCityId /\ drawn' \subseteq 1..LastCityId
  BY DEF SeedsIInv, SeedsTypes, Seeds!DrawCityId, LastCityId, PartsAssumption
<1>3. SeedsTypes'
  BY <1>2 DEF SeedsIInv, SeedsTypes, Seeds!DrawCityId, Seeds!Edits, Seeds!people
<1>4. SequenceAhead'
  <2>1. lastCity \in Nat /\ \A id \in DOMAIN cities : id \in Nat
    BY DEF SeedsIInv, SeedsTypes, LastCityId, PartsAssumption
  <2> QED
    BY <1>1, <2>1 DEF SeedsIInv, SequenceAhead, Seeds!DrawCityId
<1> QED
  BY <1>1, <1>3, <1>4 DEF SeedsIInv

LEMMA CommitCityStep == ASSUME PartsAssumption, SeedsIInv, Seeds!CommitCity PROVE SeedsIInv'
<1>1. RunsProgress' /\ NothingForeign' /\ Seeds!SessionsKeepTheirUser' /\ torn' = torn
  BY EditsExcuse DEF Seeds!CommitCity
<1>2. PICK id \in drawn, name \in Seeds!CityNames :
        \/ cities' = cities
        \/ cities' = [j \in DOMAIN cities \union {id} |-> IF j = id THEN name ELSE cities[j]]
  BY DEF Seeds!CommitCity
<1>3. name \in 0..SeedCities
  BY DEF Seeds!CityNames, Seeds!Seeds, PartsAssumption
<1>4. /\ cities' \in [DOMAIN cities' -> 0..SeedCities]
      /\ DOMAIN cities' \subseteq DOMAIN cities \union drawn
  BY <1>2, <1>3 DEF SeedsIInv, SeedsTypes
<1>5. SeedsTypes'
  BY <1>4 DEF SeedsIInv, SeedsTypes, Seeds!CommitCity, Seeds!Edits, Seeds!people
<1>6. SequenceAhead'
  BY <1>1, <1>4 DEF SeedsIInv, SequenceAhead, Seeds!CommitCity
<1> QED
  BY <1>1, <1>5, <1>6 DEF SeedsIInv

LEMMA RenameCityStep == ASSUME PartsAssumption, SeedsIInv, Seeds!RenameCity PROVE SeedsIInv'
<1>1. RunsProgress' /\ NothingForeign' /\ Seeds!SessionsKeepTheirUser' /\ torn' = torn
  BY EditsExcuse DEF Seeds!RenameCity
<1>2. PICK i \in DOMAIN cities, name \in Seeds!CityNames : cities' = [cities EXCEPT ![i] = name]
  BY DEF Seeds!RenameCity
<1>3. name \in 0..SeedCities
  BY DEF Seeds!CityNames, Seeds!Seeds, PartsAssumption
<1>4. cities' \in [DOMAIN cities' -> 0..SeedCities] /\ DOMAIN cities' = DOMAIN cities
  BY <1>2, <1>3 DEF SeedsIInv, SeedsTypes
<1>5. SeedsTypes'
  BY <1>4 DEF SeedsIInv, SeedsTypes, Seeds!RenameCity, Seeds!Edits, Seeds!people
<1>6. SequenceAhead'
  BY <1>1, <1>4 DEF SeedsIInv, SequenceAhead, Seeds!RenameCity
<1> QED
  BY <1>1, <1>5, <1>6 DEF SeedsIInv

LEMMA DeleteCityStep == ASSUME SeedsIInv, Seeds!DeleteCity PROVE SeedsIInv'
<1>1. RunsProgress' /\ NothingForeign' /\ Seeds!SessionsKeepTheirUser' /\ torn' = torn
  BY EditsExcuse DEF Seeds!DeleteCity
<1>2. PICK i \in DOMAIN cities : cities' = [j \in DOMAIN cities \ {i} |-> cities[j]]
  BY DEF Seeds!DeleteCity
<1>3. /\ cities' \in [DOMAIN cities' -> 0..SeedCities]
      /\ DOMAIN cities' \subseteq DOMAIN cities
  BY <1>2 DEF SeedsIInv, SeedsTypes
<1>4. SeedsTypes'
  BY <1>3 DEF SeedsIInv, SeedsTypes, Seeds!DeleteCity, Seeds!Edits, Seeds!people
<1>5. SequenceAhead'
  BY <1>1, <1>3 DEF SeedsIInv, SequenceAhead, Seeds!DeleteCity
<1> QED
  BY <1>1, <1>4, <1>5 DEF SeedsIInv

LEMMA RenameAreaStep == ASSUME SeedsIInv, Seeds!RenameArea PROVE SeedsIInv'
<1>1. RunsProgress' /\ NothingForeign' /\ Seeds!SessionsKeepTheirUser' /\ torn' = torn
  BY EditsExcuse DEF Seeds!RenameArea
<1>2. SeedsTypes' /\ SequenceAhead'
  BY <1>1 DEF SeedsIInv, SeedsTypes, SequenceAhead, Seeds!RenameArea, Seeds!Edits, Seeds!people
<1> QED
  BY <1>1, <1>2 DEF SeedsIInv

LEMMA SignUpStep == ASSUME SeedsIInv, Seeds!SignUp PROVE SeedsIInv'
<1>1. PICK phone \in Numbers :
        /\ users' = [u \in DOMAIN users \union {lastUser + 1} |->
                       IF u \in DOMAIN users THEN users[u] ELSE phone]
        /\ sessions' = sessions \union {[user |-> lastUser + 1, phone |-> phone]}
  BY DEF Seeds!SignUp
<1>2. /\ lastUser' = lastUser + 1
      /\ UNCHANGED <<seedEnv, step, cities, lastCity, drawn, areas, admin, edited, touched, torn>>
  BY DEF Seeds!SignUp, Seeds!places, Seeds!histories
<1>3. lastUser \in Nat /\ lastUser + 1 \notin DOMAIN users
  BY DEF SeedsIInv, SeedsTypes
<1>4. /\ DOMAIN users' = DOMAIN users \union {lastUser + 1}
      /\ \A u \in DOMAIN users : users'[u] = users[u]
      /\ users'[lastUser + 1] = phone
  BY <1>1, <1>3
<1>5. SeedsTypes'
  <2>1. lastUser' \in Nat /\ DOMAIN users' \subseteq 1..lastUser'
    BY <1>2, <1>3, <1>4 DEF SeedsIInv, SeedsTypes
  <2> QED
    BY <1>2, <2>1 DEF SeedsIInv, SeedsTypes
<1>6. RunsProgress' /\ NothingForeign' /\ SequenceAhead'
  BY <1>2, <1>4 DEF SeedsIInv, RunsProgress, NothingForeign, SequenceAhead, Seeds!SeedAreas
<1>7. Seeds!SessionsKeepTheirUser'
  BY <1>1, <1>2, <1>4 DEF SeedsIInv, Seeds!SessionsKeepTheirUser
<1> QED
  BY <1>5, <1>6, <1>7 DEF SeedsIInv

\* The invariant behind what the seed script promises, for every number of seeds
\* and of ids, wherever the script is cut and however often it runs again.
THEOREM SeedingInvariance == Seeds!Spec => []SeedsIInv
<1>1. Seeds!Init => SeedsIInv
  <2> SUFFICES ASSUME Seeds!Init PROVE SeedsIInv
    OBVIOUS
  <2>1. DOMAIN cities = {} /\ DOMAIN users = {}
    BY DEF Seeds!Init
  <2>2. cities = [j \in DOMAIN cities |-> cities[j]]
    BY DEF Seeds!Init
  <2>3. 0 \in 0..LastCityId
    BY PartsAssumption DEF PartsAssumption, LastCityId
  <2>4. SeedsTypes
    <3>1. cities \in [DOMAIN cities -> 0..SeedCities]
      BY <2>1, <2>2
    <3> QED
      BY <2>1, <2>3, <3>1 DEF Seeds!Init, SeedsTypes, Phases
  <2>5. RunsProgress /\ NothingForeign /\ SequenceAhead /\ Seeds!SessionsKeepTheirUser
    BY <2>1 DEF Seeds!Init, RunsProgress, NothingForeign, SequenceAhead,
         Seeds!SessionsKeepTheirUser
  <2> QED
    BY <2>4, <2>5 DEF SeedsIInv
<1>2. SeedsIInv /\ [Seeds!Next]_(Seeds!vars) => SeedsIInv'
  <2> SUFFICES ASSUME SeedsIInv, [Seeds!Next]_(Seeds!vars) PROVE SeedsIInv'
    OBVIOUS
  <2>1. CASE Seeds!Start
    BY <2>1, StartStep
  <2>2. CASE Seeds!Clear
    BY <2>2, ClearStep
  <2>3. CASE Seeds!InsertCities
    BY <2>3, PartsAssumption, InsertCitiesStep
  <2>4. CASE Seeds!SetSequence
    BY <2>4, PartsAssumption, SetSequenceStep
  <2>5. CASE Seeds!InsertAreas
    BY <2>5, InsertAreasStep
  <2>6. CASE Seeds!InsertAdmin
    BY <2>6, InsertAdminStep
  <2>7. CASE Seeds!InsertUsers
    BY <2>7, PartsAssumption, InsertUsersStep
  <2>8. CASE Seeds!Cut
    BY <2>8, CutStep
  <2>9. CASE Seeds!DrawCityId
    BY <2>9, PartsAssumption, DrawCityIdStep
  <2>10. CASE Seeds!CommitCity
    BY <2>10, PartsAssumption, CommitCityStep
  <2>11. CASE Seeds!RenameCity
    BY <2>11, PartsAssumption, RenameCityStep
  <2>12. CASE Seeds!DeleteCity
    BY <2>12, DeleteCityStep
  <2>13. CASE Seeds!RenameArea
    BY <2>13, RenameAreaStep
  <2>14. CASE Seeds!SignUp
    BY <2>14, SignUpStep
  <2>15. CASE UNCHANGED Seeds!vars
    BY <2>15 DEF Seeds!vars, SeedsIInv, SeedsTypes, RunsProgress, NothingForeign, SequenceAhead,
         Seeds!SessionsKeepTheirUser, Seeds!SeedAreas, Seeds!Seeds
  <2> QED
    BY <2>1, <2>2, <2>3, <2>4, <2>5, <2>6, <2>7, <2>8, <2>9, <2>10, <2>11, <2>12, <2>13, <2>14,
       <2>15 DEF Seeds!Next
<1> QED
  BY <1>1, <1>2, PTL DEF Seeds!Spec

\* SeedsHonest: the seed script can be run again, leaves the sequence of city ids
\* ahead of them, and in production gives no session to another user.
THEOREM SeedsAreHonest == PartsSpec => []SeedsHonest
<1>1. SeedsIInv => SeedsHonest
  BY DEF SeedsIInv, SeedsHonest, RunsProgress, NothingForeign, SequenceAhead,
         Seeds!SeedingIsIdempotent, Seeds!CityIdsStayFree
<1> QED
  BY <1>1, PartsRefined, SeedingInvariance, PTL

-----------------------------------------------------------------------------
(* Local time.                                                             *)

\* What is named is what the last request resolved to.
TimeIInv ==
  /\ zone \in Time!Zones /\ wall \in -Span..Span
  /\ named = Time!LocalTimeToUtc(zone, wall) /\ day = Time!DayBounds(zone, wall)

\* The instants that show a time, when the clock jumps from one offset to the
\* other: one on each side of the jump at most.
LEMMA ShownAt ==
  ASSUME PartsAssumption, zone \in Time!Zones, NEW w \in -(Span + Day)..(Span + Day)
  PROVE  /\ zone.before \in -MaxOffset..MaxOffset /\ zone.after \in -MaxOffset..MaxOffset
         /\ zone.at = 0 /\ zone.after - zone.before \in -MaxJump..MaxJump
         /\ \A t : t \in Time!Shows(w) <=>
              \/ t = w - zone.before /\ w < zone.before
              \/ t = w - zone.after /\ w >= zone.after
<1>1. /\ zone.before \in -MaxOffset..MaxOffset /\ zone.after \in -MaxOffset..MaxOffset
      /\ zone.at = 0 /\ zone.after - zone.before \in -MaxJump..MaxJump
  BY DEF Time!Zones
<1>2. {MaxOffset, Day, Span} \subseteq Nat
  BY DEF PartsAssumption
<1>3. ASSUME NEW t
      PROVE  t \in Time!Shows(w) <=> \/ t = w - zone.before /\ w < zone.before
                                     \/ t = w - zone.after /\ w >= zone.after
  BY <1>1, <1>2 DEF Time!Shows, Time!Instants, Time!WallAt, Time!Offset
<1> QED
  BY <1>1, <1>3

\* Two corrections are enough: a time that is shown is resolved to where it is.
LEMMA TwoCorrections ==
  ASSUME PartsAssumption, zone \in Time!Zones, NEW w \in -(Span + Day)..(Span + Day)
  PROVE  /\ Time!Shows(w) # {} => Time!LocalTimeToUtc(zone, w) \in Time!Shows(w)
         /\ Time!Shows(w) = {} =>
              Time!WallAt(zone, Time!LocalTimeToUtc(zone, w)) - w \in -MaxJump..MaxJump
<1> DEFINE b == zone.before   a == zone.after   u == Time!LocalTimeToUtc(zone, w)
<1>1. /\ b \in Int /\ a \in Int /\ w \in Int /\ a - b \in -MaxJump..MaxJump /\ zone.at = 0
      /\ MaxJump \in Nat
      /\ \A t : t \in Time!Shows(w) <=> (t = w - b /\ w < b) \/ (t = w - a /\ w >= a)
  <2>1. {MaxOffset, MaxJump, Day, Span} \subseteq Nat
    BY DEF PartsAssumption
  <2> QED
    BY <2>1, ShownAt
<1>2. /\ w < 0 /\ w < b => u = w - b
      /\ w < 0 /\ w >= b => u = w - a
      /\ w >= 0 /\ w < a => u = w - b
      /\ w >= 0 /\ w >= a => u = w - a
  BY <1>1 DEF Time!LocalTimeToUtc, Time!Offset
<1>3. u \in Int
  BY <1>1, <1>2
<1>4. Time!WallAt(zone, u) = IF u < 0 THEN u + b ELSE u + a
  BY <1>1 DEF Time!WallAt, Time!Offset
<1> HIDE DEF b, a, u
<1>5. ASSUME NEW t \in Time!Shows(w) PROVE u \in Time!Shows(w)
  BY <1>1, <1>2, <1>5
<1>6. ASSUME Time!Shows(w) = {} PROVE Time!WallAt(zone, u) - w \in -MaxJump..MaxJump
  <2>1. w - b \notin Time!Shows(w) /\ w - a \notin Time!Shows(w)
    BY <1>6
  <2>2. w >= b /\ w < a
    BY <1>1, <2>1
  <2> QED
    BY <1>1, <1>2, <1>3, <1>4, <2>2
<1> QED
  BY <1>5, <1>6 DEF u

\* A time that is shown never or twice is resolved to the far side of the transition
\* east of UTC, to the near side west of it.
LEMMA SideOfTransition ==
  ASSUME PartsAssumption, zone \in Time!Zones, NEW w \in -Span..Span,
         \A t \in Time!Instants : Time!Shows(w) # {t}
  PROVE  /\ Time!East => Time!LocalTimeToUtc(zone, w) >= 0
         /\ Time!West => Time!LocalTimeToUtc(zone, w) < 0
<1> DEFINE b == zone.before   a == zone.after
<1>1. {MaxOffset, MaxJump, Day, Span} \subseteq Nat
  BY DEF PartsAssumption
<1>2. /\ b \in -MaxOffset..MaxOffset /\ a \in -MaxOffset..MaxOffset /\ zone.at = 0
      /\ \A t : t \in Time!Shows(w) <=> (t = w - b /\ w < b) \/ (t = w - a /\ w >= a)
  <2>1. w \in -(Span + Day)..(Span + Day)
    BY <1>1
  <2> QED
    BY <2>1, ShownAt
<1>3. b \in Int /\ a \in Int /\ w \in Int
  BY <1>1, <1>2
<1>4. (w < b /\ w >= a) \/ (w >= b /\ w < a)
  <2>1. w - b \in Time!Instants /\ w - a \in Time!Instants
    BY <1>1, <1>2 DEF Time!Instants
  <2>2. CASE w < b /\ w < a
    <3>1. Time!Shows(w) = {w - b}
      BY <1>2, <1>3, <2>2
    <3> QED
      BY <2>1, <3>1
  <2>3. CASE w >= b /\ w >= a
    <3>1. Time!Shows(w) = {w - a}
      BY <1>2, <1>3, <2>3
    <3> QED
      BY <2>1, <3>1
  <2> QED
    BY <1>3, <2>2, <2>3
<1>5. /\ w < 0 /\ w < b => Time!LocalTimeToUtc(zone, w) = w - b
      /\ w < 0 /\ w >= b => Time!LocalTimeToUtc(zone, w) = w - a
      /\ w >= 0 /\ w < a => Time!LocalTimeToUtc(zone, w) = w - b
      /\ w >= 0 /\ w >= a => Time!LocalTimeToUtc(zone, w) = w - a
  BY <1>2, <1>3 DEF Time!LocalTimeToUtc, Time!Offset
<1> QED
  BY <1>3, <1>4, <1>5 DEF Time!East, Time!West

\* A day whose midnights the clock shows once each is the instants that show it.
LEMMA WholeDay ==
  ASSUME PartsAssumption, zone \in Time!Zones, NEW w \in -Span..Span,
         NEW first, Time!Shows(w) = {first}, NEW next, Time!Shows(w + Day) = {next}
  PROVE  first..(next - 1) = {t \in Time!Instants : Time!WallAt(zone, t) \in w..(w + Day - 1)}
<1> DEFINE b == zone.before   a == zone.after
<1>1. {MaxOffset, MaxJump, Day, Span} \subseteq Nat
  BY DEF PartsAssumption
<1>2. w \in -(Span + Day)..(Span + Day) /\ w + Day \in -(Span + Day)..(Span + Day)
  BY <1>1
<1>3. /\ b \in -MaxOffset..MaxOffset /\ a \in -MaxOffset..MaxOffset /\ zone.at = 0
      /\ \A t : t \in Time!Shows(w) <=> (t = w - b /\ w < b) \/ (t = w - a /\ w >= a)
      /\ \A t : t \in Time!Shows(w + Day) <=>
           (t = w + Day - b /\ w + Day < b) \/ (t = w + Day - a /\ w + Day >= a)
  <2>1. /\ b \in -MaxOffset..MaxOffset /\ a \in -MaxOffset..MaxOffset /\ zone.at = 0
        /\ \A t : t \in Time!Shows(w) <=> (t = w - b /\ w < b) \/ (t = w - a /\ w >= a)
    BY <1>2, ShownAt
  <2>2. PICK v \in -(Span + Day)..(Span + Day) : v = w + Day
    BY <1>2
  <2>3. \A t : t \in Time!Shows(v) <=> (t = v - b /\ v < b) \/ (t = v - a /\ v >= a)
    BY <2>2, ShownAt
  <2> QED
    BY <2>1, <2>2, <2>3
<1>0. w \in Int /\ w + Day \in Int /\ a \in Int /\ b \in Int
  BY <1>1, <1>3
<1>4. \/ w < b /\ w < a /\ first = w - b
      \/ w >= b /\ w >= a /\ first = w - a
  <2>1. /\ w < b => w - b = first
        /\ w >= a => w - a = first
        /\ (w < b /\ first = w - b) \/ (w >= a /\ first = w - a)
    BY <1>0, <1>3
  <2> QED
    BY <1>0, <2>1
<1>5. \/ w + Day < b /\ w + Day < a /\ next = w + Day - b
      \/ w + Day >= b /\ w + Day >= a /\ next = w + Day - a
  <2>1. /\ w + Day < b => w + Day - b = next
        /\ w + Day >= a => w + Day - a = next
        /\ (w + Day < b /\ next = w + Day - b) \/ (w + Day >= a /\ next = w + Day - a)
    BY <1>0, <1>3
  <2> QED
    BY <1>0, <2>1
<1>6. \A t \in Int : Time!WallAt(zone, t) = IF t < 0 THEN t + b ELSE t + a
  BY <1>3 DEF Time!WallAt, Time!Offset
<1> HIDE DEF b, a
<1>7. ASSUME NEW t \in first..(next - 1)
      PROVE  t \in Time!Instants /\ Time!WallAt(zone, t) \in w..(w + Day - 1)
  <2>1. t \in Int /\ first \in Int /\ next \in Int
    BY <1>1, <1>3, <1>4, <1>5
  <2>2. t \in Time!Instants
    BY <1>1, <1>3, <1>4, <1>5, <2>1 DEF Time!Instants
  <2> QED
    BY <1>1, <1>3, <1>4, <1>5, <1>6, <2>1, <2>2
<1>8. ASSUME NEW t \in Time!Instants, Time!WallAt(zone, t) \in w..(w + Day - 1)
      PROVE  t \in first..(next - 1)
  <2>1. t \in Int /\ first \in Int /\ next \in Int
    BY <1>1, <1>3, <1>4, <1>5 DEF Time!Instants
  <2> QED
    BY <1>1, <1>3, <1>4, <1>5, <1>6, <1>8, <2>1
<1> QED
  BY <1>7, <1>8

\* LocalTimesHonest: a wall-clock time resolves to an instant that shows it, if
\* there is one, to the far side of the transition east of UTC and to the near side
\* west of it if there is none or two, and the bounds of a local day hold its
\* instants and no others, whatever the offsets and the size of the jump.
THEOREM LocalTimesAreHonest == PartsSpec => []LocalTimesHonest
<1>1. Time!Init => TimeIInv
  BY PartsAssumption DEF Time!Init, TimeIInv, Time!Zones, Time!LocalTimeToUtc, Time!DayBounds,
       Time!Offset, PartsAssumption
<1>2. TimeIInv /\ [Time!Next]_(Time!vars) => TimeIInv'
  <2>1. ASSUME TimeIInv, UNCHANGED Time!vars PROVE TimeIInv'
    BY <2>1 DEF TimeIInv, Time!vars, Time!LocalTimeToUtc, Time!DayBounds, Time!Offset
  <2>2. ASSUME Time!Next PROVE TimeIInv'
    BY <2>2 DEF Time!Next, Time!Resolve, TimeIInv
  <2> QED
    BY <2>1, <2>2
<1>3. TimeIInv => LocalTimesHonest
  <2> SUFFICES ASSUME TimeIInv
               PROVE  /\ Time!LocalTimesResolve /\ Time!TransitionsHaveASide
                      /\ Time!DayIsWhole
    BY DEF LocalTimesHonest
  <2>1. /\ wall \in -(Span + Day)..(Span + Day) /\ wall + Day \in -(Span + Day)..(Span + Day)
        /\ zone \in Time!Zones /\ wall \in -Span..Span /\ named = Time!LocalTimeToUtc(zone, wall)
    BY PartsAssumption DEF TimeIInv, PartsAssumption
  <2>2. Time!LocalTimesResolve
    BY <2>1, PartsAssumption, TwoCorrections DEF Time!LocalTimesResolve
  <2>8. Time!TransitionsHaveASide
    <3>1. zone.at = 0
      BY <2>1 DEF Time!Zones
    <3> QED
      BY <2>1, <3>1, PartsAssumption, SideOfTransition DEF Time!TransitionsHaveASide
  <2>3. ASSUME NEW first, Time!Shows(wall) = {first}, NEW next, Time!Shows(wall + Day) = {next}
        PROVE  day = {t \in Time!Instants : Time!WallAt(zone, t) \in wall..(wall + Day - 1)}
    <3>1. Time!LocalTimeToUtc(zone, wall) = first /\ Time!LocalTimeToUtc(zone, wall + Day) = next
      BY <2>1, <2>3, PartsAssumption, TwoCorrections
    <3>2. day = first..(next - 1)
      BY <3>1 DEF TimeIInv, Time!DayBounds
    <3> QED
      BY <2>1, <2>3, <3>2, PartsAssumption, WholeDay
  <2> QED
    BY <2>2, <2>3, <2>8 DEF Time!DayIsWhole
<1> QED
  BY <1>1, <1>2, <1>3, PartsRefined, PTL DEF Time!Spec

-----------------------------------------------------------------------------
(* Translations.                                                           *)

\* A verdict is that on the files as they are.
TextsIInv ==
  \/ verdict = Texts!None
  \/ verdict = [exit |-> IF Texts!Blocking THEN 1 ELSE 0, keys |-> Texts!AllKeys,
                params |-> Texts!KeyParameters]

\* AcceptedTextsServe: files that i18n:sync accepts serve every key of the
\* reference, with the placeholders of each language's text, in every language,
\* unless the reference's own file is not JSON.
THEOREM AcceptedTextsDoServe == PartsSpec => []AcceptedTextsServe
<1>1. Texts!Init => TextsIInv
  BY DEF Texts!Init, TextsIInv
<1>2. TextsIInv /\ [Texts!Next]_(Texts!vars) => TextsIInv'
  <2>1. Texts!Edit \/ Texts!BreakOrMend => TextsIInv'
    BY DEF Texts!Edit, Texts!BreakOrMend, TextsIInv, Texts!None
  <2>2. ASSUME UNCHANGED <<texts, broken>>
        PROVE  /\ Texts!Blocking' = Texts!Blocking /\ Texts!AllKeys' = Texts!AllKeys
               /\ Texts!KeyParameters' = Texts!KeyParameters
    <3>1. \A l : Texts!Has(l)' = Texts!Has(l)
      BY <2>2 DEF Texts!Has
    <3>2. \A l : Texts!Missing(l)' = Texts!Missing(l) /\ Texts!Blank(l)' = Texts!Blank(l)
      BY <2>2, <3>1 DEF Texts!Missing, Texts!Blank
    <3>3. Texts!AllKeys' = Texts!AllKeys
      BY <3>1 DEF Texts!AllKeys
    <3>4. Texts!KeyParameters' = Texts!KeyParameters
      BY <2>2, <3>1, <3>3 DEF Texts!KeyParameters
    <3> QED
      BY <3>2, <3>3, <3>4 DEF Texts!Blocking
  <2>3. Texts!Sync => TextsIInv'
    BY <2>2 DEF Texts!Sync, TextsIInv
  <2>4. TextsIInv /\ UNCHANGED Texts!vars => TextsIInv'
    BY <2>2 DEF Texts!vars, TextsIInv, Texts!None
  <2> QED
    BY <2>1, <2>3, <2>4 DEF Texts!Next
<1>3. TextsIInv => AcceptedTextsServe
  <2> SUFFICES ASSUME TextsIInv, verdict.exit = 0,
                      NEW k \in Texts!Keys, NEW l \in Texts!Languages,
                      texts[Reference][k] # "absent", <<Reference, k[1]>> \notin broken
               PROVE  /\ k \in verdict.keys
                      /\ texts[l][k] \notin {"absent", "blank"} /\ <<l, k[1]>> \notin broken
                      /\ Texts!Placeholders(texts[l][k]) \subseteq verdict.params[k]
    BY DEF AcceptedTextsServe, Texts!AcceptedTextsServe
  <2>1. /\ ~Texts!Blocking /\ verdict.keys = Texts!AllKeys
        /\ verdict.params = Texts!KeyParameters
    BY DEF TextsIInv, Texts!None
  <2>2. k \in Texts!Has(l) /\ k \notin Texts!Blank(l)
    <3>1. k \in Texts!Has(Reference)
      BY DEF Texts!Has
    <3> QED
      BY <2>1, <3>1 DEF Texts!Blocking, Texts!Missing
  <2>3. k \in Texts!AllKeys
    BY <2>2 DEF Texts!AllKeys
  <2>4. texts[l][k] \notin {"absent", "blank"} /\ <<l, k[1]>> \notin broken
    BY <2>2 DEF Texts!Has, Texts!Blank
  <2>5. Texts!Placeholders(texts[l][k]) \subseteq Texts!KeyParameters[k]
    BY <2>2, <2>3 DEF Texts!KeyParameters
  <2> QED
    BY <2>1, <2>3, <2>4, <2>5
<1> QED
  BY <1>1, <1>2, <1>3, PartsRefined, PTL DEF Texts!Spec

-----------------------------------------------------------------------------
(* Photos.                                                                 *)

\* A file that was encoded once is a JPEG by all it says, and the quality goes down
\* by a step only from above the least.
PhotosIInv ==
  /\ at \in {"none", "pipe", "encode", "service", "store", "end"} /\ round \in {1, 2}
  /\ at # "end" => answer = 0
  /\ quality = -1 \/ (quality \in Int /\ quality > MIN_QUALITY - STEP)
  /\ at = "pipe" => quality = -1 /\ round = 1
  /\ at = "encode" /\ quality # -1 => quality > MIN_QUALITY
  /\ at \in {"service", "store"} \/ (at = "encode" /\ round = 2) =>
       /\ file.legal /\ file.ext = "jpeg" /\ file.bytes = "jpeg" /\ file.mime = "jpeg"
       /\ file.size \in 1..3
  /\ at \in {"service", "store"} =>
       /\ file.size > 1 => quality <= MIN_QUALITY
       /\ quality > MIN_QUALITY - STEP
  /\ at = "encode" => file.legal
  /\ answer = 201 => file.bytes = "jpeg" /\ file.mime = "jpeg" /\ file.ext = "jpeg"
  /\ answer = 500 => \/ quality = -1 /\ file.size > 2
                     \/ quality # -1 /\ file.bytes = "jpeg" /\ file.ext = "jpeg"
  /\ answer \in {0, 201, 422, 500}

LEMMA EncodeStep == ASSUME PartsAssumption, PhotosIInv, Files!Encode PROVE PhotosIInv'
<1>1. PICK size \in 1..3 :
        IF Files!Lower(size, quality')
          THEN UNCHANGED <<at, file>>
          ELSE /\ file' = Files!Reencoded(size)
               /\ at' = IF round = 1 THEN "service" ELSE "store"
  BY DEF Files!Encode
<1>2. /\ at = "encode" /\ UNCHANGED <<round, answer>>
      /\ quality' = IF quality = -1 THEN QUALITY ELSE quality - STEP
  BY DEF Files!Encode
<1>3. /\ quality' \in Int /\ quality' > MIN_QUALITY - STEP
      /\ MIN_QUALITY \in Nat /\ STEP \in Nat /\ MIN_QUALITY >= STEP
  BY <1>2 DEF PhotosIInv, PartsAssumption
<1>4. file.legal /\ answer = 0 /\ round \in {1, 2}
  BY <1>2 DEF PhotosIInv
<1>5. CASE Files!Lower(size, quality')
  BY <1>1, <1>2, <1>3, <1>4, <1>5 DEF PhotosIInv, Files!Lower
<1>6. CASE ~Files!Lower(size, quality')
  <2>1. PICK f : f = [file EXCEPT !.ext = "jpeg", !.bytes = "jpeg", !.mime = "jpeg", !.size = size]
    OBVIOUS
  <2>2. file' = f
    BY <1>1, <1>6, <2>1 DEF Files!Reencoded
  <2>3. f.legal = file.legal /\ f.ext = "jpeg" /\ f.bytes = "jpeg" /\ f.mime = "jpeg" /\ f.size = size
    BY <2>1
  <2>4. size > 1 => quality' <= MIN_QUALITY
    BY <1>3, <1>6 DEF Files!Lower
  <2> QED
    BY <1>1, <1>2, <1>3, <1>4, <1>6, <2>2, <2>3, <2>4 DEF PhotosIInv
<1> QED
  BY <1>5, <1>6

\* PhotosHonest: a stored photo is what its name and type say, the pipes and the
\* service agree but for its size, and it is compressed until it fits or the
\* quality is the least, for any policy, whether or not its floor is met in whole
\* steps.
THEOREM PhotosAreHonest == PartsSpec => []PhotosHonest
<1>1. Files!Init => PhotosIInv
  BY DEF Files!Init, PhotosIInv
<1>2. PhotosIInv /\ [Files!Next]_(Files!vars) => PhotosIInv'
  <2> SUFFICES ASSUME PhotosIInv, [Files!Next]_(Files!vars) PROVE PhotosIInv'
    OBVIOUS
  <2>1. CASE Files!Receive
    BY <2>1 DEF Files!Receive, PhotosIInv
  <2>2. CASE Files!PipeValidates
    BY <2>2 DEF Files!PipeValidates, Files!Ends, Files!Valid, PhotosIInv
  <2>3. CASE Files!ServiceValidates
    <3>1. file.legal /\ file.ext = "jpeg" /\ file.bytes = "jpeg" /\ file.mime = "jpeg"
          /\ file.size \in 1..3 /\ answer = 0
      BY <2>3 DEF Files!ServiceValidates, PhotosIInv
    <3>2. Files!TypeOk
      BY <3>1 DEF Files!TypeOk, Files!MimeOf, Files!Formats
    <3>3. ~Files!Valid => file.size > 2
      BY <3>1, <3>2 DEF Files!Valid, Files!SizeOk
    <3> QED
      BY <2>3, <3>1, <3>3 DEF Files!ServiceValidates, Files!Ends, PhotosIInv
  <2>4. CASE Files!Unreadable
    BY <2>4 DEF Files!Unreadable, Files!Ends, PhotosIInv
  <2>5. CASE Files!Encode
    BY <2>5, PartsAssumption, EncodeStep
  <2>6. CASE Files!Store
    BY <2>6, PartsAssumption DEF Files!Store, Files!Ends, PhotosIInv, PartsAssumption
  <2>7. CASE UNCHANGED Files!vars
    BY <2>7 DEF Files!vars, PhotosIInv
  <2> QED
    BY <2>1, <2>2, <2>3, <2>4, <2>5, <2>6, <2>7 DEF Files!Next
<1>3. PhotosIInv => PhotosHonest
  BY DEF PhotosIInv, PhotosHonest, Files!StoredIsWhatItSays, Files!ShrunkAsFarAsAllowed,
         Files!MimeOf, Files!Formats
<1> QED
  BY <1>1, <1>2, <1>3, PartsRefined, PTL DEF Files!Spec

-----------------------------------------------------------------------------
(* What is let in from outside: phone numbers and settings.                 *)

\* A number is kept in one spelling, whichever it came in.
LEMMA OneSpelling ==
  ASSUME NEW n \in Phone!Spellings
  PROVE  IF n.rest \in Subscribers /\ n.prefix \in {"0", "+963", "00963"}
           THEN Phone!Valid(Phone!Normalized(n)) /\
                Phone!Normalized(n) = [prefix |-> "+963", rest |-> n.rest]
           ELSE ~Phone!Valid(Phone!Normalized(n))
<1>1. n = [prefix |-> n.prefix, rest |-> n.rest] /\ n.prefix \in Phone!Prefixes
  BY DEF Phone!Spellings
<1>2. CASE n.prefix \in {"0", "00963"}
  <2>1. PICK m : m = [n EXCEPT !.prefix = "+963"]
    OBVIOUS
  <2>2. m = [prefix |-> "+963", rest |-> n.rest]
    BY <1>1, <2>1
  <2>3. Phone!Normalized(n) = [prefix |-> "+963", rest |-> n.rest]
    BY <1>2, <2>1, <2>2 DEF Phone!Normalized
  <2> QED
    BY <1>2, <2>3 DEF Phone!Valid
<1>3. CASE n.prefix \notin {"0", "00963"}
  BY <1>1, <1>3 DEF Phone!Normalized, Phone!Valid, Phone!Prefixes
<1> QED
  BY <1>2, <1>3

\* OneSpellingPerSubscriber: of every subscriber the three spellings that the
\* decorator documents are let in and kept as one, and nothing else is let in.
THEOREM SpellingsAreOne == Phone!Spec => []Phone!OneSpellingPerSubscriber
<1>1. Phone!Init => Phone!OneSpellingPerSubscriber
  BY DEF Phone!Init, Phone!OneSpellingPerSubscriber
<1>2. Phone!OneSpellingPerSubscriber /\ [Phone!Next]_(Phone!vars)
        => Phone!OneSpellingPerSubscriber'
  <2>1. Phone!Receive => Phone!OneSpellingPerSubscriber'
    BY OneSpelling DEF Phone!Receive, Phone!OneSpellingPerSubscriber
  <2> QED
    BY <2>1 DEF Phone!Next, Phone!vars, Phone!OneSpellingPerSubscriber
<1> QED
  BY <1>1, <1>2, PTL DEF Phone!Spec

\* What the schema says of the variables that the modules rely on.
LEMMA WellFormedValues ==
  ASSUME Start!WellFormed
  PROVE  /\ environment["STORAGE_DRIVER"] \in {"unset", "local", "supabase"}
         /\ environment["DB_SSL_REJECT_UNAUTHORIZED"] \in {"unset", "yes", "no"}
  BY DEF Start!WellFormed, Start!Variables, Start!Schema, Start!OneOf, Start!Booleans

LEMMA BootStep ==
  ASSUME Start!Start PROVE Start!AcceptedSettingsServe'
<1>1. CASE ~Start!Accepted
  BY <1>1 DEF Start!Start, Start!AcceptedSettingsServe
<1>2. CASE Start!Accepted /\ Start!Throws
  <2>1. environment["SERVICE_ACCOUNT"] = "other JSON" \/ environment["TRUST_PROXY"] = "other"
    BY <1>2 DEF Start!Accepted, Start!Throws, Start!RefineCache, Start!Given
  <2>2. boot'.outcome = "crashed" /\ environment' = environment
    BY <1>2 DEF Start!Start
  <2> QED
    BY <2>1, <2>2 DEF Start!AcceptedSettingsServe
<1>3. CASE Start!Accepted /\ ~Start!Throws
  <2>1. /\ boot'.outcome = "started" /\ boot'.storage = Start!Storage
        /\ boot'.min = Start!Delay("MIN_DELAY", 3) /\ boot'.max = Start!Delay("MAX_DELAY", 8)
        /\ boot'.anyOrigin = Start!AnyOrigin /\ boot'.fixedCode = Start!FixedCode
        /\ boot'.verifies = Start!VerifiesPeer /\ boot'.capped = Start!Capped
        /\ environment' = environment
    BY <1>3 DEF Start!Start
  <2>2. Start!Storage.whole
    BY <1>3, WellFormedValues DEF Start!Accepted, Start!RefineStorage, Start!StorageDriver, Start!Value,
         Start!Storage, Start!SupabaseStorage, Start!LocalStorage, Start!Given, Start!Supabase
  <2>3. Start!Production =>
          /\ ~Start!FixedCode /\ ~Start!AnyOrigin
          /\ Start!VerifiesPeer \/ environment["DB_SSL_REJECT_UNAUTHORIZED"] = "no"
    BY <1>3, WellFormedValues DEF Start!Accepted, Start!RefineOtp, Start!RefineSecurity, Start!FixedCode,
         Start!AnyOrigin, Start!VerifiesPeer, Start!Value
  <2>4. environment["MIN_DELAY"] = "unset" /\ environment["MAX_DELAY"] = "unset" =>
          Start!Delay("MIN_DELAY", 3) = 3 /\ Start!Delay("MAX_DELAY", 8) = 8
    BY DEF Start!Delay
  <2>5. Start!Production' = Start!Production
    BY <2>1 DEF Start!Production
  <2>6. boot'.capped \/ environment'["BODY_LIMIT"] = "other"
    <3>1. environment["BODY_LIMIT"] # "other" => Start!Capped
      BY DEF Start!Capped
    <3> QED
      BY <2>1, <3>1
  <2> QED
    BY <2>1, <2>2, <2>3, <2>4, <2>5, <2>6 DEF Start!AcceptedSettingsServe
<1> QED
  BY <1>1, <1>2, <1>3

\* AcceptedSettingsServe: the app refuses to boot on settings it cannot serve with,
\* or that production rules out, whatever was edited in its environment.
THEOREM SettingsServe == Start!Spec => []Start!AcceptedSettingsServe
<1>1. Start!Init => Start!AcceptedSettingsServe
  BY DEF Start!Init, Start!NotYet, Start!AcceptedSettingsServe
<1>2. Start!AcceptedSettingsServe /\ [Start!Next]_(Start!vars) => Start!AcceptedSettingsServe'
  <2>1. Start!Edit => Start!AcceptedSettingsServe'
    BY DEF Start!Edit, Start!NotYet, Start!AcceptedSettingsServe
  <2>2. Start!AcceptedSettingsServe /\ UNCHANGED Start!vars => Start!AcceptedSettingsServe'
    BY DEF Start!vars, Start!AcceptedSettingsServe, Start!Production
  <2> QED
    BY <2>1, <2>2, BootStep DEF Start!Next
<1> QED
  BY <1>1, <1>2, PTL DEF Start!Spec

\* InputsHonest: a subscriber has one spelling in the tables, and settings that
\* are accepted serve.
THEOREM InputsAreHonest == PartsSpec => []InputsHonest
<1>1. Phone!OneSpellingPerSubscriber /\ Start!AcceptedSettingsServe => InputsHonest
  BY DEF InputsHonest
<1> QED
  BY <1>1, PartsRefined, SpellingsAreOne, SettingsServe, PTL

-----------------------------------------------------------------------------
(* Errors.                                                                 *)

\* The first handler that takes an exception is that of its class, or none.
LEMMA HandlerOfClass ==
  ASSUME NEW e \in Errors!Exceptions
  PROVE  Errors!Handler(e) =
           IF e.class \in {"multer", "jwt", "query", "validation", "http"} THEN e.class
                                                                          ELSE "fallback"
<1> DEFINE I == {i \in 1..5 : Errors!Takes(Errors!Handlers[i], e)}
           first == IF I # {} THEN CHOOSE i \in I : \A j \in I : i <= j ELSE 0
<1>1. Errors!Handler(e) = IF first = 0 THEN "fallback" ELSE Errors!Handlers[first]
  BY DEF Errors!Handler, Errors!SelectInSeq, Errors!Min, Errors!Handlers
<1>2. e.class \in {"multer", "jwt", "query", "validation", "http", "storage", "other"}
  BY DEF Errors!Exceptions
<1>3. /\ e.class = "multer" => I = {1}
      /\ e.class = "jwt" => I = {2}
      /\ e.class = "query" => I = {3}
      /\ e.class = "validation" => I = {4, 5}
      /\ e.class = "http" => I = {5}
      /\ e.class \in {"storage", "other"} => I = {}
  BY DEF Errors!Takes, Errors!Handlers
<1> HIDE DEF I
<1>4. /\ e.class = "multer" => first = 1
      /\ e.class = "jwt" => first = 2
      /\ e.class = "query" => first = 3
      /\ e.class = "validation" => first = 4
      /\ e.class = "http" => first = 5
      /\ e.class \in {"storage", "other"} => first = 0
  BY <1>3
<1> HIDE DEF first
<1>5. /\ Errors!Handlers[1] = "multer" /\ Errors!Handlers[2] = "jwt"
      /\ Errors!Handlers[3] = "query" /\ Errors!Handlers[4] = "validation"
      /\ Errors!Handlers[5] = "http"
  BY DEF Errors!Handlers
<1> QED
  BY <1>1, <1>2, <1>4, <1>5

\* What the handlers answer, class by class.
Answers(e, throws, r) ==
  /\ r = [status |-> r.status, error |-> r.error, message |-> r.message, context |-> r.context]
  /\ \/ throws /\ r.status = 500 /\ r.error = "INTERNAL_SERVER_ERROR" /\ r.message = "fixed"
     \/ e.class = "multer" /\ r.status = 400
     \/ e.class = "jwt" /\ r.status = 401
     \/ /\ e.class = "query" /\ r.message = "fixed"
        /\ r.status >= 500 => r.error = "DATABASE_ERROR"
     \/ e.class = "validation" /\ r.status = 400 /\ r.message = "constraints"
     \/ e.class = "http" /\ r.status = e.status
     \/ /\ e.class \in {"storage", "other"} /\ r.status = 500
        /\ r.error = "INTERNAL_SERVER_ERROR" /\ r.message = "fixed"

LEMMA CatchStep ==
  ASSUME Errors!Catch PROVE Errors!InternalsStayInside' /\ Errors!ClientLearnsItsMistake'
<1>1. PICK e \in Errors!Exceptions, throws \in BOOLEAN, optsOut \in BOOLEAN :
        /\ throws => e.class = "validation"
        /\ thrown' = e
        /\ reply' = [Errors!Resolved(e, throws) EXCEPT
             !.context = IF env = "development" /\ ~optsOut
                           THEN @ \union {"path", "method", "stack"} ELSE {}]
  BY DEF Errors!Catch
<1>2. env' = env
  BY DEF Errors!Catch
<1>3. PICK r : r = Errors!Resolved(e, throws)
  OBVIOUS
<1>4. Answers(e, throws, r)
  <2>1. e.class \in {"multer", "jwt", "query", "validation", "http", "storage", "other"}
    BY DEF Errors!Exceptions
  <2>2. e.class = "validation" => e.status = 400
    BY DEF Errors!Exceptions
  <2>3. CASE throws
    BY <1>3, <2>3 DEF Answers, Errors!Resolved, Errors!Fallback, Errors!Response
  <2>4. CASE ~throws /\ e.class = "multer"
    <3>1. r = Errors!Multer(e)
      BY <1>3, <2>4, HandlerOfClass DEF Errors!Resolved
    <3>2. PICK text : text = IF e.code = "none" THEN "its own" ELSE "fixed"
      OBVIOUS
    <3>3. r = [status |-> 400, error |-> e.code, message |-> text,
              context |-> {"timestamp"}]
      BY <3>1, <3>2 DEF Errors!Multer, Errors!Response
    <3> QED
      BY <2>4, <3>3 DEF Answers
  <2>5. CASE ~throws /\ e.class = "jwt"
    <3>1. r = Errors!Jwt(e)
      BY <1>3, <2>5, HandlerOfClass DEF Errors!Resolved
    <3> QED
      BY <2>5, <3>1 DEF Answers, Errors!Jwt, Errors!Response
  <2>6. CASE ~throws /\ e.class = "query"
    <3>1. r = Errors!Query(e)
      BY <1>3, <2>6, HandlerOfClass DEF Errors!Resolved
    <3> QED
      BY <2>6, <3>1 DEF Answers, Errors!Query, Errors!Response
  <2>7. CASE ~throws /\ e.class = "validation"
    BY <1>3, <2>2, <2>7, HandlerOfClass DEF Answers, Errors!Resolved, Errors!Validation, Errors!Response
  <2>8. CASE ~throws /\ e.class = "http"
    <3>1. r = Errors!Http(e)
      BY <1>3, <2>8, HandlerOfClass DEF Errors!Resolved
    <3> QED
      BY <2>8, <3>1 DEF Answers, Errors!Http, Errors!Response
  <2>9. CASE ~throws /\ e.class \in {"storage", "other"}
    BY <1>3, <2>9, HandlerOfClass DEF Answers, Errors!Resolved, Errors!Fallback, Errors!Response
  <2> QED
    BY <2>1, <2>3, <2>4, <2>5, <2>6, <2>7, <2>8, <2>9
<1>5. /\ reply'.status = r.status /\ reply'.error = r.error /\ reply'.message = r.message
      /\ env # "development" => reply'.context = {}
  BY <1>1, <1>3, <1>4 DEF Answers
<1>6. Errors!InternalsStayInside'
  BY <1>1, <1>2, <1>4, <1>5 DEF Answers, Errors!InternalsStayInside
<1>7. Errors!ClientLearnsItsMistake'
  BY <1>1, <1>4, <1>5 DEF Answers, Errors!ClientLearnsItsMistake
<1> QED
  BY <1>6, <1>7

\* ErrorsHonest: in production no answer tells what the program is made of, and
\* errors of the client are answered as such.
THEOREM ErrorsAreHonest == PartsSpec => []ErrorsHonest
<1> DEFINE Honest == Errors!InternalsStayInside /\ Errors!ClientLearnsItsMistake
<1>1. Errors!Init => Honest
  BY DEF Errors!Init, Errors!NoThrow, Errors!NoAnswer, Errors!InternalsStayInside,
         Errors!ClientLearnsItsMistake
<1>2. Honest /\ [Errors!Next]_(Errors!vars) => Honest'
  BY CatchStep DEF Errors!Next, Errors!vars, Errors!InternalsStayInside,
         Errors!ClientLearnsItsMistake
<1>3. Honest => ErrorsHonest
  BY DEF ErrorsHonest
<1> QED
  BY <1>1, <1>2, <1>3, PartsRefined, PTL DEF Errors!Spec

-----------------------------------------------------------------------------
(* Links.                                                                  *)

KeyList(keys) == \E n \in Nat : keys \in [1..n -> Links!Keys]
Answer(links, keys, told, dies) ==
  links = Links!Place(keys, Links!Signed(keys, told, dies))

\* Private keys are signed in their order and come back to their places.
LEMMA LinksPlaced ==
  ASSUME NEW keys, KeyList(keys), NEW told, NEW dies, NEW links, Answer(links, keys, told, dies)
  PROVE  /\ DOMAIN links = DOMAIN keys /\ \A i \in DOMAIN keys : links[i].key = keys[i]
         /\ \A i \in Links!Private(keys) : links[i].told = told /\ links[i].dies = dies
<1>1. PICK S : S = Links!Private(keys)
  OBVIOUS
<1>12. PICK n \in Nat : DOMAIN keys = 1..n
  BY DEF KeyList
<1>2. Bounded(S) /\ S \subseteq DOMAIN keys
  <2>1. S \subseteq DOMAIN keys
    BY <1>1 DEF Links!Private
  <2>2. S \subseteq {k \in Nat : k < n + 1} /\ n + 1 \in Nat
    BY <1>12, <2>1
  <2> QED
    BY <2>1, <2>2 DEF Bounded
<1>3. PICK e : e = InOrder(S)
  OBVIOUS
<1>4. e = Links!Entries(keys)
  <2>1. Links!Cardinality(S) = Cardinality(S)
    BY DEF Links!Cardinality, Cardinality
  <2> QED
    BY <1>1, <1>3, <2>1 DEF Links!Entries, InOrder
<1>5. \A i \in S : \E j \in DOMAIN e : e[j] = i
  BY <1>2, <1>3, ListedOnce
<1>6. PICK signed : signed = Links!Signed(keys, told, dies)
  OBVIOUS
<1>7. signed = [j \in DOMAIN e |-> Links!LinkTo(keys[e[j]], told, dies)]
  BY <1>4, <1>6 DEF Links!Signed
<1>8. links = [i \in DOMAIN keys |->
                 IF i \in S THEN signed[CHOOSE j \in DOMAIN e : e[j] = i]
                            ELSE Links!PublicLink(keys[i])]
  BY <1>1, <1>4, <1>6 DEF Links!Place, Answer
<1>9. ASSUME NEW i \in S PROVE links[i] = Links!LinkTo(keys[i], told, dies)
  <2>1. PICK j : j = CHOOSE k \in DOMAIN e : e[k] = i
    OBVIOUS
  <2>2. j \in DOMAIN e /\ e[j] = i
    BY <1>5, <2>1
  <2>3. signed[j] = Links!LinkTo(keys[i], told, dies)
    BY <1>7, <2>2
  <2>4. links[i] = signed[j]
    BY <1>2, <1>8, <2>1
  <2> QED
    BY <2>3, <2>4
<1>10. ASSUME NEW i \in DOMAIN keys, i \notin S PROVE links[i].key = keys[i]
  BY <1>8, <1>10 DEF Links!PublicLink, Links!LinkTo
<1>11. ASSUME NEW i \in S
       PROVE  links[i].key = keys[i] /\ links[i].told = told /\ links[i].dies = dies
  <2>1. links[i] = [key |-> keys[i], told |-> told, dies |-> dies]
    BY <1>9 DEF Links!LinkTo
  <2> QED
    BY <2>1
<1> QED
  BY <1>1, <1>8, <1>10, <1>11

LEMMA LocalLinks ==
  ASSUME NEW keys, KeyList(keys), NEW expiry, NEW links, Answer(links, keys, expiry, expiry)
  PROVE  /\ DOMAIN links = DOMAIN keys /\ \A i \in DOMAIN keys : links[i].key = keys[i]
         /\ \A i \in Links!Private(keys) : links[i].told = expiry /\ links[i].dies = expiry
<1>1. DOMAIN links = DOMAIN keys
  BY LinksPlaced
<1>2. \A i \in DOMAIN keys : links[i].key = keys[i]
  BY LinksPlaced
<1>3. \A i \in Links!Private(keys) : links[i].told = expiry /\ links[i].dies = expiry
  BY LinksPlaced
<1> QED
  BY <1>1, <1>2, <1>3

\* What every answered call has, and what a call under way is.
LinksIInv ==
  /\ linkDriver \in {"local", "supabase"} /\ now \in Nat
  /\ Links!LinksMatchKeys /\ Links!ExpiryHonest
  /\ ask.answer = "pending" =>
       /\ linkDriver = "supabase" /\ ask.op \in {"list", "single"}
       /\ ask.since \in 0..now /\ KeyList(ask.keys)

\* A local link lives for the TTL, short of a second at most.
LEMMA LocalExpires ==
  ASSUME PartsAssumption, NEW t \in Nat
  PROVE  /\ Links!LocalExpiry(t) \in Int /\ TTL * Second \in Nat /\ Second \in Nat \ {0}
         /\ Links!LocalExpiry(t) <= t + TTL * Second
         /\ Links!LocalExpiry(t) + Second > t + TTL * Second
<1>1. Second \in Nat \ {0} /\ TTL \in Nat
  BY DEF PartsAssumption
<1> DEFINE q == t \div Second
<1>2. q \in Nat /\ q * Second <= t /\ t < q * Second + Second
  BY <1>1
<1> HIDE DEF q
<1>3. (q + TTL) * Second = q * Second + TTL * Second /\ TTL * Second \in Nat
      /\ q * Second \in Nat
  BY <1>1, <1>2
<1>4. Links!LocalExpiry(t) = (q + TTL) * Second
  BY DEF Links!LocalExpiry, q
<1> QED
  BY <1>1, <1>2, <1>3, <1>4

LEMMA AccessUrlsStep ==
  ASSUME PartsAssumption, LinksIInv, Links!AccessUrls PROVE LinksIInv'
<1>0. PICK op \in {"list", "single"}, n \in 1..MaxLinks : \E keys \in [1..n -> Links!Keys] :
        ask' = [Links!NoAsk EXCEPT !.op = op, !.keys = keys, !.since = now,
                    !.until = now,
                    !.answer = IF linkDriver = "local" \/ Links!Private(keys) = {}
                                 THEN "ok" ELSE "pending",
                    !.links = IF linkDriver = "local" \/ Links!Private(keys) = {}
                                THEN Links!Place(keys, Links!Signed(keys, Links!LocalExpiry(now),
                                                        Links!LocalExpiry(now)))
                                ELSE <<>>]
  BY DEF Links!AccessUrls
<1>1. PICK keys \in [1..n -> Links!Keys] :
        ask' = [Links!NoAsk EXCEPT !.op = op, !.keys = keys, !.since = now,
                    !.until = now,
                    !.answer = IF linkDriver = "local" \/ Links!Private(keys) = {}
                                 THEN "ok" ELSE "pending",
                    !.links = IF linkDriver = "local" \/ Links!Private(keys) = {}
                                THEN Links!Place(keys, Links!Signed(keys, Links!LocalExpiry(now),
                                                        Links!LocalExpiry(now)))
                                ELSE <<>>]
  BY <1>0
<1>2. UNCHANGED <<linkDriver, now, stored>>
  BY DEF Links!AccessUrls
<1> DEFINE at_once == (linkDriver = "local" \/ Links!Private(keys) = {})
<1>10. PICK expiry, links : /\ expiry = Links!LocalExpiry(now)
                           /\ links = Links!Place(keys, Links!Signed(keys, expiry, expiry))
  OBVIOUS
<1>3. /\ ask'.op = op /\ ask'.keys = keys /\ ask'.since = now /\ ask'.until = now
      /\ at_once => ask'.answer = "ok" /\ ask'.links = links
      /\ ~at_once => ask'.answer = "pending"
  BY <1>1, <1>10 DEF Links!NoAsk
<1>4. now \in Nat /\ linkDriver \in {"local", "supabase"}
  BY DEF LinksIInv
<1>5. KeyList(keys)
  <2>1. n \in Nat
    BY DEF PartsAssumption
  <2> QED
    BY <2>1 DEF KeyList
<1>6. Answer(links, keys, expiry, expiry)
  BY <1>10 DEF Answer
<1>7. /\ DOMAIN links = DOMAIN keys /\ \A i \in DOMAIN keys : links[i].key = keys[i]
      /\ \A i \in Links!Private(keys) : links[i].told = expiry /\ links[i].dies = expiry
  BY <1>5, <1>6, LocalLinks
<1>11. /\ expiry \in Int /\ TTL * Second \in Nat /\ Second \in Nat \ {0}
       /\ expiry <= now + TTL * Second /\ expiry + Second > now + TTL * Second
  BY <1>4, <1>10, LocalExpires
<1> HIDE DEF at_once
<1>8. CASE at_once
  <2>1. ask'.answer = "ok" /\ ask'.links = links
    BY <1>3, <1>8
  <2>2. Links!LinksMatchKeys'
    BY <1>3, <1>7, <2>1 DEF Links!LinksMatchKeys
  <2>3. \A i \in Links!Private(keys) :
          ask'.links[i].told = expiry /\ ask'.links[i].dies = expiry
    BY <1>7, <2>1
  <2>4. Links!Private(ask.keys)' = Links!Private(keys)
    BY <1>3 DEF Links!Private
  <2>5. Links!ExpiryHonest'
    <3>1. PICK life : life = TTL * Second
      OBVIOUS
    <3>2. /\ ask'.since = now /\ ask'.until = now /\ now - now = 0 /\ expiry <= now + life
          /\ expiry + Second > now + life /\ expiry <= expiry + 0
      BY <1>3, <1>4, <1>11, <3>1
    <3> QED
      BY <2>3, <2>4, <3>1, <3>2 DEF Links!ExpiryHonest
  <2> QED
    BY <1>2, <1>4, <2>1, <2>2, <2>5 DEF LinksIInv
<1>9. CASE ~at_once
  <2>1. Links!LinksMatchKeys' /\ Links!ExpiryHonest'
    BY <1>3, <1>9 DEF Links!LinksMatchKeys, Links!ExpiryHonest
  <2> QED
    BY <1>2, <1>3, <1>4, <1>5, <1>9, <2>1 DEF LinksIInv, at_once
<1> QED
  BY <1>8, <1>9

LEMMA SupabaseSignsStep ==
  ASSUME PartsAssumption, LinksIInv, Links!SupabaseSigns PROVE LinksIInv'
<1>0. PICK told : told = (IF ask.op = "list" THEN ask.since ELSE now) + TTL * Second
  OBVIOUS
<1>1. PICK served \in ask.since..now :
        ask' = IF \A i \in Links!Private(ask.keys) : ask.keys[i] \in stored
                   THEN [ask EXCEPT !.answer = "ok", !.until = now,
                           !.links = Links!Place(ask.keys, Links!Signed(ask.keys, told,
                                                      served + TTL * Second))]
                   ELSE [ask EXCEPT !.answer = "failed"]
  BY <1>0 DEF Links!SupabaseSigns
<1>9. PICK dies, links :
        /\ dies = served + TTL * Second
        /\ links = Links!Place(ask.keys, Links!Signed(ask.keys, told, dies))
  OBVIOUS
<1>2. /\ ask.answer = "pending" /\ linkDriver = "supabase" /\ ask.op \in {"list", "single"}
      /\ ask.since \in 0..now /\ now \in Nat /\ UNCHANGED <<linkDriver, now, stored>>
      /\ KeyList(ask.keys)
  BY DEF LinksIInv, Links!SupabaseSigns
<1>3. Answer(links, ask.keys, told, dies)
  BY <1>9 DEF Answer
<1>4. /\ DOMAIN links = DOMAIN ask.keys /\ \A i \in DOMAIN ask.keys : links[i].key = ask.keys[i]
      /\ \A i \in Links!Private(ask.keys) : links[i].told = told /\ links[i].dies = dies
  BY <1>2, <1>3, LinksPlaced
<1>5. TTL * Second \in Nat /\ Second \in Nat \ {0}
  BY <1>2, LocalExpires
<1>7. CASE ask'.answer = "ok"
  <2>1. /\ ask'.answer = "ok" /\ ask'.until = now /\ ask'.links = links
        /\ ask'.op = ask.op /\ ask'.keys = ask.keys /\ ask'.since = ask.since
    BY <1>1, <1>2, <1>7, <1>9
  <2>2. Links!LinksMatchKeys'
    BY <1>4, <2>1 DEF Links!LinksMatchKeys
  <2>3. \A i \in Links!Private(ask.keys) : ask'.links[i].told = told /\ ask'.links[i].dies = dies
    BY <1>4, <2>1
  <2>4. Links!Private(ask.keys)' = Links!Private(ask.keys)
    BY <2>1 DEF Links!Private
  <2>5. Links!ExpiryHonest'
    BY <1>0, <1>2, <1>5, <1>9, <2>1, <2>3, <2>4 DEF Links!ExpiryHonest
  <2> QED
    BY <1>2, <2>1, <2>2, <2>5 DEF LinksIInv
<1>8. CASE ask'.answer # "ok"
  <2>1. ask'.answer = "failed"
    BY <1>1, <1>8
  <2> QED
    BY <1>2, <2>1 DEF LinksIInv, Links!LinksMatchKeys, Links!ExpiryHonest
<1> QED
  BY <1>7, <1>8

\* LinksHonest: links name the objects asked for, in their order, and live as long
\* as their holder is told, whatever keys are mixed and however long calls take.
THEOREM LinksAreHonest == PartsSpec => []LinksHonest
<1>1. Links!Init => LinksIInv
  BY DEF Links!Init, Links!NoAsk, LinksIInv, Links!LinksMatchKeys, Links!ExpiryHonest
<1>2. LinksIInv /\ [Links!Next]_(Links!vars) => LinksIInv'
  <2> SUFFICES ASSUME LinksIInv, [Links!Next]_(Links!vars) PROVE LinksIInv'
    OBVIOUS
  <2>1. CASE Links!AccessUrls
    BY <2>1, PartsAssumption, AccessUrlsStep
  <2>2. CASE Links!SupabaseSigns
    BY <2>2, PartsAssumption, SupabaseSignsStep
  <2>3. CASE Links!SigningFails
    <3>1. ask'.answer = "failed" /\ UNCHANGED <<linkDriver, now, stored>>
      BY <2>3 DEF Links!SigningFails
    <3> QED
      BY <3>1 DEF LinksIInv, Links!LinksMatchKeys, Links!ExpiryHonest
  <2>4. ASSUME UNCHANGED <<linkDriver, ask>>, now' \in Nat, now' >= now PROVE LinksIInv'
    BY <2>4 DEF LinksIInv, Links!LinksMatchKeys, Links!ExpiryHonest, Links!Private
  <2>5. CASE Links!ObjectComesOrGoes
    BY <2>4, <2>5 DEF Links!ObjectComesOrGoes, LinksIInv
  <2>6. CASE Links!Tick
    BY <2>4, <2>6 DEF Links!Tick, LinksIInv
  <2>7. CASE UNCHANGED Links!vars
    BY <2>4, <2>7 DEF Links!vars, LinksIInv
  <2> QED
    BY <2>1, <2>2, <2>3, <2>5, <2>6, <2>7 DEF Links!Next
<1>3. LinksIInv => LinksHonest
  BY DEF LinksIInv, LinksHonest
<1> QED
  BY <1>1, <1>2, <1>3, PartsRefined, PTL DEF Links!Spec

-----------------------------------------------------------------------------
(* Push notifications.                                                     *)

\* A sequence that lists a set of numbers, each once.
Lists(s, S) ==
  /\ s \in Seq(Nat) /\ {s[i] : i \in DOMAIN s} = S
  /\ \A i, j \in DOMAIN s : s[i] = s[j] => i = j

LEMMA ListsAppended ==
  ASSUME NEW s, NEW S, Lists(s, S), NEW t, NEW T, Lists(t, T), S \intersect T = {}
  PROVE  Lists(s \o t, S \union T) /\ Len(s \o t) = Len(s) + Len(t)
<1>1. s \in Seq(Nat) /\ t \in Seq(Nat)
  BY DEF Lists
<1> DEFINE m == Len(s)   n == Len(t)
<1>2. /\ m \in Nat /\ n \in Nat /\ DOMAIN s = 1..m /\ DOMAIN t = 1..n
      /\ s \o t \in Seq(Nat) /\ Len(s \o t) = m + n /\ DOMAIN (s \o t) = 1..(m + n)
      /\ \A i \in 1..(m + n) : (s \o t)[i] = IF i <= m THEN s[i] ELSE t[i - m]
  BY <1>1
<1>3. PICK st : st = s \o t
  OBVIOUS
<1> HIDE DEF m, n
<1>4. \A i \in 1..(m + n) : \/ i \in 1..m /\ st[i] = s[i] /\ st[i] \in S
                            \/ i - m \in 1..n /\ st[i] = t[i - m] /\ st[i] \in T
  <2> SUFFICES ASSUME NEW i \in 1..(m + n)
               PROVE  \/ i \in 1..m /\ st[i] = s[i] /\ st[i] \in S
                      \/ i - m \in 1..n /\ st[i] = t[i - m] /\ st[i] \in T
    OBVIOUS
  <2>1. CASE i <= m
    <3>1. i \in 1..m /\ st[i] = s[i]
      BY <1>2, <1>3, <2>1
    <3> QED
      BY <1>2, <3>1 DEF Lists
  <2>2. CASE ~(i <= m)
    <3>1. i - m \in 1..n
      BY <1>2, <2>2
    <3>2. st[i] = t[i - m]
      BY <1>2, <1>3, <2>2
    <3>3. t[i - m] \in T
      BY <1>2, <3>1 DEF Lists
    <3> QED
      BY <3>1, <3>2, <3>3
  <2> QED
    BY <2>1, <2>2
<1>5. \A x \in S \union T : \E i \in 1..(m + n) : st[i] = x
  <2>1. ASSUME NEW x \in S PROVE \E i \in 1..(m + n) : st[i] = x
    <3>1. PICK i \in 1..m : s[i] = x
      BY <1>2 DEF Lists
    <3>2. i \in 1..(m + n) /\ i <= m
      BY <1>2
    <3> QED
      BY <1>2, <1>3, <3>1, <3>2
  <2>2. ASSUME NEW x \in T PROVE \E i \in 1..(m + n) : st[i] = x
    <3>1. PICK i \in 1..n : t[i] = x
      BY <1>2 DEF Lists
    <3>2. i + m \in 1..(m + n) /\ ~(i + m <= m) /\ (i + m) - m = i
      BY <1>2
    <3> QED
      BY <1>2, <1>3, <3>1, <3>2
  <2> QED
    BY <2>1, <2>2
<1>6. {st[i] : i \in 1..(m + n)} = S \union T
  BY <1>4, <1>5
<1>7. ASSUME NEW i \in 1..(m + n), NEW j \in 1..(m + n), st[i] = st[j] PROVE i = j
  <2>1. CASE i \in 1..m /\ j \in 1..m
    <3>1. s[i] = s[j]
      BY <1>2, <1>3, <1>7, <2>1
    <3> QED
      BY <1>2, <2>1, <3>1 DEF Lists
  <2>2. CASE i - m \in 1..n /\ j - m \in 1..n
    <3>3. ~(i <= m) /\ ~(j <= m)
      BY <1>2, <2>2
    <3>4. st[i] = t[i - m] /\ st[j] = t[j - m]
      BY <1>2, <1>3, <3>3
    <3>1. t[i - m] = t[j - m]
      BY <1>7, <3>4
    <3>2. i - m = j - m
      BY <1>2, <2>2, <3>1 DEF Lists
    <3> QED
      BY <1>2, <3>2
  <2>3. \/ i \in 1..m /\ st[i] \in S
        \/ i - m \in 1..n /\ st[i] \in T
    BY <1>4
  <2>4. \/ j \in 1..m /\ st[j] \in S
        \/ j - m \in 1..n /\ st[j] \in T
    BY <1>4
  <2>5. ~(st[i] \in S /\ st[j] \in T) /\ ~(st[i] \in T /\ st[j] \in S)
    BY <1>7
  <2> QED
    BY <2>1, <2>2, <2>3, <2>4, <2>5
<1>8. DOMAIN st = 1..(m + n) /\ st \in Seq(Nat)
  BY <1>2, <1>3
<1>9. Lists(st, S \union T)
  BY <1>6, <1>7, <1>8 DEF Lists
<1> QED
  BY <1>2, <1>3, <1>9 DEF m, n

\* The tokens of the batches that are not waited for.
Answered == {t \in 0..(tokens - 1) : t \div MULTICAST_BATCH_SIZE \notin waiting}

\* Of a call that no batch has failed, what is counted is what has answered; and
\* what is reported is what was refused, of batches that are through.
PushIInv ==
  /\ tokens \in Nat /\ waiting \subseteq Nat /\ outcome \in {"none", "pending", "ok", "error"}
  /\ outcome \in {"none", "ok"} => waiting = {}
  /\ outcome = "none" => tokens = 0 /\ failed = {} /\ result = Push!NoResult
  /\ failed \subseteq Answered
  /\ Lists(result.failures, failed) /\ result.failureCount = Len(result.failures)
  /\ result.successCount \in Nat
  /\ outcome # "error" => result.successCount + result.failureCount = Cardinality(Answered)

LEMMA SendStep == ASSUME PartsAssumption, PushIInv, Push!Send PROVE PushIInv'
<1>1. PICK n \in 0..MaxTokens, titled \in BOOLEAN :
        IF n = 0 \/ ~titled
         THEN outcome' = "error" /\ UNCHANGED <<tokens, waiting>>
         ELSE /\ outcome' = "pending" /\ tokens' = n
              /\ waiting' = 0..((n - 1) \div MULTICAST_BATCH_SIZE)
  BY DEF Push!Send
<1>2. /\ outcome = "none" /\ waiting = {} /\ tokens = 0 /\ failed = {} /\ UNCHANGED <<failed, result>>
      /\ Lists(result.failures, failed) /\ result.failureCount = Len(result.failures)
      /\ result = Push!NoResult
  BY DEF Push!Send, PushIInv
<1>3. CASE n = 0 \/ ~titled
  <2>1. outcome' = "error" /\ tokens' = 0 /\ waiting' = {}
    BY <1>1, <1>2, <1>3
  <2>2. result'.successCount = 0 /\ failed' = {} /\ UNCHANGED result
    BY <1>2 DEF Push!NoResult
  <2> QED
    BY <1>2, <2>1, <2>2 DEF PushIInv
<1>4. CASE n # 0 /\ titled
  <2>1. outcome' = "pending" /\ tokens' = n /\ waiting' = 0..((n - 1) \div MULTICAST_BATCH_SIZE)
    BY <1>1, <1>4
  <2>2. n \in Nat \ {0} /\ MULTICAST_BATCH_SIZE \in Nat \ {0}
    BY <1>4 DEF PartsAssumption
  <2>3. ASSUME NEW t \in 0..(n - 1)
        PROVE  t \div MULTICAST_BATCH_SIZE \in 0..((n - 1) \div MULTICAST_BATCH_SIZE)
    BY <2>2
  <2>4. Answered' = {}
    BY <2>1, <2>3 DEF Answered
  <2>5. Cardinality({}) = 0
    BY FS_EmptySet
  <2>6. waiting' \subseteq Nat
    BY <2>1
  <2> QED
    BY <1>2, <2>1, <2>2, <2>4, <2>5, <2>6 DEF PushIInv, Push!NoResult
<1> QED
  BY <1>3, <1>4

LEMMA BatchAnswersStep == ASSUME PartsAssumption, PushIInv, Push!BatchAnswers PROVE PushIInv'
<1>0. PICK b \in waiting : \E bad \in SUBSET Push!Batch(b) :
    /\ waiting' = waiting \ {b} /\ failed' = failed \union bad
    /\ result' =
         [successCount |-> result.successCount + Push!Cardinality(Push!Batch(b) \ bad),
          failureCount |-> result.failureCount + Push!Cardinality(bad),
          failures |-> result.failures \o
            [i \in DOMAIN Push!InOrder(bad) |-> Push!FailureIndex(b, Push!InOrder(bad)[i])]]
    /\ outcome' = IF outcome = "pending" /\ waiting' = {} THEN "ok" ELSE outcome
    /\ UNCHANGED tokens
  BY DEF Push!BatchAnswers
<1>1. PICK bad \in SUBSET Push!Batch(b) :
    /\ waiting' = waiting \ {b} /\ failed' = failed \union bad
    /\ result' =
         [successCount |-> result.successCount + Push!Cardinality(Push!Batch(b) \ bad),
          failureCount |-> result.failureCount + Push!Cardinality(bad),
          failures |-> result.failures \o
            [i \in DOMAIN Push!InOrder(bad) |-> Push!FailureIndex(b, Push!InOrder(bad)[i])]]
    /\ outcome' = IF outcome = "pending" /\ waiting' = {} THEN "ok" ELSE outcome
    /\ UNCHANGED tokens
  BY <1>0
<1>2. PICK all, list : all = Push!Batch(b) /\ list = InOrder(bad)
  OBVIOUS
<1>3. /\ tokens \in Nat /\ all \subseteq 0..(tokens - 1) /\ bad \subseteq all
      /\ Answered' = Answered \union all /\ Answered \intersect all = {}
      /\ Answered \subseteq 0..(tokens - 1)
  BY <1>1, <1>2 DEF PushIInv, Push!Batch, Answered
<1>4. /\ IsFiniteSet(all) /\ IsFiniteSet(bad) /\ IsFiniteSet(Answered)
      /\ Cardinality(all \ bad) \in Nat /\ Cardinality(bad) \in Nat
      /\ Cardinality(Answered') = Cardinality(Answered) + Cardinality(all \ bad) + Cardinality(bad)
  <2>1. IsFiniteSet(0..(tokens - 1))
    BY <1>3, FS_Interval
  <2>2. IsFiniteSet(all) /\ IsFiniteSet(bad) /\ IsFiniteSet(Answered) /\ IsFiniteSet(all \ bad)
    BY <1>3, <2>1, FS_Subset
  <2>3. all = (all \ bad) \union bad /\ (all \ bad) \intersect bad = {}
    BY <1>3
  <2>6. /\ Cardinality(Answered) \in Nat /\ Cardinality(all) \in Nat
        /\ Cardinality(all \ bad) \in Nat /\ Cardinality(bad) \in Nat
    BY <2>2, FS_CardinalityType
  <2>4. Cardinality(all) = Cardinality(all \ bad) + Cardinality(bad)
    <3>1. Cardinality((all \ bad) \union bad) =
            Cardinality(all \ bad) + Cardinality(bad) - Cardinality((all \ bad) \intersect bad)
      BY <2>2, FS_Union
    <3>2. Cardinality((all \ bad) \intersect bad) = 0
      BY <2>3, FS_EmptySet
    <3>3. Cardinality((all \ bad) \union bad) = Cardinality(all)
      BY <2>3
    <3> QED
      BY <2>6, <3>1, <3>2, <3>3
  <2>5. Cardinality(Answered') = Cardinality(Answered) + Cardinality(all)
    <3>1. Cardinality(Answered \union all) =
            Cardinality(Answered) + Cardinality(all) - Cardinality(Answered \intersect all)
      BY <2>2, FS_Union
    <3>2. Cardinality(Answered \intersect all) = 0
      BY <1>3, FS_EmptySet
    <3>3. Cardinality(Answered') = Cardinality(Answered \union all)
      BY <1>3
    <3> QED
      BY <2>6, <3>1, <3>2, <3>3
  <2> QED
    BY <2>2, <2>4, <2>5, <2>6
<1>5. \A S : Push!Cardinality(S) = Cardinality(S)
  BY DEF Push!Cardinality, Cardinality
<1>6. Lists(list, bad) /\ Len(list) = Cardinality(bad)
  <2>1. bad \subseteq {k \in Nat : k < tokens}
    BY <1>3
  <2>2. Bounded(bad)
    BY <1>3, <2>1 DEF Bounded
  <2>3. /\ list \in [1..Cardinality(bad) -> bad]
        /\ \A i, j \in DOMAIN list : list[i] = list[j] => i = j
        /\ \A x \in bad : \E i \in DOMAIN list : list[i] = x
    BY <1>2, <2>2, ListedOnce
  <2>4. list \in Seq(Nat) /\ Len(list) = Cardinality(bad)
    <3>1. list \in [1..Cardinality(bad) -> Nat] /\ Cardinality(bad) \in Nat
      BY <1>4, <2>1, <2>3
    <3>2. list \in Seq(Nat)
      BY <3>1, SeqDef
    <3> QED
      BY <3>1, <3>2, LenProperties
  <2>5. {list[i] : i \in DOMAIN list} = bad
    <3>1. \A i \in DOMAIN list : list[i] \in bad
      BY <2>3
    <3>2. \A x \in bad : \E i \in DOMAIN list : list[i] = x
      BY <2>3
    <3> QED
      BY <3>1, <3>2
  <2> QED
    BY <2>3, <2>4, <2>5 DEF Lists
<1>7. [i \in DOMAIN Push!InOrder(bad) |-> Push!FailureIndex(b, Push!InOrder(bad)[i])] = list
  <2>1. Push!InOrder(bad) = list
    BY <1>2, <1>5 DEF Push!InOrder, InOrder
  <2>2. b \in Int /\ MULTICAST_BATCH_SIZE \in Int
    <3>1. b \in Nat
      BY DEF PushIInv
    <3>2. MULTICAST_BATCH_SIZE \in Nat
      BY DEF PartsAssumption
    <3> QED
      BY <3>1, <3>2
  <2>3. \A t \in bad : Push!FailureIndex(b, t) = t
    <3>1. b * MULTICAST_BATCH_SIZE \in Int
      BY <2>2
    <3> QED
      BY <1>3, <3>1 DEF Push!FailureIndex
  <2>4. \A i \in DOMAIN list : list[i] \in bad
    BY <1>6 DEF Lists
  <2>5. list = [i \in DOMAIN list |-> list[i]]
    BY <1>6 DEF Lists
  <2> QED
    BY <2>1, <2>3, <2>4, <2>5
<1>8. /\ result'.successCount = result.successCount + Cardinality(all \ bad)
      /\ result'.failureCount = result.failureCount + Cardinality(bad)
      /\ result'.failures = result.failures \o list
  BY <1>1, <1>2, <1>5, <1>7
<1>9. /\ Lists(result'.failures, failed') /\ Len(result'.failures) = Len(result.failures) + Len(list)
      /\ Len(result.failures) \in Nat
  <2>1. Lists(result.failures, failed) /\ failed \intersect bad = {}
    BY <1>3 DEF PushIInv
  <2>2. Lists(list, bad)
    BY <1>6
  <2>3. /\ Lists(result.failures \o list, failed \union bad)
        /\ Len(result.failures \o list) = Len(result.failures) + Len(list)
    BY <2>1, <2>2, ListsAppended
  <2>4. Len(result.failures) \in Nat
    BY <2>1, LenProperties DEF Lists
  <2> QED
    BY <1>1, <1>8, <2>3, <2>4
<1>10. /\ outcome # "none" /\ outcome # "ok"
       /\ outcome' \in {"pending", "ok", "error"} /\ (outcome' = "ok" => waiting' = {})
       /\ (outcome' # "error" => outcome # "error")
  BY <1>1 DEF PushIInv
<1>11. /\ result.successCount \in Nat /\ result.failureCount = Len(result.failures)
       /\ outcome # "error" => result.successCount + result.failureCount = Cardinality(Answered)
       /\ failed \subseteq Answered /\ Cardinality(Answered) \in Nat
  BY <1>4, FS_CardinalityType DEF PushIInv
<1>12. failed' \subseteq Answered'
  BY <1>1, <1>3, <1>11
<1>13. /\ result'.successCount \in Nat /\ result'.failureCount = Len(result'.failures)
       /\ outcome' # "error" => result'.successCount + result'.failureCount = Cardinality(Answered')
  <2>1. PICK a, o, f, k, l, c :
          /\ a = Cardinality(all \ bad) /\ o = Cardinality(bad) /\ f = Len(result.failures)
          /\ k = result.successCount /\ l = Len(list) /\ c = Cardinality(Answered)
    OBVIOUS
  <2>2. /\ a \in Nat /\ o \in Nat /\ f \in Nat /\ k \in Nat /\ l = o /\ c \in Nat
        /\ result.failureCount = f /\ (outcome # "error" => k + f = c)
    BY <1>4, <1>6, <1>9, <1>11, <2>1
  <2>3. /\ result'.successCount = k + a /\ result'.failureCount = f + o
        /\ Len(result'.failures) = f + l /\ Cardinality(Answered') = c + a + o
    BY <1>4, <1>8, <1>9, <2>1, <2>2
  <2> QED
    BY <1>10, <2>2, <2>3
<1> QED
  BY <1>1, <1>3, <1>9, <1>10, <1>12, <1>13 DEF PushIInv

LEMMA BatchFailsStep == ASSUME PushIInv, Push!BatchFails PROVE PushIInv'
<1>1. outcome' = "error" /\ waiting' \subseteq waiting /\ UNCHANGED <<tokens, failed, result>>
  BY DEF Push!BatchFails
<1>2. Answered \subseteq Answered'
  BY <1>1 DEF Answered
<1> QED
  BY <1>1, <1>2 DEF PushIInv

\* FailuresPointAtTheirTokens: a call that answers has counted every token, and
\* lists each one refused once, at its place, in whatever order batches ended.
THEOREM FailuresArePlaced == PartsSpec => []FailuresPointAtTheirTokens
<1>1. Push!Init => PushIInv
  <2> SUFFICES ASSUME Push!Init PROVE PushIInv
    OBVIOUS
  <2>1. Answered = {} /\ Cardinality({}) = 0
    BY FS_EmptySet DEF Answered, Push!Init
  <2>2. Lists(<<>>, {}) /\ Len(<<>>) = 0
    BY DEF Lists
  <2> QED
    BY <2>1, <2>2 DEF Push!Init, Push!NoResult, PushIInv
<1>2. PushIInv /\ [Push!Next]_(Push!vars) => PushIInv'
  <2>1. PushIInv /\ UNCHANGED Push!vars => PushIInv'
    BY DEF Push!vars, PushIInv, Answered
  <2> QED
    BY <2>1, PartsAssumption, SendStep, BatchAnswersStep, BatchFailsStep DEF Push!Next
<1>3. PushIInv => FailuresPointAtTheirTokens
  <2> SUFFICES ASSUME PushIInv, outcome = "ok"
               PROVE  /\ result.successCount + result.failureCount = tokens
                      /\ result.failureCount = Len(result.failures)
                      /\ Push!ToSet(result.failures) = failed
                      /\ Push!IsInjective(result.failures)
    BY DEF FailuresPointAtTheirTokens, Push!FailuresPointAtTheirTokens
  <2>1. Answered = 0..(tokens - 1) /\ tokens \in Nat
    BY DEF PushIInv, Answered
  <2>2. Cardinality(0..(tokens - 1)) = tokens
    BY <2>1, FS_Interval
  <2>3. result.successCount + result.failureCount = tokens
    BY <2>1, <2>2 DEF PushIInv
  <2>4. Push!ToSet(result.failures) = failed /\ Push!IsInjective(result.failures)
    BY DEF PushIInv, Lists, Push!ToSet, Push!IsInjective
  <2> QED
    BY <2>3, <2>4 DEF PushIInv
<1> QED
  BY <1>1, <1>2, <1>3, PartsRefined, PTL DEF Push!Spec
=============================================================================
