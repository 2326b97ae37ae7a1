-------------------------- MODULE ClassifierProofs --------------------------
(***************************************************************************)
(* Theorems of the classifier, for any number of profiles, globs and job   *)
(* names, any configuration file and any number of starts.                 *)
(***************************************************************************)
EXTENDS Classifier, FiniteSetTheorems, TLAPS

Ascending(s) == \A i, k \in DOMAIN s : i < k => s[i] < s[k]

(* A set of naturals that has an element has a smallest one. *)
LEMMA Smallest ==
  ASSUME NEW T, T \subseteq Nat, T # {}
  PROVE  Min(T) \in T /\ \A y \in T : Min(T) <= y
<1> DEFINE Below(k) == 0..k
           F == {Below(k) : k \in T}
           R == StrictSubsetOrdering(Nat)
<1>1. IsWellFoundedOn(R, FiniteSubsetsOf(Nat))
  BY FS_StrictSubsetOrderingWellFounded
<1>2. F \subseteq FiniteSubsetsOf(Nat) /\ F # {}
  <2>1. ASSUME NEW k \in T PROVE Below(k) \in FiniteSubsetsOf(Nat)
    <3>1. 0 \in Int /\ k \in Int /\ Below(k) \subseteq Nat
      OBVIOUS
    <3> QED BY <3>1, FS_Interval DEF FiniteSubsetsOf
  <2> QED BY <2>1
<1>3. PICK B \in F : \A C \in F : <<C, B>> \notin R
  <2> HIDE DEF F, R
  <2> QED BY <1>1, <1>2, WFMin
<1>4. PICK x \in T : B = Below(x)
  BY <1>3
<1>5. \A y \in T : x <= y
  <2> SUFFICES ASSUME NEW y \in T, y < x PROVE FALSE
    OBVIOUS
  <2>1. Below(y) \subseteq Below(x) /\ x \in Below(x) /\ x \notin Below(y)
    OBVIOUS
  <2>2. <<Below(y), Below(x)>> \in R
    BY <2>1 DEF StrictSubsetOrdering
  <2> QED BY <1>3, <1>4, <2>2
<1> QED BY <1>5 DEF Min

(* A sequence without repetition that has as many places as S elements     *)
(* has every element of S.                                                 *)
LEMMA SeqsCover ==
  ASSUME NEW S, IsFiniteSet(S), NEW s \in SetToSeqs(S)
  PROVE  DOMAIN s = 1..Cardinality(S) /\ Range(s) = S
<1> DEFINE D == 1..Cardinality(S)
<1>1. Cardinality(S) \in Nat
  BY FS_CardinalityType
<1>2. IsFiniteSet(D) /\ Cardinality(D) = Cardinality(S)
  BY <1>1, FS_Interval
<1>3. s \in [D -> S] /\ \A i, k \in D : i # k => s[i] # s[k]
  BY DEF SetToSeqs
<1> HIDE DEF D
<1>4. s \in Injection(D, S)
  BY <1>3 DEF Injection, IsInjective
<1>5. s \in Surjection(D, S)
  BY <1>2, <1>4, FS_Injection
<1> QED BY <1>3, <1>5 DEF Surjection, Range, D

(* sort.Strings has a result: the names in the order of their ranks. *)
LEMMA SortExists ==
  ASSUME NEW S, IsFiniteSet(S), S \subseteq Nat
  PROVE  \E s \in SetToSeqs(S) : Ascending(s)
<1> DEFINE N == Cardinality(S)
           UpTo(x) == {z \in S : z <= x}
           rank == [x \in S |-> Cardinality(UpTo(x))]
<1>1. N \in Nat /\ IsFiniteSet(1..N) /\ Cardinality(1..N) = N /\ N = Cardinality(S)
  BY FS_CardinalityType, FS_Interval
<1>2. ASSUME NEW x \in S
      PROVE  IsFiniteSet(UpTo(x)) /\ Cardinality(UpTo(x)) \in 1..N
  <2>1. UpTo(x) \subseteq S /\ x \in UpTo(x)
    OBVIOUS
  <2> HIDE DEF UpTo
  <2>2. IsFiniteSet(UpTo(x)) /\ Cardinality(UpTo(x)) <= N
    BY <2>1, FS_Subset
  <2>3. Cardinality(UpTo(x)) \in Nat /\ Cardinality(UpTo(x)) # 0
    BY <2>1, <2>2, FS_CardinalityType, FS_EmptySet
  <2> QED BY <1>1, <2>2, <2>3
<1>3. ASSUME NEW x \in S, NEW y \in S, x < y PROVE rank[x] < rank[y]
  <2>1. UpTo(x) \subseteq UpTo(y) /\ y \in UpTo(y) /\ y \notin UpTo(x)
    <3>1. x \in Nat /\ y \in Nat /\ x < y /\ y <= y /\ ~(y <= x)
      BY <1>3
    <3>2. ASSUME NEW z \in S, z <= x PROVE z <= y
      <4>1. z \in Nat
        OBVIOUS
      <4> QED BY <3>1, <3>2, <4>1
    <3> QED BY <3>1, <3>2
  <2>2. rank[x] = Cardinality(UpTo(x)) /\ rank[y] = Cardinality(UpTo(y))
    OBVIOUS
  <2> HIDE DEF UpTo, rank
  <2>3. Cardinality(UpTo(x)) <= Cardinality(UpTo(y))
    BY <1>2, <2>1, FS_Subset
  <2>4. Cardinality(UpTo(x)) # Cardinality(UpTo(y))
    BY <1>2, <2>1, FS_Subset
  <2> QED BY <1>1, <1>2, <2>2, <2>3, <2>4
<1>4. rank \in [S -> 1..N]
  BY <1>2
<1> HIDE DEF rank, UpTo
<1>5. rank \in Injection(S, 1..N)
  <2> SUFFICES ASSUME NEW x \in S, NEW y \in S, rank[x] = rank[y] PROVE x = y
    BY <1>4 DEF Injection, IsInjective
  <2>1. x \in Nat /\ y \in Nat /\ rank[x] \in 1..N /\ rank[y] \in 1..N
    BY <1>4
  <2> QED BY <1>1, <1>3, <2>1
<1>6. \A i \in 1..N : \E x \in S : rank[x] = i
  <2> HIDE DEF N
  <2>1. rank \in Surjection(S, 1..N)
    BY <1>1, <1>5, FS_Injection
  <2> QED BY <2>1 DEF Surjection
<1> DEFINE s == [i \in 1..N |-> CHOOSE x \in S : rank[x] = i]
<1>7. \A i \in 1..N : s[i] \in S /\ rank[s[i]] = i
  BY <1>6
<1>8. s \in [1..N -> S]
  BY <1>7
<1> HIDE DEF s
<1>9. s \in SetToSeqs(S)
  BY <1>7, <1>8 DEF SetToSeqs
<1>10. Ascending(s)
  <2> SUFFICES ASSUME NEW i \in 1..N, NEW k \in 1..N, i < k PROVE s[i] < s[k]
    BY <1>8 DEF Ascending
  <2>1. s[i] \in Nat /\ s[k] \in Nat /\ rank[s[i]] = i /\ rank[s[k]] = k
    BY <1>7
  <2>2. ~(s[k] < s[i])
    BY <1>1, <1>3, <1>7, <2>1
  <2> QED BY <1>1, <2>1, <2>2
<1> QED BY <1>9, <1>10
(* And only one: the first place where two results differ would hold a     *)
(* name that the other has nowhere.  So SortStrings, which chooses one,    *)
(* leaves nothing to choose.                                               *)
LEMMA SortUnique ==
  ASSUME NEW S, IsFiniteSet(S), S \subseteq Nat,
         NEW s \in SetToSeqs(S), NEW t \in SetToSeqs(S), Ascending(s), Ascending(t)
  PROVE  s = t
<1> DEFINE D == 1..Cardinality(S)
           Differ == {i \in D : s[i] # t[i]}
<1>1. s \in [D -> S] /\ t \in [D -> S]
  BY DEF SetToSeqs
<1>2. \A x \in S : (\E i \in D : s[i] = x) /\ (\E i \in D : t[i] = x)
  <2>1. Range(s) = S /\ DOMAIN s = D /\ Range(t) = S /\ DOMAIN t = D
    BY SeqsCover
  <2> HIDE DEF D
  <2> QED BY <2>1 DEF Range
<1>3. D \subseteq Nat
  BY FS_CardinalityType
<1>4. /\ \A i, k \in D : i < k => s[i] < s[k] /\ t[i] < t[k]
      /\ \A i \in D : s[i] \in Nat /\ t[i] \in Nat
  BY <1>1 DEF Ascending
<1> HIDE DEF D
<1>5. ASSUME Differ # {} PROVE FALSE
  <2>1. PICK i \in D : s[i] # t[i] /\ \A k \in D : s[k] # t[k] => i <= k
    BY <1>3, <1>5, Smallest
  <2>2. PICK k \in D : t[k] = s[i]
    BY <1>1, <1>2
  <2>3. PICK l \in D : s[l] = t[i]
    BY <1>1, <1>2
  <2>4. i \in Nat /\ k \in Nat /\ l \in Nat
    BY <1>3
  <2>5. k > i
    <3>1. k # i
      BY <2>1, <2>2
    <3>2. k < i => s[k] = t[k] /\ s[k] < s[i]
      BY <1>4, <2>1, <2>4
    <3> QED BY <1>4, <2>2, <2>4, <3>1, <3>2
  <2>6. l > i
    <3>1. l # i
      BY <2>1, <2>3
    <3>2. l < i => s[l] = t[l] /\ t[l] < t[i]
      BY <1>4, <2>1, <2>4
    <3> QED BY <1>4, <2>3, <2>4, <3>1, <3>2
  <2>7. t[i] < s[i] /\ s[i] < t[i]
    BY <1>4, <2>2, <2>3, <2>4, <2>5, <2>6
  <2> QED BY <1>4, <2>7
<1> QED BY <1>1, <1>5
-----------------------------------------------------------------------------
(* What Load makes of a file, whatever the order of the map iteration.     *)
Sorted(f) == CHOOSE s \in SetToSeqs(ProfileNames(f)) : Ascending(s)

Loaded(f) == [ordered |-> Sorted(f), globs |-> f.globs, default |-> f.default]

Hits(f, j) == {i \in DOMAIN Sorted(f) : MatchesProfile(f.globs, Sorted(f)[i], j)}

AnswerOf(f, j) == IF Hits(f, j) = {} THEN f.default ELSE Sorted(f)[Min(Hits(f, j))]

(* The configuration in memory and every answer given so far are those of  *)
(* the file, which passed the validation.                                  *)
Faithful ==
  /\ file \in Files
  /\ cfg # NoConfig => cfg = Loaded(file) /\ Validate(file)
  /\ answer \in [JobNames -> Names \cup {NoAnswer}]
  /\ \A j \in JobNames : answer[j] # NoAnswer => Validate(file) /\ answer[j] = AnswerOf(file, j)

(* The profiles of a file are finitely many, and sorting them keeps them.  *)
LEMMA SortedProfiles ==
  ASSUME NEW f \in Files
  PROVE  /\ ProfileNames(f) \subseteq Names
         /\ Sorted(f) \in SetToSeqs(ProfileNames(f))
         /\ DOMAIN Sorted(f) \subseteq Nat /\ Range(Sorted(f)) = ProfileNames(f)
<1>1. PICK S \in SUBSET Names : f.order \in SetToSeqs(S)
  BY DEF Files, SetToAllKPermutations
<1>2. IsFiniteSet(S)
  BY <1>1, ClassifierAssumption, FS_Subset
<1>3. ProfileNames(f) = S
  BY <1>1, <1>2, SeqsCover DEF ProfileNames
<1>4. S \subseteq Nat
  BY <1>1, ClassifierAssumption
<1>5. Sorted(f) \in SetToSeqs(S)
  BY <1>2, <1>3, <1>4, SortExists DEF Sorted
<1>6. Range(Sorted(f)) = S /\ DOMAIN Sorted(f) = 1..Cardinality(S)
  BY <1>2, <1>5, SeqsCover
<1> QED BY <1>1, <1>3, <1>5, <1>6

(* The first profile that matches is a profile that matches. *)
LEMMA FirstHit ==
  ASSUME NEW f \in Files, NEW j \in JobNames
  PROVE  /\ Hits(f, j) # {} => /\ AnswerOf(f, j) \in ProfileNames(f)
                              /\ MatchesProfile(f.globs, AnswerOf(f, j), j)
         /\ Hits(f, j) = {} => /\ AnswerOf(f, j) = f.default
                              /\ \A n \in Names : ~MatchesProfile(f.globs, n, j)
<1>1. /\ DOMAIN Sorted(f) \subseteq Nat
      /\ \A n : n \in ProfileNames(f) <=> \E i \in DOMAIN Sorted(f) : Sorted(f)[i] = n
  BY SortedProfiles DEF Range
<1>2. ASSUME Hits(f, j) # {}
      PROVE  AnswerOf(f, j) \in ProfileNames(f) /\ MatchesProfile(f.globs, AnswerOf(f, j), j)
  <2>1. Hits(f, j) \subseteq Nat
    BY <1>1 DEF Hits
  <2>2. Min(Hits(f, j)) \in Hits(f, j)
    BY <1>2, <2>1, Smallest
  <2>3. AnswerOf(f, j) = Sorted(f)[Min(Hits(f, j))]
    BY <1>2 DEF AnswerOf
  <2> QED BY <1>1, <2>2, <2>3 DEF Hits
<1>3. ASSUME Hits(f, j) = {}, NEW n \in Names PROVE ~MatchesProfile(f.globs, n, j)
  <2>1. CASE n \in ProfileNames(f)
    BY <1>1, <1>3, <2>1 DEF Hits
  <2>2. CASE n \notin ProfileNames(f)
    BY <2>2 DEF Files, ProfileNames, MatchesProfile
  <2> QED BY <2>1, <2>2
<1> QED BY <1>2, <1>3 DEF AnswerOf

(* Loading the file in any order of its map, and classifying with it.      *)
LEMMA LoadAndClassify ==
  ASSUME file \in Files
  PROVE  /\ Load => cfg' = Loaded(file) /\ Validate(file)
         /\ \A j \in JobNames : cfg = Loaded(file) => Classify(j) = AnswerOf(file, j)
<1>1. ASSUME NEW names \in SetToSeqs(ProfileNames(file))
      PROVE  SortStrings(names) = Sorted(file)
  <2>1. IsFiniteSet(ProfileNames(file))
    BY SortedProfiles, ClassifierAssumption, FS_Subset
  <2>2. Range(names) = ProfileNames(file)
    BY <2>1, SeqsCover
  <2> QED BY <2>2 DEF SortStrings, Sorted, Ascending
<1>2. ASSUME NEW j \in JobNames, cfg = Loaded(file) PROVE Classify(j) = AnswerOf(file, j)
  <2>1. cfg.ordered = Sorted(file) /\ cfg.globs = file.globs /\ cfg.default = file.default
    BY <1>2 DEF Loaded
  <2> QED BY <2>1 DEF Classify, AnswerOf, Hits
<1> QED BY <1>1, <1>2 DEF Load, Loaded

LEMMA FaithfulInit == Init => Faithful
  BY DEF Init, Faithful

LEMMA FaithfulStep ==
  ASSUME Faithful, [Next]_vars
  PROVE  Faithful' /\ \A j \in JobNames : answer[j] # NoAnswer => answer'[j] = answer[j]
<1>1. CASE Load
  BY <1>1, LoadAndClassify DEF Faithful, Load
<1>2. CASE Restart
  BY <1>2 DEF Faithful, Restart
<1>3. ASSUME NEW j \in JobNames, ClassifyJob(j)
      PROVE  Faithful' /\ \A k \in JobNames : answer[k] # NoAnswer => answer'[k] = answer[k]
  <2>1. file \in Files /\ cfg = Loaded(file) /\ Validate(file) /\ UNCHANGED <<file, cfg>>
    BY <1>3 DEF Faithful, ClassifyJob
  <2>2. answer' = [answer EXCEPT ![j] = AnswerOf(file, j)]
    BY <1>3, <2>1, LoadAndClassify DEF ClassifyJob
  <2>3. AnswerOf(file, j) \in Names
    BY <2>1, FirstHit, SortedProfiles DEF Validate
  <2> QED BY <2>1, <2>2, <2>3 DEF Faithful
<1>4. CASE UNCHANGED vars
  BY <1>4 DEF vars, Faithful
<1> QED BY <1>1, <1>2, <1>3, <1>4 DEF Next

LEMMA FaithfulHolds == Spec => []Faithful
<1>1. Faithful /\ [Next]_vars => Faithful'
  BY FaithfulStep
<1> QED BY <1>1, FaithfulInit, PTL DEF Spec

(* Every answer names a configured profile, for any file that passes the   *)
(* validation: no assigned job is dropped for want of its profile.         *)
THEOREM ConfiguredCorrect == Spec => []AnswerConfigured
<1>1. Faithful => AnswerConfigured
  <2> SUFFICES ASSUME Faithful, NEW j \in JobNames, answer[j] # NoAnswer
               PROVE  answer[j] \in ProfileNames(file)
    BY DEF AnswerConfigured
  <2>1. file \in Files /\ Validate(file) /\ answer[j] = AnswerOf(file, j)
    BY DEF Faithful
  <2> QED BY <2>1, FirstHit DEF Validate
<1> QED BY <1>1, FaithfulHolds, PTL

(* A job gets a profile that matches it if there is one, else the default. *)
THEOREM MatchesCorrect == Spec => []AnswerMatches
<1>1. Faithful => AnswerMatches
  <2> SUFFICES ASSUME Faithful, NEW j \in JobNames, answer[j] # NoAnswer
               PROVE  \/ MatchesProfile(file.globs, answer[j], j)
                      \/ /\ answer[j] = file.default
                         /\ \A n \in Names : ~MatchesProfile(file.globs, n, j)
    BY DEF AnswerMatches
  <2>1. file \in Files /\ answer[j] = AnswerOf(file, j)
    BY DEF Faithful
  <2> QED BY <2>1, FirstHit
<1> QED BY <1>1, FaithfulHolds, PTL

(* Whatever order the map iteration has at each start, and however the     *)
(* globs overlap, a job name keeps the answer it once got.                 *)
THEOREM StableCorrect == Spec => AnswerStable
<1>1. Faithful /\ [Next]_vars
        => [\A j \in JobNames : answer[j] # NoAnswer => answer'[j] = answer[j]]_vars
  BY FaithfulStep
<1> QED BY <1>1, FaithfulHolds, PTL DEF Spec, AnswerStable
=============================================================================
