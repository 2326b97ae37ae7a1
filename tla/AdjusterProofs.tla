--------------------------- MODULE AdjusterProofs ---------------------------
(***************************************************************************)
(* The allocations of the adaptive loop stay between the baseline and the  *)
(* ceiling, and do not shrink after a run that was recorded with all it    *)
(* had, for every factor, window, threshold and workload, and however the  *)
(* usage is measured.                                                      *)
(***************************************************************************)
EXTENDS Adjuster, FiniteSetTheorems, TLAPS

(* A product grows with its first factor. *)
LEMMA ProductGrows ==
  ASSUME NEW a \in Int, NEW b \in Int, NEW d \in Nat, a <= b
  PROVE  a * d <= b * d
  BY SMT

(* A quotient of natural numbers is one. *)
LEMMA QuotientNat ==
  ASSUME NEW n \in Nat, NEW d \in Nat \ {0}
  PROVE  n \div d \in Nat
  BY SMT

(* A clamped fraction lies between the bounds. *)
LEMMA ClampedInBounds ==
  ASSUME NEW n \in Nat, NEW d \in Nat \ {0}, Baseline <= Ceiling
  PROVE  \E m \in Nat, e \in Nat \ {0} :
           /\ Clamped(<<n, d>>) = <<m, e>>
           /\ Baseline * e <= m /\ m <= Ceiling * e
<1>1. Baseline \in Nat /\ Ceiling \in Nat
  BY AdjusterAssumption DEF Ceiling
<1>2. CASE n < Baseline * d
  <2>1. AtLeast(<<n, d>>, Baseline) = <<Baseline, 1>>
    BY <1>2 DEF AtLeast
  <2>2. ~(Baseline > Ceiling * 1)
    BY <1>1
  <2>3. Clamped(<<n, d>>) = <<Baseline, 1>>
    BY <2>1, <2>2 DEF Clamped, AtMost
  <2> QED BY <1>1, <2>3
<1>3. CASE ~(n < Baseline * d)
  <2>1. AtLeast(<<n, d>>, Baseline) = <<n, d>>
    BY <1>3 DEF AtLeast
  <2>2. CASE n > Ceiling * d
    <3>1. Clamped(<<n, d>>) = <<Ceiling, 1>>
      BY <2>1, <2>2 DEF Clamped, AtMost
    <3> QED BY <1>1, <3>1
  <2>3. CASE ~(n > Ceiling * d)
    <3>1. Clamped(<<n, d>>) = <<n, d>>
      BY <2>1, <2>3 DEF Clamped, AtMost
    <3>2. Baseline * d \in Nat /\ Ceiling * d \in Nat
      BY <1>1
    <3>3. Baseline * d <= n /\ n <= Ceiling * d
      BY <1>3, <2>3, <3>2
    <3> QED BY <3>1, <3>3
  <2> QED BY <2>2, <2>3
<1> QED BY <1>2, <1>3

(* Rounding does not go below a whole number of units. *)
LEMMA FormattedKeeps ==
  ASSUME NEW n \in Nat, NEW d \in Nat \ {0}, NEW a \in Nat, a * d <= n,
         NEW q \in Formatted(<<n, d>>)
  PROVE  q >= a
<1>1. q \in Nat
  BY AdjusterAssumption DEF Formatted, Ceiling
<1>2. 2 * n - d <= 2 * q * d \/ n < (q + 1) * d
  BY DEF Formatted
<1>3. ASSUME q + 1 <= a PROVE FALSE
  <2>1. (q + 1) * d <= a * d
    BY <1>1, <1>3, ProductGrows
  <2>2. (q + 1) * d = q * d + d /\ 2 * q * d = 2 * (q * d) /\ q * d \in Nat /\ a * d \in Nat
    BY <1>1
  <2> DEFINE p == q * d
  <2>3. p + d <= n /\ p \in Nat
    BY <2>1, <2>2
  <2>4. 2 * n - d <= 2 * p \/ n < p + d
    BY <1>2, <2>2
  <2> HIDE DEF p
  <2> QED BY <2>3, <2>4
<1> QED BY <1>1, <1>3

(* So it does not leave the bounds, which are whole units. *)
LEMMA FormattedInBounds ==
  ASSUME NEW n \in Nat, NEW d \in Nat \ {0}, Baseline * d <= n,
         NEW q \in Formatted(<<n, d>>)
  PROVE  q \in Baseline..Ceiling
<1>1. Baseline \in Nat /\ Ceiling \in Nat
  BY AdjusterAssumption DEF Ceiling
<1>2. q \in 0..Ceiling
  BY DEF Formatted
<1> QED BY <1>1, <1>2, FormattedKeeps

(* Whatever the last rows say, Adjust answers within the bounds. *)
LEMMA AdjustInBounds ==
  ASSUME NEW history \in Seq(Row), Baseline <= Ceiling, NEW a \in Adjust(history)
  PROVE  a \in Baseline..Ceiling
<1>1. Baseline \in Nat \ {0} /\ Ceiling \in Nat /\ HistoryWindow \in Nat \ {0}
      /\ ScaleNum \in Nat \ {0} /\ ScaleDen \in Nat \ {0}
  BY AdjusterAssumption DEF Ceiling
<1>2. CASE Len(history) < HistoryWindow
  BY <1>1, <1>2 DEF Adjust
<1>3. CASE ~(Len(history) < HistoryWindow)
  <2>1. history[1] \in Row
    BY <1>1, <1>3
  <2>2. LastAllocated(history) \in Nat
    BY <1>1, <2>1 DEF LastAllocated, Row
  <2>3. PICK n \in Nat, d \in Nat \ {0} : Scaled(history) = <<n, d>>
    <3>1. LastAllocated(history) * ScaleNum \in Nat /\ LastAllocated(history) * ScaleDen \in Nat
      BY <1>1, <2>2
    <3>2. CASE Above(history)
      BY <1>1, <3>1, <3>2 DEF Scaled
    <3>3. CASE ~Above(history) /\ Below(history)
      BY <1>1, <3>1, <3>3 DEF Scaled
    <3>4. CASE ~Above(history) /\ ~Below(history)
      BY <2>2, <3>4 DEF Scaled
    <3> QED BY <3>2, <3>3, <3>4
  <2>4. a \in Formatted(Clamped(<<n, d>>))
    BY <1>3, <2>3 DEF Adjust
  <2>5. PICK m \in Nat, e \in Nat \ {0} :
          Clamped(<<n, d>>) = <<m, e>> /\ Baseline * e <= m
    BY ClampedInBounds
  <2> QED BY <2>4, <2>5, FormattedInBounds
<1> QED BY <1>2, <1>3
-----------------------------------------------------------------------------

LEMMA TypeInit == Init => TypeOK
  BY AdjusterAssumption DEF Init, TypeOK

LEMMA AdjustNat ==
  ASSUME NEW history, NEW a \in Adjust(history)
  PROVE  a \in Nat
<1>1. Baseline \in Nat /\ Ceiling \in Nat
  BY AdjusterAssumption DEF Ceiling
<1> QED BY <1>1 DEF Adjust, Formatted

LEMMA TypeProvision ==
  ASSUME TypeOK, NEW r \in Runners, Provision(r)
  PROVE  TypeOK'
<1>1. PICK a \in Nat : running' = [running EXCEPT ![r] = a]
  BY AdjustNat, AdjusterAssumption DEF Provision
<1> QED BY <1>1 DEF TypeOK, Provision

(* What is recorded is a number, over whatever time it is measured. *)
LEMMA FiguresNat ==
  ASSUME TypeOK, NEW allocated \in Nat
  PROVE  Figures(allocated) \subseteq Nat
<1>1. Usage(allocated) \in Nat
  BY AdjusterAssumption DEF TypeOK, Usage
<1>2. ASSUME NEW w \in Windows PROVE Recorded(allocated, w) \in Nat
  <2>1. w[1] \in Nat /\ w[2] \in Nat \ {0}
    BY AdjusterAssumption
  <2>2. Usage(allocated) * w[1] \in Nat
    BY <1>1, <2>1
  <2>3. (Usage(allocated) * w[1]) \div w[2] \in Nat
    BY <2>1, <2>2, QuotientNat
  <2> QED BY <1>1, <2>3 DEF Recorded
<1> QED BY <1>2 DEF Figures

LEMMA TypeRecord ==
  ASSUME TypeOK, NEW r \in Runners, Record(r)
  PROVE  TypeOK'
<1>1. running[r] \in Nat
  BY DEF TypeOK, Record
<1>2. PICK used \in Nat :
        LET all == <<[allocated |-> running[r], used |-> used]>> \o rows
        IN rows' = IF Len(all) > HistoryWindow THEN Front(all) ELSE all
  <2>1. Figures(running[r]) \subseteq Nat
    BY <1>1, FiguresNat
  <2> QED BY <2>1 DEF Record, WithRow
<1> DEFINE all == <<[allocated |-> running[r], used |-> used]>> \o rows
<1>3. all \in Seq(Row) /\ Len(all) = Len(rows) + 1 /\ Len(rows) \in Nat
  <2>1. [allocated |-> running[r], used |-> used] \in Row
    BY <1>1 DEF Row
  <2>2. <<[allocated |-> running[r], used |-> used]>> \in Seq(Row)
    BY <2>1
  <2> QED BY <2>2 DEF TypeOK
<1>4. rows' = IF Len(all) > HistoryWindow THEN Front(all) ELSE all
  BY <1>2
<1> HIDE DEF all
<1>5. Front(all) \in Seq(Row) /\ Len(Front(all)) = Len(rows)
  BY <1>3 DEF Front
<1>6. rows' \in Seq(Row) /\ Len(rows') <= HistoryWindow
  BY <1>3, <1>4, <1>5, AdjusterAssumption DEF TypeOK
<1> QED BY <1>6 DEF TypeOK, Record

(* The rows, the allocations and the demand keep their types, and the      *)
(* history never has more than HistoryWindow rows.                         *)
THEOREM TypeCorrect == Spec => []TypeOK
<1>1. TypeOK /\ [Next]_vars => TypeOK'
  <2> SUFFICES ASSUME TypeOK, [Next]_vars PROVE TypeOK'
    OBVIOUS
  <2>1. ASSUME NEW r \in Runners, RecordFails(r) PROVE TypeOK'
    BY <2>1 DEF TypeOK, RecordFails
  <2>2. CASE WorkloadChanges
    BY <2>2 DEF TypeOK, WorkloadChanges
  <2>3. CASE UNCHANGED vars
    BY <2>3 DEF TypeOK, vars
  <2> QED BY <2>1, <2>2, <2>3, TypeProvision, TypeRecord DEF Next
<1> QED BY <1>1, TypeInit, PTL DEF Spec

(* With a ceiling that is not below the baseline, no runner is ever        *)
(* started with less than the baseline or more than the ceiling, whatever  *)
(* rows were written before, lost, or written half empty.                  *)
THEOREM BoundsCorrect == Baseline <= Ceiling => (Spec => []WithinBounds)
<1> SUFFICES ASSUME Baseline <= Ceiling PROVE Spec => []WithinBounds
  OBVIOUS
<1>1. Init => WithinBounds
  BY DEF Init, WithinBounds
<1>2. TypeOK /\ WithinBounds /\ [Next]_vars => WithinBounds'
  <2> SUFFICES ASSUME TypeOK, WithinBounds, [Next]_vars PROVE WithinBounds'
    OBVIOUS
  <2>1. ASSUME NEW r \in Runners, Provision(r) PROVE WithinBounds'
    <3>1. Baseline \in Baseline..Ceiling
      BY AdjusterAssumption DEF Ceiling
    <3>2. PICK a \in Baseline..Ceiling : running' = [running EXCEPT ![r] = a]
      BY <2>1, <3>1, AdjustInBounds DEF Provision, TypeOK
    <3> QED BY <3>2 DEF WithinBounds, TypeOK
  <2>2. ASSUME NEW r \in Runners, Record(r) \/ RecordFails(r) PROVE WithinBounds'
    BY <2>2 DEF WithinBounds, TypeOK, Record, RecordFails
  <2>3. CASE WorkloadChanges \/ UNCHANGED vars
    BY <2>3 DEF WithinBounds, WorkloadChanges, vars
  <2> QED BY <2>1, <2>2, <2>3 DEF Next
<1> QED BY <1>1, <1>2, TypeCorrect, PTL DEF Spec
-----------------------------------------------------------------------------
(* Induction on a set of numbers. *)
LEMMA SetInduction ==
  ASSUME NEW T, 0 \in T, \A k \in Nat : k \in T => k + 1 \in T
  PROVE  Nat \subseteq T
<1> DEFINE Missing == Nat \ T
           Below0(k) == 0..k
           F == {Below0(k) : k \in Missing}
           R == StrictSubsetOrdering(Nat)
<1> SUFFICES ASSUME Missing # {} PROVE FALSE
  OBVIOUS
<1>1. IsWellFoundedOn(R, FiniteSubsetsOf(Nat))
  BY FS_StrictSubsetOrderingWellFounded
<1>2. F \subseteq FiniteSubsetsOf(Nat) /\ F # {}
  <2>1. ASSUME NEW k \in Missing PROVE Below0(k) \in FiniteSubsetsOf(Nat)
    <3>1. 0 \in Int /\ k \in Int /\ Below0(k) \subseteq Nat
      OBVIOUS
    <3> QED BY <3>1, FS_Interval DEF FiniteSubsetsOf
  <2> QED BY <2>1
<1>3. PICK B \in F : \A C \in F : <<C, B>> \notin R
  <2> HIDE DEF F, R
  <2> QED BY <1>1, <1>2, WFMin
<1>4. PICK x \in Missing : B = Below0(x)
  BY <1>3
<1>5. x - 1 \in Missing
  OBVIOUS
<1>6. Below0(x - 1) \subseteq Below0(x) /\ x \in Below0(x) /\ x \notin Below0(x - 1)
  BY <1>5
<1>7. <<Below0(x - 1), Below0(x)>> \in R
  BY <1>6 DEF StrictSubsetOrdering
<1> QED BY <1>3, <1>4, <1>5, <1>7

(* The recursion of Sums has a solution, so that Sums is one. *)
LEMMA SumsDefined ==
  ASSUME NEW history \in Seq(Row)
  PROVE  \A i \in 0..Len(history) :
           Sums(history)[i]
             = IF i = 0 THEN <<0, 1>> ELSE Added(Sums(history)[i - 1], history[i])
<1> DEFINE Solves(f, n) ==
             f = [i \in 0..n |->
                    IF i = 0 THEN <<0, 1>> ELSE Added(f[i - 1], history[i])]
           T == {n \in Nat : \E f : Solves(f, n)}
<1>1. 0 \in T
  <2> DEFINE f == [i \in 0..0 |-> <<0, 1>>]
  <2>1. \A i \in 0..0 :
          f[i] = IF i = 0 THEN <<0, 1>> ELSE Added(f[i - 1], history[i])
    OBVIOUS
  <2>2. Solves(f, 0)
    BY <2>1, Zenon
  <2> QED BY <2>2
<1>2. ASSUME NEW k \in Nat, k \in T PROVE k + 1 \in T
  <2>1. PICK f : Solves(f, k)
    BY <1>2
  <2> DEFINE g == [i \in 0..(k + 1) |-> IF i = k + 1 THEN Added(f[k], history[k + 1]) ELSE f[i]]
  <2>2. \A i \in 0..(k + 1) :
          g[i] = IF i = 0 THEN <<0, 1>> ELSE Added(g[i - 1], history[i])
    <3> SUFFICES ASSUME NEW i \in 0..(k + 1)
                 PROVE  g[i] = IF i = 0 THEN <<0, 1>> ELSE Added(g[i - 1], history[i])
      OBVIOUS
    <3>1. CASE i = k + 1
      <4>1. i - 1 = k /\ k \in 0..(k + 1) /\ k # k + 1
        BY <3>1
      <4> QED BY <3>1, <4>1
    <3>2. CASE i \in 0..k
      <4>1. f[i] = IF i = 0 THEN <<0, 1>> ELSE Added(f[i - 1], history[i])
        BY <2>1, <3>2
      <4>2. g[i] = f[i] /\ (i # 0 => g[i - 1] = f[i - 1])
        BY <3>2
      <4> QED BY <4>1, <4>2
    <3> QED BY <3>1, <3>2
  <2>3. Solves(g, k + 1)
    BY <2>2, Zenon
  <2>4. \E h : Solves(h, k + 1)
    <3> HIDE DEF Solves, g
    <3> QED BY <2>3
  <2>5. k + 1 \in Nat
    OBVIOUS
  <2> HIDE DEF Solves
  <2> QED BY <2>4, <2>5
<1>3. Nat \subseteq T
  <2> HIDE DEF T
  <2> QED BY <1>1, <1>2, SetInduction
<1>4. Len(history) \in T
  <2> HIDE DEF T
  <2> QED BY <1>3
<1>5. \E f : Solves(f, Len(history))
  BY <1>4
<1>6. Solves(Sums(history), Len(history))
  <2>1. Sums(history) = CHOOSE f : Solves(f, Len(history))
    BY DEF Sums
  <2> HIDE DEF Solves
  <2> QED BY <1>5, <2>1, Zenon
<1> QED BY <1>6, Zenon

(* The sum of some utilizations is a fraction that is at least 1. *)
Enough(sum) == \E p \in Nat, q \in Nat \ {0} : sum = <<p, q>> /\ q <= p

LEMMA AddedEnough ==
  ASSUME NEW sum, Enough(sum), NEW row \in Row
  PROVE  Enough(Added(sum, row))
<1>1. PICK p \in Nat, q \in Nat \ {0} : sum = <<p, q>> /\ q <= p
  BY DEF Enough
<1>2. row.allocated \in Nat /\ row.used \in Nat
  BY DEF Row
<1>3. CASE row.allocated > 0
  <2> DEFINE a == row.allocated
             u == row.used
  <2>1. Added(sum, row) = <<p * a + u * q, q * a>>
    BY <1>1, <1>3 DEF Added
  <2>2. q * a <= p * a /\ q * a \in Nat /\ p * a \in Nat /\ u * q \in Nat
    BY <1>1, <1>2, ProductGrows
  <2>3. q * a # 0
    <3>1. 1 * a <= q * a
      BY <1>1, <1>2, ProductGrows
    <3> QED BY <1>2, <1>3, <2>2, <3>1
  <2> DEFINE pa == p * a
             qa == q * a
             uq == u * q
  <2>4. qa <= pa + uq /\ pa + uq \in Nat /\ qa \in Nat \ {0}
    <3> HIDE DEF pa, qa, uq
    <3>1. qa \in Nat /\ pa \in Nat /\ uq \in Nat /\ qa <= pa /\ qa # 0
      BY <2>2, <2>3 DEF pa, qa, uq
    <3> QED BY <3>1
  <2>5. Added(sum, row) = <<pa + uq, qa>>
    BY <2>1
  <2> HIDE DEF pa, qa, uq
  <2> QED BY <2>4, <2>5 DEF Enough
<1>4. CASE ~(row.allocated > 0)
  BY <1>4 DEF Added
<1> QED BY <1>3, <1>4

(* A saturated last run alone makes the sum of the utilizations 1. *)
LEMMA SaturatedEnough ==
  ASSUME NEW history \in Seq(Row), Len(history) > 0,
         history[1].used >= history[1].allocated, history[1].allocated > 0
  PROVE  Enough(Utilization(history))
<1> DEFINE T == {n \in Nat : n + 1 <= Len(history) => Enough(Sums(history)[n + 1])}
<1>1. Len(history) \in Nat /\ history[1] \in Row
  OBVIOUS
<1>2. 0 \in T
  <2>1. 0 \in 0..Len(history) /\ 1 \in 0..Len(history)
    BY <1>1
  <2>2. Sums(history)[0] = <<0, 1>> /\ Sums(history)[1] = Added(Sums(history)[0], history[1])
    BY <2>1, SumsDefined
  <2> DEFINE a == history[1].allocated
             u == history[1].used
  <2>3. a \in Nat \ {0} /\ u \in Nat /\ a <= u
    BY <1>1 DEF Row
  <2>4. Sums(history)[1] = <<0 * a + u * 1, 1 * a>>
    BY <2>2, <2>3 DEF Added
  <2>5. Sums(history)[1] = <<u, a>>
    BY <2>3, <2>4
  <2>6. Enough(<<u, a>>)
    <3> HIDE DEF a, u
    <3> QED BY <2>3 DEF Enough
  <2> QED BY <2>5, <2>6
<1>3. ASSUME NEW k \in Nat, k \in T PROVE k + 1 \in T
  <2> SUFFICES ASSUME k + 2 <= Len(history) PROVE Enough(Sums(history)[k + 2])
    OBVIOUS
  <2>1. k + 2 \in 0..Len(history) /\ k + 2 # 0 /\ (k + 2) - 1 = k + 1
        /\ k + 1 <= Len(history) /\ history[k + 2] \in Row
    BY <1>1
  <2>2. Sums(history)[k + 2] = Added(Sums(history)[k + 1], history[k + 2])
    BY <2>1, SumsDefined
  <2>3. Enough(Sums(history)[k + 1])
    BY <1>3, <2>1
  <2> QED BY <2>1, <2>2, <2>3, AddedEnough
<1>4. Len(history) - 1 \in T
  <2> HIDE DEF T
  <2>1. Nat \subseteq T
    BY <1>2, <1>3, SetInduction
  <2> QED BY <1>1, <2>1
<1> QED BY <1>1, <1>4 DEF Utilization

(* Clamping does not go below a number of units that is not above the      *)
(* ceiling.                                                                *)
LEMMA ClampedKeeps ==
  ASSUME NEW n \in Nat, NEW d \in Nat \ {0}, NEW a \in Nat, a * d <= n, a <= Ceiling
  PROVE  \E m \in Nat, e \in Nat \ {0} : Clamped(<<n, d>>) = <<m, e>> /\ a * e <= m
<1>1. Baseline \in Nat /\ Ceiling \in Nat
  BY AdjusterAssumption DEF Ceiling
<1>2. PICK m \in Nat, e \in Nat \ {0} :
        AtLeast(<<n, d>>, Baseline) = <<m, e>> /\ a * e <= m
  <2>1. CASE n < Baseline * d
    <3>1. AtLeast(<<n, d>>, Baseline) = <<Baseline, 1>>
      BY <2>1 DEF AtLeast
    <3>2. a <= Baseline
      <4> SUFFICES ASSUME Baseline <= a PROVE FALSE
        BY <1>1, <2>1
      <4>1. Baseline * d <= a * d
        BY <1>1, ProductGrows
      <4>2. Baseline * d \in Nat /\ a * d \in Nat
        BY <1>1
      <4> QED BY <2>1, <4>1, <4>2
    <3> QED BY <1>1, <3>1, <3>2
  <2>2. CASE ~(n < Baseline * d)
    BY <2>2 DEF AtLeast
  <2> QED BY <2>1, <2>2
<1>3. CASE m > Ceiling * e
  <2>1. Clamped(<<n, d>>) = <<Ceiling, 1>>
    BY <1>2, <1>3 DEF Clamped, AtMost
  <2> QED BY <1>1, <2>1
<1>4. CASE ~(m > Ceiling * e)
  <2>1. Clamped(<<n, d>>) = <<m, e>>
    BY <1>2, <1>4 DEF Clamped, AtMost
  <2> QED BY <1>2, <2>1
<1> QED BY <1>3, <1>4

(* What Adjust answers is not below a last allocation that was used up. *)
LEMMA AdjustKeeps ==
  ASSUME NEW history \in Seq(Row), Len(history) = HistoryWindow,
         HistoryWindow * ScaleDownPct <= 100,
         history[1].used >= history[1].allocated, history[1].allocated <= Ceiling,
         NEW answer \in Adjust(history)
  PROVE  answer >= history[1].allocated
<1> DEFINE a == history[1].allocated
<1>1. Baseline \in Nat \ {0} /\ Ceiling \in Nat /\ HistoryWindow \in Nat \ {0}
      /\ ScaleDownPct \in Nat /\ ScaleNum \in Nat \ {0} /\ ScaleDen \in Nat \ {0}
      /\ ScaleDen <= ScaleNum
  BY AdjusterAssumption DEF Ceiling
<1>2. a \in Nat /\ answer \in Nat
  <2>1. history[1] \in Row
    BY <1>1
  <2> QED BY <2>1, AdjustNat DEF Row
<1>3. CASE a = 0
  BY <1>2, <1>3
<1>4. CASE a # 0
  <2>1. ~Below(history)
    <3>1. PICK p \in Nat, q \in Nat \ {0} : Utilization(history) = <<p, q>> /\ q <= p
      BY <1>1, <1>2, <1>4, SaturatedEnough DEF Enough
    <3> DEFINE share == ScaleDownPct * HistoryWindow
    <3>2. share \in Nat /\ share <= 100
      BY <1>1
    <3> HIDE DEF share
    <3>3. share * q <= 100 * q
      BY <3>2, ProductGrows
    <3>4. 100 * q <= 100 * p /\ share * q \in Nat
      BY <3>1, <3>2
    <3>5. ~(100 * p < share * q)
      BY <3>3, <3>4
    <3> USE DEF share
    <3> QED BY <3>1, <3>5 DEF Below
  <2>2. LastAllocated(history) = a
    BY <1>4 DEF LastAllocated
  <2>3. PICK n \in Nat, d \in Nat \ {0} : Scaled(history) = <<n, d>> /\ a * d <= n
    <3>1. CASE Above(history)
      <4>1. Scaled(history) = <<a * ScaleNum, ScaleDen>>
        BY <2>2, <3>1 DEF Scaled
      <4>2. ScaleDen * a <= ScaleNum * a /\ a * ScaleNum \in Nat
        BY <1>1, <1>2, ProductGrows
      <4>3. a * ScaleDen <= a * ScaleNum
        BY <1>1, <1>2, <4>2
      <4> QED BY <1>1, <4>1, <4>2, <4>3
    <3>2. CASE ~Above(history)
      BY <1>2, <2>1, <2>2, <3>2 DEF Scaled
    <3> QED BY <3>1, <3>2
  <2>4. PICK m \in Nat, e \in Nat \ {0} :
          Clamped(<<n, d>>) = <<m, e>> /\ a * e <= m
    BY <1>1, <1>2, <2>3, ClampedKeeps
  <2>5. answer \in Formatted(<<m, e>>)
    BY <2>3, <2>4 DEF Adjust
  <2> QED BY <1>2, <2>4, <2>5, FormattedKeeps
<1> QED BY <1>3, <1>4
-----------------------------------------------------------------------------
(* Rows are of allocations, and these do not exceed the ceiling. *)
RowsBounded == \A i \in 1..Len(rows) : rows[i].allocated <= Ceiling

LEMMA RowsBoundedHolds ==
  ASSUME Baseline <= Ceiling
  PROVE  Spec => []RowsBounded
<1>1. Init => RowsBounded
  BY DEF Init, RowsBounded
<1>2. TypeOK /\ WithinBounds /\ RowsBounded /\ [Next]_vars => RowsBounded'
  <2> SUFFICES ASSUME TypeOK, WithinBounds, RowsBounded, [Next]_vars PROVE RowsBounded'
    OBVIOUS
  <2>1. ASSUME NEW r \in Runners, Record(r) PROVE RowsBounded'
    <3>1. PICK used : rows' = WithRow(running[r], used)
      BY <2>1 DEF Record
    <3>2. running[r] <= Ceiling
      BY <2>1, AdjusterAssumption DEF Record, WithinBounds, Ceiling
    <3> DEFINE row == [allocated |-> running[r], used |-> used]
               all == <<row>> \o rows
    <3>3. Len(all) = Len(rows) + 1 /\ Len(rows) \in Nat
          /\ \A i \in 1..Len(all) : all[i] = IF i = 1 THEN row ELSE rows[i - 1]
      BY DEF TypeOK
    <3>4. \A i \in 1..Len(all) : all[i].allocated <= Ceiling
      BY <3>2, <3>3 DEF RowsBounded
    <3>5. rows' = IF Len(all) > HistoryWindow THEN Front(all) ELSE all
      BY <3>1 DEF WithRow
    <3> HIDE DEF all
    <3>6. Len(Front(all)) = Len(rows) /\ \A i \in 1..Len(rows) : Front(all)[i] = all[i]
      BY <3>3 DEF Front
    <3> QED BY <3>3, <3>4, <3>5, <3>6 DEF RowsBounded
  <2>2. ASSUME NEW r \in Runners, Provision(r) \/ RecordFails(r) PROVE RowsBounded'
    BY <2>2 DEF RowsBounded, Provision, RecordFails
  <2>3. CASE WorkloadChanges \/ UNCHANGED vars
    BY <2>3 DEF RowsBounded, WorkloadChanges, vars
  <2> QED BY <2>1, <2>2, <2>3 DEF Next
<1> QED BY <1>1, <1>2, TypeCorrect, BoundsCorrect, PTL DEF Spec

(* A run recorded with all it had, or with more, is not followed by a      *)
(* smaller allocation, if its share of the window reaches the lower        *)
(* threshold, the ceiling is not below the baseline and the history can be *)
(* read; whatever the other rows are, in whatever order runners finish and *)
(* over whatever time each was measured.                                   *)
THEOREM NeverShrinks ==
  ASSUME Baseline <= Ceiling, HistoryWindow * ScaleDownPct <= 100, "history" \notin Faults
  PROVE  Spec => SaturatedNeverShrinks
<1>1. TypeOK /\ RowsBounded /\ [Next]_vars
        => [\A r \in Runners :
              /\ Provision(r)
              /\ Len(rows) = HistoryWindow /\ rows[1].used >= rows[1].allocated
              => running'[r] >= rows[1].allocated]_vars
  <2> SUFFICES ASSUME TypeOK, RowsBounded, NEW r \in Runners, Provision(r),
                      Len(rows) = HistoryWindow, rows[1].used >= rows[1].allocated
               PROVE  running'[r] >= rows[1].allocated
    OBVIOUS
  <2>1. PICK a \in Adjust(rows) : running' = [running EXCEPT ![r] = a]
    BY DEF Provision
  <2>2. rows \in Seq(Row) /\ rows[1].allocated <= Ceiling
    BY AdjusterAssumption DEF TypeOK, RowsBounded
  <2>3. a >= rows[1].allocated
    BY <2>2, AdjustKeeps
  <2> QED BY <2>1, <2>3 DEF TypeOK
<1> QED BY <1>1, TypeCorrect, RowsBoundedHolds, PTL DEF Spec, SaturatedNeverShrinks
=============================================================================
