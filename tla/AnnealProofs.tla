---------------------------- MODULE AnnealProofs ----------------------------
(***************************************************************************)
(* The integer annealers are Metropolis walks, for every graph that they   *)
(* accept and all thresholds: the packed one in every lane of every word,  *)
(* the scalar one although it decides from a cache.  The ordinary annealer *)
(* makes the same walk in either arithmetic, and a job of the SA sampler   *)
(* hands over the walks of its reads, whichever kernel it picked.          *)
(***************************************************************************)
EXTENDS SaSampler, FiniteSetTheorems, SequenceTheorems, SumProofs, TLAPS

-----------------------------------------------------------------------------
(* Rows and fields.                                                        *)

LEMMA CountSplit ==
  ASSUME NEW A, NEW B, IsFiniteSet(A \cup B), A \cap B = {}
  PROVE  /\ IsFiniteSet(A) /\ IsFiniteSet(B)
         /\ Cardinality(A) \in Nat /\ Cardinality(B) \in Nat
         /\ Cardinality(A \cup B) = Cardinality(A) + Cardinality(B)
<1>1. A \in SUBSET (A \cup B) /\ B \in SUBSET (A \cup B)
  OBVIOUS
<1>2. IsFiniteSet(A) /\ IsFiniteSet(B)
  BY <1>1, FS_Subset
<1>3. /\ Cardinality(A) \in Nat /\ Cardinality(B) \in Nat
  BY <1>2, FS_CardinalityType
<1>4. Cardinality(A \cup B) = Cardinality(A) + Cardinality(B) - Cardinality(A \cap B)
  BY <1>2, FS_Union
<1>5. Cardinality({}) = 0
  BY FS_EmptySet
<1>6. Cardinality(A \cup B) = Cardinality(A) + Cardinality(B) - 0
  BY <1>4, <1>5, Zenon
<1> QED
  BY <1>2, <1>3, <1>6

LEMMA RowFinite ==
  ASSUME NEW p \in Problem, NEW v
  PROVE  /\ Row(p, v) \subseteq DOMAIN p.bonds
         /\ IsFiniteSet(Row(p, v))
         /\ Degree(p, v) \in Nat
<1>1. DOMAIN p.bonds = 1 .. Len(p.bonds) /\ Len(p.bonds) \in Nat
  BY DEF Problem
<1>2. IsFiniteSet(DOMAIN p.bonds)
  <2>1. IsFiniteSet(1 .. Len(p.bonds))
    <3>1. 1 \in Int /\ Len(p.bonds) \in Int
      BY <1>1
    <3> QED
      BY <3>1, FS_Interval, Zenon
  <2> QED
    BY <1>1, <2>1
<1>3. Row(p, v) \subseteq DOMAIN p.bonds
  BY DEF Row
<1> QED
  BY <1>2, <1>3, FS_Subset, FS_CardinalityType DEF Degree

\* A bond of a row pulls by one.
LEMMA PullIsUnit ==
  ASSUME NEW p \in Problem, Qualifies(p), NEW v \in Nodes, NEW s \in States,
         NEW k \in Row(p, v)
  PROVE  OtherEnd(p, k, v) \in Nodes /\ Pull(p, k, v, s) \in {-1, 1}
<1>1. k \in DOMAIN p.bonds /\ Kept(p, k) /\ v \in {p.bonds[k].u, p.bonds[k].v}
  BY DEF Row, Joins
<1>2. p.bonds[k].j \in {-1, 1}
  BY <1>1 DEF Qualifies
<1>3. OtherEnd(p, k, v) \in Nodes
  BY <1>1 DEF OtherEnd, Kept
<1>4. s[OtherEnd(p, k, v)] \in {-1, 1}
  BY <1>3 DEF States
<1> QED
  BY <1>2, <1>3, <1>4 DEF Pull

\* The bonds that pull the spin of v the other way, with the field as one more.
SatisfiedBonds(p, v, s) == {k \in Row(p, v) : s[v] * Pull(p, k, v, s) = -1}
SatisfiedCount(p, v, s) ==
  Cardinality(SatisfiedBonds(p, v, s)) + (IF p.h[v] * s[v] = -1 THEN 1 ELSE 0)

\* The cost of a flip, from the number of satisfied bonds (sa_msc.rs 36-55).
LEMMA FieldFromCount ==
  ASSUME NEW p \in Problem, Qualifies(p), Packs(p), NEW v \in Nodes, NEW s \in States
  PROVE  /\ Bonds(p, v) \in 0 .. MaxDegree
         /\ SatisfiedCount(p, v, s) \in 0 .. Bonds(p, v)
         /\ s[v] * Field(p, v, s) = Bonds(p, v) - 2 * SatisfiedCount(p, v, s)
<1> DEFINE up == {k \in Row(p, v) : Pull(p, k, v, s) = 1}
           down == {k \in Row(p, v) : Pull(p, k, v, s) = -1}
           sat == SatisfiedBonds(p, v, s)
<1>1. \A k \in Row(p, v) : Pull(p, k, v, s) \in {-1, 1}
  BY PullIsUnit
<1>2. up \cup down = Row(p, v) /\ up \cap down = {}
  BY <1>1
<1>3. /\ Cardinality(up) \in Nat /\ Cardinality(down) \in Nat
      /\ Degree(p, v) = Cardinality(up) + Cardinality(down)
  <2>1. IsFiniteSet(Row(p, v))
    BY RowFinite
  <2> HIDE DEF up, down
  <2>2. /\ Cardinality(up) \in Nat /\ Cardinality(down) \in Nat
        /\ Cardinality(Row(p, v)) = Cardinality(up) + Cardinality(down)
    BY <1>2, <2>1, CountSplit
  <2> QED
    BY <2>2 DEF Degree
<1>4. s[v] \in {-1, 1} /\ p.h[v] \in {-1, 0, 1}
  BY DEF States, Packs
<1>5. Field(p, v, s) = p.h[v] + Cardinality(up) - Cardinality(down)
  BY DEF Field
<1>6. sat = IF s[v] = 1 THEN down ELSE up
  BY <1>1, <1>4 DEF SatisfiedBonds
<1>7. Bonds(p, v) = Degree(p, v) + (IF p.h[v] # 0 THEN 1 ELSE 0)
  BY DEF Bonds, HasGhost
<1>8. Bonds(p, v) <= MaxDegree
  BY DEF Packs
<1>9. SatisfiedCount(p, v, s) = Cardinality(sat) + (IF p.h[v] * s[v] = -1 THEN 1 ELSE 0)
  BY DEF SatisfiedCount
<1> DEFINE cu == Cardinality(up)
           cd == Cardinality(down)
           cs == Cardinality(sat)
           g == p.h[v]
           x == s[v]
<1>10. cs = IF x = 1 THEN cd ELSE cu
  BY <1>4, <1>6
<1> HIDE DEF up, down, sat
<1> HIDE DEF cu, cd, cs, g, x
<1>11. CASE x = 1
  <2>1. /\ cs = cd /\ cu \in Nat /\ cd \in Nat /\ g \in {-1, 0, 1}
    BY <1>3, <1>4, <1>10, <1>11 DEF cu, cd, g
  <2>2. Field(p, v, s) = g + cu - cd
    BY <1>5 DEF g, cu, cd
  <2>3. Bonds(p, v) = cu + cd + (IF g # 0 THEN 1 ELSE 0)
    BY <1>3, <1>7 DEF g, cu, cd
  <2>4. SatisfiedCount(p, v, s) = cs + (IF g = -1 THEN 1 ELSE 0)
    BY <1>9, <1>11, <1>4 DEF g, cs, x
  <2>5. x * Field(p, v, s) = g + cu - cd
    BY <1>11, <2>1, <2>2
  <2> QED
    BY <2>1, <2>3, <2>4, <2>5, <1>8 DEF x
<1>12. CASE x = -1
  <2>1. /\ cs = cu /\ cu \in Nat /\ cd \in Nat /\ g \in {-1, 0, 1}
    BY <1>3, <1>4, <1>10, <1>12 DEF cu, cd, g
  <2>2. Field(p, v, s) = g + cu - cd
    BY <1>5 DEF g, cu, cd
  <2>3. Bonds(p, v) = cu + cd + (IF g # 0 THEN 1 ELSE 0)
    BY <1>3, <1>7 DEF g, cu, cd
  <2>4. SatisfiedCount(p, v, s) = cs + (IF g = 1 THEN 1 ELSE 0)
    BY <1>9, <1>12, <1>4 DEF g, cs, x
  <2>5. x * Field(p, v, s) = cd - cu - g
    BY <1>12, <2>1, <2>2
  <2> QED
    BY <2>1, <2>3, <2>4, <2>5, <1>8 DEF x
<1> QED
  BY <1>4, <1>11, <1>12 DEF x

-----------------------------------------------------------------------------
(* One decision in one lane.                                               *)

\* The Metropolis test is a comparison of the count with half of the bonds
\* and the threshold; a threshold above 63 accepts what 63 accepts.
LEMMA AcceptsFromCount ==
  ASSUME NEW p \in Problem, Qualifies(p), Packs(p), NEW v \in Nodes, NEW s \in States,
         NEW m \in Nat, NEW c \in 0 .. MaxDegree,
         c = IF m < MaxDegree THEN m ELSE MaxDegree
  PROVE  /\ Accepts(p, v, s, m) <=> SatisfiedCount(p, v, s) <= (c + Bonds(p, v)) \div 2
         /\ Bonds(p, v) <= c => Accepts(p, v, s, m)
<1> DEFINE d == Bonds(p, v)
           n == SatisfiedCount(p, v, s)
<1>1. /\ d \in 0 .. MaxDegree /\ n \in 0 .. d
      /\ s[v] * Field(p, v, s) = d - 2 * n
  BY FieldFromCount
<1> HIDE DEF d, n
<1>2. Accepts(p, v, s, m) <=> d - 2 * n >= -m
  BY <1>1 DEF Accepts
<1>3. d - 2 * n >= -m <=> n <= (c + d) \div 2
  BY <1>1 DEF MaxDegree
<1>4. d <= c => d - 2 * n >= -m
  BY <1>1 DEF MaxDegree
<1> QED
  BY <1>2, <1>3, <1>4 DEF d, n

\* Flipping a node in a set of lanes flips the node of these lanes' states.
LEMMA LaneFlip ==
  ASSUME NEW sp \in [Nodes -> SUBSET Lanes], NEW v \in Nodes, NEW A \in SUBSET Lanes,
         NEW l \in Lanes
  PROVE  /\ LaneState(sp, l) \in States
         /\ LaneState([sp EXCEPT ![v] = Xor(@, A)], l) =
              IF l \in A THEN [LaneState(sp, l) EXCEPT ![v] = -LaneState(sp, l)[v]]
              ELSE LaneState(sp, l)
<1>1. LaneState(sp, l) \in States
  BY DEF LaneState, States
<1>2. l \in Xor(sp[v], A) <=> ~(l \in sp[v] <=> l \in A)
  BY DEF Xor
<1> DEFINE tp == [sp EXCEPT ![v] = Xor(@, A)]
<1>3. /\ tp[v] = Xor(sp[v], A)
      /\ \A u \in Nodes : u # v => tp[u] = sp[u]
  OBVIOUS
<1>4. /\ LaneState(tp, l)[v] = IF l \in tp[v] THEN -1 ELSE 1
      /\ \A u \in Nodes : u # v => LaneState(tp, l)[u] = LaneState(sp, l)[u]
      /\ LaneState(sp, l)[v] = IF l \in sp[v] THEN -1 ELSE 1
  <2> HIDE DEF tp
  <2> QED
    BY <1>3 DEF LaneState
<1>5. LaneState(tp, l) = [u \in Nodes |-> LaneState(tp, l)[u]]
  BY DEF LaneState
<1>6. LaneState(sp, l) = [u \in Nodes |-> LaneState(sp, l)[u]]
  BY DEF LaneState
<1>7. LaneState(tp, l)[v] = IF l \in A THEN -LaneState(sp, l)[v] ELSE LaneState(sp, l)[v]
  <2> HIDE DEF tp
  <2> QED
    BY <1>2, <1>3, <1>4
<1> DEFINE s == LaneState(sp, l)
           t == LaneState(tp, l)
<1>8. /\ s = [u \in Nodes |-> s[u]] /\ t = [u \in Nodes |-> t[u]]
      /\ t[v] = IF l \in A THEN -s[v] ELSE s[v]
      /\ \A u \in Nodes : u # v => t[u] = s[u]
  BY <1>4, <1>5, <1>6, <1>7, Zenon
<1>9. t = IF l \in A THEN [s EXCEPT ![v] = -s[v]] ELSE s
  <2> HIDE DEF s, t
  <2> QED
    BY <1>8
<1> QED
  BY <1>1, <1>9, Zenon DEF t, s, tp

LEMMA RowEntryValue ==
  ASSUME NEW m \in [Lanes -> Nat], NEW l \in Lanes
  PROVE  /\ Value(RowEntry(m), l) \in 0 .. MaxDegree
         /\ Value(RowEntry(m), l) = IF m[l] < MaxDegree THEN m[l] ELSE MaxDegree
<1> DEFINE c == [x \in Lanes |-> IF m[x] < MaxDegree THEN m[x] ELSE MaxDegree]
<1>1. c \in [Lanes -> 0 .. MaxDegree]
  BY DEF MaxDegree
<1>2. RowEntry(m) = PackedPlanes(c)
  BY DEF RowEntry
<1>3. c[l] = IF m[l] < MaxDegree THEN m[l] ELSE MaxDegree
  OBVIOUS
<1> HIDE DEF c
<1>4. Value(RowEntry(m), l) = c[l]
  BY <1>1, <1>2, PackedPlanesValue
<1> QED
  BY <1>1, <1>3, <1>4

-----------------------------------------------------------------------------
(* The carry-save tree.                                                    *)

BitSum(x, l) ==
  Bit(x[1], l) + Bit(x[2], l) + Bit(x[3], l) + Bit(x[4], l) + Bit(x[5], l)
    + Bit(x[6], l) + Bit(x[7], l) + Bit(x[8], l) + Bit(x[9], l) + Bit(x[10], l)
    + Bit(x[11], l) + Bit(x[12], l) + Bit(x[13], l) + Bit(x[14], l) + Bit(x[15], l)
    + Bit(x[16], l) + Bit(x[17], l) + Bit(x[18], l) + Bit(x[19], l) + Bit(x[20], l)
    + Bit(x[21], l)

\* popcount21 adds its 21 inputs in every lane (sa_msc.rs 386-417).
LEMMA PopCount21Adds ==
  ASSUME NEW x, NEW l
  PROVE  Value(PopCount21(x), l) = BitSum(x, l)
<1> DEFINE o1 == CarrySave({}, x[1], x[2])
           o2 == CarrySave(o1.sum, x[3], x[4])
           t1 == CarrySave({}, o1.carry, o2.carry)
           o3 == CarrySave(o2.sum, x[5], x[6])
           o4 == CarrySave(o3.sum, x[7], x[8])
           t2 == CarrySave(t1.sum, o3.carry, o4.carry)
           f1 == CarrySave({}, t1.carry, t2.carry)
           o5 == CarrySave(o4.sum, x[9], x[10])
           o6 == CarrySave(o5.sum, x[11], x[12])
           t3 == CarrySave(t2.sum, o5.carry, o6.carry)
           o7 == CarrySave(o6.sum, x[13], x[14])
           o8 == CarrySave(o7.sum, x[15], x[16])
           t4 == CarrySave(t3.sum, o7.carry, o8.carry)
           f2 == CarrySave(f1.sum, t3.carry, t4.carry)
           e1 == CarrySave({}, f1.carry, f2.carry)
           o9 == CarrySave(o8.sum, x[17], x[18])
           o10 == CarrySave(o9.sum, x[19], x[20])
           t5 == CarrySave(t4.sum, o9.carry, o10.carry)
           t6 == CarrySave(t5.sum, o10.sum \cap x[21], {})
           f3 == CarrySave(f2.sum, t5.carry, t6.carry)
           e2 == CarrySave(e1.sum, f3.carry, {})
           B(a) == Bit(a, l)
           out == <<Xor(o10.sum, x[21]), t6.sum, f3.sum, e2.sum,
                    e1.carry \cup e2.carry, {}>>
<1>1. PopCount21(x) = out
  BY DEF PopCount21
<1>2. \A a, b, c : 2 * B(CarrySave(a, b, c).carry) + B(CarrySave(a, b, c).sum)
                     = B(a) + B(b) + B(c)
  BY CarrySaveAdds
<1>3. \A a : B(a) \in {0, 1} /\ (B(a) = 1 <=> l \in a)
  BY BitIsBit
<1>4. B({}) = 0
  BY <1>3
<1> HIDE DEF B, o1, o2, t1, o3, o4, t2, f1, o5, o6, t3, o7, o8, t4, f2, e1, o9, o10, t5, t6, f3, e2
<1>5. /\ 2 * B(o1.carry) + B(o1.sum) = B({}) + B(x[1]) + B(x[2])
      /\ 2 * B(o2.carry) + B(o2.sum) = B(o1.sum) + B(x[3]) + B(x[4])
      /\ 2 * B(o3.carry) + B(o3.sum) = B(o2.sum) + B(x[5]) + B(x[6])
      /\ 2 * B(o4.carry) + B(o4.sum) = B(o3.sum) + B(x[7]) + B(x[8])
      /\ 2 * B(o5.carry) + B(o5.sum) = B(o4.sum) + B(x[9]) + B(x[10])
      /\ 2 * B(o6.carry) + B(o6.sum) = B(o5.sum) + B(x[11]) + B(x[12])
      /\ 2 * B(o7.carry) + B(o7.sum) = B(o6.sum) + B(x[13]) + B(x[14])
      /\ 2 * B(o8.carry) + B(o8.sum) = B(o7.sum) + B(x[15]) + B(x[16])
      /\ 2 * B(o9.carry) + B(o9.sum) = B(o8.sum) + B(x[17]) + B(x[18])
      /\ 2 * B(o10.carry) + B(o10.sum) = B(o9.sum) + B(x[19]) + B(x[20])
  <2>1. /\ 2 * B(o1.carry) + B(o1.sum) = B({}) + B(x[1]) + B(x[2])
        /\ 2 * B(o2.carry) + B(o2.sum) = B(o1.sum) + B(x[3]) + B(x[4])
        /\ 2 * B(o3.carry) + B(o3.sum) = B(o2.sum) + B(x[5]) + B(x[6])
        /\ 2 * B(o4.carry) + B(o4.sum) = B(o3.sum) + B(x[7]) + B(x[8])
    BY <1>2 DEF o1, o2, o3, o4
  <2>2. /\ 2 * B(o5.carry) + B(o5.sum) = B(o4.sum) + B(x[9]) + B(x[10])
        /\ 2 * B(o6.carry) + B(o6.sum) = B(o5.sum) + B(x[11]) + B(x[12])
        /\ 2 * B(o7.carry) + B(o7.sum) = B(o6.sum) + B(x[13]) + B(x[14])
        /\ 2 * B(o8.carry) + B(o8.sum) = B(o7.sum) + B(x[15]) + B(x[16])
    BY <1>2 DEF o5, o6, o7, o8
  <2>3. /\ 2 * B(o9.carry) + B(o9.sum) = B(o8.sum) + B(x[17]) + B(x[18])
        /\ 2 * B(o10.carry) + B(o10.sum) = B(o9.sum) + B(x[19]) + B(x[20])
    BY <1>2 DEF o9, o10
  <2> QED
    BY <2>1, <2>2, <2>3
<1>6. /\ 2 * B(t1.carry) + B(t1.sum) = B({}) + B(o1.carry) + B(o2.carry)
      /\ 2 * B(t2.carry) + B(t2.sum) = B(t1.sum) + B(o3.carry) + B(o4.carry)
      /\ 2 * B(t3.carry) + B(t3.sum) = B(t2.sum) + B(o5.carry) + B(o6.carry)
      /\ 2 * B(t4.carry) + B(t4.sum) = B(t3.sum) + B(o7.carry) + B(o8.carry)
      /\ 2 * B(t5.carry) + B(t5.sum) = B(t4.sum) + B(o9.carry) + B(o10.carry)
      /\ 2 * B(t6.carry) + B(t6.sum) = B(t5.sum) + B(o10.sum \cap x[21]) + B({})
  <2>1. /\ 2 * B(t1.carry) + B(t1.sum) = B({}) + B(o1.carry) + B(o2.carry)
        /\ 2 * B(t2.carry) + B(t2.sum) = B(t1.sum) + B(o3.carry) + B(o4.carry)
        /\ 2 * B(t3.carry) + B(t3.sum) = B(t2.sum) + B(o5.carry) + B(o6.carry)
    BY <1>2 DEF t1, t2, t3
  <2>2. /\ 2 * B(t4.carry) + B(t4.sum) = B(t3.sum) + B(o7.carry) + B(o8.carry)
        /\ 2 * B(t5.carry) + B(t5.sum) = B(t4.sum) + B(o9.carry) + B(o10.carry)
        /\ 2 * B(t6.carry) + B(t6.sum) = B(t5.sum) + B(o10.sum \cap x[21]) + B({})
    BY <1>2 DEF t4, t5, t6
  <2> QED
    BY <2>1, <2>2
<1>7. /\ 2 * B(f1.carry) + B(f1.sum) = B({}) + B(t1.carry) + B(t2.carry)
      /\ 2 * B(f2.carry) + B(f2.sum) = B(f1.sum) + B(t3.carry) + B(t4.carry)
      /\ 2 * B(e1.carry) + B(e1.sum) = B({}) + B(f1.carry) + B(f2.carry)
      /\ 2 * B(f3.carry) + B(f3.sum) = B(f2.sum) + B(t5.carry) + B(t6.carry)
      /\ 2 * B(e2.carry) + B(e2.sum) = B(e1.sum) + B(f3.carry) + B({})
  BY <1>2 DEF f1, f2, e1, f3, e2
<1>8. 2 * B(o10.sum \cap x[21]) + B(Xor(o10.sum, x[21])) = B(o10.sum) + B(x[21])
  <2> DEFINE y == o10.sum
             z == x[21]
  <2>1. /\ l \in y \cap z <=> l \in y /\ l \in z
        /\ l \in Xor(y, z) <=> ~(l \in y <=> l \in z)
    BY DEF Xor
  <2>2. /\ B(y \cap z) \in {0, 1} /\ (B(y \cap z) = 1 <=> l \in y \cap z)
        /\ B(Xor(y, z)) \in {0, 1} /\ (B(Xor(y, z)) = 1 <=> l \in Xor(y, z))
        /\ B(y) \in {0, 1} /\ (B(y) = 1 <=> l \in y)
        /\ B(z) \in {0, 1} /\ (B(z) = 1 <=> l \in z)
    BY <1>3
  <2> HIDE DEF y, z
  <2>3. 2 * B(y \cap z) + B(Xor(y, z)) = B(y) + B(z)
    BY <2>1, <2>2
  <2> QED
    BY <2>3 DEF y, z
<1>9. /\ l \in e1.carry \cup e2.carry <=> l \in e1.carry \/ l \in e2.carry
  OBVIOUS
<1>10. /\ B(e1.carry) \in {0, 1} /\ B(e2.carry) \in {0, 1}
       /\ B(e1.carry) + B(e2.carry) <= 1 =>
            B(e1.carry \cup e2.carry) = B(e1.carry) + B(e2.carry)
  BY <1>3, <1>9
<1>11. Value(out, l) = B(Xor(o10.sum, x[21])) + 2 * B(t6.sum) + 4 * B(f3.sum) + 8 * B(e2.sum)
                        + 16 * B(e1.carry \cup e2.carry)
  <2>1. /\ out[1] = Xor(o10.sum, x[21]) /\ out[2] = t6.sum /\ out[3] = f3.sum
        /\ out[4] = e2.sum /\ out[5] = e1.carry \cup e2.carry /\ out[6] = {}
    OBVIOUS
  <2> HIDE DEF out
  <2>2. Value(out, l) = B(out[1]) + 2 * B(out[2]) + 4 * B(out[3]) + 8 * B(out[4])
                          + 16 * B(out[5]) + 32 * B(out[6])
    BY DEF Value, B
  <2>3. \A a : B(a) \in Int
    BY <1>3
  <2> QED
    BY <1>4, <2>1, <2>2, <2>3
<1>12. /\ B(x[1]) \in 0 .. 1 /\ B(x[2]) \in 0 .. 1 /\ B(x[3]) \in 0 .. 1
       /\ B(x[4]) \in 0 .. 1 /\ B(x[5]) \in 0 .. 1 /\ B(x[6]) \in 0 .. 1
       /\ B(x[7]) \in 0 .. 1 /\ B(x[8]) \in 0 .. 1 /\ B(x[9]) \in 0 .. 1
       /\ B(x[10]) \in 0 .. 1 /\ B(x[11]) \in 0 .. 1 /\ B(x[12]) \in 0 .. 1
       /\ B(x[13]) \in 0 .. 1 /\ B(x[14]) \in 0 .. 1 /\ B(x[15]) \in 0 .. 1
       /\ B(x[16]) \in 0 .. 1 /\ B(x[17]) \in 0 .. 1 /\ B(x[18]) \in 0 .. 1
       /\ B(x[19]) \in 0 .. 1 /\ B(x[20]) \in 0 .. 1 /\ B(x[21]) \in 0 .. 1
  BY <1>3
<1>13. /\ B(o1.carry) \in 0 .. 1 /\ B(o2.carry) \in 0 .. 1 /\ B(o3.carry) \in 0 .. 1
       /\ B(o4.carry) \in 0 .. 1 /\ B(o5.carry) \in 0 .. 1 /\ B(o6.carry) \in 0 .. 1
       /\ B(o7.carry) \in 0 .. 1 /\ B(o8.carry) \in 0 .. 1 /\ B(o9.carry) \in 0 .. 1
       /\ B(o10.carry) \in 0 .. 1 /\ B(o1.sum) \in 0 .. 1 /\ B(o2.sum) \in 0 .. 1
       /\ B(o3.sum) \in 0 .. 1 /\ B(o4.sum) \in 0 .. 1 /\ B(o5.sum) \in 0 .. 1
       /\ B(o6.sum) \in 0 .. 1 /\ B(o7.sum) \in 0 .. 1 /\ B(o8.sum) \in 0 .. 1
       /\ B(o9.sum) \in 0 .. 1 /\ B(o10.sum) \in 0 .. 1
  BY <1>3
<1>14. /\ B(t1.carry) \in 0 .. 1 /\ B(t2.carry) \in 0 .. 1 /\ B(t3.carry) \in 0 .. 1
       /\ B(t4.carry) \in 0 .. 1 /\ B(t5.carry) \in 0 .. 1 /\ B(t6.carry) \in 0 .. 1
       /\ B(t1.sum) \in 0 .. 1 /\ B(t2.sum) \in 0 .. 1 /\ B(t3.sum) \in 0 .. 1
       /\ B(t4.sum) \in 0 .. 1 /\ B(t5.sum) \in 0 .. 1 /\ B(t6.sum) \in 0 .. 1
       /\ B(o10.sum \cap x[21]) \in 0 .. 1 /\ B(Xor(o10.sum, x[21])) \in 0 .. 1
  BY <1>3
<1>15. /\ B(f1.carry) \in 0 .. 1 /\ B(f2.carry) \in 0 .. 1 /\ B(f3.carry) \in 0 .. 1
       /\ B(e1.carry) \in 0 .. 1 /\ B(e2.carry) \in 0 .. 1 /\ B(f1.sum) \in 0 .. 1
       /\ B(f2.sum) \in 0 .. 1 /\ B(f3.sum) \in 0 .. 1 /\ B(e1.sum) \in 0 .. 1
       /\ B(e2.sum) \in 0 .. 1
  BY <1>3
<1> DEFINE inputsum == B(x[1]) + B(x[2]) + B(x[3]) + B(x[4]) + B(x[5]) + B(x[6]) + B(x[7])
                      + B(x[8]) + B(x[9]) + B(x[10]) + B(x[11]) + B(x[12]) + B(x[13]) + B(x[14])
                      + B(x[15]) + B(x[16]) + B(x[17]) + B(x[18]) + B(x[19]) + B(x[20]) + B(x[21])
           twos == B(o1.carry) + B(o2.carry) + B(o3.carry) + B(o4.carry) + B(o5.carry)
                      + B(o6.carry) + B(o7.carry) + B(o8.carry) + B(o9.carry) + B(o10.carry)
           fours == B(t1.carry) + B(t2.carry) + B(t3.carry) + B(t4.carry)
                      + B(t5.carry) + B(t6.carry)
           eights == B(f1.carry) + B(f2.carry) + B(f3.carry)
\* Every level hands its carries to the next one.
<1>16. inputsum = 2 * twos + B(o10.sum) + B(x[21])
  BY <1>4, <1>5, <1>12, <1>13
<1>17. twos + B(o10.sum \cap x[21]) = 2 * fours + B(t6.sum)
  BY <1>4, <1>6, <1>13, <1>14
<1>18. fours = 2 * eights + B(f3.sum)
  BY <1>4, <1>7, <1>14, <1>15
<1>19. eights = 2 * (B(e1.carry) + B(e2.carry)) + B(e2.sum)
  BY <1>4, <1>7, <1>15
<1>20. inputsum \in 0 .. 21 /\ twos \in Int /\ fours \in Int /\ eights \in Int
  <2>1. inputsum \in 0 .. 21
    BY <1>12
  <2>2. twos \in Int
    BY <1>13
  <2>3. fours \in Int
    BY <1>14
  <2>4. eights \in Int
    BY <1>15
  <2> QED
    BY <2>1, <2>2, <2>3, <2>4
<1> HIDE DEF inputsum, twos, fours, eights, out
<1>21. /\ B(o10.sum) \in 0 .. 1 /\ B(x[21]) \in 0 .. 1
       /\ B(o10.sum \cap x[21]) \in 0 .. 1 /\ B(Xor(o10.sum, x[21])) \in 0 .. 1
       /\ B(t6.sum) \in 0 .. 1 /\ B(f3.sum) \in 0 .. 1 /\ B(e2.sum) \in 0 .. 1
       /\ B(e1.carry) \in 0 .. 1 /\ B(e2.carry) \in 0 .. 1
  BY <1>12, <1>13, <1>14, <1>15
<1>22. B(e1.carry) + B(e2.carry) <= 1
  BY <1>8, <1>16, <1>17, <1>18, <1>19, <1>20, <1>21
<1>23. B(e1.carry \cup e2.carry) = B(e1.carry) + B(e2.carry)
  BY <1>10, <1>22
<1>24. Value(out, l) = inputsum
  <2>1. inputsum = B(Xor(o10.sum, x[21])) + 2 * B(t6.sum) + 4 * B(f3.sum) + 8 * B(e2.sum)
                     + 16 * (B(e1.carry) + B(e2.carry))
    <3>1. inputsum = B(Xor(o10.sum, x[21])) + 2 * B(t6.sum) + 4 * fours
      BY <1>8, <1>16, <1>17, <1>20, <1>21
    <3>2. inputsum = B(Xor(o10.sum, x[21])) + 2 * B(t6.sum) + 4 * B(f3.sum) + 8 * eights
      BY <1>18, <1>20, <1>21, <3>1
    <3> QED
      BY <1>19, <1>20, <1>21, <3>2
  <2> QED
    BY <1>11, <1>23, <2>1, Zenon
<1> QED
  BY <1>1, <1>24 DEF inputsum, B, BitSum

\* The sum of the bits is the number of the words that hold the lane.
LEMMA BitsAreCounted ==
  ASSUME NEW x, NEW l
  PROVE  Cardinality({q \in 1 .. 21 : l \in x[q]}) = BitSum(x, l)
<1> DEFINE S(n) == {q \in 1 .. n : l \in x[q]}
           C(n) == Cardinality(S(n))
           b(n) == Bit(x[n], l)
<1>1. S(0) = {} /\ C(0) = 0
  BY FS_EmptySet
<1>2. ASSUME NEW n \in 0 .. 21
      PROVE  IsFiniteSet(S(n)) /\ Cardinality(S(n)) \in Nat
  <2>1. IsFiniteSet(1 .. n)
    <3>1. 1 \in Int /\ n \in Int
      OBVIOUS
    <3> QED
      BY <3>1, FS_Interval, Zenon
  <2>2. S(n) \in SUBSET (1 .. n)
    OBVIOUS
  <2> HIDE DEF S
  <2>3. IsFiniteSet(S(n))
    BY <2>1, <2>2, FS_Subset
  <2> QED
    BY <2>3, FS_CardinalityType
<1>3. ASSUME NEW n \in 0 .. 20
      PROVE  C(n + 1) = C(n) + b(n + 1)
  <2>1. IsFiniteSet(S(n)) /\ C(n) \in Nat
    <3>1. n \in 0 .. 21
      OBVIOUS
    <3> QED
      BY <1>2, <3>1
  <2>2. n + 1 \notin S(n)
    OBVIOUS
  <2>3. CASE l \in x[n + 1]
    <3>1. S(n + 1) = S(n) \cup {n + 1}
      BY <2>3
    <3> HIDE DEF S
    <3>2. C(n + 1) = C(n) + 1
      BY <2>1, <2>2, <3>1, FS_AddElement
    <3> QED
      BY <2>3, <3>2 DEF Bit
  <2>4. CASE l \notin x[n + 1]
    <3>1. S(n + 1) = S(n)
      BY <2>4
    <3> HIDE DEF S
    <3> QED
      BY <2>1, <2>4, <3>1 DEF Bit
  <2> QED
    BY <2>3, <2>4
<1> HIDE DEF C
<1>4. /\ C(1) = C(0) + b(1) /\ C(2) = C(1) + b(2) /\ C(3) = C(2) + b(3)
      /\ C(4) = C(3) + b(4) /\ C(5) = C(4) + b(5) /\ C(6) = C(5) + b(6)
      /\ C(7) = C(6) + b(7) /\ C(8) = C(7) + b(8) /\ C(9) = C(8) + b(9)
      /\ C(10) = C(9) + b(10) /\ C(11) = C(10) + b(11) /\ C(12) = C(11) + b(12)
      /\ C(13) = C(12) + b(13) /\ C(14) = C(13) + b(14) /\ C(15) = C(14) + b(15)
      /\ C(16) = C(15) + b(16) /\ C(17) = C(16) + b(17) /\ C(18) = C(17) + b(18)
      /\ C(19) = C(18) + b(19) /\ C(20) = C(19) + b(20) /\ C(21) = C(20) + b(21)
  BY <1>3
<1>5. /\ b(1) \in 0 .. 1 /\ b(2) \in 0 .. 1 /\ b(3) \in 0 .. 1 /\ b(4) \in 0 .. 1
      /\ b(5) \in 0 .. 1 /\ b(6) \in 0 .. 1 /\ b(7) \in 0 .. 1 /\ b(8) \in 0 .. 1
      /\ b(9) \in 0 .. 1 /\ b(10) \in 0 .. 1 /\ b(11) \in 0 .. 1 /\ b(12) \in 0 .. 1
      /\ b(13) \in 0 .. 1 /\ b(14) \in 0 .. 1 /\ b(15) \in 0 .. 1 /\ b(16) \in 0 .. 1
      /\ b(17) \in 0 .. 1 /\ b(18) \in 0 .. 1 /\ b(19) \in 0 .. 1 /\ b(20) \in 0 .. 1
      /\ b(21) \in 0 .. 1
  BY BitIsBit
<1> HIDE DEF b
<1>6. C(21) = b(1) + b(2) + b(3) + b(4) + b(5) + b(6) + b(7) + b(8) + b(9) + b(10)
              + b(11) + b(12) + b(13) + b(14) + b(15) + b(16) + b(17) + b(18) + b(19) + b(20)
              + b(21)
  BY <1>1, <1>4, <1>5
<1> QED
  BY <1>6 DEF C, b, BitSum

-----------------------------------------------------------------------------
(* The invariant.                                                          *)

Setup ==
  /\ problem \in Problem /\ Qualifies(problem) /\ Packs(problem)
  /\ problem.classes # <<>>
  /\ \A c \in DOMAIN problem.classes : problem.classes[c] # <<>>

\* The bonds of the node walked so far, and those a lane satisfies.
Before == {k \in Row(problem, Node) : k < bond}
SatisfiedBefore(l) == {k \in Before : SatisfiedIn(k, l)}
GhostCount(l) == IF GhostIn(l) THEN 1 ELSE 0

InputsAreExact ==
  bond > 0 =>
    /\ ~PackedDone
    /\ Len(inputs) = Cardinality(Before)
    /\ \A l \in Lanes :
         Cardinality({q \in DOMAIN inputs : l \in inputs[q]})
           = Cardinality(SatisfiedBefore(l))

PInv ==
  /\ Setup
  /\ PackedTypeOK
  /\ InputsAreExact
  /\ RippleIsExact
  /\ LanesAreMetropolis

\* The annealer is at a node.
LEMMA AtNode ==
  ASSUME Setup, PackedTypeOK
  PROVE  /\ Word \in Words
         /\ turn.class \in DOMAIN problem.classes
         /\ Class \in Seq(Nodes) /\ Len(Class) \in Nat /\ Len(Class) > 0
         /\ turn.index \in 1 .. Len(Class)
         /\ Node \in Nodes
         /\ problem.bonds \in Seq(Bond) /\ Len(problem.bonds) \in Nat
         /\ problem.classes \in Seq(Seq(Nodes))
         /\ spin[Word] \in [Nodes -> SUBSET Lanes]
         /\ bond \in Nat
<1>1. /\ turn.word \in Words /\ turn.class \in DOMAIN problem.classes
      /\ turn.index \in Nat \ {0} /\ turn.index <= Len(Class)
  BY DEF PackedTypeOK
<1>2. /\ problem.classes \in Seq(Seq(Nodes)) /\ problem.bonds \in Seq(Bond)
  BY DEF Setup, Problem
<1>3. Class \in Seq(Nodes)
  BY <1>1, <1>2 DEF Class
<1>4. Class # <<>>
  BY <1>1 DEF Setup, Class
<1>5. Len(Class) \in Nat /\ Len(Class) > 0
  BY <1>3, <1>4
<1>6. turn.index \in 1 .. Len(Class)
  BY <1>1, <1>5
<1>7. Node \in Nodes
  BY <1>3, <1>6 DEF Node
<1>8. spin[Word] \in [Nodes -> SUBSET Lanes]
  BY <1>1 DEF PackedTypeOK, Word
<1>9. bond \in 0 .. Len(problem.bonds) + 1 /\ Len(problem.bonds) \in Nat
  BY <1>2 DEF PackedTypeOK
<1> QED
  BY <1>1, <1>2, <1>3, <1>5, <1>6, <1>7, <1>8, <1>9 DEF Word

\* A lane of a satisfied-bond word.
LEMMA SatisfiedLane ==
  ASSUME Setup, PackedTypeOK, NEW k \in Row(problem, Node), NEW l \in Lanes
  PROVE  /\ l \in Satisfied(k) <=> SatisfiedIn(k, l)
         /\ Satisfied(k) \in SUBSET Lanes
<1> DEFINE v == Node
           o == OtherEnd(problem, k, Node)
           j == problem.bonds[k].j
           s == LaneState(spin[Word], l)
<1>1. v \in Nodes /\ spin[Word] \in [Nodes -> SUBSET Lanes]
  BY AtNode
<1>2. k \in DOMAIN problem.bonds /\ Kept(problem, k)
      /\ Node \in {problem.bonds[k].u, problem.bonds[k].v}
  BY DEF Row, Joins
<1>3. o \in Nodes
  BY <1>2 DEF OtherEnd, Kept
<1>4. j \in {-1, 1}
  BY <1>2 DEF Setup, Qualifies
<1>5. /\ s[v] = IF l \in spin[Word][v] THEN -1 ELSE 1
      /\ s[o] = IF l \in spin[Word][o] THEN -1 ELSE 1
  BY <1>1, <1>3 DEF LaneState
<1>6. SatisfiedIn(k, l) <=> s[v] * (j * s[o]) = -1
  BY DEF SatisfiedIn, Pull
<1>7. Satisfied(k) = Xor(Xor(Everywhere(j < 0), spin[Word][v]), spin[Word][o])
  BY DEF Satisfied
<1>8. l \in Everywhere(j < 0) <=> j < 0
  BY DEF Everywhere
<1>9. Everywhere(j < 0) \in SUBSET Lanes /\ spin[Word][v] \in SUBSET Lanes
      /\ spin[Word][o] \in SUBSET Lanes
  BY <1>1, <1>3 DEF Everywhere
<1> HIDE DEF v, o, j, s
<1>10. l \in Satisfied(k) <=>
         ~(~(j < 0 <=> l \in spin[Word][v]) <=> l \in spin[Word][o])
  BY <1>7, <1>8 DEF Xor
<1>11. Satisfied(k) \in SUBSET Lanes
  BY <1>7, <1>9 DEF Xor
<1> QED
  BY <1>4, <1>5, <1>6, <1>10, <1>11

LEMMA GhostLane ==
  ASSUME Setup, PackedTypeOK, NEW l \in Lanes
  PROVE  /\ HasGhost(problem, Node) => (l \in Ghost <=> GhostIn(l)) /\ Ghost \in SUBSET Lanes
         /\ GhostIn(l) => HasGhost(problem, Node)
<1>1. Node \in Nodes /\ spin[Word] \in [Nodes -> SUBSET Lanes]
  BY AtNode
<1>2. problem.h[Node] \in {-1, 0, 1}
  BY <1>1 DEF Setup, Packs
<1>3. LaneState(spin[Word], l)[Node] = IF l \in spin[Word][Node] THEN -1 ELSE 1
  BY <1>1 DEF LaneState
<1> QED
  BY <1>1, <1>2, <1>3 DEF Ghost, GhostIn, HasGhost, Not

\* What the annealer has counted is what the lane's state satisfies.
LEMMA CountOfLane ==
  ASSUME Setup, PackedTypeOK, NEW l \in Lanes,
         bond = Len(problem.bonds) + 1
  PROVE  SatisfiedCount(problem, Node, LaneState(spin[Word], l))
           = Cardinality(SatisfiedBefore(l)) + GhostCount(l)
<1>1. DOMAIN problem.bonds = 1 .. Len(problem.bonds) /\ Len(problem.bonds) \in Nat
  BY AtNode
<1>2. Before = Row(problem, Node)
  BY <1>1 DEF Before, Row
<1>3. SatisfiedBonds(problem, Node, LaneState(spin[Word], l)) = SatisfiedBefore(l)
  BY <1>2 DEF SatisfiedBonds, SatisfiedBefore, SatisfiedIn
<1> QED
  BY <1>3 DEF SatisfiedCount, GhostCount, GhostIn

LEMMA BeforeFinite ==
  ASSUME Setup, PackedTypeOK, NEW l \in Lanes
  PROVE  /\ IsFiniteSet(Before) /\ IsFiniteSet(SatisfiedBefore(l))
         /\ Cardinality(Before) \in Nat /\ Cardinality(SatisfiedBefore(l)) \in Nat
         /\ Cardinality(SatisfiedBefore(l)) <= Cardinality(Before)
         /\ Degree(problem, Node) \in Nat
         /\ Cardinality(Before) <= Degree(problem, Node)
<1>1. problem \in Problem
  BY DEF Setup
<1>2. IsFiniteSet(Row(problem, Node)) /\ Degree(problem, Node) \in Nat
  BY <1>1, RowFinite
<1>3. Before \in SUBSET Row(problem, Node) /\ SatisfiedBefore(l) \in SUBSET Before
  BY DEF Before, SatisfiedBefore
<1>4. IsFiniteSet(Before) /\ Cardinality(Before) <= Cardinality(Row(problem, Node))
  BY <1>2, <1>3, FS_Subset
<1>5. IsFiniteSet(SatisfiedBefore(l)) /\ Cardinality(SatisfiedBefore(l)) <= Cardinality(Before)
  BY <1>3, <1>4, FS_Subset
<1> QED
  BY <1>2, <1>4, <1>5, FS_CardinalityType DEF Degree

-----------------------------------------------------------------------------
(* Counting.                                                               *)

\* After the last bond, the tree and the ripple counter agree with the lane.
LEMMA CountedValue ==
  ASSUME PInv, NEW l \in Lanes, bond = Len(problem.bonds) + 1
  PROVE  Value(Counted, l) = SatisfiedCount(problem, Node, LaneState(spin[Word], l))
<1> USE DEF PInv
<1> DEFINE n == Len(inputs)
           held == {q \in DOMAIN inputs : l \in inputs[q]}
<1>1. bond > 0 /\ Len(problem.bonds) \in Nat
  BY AtNode
<1>2. Cardinality(held) = Cardinality(SatisfiedBefore(l))
  BY <1>1 DEF InputsAreExact
<1>3. SatisfiedCount(problem, Node, LaneState(spin[Word], l))
        = Cardinality(SatisfiedBefore(l)) + GhostCount(l)
  BY CountOfLane
<1>4. CASE Wide
  <2>1. Value(planes, l) = Cardinality(SatisfiedBefore(l)) + GhostCount(l)
    <3>1. {k \in Row(problem, Node) : k < bond /\ SatisfiedIn(k, l)} = SatisfiedBefore(l)
      BY DEF SatisfiedBefore, Before
    <3> QED
      BY <1>1, <1>4, <3>1 DEF RippleIsExact, GhostCount
  <2>2. Counted = planes
    BY <1>4 DEF Counted
  <2> QED
    BY <1>3, <2>1, <2>2
<1>5. CASE ~Wide
  <2>1. inputs \in Seq(SUBSET Lanes) /\ n \in Nat /\ n <= CsaNeighbors
        /\ DOMAIN inputs = 1 .. n
    BY <1>1, <1>5 DEF PackedTypeOK
  <2> DEFINE x == CsaInputs
             all == {q \in 1 .. 21 : l \in x[q]}
             last == HasGhost(problem, Node) /\ l \in Ghost
  <2>2. \A q \in 1 .. 21 : x[q] = IF q <= n THEN inputs[q]
                          ELSE IF q = 21 /\ HasGhost(problem, Node) THEN Ghost ELSE {}
    BY DEF CsaInputs, CsaNeighbors
  <2> HIDE DEF x
  <2>3. n <= 20
    BY <2>1 DEF CsaNeighbors
  <2>4. all = IF last THEN held \cup {21} ELSE held
    <3>1. ASSUME NEW q \in 1 .. 20
          PROVE  l \in x[q] <=> q <= n /\ l \in inputs[q]
      <4>1. q \in 1 .. 21 /\ q # 21
        OBVIOUS
      <4>2. CASE q <= n
        BY <2>2, <4>1, <4>2
      <4>3. CASE ~(q <= n)
        BY <2>2, <4>1, <4>3
      <4> QED
        BY <4>2, <4>3
    <3>2. l \in x[21] <=> last
      BY <2>1, <2>2, <2>3
    <3>3. \A q \in 1 .. 21 : q \in 1 .. 20 \/ q = 21
      OBVIOUS
    <3>4. \A q : q \in held <=> q \in 1 .. 20 /\ q <= n /\ l \in inputs[q]
      <4>1. (\A q \in 1 .. 20 : q \in 1 .. n <=> q <= n) /\ 1 .. n \subseteq 1 .. 20
        <5>1. n \in Nat /\ n <= 20
          BY <2>1, <2>3
        <5> HIDE DEF n
        <5> QED
          BY <5>1
      <4>2. \A q : q \in held <=> q \in 1 .. n /\ l \in inputs[q]
        BY <2>1
      <4> QED
        BY <4>1, <4>2, Zenon
    <3>5. \A q : q \in all <=> (q \in 1 .. 20 /\ l \in x[q]) \/ (q = 21 /\ last)
      BY <3>2, <3>3
    <3> HIDE DEF all, held, last
    <3> QED
      BY <3>1, <3>4, <3>5
  <2>5. 21 \notin held
    BY <2>1, <2>3
  <2>6. IsFiniteSet(held) /\ Cardinality(held) \in Nat
    <3>1. 1 \in Int /\ n \in Int
      BY <2>1
    <3>2. IsFiniteSet(1 .. n)
      BY <3>1, FS_Interval, Zenon
    <3>3. held \in SUBSET (1 .. n)
      BY <2>1
    <3> HIDE DEF held
    <3>4. IsFiniteSet(held)
      BY <3>2, <3>3, FS_Subset
    <3> QED
      BY <3>4, FS_CardinalityType
  <2>7. last <=> GhostIn(l)
    BY GhostLane
  <2>8. Cardinality(all) = Cardinality(held) + GhostCount(l)
    <3> HIDE DEF all, held
    <3>1. CASE GhostIn(l)
      <4>1. all = held \cup {21}
        BY <2>4, <2>7, <3>1
      <4>2. Cardinality(held \cup {21}) = Cardinality(held) + 1
        BY <2>5, <2>6, FS_AddElement
      <4> QED
        BY <3>1, <4>1, <4>2 DEF GhostCount
    <3>2. CASE ~GhostIn(l)
      <4>1. all = held
        BY <2>4, <2>7, <3>2
      <4> QED
        BY <2>6, <3>2, <4>1 DEF GhostCount
    <3> QED
      BY <3>1, <3>2
  <2>9. Value(PopCount21(x), l) = Cardinality(all)
    BY PopCount21Adds, BitsAreCounted
  <2>10. Counted = PopCount21(x)
    BY <1>5 DEF Counted, x
  <2> HIDE DEF all, held
  <2> QED
    BY <1>2, <1>3, <2>8, <2>9, <2>10
<1> QED
  BY <1>4, <1>5

\* The lanes that accept are those whose walk accepts.
LEMMA DecisionIsMetropolis ==
  ASSUME PInv, NEW l \in Lanes, bond = Len(problem.bonds) + 1
  PROVE  l \in AcceptedLanes
           <=> Accepts(problem, Node, LaneState(spin[Word], l), threshold[l])
<1> DEFINE s == LaneState(spin[Word], l)
           d == Bonds(problem, Node)
           c == Value(RowEntry(threshold), l)
<1>1. Node \in Nodes /\ spin[Word] \in [Nodes -> SUBSET Lanes]
  BY AtNode DEF PInv
<1>2. s \in States
  BY <1>1 DEF LaneState, States
<1>3. threshold \in [Lanes -> Nat] /\ threshold[l] \in Nat
  BY DEF PInv, PackedTypeOK
<1>4. c \in 0 .. MaxDegree
      /\ c = IF threshold[l] < MaxDegree THEN threshold[l] ELSE MaxDegree
  BY <1>3, RowEntryValue
<1>5. problem \in Problem /\ Qualifies(problem) /\ Packs(problem)
  BY DEF PInv, Setup
<1>6. d \in 0 .. MaxDegree
  BY <1>1, <1>2, <1>5, FieldFromCount
<1> HIDE DEF s, c, d
<1>7. Accepts(problem, Node, s, threshold[l])
        <=> SatisfiedCount(problem, Node, s) <= (c + Bonds(problem, Node)) \div 2
  BY <1>1, <1>2, <1>3, <1>4, <1>5, AcceptsFromCount
<1>8. Value(Counted, l) = SatisfiedCount(problem, Node, s)
  BY CountedValue DEF s
<1>9. Value(LimitPlanes(RowEntry(threshold), d), l) = (c + d) \div 2
  BY <1>6, LimitPlanesValue DEF c
<1>10. l \in AcceptedLanes
         <=> Value(Counted, l) <= Value(LimitPlanes(RowEntry(threshold), d), l)
  BY AtMostPlanesValue DEF AcceptedLanes, d
<1> QED
  BY <1>7, <1>8, <1>9, <1>10 DEF s, d

-----------------------------------------------------------------------------
(* The steps.                                                              *)

LEMMA NextTurnType ==
  ASSUME Setup, PackedTypeOK, ~PackedDone, turn' = NextTurn
  PROVE  /\ turn' \in [sweep : 0 .. sweeps, class : DOMAIN problem.classes,
                       word : Words, index : Nat \ {0}]
         /\ turn'.index <= Len(problem.classes[turn'.class])
<1> DEFINE classes == problem.classes
<1>1. /\ turn \in [sweep : 0 .. sweeps, class : DOMAIN classes,
                   word : Words, index : Nat \ {0}]
      /\ sweeps \in Nat
  BY DEF PackedTypeOK
<1>2. /\ classes \in Seq(Seq(Nodes)) /\ Len(classes) \in Nat /\ Len(classes) >= 1
      /\ DOMAIN classes = 1 .. Len(classes)
      /\ \A c \in DOMAIN classes : Len(classes[c]) \in Nat /\ Len(classes[c]) >= 1
  <2>1. classes \in Seq(Seq(Nodes)) /\ classes # <<>>
    BY AtNode DEF Setup
  <2>2. \A c \in DOMAIN classes : classes[c] \in Seq(Nodes) /\ classes[c] # <<>>
    BY <2>1 DEF Setup
  <2> HIDE DEF classes
  <2> QED
    BY <2>1, <2>2
<1>3. turn.sweep + 1 \in 0 .. sweeps
  BY <1>1 DEF PackedDone
<1>4. NumWords \in Nat \ {0} /\ Words = 0 .. NumWords - 1
  BY WordsAssumption DEF Words
<1>5. Class = classes[turn.class] /\ turn.index \in 1 .. Len(Class)
  BY AtNode DEF Class
<1> HIDE DEF classes
<1>6. CASE turn.index < Len(Class)
  <2>1. turn' = [turn EXCEPT !.index = @ + 1]
    BY <1>6 DEF NextTurn
  <2>2. turn.index + 1 \in Nat \ {0} /\ turn.index + 1 <= Len(Class)
    BY <1>1, <1>2, <1>5, <1>6
  <2>3. turn'.index = turn.index + 1 /\ turn'.class = turn.class
    BY <1>1, <2>1
  <2>4. turn' \in [sweep : 0 .. sweeps, class : DOMAIN classes,
                  word : Words, index : Nat \ {0}]
    BY <1>1, <2>1, <2>2
  <2> QED
    BY <1>5, <2>2, <2>3, <2>4 DEF classes
<1>7. CASE ~(turn.index < Len(Class)) /\ turn.word < NumWords - 1
  <2>1. turn' = [turn EXCEPT !.word = @ + 1, !.index = 1]
    BY <1>7 DEF NextTurn
  <2>2. turn.word + 1 \in Words
    BY <1>1, <1>4, <1>7
  <2>3. turn' = [sweep |-> turn.sweep, class |-> turn.class,
                 word |-> turn.word + 1, index |-> 1]
    BY <1>1, <2>1
  <2>4. Len(classes[turn.class]) >= 1
    BY <1>1, <1>2
  <2> QED
    BY <1>1, <2>2, <2>3, <2>4 DEF classes
<1>8. CASE /\ ~(turn.index < Len(Class)) /\ ~(turn.word < NumWords - 1)
           /\ turn.class < Len(problem.classes)
  <2>1. turn' = [turn EXCEPT !.class = @ + 1, !.word = 0, !.index = 1]
    BY <1>8 DEF NextTurn
  <2>2. turn.class + 1 \in DOMAIN classes /\ 0 \in Words
    BY <1>1, <1>2, <1>4, <1>8 DEF classes
  <2>3. turn' = [sweep |-> turn.sweep, class |-> turn.class + 1,
                 word |-> 0, index |-> 1]
    BY <1>1, <2>1
  <2>4. Len(classes[turn.class + 1]) >= 1
    BY <1>2, <2>2
  <2> QED
    BY <1>1, <2>2, <2>3, <2>4 DEF classes
<1>9. CASE /\ ~(turn.index < Len(Class)) /\ ~(turn.word < NumWords - 1)
           /\ ~(turn.class < Len(problem.classes))
  <2>1. turn' = [FirstTurn EXCEPT !.sweep = turn.sweep + 1]
    BY <1>9 DEF NextTurn
  <2>2. 1 \in DOMAIN classes /\ 0 \in Words
    BY <1>2, <1>4
  <2> QED
    BY <1>2, <1>3, <2>1, <2>2 DEF classes, FirstTurn
<1> QED
  BY <1>6, <1>7, <1>8, <1>9

\* A flip in the lanes that accept is a step of every walk of the word.
LEMMA FlipIsMetropolis ==
  ASSUME PInv, ~PackedDone,
         NEW m \in [Lanes -> Nat], NEW A \in SUBSET Lanes,
         \A l \in Lanes :
           l \in A <=> Accepts(problem, Node, LaneState(spin[Word], l), m[l]),
         Flip(A), RefStep(m), UNCHANGED <<problem, sweeps>>
  PROVE  /\ spin' \in [Words -> [Nodes -> SUBSET Lanes]]
         /\ ref' \in [Words -> [Lanes -> States]]
         /\ LanesAreMetropolis'
         /\ turn' \in [sweep : 0 .. sweeps, class : DOMAIN problem.classes,
                       word : Words, index : Nat \ {0}]
         /\ turn'.index <= Len(problem.classes[turn'.class])
<1>1. /\ Word \in Words /\ Node \in Nodes /\ spin[Word] \in [Nodes -> SUBSET Lanes]
  BY AtNode DEF PInv
<1>2. /\ spin \in [Words -> [Nodes -> SUBSET Lanes]]
      /\ ref \in [Words -> [Lanes -> States]]
  BY DEF PInv, PackedTypeOK
<1> DEFINE flipped == [spin[Word] EXCEPT ![Node] = Xor(@, A)]
           stepped == [l \in Lanes |-> Metropolis(problem, Node, ref[Word][l], m[l])]
<1>3. flipped \in [Nodes -> SUBSET Lanes]
  BY <1>1 DEF Xor
<1>4. /\ spin' = [spin EXCEPT ![Word] = flipped]
  BY <1>1, <1>2 DEF Flip
<1>5. ref' = [ref EXCEPT ![Word] = stepped]
  BY DEF RefStep
<1>6. ASSUME NEW l \in Lanes
      PROVE  /\ stepped[l] = LaneState(flipped, l)
             /\ LaneState(flipped, l) \in States
  <2> DEFINE s == LaneState(spin[Word], l)
  <2>1. ref[Word][l] = s
    BY <1>1 DEF PInv, LanesAreMetropolis
  <2>2. LaneState(flipped, l) = IF l \in A THEN [s EXCEPT ![Node] = -s[Node]] ELSE s
    BY <1>1, LaneFlip
  <2>3. stepped[l] = Metropolis(problem, Node, s, m[l])
    BY <2>1
  <2>4. l \in A <=> Accepts(problem, Node, s, m[l])
    OBVIOUS
  <2>5. Metropolis(problem, Node, s, m[l])
          = IF Accepts(problem, Node, s, m[l]) THEN [s EXCEPT ![Node] = -s[Node]] ELSE s
    BY DEF Metropolis
  <2>6. LaneState(flipped, l) \in States
    BY <1>3 DEF LaneState, States
  <2> HIDE DEF s, flipped, stepped
  <2> QED
    BY <2>2, <2>3, <2>4, <2>5, <2>6
<1>7. stepped \in [Lanes -> States]
  BY <1>6
<1> HIDE DEF flipped, stepped
<1>8. spin' \in [Words -> [Nodes -> SUBSET Lanes]] /\ ref' \in [Words -> [Lanes -> States]]
  BY <1>2, <1>3, <1>4, <1>5, <1>7
<1>9. ASSUME NEW w \in Words, NEW l \in Lanes
      PROVE  LaneState(spin'[w], l) = ref'[w][l]
  <2>1. CASE w = Word
    BY <1>1, <1>2, <1>4, <1>5, <1>6, <2>1
  <2>2. CASE w # Word
    <3>1. spin'[w] = spin[w] /\ ref'[w] = ref[w]
      BY <1>2, <1>4, <1>5, <2>2
    <3> QED
      BY <3>1 DEF PInv, LanesAreMetropolis
  <2> QED
    BY <2>1, <2>2
<1>10. LanesAreMetropolis'
  BY <1>9 DEF LanesAreMetropolis
<1>11. turn' = NextTurn
  BY DEF Flip
<1> QED
  BY <1>8, <1>10, <1>11, NextTurnType DEF PInv

\* A ripple addition yields words of lanes, and nothing is counted in zero planes.
LEMMA AddPlaneType ==
  ASSUME NEW p \in [Planes -> SUBSET Lanes], NEW w \in SUBSET Lanes, NEW filled
  PROVE  AddPlane(p, filled, w) \in [Planes -> SUBSET Lanes]
<1>1. ASSUME NEW k \in Planes
      PROVE  AddPlane(p, filled, w)[k] \in SUBSET Lanes
  BY <1>1 DEF AddPlane, Xor
<1> QED
  BY <1>1 DEF AddPlane

LEMMA ZeroPlanesValue ==
  ASSUME NEW l
  PROVE  ZeroPlanes \in [Planes -> SUBSET Lanes] /\ Value(ZeroPlanes, l) = 0
BY DEF ZeroPlanes, Planes, Value, Bit

\* One more word.
LEMMA AppendHeld ==
  ASSUME NEW s \in Seq(SUBSET Lanes), NEW w \in SUBSET Lanes, NEW l
  PROVE  /\ Append(s, w) \in Seq(SUBSET Lanes)
         /\ Len(Append(s, w)) = Len(s) + 1
         /\ Cardinality({q \in DOMAIN Append(s, w) : l \in Append(s, w)[q]})
              = Cardinality({q \in DOMAIN s : l \in s[q]}) + Bit(w, l)
<1> DEFINE n == Len(s)
           t == Append(s, w)
           old == {q \in DOMAIN s : l \in s[q]}
           new == {q \in DOMAIN t : l \in t[q]}
<1>1. /\ t \in Seq(SUBSET Lanes) /\ Len(t) = n + 1 /\ n \in Nat
      /\ DOMAIN s = 1 .. n /\ DOMAIN t = 1 .. n + 1
      /\ t[n + 1] = w /\ \A q \in 1 .. n : t[q] = s[q]
  OBVIOUS
<1>2. IsFiniteSet(old) /\ Cardinality(old) \in Nat
  <2>1. 1 \in Int /\ n \in Int
    BY <1>1
  <2>2. IsFiniteSet(1 .. n)
    BY <2>1, FS_Interval, Zenon
  <2>3. old \in SUBSET (1 .. n)
    BY <1>1
  <2> HIDE DEF old
  <2>4. IsFiniteSet(old)
    BY <2>2, <2>3, FS_Subset
  <2> QED
    BY <2>4, FS_CardinalityType
<1>3. n + 1 \notin old
  BY <1>1
<1>4. new = IF l \in w THEN old \cup {n + 1} ELSE old
  <2> HIDE DEF n, t
  <2>1. \A q \in 1 .. n + 1 : q \in 1 .. n \/ q = n + 1
    BY <1>1
  <2>2. 1 .. n \subseteq 1 .. n + 1 /\ n + 1 \in 1 .. n + 1
    BY <1>1
  <2>3. \A q : q \in new <=> (q \in 1 .. n /\ l \in s[q]) \/ (q = n + 1 /\ l \in w)
    BY <1>1, <2>1, <2>2
  <2>4. \A q : q \in old <=> q \in 1 .. n /\ l \in s[q]
    BY <1>1
  <2> HIDE DEF old, new
  <2> QED
    BY <2>3, <2>4
<1> HIDE DEF n, t, old, new
<1>5. Cardinality(new) = Cardinality(old) + Bit(w, l)
  <2>1. CASE l \in w
    <3>1. Cardinality(old \cup {n + 1}) = Cardinality(old) + 1
      BY <1>2, <1>3, FS_AddElement
    <3> QED
      BY <1>4, <2>1, <3>1 DEF Bit
  <2>2. CASE l \notin w
    BY <1>2, <1>4, <2>2 DEF Bit
  <2> QED
    BY <2>1, <2>2
<1> QED
  BY <1>1, <1>5 DEF n, t, old, new

\* The bond the annealer walks joins those walked before.
LEMMA BondWalked ==
  ASSUME Setup, PackedTypeOK, bond \in DOMAIN problem.bonds, bond' = bond + 1,
         problem' = problem, spin' = spin, turn' = turn, NEW l \in Lanes
  PROVE  /\ Cardinality(Before') =
              Cardinality(Before) + (IF Joins(problem, bond, Node) THEN 1 ELSE 0)
         /\ Cardinality(Before') <= Degree(problem, Node)
         /\ Cardinality(SatisfiedBefore(l)') =
              Cardinality(SatisfiedBefore(l))
              + (IF Joins(problem, bond, Node) /\ SatisfiedIn(bond, l) THEN 1 ELSE 0)
         /\ GhostIn(l)' <=> GhostIn(l)
<1> DEFINE row == Row(problem, Node)
           first(b) == {k \in row : k < b}
           sat(b) == {k \in first(b) : SatisfiedIn(k, l)}
<1>1. /\ bond \in Nat /\ DOMAIN problem.bonds \subseteq Nat
      /\ row \subseteq DOMAIN problem.bonds
      /\ bond \in row <=> Joins(problem, bond, Node)
  <2>1. problem.bonds \in Seq(Bond)
    BY AtNode
  <2> QED
    BY <2>1, AtNode DEF Row
<1>2. Node' = Node
  BY DEF Node, Class
<1>3. \A k : SatisfiedIn(k, l)' <=> SatisfiedIn(k, l)
  BY <1>2 DEF SatisfiedIn, Word
<1>4. GhostIn(l)' <=> GhostIn(l)
  BY <1>2 DEF GhostIn, Word
<1>5. Before = first(bond) /\ SatisfiedBefore(l) = sat(bond)
  BY DEF Before, SatisfiedBefore
<1>6. Before' = first(bond + 1) /\ SatisfiedBefore(l)' = sat(bond + 1)
  BY <1>2, <1>3 DEF Before, SatisfiedBefore
<1>7. first(bond + 1) = IF Joins(problem, bond, Node) THEN first(bond) \cup {bond} ELSE first(bond)
  BY <1>1
<1>8. sat(bond + 1) = IF Joins(problem, bond, Node) /\ SatisfiedIn(bond, l)
                      THEN sat(bond) \cup {bond} ELSE sat(bond)
  BY <1>7
<1>9. bond \notin first(bond) /\ bond \notin sat(bond)
  BY <1>1
<1>10. /\ IsFiniteSet(first(bond)) /\ IsFiniteSet(sat(bond))
       /\ Cardinality(first(bond)) \in Nat /\ Cardinality(sat(bond)) \in Nat
  BY <1>5, BeforeFinite
<1>11. /\ IsFiniteSet(row) /\ first(bond + 1) \in SUBSET row
       /\ Cardinality(row) = Degree(problem, Node)
  BY RowFinite DEF Setup, Degree
<1> HIDE DEF row, first, sat
<1>12. Cardinality(first(bond + 1)) =
         Cardinality(first(bond)) + (IF Joins(problem, bond, Node) THEN 1 ELSE 0)
  <2>1. Cardinality(first(bond) \cup {bond}) = Cardinality(first(bond)) + 1
    BY <1>9, <1>10, FS_AddElement
  <2> QED
    BY <1>7, <1>10, <2>1
<1>13. Cardinality(sat(bond + 1)) =
         Cardinality(sat(bond))
         + (IF Joins(problem, bond, Node) /\ SatisfiedIn(bond, l) THEN 1 ELSE 0)
  <2>1. Cardinality(sat(bond) \cup {bond}) = Cardinality(sat(bond)) + 1
    BY <1>9, <1>10, FS_AddElement
  <2> QED
    BY <1>8, <1>10, <2>1
<1>14. Cardinality(first(bond + 1)) <= Degree(problem, Node)
  BY <1>11, FS_Subset
<1> QED
  BY <1>4, <1>5, <1>6, <1>12, <1>13, <1>14

\* A turn that ends flips every lane that accepts.
LEMMA FlipKeepsPInv ==
  ASSUME PInv, ~PackedDone,
         NEW m \in [Lanes -> Nat], NEW A \in SUBSET Lanes,
         \A l \in Lanes :
           l \in A <=> Accepts(problem, Node, LaneState(spin[Word], l), m[l]),
         Flip(A), RefStep(m), bond' = 0,
         UNCHANGED <<problem, sweeps, countVars>>
  PROVE  PInv'
<1>1. /\ spin' \in [Words -> [Nodes -> SUBSET Lanes]]
      /\ ref' \in [Words -> [Lanes -> States]]
      /\ LanesAreMetropolis'
      /\ turn' \in [sweep : 0 .. sweeps, class : DOMAIN problem.classes,
                    word : Words, index : Nat \ {0}]
      /\ turn'.index <= Len(problem.classes[turn'.class])
  BY FlipIsMetropolis
<1>2. Setup'
  BY DEF PInv, Setup
<1>3. PackedTypeOK'
  <2>1. bond' \in 0 .. Len(problem'.bonds) + 1 /\ ~(bond' > 0)
    BY AtNode DEF PInv
  <2>2. /\ problem' \in Problem /\ sweeps' \in Nat
        /\ threshold' \in [Lanes -> Nat] /\ inputs' \in Seq(SUBSET Lanes)
        /\ planes' \in [Planes -> SUBSET Lanes]
    BY DEF PInv, PackedTypeOK, countVars
  <2>3. /\ turn' \in [sweep : 0 .. sweeps', class : DOMAIN problem'.classes,
                      word : Words, index : Nat \ {0}]
        /\ turn'.index <= Len(Class')
    BY <1>1 DEF Class
  <2> QED
    BY <1>1, <2>1, <2>2, <2>3 DEF PackedTypeOK
<1>4. InputsAreExact' /\ RippleIsExact'
  BY DEF InputsAreExact, RippleIsExact
<1> QED
  BY <1>1, <1>2, <1>3, <1>4 DEF PInv

LEMMA FlipAcceptedKeepsPInv ==
  ASSUME PInv, FlipAccepted
  PROVE  PInv'
<1>1. bond = Len(problem.bonds) + 1 /\ Len(problem.bonds) \in Nat
  BY AtNode DEF PInv, FlipAccepted
<1>2. ~PackedDone
  BY <1>1 DEF PInv, InputsAreExact
<1>3. AcceptedLanes \in SUBSET Lanes
  BY DEF AcceptedLanes, AtMostPlanes
<1>4. threshold \in [Lanes -> Nat]
  BY DEF PInv, PackedTypeOK
<1>5. \A l \in Lanes :
        l \in AcceptedLanes
          <=> Accepts(problem, Node, LaneState(spin[Word], l), threshold[l])
  BY <1>1, DecisionIsMetropolis
<1>6. /\ Flip(AcceptedLanes) /\ RefStep(threshold) /\ bond' = 0
      /\ UNCHANGED <<problem, sweeps, countVars>>
  BY DEF FlipAccepted
<1> QED
  BY <1>2, <1>3, <1>4, <1>5, <1>6, FlipKeepsPInv

LEMMA AttemptKeepsPInv ==
  ASSUME PInv, Attempt
  PROVE  PInv'
<1>1. PICK m \in [Lanes -> Drawable(problem)] :
        IF AllAccept(m)
        THEN /\ Flip(Lanes)
             /\ RefStep(m)
             /\ UNCHANGED <<bond, countVars>>
        ELSE /\ threshold' = m
             /\ bond' = 1
             /\ inputs' = <<>>
             /\ planes' = IF Wide /\ HasGhost(problem, Node)
                          THEN AddPlane(ZeroPlanes, 1, Ghost) ELSE ZeroPlanes
             /\ UNCHANGED <<spin, turn, ref>>
  BY DEF Attempt
<1>2. ~PackedDone /\ bond = 0 /\ UNCHANGED <<problem, sweeps>>
  BY DEF Attempt
<1>3. m \in [Lanes -> Nat]
  BY ThresholdsAssumption DEF Drawable
<1>4. /\ problem \in Problem /\ Qualifies(problem) /\ Packs(problem)
      /\ Node \in Nodes /\ spin[Word] \in [Nodes -> SUBSET Lanes]
      /\ Len(problem.bonds) \in Nat
  BY AtNode DEF PInv, Setup
<1>5. CASE AllAccept(m)
  <2>1. ASSUME NEW l \in Lanes
        PROVE  l \in Lanes <=> Accepts(problem, Node, LaneState(spin[Word], l), m[l])
    <3> DEFINE s == LaneState(spin[Word], l)
               d == Bonds(problem, Node)
               c == Value(RowEntry(m), l)
    <3>1. s \in States
      BY <1>4 DEF LaneState, States
    <3>2. c \in 0 .. MaxDegree /\ c = IF m[l] < MaxDegree THEN m[l] ELSE MaxDegree
      BY <1>3, RowEntryValue
    <3>3. d \in 0 .. MaxDegree
      BY <1>4, <3>1, FieldFromCount
    <3>4. Value(ConstantPlanes(d), l) = d
      BY <3>3, ConstantPlanesValue
    <3>5. l \in AtMostPlanes(ConstantPlanes(d), RowEntry(m))
      BY <1>5 DEF AllAccept
    <3>6. d <= c
      BY <3>4, <3>5, AtMostPlanesValue
    <3>7. m[l] \in Nat
      BY <1>3
    <3> HIDE DEF s, c
    <3>8. Bonds(problem, Node) <= c => Accepts(problem, Node, s, m[l])
      BY <1>4, <3>1, <3>2, <3>7, AcceptsFromCount
    <3> QED
      BY <3>6, <3>8 DEF s
  <2>2. /\ Flip(Lanes) /\ RefStep(m) /\ bond' = 0
        /\ UNCHANGED <<problem, sweeps, countVars>>
    BY <1>1, <1>2, <1>5
  <2>3. Lanes \in SUBSET Lanes
    OBVIOUS
  <2> QED
    BY <1>2, <1>3, <2>1, <2>2, <2>3, FlipKeepsPInv
<1>6. CASE ~AllAccept(m)
  <2>1. /\ threshold' = m /\ bond' = 1 /\ inputs' = <<>>
        /\ planes' = IF Wide /\ HasGhost(problem, Node)
                     THEN AddPlane(ZeroPlanes, 1, Ghost) ELSE ZeroPlanes
        /\ spin' = spin /\ turn' = turn /\ ref' = ref
        /\ problem' = problem /\ sweeps' = sweeps
    BY <1>1, <1>2, <1>6
  <2>2. Node' = Node /\ Word' = Word /\ (Wide' <=> Wide)
    BY <2>1 DEF Node, Class, Word, Wide
  <2>3. Setup'
    BY <2>1 DEF PInv, Setup
  <2>4. planes' \in [Planes -> SUBSET Lanes]
    <3>1. ZeroPlanes \in [Planes -> SUBSET Lanes]
      BY ZeroPlanesValue
    <3>2. ASSUME HasGhost(problem, Node)
          PROVE  Ghost \in SUBSET Lanes
      BY <1>4 DEF Ghost, Not
    <3> QED
      BY <2>1, <3>1, <3>2, AddPlaneType
  <2>5. PackedTypeOK'
    <3>1. inputs' \in Seq(SUBSET Lanes) /\ Len(inputs') = 0
      BY <2>1
    <3>2. bond' \in 0 .. Len(problem'.bonds) + 1
      BY <1>4, <2>1
    <3>3. Class' = Class
      BY <2>1 DEF Class
    <3>4. /\ sweeps' \in Nat /\ problem' \in Problem
          /\ spin' \in [Words -> [Nodes -> SUBSET Lanes]]
          /\ turn' \in [sweep : 0 .. sweeps', class : DOMAIN problem'.classes,
                        word : Words, index : Nat \ {0}]
          /\ turn'.index <= Len(Class')
          /\ ref' \in [Words -> [Lanes -> States]]
      BY <2>1, <3>3 DEF PInv, PackedTypeOK
    <3>5. threshold' \in [Lanes -> Nat]
      BY <1>3, <2>1
    <3>6. Len(inputs') <= CsaNeighbors
      BY <3>1 DEF CsaNeighbors
    <3> QED
      BY <2>4, <3>1, <3>2, <3>4, <3>5, <3>6 DEF PackedTypeOK
  <2>6. Before' = {}
    <3>1. DOMAIN problem.bonds = 1 .. Len(problem.bonds)
      BY <1>4 DEF Problem
    <3>2. \A k \in Row(problem, Node) : ~(k < 1)
      BY <1>4, <3>1 DEF Row
    <3> QED
      BY <2>1, <2>2, <3>2 DEF Before
  <2>7. Cardinality({}) = 0
    BY FS_EmptySet
  <2>8. InputsAreExact'
    <3>1. ~PackedDone'
      BY <1>2, <2>1 DEF PackedDone
    <3>2. Len(inputs') = Cardinality(Before')
      BY <2>1, <2>6, <2>7
    <3>3. ASSUME NEW l \in Lanes
          PROVE  Cardinality({q \in DOMAIN inputs' : l \in inputs'[q]})
                   = Cardinality(SatisfiedBefore(l)')
      <4>1. {q \in DOMAIN inputs' : l \in inputs'[q]} = {}
        BY <2>1
      <4>2. SatisfiedBefore(l)' = {}
        BY <2>6 DEF SatisfiedBefore
      <4> QED
        BY <4>1, <4>2
    <3> QED
      BY <3>1, <3>2, <3>3 DEF InputsAreExact
  <2>9. ASSUME NEW l \in Lanes, Wide
        PROVE  Value(planes', l)
                 = Cardinality({k \in Row(problem', Node') : k < bond' /\ SatisfiedIn(k, l)'})
                   + (IF GhostIn(l)' THEN 1 ELSE 0)
    <3>1. {k \in Row(problem', Node') : k < bond' /\ SatisfiedIn(k, l)'} = {}
      BY <2>6 DEF Before
    <3>2. GhostIn(l)' <=> GhostIn(l)
      BY <2>1, <2>2 DEF GhostIn
    <3>3. Value(planes', l) = IF GhostIn(l) THEN 1 ELSE 0
      <4>1. Value(ZeroPlanes, l) = 0
        BY ZeroPlanesValue
      <4>2. CASE HasGhost(problem, Node)
        <5>1. planes' = AddPlane(ZeroPlanes, 1, Ghost)
          BY <2>1, <2>9, <4>2
        <5>2. 1 \in 1 .. MaxDegree /\ Value(ZeroPlanes, l) < 1
          BY <4>1 DEF MaxDegree
        <5>3. Value(AddPlane(ZeroPlanes, 1, Ghost), l) = Value(ZeroPlanes, l) + Bit(Ghost, l)
          BY <5>2, AddPlaneAdds
        <5>4. l \in Ghost <=> GhostIn(l)
          BY <4>2, GhostLane DEF PInv
        <5> QED
          BY <4>1, <5>1, <5>3, <5>4 DEF Bit
      <4>3. CASE ~HasGhost(problem, Node)
        <5>1. planes' = ZeroPlanes
          BY <2>1, <4>3
        <5>2. ~GhostIn(l)
          BY <4>3, GhostLane DEF PInv
        <5> QED
          BY <4>1, <5>1, <5>2
      <4> QED
        BY <4>2, <4>3
    <3> QED
      BY <2>7, <3>1, <3>2, <3>3
  <2>10. RippleIsExact'
    BY <2>2, <2>9 DEF RippleIsExact
  <2>11. LanesAreMetropolis'
    BY <2>1 DEF PInv, LanesAreMetropolis
  <2> QED
    BY <2>3, <2>5, <2>8, <2>10, <2>11 DEF PInv
<1> QED
  BY <1>5, <1>6

LEMMA CountBondKeepsPInv ==
  ASSUME PInv, CountBond
  PROVE  PInv'
<1> DEFINE joins == Joins(problem, bond, Node)
           n == Len(inputs)
<1>1. /\ bond \in DOMAIN problem.bonds /\ bond' = bond + 1
      /\ problem' = problem /\ sweeps' = sweeps /\ spin' = spin /\ turn' = turn
      /\ threshold' = threshold /\ ref' = ref
      /\ IF joins
         THEN /\ inputs' = Append(inputs, Satisfied(bond))
              /\ planes' = IF Wide THEN AddPlane(planes, Filled + 1, Satisfied(bond))
                           ELSE planes
         ELSE inputs' = inputs /\ planes' = planes
  BY DEF CountBond
<1>2. Setup /\ PackedTypeOK /\ InputsAreExact /\ RippleIsExact /\ LanesAreMetropolis
  BY DEF PInv
<1>3. /\ problem \in Problem /\ Packs(problem) /\ Node \in Nodes
      /\ problem.bonds \in Seq(Bond) /\ Len(problem.bonds) \in Nat
      /\ bond \in Nat /\ bond > 0 /\ bond' > 0 /\ bond <= Len(problem.bonds)
  BY <1>1, <1>2, AtNode DEF Setup
<1>4. Node' = Node /\ Word' = Word /\ Class' = Class /\ (Wide' <=> Wide)
  BY <1>1 DEF Node, Class, Word, Wide
<1>5. /\ inputs \in Seq(SUBSET Lanes) /\ n \in Nat
      /\ planes \in [Planes -> SUBSET Lanes]
  BY <1>2 DEF PackedTypeOK
<1>6. ~PackedDone /\ n = Cardinality(Before)
  BY <1>2, <1>3 DEF InputsAreExact
<1>7. ASSUME joins, NEW l \in Lanes
      PROVE  /\ Satisfied(bond) \in SUBSET Lanes
             /\ l \in Satisfied(bond) <=> SatisfiedIn(bond, l)
  <2>1. bond \in Row(problem, Node)
    BY <1>1, <1>7 DEF Row
  <2> QED
    BY <1>2, <2>1, SatisfiedLane
<1>8. \E l : l \in Lanes
  <2>1. 0 \in Lanes
    BY LanesAssumption
  <2> QED
    BY <2>1
<1>9. joins => Satisfied(bond) \in SUBSET Lanes
  BY <1>7, <1>8
<1>10. /\ Cardinality(Before') = n + (IF joins THEN 1 ELSE 0)
       /\ Cardinality(Before') <= Degree(problem, Node)
       /\ Degree(problem, Node) \in Nat
  BY <1>1, <1>2, <1>6, <1>8, BondWalked, BeforeFinite
<1>11. inputs' \in Seq(SUBSET Lanes) /\ Len(inputs') = Cardinality(Before')
  <2>1. CASE joins
    BY <1>1, <1>5, <1>9, <1>10, <2>1, AppendHeld
  <2>2. CASE ~joins
    BY <1>1, <1>5, <1>10, <2>2
  <2> QED
    BY <2>1, <2>2
<1>12. ASSUME joins
       PROVE  Filled + 1 \in 1 .. MaxDegree
  <2>1. Bonds(problem, Node) <= MaxDegree
    BY <1>3 DEF Packs
  <2>2. n + 1 <= Degree(problem, Node)
    BY <1>10, <1>12
  <2> HIDE DEF n
  <2>3. Filled = n + (IF HasGhost(problem, Node) THEN 1 ELSE 0)
    BY DEF Filled, n
  <2> QED
    BY <1>5, <1>10, <2>1, <2>2, <2>3 DEF Bonds, MaxDegree
<1>13. ASSUME NEW l \in Lanes
       PROVE  /\ Cardinality(SatisfiedBefore(l)') =
                   Cardinality(SatisfiedBefore(l))
                   + (IF joins /\ SatisfiedIn(bond, l) THEN 1 ELSE 0)
              /\ GhostIn(l)' <=> GhostIn(l)
              /\ Cardinality(SatisfiedBefore(l)) \in Nat
              /\ Cardinality(SatisfiedBefore(l)) <= n
  BY <1>1, <1>2, <1>6, BondWalked, BeforeFinite
<1>14. Setup'
  BY <1>1, <1>2 DEF Setup
<1>15. planes' \in [Planes -> SUBSET Lanes]
  <2>1. CASE joins /\ Wide
    <3>1. AddPlane(planes, Filled + 1, Satisfied(bond)) \in [Planes -> SUBSET Lanes]
      BY <1>5, <1>9, <2>1, AddPlaneType
    <3> QED
      BY <1>1, <2>1, <3>1
  <2>2. CASE ~(joins /\ Wide)
    BY <1>1, <1>5, <2>2
  <2> QED
    BY <2>1, <2>2
<1>16. PackedTypeOK'
  <2>1. bond' \in 0 .. Len(problem'.bonds) + 1
    BY <1>1, <1>3
  <2>2. ~Wide' => Len(inputs') <= CsaNeighbors
    <3>1. ~Wide => Degree(problem, Node) <= CsaNeighbors
      BY <1>10 DEF Wide, CsaNeighbors
    <3>2. Len(inputs') \in Nat /\ Len(inputs') <= Degree(problem, Node)
      BY <1>10, <1>11
    <3> QED
      BY <1>4, <1>10, <3>1, <3>2 DEF CsaNeighbors
  <2>3. /\ problem' \in Problem /\ sweeps' \in Nat /\ threshold' \in [Lanes -> Nat]
        /\ spin' \in [Words -> [Nodes -> SUBSET Lanes]]
        /\ ref' \in [Words -> [Lanes -> States]]
        /\ turn' \in [sweep : 0 .. sweeps', class : DOMAIN problem'.classes,
                      word : Words, index : Nat \ {0}]
        /\ turn'.index <= Len(Class')
    BY <1>1, <1>2, <1>4 DEF PackedTypeOK
  <2> QED
    BY <1>11, <1>15, <2>1, <2>2, <2>3 DEF PackedTypeOK
<1>17. InputsAreExact'
  <2>1. ~PackedDone'
    BY <1>1, <1>6 DEF PackedDone
  <2>2. ASSUME NEW l \in Lanes
        PROVE  Cardinality({q \in DOMAIN inputs' : l \in inputs'[q]})
                 = Cardinality(SatisfiedBefore(l)')
    <3>1. Cardinality({q \in DOMAIN inputs : l \in inputs[q]})
            = Cardinality(SatisfiedBefore(l))
      BY <1>2, <1>3 DEF InputsAreExact
    <3>2. CASE joins
      <4>1. Cardinality({q \in DOMAIN inputs' : l \in inputs'[q]})
              = Cardinality({q \in DOMAIN inputs : l \in inputs[q]}) + Bit(Satisfied(bond), l)
        BY <1>1, <1>5, <1>9, <3>2, AppendHeld
      <4>2. Bit(Satisfied(bond), l) = IF joins /\ SatisfiedIn(bond, l) THEN 1 ELSE 0
        BY <1>7, <3>2 DEF Bit
      <4> QED
        BY <1>13, <3>1, <4>1, <4>2
    <3>3. CASE ~joins
      <4>1. inputs' = inputs
        BY <1>1, <3>3
      <4> QED
        BY <1>13, <3>1, <3>3, <4>1
    <3> QED
      BY <3>2, <3>3
  <2> QED
    BY <1>11, <2>1, <2>2 DEF InputsAreExact
<1>18. ASSUME Wide, NEW l \in Lanes
       PROVE  Value(planes', l)
                = Cardinality({k \in Row(problem', Node') : k < bond' /\ SatisfiedIn(k, l)'})
                  + (IF GhostIn(l)' THEN 1 ELSE 0)
  <2> DEFINE c == Cardinality(SatisfiedBefore(l))
             g == IF GhostIn(l) THEN 1 ELSE 0
  <2>1. Value(planes, l) = c + g
    <3>1. {k \in Row(problem, Node) : k < bond /\ SatisfiedIn(k, l)} = SatisfiedBefore(l)
      BY DEF SatisfiedBefore, Before
    <3> QED
      BY <1>2, <1>3, <1>18, <3>1 DEF RippleIsExact
  <2>2. {k \in Row(problem', Node') : k < bond' /\ SatisfiedIn(k, l)'} = SatisfiedBefore(l)'
    BY DEF SatisfiedBefore, Before
  <2>3. Value(planes', l) = Value(planes, l) + (IF joins /\ SatisfiedIn(bond, l) THEN 1 ELSE 0)
    <3>1. CASE joins
      <4>1. planes' = AddPlane(planes, Filled + 1, Satisfied(bond))
        BY <1>1, <1>18, <3>1
      <4>2. Value(planes, l) < Filled + 1
        <5>1. GhostIn(l) => HasGhost(problem, Node)
          BY <1>2, GhostLane
        <5>2. c \in Nat /\ c <= n
          BY <1>13
        <5>3. Filled = n + (IF HasGhost(problem, Node) THEN 1 ELSE 0)
          BY DEF Filled
        <5> HIDE DEF c, n
        <5> QED
          BY <1>5, <2>1, <5>1, <5>2, <5>3
      <4>3. Value(AddPlane(planes, Filled + 1, Satisfied(bond)), l)
              = Value(planes, l) + Bit(Satisfied(bond), l)
        BY <1>12, <3>1, <4>2, AddPlaneAdds
      <4>4. l \in Satisfied(bond) <=> SatisfiedIn(bond, l)
        BY <1>7, <3>1
      <4> QED
        BY <3>1, <4>1, <4>3, <4>4 DEF Bit
    <3>2. CASE ~joins
      <4>1. planes' = planes
        BY <1>1, <3>2
      <4>2. Value(planes, l) \in 0 .. 63
        BY ValueRange
      <4> QED
        BY <3>2, <4>1, <4>2
    <3> QED
      BY <3>1, <3>2
  <2>4. c \in Nat /\ g \in 0 .. 1
    BY <1>13
  <2>5. /\ Cardinality(SatisfiedBefore(l)') =
             c + (IF joins /\ SatisfiedIn(bond, l) THEN 1 ELSE 0)
        /\ GhostIn(l)' <=> GhostIn(l)
    BY <1>13
  <2>6. (IF GhostIn(l)' THEN 1 ELSE 0) = g
    BY <2>5
  <2> HIDE DEF c, g
  <2>7. Value(planes', l) = Cardinality(SatisfiedBefore(l)') + g
    BY <2>1, <2>3, <2>4, <2>5
  <2> QED
    BY <2>2, <2>6, <2>7
<1>19. RippleIsExact'
  BY <1>4, <1>18 DEF RippleIsExact
<1>20. LanesAreMetropolis'
  BY <1>1, <1>2 DEF LanesAreMetropolis
<1> QED
  BY <1>14, <1>16, <1>17, <1>19, <1>20 DEF PInv

LEMMA PackedInitPInv ==
  ASSUME PackedInit
  PROVE  PInv
<1>1. Setup
  BY DEF PackedInit, Setup
<1>2. LanesAreMetropolis
  BY DEF PackedInit, LanesAreMetropolis
<1>3. InputsAreExact /\ RippleIsExact
  BY DEF PackedInit, InputsAreExact, RippleIsExact
<1>4. PackedTypeOK
  <2>1. problem.bonds \in Seq(Bond) /\ problem.classes \in Seq(Seq(Nodes))
    BY DEF PackedInit, Problem
  <2>2. 1 \in DOMAIN problem.classes /\ Len(problem.classes[1]) >= 1
    <3>1. 1 \in DOMAIN problem.classes
      BY <2>1 DEF PackedInit
    <3>2. problem.classes[1] \in Seq(Nodes) /\ problem.classes[1] # <<>>
      BY <2>1, <3>1 DEF PackedInit
    <3> QED
      BY <3>1, <3>2
  <2>3. 0 \in Words
    BY WordsAssumption DEF Words
  <2>4. /\ turn \in [sweep : 0 .. sweeps, class : DOMAIN problem.classes,
                     word : Words, index : Nat \ {0}]
        /\ turn.index <= Len(Class)
    BY <2>2, <2>3 DEF PackedInit, FirstTurn, Class
  <2>5. planes \in [Planes -> SUBSET Lanes]
    BY ZeroPlanesValue DEF PackedInit
  <2>6. ref \in [Words -> [Lanes -> States]]
    <3>1. spin \in [Words -> [Nodes -> SUBSET Lanes]]
      BY DEF PackedInit
    <3>2. \A w \in Words, l \in Lanes : LaneState(spin[w], l) \in States
      BY <3>1 DEF LaneState, States
    <3> QED
      BY <3>2 DEF PackedInit
  <2>7. bond \in 0 .. Len(problem.bonds) + 1 /\ ~(bond > 0)
    BY <2>1 DEF PackedInit
  <2> QED
    BY <2>4, <2>5, <2>6, <2>7 DEF PackedInit, PackedTypeOK
<1> QED
  BY <1>1, <1>2, <1>3, <1>4 DEF PInv

LEMMA StutterKeepsPInv ==
  ASSUME PInv, UNCHANGED <<problem, sweeps, bond, packedVars>>
  PROVE  PInv'
<1>1. /\ problem' = problem /\ sweeps' = sweeps /\ bond' = bond
      /\ spin' = spin /\ turn' = turn /\ threshold' = threshold
      /\ inputs' = inputs /\ planes' = planes /\ ref' = ref
  BY DEF packedVars, countVars
<1>2. Node' = Node /\ Word' = Word /\ Class' = Class /\ (Wide' <=> Wide)
      /\ (PackedDone' <=> PackedDone)
  BY <1>1 DEF Node, Class, Word, Wide, PackedDone
<1>3. /\ \A k, l : SatisfiedIn(k, l)' <=> SatisfiedIn(k, l)
      /\ \A l : GhostIn(l)' <=> GhostIn(l)
  BY <1>1, <1>2 DEF SatisfiedIn, GhostIn
<1>4. Before' = Before /\ \A l : SatisfiedBefore(l)' = SatisfiedBefore(l)
  BY <1>1, <1>2, <1>3 DEF Before, SatisfiedBefore
<1>5. Setup'
  BY <1>1 DEF PInv, Setup
<1>6. PackedTypeOK'
  BY <1>1, <1>2 DEF PInv, PackedTypeOK
<1>7. InputsAreExact'
  BY <1>1, <1>2, <1>4 DEF PInv, InputsAreExact
<1>8. RippleIsExact'
  BY <1>1, <1>2, <1>3 DEF PInv, RippleIsExact
<1>9. LanesAreMetropolis'
  BY <1>1 DEF PInv, LanesAreMetropolis
<1> QED
  BY <1>5, <1>6, <1>7, <1>8, <1>9 DEF PInv

-----------------------------------------------------------------------------
(* The theorems.                                                           *)

\* The invariant of anneal_words: while it counts the bonds of a node, the
\* inputs of the tree and the planes of the ripple counter agree, lane by lane,
\* with the bonds that the state of the lane satisfies.
THEOREM PackedInvariant == PackedSpec => []PInv
<1>1. PInv /\ [PackedStep]_<<problem, sweeps, bond, packedVars>> => PInv'
  BY AttemptKeepsPInv, CountBondKeepsPInv, FlipAcceptedKeepsPInv, StutterKeepsPInv
     DEF PackedStep
<1> QED
  BY <1>1, PackedInitPInv, PTL DEF PackedSpec

\* The annealer never reads past a class, a row or a word (anneal_words).
THEOREM PackedTypes == PackedSpec => []PackedTypeOK
<1>1. PInv => PackedTypeOK
  BY DEF PInv
<1> QED
  BY <1>1, PackedInvariant, PTL

\* However many lanes, nodes, bonds and sweeps: every lane of every word takes
\* exactly the flips of the scalar Metropolis walk with its thresholds, though
\* one count serves all the lanes (sa_msc.rs 36-55).
THEOREM LanesAreWalks == PackedSpec => []LanesAreMetropolis
<1>1. PInv => LanesAreMetropolis
  BY DEF PInv
<1> QED
  BY <1>1, PackedInvariant, PTL

\* However wide a row is, up to the 63 bonds that six planes hold, the ripple
\* counter never loses a carry, although it stops at the plane that the words
\* absorbed so far can need (sa_msc.rs 419-434).
THEOREM RippleCounts == PackedSpec => []RippleIsExact
<1>1. PInv => RippleIsExact
  BY DEF PInv
<1> QED
  BY <1>1, PackedInvariant, PTL

-----------------------------------------------------------------------------
(* The scalar annealer.  While a flip is propagated, the bonds from bond on *)
(* still count the spin of the node as it was.                              *)

Seen(b, x, s, k) == IF b > 0 /\ k >= b THEN [s EXCEPT ![x] = -s[x]] ELSE s
Pulling(b, x, s, v, d) ==
  {k \in Row(problem, v) : Pull(problem, k, v, Seen(b, x, s, k)) = d}
CacheIs(b, x, s, v) ==
  problem.h[v] + Cardinality(Pulling(b, x, s, v, 1)) - Cardinality(Pulling(b, x, s, v, -1))

SInv ==
  /\ problem \in Problem /\ Qualifies(problem) /\ sweeps \in Nat
  /\ ScalarTypeOK
  /\ bond \in 0 .. Len(problem.bonds) + 1
  /\ bond > 0 => sweep < sweeps
  /\ \A v \in Nodes : heff[v] = CacheIs(bond, var, spins, v)
  /\ ReadIsMetropolis

LEMMA SeenState ==
  ASSUME NEW b \in Nat, NEW x \in Nodes, NEW s \in States, NEW k \in Nat
  PROVE  /\ Seen(b, x, s, k) \in States
         /\ \A v \in Nodes : v # x => Seen(b, x, s, k)[v] = s[v]
         /\ Seen(b, x, s, k)[x] = IF b > 0 /\ k >= b THEN -s[x] ELSE s[x]
         /\ -s[x] \in {-1, 1}
BY DEF Seen, States

\* A row splits into the bonds that pull up and those that pull down.
LEMMA PullsSplit ==
  ASSUME problem \in Problem, Qualifies(problem), NEW v \in Nodes,
         NEW b \in Nat, NEW x \in Nodes, NEW s \in States
  PROVE  /\ IsFiniteSet(Pulling(b, x, s, v, 1)) /\ IsFiniteSet(Pulling(b, x, s, v, -1))
         /\ Cardinality(Pulling(b, x, s, v, 1)) \in Nat
         /\ Cardinality(Pulling(b, x, s, v, -1)) \in Nat
         /\ Degree(problem, v) = Cardinality(Pulling(b, x, s, v, 1))
                                 + Cardinality(Pulling(b, x, s, v, -1))
<1> DEFINE up == Pulling(b, x, s, v, 1)
           down == Pulling(b, x, s, v, -1)
<1>1. IsFiniteSet(Row(problem, v)) /\ Row(problem, v) \subseteq DOMAIN problem.bonds
  BY RowFinite
<1>2. DOMAIN problem.bonds \subseteq Nat
  BY DEF Problem
<1>3. \A k \in Row(problem, v) : Pull(problem, k, v, Seen(b, x, s, k)) \in {-1, 1}
  BY <1>1, <1>2, SeenState, PullIsUnit
<1>4. up \cup down = Row(problem, v) /\ up \cap down = {}
  BY <1>3 DEF Pulling
<1> DEFINE row == Row(problem, v)
<1>5. IsFiniteSet(up \cup down) /\ up \cup down = row /\ up \cap down = {}
  BY <1>1, <1>4
<1> HIDE DEF up, down, row
<1>6. /\ IsFiniteSet(up) /\ IsFiniteSet(down)
      /\ Cardinality(up) \in Nat /\ Cardinality(down) \in Nat
      /\ Cardinality(row) = Cardinality(up) + Cardinality(down)
  BY <1>5, CountSplit
<1> QED
  BY <1>6 DEF up, down, row, Degree

\* One bond of a flip.
LEMMA OneBond ==
  ASSUME problem \in Problem, Qualifies(problem), NEW v \in Nodes,
         NEW b \in DOMAIN problem.bonds, NEW x \in Nodes, NEW s \in States
  PROVE  CacheIs(b + 1, x, s, v) =
           CacheIs(b, x, s, v)
           + (IF Joins(problem, b, x) /\ v = OtherEnd(problem, b, x)
              THEN 2 * problem.bonds[b].j * s[x] ELSE 0)
<1> DEFINE o == OtherEnd(problem, b, x)
           j == problem.bonds[b].j
           before(k) == Pull(problem, k, v, Seen(b, x, s, k))
           after(k) == Pull(problem, k, v, Seen(b + 1, x, s, k))
           up(c) == Pulling(c, x, s, v, 1)
           down(c) == Pulling(c, x, s, v, -1)
<1>1. /\ b \in Nat /\ b > 0 /\ b + 1 \in Nat /\ DOMAIN problem.bonds \subseteq Nat
      /\ Row(problem, v) \subseteq DOMAIN problem.bonds
  <2>1. Row(problem, v) \subseteq DOMAIN problem.bonds
    BY RowFinite
  <2>2. DOMAIN problem.bonds = 1 .. Len(problem.bonds) /\ Len(problem.bonds) \in Nat
    BY DEF Problem
  <2> QED
    BY <2>1, <2>2
<1>2. ASSUME NEW k \in Row(problem, v), k # b
      PROVE  after(k) = before(k)
  <2>1. k \in Nat
    BY <1>1
  <2>2. k >= b + 1 <=> k >= b
    BY <1>1, <1>2, <2>1
  <2>3. Seen(b + 1, x, s, k) = Seen(b, x, s, k)
    BY <1>1, <2>2 DEF Seen
  <2> QED
    BY <2>3
<1>3. /\ problem.h[v] \in Int /\ s[x] \in {-1, 1}
      /\ Cardinality(up(b)) \in Nat /\ Cardinality(down(b)) \in Nat
      /\ IsFiniteSet(up(b)) /\ IsFiniteSet(down(b))
  BY <1>1, PullsSplit DEF Problem, States
<1>4. CASE Joins(problem, b, x) /\ v = o
  <2>1. /\ b \in Row(problem, v) /\ OtherEnd(problem, b, v) = x /\ v # x
        /\ j \in {-1, 1}
    BY <1>4 DEF Row, Joins, Kept, OtherEnd, Qualifies
  <2>2. before(b) = j * (-s[x]) /\ after(b) = j * s[x]
    <3>1. Seen(b, x, s, b)[x] = -s[x]
      <4>1. Seen(b, x, s, b)[x] = IF b > 0 /\ b >= b THEN -s[x] ELSE s[x]
        BY <1>1, SeenState
      <4> QED
        BY <1>1, <4>1
    <3>2. Seen(b + 1, x, s, b)[x] = s[x]
      <4>1. Seen(b + 1, x, s, b)[x] = IF b + 1 > 0 /\ b >= b + 1 THEN -s[x] ELSE s[x]
        BY <1>1, SeenState
      <4> QED
        BY <1>1, <4>1
    <3> QED
      BY <2>1, <3>1, <3>2 DEF Pull
  <2> HIDE DEF before, after
  <2>3. \A c \in {b, b + 1} : \A k \in Row(problem, v) :
          /\ k \in up(c) <=> (IF c = b THEN before(k) ELSE after(k)) = 1
          /\ k \in down(c) <=> (IF c = b THEN before(k) ELSE after(k)) = -1
    BY <1>1 DEF Pulling, before, after
  <2>4. \A c : up(c) \subseteq Row(problem, v) /\ down(c) \subseteq Row(problem, v)
    BY DEF Pulling
  <2>5. b + 1 # b
    BY <1>1
  <2> HIDE DEF up, down, j
  <2>6. CASE j * s[x] = 1
    <3>1. before(b) = -1 /\ after(b) = 1
      BY <1>3, <2>1, <2>2, <2>6
    <3>2. b \notin up(b) /\ b \in down(b)
      BY <2>1, <2>3, <3>1
    <3>3. up(b + 1) = up(b) \cup {b}
      BY <1>2, <2>1, <2>3, <2>4, <2>5, <3>1
    <3>4. down(b + 1) = down(b) \ {b}
      BY <1>2, <2>1, <2>3, <2>4, <2>5, <3>1
    <3>5. Cardinality(up(b + 1)) = Cardinality(up(b)) + 1
      BY <1>3, <3>2, <3>3, FS_AddElement
    <3>6. Cardinality(down(b + 1)) = Cardinality(down(b)) - 1
      BY <1>3, <3>2, <3>4, FS_RemoveElement
    <3>7. 2 * j * s[x] = 2
      BY <1>3, <2>1, <2>6
    <3> QED
      BY <1>3, <1>4, <3>5, <3>6, <3>7 DEF CacheIs, up, down, j, o
  <2>7. CASE j * s[x] = -1
    <3>1. before(b) = 1 /\ after(b) = -1
      BY <1>3, <2>1, <2>2, <2>7
    <3>2. b \notin down(b) /\ b \in up(b)
      BY <2>1, <2>3, <3>1
    <3>3. down(b + 1) = down(b) \cup {b}
      BY <1>2, <2>1, <2>3, <2>4, <2>5, <3>1
    <3>4. up(b + 1) = up(b) \ {b}
      BY <1>2, <2>1, <2>3, <2>4, <2>5, <3>1
    <3>5. Cardinality(down(b + 1)) = Cardinality(down(b)) + 1
      BY <1>3, <3>2, <3>3, FS_AddElement
    <3>6. Cardinality(up(b + 1)) = Cardinality(up(b)) - 1
      BY <1>3, <3>2, <3>4, FS_RemoveElement
    <3>7. 2 * j * s[x] = -2
      BY <1>3, <2>1, <2>7
    <3> QED
      BY <1>3, <1>4, <3>5, <3>6, <3>7 DEF CacheIs, up, down, j, o
  <2> QED
    BY <1>3, <2>1, <2>6, <2>7
<1>5. CASE ~(Joins(problem, b, x) /\ v = o)
  <2>1. ASSUME b \in Row(problem, v)
        PROVE  after(b) = before(b)
    <3>1. OtherEnd(problem, b, v) # x /\ OtherEnd(problem, b, v) \in Nodes
      BY <1>5, <2>1 DEF Row, Joins, Kept, OtherEnd
    <3>2. \A u \in Nodes : u # x => Seen(b, x, s, b)[u] = s[u]
      BY DEF Seen, States
    <3>3. \A u \in Nodes : u # x => Seen(b + 1, x, s, b)[u] = s[u]
      BY DEF Seen, States
    <3> QED
      BY <3>1, <3>2, <3>3 DEF Pull
  <2>2. up(b + 1) = up(b) /\ down(b + 1) = down(b)
    BY <1>2, <2>1 DEF Pulling
  <2> QED
    BY <1>3, <1>5, <2>2 DEF CacheIs
<1> QED
  BY <1>4, <1>5

\* Before the first bond of a flip the cache is that of the old state, after
\* the last one that of the new state.
LEMMA CacheEnds ==
  ASSUME problem \in Problem, NEW v \in Nodes, NEW x \in Nodes, NEW s \in States
  PROVE  /\ CacheIs(0, x, s, v) = Field(problem, v, s)
         /\ CacheIs(Len(problem.bonds) + 1, x, s, v) = Field(problem, v, s)
         /\ CacheIs(1, x, [s EXCEPT ![x] = -s[x]], v) = Field(problem, v, s)
         /\ [s EXCEPT ![x] = -s[x]] \in States
<1> DEFINE t == [s EXCEPT ![x] = -s[x]]
<1>1. /\ Len(problem.bonds) \in Nat
      /\ \A k \in Row(problem, v) : k \in 1 .. Len(problem.bonds)
  BY RowFinite DEF Problem
<1>2. s \in [Nodes -> {-1, 1}] /\ t \in [Nodes -> {-1, 1}] /\ [t EXCEPT ![x] = -t[x]] = s
  <2>1. s \in [Nodes -> {-1, 1}]
    BY DEF States
  <2>2. -s[x] \in {-1, 1} /\ -(-s[x]) = s[x]
    BY <2>1
  <2>3. t \in [Nodes -> {-1, 1}] /\ t[x] = -s[x]
    BY <2>1, <2>2
  <2> HIDE DEF t
  <2>4. \A u \in Nodes : u # x => t[u] = s[u]
    BY <2>1 DEF t
  <2>5. \A u \in Nodes : [t EXCEPT ![x] = -t[x]][u] = s[u]
    BY <2>2, <2>3, <2>4
  <2> QED
    BY <2>1, <2>3, <2>5
<1>3. \A k \in Row(problem, v) :
        /\ Seen(0, x, s, k) = s
        /\ Seen(Len(problem.bonds) + 1, x, s, k) = s
        /\ Seen(1, x, t, k) = s
  BY <1>1, <1>2 DEF Seen
<1> HIDE DEF t
<1>4. ASSUME NEW d
      PROVE  /\ Pulling(0, x, s, v, d) = {k \in Row(problem, v) : Pull(problem, k, v, s) = d}
             /\ Pulling(Len(problem.bonds) + 1, x, s, v, d)
                  = {k \in Row(problem, v) : Pull(problem, k, v, s) = d}
             /\ Pulling(1, x, t, v, d) = {k \in Row(problem, v) : Pull(problem, k, v, s) = d}
  BY <1>3 DEF Pulling
<1> QED
  BY <1>2, <1>4 DEF CacheIs, Field, States, t

LEMMA CacheInReach ==
  ASSUME SInv
  PROVE  FieldsInReach
<1>1. ASSUME NEW v \in Nodes
      PROVE  Abs(heff[v]) <= Reach(problem, v) /\ Abs(heff[v]) <= 127
  <2> DEFINE up == Cardinality(Pulling(bond, var, spins, v, 1))
             down == Cardinality(Pulling(bond, var, spins, v, -1))
  <2>1. /\ problem \in Problem /\ Qualifies(problem)
        /\ var \in Nodes /\ spins \in States
        /\ heff[v] = problem.h[v] + up - down
    BY DEF SInv, ScalarTypeOK, CacheIs
  <2>2. bond \in Nat
    <3>1. Len(problem.bonds) \in Nat
      BY <2>1 DEF Problem
    <3> QED
      BY <3>1 DEF SInv
  <2>3. up \in Nat /\ down \in Nat /\ Degree(problem, v) = up + down
    BY <2>1, <2>2, PullsSplit
  <2>4. problem.h[v] \in Int /\ Reach(problem, v) <= 100
    BY <2>1 DEF Problem, Qualifies, MaxFieldLimit
  <2>5. Reach(problem, v) = Abs(problem.h[v]) + (up + down)
    BY <2>3 DEF Reach
  <2> HIDE DEF up, down
  <2> QED
    BY <2>1, <2>3, <2>4, <2>5 DEF Abs
<1> QED
  BY <1>1 DEF FieldsInReach

LEMMA CacheExact ==
  ASSUME SInv
  PROVE  FieldsAreExact
<1>1. problem \in Problem /\ var \in Nodes /\ spins \in States
  BY DEF SInv, ScalarTypeOK
<1>2. \A v \in Nodes : CacheIs(0, var, spins, v) = Field(problem, v, spins)
  BY <1>1, CacheEnds
<1> QED
  BY <1>2 DEF SInv, FieldsAreExact

LEMMA ScalarInitSInv ==
  ASSUME ScalarInit
  PROVE  SInv
<1>1. /\ problem \in Problem /\ Qualifies(problem) /\ sweeps \in Nat /\ bond = 0
      /\ read \in Reads /\ sweep = 0 /\ var = 0 /\ spins \in States
      /\ heff = [v \in Nodes |-> Field(problem, v, spins)] /\ walk = spins
  BY DEF ScalarInit, SeedFields
<1>2. var \in Nodes
  BY <1>1, NumNodesAssumption DEF Qualifies, Nodes
<1>3. ASSUME NEW v \in Nodes
      PROVE  heff[v] = CacheIs(bond, var, spins, v) /\ Field(problem, v, spins) \in Int
  <2>1. CacheIs(0, var, spins, v) = Field(problem, v, spins)
    BY <1>1, <1>2, CacheEnds
  <2>2. /\ Cardinality(Pulling(0, var, spins, v, 1)) \in Nat
        /\ Cardinality(Pulling(0, var, spins, v, -1)) \in Nat
        /\ problem.h[v] \in Int
    BY <1>1, <1>2, PullsSplit DEF Problem
  <2> QED
    BY <1>1, <2>1, <2>2 DEF CacheIs
<1>4. bond \in 0 .. Len(problem.bonds) + 1
  BY <1>1 DEF Problem
<1>5. read \in 0 .. NumReads
  BY <1>1, ReadsAssumption DEF Reads
<1>6. heff \in [Nodes -> Int]
  BY <1>1, <1>3
<1>7. ScalarTypeOK
  BY <1>1, <1>2, <1>5, <1>6 DEF ScalarTypeOK
<1> QED
  BY <1>1, <1>3, <1>4, <1>7 DEF SInv, ReadIsMetropolis

LEMMA NextNodeType ==
  ASSUME var \in Nodes, sweep \in 0 .. sweeps, sweeps \in Nat, sweep < sweeps,
         Qualifies(problem), NextNode
  PROVE  var' \in Nodes /\ sweep' \in 0 .. sweeps
BY NumNodesAssumption DEF NextNode, Nodes, Qualifies

LEMMA VisitKeepsSInv ==
  ASSUME SInv, Visit
  PROVE  SInv'
<1>1. PICK m \in Drawable(problem) :
        /\ walk' = Metropolis(problem, var, walk, m)
        /\ IF spins[var] * heff[var] >= -m
           THEN /\ spins' = [spins EXCEPT ![var] = -spins[var]]
                /\ bond' = 1
                /\ UNCHANGED <<var, sweep>>
           ELSE NextNode /\ UNCHANGED <<spins, bond>>
  BY DEF Visit
<1>2. /\ bond = 0 /\ sweep < sweeps
      /\ problem' = problem /\ sweeps' = sweeps /\ read' = read /\ heff' = heff
  BY DEF Visit
<1>3. /\ problem \in Problem /\ Qualifies(problem) /\ sweeps \in Nat
      /\ read \in 0 .. NumReads /\ sweep \in 0 .. sweeps /\ var \in Nodes
      /\ spins \in States /\ heff \in [Nodes -> Int] /\ walk = spins
      /\ \A v \in Nodes : heff[v] = CacheIs(bond, var, spins, v)
  BY DEF SInv, ScalarTypeOK, ReadIsMetropolis
<1>4. heff[var] = Field(problem, var, spins)
  BY <1>2, <1>3, CacheExact DEF FieldsAreExact
<1>5. Accepts(problem, var, walk, m) <=> spins[var] * heff[var] >= -m
  BY <1>3, <1>4 DEF Accepts
<1>6. Len(problem.bonds) \in Nat
  BY <1>3 DEF Problem
<1>7. CASE spins[var] * heff[var] >= -m
  <2>1. /\ spins' = [spins EXCEPT ![var] = -spins[var]]
        /\ bond' = 1 /\ var' = var /\ sweep' = sweep
    BY <1>1, <1>7
  <2>2. walk' = spins'
    BY <1>1, <1>3, <1>5, <1>7, <2>1 DEF Metropolis
  <2>3. spins' \in States
    BY <1>3, <2>1, CacheEnds
  <2>4. ASSUME NEW v \in Nodes
        PROVE  heff'[v] = CacheIs(bond, var, spins, v)'
    <3>1. /\ CacheIs(1, var, spins', v) = Field(problem, v, spins)
          /\ CacheIs(0, var, spins, v) = Field(problem, v, spins)
      BY <1>3, <2>1, CacheEnds
    <3>2. CacheIs(bond, var, spins, v)' = CacheIs(1, var, spins', v)
      BY <1>2, <2>1 DEF CacheIs, Pulling
    <3> QED
      BY <1>2, <1>3, <3>1, <3>2
  <2>5. ScalarTypeOK'
    BY <1>2, <1>3, <2>1, <2>2, <2>3 DEF ScalarTypeOK
  <2>6. /\ bond' \in 0 .. Len(problem'.bonds) + 1 /\ sweep' < sweeps'
        /\ problem' \in Problem /\ Qualifies(problem') /\ sweeps' \in Nat
    BY <1>2, <1>3, <1>6, <2>1
  <2> QED
    BY <2>2, <2>4, <2>5, <2>6 DEF SInv, ReadIsMetropolis
<1>8. CASE ~(spins[var] * heff[var] >= -m)
  <2>1. NextNode /\ spins' = spins /\ bond' = bond
    BY <1>1, <1>8
  <2>2. walk' = spins'
    BY <1>1, <1>3, <1>5, <1>8, <2>1 DEF Metropolis
  <2>3. var' \in Nodes /\ sweep' \in 0 .. sweeps
    BY <1>2, <1>3, <2>1, NextNodeType
  <2>4. ASSUME NEW v \in Nodes
        PROVE  heff'[v] = CacheIs(bond, var, spins, v)'
    <3>1. /\ CacheIs(0, var, spins, v) = Field(problem, v, spins)
          /\ CacheIs(0, var', spins, v) = Field(problem, v, spins)
      BY <1>3, <2>3, CacheEnds
    <3>2. CacheIs(bond, var, spins, v)' = CacheIs(0, var', spins, v)
      BY <1>2, <2>1 DEF CacheIs, Pulling
    <3> QED
      BY <1>2, <1>3, <3>1, <3>2
  <2>5. ScalarTypeOK'
    BY <1>2, <1>3, <2>1, <2>2, <2>3 DEF ScalarTypeOK
  <2> QED
    BY <1>2, <1>3, <1>6, <2>1, <2>2, <2>4, <2>5 DEF SInv, ReadIsMetropolis
<1> QED
  BY <1>7, <1>8

LEMMA PropagateKeepsSInv ==
  ASSUME SInv, Propagate
  PROVE  SInv'
<1> DEFINE o == OtherEnd(problem, bond, var)
           joins == Joins(problem, bond, var)
<1>1. /\ bond \in DOMAIN problem.bonds /\ bond' = bond + 1
      /\ heff' = IF joins THEN [heff EXCEPT ![o] = @ + Change(bond)] ELSE heff
      /\ problem' = problem /\ sweeps' = sweeps /\ read' = read /\ sweep' = sweep
      /\ var' = var /\ spins' = spins /\ walk' = walk
  BY DEF Propagate
<1>2. /\ problem \in Problem /\ Qualifies(problem) /\ sweeps \in Nat
      /\ var \in Nodes /\ spins \in States /\ heff \in [Nodes -> Int]
      /\ \A v \in Nodes : heff[v] = CacheIs(bond, var, spins, v)
  BY DEF SInv, ScalarTypeOK
<1>3. /\ Len(problem.bonds) \in Nat /\ bond \in 1 .. Len(problem.bonds)
      /\ problem.bonds[bond].j \in Int
  <2>1. problem.bonds \in Seq(Bond)
    BY <1>2 DEF Problem
  <2>2. DOMAIN problem.bonds = 1 .. Len(problem.bonds) /\ Len(problem.bonds) \in Nat
    BY <2>1
  <2>3. bond \in 1 .. Len(problem.bonds)
    BY <1>1, <2>2
  <2>4. problem.bonds[bond] \in Bond
    BY <2>1, <2>3
  <2>5. problem.bonds[bond].j \in Int
    BY <2>4 DEF Bond
  <2> QED
    BY <2>2, <2>3, <2>5
<1>4. spins[var] \in Int /\ Change(bond) = 2 * problem.bonds[bond].j * spins[var]
      /\ Change(bond) \in Int
  BY <1>2, <1>3 DEF Change, States
<1>5. ASSUME NEW v \in Nodes
      PROVE  heff'[v] = heff[v] + (IF joins /\ v = o THEN Change(bond) ELSE 0)
  BY <1>1, <1>2, <1>4
<1>6. ASSUME NEW v \in Nodes
      PROVE  heff'[v] = CacheIs(bond, var, spins, v)'
  <2>1. CacheIs(bond + 1, var, spins, v)
          = CacheIs(bond, var, spins, v) + (IF joins /\ v = o THEN Change(bond) ELSE 0)
    BY <1>1, <1>2, <1>4, OneBond
  <2>2. CacheIs(bond, var, spins, v)' = CacheIs(bond + 1, var, spins, v)
    BY <1>1 DEF CacheIs, Pulling
  <2> QED
    BY <1>2, <1>5, <2>1, <2>2
<1>7. heff' \in [Nodes -> Int]
  <2>1. CASE joins
    <3>1. [heff EXCEPT ![o] = heff[o] + Change(bond)] \in [Nodes -> Int]
      <4>1. o \in Nodes
        BY <1>2, <2>1 DEF Joins, Kept, OtherEnd
      <4>2. heff[o] + Change(bond) \in Int
        BY <1>2, <1>4, <4>1
      <4> HIDE DEF o
      <4> QED
        BY <1>2, <4>2
    <3> QED
      BY <1>1, <2>1, <3>1
  <2>2. CASE ~joins
    BY <1>1, <1>2, <2>2
  <2> QED
    BY <2>1, <2>2
<1>8. ScalarTypeOK'
  BY <1>1, <1>7 DEF SInv, ScalarTypeOK
<1>9. bond' \in 0 .. Len(problem'.bonds) + 1 /\ sweep' < sweeps'
  BY <1>1, <1>3 DEF SInv
<1> QED
  BY <1>1, <1>2, <1>6, <1>8, <1>9 DEF SInv, ReadIsMetropolis

LEMMA FlipDoneKeepsSInv ==
  ASSUME SInv, FlipDone
  PROVE  SInv'
<1>1. /\ bond = Len(problem.bonds) + 1 /\ bond' = 0 /\ NextNode
      /\ problem' = problem /\ sweeps' = sweeps /\ read' = read
      /\ spins' = spins /\ heff' = heff /\ walk' = walk
  BY DEF FlipDone
<1>2. /\ problem \in Problem /\ Qualifies(problem) /\ sweeps \in Nat
      /\ sweep \in 0 .. sweeps /\ var \in Nodes /\ spins \in States
      /\ \A v \in Nodes : heff[v] = CacheIs(bond, var, spins, v)
  BY DEF SInv, ScalarTypeOK
<1>3. Len(problem.bonds) \in Nat
  BY <1>2 DEF Problem
<1>4. sweep < sweeps
  BY <1>1, <1>3 DEF SInv
<1>5. var' \in Nodes /\ sweep' \in 0 .. sweeps
  BY <1>1, <1>2, <1>4, NextNodeType
<1>6. ASSUME NEW v \in Nodes
      PROVE  heff'[v] = CacheIs(bond, var, spins, v)'
  <2>1. CacheIs(bond, var, spins, v) = Field(problem, v, spins)
    BY <1>1, <1>2, CacheEnds
  <2>2. CacheIs(0, var', spins, v) = Field(problem, v, spins)
    BY <1>2, <1>5, CacheEnds
  <2>3. CacheIs(bond, var, spins, v)' = CacheIs(0, var', spins, v)
    BY <1>1 DEF CacheIs, Pulling
  <2> QED
    BY <1>1, <1>2, <2>1, <2>2, <2>3
<1>7. ScalarTypeOK'
  BY <1>1, <1>5 DEF SInv, ScalarTypeOK
<1> QED
  BY <1>1, <1>2, <1>3, <1>6, <1>7 DEF SInv, ReadIsMetropolis

LEMMA ScalarStutter ==
  ASSUME SInv, UNCHANGED <<problem, sweeps, bond, scalarVars>>
  PROVE  SInv'
<1>1. /\ problem' = problem /\ sweeps' = sweeps /\ bond' = bond /\ read' = read
      /\ sweep' = sweep /\ var' = var /\ spins' = spins /\ heff' = heff /\ walk' = walk
  BY DEF scalarVars
<1>2. \A v \in Nodes : CacheIs(bond, var, spins, v)' = CacheIs(bond, var, spins, v)
  BY <1>1 DEF CacheIs, Pulling
<1>3. ScalarTypeOK'
  BY <1>1 DEF SInv, ScalarTypeOK
<1> QED
  BY <1>1, <1>2, <1>3 DEF SInv, ReadIsMetropolis

-----------------------------------------------------------------------------
(* The theorems about the scalar annealer.                                 *)

\* The invariant of anneal_from: while a flip is propagated, every cached field
\* is that of a state in which the bonds not walked yet still see the old spin.
THEOREM ScalarInvariant == ScalarSpec => []SInv
<1>1. SInv /\ [ScalarStep]_<<problem, sweeps, bond, scalarVars>> => SInv'
  BY VisitKeepsSInv, PropagateKeepsSInv, FlipDoneKeepsSInv, ScalarStutter DEF ScalarStep
<1> QED
  BY <1>1, ScalarInitSInv, PTL DEF ScalarSpec

\* However long a read is and however many parallel bonds the graph has, the
\* cache never drifts: between two attempts it holds the fields, though it is
\* only ever updated (sa_int.rs 222-248).
THEOREM CacheNeverDrifts == ScalarSpec => []FieldsAreExact
<1> QED
  BY ScalarInvariant, CacheExact, PTL

\* At every moment, in the middle of a flip too, a cached field fits 8 bits
\* and stays inside its row of thresholds (sa_int.rs 45-51).
THEOREM CacheNeverOverflows == ScalarSpec => []FieldsInReach
<1> QED
  BY ScalarInvariant, CacheInReach, PTL

\* The scalar kernel, which decides from the cache, is the Metropolis walk of
\* its thresholds (sa_int.rs 405-416).
THEOREM ReadIsWalk == ScalarSpec => []ReadIsMetropolis
<1>1. SInv => ReadIsMetropolis
  BY DEF SInv
<1> QED
  BY <1>1, ScalarInvariant, PTL

-----------------------------------------------------------------------------
(* The job.  While the ordinary annealer runs, its cached fields are those *)
(* of its state, up to what rounding adds for the seeding and for each     *)
(* flip.  Without rounding its state is the walk, and it drew as often.    *)

Arithmetics == {"Int", "F64"}

OInv ==
  /\ problem \in Problem /\ sweeps \in Nat /\ bond = 0
  /\ kernel \in Arithmetics /\ (kernel = "Int" => Qualifies(problem))
  /\ sweep \in 0 .. sweeps /\ var \in Nodes /\ spins \in States
  /\ walk \in States /\ accepts \in Nat /\ heff \in [Nodes -> Int]
  /\ \A v \in Nodes : Abs(heff[v] - EffectiveField(kernel, problem, v, spins))
                      <= (1 + accepts) * Slack(problem)
  /\ drawn.run \in Nat /\ drawn.ref \in Nat
  /\ Exact(problem) => walk = spins /\ drawn.run = drawn.ref

\* What an arm is entered with.
AtRest ==
  /\ bond = 0 /\ turn = FirstTurn /\ read = 0
  /\ threshold = [l \in Lanes |-> 0] /\ inputs = <<>> /\ planes = ZeroPlanes
  /\ results = <<>> /\ walks = <<>>

\* The reads so far.
ReadsScored ==
  /\ read < NumReads
  /\ walks \in Seq(States) /\ Len(walks) = read
  /\ results \in Seq(Range(results)) /\ Len(results) = read
  /\ \A r \in 1 .. read : ReadIsRight(r)

\* Whichever kernel runs is in its own invariant, and it is the kernel that
\* the job settles.
JInv ==
  /\ job \in Jobs /\ problem = job.problem /\ sweeps \in Nat
  /\ arm \in {"choose", "packed", "scalar", "cold"} \cup Ended
  /\ arm \in {"packed", "scalar", "cold"} => arm = Arm
  /\ arm = "choose" => AtRest
  /\ arm = "packed" => PInv
  /\ arm = "scalar" => SInv
  /\ arm = "cold" => OInv
  /\ arm \in {"scalar", "cold"} => ReadsScored
  /\ ResultsAreTheWalks
  /\ LanesAreMetropolis

-----------------------------------------------------------------------------
(* The ordinary annealer: one field in both arithmetics, in 8 bits or not. *)

\* The rows of the general kernel.
LEMMA GeneralRowFacts ==
  ASSUME NEW p \in Problem, NEW v \in Nodes
  PROVE  /\ IsFiniteSet(GeneralRow(p, v))
         /\ Row(p, v) \in SUBSET GeneralRow(p, v)
         /\ \A k \in GeneralRow(p, v) :
              /\ p.bonds[k].j \in Int
              /\ OtherEnd(p, k, v) \in Nodes /\ OtherEnd(p, k, v) # v
         /\ \A k \in GeneralRow(p, v) \ Row(p, v) : p.bonds[k].j = 0
         /\ \A s \in States : \A k \in GeneralRow(p, v) : Pull(p, k, v, s) \in Int
<1>1. DOMAIN p.bonds = 1 .. Len(p.bonds) /\ Len(p.bonds) \in Nat
  BY DEF Problem
<1>2. IsFiniteSet(1 .. Len(p.bonds))
  <2>1. 1 \in Int /\ Len(p.bonds) \in Int
    BY <1>1
  <2> QED
    BY <2>1, FS_Interval, Zenon
<1>3. IsFiniteSet(GeneralRow(p, v))
  <2>1. GeneralRow(p, v) \subseteq 1 .. Len(p.bonds)
    BY <1>1 DEF GeneralRow
  <2> QED
    BY <1>2, <2>1, FS_Subset
<1>4. \A k \in DOMAIN p.bonds : p.bonds[k].j \in Int
  <2>1. p.bonds \in Seq(Bond)
    BY DEF Problem
  <2>2. \A k \in DOMAIN p.bonds : p.bonds[k] \in Bond
    BY <2>1
  <2> QED
    BY <2>2 DEF Bond
<1>5. Row(p, v) \in SUBSET GeneralRow(p, v)
  BY DEF Row, GeneralRow, Joins, Kept
<1>6. \A k \in GeneralRow(p, v) :
        /\ p.bonds[k].j \in Int
        /\ OtherEnd(p, k, v) \in Nodes /\ OtherEnd(p, k, v) # v
  BY <1>4 DEF GeneralRow, OtherEnd
<1>7. \A k \in GeneralRow(p, v) \ Row(p, v) : p.bonds[k].j = 0
  BY DEF GeneralRow, Row, Joins, Kept
<1>8. ASSUME NEW s \in States, NEW k \in GeneralRow(p, v)
      PROVE  Pull(p, k, v, s) \in Int
  <2>1. s[OtherEnd(p, k, v)] \in Int
    BY <1>6 DEF States
  <2>2. p.bonds[k].j \in Int
    BY <1>6
  <2> QED
    BY <2>1, <2>2 DEF Pull
<1> QED
  BY <1>3, <1>5, <1>6, <1>7, <1>8

\* Both arithmetics compute the same field.
LEMMA FieldsAgree ==
  ASSUME NEW p \in Problem, NEW v \in Nodes, NEW s \in States, NEW arith \in Arithmetics
  PROVE  /\ EffectiveField(arith, p, v, s) \in Int
         /\ EffectiveField(arith, p, v, s) = EffectiveField("F64", p, v, s)
<1> DEFINE f == [k \in Row(p, v) |-> Pull(p, k, v, s)]
           g == [k \in GeneralRow(p, v) |-> Pull(p, k, v, s)]
<1>1. PICK R, G : R = Row(p, v) /\ G = GeneralRow(p, v)
  OBVIOUS
<1>2. /\ IsFiniteSet(G) /\ R \in SUBSET G
      /\ \A k \in G : Pull(p, k, v, s) \in Int
      /\ \A k \in G \ R : p.bonds[k].j = 0 /\ OtherEnd(p, k, v) \in Nodes
  BY <1>1, GeneralRowFacts
<1>3. IsFiniteSet(R)
  BY <1>2, FS_Subset
<1>4. /\ \A k \in G : g[k] = Pull(p, k, v, s) /\ g[k] \in Int
      /\ \A k \in R : f[k] = g[k] /\ f[k] \in Int
  BY <1>1, <1>2
<1>5. \A k \in G \ R : g[k] = 0
  <2>1. ASSUME NEW k \in G \ R
        PROVE  g[k] = 0
    <3>1. p.bonds[k].j = 0 /\ s[OtherEnd(p, k, v)] \in Int
      BY <1>2 DEF States
    <3>2. Pull(p, k, v, s) = 0
      BY <3>1 DEF Pull
    <3> QED
      BY <1>4, <3>2
  <2> QED
    BY <2>1
<1>6. SumFunction(f) = SumFunctionOnSet(f, R) /\ SumFunction(g) = SumFunctionOnSet(g, G)
  BY <1>1, Zenon DEF SumFunction
<1>7. p.h[v] \in Int
  BY DEF Problem
<1>8. /\ EffectiveField("Int", p, v, s) = p.h[v] + SumFunction(f)
      /\ EffectiveField("F64", p, v, s) = p.h[v] + SumFunction(g)
  BY DEF EffectiveField, RowOf
<1> HIDE DEF f, g
<1>9. SumFunctionOnSet(f, R) = SumFunctionOnSet(g, R)
  BY <1>3, <1>4, SumSame
<1>10. SumFunctionOnSet(g, G) = SumFunctionOnSet(g, R)
  <2>1. \A k \in R : g[k] \in Int
    BY <1>2, <1>4
  <2> QED
    BY <1>2, <1>5, <2>1, SumOfPart
<1>11. SumFunctionOnSet(g, G) \in Int
  BY <1>2, <1>4, SumType
<1> QED
  BY <1>6, <1>7, <1>8, <1>9, <1>10, <1>11 DEF Arithmetics

\* 8 bits are enough.
LEMMA FieldFits ==
  ASSUME NEW p \in Problem, NEW v \in Nodes, NEW s \in States, NEW arith \in Arithmetics,
         arith = "Int" => Qualifies(p)
  PROVE  Width(arith, EffectiveField(arith, p, v, s)) = EffectiveField(arith, p, v, s)
<1>1. CASE arith = "Int"
  <2> DEFINE f == [k \in Row(p, v) |-> Pull(p, k, v, s)]
  <2>1. PICK R : R = Row(p, v)
    OBVIOUS
  <2>2. IsFiniteSet(R) /\ Degree(p, v) = Cardinality(R)
    BY <2>1, RowFinite DEF Degree
  <2>3. \A k \in R : f[k] \in -1 .. 1
    <3>1. \A k \in R : Pull(p, k, v, s) \in {-1, 1}
      BY <1>1, <2>1, PullIsUnit
    <3> QED
      BY <2>1, <3>1
  <2>4. SumFunction(f) = SumFunctionOnSet(f, R)
    BY <2>1, Zenon DEF SumFunction
  <2>5. EffectiveField("Int", p, v, s) = p.h[v] + SumFunction(f)
    BY DEF EffectiveField, RowOf
  <2> HIDE DEF f
  <2>6. /\ SumFunctionOnSet(f, R) \in Int /\ Cardinality(R) \in Nat
        /\ SumFunctionOnSet(f, R) <= Cardinality(R)
        /\ -Cardinality(R) <= SumFunctionOnSet(f, R)
    BY <2>2, <2>3, SumOfUnits
  <2>7. Abs(p.h[v]) + Cardinality(R) <= 100 /\ p.h[v] \in Int
    BY <1>1, <2>2 DEF Qualifies, Reach, MaxFieldLimit, Problem
  <2>8. EffectiveField("Int", p, v, s) \in -100 .. 100
    <3>1. PICK a, b, c : a = p.h[v] /\ b = SumFunctionOnSet(f, R) /\ c = Cardinality(R)
      OBVIOUS
    <3>2. /\ a \in Int /\ b \in Int /\ c \in Nat /\ b <= c /\ -c <= b
          /\ (IF a < 0 THEN -a ELSE a) + c <= 100
      BY <2>6, <2>7, <3>1 DEF Abs
    <3>3. a + b \in -100 .. 100
      BY <3>2
    <3>4. EffectiveField("Int", p, v, s) = a + b
      BY <2>4, <2>5, <3>1
    <3> QED
      BY <3>3, <3>4
  <2> QED
    BY <1>1, <2>8 DEF Width
<1>2. CASE arith # "Int"
  BY <1>2 DEF Width
<1> QED
  BY <1>1, <1>2

\* What a flip of x does to the field of u: each bond between them turns round.
LEMMA FlipTurnsBonds ==
  ASSUME NEW p \in Problem, NEW x \in Nodes, NEW u \in Nodes, NEW s \in States,
         NEW arith \in Arithmetics
  PROVE  LET between == {k \in RowOf(arith, p, x) : OtherEnd(p, k, x) = u}
             turned == SumFunction([k \in between |-> p.bonds[k].j])
         IN  /\ turned \in Int
             /\ Flipped(s, x) \in States
             /\ EffectiveField(arith, p, u, Flipped(s, x))
                  = EffectiveField(arith, p, u, s) - 2 * s[x] * turned
<1> DEFINE between == {k \in RowOf(arith, p, x) : OtherEnd(p, k, x) = u}
           j == [k \in between |-> p.bonds[k].j]
           before == [k \in RowOf(arith, p, u) |-> Pull(p, k, u, s)]
           after == [k \in RowOf(arith, p, u) |-> Pull(p, k, u, Flipped(s, x))]
           change == [k \in RowOf(arith, p, u) |->
                        IF k \in between THEN (-2 * s[x]) * j[k] ELSE 0]
<1>1. PICK R, B : R = RowOf(arith, p, u) /\ B = between
  OBVIOUS
<1>2. Flipped(s, x) \in States /\ s[x] \in Int
      /\ \A v \in Nodes : Flipped(s, x)[v] = IF v = x THEN -s[x] ELSE s[v]
  BY DEF Flipped, States
<1>3. /\ IsFiniteSet(R)
      /\ \A k \in R : /\ p.bonds[k].j \in Int
                      /\ OtherEnd(p, k, u) \in Nodes /\ OtherEnd(p, k, u) # u
                      /\ k \in B <=> OtherEnd(p, k, u) = x
      /\ B \in SUBSET R
  <2>1. R \in SUBSET GeneralRow(p, u)
    BY <1>1, GeneralRowFacts DEF RowOf
  <2>2. /\ IsFiniteSet(R)
        /\ \A k \in R : /\ p.bonds[k].j \in Int
                        /\ OtherEnd(p, k, u) \in Nodes /\ OtherEnd(p, k, u) # u
    <3>1. PICK G : G = GeneralRow(p, u)
      OBVIOUS
    <3>2. IsFiniteSet(G) /\ R \in SUBSET G
      BY <2>1, <3>1, GeneralRowFacts
    <3>3. IsFiniteSet(R)
      BY <3>2, FS_Subset
    <3>4. \A k \in R : /\ p.bonds[k].j \in Int
                       /\ OtherEnd(p, k, u) \in Nodes /\ OtherEnd(p, k, u) # u
      BY <3>1, <3>2, GeneralRowFacts
    <3> QED
      BY <3>3, <3>4
  <2>3. CASE arith = "Int"
    <3>1. R = Row(p, u) /\ B = {k \in Row(p, x) : OtherEnd(p, k, x) = u}
      BY <1>1, <2>3 DEF RowOf
    <3>2. \A k : (k \in Row(p, x) /\ OtherEnd(p, k, x) = u)
                   <=> (k \in Row(p, u) /\ OtherEnd(p, k, u) = x)
      BY DEF Row, Joins, Kept, OtherEnd
    <3>3. \A k \in R : k \in B <=> OtherEnd(p, k, u) = x
      BY <3>1, <3>2
    <3>4. B \in SUBSET R
      BY <3>1, <3>2
    <3> QED
      BY <2>2, <3>3, <3>4
  <2>4. CASE arith # "Int"
    <3>1. R = GeneralRow(p, u) /\ B = {k \in GeneralRow(p, x) : OtherEnd(p, k, x) = u}
      BY <1>1, <2>4 DEF RowOf
    <3>2. \A k : (k \in GeneralRow(p, x) /\ OtherEnd(p, k, x) = u)
                   <=> (k \in GeneralRow(p, u) /\ OtherEnd(p, k, u) = x)
      BY DEF GeneralRow, OtherEnd
    <3>3. \A k \in R : k \in B <=> OtherEnd(p, k, u) = x
      BY <3>1, <3>2
    <3>4. B \in SUBSET R
      BY <3>1, <3>2
    <3> QED
      BY <2>2, <3>3, <3>4
  <2> QED
    BY <2>3, <2>4
<1>4. /\ IsFiniteSet(B) /\ \A k \in B : j[k] = p.bonds[k].j /\ j[k] \in Int
  <2>1. IsFiniteSet(B)
    BY <1>3, FS_Subset
  <2>2. \A k \in B : j[k] = p.bonds[k].j
    BY <1>1
  <2> HIDE DEF j
  <2>3. \A k \in B : p.bonds[k].j \in Int
    BY <1>3
  <2> QED
    BY <2>1, <2>2, <2>3
<1>5. /\ \A k \in R : before[k] = p.bonds[k].j * s[OtherEnd(p, k, u)]
      /\ \A k \in R : after[k] = p.bonds[k].j * Flipped(s, x)[OtherEnd(p, k, u)]
      /\ \A k \in R : change[k] = IF k \in B THEN (-2 * s[x]) * j[k] ELSE 0
  BY <1>1, Zenon DEF Pull
<1>6. ASSUME NEW k \in R
      PROVE  before[k] \in Int /\ change[k] \in Int /\ after[k] = before[k] + change[k]
  <2> HIDE DEF before, after, change, j, between
  <2>1. PICK o \in Nodes : o = OtherEnd(p, k, u)
    BY <1>3
  <2>2. PICK c \in Int : c = p.bonds[k].j
    BY <1>3
  <2>3. before[k] = c * s[o] /\ after[k] = c * Flipped(s, x)[o] /\ s[o] \in Int
    BY <1>5, <2>1, <2>2 DEF States
  <2>4. CASE o = x
    <3>1. k \in B
      BY <1>3, <2>1, <2>4
    <3>2. change[k] = (-2 * s[x]) * c
      BY <1>4, <1>5, <2>2, <3>1
    <3>3. after[k] = c * (-s[x]) /\ before[k] = c * s[x]
      BY <1>2, <2>3, <2>4
    <3>4. \A y \in {-1, 1} : c * y \in Int /\ (-2 * y) * c \in Int /\ c * (-y) = c * y + (-2 * y) * c
      OBVIOUS
    <3> QED
      BY <3>2, <3>3, <3>4 DEF States
  <2>5. CASE o # x
    <3>1. k \notin B
      BY <1>3, <2>1, <2>5
    <3>2. change[k] = 0
      BY <1>5, <3>1
    <3>3. after[k] = before[k]
      BY <1>2, <2>3, <2>5
    <3>4. before[k] \in Int
      <4>1. \A y \in {-1, 1} : c * y \in Int
        OBVIOUS
      <4> QED
        BY <2>3, <4>1 DEF States
    <3> QED
      BY <3>2, <3>3, <3>4
  <2> QED
    BY <2>4, <2>5
<1>7. /\ SumFunction(j) = SumFunctionOnSet(j, B)
      /\ SumFunction(before) = SumFunctionOnSet(before, R)
      /\ SumFunction(after) = SumFunctionOnSet(after, R)
  BY <1>1, Zenon DEF SumFunction
<1>8. /\ EffectiveField(arith, p, u, s) = p.h[u] + SumFunction(before)
      /\ EffectiveField(arith, p, u, Flipped(s, x)) = p.h[u] + SumFunction(after)
      /\ p.h[u] \in Int
  <2>1. p.h[u] \in Int
    BY DEF Problem
  <2> QED
    BY <2>1, Zenon DEF EffectiveField
<1> HIDE DEF j, before, after, change
<1>9. SumFunctionOnSet(after, R) = SumFunctionOnSet(before, R) + SumFunctionOnSet(change, R)
  BY <1>3, <1>6, SumPlus
<1>10. SumFunctionOnSet(change, R) = SumFunctionOnSet(change, B)
  <2>1. \A k \in B : change[k] \in Int
    BY <1>3, <1>6
  <2>2. \A k \in R \ B : change[k] = 0
    BY <1>5
  <2> QED
    BY <1>3, <2>1, <2>2, SumOfPart
<1>11. SumFunctionOnSet(change, B) = (-2 * s[x]) * SumFunctionOnSet(j, B)
  <2>1. PICK c \in Int : c = -2 * s[x]
    BY <1>2
  <2>2. \A k \in B : j[k] \in Int /\ change[k] = c * j[k]
    BY <1>3, <1>4, <1>5, <2>1
  <2>3. SumFunctionOnSet(change, B) = c * SumFunctionOnSet(j, B)
    BY <1>4, <2>2, SumTimes
  <2> QED
    BY <2>1, <2>3
<1>12. SumFunctionOnSet(j, B) \in Int
  BY <1>4, SumType
<1>13. SumFunctionOnSet(before, R) \in Int
  BY <1>3, <1>6, SumType
<1>14. PICK a \in Int, b \in Int, h \in Int :
         a = SumFunctionOnSet(before, R) /\ b = SumFunctionOnSet(j, B) /\ h = p.h[u]
  BY <1>8, <1>12, <1>13
<1>15. /\ EffectiveField(arith, p, u, s) = h + a
       /\ EffectiveField(arith, p, u, Flipped(s, x)) = h + (a + (-2 * s[x]) * b)
  BY <1>7, <1>8, <1>9, <1>10, <1>11, <1>14
<1>16. \A y \in {-1, 1} : h + (a + (-2 * y) * b) = (h + a) - 2 * y * b
  OBVIOUS
<1>17. /\ SumFunction(j) \in Int
       /\ EffectiveField(arith, p, u, Flipped(s, x))
            = EffectiveField(arith, p, u, s) - 2 * s[x] * SumFunction(j)
  BY <1>7, <1>14, <1>15, <1>16 DEF States
<1> QED
  BY <1>2, <1>17 DEF j

\* Nothing is rounded in an exact problem.
LEMMA ErrorsFacts ==
  ASSUME NEW p, NEW T, NEW err \in Errors(p, T)
  PROVE  /\ Slack(p) \in Nat
         /\ Exact(p) => Slack(p) = 0
         /\ \A v \in Nodes : err[v] \in -Slack(p) .. Slack(p)
BY DoubleAssumption DEF Errors, Slack

\* The seeding of a cache is one computation away from the fields.
LEMMA SeedIsNear ==
  ASSUME problem \in Problem, NEW a \in Arithmetics, a = "Int" => Qualifies(problem),
         NEW s \in States, NEW err \in Errors(problem, Nodes), NEW u \in Nodes
  PROVE  /\ SeedForces(s, a, err)[u] \in Int
         /\ Abs(SeedForces(s, a, err)[u] - EffectiveField(a, problem, u, s)) <= Slack(problem)
<1>1. PICK f \in Int : f = EffectiveField(a, problem, u, s)
  BY FieldsAgree
<1>2. PICK k \in Nat : k = Slack(problem)
  BY ErrorsFacts
<1>3. PICK e \in -k .. k : e = err[u]
  BY <1>2, ErrorsFacts
<1>4. SeedForces(s, a, err)[u] = Width(a, f + e)
  BY <1>1, <1>3 DEF SeedForces
<1>5. CASE a = "Int"
  <2>1. k = 0 /\ e = 0
    BY <1>2, <1>3, <1>5, ErrorsFacts DEF Exact
  <2>2. Width(a, f) = f
    BY <1>1, FieldFits
  <2>3. SeedForces(s, a, err)[u] = f
    BY <1>4, <2>1, <2>2
  <2> QED
    BY <1>1, <1>2, <2>1, <2>3 DEF Abs
<1>6. CASE a # "Int"
  <2>1. SeedForces(s, a, err)[u] = f + e
    BY <1>4, <1>6 DEF Width
  <2> QED
    BY <1>1, <1>2, <1>3, <2>1 DEF Abs
<1> QED
  BY <1>5, <1>6

\* A flip takes the cache one rounding further from the fields.
LEMMA SpreadIsNear ==
  ASSUME problem \in Problem, kernel \in Arithmetics,
         kernel = "Int" => Qualifies(problem),
         NEW x \in Nodes, spins \in States, heff \in [Nodes -> Int],
         NEW d \in Nat, Exact(problem) => d = 0,
         NEW err \in Errors(problem, Touched(x)), NEW u \in Nodes,
         Abs(heff[u] - EffectiveField(kernel, problem, u, spins)) <= d
  PROVE  /\ Spread(x, err)[u] \in Int
         /\ Abs(Spread(x, err)[u] - EffectiveField(kernel, problem, u, Flipped(spins, x)))
              <= d + Slack(problem)
<1>1. /\ Between(x, u) \in Int /\ Flipped(spins, x) \in States
      /\ EffectiveField(kernel, problem, u, Flipped(spins, x))
           = EffectiveField(kernel, problem, u, spins) - 2 * spins[x] * Between(x, u)
  <2> DEFINE between == {k \in RowOf(kernel, problem, x) : OtherEnd(problem, k, x) = u}
             turned == SumFunction([k \in between |-> problem.bonds[k].j])
  <2>1. turned \in Int
    BY FlipTurnsBonds
  <2>2. Flipped(spins, x) \in States
    BY DEF Flipped, States
  <2>3. EffectiveField(kernel, problem, u, Flipped(spins, x))
          = EffectiveField(kernel, problem, u, spins) - 2 * spins[x] * turned
    BY FlipTurnsBonds
  <2>4. Between(x, u) = turned
    BY Zenon DEF Between
  <2> HIDE DEF turned
  <2> QED
    BY <2>1, <2>2, <2>3, <2>4
<1>2. PICK c \in Int : c = 2 * spins[x] * Between(x, u)
  <2>1. PICK t \in Int : t = Between(x, u)
    BY <1>1
  <2>2. \A y \in {-1, 1} : 2 * y * t \in Int
    OBVIOUS
  <2> QED
    BY <2>1, <2>2 DEF States
<1>3. PICK f \in Int : f = EffectiveField(kernel, problem, u, spins)
  BY FieldsAgree
<1>4. PICK k \in Nat : k = Slack(problem)
  BY ErrorsFacts
<1>5. PICK e \in -k .. k : e = err[u]
  BY <1>4, ErrorsFacts
<1>6. PICK g \in Int : g = heff[u]
  OBVIOUS
<1>7. EffectiveField(kernel, problem, u, Flipped(spins, x)) = f - c
  BY <1>1, <1>2, <1>3
<1>8. Spread(x, err)[u] = Width(kernel, g - c + e)
  BY <1>2, <1>5, <1>6 DEF Spread
<1>9. Abs(g - f) <= d
  BY <1>3, <1>6
<1>10. CASE kernel = "Int"
  <2>1. k = 0 /\ d = 0 /\ e = 0
    BY <1>4, <1>5, <1>10, ErrorsFacts DEF Exact
  <2>2. g = f
    BY <1>9, <2>1 DEF Abs
  <2>3. Width(kernel, f - c) = f - c
    BY <1>1, <1>7, FieldFits
  <2>4. Spread(x, err)[u] = f - c
    BY <1>8, <2>1, <2>2, <2>3
  <2> QED
    BY <1>4, <1>7, <2>1, <2>4 DEF Abs
<1>11. CASE kernel # "Int"
  <2>1. Spread(x, err)[u] = g - c + e
    BY <1>8, <1>11 DEF Width
  <2>2. Abs((g - c + e) - (f - c)) <= d + k
    BY <1>9 DEF Abs
  <2> QED
    BY <1>4, <1>7, <2>1, <2>2
<1> QED
  BY <1>10, <1>11

LEMMA CandidateKeepsOInv ==
  ASSUME OInv, Candidate
  PROVE  OInv'
<1>1. /\ problem \in Problem /\ sweeps \in Nat /\ bond = 0
      /\ kernel \in Arithmetics /\ (kernel = "Int" => Qualifies(problem))
      /\ sweep \in 0 .. sweeps /\ var \in Nodes /\ spins \in States /\ walk \in States
      /\ accepts \in Nat /\ heff \in [Nodes -> Int]
      /\ drawn.run \in Nat /\ drawn.ref \in Nat
  BY DEF OInv, Arithmetics
<1>2. /\ problem' = problem /\ sweeps' = sweeps /\ bond' = bond /\ kernel' = kernel
      /\ sweep < sweeps /\ NextNode
  BY DEF Candidate
<1>3. PICK draw \in Thresholds :
       LET along == spins[var] * heff[var]
           ahead == walk[var] * EffectiveField("F64", problem, var, walk)
           Drew(free) == IF free THEN 0 ELSE 1
       IN  /\ drawn' = [run |-> drawn.run + Drew(Free(along)),
                        ref |-> drawn.ref + Drew(ahead >= 0)]
           /\ walk' = IF ahead >= -draw THEN Flipped(walk, var) ELSE walk
           /\ IF Free(along) \/ along >= -draw
              THEN /\ spins' = Flipped(spins, var)
                   /\ \E err \in Errors(problem, Touched(var)) : heff' = Spread(var, err)
                   /\ accepts' = accepts + 1
              ELSE UNCHANGED <<spins, heff, accepts>>
  BY DEF Candidate
<1>4. draw \in Nat
  BY ThresholdsAssumption
<1>5. PICK along \in Int : along = spins[var] * heff[var]
  <2>1. \A y \in {-1, 1} : y * heff[var] \in Int
    BY <1>1
  <2> QED
    BY <1>1, <2>1 DEF States
<1>6. PICK ahead : ahead = walk[var] * EffectiveField("F64", problem, var, walk)
  OBVIOUS
<1>7. /\ drawn' = [run |-> drawn.run + (IF along >= 0 THEN 0 ELSE 1),
                   ref |-> drawn.ref + (IF ahead >= 0 THEN 0 ELSE 1)]
      /\ walk' = IF ahead >= -draw THEN Flipped(walk, var) ELSE walk
      /\ IF along >= 0 \/ along >= -draw
         THEN /\ spins' = Flipped(spins, var)
              /\ \E err \in Errors(problem, Touched(var)) : heff' = Spread(var, err)
              /\ accepts' = accepts + 1
         ELSE UNCHANGED <<spins, heff, accepts>>
  BY <1>3, <1>5, <1>6 DEF Free
<1>8. drawn'.run \in Nat /\ drawn'.ref \in Nat
  BY <1>1, <1>7
<1>9. /\ sweep' \in 0 .. sweeps /\ var' \in Nodes
  BY <1>1, <1>2, NumNodesAssumption DEF NextNode, Nodes
<1>10. /\ Flipped(spins, var) \in States /\ Flipped(walk, var) \in States
  BY <1>1 DEF Flipped, States
<1>11. walk' \in States
  BY <1>1, <1>7, <1>10
<1>12. Slack(problem) \in Nat /\ (Exact(problem) => Slack(problem) = 0)
  BY DoubleAssumption DEF Slack
<1>13. PICK d \in Nat : d = (1 + accepts) * Slack(problem) /\ (Exact(problem) => d = 0)
  <2>1. PICK k \in Nat : k = Slack(problem)
    BY <1>12
  <2>2. PICK n \in Nat : n = 1 + accepts
    BY <1>1
  <2>3. n * k \in Nat /\ (k = 0 => n * k = 0)
    OBVIOUS
  <2> QED
    BY <1>12, <2>1, <2>2, <2>3
<1>14. \A v \in Nodes : Abs(heff[v] - EffectiveField(kernel, problem, v, spins)) <= d
  BY <1>13 DEF OInv
<1>15. /\ spins' \in States /\ accepts' \in Nat /\ heff' \in [Nodes -> Int]
       /\ \A v \in Nodes : Abs(heff'[v] - EffectiveField(kernel, problem, v, spins'))
                             <= (1 + accepts') * Slack(problem)
  <2>1. CASE along >= 0 \/ along >= -draw
    <3>1. spins' = Flipped(spins, var) /\ accepts' = accepts + 1
      BY <1>7, <2>1
    <3>2. PICK err \in Errors(problem, Touched(var)) : heff' = Spread(var, err)
      BY <1>7, <2>1
    <3>3. ASSUME NEW v \in Nodes
          PROVE  /\ heff'[v] \in Int
                 /\ Abs(heff'[v] - EffectiveField(kernel, problem, v, spins'))
                      <= d + Slack(problem)
      <4>1. Abs(heff[v] - EffectiveField(kernel, problem, v, spins)) <= d
        BY <1>14
      <4>2. /\ Spread(var, err)[v] \in Int
            /\ Abs(Spread(var, err)[v] - EffectiveField(kernel, problem, v, Flipped(spins, var)))
                 <= d + Slack(problem)
        BY <1>1, <1>13, <4>1, SpreadIsNear
      <4> QED
        BY <3>1, <3>2, <4>2
    <3>4. (1 + accepts') * Slack(problem) = d + Slack(problem)
      <4>1. PICK k \in Nat : k = Slack(problem)
        BY <1>12
      <4>2. (1 + (accepts + 1)) * k = (1 + accepts) * k + k
        BY <1>1
      <4> QED
        BY <1>13, <3>1, <4>1, <4>2
    <3>5. heff' \in [Nodes -> Int]
      BY <3>2, <3>3 DEF Spread
    <3> QED
      BY <1>1, <1>10, <3>1, <3>3, <3>4, <3>5
  <2>2. CASE ~(along >= 0 \/ along >= -draw)
    BY <1>1, <1>7, <1>13, <1>14, <2>2
  <2> QED
    BY <2>1, <2>2
<1>16. Exact(problem) => walk' = spins' /\ drawn'.run = drawn'.ref
  <2> SUFFICES ASSUME Exact(problem)
               PROVE  walk' = spins' /\ drawn'.run = drawn'.ref
    OBVIOUS
  <2>1. walk = spins /\ drawn.run = drawn.ref
    BY DEF OInv
  <2>2. heff[var] = EffectiveField("F64", problem, var, spins)
    <3>1. PICK f \in Int : f = EffectiveField(kernel, problem, var, spins)
      BY <1>1, FieldsAgree
    <3>2. PICK g \in Int : g = heff[var]
      BY <1>1
    <3>3. Abs(g - f) <= 0
      BY <1>1, <1>13, <1>14, <3>1, <3>2
    <3>4. g = f
      BY <3>3 DEF Abs
    <3> QED
      BY <1>1, <3>1, <3>2, <3>4, FieldsAgree
  <2>3. ahead = along
    BY <1>5, <1>6, <2>1, <2>2
  <2>4. along >= 0 => along >= -draw
    BY <1>4, <1>5
  <2> QED
    BY <1>1, <1>7, <2>1, <2>3, <2>4
<1> QED
  BY <1>1, <1>2, <1>8, <1>9, <1>11, <1>15, <1>16 DEF OInv, Arithmetics

-----------------------------------------------------------------------------
(* Seeds and the choice of the kernel.                                     *)

LEMMA LaneStates ==
  ASSUME NEW sp, NEW l
  PROVE  LaneState(sp, l) \in States
BY DEF LaneState, States

LEMMA RandomStatesAreStates ==
  ASSUME NEW s \in RandomStates
  PROVE  s \in States
BY LaneStates DEF RandomStates

\* The job and what it settles.
JobIsKnown == job \in Jobs /\ problem = job.problem

LEMMA JobFacts ==
  ASSUME JobIsKnown
  PROVE  /\ NumNodes > 0 /\ problem \in Problem
         /\ problem.classes # <<>>
         /\ \A c \in DOMAIN problem.classes : problem.classes[c] # <<>>
BY JobsAssumption DEF JobIsKnown

\* What sample_seeded lets through never ends in the ordinary kernel.
LEMMA SeededIsNotCold ==
  ASSUME JobIsKnown, Arm = "cold"
  PROVE  job.entry # "seeded"
<1>1. SUFFICES ASSUME job.entry = "seeded" PROVE FALSE
  OBVIOUS
<1>2. job.variant # "Plain"
  BY <1>1, JobsAssumption DEF JobIsKnown
<1>3. ~Refuses
  BY <1>1 DEF Arm
<1>4. Qualifies(problem) /\ (UsesWords \/ TableFits)
  BY <1>3 DEF Refuses
<1> QED
  BY <1>1, <1>2, <1>3, <1>4 DEF Arm

LEMMA ArmFacts ==
  ASSUME JobIsKnown
  PROVE  /\ Arm \in {"refused", "cold", "packed", "scalar"}
         /\ Arm = "packed" => Qualifies(problem) /\ Packs(problem)
         /\ Arm = "scalar" => Qualifies(problem)
         /\ Arm # "refused" => job.seeds \in Seq(States)
<1>1. /\ Arm \in {"refused", "cold", "packed", "scalar"}
      /\ Arm = "packed" => Qualifies(problem) /\ Packs(problem)
      /\ Arm = "scalar" => Qualifies(problem)
  BY DEF Arm, UsesWords
<1>2. ASSUME Arm # "refused"
      PROVE  job.seeds \in Seq(States)
  <2>1. CASE job.entry = "seeded"
    <3>1. \A i \in DOMAIN job.seeds : job.seeds[i] \in States
      BY <1>2, <2>1 DEF Arm, Refuses
    <3>2. PICK T : T = {job.seeds[i] : i \in DOMAIN job.seeds}
      OBVIOUS
    <3>3. job.seeds \in Seq(T) /\ T \subseteq States
      BY <3>1, <3>2, JobsAssumption DEF JobIsKnown
    <3> QED
      BY <3>3
  <2>2. CASE job.entry # "seeded"
    <3>1. job.seeds = <<>>
      BY <2>2, JobsAssumption DEF JobIsKnown
    <3> QED
      BY <3>1
  <2> QED
    BY <2>1, <2>2
<1> QED
  BY <1>1, <1>2

LEMMA PartFacts ==
  ASSUME NEW S, NEW s \in Seq(S), NEW a \in Nat \ {0}, NEW b \in Nat,
         NEW last \in Nat, last = IF b < Len(s) THEN b ELSE Len(s)
  PROVE  /\ Part(s, a, b) \in Seq(S)
         /\ Len(Part(s, a, b)) = IF a <= last THEN last - a + 1 ELSE 0
         /\ \A i \in 1 .. last - a + 1 : Part(s, a, b)[i] = s[a + i - 1]
<1>1. \A i \in a .. last : s[i] \in S
  OBVIOUS
<1>2. Part(s, a, b) = SubSeq(s, a, last)
  BY DEF Part
<1>3. /\ SubSeq(s, a, last) \in Seq(S)
      /\ Len(SubSeq(s, a, last)) = IF a <= last THEN last - a + 1 ELSE 0
      /\ \A i \in 1 .. last - a + 1 : SubSeq(s, a, last)[i] = s[a + i - 1]
  BY <1>1, SubSeqProperties
<1> QED
  BY <1>2, <1>3, Zenon

LEMMA StartIsState ==
  ASSUME job.seeds \in Seq(States), NEW r \in Nat, NEW s \in States
  PROVE  StartOf(r, s) \in States /\ Seeds \in Seq(States)
<1>1. Seeds \in Seq(States)
  <2>1. NumReads \in Nat /\ 1 \in Nat \ {0}
    BY ReadsAssumption
  <2>2. PICK last \in Nat :
          last = IF NumReads < Len(job.seeds) THEN NumReads ELSE Len(job.seeds)
    BY <2>1
  <2> QED
    BY <2>1, <2>2, PartFacts DEF Seeds
<1>2. r < Len(Seeds) => Seeds[r + 1] \in States
  BY <1>1
<1> QED
  BY <1>1, <1>2 DEF StartOf

\* A word's share of the seeds falls to the right lanes.
LEMMA SeededLane ==
  ASSUME job.seeds \in Seq(States), NEW w \in Words, NEW l \in Lanes,
         NEW draw \in [Nodes -> SUBSET Lanes]
  PROVE  /\ SeededWord(w, draw) \in [Nodes -> SUBSET Lanes]
         /\ LaneState(SeededWord(w, draw), l)
              = StartOf(w * NumLanes + l, LaneState(draw, l))
<1> DEFINE mine == Part(Seeds, w * NumLanes + 1, (w + 1) * NumLanes)
<1>1. NumLanes \in Nat \ {0} /\ l \in 0 .. NumLanes - 1 /\ w \in Nat
  BY LanesAssumption, WordsAssumption DEF Words
<1>2. PICK b \in Nat : b = w * NumLanes /\ (w + 1) * NumLanes = b + NumLanes
  BY <1>1
<1>3. Seeds \in Seq(States)
  <2>1. LaneState(draw, l) \in States /\ 0 \in Nat
    BY LaneStates
  <2> QED
    BY <2>1, StartIsState
<1>4. PICK m : m = mine
  OBVIOUS
<1>5. m = Part(Seeds, b + 1, b + NumLanes)
  BY <1>2, <1>4
<1>6. PICK last \in Nat : last = IF b + NumLanes < Len(Seeds) THEN b + NumLanes ELSE Len(Seeds)
  BY <1>1, <1>3
<1>7. /\ m \in Seq(States)
      /\ Len(m) = IF b + 1 <= last THEN last - (b + 1) + 1 ELSE 0
      /\ \A i \in 1 .. last - (b + 1) + 1 : m[i] = Seeds[(b + 1) + i - 1]
  <2>1. PICK a \in Nat \ {0}, top \in Nat : a = b + 1 /\ top = b + NumLanes
    BY <1>1
  <2>2. PICK t \in Seq(States) : t = Seeds
    BY <1>3
  <2>3. last = IF top < Len(t) THEN top ELSE Len(t)
    BY <1>6, <2>1, <2>2
  <2>4. m = SubSeq(t, a, last)
    BY <1>5, <2>1, <2>2, <2>3 DEF Part
  <2>5. \A i \in a .. last : t[i] \in States
    BY <1>6, <2>1, <2>2, <2>3
  <2>6. /\ SubSeq(t, a, last) \in Seq(States)
        /\ Len(SubSeq(t, a, last)) = IF a <= last THEN last - a + 1 ELSE 0
        /\ \A i \in 1 .. last - a + 1 : SubSeq(t, a, last)[i] = t[a + i - 1]
    BY <1>6, <2>1, <2>5, SubSeqProperties
  <2> QED
    BY <2>1, <2>2, <2>4, <2>6
<1>8. l < Len(m) <=> b + l < Len(Seeds)
  BY <1>1, <1>3, <1>6, <1>7
<1>9. l < Len(m) => m[l + 1] = Seeds[b + l + 1] /\ m[l + 1] \in States
  <2>1. ASSUME l < Len(m)
        PROVE  l + 1 \in 1 .. last - (b + 1) + 1
    BY <1>1, <1>6, <1>7, <2>1
  <2>2. (b + 1) + (l + 1) - 1 = b + l + 1
    BY <1>1
  <2>3. l < Len(m) => m[l + 1] \in States
    BY <1>1, <1>7
  <2> QED
    BY <1>7, <2>1, <2>2, <2>3
<1>10. SeededWord(w, draw) = [v \in Nodes |-> {k \in Lanes :
          IF k < Len(m) THEN m[k + 1][v] < 0 ELSE k \in draw[v]}]
  BY <1>4, Zenon DEF SeededWord
<1>11. SeededWord(w, draw) \in [Nodes -> SUBSET Lanes]
  BY <1>10
<1>12. ASSUME NEW v \in Nodes
       PROVE  LaneState(SeededWord(w, draw), l)[v] = StartOf(b + l, LaneState(draw, l))[v]
  <2>1. l \in SeededWord(w, draw)[v] <=> IF l < Len(m) THEN m[l + 1][v] < 0 ELSE l \in draw[v]
    BY <1>10
  <2>2. LaneState(SeededWord(w, draw), l)[v] = IF l \in SeededWord(w, draw)[v] THEN -1 ELSE 1
    BY DEF LaneState
  <2>3. LaneState(draw, l)[v] = IF l \in draw[v] THEN -1 ELSE 1
    BY DEF LaneState
  <2>4. CASE l < Len(m)
    <3>1. StartOf(b + l, LaneState(draw, l)) = m[l + 1]
      BY <1>8, <1>9, <2>4 DEF StartOf
    <3>2. m[l + 1][v] \in {-1, 1}
      BY <1>9, <2>4 DEF States
    <3> QED
      BY <2>1, <2>2, <2>4, <3>1, <3>2
  <2>5. CASE ~(l < Len(m))
    <3>1. StartOf(b + l, LaneState(draw, l)) = LaneState(draw, l)
      BY <1>8, <2>5 DEF StartOf
    <3> QED
      BY <2>1, <2>2, <2>3, <2>5, <3>1
  <2> QED
    BY <2>4, <2>5
<1>13. /\ LaneState(SeededWord(w, draw), l) \in States
       /\ StartOf(b + l, LaneState(draw, l)) \in States
  <2>1. LaneState(draw, l) \in States /\ LaneState(SeededWord(w, draw), l) \in States
    BY LaneStates
  <2>2. b + l \in Nat
    BY <1>1
  <2> QED
    BY <2>1, <2>2, StartIsState
<1>14. LaneState(SeededWord(w, draw), l) = StartOf(b + l, LaneState(draw, l))
  BY <1>12, <1>13 DEF States
<1> QED
  BY <1>2, <1>11, <1>14

-----------------------------------------------------------------------------
(* Scoring.                                                                *)

LEMMA WordScore ==
  ASSUME problem \in Problem, NEW w \in Words, spin[w] \in [Nodes -> SUBSET Lanes], NEW l \in Lanes
  PROVE  ScoreWord(w, l) = Energy(problem, LaneState(spin[w], l))
<1> DEFINE s == LaneState(spin[w], l)
           Signed(c, down) == IF down THEN -c ELSE c
           Differ(b) == (l \in spin[w][b.u]) # (l \in spin[w][b.v])
           hs == [v \in Nodes |-> Signed(problem.h[v], l \in spin[w][v])]
           hr == [v \in Nodes |-> problem.h[v] * s[v]]
           bs == [k \in Scored(problem) |-> Signed(problem.bonds[k].j, Differ(problem.bonds[k]))]
           br == [k \in Scored(problem) |->
                    problem.bonds[k].j * s[problem.bonds[k].u] * s[problem.bonds[k].v]]
<1>1. \A v \in Nodes : s[v] = IF l \in spin[w][v] THEN -1 ELSE 1
  BY DEF LaneState
<1>2. ASSUME NEW v \in Nodes
      PROVE  hs[v] = hr[v]
  <2>1. PICK c \in Int : c = problem.h[v]
    BY DEF Problem
  <2>2. hr[v] = c * s[v]
    BY <2>1
  <2>3. hs[v] = IF l \in spin[w][v] THEN -c ELSE c
    BY <2>1
  <2> HIDE DEF hs, hr, s
  <2>4. CASE l \in spin[w][v]
    BY <1>1, <2>2, <2>3, <2>4
  <2>5. CASE l \notin spin[w][v]
    BY <1>1, <2>2, <2>3, <2>5
  <2> QED
    BY <2>4, <2>5
<1>3. ASSUME NEW k \in Scored(problem)
      PROVE  bs[k] = br[k]
  <2>1. k \in DOMAIN problem.bonds /\ problem.bonds[k].u \in Nodes /\ problem.bonds[k].v \in Nodes
    BY DEF Scored
  <2>2. PICK c \in Int, x \in Nodes, y \in Nodes :
          c = problem.bonds[k].j /\ x = problem.bonds[k].u /\ y = problem.bonds[k].v
    <3>1. problem.bonds \in Seq(Bond)
      BY DEF Problem
    <3>2. problem.bonds[k] \in Bond
      BY <2>1, <3>1
    <3> QED
      BY <2>1, <3>2 DEF Bond
  <2>3. br[k] = c * s[x] * s[y]
    BY <2>2
  <2>4. bs[k] = IF (l \in spin[w][x]) # (l \in spin[w][y]) THEN -c ELSE c
    BY <2>2
  <2> HIDE DEF bs, br, s
  <2>5. CASE l \in spin[w][x] /\ l \in spin[w][y]
    BY <1>1, <2>3, <2>4, <2>5
  <2>6. CASE l \in spin[w][x] /\ l \notin spin[w][y]
    BY <1>1, <2>3, <2>4, <2>6
  <2>7. CASE l \notin spin[w][x] /\ l \in spin[w][y]
    BY <1>1, <2>3, <2>4, <2>7
  <2>8. CASE l \notin spin[w][x] /\ l \notin spin[w][y]
    BY <1>1, <2>3, <2>4, <2>8
  <2> QED
    BY <2>5, <2>6, <2>7, <2>8
<1>4. hs = hr
  BY <1>2, Zenon
<1>5. bs = br
  BY <1>3, Zenon
<1>6. ScoreWord(w, l) = SumFunction(hs) + SumFunction(bs)
  BY Zenon DEF ScoreWord
<1>7. Energy(problem, s) = SumFunction(hr) + SumFunction(br)
  BY Zenon DEF Energy
<1> QED
  BY <1>4, <1>5, <1>6, <1>7, Zenon

\* The last word is only as long as the reads that are left.
LEMMA WordsCoverReads ==
  /\ NumReads \in Nat \ {0} /\ NumLanes \in Nat \ {0} /\ NumWords \in Nat \ {0}
  /\ (NumWords - 1) * NumLanes < NumReads
  /\ NumReads <= NumWords * NumLanes
<1>1. NumReads \in Nat \ {0} /\ NumLanes \in Nat \ {0} /\ NumWords \in Nat \ {0}
  BY ReadsAssumption, LanesAssumption, WordsAssumption
<1>2. PICK a \in Nat : a = NumReads + NumLanes - 1
  BY <1>1
<1>3. NumWords = a \div NumLanes
  BY <1>2, WordsFitReads
<1>4. NumWords * NumLanes <= a /\ a < NumWords * NumLanes + NumLanes
  BY <1>1, <1>3
<1>5. PICK b \in Nat : b = NumWords * NumLanes
  BY <1>1
<1>6. (NumWords - 1) * NumLanes = b - NumLanes
  BY <1>1, <1>5
<1>7. b - NumLanes < NumReads /\ NumReads <= b
  BY <1>1, <1>2, <1>4, <1>5
<1> QED
  BY <1>1, <1>5, <1>6, <1>7

LEMMA RestOfSize ==
  ASSUME NEW n \in Nat, NEW b \in Nat, NEW size \in Nat, b < size
  PROVE  \E k \in Nat : k = IF n < size - b THEN n ELSE size - b
<1>1. CASE n < size - b
  <2> WITNESS n \in Nat
  <2> QED
    BY <1>1
<1>2. CASE ~(n < size - b)
  <2>1. size - b \in Nat
    OBVIOUS
  <2> WITNESS size - b \in Nat
  <2> QED
    BY <1>2
<1> QED
  BY <1>1, <1>2

LEMMA Glued ==
  ASSUME NEW b \in Nat, NEW k \in Nat, NEW e
  PROVE  [r \in 1 .. b |-> e[r]] \o [l \in 1 .. k |-> e[b + l]] = [r \in 1 .. b + k |-> e[r]]
<1> DEFINE h == [r \in 1 .. b |-> e[r]]
           t == [l \in 1 .. k |-> e[b + l]]
           a == [r \in 1 .. b + k |-> e[r]]
<1>1. PICK E : E = {e[r] : r \in 1 .. b + k}
  OBVIOUS
<1>2. h \in [1 .. b -> E] /\ t \in [1 .. k -> E] /\ a \in [1 .. b + k -> E]
  <2>1. \A r \in 1 .. b : e[r] \in E
    BY <1>1
  <2>2. \A l \in 1 .. k : e[b + l] \in E
    <3>1. \A l \in 1 .. k : b + l \in 1 .. b + k
      OBVIOUS
    <3> QED
      BY <1>1, <3>1
  <2>3. \A r \in 1 .. b + k : e[r] \in E
    BY <1>1
  <2> QED
    BY <2>1, <2>2, <2>3
<1>3. /\ \A r \in 1 .. b : h[r] = e[r]
      /\ \A l \in 1 .. k : t[l] = e[b + l]
      /\ \A r \in 1 .. b + k : a[r] = e[r]
  OBVIOUS
<1> HIDE DEF h, t, a
<1>4. h \in Seq(E) /\ Len(h) = b /\ t \in Seq(E) /\ Len(t) = k /\ a \in Seq(E) /\ Len(a) = b + k
  BY <1>2
<1>5. /\ h \o t \in Seq(E) /\ Len(h \o t) = b + k
      /\ \A r \in 1 .. b + k : (h \o t)[r] = IF r <= b THEN h[r] ELSE t[r - b]
  BY <1>4
<1>6. ASSUME NEW r \in 1 .. b + k
      PROVE  (h \o t)[r] = a[r]
  <2>1. CASE r <= b
    BY <1>3, <1>5, <2>1
  <2>2. CASE ~(r <= b)
    <3>1. r - b \in 1 .. k /\ b + (r - b) = r
      BY <2>2
    <3> QED
      BY <1>3, <1>5, <2>2, <3>1
  <2> QED
    BY <2>1, <2>2
<1>7. h \o t = a
  BY <1>4, <1>5, <1>6, SeqEqual
<1> QED
  BY <1>7 DEF h, t, a

\* Slices of n members of e, the last one shorter.
Sliced(slices, e, n, count, size) ==
  \A w \in 1 .. count :
    slices[w] = [l \in 1 .. (IF n < size - (w - 1) * n THEN n ELSE size - (w - 1) * n)
                   |-> e[(w - 1) * n + l]]

\* They are put together again.
LEMMA Slices ==
  ASSUME NEW n \in Nat \ {0}, NEW count \in Nat \ {0}, NEW size \in Nat \ {0},
         (count - 1) * n < size, size <= count * n, NEW e,
         NEW X, NEW slices \in Seq(X), Len(slices) = count,
         Sliced(slices, e, n, count, size)
  PROVE  FlattenSeq(slices) = [r \in 1 .. size |-> e[r]]
<1> DEFINE Rest(i, g) == IF i = 1 THEN slices[i] ELSE g[i - 1] \o slices[i]
           f == CHOOSE g : g = [i \in 1 .. count |-> Rest(i, g)]
           End(i) == IF i * n < size THEN i * n ELSE size
           Joined(i) == [r \in 1 .. End(i) |-> e[r]]
           G == [i \in 1 .. count |-> Joined(i)]
<1>1. ASSUME NEW i \in 1 .. count
      PROVE  /\ (i - 1) * n \in Nat /\ (i - 1) * n < size /\ i * n = (i - 1) * n + n
             /\ i > 1 => End(i - 1) = (i - 1) * n
             /\ End(i) = (i - 1) * n + (IF n < size - (i - 1) * n THEN n ELSE size - (i - 1) * n)
  <2>1. PICK c \in Nat : c = count - i
    OBVIOUS
  <2>2. PICK b \in Nat : b = (i - 1) * n
    OBVIOUS
  <2>3. PICK d \in Nat : d = c * n
    BY <2>1
  <2>4. (count - 1) * n = b + d
    <3>1. count - 1 = (i - 1) + c
      BY <2>1
    <3>2. \A x, y \in Nat : (x + y) * n = x * n + y * n
      OBVIOUS
    <3>3. i - 1 \in Nat
      OBVIOUS
    <3> QED
      BY <2>1, <2>2, <2>3, <3>1, <3>2, <3>3
  <2>5. b < size
    BY <2>4
  <2>6. i * n = b + n
    BY <2>2
  <2> QED
    BY <2>2, <2>5, <2>6
<1>2. ASSUME NEW i \in 1 .. count
      PROVE  Joined(i) = Rest(i, G)
  <2>1. PICK b \in Nat : /\ b = (i - 1) * n /\ b < size
                         /\ i > 1 => End(i - 1) = b
    BY <1>1
  <2>2. PICK k \in Nat : k = IF n < size - b THEN n ELSE size - b
    <3>1. size \in Nat /\ n \in Nat /\ b \in Nat /\ b < size
      BY <2>1
    <3> QED
      BY <3>1, RestOfSize, Zenon
  <2>3. End(i) = b + k
    BY <1>1, <2>1, <2>2
  <2>4. slices[i] = [l \in 1 .. k |-> e[b + l]]
    BY <2>1, <2>2 DEF Sliced
  <2>5. CASE i = 1
    <3>1. b = 0
      BY <2>1, <2>5
    <3>2. Joined(i) = [r \in 1 .. k |-> e[r]]
      BY <2>3, <3>1
    <3>3. slices[i] = [r \in 1 .. k |-> e[r]]
      BY <2>4, <3>1
    <3> QED
      BY <2>5, <3>2, <3>3
  <2>6. CASE i # 1
    <3>1. i - 1 \in 1 .. count /\ i > 1
      BY <2>6
    <3>2. PICK h, t : /\ h = [r \in 1 .. b |-> e[r]] /\ t = [l \in 1 .. k |-> e[b + l]]
      OBVIOUS
    <3>3. G[i - 1] = h
      <4>1. G[i - 1] = Joined(i - 1)
        BY <3>1
      <4> QED
        BY <2>1, <3>1, <3>2, <4>1
    <3>8. h \o t = [r \in 1 .. b + k |-> e[r]]
      BY <3>2, Glued
    <3>9. Rest(i, G) = h \o t
      BY <2>4, <2>6, <3>2, <3>3
    <3> QED
      BY <2>3, <3>8, <3>9
  <2> QED
    BY <2>5, <2>6
<1>3. G = [i \in 1 .. count |-> Rest(i, G)]
  <2> HIDE DEF G, Joined, Rest
  <2>1. \A i \in 1 .. count : G[i] = Rest(i, G)
    BY <1>2 DEF G
  <2> QED
    BY <2>1 DEF G
<1>4. f = [i \in 1 .. count |-> Rest(i, f)]
  <2> HIDE DEF G, Rest
  <2> QED
    BY <1>3, Zenon DEF f
<1>5. FlattenSeq(slices) = f[count]
  <2>1. Len(slices) # 0
    OBVIOUS
  <2> QED
    BY <2>1, Zenon DEF FlattenSeq, f, Rest
<1>6. ASSUME NEW i \in 1 .. count
      PROVE  f[i] = Joined(i)
  <2> DEFINE T == {m \in 1 .. count : f[m] = Joined(m)}
  <2>1. \A m \in 1 .. count : f[m] = Rest(m, f)
    <3> HIDE DEF f, Rest, Front
    <3> QED
      BY <1>4, Zenon
  <2>2. 1 \in T
    <3>0. 1 \in 1 .. count
      OBVIOUS
    <3>1. Joined(1) = Rest(1, G)
      BY <1>2, <3>0
    <3>2. f[1] = Rest(1, f)
      <4> HIDE DEF f, Rest
      <4> QED
        BY <2>1, <3>0
    <3> HIDE DEF f, Joined, G
    <3> QED
      BY <3>0, <3>1, <3>2
  <2>3. \A m \in 1 .. count - 1 : m \in T => m + 1 \in T
    <3>1. ASSUME NEW m \in 1 .. count - 1, m \in T
          PROVE  m + 1 \in T
      <4>1. m + 1 \in 1 .. count /\ m + 1 # 1 /\ (m + 1) - 1 = m /\ m \in 1 .. count
        OBVIOUS
      <4>2. Joined(m + 1) = Rest(m + 1, G) /\ f[m + 1] = Rest(m + 1, f)
        BY <1>2, <2>1, <4>1
      <4>3. G[m] = Joined(m)
        BY <4>1
      <4>4. f[m] = Joined(m)
        BY <3>1
      <4> HIDE DEF f, Joined, G
      <4>5. Rest(m + 1, f) = Rest(m + 1, G)
        BY <4>1, <4>3, <4>4
      <4> QED
        BY <4>1, <4>2, <4>5
    <3> QED
      BY <3>1
  <2>4. 1 .. count \subseteq T
    <3> HIDE DEF T
    <3>1. 1 \in Int /\ count \in Int
      OBVIOUS
    <3> QED
      BY <2>2, <2>3, <3>1, BoundedInduction
  <2> QED
    BY <2>4
<1>7. f[count] = Joined(count) /\ End(count) = size
  <2>1. count \in 1 .. count
    OBVIOUS
  <2>2. End(count) = size
    OBVIOUS
  <2> QED
    BY <1>6, <2>1, <2>2
<1> QED
  BY <1>5, <1>7

\* Read r runs in word (r - 1) \div NumLanes, lane (r - 1) % NumLanes.
LEMMA PlaceOfRead ==
  ASSUME NEW n \in Nat \ {0}, NEW w \in Nat, NEW l \in 1 .. n
  PROVE  /\ ((w * n + l) - 1) \div n = w
         /\ ((w * n + l) - 1) % n = l - 1
         /\ w * n + l \in Nat \ {0}
<1>1. PICK b \in Nat : b = w * n
  OBVIOUS
<1>2. l - 1 \in 0 .. n - 1 /\ (b + l) - 1 = b + (l - 1)
  OBVIOUS
<1>3. (w * n + (l - 1)) \div n = w /\ (w * n + (l - 1)) % n = l - 1
  BY <1>2
<1> QED
  BY <1>1, <1>2, <1>3

LEMMA PackedResults ==
  ASSUME PInv, EndPacked
  PROVE  results' = [r \in 1 .. NumReads |-> Result(walks'[r], Energy(problem, walks'[r]))]
<1> DEFINE WordReads(w) == IF NumLanes < NumReads - w * NumLanes
                           THEN NumLanes ELSE NumReads - w * NumLanes
           Score(w) == [l \in 1 .. WordReads(w) |->
                         Result(LaneState(spin[w], l - 1), ScoreWord(w, l - 1))]
           slices == [w \in 1 .. NumWords |-> Score(w - 1)]
           e == [r \in 1 .. NumReads |-> Result(walks'[r], Energy(problem, walks'[r]))]
<1>1. /\ results' = FlattenSeq(slices)
      /\ walks' = [r \in 1 .. NumReads |-> ref[(r - 1) \div NumLanes][(r - 1) % NumLanes]]
  BY DEF EndPacked
<1>2. /\ problem \in Problem
      /\ spin \in [Words -> [Nodes -> SUBSET Lanes]]
      /\ \A w \in Words, l \in Lanes : LaneState(spin[w], l) = ref[w][l]
  BY DEF PInv, Setup, PackedTypeOK, LanesAreMetropolis
<1>3. /\ NumReads \in Nat \ {0} /\ NumLanes \in Nat \ {0} /\ NumWords \in Nat \ {0}
      /\ (NumWords - 1) * NumLanes < NumReads
      /\ NumReads <= NumWords * NumLanes
  BY WordsCoverReads
<1>4. Lanes = 0 .. NumLanes - 1 /\ Words = 0 .. NumWords - 1
  BY LanesAssumption DEF Words
<1>5. ASSUME NEW w \in 1 .. NumWords, NEW l \in 1 .. WordReads(w - 1)
      PROVE  Result(LaneState(spin[w - 1], l - 1), ScoreWord(w - 1, l - 1))
               = e[(w - 1) * NumLanes + l]
  <2>1. PICK v \in Nat : v = w - 1 /\ v \in Words
    BY <1>3, <1>4
  <2>2. PICK b \in Nat : b = v * NumLanes
    BY <1>3
  <2>3. l \in 1 .. NumLanes /\ l - 1 \in Lanes /\ b + l \in 1 .. NumReads
    <3>1. l \in 1 .. (IF NumLanes < NumReads - b THEN NumLanes ELSE NumReads - b)
      BY <2>1, <2>2
    <3> HIDE DEF WordReads
    <3> QED
      BY <1>3, <1>4, <2>2, <3>1
  <2>4. ((b + l) - 1) \div NumLanes = v /\ ((b + l) - 1) % NumLanes = l - 1
    BY <1>3, <2>2, <2>3, PlaceOfRead
  <2>5. walks'[b + l] = ref[v][l - 1]
    BY <1>1, <2>3, <2>4
  <2>6. walks'[b + l] = LaneState(spin[v], l - 1)
    BY <1>2, <2>1, <2>3, <2>5
  <2>7. ScoreWord(v, l - 1) = Energy(problem, LaneState(spin[v], l - 1))
    BY <1>2, <2>1, <2>3, WordScore
  <2>8. e[b + l] = Result(walks'[b + l], Energy(problem, walks'[b + l]))
    BY <2>3, Zenon
  <2> HIDE DEF e
  <2>9. Result(LaneState(spin[v], l - 1), ScoreWord(v, l - 1)) = e[b + l]
    BY <2>6, <2>7, <2>8
  <2> QED
    BY <2>1, <2>2, <2>9
<1>6. ASSUME NEW w \in 1 .. NumWords
      PROVE  slices[w] = [l \in 1 .. (IF NumLanes < NumReads - (w - 1) * NumLanes
                                      THEN NumLanes ELSE NumReads - (w - 1) * NumLanes)
                            |-> e[(w - 1) * NumLanes + l]]
  <2>1. slices[w] = Score(w - 1)
    BY Zenon
  <2>2. Score(w - 1) = [l \in 1 .. WordReads(w - 1) |-> e[(w - 1) * NumLanes + l]]
    <3> HIDE DEF WordReads, e
    <3> QED
      BY <1>5, Zenon
  <2> QED
    BY <2>1, <2>2, Zenon
<1>7. PICK X : slices \in Seq(X) /\ Len(slices) = NumWords
  <2>1. PICK X : X = {slices[w] : w \in 1 .. NumWords}
    OBVIOUS
  <2>2. slices \in [1 .. NumWords -> X]
    BY <2>1
  <2> HIDE DEF slices
  <2>3. slices \in Seq(X) /\ Len(slices) = NumWords
    BY <1>3, <2>2
  <2> QED
    BY <2>3
<1>8. FlattenSeq(slices) = [r \in 1 .. NumReads |-> e[r]]
  <2> HIDE DEF slices, e, WordReads, Score
  <2>1. PICK f, s : f = e /\ s = slices
    OBVIOUS
  <2>2. s \in Seq(X) /\ Len(s) = NumWords
    BY <1>7, <2>1, Zenon
  <2>3. Sliced(s, f, NumLanes, NumWords, NumReads)
    BY <1>6, <2>1, Zenon DEF Sliced
  <2>4. FlattenSeq(s) = [r \in 1 .. NumReads |-> f[r]]
    BY <1>3, <2>2, <2>3, Slices
  <2> QED
    BY <2>1, <2>4, Zenon
<1>9. e = [r \in 1 .. NumReads |-> e[r]]
  OBVIOUS
<1> QED
  BY <1>1, <1>8, <1>9

-----------------------------------------------------------------------------

\* The arm is settled with the job.
LEMMA ArmStays ==
  ASSUME job' = job, problem' = problem
  PROVE  Arm' = Arm
<1>1. Ladder' = Ladder
  BY DEF Ladder
<1>2. (TableFits' <=> TableFits) /\ (UsesWords' <=> UsesWords)
  BY <1>1 DEF TableFits, UsesWords
<1>3. Refuses' <=> Refuses
  BY <1>2 DEF Refuses
<1> QED
  BY <1>2, <1>3 DEF Arm

LEMMA EnterOrdinaryOInv ==
  ASSUME problem \in Problem, NumNodes > 0, sweeps \in Nat, bond = 0,
         UNCHANGED <<problem, sweeps, bond>>,
         NEW s \in States, NEW a \in Arithmetics, a = "Int" => Qualifies(problem),
         kernel' = a, EnterOrdinaryRead(s, a)
  PROVE  OInv'
<1>1. /\ sweep' = 0 /\ var' = 0 /\ spins' = s /\ walk' = s /\ accepts' = 0
      /\ drawn' = [run |-> 0, ref |-> 0]
      /\ \E err \in Errors(problem, Nodes) : heff' = SeedForces(s, a, err)
  BY DEF EnterOrdinaryRead
<1>2. 0 \in Nodes
  BY NumNodesAssumption DEF Nodes
<1>3. /\ heff' \in [Nodes -> Int]
      /\ \A v \in Nodes : Abs(heff'[v] - EffectiveField(a, problem, v, s))
                          <= (1 + accepts') * Slack(problem)
  <2>1. PICK err \in Errors(problem, Nodes) : heff' = SeedForces(s, a, err)
    BY <1>1
  <2>2. \A v \in Nodes : /\ heff'[v] \in Int
                         /\ Abs(heff'[v] - EffectiveField(a, problem, v, s)) <= Slack(problem)
    BY <2>1, SeedIsNear
  <2>3. heff' \in [Nodes -> Int]
    BY <2>1, <2>2 DEF SeedForces
  <2>4. (1 + accepts') * Slack(problem) = Slack(problem)
    <3>1. PICK k \in Nat : k = Slack(problem)
      BY DoubleAssumption DEF Slack
    <3> QED
      BY <1>1, <3>1
  <2> QED
    BY <2>2, <2>3, <2>4
<1>4. sweep' \in 0 .. sweeps'
  BY <1>1
<1>5. drawn'.run = 0 /\ drawn'.ref = 0
  BY <1>1
<1> QED
  BY <1>1, <1>2, <1>3, <1>4, <1>5 DEF OInv, Arithmetics

\* State lemmas: an arm is entered in a state its kernel starts in.
LEMMA EnterScalarSInv ==
  ASSUME problem \in Problem, Qualifies(problem), sweeps \in Nat, bond = 0,
         UNCHANGED <<problem, sweeps, bond>>, read' \in Reads,
         NEW s \in States, StartRead(s)
  PROVE  ScalarInit'
<1>1. /\ sweep' = 0 /\ var' = 0 /\ spins' = s /\ heff' = SeedFields(s) /\ walk' = s
  BY DEF StartRead
<1>2. SeedFields(s) = SeedFields(spins)'
  BY <1>1 DEF SeedFields
<1> QED
  BY <1>1, <1>2 DEF ScalarInit

LEMMA StartPackedInit ==
  ASSUME JobIsKnown, sweeps \in Nat, AtRest, StartPacked
  PROVE  PackedInit'
<1>1. /\ Arm = "packed" /\ bond' = bond /\ problem' = problem /\ sweeps' = sweeps
      /\ turn' = turn /\ threshold' = threshold /\ inputs' = inputs /\ planes' = planes
  BY DEF StartPacked, countVars
<1>2. PICK draw \in [Words -> RandomWords] :
       /\ spin' = [w \in Words |-> SeededWord(w, draw[w])]
       /\ ref' = [w \in Words |-> [l \in Lanes |->
                    StartOf(w * NumLanes + l, LaneState(draw[w], l))]]
  BY DEF StartPacked
<1>3. job.seeds \in Seq(States) /\ Qualifies(problem) /\ Packs(problem)
  BY <1>1, ArmFacts
<1>4. \A w \in Words : draw[w] \in [Nodes -> SUBSET Lanes]
  BY RandomAssumption
<1>5. ASSUME NEW w \in Words
      PROVE  /\ spin'[w] \in [Nodes -> SUBSET Lanes]
             /\ \A l \in Lanes : LaneState(spin'[w], l)
                                   = StartOf(w * NumLanes + l, LaneState(draw[w], l))
  <2>1. spin'[w] = SeededWord(w, draw[w])
    BY <1>2
  <2>2. PICK d \in [Nodes -> SUBSET Lanes] : d = draw[w]
    BY <1>4
  <2>3. 0 \in Lanes
    BY LanesAssumption
  <2>4. /\ SeededWord(w, d) \in [Nodes -> SUBSET Lanes]
        /\ \A l \in Lanes : LaneState(SeededWord(w, d), l)
                              = StartOf(w * NumLanes + l, LaneState(d, l))
    BY <1>3, <2>2, <2>3, SeededLane
  <2> QED
    BY <2>1, <2>2, <2>4
<1>6. spin' \in [Words -> [Nodes -> SUBSET Lanes]]
  BY <1>2, <1>5
<1>7. ref' = [w \in Words |-> [l \in Lanes |-> LaneState(spin'[w], l)]]
  <2>1. \A w \in Words :
          [l \in Lanes |-> StartOf(w * NumLanes + l, LaneState(draw[w], l))]
            = [l \in Lanes |-> LaneState(spin'[w], l)]
    BY <1>5
  <2> QED
    BY <1>2, <2>1
<1>8. /\ problem \in Problem /\ problem.classes # <<>>
      /\ \A c \in DOMAIN problem.classes : problem.classes[c] # <<>>
  BY JobFacts
<1> QED
  BY <1>1, <1>3, <1>6, <1>7, <1>8 DEF PackedInit, AtRest

LEMMA PackedEnters == PackedInit => PInv
BY PackedInitPInv

LEMMA ScalarEnters == ScalarInit => SInv
BY ScalarInitSInv

\* The reads scored so far, and one more.
LEMMA OneMoreRead ==
  ASSUME ReadsScored, walk \in States, Exact(problem) => spins = walk, problem' = problem,
         results' = Append(results, Result(spins, Energy(problem, spins))),
         walks' = Append(walks, walk), read' = read + 1, read \in Nat
  PROVE  /\ walks' \in Seq(States) /\ Len(walks') = read'
         /\ results' \in Seq(Range(results')) /\ Len(results') = read'
         /\ \A r \in 1 .. read' : ReadIsRight(r)'
<1> DEFINE new == Result(spins, Energy(problem, spins))
<1>1. /\ walks \in Seq(States) /\ Len(walks) = read
      /\ results \in Seq(Range(results)) /\ Len(results) = read
      /\ \A r \in 1 .. read : ReadIsRight(r)
  BY DEF ReadsScored
<1>2. /\ walks' \in Seq(States) /\ Len(walks') = read + 1
      /\ \A r \in 1 .. read : walks'[r] = walks[r]
      /\ walks'[read + 1] = walk
  BY <1>1
<1>3. new = Result(new.spins, Energy(problem, new.spins)) /\ new.spins = spins
  BY DEF Result
<1>4. results' = Append(results, new)
  OBVIOUS
<1> HIDE DEF new
<1>5. PICK X : X = Range(results) \cup {new}
  OBVIOUS
<1>6. results \in Seq(X) /\ new \in X
  BY <1>1, <1>5
<1>7. /\ results' \in Seq(X) /\ Len(results') = read + 1
      /\ \A r \in 1 .. read : results'[r] = results[r]
      /\ results'[read + 1] = new
  BY <1>1, <1>4, <1>6
<1>8. results' \in Seq(Range(results'))
  <2>1. PICK t : t = results'
    OBVIOUS
  <2>2. t \in Seq(X)
    BY <1>7, <2>1
  <2>3. t \in Seq(Range(t))
    BY <2>2 DEF Range
  <2> QED
    BY <2>1, <2>3
<1>9. ASSUME NEW r \in 1 .. read + 1
      PROVE  ReadIsRight(r)'
  <2>1. CASE r \in 1 .. read
    <3>1. ReadIsRight(r) /\ results'[r] = results[r] /\ walks'[r] = walks[r]
      BY <1>1, <1>2, <1>7, <2>1
    <3> QED
      BY <3>1 DEF ReadIsRight
  <2>2. CASE r = read + 1
    <3>1. results'[r] = new /\ walks'[r] = walk
      BY <1>2, <1>7, <2>2
    <3> QED
      BY <1>3, <3>1 DEF ReadIsRight
  <2>3. r \in 1 .. read \/ r = read + 1
    OBVIOUS
  <2> QED
    BY <2>1, <2>2, <2>3
<1> QED
  BY <1>2, <1>7, <1>8, <1>9

\* No read is scored yet.
LEMMA NothingScored ==
  ASSUME read' = 0, walks' = <<>>, results' = <<>>
  PROVE  ReadsScored'
<1>1. walks' \in Seq(States) /\ Len(walks') = 0 /\ Len(results') = 0
  OBVIOUS
<1>2. results' \in Seq(Range(results)')
  OBVIOUS
<1>3. \A r \in 1 .. 0 : ReadIsRight(r)'
  OBVIOUS
<1> QED
  BY <1>1, <1>2, <1>3, ReadsAssumption DEF ReadsScored

\* What every step of a job leaves as it was.
SameJob == job' = job /\ problem' = problem /\ sweeps' = sweeps

LEMMA JobStays ==
  ASSUME JInv, SameJob
  PROVE  /\ JobIsKnown /\ JobIsKnown' /\ sweeps' \in Nat /\ Arm' = Arm
         /\ problem \in Problem /\ sweeps \in Nat /\ NumNodes > 0
<1>1. JobIsKnown
  BY DEF JInv, JobIsKnown
<1>2. JobIsKnown'
  BY <1>1 DEF SameJob, JobIsKnown
<1>3. Arm' = Arm
  BY ArmStays DEF SameJob
<1> QED
  BY <1>1, <1>2, <1>3, JobFacts DEF JInv, SameJob

\* What is left to show of a step that ends in an arm.
LEMMA InArm ==
  ASSUME JInv, SameJob, NEW a, arm' = a,
         a \in {"choose", "packed", "scalar", "cold"} \cup Ended,
         a \in {"packed", "scalar", "cold"} => Arm = a,
         a = "choose" => AtRest',
         a = "packed" => PInv',
         a = "scalar" => SInv',
         a = "cold" => OInv',
         a \in {"scalar", "cold"} => ReadsScored',
         a = "done" => ResultsAreTheWalks',
         LanesAreMetropolis'
  PROVE  JInv'
<1>1. JobIsKnown' /\ sweeps' \in Nat /\ Arm' = Arm
  BY JobStays
<1>2. ResultsAreTheWalks'
  BY DEF ResultsAreTheWalks
<1> QED
  BY <1>1, <1>2 DEF JInv, JobIsKnown

LEMMA LanesStay ==
  ASSUME JInv, spin' = spin, ref' = ref
  PROVE  LanesAreMetropolis'
BY DEF JInv, LanesAreMetropolis

LEMMA StartPackedKeepsJInv ==
  ASSUME JInv, StartPacked
  PROVE  JInv'
<1>1. SameJob /\ arm = "choose" /\ arm' = "packed" /\ Arm = "packed"
  BY DEF StartPacked, SameJob
<1>2. JobIsKnown /\ sweeps \in Nat /\ AtRest
  BY <1>1, JobStays DEF JInv
<1>3. PackedInit'
  BY <1>2, StartPackedInit
<1>4. PInv'
  BY <1>3, PackedEnters, PTL
<1>5. LanesAreMetropolis'
  BY <1>4 DEF PInv
<1> QED
  BY <1>1, <1>4, <1>5, InArm

LEMMA EnterScalarKeepsJInv ==
  ASSUME JInv, EnterScalar
  PROVE  JInv'
<1>1. /\ SameJob /\ arm = "choose" /\ arm' = "scalar" /\ Arm = "scalar"
      /\ bond' = bond /\ read' = read /\ results' = results /\ walks' = walks
      /\ spin' = spin /\ ref' = ref /\ EnterRead(0)
  BY DEF EnterScalar, SameJob, packedVars
<1>2. /\ JobIsKnown /\ sweeps \in Nat /\ problem \in Problem /\ AtRest
  BY <1>1, JobStays DEF JInv
<1>3. bond = 0 /\ read = 0 /\ results = <<>> /\ walks = <<>>
  BY <1>2 DEF AtRest
<1>4. Qualifies(problem) /\ job.seeds \in Seq(States)
  BY <1>1, <1>2, ArmFacts
<1>5. PICK s \in RandomStates : StartRead(StartOf(0, s))
  BY <1>1 DEF EnterRead
<1>6. StartOf(0, s) \in States
  <2>1. s \in States /\ 0 \in Nat
    BY <1>5, RandomStatesAreStates
  <2> QED
    BY <1>4, <2>1, StartIsState
<1>7. read' \in Reads
  BY <1>1, <1>3, ReadsAssumption DEF Reads
<1>8. UNCHANGED <<problem, sweeps, bond>>
  BY <1>1 DEF SameJob
<1>9. ScalarInit'
  BY <1>2, <1>3, <1>4, <1>5, <1>6, <1>7, <1>8, EnterScalarSInv
<1>10. SInv'
  BY <1>9, ScalarEnters, PTL
<1>11. ReadsScored'
  BY <1>1, <1>3, NothingScored
<1>12. LanesAreMetropolis'
  BY <1>1, LanesStay
<1> QED
  BY <1>1, <1>10, <1>11, <1>12, InArm

LEMMA EnterOrdinaryKeepsJInv ==
  ASSUME JInv, EnterOrdinary
  PROVE  JInv'
<1>1. /\ SameJob /\ arm = "choose" /\ arm' = "cold" /\ Arm = "cold"
      /\ bond' = bond /\ read' = read /\ results' = results /\ walks' = walks
      /\ spin' = spin /\ ref' = ref
  BY DEF EnterOrdinary, SameJob, packedVars
<1>2. /\ sweeps \in Nat /\ problem \in Problem /\ NumNodes > 0 /\ AtRest
  BY <1>1, JobStays DEF JInv
<1>3. bond = 0 /\ read = 0 /\ results = <<>> /\ walks = <<>>
  BY <1>2 DEF AtRest
<1>4. PICK a : a = KernelFor(problem, Ladder.rungs)
  OBVIOUS
<1>5. a \in Arithmetics /\ (a = "Int" => Qualifies(problem))
  BY <1>4 DEF KernelFor, Arithmetics
<1>6. kernel' = a /\ \E s \in RandomStates : EnterOrdinaryRead(s, a)
  <2>1. kernel' = a
    BY <1>4 DEF EnterOrdinary
  <2> QED
    BY <2>1 DEF EnterOrdinary
<1>7. PICK s \in RandomStates : EnterOrdinaryRead(s, a)
  BY <1>6
<1>8. s \in States
  BY <1>7, RandomStatesAreStates
<1>9. UNCHANGED <<problem, sweeps, bond>>
  BY <1>1 DEF SameJob
<1>10. OInv'
  BY <1>2, <1>3, <1>5, <1>6, <1>7, <1>8, <1>9, EnterOrdinaryOInv
<1>11. ReadsScored'
  BY <1>1, <1>3, NothingScored
<1>12. LanesAreMetropolis'
  BY <1>1, LanesStay
<1> QED
  BY <1>1, <1>10, <1>11, <1>12, InArm

LEMMA RefuseKeepsJInv ==
  ASSUME JInv, Refuse
  PROVE  JInv'
<1>1. SameJob /\ arm' = "refused" /\ spin' = spin /\ ref' = ref
  BY DEF Refuse, SameJob, packedVars
<1>2. LanesAreMetropolis'
  BY <1>1, LanesStay
<1> QED
  BY <1>1, <1>2, InArm DEF Ended

LEMMA PackedStepKeepsJInv ==
  ASSUME JInv, arm = "packed", PackedStep, UNCHANGED <<scalarVars, ordinaryVars, jobVars>>
  PROVE  JInv'
<1>1. PInv /\ Arm = "packed"
  BY DEF JInv
<1>2. PInv'
  BY <1>1, AttemptKeepsPInv, CountBondKeepsPInv, FlipAcceptedKeepsPInv DEF PackedStep
<1>3. SameJob /\ arm' = "packed"
  BY DEF PackedStep, Attempt, CountBond, FlipAccepted, SameJob, jobVars
<1>4. LanesAreMetropolis'
  BY <1>2 DEF PInv
<1> QED
  BY <1>1, <1>2, <1>3, <1>4, InArm

LEMMA EndPackedKeepsJInv ==
  ASSUME JInv, EndPacked
  PROVE  JInv'
<1>1. /\ SameJob /\ arm = "packed" /\ arm' = "done" /\ spin' = spin /\ ref' = ref
  BY DEF EndPacked, SameJob, packedVars
<1>2. PInv
  BY <1>1 DEF JInv
<1>3. results' = [r \in 1 .. NumReads |-> Result(walks'[r], Energy(problem, walks'[r]))]
  BY <1>2, PackedResults
<1>4. ResultsAreTheWalks'
  <2>1. \A r \in 1 .. NumReads : results'[r] = Result(walks'[r], Energy(problem, walks'[r]))
    BY <1>3
  <2>2. Len(results') = NumReads
    BY <1>3, ReadsAssumption
  <2>3. problem' = problem
    BY <1>1 DEF SameJob
  <2>4. ASSUME NEW r \in 1 .. NumReads
        PROVE  ReadIsRight(r)'
    <3>1. PICK s, e : s = walks'[r] /\ e = Energy(problem, s)
      OBVIOUS
    <3>2. results'[r] = [spins |-> s, energy |-> e]
      BY <2>1, <3>1 DEF Result
    <3>3. results'[r].spins = s /\ results'[r].energy = e
      BY <3>2
    <3>4. results'[r] = Result(results'[r].spins, Energy(problem', results'[r].spins))
      BY <2>1, <2>3, <3>1, <3>3
    <3>5. results'[r].spins = walks'[r]
      BY <3>1, <3>3
    <3> QED
      BY <3>4, <3>5 DEF ReadIsRight
  <2> QED
    BY <2>2, <2>4 DEF ResultsAreTheWalks
<1>5. LanesAreMetropolis'
  BY <1>1, LanesStay
<1> QED
  BY <1>1, <1>4, <1>5, InArm DEF Ended

\* A kernel step scores nothing.
LEMMA ScoresStay ==
  ASSUME ReadsScored, read' = read, results' = results, walks' = walks, problem' = problem
  PROVE  ReadsScored'
BY DEF ReadsScored, ReadIsRight

LEMMA ScalarStepKeepsJInv ==
  ASSUME JInv, arm = "scalar", ScalarStep, UNCHANGED <<packedVars, ordinaryVars, jobVars>>
  PROVE  JInv'
<1>1. SInv /\ Arm = "scalar" /\ ReadsScored
  BY DEF JInv
<1>2. SInv'
  BY <1>1, VisitKeepsSInv, PropagateKeepsSInv, FlipDoneKeepsSInv DEF ScalarStep
<1>3. /\ SameJob /\ arm' = "scalar" /\ read' = read /\ results' = results /\ walks' = walks
      /\ spin' = spin /\ ref' = ref
  BY DEF ScalarStep, Visit, Propagate, FlipDone, SameJob, jobVars, packedVars
<1>4. ReadsScored'
  BY <1>1, <1>3, ScoresStay DEF SameJob
<1>5. LanesAreMetropolis'
  BY <1>3, LanesStay
<1> QED
  BY <1>1, <1>2, <1>3, <1>4, <1>5, InArm

LEMMA CandidateKeepsJInv ==
  ASSUME JInv, arm = "cold", Candidate, UNCHANGED <<packedVars, jobVars>>
  PROVE  JInv'
<1>1. OInv /\ Arm = "cold" /\ ReadsScored
  BY DEF JInv
<1>2. OInv'
  BY <1>1, CandidateKeepsOInv
<1>3. /\ SameJob /\ arm' = "cold" /\ read' = read /\ results' = results /\ walks' = walks
      /\ spin' = spin /\ ref' = ref
  BY DEF Candidate, SameJob, jobVars, packedVars
<1>4. ReadsScored'
  BY <1>1, <1>3, ScoresStay DEF SameJob
<1>5. LanesAreMetropolis'
  BY <1>3, LanesStay
<1> QED
  BY <1>1, <1>2, <1>3, <1>4, <1>5, InArm

LEMMA EndReadKeepsJInv ==
  ASSUME JInv, EndRead
  PROVE  JInv'
<1>1. /\ SameJob /\ arm \in {"scalar", "cold"} /\ bond' = bond /\ kernel' = kernel
      /\ spin' = spin /\ ref' = ref /\ read' = read + 1
      /\ results' = Append(results, Result(spins, Energy(problem, spins)))
      /\ walks' = Append(walks, walk)
  BY DEF EndRead, SameJob, packedVars
<1>2. /\ JobIsKnown /\ sweeps \in Nat /\ problem \in Problem /\ NumNodes > 0
  BY <1>1, JobStays
<1>3. /\ ReadsScored /\ Arm = arm
      /\ arm = "scalar" => SInv
      /\ arm = "cold" => OInv
  BY <1>1 DEF JInv
<1>4. walk \in States /\ (Exact(problem) => spins = walk)
  <2>1. CASE arm = "scalar"
    BY <1>3, <2>1 DEF SInv, ScalarTypeOK, ReadIsMetropolis
  <2>2. CASE arm = "cold"
    BY <1>3, <2>2 DEF OInv
  <2> QED
    BY <1>1, <2>1, <2>2
<1>5. bond = 0
  BY DEF EndRead, SweepsDone
<1>6. read \in Nat /\ read < NumReads /\ NumReads \in Nat
  <2>1. walks \in Seq(States) /\ Len(walks) = read /\ read < NumReads
    BY <1>3 DEF ReadsScored
  <2>2. read \in Nat
    BY <2>1
  <2> QED
    BY <2>1, <2>2, ReadsAssumption
<1>7. /\ walks' \in Seq(States) /\ Len(walks') = read'
      /\ results' \in Seq(Range(results')) /\ Len(results') = read'
      /\ \A r \in 1 .. read' : ReadIsRight(r)'
  BY <1>1, <1>3, <1>4, <1>6, OneMoreRead DEF SameJob
<1>8. LanesAreMetropolis'
  BY <1>1, LanesStay
<1>9. CASE read + 1 < NumReads
  <2>1. NextRead /\ arm' = arm
    BY <1>9 DEF EndRead
  <2>2. ReadsScored'
    BY <1>1, <1>7, <1>9 DEF ReadsScored, SameJob
  <2>3. UNCHANGED <<problem, sweeps, bond>>
    BY <1>1 DEF SameJob
  <2>4. CASE arm = "scalar"
    <3>1. Qualifies(problem) /\ job.seeds \in Seq(States)
      BY <1>2, <1>3, <2>4, ArmFacts
    <3>2. PICK s \in RandomStates : StartRead(StartOf(read + 1, s))
      BY <2>1, <2>4 DEF NextRead, EnterRead
    <3>3. StartOf(read + 1, s) \in States
      <4>1. s \in States /\ read + 1 \in Nat
        BY <1>6, <3>2, RandomStatesAreStates
      <4> QED
        BY <3>1, <4>1, StartIsState
    <3>4. read' \in Reads
      BY <1>1, <1>6, <1>9 DEF Reads
    <3>5. ScalarInit'
      BY <1>2, <1>5, <2>3, <3>1, <3>2, <3>3, <3>4, EnterScalarSInv
    <3>6. SInv'
      BY <3>5, ScalarEnters, PTL
    <3> QED
      BY <1>1, <1>3, <1>8, <2>1, <2>2, <2>4, <3>6, InArm
  <2>5. CASE arm = "cold"
    <3>1. PICK s \in RandomStates : EnterOrdinaryRead(s, kernel)
      BY <2>1, <2>5 DEF NextRead
    <3>2. s \in States
      BY <3>1, RandomStatesAreStates
    <3>3. kernel \in Arithmetics /\ (kernel = "Int" => Qualifies(problem))
      BY <1>3, <2>5 DEF OInv, Arithmetics
    <3>4. OInv'
      BY <1>1, <1>2, <1>5, <2>3, <3>1, <3>2, <3>3, EnterOrdinaryOInv
    <3> QED
      BY <1>1, <1>3, <1>8, <2>1, <2>2, <2>5, <3>4, InArm
  <2> QED
    BY <1>1, <2>4, <2>5
<1>10. CASE ~(read + 1 < NumReads)
  <2>1. arm' = "done"
    BY <1>10 DEF EndRead
  <2>2. read' = NumReads
    BY <1>1, <1>6, <1>10
  <2>3. ResultsAreTheWalks'
    BY <1>1, <1>7, <2>2 DEF ResultsAreTheWalks, SameJob
  <2> QED
    BY <1>1, <1>8, <2>1, <2>3, InArm DEF Ended
<1> QED
  BY <1>9, <1>10

LEMMA CancelSeenKeepsJInv ==
  ASSUME JInv, CancelSeen
  PROVE  JInv'
<1>1. SameJob /\ arm' = "cancelled" /\ spin' = spin /\ ref' = ref
  BY DEF CancelSeen, SameJob, packedVars
<1>2. LanesAreMetropolis'
  BY <1>1, LanesStay
<1> QED
  BY <1>1, <1>2, InArm DEF Ended

LEMMA StutterKeepsJInv ==
  ASSUME JInv, UNCHANGED saVars
  PROVE  JInv'
<1>1. /\ UNCHANGED <<problem, sweeps, bond, packedVars>>
      /\ UNCHANGED <<problem, sweeps, bond, scalarVars>>
      /\ SameJob /\ arm' = arm /\ results' = results /\ walks' = walks
      /\ bond' = bond /\ turn' = turn /\ read' = read /\ threshold' = threshold
      /\ inputs' = inputs /\ planes' = planes /\ spin' = spin /\ ref' = ref
      /\ kernel' = kernel /\ sweep' = sweep /\ var' = var /\ spins' = spins
      /\ walk' = walk /\ heff' = heff /\ accepts' = accepts /\ drawn' = drawn
  BY DEF saVars, packedVars, countVars, scalarVars, ordinaryVars, jobVars, SameJob
<1>2. arm = "packed" => PInv'
  BY <1>1, StutterKeepsPInv DEF JInv
<1>3. arm = "scalar" => SInv'
  BY <1>1, ScalarStutter DEF JInv
<1>4. arm = "cold" => OInv'
  BY <1>1 DEF JInv, OInv, SameJob
<1>5. arm = "choose" => AtRest'
  BY <1>1 DEF JInv, AtRest
<1>6. arm \in {"scalar", "cold"} => ReadsScored'
  BY <1>1, ScoresStay DEF JInv, SameJob
<1>7. arm = "done" => ResultsAreTheWalks'
  BY <1>1 DEF JInv, ResultsAreTheWalks, ReadIsRight, SameJob
<1>8. LanesAreMetropolis'
  BY <1>1, LanesStay
<1>9. /\ arm \in {"choose", "packed", "scalar", "cold"} \cup Ended
      /\ arm \in {"packed", "scalar", "cold"} => Arm = arm
  BY DEF JInv
<1> QED
  BY <1>1, <1>2, <1>3, <1>4, <1>5, <1>6, <1>7, <1>8, <1>9, InArm

LEMMA LadderType ==
  ASSUME JobIsKnown
  PROVE  Ladder.rungs * SweepsPerBeta(job.total, job.perBeta) \in Nat
<1>1. job.total \in Nat /\ job.perBeta \in Nat
  BY JobsAssumption DEF JobIsKnown
<1>2. PICK s \in Nat \ {0} : s = SweepsPerBeta(job.total, job.perBeta)
  BY <1>1 DEF SweepsPerBeta, Larger, Smaller
<1>3. Ladder.rungs = Rungs(job.total, job.perBeta)
  BY DEF Ladder, SeededLadder, ColdLadder
<1>4. PICK q \in Nat : q = job.total \div s
  BY <1>1
<1>5. Rungs(job.total, job.perBeta) \in Nat
  BY <1>2, <1>4 DEF Rungs, Larger
<1>6. PICK r \in Nat : r = Ladder.rungs
  BY <1>3, <1>5
<1> QED
  BY <1>2, <1>6

LEMMA InitJInv ==
  ASSUME Init
  PROVE  JInv
<1>1. JobIsKnown /\ arm = "choose" /\ AtRest
  BY DEF Init, JobIsKnown, AtRest
<1>2. sweeps \in Nat
  BY <1>1, LadderType DEF Init
<1>3. LanesAreMetropolis
  BY DEF Init, LanesAreMetropolis
<1>4. ResultsAreTheWalks
  BY <1>1 DEF ResultsAreTheWalks
<1> QED
  BY <1>1, <1>2, <1>3, <1>4 DEF JInv, JobIsKnown

\* Whatever the jobs, seeds, lanes and reads are: a job is at every moment in
\* the invariant of the kernel it picked, also when a read ends and the next
\* one enters the same kernel (sa_sampler.rs 420-640).
THEOREM JobInvariant == Spec => []JInv
<1>1. JInv /\ [Next]_saVars => JInv'
  <2> SUFFICES ASSUME JInv, [Next]_saVars
               PROVE  JInv'
    OBVIOUS
  <2>1. CASE StartPacked
    BY <2>1, StartPackedKeepsJInv
  <2>2. CASE EnterScalar
    BY <2>2, EnterScalarKeepsJInv
  <2>3. CASE EnterOrdinary
    BY <2>3, EnterOrdinaryKeepsJInv
  <2>4. CASE Refuse
    BY <2>4, RefuseKeepsJInv
  <2>5. CASE arm = "packed" /\ PackedStep /\ UNCHANGED <<scalarVars, ordinaryVars, jobVars>>
    BY <2>5, PackedStepKeepsJInv
  <2>6. CASE EndPacked
    BY <2>6, EndPackedKeepsJInv
  <2>7. CASE arm = "scalar" /\ ScalarStep /\ UNCHANGED <<packedVars, ordinaryVars, jobVars>>
    BY <2>7, ScalarStepKeepsJInv
  <2>8. CASE arm = "cold" /\ Candidate /\ UNCHANGED <<packedVars, jobVars>>
    BY <2>8, CandidateKeepsJInv
  <2>9. CASE EndRead
    BY <2>9, EndReadKeepsJInv
  <2>10. CASE CancelSeen
    BY <2>10, CancelSeenKeepsJInv
  <2>11. CASE Finished
    BY <2>11, StutterKeepsJInv DEF Finished
  <2>12. CASE UNCHANGED saVars
    BY <2>12, StutterKeepsJInv
  <2> QED
    BY <2>1, <2>2, <2>3, <2>4, <2>5, <2>6, <2>7, <2>8, <2>9, <2>10, <2>11, <2>12 DEF Next
<1> QED
  BY <1>1, InitJInv, PTL DEF Spec

LEMMA JobIsRight ==
  ASSUME JInv
  PROVE  KernelsAgree /\ SeedsAreNeverDropped
<1>1. KernelsAgree
  BY DEF JInv, OInv, KernelsAgree
<1>2. SeedsAreNeverDropped
  <2>1. JobIsKnown /\ (arm = "cold" => Arm = "cold")
    BY DEF JInv, JobIsKnown
  <2> QED
    BY <2>1, SeededIsNotCold DEF SeedsAreNeverDropped
<1> QED
  BY <1>1, <1>2

\* On every graph whose sums are whole numbers a double holds, a cache, 8 bits
\* and a table change nothing: both kernels make the walk that computes every
\* field anew, and have drawn as many numbers (sampler_core.rs 198-204,
\* sa_int.rs 419-487).  On every other graph the cache of the general kernel
\* stays within one rounding for the seeding and one for each flip of the
\* fields, however long the read (sampler_core.rs 256-263).
THEOREM KernelsTakeOneWalk == Spec => []KernelsAgree
<1> QED
  BY JobInvariant, JobIsRight, PTL

\* What sample_seeded refuses is exactly what would end in the kernel without
\* seeds, for every job (sa_sampler.rs 281-292).
THEOREM SeedsAreTaken == Spec => []SeedsAreNeverDropped
<1> QED
  BY JobInvariant, JobIsRight, PTL

\* A finished job reports every read once, in order, with the state its walk
\* ended in (where no field was rounded) and the energy of that state: for
\* every number of lanes, also when the last word is only partly used, and with
\* energies that are scored from bits or from spins
\* (sa_sampler.rs 432-448, 470-499, 557-628).
THEOREM ReadsAreHandedOver == Spec => []ResultsAreTheWalks
<1>1. JInv => ResultsAreTheWalks
  BY DEF JInv
<1> QED
  BY <1>1, JobInvariant, PTL

\* The lanes of a job stay the walks of their reads, seeded lanes too, from
\* the first attempt until the job is scored (sa_sampler.rs 470-499).
THEOREM JobLanesAreWalks == Spec => []LanesAreMetropolis
<1>1. JInv => LanesAreMetropolis
  BY DEF JInv
<1> QED
  BY <1>1, JobInvariant, PTL
=============================================================================
