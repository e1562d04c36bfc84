----------------------------- MODULE BitPlanes -----------------------------
(***************************************************************************)
(* Counting in every lane of a machine word at once (src/sa_msc.rs).  A    *)
(* word is the set of the lanes whose bit is 1; Planes words, the lowest   *)
(* first, hold one number per lane.                                        *)
(***************************************************************************)
EXTENDS Integers, Sequences

CONSTANT Lanes     \* the bits of a word

Weight == <<1, 2, 4, 8, 16, 32>>
Planes == 1 .. 6
MaxDegree == 63

ZeroPlanes == [k \in Planes |-> {}]
Xor(a, b) == (a \ b) \cup (b \ a)
Not(a) == Lanes \ a
Everywhere(b) == IF b THEN Lanes ELSE {}

Bit(a, l) == IF l \in a THEN 1 ELSE 0

\* The number a lane holds.
Value(p, l) ==
  Bit(p[1], l) + 2 * Bit(p[2], l) + 4 * Bit(p[3], l) + 8 * Bit(p[4], l)
    + 16 * Bit(p[5], l) + 32 * Bit(p[6], l)

Odd(n) == n % 2 = 1

\* constant_planes, and the packing of per-lane numbers in fill_lane_row.
ConstantPlanes(d) == [k \in Planes |-> Everywhere(Odd(d \div Weight[k]))]
PackedPlanes(m) == [k \in Planes |-> {l \in Lanes : Odd(m[l] \div Weight[k])}]

-----------------------------------------------------------------------------
\* csa: a + b + c = 2 * carry + sum, in every lane.
CarrySave(a, b, c) ==
  [carry |-> (a \cap b) \cup (Xor(a, b) \cap c), sum |-> Xor(Xor(a, b), c)]

\* add_plane, once filled words are absorbed with this one: the carry of a
\* lane runs through the planes that are 1, and a count of filled words needs
\* no plane of a larger weight.
AddPlane(p, filled, w) ==
  [k \in Planes |->
     IF Weight[k] <= filled
     THEN Xor(p[k], {l \in w : \A j \in 1 .. k - 1 : l \in p[j]})
     ELSE p[k]]

\* limit_planes: (d + m) \div 2 in every lane, by adding with ripple carries
\* and dropping the lowest plane.
LimitPlanes(m, d) ==
  LET c == ConstantPlanes(d)
      c1 == m[1] \cap c[1]
      s2 == CarrySave(m[2], c[2], c1)
      s3 == CarrySave(m[3], c[3], s2.carry)
      s4 == CarrySave(m[4], c[4], s3.carry)
      s5 == CarrySave(m[5], c[5], s4.carry)
      s6 == CarrySave(m[6], c[6], s5.carry)
  IN  <<s2.sum, s3.sum, s4.sum, s5.sum, s6.sum, s6.carry>>

\* le_planes: the lanes where a is at most b, scanning from the high plane.
AtMostPlanes(a, b) ==
  LET EqualAbove(k) == {l \in Lanes : \A j \in k + 1 .. 6 : l \notin Xor(a[j], b[j])}
  IN  EqualAbove(0) \cup UNION {EqualAbove(k) \cap (b[k] \ a[k]) : k \in Planes}
=============================================================================
