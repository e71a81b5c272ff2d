------------------------------ MODULE Curve252 ------------------------------
(***************************************************************************)
(* The STARK curve y^2 = x^3 + x + BETA and the Pedersen hash on it        *)
(* (src/cairo_air/stark252_field.rs), with the conversions between field   *)
(* elements and M31 limbs and the window tables (src/cairo_air/pedersen.rs)*)
(***************************************************************************)
EXTENDS Felt252Field

CONSTANTS
  BETA,
  P,            \* the five constant points, P[1] is P0
  LOW_BITS,     \* of a scalar's low part, 248
  TOP_BITS,     \* of the highest limb that scalar_mul reads, 60
  M31_BITS,     \* of a limb of a Stark252, 31
  FELT_BITS,    \* of a field element, 252
  WINDOW_BITS   \* 4

\* Affine points are pairs; the point at infinity has a name.
CurveInfinity == <<"infinity">>
IsOnCurve(pt) == mul(pt[2], pt[2]) = add(add(mul(mul(pt[1], pt[1]), pt[1]), pt[1]), BETA)

-----------------------------------------------------------------------------
(* Jacobian coordinates: <<X, Y, Z>> stands for (X / Z^2, Y / Z^3). *)

infinity == <<0, 1, 0>>
from_affine(pt) == IF pt = CurveInfinity THEN infinity ELSE <<pt[1], pt[2], 1>>
to_affine(j) ==
  IF j[3] = 0 THEN CurveInfinity
  ELSE LET z == inverse(j[3])
           z2 == mul(z, z)
       IN <<mul(j[1], z2), mul(j[2], mul(z2, z))>>

\* The slope of the tangent, without and with the curve's coefficient a = 1.
tangent_without_a(j) == mul(3, mul(j[1], j[1]))
tangent(j) == add(mul(3, mul(j[1], j[1])), mul(mul(j[3], j[3]), mul(j[3], j[3])))
double(j) ==
  IF j[3] = 0 THEN j
  ELSE LET yy == mul(j[2], j[2])
           s == mul(4, mul(j[1], yy))
           m == tangent(j)
           x3 == sub(mul(m, m), mul(2, s))
       IN <<x3, sub(mul(m, sub(s, x3)), mul(8, mul(yy, yy))), mul(mul(2, j[2]), j[3])>>

add_jacobian(j, k) ==
  LET z1z1 == mul(j[3], j[3])
      z2z2 == mul(k[3], k[3])
      u1 == mul(j[1], z2z2)
      s1 == mul(mul(j[2], z2z2), k[3])
      h == sub(mul(k[1], z1z1), u1)
      r == sub(mul(mul(k[2], z1z1), j[3]), s1)
      hh == mul(h, h)
      x3 == sub(sub(mul(r, r), mul(hh, h)), mul(2, mul(u1, hh)))
  IN CASE j[3] = 0 -> k
       [] j[3] # 0 /\ k[3] = 0 -> j
       [] OTHER -> IF h = 0 THEN IF r = 0 THEN double(j) ELSE infinity
                   ELSE <<x3, sub(mul(r, sub(mul(u1, hh), x3)), mul(s1, mul(hh, h))),
                          mul(mul(j[3], k[3]), h)>>

point_add(p, q) == to_affine(add_jacobian(from_affine(p), from_affine(q)))

\* Double-and-add over the bits of the scalar's limbs, the highest one cut at TOP_BITS.
scalar_mul(pt, scalar) ==
  LET n == 3 * LIMB_BITS + TOP_BITS
      bit(i) == (scalar[(i \div LIMB_BITS) + 1] \div 2^(i % LIMB_BITS)) % 2
      walk[i \in 0 .. n] ==
        IF i = 0 THEN <<infinity, from_affine(pt)>>
        ELSE LET w == walk[i - 1] IN
             <<IF bit(i - 1) = 1 THEN add_jacobian(w[1], w[2]) ELSE w[1], double(w[2])>>
  IN IF pt = CurveInfinity THEN pt ELSE to_affine(walk[n][1])

\* On limbs: the lowest bits, and the others moved down.
mask_bits(v, n_bits) ==
  LET full == n_bits \div LIMB_BITS IN
  [i \in 1 .. 4 |-> IF i - 1 < full THEN v[i]
                    ELSE IF i - 1 = full THEN v[i] % 2^(n_bits % LIMB_BITS) ELSE 0]
shift_right(v, n_bits) ==
  LET limb == n_bits \div LIMB_BITS
      bits == n_bits % LIMB_BITS
      at(i) == IF i <= 4 THEN v[i] ELSE 0
  IN [i \in 1 .. 4 |->
        (at(i + limb) \div 2^bits) + (IF bits = 0 THEN 0 ELSE (at(i + limb + 1) * 2^(LIMB_BITS - bits)) % B)]

pedersen_hash(a, b) ==
  LET part(k, scalar) == scalar_mul(P[k + 1], scalar)
      low(v) == mask_bits(Limbs(v), LOW_BITS)
      high(v) == shift_right(Limbs(v), LOW_BITS)
      result == point_add(point_add(point_add(point_add(P[1], part(1, low(a))), part(2, high(a))),
                                    part(3, low(b))), part(4, high(b)))
  IN IF result = CurveInfinity THEN 0 ELSE result[1]

-----------------------------------------------------------------------------
(* Montgomery constants, by Newton's iteration modulo 2^256. *)

mul_low_256(v, w) ==
  LET s[k \in 0 .. 4] ==
        IF k = 0 THEN 0
        ELSE (s[k - 1] \div B) + FoldFunctionOnSet(LAMBDA x, y : x + y, 0,
                                   [i \in 1 .. k |-> v[i] * w[k + 1 - i]], 1 .. k)
  IN [i \in 1 .. 4 |-> s[i] % B]
sub_256(v, w) == sub_limbs(v, w)
compute_mont_p_prime ==
  LET x[k \in 0 .. 8] ==
        IF k = 0 THEN <<1, 0, 0, 0>>
        ELSE LET y == x[k - 1] IN mul_low_256(y, sub_256(<<2, 0, 0, 0>>, mul_low_256(PRIME_LIMBS, y)))
  IN sub_256(<<0, 0, 0, 0>>, x[8])
to_mont(a) == mul(a, R_MOD_P)

\* Multiples 0 .. 2^WINDOW_BITS - 1 of P[i + 1], each by one more addition.
window_table(i) ==
  LET t[k \in 0 .. 2^WINDOW_BITS - 1] == IF k = 0 THEN CurveInfinity
                                         ELSE IF k = 1 THEN P[i + 1] ELSE point_add(t[k - 1], P[i + 1])
  IN [k \in 0 .. 2^WINDOW_BITS - 1 |-> t[k]]
\* What gpu_init uploads for one entry.
gpu_entry(pt) ==
  IF pt = CurveInfinity THEN <<0, R_MOD_P, 0>> ELSE <<to_mont(pt[1]), to_mont(pt[2]), R_MOD_P>>

-----------------------------------------------------------------------------
(* M31 limbs. *)

N_LIMBS == (FELT_BITS + M31_BITS - 1) \div M31_BITS
limb_bits(i) == IF i = N_LIMBS THEN FELT_BITS - M31_BITS * (N_LIMBS - 1) ELSE M31_BITS
fp_to_stark252(v) ==
  LET n == ValueOf(v) IN [i \in 1 .. N_LIMBS |-> (n \div 2^(M31_BITS * (i - 1))) % 2^limb_bits(i)]
stark252_to_fp(s) ==
  Limbs(FoldFunctionOnSet(LAMBDA x, y : x + y, 0,
          [i \in 1 .. N_LIMBS |-> (s[i] % 2^limb_bits(i)) * 2^(M31_BITS * (i - 1))], 1 .. N_LIMBS))
=============================================================================
