---------------------------- MODULE Felt252Field ----------------------------
(***************************************************************************)
(* Arithmetic modulo the STARK prime, and the same arithmetic as the code  *)
(* does it: on four limbs with carries and borrows, the 512-bit product    *)
(* folded by 2^256 mod p.  A limb has LIMB_BITS bits; the prime keeps its  *)
(* shape 1 + top * 2^(3 * LIMB_BITS).                                      *)
(***************************************************************************)
EXTENDS Integers, Sequences, SequencesExt, FiniteSetsExt

CONSTANTS
  LIMB_BITS,  \* 64 in the code
  TOP,        \* the prime's highest limb, 0x0800000000000011
  GENERATOR,  \* of the multiplicative group, 3
  ODD_PART,   \* of p - 1
  MAX_LOG     \* p - 1 = ODD_PART * 2^MAX_LOG; 192

B == 2^LIMB_BITS
PRIME == 1 + TOP * B^3
Fp == 0 .. PRIME - 1

ASSUME FieldAssumption ==
  /\ PRIME - 1 = ODD_PART * 2^MAX_LOG /\ ODD_PART % 2 = 1
  /\ \A d \in 2 .. PRIME - 1 : PRIME % d # 0 \/ d * d > PRIME

\* The field, as everything else uses it.
add(a, b) == (a + b) % PRIME
sub(a, b) == (a - b) % PRIME
mul(a, b) == (a * b) % PRIME
pow(a, e) ==
  LET p[k \in 0 .. e] == IF k = 0 THEN 1
                         ELSE IF k % 2 = 0 THEN LET h == p[k \div 2] IN mul(h, h)
                         ELSE mul(a, p[k - 1])
  IN p[e]
Inverses == [a \in Fp |-> pow(a, PRIME - 2)]
inverse(a) == Inverses[a]

-----------------------------------------------------------------------------
(* Limbs, least significant first. *)

Limbs(x) == [i \in 1 .. 4 |-> (x \div B^(i - 1)) % B]
ValueOf(v) == v[1] + B * v[2] + B^2 * v[3] + B^3 * v[4]
PRIME_LIMBS == <<1, 0, 0, TOP>>
\* 2^256 mod p
R_MOD_P == B^4 % PRIME

\* Compare from the highest limb down.
ge_rhs(v, w) ==
  \E i \in 0 .. 4 : /\ \A j \in i + 1 .. 4 : v[j] = w[j]
                    /\ i = 0 \/ v[i] > w[i]

\* What is carried out of limb i of a sum, or borrowed by it in a difference.
carry(v, w, i) == LET c[k \in 0 .. 4] == IF k = 0 THEN 0 ELSE (v[k] + w[k] + c[k - 1]) \div B IN c[i]
borrow(v, w, i) ==
  LET b[k \in 0 .. 4] == IF k = 0 \/ v[k] - b[k - 1] >= w[k] THEN 0 ELSE 1 IN b[i]
add_limbs(v, w) == [i \in 1 .. 4 |-> (v[i] + w[i] + carry(v, w, i - 1)) % B]
\* A borrow that stops at the next limb.
sub_limbs_short(v, w) ==
  [i \in 1 .. 4 |-> (v[i] - w[i] - (IF i > 1 /\ v[i - 1] < w[i - 1] THEN 1 ELSE 0)) % B]
sub_limbs(v, w) == [i \in 1 .. 4 |-> (v[i] - w[i] - borrow(v, w, i - 1)) % B]

reduce(v) ==
  LET r[n \in 0 .. B^4 \div PRIME] ==
        IF n = 0 THEN v ELSE IF ge_rhs(r[n - 1], PRIME_LIMBS)
                             THEN sub_limbs(r[n - 1], PRIME_LIMBS) ELSE r[n - 1]
  IN r[B^4 \div PRIME]

fp_add(v, w) == reduce(add_limbs(v, w))
fp_sub(v, w) ==
  IF ge_rhs(v, w) THEN sub_limbs(v, w) ELSE reduce(sub_limbs(add_limbs(PRIME_LIMBS, v), w))
fp_neg(v) == IF v = <<0, 0, 0, 0>> THEN v ELSE fp_sub(PRIME_LIMBS, v)

\* Schoolbook product: the eight limbs, as a low and a high half.
product(v, w) == LET n == ValueOf(v) * ValueOf(w) IN <<n % B^4, n \div B^4>>

\* reduce_512 and mul call each other until the high half is zero.
fp_mul(v, w) ==
  LET m[p \in (0 .. B^4) \X (0 .. B^4)] ==
        LET lo == reduce(Limbs(p[1]))
            hi == reduce(Limbs(p[2]))
        IN  IF hi = <<0, 0, 0, 0>> THEN lo ELSE fp_add(lo, m[product(hi, Limbs(R_MOD_P))])
  IN m[product(v, w)]

\* fp_to_u32x8 and back: every limb as two halves.
to_halves(v) ==
  [k \in 1 .. 8 |-> IF k % 2 = 1 THEN v[(k + 1) \div 2] % 2^(LIMB_BITS \div 2)
                    ELSE v[k \div 2] \div 2^(LIMB_BITS \div 2)]
from_halves(h) == reduce([k \in 1 .. 4 |-> h[2 * k - 1] + 2^(LIMB_BITS \div 2) * h[2 * k]])

-----------------------------------------------------------------------------
(* Roots of unity and the batch inverse. *)

ntt_root_of_unity(log_n) ==
  LET sq[k \in 0 .. MAX_LOG] == IF k = 0 THEN pow(GENERATOR, ODD_PART)
                                ELSE mul(sq[k - 1], sq[k - 1])
  IN sq[MAX_LOG - log_n]
\* The powers that every evaluation uses: Root[s][k] is the k-th power of the 2^s-th root.
Root == [s \in 0 .. MAX_LOG |-> [k \in 0 .. 2^s |-> pow(ntt_root_of_unity(s), k)]]

\* Montgomery's trick on a vector from 1: one inversion, prefix products forward and back.
batch_inverse(a) ==
  LET n == Len(a)
      prefix[k \in 0 .. n] == IF k = 0 THEN 1 ELSE mul(prefix[k - 1], a[k])
      inv[k \in 1 .. n] == IF k = n THEN inverse(prefix[n]) ELSE mul(inv[k + 1], a[k + 1])
  IN [k \in 1 .. n |-> mul(inv[k], prefix[k - 1])]
=============================================================================
