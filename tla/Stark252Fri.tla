---------------------------- MODULE Stark252Fri ----------------------------
(***************************************************************************)
(* The vector commitments of the stark252 provers: NTT and low-degree      *)
(* extension, the Merkle tree, and FRI's folding and its queries.  Vectors *)
(* are functions from 0; a digest is the term that was hashed.             *)
(***************************************************************************)
EXTENDS Felt252Field

CONSTANT LOG_LAST_LAYER  \* folding stops at 2^LOG_LAST_LAYER values

Vector(n) == [0 .. n - 1 -> Fp]
Tuple(v, n) == [k \in 1 .. n |-> v[k - 1]]
Sum(v, S) == FoldFunctionOnSet(LAMBDA x, y : add(x, y), 0, v, S)

-----------------------------------------------------------------------------
(* NTT. *)

bit_reverse_index(x, bits) ==
  LET r[b \in 0 .. bits] ==
        IF b = 0 THEN 0 ELSE 2 * r[b - 1] + ((x \div 2^(b - 1)) % 2)
  IN r[bits]
bit_reverse_permutation(a, bits) == [i \in DOMAIN a |-> a[bit_reverse_index(i, bits)]]

\* One stage: pairs half apart, inside blocks of 2 * half; w holds the stage's twiddles.
butterfly(a, half, w) ==
  [k \in DOMAIN a |->
     LET j == k % (2 * half)
     IN  IF j < half THEN add(a[k], mul(a[k + half], w[j]))
         ELSE sub(a[k - half], mul(a[k], w[j - half]))]
\* The stages in turn; W gives the twiddles of each.
stages(a, log_n, W(_)) ==
  LET s[t \in 0 .. log_n] ==
        IF t = 0 THEN bit_reverse_permutation(a, log_n)
        ELSE CHOOSE b \in {butterfly(s[t - 1], 2^(t - 1), W(t))} : TRUE
  IN s[log_n]

ntt_forward_cpu(a, log_n) == stages(a, log_n, LAMBDA t : Root[t])
ntt_inverse_cpu(a, log_n) ==
  LET b == stages(a, log_n, LAMBDA t : [j \in 0 .. 2^(t - 1) |-> Root[t][(2^t - j) % 2^t]])
  IN [k \in DOMAIN a |-> mul(b[k], inverse(2^log_n))]
lde_cpu(trace, log_n, log_blowup) ==
  LET coeffs == ntt_inverse_cpu(trace, log_n)
  IN ntt_forward_cpu([k \in 0 .. 2^(log_n + log_blowup) - 1 |->
                        IF k < 2^log_n THEN coeffs[k] ELSE 0], log_n + log_blowup)

\* What the GPU path uploads: limb k of value i at k * n + i.
fps_to_flat_u64(fps, n) == [j \in 0 .. 4 * n - 1 |-> Limbs(fps[j % n])[(j \div n) + 1]]
flat_u64_to_fps(flat, n) == [i \in 0 .. n - 1 |-> ValueOf([k \in 1 .. 4 |-> flat[(k - 1) * n + i]])]

\* Reference: the polynomial with these coefficients, at a point.
Eval(coeffs, x) == Sum([j \in DOMAIN coeffs |-> mul(coeffs[j], pow(x, j))], DOMAIN coeffs)
DegreeBelow(v, log_m, d) ==
  LET c == ntt_inverse_cpu(v, log_m) IN \A k \in DOMAIN c : k >= d => c[k] = 0

-----------------------------------------------------------------------------
(* Merkle tree: node 0 is the root, the children of i are 2i + 1 and 2i + 2. *)

hash_leaf(x) == <<x>>
hash_node(left, right) == <<left, right>>
commit(values, log_n) ==
  LET n == 2^log_n
      node[i \in 0 .. 2 * n - 2] == IF i >= n - 1 THEN hash_leaf(values[i - (n - 1)])
                                    ELSE hash_node(node[2 * i + 1], node[2 * i + 2])
  IN [i \in 0 .. 2 * n - 2 |-> node[i]]
root(tree) == tree[0]
sibling(i) == IF i % 2 = 1 THEN i + 1 ELSE i - 1
\* Upwards from a leaf: the nodes on the way, root excluded.
auth_path(tree, log_n, idx) ==
  LET at[h \in 0 .. log_n] == IF h = 0 THEN 2^log_n - 1 + idx ELSE (at[h - 1] - 1) \div 2
  IN [h \in 1 .. log_n |-> tree[sibling(at[h - 1])]]
verify_auth_path(leaf_value, path, rt, idx) ==
  LET current[h \in 0 .. Len(path)] ==
        IF h = 0 THEN hash_leaf(leaf_value)
        ELSE IF (idx \div 2^(h - 1)) % 2 = 0 THEN hash_node(current[h - 1], path[h])
        ELSE hash_node(path[h], current[h - 1])
  IN current[Len(path)] = rt

-----------------------------------------------------------------------------
(* FRI. *)

n_folds(log_m0) == log_m0 - LOG_LAST_LAYER
\* The value of the folded polynomial from a pair and the point of the lower one.
fold_pair(f_lo, f_hi, alpha, x) ==
  add(mul(add(f_lo, f_hi), inverse(2)), mul(alpha, mul(sub(f_lo, f_hi), inverse(mul(2, x)))))
fold_layer(f, log_m, alpha) ==
  LET half == 2^(log_m - 1)
      inv_two_xi == batch_inverse([i \in 1 .. half |-> mul(2, Root[log_m][i - 1])])
  IN [i \in 0 .. half - 1 |->
        add(mul(add(f[i], f[i + half]), inverse(2)),
            mul(alpha, mul(sub(f[i], f[i + half]), inv_two_xi[i + 1])))]

\* Where a query looks in the layers: the lower index of its pair in layer l.
low_index(q, log_m0, l) == q % 2^(log_m0 - l - 1)

\* fri_build_proof for one query; layers[1] is layer 0.
fri_decommit(layers, trees, log_m0, q) ==
  [l \in 1 .. n_folds(log_m0) |->
     LET half == 2^(log_m0 - l)
         low == low_index(q, log_m0, l - 1)
     IN [f_lo |-> layers[l][low], f_hi |-> layers[l][low + half],
         path_lo |-> auth_path(trees[l], log_m0 - l + 1, low),
         path_hi |-> auth_path(trees[l], log_m0 - l + 1, low + half)]]

\* Always the lower one.
next_value_low(ld, low, next_half) == ld.f_lo
\* Which of the next layer's pair the fold must equal.
next_value(ld, low, next_half) == IF low < next_half THEN ld.f_lo ELSE ld.f_hi

fri_verify(roots, last_layer, decommit, alphas, log_m0, q) ==
  \A l \in 1 .. n_folds(log_m0) :
    LET half == 2^(log_m0 - l)
        low == low_index(q, log_m0, l - 1)
        ld == decommit[l]
        expected == fold_pair(ld.f_lo, ld.f_hi, alphas[l], Root[log_m0 - l + 1][low])
    IN  /\ verify_auth_path(ld.f_lo, ld.path_lo, roots[l], low)
        /\ verify_auth_path(ld.f_hi, ld.path_hi, roots[l], low + half)
        /\ expected = IF l < n_folds(log_m0) THEN next_value(decommit[l + 1], low, half \div 2)
                      ELSE last_layer[low]
=============================================================================
