--------------------------- MODULE ScriptProofs -----------------------------
(***************************************************************************)
(* Proofs about the provers and verifiers that share a channel, for every  *)
(* set of shapes: any trace size and so any number of FRI layers.          *)
(*                                                                         *)
(* A script is given the channel it starts from; where it ends and from    *)
(* which channel it draws each challenge are functions of the two, which   *)
(* concatenation composes.  A section of a verifier is compared with the   *)
(* section of the prover it replays, and what holds of whole scripts is    *)
(* put together from their sections.                                       *)
(***************************************************************************)
EXTENDS Protocol, SequenceTheorems, WellFoundedInduction, TLAPS

\* Induction over the naturals: what fails somewhere fails first somewhere.
LEMMA LeastNumber ==
  ASSUME NEW S, S \subseteq Nat, S # {}
  PROVE  \E n \in S : \A m \in S : n <= m
<1> DEFINE R == {p \in Nat \X Nat : p[1] < p[2]}
<1>1. IsWellFoundedOn(R, Nat)
  BY NatLessThanWellFounded DEF OpToRel
<1> HIDE DEF R
<1>2. PICK n \in S : \A m \in S : ~ (<<m, n>> \in R)
  BY <1>1, WFMin
<1>3. \A m \in S : ~ (m < n)
  BY <1>2 DEF R
<1> QED BY <1>3

-----------------------------------------------------------------------------
\* What a script does to a channel.

IsScript(P) == \E S : P \in Seq(S)
IsChannel(ch) == \E S : ch \in [state : Seq(S), n_draws : Nat]

Squeezing(op) == op.op \in {"draw", "peek"}

\* bad is the field that came back damaged, if one did.
StepChannel(op, ch, bad) ==
  IF op.op = "mix" THEN mix_digest(ch, IF op.field = bad THEN "damaged" ELSE op.field)
  ELSE IF op.op = "draw" THEN squeeze(ch)
  ELSE IF op.op = "restart" THEN new
  ELSE ch

IsRun(P, a, bad, f) ==
  /\ f = [i \in 0 .. Len(P) |-> f[i]] /\ f[0] = a
  /\ \A i \in 0 .. Len(P) : IsChannel(f[i])
  /\ \A i \in 1 .. Len(P) : f[i] = StepChannel(P[i], f[i - 1], bad)

\* The channel after each step of P, from a.
Run(P, a, bad) == CHOOSE f : IsRun(P, a, bad, f)
After(P, a, bad) == Run(P, a, bad)[Len(P)]

\* Every challenge P draws, with the channel it is drawn from, is in R.
Says(P, a, bad, R) ==
  \A i \in 1 .. Len(P) :
    Squeezing(P[i]) => <<P[i].challenge, Run(P, a, bad)[i - 1]>> \in R

LEMMA Joins ==
  ASSUME NEW P, NEW Q, IsScript(P), IsScript(Q)
  PROVE  /\ IsScript(P \o Q)
         /\ Len(P) \in Nat /\ Len(Q) \in Nat /\ Len(P \o Q) = Len(P) + Len(Q)
         /\ \A i \in 1 .. Len(P) : (P \o Q)[i] = P[i]
         /\ \A i \in 1 .. Len(Q) : (P \o Q)[Len(P) + i] = Q[i]
         /\ \A i \in 1 .. Len(P \o Q) : i \in 1 .. Len(P) \/ i - Len(P) \in 1 .. Len(Q)
<1>1. PICK S, T : P \in Seq(S) /\ Q \in Seq(T)
  BY DEF IsScript
<1> DEFINE U == S \cup T
<1>2. P \in Seq(U) /\ Q \in Seq(U)
  BY <1>1
<1> HIDE DEF U
<1>3. /\ P \o Q \in Seq(U) /\ Len(P \o Q) = Len(P) + Len(Q)
      /\ \A i \in 1 .. Len(P) + Len(Q) : (P \o Q)[i] = IF i <= Len(P) THEN P[i] ELSE Q[i - Len(P)]
  BY <1>2, ConcatProperties
<1>4. Len(P) \in Nat /\ Len(Q) \in Nat
  BY <1>2
<1> HIDE <1>2
<1>5. IsScript(P \o Q)
  BY <1>3 DEF IsScript
<1>6. ASSUME NEW i \in 1 .. Len(P) PROVE (P \o Q)[i] = P[i]
  BY <1>3, <1>4
<1>7. ASSUME NEW i \in 1 .. Len(Q) PROVE (P \o Q)[Len(P) + i] = Q[i]
  <2>1. Len(P) + i \in 1 .. Len(P) + Len(Q) /\ ~ (Len(P) + i <= Len(P)) /\ Len(P) + i - Len(P) = i
    BY <1>4
  <2> QED BY <1>3, <2>1
<1> QED BY <1>3, <1>4, <1>5, <1>6, <1>7

LEMMA StepType ==
  ASSUME NEW op, NEW ch, IsChannel(ch), NEW bad
  PROVE  IsChannel(StepChannel(op, ch, bad))
<1>1. PICK S : ch \in [state : Seq(S), n_draws : Nat]
  BY DEF IsChannel
<1>2. ASSUME NEW item PROVE IsChannel(mix_digest(ch, item))
  <2> DEFINE T == S \cup {item}
  <2>1. ch.state \in Seq(T) /\ item \in T
    BY <1>1
  <2> HIDE DEF T
  <2>2. mix_digest(ch, item) \in [state : Seq(T), n_draws : Nat]
    BY <2>1 DEF mix_digest
  <2> QED BY <2>2 DEF IsChannel
<1>3. IsChannel(squeeze(ch))
  <2>1. squeeze(ch) \in [state : Seq(S), n_draws : Nat]
    BY <1>1 DEF squeeze
  <2> QED BY <2>1 DEF IsChannel
<1>4. IsChannel(new)
  <2>1. new \in [state : Seq(Nat), n_draws : Nat]
    BY DEF new
  <2> QED BY <2>1 DEF IsChannel
<1> QED BY <1>2, <1>3, <1>4 DEF StepChannel

LEMMA RunExists ==
  ASSUME NEW P, IsScript(P), NEW a, IsChannel(a), NEW bad
  PROVE  IsRun(P, a, bad, Run(P, a, bad)) /\ Len(P) \in Nat
<1> DEFINE Upto(n, f) == /\ f = [i \in 0 .. n |-> f[i]] /\ f[0] = a
                         /\ \A i \in 0 .. n : IsChannel(f[i])
                         /\ \A i \in 1 .. n : f[i] = StepChannel(P[i], f[i - 1], bad)
           Missing == {n \in 0 .. Len(P) : ~ \E f : Upto(n, f)}
<1>0. Len(P) \in Nat
  BY DEF IsScript
<1>1. Missing = {}
  <2> SUFFICES ASSUME Missing # {} PROVE FALSE
    OBVIOUS
  <2>1. PICK n \in Missing : \A m \in Missing : n <= m
    <3>1. Missing \subseteq Nat
      BY <1>0
    <3> HIDE DEF Missing
    <3> QED BY <3>1, LeastNumber
  <2>2. CASE n = 0
    <3>1. Upto(0, [i \in 0 .. 0 |-> a])
      OBVIOUS
    <3> QED BY <2>2, <3>1
  <2>3. CASE n # 0
    <3>1. n \in 1 .. Len(P) /\ n - 1 \in 0 .. Len(P) /\ n - 1 \notin Missing
      <4>1. n \in 0 .. Len(P)
        BY <2>1
      <4> HIDE DEF Missing
      <4> QED BY <1>0, <2>1, <2>3, <4>1
    <3>2. PICK f : Upto(n - 1, f)
      BY <3>1
    <3> DEFINE x == StepChannel(P[n], f[n - 1], bad)
               g == [i \in 0 .. n |-> IF i = n THEN x ELSE f[i]]
    <3>3. IsChannel(x)
      BY <1>0, <3>1, <3>2, StepType
    <3> HIDE DEF x
    <3>4. g = [i \in 0 .. n |-> g[i]] /\ g[0] = a /\ \A i \in 0 .. n : IsChannel(g[i])
      BY <1>0, <3>1, <3>2, <3>3
    <3>5. ASSUME NEW i \in 1 .. n PROVE g[i] = StepChannel(P[i], g[i - 1], bad)
      <4>1. g[i - 1] = f[i - 1]
        BY <1>0, <3>1
      <4>2. CASE i = n
        BY <1>0, <3>1, <4>1, <4>2 DEF x
      <4>3. CASE i # n
        <5>1. i \in 1 .. n - 1 /\ g[i] = f[i]
          BY <1>0, <3>1, <4>3
        <5> QED BY <3>2, <4>1, <5>1
      <4> QED BY <4>2, <4>3
    <3> HIDE DEF g
    <3>6. Upto(n, g)
      BY <3>4, <3>5
    <3> QED BY <3>6
  <2> QED BY <2>2, <2>3
<1>2. \E f : Upto(Len(P), f)
  BY <1>0, <1>1
<1>3. \E f : IsRun(P, a, bad, f)
  BY <1>2 DEF IsRun
<1> QED BY <1>0, <1>3 DEF Run

LEMMA RunUnique ==
  ASSUME NEW P, IsScript(P), NEW a, IsChannel(a), NEW bad, NEW f, IsRun(P, a, bad, f)
  PROVE  Run(P, a, bad) = f
<1> DEFINE r == Run(P, a, bad)
           Off == {n \in 0 .. Len(P) : r[n] # f[n]}
<1>1. IsRun(P, a, bad, r) /\ Len(P) \in Nat
  BY RunExists
<1> HIDE DEF r
<1>2. Off = {}
  <2> SUFFICES ASSUME Off # {} PROVE FALSE
    OBVIOUS
  <2>1. PICK n \in Off : \A m \in Off : n <= m
    <3>1. Off \subseteq Nat
      BY <1>1
    <3> HIDE DEF Off
    <3> QED BY <3>1, LeastNumber
  <2>2. n # 0 /\ n \in 0 .. Len(P) /\ r[n] # f[n]
    BY <1>1, <2>1 DEF IsRun
  <2>3. n \in 1 .. Len(P) /\ n - 1 \in 0 .. Len(P) /\ n - 1 \notin Off
    <3> HIDE DEF Off
    <3> QED BY <1>1, <2>1, <2>2
  <2>4. r[n] = StepChannel(P[n], r[n - 1], bad) /\ f[n] = StepChannel(P[n], f[n - 1], bad)
    BY <1>1, <2>3 DEF IsRun
  <2> QED BY <2>2, <2>3, <2>4
<1>3. r = [n \in 0 .. Len(P) |-> r[n]] /\ f = [n \in 0 .. Len(P) |-> f[n]]
  BY <1>1 DEF IsRun
<1>4. \A n \in 0 .. Len(P) : r[n] = f[n]
  BY <1>2
<1>5. [n \in 0 .. Len(P) |-> r[n]] = [n \in 0 .. Len(P) |-> f[n]]
  BY <1>4
<1>6. r = f
  BY <1>3, <1>5
<1> QED BY <1>6 DEF r

\* The run of a concatenation is the run of its parts, one after the other.
LEMMA RunJoins ==
  ASSUME NEW P, IsScript(P), NEW Q, IsScript(Q), NEW a, IsChannel(a), NEW bad
  PROVE  /\ \A i \in 0 .. Len(P) : Run(P \o Q, a, bad)[i] = Run(P, a, bad)[i]
         /\ \A i \in 0 .. Len(Q) :
              Run(P \o Q, a, bad)[Len(P) + i] = Run(Q, After(P, a, bad), bad)[i]
         /\ IsChannel(After(P, a, bad))
<1> DEFINE m == Len(P)
           n == Len(Q)
           f == Run(P, a, bad)
           g == Run(Q, f[m], bad)
           h == [i \in 0 .. m + n |-> IF i <= m THEN f[i] ELSE g[i - m]]
<1>1. IsRun(P, a, bad, f) /\ m \in Nat
  BY RunExists
<1>2. IsChannel(f[m])
  BY <1>1 DEF IsRun
<1>3. IsRun(Q, f[m], bad, g) /\ n \in Nat
  BY <1>2, RunExists
<1>4. /\ IsScript(P \o Q) /\ Len(P \o Q) = m + n
      /\ \A i \in 1 .. m : (P \o Q)[i] = P[i]
      /\ \A i \in 1 .. n : (P \o Q)[m + i] = Q[i]
  BY Joins
<1> HIDE DEF m, n, f, g
<1>5. /\ f[0] = a /\ \A i \in 0 .. m : IsChannel(f[i])
      /\ \A i \in 1 .. m : f[i] = StepChannel(P[i], f[i - 1], bad)
  BY <1>1 DEF IsRun, m
<1>6. /\ g[0] = f[m] /\ \A i \in 0 .. n : IsChannel(g[i])
      /\ \A i \in 1 .. n : g[i] = StepChannel(Q[i], g[i - 1], bad)
  BY <1>3 DEF IsRun, n
<1>7. \A i \in 0 .. m : h[i] = f[i]
  BY <1>1, <1>3
<1>8. ASSUME NEW i \in 0 .. n PROVE h[m + i] = g[i]
  <2>1. CASE i = 0
    BY <1>1, <1>3, <1>6, <2>1
  <2>2. CASE i # 0
    <3>1. m + i \in 0 .. m + n /\ ~ (m + i <= m) /\ m + i - m = i
      BY <1>1, <1>3, <2>2
    <3>2. h[m + i] = g[m + i - m]
      BY <1>1, <1>3, <3>1
    <3> QED BY <3>1, <3>2
  <2> QED BY <2>1, <2>2
<1>9. h = [i \in 0 .. m + n |-> h[i]]
  OBVIOUS
<1> HIDE DEF h
<1>10. ASSUME NEW i \in 0 .. m + n PROVE IsChannel(h[i])
  <2>1. CASE i <= m
    <3>1. i \in 0 .. m
      BY <1>1, <1>3, <2>1
    <3> QED BY <1>5, <1>7, <3>1
  <2>2. CASE ~ (i <= m)
    <3>1. i - m \in 0 .. n /\ m + (i - m) = i
      BY <1>1, <1>3, <2>2
    <3> QED BY <1>6, <1>8, <3>1
  <2> QED BY <2>1, <2>2
<1>11. ASSUME NEW i \in 1 .. m + n PROVE h[i] = StepChannel((P \o Q)[i], h[i - 1], bad)
  <2>1. CASE i <= m
    <3>1. i \in 1 .. m /\ i \in 0 .. m /\ i - 1 \in 0 .. m
      BY <1>1, <1>3, <2>1
    <3> QED BY <1>4, <1>5, <1>7, <3>1
  <2>2. CASE ~ (i <= m)
    <3>1. PICK j \in 1 .. n : i = m + j
      <4>1. i - m \in 1 .. n /\ i = m + (i - m)
        BY <1>1, <1>3, <2>2
      <4> QED BY <4>1
    <3>2. j \in 0 .. n /\ j - 1 \in 0 .. n /\ i - 1 = m + (j - 1)
      BY <1>1, <1>3, <3>1
    <3>3. h[i] = g[j] /\ h[i - 1] = g[j - 1]
      BY <1>8, <3>1, <3>2
    <3> QED BY <1>4, <1>6, <3>1, <3>3
  <2> QED BY <2>1, <2>2
<1>12. h[0] = a
  <2>1. 0 \in 0 .. m
    BY <1>1
  <2> QED BY <1>5, <1>7, <2>1
<1>13. IsRun(P \o Q, a, bad, h)
  BY <1>4, <1>9, <1>10, <1>11, <1>12 DEF IsRun
<1>14. Run(P \o Q, a, bad) = h
  BY <1>4, <1>13, RunUnique
<1>15. f[m] = After(P, a, bad)
  BY DEF After, f, m
<1> QED BY <1>2, <1>7, <1>8, <1>14, <1>15 DEF f, g, m, n

-----------------------------------------------------------------------------
\* What a script draws, absorbs, makes, reads and uses.

Elems(P) == {P[i] : i \in 1 .. Len(P)}
Draws(P) == {x.challenge : x \in {y \in Elems(P) : Squeezing(y)}}
Absorbs(P) == {x.field : x \in {y \in Elems(P) : y.op = "mix"}}
Makes(P) == UNION {x.fields : x \in {y \in Elems(P) : y.op = "make"}}
Reads(P) == UNION {x.fields : x \in {y \in Elems(P) : y.op = "check"}}
Gates(P) == UNION {x.fields : x \in {y \in Elems(P) : y.op \in {"loose", "present"}}}
Uses(P) == UNION {x.challenges : x \in {y \in Elems(P) : y.op = "check"}}
Restarts(P) == \E x \in Elems(P) : x.op = "restart"
Distinct(P) ==
  \A i, j \in 1 .. Len(P) :
    Squeezing(P[i]) /\ Squeezing(P[j]) /\ P[i].challenge = P[j].challenge => i = j

\* Every check of P uses challenges of A and challenges drawn before it.
Ready(P, A) ==
  \A j \in 1 .. Len(P) : P[j].op = "check" =>
    \A c \in P[j].challenges :
      c \in A \/ \E i \in 1 .. j - 1 : Squeezing(P[i]) /\ P[i].challenge = c

\* What must precede the challenges P draws is in A or mixed before.
Bound(P, s, A) ==
  \A j \in 1 .. Len(P) : Squeezing(P[j]) =>
    \A f \in MustPrecede(s, P[j].challenge) :
      f \in A \/ \E i \in 1 .. j - 1 : P[i].op = "mix" /\ P[i].field = f

\* The last draw of c is from a channel that R does not give it.
Strays(P, a, bad, R, c) ==
  \E i \in 1 .. Len(P) :
    /\ Squeezing(P[i]) /\ P[i].challenge = c /\ <<c, Run(P, a, bad)[i - 1]>> \notin R
    /\ \A k \in i + 1 .. Len(P) : ~ (Squeezing(P[k]) /\ P[k].challenge = c)

\* P checks an equation over such a challenge.
Refutes(P, a, bad, R) ==
  \E j \in 1 .. Len(P) :
    /\ P[j].op = "check"
    /\ \E c \in P[j].challenges, i \in 1 .. j - 1 :
         /\ Squeezing(P[i]) /\ P[i].challenge = c /\ <<c, Run(P, a, bad)[i - 1]>> \notin R
         /\ \A k \in i + 1 .. j - 1 : ~ (Squeezing(P[k]) /\ P[k].challenge = c)

LEMMA SetsJoin ==
  ASSUME NEW P, IsScript(P), NEW Q, IsScript(Q)
  PROVE  /\ Draws(P \o Q) = Draws(P) \cup Draws(Q)
         /\ Absorbs(P \o Q) = Absorbs(P) \cup Absorbs(Q)
         /\ Makes(P \o Q) = Makes(P) \cup Makes(Q)
         /\ Reads(P \o Q) = Reads(P) \cup Reads(Q)
         /\ Gates(P \o Q) = Gates(P) \cup Gates(Q)
         /\ Uses(P \o Q) = Uses(P) \cup Uses(Q)
         /\ Restarts(P \o Q) <=> Restarts(P) \/ Restarts(Q)
<1> DEFINE J == P \o Q
<1>1. /\ Len(P) \in Nat /\ Len(Q) \in Nat /\ Len(J) = Len(P) + Len(Q)
      /\ \A i \in 1 .. Len(P) : J[i] = P[i]
      /\ \A i \in 1 .. Len(Q) : J[Len(P) + i] = Q[i]
      /\ \A i \in 1 .. Len(J) : i \in 1 .. Len(P) \/ i - Len(P) \in 1 .. Len(Q)
  BY Joins
<1> HIDE DEF J
<1>2. \A i \in 1 .. Len(P) : i \in 1 .. Len(J) /\ J[i] = P[i]
  BY <1>1
<1>3. ASSUME NEW i \in 1 .. Len(Q) PROVE \E k \in 1 .. Len(J) : J[k] = Q[i]
  <2>1. Len(P) + i \in 1 .. Len(J)
    BY <1>1
  <2> QED BY <1>1, <2>1
<1>4. ASSUME NEW k \in 1 .. Len(J) PROVE J[k] \in Elems(P) \cup Elems(Q)
  <2>1. CASE k \in 1 .. Len(P)
    BY <1>1, <2>1 DEF Elems
  <2>2. CASE k - Len(P) \in 1 .. Len(Q)
    <3>1. Len(P) + (k - Len(P)) = k
      BY <1>1
    <3> QED BY <1>1, <2>2, <3>1 DEF Elems
  <2> QED BY <1>1, <2>1, <2>2
<1>5. Elems(J) = Elems(P) \cup Elems(Q)
  BY <1>2, <1>3, <1>4 DEF Elems
<1>6. /\ Draws(J) = Draws(P) \cup Draws(Q)
      /\ Absorbs(J) = Absorbs(P) \cup Absorbs(Q)
  BY <1>5 DEF Draws, Absorbs
<1>7. Makes(J) = Makes(P) \cup Makes(Q)
  BY <1>5 DEF Makes
<1>8. Reads(J) = Reads(P) \cup Reads(Q)
  BY <1>5 DEF Reads
<1>9. Gates(J) = Gates(P) \cup Gates(Q)
  BY <1>5 DEF Gates
<1>10. Uses(J) = Uses(P) \cup Uses(Q)
  BY <1>5 DEF Uses
<1>11. Restarts(J) <=> Restarts(P) \/ Restarts(Q)
  BY <1>5 DEF Restarts
<1> QED BY <1>6, <1>7, <1>8, <1>9, <1>10, <1>11 DEF J

LEMMA OrdersJoin ==
  ASSUME NEW P, IsScript(P), NEW Q, IsScript(Q)
  PROVE  /\ \A A : Ready(P, A) /\ Ready(Q, A \cup Draws(P)) => Ready(P \o Q, A)
         /\ \A A, s : Bound(P, s, A) /\ Bound(Q, s, A \cup Absorbs(P)) => Bound(P \o Q, s, A)
         /\ Distinct(P) /\ Distinct(Q) /\ Draws(P) \cap Draws(Q) = {} => Distinct(P \o Q)
<1> DEFINE J == P \o Q
           m == Len(P)
           n == Len(Q)
<1>1. /\ m \in Nat /\ n \in Nat /\ Len(J) = m + n
      /\ \A i \in 1 .. m : J[i] = P[i]
      /\ \A i \in 1 .. n : J[m + i] = Q[i]
      /\ \A i \in 1 .. Len(J) : i \in 1 .. m \/ i - m \in 1 .. n
  BY Joins
<1> HIDE DEF J
<1>2. \A j \in 1 .. m : \A i \in 1 .. j - 1 : i \in 1 .. m /\ i \in 1 .. j - 1
  BY <1>1
<1>3. \A c \in Draws(P) : \E i \in 1 .. m : Squeezing(J[i]) /\ J[i].challenge = c
  BY <1>1 DEF Draws, Elems
<1>4. \A f \in Absorbs(P) : \E i \in 1 .. m : J[i].op = "mix" /\ J[i].field = f
  BY <1>1 DEF Absorbs, Elems
<1>5. \A j \in 1 .. n : /\ \A i \in 1 .. m : i \in 1 .. (m + j) - 1
                        /\ \A i \in 1 .. j - 1 : i \in 1 .. n /\ m + i \in 1 .. (m + j) - 1
  BY <1>1
<1>6. \A k \in 1 .. Len(J) : k \in 1 .. m \/ \E j \in 1 .. n : k = m + j
  <2> TAKE k \in 1 .. Len(J)
  <2>1. CASE k - m \in 1 .. n
    <3>1. k = m + (k - m)
      BY <1>1
    <3> QED BY <2>1, <3>1
  <2> QED BY <1>1, <2>1
<1> HIDE DEF m, n
<1>7. ASSUME NEW A, Ready(P, A), Ready(Q, A \cup Draws(P)) PROVE Ready(J, A)
  <2>1. ASSUME NEW k \in 1 .. Len(J), J[k].op = "check", NEW c \in J[k].challenges, c \notin A
        PROVE  \E i \in 1 .. k - 1 : Squeezing(J[i]) /\ J[i].challenge = c
    <3>1. CASE k \in 1 .. m
      <4>1. P[k].op = "check" /\ c \in P[k].challenges
        BY <1>1, <2>1, <3>1
      <4>2. PICK i \in 1 .. k - 1 : Squeezing(P[i]) /\ P[i].challenge = c
        BY <1>7, <2>1, <3>1, <4>1 DEF Ready, m
      <4>3. J[i] = P[i]
        BY <1>1, <1>2, <3>1
      <4> QED BY <4>2, <4>3
    <3>2. ASSUME NEW j \in 1 .. n, k = m + j PROVE \E i \in 1 .. k - 1 : Squeezing(J[i])
                   /\ J[i].challenge = c
      <4>1. Q[j].op = "check" /\ c \in Q[j].challenges
        BY <1>1, <2>1, <3>2
      <4>2. c \in Draws(P) \/ \E i \in 1 .. j - 1 : Squeezing(Q[i]) /\ Q[i].challenge = c
        BY <1>7, <2>1, <4>1 DEF Ready, n
      <4>3. CASE c \in Draws(P)
        BY <1>3, <1>5, <3>2, <4>3
      <4>4. ASSUME NEW i \in 1 .. j - 1, Squeezing(Q[i]), Q[i].challenge = c
            PROVE  \E h \in 1 .. k - 1 : Squeezing(J[h]) /\ J[h].challenge = c
        <5>1. J[m + i] = Q[i] /\ m + i \in 1 .. k - 1
          BY <1>1, <1>5, <3>2
        <5> QED BY <4>4, <5>1
      <4> QED BY <4>2, <4>3, <4>4
    <3> QED BY <1>6, <3>1, <3>2
  <2> QED BY <2>1 DEF Ready
<1>8. ASSUME NEW A, NEW s, Bound(P, s, A), Bound(Q, s, A \cup Absorbs(P)) PROVE Bound(J, s, A)
  <2>1. ASSUME NEW k \in 1 .. Len(J), Squeezing(J[k]), NEW f \in MustPrecede(s, J[k].challenge),
               f \notin A
        PROVE  \E i \in 1 .. k - 1 : J[i].op = "mix" /\ J[i].field = f
    <3>1. CASE k \in 1 .. m
      <4>1. Squeezing(P[k]) /\ f \in MustPrecede(s, P[k].challenge)
        BY <1>1, <2>1, <3>1
      <4>2. PICK i \in 1 .. k - 1 : P[i].op = "mix" /\ P[i].field = f
        BY <1>8, <2>1, <3>1, <4>1 DEF Bound, m
      <4>3. J[i] = P[i]
        BY <1>1, <1>2, <3>1
      <4> QED BY <4>2, <4>3
    <3>2. ASSUME NEW j \in 1 .. n, k = m + j PROVE \E i \in 1 .. k - 1 : J[i].op = "mix"
                   /\ J[i].field = f
      <4>1. Squeezing(Q[j]) /\ f \in MustPrecede(s, Q[j].challenge)
        BY <1>1, <2>1, <3>2
      <4>2. f \in Absorbs(P) \/ \E i \in 1 .. j - 1 : Q[i].op = "mix" /\ Q[i].field = f
        BY <1>8, <2>1, <4>1 DEF Bound, n
      <4>3. CASE f \in Absorbs(P)
        BY <1>4, <1>5, <3>2, <4>3
      <4>4. ASSUME NEW i \in 1 .. j - 1, Q[i].op = "mix", Q[i].field = f
            PROVE  \E h \in 1 .. k - 1 : J[h].op = "mix" /\ J[h].field = f
        <5>1. J[m + i] = Q[i] /\ m + i \in 1 .. k - 1
          BY <1>1, <1>5, <3>2
        <5> QED BY <4>4, <5>1
      <4> QED BY <4>2, <4>3, <4>4
    <3> QED BY <1>6, <3>1, <3>2
  <2> QED BY <2>1 DEF Bound
<1>9. ASSUME Distinct(P), Distinct(Q), Draws(P) \cap Draws(Q) = {} PROVE Distinct(J)
  <2>1. \A i \in 1 .. m : Squeezing(J[i]) => J[i].challenge \in Draws(P)
    BY <1>1 DEF Draws, Elems, m
  <2>2. \A i \in 1 .. n : Squeezing(J[m + i]) => J[m + i].challenge \in Draws(Q)
    BY <1>1 DEF Draws, Elems, n
  <2>3. \A i, j \in 1 .. m : Squeezing(J[i]) /\ Squeezing(J[j])
          /\ J[i].challenge = J[j].challenge => i = j
    BY <1>1, <1>9 DEF Distinct, m
  <2>4. \A i, j \in 1 .. n : Squeezing(J[m + i]) /\ Squeezing(J[m + j])
                              /\ J[m + i].challenge = J[m + j].challenge => i = j
    BY <1>1, <1>9 DEF Distinct, n
  <2> QED BY <1>6, <1>9, <2>1, <2>2, <2>3, <2>4 DEF Distinct
<1> QED BY <1>7, <1>8, <1>9 DEF J

LEMMA EffectsJoin ==
  ASSUME NEW P, IsScript(P), NEW Q, IsScript(Q), NEW a, IsChannel(a), NEW bad
  PROVE  /\ IsChannel(After(P, a, bad))
         /\ After(P \o Q, a, bad) = After(Q, After(P, a, bad), bad)
         /\ \A R : Says(P \o Q, a, bad, R) <=> Says(P, a, bad, R) /\ Says(Q, After(P, a, bad), bad, R)
<1> DEFINE J == P \o Q
           m == Len(P)
           n == Len(Q)
           r == Run(J, a, bad)
           f == Run(P, a, bad)
           g == Run(Q, After(P, a, bad), bad)
<1>1. /\ m \in Nat /\ n \in Nat /\ Len(J) = m + n
      /\ \A i \in 1 .. m : J[i] = P[i]
      /\ \A i \in 1 .. n : J[m + i] = Q[i]
      /\ \A i \in 1 .. Len(J) : i \in 1 .. m \/ i - m \in 1 .. n
  BY Joins
<1>2. /\ \A i \in 0 .. m : r[i] = f[i]
      /\ \A i \in 0 .. n : r[m + i] = g[i]
      /\ IsChannel(After(P, a, bad))
  BY RunJoins
<1> HIDE DEF J, r, f, g
<1>3. After(J, a, bad) = After(Q, After(P, a, bad), bad)
  <2>1. r[m + n] = g[n]
    BY <1>1, <1>2
  <2> QED BY <1>1, <2>1 DEF After, r, g
<1> HIDE DEF m, n
<1>4. \A i \in 1 .. m : i \in 1 .. Len(J) /\ J[i] = P[i] /\ r[i - 1] = f[i - 1]
  <2> TAKE i \in 1 .. m
  <2>1. i - 1 \in 0 .. m /\ i \in 1 .. m + n
    BY <1>1
  <2> QED BY <1>1, <1>2, <2>1
<1>5. \A i \in 1 .. n : m + i \in 1 .. Len(J) /\ J[m + i] = Q[i] /\ r[(m + i) - 1] = g[i - 1]
  <2> TAKE i \in 1 .. n
  <2>1. i - 1 \in 0 .. n /\ m + i \in 1 .. m + n /\ (m + i) - 1 = m + (i - 1)
    BY <1>1
  <2> QED BY <1>1, <1>2, <2>1
<1>6. \A k \in 1 .. Len(J) : k \in 1 .. m \/ \E j \in 1 .. n : k = m + j
  <2> TAKE k \in 1 .. Len(J)
  <2>1. CASE k - m \in 1 .. n
    <3>1. k = m + (k - m)
      BY <1>1
    <3> QED BY <2>1, <3>1
  <2> QED BY <1>1, <2>1
<1>7. ASSUME NEW R
      PROVE  Says(J, a, bad, R) <=> Says(P, a, bad, R) /\ Says(Q, After(P, a, bad), bad, R)
  <2> DEFINE At(k) == Squeezing(J[k]) => <<J[k].challenge, r[k - 1]>> \in R
  <2>1. Says(J, a, bad, R) <=> \A k \in 1 .. Len(J) : At(k)
    BY DEF Says, r
  <2>2. Says(P, a, bad, R) <=> \A k \in 1 .. m : At(k)
    BY <1>4 DEF Says, f, m
  <2>3. Says(Q, After(P, a, bad), bad, R) <=> \A k \in 1 .. n : At(m + k)
    BY <1>5 DEF Says, g, n
  <2> HIDE DEF At
  <2> QED BY <1>4, <1>5, <1>6, <2>1, <2>2, <2>3
<1> QED BY <1>2, <1>3, <1>7 DEF J

LEMMA StraysJoin ==
  ASSUME NEW P, IsScript(P), NEW Q, IsScript(Q), NEW a, IsChannel(a), NEW bad, NEW R
  PROVE  /\ \A c : Strays(P, a, bad, R, c) /\ c \notin Draws(Q) => Strays(P \o Q, a, bad, R, c)
         /\ \A c : Strays(Q, After(P, a, bad), bad, R, c) => Strays(P \o Q, a, bad, R, c)
         /\ Refutes(P, a, bad, R) => Refutes(P \o Q, a, bad, R)
         /\ Refutes(Q, After(P, a, bad), bad, R) => Refutes(P \o Q, a, bad, R)
<1> DEFINE J == P \o Q
           m == Len(P)
           n == Len(Q)
           r == Run(J, a, bad)
           f == Run(P, a, bad)
           g == Run(Q, After(P, a, bad), bad)
           Draw_(T, c) == Squeezing(T) /\ T.challenge = c
<1>1. /\ m \in Nat /\ n \in Nat /\ Len(J) = m + n
      /\ \A i \in 1 .. m : J[i] = P[i]
      /\ \A i \in 1 .. n : J[m + i] = Q[i]
      /\ \A i \in 1 .. Len(J) : i \in 1 .. m \/ i - m \in 1 .. n
  BY Joins
<1>2. /\ \A i \in 0 .. m : r[i] = f[i]
      /\ \A i \in 0 .. n : r[m + i] = g[i]
  BY RunJoins
<1> HIDE DEF J, r, f, g, m, n
<1>4. \A i \in 1 .. m : i \in 1 .. Len(J) /\ J[i] = P[i] /\ r[i - 1] = f[i - 1]
  <2> TAKE i \in 1 .. m
  <2>1. i - 1 \in 0 .. m /\ i \in 1 .. m + n
    BY <1>1
  <2> QED BY <1>1, <1>2, <2>1
<1>5. \A i \in 1 .. n : m + i \in 1 .. Len(J) /\ J[m + i] = Q[i] /\ r[(m + i) - 1] = g[i - 1]
  <2> TAKE i \in 1 .. n
  <2>1. i - 1 \in 0 .. n /\ m + i \in 1 .. m + n /\ (m + i) - 1 = m + (i - 1)
    BY <1>1
  <2> QED BY <1>1, <1>2, <2>1
<1>6. \A k \in 1 .. Len(J) : k \in 1 .. m \/ \E j \in 1 .. n : k = m + j
  <2> TAKE k \in 1 .. Len(J)
  <2>1. CASE k - m \in 1 .. n
    <3>1. k = m + (k - m)
      BY <1>1
    <3> QED BY <2>1, <3>1
  <2> QED BY <1>1, <2>1
<1>7. \A c : c \notin Draws(Q) => \A i \in 1 .. n : ~ Draw_(Q[i], c)
  BY DEF Draws, Elems, n
<1>8. ASSUME NEW c, Strays(P, a, bad, R, c), c \notin Draws(Q) PROVE Strays(J, a, bad, R, c)
  <2>1. PICK i \in 1 .. m : /\ Draw_(P[i], c) /\ <<c, f[i - 1]>> \notin R
                            /\ \A k \in i + 1 .. m : ~ Draw_(P[k], c)
    BY <1>8 DEF Strays, f, m
  <2>2. ASSUME NEW k \in i + 1 .. Len(J) PROVE ~ Draw_(J[k], c)
    <3>1. CASE k \in 1 .. m
      <4>1. k \in i + 1 .. m
        BY <3>1
      <4> QED BY <1>4, <2>1, <3>1, <4>1
    <3>2. ASSUME NEW j \in 1 .. n, k = m + j PROVE ~ Draw_(J[k], c)
      BY <1>5, <1>7, <1>8, <3>2
    <3>3. k \in 1 .. Len(J)
      BY <1>1, <2>1
    <3> QED BY <1>6, <3>1, <3>2, <3>3
  <2>3. i \in 1 .. Len(J) /\ Draw_(J[i], c) /\ <<c, r[i - 1]>> \notin R
    BY <1>4, <2>1
  <2> QED BY <2>2, <2>3 DEF Strays, r
<1>9. ASSUME NEW c, Strays(Q, After(P, a, bad), bad, R, c) PROVE Strays(J, a, bad, R, c)
  <2>1. PICK i \in 1 .. n : /\ Draw_(Q[i], c) /\ <<c, g[i - 1]>> \notin R
                            /\ \A k \in i + 1 .. n : ~ Draw_(Q[k], c)
    BY <1>9 DEF Strays, g, n
  <2>2. ASSUME NEW k \in m + i + 1 .. Len(J) PROVE ~ Draw_(J[k], c)
    <3>1. k - m \in i + 1 .. n /\ k - m \in 1 .. n /\ m + (k - m) = k
      BY <1>1
    <3> QED BY <1>5, <2>1, <3>1
  <2>3. m + i \in 1 .. Len(J) /\ Draw_(J[m + i], c) /\ <<c, r[(m + i) - 1]>> \notin R
    BY <1>5, <2>1
  <2> QED BY <2>2, <2>3 DEF Strays, r
<1>10. ASSUME Refutes(P, a, bad, R) PROVE Refutes(J, a, bad, R)
  <2>1. PICK j \in 1 .. m : P[j].op = "check" /\ \E c \in P[j].challenges, i \in 1 .. j - 1 :
                 /\ Draw_(P[i], c) /\ <<c, f[i - 1]>> \notin R
                 /\ \A k \in i + 1 .. j - 1 : ~ Draw_(P[k], c)
    BY <1>10 DEF Refutes, f, m
  <2>2. PICK c \in P[j].challenges, i \in 1 .. j - 1 :
                 /\ Draw_(P[i], c) /\ <<c, f[i - 1]>> \notin R
                 /\ \A k \in i + 1 .. j - 1 : ~ Draw_(P[k], c)
    BY <2>1
  <2>3. i \in 1 .. m /\ \A k \in i + 1 .. j - 1 : k \in 1 .. m
    BY <1>1
  <2>4. j \in 1 .. Len(J) /\ J[j].op = "check" /\ c \in J[j].challenges
    BY <1>4, <2>1
  <2>5. /\ Draw_(J[i], c) /\ <<c, r[i - 1]>> \notin R
        /\ \A k \in i + 1 .. j - 1 : ~ Draw_(J[k], c)
    BY <1>4, <2>2, <2>3
  <2> QED BY <2>4, <2>5 DEF Refutes, r
<1>11. ASSUME Refutes(Q, After(P, a, bad), bad, R) PROVE Refutes(J, a, bad, R)
  <2>1. PICK j \in 1 .. n : Q[j].op = "check" /\ \E c \in Q[j].challenges, i \in 1 .. j - 1 :
                 /\ Draw_(Q[i], c) /\ <<c, g[i - 1]>> \notin R
                 /\ \A k \in i + 1 .. j - 1 : ~ Draw_(Q[k], c)
    BY <1>11 DEF Refutes, g, n
  <2>2. PICK c \in Q[j].challenges, i \in 1 .. j - 1 :
                 /\ Draw_(Q[i], c) /\ <<c, g[i - 1]>> \notin R
                 /\ \A k \in i + 1 .. j - 1 : ~ Draw_(Q[k], c)
    BY <2>1
  <2>3. i \in 1 .. n /\ m + i \in 1 .. (m + j) - 1
    BY <1>1
  <2>4. m + j \in 1 .. Len(J) /\ J[m + j].op = "check" /\ c \in J[m + j].challenges
    BY <1>5, <2>1
  <2>5. Draw_(J[m + i], c) /\ <<c, r[(m + i) - 1]>> \notin R
    BY <1>5, <2>2, <2>3
  <2>6. ASSUME NEW k \in (m + i) + 1 .. (m + j) - 1 PROVE ~ Draw_(J[k], c)
    <3>1. k - m \in i + 1 .. j - 1 /\ k - m \in 1 .. n /\ m + (k - m) = k
      BY <1>1
    <3> QED BY <1>5, <2>2, <3>1
  <2> QED BY <2>3, <2>4, <2>5, <2>6 DEF Refutes, r
<1> QED BY <1>8, <1>9, <1>10, <1>11 DEF J

-----------------------------------------------------------------------------
\* Scripts of one step, and of none.

LEMMA OneStep ==
  ASSUME NEW op
  PROVE  /\ IsScript(<<op>>) /\ Elems(<<op>>) = {op} /\ Distinct(<<op>>)
         /\ \A A : (op.op = "check" => op.challenges \subseteq A) => Ready(<<op>>, A)
         /\ \A A, s : (Squeezing(op) => MustPrecede(s, op.challenge) \subseteq A) => Bound(<<op>>, s, A)
<1>1. <<op>> \in Seq({op}) /\ Len(<<op>>) = 1 /\ <<op>>[1] = op /\ 1 .. 1 = {1}
  OBVIOUS
<1> DEFINE P == <<op>>
<1>2. IsScript(P) /\ Len(P) = 1 /\ P[1] = op
  BY <1>1 DEF IsScript
<1> HIDE DEF P
<1>3. Elems(P) = {op}
  BY <1>1, <1>2 DEF Elems
<1>4. Distinct(P)
  BY <1>2 DEF Distinct
<1>5. ASSUME NEW A, op.op = "check" => op.challenges \subseteq A PROVE Ready(P, A)
  BY <1>1, <1>2, <1>5 DEF Ready
<1>6. ASSUME NEW A, NEW s, Squeezing(op) => MustPrecede(s, op.challenge) \subseteq A
      PROVE Bound(P, s, A)
  BY <1>1, <1>2, <1>6 DEF Bound
<1> QED BY <1>2, <1>3, <1>4, <1>5, <1>6 DEF P

LEMMA OneEffect ==
  ASSUME NEW op, NEW a, IsChannel(a), NEW bad
  PROVE  /\ After(<<op>>, a, bad) = StepChannel(op, a, bad)
         /\ \A R : Says(<<op>>, a, bad, R) <=> (Squeezing(op) => <<op.challenge, a>> \in R)
         /\ \A R : Squeezing(op) /\ <<op.challenge, a>> \notin R => Strays(<<op>>, a, bad, R,
                                                                           op.challenge)
<1>1. Len(<<op>>) = 1 /\ <<op>>[1] = op /\ 1 .. 1 = {1}
  OBVIOUS
<1> DEFINE P == <<op>>
           r == Run(P, a, bad)
<1>2. IsScript(P)
  BY OneStep
<1>3. IsRun(P, a, bad, r) /\ Len(P) = 1 /\ P[1] = op
  BY <1>1, <1>2, RunExists
<1> HIDE DEF P, r
<1>4. r[0] = a /\ r[1] = StepChannel(op, a, bad)
  BY <1>3 DEF IsRun
<1>5. After(P, a, bad) = StepChannel(op, a, bad)
  BY <1>3, <1>4 DEF After, r
<1>6. \A R : Says(P, a, bad, R) <=> (Squeezing(op) => <<op.challenge, a>> \in R)
  <2>1. 1 - 1 = 0
    OBVIOUS
  <2> QED BY <1>1, <1>3, <1>4, <2>1 DEF Says, r
<1>7. \A R : Squeezing(op) /\ <<op.challenge, a>> \notin R => Strays(P, a, bad, R, op.challenge)
  <2>1. 1 - 1 = 0 /\ \A k \in 1 + 1 .. 1 : FALSE
    OBVIOUS
  <2> QED BY <1>1, <1>3, <1>4, <2>1 DEF Strays, r
<1> QED BY <1>5, <1>6, <1>7 DEF P

LEMMA MakeLaws ==
  ASSUME NEW fields, NEW uses
  PROVE  /\ IsScript(make(fields, uses)) /\ ~ Restarts(make(fields, uses))
         /\ Makes(make(fields, uses)) = fields /\ Reads(make(fields, uses)) = {}
         /\ Draws(make(fields, uses)) = {} /\ Absorbs(make(fields, uses)) = {}
         /\ Gates(make(fields, uses)) = {} /\ Uses(make(fields, uses)) = {}
         /\ Distinct(make(fields, uses)) /\ \A A, s : Bound(make(fields, uses), s, A)
         /\ \A A : Ready(make(fields, uses), A)
         /\ \A a, bad : IsChannel(a) => After(make(fields, uses), a, bad) = a
         /\ \A a, bad, R : IsChannel(a) => Says(make(fields, uses), a, bad, R)
<1> DEFINE op == [op |-> "make", fields |-> fields, uses |-> uses]
<1>1. make(fields, uses) = <<op>> /\ op.op = "make" /\ op.fields = fields
  BY DEF make
<1> HIDE DEF op
<1>2. \A a, bad : StepChannel(op, a, bad) = a
  BY <1>1 DEF StepChannel
<1>3. ~ Squeezing(op)
  BY <1>1 DEF Squeezing
<1>4. Elems(<<op>>) = {op}
  BY OneStep
<1>5. /\ ~ Restarts(<<op>>) /\ Makes(<<op>>) = fields /\ Reads(<<op>>) = {} /\ Draws(<<op>>) = {}
      /\ Absorbs(<<op>>) = {} /\ Gates(<<op>>) = {} /\ Uses(<<op>>) = {}
  BY <1>1, <1>3, <1>4 DEF Restarts, Makes, Reads, Draws, Absorbs, Gates, Uses
<1>6. /\ IsScript(<<op>>) /\ Distinct(<<op>>) /\ \A A : Ready(<<op>>, A)
      /\ \A A, s : Bound(<<op>>, s, A)
  BY <1>1, <1>3, OneStep
<1>7. ASSUME NEW a, NEW bad, IsChannel(a)
      PROVE  /\ After(<<op>>, a, bad) = a
             /\ \A R : Says(<<op>>, a, bad, R)
  <2>1. After(<<op>>, a, bad) = StepChannel(op, a, bad)
    BY <1>7, OneEffect
  <2>2. \A R : Says(<<op>>, a, bad, R) <=> (Squeezing(op) => <<op.challenge, a>> \in R)
    BY <1>7, OneEffect
  <2> QED BY <1>1, <1>2, <1>3, <2>1, <2>2
<1> QED BY <1>1, <1>5, <1>6, <1>7

LEMMA MixLaws ==
  ASSUME NEW f
  PROVE  /\ IsScript(mix(f)) /\ ~ Restarts(mix(f))
         /\ Absorbs(mix(f)) = {f} /\ Reads(mix(f)) = {}
         /\ Draws(mix(f)) = {} /\ Makes(mix(f)) = {}
         /\ Gates(mix(f)) = {} /\ Uses(mix(f)) = {}
         /\ Distinct(mix(f)) /\ \A A, s : Bound(mix(f), s, A)
         /\ \A A : Ready(mix(f), A)
         /\ \A a, bad : IsChannel(a) =>
              After(mix(f), a, bad) = mix_digest(a, IF f = bad THEN "damaged" ELSE f)
         /\ \A a, bad, R : IsChannel(a) => Says(mix(f), a, bad, R)
<1> DEFINE op == [op |-> "mix", field |-> f]
<1>1. mix(f) = <<op>> /\ op.op = "mix" /\ op.field = f
  BY DEF mix
<1> HIDE DEF op
<1>2. \A a, bad : StepChannel(op, a, bad) = mix_digest(a, IF f = bad THEN "damaged" ELSE f)
  BY <1>1 DEF StepChannel
<1>3. ~ Squeezing(op)
  BY <1>1 DEF Squeezing
<1>4. Elems(<<op>>) = {op}
  BY OneStep
<1>5. /\ ~ Restarts(<<op>>) /\ Makes(<<op>>) = {} /\ Reads(<<op>>) = {} /\ Draws(<<op>>) = {}
      /\ Absorbs(<<op>>) = {f} /\ Gates(<<op>>) = {} /\ Uses(<<op>>) = {}
  BY <1>1, <1>3, <1>4 DEF Restarts, Makes, Reads, Draws, Absorbs, Gates, Uses
<1>6. /\ IsScript(<<op>>) /\ Distinct(<<op>>) /\ \A A : Ready(<<op>>, A)
      /\ \A A, s : Bound(<<op>>, s, A)
  BY <1>1, <1>3, OneStep
<1>7. ASSUME NEW a, NEW bad, IsChannel(a)
      PROVE  /\ After(<<op>>, a, bad) = mix_digest(a, IF f = bad THEN "damaged" ELSE f)
             /\ \A R : Says(<<op>>, a, bad, R)
  <2>1. After(<<op>>, a, bad) = StepChannel(op, a, bad)
    BY <1>7, OneEffect
  <2>2. \A R : Says(<<op>>, a, bad, R) <=> (Squeezing(op) => <<op.challenge, a>> \in R)
    BY <1>7, OneEffect
  <2> QED BY <1>1, <1>2, <1>3, <2>1, <2>2
<1> QED BY <1>1, <1>5, <1>6, <1>7

LEMMA DrawLaws ==
  ASSUME NEW c
  PROVE  /\ IsScript(draw(c)) /\ ~ Restarts(draw(c))
         /\ Draws(draw(c)) = {c} /\ Reads(draw(c)) = {}
         /\ Absorbs(draw(c)) = {} /\ Makes(draw(c)) = {}
         /\ Gates(draw(c)) = {} /\ Uses(draw(c)) = {}
         /\ Distinct(draw(c)) /\ \A A, s : MustPrecede(s, c) \subseteq A => Bound(draw(c), s, A)
         /\ \A A : Ready(draw(c), A)
         /\ \A a, bad : IsChannel(a) => After(draw(c), a, bad) = squeeze(a)
         /\ \A a, bad, R : IsChannel(a) => (Says(draw(c), a, bad, R) <=> <<c, a>> \in R)
         /\ \A a, bad, R : IsChannel(a) /\ <<c, a>> \notin R => Strays(draw(c), a, bad, R, c)
<1> DEFINE op == [op |-> "draw", challenge |-> c]
<1>1. draw(c) = <<op>> /\ op.op = "draw" /\ op.challenge = c
  BY DEF draw
<1> HIDE DEF op
<1>2. \A a, bad : StepChannel(op, a, bad) = squeeze(a)
  BY <1>1 DEF StepChannel
<1>3. Squeezing(op)
  BY <1>1 DEF Squeezing
<1>4. Elems(<<op>>) = {op}
  BY OneStep
<1>5. /\ ~ Restarts(<<op>>) /\ Makes(<<op>>) = {} /\ Reads(<<op>>) = {} /\ Draws(<<op>>) = {c}
      /\ Absorbs(<<op>>) = {} /\ Gates(<<op>>) = {} /\ Uses(<<op>>) = {}
  BY <1>1, <1>3, <1>4 DEF Restarts, Makes, Reads, Draws, Absorbs, Gates, Uses
<1>6. /\ IsScript(<<op>>) /\ Distinct(<<op>>) /\ \A A : Ready(<<op>>, A)
      /\ \A A, s : MustPrecede(s, c) \subseteq A => Bound(<<op>>, s, A)
  BY <1>1, <1>3, OneStep
<1>7. ASSUME NEW a, NEW bad, IsChannel(a)
      PROVE  /\ After(<<op>>, a, bad) = squeeze(a)
             /\ \A R : (Says(<<op>>, a, bad, R) <=> <<c, a>> \in R)
             /\ \A R : <<c, a>> \notin R => Strays(<<op>>, a, bad, R, c)
  <2>1. After(<<op>>, a, bad) = StepChannel(op, a, bad)
    BY <1>7, OneEffect
  <2>2. \A R : Says(<<op>>, a, bad, R) <=> (Squeezing(op) => <<op.challenge, a>> \in R)
    BY <1>7, OneEffect
  <2>3. \A R : <<c, a>> \notin R => Strays(<<op>>, a, bad, R, c)
    BY <1>1, <1>3, <1>7, OneEffect
  <2> QED BY <1>1, <1>2, <1>3, <2>1, <2>2, <2>3
<1> QED BY <1>1, <1>5, <1>6, <1>7

LEMMA PeekLaws ==
  ASSUME NEW c
  PROVE  /\ IsScript(peek(c)) /\ ~ Restarts(peek(c))
         /\ Draws(peek(c)) = {c} /\ Reads(peek(c)) = {}
         /\ Absorbs(peek(c)) = {} /\ Makes(peek(c)) = {}
         /\ Gates(peek(c)) = {} /\ Uses(peek(c)) = {}
         /\ Distinct(peek(c)) /\ \A A, s : MustPrecede(s, c) \subseteq A => Bound(peek(c), s, A)
         /\ \A A : Ready(peek(c), A)
         /\ \A a, bad : IsChannel(a) => After(peek(c), a, bad) = a
         /\ \A a, bad, R : IsChannel(a) => (Says(peek(c), a, bad, R) <=> <<c, a>> \in R)
<1> DEFINE op == [op |-> "peek", challenge |-> c]
<1>1. peek(c) = <<op>> /\ op.op = "peek" /\ op.challenge = c
  BY DEF peek
<1> HIDE DEF op
<1>2. \A a, bad : StepChannel(op, a, bad) = a
  BY <1>1 DEF StepChannel
<1>3. Squeezing(op)
  BY <1>1 DEF Squeezing
<1>4. Elems(<<op>>) = {op}
  BY OneStep
<1>5. /\ ~ Restarts(<<op>>) /\ Makes(<<op>>) = {} /\ Reads(<<op>>) = {} /\ Draws(<<op>>) = {c}
      /\ Absorbs(<<op>>) = {} /\ Gates(<<op>>) = {} /\ Uses(<<op>>) = {}
  BY <1>1, <1>3, <1>4 DEF Restarts, Makes, Reads, Draws, Absorbs, Gates, Uses
<1>6. /\ IsScript(<<op>>) /\ Distinct(<<op>>) /\ \A A : Ready(<<op>>, A)
      /\ \A A, s : MustPrecede(s, c) \subseteq A => Bound(<<op>>, s, A)
  BY <1>1, <1>3, OneStep
<1>7. ASSUME NEW a, NEW bad, IsChannel(a)
      PROVE  /\ After(<<op>>, a, bad) = a
             /\ \A R : (Says(<<op>>, a, bad, R) <=> <<c, a>> \in R)
  <2>1. After(<<op>>, a, bad) = StepChannel(op, a, bad)
    BY <1>7, OneEffect
  <2>2. \A R : Says(<<op>>, a, bad, R) <=> (Squeezing(op) => <<op.challenge, a>> \in R)
    BY <1>7, OneEffect
  <2> QED BY <1>1, <1>2, <1>3, <2>1, <2>2
<1>8. \A a, bad, R : IsChannel(a) => (Says(<<op>>, a, bad, R) <=> <<c, a>> \in R)
  BY <1>7
<1>9. \A a, bad : IsChannel(a) => After(<<op>>, a, bad) = a
  BY <1>7
<1> HIDE <1>7
<1> QED BY <1>1, <1>5, <1>6, <1>8, <1>9

LEMMA CheckLaws ==
  ASSUME NEW fields, NEW challenges
  PROVE  /\ IsScript(check(fields, challenges)) /\ ~ Restarts(check(fields, challenges))
         /\ Reads(check(fields, challenges)) = fields /\ Uses(check(fields, challenges)) = challenges
         /\ Draws(check(fields, challenges)) = {} /\ Absorbs(check(fields, challenges)) = {}
         /\ Makes(check(fields, challenges)) = {} /\ Gates(check(fields, challenges)) = {}
         /\ Distinct(check(fields, challenges)) /\ \A A, s : Bound(check(fields, challenges), s, A)
         /\ \A A : challenges \subseteq A => Ready(check(fields, challenges), A)
         /\ \A a, bad : IsChannel(a) => After(check(fields, challenges), a, bad) = a
         /\ \A a, bad, R : IsChannel(a) => Says(check(fields, challenges), a, bad, R)
<1> DEFINE op == [op |-> "check", fields |-> fields, challenges |-> challenges]
<1>1. check(fields, challenges) = <<op>> /\ op.op = "check" /\ op.fields = fields
        /\ op.challenges = challenges
  BY DEF check
<1> HIDE DEF op
<1>2. \A a, bad : StepChannel(op, a, bad) = a
  BY <1>1 DEF StepChannel
<1>3. ~ Squeezing(op)
  BY <1>1 DEF Squeezing
<1>4. Elems(<<op>>) = {op}
  BY OneStep
<1>5. /\ ~ Restarts(<<op>>) /\ Makes(<<op>>) = {} /\ Reads(<<op>>) = fields /\ Draws(<<op>>) = {}
      /\ Absorbs(<<op>>) = {} /\ Gates(<<op>>) = {} /\ Uses(<<op>>) = challenges
  BY <1>1, <1>3, <1>4 DEF Restarts, Makes, Reads, Draws, Absorbs, Gates, Uses
<1>6. /\ IsScript(<<op>>) /\ Distinct(<<op>>) /\ \A A : challenges \subseteq A => Ready(<<op>>, A)
      /\ \A A, s : Bound(<<op>>, s, A)
  BY <1>1, <1>3, OneStep
<1>7. ASSUME NEW a, NEW bad, IsChannel(a)
      PROVE  /\ After(<<op>>, a, bad) = a
             /\ \A R : Says(<<op>>, a, bad, R)
  <2>1. After(<<op>>, a, bad) = StepChannel(op, a, bad)
    BY <1>7, OneEffect
  <2>2. \A R : Says(<<op>>, a, bad, R) <=> (Squeezing(op) => <<op.challenge, a>> \in R)
    BY <1>7, OneEffect
  <2> QED BY <1>1, <1>2, <1>3, <2>1, <2>2
<1> QED BY <1>1, <1>5, <1>6, <1>7

LEMMA GateLaws ==
  ASSUME NEW fields, NEW P, P = loose(fields) \/ P = present(fields)
  PROVE  /\ IsScript(P) /\ ~ Restarts(P) /\ Gates(P) = fields /\ Reads(P) = {} /\ Uses(P) = {}
         /\ Draws(P) = {} /\ Absorbs(P) = {} /\ Makes(P) = {}
         /\ Distinct(P) /\ (\A A, s : Bound(P, s, A)) /\ \A A : Ready(P, A)
         /\ \A a, bad : IsChannel(a) => After(P, a, bad) = a
         /\ \A a, bad, R : IsChannel(a) => Says(P, a, bad, R)
<1>1. PICK op : P = <<op>> /\ op.op \in {"loose", "present"} /\ op.fields = fields
  BY DEF loose, present
<1>2. \A a, bad : StepChannel(op, a, bad) = a
  BY <1>1 DEF StepChannel
<1>3. ~ Squeezing(op)
  BY <1>1 DEF Squeezing
<1>4. Elems(<<op>>) = {op}
  BY OneStep
<1>5. /\ ~ Restarts(<<op>>) /\ Makes(<<op>>) = {} /\ Reads(<<op>>) = {} /\ Draws(<<op>>) = {}
      /\ Absorbs(<<op>>) = {} /\ Gates(<<op>>) = fields /\ Uses(<<op>>) = {}
  BY <1>1, <1>3, <1>4 DEF Restarts, Makes, Reads, Draws, Absorbs, Gates, Uses
<1>6. /\ IsScript(<<op>>) /\ Distinct(<<op>>) /\ \A A : Ready(<<op>>, A)
      /\ \A A, s : Bound(<<op>>, s, A)
  BY <1>1, <1>3, OneStep
<1>7. ASSUME NEW a, NEW bad, IsChannel(a)
      PROVE  /\ After(<<op>>, a, bad) = a
             /\ \A R : Says(<<op>>, a, bad, R)
  <2>1. After(<<op>>, a, bad) = StepChannel(op, a, bad)
    BY <1>7, OneEffect
  <2>2. \A R : Says(<<op>>, a, bad, R) <=> (Squeezing(op) => <<op.challenge, a>> \in R)
    BY <1>7, OneEffect
  <2> QED BY <1>1, <1>2, <1>3, <2>1, <2>2
<1> QED BY <1>1, <1>5, <1>6, <1>7

LEMMA RestartLaws ==
  /\ IsScript(restart) /\ Reads(restart) = {} /\ Uses(restart) = {} /\ Draws(restart) = {}
  /\ Absorbs(restart) = {} /\ Makes(restart) = {} /\ Gates(restart) = {}
  /\ \A A : Ready(restart, A)
  /\ \A a, bad : IsChannel(a) => After(restart, a, bad) = new
  /\ \A a, bad, R : IsChannel(a) => Says(restart, a, bad, R)
<1> DEFINE op == [op |-> "restart"]
<1>1. restart = <<op>> /\ op.op = "restart"
  BY DEF restart
<1> HIDE DEF op
<1>2. \A a, bad : StepChannel(op, a, bad) = new
  BY <1>1 DEF StepChannel
<1>3. ~ Squeezing(op)
  BY <1>1 DEF Squeezing
<1>4. Elems(<<op>>) = {op}
  BY OneStep
<1>5. /\ Makes(<<op>>) = {} /\ Reads(<<op>>) = {} /\ Draws(<<op>>) = {}
      /\ Absorbs(<<op>>) = {} /\ Gates(<<op>>) = {} /\ Uses(<<op>>) = {}
  BY <1>1, <1>3, <1>4 DEF Makes, Reads, Draws, Absorbs, Gates, Uses
<1>6. /\ IsScript(<<op>>) /\ \A A : Ready(<<op>>, A)
  BY <1>1, <1>3, OneStep
<1>7. ASSUME NEW a, NEW bad, IsChannel(a)
      PROVE  /\ After(<<op>>, a, bad) = new
             /\ \A R : Says(<<op>>, a, bad, R)
  <2>1. After(<<op>>, a, bad) = StepChannel(op, a, bad)
    BY <1>7, OneEffect
  <2>2. \A R : Says(<<op>>, a, bad, R) <=> (Squeezing(op) => <<op.challenge, a>> \in R)
    BY <1>7, OneEffect
  <2> QED BY <1>1, <1>2, <1>3, <2>1, <2>2
<1> QED BY <1>1, <1>5, <1>6, <1>7

LEMMA SkipLaws ==
  /\ IsScript(<<>>) /\ ~ Restarts(<<>>) /\ Reads(<<>>) = {} /\ Uses(<<>>) = {} /\ Draws(<<>>) = {}
  /\ Absorbs(<<>>) = {} /\ Makes(<<>>) = {} /\ Gates(<<>>) = {} /\ Distinct(<<>>)
  /\ (\A A : Ready(<<>>, A)) /\ \A A, s : Bound(<<>>, s, A)
  /\ \A a, bad : IsChannel(a) => After(<<>>, a, bad) = a
  /\ \A a, bad, R : IsChannel(a) => Says(<<>>, a, bad, R)
<1> DEFINE P == <<>>
<1>1. P \in Seq({}) /\ Len(P) = 0 /\ 1 .. 0 = {}
  OBVIOUS
<1> HIDE DEF P
<1>2. IsScript(P) /\ Elems(P) = {}
  BY <1>1 DEF IsScript, Elems
<1>3. /\ ~ Restarts(P) /\ Reads(P) = {} /\ Uses(P) = {} /\ Draws(P) = {}
      /\ Absorbs(P) = {} /\ Makes(P) = {} /\ Gates(P) = {}
  BY <1>2 DEF Restarts, Makes, Reads, Draws, Absorbs, Gates, Uses
<1>4. Distinct(P) /\ (\A A : Ready(P, A)) /\ \A A, s : Bound(P, s, A)
  BY <1>1 DEF Distinct, Ready, Bound
<1>5. ASSUME NEW a, NEW bad, IsChannel(a) PROVE After(P, a, bad) = a /\ \A R : Says(P, a, bad, R)
  <2>1. IsRun(P, a, bad, Run(P, a, bad))
    BY <1>2, <1>5, RunExists
  <2> QED BY <1>1, <2>1 DEF IsRun, After, Says
<1> QED BY <1>2, <1>3, <1>4, <1>5 DEF P

LEMMA CommitLaws ==
  ASSUME NEW f, NEW uses
  PROVE  /\ IsScript(commit(f, uses)) /\ ~ Restarts(commit(f, uses))
         /\ Absorbs(commit(f, uses)) = {f} /\ Reads(commit(f, uses)) = {}
         /\ Draws(commit(f, uses)) = {} /\ Makes(commit(f, uses)) = {f}
         /\ Distinct(commit(f, uses)) /\ \A A, s : Bound(commit(f, uses), s, A)
         /\ \A a, bad : IsChannel(a) =>
              After(commit(f, uses), a, bad) = mix_digest(a, IF f = bad THEN "damaged" ELSE f)
         /\ \A a, bad, R : IsChannel(a) => Says(commit(f, uses), a, bad, R)
<1> DEFINE P == make({f}, uses)
           Q == mix(f)
<1>1. commit(f, uses) = P \o Q
  BY DEF commit
<1>2. IsScript(P) /\ IsScript(Q)
  BY MakeLaws, MixLaws
<1>3. /\ IsScript(P \o Q) /\ ~ Restarts(P \o Q) /\ Absorbs(P \o Q) = {f} /\ Reads(P \o Q) = {}
      /\ Draws(P \o Q) = {} /\ Makes(P \o Q) = {f}
  <2>1. /\ ~ Restarts(P) /\ Absorbs(P) = {} /\ Reads(P) = {} /\ Draws(P) = {} /\ Makes(P) = {f}
    BY MakeLaws
  <2>2. /\ ~ Restarts(Q) /\ Absorbs(Q) = {f} /\ Reads(Q) = {} /\ Draws(Q) = {} /\ Makes(Q) = {}
    BY MixLaws
  <2> HIDE DEF P, Q
  <2> QED BY <1>2, <2>1, <2>2, Joins, SetsJoin
<1>4. Distinct(P \o Q) /\ \A A, s : Bound(P \o Q, s, A)
  BY <1>2, MakeLaws, MixLaws, OrdersJoin
<1>5. ASSUME NEW a, NEW bad, IsChannel(a)
      PROVE  /\ After(P \o Q, a, bad) = mix_digest(a, IF f = bad THEN "damaged" ELSE f)
             /\ \A R : Says(P \o Q, a, bad, R)
  BY <1>2, <1>5, MakeLaws, MixLaws, EffectsJoin
<1> QED BY <1>1, <1>3, <1>4, <1>5

-----------------------------------------------------------------------------
\* What a channel has absorbed.

Absorbed(ch) == {ch.state[i] : i \in DOMAIN ch.state}

LEMMA AbsorbedLaws ==
  /\ IsChannel(new) /\ Absorbed(new) = {}
  /\ \A ch, x : IsChannel(ch) =>
       /\ IsChannel(mix_digest(ch, x)) /\ Absorbed(mix_digest(ch, x)) = Absorbed(ch) \cup {x}
       /\ IsChannel(squeeze(ch)) /\ Absorbed(squeeze(ch)) = Absorbed(ch)
<1>1. IsChannel(new) /\ Absorbed(new) = {}
  <2>1. new \in [state : Seq({}), n_draws : Nat]
    BY DEF new
  <2> QED BY <2>1 DEF IsChannel, Absorbed, new
<1>2. ASSUME NEW ch, NEW x, IsChannel(ch)
      PROVE  /\ IsChannel(mix_digest(ch, x)) /\ Absorbed(mix_digest(ch, x)) = Absorbed(ch) \cup {x}
             /\ IsChannel(squeeze(ch)) /\ Absorbed(squeeze(ch)) = Absorbed(ch)
  <2>1. PICK S : ch \in [state : Seq(S), n_draws : Nat]
    BY <1>2 DEF IsChannel
  <2> DEFINE T == S \cup {x}
             q == ch.state
  <2>2. q \in Seq(T) /\ x \in T
    BY <2>1
  <2> HIDE DEF T
  <2>3. /\ Append(q, x) \in Seq(T) /\ DOMAIN q = 1 .. Len(q) /\ Len(q) \in Nat
        /\ DOMAIN Append(q, x) = 1 .. Len(q) + 1
        /\ \A i \in 1 .. Len(q) : Append(q, x)[i] = q[i]
        /\ Append(q, x)[Len(q) + 1] = x
    BY <2>2
  <2>4. mix_digest(ch, x).state = Append(q, x) /\ mix_digest(ch, x) \in [state : Seq(T), n_draws : Nat]
    BY <2>3 DEF mix_digest
  <2>5. IsChannel(mix_digest(ch, x))
    BY <2>4 DEF IsChannel
  <2>6. \A i \in 1 .. Len(q) + 1 : i \in 1 .. Len(q) \/ i = Len(q) + 1
    BY <2>3
  <2>7. Len(q) + 1 \in 1 .. Len(q) + 1 /\ \A i \in 1 .. Len(q) : i \in 1 .. Len(q) + 1
    BY <2>3
  <2>8. Absorbed(mix_digest(ch, x)) = Absorbed(ch) \cup {x}
    BY <2>3, <2>4, <2>6, <2>7 DEF Absorbed
  <2>9. squeeze(ch) \in [state : Seq(S), n_draws : Nat] /\ squeeze(ch).state = ch.state
    BY <2>1 DEF squeeze
  <2>10. IsChannel(squeeze(ch)) /\ Absorbed(squeeze(ch)) = Absorbed(ch)
    BY <2>9 DEF IsChannel, Absorbed
  <2> QED BY <2>5, <2>8, <2>10
<1> QED BY <1>1, <1>2

\* What a mix absorbs, and what the first n steps do.
Item(op, bad) == IF op.field = bad THEN "damaged" ELSE op.field
Mixed(P, bad, n) == {Item(P[j], bad) : j \in {i \in 1 .. n : P[i].op = "mix"}}

\* Step by step, a script that does not restart adds what it mixes.
LEMMA RunAbsorbs ==
  ASSUME NEW P, IsScript(P), ~ Restarts(P), NEW a, IsChannel(a), NEW bad, NEW n \in 0 .. Len(P)
  PROVE  Absorbed(Run(P, a, bad)[n]) = Absorbed(a) \cup Mixed(P, bad, n)
<1> DEFINE r == Run(P, a, bad)
           In(m) == Mixed(P, bad, m)
           Off == {m \in 0 .. Len(P) : Absorbed(r[m]) # Absorbed(a) \cup In(m)}
<1>1. IsRun(P, a, bad, r) /\ Len(P) \in Nat
  BY RunExists
<1> HIDE DEF r
<1>2. SUFFICES ASSUME Off # {} PROVE FALSE
  BY DEF r
<1>3. PICK m \in Off : \A l \in Off : m <= l
  <2>1. Off \subseteq Nat
    BY <1>1
  <2> HIDE DEF Off
  <2> QED BY <1>2, <2>1, LeastNumber
<1>4. m \in 0 .. Len(P) /\ Absorbed(r[m]) # Absorbed(a) \cup In(m)
  BY <1>3
<1>5. m # 0
  <2>1. In(0) = {}
    BY DEF Mixed
  <2> HIDE DEF In
  <2> QED BY <1>1, <1>4, <2>1 DEF IsRun
<1>6. m \in 1 .. Len(P) /\ m - 1 \in 0 .. Len(P) /\ m - 1 \notin Off
  <2> HIDE DEF Off
  <2> QED BY <1>1, <1>3, <1>4, <1>5
<1>7. Absorbed(r[m - 1]) = Absorbed(a) \cup In(m - 1)
  BY <1>6
<1>8. r[m] = StepChannel(P[m], r[m - 1], bad) /\ IsChannel(r[m - 1])
  BY <1>1, <1>6 DEF IsRun
<1>9. 1 .. m = (1 .. m - 1) \cup {m}
  BY <1>1, <1>6
<1>10. In(m) = In(m - 1) \cup (IF P[m].op = "mix" THEN {Item(P[m], bad)} ELSE {})
  BY <1>9 DEF Mixed
<1>11. P[m].op # "restart"
  BY <1>6 DEF Restarts, Elems
<1>12. Absorbed(r[m]) = Absorbed(r[m - 1]) \cup (IF P[m].op = "mix" THEN {Item(P[m], bad)} ELSE {})
  <2>1. CASE P[m].op = "mix"
    <3>1. r[m] = mix_digest(r[m - 1], Item(P[m], bad))
      BY <1>8, <2>1 DEF StepChannel, Item
    <3> QED BY <1>8, <2>1, <3>1, AbsorbedLaws
  <2>2. CASE P[m].op # "mix"
    <3>1. r[m] = squeeze(r[m - 1]) \/ r[m] = r[m - 1]
      BY <1>8, <1>11, <2>2 DEF StepChannel
    <3> QED BY <1>8, <2>2, <3>1, AbsorbedLaws
  <2> QED BY <2>1, <2>2
<1> HIDE DEF In, Off
<1> QED BY <1>4, <1>7, <1>10, <1>12

LEMMA AfterAbsorbs ==
  ASSUME NEW P, IsScript(P), ~ Restarts(P), NEW a, IsChannel(a), NEW bad
  PROVE  /\ bad \in Absorbs(P) \/ "damaged" \in Absorbed(a) => "damaged" \in Absorbed(After(P, a, bad))
         /\ Absorbed(After(P, a, bad)) \subseteq Absorbed(a) \cup Absorbs(P) \cup {"damaged"}
         /\ bad \notin Absorbs(P) => Absorbed(After(P, a, bad)) = Absorbed(a) \cup Absorbs(P)
<1>1. Len(P) \in Nat
  BY DEF IsScript
<1> DEFINE In == Mixed(P, bad, Len(P))
<1>2. Absorbed(After(P, a, bad)) = Absorbed(a) \cup In
  BY <1>1, RunAbsorbs DEF After
<1>3. Absorbs(P) = {P[j].field : j \in {i \in 1 .. Len(P) : P[i].op = "mix"}}
  BY DEF Absorbs, Elems
<1>4. (bad \in Absorbs(P) => "damaged" \in In) /\ In \subseteq Absorbs(P) \cup {"damaged"}
  BY <1>3 DEF Item, Mixed
<1>5. bad \notin Absorbs(P) => In = Absorbs(P)
  BY <1>3 DEF Item, Mixed
<1> HIDE DEF In
<1> QED BY <1>2, <1>4, <1>5

\* The challenges of a prover with the channels they are drawn from.
States(P) ==
  {<<P[i].challenge, Run(P, new, "none")[i - 1]>> : i \in {j \in 1 .. Len(P) : Squeezing(P[j])}}

\* A prover that draws each challenge once, after what must precede it.
Orderly(P, s) ==
  /\ IsScript(P) /\ ~ Restarts(P) /\ Distinct(P) /\ Bound(P, s, {})
  /\ {"none", "damaged"} \cap Absorbs(P) = {}

LEMMA StatesLaws ==
  ASSUME NEW P, NEW s, Orderly(P, s)
  PROVE  /\ Says(P, new, "none", States(P))
         /\ \A c : c \in Draws(P) <=> \E ch : <<c, ch>> \in States(P)
         /\ \A c, x, y : <<c, x>> \in States(P) /\ <<c, y>> \in States(P) => x = y
         /\ \A c, ch : <<c, ch>> \in States(P) =>
              MustPrecede(s, c) \subseteq Absorbed(ch) /\ "damaged" \notin Absorbed(ch)
<1> DEFINE r == Run(P, new, "none")
<1>1. /\ IsScript(P) /\ ~ Restarts(P) /\ Distinct(P) /\ Bound(P, s, {})
      /\ {"none", "damaged"} \cap Absorbs(P) = {}
  BY DEF Orderly
<1>2. IsChannel(new) /\ Absorbed(new) = {} /\ Len(P) \in Nat
  BY <1>1, AbsorbedLaws, RunExists
<1>3. ASSUME NEW p \in States(P)
      PROVE  \E i \in 1 .. Len(P) : Squeezing(P[i]) /\ p = <<P[i].challenge, r[i - 1]>>
  BY DEF States
<1>4. \A i \in 1 .. Len(P) : Squeezing(P[i]) => <<P[i].challenge, r[i - 1]>> \in States(P)
  BY DEF States
<1>5. Says(P, new, "none", States(P))
  BY <1>4 DEF Says
<1>6. ASSUME NEW c, NEW ch, <<c, ch>> \in States(P)
      PROVE  \E i \in 1 .. Len(P) : Squeezing(P[i]) /\ c = P[i].challenge /\ ch = r[i - 1]
  <2> HIDE DEF r
  <2> QED BY <1>3, <1>6
<1>7. \A c : c \in Draws(P) <=> \E ch : <<c, ch>> \in States(P)
  <2> HIDE DEF r
  <2>1. \A c : c \in Draws(P) <=> \E i \in 1 .. Len(P) : Squeezing(P[i]) /\ c = P[i].challenge
    BY DEF Draws, Elems
  <2>2. ASSUME NEW c, c \in Draws(P) PROVE \E ch : <<c, ch>> \in States(P)
    <3>1. PICK i \in 1 .. Len(P) : Squeezing(P[i]) /\ c = P[i].challenge
      BY <2>1, <2>2
    <3>2. <<c, r[i - 1]>> \in States(P)
      BY <1>4, <3>1
    <3> QED BY <3>2
  <2>3. ASSUME NEW c, NEW ch, <<c, ch>> \in States(P) PROVE c \in Draws(P)
    BY <1>6, <2>1, <2>3
  <2> QED BY <2>2, <2>3
<1>8. \A c, x, y : <<c, x>> \in States(P) /\ <<c, y>> \in States(P) => x = y
  <2> HIDE DEF r
  <2>1. ASSUME NEW c, NEW x, NEW y, <<c, x>> \in States(P), <<c, y>> \in States(P) PROVE x = y
    <3>1. PICK i \in 1 .. Len(P) : Squeezing(P[i]) /\ c = P[i].challenge /\ x = r[i - 1]
      BY <1>6, <2>1
    <3>2. PICK j \in 1 .. Len(P) : Squeezing(P[j]) /\ c = P[j].challenge /\ y = r[j - 1]
      BY <1>6, <2>1
    <3>3. i = j
      BY <1>1, <3>1, <3>2 DEF Distinct
    <3> QED BY <3>1, <3>2, <3>3
  <2> QED BY <2>1
<1>9. ASSUME NEW c, NEW ch, <<c, ch>> \in States(P)
      PROVE  MustPrecede(s, c) \subseteq Absorbed(ch) /\ "damaged" \notin Absorbed(ch)
  <2>1. PICK i \in 1 .. Len(P) : Squeezing(P[i]) /\ c = P[i].challenge /\ ch = r[i - 1]
    BY <1>6, <1>9
  <2>2. i - 1 \in 0 .. Len(P)
    BY <1>2
  <2> DEFINE In == Mixed(P, "none", i - 1)
  <2>3. Absorbed(ch) = In
    <3>1. Absorbed(r[i - 1]) = Absorbed(new) \cup In
      <4> PICK n \in 0 .. Len(P) : n = i - 1
        BY <2>2
      <4>1. IsScript(P) /\ ~ Restarts(P) /\ IsChannel(new) /\ n \in 0 .. Len(P)
        BY <1>1, <1>2
      <4>2. Absorbed(Run(P, new, "none")[n]) = Absorbed(new) \cup Mixed(P, "none", n)
        BY ONLY <4>1, RunAbsorbs
      <4> QED BY <4>2
    <3> HIDE DEF In, r
    <3> QED BY <1>2, <2>1, <3>1
  <2>4. \A j \in 1 .. i - 1 : P[j].op = "mix" => P[j].field \in Absorbs(P)
          /\ Item(P[j], "none") = P[j].field
    <3> TAKE j \in 1 .. i - 1
    <3>1. j \in 1 .. Len(P)
      BY <1>2
    <3>2. P[j].op = "mix" => P[j].field \in Absorbs(P)
      BY <3>1 DEF Absorbs, Elems
    <3> QED BY <1>1, <3>2 DEF Item
  <2>5. "damaged" \notin In
    BY <1>1, <2>4 DEF Mixed
  <2>6. \A f \in MustPrecede(s, c) : \E j \in 1 .. i - 1 : P[j].op = "mix" /\ P[j].field = f
    BY <1>1, <2>1 DEF Bound
  <2>7. MustPrecede(s, c) \subseteq In
    BY <2>4, <2>6 DEF Mixed
  <2> HIDE DEF In
  <2> QED BY <2>3, <2>5, <2>7
<1> QED BY <1>5, <1>7, <1>8, <1>9

-----------------------------------------------------------------------------
\* A verifier's script that draws what a prover's script draws, from the same
\* channels, and ends with the same channel.

Alike(P, V) ==
  /\ IsScript(P) /\ IsScript(V)
  /\ \A a : IsChannel(a) =>
       /\ After(V, a, "none") = After(P, a, "none")
       /\ \A R : Says(P, a, "none", R) => Says(V, a, "none", R)

LEMMA AlikeJoin ==
  ASSUME NEW P, NEW Q, NEW V, NEW W, Alike(P, V), Alike(Q, W)
  PROVE  Alike(P \o Q, V \o W)
<1>1. IsScript(P) /\ IsScript(Q) /\ IsScript(V) /\ IsScript(W)
  BY DEF Alike
<1>2. IsScript(P \o Q) /\ IsScript(V \o W)
  BY <1>1, Joins
<1>3. ASSUME NEW a, IsChannel(a)
      PROVE  /\ After(V \o W, a, "none") = After(P \o Q, a, "none")
             /\ \A R : Says(P \o Q, a, "none", R) => Says(V \o W, a, "none", R)
  <2> DEFINE b == After(P, a, "none")
  <2>1. IsChannel(b) /\ After(V, a, "none") = b
    BY <1>1, <1>3, EffectsJoin DEF Alike
  <2>2. After(P \o Q, a, "none") = After(Q, b, "none") /\ After(V \o W, a, "none") = After(W, b, "none")
    BY <1>1, <1>3, <2>1, EffectsJoin
  <2>3. \A R : Says(P \o Q, a, "none", R) <=> Says(P, a, "none", R) /\ Says(Q, b, "none", R)
    BY <1>1, <1>3, EffectsJoin
  <2>4. \A R : Says(V \o W, a, "none", R) <=> Says(V, a, "none", R) /\ Says(W, b, "none", R)
    BY <1>1, <1>3, <2>1, EffectsJoin
  <2> HIDE DEF b
  <2> QED BY <1>3, <2>1, <2>2, <2>3, <2>4 DEF Alike
<1> QED BY <1>2, <1>3 DEF Alike

\* A script that neither absorbs nor draws.
Silent(P) ==
  /\ IsScript(P)
  /\ \A a, bad : IsChannel(a) => After(P, a, bad) = a /\ \A R : Says(P, a, bad, R)

LEMMA SilentLaws ==
  /\ Silent(<<>>)
  /\ \A fields, x : Silent(make(fields, x)) /\ Silent(check(fields, x))
  /\ \A fields : Silent(loose(fields)) /\ Silent(present(fields))
  /\ \A P, Q : Silent(P) /\ Silent(Q) => Silent(P \o Q)
  /\ \A P, V, Q : Alike(P, V) /\ Silent(Q) => Alike(P, V \o Q) /\ Alike(P, Q \o V)
                                              /\ Alike(P \o Q, V) /\ Alike(Q \o P, V)
<1>1. Silent(<<>>)
  BY SkipLaws DEF Silent
<1>2. \A fields, x : Silent(make(fields, x))
  BY MakeLaws DEF Silent
<1>3. \A fields, x : Silent(check(fields, x))
  BY CheckLaws DEF Silent
<1>4. \A fields : Silent(loose(fields)) /\ Silent(present(fields))
  BY GateLaws DEF Silent
<1>5. ASSUME NEW P, NEW Q, Silent(P), Silent(Q) PROVE Silent(P \o Q)
  <2>1. IsScript(P) /\ IsScript(Q) /\ IsScript(P \o Q)
    BY <1>5, Joins DEF Silent
  <2> QED BY <1>5, <2>1, EffectsJoin DEF Silent
<1>6. ASSUME NEW P, NEW V, NEW Q, Alike(P, V), Silent(Q)
      PROVE  Alike(P, V \o Q) /\ Alike(P, Q \o V) /\ Alike(P \o Q, V) /\ Alike(Q \o P, V)
  <2>1. IsScript(P) /\ IsScript(V) /\ IsScript(Q)
    BY <1>6 DEF Alike, Silent
  <2>2. IsScript(V \o Q) /\ IsScript(Q \o V) /\ IsScript(P \o Q) /\ IsScript(Q \o P)
    BY <2>1, Joins
  <2>3. ASSUME NEW X, IsScript(X), NEW a, IsChannel(a)
        PROVE  /\ After(X \o Q, a, "none") = After(X, a, "none")
               /\ After(Q \o X, a, "none") = After(X, a, "none")
               /\ \A R : Says(X \o Q, a, "none", R) <=> Says(X, a, "none", R)
               /\ \A R : Says(Q \o X, a, "none", R) <=> Says(X, a, "none", R)
    <3>1. IsChannel(After(X, a, "none"))
      BY <2>1, <2>3, EffectsJoin
    <3>2. After(Q, a, "none") = a /\ \A R : Says(Q, a, "none", R)
      BY <1>6, <2>3 DEF Silent
    <3>3. After(Q, After(X, a, "none"), "none") = After(X, a, "none")
          /\ \A R : Says(Q, After(X, a, "none"), "none", R)
      BY <1>6, <3>1 DEF Silent
    <3>4. /\ After(X \o Q, a, "none") = After(X, a, "none")
          /\ \A R : Says(X \o Q, a, "none", R) <=> Says(X, a, "none", R)
      BY <2>1, <2>3, <3>3, EffectsJoin
    <3>5. /\ After(Q \o X, a, "none") = After(X, a, "none")
          /\ \A R : Says(Q \o X, a, "none", R) <=> Says(X, a, "none", R)
      BY <2>1, <2>3, <3>2, EffectsJoin
    <3> QED BY <3>4, <3>5
  <2> QED BY <1>6, <2>1, <2>2, <2>3 DEF Alike
<1> QED BY <1>1, <1>2, <1>3, <1>4, <1>5, <1>6

LEMMA AlikeSteps ==
  /\ Alike(<<>>, <<>>)
  /\ \A f : Alike(mix(f), mix(f)) /\ \A uses : Alike(commit(f, uses), mix(f))
  /\ \A c : Alike(draw(c), draw(c)) /\ Alike(peek(c), peek(c))
<1>1. \A P : IsScript(P) => Alike(P, P)
  BY DEF Alike
<1>2. \A f, uses : Alike(commit(f, uses), mix(f))
  BY CommitLaws, MixLaws DEF Alike
<1>3. IsScript(<<>>) /\ \A c : IsScript(mix(c)) /\ IsScript(draw(c)) /\ IsScript(peek(c))
  BY SkipLaws, MixLaws, DrawLaws, PeekLaws
<1> QED BY <1>1, <1>2, <1>3

-----------------------------------------------------------------------------
\* Rounds.

LEMMA RoundsSteps ==
  ASSUME NEW n \in Nat, NEW each
  PROVE  rounds(0, each) = <<>> /\ rounds(n + 1, each) = rounds(n, each) \o each[n + 1]
<1> DEFINE Upto(m, f) == f = [i \in 0 .. m |-> IF i = 0 THEN <<>> ELSE f[i - 1] \o each[i]]
           the(m) == CHOOSE f : Upto(m, f)
           Missing == {m \in Nat : ~ \E f : Upto(m, f)}
<1>1. Missing = {}
  <2> SUFFICES ASSUME Missing # {} PROVE FALSE
    OBVIOUS
  <2>1. PICK m \in Missing : \A l \in Missing : m <= l
    <3>1. Missing \subseteq Nat
      OBVIOUS
    <3> HIDE DEF Missing
    <3> QED BY <3>1, LeastNumber
  <2>2. m \in Nat /\ ~ \E f : Upto(m, f)
    BY <2>1
  <2>3. CASE m = 0
    <3>1. Upto(0, [i \in 0 .. 0 |-> <<>>])
      OBVIOUS
    <3> QED BY <2>2, <2>3, <3>1
  <2>4. CASE m # 0
    <3>1. m - 1 \in Nat /\ m - 1 \notin Missing
      <4> HIDE DEF Missing
      <4> QED BY <2>1, <2>2, <2>4
    <3>2. PICK f : Upto(m - 1, f)
      BY <3>1
    <3> DEFINE g == [i \in 0 .. m |-> IF i = m THEN f[m - 1] \o each[m] ELSE f[i]]
    <3>3. ASSUME NEW i \in 0 .. m PROVE g[i] = IF i = 0 THEN <<>> ELSE g[i - 1] \o each[i]
      <4>1. CASE i = m
        <5>1. i # 0 /\ i - 1 \in 0 .. m /\ i - 1 # m
          BY <2>2, <2>4, <4>1
        <5> QED BY <4>1, <5>1
      <4>2. CASE i # m
        <5>1. i \in 0 .. m - 1 /\ g[i] = f[i] /\ (i # 0 => i - 1 \in 0 .. m /\ i - 1 # m)
          BY <2>2, <4>2
        <5>2. f[i] = IF i = 0 THEN <<>> ELSE f[i - 1] \o each[i]
          BY <3>2, <5>1
        <5> QED BY <5>1, <5>2
      <4> QED BY <4>1, <4>2
    <3>4. Upto(m, g)
      BY <3>3
    <3> QED BY <2>2, <3>4
  <2> QED BY <2>3, <2>4
<1>2. ASSUME NEW m \in Nat PROVE Upto(m, the(m)) /\ rounds(m, each) = the(m)[m]
  <2>1. Upto(m, the(m))
    BY <1>1
  <2>2. rounds(m, each) = the(m)[m]
    BY DEF rounds
  <2> QED BY <2>1, <2>2
<1> HIDE DEF the
<1>3. ASSUME NEW m \in Nat
      PROVE  \A i \in 0 .. m : the(m)[i] = IF i = 0 THEN <<>> ELSE the(m)[i - 1] \o each[i]
  <2>1. Upto(m, the(m))
    BY <1>2
  <2> QED BY <2>1
<1>4. rounds(0, each) = <<>>
  <2>1. the(0)[0] = <<>>
    BY <1>3
  <2> QED BY <1>2, <2>1
<1> DEFINE Off == {i \in 0 .. n : the(n)[i] # the(n + 1)[i]}
<1>5. Off = {}
  <2> SUFFICES ASSUME Off # {} PROVE FALSE
    OBVIOUS
  <2>1. PICK m \in Off : \A l \in Off : m <= l
    <3>1. Off \subseteq Nat
      OBVIOUS
    <3> HIDE DEF Off
    <3> QED BY <3>1, LeastNumber
  <2>2. m \in 0 .. n /\ the(n)[m] # the(n + 1)[m]
    BY <2>1
  <2>3. m # 0
    <3>1. the(n)[0] = <<>> /\ the(n + 1)[0] = <<>>
      BY <1>3
    <3> QED BY <2>2, <3>1
  <2>4. m - 1 \in 0 .. n /\ m - 1 \notin Off
    <3> HIDE DEF Off
    <3> QED BY <2>1, <2>2, <2>3
  <2>5. the(n)[m] = the(n)[m - 1] \o each[m] /\ the(n + 1)[m] = the(n + 1)[m - 1] \o each[m]
    <3>1. n + 1 \in Nat /\ m \in 0 .. n + 1
      BY <2>2
    <3> QED BY <1>3, <2>2, <2>3, <3>1
  <2> QED BY <2>2, <2>4, <2>5
<1>6. rounds(n + 1, each) = rounds(n, each) \o each[n + 1]
  <2>1. n + 1 \in Nat /\ n + 1 \in 0 .. n + 1 /\ n + 1 # 0 /\ n + 1 - 1 = n /\ n \in 0 .. n
    OBVIOUS
  <2>2. the(n + 1)[n + 1] = the(n + 1)[n] \o each[n + 1]
    <3> PICK k : k = n + 1 /\ k - 1 = n
      BY <2>1
    <3>1. the(k)[k] = the(k)[k - 1] \o each[k]
      BY <1>3, <2>1
    <3> QED BY <3>1
  <2>3. the(n + 1)[n] = the(n)[n]
    BY <1>5, <2>1
  <2> QED BY <1>2, <2>1, <2>2, <2>3
<1> QED BY <1>4, <1>6

\* What holds of 0 and is passed on by each number below n holds up to n.
LEMMA Induction ==
  ASSUME NEW n \in Nat, NEW Good, 0 \in Good, \A i \in 0 .. n - 1 : i \in Good => i + 1 \in Good
  PROVE  \A i \in 0 .. n : i \in Good
<1> DEFINE Bad == {i \in 0 .. n : i \notin Good}
<1> SUFFICES ASSUME Bad # {} PROVE FALSE
  OBVIOUS
<1>1. PICK m \in Bad : \A l \in Bad : m <= l
  <2>1. Bad \subseteq Nat
    OBVIOUS
  <2> HIDE DEF Bad
  <2> QED BY <2>1, LeastNumber
<1>2. m \in 0 .. n /\ m \notin Good /\ m # 0
  BY <1>1
<1>3. m - 1 \in 0 .. n - 1 /\ m - 1 \in 0 .. n /\ m - 1 \notin Bad /\ (m - 1) + 1 = m
  <2> HIDE DEF Bad
  <2> QED BY <1>1, <1>2
<1> QED BY <1>2, <1>3

LEMMA RoundsSets ==
  ASSUME NEW n \in Nat, NEW each, \A i \in 1 .. n : IsScript(each[i]) /\ ~ Restarts(each[i])
  PROVE  LET P == rounds(n, each)
         IN  /\ IsScript(P) /\ ~ Restarts(P)
             /\ Draws(P) = UNION {Draws(each[i]) : i \in 1 .. n}
             /\ Absorbs(P) = UNION {Absorbs(each[i]) : i \in 1 .. n}
             /\ Makes(P) = UNION {Makes(each[i]) : i \in 1 .. n}
             /\ Reads(P) = UNION {Reads(each[i]) : i \in 1 .. n}
             /\ Gates(P) = UNION {Gates(each[i]) : i \in 1 .. n}
             /\ Uses(P) = UNION {Uses(each[i]) : i \in 1 .. n}
<1> DEFINE D(k) == UNION {Draws(each[i]) : i \in 1 .. k}
           A(k) == UNION {Absorbs(each[i]) : i \in 1 .. k}
           M(k) == UNION {Makes(each[i]) : i \in 1 .. k}
           R(k) == UNION {Reads(each[i]) : i \in 1 .. k}
           G(k) == UNION {Gates(each[i]) : i \in 1 .. k}
           U(k) == UNION {Uses(each[i]) : i \in 1 .. k}
           Prop(m) ==
             LET P == rounds(m, each)
             IN  /\ IsScript(P) /\ ~ Restarts(P) /\ Draws(P) = D(m) /\ Absorbs(P) = A(m)
                 /\ Makes(P) = M(m) /\ Reads(P) = R(m) /\ Gates(P) = G(m) /\ Uses(P) = U(m)
<1>1. Prop(0)
  <2>1. rounds(0, each) = <<>>
    BY RoundsSteps
  <2>2. 1 .. 0 = {}
    OBVIOUS
  <2> QED BY <2>1, <2>2, SkipLaws
<1>2. ASSUME NEW m \in 0 .. n - 1, Prop(m) PROVE Prop(m + 1)
  <2> DEFINE P == rounds(m, each)
             Q == each[m + 1]
  <2>1. rounds(m + 1, each) = P \o Q
    BY RoundsSteps
  <2>2. m + 1 \in 1 .. n /\ 1 .. m + 1 = (1 .. m) \cup {m + 1}
    OBVIOUS
  <2>3. IsScript(Q) /\ ~ Restarts(Q)
    BY <2>2
  <2>4. \A i : i \in 1 .. m + 1 <=> i \in 1 .. m \/ i = m + 1
    BY <2>2
  <2>5. D(m + 1) = D(m) \cup Draws(Q) /\ A(m + 1) = A(m) \cup Absorbs(Q)
    BY <2>4
  <2>6. M(m + 1) = M(m) \cup Makes(Q) /\ R(m + 1) = R(m) \cup Reads(Q)
    BY <2>4
  <2>7. G(m + 1) = G(m) \cup Gates(Q) /\ U(m + 1) = U(m) \cup Uses(Q)
    BY <2>4
  <2> HIDE DEF P, Q, D, A, M, R, G, U
  <2>8. /\ IsScript(P) /\ ~ Restarts(P) /\ Draws(P) = D(m) /\ Absorbs(P) = A(m)
        /\ Makes(P) = M(m) /\ Reads(P) = R(m) /\ Gates(P) = G(m) /\ Uses(P) = U(m)
    BY <1>2 DEF P
  <2>9. /\ IsScript(P \o Q) /\ ~ Restarts(P \o Q)
        /\ Draws(P \o Q) = Draws(P) \cup Draws(Q) /\ Absorbs(P \o Q) = Absorbs(P) \cup Absorbs(Q)
        /\ Makes(P \o Q) = Makes(P) \cup Makes(Q) /\ Reads(P \o Q) = Reads(P) \cup Reads(Q)
        /\ Gates(P \o Q) = Gates(P) \cup Gates(Q) /\ Uses(P \o Q) = Uses(P) \cup Uses(Q)
    BY <2>3, <2>8, Joins, SetsJoin
  <2> QED BY <2>1, <2>5, <2>6, <2>7, <2>8, <2>9
<1> DEFINE Good == {i \in Nat : Prop(i)}
<1> HIDE DEF Prop
<1>3. 0 \in Good
  BY <1>1
<1>4. \A i \in 0 .. n - 1 : i \in Good => i + 1 \in Good
  BY <1>2
<1>5. \A i \in 0 .. n : i \in Good
  <2> HIDE DEF Good
  <2> QED BY <1>3, <1>4, Induction
<1>6. Prop(n)
  BY <1>5
<1> QED BY <1>6 DEF Prop

LEMMA RoundsOrders ==
  ASSUME NEW n \in Nat, NEW each, NEW s,
         \A i \in 1 .. n :
           /\ IsScript(each[i]) /\ ~ Restarts(each[i])
           /\ \A A : Bound(each[i], s, A)
           /\ Distinct(each[i]) /\ \A j \in 1 .. i - 1 : Draws(each[i]) \cap Draws(each[j]) = {}
  PROVE  (\A A : Bound(rounds(n, each), s, A)) /\ Distinct(rounds(n, each))
<1> DEFINE Prop(m) == (\A A : Bound(rounds(m, each), s, A)) /\ Distinct(rounds(m, each))
<1>1. Prop(0)
  <2>1. rounds(0, each) = <<>>
    BY RoundsSteps
  <2> QED BY <2>1, SkipLaws
<1>2. ASSUME NEW m \in 0 .. n - 1, Prop(m) PROVE Prop(m + 1)
  <2> DEFINE P == rounds(m, each)
             Q == each[m + 1]
  <2>1. rounds(m + 1, each) = P \o Q
    BY RoundsSteps
  <2>2. m \in Nat /\ m + 1 \in 1 .. n /\ (m + 1) - 1 = m /\ \A i \in 1 .. m : i \in 1 .. n
    OBVIOUS
  <2>3. IsScript(Q) /\ Distinct(Q) /\ \A A : Bound(Q, s, A)
    BY <2>2
  <2>4. IsScript(P) /\ Draws(P) = UNION {Draws(each[i]) : i \in 1 .. m}
    BY <2>2, RoundsSets
  <2>5. Draws(P) \cap Draws(Q) = {}
    <3>1. \A j \in 1 .. m : Draws(Q) \cap Draws(each[j]) = {}
      BY <2>2
    <3> HIDE DEF P, Q
    <3> QED BY <2>4, <3>1
  <2>6. Distinct(P) /\ \A A : Bound(P, s, A)
    BY <1>2
  <2> HIDE DEF P, Q
  <2>7. Distinct(P \o Q) /\ \A A : Bound(P \o Q, s, A)
    BY <2>3, <2>4, <2>5, <2>6, OrdersJoin
  <2> QED BY <2>1, <2>7
<1> DEFINE Good == {i \in Nat : Prop(i)}
<1> HIDE DEF Prop
<1>3. 0 \in Good
  BY <1>1
<1>4. \A i \in 0 .. n - 1 : i \in Good => i + 1 \in Good
  BY <1>2
<1>5. \A i \in 0 .. n : i \in Good
  <2> HIDE DEF Good
  <2> QED BY <1>3, <1>4, Induction
<1>6. Prop(n)
  BY <1>5
<1> QED BY <1>6 DEF Prop

LEMMA RoundsAlike ==
  ASSUME NEW n \in Nat, NEW p, NEW v, \A i \in 1 .. n : Alike(p[i], v[i])
  PROVE  Alike(rounds(n, p), rounds(n, v))
<1> DEFINE Prop(m) == Alike(rounds(m, p), rounds(m, v))
<1>1. Prop(0)
  BY RoundsSteps, AlikeSteps
<1>2. ASSUME NEW m \in 0 .. n - 1, Prop(m) PROVE Prop(m + 1)
  <2>1. m \in Nat /\ m + 1 \in 1 .. n
    OBVIOUS
  <2>2. Alike(p[m + 1], v[m + 1])
    BY <2>1
  <2>3. rounds(m + 1, p) = rounds(m, p) \o p[m + 1] /\ rounds(m + 1, v) = rounds(m, v) \o v[m + 1]
    BY <2>1, RoundsSteps
  <2> QED BY <1>2, <2>2, <2>3, AlikeJoin
<1> DEFINE Good == {i \in Nat : Prop(i)}
<1> HIDE DEF Prop
<1>3. 0 \in Good
  BY <1>1
<1>4. \A i \in 0 .. n - 1 : i \in Good => i + 1 \in Good
  BY <1>2
<1>5. \A i \in 0 .. n : i \in Good
  <2> HIDE DEF Good
  <2> QED BY <1>3, <1>4, Induction
<1>6. Prop(n)
  BY <1>5
<1> QED BY <1>6 DEF Prop

-----------------------------------------------------------------------------
\* The laws again, one table for each thing a script has.

LEMMA ScriptTable ==
  /\ IsScript(<<>>) /\ IsScript(restart)
  /\ \A x : IsScript(draw(x)) /\ IsScript(peek(x)) /\ IsScript(mix(x)) /\ IsScript(loose(x))
       /\ IsScript(present(x))
  /\ \A x, y : IsScript(commit(x, y)) /\ IsScript(make(x, y)) /\ IsScript(check(x, y))
  /\ \A P, Q : IsScript(P) /\ IsScript(Q) => IsScript(P \o Q)
  /\ \A b, P : IsScript(P) => IsScript(when(b, P))
<1>1. \A x : IsScript(loose(x)) /\ IsScript(present(x))
  BY GateLaws
<1>2. \A b, P : IsScript(P) => IsScript(when(b, P))
  BY SkipLaws DEF when
<1> QED BY <1>1, <1>2, SkipLaws, RestartLaws, DrawLaws, PeekLaws, MixLaws, CommitLaws, MakeLaws,
           CheckLaws, Joins

LEMMA RestartTable ==
  /\ ~ Restarts(<<>>)
  /\ \A x : ~ Restarts(draw(x)) /\ ~ Restarts(peek(x)) /\ ~ Restarts(mix(x)) /\ ~ Restarts(loose(x))
       /\ ~ Restarts(present(x))
  /\ \A x, y : ~ Restarts(commit(x, y)) /\ ~ Restarts(make(x, y)) /\ ~ Restarts(check(x, y))
  /\ \A P, Q : IsScript(P) /\ IsScript(Q) => (Restarts(P \o Q) <=> Restarts(P) \/ Restarts(Q))
  /\ \A b, P : ~ Restarts(P) => ~ Restarts(when(b, P))
<1>1. \A x : ~ Restarts(loose(x)) /\ ~ Restarts(present(x))
  BY GateLaws
<1>2. \A b, P : ~ Restarts(P) => ~ Restarts(when(b, P))
  BY SkipLaws DEF when
<1> QED BY <1>1, <1>2, SkipLaws, DrawLaws, PeekLaws, MixLaws, CommitLaws, MakeLaws, CheckLaws, SetsJoin

LEMMA DrawsTable ==
  /\ Draws(<<>>) = {} /\ Draws(restart) = {}
  /\ \A x : Draws(draw(x)) = {x} /\ Draws(peek(x)) = {x} /\ Draws(mix(x)) = {} /\ Draws(loose(x)) = {}
       /\ Draws(present(x)) = {}
  /\ \A x, y : Draws(commit(x, y)) = {} /\ Draws(make(x, y)) = {} /\ Draws(check(x, y)) = {}
  /\ \A P, Q : IsScript(P) /\ IsScript(Q) => Draws(P \o Q) = Draws(P) \cup Draws(Q)
  /\ \A b, P : Draws(when(b, P)) = IF b THEN Draws(P) ELSE {}
<1>1. \A x : Draws(loose(x)) = {} /\ Draws(present(x)) = {}
  BY GateLaws
<1>2. \A b, P : Draws(when(b, P)) = IF b THEN Draws(P) ELSE {}
  BY SkipLaws DEF when
<1> QED BY <1>1, <1>2, SkipLaws, RestartLaws, DrawLaws, PeekLaws, MixLaws, CommitLaws, MakeLaws,
           CheckLaws, SetsJoin

LEMMA AbsorbsTable ==
  /\ Absorbs(<<>>) = {} /\ Absorbs(restart) = {}
  /\ \A x : Absorbs(draw(x)) = {} /\ Absorbs(peek(x)) = {} /\ Absorbs(mix(x)) = {x}
       /\ Absorbs(loose(x)) = {} /\ Absorbs(present(x)) = {}
  /\ \A x, y : Absorbs(commit(x, y)) = {x} /\ Absorbs(make(x, y)) = {} /\ Absorbs(check(x, y)) = {}
  /\ \A P, Q : IsScript(P) /\ IsScript(Q) => Absorbs(P \o Q) = Absorbs(P) \cup Absorbs(Q)
  /\ \A b, P : Absorbs(when(b, P)) = IF b THEN Absorbs(P) ELSE {}
<1>1. \A x : Absorbs(loose(x)) = {} /\ Absorbs(present(x)) = {}
  BY GateLaws
<1>2. \A b, P : Absorbs(when(b, P)) = IF b THEN Absorbs(P) ELSE {}
  BY SkipLaws DEF when
<1> QED BY <1>1, <1>2, SkipLaws, RestartLaws, DrawLaws, PeekLaws, MixLaws, CommitLaws, MakeLaws,
           CheckLaws, SetsJoin

LEMMA MakesTable ==
  /\ Makes(<<>>) = {} /\ Makes(restart) = {}
  /\ \A x : Makes(draw(x)) = {} /\ Makes(peek(x)) = {} /\ Makes(mix(x)) = {} /\ Makes(loose(x)) = {}
       /\ Makes(present(x)) = {}
  /\ \A x, y : Makes(commit(x, y)) = {x} /\ Makes(make(x, y)) = x /\ Makes(check(x, y)) = {}
  /\ \A P, Q : IsScript(P) /\ IsScript(Q) => Makes(P \o Q) = Makes(P) \cup Makes(Q)
  /\ \A b, P : Makes(when(b, P)) = IF b THEN Makes(P) ELSE {}
<1>1. \A x : Makes(loose(x)) = {} /\ Makes(present(x)) = {}
  BY GateLaws
<1>2. \A b, P : Makes(when(b, P)) = IF b THEN Makes(P) ELSE {}
  BY SkipLaws DEF when
<1> QED BY <1>1, <1>2, SkipLaws, RestartLaws, DrawLaws, PeekLaws, MixLaws, CommitLaws, MakeLaws,
           CheckLaws, SetsJoin

LEMMA ReadsTable ==
  /\ Reads(<<>>) = {} /\ Reads(restart) = {}
  /\ \A x : Reads(draw(x)) = {} /\ Reads(peek(x)) = {} /\ Reads(mix(x)) = {} /\ Reads(loose(x)) = {}
       /\ Reads(present(x)) = {}
  /\ \A x, y : Reads(commit(x, y)) = {} /\ Reads(make(x, y)) = {} /\ Reads(check(x, y)) = x
  /\ \A P, Q : IsScript(P) /\ IsScript(Q) => Reads(P \o Q) = Reads(P) \cup Reads(Q)
  /\ \A b, P : Reads(when(b, P)) = IF b THEN Reads(P) ELSE {}
<1>1. \A x : Reads(loose(x)) = {} /\ Reads(present(x)) = {}
  BY GateLaws
<1>2. \A b, P : Reads(when(b, P)) = IF b THEN Reads(P) ELSE {}
  BY SkipLaws DEF when
<1> QED BY <1>1, <1>2, SkipLaws, RestartLaws, DrawLaws, PeekLaws, MixLaws, CommitLaws, MakeLaws,
           CheckLaws, SetsJoin

LEMMA GatesTable ==
  /\ Gates(<<>>) = {} /\ Gates(restart) = {}
  /\ \A x : Gates(draw(x)) = {} /\ Gates(peek(x)) = {} /\ Gates(mix(x)) = {} /\ Gates(loose(x)) = x
       /\ Gates(present(x)) = x
  /\ \A x, y : Gates(commit(x, y)) = {} /\ Gates(make(x, y)) = {} /\ Gates(check(x, y)) = {}
  /\ \A P, Q : IsScript(P) /\ IsScript(Q) => Gates(P \o Q) = Gates(P) \cup Gates(Q)
  /\ \A b, P : Gates(when(b, P)) = IF b THEN Gates(P) ELSE {}
<1>1. \A x : Gates(loose(x)) = x /\ Gates(present(x)) = x
  BY GateLaws
<1>2. \A b, P : Gates(when(b, P)) = IF b THEN Gates(P) ELSE {}
  BY SkipLaws DEF when
<1>3. \A P, Q : IsScript(P) /\ IsScript(Q) => Gates(P \o Q) = Gates(P) \cup Gates(Q)
  BY SetsJoin
<1>4. ASSUME NEW x, NEW y PROVE Gates(commit(x, y)) = {}
  <2>1. IsScript(make({x}, y)) /\ IsScript(mix(x)) /\ Gates(make({x}, y)) = {} /\ Gates(mix(x)) = {}
    BY MakeLaws, MixLaws
  <2> QED BY <1>3, <2>1 DEF commit
<1> QED BY <1>1, <1>2, <1>3, <1>4, SkipLaws, RestartLaws, DrawLaws, PeekLaws, MixLaws,
           MakeLaws, CheckLaws

LEMMA UsesTable ==
  /\ Uses(<<>>) = {} /\ Uses(restart) = {}
  /\ \A x : Uses(draw(x)) = {} /\ Uses(peek(x)) = {} /\ Uses(mix(x)) = {} /\ Uses(loose(x)) = {}
       /\ Uses(present(x)) = {}
  /\ \A x, y : Uses(commit(x, y)) = {} /\ Uses(make(x, y)) = {} /\ Uses(check(x, y)) = y
  /\ \A P, Q : IsScript(P) /\ IsScript(Q) => Uses(P \o Q) = Uses(P) \cup Uses(Q)
  /\ \A b, P : Uses(when(b, P)) = IF b THEN Uses(P) ELSE {}
<1>1. \A x : Uses(loose(x)) = {} /\ Uses(present(x)) = {}
  BY GateLaws
<1>2. \A b, P : Uses(when(b, P)) = IF b THEN Uses(P) ELSE {}
  BY SkipLaws DEF when
<1>3. \A P, Q : IsScript(P) /\ IsScript(Q) => Uses(P \o Q) = Uses(P) \cup Uses(Q)
  BY SetsJoin
<1>4. ASSUME NEW x, NEW y PROVE Uses(commit(x, y)) = {}
  <2>1. IsScript(make({x}, y)) /\ IsScript(mix(x)) /\ Uses(make({x}, y)) = {} /\ Uses(mix(x)) = {}
    BY MakeLaws, MixLaws
  <2> QED BY <1>3, <2>1 DEF commit
<1> QED BY <1>1, <1>2, <1>3, <1>4, SkipLaws, RestartLaws, DrawLaws, PeekLaws, MixLaws,
           MakeLaws, CheckLaws

LEMMA DistinctTable ==
  /\ Distinct(<<>>)
  /\ \A x : Distinct(draw(x)) /\ Distinct(peek(x)) /\ Distinct(mix(x))
  /\ \A x, y : Distinct(commit(x, y)) /\ Distinct(make(x, y))
  /\ \A P, Q : /\ IsScript(P) /\ IsScript(Q) /\ Distinct(P) /\ Distinct(Q)
       /\ Draws(P) \cap Draws(Q) = {}
               => Distinct(P \o Q)
  /\ \A b, P : Distinct(P) => Distinct(when(b, P))
<1>1. \A b, P : Distinct(P) => Distinct(when(b, P))
  BY SkipLaws DEF when
<1> QED BY <1>1, SkipLaws, DrawLaws, PeekLaws, MixLaws, CommitLaws, MakeLaws, OrdersJoin

LEMMA BoundTable ==
  /\ \A s, A : Bound(<<>>, s, A)
  /\ \A x, s, A : MustPrecede(s, x) \subseteq A => Bound(draw(x), s, A) /\ Bound(peek(x), s, A)
  /\ \A x, y, s, A : Bound(mix(x), s, A) /\ Bound(commit(x, y), s, A) /\ Bound(make(x, y), s, A)
  /\ \A P, Q, s, A : IsScript(P) /\ IsScript(Q) /\ Bound(P, s, A)
       /\ Bound(Q, s, A \cup Absorbs(P)) => Bound(P \o Q, s, A)
  /\ \A b, P, s, A : (b => Bound(P, s, A)) => Bound(when(b, P), s, A)
<1>1. \A b, P, s, A : (b => Bound(P, s, A)) => Bound(when(b, P), s, A)
  BY SkipLaws DEF when
<1> QED BY <1>1, SkipLaws, DrawLaws, PeekLaws, MixLaws, CommitLaws, MakeLaws, OrdersJoin

LEMMA ReadyTable ==
  /\ \A A : Ready(<<>>, A) /\ Ready(restart, A)
  /\ \A x, A : Ready(draw(x), A) /\ Ready(peek(x), A) /\ Ready(mix(x), A) /\ Ready(loose(x), A)
       /\ Ready(present(x), A)
  /\ \A x, y, A : y \subseteq A => Ready(check(x, y), A)
  /\ \A P, Q, A : IsScript(P) /\ IsScript(Q) /\ Ready(P, A)
       /\ Ready(Q, A \cup Draws(P)) => Ready(P \o Q, A)
  /\ \A b, P, A : Ready(P, A) => Ready(when(b, P), A)
<1>1. \A x, A : Ready(loose(x), A) /\ Ready(present(x), A)
  BY GateLaws
<1>2. \A b, P, A : Ready(P, A) => Ready(when(b, P), A)
  BY SkipLaws DEF when
<1> QED BY <1>1, <1>2, SkipLaws, RestartLaws, DrawLaws, PeekLaws, MixLaws, CheckLaws, OrdersJoin

LEMMA Regroup ==
  ASSUME NEW P, IsScript(P), NEW Q, IsScript(Q), NEW R, IsScript(R)
  PROVE  (P \o Q) \o R = P \o (Q \o R)
<1>1. PICK A, B, C : P \in Seq(A) /\ Q \in Seq(B) /\ R \in Seq(C)
  BY DEF IsScript
<1> DEFINE S == A \cup B \cup C
<1>2. P \in Seq(S) /\ Q \in Seq(S) /\ R \in Seq(S)
  BY <1>1
<1> QED BY <1>2, ConcatAssociative

-----------------------------------------------------------------------------
\* A section of a prover: the challenges it draws, the fields it absorbs and
\* the fields it puts in the proof.
Section(P, D, A, M) ==
  /\ IsScript(P) /\ ~ Restarts(P) /\ Distinct(P)
  /\ Draws(P) = D /\ Absorbs(P) = A /\ Makes(P) = M

\* What draws nothing is bound whatever was absorbed before it.
LEMMA NoDraws ==
  ASSUME NEW P, Draws(P) = {}, NEW s, NEW B
  PROVE  Bound(P, s, B)
BY DEF Draws, Elems, Bound

LEMMA SectionsJoin ==
  ASSUME NEW D, NEW A, NEW M, NEW D1, NEW A1, NEW M1,
         NEW P, Section(P, D, A, M), NEW Q, Section(Q, D1, A1, M1), D \cap D1 = {}
  PROVE  Section(P \o Q, D \cup D1, A \cup A1, M \cup M1)
BY Joins, SetsJoin, OrdersJoin DEF Section

LEMMA BoundsJoin ==
  ASSUME NEW P, NEW Q, IsScript(P), IsScript(Q), NEW s, NEW B,
         Bound(P, s, B), Bound(Q, s, B \cup Absorbs(P))
  PROVE  Bound(P \o Q, s, B)
BY OrdersJoin

-----------------------------------------------------------------------------
\* Comparing scripts that are nested differently.

LEMMA AlikeSplice ==
  ASSUME NEW P, NEW Q, NEW R, NEW V, NEW W, IsScript(P), IsScript(Q), Alike(P \o Q, V), Alike(R, W)
  PROVE  Alike(P \o (Q \o R), V \o W)
<1>1. IsScript(R)
  BY DEF Alike
<1>2. P \o (Q \o R) = (P \o Q) \o R
  BY <1>1, Regroup
<1> QED BY <1>2, AlikeJoin

LEMMA SilentSplice ==
  ASSUME NEW P, NEW Q, NEW R, NEW V, IsScript(P), IsScript(Q), Alike(P \o Q, V), Silent(R)
  PROVE  Alike(P \o (Q \o R), V)
<1>1. IsScript(R)
  BY DEF Silent
<1>2. P \o (Q \o R) = (P \o Q) \o R
  BY <1>1, Regroup
<1> QED BY <1>2, SilentLaws

\* A prover's sections that the verifier replays as one.
LEMMA AlikeTwo ==
  ASSUME NEW P, NEW V, Alike(P, V), NEW A, NEW B, IsScript(A), IsScript(B),
         NEW W, Alike(A \o B, W)
  PROVE  Alike(P \o A \o B, V \o W)
<1>1. IsScript(P)
  BY DEF Alike
<1>2. (P \o A) \o B = P \o (A \o B)
  BY <1>1, Regroup
<1>3. Alike(P \o (A \o B), V \o W)
  BY AlikeJoin
<1> QED BY <1>2, <1>3

LEMMA AlikeThree ==
  ASSUME NEW P, NEW V, Alike(P, V), NEW A, NEW B, NEW C, IsScript(A), IsScript(B), IsScript(C),
         NEW W, Alike(A \o B \o C, W)
  PROVE  Alike(P \o A \o B \o C, V \o W)
<1>1. IsScript(P)
  BY DEF Alike
<1>2. (P \o A) \o B = P \o (A \o B)
  BY <1>1, Regroup
<1>3. Alike(P \o (A \o B) \o C, V \o W)
  <2> DEFINE D == A \o B
  <2>1. IsScript(D) /\ Alike(D \o C, W)
    BY Joins
  <2> HIDE DEF D
  <2>2. Alike(P \o D \o C, V \o W)
    BY <2>1, AlikeTwo
  <2> QED BY <2>2 DEF D
<1> QED BY <1>2, <1>3

LEMMA AlikeTable ==
  /\ Alike(<<>>, <<>>)
  /\ \A x : Alike(draw(x), draw(x)) /\ Alike(peek(x), peek(x)) /\ Alike(mix(x), mix(x))
  /\ \A x, y : Alike(commit(x, y), mix(x))
  /\ \A P, Q, V, W : Alike(P, V) /\ Alike(Q, W) => Alike(P \o Q, V \o W)
  /\ \A P, V, x, y : Alike(P, V) => Alike(P \o make(x, y), V) /\ Alike(make(x, y) \o P, V)
                                   /\ Alike(P, V \o check(x, y)) /\ Alike(P, check(x, y) \o V)
  /\ \A P, V, x : Alike(P, V) => Alike(P, V \o present(x)) /\ Alike(P, present(x) \o V)
<1>1. \A P, V, x, y : Alike(P, V) => Alike(P \o make(x, y), V) /\ Alike(make(x, y) \o P, V)
                                   /\ Alike(P, V \o check(x, y)) /\ Alike(P, check(x, y) \o V)
  BY SilentLaws
<1>2. \A P, V, x : Alike(P, V) => Alike(P, V \o present(x)) /\ Alike(P, present(x) \o V)
  BY SilentLaws
<1> QED BY <1>1, <1>2, AlikeSteps, AlikeJoin

LEMMA SilentTable ==
  /\ Silent(<<>>)
  /\ \A x : Silent(loose(x)) /\ Silent(present(x))
  /\ \A x, y : Silent(make(x, y)) /\ Silent(check(x, y))
  /\ \A P, Q : Silent(P) /\ Silent(Q) => Silent(P \o Q)
  /\ \A b, P : Silent(P) => Silent(when(b, P))
<1>1. \A b, P : Silent(P) => Silent(when(b, P))
  BY SilentLaws DEF when
<1> QED BY <1>1, SilentLaws

LEMMA SilentJoin ==
  ASSUME NEW P, NEW V, Alike(P, V), NEW Q, Silent(Q)
  PROVE  Alike(P, V \o Q) /\ Alike(P, Q \o V) /\ Alike(P \o Q, V) /\ Alike(Q \o P, V)
BY SilentLaws

-----------------------------------------------------------------------------
\* A section of a verifier: the challenges it draws, the fields it absorbs,
\* and the fields and the challenges its checks read.
Audit(V, D, A, R, U) ==
  /\ IsScript(V) /\ ~ Restarts(V) /\ "none" \notin Gates(V)
  /\ Draws(V) = D /\ Absorbs(V) = A /\ Reads(V) = R /\ Uses(V) = U

LEMMA AuditsJoin ==
  ASSUME NEW D, NEW A, NEW R, NEW U, NEW D1, NEW A1, NEW R1, NEW U1,
         NEW V, Audit(V, D, A, R, U), NEW W, Audit(W, D1, A1, R1, U1)
  PROVE  Audit(V \o W, D \cup D1, A \cup A1, R \cup R1, U \cup U1)
<1>1. IsScript(V) /\ IsScript(W)
  BY DEF Audit
<1>2. IsScript(V \o W) /\ ~ Restarts(V \o W)
  BY <1>1, Joins, SetsJoin DEF Audit
<1>3. Gates(V \o W) = Gates(V) \cup Gates(W) /\ Draws(V \o W) = D \cup D1 /\ Absorbs(V \o W) = A \cup A1
  BY <1>1, SetsJoin DEF Audit
<1>4. Reads(V \o W) = R \cup R1 /\ Uses(V \o W) = U \cup U1
  BY <1>1, SetsJoin DEF Audit
<1> QED BY <1>2, <1>3, <1>4 DEF Audit

LEMMA ReadiesJoin ==
  ASSUME NEW V, NEW W, IsScript(V), IsScript(W), NEW A, Ready(V, A), Ready(W, A \cup Draws(V))
  PROVE  Ready(V \o W, A)
BY OrdersJoin

\* What draws all its checks use before is ready wherever it stands.
LEMMA UsesReady ==
  ASSUME NEW V, NEW A, Uses(V) \subseteq A
  PROVE  Ready(V, A)
BY DEF Uses, Elems, Ready

-----------------------------------------------------------------------------
\* How a verifier finds out that a challenge is not the prover's.

\* It uses the challenge before it draws it again.
LEMMA StraysUse ==
  ASSUME NEW P, IsScript(P), NEW Q, IsScript(Q), NEW a, IsChannel(a), NEW bad, NEW R,
         NEW c, Strays(P, a, bad, R, c), c \in Uses(Q), c \notin Draws(Q)
  PROVE  Refutes(P \o Q, a, bad, R)
<1> DEFINE J == P \o Q
           m == Len(P)
           n == Len(Q)
<1>1. /\ m \in Nat /\ n \in Nat /\ Len(J) = m + n
      /\ \A i \in 1 .. m : J[i] = P[i]
      /\ \A i \in 1 .. n : J[m + i] = Q[i]
  BY Joins
<1>2. \A i \in 0 .. m : Run(J, a, bad)[i] = Run(P, a, bad)[i]
  BY RunJoins
<1>3. PICK i \in 1 .. m :
        /\ Squeezing(P[i]) /\ P[i].challenge = c /\ <<c, Run(P, a, bad)[i - 1]>> \notin R
        /\ \A k \in i + 1 .. m : ~ (Squeezing(P[k]) /\ P[k].challenge = c)
  BY DEF Strays
<1>4. PICK k \in 1 .. n : Q[k].op = "check" /\ c \in Q[k].challenges
  BY DEF Uses, Elems
<1>5. \A k1 \in 1 .. n : ~ (Squeezing(Q[k1]) /\ Q[k1].challenge = c)
  BY DEF Draws, Elems
<1> DEFINE j == m + k
<1> HIDE DEF J, m, n
<1>6. j \in 1 .. Len(J) /\ J[j] = Q[k] /\ i \in 1 .. j - 1
  BY <1>1, <1>3, <1>4
<1>7. J[i] = P[i] /\ i - 1 \in 0 .. m /\ Run(J, a, bad)[i - 1] = Run(P, a, bad)[i - 1]
  BY <1>1, <1>2, <1>3
<1>8. ASSUME NEW l \in i + 1 .. j - 1 PROVE ~ (Squeezing(J[l]) /\ J[l].challenge = c)
  <2>1. CASE l <= m
    <3>1. l \in i + 1 .. m /\ l \in 1 .. m
      BY <1>1, <1>3, <1>4, <2>1
    <3> QED BY <1>1, <1>3, <3>1
  <2>2. CASE ~ (l <= m)
    <3>1. l - m \in 1 .. n /\ m + (l - m) = l
      BY <1>1, <1>3, <1>4, <2>2
    <3> QED BY <1>1, <1>5, <3>1
  <2> QED BY <2>1, <2>2
<1> HIDE DEF j
<1>9. /\ J[j].op = "check" /\ c \in J[j].challenges
      /\ Squeezing(J[i]) /\ J[i].challenge = c /\ <<c, Run(J, a, bad)[i - 1]>> \notin R
  BY <1>3, <1>4, <1>6, <1>7
<1>10. Refutes(J, a, bad, R)
  BY <1>6, <1>8, <1>9 DEF Refutes
<1> QED BY <1>10 DEF J

\* A field that was mixed in damaged shows at the next draw.
LEMMA TaintShows ==
  ASSUME NEW P, IsScript(P), ~ Restarts(P), NEW a, IsChannel(a), NEW bad,
         bad \in Absorbs(P) \/ "damaged" \in Absorbed(a),
         NEW R, NEW c, \A ch : <<c, ch>> \in R => "damaged" \notin Absorbed(ch)
  PROVE  Strays(P \o draw(c), a, bad, R, c)
<1> DEFINE b == After(P, a, bad)
<1>1. "damaged" \in Absorbed(b) /\ IsChannel(b)
  BY AfterAbsorbs, RunJoins
<1> HIDE DEF b
<1>2. <<c, b>> \notin R
  BY <1>1
<1>3. IsScript(draw(c)) /\ Strays(draw(c), b, bad, R, c)
  BY <1>1, <1>2, DrawLaws
<1> QED BY <1>3, StraysJoin DEF b

\* A field that was left out shows at a draw it should precede.
LEMMA GapShows ==
  ASSUME NEW P, IsScript(P), ~ Restarts(P), NEW bad, bad \notin Absorbs(P),
         NEW f, f \notin Absorbs(P),
         NEW R, NEW c, \A ch : <<c, ch>> \in R => f \in Absorbed(ch)
  PROVE  /\ IsChannel(After(P, new, bad))
         /\ Strays(draw(c), After(P, new, bad), bad, R, c)
<1> DEFINE b == After(P, new, bad)
<1>1. IsChannel(b) /\ Absorbed(b) = Absorbs(P)
  <2>1. IsChannel(new) /\ Absorbed(new) = {}
    BY AbsorbedLaws
  <2>2. Absorbed(b) = Absorbed(new) \cup Absorbs(P)
    BY <2>1, AfterAbsorbs
  <2>3. IsChannel(b)
    BY <2>1, EffectsJoin
  <2> QED BY <2>1, <2>2, <2>3
<1> HIDE DEF b
<1>2. <<c, b>> \notin R
  BY <1>1
<1>3. Strays(draw(c), b, bad, R, c)
  BY <1>1, <1>2, DrawLaws
<1> QED BY <1>1, <1>3 DEF b

-----------------------------------------------------------------------------
\* A verifier, or a part of one, that may start again with an empty channel:
\* the challenges it draws, the fields and the challenges of its equations,
\* which are those of A and its own.
Account(V, A, D, R, U) ==
  /\ IsScript(V) /\ "none" \notin Gates(V) /\ Ready(V, A)
  /\ Draws(V) = D /\ Reads(V) = R /\ Uses(V) = U

LEMMA AccountsJoin ==
  ASSUME NEW V, NEW A, NEW D, NEW R, NEW U, Account(V, A, D, R, U),
         NEW W, NEW D1, NEW R1, NEW U1, Account(W, A \cup D, D1, R1, U1)
  PROVE  Account(V \o W, A, D \cup D1, R \cup R1, U \cup U1)
<1>1. IsScript(V) /\ IsScript(W) /\ Ready(V, A) /\ Ready(W, A \cup Draws(V))
  BY DEF Account
<1>2. IsScript(V \o W)
  BY <1>1, Joins
<1>3. Ready(V \o W, A)
  BY <1>1, ReadiesJoin
<1>4. "none" \notin Gates(V \o W)
  BY <1>1, SetsJoin DEF Account
<1>5. Draws(V \o W) = D \cup D1 /\ Reads(V \o W) = R \cup R1 /\ Uses(V \o W) = U \cup U1
  BY <1>1, SetsJoin DEF Account
<1> QED BY <1>2, <1>3, <1>4, <1>5 DEF Account

LEMMA AccountSteps ==
  ASSUME NEW A
  PROVE  /\ \A f : Account(mix(f), A, {}, {}, {})
         /\ \A c : Account(draw(c), A, {c}, {}, {})
         /\ \A x, y : y \subseteq A => Account(check(x, y), A, {}, x, y)
         /\ \A x : "none" \notin x => Account(loose(x), A, {}, {}, {})
         /\ Account(restart, A, {}, {}, {})
<1>1. \A f : Account(mix(f), A, {}, {}, {})
  BY MixLaws DEF Account
<1>2. \A c : Account(draw(c), A, {c}, {}, {})
  BY DrawLaws DEF Account
<1>3. \A x, y : y \subseteq A => Account(check(x, y), A, {}, x, y)
  BY CheckLaws DEF Account
<1>4. Account(restart, A, {}, {}, {})
  BY RestartLaws DEF Account
<1>5. \A x : "none" \notin x => Account(loose(x), A, {}, {}, {})
  BY GateLaws DEF Account
<1> QED BY <1>1, <1>2, <1>3, <1>4, <1>5

=============================================================================
