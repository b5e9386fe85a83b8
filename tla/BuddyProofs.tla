----------------------------- MODULE BuddyProofs -----------------------------
(***************************************************************************)
(* The buddy tree for every order and every memory size: the statuses of   *)
(* the ancestors, the blocks, the searches, and what a crash may damage.   *)
(*                                                                         *)
(* The inductive invariant BuddyInv has three parts.  Shape is the types,  *)
(* and where an entry is on its way up.  Sound holds as long as no machine *)
(* died among the ancestors: every status except the one still to be       *)
(* repaired is the one its children imply (Exact), and the positions that  *)
(* are held, about to be taken, or still to be masked do not overlap.      *)
(* LeafInv is what remains after a crash: the smallest blocks tell whether *)
(* they are held.  An allocation descends from the root; that it ends at a *)
(* free position, and finds one when there is any, is an induction along   *)
(* the path (PathHasRoom and the lemmas after it), and that a free         *)
(* finds the position that was allocated is one over the path up from the  *)
(* smallest block at its address (AddressFindsMark).                       *)
(***************************************************************************)
EXTENDS BuddyTree, WellFoundedInduction, TLAPS

-----------------------------------------------------------------------------
(* Numbers *)

\* A set of numbers has a smallest one.
LEMMA Smallest ==
  ASSUME NEW T, T \subseteq Nat, T # {}
  PROVE  \E x \in T : \A y \in T : x <= y
<1> DEFINE R == OpToRel(<, Nat)
<1>1. IsWellFoundedOn(R, Nat)
  BY Zenon, NatLessThanWellFounded
<1>2. \A x, y \in Nat : y < x => <<y, x>> \in R
  BY Zenon DEF OpToRel
<1> HIDE DEF R
<1>3. PICK x \in T : \A y \in T : ~ (<<y, x>> \in R)
  BY Zenon, <1>1, WFMin
<1>4. \A y \in T : ~(y < x)
  BY Zenon, <1>2, <1>3
<1>5. \A y \in T : x <= y
  BY <1>3, <1>4
<1> QED
  BY Zenon, <1>3, <1>5

\* A table of the powers of two up to 1 << k.
IsTable(f, k) ==
  /\ f \in [0..k -> Nat]
  /\ f[0] = 1
  /\ \A i \in 1..k : f[i] = 2 * f[i - 1]

\* Two tables agree where both are defined.
LEMMA TablesAgree ==
  ASSUME NEW k \in Nat, NEW n \in Nat, NEW f, NEW g, IsTable(f, k), IsTable(g, n),
         NEW j \in Nat, j <= k, j <= n
  PROVE  f[j] = g[j]
<1> DEFINE T == {i \in Nat : i <= k /\ i <= n /\ f[i] # g[i]}
<1> SUFFICES ASSUME T # {} PROVE FALSE
  BY Zenon
<1>1. PICK x \in T : \A y \in T : x <= y
  BY Zenon, Smallest
<1>2. x # 0
  BY Zenon DEF IsTable
<1>3. x - 1 \in Nat /\ x - 1 \notin T
  BY <1>1, <1>2
<1>4. f[x - 1] = g[x - 1]
  BY <1>1, <1>3
<1>5. x \in 1..k /\ x \in 1..n
  BY <1>1, <1>2
<1>6. f[x] = g[x]
  BY Zenon, <1>4, <1>5 DEF IsTable
<1> QED
  BY Zenon, <1>1, <1>6

\* There is a table of any length.
LEMMA TableExists == ASSUME NEW k \in Nat PROVE \E f : IsTable(f, k)
<1> DEFINE T == {i \in Nat : ~ \E f : IsTable(f, i)}
<1> SUFFICES ASSUME T # {} PROVE FALSE
  BY Zenon
<1>1. PICK x \in T : \A y \in T : x <= y
  BY Zenon, Smallest
<1>2. x # 0
  <2>1. IsTable([i \in 0..0 |-> 1], 0)
    BY DEF IsTable
  <2> QED
    BY Zenon, <1>1, <2>1
<1>3. x - 1 \in Nat /\ x - 1 \notin T
  BY <1>1, <1>2
<1>4. PICK f : IsTable(f, x - 1)
  BY Zenon, <1>3
<1> DEFINE g == [i \in 0..x |-> IF i = x THEN 2 * f[x - 1] ELSE f[i]]
<1>5. f \in [0..(x - 1) -> Nat] /\ f[0] = 1 /\ \A i \in 1..(x - 1) : f[i] = 2 * f[i - 1]
  BY Zenon, <1>4 DEF IsTable
<1>6. g \in [0..x -> Nat]
  BY <1>1, <1>2, <1>3, <1>5
<1>7. g[0] = 1
  BY <1>1, <1>2, <1>5
<1>8. ASSUME NEW i \in 1..x PROVE g[i] = 2 * g[i - 1]
  BY <1>1, <1>2, <1>3, <1>5
<1>9. IsTable(g, x)
  BY Zenon, <1>6, <1>7, <1>8 DEF IsTable
<1> QED
  BY Zenon, <1>1, <1>9

\* The shifts 1 << n are what their recursive definition says.
LEMMA Pow2Def == pow2 = [n \in Nat |-> IF n = 0 THEN 1 ELSE 2 * pow2[n - 1]]
<1> DEFINE table(k) == CHOOSE f : IsTable(f, k)
           F == [n \in Nat |-> table(n)[n]]
<1>1. ASSUME NEW k \in Nat PROVE IsTable(table(k), k)
  BY Zenon, TableExists
<1> HIDE DEF table
<1>2. ASSUME NEW n \in Nat PROVE F[n] = IF n = 0 THEN 1 ELSE 2 * F[n - 1]
  <2>1. CASE n = 0
    BY Zenon, <1>1, <2>1 DEF IsTable
  <2>2. CASE n # 0
    <3>1. n - 1 \in Nat /\ n \in 1..n
      BY <2>2
    <3>2. table(n)[n] = 2 * table(n)[n - 1]
      BY Zenon, <1>1, <3>1 DEF IsTable
    <3>3. table(n)[n - 1] = table(n - 1)[n - 1]
      BY <1>1, <3>1, TablesAgree
    <3> QED
      BY Zenon, <2>2, <3>1, <3>2, <3>3
  <2> QED
    BY Zenon, <2>1, <2>2
<1> HIDE DEF F
<1>3. F = [n \in Nat |-> IF n = 0 THEN 1 ELSE 2 * F[n - 1]]
  BY Zenon, <1>2 DEF F
<1>4. \E f : f = [n \in Nat |-> IF n = 0 THEN 1 ELSE 2 * f[n - 1]]
  BY Zenon, <1>3
<1> QED
  BY Zenon, <1>4 DEF pow2

\* They are positive numbers, each twice the one before.
LEMMA Pow2 ==
  /\ pow2[0] = 1
  /\ \A n \in Nat : pow2[n] \in Nat \ {0} /\ pow2[n + 1] = 2 * pow2[n]
<1>1. pow2[0] = 1 /\ \A n \in Nat : pow2[n + 1] = 2 * pow2[n]
  BY Pow2Def
<1> DEFINE T == {n \in Nat : ~(pow2[n] \in Nat \ {0})}
<1>2. T = {}
  <2> SUFFICES ASSUME T # {} PROVE FALSE
    BY Zenon
  <2>1. PICK x \in T : \A y \in T : x <= y
    BY Zenon, Smallest
  <2>2. x # 0
    BY <1>1
  <2>3. x - 1 \in Nat /\ x - 1 \notin T
    BY <2>1, <2>2
  <2>4. pow2[x] = 2 * pow2[x - 1]
    BY <1>1, <2>3
  <2> QED
    BY <2>1, <2>3, <2>4
<1> QED
  BY Zenon, <1>1, <1>2

\* 1 << (m + n) is the product.
LEMMA Pow2Sum ==
  ASSUME NEW m \in Nat, NEW n \in Nat PROVE pow2[m + n] = pow2[m] * pow2[n]
<1> DEFINE T == {k \in Nat : pow2[m + k] # pow2[m] * pow2[k]}
<1> SUFFICES ASSUME T # {} PROVE FALSE
  BY Zenon
<1>1. PICK x \in T : \A y \in T : x <= y
  BY Zenon, Smallest
<1>2. x # 0
  BY Pow2
<1>3. x - 1 \in Nat /\ x - 1 \notin T
  BY <1>1, <1>2
<1>4. pow2[m + (x - 1)] = pow2[m] * pow2[x - 1]
  BY Zenon, <1>3
<1>5. pow2[m + x] = 2 * pow2[m + (x - 1)]
  BY <1>3, Pow2
<1>6. pow2[x] = 2 * pow2[x - 1]
  BY <1>3, Pow2
<1>7. \A a, b \in Nat : a * (2 * b) = 2 * (a * b)
  OBVIOUS
<1> QED
  BY <1>1, <1>3, <1>4, <1>5, <1>6, <1>7, Pow2

\* They grow.
LEMMA Pow2Grows ==
  ASSUME NEW m \in Nat, NEW n \in Nat, m <= n PROVE pow2[m] <= pow2[n]
<1>1. n - m \in Nat /\ n = m + (n - m)
  OBVIOUS
<1>2. pow2[n] = pow2[m] * pow2[n - m]
  BY Zenon, <1>1, Pow2Sum
<1>3. \A a, b \in Nat \ {0} : a <= a * b
  OBVIOUS
<1> QED
  BY Zenon, <1>1, <1>2, <1>3, Pow2

-----------------------------------------------------------------------------
(* Positions *)

\* What it means to be a position of the tree.
LEMMA IsPosition ==
  ASSUME Order \in Nat
  PROVE  /\ \A at \in Positions :
              /\ at = [index |-> at.index, depth |-> at.depth]
              /\ at.index \in Nat \ {0} /\ at.index \in Indices
              /\ at.depth \in 1..Order /\ at.depth - 1 \in Nat
              /\ pow2[at.depth - 1] <= at.index /\ at.index < pow2[at.depth]
         /\ \A i \in Nat, d \in 1..Order :
              pow2[d - 1] <= i /\ i < pow2[d] => [index |-> i, depth |-> d] \in Positions
<1>1. ASSUME NEW at \in Positions
      PROVE  /\ at = [index |-> at.index, depth |-> at.depth]
             /\ at.index \in Nat \ {0} /\ at.index \in Indices
             /\ at.depth \in 1..Order /\ at.depth - 1 \in Nat
             /\ pow2[at.depth - 1] <= at.index /\ at.index < pow2[at.depth]
  BY <1>1, Pow2 DEF Positions, Indices, upper_pos_bound
<1>2. ASSUME NEW i \in Nat, NEW d \in 1..Order, pow2[d - 1] <= i, i < pow2[d]
      PROVE  [index |-> i, depth |-> d] \in Positions
  <2>1. pow2[d - 1] \in Nat \ {0} /\ pow2[d] \in Nat /\ pow2[Order] \in Nat
    BY Pow2
  <2>2. pow2[d] <= pow2[Order]
    BY Pow2Grows
  <2>3. i \in Indices
    BY <1>2, <2>1, <2>2 DEF Indices, upper_pos_bound
  <2> QED
    BY Zenon, <1>2, <2>3 DEF Positions
<1> QED
  BY Zenon, <1>1, <1>2

\* The root, the children of a position and its parent.
LEMMA Family ==
  ASSUME Order \in Nat \ {0}
  PROVE  /\ root \in Positions
         /\ \A at \in Positions : at.depth < Order =>
              left_child(at) \in Positions /\ right_child(at) \in Positions
         /\ \A at \in Positions : at.depth = 1 <=> at.index = 1
         /\ \A at \in Positions : at.depth # 1 =>
              /\ parent(at) \in Positions
              /\ parent(at).depth = at.depth - 1 /\ parent(at).depth < Order
              /\ at \in {left_child(parent(at)), right_child(parent(at))}
<1>1. root \in Positions
  BY IsPosition, Pow2 DEF root
<1>2. ASSUME NEW at \in Positions, at.depth < Order
      PROVE  left_child(at) \in Positions /\ right_child(at) \in Positions
  <2>1. at.index \in Nat /\ at.depth \in 1..Order
        /\ pow2[at.depth - 1] <= at.index /\ at.index < pow2[at.depth]
    BY Zenon, IsPosition
  <2>2. /\ pow2[at.depth] = 2 * pow2[at.depth - 1] /\ pow2[at.depth + 1] = 2 * pow2[at.depth]
        /\ pow2[at.depth - 1] \in Nat /\ pow2[at.depth] \in Nat
    BY <2>1, Pow2
  <2>3. /\ at.depth + 1 \in 1..Order /\ (at.depth + 1) - 1 = at.depth
        /\ 2 * at.index \in Nat /\ 2 * at.index + 1 \in Nat
    BY <1>2, <2>1
  <2>4. /\ pow2[at.depth] <= 2 * at.index /\ 2 * at.index < pow2[at.depth + 1]
        /\ pow2[at.depth] <= 2 * at.index + 1 /\ 2 * at.index + 1 < pow2[at.depth + 1]
    BY <2>1, <2>2
  <2> QED
    BY Zenon, <2>3, <2>4, IsPosition DEF left_child, right_child
<1>3. ASSUME NEW at \in Positions PROVE at.depth = 1 <=> at.index = 1
  <2>1. at.index \in Nat /\ at.depth \in 1..Order
        /\ pow2[at.depth - 1] <= at.index /\ at.index < pow2[at.depth]
    BY Zenon, IsPosition
  <2>2. pow2[1] = 2
    BY Pow2
  <2>3. at.depth > 1 => pow2[1] <= pow2[at.depth - 1] /\ pow2[at.depth - 1] \in Nat
    BY <2>1, Pow2Grows, Pow2
  <2> QED
    BY <2>1, <2>2, <2>3, Pow2
<1>4. ASSUME NEW at \in Positions, at.depth # 1
      PROVE  /\ parent(at) \in Positions
             /\ parent(at).depth = at.depth - 1 /\ parent(at).depth < Order
             /\ at \in {left_child(parent(at)), right_child(parent(at))}
  <2>1. at.index \in Nat /\ at.depth \in 1..Order /\ at = [index |-> at.index, depth |-> at.depth]
        /\ pow2[at.depth - 1] <= at.index /\ at.index < pow2[at.depth]
    BY Zenon, IsPosition
  <2>2. at.depth - 1 \in 1..Order /\ at.depth - 2 \in Nat /\ (at.depth - 1) - 1 = at.depth - 2
    BY <1>4, <2>1
  <2>3. /\ pow2[at.depth] = 2 * pow2[at.depth - 1] /\ pow2[at.depth - 1] = 2 * pow2[at.depth - 2]
        /\ pow2[at.depth - 1] \in Nat /\ pow2[at.depth - 2] \in Nat
    BY <2>1, <2>2, Pow2
  <2> DEFINE q == at.index \div 2
  <2>4. q \in Nat /\ (at.index = 2 * q \/ at.index = 2 * q + 1)
    BY <2>1
  <2>5. pow2[at.depth - 2] <= q /\ q < pow2[at.depth - 1]
    BY <2>1, <2>3, <2>4
  <2>6. parent(at) = [index |-> q, depth |-> at.depth - 1]
    BY Zenon DEF parent
  <2> HIDE DEF q
  <2>7. parent(at) \in Positions
    BY Zenon, <2>2, <2>4, <2>5, <2>6, IsPosition
  <2> QED
    BY <2>1, <2>2, <2>4, <2>6, <2>7 DEF left_child, right_child
<1> QED
  BY Zenon, <1>1, <1>2, <1>3, <1>4

\* Position b is a or lies below it.
Below(b, a) ==
  /\ a.depth <= b.depth
  /\ a.index * pow2[b.depth - a.depth] <= b.index
  /\ b.index < (a.index + 1) * pow2[b.depth - a.depth]

\* A factor can be cancelled.
LEMMA Cancel ==
  ASSUME NEW u \in Int, NEW v \in Int, NEW f \in Nat \ {0}, u * f < v * f PROVE u < v
OBVIOUS

\* Of the positions of one depth, just one is above a given position.
LEMMA AboveUnique ==
  ASSUME Order \in Nat, NEW a \in Positions, NEW c \in Positions, NEW b \in Positions,
         Below(b, a), Below(b, c), a.depth = c.depth
  PROVE  a = c
<1>1. /\ a.index \in Nat /\ c.index \in Nat /\ b.index \in Nat
      /\ a.depth \in Nat /\ b.depth \in Nat
      /\ a = [index |-> a.index, depth |-> a.depth]
      /\ c = [index |-> c.index, depth |-> c.depth]
  BY IsPosition
<1> DEFINE f == pow2[b.depth - a.depth]
<1>2. f \in Nat \ {0}
  BY <1>1, Pow2 DEF Below
<1>3. /\ a.index * f <= b.index /\ b.index < (a.index + 1) * f
      /\ c.index * f <= b.index /\ b.index < (c.index + 1) * f
  BY Zenon DEF Below
<1> HIDE DEF f
<1>4. a.index * f < (c.index + 1) * f /\ c.index * f < (a.index + 1) * f
  BY <1>1, <1>2, <1>3
<1>5. a.index < c.index + 1 /\ c.index < a.index + 1
  BY <1>1, <1>2, <1>4, Cancel
<1> QED
  BY <1>1, <1>5

\* A position is below itself.
LEMMA BelowSelf == ASSUME Order \in Nat, NEW a \in Positions PROVE Below(a, a)
<1>1. a.index \in Nat /\ a.depth \in Nat
  BY IsPosition
<1>2. a.depth - a.depth = 0
  BY <1>1
<1> QED
  BY <1>1, <1>2, Pow2 DEF Below

\* What is below a position, other than itself, is below a child of it, and
\* the other way round.
LEMMA BelowChildren ==
  ASSUME Order \in Nat \ {0}, NEW a \in Positions, NEW b \in Positions, a.depth < b.depth
  PROVE  Below(b, a) <=> Below(b, left_child(a)) \/ Below(b, right_child(a))
<1>1. /\ a.index \in Nat /\ b.index \in Nat /\ a.depth \in Nat /\ b.depth \in Nat
  BY IsPosition
<1> DEFINE k == b.depth - (a.depth + 1)
           f == pow2[k]
<1>2. k \in Nat /\ b.depth - a.depth = k + 1
  BY <1>1
<1>3. f \in Nat \ {0} /\ pow2[b.depth - a.depth] = 2 * f
  BY Zenon, <1>2, Pow2
<1>4. /\ left_child(a).index = 2 * a.index /\ left_child(a).depth = a.depth + 1
      /\ right_child(a).index = 2 * a.index + 1 /\ right_child(a).depth = a.depth + 1
  BY Zenon DEF left_child, right_child
<1>5. /\ Below(b, left_child(a)) <=>
           (2 * a.index) * f <= b.index /\ b.index < (2 * a.index + 1) * f
      /\ Below(b, right_child(a)) <=>
           (2 * a.index + 1) * f <= b.index /\ b.index < (2 * a.index + 2) * f
  BY <1>1, <1>4 DEF Below
<1>6. Below(b, a) <=> a.index * (2 * f) <= b.index /\ b.index < (a.index + 1) * (2 * f)
  BY <1>1, <1>3 DEF Below
<1> HIDE DEF f
<1> DEFINE y == a.index * f
<1>7. /\ y \in Nat /\ a.index * (2 * f) = 2 * y /\ (a.index + 1) * (2 * f) = 2 * y + 2 * f
      /\ (2 * a.index) * f = 2 * y /\ (2 * a.index + 1) * f = 2 * y + f
      /\ (2 * a.index + 2) * f = 2 * y + 2 * f
  BY <1>1, <1>3
<1> HIDE DEF y
<1> QED
  BY <1>1, <1>3, <1>5, <1>6, <1>7

\* The parent of what is below a position is below it too, up to itself.
LEMMA BelowParent ==
  ASSUME Order \in Nat \ {0}, NEW a \in Positions, NEW b \in Positions, a.depth < b.depth
  PROVE  Below(b, a) <=> Below(parent(b), a)
<1>1. /\ a.index \in Nat /\ b.index \in Nat /\ a.depth \in Nat /\ b.depth \in Nat
  BY IsPosition
<1> DEFINE k == (b.depth - 1) - a.depth
           f == pow2[k]
           q == b.index \div 2
<1>2. k \in Nat /\ b.depth - a.depth = k + 1
  BY <1>1
<1>3. f \in Nat \ {0} /\ pow2[b.depth - a.depth] = 2 * f
  BY Zenon, <1>2, Pow2
<1>4. parent(b).index = q /\ parent(b).depth = b.depth - 1
  BY Zenon DEF parent
<1>5. Below(parent(b), a) <=> a.index * f <= q /\ q < (a.index + 1) * f
  BY <1>1, <1>4 DEF Below
<1>6. Below(b, a) <=> a.index * (2 * f) <= b.index /\ b.index < (a.index + 1) * (2 * f)
  BY <1>1, <1>3 DEF Below
<1>7. q \in Nat /\ (b.index = 2 * q \/ b.index = 2 * q + 1)
  BY <1>1
<1> HIDE DEF f, q
<1> DEFINE y == a.index * f
<1>8. /\ y \in Nat /\ a.index * (2 * f) = 2 * y /\ (a.index + 1) * (2 * f) = 2 * y + 2 * f
      /\ (a.index + 1) * f = y + f
  BY <1>1, <1>3
<1> HIDE DEF y
<1> QED
  BY <1>1, <1>3, <1>5, <1>6, <1>7, <1>8

\* Positions overlap exactly when one of them is below the other, and then
\* the one covers what the other does.
LEMMA OverlapIs ==
  ASSUME Order \in Nat, NEW a \in Positions, NEW b \in Positions, a.depth <= b.depth
  PROVE  /\ Overlap(a, b) <=> Below(b, a)
         /\ Overlap(b, a) <=> Below(b, a)
         /\ Below(b, a) => Interval(b) \subseteq Interval(a)
<1>1. /\ a.index \in Nat /\ b.index \in Nat /\ a.depth \in Nat /\ b.depth \in Nat
      /\ Order - b.depth \in Nat /\ Order - a.depth \in Nat /\ b.depth - a.depth \in Nat
      /\ Order - a.depth = (Order - b.depth) + (b.depth - a.depth)
  BY IsPosition
<1> DEFINE f == pow2[Order - b.depth]
           g == pow2[b.depth - a.depth]
<1>2. f \in Nat \ {0} /\ g \in Nat \ {0}
  BY Zenon, <1>1, Pow2
<1>3. pow2[Order - a.depth] = f * g
  BY Zenon, <1>1, Pow2Sum
<1> DEFINE u == a.index * g
           v == (a.index + 1) * g
           af == a.index * pow2[Order - a.depth]
           al == a.index * pow2[Order - a.depth] + pow2[Order - a.depth] - 1
           bf == b.index * f
           bl == b.index * f + f - 1
<1>4. Interval(a) = af .. al /\ Interval(b) = bf .. bl
  BY Zenon DEF Interval
<1>5. Below(b, a) <=> u <= b.index /\ b.index < v
  BY Zenon DEF Below
<1> HIDE DEF f, g
<1>6. u \in Nat /\ v \in Nat
  BY <1>1, <1>2
<1>7. af = u * f
  BY <1>1, <1>2, <1>3
<1>8. al + 1 = v * f
  BY <1>1, <1>2, <1>3
<1>9. bl + 1 = (b.index + 1) * f
  BY <1>1, <1>2
<1>10. af \in Int /\ al \in Int /\ bf \in Int /\ bl \in Int
  BY <1>1, <1>2, <1>3
<1> HIDE DEF u, v, af, al, bl
<1>11. ASSUME NEW x \in Interval(a) \cap Interval(b) PROVE Below(b, a)
  <2>1. x \in Int /\ af <= x /\ x <= al /\ bf <= x /\ x <= bl
    BY <1>4, <1>10
  <2>2. af < bl + 1 /\ bf < al + 1
    BY <1>10, <2>1
  <2>3. u < b.index + 1
    BY <1>1, <1>2, <1>6, <1>7, <1>9, <2>2, Cancel
  <2>4. b.index < v
    BY <1>1, <1>2, <1>6, <1>8, <2>2, Cancel
  <2> QED
    BY <1>1, <1>5, <1>6, <2>3, <2>4
<1>12. ASSUME Below(b, a)
       PROVE  bf \in Interval(a) \cap Interval(b) /\ Interval(b) \subseteq Interval(a)
  <2>1. u <= b.index /\ b.index + 1 <= v
    BY <1>1, <1>5, <1>6, <1>12
  <2>2. \A m, n \in Nat : m <= n => m * f <= n * f
    BY <1>2
  <2>3. af <= bf /\ bl + 1 <= al + 1
    BY <1>1, <1>6, <1>7, <1>8, <1>9, <2>1, <2>2
  <2>4. bf <= bl
    BY <1>1, <1>2, <1>10 DEF bl
  <2> HIDE DEF bf
  <2> QED
    BY <1>4, <1>10, <2>3, <2>4
<1> QED
  BY Zenon, <1>11, <1>12 DEF Overlap

\* The loops that climb pass the positions above the one they start from.
LEMMA AncestorIs ==
  ASSUME Order \in Nat, NEW at \in Positions, NEW d \in 1..at.depth
  PROVE  /\ Ancestor(at, d) \in Positions
         /\ Ancestor(at, d).depth = d
         /\ Below(at, Ancestor(at, d))
<1>1. /\ at.index \in Nat /\ at.depth \in 1..Order /\ d \in 1..Order /\ at.depth - d \in Nat
      /\ pow2[at.depth - 1] <= at.index /\ at.index < pow2[at.depth]
      /\ d - 1 \in Nat /\ (d - 1) + (at.depth - d) = at.depth - 1
      /\ d + (at.depth - d) = at.depth
  BY IsPosition
<1> DEFINE f == pow2[at.depth - d]
           q == at.index \div f
<1>2. /\ f \in Nat \ {0} /\ pow2[d] \in Nat /\ pow2[d - 1] \in Nat
      /\ pow2[at.depth - 1] = pow2[d - 1] * f /\ pow2[at.depth] = pow2[d] * f
  <2>1. f \in Nat \ {0} /\ pow2[d] \in Nat /\ pow2[d - 1] \in Nat
    BY <1>1, Pow2
  <2>2. pow2[(d - 1) + (at.depth - d)] = pow2[d - 1] * f
    BY Zenon, <1>1, Pow2Sum
  <2>0. d \in Nat /\ at.depth - d \in Nat
    BY <1>1
  <2>3. pow2[d + (at.depth - d)] = pow2[d] * f
    BY <2>0, Pow2Sum, Zenon
  <2> HIDE DEF f
  <2> QED
    BY Zenon, <1>1, <2>1, <2>2, <2>3
<1>3. Ancestor(at, d) = [index |-> q, depth |-> d]
  BY Zenon DEF Ancestor
<1> HIDE DEF f
<1>4. q \in Nat /\ q * f <= at.index /\ at.index < (q + 1) * f
  BY <1>1, <1>2
<1> HIDE DEF q
<1>5. q < pow2[d] /\ pow2[d - 1] < q + 1
  <2>1. q * f < pow2[d] * f
    BY <1>1, <1>2, <1>4
  <2>2. pow2[d - 1] * f < (q + 1) * f
    BY <1>1, <1>2, <1>4
  <2> QED
    BY <1>2, <1>4, <2>1, <2>2, Cancel
<1>6. Ancestor(at, d) \in Positions
  BY <1>1, <1>2, <1>3, <1>4, <1>5, IsPosition
<1>7. Below(at, Ancestor(at, d))
  BY <1>1, <1>3, <1>4 DEF Below, f
<1> QED
  BY <1>3, <1>6, <1>7

\* The index alone determines a position.
LEMMA IndexIsUnique ==
  ASSUME Order \in Nat, NEW a \in Positions, NEW b \in Positions, a.index = b.index
  PROVE  a = b
<1>1. ASSUME NEW c \in Positions, NEW d \in Positions, c.index = d.index, c.depth < d.depth
      PROVE  FALSE
  <2>1. /\ c.index \in Nat /\ c.depth \in Nat /\ d.depth - 1 \in Nat /\ c.depth <= d.depth - 1
        /\ c.index < pow2[c.depth] /\ pow2[d.depth - 1] <= d.index
    BY <1>1, IsPosition
  <2>2. pow2[c.depth] <= pow2[d.depth - 1]
    BY Zenon, <2>1, Pow2Grows
  <2> QED
    BY <1>1, <2>1, <2>2, Pow2
<1>2. a.depth \in Nat /\ b.depth \in Nat
  BY IsPosition
<1>3. a.depth = b.depth
  BY <1>1, <1>2
<1> QED
  BY Zenon, <1>3, IsPosition

-----------------------------------------------------------------------------
(* The statuses of the positions, in a tree t *)

\* Statuses are numbers, up to the local offset of the position.
Statuses(t) ==
  /\ t \in [Indices -> Nat]
  /\ \A at \in Positions : t[at.index] <= local_offset(at)

\* What TreeConsistent asks for.
Consistent(t, at) ==
  LET left == t[2 * at.index]
      right == t[2 * at.index + 1]
  IN  IF left # 0 \/ right # 0
      THEN t[at.index] = (IF left <= right THEN left ELSE right) + 1
      ELSE t[at.index] \in {0, local_offset(at)}

\* The position itself is marked, not only positions below it.
OwnMark(t, at) ==
  /\ t[at.index] = local_offset(at)
  /\ at.depth < Order => t[2 * at.index] = 0 /\ t[2 * at.index + 1] = 0

\* The marks in t are those of the positions M, and all positions with children
\* are consistent, but for the one in X that is about to be repaired.
Exact(t, M, X) ==
  /\ Statuses(t)
  /\ M \subseteq Positions
  /\ \A at \in Positions \ X : at.depth < Order => Consistent(t, at)
  /\ \A at \in M : OwnMark(t, at)
  /\ \A at \in Positions \ X : OwnMark(t, at) => at \in M

\* What a position and its children hold.
LEMMA StatusTypes ==
  ASSUME Order \in Nat \ {0}, NEW t, Statuses(t), NEW at \in Positions
  PROVE  /\ t[at.index] \in 0..local_offset(at) /\ local_offset(at) \in 1..Order
         /\ at.depth < Order =>
              /\ left_child(at) \in Positions /\ right_child(at) \in Positions
              /\ left_child(at).index = 2 * at.index
              /\ right_child(at).index = 2 * at.index + 1
              /\ t[2 * at.index] \in 0 .. local_offset(at) - 1
              /\ t[2 * at.index + 1] \in 0 .. local_offset(at) - 1
<1>1. at.index \in Indices /\ at.depth \in 1..Order
  BY Zenon, IsPosition
<1>2. t[at.index] \in 0..local_offset(at) /\ local_offset(at) \in 1..Order
  BY <1>1 DEF Statuses, local_offset
<1>3. ASSUME at.depth < Order
      PROVE  /\ left_child(at) \in Positions /\ right_child(at) \in Positions
             /\ left_child(at).index = 2 * at.index
             /\ right_child(at).index = 2 * at.index + 1
             /\ t[2 * at.index] \in 0 .. local_offset(at) - 1
             /\ t[2 * at.index + 1] \in 0 .. local_offset(at) - 1
  <2>1. left_child(at) \in Positions /\ right_child(at) \in Positions
    BY Zenon, <1>3, Family
  <2>2. /\ left_child(at).index = 2 * at.index /\ right_child(at).index = 2 * at.index + 1
        /\ left_child(at).depth = at.depth + 1 /\ right_child(at).depth = at.depth + 1
    BY Zenon DEF left_child, right_child
  <2>3. /\ t[left_child(at).index] \in 0 .. local_offset(left_child(at))
        /\ t[right_child(at).index] \in 0 .. local_offset(right_child(at))
    BY <1>1, <2>1, <2>2, IsPosition DEF Statuses, local_offset
  <2>4. /\ local_offset(left_child(at)) = local_offset(at) - 1
        /\ local_offset(right_child(at)) = local_offset(at) - 1
    BY <1>1, <2>2 DEF local_offset
  <2> QED
    BY Zenon, <2>1, <2>2, <2>3, <2>4
<1> QED
  BY Zenon, <1>2, <1>3

\* A consistent position with a child in use is in use.
LEMMA UseShowsAbove ==
  ASSUME Order \in Nat \ {0}, NEW t, Statuses(t), NEW at \in Positions, at.depth < Order,
         Consistent(t, at), t[2 * at.index] # 0 \/ t[2 * at.index + 1] # 0
  PROVE  t[at.index] # 0
BY StatusTypes DEF Consistent

\* A status shows in every position above.
LEMMA UseShows ==
  ASSUME Order \in Nat \ {0}, NEW t, NEW M, Exact(t, M, {}),
         NEW b \in Positions, t[b.index] # 0, NEW a \in Positions, Below(b, a)
  PROVE  t[a.index] # 0
<1> DEFINE T == {k \in Nat : \E c \in Positions :
                   Below(b, c) /\ t[c.index] = 0 /\ k = b.depth - c.depth}
<1>1. \A c \in Positions : c.depth \in 1..Order
  BY Zenon, IsPosition
<1> SUFFICES ASSUME t[a.index] = 0 PROVE FALSE
  BY Zenon
<1>2. b.depth - a.depth \in T
  BY <1>1 DEF Below
<1>3. PICK x \in T : \A y \in T : x <= y
  BY Zenon, <1>2, Smallest
<1>4. PICK c \in Positions : Below(b, c) /\ t[c.index] = 0 /\ x = b.depth - c.depth
  BY Zenon, <1>3
<1>5. c.depth # b.depth
  BY Zenon, <1>4, BelowSelf, AboveUnique
<1>6. c.depth < b.depth /\ c.depth < Order
  BY <1>1, <1>4, <1>5 DEF Below
<1>7. PICK d \in {left_child(c), right_child(c)} : Below(b, d)
  BY Zenon, <1>4, <1>6, BelowChildren
<1>8. d \in Positions /\ d.depth = c.depth + 1 /\ d.index \in {2 * c.index, 2 * c.index + 1}
  <2>1. left_child(c) \in Positions /\ right_child(c) \in Positions
    BY Zenon, <1>6, Family
  <2> QED
    BY <1>7, <2>1 DEF left_child, right_child
<1>9. t[d.index] # 0
  <2> SUFFICES ASSUME t[d.index] = 0 PROVE FALSE
    BY Zenon
  <2>1. b.depth - d.depth \in T /\ b.depth - d.depth < x
    BY <1>1, <1>4, <1>6, <1>7, <1>8
  <2> HIDE DEF T
  <2> QED
    BY <1>1, <1>3, <1>4, <1>8, <2>1
<1>10. Consistent(t, c) /\ Statuses(t)
  BY Zenon, <1>6 DEF Exact
<1> QED
  BY Zenon, <1>4, <1>6, <1>8, <1>9, <1>10, UseShowsAbove

\* Under a position in use there is one that is marked itself.
LEMMA UseHasMark ==
  ASSUME Order \in Nat \ {0}, NEW t, NEW M, Exact(t, M, {}),
         NEW a \in Positions, t[a.index] # 0
  PROVE  \E m \in M : Below(m, a)
<1> DEFINE Bad(c) == t[c.index] # 0 /\ \A m \in M : ~Below(m, c)
           T == {k \in Nat : \E c \in Positions : Bad(c) /\ k = Order - c.depth}
<1>1. \A c \in Positions : c.depth \in 1..Order
  BY Zenon, IsPosition
<1> SUFFICES ASSUME Bad(a) PROVE FALSE
  BY Zenon
<1>2. Order - a.depth \in T
  BY <1>1
<1>3. PICK x \in T : \A y \in T : x <= y
  BY Zenon, <1>2, Smallest
<1>4. PICK c \in Positions : Bad(c) /\ x = Order - c.depth
  BY Zenon, <1>3
<1>5. Statuses(t) /\ M \subseteq Positions
  BY Zenon DEF Exact
<1>6. ~OwnMark(t, c)
  BY Zenon, <1>4, BelowSelf DEF Exact
<1>7. c.depth < Order
  <2> SUFFICES ASSUME c.depth = Order PROVE FALSE
    BY <1>1, <1>4
  <2>1. t[c.index] \in 0..local_offset(c) /\ local_offset(c) = 1
    BY <1>5, StatusTypes DEF local_offset
  <2>2. t[c.index] = local_offset(c)
    BY <1>4, <2>1
  <2> QED
    BY <1>6, <2>2 DEF OwnMark
<1>8. Consistent(t, c)
  BY Zenon, <1>7 DEF Exact
<1>9. PICK d \in {left_child(c), right_child(c)} : t[d.index] # 0
  <2>1. left_child(c).index = 2 * c.index /\ right_child(c).index = 2 * c.index + 1
    BY Zenon DEF left_child, right_child
  <2>2. t[2 * c.index] # 0 \/ t[2 * c.index + 1] # 0
    BY Zenon, <1>4, <1>6, <1>8 DEF Consistent, OwnMark
  <2> QED
    BY Zenon, <2>1, <2>2
<1>10. d \in Positions /\ d.depth = c.depth + 1
  <2>1. left_child(c) \in Positions /\ right_child(c) \in Positions
    BY Zenon, <1>7, Family
  <2> QED
    BY <1>9, <2>1 DEF left_child, right_child
<1>11. ~Bad(d)
  <2> SUFFICES ASSUME Bad(d) PROVE FALSE
    BY Zenon
  <2>1. Order - d.depth \in T /\ Order - d.depth < x
    BY <1>1, <1>4, <1>10
  <2> HIDE DEF T
  <2> QED
    BY <1>1, <1>3, <1>4, <1>10, <2>1
<1>12. PICK m \in M : Below(m, d)
  BY Zenon, <1>9, <1>11
<1>13. c.depth < m.depth /\ m \in Positions
  BY <1>1, <1>5, <1>10, <1>12 DEF Below
<1>14. Below(m, c)
  BY <1>9, <1>12, <1>13, BelowChildren
<1> QED
  BY Zenon, <1>4, <1>14

\* Positions that do not overlap.
Apart(M) == \A a, b \in M : a # b => ~Overlap(a, b)

\* A position that no mark touches has no status, nor have its children.
LEMMA UntouchedIsFree ==
  ASSUME Order \in Nat \ {0}, NEW t, NEW M, Exact(t, M, {}), NEW at \in Positions,
         \A m \in M : ~Overlap(at, m)
  PROVE  t[at.index] = 0
<1> SUFFICES ASSUME t[at.index] # 0 PROVE FALSE
  BY Zenon
<1>1. PICK m \in M : Below(m, at)
  BY Zenon, UseHasMark
<1>2. m \in Positions /\ at.depth <= m.depth
  BY Zenon, <1>1 DEF Exact, Below
<1> QED
  BY Zenon, <1>1, <1>2, OverlapIs

\* A free position has free children.
LEMMA FreeHasFreeChildren ==
  ASSUME Order \in Nat \ {0}, NEW t, NEW M, Exact(t, M, {}), NEW at \in Positions,
         t[at.index] = 0, at.depth < Order
  PROVE  t[2 * at.index] = 0 /\ t[2 * at.index + 1] = 0
<1>1. Statuses(t) /\ Consistent(t, at)
  BY Zenon DEF Exact
<1> QED
  BY Zenon, <1>1, UseShowsAbove

\* A status is stored.
Store(u, t, at, s) == u = [t EXCEPT ![at.index] = s]

\* Storing a status concerns the position and its parent only.
LEMMA StoreElsewhere ==
  ASSUME Order \in Nat \ {0}, NEW t, Statuses(t), NEW at \in Positions, NEW s,
         NEW u, Store(u, t, at, s),
         NEW a \in Positions, a # at, at.depth # 1 => a # parent(at)
  PROVE  /\ u[a.index] = t[a.index]
         /\ OwnMark(u, a) <=> OwnMark(t, a)
         /\ a.depth < Order => (Consistent(u, a) <=> Consistent(t, a))
<1>1. a.index # at.index
  BY Zenon, IndexIsUnique
<1>2. ASSUME a.depth < Order PROVE 2 * a.index # at.index /\ 2 * a.index + 1 # at.index
  <2>1. left_child(a) \in Positions /\ right_child(a) \in Positions
    BY Zenon, <1>2, Family
  <2>2. /\ a.index \in Nat \ {0} /\ a.depth \in Nat \ {0}
        /\ a = [index |-> a.index, depth |-> a.depth]
    BY IsPosition
  <2>3. ASSUME NEW c \in {left_child(a), right_child(a)} PROVE c # at
    <3>1. parent(c) = a /\ c.depth # 1
      BY <2>2 DEF left_child, right_child, parent
    <3> QED
      BY Zenon, <3>1
  <2>4. left_child(a).index # at.index /\ right_child(a).index # at.index
    BY Zenon, <2>1, <2>3, IndexIsUnique
  <2> QED
    BY Zenon, <2>4 DEF left_child, right_child
<1>3. \A i \in Indices : i # at.index => u[i] = t[i]
  BY Zenon DEF Statuses, Store
<1>4. /\ a.index \in Indices
      /\ a.depth < Order => 2 * a.index \in Indices /\ 2 * a.index + 1 \in Indices
  BY Family, IsPosition, StatusTypes
<1>5. OwnMark(u, a) <=> OwnMark(t, a)
  BY Zenon, <1>1, <1>2, <1>3, <1>4 DEF OwnMark
<1>6. a.depth < Order => (Consistent(u, a) <=> Consistent(t, a))
  BY Zenon, <1>1, <1>2, <1>3, <1>4 DEF Consistent
<1> QED
  BY Zenon, <1>1, <1>3, <1>4, <1>5, <1>6

\* Storing a status that the position may have.
LEMMA StoreTypes ==
  ASSUME Order \in Nat \ {0}, NEW t, Statuses(t), NEW at \in Positions,
         NEW s \in 0..local_offset(at), NEW u, Store(u, t, at, s)
  PROVE  /\ Statuses(u) /\ u[at.index] = s
         /\ at.depth < Order => /\ u[2 * at.index] = t[2 * at.index]
                                /\ u[2 * at.index + 1] = t[2 * at.index + 1]
<1>1. at.index \in Indices /\ at.index \in Nat \ {0} /\ at.depth \in Nat
  BY IsPosition
<1>2. u \in [Indices -> Nat] /\ u[at.index] = s
  BY <1>1, StatusTypes DEF Statuses, Store
<1>3. ASSUME NEW a \in Positions PROVE u[a.index] <= local_offset(a)
  <2>1. CASE a = at
    BY <1>2, <2>1, StatusTypes
  <2>2. CASE a # at
    <3>1. a.index # at.index /\ a.index \in Indices
      BY Zenon, <2>2, IndexIsUnique, IsPosition
    <3> QED
      BY Zenon, <3>1 DEF Statuses, Store
  <2> QED
    BY Zenon, <2>1, <2>2
<1>4. ASSUME at.depth < Order
      PROVE  u[2 * at.index] = t[2 * at.index] /\ u[2 * at.index + 1] = t[2 * at.index + 1]
  <2>1. 2 * at.index \in Indices /\ 2 * at.index + 1 \in Indices
    BY Zenon, <1>4, IsPosition, StatusTypes
  <2>2. 2 * at.index # at.index /\ 2 * at.index + 1 # at.index
    BY <1>1
  <2> QED
    BY Zenon, <2>1, <2>2 DEF Statuses, Store
<1> QED
  BY Zenon, <1>2, <1>3, <1>4 DEF Statuses

\* The position that is repaired after a store at a position.
Pending(at) == IF at.index = 1 THEN {} ELSE {parent(at)}

\* A store at a position that no mark is above.
LEMMA StoreKeeps ==
  ASSUME Order \in Nat \ {0}, NEW t, NEW M, NEW X, NEW N, NEW at \in Positions,
         Exact(t, M, X), X \subseteq {at}, NEW s \in 0..local_offset(at),
         NEW u, Store(u, t, at, s),
         N \in {M \cup {at}, M \ {at}}, at.index # 1 => parent(at) \notin M,
         at.depth < Order => Consistent(u, at), OwnMark(u, at) <=> at \in N
  PROVE  Exact(u, N, Pending(at))
<1>1. Statuses(t) /\ Statuses(u) /\ M \subseteq Positions /\ N \subseteq Positions
  BY Zenon, StoreTypes DEF Exact
<1>2. at.depth # 1 <=> at.index # 1
  BY Zenon, Family
<1>3. ASSUME NEW a \in Positions, a # at, a \notin Pending(at)
      PROVE  /\ OwnMark(u, a) <=> OwnMark(t, a)
             /\ a.depth < Order => (Consistent(u, a) <=> Consistent(t, a))
  BY <1>1, <1>2, <1>3, StoreElsewhere DEF Pending
<1>4. ASSUME NEW a \in Positions \ Pending(at), a.depth < Order PROVE Consistent(u, a)
  <2>1. CASE a = at
    BY Zenon, <1>4, <2>1
  <2>2. CASE a # at
    BY Zenon, <1>3, <1>4, <2>2 DEF Exact
  <2> QED
    BY Zenon, <2>1, <2>2
<1>5. ASSUME NEW a \in N PROVE OwnMark(u, a)
  <2>1. CASE a = at
    BY Zenon, <2>1
  <2>2. CASE a # at
    <3>1. a \in M /\ a \in Positions
      BY <1>1, <2>2
    <3>2. a \notin Pending(at)
      BY Zenon, <3>1 DEF Pending
    <3> QED
      BY Zenon, <1>3, <2>2, <3>1, <3>2 DEF Exact
  <2> QED
    BY Zenon, <2>1, <2>2
<1>6. ASSUME NEW a \in Positions \ Pending(at), OwnMark(u, a) PROVE a \in N
  <2>1. CASE a = at
    BY Zenon, <1>6, <2>1
  <2>2. CASE a # at
    BY Zenon, <1>3, <1>6, <2>2 DEF Exact
  <2> QED
    BY Zenon, <2>1, <2>2
<1> QED
  BY Zenon, <1>1, <1>4, <1>5, <1>6 DEF Exact

\* The parent of what is above a position is above it, and another position.
LEMMA AboveParent ==
  ASSUME Order \in Nat \ {0}, NEW b \in Positions, NEW at \in Positions, Below(b, at),
         at.index # 1
  PROVE  /\ parent(at) \in Positions /\ parent(at).depth < Order
         /\ Below(b, parent(at)) /\ parent(at) # b /\ Overlap(parent(at), b)
<1>1. at.depth # 1
  BY Zenon, Family
<1>2. /\ parent(at) \in Positions /\ parent(at).depth = at.depth - 1 /\ parent(at).depth < Order
      /\ at \in {left_child(parent(at)), right_child(parent(at))}
  BY Zenon, <1>1, Family
<1>3. at.depth \in Nat /\ b.depth \in Nat /\ at.depth <= b.depth
  BY IsPosition DEF Below
<1>4. parent(at).depth < b.depth
  BY <1>2, <1>3
<1>5. Below(b, parent(at))
  BY Zenon, <1>2, <1>4, BelowChildren
<1>6. Overlap(parent(at), b)
  BY <1>2, <1>3, <1>4, <1>5, OverlapIs
<1> QED
  BY <1>2, <1>3, <1>4, <1>5, <1>6

\* buddy_tree_mark on a position that nothing touches: the tree is exact again
\* but for the parent.
LEMMA MarkExact ==
  ASSUME Order \in Nat \ {0}, NEW t, NEW M, NEW at \in Positions, Exact(t, M, {}),
         \A m \in M : ~Overlap(at, m), NEW u, Store(u, t, at, local_offset(at))
  PROVE  Exact(u, M \cup {at}, Pending(at))
<1> DEFINE s == local_offset(at)
<1>0. Store(u, t, at, s)
  BY Zenon
<1>1. Statuses(t) /\ M \subseteq Positions
  BY Zenon DEF Exact
<1>2. s \in 0..local_offset(at)
  BY <1>1, StatusTypes
<1> HIDE DEF s
<1>3. /\ u[at.index] = s
      /\ at.depth < Order => u[2 * at.index] = t[2 * at.index]
                             /\ u[2 * at.index + 1] = t[2 * at.index + 1]
  BY <1>0, <1>1, <1>2, StoreTypes
<1>4. at.depth < Order => t[2 * at.index] = 0 /\ t[2 * at.index + 1] = 0
  BY Zenon, UntouchedIsFree, FreeHasFreeChildren
<1>5. OwnMark(u, at)
  BY Zenon, <1>3, <1>4 DEF OwnMark, s
<1>6. at.depth < Order => Consistent(u, at)
  BY Zenon, <1>3, <1>4 DEF Consistent, s
<1>7. ASSUME at.index # 1 PROVE parent(at) \notin M
  <2>1. parent(at) \in Positions /\ parent(at).depth <= at.depth /\ Below(at, parent(at))
    BY Zenon, <1>7, AboveParent, BelowSelf DEF Below
  <2>2. Overlap(at, parent(at))
    BY Zenon, <2>1, OverlapIs
  <2> QED
    BY Zenon, <2>2
<1> QED
  <2> DEFINE N == M \cup {at}
             X == {}
  <2>1. /\ N \in {M \cup {at}, M \ {at}} /\ X \subseteq {at} /\ Exact(t, M, X)
        /\ OwnMark(u, at) <=> at \in N
    BY Zenon, <1>5
  <2> HIDE DEF N, X
  <2>2. Exact(u, N, Pending(at))
    BY Zenon, <1>0, <1>2, <1>6, <1>7, <2>1, StoreKeeps
  <2> QED
    BY Zenon, <2>2 DEF N

\* buddy_tree_release on a position that is marked.
LEMMA ReleaseExact ==
  ASSUME Order \in Nat \ {0}, NEW t, NEW M, NEW at \in M, Exact(t, M, {}), Apart(M),
         NEW u, Store(u, t, at, 0)
  PROVE  Exact(u, M \ {at}, Pending(at))
<1> DEFINE s == 0
<1>0. Store(u, t, at, s)
  BY Zenon
<1>1. Statuses(t) /\ at \in Positions /\ OwnMark(t, at)
  BY Zenon DEF Exact
<1>2. local_offset(at) \in Nat \ {0} /\ s \in 0..local_offset(at)
  BY <1>1, StatusTypes
<1> HIDE DEF s
<1>3. /\ u[at.index] = s
      /\ at.depth < Order => u[2 * at.index] = t[2 * at.index]
                             /\ u[2 * at.index + 1] = t[2 * at.index + 1]
  BY <1>0, <1>1, <1>2, StoreTypes
<1>4. ~OwnMark(u, at)
  BY Zenon, <1>2, <1>3 DEF OwnMark, s
<1>5. at.depth < Order => Consistent(u, at)
  BY Zenon, <1>1, <1>3 DEF Consistent, OwnMark, s
<1>6. at.index # 1 => parent(at) \notin M
  BY Zenon, <1>1, AboveParent, BelowSelf DEF Apart
<1> QED
  <2> DEFINE N == M \ {at}
             X == {}
  <2>1. /\ N \in {M \cup {at}, M \ {at}} /\ X \subseteq {at} /\ Exact(t, M, X)
        /\ OwnMark(u, at) <=> at \in N
    BY Zenon, <1>4
  <2> HIDE DEF N, X
  <2>2. Exact(u, N, Pending(at))
    BY Zenon, <1>0, <1>1, <1>2, <1>5, <1>6, <2>1, StoreKeeps
  <2> QED
    BY Zenon, <2>2 DEF N

\* The status that update_parent_chain gives a position.
TargetOf(t, at) == target_parent(t[2 * at.index], t[2 * at.index + 1])

\* It makes the position consistent, and is no mark.
LEMMA TargetIs ==
  ASSUME Order \in Nat \ {0}, NEW t, Statuses(t), NEW at \in Positions, at.depth < Order,
         t[at.index] = TargetOf(t, at)
  PROVE  Consistent(t, at) /\ ~OwnMark(t, at)
<1>1. /\ local_offset(at) \in Nat \ {0}
      /\ t[2 * at.index] \in Nat /\ t[2 * at.index + 1] \in Nat
  BY StatusTypes
<1> QED
  BY Zenon, <1>1 DEF Consistent, OwnMark, TargetOf, target_parent

\* A turn of update_parent_chain that stores.
LEMMA RepairExact ==
  ASSUME Order \in Nat \ {0}, NEW t, NEW M, NEW at \in Positions, at.depth < Order,
         Exact(t, M, {at}), at \notin M, at.index # 1 => parent(at) \notin M,
         NEW u, Store(u, t, at, TargetOf(t, at))
  PROVE  Exact(u, M, Pending(at))
<1> DEFINE s == TargetOf(t, at)
<1>0. Store(u, t, at, s)
  BY Zenon
<1>1. Statuses(t)
  BY Zenon DEF Exact
<1>2. s \in 0..local_offset(at)
  BY <1>1, StatusTypes DEF TargetOf, target_parent
<1> HIDE DEF s
<1>3. /\ Statuses(u) /\ u[at.index] = s
      /\ u[2 * at.index] = t[2 * at.index] /\ u[2 * at.index + 1] = t[2 * at.index + 1]
  BY <1>0, <1>1, <1>2, StoreTypes
<1>4. u[at.index] = TargetOf(u, at)
  BY Zenon, <1>3 DEF TargetOf, s
<1>5. Consistent(u, at) /\ ~OwnMark(u, at)
  BY Zenon, <1>3, <1>4, TargetIs
<1>6. M \in {M \cup {at}, M \ {at}} /\ {at} \subseteq {at} /\ (OwnMark(u, at) <=> at \in M)
  BY Zenon, <1>5
<1> QED
  BY Zenon, <1>0, <1>2, <1>5, <1>6, StoreKeeps

\* A turn that finds the position right.
LEMMA RepairDone ==
  ASSUME Order \in Nat \ {0}, NEW t, NEW M, NEW at \in Positions, at.depth < Order,
         Exact(t, M, {at}), t[at.index] = TargetOf(t, at)
  PROVE  Exact(t, M, {})
<1>1. Consistent(t, at) /\ ~OwnMark(t, at)
  BY Zenon, TargetIs DEF Exact
<1> QED
  BY Zenon, <1>1 DEF Exact

\* What does not touch a position does not touch what is below it.
LEMMA ApartDown ==
  ASSUME Order \in Nat, NEW a \in Positions, NEW b \in Positions, Below(b, a),
         NEW m, ~Overlap(m, a)
  PROVE  ~Overlap(m, b)
<1>1. Interval(b) \subseteq Interval(a)
  BY Zenon, OverlapIs DEF Below
<1> QED
  BY Zenon, <1>1 DEF Overlap

\* Two children of a position do not overlap.
LEMMA ChildrenApart ==
  ASSUME Order \in Nat \ {0}, NEW a \in Positions, a.depth < Order
  PROVE  ~Overlap(right_child(a), left_child(a))
<1> SUFFICES ASSUME Overlap(right_child(a), left_child(a)) PROVE FALSE
  BY Zenon
<1>1. left_child(a) \in Positions /\ right_child(a) \in Positions
  BY Zenon, Family
<1>2. left_child(a).depth = right_child(a).depth /\ a.index \in Nat /\ a.depth \in Nat
  BY IsPosition DEF left_child, right_child
<1>3. left_child(a).depth <= right_child(a).depth
  BY <1>2 DEF left_child, right_child
<1>4. Below(right_child(a), left_child(a))
  BY Zenon, <1>1, <1>3, OverlapIs
<1>5. left_child(a) = right_child(a)
  BY Zenon, <1>1, <1>2, <1>4, BelowSelf, AboveUnique
<1> QED
  BY <1>2, <1>5 DEF left_child, right_child

\* Children are below their position.
LEMMA ChildBelow ==
  ASSUME Order \in Nat \ {0}, NEW a \in Positions, a.depth < Order,
         NEW c \in {left_child(a), right_child(a)}
  PROVE  c \in Positions /\ c.depth = a.depth + 1 /\ Below(c, a)
<1>1. c \in Positions
  BY Zenon, Family
<1>2. c.depth = a.depth + 1 /\ a.depth \in Nat
  BY IsPosition DEF left_child, right_child
<1> QED
  BY <1>1, <1>2, BelowSelf, BelowChildren

-----------------------------------------------------------------------------
(* Loops *)

\* The history of a loop that starts from a and changes a value of A in every
\* turn, by a function of its own.
History(f, lo, hi, A, a, G) ==
  /\ f \in [lo..hi -> A] /\ f[lo] = a
  /\ \A i \in (lo + 1)..hi : f[i] = G[i][f[i - 1]]

\* Every loop has a history.
LEMMA Iterate ==
  ASSUME NEW lo \in Nat, NEW hi \in Nat, lo <= hi, NEW A, NEW a \in A,
         NEW G, G \in [(lo + 1)..hi -> [A -> A]]
  PROVE  \E f : History(f, lo, hi, A, a, G)
<1> DEFINE Ok(f, k) == History(f, lo, k, A, a, G)
           Has(k) == \E f : Ok(f, k)
           T == {k \in Nat : lo <= k /\ k <= hi /\ ~Has(k)}
<1>0. SUFFICES Has(hi)
  BY Zenon
<1> HIDE DEF Ok, Has
<1> SUFFICES ASSUME T # {} PROVE FALSE
  OBVIOUS
<1>1. PICK x \in T : \A y \in T : x <= y
  BY Zenon, Smallest
<1>2. x # lo
  <2>1. Ok([i \in lo..lo |-> a], lo)
    BY DEF Ok, History
  <2> QED
    BY Zenon, <1>1, <2>1 DEF Has
<1>3. x - 1 \in Nat /\ lo <= x - 1 /\ x - 1 <= hi /\ x - 1 \notin T
  BY <1>1, <1>2
<1>4. PICK f : Ok(f, x - 1)
  BY Zenon, <1>1, <1>3 DEF Has
<1> DEFINE g == [i \in lo..x |-> IF i = x THEN G[x][f[x - 1]] ELSE f[i]]
<1>5. x \in (lo + 1)..hi /\ f[x - 1] \in A
  <2>1. x \in (lo + 1)..hi /\ x - 1 \in lo .. x - 1
    BY <1>1, <1>2
  <2> QED
    BY Zenon, <1>4, <2>1 DEF Ok, History
<1>6. g \in [lo..x -> A]
  BY <1>3, <1>4, <1>5 DEF Ok, History
<1>7. g[lo] = a
  BY <1>3, <1>4 DEF Ok, History
<1>8. ASSUME NEW i \in (lo + 1)..x PROVE g[i] = G[i][g[i - 1]]
  <2>1. CASE i = x
    BY <1>3, <1>5, <2>1
  <2>2. CASE i # x
    BY <1>3, <1>4, <1>5, <2>2 DEF Ok, History
  <2> QED
    BY Zenon, <2>1, <2>2
<1>9. Ok(g, x)
  BY Zenon, <1>6, <1>7, <1>8 DEF Ok, History
<1> QED
  BY Zenon, <1>1, <1>9 DEF Has

-----------------------------------------------------------------------------
(* The masked end of the memory *)

\* Multiplying undoes a division.
LEMMA DivProduct ==
  ASSUME NEW m \in Nat, NEW n \in Nat \ {0} PROVE (m * n) \div n = m
OBVIOUS

\* The blocks that a position of a depth covers.
LEMMA Sizes ==
  ASSUME Order \in Nat \ {0}, NEW d \in 1..Order
  PROVE  /\ size_for_depth(d) = pow2[Order - d]
         /\ size_for_depth(d) \in Nat \ {0}
         /\ d < Order => size_for_depth(d) = 2 * size_for_depth(d + 1)
<1>1. ASSUME NEW e \in 1..Order
      PROVE  size_for_depth(e) = pow2[Order - e] /\ pow2[Order - e] \in Nat \ {0}
  <2>1. Order - e \in Nat /\ e - 1 \in Nat /\ (Order - e) + (e - 1) = Order - 1
    OBVIOUS
  <2>2. pow2[Order - e] \in Nat \ {0} /\ pow2[e - 1] \in Nat \ {0}
    BY Zenon, <2>1, Pow2
  <2>3. effective_memory_size = pow2[Order - e] * pow2[e - 1]
    BY Zenon, <2>1, Pow2Sum DEF effective_memory_size
  <2>4. size_for_depth(e) = (pow2[Order - e] * pow2[e - 1]) \div pow2[e - 1]
    BY Zenon, <2>3 DEF size_for_depth
  <2> QED
    BY Zenon, <2>2, <2>4, DivProduct
<1>2. ASSUME d < Order PROVE size_for_depth(d) = 2 * size_for_depth(d + 1)
  <2>1. d + 1 \in 1..Order /\ Order - (d + 1) \in Nat /\ Order - d = (Order - (d + 1)) + 1
    BY <1>2
  <2>2. pow2[Order - d] = 2 * pow2[Order - (d + 1)]
    BY Zenon, <2>1, Pow2
  <2> QED
    BY Zenon, <1>1, <2>1, <2>2
<1> QED
  BY Zenon, <1>1, <1>2

\* The loop of buddy_toggle_virtual_slots.
LEMMA TurnDef ==
  ASSUME OrderFits, NEW d \in 2..Order
  PROVE  Turn[d] = IF d = 2 THEN [at |-> right_child(root), delta |-> effective_memory_size - MemSize]
                   ELSE NextTurn(Turn[d - 1])
<1> DEFINE P == [index : Nat, depth : Nat \ {0}]
           A == [at : P, delta : Int]
           first == [at |-> right_child(root), delta |-> effective_memory_size - MemSize]
           G == [k \in 3..Order |-> [turn \in A |-> NextTurn(turn)]]
<1>1. Order \in Nat /\ 2 \in Nat /\ 2 <= Order /\ effective_memory_size \in Nat /\ MemSize \in Nat
  BY Pow2 DEF OrderFits, effective_memory_size
<1>2. first \in A
  BY <1>1 DEF right_child, root
<1>3. ASSUME NEW turn \in A PROVE NextTurn(turn) \in A
  <2>1. turn.at.index \in Nat /\ turn.at.depth \in Nat \ {0} /\ turn.delta \in Int
    BY Zenon
  <2>2. left_child(turn.at) \in P /\ right_child(turn.at) \in P
    BY <2>1 DEF left_child, right_child
  <2>3. pow2[turn.at.depth - 1] \in Nat \ {0}
    BY <2>1, Pow2
  <2>4. size_for_depth(turn.at.depth) \in Int /\ size_for_depth(turn.at.depth) \div 2 \in Int
    BY <1>1, <2>3 DEF size_for_depth
  <2> HIDE DEF P
  <2> QED
    BY <2>1, <2>2, <2>4 DEF NextTurn
<1>4. G \in [(2 + 1)..Order -> [A -> A]]
  BY <1>3
<1> HIDE DEF A, first, G
<1>5. PICK f : History(f, 2, Order, A, first, G)
  BY Zenon, <1>1, <1>2, <1>4, Iterate
<1>6. ASSUME NEW k \in 2..Order PROVE f[k] = IF k = 2 THEN first ELSE NextTurn(f[k - 1])
  <2>1. CASE k = 2
    BY Zenon, <1>5, <2>1 DEF History
  <2>2. CASE k # 2
    <3>1. k \in 3..Order /\ k - 1 \in 2..Order
      BY <1>1, <2>2
    <3>2. f[k - 1] \in A
      BY Zenon, <1>5, <3>1 DEF History
    <3> QED
      <4>1. G[k][f[k - 1]] = NextTurn(f[k - 1])
        BY Zenon, <3>1, <3>2 DEF G
      <4> QED
        BY <1>5, <2>2, <3>1, <4>1 DEF History
  <2> QED
    BY Zenon, <2>1, <2>2
<1>7. f = [k \in 2..Order |-> IF k = 2 THEN first ELSE NextTurn(f[k - 1])]
  BY Zenon, <1>5, <1>6 DEF History
<1>8. Turn = [k \in 2..Order |-> IF k = 2 THEN first ELSE NextTurn(Turn[k - 1])]
  BY Zenon, <1>7 DEF Turn, first
<1> QED
  BY Zenon, <1>8 DEF first

\* A turn looks at a position of its depth, and what is yet to mask fits there.
TurnFits(turn, d) ==
  /\ turn.at \in Positions /\ turn.at.depth = d
  /\ turn.delta \in 0..size_for_depth(d)

\* No turn before d has masked anything of what turn d looks at.
Unmasked(d) ==
  Turn[d].delta # 0 =>
    \A j \in 2 .. d - 1 : \A v \in Masks(Turn[j]) : ~Overlap(v, Turn[d].at)

\* The next turn fits, and looks at a child that this turn does not mask.
LEMMA NextTurnFits ==
  ASSUME OrderFits, NEW d \in 1..Order, d < Order, NEW turn, TurnFits(turn, d)
  PROVE  /\ TurnFits(NextTurn(turn), d + 1)
         /\ NextTurn(turn).at \in {left_child(turn.at), right_child(turn.at)}
         /\ NextTurn(turn).delta # 0 =>
              turn.delta # 0 /\ \A v \in Masks(turn) : ~Overlap(v, NextTurn(turn).at)
<1>1. Order \in Nat \ {0}
  BY Zenon DEF OrderFits
<1> DEFINE half == size_for_depth(d + 1)
<1>2. d \in 1..Order /\ d + 1 \in 1..Order
  BY <1>1
<1>3. size_for_depth(d) = 2 * half /\ half \in Nat \ {0} /\ size_for_depth(d) \div 2 = half
  BY <1>1, <1>2, Sizes
<1> HIDE DEF half
<1>4. /\ turn.at \in Positions /\ turn.at.depth = d /\ turn.delta \in 0 .. 2 * half
      /\ turn.at.depth < Order
  BY Zenon, <1>3 DEF TurnFits
<1>5. ASSUME NEW c \in {left_child(turn.at), right_child(turn.at)}
      PROVE  c \in Positions /\ c.depth = d + 1
  BY Zenon, <1>1, <1>4, ChildBelow
<1>6. ~Overlap(right_child(turn.at), left_child(turn.at))
  BY Zenon, <1>1, <1>4, ChildrenApart
<1>7. CASE turn.delta = 2 * half
  <2>1. NextTurn(turn) = [at |-> right_child(turn.at), delta |-> 0]
    BY Zenon, <1>3, <1>4, <1>7 DEF NextTurn
  <2> QED
    BY <1>3, <1>5, <2>1 DEF TurnFits, half
<1>8. CASE turn.delta # 2 * half /\ turn.delta <= half
  <2>1. NextTurn(turn) = [at |-> right_child(turn.at), delta |-> turn.delta]
    BY Zenon, <1>3, <1>4, <1>8 DEF NextTurn
  <2>2. Masks(turn) = {}
    BY Zenon, <1>3, <1>4, <1>8 DEF Masks
  <2> QED
    BY <1>3, <1>4, <1>5, <1>8, <2>1, <2>2 DEF TurnFits, half
<1>9. CASE turn.delta # 2 * half /\ turn.delta > half
  <2>1. NextTurn(turn) = [at |-> left_child(turn.at), delta |-> turn.delta - half]
    BY <1>3, <1>4, <1>9 DEF NextTurn
  <2>2. Masks(turn) = {right_child(turn.at)}
    BY <1>3, <1>4, <1>9 DEF Masks
  <2>3. turn.delta - half \in 0..half /\ turn.delta # 0
    BY <1>3, <1>4, <1>9
  <2> QED
    BY <1>5, <1>6, <2>1, <2>2, <2>3 DEF TurnFits, half
<1> QED
  BY <1>3, <1>4, <1>7, <1>8, <1>9

\* What a turn masks is one position, below the one it looks at.
LEMMA MasksBelow ==
  ASSUME OrderFits, NEW d \in 2..Order, NEW turn, TurnFits(turn, d)
  PROVE  /\ \A v \in Masks(turn) : v \in Positions /\ Below(v, turn.at) /\ turn.delta # 0
         /\ \A v, w \in Masks(turn) : v = w
<1>1. Order \in Nat \ {0} /\ d \in 1..Order
  BY DEF OrderFits
<1>2. /\ turn.at \in Positions /\ turn.at.depth = d /\ turn.delta \in 0..size_for_depth(d)
      /\ size_for_depth(d) \in Nat
  BY Zenon, <1>1, Sizes DEF TurnFits
<1>3. ASSUME turn.delta # size_for_depth(d), ~(turn.delta <= size_for_depth(d) \div 2)
      PROVE  d < Order
  <2> SUFFICES ASSUME d = Order PROVE FALSE
    BY <1>1
  <2>1. size_for_depth(d) = pow2[0]
    BY <1>1, Sizes
  <2>2. size_for_depth(d) = 1
    BY Zenon, <2>1, Pow2
  <2> QED
    BY <1>2, <1>3, <2>2
<1>4. \A v \in Masks(turn) : turn.delta # 0
  BY Zenon, <1>2 DEF Masks
<1>5. \A v, w \in Masks(turn) : v = w
  BY Zenon DEF Masks
<1>6. ASSUME NEW v \in Masks(turn) PROVE v \in Positions /\ Below(v, turn.at)
  <2>1. CASE v = turn.at
    BY Zenon, <1>1, <1>2, <2>1, BelowSelf
  <2>2. CASE v # turn.at
    <3>1. /\ v = right_child(turn.at)
          /\ turn.delta # size_for_depth(d) /\ ~(turn.delta <= size_for_depth(d) \div 2)
      BY Zenon, <1>2, <1>6, <2>2 DEF Masks
    <3> QED
      BY Zenon, <1>1, <1>2, <1>3, <3>1, ChildBelow
  <2> QED
    BY Zenon, <2>1, <2>2
<1> QED
  BY Zenon, <1>4, <1>5, <1>6

\* Every turn fits, and looks where nothing is masked yet.
LEMMA TurnsFit ==
  ASSUME OrderFits, NEW d \in 2..Order PROVE TurnFits(Turn[d], d) /\ Unmasked(d)
<1>1. Order \in Nat \ {0} /\ MemSize \in Nat /\ effective_memory_size = size_for_depth(1)
      /\ 1 \in 1..Order
  <2>1. Order \in Nat \ {0} /\ MemSize \in Nat /\ 1 \in 1..Order
    BY Pow2 DEF OrderFits, effective_memory_size
  <2> QED
    BY Zenon, <2>1, Sizes DEF effective_memory_size
<1> DEFINE Good(k) == TurnFits(Turn[k], k) /\ Unmasked(k)
           T == {k \in Nat : k \in 2..Order /\ ~Good(k)}
<1> HIDE DEF Good
<1> SUFFICES ASSUME T # {} PROVE FALSE
  BY <1>1 DEF Good
<1>2. PICK x \in T : \A y \in T : x <= y
  BY Zenon, Smallest
<1>3. CASE x = 2
  <2>1. Turn[2] = [at |-> right_child(root), delta |-> effective_memory_size - MemSize]
    BY Zenon, <1>2, <1>3, TurnDef
  <2>2. right_child(root) \in Positions /\ right_child(root).depth = 2
    <3>1. root \in Positions /\ root.depth < Order /\ root.depth = 1
      BY <1>1, <1>2, <1>3, Family DEF root
    <3> QED
      BY <1>1, <3>1, ChildBelow
  <2>3. size_for_depth(1) = 2 * size_for_depth(2) /\ size_for_depth(2) \in Nat
    BY <1>1, <1>2, <1>3, Sizes
  <2>4. effective_memory_size - MemSize \in 0..size_for_depth(2)
    BY <1>1, <2>3 DEF OrderFits
  <2>5. TurnFits(Turn[2], 2)
    BY <2>1, <2>2, <2>4 DEF TurnFits
  <2>6. Unmasked(2)
    BY DEF Unmasked
  <2> QED
    BY Zenon, <1>2, <1>3, <2>5, <2>6 DEF Good
<1>4. CASE x # 2
  <2> DEFINE k == x - 1
  <2>1. k \in 2..Order /\ k \in 1..Order /\ k < Order /\ x = k + 1 /\ k \in Nat /\ k \notin T
    BY <1>1, <1>2, <1>4
  <2>2. TurnFits(Turn[k], k) /\ Unmasked(k)
    BY Zenon, <2>1 DEF Good
  <2>3. Turn[x] = NextTurn(Turn[k])
    BY Zenon, <1>2, <1>4, TurnDef
  <2> HIDE DEF k, T
  <2>4. /\ TurnFits(Turn[x], x)
        /\ Turn[x].at \in {left_child(Turn[k].at), right_child(Turn[k].at)}
        /\ Turn[x].delta # 0 =>
             Turn[k].delta # 0 /\ \A v \in Masks(Turn[k]) : ~Overlap(v, Turn[x].at)
    BY Zenon, <2>1, <2>2, <2>3, NextTurnFits
  <2>5. Turn[k].at \in Positions /\ Turn[k].at.depth < Order
    BY Zenon, <2>1, <2>2 DEF TurnFits
  <2>6. Turn[x].at \in Positions /\ Below(Turn[x].at, Turn[k].at)
    BY Zenon, <1>1, <2>4, <2>5, ChildBelow
  <2>7. ASSUME Turn[x].delta # 0, NEW j \in 2 .. x - 1, NEW v \in Masks(Turn[j])
        PROVE  ~Overlap(v, Turn[x].at)
    <3>1. CASE j = k
      BY Zenon, <2>4, <2>7, <3>1
    <3>2. CASE j # k
      <4>1. j \in 2 .. k - 1
        BY <2>1, <3>2
      <4>2. ~Overlap(v, Turn[k].at)
        BY Zenon, <2>2, <2>4, <2>7, <4>1 DEF Unmasked
      <4> QED
        BY Zenon, <1>1, <2>5, <2>6, <4>2, ApartDown
    <3> QED
      BY Zenon, <3>1, <3>2
  <2>8. Unmasked(x)
    BY Zenon, <2>7 DEF Unmasked
  <2> QED
    BY Zenon, <1>2, <2>4, <2>8 DEF Good, T
<1> QED
  BY Zenon, <1>3, <1>4

\* The masked positions do not overlap.
LEMMA VirtualApart == ASSUME OrderFits PROVE Virtual \subseteq Positions /\ Apart(Virtual)
<1>1. Order \in Nat \ {0}
  BY Zenon DEF OrderFits
<1>2. ASSUME NEW d \in 2..Order, NEW v \in Masks(Turn[d]) PROVE v \in Positions
  BY Zenon, TurnsFit, MasksBelow
<1>3. ASSUME NEW d \in 2..Order, NEW e \in 2..Order, d < e,
             NEW v \in Masks(Turn[d]), NEW w \in Masks(Turn[e])
      PROVE  ~Overlap(v, w)
  <2>1. TurnFits(Turn[e], e) /\ Unmasked(e)
    BY Zenon, TurnsFit
  <2>2. w \in Positions /\ Below(w, Turn[e].at) /\ Turn[e].delta # 0
    BY Zenon, <2>1, MasksBelow
  <2>3. d \in 2 .. e - 1
    BY <1>1, <1>3
  <2>4. ~Overlap(v, Turn[e].at) /\ Turn[e].at \in Positions
    BY Zenon, <2>1, <2>2, <2>3 DEF Unmasked, TurnFits
  <2> QED
    BY Zenon, <1>1, <2>2, <2>4, ApartDown
<1>4. ASSUME NEW d \in 2..Order, NEW e \in 2..Order, NEW v \in Masks(Turn[d]),
             NEW w \in Masks(Turn[e]), v # w
      PROVE  ~Overlap(v, w)
  <2>1. CASE d = e
    BY Zenon, <1>4, <2>1, TurnsFit, MasksBelow
  <2>2. CASE d < e
    BY Zenon, <1>3, <2>2
  <2>3. CASE e < d
    BY Zenon, <1>3, <2>3 DEF Overlap
  <2> QED
    BY <1>1, <2>1, <2>2, <2>3
<1>5. \A v \in Virtual : \E d \in 2..Order : v \in Masks(Turn[d])
  BY Zenon DEF Virtual
<1> QED
  BY Zenon, <1>2, <1>4, <1>5 DEF Apart

-----------------------------------------------------------------------------
(* Searching *)

\* The loop of depth_for_size ends.
LEMMA DepthForSize ==
  ASSUME OrderFits, NEW size \in Nat \ {0}
  PROVE  /\ depth_for_size(size) \in 1..Order
         /\ size_for_depth(depth_for_size(size)) \div size < 2
         /\ \A e \in 1 .. depth_for_size(size) - 1 : size_for_depth(e) \div size >= 2
<1>1. Order \in Nat \ {0}
  BY Zenon DEF OrderFits
<1> DEFINE T == {d \in Nat : d \in 1..Order /\ size_for_depth(d) \div size < 2}
<1>2. Order \in T
  <2>1. size_for_depth(Order) = pow2[0]
    BY <1>1, Sizes
  <2>2. size_for_depth(Order) = 1
    BY Zenon, <2>1, Pow2
  <2>3. 1 \div size < 2
    OBVIOUS
  <2> QED
    BY <1>1, <2>2, <2>3
<1>3. PICK d \in T : \A e \in T : d <= e
  BY Zenon, <1>2, Smallest
<1>4. ASSUME NEW e \in 1 .. d - 1 PROVE size_for_depth(e) \div size >= 2
  <2>1. e \in 1..Order /\ e \notin T /\ e \in Nat
    BY <1>1, <1>3
  <2>2. size_for_depth(e) \div size \in Int
    BY <1>1, <2>1, Sizes
  <2> QED
    BY <2>1, <2>2
<1>5. d \in 1..Order /\ size_for_depth(d) \div size < 2
  BY Zenon, <1>3
<1> HIDE DEF T
<1> QED
  BY Zenon, <1>4, <1>5 DEF depth_for_size

\* The way down of buddy_tree_find_free.
IsPath(f, target) ==
  /\ f \in [1..target -> Positions] /\ f[1] = root
  /\ \A d \in 2..target : f[d] = Descend(f[d - 1], target - d)
  /\ \A d \in 1..target : f[d].depth = d

\* The search follows such a path to its end.
LEMMA FindFreePath ==
  ASSUME Order \in Nat \ {0}, NEW target \in 1..Order
  PROVE  \E f : /\ IsPath(f, target)
                /\ find_free(target) = IF tree[1] > target - 1 THEN INVALID_POS ELSE f[target]
<1> DEFINE A == [index : Nat, depth : Nat]
           G == [k \in 2..target |-> [p \in A |-> Descend(p, target - k)]]
           at[d \in 1..target] == IF d = 1 THEN root ELSE Descend(at[d - 1], target - d)
<1>1. root \in A
  BY Zenon DEF root
<1>2. ASSUME NEW p \in A, NEW s PROVE Descend(p, s) \in A
  <2>1. left_child(p) \in A /\ right_child(p) \in A
    BY DEF left_child, right_child
  <2> QED
    BY Zenon, <2>1 DEF Descend
<1>3. G \in [(1 + 1)..target -> [A -> A]]
  BY <1>2
<1>4. 1 \in Nat /\ target \in Nat /\ 1 <= target
  OBVIOUS
<1> HIDE DEF A, G, at
<1>5. PICK f : History(f, 1, target, A, root, G)
  BY Zenon, <1>1, <1>3, <1>4, Iterate
<1>6. f \in [1..target -> A] /\ f[1] = root
  BY Zenon, <1>5 DEF History
<1>7. ASSUME NEW d \in 2..target PROVE f[d] = Descend(f[d - 1], target - d)
  <2>1. d \in (1 + 1)..target /\ d - 1 \in 1..target
    BY <1>4
  <2>2. f[d] = G[d][f[d - 1]] /\ f[d - 1] \in A
    BY Zenon, <1>5, <1>6, <2>1 DEF History
  <2> QED
    BY Zenon, <2>2 DEF G
<1>8. f = [d \in 1..target |-> IF d = 1 THEN root ELSE Descend(f[d - 1], target - d)]
  <2>1. ASSUME NEW d \in 1..target
        PROVE  f[d] = IF d = 1 THEN root ELSE Descend(f[d - 1], target - d)
    BY <1>4, <1>6, <1>7
  <2> QED
    BY Zenon, <1>6, <2>1
<1>9. at = [d \in 1..target |-> IF d = 1 THEN root ELSE Descend(at[d - 1], target - d)]
  BY Zenon, <1>8 DEF at
<1>10. find_free(target) = IF tree[1] > target - 1 THEN INVALID_POS ELSE at[target]
  BY Zenon DEF find_free, at
<1>11. ASSUME NEW d \in 1..target PROVE at[d] \in Positions /\ at[d].depth = d
  <2> DEFINE T == {k \in Nat : k \in 1..target /\ ~(at[k] \in Positions /\ at[k].depth = k)}
  <2> SUFFICES ASSUME T # {} PROVE FALSE
    BY <1>4
  <2>1. PICK x \in T : \A y \in T : x <= y
    BY Zenon, Smallest
  <2>2. x # 1
    <3>1. at[1] = root /\ root \in Positions
      BY <1>4, <1>9, Family
    <3> QED
      BY <2>1, <3>1 DEF root
  <2>3. x - 1 \in Nat /\ x - 1 \in 1..target /\ x - 1 \notin T /\ x \in 1..target
    BY <1>4, <2>1, <2>2
  <2>4. at[x - 1] \in Positions /\ at[x - 1].depth = x - 1 /\ at[x - 1].depth < Order
    BY <1>4, <2>3
  <2>5. at[x] = Descend(at[x - 1], target - x)
    BY Zenon, <1>9, <2>2, <2>3
  <2>6. at[x] \in {left_child(at[x - 1]), right_child(at[x - 1])}
    BY Zenon, <2>5 DEF Descend
  <2>7. at[x] \in Positions /\ at[x].depth = (x - 1) + 1
    BY Zenon, <2>4, <2>6, ChildBelow
  <2> QED
    BY <2>1, <2>7
<1>12. IsPath(at, target)
  <2>1. at \in [1..target -> Positions] /\ at[1] = root
    BY <1>4, <1>9, <1>11
  <2>2. ASSUME NEW d \in 2..target PROVE at[d] = Descend(at[d - 1], target - d)
    BY <1>4, <1>9
  <2> QED
    BY Zenon, <1>11, <2>1, <2>2 DEF IsPath
<1> QED
  BY Zenon, <1>10, <1>12

\* Every position lies below the root.
LEMMA BelowRoot ==
  ASSUME Order \in Nat \ {0}, NEW at \in Positions PROVE Below(at, root)
<1>1. at.depth \in 1..Order
  BY Zenon, IsPosition
<1>2. 1 \in 1..at.depth
  BY <1>1
<1>3. /\ Ancestor(at, 1) \in Positions /\ Ancestor(at, 1).depth = 1
      /\ Below(at, Ancestor(at, 1))
  BY Zenon, <1>2, AncestorIs
<1>4. Ancestor(at, 1).index = 1
  BY Zenon, <1>3, Family
<1>5. root \in Positions /\ root.index = 1
  BY Zenon, Family DEF root
<1>6. Ancestor(at, 1) = root
  BY Zenon, <1>3, <1>4, <1>5, IndexIsUnique
<1> QED
  BY Zenon, <1>3, <1>6

\* The path leads from every position on it down to its end.
LEMMA PathBelow ==
  ASSUME Order \in Nat \ {0}, NEW target \in 1..Order, NEW f, IsPath(f, target),
         NEW d \in 1..target
  PROVE  Below(f[target], f[d])
<1> DEFINE T == {k \in Nat : target - k \in 1..target /\ ~Below(f[target], f[target - k])}
<1> SUFFICES ASSUME T # {} PROVE FALSE
  <2>1. target - d \in Nat /\ target - (target - d) = d
    OBVIOUS
  <2> QED
    BY Zenon, <2>1
<1>1. PICK x \in T : \A y \in T : x <= y
  BY Zenon, Smallest
<1>2. ASSUME NEW k \in 1..target PROVE f[k] \in Positions /\ f[k].depth = k
  BY Zenon DEF IsPath
<1>3. x # 0
  <2>1. f[target] \in Positions /\ target - 0 = target
    BY <1>2
  <2>2. Below(f[target], f[target - 0])
    BY Zenon, <2>1, BelowSelf
  <2> QED
    BY Zenon, <1>1, <2>2
<1> DEFINE b == f[target]
           a == f[target - x]
           c == f[target - x + 1]
<1>4. target - x \in 1..target /\ target - x + 1 \in 2..target /\ x - 1 \in Nat
  BY <1>1, <1>3
<1>5. Below(b, c)
  <2>1. x - 1 \notin T /\ target - (x - 1) = target - x + 1
    BY <1>1, <1>4
  <2> QED
    BY <1>4, <2>1
<1>6. c \in {left_child(a), right_child(a)}
  <2>1. c = Descend(f[(target - x + 1) - 1], target - (target - x + 1))
    BY Zenon, <1>4 DEF IsPath
  <2>2. (target - x + 1) - 1 = target - x
    BY <1>4
  <2> QED
    BY Zenon, <2>1, <2>2 DEF Descend
<1>7. a \in Positions /\ b \in Positions /\ a.depth < b.depth
  BY <1>2, <1>3, <1>4
<1>8. Below(b, a)
  BY Zenon, <1>5, <1>6, <1>7, BelowChildren
<1> QED
  BY Zenon, <1>1, <1>8

\* The search never enters a branch without room for the target.
LEMMA PathHasRoom ==
  ASSUME Order \in Nat \ {0}, NEW M, Exact(tree, M, {}),
         NEW target \in 1..Order, NEW f, IsPath(f, target), tree[1] <= target - 1,
         NEW d \in 1..target
  PROVE  tree[f[d].index] <= target - d
<1> DEFINE T == {k \in Nat : k \in 1..target /\ ~(tree[f[k].index] <= target - k)}
<1> SUFFICES ASSUME T # {} PROVE FALSE
  OBVIOUS
<1>1. PICK x \in T : \A y \in T : x <= y
  BY Zenon, Smallest
<1>2. x # 1
  <2>1. f[1].index = 1
    BY DEF IsPath, root
  <2> QED
    BY Zenon, <1>1, <2>1
<1>3. x - 1 \in 1..target /\ x \in 2..target /\ x - 1 \notin T
  BY <1>1, <1>2
<1> DEFINE a == f[x - 1]
           l == tree[2 * a.index]
           r == tree[2 * a.index + 1]
<1>4. tree[a.index] <= target - x + 1
  BY <1>3
<1>5. a \in Positions /\ a.depth = x - 1 /\ a.depth < Order
  BY <1>3 DEF IsPath
<1>6. f[x] = Descend(a, target - x)
  BY Zenon, <1>3 DEF IsPath
<1>7. Consistent(tree, a) /\ Statuses(tree)
  BY Zenon, <1>5 DEF Exact
<1>8. /\ tree[a.index] \in 0..local_offset(a) /\ l \in Nat /\ r \in Nat
      /\ local_offset(a) \in Nat /\ local_offset(a) = Order - x + 2
  <2>1. /\ tree[a.index] \in 0..local_offset(a) /\ local_offset(a) \in 1..Order
        /\ l \in 0..local_offset(a) - 1 /\ r \in 0..local_offset(a) - 1
    BY Zenon, <1>5, <1>7, StatusTypes
  <2> QED
    BY <1>5, <2>1 DEF local_offset
<1>9. \/ f[x].index = 2 * a.index
      \/ f[x].index = 2 * a.index + 1
  BY <1>6 DEF Descend, left_child, right_child
<1>10. /\ f[x].index = 2 * a.index + 1 =>
            l >= target - x + 1 \/ (r # 0 /\ l < r /\ ~(r >= target - x + 1))
       /\ f[x].index = 2 * a.index => ~(l >= target - x + 1)
  <2>1. 2 * a.index # 2 * a.index + 1
    BY <1>5, IsPosition
  <2>2. left_child(a).index = 2 * a.index /\ right_child(a).index = 2 * a.index + 1
    BY Zenon DEF left_child, right_child
  <2>3. f[x] = IF l >= target - x + 1 THEN right_child(a)
               ELSE IF r >= target - x + 1 THEN left_child(a)
               ELSE IF r # 0 /\ l < r THEN right_child(a)
               ELSE left_child(a)
    BY Zenon, <1>6, <2>2 DEF Descend
  <2> HIDE DEF l, r
  <2> QED
    BY Zenon, <2>1, <2>2, <2>3
<1>11. l = 0 /\ r = 0 => l <= target - x /\ r <= target - x
  BY <1>3
<1>12. (l # 0 \/ r # 0) => tree[a.index] = (IF l <= r THEN l ELSE r) + 1
  BY Zenon, <1>7 DEF Consistent
<1>13. tree[f[x].index] <= target - x
  <2>1. CASE f[x].index = 2 * a.index
    <3>1. ~(l >= target - x + 1)
      BY Zenon, <1>10, <2>1
    <3>2. l <= target - x
      BY <1>3, <1>8, <3>1
    <3> QED
      BY Zenon, <2>1, <3>2
  <2>2. CASE f[x].index = 2 * a.index + 1
    <3>0. l >= target - x + 1 \/ (r # 0 /\ l < r /\ ~(r >= target - x + 1))
      BY Zenon, <1>10, <2>2
    <3>1. r <= target - x
      <4> DEFINE s == tree[a.index]
      <4>1. s <= target - x + 1 /\ l \in Nat /\ r \in Nat /\ s \in Nat
        BY <1>4, <1>8
      <4>2. (l # 0 \/ r # 0) => s = (IF l <= r THEN l ELSE r) + 1
        BY Zenon, <1>12
      <4>3. x \in Nat /\ target \in Nat /\ x <= target
        BY <1>3
      <4> HIDE DEF l, r, s, a
      <4> QED
        BY <3>0, <4>1, <4>2, <4>3
    <3> QED
      BY Zenon, <2>2, <3>1
  <2> QED
    BY Zenon, <1>9, <2>1, <2>2
<1> QED
  BY Zenon, <1>1, <1>13

\* What buddy_tree_find_free returns in an exact tree is free.
LEMMA FoundIsFree ==
  ASSUME Order \in Nat \ {0}, NEW M, Exact(tree, M, {}),
         NEW target \in 1..Order, find_free(target) # INVALID_POS
  PROVE  /\ find_free(target) \in Positions /\ find_free(target).depth = target
         /\ \A m \in M : ~Overlap(find_free(target), m)
<1>1. PICK f : /\ IsPath(f, target)
               /\ find_free(target) = IF tree[1] > target - 1 THEN INVALID_POS ELSE f[target]
  BY Zenon, FindFreePath
<1> DEFINE b == f[target]
<1>2. find_free(target) = b /\ ~(tree[1] > target - 1)
  BY Zenon, <1>1
<1>3. tree[1] \in Nat
  <2>1. root \in Positions /\ root.index = 1
    BY Zenon, Family DEF root
  <2>2. 1 \in Indices
    BY Zenon, <2>1, IsPosition
  <2> QED
    BY Zenon, <2>2 DEF Exact, Statuses
<1>4. tree[1] <= target - 1
  BY <1>2, <1>3
<1>5. ASSUME NEW d \in 1..target
      PROVE  /\ f[d] \in Positions /\ f[d].depth = d
             /\ Below(b, f[d]) /\ tree[f[d].index] <= target - d
  <2>1. f[d] \in Positions /\ f[d].depth = d
    BY Zenon, <1>1 DEF IsPath
  <2>2. Below(b, f[d])
    BY Zenon, <1>1, PathBelow
  <2>3. tree[f[d].index] <= target - d
    BY Zenon, <1>1, <1>4, PathHasRoom
  <2> QED
    BY Zenon, <2>1, <2>2, <2>3
<1>6. b \in Positions /\ b.depth = target /\ tree[b.index] <= target - target
  BY <1>5
<1>7. tree[b.index] = 0
  <2>1. tree[b.index] \in Nat
    BY Zenon, <1>6, IsPosition DEF Exact, Statuses
  <2> QED
    BY <1>6, <2>1
<1>8. ASSUME NEW m \in M, Overlap(b, m) PROVE FALSE
  <2>1. m \in Positions /\ OwnMark(tree, m)
    BY Zenon DEF Exact
  <2>2. m.depth \in 1..Order /\ local_offset(m) = Order - m.depth + 1
    BY Zenon, <2>1, IsPosition DEF local_offset
  <2>3. tree[m.index] = Order - m.depth + 1
    BY Zenon, <2>1, <2>2 DEF OwnMark
  <2>4. CASE b.depth <= m.depth
    <3>1. Below(m, b)
      BY Zenon, <1>6, <1>8, <2>1, <2>4, OverlapIs
    <3>2. tree[m.index] # 0
      BY <2>2, <2>3
    <3>3. tree[b.index] # 0
      BY Zenon, <1>6, <2>1, <3>1, <3>2, UseShows
    <3> QED
      BY Zenon, <1>7, <3>3
  <2>5. CASE m.depth < b.depth
    <3>1. Below(b, m)
      BY <1>6, <1>8, <2>1, <2>2, <2>5, OverlapIs
    <3>2. m.depth \in 1..target
      BY <1>6, <2>2, <2>5
    <3>3. f[m.depth] = m
      BY Zenon, <1>5, <1>6, <2>1, <3>1, <3>2, AboveUnique
    <3>4. tree[m.index] <= target - m.depth
      BY Zenon, <1>5, <3>2, <3>3
    <3> QED
      BY <2>2, <2>3, <3>4
  <2> QED
    BY <1>6, <2>2, <2>4, <2>5
<1> QED
  BY Zenon, <1>2, <1>6, <1>8

\* A free block leaves room in every position above it.
LEMMA RoomShows ==
  ASSUME Order \in Nat \ {0}, NEW M, Exact(tree, M, {}),
         NEW p \in Positions, \A m \in M : ~Overlap(p, m),
         NEW a \in Positions, Below(p, a)
  PROVE  tree[a.index] <= p.depth - a.depth
<1> DEFINE Bad(c) == c \in Positions /\ Below(p, c) /\ ~(tree[c.index] <= p.depth - c.depth)
           T == {k \in Nat : \E c \in Positions : Bad(c) /\ p.depth - c.depth = k}
<1>1. ASSUME NEW c \in Positions, Below(p, c) PROVE p.depth - c.depth \in Nat
  <2>1. p.depth \in 1..Order /\ c.depth \in 1..Order
    BY Zenon, IsPosition
  <2>2. c.depth <= p.depth
    BY Zenon, <1>1 DEF Below
  <2> QED
    BY <2>1, <2>2
<1> SUFFICES ASSUME T # {} PROVE FALSE
  BY Zenon, <1>1
<1>2. PICK x \in T : \A y \in T : x <= y
  BY Zenon, Smallest
<1>3. PICK c \in Positions : Bad(c) /\ p.depth - c.depth = x
  BY Zenon, <1>2
<1>4. /\ p.depth \in 1..Order /\ c.depth \in 1..Order /\ c.depth <= p.depth
      /\ p.index \in Nat /\ c.index \in Nat
  BY Zenon, <1>3, IsPosition DEF Below
<1>5. c.depth # p.depth
  <2>1. ASSUME c.depth = p.depth PROVE FALSE
    <3>1. c = p
      BY Zenon, <1>3, <2>1, BelowSelf, AboveUnique
    <3>2. tree[p.index] = 0
      BY Zenon, UntouchedIsFree
    <3> QED
      BY <1>3, <1>4, <3>1, <3>2
  <2> QED
    BY Zenon, <2>1
<1>6. c.depth < p.depth /\ c.depth < Order
  BY <1>4, <1>5
<1>7. PICK e \in {left_child(c), right_child(c)} : Below(p, e)
  BY Zenon, <1>3, <1>6, BelowChildren
<1>8. e \in Positions /\ e.depth = c.depth + 1
  BY Zenon, <1>6, ChildBelow
<1>9. ~Bad(e)
  <2>1. ASSUME Bad(e) PROVE FALSE
    <3>1. p.depth - e.depth \in T
      BY Zenon, <1>1, <1>7, <1>8, <2>1
    <3>2. x <= p.depth - e.depth
      BY Zenon, <1>2, <3>1
    <3> QED
      BY <1>3, <1>4, <1>8, <3>2
  <2> QED
    BY Zenon, <2>1
<1>10. tree[e.index] <= p.depth - c.depth - 1
  BY <1>4, <1>7, <1>8, <1>9
<1>11. Statuses(tree) /\ Consistent(tree, c) /\ (OwnMark(tree, c) => c \in M)
  BY Zenon, <1>6 DEF Exact
<1> DEFINE l == tree[2 * c.index]
           r == tree[2 * c.index + 1]
<1>12. /\ l \in Nat /\ r \in Nat /\ tree[c.index] \in Nat
       /\ e.index \in {2 * c.index, 2 * c.index + 1}
  <2>1. /\ tree[c.index] \in 0..local_offset(c) /\ local_offset(c) \in 1..Order
        /\ l \in 0 .. local_offset(c) - 1 /\ r \in 0 .. local_offset(c) - 1
    BY Zenon, <1>6, <1>11, StatusTypes
  <2>2. e.index \in {2 * c.index, 2 * c.index + 1}
    BY <1>7 DEF left_child, right_child
  <2> QED
    BY <2>1, <2>2
<1>13. tree[e.index] \in {l, r}
  BY Zenon, <1>12
<1>14. l = 0 /\ r = 0 => tree[c.index] = 0
  <2>1. ASSUME l = 0, r = 0, tree[c.index] # 0 PROVE FALSE
    <3>1. tree[c.index] = local_offset(c)
      BY Zenon, <1>11, <2>1 DEF Consistent
    <3>2. OwnMark(tree, c)
      BY Zenon, <2>1, <3>1 DEF OwnMark
    <3>3. ~Overlap(p, c)
      BY Zenon, <1>11, <3>2
    <3>4. c.depth <= p.depth /\ Below(p, c)
      BY Zenon, <1>3, <1>4
    <3> QED
      BY Zenon, <3>3, <3>4, OverlapIs
  <2> QED
    BY Zenon, <2>1
<1>15. (l # 0 \/ r # 0) => tree[c.index] = (IF l <= r THEN l ELSE r) + 1
  BY Zenon, <1>11 DEF Consistent
<1>16. tree[c.index] <= p.depth - c.depth
  <2> HIDE DEF l, r
  <2> QED
    BY <1>4, <1>6, <1>10, <1>12, <1>13, <1>14, <1>15
<1> QED
  BY Zenon, <1>3, <1>16

\* buddy_tree_find_free gives up only when there is no free block of the depth.
LEMMA FindsFree ==
  ASSUME Order \in Nat \ {0}, NEW M, Exact(tree, M, {}), NEW p \in Positions,
         \A m \in M : ~Overlap(p, m)
  PROVE  find_free(p.depth) # INVALID_POS
<1>1. p.depth \in 1..Order
  BY Zenon, IsPosition
<1>2. root \in Positions /\ root.index = 1 /\ root.depth = 1 /\ Below(p, root)
  BY Zenon, Family, BelowRoot DEF root
<1>3. tree[root.index] <= p.depth - root.depth
  BY Zenon, <1>2, RoomShows
<1>4. tree[1] <= p.depth - 1 /\ tree[1] \in Nat
  <2>1. tree[1] \in Nat
    BY Zenon, <1>2, IsPosition DEF Exact, Statuses
  <2> QED
    BY Zenon, <1>2, <1>3, <2>1
<1>5. PICK f : /\ IsPath(f, p.depth)
               /\ find_free(p.depth) = IF tree[1] > p.depth - 1 THEN INVALID_POS ELSE f[p.depth]
  BY Zenon, <1>1, FindFreePath
<1>6. find_free(p.depth) = f[p.depth] /\ f[p.depth] \in Positions
  <2>1. ~(tree[1] > p.depth - 1)
    BY <1>1, <1>4
  <2> QED
    BY <1>1, <1>5, <2>1 DEF IsPath
<1>7. f[p.depth].depth # 0
  BY <1>6, IsPosition
<1> QED
  BY <1>6, <1>7 DEF INVALID_POS

\* Below a block that is wholly used, every status is 0.
LEMMA MarkCovers ==
  ASSUME Order \in Nat \ {0}, NEW M, Exact(tree, M, {}), NEW m \in M,
         NEW b \in Positions, Below(b, m), b # m
  PROVE  tree[b.index] = 0
<1>1. m \in Positions /\ OwnMark(tree, m)
  BY Zenon DEF Exact
<1>2. /\ b.depth \in 1..Order /\ m.depth \in 1..Order /\ m.depth <= b.depth
  BY Zenon, <1>1, IsPosition DEF Below
<1>3. m.depth < b.depth
  <2>1. m.depth = b.depth => b = m
    BY Zenon, <1>1, BelowSelf, AboveUnique
  <2> QED
    BY <1>2, <2>1
<1>4. m.depth < Order
  BY <1>2, <1>3
<1>5. PICK c \in {left_child(m), right_child(m)} : Below(b, c)
  BY Zenon, <1>1, <1>3, BelowChildren
<1>6. c \in Positions
  BY Zenon, <1>1, <1>4, ChildBelow
<1>7. tree[c.index] = 0
  BY <1>1, <1>4 DEF OwnMark, left_child, right_child
<1> QED
  BY Zenon, <1>5, <1>6, <1>7, UseShows

\* Two positions above the same one lie above each other.
LEMMA AboveOrdered ==
  ASSUME Order \in Nat, NEW b \in Positions, NEW a \in Positions, NEW c \in Positions,
         Below(b, a), Below(b, c), a.depth <= c.depth
  PROVE  Below(c, a)
<1>1. Below(b, b) /\ b.depth <= b.depth
  BY Zenon, BelowSelf DEF Below
<1>2. Overlap(b, b)
  BY Zenon, <1>1, OverlapIs
<1>3. a.depth <= b.depth /\ c.depth <= b.depth
  BY Zenon DEF Below
<1>4. Interval(b) \subseteq Interval(a) /\ Interval(b) \subseteq Interval(c)
  BY Zenon, <1>3, OverlapIs
<1>5. Overlap(a, c)
  BY Zenon, <1>2, <1>4 DEF Overlap
<1> QED
  BY Zenon, <1>5, OverlapIs

\* A nonempty set of depths has a deepest one.
LEMMA Deepest ==
  ASSUME NEW n \in Nat, NEW T, T \subseteq 1..n, T # {}
  PROVE  \E d \in T : \A e \in T : e <= d
<1> DEFINE S == {k \in Nat : n - k \in T}
<1>1. PICK t \in T : TRUE
  BY Zenon
<1>2. n - t \in S
  <2>1. n - (n - t) = t /\ n - t \in Nat
    BY <1>1
  <2> QED
    BY Zenon, <1>1, <2>1
<1>3. PICK k \in S : \A y \in S : k <= y
  BY Zenon, <1>2, Smallest
<1>4. ASSUME NEW e \in T PROVE e <= n - k
  <2>1. n - (n - e) = e /\ n - e \in Nat
    OBVIOUS
  <2>2. n - e \in S
    BY Zenon, <2>1
  <2>3. k <= n - e /\ k \in Nat
    BY Zenon, <1>3, <2>2
  <2> QED
    BY <2>3
<1> QED
  BY Zenon, <1>3, <1>4

\* buddy_tree_is_free answers what the set of marked positions says.
LEMMA IsFreeIs ==
  ASSUME Order \in Nat \ {0}, NEW M, Exact(tree, M, {}), NEW at \in Positions
  PROVE  is_free(at) <=> \A m \in M : ~Overlap(at, m)
<1> DEFINE used == {d \in 1..(at.depth - 1) : tree[Ancestor(at, d).index] # 0}
           top == CHOOSE d \in used : \A e \in used : e <= d
           nearest == Ancestor(at, top)
<1>1. is_free(at) <=> /\ tree[at.index] = 0
                      /\ used = {} \/ tree[nearest.index] # local_offset(nearest)
  BY Zenon DEF is_free
<1>2. at.depth \in 1..Order /\ at.depth - 1 \in Nat
  BY Zenon, IsPosition
<1>3. ASSUME used # {} PROVE top \in used /\ \A e \in used : e <= top
  <2>1. used \subseteq 1..(at.depth - 1)
    BY Zenon
  <2>2. \E d \in used : \A e \in used : e <= d
    <3> HIDE DEF used
    <3> QED
      BY Zenon, <1>2, <1>3, <2>1, Deepest
  <2> QED
    BY Zenon, <2>2
<1>4. ASSUME NEW d \in 1..(at.depth - 1)
      PROVE  /\ Ancestor(at, d) \in Positions /\ Ancestor(at, d).depth = d
             /\ Below(at, Ancestor(at, d))
  BY <1>2, AncestorIs
<1>5. ASSUME NEW d \in used
      PROVE  d \in 1..(at.depth - 1) /\ tree[Ancestor(at, d).index] # 0
  BY Zenon
<1>6. ASSUME NEW d \in 1..(at.depth - 1), tree[Ancestor(at, d).index] # 0 PROVE d \in used
  BY Zenon, <1>6
<1> HIDE DEF used, top
<1>7. ASSUME \A m \in M : ~Overlap(at, m) PROVE is_free(at)
  <2>1. tree[at.index] = 0
    BY Zenon, <1>7, UntouchedIsFree
  <2>2. ASSUME used # {} PROVE tree[nearest.index] # local_offset(nearest)
    <3>1. top \in 1..(at.depth - 1)
      BY Zenon, <1>3, <1>5, <2>2
    <3>2. nearest \in Positions /\ nearest.depth = top /\ Below(at, nearest)
      BY Zenon, <1>4, <3>1
    <3>3. tree[nearest.index] <= at.depth - nearest.depth
      BY Zenon, <1>7, <3>2, RoomShows
    <3>4. local_offset(nearest) = Order - nearest.depth + 1
      BY Zenon DEF local_offset
    <3> QED
      BY <1>2, <3>1, <3>2, <3>3, <3>4
  <2> QED
    BY Zenon, <1>1, <2>1, <2>2
<1>8. ASSUME is_free(at), NEW m \in M, Overlap(at, m) PROVE FALSE
  <2>1. m \in Positions /\ OwnMark(tree, m) /\ m.depth \in 1..Order
    BY Zenon, IsPosition DEF Exact
  <2>2. tree[m.index] = Order - m.depth + 1
    BY Zenon, <2>1 DEF OwnMark, local_offset
  <2>3. tree[m.index] # 0
    BY <2>1, <2>2
  <2>4. CASE at.depth <= m.depth
    <3>1. Below(m, at)
      BY Zenon, <1>8, <2>1, <2>4, OverlapIs
    <3>2. tree[at.index] # 0
      BY Zenon, <2>1, <2>3, <3>1, UseShows
    <3> QED
      BY Zenon, <1>1, <1>8, <3>2
  <2>5. CASE m.depth < at.depth
    <3>1. m.depth <= at.depth /\ m.depth \in 1..(at.depth - 1)
      BY <1>2, <2>1, <2>5
    <3>2. Below(at, m)
      BY Zenon, <1>8, <2>1, <3>1, OverlapIs
    <3>3. Ancestor(at, m.depth) = m
      BY Zenon, <1>4, <2>1, <3>1, <3>2, AboveUnique
    <3>4. m.depth \in used
      BY Zenon, <1>6, <2>3, <3>1, <3>3
    <3>5. top \in used /\ m.depth <= top
      BY Zenon, <1>3, <3>4
    <3>6. /\ nearest \in Positions /\ nearest.depth = top /\ Below(at, nearest)
          /\ tree[nearest.index] # 0
      BY Zenon, <1>4, <1>5, <3>5
    <3>7. tree[nearest.index] # local_offset(nearest)
      BY Zenon, <1>1, <1>8, <3>4
    <3>8. nearest # m
      BY Zenon, <2>1, <3>7 DEF OwnMark
    <3>9. Below(nearest, m)
      BY Zenon, <2>1, <3>2, <3>5, <3>6, AboveOrdered
    <3>10. tree[nearest.index] = 0
      BY Zenon, <3>6, <3>8, <3>9, MarkCovers
    <3> QED
      BY Zenon, <3>6, <3>10
  <2> QED
    BY <1>2, <2>1, <2>4, <2>5
<1> QED
  BY Zenon, <1>7, <1>8

\* The smallest block at the address of a position lies below the position.
FirstLeaf(at) == [index |-> effective_memory_size + address(at), depth |-> Order]

\* Going down to the left from a position ends at the smallest block at its
\* address (position_for_address starts there).
LEMMA FirstLeafBelow ==
  ASSUME Order \in Nat \ {0}, NEW at \in Positions
  PROVE  FirstLeaf(at) \in Positions /\ Below(FirstLeaf(at), at)
<1>1. /\ at.depth \in 1..Order /\ at.index \in Nat \ {0} /\ at.depth - 1 \in Nat
      /\ pow2[at.depth - 1] <= at.index /\ at.index < pow2[at.depth]
  BY Zenon, IsPosition
<1> DEFINE i == at.index
           n == Order - at.depth
           q == pow2[n]
           lo == pow2[at.depth - 1]
           hi == pow2[at.depth]
<1>2. n \in Nat /\ at.depth \in Nat /\ (at.depth - 1) + n = Order - 1 /\ at.depth + n = Order
  BY <1>1
<1>3. q \in Nat \ {0} /\ lo \in Nat /\ hi \in Nat /\ effective_memory_size \in Nat
  BY <1>1, <1>2, Pow2 DEF effective_memory_size
<1>4. pow2[(at.depth - 1) + n] = lo * q /\ pow2[at.depth + n] = hi * q
  BY Zenon, <1>1, <1>2, Pow2Sum
<1>5. pow2[Order - 1] = lo * q /\ pow2[Order] = hi * q
  BY Zenon, <1>2, <1>4
<1>6. effective_memory_size + address(at) = i * q
  <2>1. i * q \in Int
    BY <1>1, <1>3
  <2> HIDE DEF q
  <2>2. address(at) = i * q - effective_memory_size
    BY Zenon DEF address, q
  <2> QED
    BY <1>3, <2>1, <2>2
<1>7. FirstLeaf(at) = [index |-> i * q, depth |-> Order]
  BY Zenon, <1>6 DEF FirstLeaf
<1> HIDE DEF i, q, lo, hi, n
<1>8. lo * q <= i * q /\ i * q < hi * q /\ i * q < (i + 1) * q /\ i * q \in Nat
  <2>1. i \in Nat /\ lo <= i /\ i < hi
    BY Zenon, <1>1 DEF i, lo, hi
  <2> QED
    BY <1>3, <2>1
<1>9. [index |-> i * q, depth |-> Order] \in Positions
  <2>1. Order \in 1..Order
    OBVIOUS
  <2>2. pow2[Order - 1] <= i * q /\ i * q < pow2[Order]
    BY Zenon, <1>5, <1>8
  <2> QED
    BY Zenon, <1>8, <2>1, <2>2, IsPosition
<1>10. Below([index |-> i * q, depth |-> Order], at)
  <2>1. i * pow2[Order - at.depth] <= i * q /\ i * q < (i + 1) * pow2[Order - at.depth]
    BY <1>3, <1>8 DEF q, n
  <2> QED
    BY <1>1, <2>1 DEF Below, i
<1> QED
  BY Zenon, <1>7, <1>9, <1>10

\* buddy_free_find_pos returns a position, with a status, or none.
LEMMA FreeFindPosType ==
  ASSUME Order \in Nat \ {0}, NEW b \in Positions, NEW size,
         valid(free_find_pos(address(b), size))
  PROVE  /\ free_find_pos(address(b), size) \in Positions
         /\ tree[free_find_pos(address(b), size).index] # 0
<1> DEFINE marked == {d \in 1..Order : tree[Ancestor(FirstLeaf(b), d).index] # 0}
           top == CHOOSE d \in marked : \A e \in marked : e <= d
           at == Ancestor(FirstLeaf(b), top)
<1>1. position_for_address(address(b)) =
        IF marked = {} \/ address(at) # address(b) THEN INVALID_POS ELSE at
  BY Zenon DEF position_for_address, FirstLeaf
<1>2. ~valid(INVALID_POS)
  BY Zenon DEF valid, INVALID_POS
<1>3. free_find_pos(address(b), size) = position_for_address(address(b))
  BY Zenon, <1>2 DEF free_find_pos
<1>4. marked # {} /\ free_find_pos(address(b), size) = at
  BY Zenon, <1>1, <1>2, <1>3
<1>5. top \in marked
  <2>1. marked \subseteq 1..Order
    BY Zenon
  <2>2. \E d \in marked : \A e \in marked : e <= d
    <3> HIDE DEF marked
    <3> QED
      BY Zenon, <1>4, <2>1, Deepest
  <2> QED
    BY Zenon, <2>2
<1>6. top \in 1..Order /\ tree[at.index] # 0
  BY Zenon, <1>5
<1> HIDE DEF top, marked
<1>7. FirstLeaf(b) \in Positions /\ FirstLeaf(b).depth = Order
  BY Zenon, FirstLeafBelow DEF FirstLeaf
<1>8. at \in Positions
  BY Zenon, <1>6, <1>7, AncestorIs
<1> QED
  BY Zenon, <1>4, <1>6, <1>8

\* From the address of a marked block, position_for_address climbs to it.
LEMMA AddressFindsMark ==
  ASSUME Order \in Nat \ {0}, NEW M, Exact(tree, M, {}), NEW b \in M
  PROVE  position_for_address(address(b)) = b
<1> DEFINE leaf == FirstLeaf(b)
           marked == {d \in 1..Order : tree[Ancestor(leaf, d).index] # 0}
           top == CHOOSE d \in marked : \A e \in marked : e <= d
           at == Ancestor(leaf, top)
<1>1. position_for_address(address(b)) =
        IF marked = {} \/ address(at) # address(b) THEN INVALID_POS ELSE at
  BY Zenon DEF position_for_address, FirstLeaf
<1>2. b \in Positions /\ OwnMark(tree, b) /\ b.depth \in 1..Order
  BY Zenon, IsPosition DEF Exact
<1>3. leaf \in Positions /\ leaf.depth = Order /\ Below(leaf, b)
  BY Zenon, <1>2, FirstLeafBelow DEF FirstLeaf
<1>4. ASSUME NEW d \in 1..Order
      PROVE  /\ Ancestor(leaf, d) \in Positions /\ Ancestor(leaf, d).depth = d
             /\ Below(leaf, Ancestor(leaf, d))
  BY Zenon, <1>3, AncestorIs
<1>5. Ancestor(leaf, b.depth) = b
  BY Zenon, <1>2, <1>3, <1>4, AboveUnique
<1>6. tree[b.index] # 0
  BY <1>2 DEF OwnMark, local_offset
<1>7. b.depth \in marked
  BY Zenon, <1>2, <1>5, <1>6
<1>8. ASSUME NEW d \in marked PROVE d <= b.depth
  <2>1. d \in 1..Order /\ tree[Ancestor(leaf, d).index] # 0
    BY Zenon
  <2> DEFINE c == Ancestor(leaf, d)
  <2>2. c \in Positions /\ c.depth = d /\ Below(leaf, c)
    BY Zenon, <1>4, <2>1
  <2>3. ASSUME b.depth < d PROVE FALSE
    <3>1. b.depth <= c.depth /\ c # b
      BY <1>2, <2>1, <2>2, <2>3
    <3>2. Below(c, b)
      BY Zenon, <1>2, <1>3, <2>2, <3>1, AboveOrdered
    <3>3. tree[c.index] = 0
      BY Zenon, <2>2, <3>1, <3>2, MarkCovers
    <3> QED
      BY Zenon, <2>1, <3>3
  <2> QED
    BY <1>2, <2>1, <2>3
<1>9. marked \subseteq Int
  OBVIOUS
<1>10. top = b.depth
  <2> HIDE DEF marked
  <2>1. top \in marked /\ b.depth <= top
    BY Zenon, <1>7, <1>8
  <2> HIDE DEF top
  <2>2. top <= b.depth /\ top \in Int
    BY Zenon, <1>8, <1>9, <2>1
  <2> QED
    BY <1>2, <2>1, <2>2
<1>11. at = b
  BY Zenon, <1>5, <1>10
<1> QED
  BY Zenon, <1>1, <1>7, <1>11

\* A length that a block of this depth is allocated for fits the block.
LEMMA LengthFits ==
  ASSUME OrderFits, NEW size \in 1..effective_memory_size, NEW d \in 1..Order,
         depth_for_size(size) = d
  PROVE  size <= size_for_depth(d) /\ size > size_for_depth(d) \div 2
<1>1. Order \in Nat \ {0} /\ effective_memory_size \in Nat
  <2>1. Order \in Nat \ {0} /\ Order - 1 \in Nat
    BY DEF OrderFits
  <2> QED
    BY Zenon, <2>1, Pow2 DEF effective_memory_size
<1>2. size \in Nat \ {0}
  BY <1>1
<1>3. size_for_depth(d) \in Nat \ {0}
  BY Zenon, <1>1, Sizes
<1>4. /\ size_for_depth(d) \div size < 2
      /\ \A e \in 1 .. d - 1 : size_for_depth(e) \div size >= 2
  BY Zenon, <1>2, DepthForSize
<1> DEFINE s == size_for_depth(d)
<1> HIDE DEF s
<1>5. s \div size < 2 /\ s \in Nat \ {0}
  BY Zenon, <1>3, <1>4 DEF s
<1>6. size > s \div 2
  BY <1>2, <1>5
<1>7. size <= s
  <2>1. CASE d = 1
    <3>1. s = effective_memory_size
      BY Zenon, <1>1, <2>1, Sizes DEF s, effective_memory_size
    <3> QED
      BY <3>1
  <2>2. CASE d # 1
    <3>1. d - 1 \in 1..Order /\ d - 1 < Order /\ d - 1 \in 1 .. d - 1 /\ d - 1 + 1 = d
      BY <1>1, <2>2
    <3>2. size_for_depth(d - 1) = 2 * size_for_depth(d - 1 + 1)
      BY Zenon, <1>1, <3>1, Sizes
    <3>3. size_for_depth(d - 1) = 2 * s
      BY Zenon, <3>1, <3>2 DEF s
    <3>4. size_for_depth(d - 1) \div size >= 2
      BY Zenon, <1>4, <3>1
    <3>5. (2 * s) \div size >= 2
      BY Zenon, <3>3, <3>4
    <3> QED
      BY <1>2, <1>5, <3>5
  <2> QED
    BY Zenon, <2>1, <2>2
<1> QED
  BY Zenon, <1>6, <1>7 DEF s

\* buddy_free_find_pos finds the very position that was marked.
LEMMA FreeFinds ==
  ASSUME OrderFits, NEW M, Exact(tree, M, {}), NEW b \in M,
         NEW size \in 1..effective_memory_size, depth_for_size(size) = b.depth
  PROVE  free_find_pos(address(b), size) = b /\ valid(b)
<1>1. Order \in Nat \ {0}
  BY Zenon DEF OrderFits
<1>2. b \in Positions
  BY Zenon DEF Exact
<1>3. b.depth \in 1..Order /\ b.index \in Nat \ {0} /\ b.index \in Indices
  BY Zenon, <1>1, <1>2, IsPosition
<1>4. valid(b)
  <2>1. pow2[Order] \in Nat
    BY Zenon, <1>1, Pow2
  <2> QED
    BY <1>3, <2>1 DEF valid, Indices, upper_pos_bound
<1>5. size <= size_for_depth(b.depth) /\ size > size_for_depth(b.depth) \div 2
  BY Zenon, <1>3, LengthFits
<1>6. position_for_address(address(b)) = b
  BY Zenon, <1>1, AddressFindsMark
<1> QED
  BY Zenon, <1>4, <1>5, <1>6 DEF free_find_pos

-----------------------------------------------------------------------------
(* The invariant *)

\* What is marked in the tree: the entry's own position from its store on.
Marked ==
  IF stage # "chain" THEN held
  ELSE IF entry.tp = "BUDDY_FREE" THEN held \ {entry.at} ELSE held \cup {entry.at}

\* The ancestor whose status is still to be repaired.
Stale == IF stage = "chain" THEN Pending(chain_pos) ELSE {}

\* The position that an entry is about to take.
Taking == IF entry.tp \in {"MASK", "BUDDY_ALLOC"} THEN {entry.at} ELSE {}

Shape ==
  /\ Statuses(tree)
  /\ held \subseteq Positions /\ todo \subseteq Positions
  /\ damaged \in BOOLEAN
  /\ \/ /\ stage = "idle" /\ entry = NoEntry
        /\ chain_pos = INVALID_POS /\ size_current = 0
     \/ /\ stage = "start"
        /\ entry \in [tp : {"MASK", "BUDDY_ALLOC", "BUDDY_FREE"}, at : Positions]
        /\ chain_pos = INVALID_POS /\ size_current = 0
     \/ /\ stage = "chain"
        /\ entry \in [tp : {"MASK", "BUDDY_ALLOC", "BUDDY_FREE"}, at : Positions]
        /\ chain_pos \in Positions /\ Below(entry.at, chain_pos)
        /\ size_current = tree[chain_pos.index]

\* The smallest blocks, also after a machine died among the ancestors.
LeafInv ==
  \A at \in Positions : at.depth = Order =>
    /\ at # entry.at => (tree[at.index] # 0 <=> at \in held)
    /\ at = entry.at /\ stage = "chain" =>
         (tree[at.index] # 0 <=> entry.tp # "BUDDY_FREE")

Sound ==
  ~damaged =>
    /\ Exact(tree, Marked, Stale)
    /\ Apart(held \cup todo \cup Taking)
    /\ todo \cap held = {} /\ Taking \cap (held \cup todo) = {}
    /\ entry.tp = "BUDDY_FREE" => entry.at \in held

BuddyInv == Shape /\ LeafInv /\ Sound

\* No position is INVALID_POS.
LEMMA NotInvalid == ASSUME Order \in Nat, NEW at \in Positions PROVE at # INVALID_POS
<1>1. at.depth # 0
  BY IsPosition
<1> QED
  BY <1>1 DEF INVALID_POS

\* buddy_init clears the tree.
LEMMA InvInit == ASSUME OrderFits, BuddyInit PROVE BuddyInv
<1>1. Order \in Nat \ {0}
  BY Zenon DEF OrderFits
<1>2. Virtual \subseteq Positions /\ Apart(Virtual)
  BY Zenon, VirtualApart
<1>3. ASSUME NEW at \in Positions
      PROVE  at.index \in Indices /\ tree[at.index] = 0 /\ local_offset(at) \in Nat \ {0}
  BY <1>1, IsPosition DEF BuddyInit, local_offset
<1>4. Statuses(tree)
  <2>1. tree \in [Indices -> Nat]
    BY Zenon DEF BuddyInit
  <2> QED
    BY <1>3, <2>1 DEF Statuses
<1>5. Exact(tree, {}, {})
  <2>1. ASSUME NEW at \in Positions, at.depth < Order PROVE Consistent(tree, at)
    <3>1. /\ left_child(at) \in Positions /\ right_child(at) \in Positions
          /\ left_child(at).index = 2 * at.index /\ right_child(at).index = 2 * at.index + 1
      BY Zenon, <1>1, <1>4, <2>1, StatusTypes
    <3>2. tree[2 * at.index] = 0 /\ tree[2 * at.index + 1] = 0 /\ tree[at.index] = 0
      BY Zenon, <1>3, <3>1
    <3> QED
      BY Zenon, <3>2 DEF Consistent
  <2>2. ASSUME NEW at \in Positions PROVE ~OwnMark(tree, at)
    BY Zenon, <1>3 DEF OwnMark
  <2> QED
    BY Zenon, <1>4, <2>1, <2>2 DEF Exact
<1>6. Shape
  BY Zenon, <1>2, <1>4 DEF Shape, BuddyInit
<1>7. LeafInv
  BY Zenon, <1>3 DEF LeafInv, BuddyInit
<1>8. Sound
  <2>1. /\ Marked = {} /\ Stale = {} /\ Taking = {} /\ held = {} /\ todo = Virtual
        /\ entry.tp = "INVALID"
    BY Zenon DEF BuddyInit, Marked, Stale, Taking, NoEntry
  <2>2. held \cup todo \cup Taking = Virtual
    BY Zenon, <2>1
  <2> QED
    BY Zenon, <1>2, <1>5, <2>1, <2>2 DEF Sound
<1> QED
  BY Zenon, <1>6, <1>7, <1>8 DEF BuddyInv

EntryTypes == {"MASK", "BUDDY_ALLOC", "BUDDY_FREE"}

\* Starting an entry on a position that may be taken, or on a block.
LEMMA InvStart ==
  ASSUME OrderFits, BuddyInv, NEW tp \in EntryTypes, NEW at \in Positions, Start(tp, at),
         todo' \subseteq todo,
         ~damaged /\ tp = "BUDDY_FREE" => at \in held,
         ~damaged /\ tp # "BUDDY_FREE" =>
           at \notin held \cup todo' /\ Apart(held \cup todo' \cup {at})
  PROVE  BuddyInv'
<1>1. /\ stage = "idle" /\ entry = NoEntry /\ chain_pos = INVALID_POS /\ size_current = 0
      /\ Statuses(tree) /\ held \subseteq Positions /\ todo \subseteq Positions
      /\ damaged \in BOOLEAN
  BY Zenon DEF BuddyInv, Shape, Start
<1>2. /\ stage' = "start" /\ entry' = [tp |-> tp, at |-> at] /\ tree' = tree /\ held' = held
      /\ chain_pos' = chain_pos /\ size_current' = size_current /\ damaged' = damaged
  BY Zenon DEF Start
<1>3. entry'.tp = tp /\ entry'.at = at
  BY Zenon, <1>2
<1>4. Shape'
  <2>1. entry' \in [tp : {"MASK", "BUDDY_ALLOC", "BUDDY_FREE"}, at : Positions]
    BY Zenon, <1>2 DEF EntryTypes
  <2>2. Statuses(tree')
    BY Zenon, <1>1, <1>2
  <2> QED
    BY Zenon, <1>1, <1>2, <2>1, <2>2 DEF Shape
<1>5. LeafInv'
  <2>1. ASSUME NEW b \in Positions PROVE b # entry.at
    <3>1. Order \in Nat
      BY Zenon DEF OrderFits
    <3> QED
      BY Zenon, <1>1, <3>1, NotInvalid DEF NoEntry
  <2>2. ASSUME NEW b \in Positions, b.depth = Order PROVE tree[b.index] # 0 <=> b \in held
    BY Zenon, <2>1, <2>2 DEF BuddyInv, LeafInv
  <2> QED
    BY Zenon, <1>2, <2>2 DEF LeafInv
<1>6. ASSUME ~damaged
      PROVE  /\ Exact(tree', Marked', Stale')
             /\ Apart(held' \cup todo' \cup Taking')
             /\ todo' \cap held' = {} /\ Taking' \cap (held' \cup todo') = {}
             /\ entry'.tp = "BUDDY_FREE" => entry'.at \in held'
  <2>1. /\ Exact(tree, held, {}) /\ Apart(held \cup todo) /\ todo \cap held = {}
    <3>1. Marked = held /\ Stale = {} /\ Taking = {}
      BY Zenon, <1>1 DEF Marked, Stale, Taking, NoEntry
    <3>2. held \cup todo \cup Taking = held \cup todo
      BY Zenon, <3>1
    <3> QED
      BY Zenon, <1>6, <3>1, <3>2 DEF BuddyInv, Sound
  <2>2. Marked' = held /\ Stale' = {}
    BY Zenon, <1>2 DEF Marked, Stale
  <2>3. CASE tp = "BUDDY_FREE"
    <3>1. Taking' = {} /\ at \in held
      BY Zenon, <1>3, <1>6, <2>3 DEF Taking
    <3>2. Apart(held \cup todo' \cup {})
      BY Zenon, <2>1 DEF Apart
    <3> QED
      BY Zenon, <1>2, <1>3, <2>1, <2>2, <3>1, <3>2
  <2>4. CASE tp # "BUDDY_FREE"
    <3>1. Taking' = {at} /\ at \notin held \cup todo' /\ Apart(held \cup todo' \cup {at})
      BY Zenon, <1>3, <1>6, <2>4 DEF Taking, EntryTypes
    <3> QED
      BY Zenon, <1>2, <1>3, <2>1, <2>2, <2>4, <3>1
  <2> QED
    BY Zenon, <2>3, <2>4
<1>7. Sound'
  BY Zenon, <1>2, <1>6 DEF Sound
<1> QED
  BY Zenon, <1>4, <1>5, <1>7 DEF BuddyInv

\* An idle tree without damage is exact.
LEMMA IdleExact ==
  ASSUME BuddyInv, stage = "idle", ~damaged
  PROVE  Exact(tree, held, {}) /\ Apart(held \cup todo) /\ todo \cap held = {}
<1>1. entry = NoEntry
  BY Zenon DEF BuddyInv, Shape
<1>2. Marked = held /\ Stale = {} /\ Taking = {}
  BY Zenon, <1>1 DEF Marked, Stale, Taking, NoEntry
<1>3. held \cup todo \cup Taking = held \cup todo
  BY Zenon, <1>2
<1> QED
  BY Zenon, <1>2, <1>3 DEF BuddyInv, Sound

\* toggle_virtual_slots, which masks the end of the memory, picks positions
\* that are apart from each other and from what is held.
LEMMA InvToggle == ASSUME OrderFits, BuddyInv, toggle_virtual_slots PROVE BuddyInv'
<1>1. PICK at \in todo : Start("MASK", at) /\ todo' = todo \ {at}
  BY Zenon DEF toggle_virtual_slots
<1>2. at \in Positions /\ "MASK" \in EntryTypes /\ todo' \subseteq todo
  BY Zenon, <1>1 DEF BuddyInv, Shape, EntryTypes
<1>3. ASSUME ~damaged PROVE at \notin held \cup todo' /\ Apart(held \cup todo' \cup {at})
  <2>1. Apart(held \cup todo) /\ todo \cap held = {}
    BY Zenon, <1>1, <1>3, IdleExact DEF Start
  <2>2. at \notin held \cup todo'
    BY Zenon, <1>1, <2>1
  <2>3. held \cup todo' \cup {at} \subseteq held \cup todo
    BY Zenon, <1>1
  <2>4. Apart(held \cup todo' \cup {at})
    BY Zenon, <2>1, <2>3 DEF Apart
  <2> QED
    BY Zenon, <2>2, <2>4
<1> QED
  BY Zenon, <1>1, <1>2, <1>3, InvStart

\* What an allocation finds is a position, also in a damaged tree.
LEMMA MallocFindPosType ==
  ASSUME OrderFits, NEW size \in 1..effective_memory_size, valid(malloc_find_pos(size))
  PROVE  /\ malloc_find_pos(size) \in Positions /\ size <= MemSize
         /\ malloc_find_pos(size) = find_free(depth_for_size(size))
         /\ depth_for_size(size) \in 1..Order
<1>1. Order \in Nat \ {0} /\ effective_memory_size \in Nat /\ MemSize \in Nat
  <2>1. Order \in Nat \ {0} /\ Order - 1 \in Nat
    BY DEF OrderFits
  <2>2. effective_memory_size \in Nat
    BY Zenon, <2>1, Pow2 DEF effective_memory_size
  <2> QED
    BY <2>1, <2>2 DEF OrderFits
<1>2. ~valid(INVALID_POS)
  BY Zenon DEF valid, INVALID_POS
<1>3. malloc_find_pos(size) = find_free(depth_for_size(size)) /\ size <= MemSize
  BY <1>1, <1>2 DEF malloc_find_pos
<1>4. depth_for_size(size) \in 1..Order
  <2>1. size \in Nat \ {0}
    BY <1>1
  <2> QED
    BY Zenon, <2>1, DepthForSize
<1> DEFINE d == depth_for_size(size)
<1> HIDE DEF d
<1>5. d \in 1..Order
  BY Zenon, <1>4 DEF d
<1>6. PICK f : IsPath(f, d) /\ find_free(d) = IF tree[1] > d - 1 THEN INVALID_POS ELSE f[d]
  BY Zenon, <1>1, <1>5, FindFreePath
<1>7. find_free(d) = f[d]
  BY Zenon, <1>2, <1>3, <1>6 DEF d
<1>8. f[d] \in Positions
  BY <1>5, <1>6 DEF IsPath
<1> QED
  BY Zenon, <1>3, <1>4, <1>7, <1>8 DEF d

\* buddy_malloc_find_pos: the position found is apart from all others.
LEMMA InvMalloc ==
  ASSUME OrderFits, BuddyInv, NEW size \in 1..effective_memory_size, Malloc(size)
  PROVE  BuddyInv'
<1> DEFINE at == malloc_find_pos(size)
<1>1. /\ todo = {} /\ valid(at) /\ Start("BUDDY_ALLOC", at) /\ todo' = todo
  BY Zenon DEF Malloc
<1>2. at \in Positions /\ at = find_free(depth_for_size(size)) /\ depth_for_size(size) \in 1..Order
  BY Zenon, <1>1, MallocFindPosType
<1>3. Order \in Nat \ {0}
  BY Zenon DEF OrderFits
<1> HIDE DEF at
<1>4. ASSUME ~damaged PROVE at \notin held \cup todo' /\ Apart(held \cup todo' \cup {at})
  <2>1. Exact(tree, held, {}) /\ Apart(held \cup todo)
    BY Zenon, <1>1, <1>4, IdleExact DEF Start
  <2>2. find_free(depth_for_size(size)) # INVALID_POS
    BY Zenon, <1>2, <1>3, NotInvalid
  <2>3. \A m \in held : ~Overlap(at, m)
    BY Zenon, <1>2, <1>3, <2>1, <2>2, FoundIsFree
  <2>4. Overlap(at, at)
    <3>1. Below(at, at) /\ at.depth <= at.depth
      BY Zenon, <1>2, <1>3, BelowSelf DEF Below
    <3> QED
      BY Zenon, <1>2, <1>3, <3>1, OverlapIs
  <2>5. at \notin held
    BY Zenon, <2>3, <2>4
  <2>6. ASSUME NEW m \in held PROVE ~Overlap(m, at)
    BY Zenon, <2>3 DEF Overlap
  <2>7. Apart(held \cup todo' \cup {at})
    BY <1>1, <2>1, <2>3, <2>6 DEF Apart
  <2> QED
    BY Zenon, <1>1, <2>5, <2>7
<1>5. "BUDDY_ALLOC" \in EntryTypes /\ todo' \subseteq todo
  BY Zenon, <1>1 DEF EntryTypes
<1> QED
  BY Zenon, <1>1, <1>2, <1>4, <1>5, InvStart

\* free_find_pos: the position found is held.
LEMMA InvFree ==
  ASSUME OrderFits, BuddyInv, NEW size \in 1..effective_memory_size, NEW b \in held,
         Free(b, size)
  PROVE  BuddyInv'
<1> DEFINE at == free_find_pos(address(b), size)
<1>1. /\ valid(at) /\ Start("BUDDY_FREE", at) /\ todo' = todo /\ depth_for_size(size) = b.depth
  BY Zenon DEF Free
<1>2. b \in Positions /\ Order \in Nat \ {0}
  BY Zenon DEF BuddyInv, Shape, OrderFits
<1>3. at \in Positions
  BY Zenon, <1>1, <1>2, FreeFindPosType
<1>4. ASSUME ~damaged PROVE at \in held
  <2>1. Exact(tree, held, {})
    BY Zenon, <1>1, <1>4, IdleExact DEF Start
  <2>2. at = b
    BY Zenon, <1>1, <2>1, FreeFinds
  <2> QED
    BY Zenon, <2>2
<1>5. "BUDDY_FREE" \in EntryTypes /\ todo' \subseteq todo
  BY Zenon, <1>1 DEF EntryTypes
<1> HIDE DEF at
<1> QED
  BY Zenon, <1>1, <1>3, <1>4, <1>5, InvStart

\* The store of an entry's own status.
LEMMA InvWriteOwn ==
  ASSUME OrderFits, BuddyInv, stage = "start", NEW s \in 0..local_offset(entry.at),
         WriteOwn(s), s # 0 <=> entry.tp # "BUDDY_FREE",
         NEW N, N = IF entry.tp = "BUDDY_FREE" THEN held \ {entry.at} ELSE held \cup {entry.at},
         ~damaged => Exact(tree', N, Pending(entry.at))
  PROVE  BuddyInv'
<1>1. Order \in Nat \ {0} /\ Order \in Nat
  BY Zenon DEF OrderFits
<1>2. /\ entry \in [tp : {"MASK", "BUDDY_ALLOC", "BUDDY_FREE"}, at : Positions]
      /\ entry.at \in Positions /\ Statuses(tree) /\ damaged \in BOOLEAN
      /\ held \subseteq Positions /\ todo \subseteq Positions
  BY Zenon DEF BuddyInv, Shape
<1>3. /\ stage' = "chain" /\ chain_pos' = entry.at /\ size_current' = s
      /\ held' = held /\ todo' = todo /\ entry' = entry /\ damaged' = damaged
      /\ Store(tree', tree, entry.at, s)
  BY Zenon DEF WriteOwn, Store
<1>4. Statuses(tree') /\ tree'[entry.at.index] = s
  BY <1>1, <1>2, <1>3, StoreTypes
<1>5. Shape'
  <2>1. Below(entry.at, entry.at)
    BY Zenon, <1>1, <1>2, BelowSelf
  <2> QED
    BY Zenon, <1>2, <1>3, <1>4, <2>1 DEF Shape
<1>6. LeafInv'
  <2>1. ASSUME NEW b \in Positions, b # entry.at PROVE tree'[b.index] = tree[b.index]
    <3>1. b.index # entry.at.index /\ b.index \in Indices
      BY Zenon, <1>1, <1>2, <2>1, IndexIsUnique, IsPosition
    <3> QED
      BY Zenon, <1>2, <1>3, <3>1 DEF Store, Statuses
  <2>2. ASSUME NEW b \in Positions, b.depth = Order, b # entry.at
        PROVE  tree'[b.index] # 0 <=> b \in held
    BY Zenon, <2>1, <2>2 DEF BuddyInv, LeafInv
  <2> QED
    BY Zenon, <1>3, <1>4, <2>2 DEF LeafInv
<1>7. Sound'
  <2>1. Marked' = N /\ Stale' = Pending(entry.at) /\ Taking' = Taking
    BY Zenon, <1>3 DEF Marked, Stale, Taking
  <2>2. ASSUME ~damaged
        PROVE  /\ Apart(held \cup todo \cup Taking)
               /\ todo \cap held = {} /\ Taking \cap (held \cup todo) = {}
               /\ entry.tp = "BUDDY_FREE" => entry.at \in held
    BY Zenon, <2>2 DEF BuddyInv, Sound
  <2> QED
    BY Zenon, <1>3, <2>1, <2>2 DEF Sound
<1> QED
  BY Zenon, <1>5, <1>6, <1>7 DEF BuddyInv

\* The end of an entry.
LEMMA InvFinish ==
  ASSUME OrderFits, BuddyInv, stage \in {"start", "chain"}, Finish, tree' = tree,
         entry.at.depth = Order => (tree[entry.at.index] # 0 <=> entry.tp # "BUDDY_FREE"),
         ~damaged => Exact(tree, held', {})
  PROVE  BuddyInv'
<1>1. Order \in Nat
  BY Zenon DEF OrderFits
<1>2. /\ entry \in [tp : {"MASK", "BUDDY_ALLOC", "BUDDY_FREE"}, at : Positions]
      /\ entry.at \in Positions /\ Statuses(tree) /\ damaged \in BOOLEAN
      /\ held \subseteq Positions /\ todo \subseteq Positions
  BY Zenon DEF BuddyInv, Shape
<1>3. /\ held' = IF entry.tp = "BUDDY_FREE" THEN held \ {entry.at} ELSE held \cup {entry.at}
      /\ stage' = "idle" /\ chain_pos' = INVALID_POS /\ size_current' = 0
      /\ todo' = todo /\ entry' = NoEntry /\ damaged' = damaged
  BY Zenon DEF Finish
<1>4. Shape'
  BY Zenon, <1>2, <1>3 DEF Shape
<1>5. LeafInv'
  <2>1. ASSUME NEW b \in Positions, b.depth = Order PROVE tree[b.index] # 0 <=> b \in held'
    <3>1. CASE b = entry.at
      BY Zenon, <1>3, <2>1, <3>1
    <3>2. CASE b # entry.at
      <4>1. tree[b.index] # 0 <=> b \in held
        BY Zenon, <2>1, <3>2 DEF BuddyInv, LeafInv
      <4> QED
        BY Zenon, <1>3, <3>2, <4>1
    <3> QED
      BY Zenon, <3>1, <3>2
  <2> QED
    BY Zenon, <1>3, <2>1 DEF LeafInv
<1>6. Sound'
  <2>1. Marked' = held' /\ Stale' = {} /\ Taking' = {} /\ entry'.tp = "INVALID"
    BY Zenon, <1>3 DEF Marked, Stale, Taking, NoEntry
  <2>2. ASSUME ~damaged
        PROVE  Apart(held' \cup todo \cup {}) /\ todo \cap held' = {}
    <3>1. /\ Apart(held \cup todo \cup Taking)
          /\ todo \cap held = {} /\ Taking \cap (held \cup todo) = {}
      BY Zenon, <2>2 DEF BuddyInv, Sound
    <3>2. held' \subseteq held \cup Taking
      BY Zenon, <1>2, <1>3 DEF Taking
    <3> QED
      BY Zenon, <3>1, <3>2 DEF Apart
  <2> QED
    BY Zenon, <1>3, <2>1, <2>2 DEF Sound
<1> QED
  BY Zenon, <1>4, <1>5, <1>6 DEF BuddyInv

\* The store of an allocation or a mask: its position becomes full, and only
\* its parent is left to repair.
LEMMA InvMark == ASSUME OrderFits, BuddyInv, mark PROVE BuddyInv'
<1>1. Order \in Nat \ {0}
  BY Zenon DEF OrderFits
<1> DEFINE at == entry.at
<1>2. at \in Positions /\ Statuses(tree) /\ entry.tp \in {"MASK", "BUDDY_ALLOC", "BUDDY_FREE"}
  BY Zenon DEF BuddyInv, Shape, mark
<1>3. stage = "start" /\ entry.tp # "BUDDY_FREE" /\ WriteOwn(local_offset(at))
  BY Zenon DEF mark
<1>4. local_offset(at) \in 1..Order
  BY Zenon, <1>1, <1>2, StatusTypes
<1>5. local_offset(at) \in 0..local_offset(at) /\ local_offset(at) # 0
  BY <1>4
<1>6. Store(tree', tree, at, local_offset(at))
  BY Zenon, <1>3 DEF WriteOwn, Store
<1>7. ASSUME ~damaged PROVE Exact(tree', held \cup {at}, Pending(at))
  <2>1. Marked = held /\ Stale = {} /\ Taking = {at}
    BY Zenon, <1>2, <1>3 DEF Marked, Stale, Taking
  <2>2. /\ Exact(tree, held, {}) /\ Apart(held \cup todo \cup {at})
        /\ {at} \cap (held \cup todo) = {}
    BY Zenon, <1>7, <2>1 DEF BuddyInv, Sound
  <2>3. \A m \in held : ~Overlap(at, m)
    BY Zenon, <2>2 DEF Apart
  <2> QED
    BY Zenon, <1>1, <1>2, <1>6, <2>2, <2>3, MarkExact
<1> QED
  BY Zenon, <1>3, <1>5, <1>7, InvWriteOwn

\* The store of buddy_tree_release: the position becomes free, and only its
\* parent is left to repair.
LEMMA InvRelease == ASSUME OrderFits, BuddyInv, release PROVE BuddyInv'
<1>1. Order \in Nat \ {0}
  BY Zenon DEF OrderFits
<1> DEFINE at == entry.at
<1>2. at \in Positions /\ Statuses(tree)
  BY Zenon DEF BuddyInv, Shape, release
<1>3. stage = "start" /\ entry.tp = "BUDDY_FREE"
  BY Zenon DEF release
<1>4. local_offset(at) \in 1..Order /\ tree[at.index] \in 0..local_offset(at)
  BY Zenon, <1>1, <1>2, StatusTypes
<1>5. ASSUME ~damaged PROVE Exact(tree, held, {}) /\ Apart(held) /\ at \in held
  <2>1. Marked = held /\ Stale = {}
    BY Zenon, <1>3 DEF Marked, Stale
  <2>2. Exact(tree, held, {}) /\ Apart(held \cup todo \cup Taking) /\ at \in held
    BY Zenon, <1>3, <1>5, <2>1 DEF BuddyInv, Sound
  <2> QED
    BY Zenon, <2>2 DEF Apart
<1>6. CASE tree[at.index] # local_offset(at)
  <2>1. Finish /\ tree' = tree
    BY Zenon, <1>6 DEF release
  <2>2. damaged
    BY Zenon, <1>5, <1>6 DEF Exact, OwnMark
  <2>3. at.depth = Order => tree[at.index] = 0
    BY <1>1, <1>4, <1>6 DEF local_offset
  <2> QED
    BY Zenon, <1>3, <2>1, <2>2, <2>3, InvFinish
<1>7. CASE tree[at.index] = local_offset(at)
  <2>1. WriteOwn(0)
    BY Zenon, <1>7 DEF release
  <2>2. Store(tree', tree, at, 0)
    BY Zenon, <2>1 DEF WriteOwn, Store
  <2>3. ASSUME ~damaged PROVE Exact(tree', held \ {at}, Pending(at))
    BY Zenon, <1>1, <1>5, <2>2, <2>3, ReleaseExact
  <2>4. 0 \in 0..local_offset(at)
    BY <1>4
  <2> QED
    BY Zenon, <1>3, <2>1, <2>3, <2>4, InvWriteOwn
<1> QED
  BY Zenon, <1>6, <1>7

\* A turn of update_parent_chain computes the status from both children of the
\* ancestor, and never looks at a smallest block.
LEMMA ChainTurn ==
  ASSUME OrderFits, BuddyInv, stage = "chain", chain_pos.index # 1
  PROVE  /\ parent(chain_pos) \in Positions /\ parent(chain_pos).depth < Order
         /\ Below(entry.at, parent(chain_pos)) /\ Overlap(parent(chain_pos), entry.at)
         /\ parent(chain_pos) # entry.at
         /\ Target = TargetOf(tree, parent(chain_pos))
         /\ Target \in 0..local_offset(parent(chain_pos))
<1>1. Order \in Nat \ {0} /\ Order \in Nat
  BY Zenon DEF OrderFits
<1>2. /\ entry.at \in Positions /\ Statuses(tree) /\ chain_pos \in Positions
      /\ Below(entry.at, chain_pos) /\ size_current = tree[chain_pos.index]
  BY Zenon DEF BuddyInv, Shape
<1> DEFINE p == parent(chain_pos)
           l == tree[2 * p.index]
           r == tree[2 * p.index + 1]
<1>3. /\ p \in Positions /\ p.depth < Order /\ Below(entry.at, p) /\ p # entry.at
      /\ Overlap(p, entry.at)
  BY Zenon, <1>1, <1>2, AboveParent
<1>4. chain_pos \in {left_child(p), right_child(p)}
  <2>1. chain_pos.depth # 1
    BY Zenon, <1>1, <1>2, Family
  <2> QED
    BY Zenon, <1>1, <1>2, <2>1, Family
<1>5. /\ l \in 0 .. local_offset(p) - 1 /\ r \in 0 .. local_offset(p) - 1
      /\ local_offset(p) \in 1..Order /\ p.index \in Nat
  BY Zenon, <1>1, <1>2, <1>3, StatusTypes, IsPosition
<1>6. \/ chain_pos.index = 2 * p.index
      \/ chain_pos.index = 2 * p.index + 1
  BY <1>4 DEF left_child, right_child
<1> HIDE DEF p
<1>7. \/ size_current = l /\ tree[sibling(chain_pos.index)] = r
      \/ size_current = r /\ tree[sibling(chain_pos.index)] = l
  <2>1. CASE chain_pos.index = 2 * p.index
    <3>1. sibling(chain_pos.index) = 2 * p.index + 1
      BY <1>5, <2>1 DEF sibling
    <3> QED
      BY Zenon, <1>2, <2>1, <3>1
  <2>2. CASE chain_pos.index = 2 * p.index + 1
    <3>1. sibling(chain_pos.index) = 2 * p.index
      BY <1>5, <2>2 DEF sibling
    <3> QED
      BY Zenon, <1>2, <2>2, <3>1
  <2> QED
    BY Zenon, <1>6, <2>1, <2>2
<1> HIDE DEF l, r
<1>8. target_parent(l, r) = target_parent(r, l)
  BY <1>5 DEF target_parent
<1>9. Target = target_parent(l, r)
  BY Zenon, <1>7, <1>8 DEF Target
<1>10. target_parent(l, r) \in 0..local_offset(p)
  BY <1>5 DEF target_parent
<1> QED
  BY Zenon, <1>3, <1>9, <1>10 DEF p, l, r, TargetOf

\* In an undamaged tree nothing above the entry's own position is marked.
LEMMA AboveUnmarked ==
  ASSUME OrderFits, BuddyInv, stage = "chain", ~damaged, NEW a \in Positions,
         Overlap(a, entry.at), a # entry.at
  PROVE  a \notin Marked
<1>1. entry.tp \in {"MASK", "BUDDY_ALLOC", "BUDDY_FREE"}
  BY Zenon DEF BuddyInv, Shape
<1>2. /\ Apart(held \cup todo \cup Taking)
      /\ entry.tp = "BUDDY_FREE" => entry.at \in held
  BY Zenon DEF BuddyInv, Sound
<1>3. entry.at \in held \cup Taking
  BY Zenon, <1>1, <1>2 DEF Taking
<1>4. a \notin held
  BY Zenon, <1>2, <1>3 DEF Apart
<1> QED
  BY Zenon, <1>4 DEF Marked

\* One turn of update_parent_chain repairs one ancestor and leaves at most the
\* next one to repair.
LEMMA InvChain == ASSUME OrderFits, BuddyInv, update_parent_chain PROVE BuddyInv'
<1>1. Order \in Nat \ {0} /\ Order \in Nat
  BY Zenon DEF OrderFits
<1>2. /\ stage = "chain"
      /\ entry \in [tp : {"MASK", "BUDDY_ALLOC", "BUDDY_FREE"}, at : Positions]
      /\ entry.at \in Positions /\ Statuses(tree) /\ chain_pos \in Positions
      /\ held \subseteq Positions /\ todo \subseteq Positions /\ damaged \in BOOLEAN
  BY Zenon DEF BuddyInv, Shape, update_parent_chain
<1> DEFINE p == parent(chain_pos)
<1>3. ASSUME chain_pos.index # 1
      PROVE  /\ p \in Positions /\ p.depth < Order /\ Below(entry.at, p)
             /\ Overlap(p, entry.at) /\ p # entry.at
             /\ Target = TargetOf(tree, p) /\ Target \in 0..local_offset(p)
  BY Zenon, <1>2, <1>3, ChainTurn
<1>4. ASSUME ~damaged, chain_pos.index # 1
      PROVE  Exact(tree, Marked, {p}) /\ p \notin Marked
  <2>1. Stale = {p}
    BY Zenon, <1>2, <1>4 DEF Stale, Pending
  <2>2. Exact(tree, Marked, {p})
    BY Zenon, <1>4, <2>1 DEF BuddyInv, Sound
  <2>3. p \notin Marked
    BY Zenon, <1>2, <1>3, <1>4, AboveUnmarked
  <2> QED
    BY Zenon, <2>2, <2>3
<1>5. CASE chain_pos.index = 1 \/ tree[p.index] = Target
  <2>1. Finish /\ tree' = tree
    BY Zenon, <1>5 DEF update_parent_chain
  <2>2. held' = Marked
    BY Zenon, <1>2, <2>1 DEF Finish, Marked
  <2>3. ASSUME ~damaged PROVE Exact(tree, Marked, {})
    <3>1. CASE chain_pos.index = 1
      <4>1. Stale = {}
        BY Zenon, <1>2, <3>1 DEF Stale, Pending
      <4> QED
        BY Zenon, <2>3, <4>1 DEF BuddyInv, Sound
    <3>2. CASE chain_pos.index # 1
      <4>1. tree[p.index] = TargetOf(tree, p)
        BY Zenon, <1>3, <1>5, <3>2
      <4> QED
        BY Zenon, <1>1, <1>3, <1>4, <2>3, <3>2, <4>1, RepairDone
    <3> QED
      BY Zenon, <3>1, <3>2
  <2>4. entry.at.depth = Order => (tree[entry.at.index] # 0 <=> entry.tp # "BUDDY_FREE")
    BY Zenon, <1>2 DEF BuddyInv, LeafInv
  <2> QED
    BY Zenon, <1>2, <2>1, <2>2, <2>3, <2>4, InvFinish
<1>6. CASE ~(chain_pos.index = 1 \/ tree[p.index] = Target)
  <2>1. /\ tree' = [tree EXCEPT ![p.index] = Target] /\ chain_pos' = p
        /\ size_current' = Target
        /\ held' = held /\ todo' = todo /\ entry' = entry /\ stage' = stage
        /\ damaged' = damaged
    BY Zenon, <1>6 DEF update_parent_chain
  <2>2. chain_pos.index # 1
    BY Zenon, <1>6
  <2>3. /\ p \in Positions /\ p.depth < Order /\ Below(entry.at, p)
        /\ Overlap(p, entry.at) /\ p # entry.at
        /\ Target = TargetOf(tree, p) /\ Target \in 0..local_offset(p)
    BY Zenon, <1>3, <2>2
  <2>4. Store(tree', tree, p, Target)
    BY Zenon, <2>1 DEF Store
  <2> HIDE DEF p
  <2>5. Statuses(tree') /\ tree'[p.index] = Target
    BY <1>1, <1>2, <2>3, <2>4, StoreTypes
  <2>6. Shape'
    BY Zenon, <1>2, <2>1, <2>3, <2>5 DEF Shape
  <2>7. LeafInv'
    <3>1. ASSUME NEW b \in Positions, b.depth = Order PROVE tree'[b.index] = tree[b.index]
      <4>1. b # p
        BY <1>1, <2>3, <3>1
      <4>2. b.index # p.index /\ b.index \in Indices
        BY Zenon, <1>1, <2>3, <4>1, IndexIsUnique, IsPosition
      <4> QED
        BY Zenon, <1>2, <2>4, <4>2 DEF Store, Statuses
    <3> QED
      BY Zenon, <2>1, <3>1 DEF BuddyInv, LeafInv
  <2>8. Sound'
    <3>1. Marked' = Marked /\ Taking' = Taking /\ Stale' = Pending(p)
      BY Zenon, <1>2, <2>1 DEF Marked, Taking, Stale
    <3>2. ASSUME ~damaged
          PROVE  /\ Exact(tree', Marked, Pending(p))
                 /\ Apart(held \cup todo \cup Taking)
                 /\ todo \cap held = {} /\ Taking \cap (held \cup todo) = {}
                 /\ entry.tp = "BUDDY_FREE" => entry.at \in held
      <4>1. Exact(tree, Marked, {p}) /\ p \notin Marked
        BY Zenon, <1>4, <2>2, <3>2 DEF p
      <4>2. p.index # 1 => parent(p) \notin Marked
        <5>1. ASSUME p.index # 1
              PROVE  /\ parent(p) \in Positions /\ Overlap(parent(p), entry.at)
                     /\ parent(p) # entry.at
          BY Zenon, <1>1, <1>2, <2>3, <5>1, AboveParent
        <5> QED
          BY Zenon, <1>2, <3>2, <5>1, AboveUnmarked
      <4>3. Store(tree', tree, p, TargetOf(tree, p))
        BY Zenon, <2>3, <2>4
      <4>4. Exact(tree', Marked, Pending(p))
        BY Zenon, <1>1, <2>3, <4>1, <4>2, <4>3, RepairExact
      <4> QED
        BY Zenon, <3>2, <4>4 DEF BuddyInv, Sound
    <3> QED
      BY Zenon, <2>1, <3>1, <3>2 DEF Sound
  <2> QED
    BY Zenon, <2>6, <2>7, <2>8 DEF BuddyInv
<1> QED
  BY Zenon, <1>5, <1>6

\* A machine dies within an entry: the smallest blocks are still exact.
LEMMA InvCrash == ASSUME OrderFits, BuddyInv, CrashInEntry PROVE BuddyInv'
<1>1. Order \in Nat \ {0} /\ Order \in Nat
  BY Zenon DEF OrderFits
<1>2. /\ stage \in {"start", "chain"}
      /\ entry \in [tp : {"MASK", "BUDDY_ALLOC", "BUDDY_FREE"}, at : Positions]
      /\ Statuses(tree) /\ held \subseteq Positions /\ todo \subseteq Positions
      /\ damaged \in BOOLEAN
  BY Zenon DEF BuddyInv, Shape, CrashInEntry
<1>3. /\ damaged' = (damaged \/ stage = "chain") /\ stage' = "start"
      /\ chain_pos' = INVALID_POS /\ size_current' = 0
      /\ held' = held /\ todo' = todo /\ entry' = entry
  BY Zenon DEF CrashInEntry
<1>4. /\ Statuses(tree')
      /\ \A b \in Positions : b.depth = Order => tree'[b.index] = tree[b.index]
      /\ stage = "start" => tree' = tree
  <2>1. CASE tree' = tree
    BY Zenon, <1>2, <2>1
  <2>2. CASE /\ stage = "chain" /\ chain_pos.index # 1
             /\ tree' = [tree EXCEPT ![parent(chain_pos).index] = 0]
    <3> DEFINE p == parent(chain_pos)
    <3>1. p \in Positions /\ p.depth < Order
      BY Zenon, <2>2, ChainTurn
    <3>2. Store(tree', tree, p, 0)
      BY Zenon, <2>2 DEF Store
    <3> HIDE DEF p
    <3>3. 0 \in 0..local_offset(p)
      <4>1. local_offset(p) \in 1..Order
        BY Zenon, <1>1, <1>2, <3>1, StatusTypes
      <4> QED
        BY <4>1
    <3>4. Statuses(tree')
      BY Zenon, <1>1, <1>2, <3>1, <3>2, <3>3, StoreTypes
    <3>5. ASSUME NEW b \in Positions, b.depth = Order PROVE tree'[b.index] = tree[b.index]
      <4>1. b # p
        BY <1>1, <3>1, <3>5
      <4>2. b.index # p.index /\ b.index \in Indices
        BY Zenon, <1>1, <3>1, <4>1, IndexIsUnique, IsPosition
      <4> QED
        BY Zenon, <1>2, <3>2, <4>2 DEF Store, Statuses
    <3> QED
      BY Zenon, <2>2, <3>4, <3>5
  <2> QED
    BY Zenon, <2>1, <2>2 DEF CrashInEntry
<1>5. Shape'
  BY Zenon, <1>2, <1>3, <1>4 DEF Shape
<1>6. LeafInv'
  BY Zenon, <1>3, <1>4 DEF BuddyInv, LeafInv
<1>7. Sound'
  <2>1. ASSUME ~damaged'
        PROVE  /\ Exact(tree, held, {}) /\ Apart(held \cup todo \cup Taking)
               /\ todo \cap held = {} /\ Taking \cap (held \cup todo) = {}
               /\ entry.tp = "BUDDY_FREE" => entry.at \in held
               /\ tree' = tree
    <3>1. stage = "start" /\ ~damaged
      BY Zenon, <1>2, <1>3, <2>1
    <3>2. Marked = held /\ Stale = {}
      BY Zenon, <3>1 DEF Marked, Stale
    <3> QED
      BY Zenon, <1>4, <3>1, <3>2 DEF BuddyInv, Sound
  <2>2. Marked' = held /\ Stale' = {} /\ Taking' = Taking
    BY Zenon, <1>3 DEF Marked, Stale, Taking
  <2> QED
    BY Zenon, <1>3, <2>1, <2>2 DEF Sound
<1> QED
  BY Zenon, <1>5, <1>6, <1>7 DEF BuddyInv

\* Every step of the allocator keeps the invariant.
LEMMA InvNext ==
  ASSUME OrderFits, BuddyInv, [BuddyNext]_buddyVars PROVE BuddyInv'
<1>1. CASE toggle_virtual_slots
  BY Zenon, <1>1, InvToggle
<1>2. CASE \E size \in 1..effective_memory_size : Malloc(size)
  BY Zenon, <1>2, InvMalloc
<1>3. CASE \E size \in 1..effective_memory_size, at \in held : Free(at, size)
  BY Zenon, <1>3, InvFree
<1>4. CASE mark
  BY Zenon, <1>4, InvMark
<1>5. CASE release
  BY Zenon, <1>5, InvRelease
<1>6. CASE update_parent_chain
  BY Zenon, <1>6, InvChain
<1>7. CASE CrashInEntry
  BY Zenon, <1>7, InvCrash
<1>8. CASE UNCHANGED buddyVars
  <2>1. Shape'
    BY Zenon, <1>8 DEF buddyVars, BuddyInv, Shape
  <2>2. LeafInv'
    BY Zenon, <1>8 DEF buddyVars, BuddyInv, LeafInv
  <2>3. Marked' = Marked /\ Stale' = Stale /\ Taking' = Taking
    BY Zenon, <1>8 DEF buddyVars, Marked, Stale, Taking
  <2>4. Sound'
    BY Zenon, <1>8, <2>3 DEF buddyVars, BuddyInv, Sound
  <2> QED
    BY Zenon, <2>1, <2>2, <2>4 DEF BuddyInv
<1> QED
  BY Zenon, <1>1, <1>2, <1>3, <1>4, <1>5, <1>6, <1>7, <1>8 DEF BuddyNext

\* The invariant holds in every state of the tree (buddy_alloc.h, the entries
\* BUDDY_ALLOC and BUDDY_FREE of execute_log, and the crashes between stores).
LEMMA BuddyInvariant == ASSUME OrderFits PROVE BuddySpec => []BuddyInv
<1>1. BuddyInit => BuddyInv
  BY Zenon, InvInit
<1>2. BuddyInv /\ [BuddyNext]_buddyVars => BuddyInv'
  BY Zenon, InvNext
<1> QED
  BY <1>1, <1>2, PTL DEF BuddySpec

\* Whenever no entry is being executed and no machine died among the ancestors,
\* every status is the one that buddy_tree_check_invariant expects, for trees of
\* every order and memories of every size: update_parent_chain may stop at the
\* first ancestor that already has its status.
THEOREM AncestorsAreConsistent == ASSUME OrderFits PROVE BuddySpec => []TreeConsistent
<1>1. BuddyInv => TreeConsistent
  <2> SUFFICES ASSUME BuddyInv, stage = "idle", ~damaged, NEW at \in Positions, at.depth < Order
               PROVE  PositionConsistent(at)
    BY Zenon DEF TreeConsistent
  <2>1. Exact(tree, held, {})
    BY Zenon, IdleExact
  <2>2. Consistent(tree, at)
    BY Zenon, <2>1 DEF Exact
  <2> QED
    BY Zenon, <2>2 DEF Consistent, PositionConsistent
<1> QED
  BY <1>1, BuddyInvariant, PTL

\* As long as no machine died while it repaired ancestors, no two positions that
\* are marked overlap, and none reaches into the masked end of the memory
\* (buddy_tree_find_free, buddy_toggle_virtual_slots).
THEOREM BlocksNeverOverlap == ASSUME OrderFits PROVE BuddySpec => []BlocksDisjoint
<1>1. BuddyInv => BlocksDisjoint
  <2> SUFFICES ASSUME BuddyInv, ~damaged PROVE \A a, b \in held : a # b => ~Overlap(a, b)
    BY Zenon DEF BlocksDisjoint
  <2>1. Apart(held \cup todo \cup Taking)
    BY Zenon DEF BuddyInv, Sound
  <2> QED
    BY Zenon, <2>1 DEF Apart
<1> QED
  BY <1>1, BuddyInvariant, PTL

\* Whatever died wherever, a smallest block has a status exactly when it is
\* allocated: executing BUDDY_ALLOC or BUDDY_FREE again is idempotent on it.
THEOREM SmallestBlocksExact == ASSUME OrderFits PROVE BuddySpec => []LeavesExact
<1>1. BuddyInv => LeavesExact
  <2> SUFFICES ASSUME BuddyInv, stage = "idle", NEW at \in Positions, at.depth = Order
               PROVE  tree[at.index] # 0 <=> at \in held
    BY Zenon DEF LeavesExact
  <2>1. entry = NoEntry /\ Order \in Nat
    BY Zenon DEF BuddyInv, Shape, OrderFits
  <2>2. at # entry.at
    BY Zenon, <2>1, NotInvalid DEF NoEntry
  <2> QED
    BY Zenon, <2>2 DEF BuddyInv, LeafInv
<1> QED
  BY <1>1, BuddyInvariant, PTL

\* buddy_malloc_find_pos returns a free block of the right depth whenever there
\* is one, and nothing else.
LEMMA MallocIsExact == ASSUME OrderFits, BuddyInv PROVE MallocExact
<1> SUFFICES ASSUME Settled, NEW size \in 1..MemSize
             PROVE  LET at == malloc_find_pos(size)
                        free == {p \in Positions : /\ p.depth = depth_for_size(size)
                                                   /\ \A h \in held : ~Overlap(p, h)}
                    IN  IF free = {} THEN at = INVALID_POS ELSE at \in free
  BY Zenon DEF MallocExact
<1>1. Order \in Nat \ {0} /\ MemSize \in 1..effective_memory_size
  BY Zenon DEF OrderFits
<1>2. Exact(tree, held, {})
  BY Zenon, IdleExact DEF Settled
<1>3. size \in Nat \ {0} /\ ~(size > MemSize)
  <2>1. Order - 1 \in Nat
    BY <1>1
  <2>2. effective_memory_size \in Nat
    BY Zenon, <2>1, Pow2 DEF effective_memory_size
  <2> QED
    BY <1>1, <2>2
<1> DEFINE d == depth_for_size(size)
           free == {p \in Positions : p.depth = d /\ \A h \in held : ~Overlap(p, h)}
<1>4. malloc_find_pos(size) = find_free(d)
  BY Zenon, <1>3 DEF malloc_find_pos
<1>5. d \in 1..Order
  BY Zenon, <1>3, DepthForSize
<1> HIDE DEF d
<1>6. find_free(d) # INVALID_POS => find_free(d) \in free
  BY Zenon, <1>1, <1>2, <1>5, FoundIsFree
<1>7. ASSUME NEW p \in free PROVE find_free(d) # INVALID_POS
  BY Zenon, <1>1, <1>2, FindsFree
<1>8. IF free = {} THEN find_free(d) = INVALID_POS ELSE find_free(d) \in free
  BY Zenon, <1>6, <1>7
<1> QED
  BY Zenon, <1>4, <1>8 DEF d

\* The searches of buddy_alloc.h are exact in a tree of every order: an
\* allocation fails only when no block of its size is free, the owner of a block
\* can free it from its address and length, and buddy_tree_is_free is right.
THEOREM SearchesAreExact == ASSUME OrderFits PROVE BuddySpec => []SearchesExact
<1>1. ASSUME BuddyInv PROVE FreeFindsBlock
  <2> SUFFICES ASSUME Settled, NEW at \in Blocks, NEW size \in 1..effective_memory_size,
                      depth_for_size(size) = at.depth
               PROVE  free_find_pos(address(at), size) = at
    BY Zenon DEF FreeFindsBlock
  <2>1. Exact(tree, held, {}) /\ at \in held
    BY Zenon, <1>1, IdleExact DEF Settled, Blocks
  <2> QED
    BY Zenon, <2>1, FreeFinds
<1>2. ASSUME BuddyInv PROVE IsFreeExact
  <2> SUFFICES ASSUME Settled, NEW at \in Positions
               PROVE  is_free(at) <=> \A h \in held : ~Overlap(at, h)
    BY Zenon DEF IsFreeExact
  <2>1. Exact(tree, held, {}) /\ Order \in Nat \ {0}
    BY Zenon, <1>2, IdleExact DEF Settled, OrderFits
  <2> QED
    BY Zenon, <2>1, IsFreeIs
<1>3. BuddyInv => SearchesExact
  BY Zenon, <1>1, <1>2, MallocIsExact DEF SearchesExact
<1> QED
  BY <1>3, BuddyInvariant, PTL

\* Every index is the index of a position (buddy_tree_position_from_index).
LEMMA IndexHasPosition ==
  ASSUME Order \in Nat \ {0}, NEW i \in Indices PROVE \E at \in Positions : at.index = i
<1>1. i \in Nat \ {0} /\ i < pow2[Order]
  <2>1. pow2[Order] \in Nat
    BY Zenon, Pow2
  <2> QED
    BY <2>1 DEF Indices, upper_pos_bound
<1> DEFINE T == {d \in Nat : i < pow2[d]}
<1>2. PICK d \in T : \A e \in T : d <= e
  <2>1. Order \in T
    BY Zenon, <1>1
  <2> QED
    BY Zenon, <2>1, Smallest
<1>3. d <= Order
  BY Zenon, <1>1, <1>2
<1>4. d # 0
  BY <1>1, <1>2, Pow2
<1>5. d - 1 \in Nat /\ d - 1 \notin T /\ d \in 1..Order
  BY <1>2, <1>3, <1>4
<1>6. pow2[d - 1] <= i
  BY <1>1, <1>5, Pow2
<1>7. [index |-> i, depth |-> d] \in Positions
  BY Zenon, <1>1, <1>2, <1>5, <1>6, IsPosition
<1> QED
  BY Zenon, <1>7

\* The variables of the tree keep their types: no status outgrows the order,
\* with which its width in the bitset is computed.
THEOREM BuddyTypes == ASSUME OrderFits PROVE BuddySpec => []BuddyTypeOK
<1>1. Order \in Nat \ {0} /\ Order \in Nat
  BY Zenon DEF OrderFits
<1>2. ASSUME BuddyInv PROVE BuddyTypeOK
  <2>1. Statuses(tree)
    BY Zenon, <1>2 DEF BuddyInv, Shape
  <2>2. ASSUME NEW at \in Positions PROVE tree[at.index] \in 0..Order
    <3>1. tree[at.index] \in 0..local_offset(at) /\ local_offset(at) \in 1..Order
      BY Zenon, <1>1, <2>1, StatusTypes
    <3> QED
      BY <1>1, <3>1
  <2>3. tree \in [Indices -> 0..Order]
    <3>1. ASSUME NEW i \in Indices PROVE tree[i] \in 0..Order
      BY Zenon, <1>1, <2>2, IndexHasPosition
    <3> QED
      BY Zenon, <2>1, <3>1 DEF Statuses
  <2>4. INVALID_POS \notin Positions
    BY Zenon, <1>1, NotInvalid
  <2>5. CASE stage = "idle"
    <3>1. /\ entry = NoEntry /\ chain_pos = INVALID_POS /\ size_current = 0
          /\ held \subseteq Positions
      BY Zenon, <1>2, <2>5 DEF BuddyInv, Shape
    <3> QED
      BY <1>1, <2>3, <2>5, <3>1 DEF BuddyTypeOK
  <2>6. CASE stage # "idle"
    <3>1. /\ entry \in [tp : {"MASK", "BUDDY_ALLOC", "BUDDY_FREE"}, at : Positions]
          /\ held \subseteq Positions /\ stage \in {"start", "chain"}
          /\ stage = "start" => chain_pos = INVALID_POS /\ size_current = 0
          /\ stage = "chain" => chain_pos \in Positions /\ size_current = tree[chain_pos.index]
      BY Zenon, <1>2, <2>6 DEF BuddyInv, Shape
    <3>2. entry # NoEntry
      <4>1. entry.tp # "INVALID"
        BY Zenon, <3>1
      <4> QED
        BY <4>1 DEF NoEntry
    <3>3. /\ size_current \in 0..Order /\ chain_pos \in Positions \cup {INVALID_POS}
          /\ (stage = "chain") <=> (chain_pos # INVALID_POS)
      BY <1>1, <2>2, <2>4, <3>1
    <3> QED
      BY Zenon, <2>3, <2>6, <3>1, <3>2, <3>3 DEF BuddyTypeOK
  <2> QED
    BY Zenon, <2>5, <2>6
<1> QED
  BY <1>2, BuddyInvariant, PTL

=============================================================================
